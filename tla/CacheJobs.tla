----------------------------- MODULE CacheJobs -----------------------------
(***************************************************************************)
(* The cached indexes of one volume, and everybody who reads, refreshes,   *)
(* writes and removes them: the requests of the MFT library and its tool   *)
(* for the .uffs file, the engine's threads for the .flowcache file, and   *)
(* the key both are sealed with.                                           *)
(*                                                                         *)
(* Every process carries out one job of the plan, a step for every access  *)
(* to what is shared. Around them files change, the journal loses its      *)
(* tail or is made anew, and a bounded number of things fail.              *)
(***************************************************************************)
EXTENDS CacheImage

CONSTANTS
  Plans,     \* who does what, on what kind of volume, with what on disk; and
             \* bounds: how many changes of files, and what may go wrong
  None,      \* no image
  MaxFaults  \* bound: how many different things go wrong in one behaviour

VARIABLES
  plan,     \* the plan of the run
  proc,     \* where each process is, and what it has in hand
  vol,      \* the volume: the name of each record in use
  journal,  \* the change journal: its id, its first entry's number, its entries
  hist,     \* the files changed so far, in order (not kept by any code)
  spent     \* what has gone wrong

envVars == <<plan, vol, journal, hist>>
vars == <<fileVars, proc, envVars, spent>>

ASSUME BoundsAssumption == MaxFaults \in Nat

Ended == {"done", "failed", "dead"}

Job(p) == plan.job[p]

FlowJobs == {"flow", "persist"}

(* read_index_cached on a read-only volume and the DataFrame loader take   *)
(* the lock to load, and then use what they loaded.                        *)
LocksToLoad(p) == Job(p) = "frame" \/ (Job(p) = "cached" /\ plan.readOnly)

-----------------------------------------------------------------------------
SetupKey == <<"setup", "save">>

SetupSeal(cached) ==
  Seal(IF cached = "plain" THEN PlainKey ELSE SetupKey, SetupKey,
       [ScanImage(vol, 0) EXCEPT !.jid = 1])

SetupFile(cached) ==
  IF cached = "none" THEN NoFile ELSE <<SetupSeal(cached), SetupSeal(cached)>>

FirstStep == [cached |-> "look", update |-> "look", get |-> "look", frame |-> "look",
              clear |-> "find", purge |-> "open", flow |-> "read",
              persist |-> "compacted", none |-> "done"]

ASSUME PlansAssumption == \A each \in Plans : each.job \in [Process -> DOMAIN FirstStep]

Init ==
  /\ plan \in Plans
  /\ vol = [f \in Files |-> CHOOSE n \in Names : TRUE]
  /\ journal = [id |-> 1, first |-> 0, log |-> << >>]
  /\ hist = << >> /\ spent = {}
  /\ files = [n \in FileNames |->
                CASE n \in {"index", "flow"} -> SetupFile(plan.cached)
                  [] n = "key" /\ plan.cached = "sealed" -> <<SetupKey>>
                  [] OTHER -> NoFile]
  /\ handle = [p \in Process |-> NoFile]
  /\ lock = [p \in Process |-> "none"]
  /\ dir = (plan.cached # "none")
  /\ proc = [p \in Process |->
               [at |-> FirstStep[Job(p)], goal |-> "load", mem |-> None, buf |-> << >>,
                key |-> None, batch |-> << >>, seen |-> [id |-> 0, next |-> 0, upto |-> 0],
                out |-> None, asIs |-> FALSE, began |-> 0, before |-> {}]]

Fault(kind) ==
  /\ kind \in plan.faults \ spent /\ Cardinality(spent) < MaxFaults
  /\ spent' = spent \union {kind}

NoFault == UNCHANGED spent

GoTo(p, step) == proc' = [proc EXCEPT ![p].at = step]

(* A process that is through forgets all but its answer.                   *)
End(p, how, image, asIs) ==
  proc' = [proc EXCEPT ![p].at = how, ![p].out = image, ![p].asIs = asIs,
                       ![p].mem = None, ![p].buf = << >>, ![p].key = None,
                       ![p].batch = << >>,
                       ![p].seen = [id |-> 0, next |-> 0, upto |-> 0]]

(* cache_dir() sweeps the directory, whoever the temporary files belong to.*)
CleanupStaleTemps == RemoveFiles(Process)

-----------------------------------------------------------------------------
(* Loading.                                                                *)

(***************************************************************************)
(* Is there a cache, and is it young enough? (On a read-only volume any    *)
(* age will do.)                                                           *)
(***************************************************************************)
CheckCacheStatus(p) ==
  /\ proc[p].at = "look"
  /\ CleanupStaleTemps
  /\ \E next \in IF ~Exists("index") THEN {"scan"}
                 ELSE IF ~LocksToLoad(p) THEN {"read", "scan"}
                 ELSE IF plan.readOnly /\ Job(p) = "cached" THEN {"lock"}
                 ELSE {"lock", "scan"} :
       proc' = [proc EXCEPT ![p].at = next, ![p].began = Len(hist),
                              ![p].before = spent \intersect {"trim", "recreate"}]
  /\ NoFault /\ UNCHANGED <<lock, dir, envVars>>

(* The lock is waited for, but not for ever.                               *)
LockToLoad(p) ==
  /\ proc[p].at = "lock"
  /\ CleanupStaleTemps
  /\ IF dir /\ MayLock(p, "shared")
     THEN Lock(p, "shared") /\ GoTo(p, "read")
     ELSE UNCHANGED lock /\ GoTo(p, "scan")
  /\ NoFault /\ UNCHANGED <<dir, envVars>>

CacheFile(p) == IF Job(p) \in FlowJobs THEN "flow" ELSE "index"

(* Mutant: the lock is not given back when loading fails. *)
LoadFailedKeepsLock(p) == UNCHANGED lock /\ GoTo(p, "scan")

LoadFailed(p) == Unlock(p) /\ GoTo(p, "scan")

(***************************************************************************)
(* A plain file of the engine is migrated: it is written again, sealed,    *)
(* before it is used.                                                      *)
(***************************************************************************)
ReadFile(p) ==
  LET content == files[CacheFile(p)]
      format == IF content = NoFile THEN "unknown" ELSE DetectFormat(content)
  IN /\ proc[p].at = "read"
     /\ CASE format = "unknown" -> LoadFailed(p)
          [] format = "encrypted" ->
               /\ proc' = [proc EXCEPT ![p].at = "key", ![p].goal = "load",
                                       ![p].buf = content]
               /\ UNCHANGED lock
          [] format = "plain" ->
               /\ proc' = [proc EXCEPT ![p].at = IF Job(p) = "flow" THEN "key" ELSE "loaded",
                                       ![p].goal = IF Job(p) = "flow" THEN "migrate" ELSE "load",
                                       ![p].buf = content,
                                       ![p].mem = content[1].image]
               /\ UNCHANGED lock
     /\ NoFault /\ UNCHANGED <<files, handle, dir, envVars>>

(* Mutant: the error of the decryption is returned to the caller. *)
DecryptErrorReturned(p) ==
  RemoveFiles({CacheFile(p)}) /\ Unlock(p) /\ End(p, "failed", None, FALSE)

(* What cannot be decrypted is removed, under its name, and read anew.     *)
DecryptFailed(p) == RemoveFiles({CacheFile(p)}) /\ LoadFailed(p)

Decrypt(p) ==
  /\ proc[p].at = "decrypt"
  /\ IF Decrypts(proc[p].buf, proc[p].key)
     THEN /\ proc' = [proc EXCEPT ![p].at = "loaded", ![p].mem = proc[p].buf[1].image]
          /\ UNCHANGED <<files, handle, lock>>
     ELSE DecryptFailed(p)
  /\ NoFault /\ UNCHANGED <<dir, envVars>>

(***************************************************************************)
(* "get" and the loaders that lock answer with what they loaded; nothing   *)
(* can have changed on a read-only volume.                                 *)
(***************************************************************************)
UseLoaded(p) ==
  /\ proc[p].at = "loaded"
  /\ Unlock(p)
  /\ IF LocksToLoad(p) \/ Job(p) = "get" \/ (Job(p) = "update" /\ plan.readOnly)
     THEN End(p, "done", proc[p].mem, TRUE)
     ELSE GoTo(p, "query")
  /\ NoFault /\ UNCHANGED <<files, handle, dir, envVars>>

-----------------------------------------------------------------------------
(* The key, which whoever needs it first makes.                            *)

NewKey(p) == <<p, proc[p].goal>>

HaveKey(p, key) ==
  proc' = [proc EXCEPT ![p].at = IF proc[p].goal = "load" THEN "decrypt" ELSE "create",
                       ![p].key = key]

GetCacheKey(p) ==
  /\ proc[p].at = "key"
  /\ IF ~Exists("key") THEN GoTo(p, "generate")
     ELSE IF files["key"] \in {<< >>, <<Blank>>} THEN GoTo(p, "drop")
     ELSE HaveKey(p, files["key"][1])
  /\ NoFault /\ UNCHANGED <<fileVars, envVars>>

(* One that cannot be read is dropped; one made since then goes, too.      *)
DropKey(p) ==
  /\ proc[p].at \in {"drop", "generate"}
  /\ RemoveFiles({"key"})
  /\ GoTo(p, IF proc[p].at = "drop" THEN "generate" ELSE "createkey")
  /\ NoFault /\ UNCHANGED <<lock, dir, envVars>>

(***************************************************************************)
(* The end of a save. Without it an update and a "get" have failed; to the *)
(* others it was a favour.                                                 *)
(***************************************************************************)
SaveEnds(p, ok) ==
  IF proc[p].goal = "migrate" THEN UNCHANGED lock /\ GoTo(p, "loaded")
  ELSE /\ Unlock(p)
       /\ End(p, IF ok \/ Job(p) \notin {"update", "get"} THEN "done" ELSE "failed",
              IF Job(p) = "frame" THEN proc[p].out ELSE proc[p].mem, FALSE)

CreateKey(p) ==
  /\ proc[p].at = "createkey"
  /\ IF ~Exists("key")
     THEN CreateFile(p, "key") /\ GoTo(p, "writekey") /\ UNCHANGED lock
     ELSE /\ IF proc[p].goal = "load" THEN LoadFailed(p) ELSE SaveEnds(p, FALSE)
          /\ UNCHANGED <<files, handle>>
  /\ NoFault /\ UNCHANGED <<dir, envVars>>

WriteKey(p) ==
  /\ proc[p].at = "writekey"
  /\ WritePart(p, 1, NewKey(p)) /\ CloseFile(p)
  /\ HaveKey(p, NewKey(p))
  /\ NoFault /\ UNCHANGED <<lock, dir, envVars>>

-----------------------------------------------------------------------------
(* Bringing a loaded image up to date.                                     *)

(***************************************************************************)
(* What the journal still allows. An update takes another id, and any      *)
(* error, as a reason to read the volume; read_index_cached serves a young *)
(* cache without a journal as it is; the engine asks for the id only.      *)
(***************************************************************************)
NextOfCached(image) ==
  CASE ClassifyUsnState(image, journal) = "rebuild" -> "scan"
    [] ClassifyUsnState(image, journal) = "cached" -> "current"
    [] OTHER -> "journal"

NextOfUpdate(image) ==
  IF image.jid # journal.id \/ image.next < journal.first THEN "scan" ELSE "journal"

NextOfFlow(image) ==
  IF image.jid # 0 /\ image.jid = journal.id THEN "asis" ELSE "scan"

Answer(p, next) ==
  CASE next = "asis" -> End(p, "done", proc[p].mem, TRUE)
    [] next = "current" -> End(p, "done", proc[p].mem, FALSE)
    [] next = "scan" -> GoTo(p, "scan")
    [] next = "journal" ->
         proc' = [proc EXCEPT ![p].at = "journal", ![p].seen.id = journal.id]

QueryJournal(p) ==
  /\ proc[p].at = "query"
  /\ LET image == proc[p].mem
     IN \/ /\ Answer(p, CASE Job(p) = "cached" -> NextOfCached(image)
                          [] Job(p) = "update" -> NextOfUpdate(image)
                          [] OTHER -> NextOfFlow(image))
           /\ NoFault
        \/ /\ \E next \in CASE Job(p) = "cached" -> {"asis", "scan"}
                             [] Job(p) = "update" -> {"scan"}
                             [] OTHER -> {"asis"} : Answer(p, next)
           /\ Fault("query")
        \/ Job(p) = "cached" /\ Fault("volume") /\ End(p, "failed", None, FALSE)
  /\ UNCHANGED <<fileVars, envVars>>

ReadJournal(p) ==
  LET image == proc[p].mem
      batch == ReadUsnJournal(journal, image.next)
      readable == Readable(journal, proc[p].seen.id, image.next)
      unread == IF Job(p) = "cached" THEN "asis" ELSE "scan"
  IN /\ proc[p].at = "journal"
     /\ \/ /\ IF ~readable THEN Answer(p, unread)
              ELSE IF batch = << >> THEN Answer(p, "current")
              ELSE proc' = [proc EXCEPT ![p].at = "apply", ![p].batch = batch,
                                        ![p].seen.next = JournalNext(journal),
                                        ![p].seen.upto = Len(hist)]
           /\ NoFault
        \/ Answer(p, unread) /\ Fault("journal")
     /\ UNCHANGED <<fileVars, envVars>>

(***************************************************************************)
(* The image after a batch, of which the re-reads of some files failed.    *)
(* (The last two fields are the account the code does not keep: from an    *)
(* image without a checkpoint, what is not in the batch stays unseen.)     *)
(***************************************************************************)
Updated(image, batch, seen, missed) ==
  LET reread == FrsToRead(batch) \ missed
      unseen == IF image.jid # 0 THEN {}
                ELSE ToSet(SubSeq(hist, image.upto + 1, seen.upto))
                       \ {batch[i].file : i \in DOMAIN batch}
  IN [recs |-> TargetedReads(ApplyDeletes(image.recs, batch), reread, vol),
      jid |-> seen.id, next |-> seen.next, upto |-> seen.upto,
      gaps |-> (image.gaps \ (DeletedIn(batch) \union reread)) \union missed \union unseen]

ApplyUsnChanges(p) ==
  /\ proc[p].at = "apply"
  /\ \/ \E missed \in SUBSET FrsToRead(proc[p].batch) :
          /\ IF missed = {} THEN NoFault ELSE Fault("reread")
          /\ proc' = [proc EXCEPT ![p].at = "save",
                        ![p].mem = Updated(@, proc[p].batch, proc[p].seen, missed)]
     \/ /\ Job(p) = "update" /\ Fault("volume")
        /\ End(p, "failed", None, FALSE)
  /\ UNCHANGED <<fileVars, envVars>>

-----------------------------------------------------------------------------
(* Reading the volume.                                                     *)

ScanVolume(p) ==
  /\ proc[p].at = "scan"
  /\ \/ /\ proc' = [proc EXCEPT ![p].at = "stamp", ![p].buf = << >>,
                                 ![p].mem = ScanImage(vol, Len(hist))]
        /\ NoFault
     \/ Fault("volume") /\ End(p, "failed", None, FALSE)
  /\ UNCHANGED <<fileVars, envVars>>

(***************************************************************************)
(* The checkpoint is taken after the scan: what changed in between is      *)
(* below it.                                                               *)
(***************************************************************************)
Stamped(image) ==
  [image EXCEPT !.jid = journal.id, !.next = JournalNext(journal), !.upto = Len(hist),
                !.gaps = ToSet(SubSeq(hist, image.upto + 1, Len(hist)))]

(* The DataFrame is answered now, and saved by a thread of its own.        *)
ToSave(p, image) ==
  IF Job(p) \in {"frame", "flow"}
  THEN proc' = [proc EXCEPT ![p].at = "key", ![p].goal = "save", ![p].mem = image,
                            ![p].out = IF Job(p) = "frame" THEN image ELSE None]
  ELSE proc' = [proc EXCEPT ![p].at = "save", ![p].mem = image]

StampCheckpoint(p) ==
  /\ proc[p].at = "stamp"
  /\ \/ ToSave(p, Stamped(proc[p].mem)) /\ NoFault
     \/ ToSave(p, proc[p].mem) /\ Fault("query")
     \/ Job(p) \notin {"cached", "flow"} /\ Fault("volume") /\ End(p, "failed", None, FALSE)
  /\ IF Job(p) = "frame" THEN CleanupStaleTemps /\ dir' = TRUE
     ELSE UNCHANGED <<files, handle, dir>>
  /\ UNCHANGED <<lock, envVars>>

-----------------------------------------------------------------------------
(* Saving.                                                                 *)

LockToSave(p) ==
  /\ proc[p].at = "save"
  /\ CleanupStaleTemps /\ dir' = TRUE
  /\ IF MayLock(p, "exclusive")
     THEN /\ Lock(p, "exclusive")
          /\ proc' = [proc EXCEPT ![p].at = "key", ![p].goal = "save"]
     ELSE SaveEnds(p, FALSE)
  /\ NoFault /\ UNCHANGED envVars

(* The engine's index after a compaction.                                  *)
Persist(p) ==
  /\ proc[p].at = "compacted"
  /\ proc' = [proc EXCEPT ![p].at = "key", ![p].goal = "save",
                          ![p].mem = Stamped(ScanImage(vol, Len(hist)))]
  /\ NoFault /\ UNCHANGED <<fileVars, envVars>>

(* Mutant: the .uffs file is written in place. *)
WriteInPlace(p) == IF Job(p) \in FlowJobs THEN "flowtmp" ELSE "index"

TempPath(p) == IF Job(p) \in FlowJobs THEN "flowtmp" ELSE p

Sealed(p) == Seal(proc[p].key, <<p, proc[p].goal>>, proc[p].mem)

CreateTemp(p) ==
  /\ proc[p].at = "create"
  /\ IF dir \/ Job(p) \in FlowJobs
     THEN CreateFile(p, TempPath(p)) /\ GoTo(p, "write1") /\ UNCHANGED lock
     ELSE SaveEnds(p, FALSE) /\ UNCHANGED <<files, handle>>
  /\ NoFault /\ UNCHANGED <<dir, envVars>>

(* Mutant: the temporary file stays after an error. *)
AbandonWithoutCleanup(p) == UNCHANGED files /\ CloseFile(p) /\ SaveEnds(p, FALSE)

(* Only the private temporary file is removed after an error.              *)
AbandonTemp(p) ==
  /\ IF Job(p) \in FlowJobs THEN UNCHANGED files /\ CloseFile(p) ELSE RemoveFiles({p})
  /\ SaveEnds(p, FALSE)

WriteTemp(p) ==
  /\ proc[p].at \in {"write1", "write2"}
  /\ \/ /\ WritePart(p, IF proc[p].at = "write1" THEN 1 ELSE 2, Sealed(p))
        /\ GoTo(p, IF proc[p].at = "write1" THEN "write2" ELSE "rename")
        /\ NoFault /\ UNCHANGED <<handle, lock>>
     \/ AbandonTemp(p) /\ Fault("write")
  /\ UNCHANGED <<dir, envVars>>

RenameTemp(p) ==
  /\ proc[p].at = "rename"
  /\ IF Exists(TempPath(p))
     THEN RenameFile(p, TempPath(p), CacheFile(p)) /\ SaveEnds(p, TRUE)
     ELSE UNCHANGED files /\ CloseFile(p) /\ SaveEnds(p, FALSE)
  /\ NoFault /\ UNCHANGED <<dir, envVars>>

-----------------------------------------------------------------------------
(* Removing: overwrite in place, remove, and then the lock file, or the    *)
(* whole directory. No lock is asked for.                                  *)

FindCached(p) ==
  /\ proc[p].at = "find"
  /\ CleanupStaleTemps
  /\ IF Exists("index") THEN GoTo(p, "open") ELSE End(p, "done", None, FALSE)
  /\ NoFault /\ UNCHANGED <<lock, dir, envVars>>

OpenToWipe(p) ==
  /\ proc[p].at = "open"
  /\ IF Exists("index") THEN OpenFile(p, "index") /\ GoTo(p, "wipe1")
     ELSE UNCHANGED <<files, handle>> /\ GoTo(p, "unlock")
  /\ NoFault /\ UNCHANGED <<lock, dir, envVars>>

Wipe(p) ==
  /\ proc[p].at \in {"wipe1", "wipe2"}
  /\ WritePart(p, IF proc[p].at = "wipe1" THEN 1 ELSE 2, Blank)
  /\ GoTo(p, IF proc[p].at = "wipe1" THEN "wipe2" ELSE "unlink")
  /\ NoFault /\ UNCHANGED <<handle, lock, dir, envVars>>

Unlink(p) ==
  /\ proc[p].at = "unlink"
  /\ RemoveFiles({"index"})
  /\ GoTo(p, "unlock")
  /\ NoFault /\ UNCHANGED <<lock, dir, envVars>>

RemoveLock(p) ==
  /\ proc[p].at = "unlock"
  /\ RemoveLockFile
  /\ IF Job(p) = "purge" THEN RemoveFiles(Process \union {"index"}) /\ dir' = FALSE
     ELSE UNCHANGED <<files, handle, dir>>
  /\ End(p, "done", None, FALSE)
  /\ NoFault /\ UNCHANGED envVars

-----------------------------------------------------------------------------
Step(p) ==
  \/ CheckCacheStatus(p) \/ LockToLoad(p) \/ ReadFile(p) \/ Decrypt(p) \/ UseLoaded(p)
  \/ GetCacheKey(p) \/ DropKey(p) \/ CreateKey(p) \/ WriteKey(p)
  \/ QueryJournal(p) \/ ReadJournal(p) \/ ApplyUsnChanges(p)
  \/ ScanVolume(p) \/ StampCheckpoint(p)
  \/ Persist(p) \/ LockToSave(p) \/ CreateTemp(p) \/ WriteTemp(p) \/ RenameTemp(p)
  \/ FindCached(p) \/ OpenToWipe(p) \/ Wipe(p) \/ Unlink(p) \/ RemoveLock(p)

(* The engine is one process: a crash takes all of its threads.            *)
Crash(p) ==
  LET victims == {q \in Process :
                    /\ q = p \/ {Job(p), Job(q)} \subseteq FlowJobs
                    /\ proc[q].at \notin Ended}
  IN /\ proc[p].at \notin Ended
     /\ Fault("crash")
     /\ proc' = [q \in Process |-> IF q \in victims THEN [proc[q] EXCEPT !.at = "dead"]
                                    ELSE proc[q]]
     /\ handle' = [q \in Process |-> IF q \in victims THEN NoFile ELSE handle[q]]
     /\ lock' = [q \in Process |-> IF q \in victims THEN "none" ELSE lock[q]]
     /\ UNCHANGED <<files, dir, envVars>>

ChangeOp(old, new) ==
  IF old = Absent THEN "created" ELSE IF new = Absent THEN "deleted" ELSE "renamed"

ChangeFile(f, name) ==
  /\ Len(hist) < plan.changes /\ vol[f] # name
  /\ vol' = [vol EXCEPT ![f] = name]
  /\ journal' = [journal EXCEPT !.log =
                   Append(@, [file |-> f, op |-> ChangeOp(vol[f], name)])]
  /\ hist' = Append(hist, f)
  /\ UNCHANGED <<fileVars, proc, plan, spent>>

(* The oldest entries make room, or the journal is deleted and made anew.  *)
LoseJournal ==
  /\ journal.log # << >>
  /\ \/ /\ Fault("trim")
        /\ journal' = [journal EXCEPT !.first = JournalNext(journal), !.log = << >>]
     \/ /\ Fault("recreate")
        /\ journal' = [id |-> journal.id + 1, first |-> 0, log |-> << >>]
  /\ UNCHANGED <<fileVars, proc, plan, vol, hist>>

LoseKey ==
  /\ Exists("key") /\ Fault("key")
  /\ files' = [files EXCEPT !["key"] = <<Blank>>]
  /\ UNCHANGED <<handle, lock, dir, proc, envVars>>

Next ==
  \/ \E p \in Process : Step(p) \/ Crash(p)
  \/ \E f \in Files, name \in Names \union {Absent} : ChangeFile(f, name)
  \/ LoseJournal
  \/ LoseKey

Spec == Init /\ [][Next]_vars

=============================================================================
