----------------------------- MODULE CacheProofs -----------------------------
(***************************************************************************)
(* The caches, for every set of processes, plans and files: what is under  *)
(* the cache's name is one writer's and complete, a reader accepts nothing *)
(* else, every request is served, and no temporary file stays behind.      *)
(***************************************************************************)
EXTENDS CacheProperties, SequenceTheorems, FiniteSetTheorems, WellFoundedInduction,
        TLAPS

MadeSeals == [key : MadeKeys, nonce : MadeKeys, image : Images]

Halves == Seals \union {Blank}

MadeHalves == MadeSeals \union {Blank}

(* Where a process is. *)
Writing == {"write1", "write2", "rename"}
Saving == Writing \union {"key", "generate", "drop", "createkey", "writekey", "create"}
Wiping == {"wipe1", "wipe2", "unlink"}
Updating == {"loaded", "query", "journal", "apply", "stamp", "save"}
Locked == Saving \union {"read", "decrypt", "loaded"}
Steps == Saving \union Wiping \union Updating \union Ended
           \union {"look", "lock", "read", "decrypt", "scan", "compacted",
                   "find", "open", "unlock"}

Entries == [file : Files, op : {"created", "deleted", "renamed"}]

ProcRecords ==
  [at : Steps, goal : {"load", "save", "migrate"}, mem : Images \union {None},
   buf : Seq(Halves), key : MadeKeys \union {None}, batch : Seq(Entries),
   seen : [id : Nat, next : Nat, upto : Nat], out : Images \union {None},
   asIs : BOOLEAN, began : Nat, before : SUBSET {"trim", "recreate"}]

(***************************************************************************)
(* What a process has in hand at each step; the rest of the invariant is   *)
(* about the files. (The names ...OK take the values, so that they can be  *)
(* said of the next state of one process.)                                 *)
(***************************************************************************)
HandleOK(p, at, h) ==
  \/ h = NoFile
  \/ at \in Writing /\ h = TempPath(p)
  \/ at \in Writing /\ h = "flow" /\ Job(p) \in FlowJobs
  \/ at = "writekey" /\ h = "key"
  \/ at \in Wiping /\ h = "index"

LockOK(at, l) == l \in {"none", "shared", "exclusive"} /\ (at \notin Locked => l = "none")

ImageOK(p, r) ==
  /\ r.at \in Updating \/ (r.at \in Saving /\ r.goal # "load") => r.mem \in Images
  /\ Job(p) = "frame" /\ r.goal = "save" /\ r.at \in Saving => r.out \in Images
  /\ r.at \in Writing \union {"create", "decrypt"} => r.key \in MadeKeys
  /\ r.at \in Writing \union {"create"} => r.goal # "load"
  /\ r.goal = "migrate" => Job(p) = "flow"
  /\ Job(p) \in {"frame", "flow"} => r.at \notin {"journal", "apply", "save"}
  /\ Job(p) = "frame" => r.at # "query"
  /\ r.at = "compacted" => Job(p) = "persist"
  /\ r.at \in Wiping \union {"find", "open", "unlock"} => Job(p) \in {"clear", "purge"}

BufferOK(r) ==
  r.at = "loaded" \/ (r.at \in Saving /\ r.goal = "migrate") =>
    Whole(r.buf) /\ r.mem = r.buf[1].image

ServedOK(p, r) ==
  Job(p) \in {"cached", "frame", "flow"} =>
    /\ r.at = "done" => r.out # None
    /\ r.at = "failed" => "volume" \in spent

OwnOK(p, r, h, l) ==
  /\ HandleOK(p, r.at, h)
  /\ LockOK(r.at, l)
  /\ ImageOK(p, r)
  /\ BufferOK(r)
  /\ ServedOK(p, r)

OwnInv == \A p \in Process : OwnOK(p, proc[p], handle[p], lock[p])

(***************************************************************************)
(* The files. A temporary file is its writer's alone, and as far as the    *)
(* writer is; whoever wipes the index file begins with its first half.     *)
(***************************************************************************)
TempOK(p) ==
  \/ files[p] = NoFile
  \/ proc[p].at = "dead" /\ "crash" \in spent
  \/ /\ proc[p].at \in Writing /\ handle[p] = p
     /\ proc[p].at = "write1" => files[p] = << >>
     /\ proc[p].at = "write2" => files[p] = <<Sealed(p)>>
     /\ proc[p].at = "rename" => files[p] = <<Sealed(p), Sealed(p)>>

Shaped(content) ==
  \E s \in Seals : content \in {<<s, s>>, <<Blank, s>>, <<Blank, Blank>>}

IndexOK ==
  \/ files["index"] = NoFile
  \/ /\ Shaped(files["index"])
     /\ files["index"][1] = Blank =>
          "crash" \in spent \/ \E p \in Process : handle[p] = "index"

KeyShaped(content) ==
  content \in {<< >>, <<Blank>>} \/ \E k \in MadeKeys : content = <<k>>

FlowShaped(content) ==
  content \in Seq(MadeHalves) \/ \E s \in Seals : content = <<s, s>>

OpenOK(p) ==
  /\ handle[p] = "index" =>
       /\ Shaped(files["index"])
       /\ proc[p].at \in {"wipe2", "unlink"} => files["index"][1] = Blank
  /\ handle[p] = "key" => KeyShaped(files["key"])
  /\ handle[p] \in {"flow", "flowtmp"} => files[handle[p]] \in Seq(MadeHalves)
  /\ handle[p] = p => files[p] # NoFile

FilesInv ==
  /\ DOMAIN files = FileNames
  /\ \A p \in Process : TempOK(p) /\ OpenOK(p)
  /\ IndexOK
  /\ files["key"] = NoFile \/ KeyShaped(files["key"])
  /\ files["flow"] = NoFile \/ FlowShaped(files["flow"])
  /\ files["flowtmp"] = NoFile \/ files["flowtmp"] \in Seq(MadeHalves)

Typed ==
  /\ proc \in [Process -> ProcRecords]
  /\ handle \in [Process -> FileNames \union {NoFile}]
  /\ lock \in [Process -> {"none", "shared", "exclusive"}]
  /\ plan.job \in [Process -> DOMAIN FirstStep]
  /\ vol \in [Files -> Names \union {Absent}]
  /\ journal \in [id : Nat, first : Nat, log : Seq(Entries)]
  /\ hist \in Seq(Files)
  /\ \A p \in Process : proc[p].seen.upto <= Len(hist)

CacheInv == Typed /\ OwnInv /\ FilesInv

-----------------------------------------------------------------------------
(* Steps of one process, as seen by it and by the others.                  *)

StepOf(p) ==
  /\ proc' \in [Process -> ProcRecords]
  /\ \A q \in Process \ {p} : proc'[q] = proc[q]
  /\ proc'[p].seen.upto <= Len(hist)

LEMMA GoToStep ==
    ASSUME Typed, NEW p \in Process, NEW step \in Steps, GoTo(p, step)
    PROVE  /\ StepOf(p)
           /\ proc'[p].at = step /\ proc'[p].goal = proc[p].goal
           /\ proc'[p].mem = proc[p].mem /\ proc'[p].out = proc[p].out
           /\ proc'[p].buf = proc[p].buf /\ proc'[p].key = proc[p].key
<1> USE DEF Typed
<1>1. proc'[p] = [proc[p] EXCEPT !.at = step] /\ \A q \in Process \ {p} : proc'[q] = proc[q]
  BY DEF GoTo
<1>2. [proc[p] EXCEPT !.at = step] \in ProcRecords
  <2>1. proc[p] \in ProcRecords
    OBVIOUS
  <2> QED BY <2>1 DEF ProcRecords
<1>3. proc' \in [Process -> ProcRecords]
  BY <1>2 DEF GoTo
<1>4. proc'[p].seen.upto <= Len(hist)
  <2>1. proc[p] \in ProcRecords
    OBVIOUS
  <2>2. proc'[p].seen = proc[p].seen
    BY <1>1, <2>1 DEF ProcRecords
  <2> QED BY <2>2
<1>5. StepOf(p)
  BY <1>1, <1>3, <1>4 DEF StepOf
<1> QED BY <1>1, <1>5 DEF ProcRecords

LEMMA EndStep ==
    ASSUME Typed, NEW p \in Process, NEW how \in Ended,
           NEW image \in Images \union {None}, NEW asIs \in BOOLEAN,
           End(p, how, image, asIs)
    PROVE  /\ StepOf(p)
           /\ proc'[p].at = how /\ proc'[p].out = image
           /\ proc'[p].goal = proc[p].goal
<1> USE DEF Typed
<1>1. << >> \in Seq(Halves) /\ << >> \in Seq(Entries)
  OBVIOUS
<1>2. how \in Steps
  BY DEF Steps
<1> DEFINE ended == [proc[p] EXCEPT !.at = how, !.out = image, !.asIs = asIs,
                       !.mem = None, !.buf = << >>, !.key = None, !.batch = << >>,
                       !.seen = [id |-> 0, next |-> 0, upto |-> 0]]
<1>3. proc' = [proc EXCEPT ![p] = ended]
  BY DEF End
<1>4. ended \in ProcRecords
  <2>1. proc[p] \in ProcRecords
    OBVIOUS
  <2> QED BY <2>1, <1>1, <1>2 DEF ProcRecords
<1> HIDE DEF ended
<1>5. proc' \in [Process -> ProcRecords] /\ proc'[p] = ended
        /\ \A q \in Process \ {p} : proc'[q] = proc[q]
  BY <1>3, <1>4
<1>6. ended.at = how /\ ended.out = image /\ ended.goal = proc[p].goal
      /\ ended.seen.upto = 0
  BY DEF ended, ProcRecords
<1>7. 0 <= Len(hist)
  OBVIOUS
<1> QED BY <1>5, <1>6, <1>7 DEF StepOf

(* A process that has ended holds nothing; what it owes is the answer.     *)
LEMMA EndedOwns ==
    ASSUME NEW p, UNCHANGED plan, proc'[p].at \in Ended,
           handle'[p] = NoFile, lock'[p] = "none",
           proc'[p].goal = "migrate" => Job(p) = "flow",
           Job(p) \in {"cached", "frame", "flow"} =>
             /\ proc'[p].at = "done" => proc'[p].out # None
             /\ proc'[p].at = "failed" => "volume" \in spent'
    PROVE  OwnOK(p, proc[p], handle[p], lock[p])'
BY DEF OwnOK, HandleOK, LockOK, ImageOK, BufferOK, ServedOK, Job,
       Ended, Writing, Saving, Wiping, Updating, Locked

(* Between two operations a process has nothing, but for the lock to load. *)
LEMMA IdleOwns ==
    ASSUME NEW p, UNCHANGED plan, handle'[p] = NoFile,
           proc'[p].at \in {"look", "lock", "read", "scan"},
           lock'[p] \in {"none", "shared", "exclusive"},
           proc'[p].at = "read" \/ lock'[p] = "none",
           proc'[p].goal = "migrate" => Job(p) = "flow"
    PROVE  OwnOK(p, proc[p], handle[p], lock[p])'
BY DEF OwnOK, HandleOK, LockOK, ImageOK, BufferOK, ServedOK, Job,
       Writing, Saving, Wiping, Updating, Locked

(* A removal has no lock, and the index file open while it wipes.          *)
LEMMA RemovalOwns ==
    ASSUME NEW p, UNCHANGED plan, Job(p) \in {"clear", "purge"},
           proc'[p].at \in Wiping \union {"open", "unlock"},
           handle'[p] = NoFile \/ (proc'[p].at \in Wiping /\ handle'[p] = "index"),
           lock'[p] = "none", proc'[p].goal # "migrate"
    PROVE  OwnOK(p, proc[p], handle[p], lock[p])'
BY DEF OwnOK, HandleOK, LockOK, ImageOK, BufferOK, ServedOK, Job,
       Ended, Writing, Saving, Wiping, Updating, Locked

(* What the others do leaves the account of a process as it is.            *)
LEMMA OthersOwn ==
    ASSUME NEW q \in Process, OwnOK(q, proc[q], handle[q], lock[q]), UNCHANGED plan,
           spent \subseteq spent', proc'[q] = proc[q],
           handle'[q] \in {handle[q], NoFile} \/ (handle[q] = "flowtmp" /\ handle'[q] = "flow"),
           lock'[q] \in {lock[q], "none"}
    PROVE  OwnOK(q, proc[q], handle[q], lock[q])'
<1>1. Job(q)' = Job(q) /\ TempPath(q)' = TempPath(q)
  BY DEF Job, TempPath
<1>2. HandleOK(q, proc[q].at, handle[q])'
  <2>1. NoFile # "flowtmp" /\ q # "flowtmp"
    BY NamesAssumption DEF FileNames
  <2>2. handle[q] = "flowtmp" => proc[q].at \in Writing /\ Job(q) \in FlowJobs
    BY <2>1 DEF OwnOK, HandleOK, TempPath
  <2> QED BY <1>1, <2>2 DEF OwnOK, HandleOK
<1>3. LockOK(proc[q].at, lock[q])'
  BY DEF OwnOK, LockOK
<1>4. ImageOK(q, proc[q])' /\ BufferOK(proc[q])' /\ ServedOK(q, proc[q])'
  BY <1>1 DEF OwnOK, ImageOK, BufferOK, ServedOK
<1> QED BY <1>2, <1>3, <1>4 DEF OwnOK

(***************************************************************************)
(* Files that stay as they are or go, and handles that stay or are closed, *)
(* leave the rest of the invariant as it is: a process that has a          *)
(* temporary file keeps its place unless it dies, one that wipes keeps its *)
(* place, and its handle is closed only with the file or in a crash.       *)
(***************************************************************************)
LEMMA FilesOnlyGo ==
    ASSUME FilesInv, UNCHANGED plan, spent \subseteq spent',
           DOMAIN files' = FileNames,
           \A n \in FileNames : files'[n] = files[n] \/ files'[n] = NoFile,
           \A q \in Process : \/ handle'[q] = NoFile
                              \/ handle'[q] = handle[q] /\ files'[handle[q]] = files[handle[q]],
           \A q \in Process : handle[q] = "index" =>
             handle'[q] = "index" \/ files'["index"] = NoFile \/ "crash" \in spent',
           \A q \in Process : handle'[q] = "index" => proc'[q].at = proc[q].at,
           \A q \in Process :
             proc[q].at \in Writing \union {"dead"} /\ files'[q] # NoFile =>
               \/ proc'[q] = proc[q] /\ handle'[q] = handle[q]
               \/ proc'[q].at = "dead" /\ "crash" \in spent'
    PROVE  FilesInv'
<1> USE DEF FilesInv
<1>n. NoFile \notin FileNames /\ Process \subseteq FileNames
  BY NamesAssumption DEF FileNames
<1>f. {"index", "key", "flow", "flowtmp"} \subseteq FileNames
  BY DEF FileNames
<1>1. ASSUME NEW q \in Process PROVE TempOK(q)'
  <2>1. files'[q] = NoFile \/ files'[q] = files[q]
    BY <1>n
  <2>2. CASE files'[q] = NoFile
    BY <2>2 DEF TempOK
  <2>3. CASE files'[q] # NoFile
    <3>1. files[q] # NoFile /\ files'[q] = files[q]
      BY <2>1, <2>3
    <3>2. proc[q].at \in Writing \union {"dead"}
      BY <3>1 DEF TempOK
    <3>3. CASE proc'[q].at = "dead" /\ "crash" \in spent'
      BY <3>3 DEF TempOK
    <3>4. CASE proc'[q] = proc[q] /\ handle'[q] = handle[q]
      <4>1. Sealed(q)' = Sealed(q)
        BY <3>4 DEF Sealed, Seal
      <4> QED BY <4>1, <3>1, <3>4 DEF TempOK
    <3> QED BY <3>2, <3>3, <3>4, <2>3
  <2> QED BY <2>2, <2>3
<1>2. ASSUME NEW q \in Process PROVE OpenOK(q)'
  <2>1. CASE handle'[q] = NoFile
    BY <2>1, <1>n, <1>f DEF OpenOK
  <2>2. CASE handle'[q] = handle[q] /\ files'[handle[q]] = files[handle[q]] /\ handle[q] # NoFile
    <3>1. CASE handle[q] = "index"
      <4>1. files'["index"] = files["index"] /\ handle'[q] = "index"
        BY <2>2, <3>1
      <4>2. proc'[q].at = proc[q].at
        BY <4>1
      <4> QED BY <4>1, <4>2, <3>1 DEF OpenOK
    <3>2. CASE handle[q] # "index"
      BY <2>2, <3>2 DEF OpenOK
    <3> QED BY <3>1, <3>2
  <2> QED BY <2>1, <2>2
<1>3. IndexOK'
  BY <1>f DEF IndexOK
<1>4. /\ (files["key"] = NoFile \/ KeyShaped(files["key"]))'
      /\ (files["flow"] = NoFile \/ FlowShaped(files["flow"]))'
      /\ (files["flowtmp"] = NoFile \/ files["flowtmp"] \in Seq(MadeHalves))'
  BY <1>f
<1> QED BY <1>1, <1>2, <1>3, <1>4

(* A step of p that closes its file, but no temporary one or the index.    *)
LEMMA CloseStep ==
    ASSUME CacheInv, NEW p \in Process, UNCHANGED <<files, envVars>>,
           handle' = [handle EXCEPT ![p] = NoFile], handle[p] \notin {p, "index"},
           spent \subseteq spent', proc[p].at \notin Ended, StepOf(p),
           lock' \in [Process -> {"none", "shared", "exclusive"}],
           \A q \in Process \ {p} : lock'[q] \in {lock[q], "none"},
           OwnOK(p, proc[p], handle[p], lock[p])'
    PROVE  CacheInv'
<1> USE DEF CacheInv, StepOf
<1>1. Typed'
  BY DEF Typed, envVars
<1>2. OwnInv'
  BY OthersOwn DEF Typed, OwnInv, envVars
<1>3. proc[p].at # "dead" /\ files[p] = NoFile /\ NoFile # "index"
  BY NamesAssumption DEF FilesInv, TempOK, Ended, FileNames
<1>4. FilesInv'
  BY <1>3, FilesOnlyGo DEF Typed, FilesInv, envVars
<1> QED BY <1>1, <1>2, <1>4

(* A step of p that touches no file.                                       *)
LEMMA QuietStep ==
    ASSUME CacheInv, NEW p \in Process, UNCHANGED <<files, handle, envVars>>,
           handle[p] = NoFile,
           spent \subseteq spent', proc[p].at \notin Ended, StepOf(p),
           lock' \in [Process -> {"none", "shared", "exclusive"}],
           \A q \in Process \ {p} : lock'[q] \in {lock[q], "none"},
           OwnOK(p, proc[p], handle[p], lock[p])'
    PROVE  CacheInv'
<1>1. handle' = [handle EXCEPT ![p] = NoFile]
  BY DEF CacheInv, Typed
<1>2. handle[p] \notin {p, "index"}
  BY NamesAssumption DEF FileNames
<1> QED BY <1>1, <1>2, CloseStep

(* A step of p that removes files, its own if it has one open.             *)
LEMMA RemoveStep ==
    ASSUME CacheInv, NEW p \in Process, NEW names \in SUBSET FileNames, RemoveFiles(names),
           UNCHANGED envVars, spent \subseteq spent',
           proc[p].at \notin Ended,
           proc[p].at \in Writing => p \in names,
           proc[p].at \in Wiping => "index" \in names,
           StepOf(p),
           lock' \in [Process -> {"none", "shared", "exclusive"}],
           \A q \in Process \ {p} : lock'[q] \in {lock[q], "none"},
           OwnOK(p, proc[p], handle[p], lock[p])'
    PROVE  CacheInv'
<1> USE DEF CacheInv, StepOf
<1>h. \A q \in Process : handle'[q] = IF handle[q] \in names THEN NoFile ELSE handle[q]
  BY DEF RemoveFiles
<1>f. \A n \in FileNames : files'[n] = IF n \in names THEN NoFile ELSE files[n]
  BY DEF RemoveFiles
<1>n. NoFile \notin FileNames /\ Process \subseteq FileNames /\ "index" \in FileNames
  BY NamesAssumption DEF FileNames
<1>1. Typed'
  <2>1. handle' \in [Process -> FileNames \union {NoFile}]
    BY DEF RemoveFiles, Typed
  <2> QED BY <2>1 DEF Typed, envVars
<1>2. OwnInv'
  BY <1>h, OthersOwn DEF OwnInv, envVars
<1>3. proc[p].at # "dead" /\ (handle[p] = "index" => proc[p].at \in Wiping)
  BY <1>n, NamesAssumption DEF OwnInv, OwnOK, HandleOK, Ended, TempPath
<1>4. FilesInv'
  <2>1. DOMAIN files' = FileNames
    BY DEF RemoveFiles
  <2>2. \A q \in Process : \/ handle'[q] = NoFile
                           \/ handle'[q] = handle[q] /\ files'[handle[q]] = files[handle[q]]
    BY <1>h, <1>f DEF Typed
  <2>3. \A q \in Process : handle[q] = "index" =>
             handle'[q] = "index" \/ files'["index"] = NoFile \/ "crash" \in spent'
    BY <1>h, <1>f, <1>n
  <2>4. \A q \in Process : handle'[q] = "index" => proc'[q].at = proc[q].at
    BY <1>h, <1>n, <1>3
  <2>5. \A q \in Process :
             proc[q].at \in Writing \union {"dead"} /\ files'[q] # NoFile =>
               \/ proc'[q] = proc[q] /\ handle'[q] = handle[q]
               \/ proc'[q].at = "dead" /\ "crash" \in spent'
    <3> SUFFICES ASSUME NEW q \in Process, proc[q].at \in Writing \union {"dead"},
                        files'[q] # NoFile
                 PROVE  \/ proc'[q] = proc[q] /\ handle'[q] = handle[q]
                        \/ proc'[q].at = "dead" /\ "crash" \in spent'
      OBVIOUS
    <3>1. q \notin names /\ files[q] # NoFile
      BY <1>f, <1>n
    <3>2. q # p
      BY <3>1, <1>3
    <3>3. proc'[q] = proc[q]
      BY <3>2
    <3>4. TempOK(q)
      BY DEF FilesInv
    <3>5. CASE proc[q].at = "dead"
      BY <3>5, <3>4, <3>3, <3>1 DEF TempOK, Writing
    <3>6. CASE proc[q].at # "dead"
      <4>1. handle[q] = q
        BY <3>4, <3>1, <3>6 DEF TempOK
      <4> QED BY <4>1, <3>1, <3>3, <1>h
    <3> QED BY <3>5, <3>6
  <2> QED BY <2>1, <2>2, <2>3, <2>4, <2>5, <1>f, FilesOnlyGo DEF envVars
<1> QED BY <1>1, <1>2, <1>4

-----------------------------------------------------------------------------
(* Images.                                                                 *)

LEMMA RangeOfPart ==
    ASSUME NEW S, NEW s \in Seq(S), NEW m \in Nat \ {0}, NEW n \in Nat, n <= Len(s)
    PROVE  ToSet(SubSeq(s, m, n)) \subseteq S
<1>1. SubSeq(s, m, n) \in Seq(S)
  BY SubSeqProperties
<1> QED BY <1>1 DEF ToSet

LEMMA ScannedImage ==
    ASSUME vol \in [Files -> Names \union {Absent}], NEW seen \in Nat
    PROVE  ScanImage(vol, seen) \in Images
<1> DEFINE recs == [f \in Files |-> IF vol[f] = Absent THEN NoRecord
                                    ELSE [live |-> TRUE, names |-> <<vol[f]>>]]
<1>1. recs \in [Files -> [live : BOOLEAN, names : Seq(Names)]]
  <2>1. << >> \in Seq(Names)
    OBVIOUS
  <2>2. \A f \in Files : vol[f] # Absent => <<vol[f]>> \in Seq(Names)
    OBVIOUS
  <2> QED BY <2>1, <2>2 DEF NoRecord
<1> HIDE DEF recs
<1>2. [recs |-> recs, jid |-> 0, next |-> 0, upto |-> seen, gaps |-> {}] \in Images
  BY <1>1 DEF Images
<1> QED BY <1>2 DEF ScanImage, recs

LEMMA StampedImage ==
    ASSUME NEW image \in Images, hist \in Seq(Files),
           journal \in [id : Nat, first : Nat, log : Seq(Entries)]
    PROVE  Stamped(image) \in Images
<1> DEFINE gaps == ToSet(SubSeq(hist, image.upto + 1, Len(hist)))
<1>1. gaps \subseteq Files
  <2>1. image.upto + 1 \in Nat \ {0} /\ Len(hist) \in Nat /\ Len(hist) <= Len(hist)
    BY DEF Images
  <2> QED BY <2>1, RangeOfPart
<1>2. JournalNext(journal) \in Nat /\ journal.id \in Nat /\ Len(hist) \in Nat
  BY DEF JournalNext
<1> HIDE DEF gaps
<1>3. [image EXCEPT !.jid = journal.id, !.next = JournalNext(journal), !.upto = Len(hist),
                    !.gaps = gaps] \in Images
  BY <1>1, <1>2 DEF Images
<1> QED BY <1>3 DEF Stamped, gaps

LEMMA UpdatedImage ==
    ASSUME NEW image \in Images, NEW batch, NEW missed \in SUBSET Files,
           NEW seen \in [id : Nat, next : Nat, upto : Nat],
           hist \in Seq(Files), seen.upto <= Len(hist),
           vol \in [Files -> Names \union {Absent}]
    PROVE  Updated(image, batch, seen, missed) \in Images
<1> DEFINE reread == FrsToRead(batch) \ missed
           deleted == ApplyDeletes(image.recs, batch)
           recs == TargetedReads(deleted, reread, vol)
           unseen == IF image.jid # 0 THEN {}
                     ELSE ToSet(SubSeq(hist, image.upto + 1, seen.upto))
                            \ {batch[i].file : i \in DOMAIN batch}
           gaps == (image.gaps \ (DeletedIn(batch) \union reread)) \union missed \union unseen
           Records == [live : BOOLEAN, names : Seq(Names)]
<1>1. deleted \in [Files -> Records]
  BY DEF ApplyDeletes, Images
<1>2. recs \in [Files -> Records]
  <2> SUFFICES ASSUME NEW f \in Files, NEW r \in Records
               PROVE  ParseRecordToIndex(r, f, vol) \in Records
    BY <1>1 DEF TargetedReads
  <2>1. vol[f] = Absent \/ vol[f] \in Names
    OBVIOUS
  <2>2. vol[f] \in Names => <<vol[f]>> \in Seq(Names) /\ Append(r.names, vol[f]) \in Seq(Names)
    OBVIOUS
  <2> QED BY <2>1, <2>2 DEF ParseRecordToIndex
<1>3. gaps \subseteq Files
  <2>1. image.upto + 1 \in Nat \ {0} /\ seen.upto \in Nat /\ image.gaps \subseteq Files
    BY DEF Images
  <2>2. ToSet(SubSeq(hist, image.upto + 1, seen.upto)) \subseteq Files
    BY <2>1, RangeOfPart
  <2> QED BY <2>1, <2>2
<1> HIDE DEF recs, gaps
<1>4. [recs |-> recs, jid |-> seen.id, next |-> seen.next, upto |-> seen.upto, gaps |-> gaps]
        \in Images
  BY <1>2, <1>3 DEF Images
<1> QED BY <1>4 DEF Updated, recs, gaps

-----------------------------------------------------------------------------
(* The steps, one lemma each.                                              *)

(* Where p may hold a file or the lock, and what it then has.              *)
LEMMA OwnFacts ==
    ASSUME CacheInv, NEW p \in Process
    PROVE  /\ proc[p] \in ProcRecords
           /\ proc[p].at \notin Writing \union Wiping \union {"writekey"} => handle[p] = NoFile
           /\ proc[p].at \notin Locked => lock[p] = "none"
           /\ lock[p] \in {"none", "shared", "exclusive"}
           /\ ImageOK(p, proc[p]) /\ BufferOK(proc[p]) /\ ServedOK(p, proc[p])
           /\ proc[p].goal = "migrate" => Job(p) = "flow"
<1>1. OwnOK(p, proc[p], handle[p], lock[p])
  BY DEF CacheInv, OwnInv
<1> QED BY <1>1 DEF CacheInv, Typed, OwnOK, HandleOK, LockOK, ImageOK

LEMMA ForCheckCacheStatus ==
    ASSUME CacheInv, NEW p \in Process, CheckCacheStatus(p)
    PROVE  CacheInv'
<1> USE DEF CheckCacheStatus, NoFault
<1>1. proc[p] \in ProcRecords /\ handle[p] = NoFile /\ lock[p] = "none"
        /\ (proc[p].goal = "migrate" => Job(p) = "flow")
  BY OwnFacts DEF Writing, Wiping, Saving, Locked
<1>2. PICK next \in {"scan", "read", "lock"} :
        proc' = [proc EXCEPT ![p].at = next, ![p].began = Len(hist),
                             ![p].before = spent \intersect {"trim", "recreate"}]
  OBVIOUS
<1> DEFINE looked == [proc[p] EXCEPT !.at = next, !.began = Len(hist),
                        !.before = spent \intersect {"trim", "recreate"}]
<1>3. looked \in ProcRecords /\ looked.at = next /\ looked.goal = proc[p].goal
        /\ looked.seen = proc[p].seen
  <2>1. next \in Steps /\ Len(hist) \in Nat
    BY DEF CacheInv, Typed, Steps
  <2> QED BY <1>1, <2>1 DEF ProcRecords
<1>4. proc' = [proc EXCEPT ![p] = looked]
  BY <1>2
<1> HIDE DEF looked
<1>5. StepOf(p) /\ proc'[p] = looked
  BY <1>3, <1>4 DEF StepOf, CacheInv, Typed
<1>6. handle'[p] = NoFile /\ lock' = lock /\ plan' = plan
  BY <1>1 DEF CleanupStaleTemps, RemoveFiles, envVars
<1>7. OwnOK(p, proc[p], handle[p], lock[p])'
  BY <1>1, <1>3, <1>5, <1>6, IdleOwns
<1>8. Process \in SUBSET FileNames /\ RemoveFiles(Process)
  BY DEF FileNames, CleanupStaleTemps
<1> QED BY <1>5, <1>7, <1>8, RemoveStep
     DEF CacheInv, Typed, Writing, Wiping, Saving, Ended

LEMMA ForLockToLoad ==
    ASSUME CacheInv, NEW p \in Process, LockToLoad(p)
    PROVE  CacheInv'
<1> USE DEF LockToLoad, NoFault, CacheInv, Typed
<1>1. handle[p] = NoFile /\ lock[p] = "none" /\ (proc[p].goal = "migrate" => Job(p) = "flow")
  BY OwnFacts DEF Writing, Wiping, Saving, Locked
<1>2. PICK step \in {"read", "scan"} :
        GoTo(p, step) /\ (UNCHANGED lock \/ (Lock(p, "shared") /\ step = "read"))
  <2>1. CASE dir /\ MayLock(p, "shared")
    BY <2>1
  <2>2. CASE ~(dir /\ MayLock(p, "shared"))
    BY <2>2
  <2> QED BY <2>1, <2>2
<1>3. StepOf(p) /\ proc'[p].at = step /\ proc'[p].goal = proc[p].goal
  BY <1>2, GoToStep DEF Steps
<1>4. /\ lock' \in [Process -> {"none", "shared", "exclusive"}]
      /\ \A q \in Process \ {p} : lock'[q] = lock[q]
      /\ lock'[p] = "none" \/ step = "read"
  BY <1>1, <1>2 DEF Lock
<1>5. handle'[p] = NoFile /\ plan' = plan
  BY <1>1 DEF CleanupStaleTemps, RemoveFiles, envVars
<1>6. OwnOK(p, proc[p], handle[p], lock[p])'
  BY <1>1, <1>3, <1>4, <1>5, IdleOwns
<1>7. Process \in SUBSET FileNames /\ RemoveFiles(Process)
  BY DEF FileNames, CleanupStaleTemps
<1> QED BY <1>3, <1>4, <1>6, <1>7, RemoveStep DEF Writing, Wiping, Saving, Ended

(* What a reader finds under the names of the two caches.                  *)
LEMMA CacheContent ==
    ASSUME CacheInv, NEW p \in Process, files[CacheFile(p)] # NoFile
    PROVE  /\ files[CacheFile(p)] \in Seq(Halves)
           /\ DetectFormat(files[CacheFile(p)]) = "plain" =>
                Whole(files[CacheFile(p)]) /\ files[CacheFile(p)][1].image \in Images
<1> DEFINE content == files[CacheFile(p)]
<1>1. ASSUME NEW s \in Seals, content \in {<<s, s>>, <<Blank, s>>, <<Blank, Blank>>}
      PROVE  /\ content \in Seq(Halves)
             /\ DetectFormat(content) = "plain" => Whole(content) /\ content[1].image \in Images
  <2>1. s # Blank /\ s \in Halves /\ Blank \in Halves /\ s.image \in Images
    BY HalvesAssumption DEF Halves, Seals
  <2>2. CASE content = <<s, s>>
    BY <2>1, <2>2 DEF Whole
  <2>3. CASE content \in {<<Blank, s>>, <<Blank, Blank>>}
    <3>1. content[1] = Blank /\ content \in Seq(Halves)
      <4>1. CASE content = <<Blank, s>>
        BY <2>1, <4>1
      <4>2. CASE content = <<Blank, Blank>>
        BY <2>1, <4>2
      <4> QED BY <2>3, <4>1, <4>2
    <3>2. DetectFormat(content) = "unknown"
      BY <3>1 DEF DetectFormat
    <3> QED BY <3>1, <3>2
  <2> QED BY <1>1, <2>2, <2>3
<1>2. ASSUME content \in Seq(MadeHalves)
      PROVE  content \in Seq(Halves) /\ DetectFormat(content) # "plain"
  <2>1. MadeHalves \subseteq Halves
    BY DEF MadeHalves, Halves, MadeSeals, Seals
  <2>2. content \in Seq(Halves)
    BY <1>2, <2>1
  <2>3. content # << >> => content[1] \in MadeHalves
    BY <1>2
  <2>4. PlainKey \notin MadeKeys
    BY DEF PlainKey, MadeKeys
  <2>5. content # << >> /\ content[1] # Blank => content[1].key # PlainKey
    BY <2>3, <2>4 DEF MadeHalves, MadeSeals
  <2> QED BY <2>2, <2>5 DEF DetectFormat
<1>3. CASE CacheFile(p) = "index"
  BY <1>1, <1>3 DEF CacheInv, FilesInv, IndexOK, Shaped
<1>4. CASE CacheFile(p) = "flow"
  BY <1>1, <1>2, <1>4 DEF CacheInv, FilesInv, FlowShaped
<1> QED BY <1>3, <1>4 DEF CacheFile

LEMMA LoadFailedOwns ==
    ASSUME CacheInv, NEW p \in Process, LoadFailed(p), UNCHANGED plan, handle'[p] = NoFile
    PROVE  /\ StepOf(p)
           /\ lock' \in [Process -> {"none", "shared", "exclusive"}]
           /\ \A q \in Process \ {p} : lock'[q] = lock[q]
           /\ OwnOK(p, proc[p], handle[p], lock[p])'
<1> USE DEF LoadFailed, CacheInv, Typed
<1>1. StepOf(p) /\ proc'[p].at = "scan" /\ proc'[p].goal = proc[p].goal
  BY GoToStep DEF Steps
<1>2. /\ lock' \in [Process -> {"none", "shared", "exclusive"}]
      /\ lock'[p] = "none" /\ \A q \in Process \ {p} : lock'[q] = lock[q]
  BY DEF Unlock, Lock
<1>3. proc[p].goal = "migrate" => Job(p) = "flow"
  BY OwnFacts
<1> QED BY <1>1, <1>2, <1>3, IdleOwns

LEMMA ForReadFile ==
    ASSUME CacheInv, NEW p \in Process, ReadFile(p)
    PROVE  CacheInv'
<1> DEFINE content == files[CacheFile(p)]
           format == IF content = NoFile THEN "unknown" ELSE DetectFormat(content)
<1>1. /\ proc[p] \in ProcRecords /\ handle[p] = NoFile
      /\ lock[p] \in {"none", "shared", "exclusive"}
      /\ proc[p].at = "read" /\ UNCHANGED <<files, handle, envVars>> /\ spent' = spent
  BY OwnFacts DEF ReadFile, NoFault, Writing, Wiping, Saving
<1>2. UNCHANGED plan
  BY <1>1 DEF envVars
<1>3. CASE format = "unknown"
  <2>1. LoadFailed(p)
    BY <1>3 DEF ReadFile
  <2> QED BY <2>1, <1>1, <1>2, LoadFailedOwns, QuietStep DEF Writing, Wiping, Ended
<1>4. CASE format # "unknown"
  <2>1. content \in Seq(Halves)
    BY <1>4, CacheContent
  <2>2. format \in {"encrypted", "plain"}
    BY <1>4 DEF DetectFormat
  <2>3. /\ lock' = lock
        /\ format = "encrypted" =>
             proc' = [proc EXCEPT ![p].at = "key", ![p].goal = "load", ![p].buf = content]
        /\ format = "plain" =>
             proc' = [proc EXCEPT ![p].at = IF Job(p) = "flow" THEN "key" ELSE "loaded",
                                  ![p].goal = IF Job(p) = "flow" THEN "migrate" ELSE "load",
                                  ![p].buf = content, ![p].mem = content[1].image]
    BY <2>2 DEF ReadFile
  <2>4. format = "plain" => Whole(content) /\ content[1].image \in Images
    BY CacheContent
  <2> HIDE DEF content, format
  <2> DEFINE r == IF format = "encrypted"
                  THEN [proc[p] EXCEPT !.at = "key", !.goal = "load", !.buf = content]
                  ELSE [proc[p] EXCEPT !.at = IF Job(p) = "flow" THEN "key" ELSE "loaded",
                                  !.goal = IF Job(p) = "flow" THEN "migrate" ELSE "load",
                                  !.buf = content, !.mem = content[1].image]
  <2>5. r \in ProcRecords /\ r.seen = proc[p].seen /\ r.buf = content
    <3>1. CASE format = "encrypted"
      <4>1. [proc[p] EXCEPT !.at = "key", !.goal = "load", !.buf = content] \in ProcRecords
        BY <1>1, <2>1 DEF ProcRecords, Steps, Saving
      <4> QED BY <1>1, <3>1, <4>1 DEF ProcRecords
    <3>2. CASE format = "plain"
      <4> DEFINE at == IF Job(p) = "flow" THEN "key" ELSE "loaded"
                 goal == IF Job(p) = "flow" THEN "migrate" ELSE "load"
      <4>1. at \in Steps /\ goal \in {"load", "migrate"} /\ content[1].image \in Images
        BY <2>4, <3>2 DEF Steps, Saving, Updating
      <4> HIDE DEF at, goal
      <4>2. [proc[p] EXCEPT !.at = at, !.goal = goal, !.buf = content,
                            !.mem = content[1].image] \in ProcRecords
        BY <1>1, <2>1, <4>1 DEF ProcRecords
      <4> QED BY <1>1, <3>2, <4>2 DEF ProcRecords, at, goal
    <3> QED BY <2>2, <3>1, <3>2
  <2>6. proc' = [proc EXCEPT ![p] = r]
    BY <2>2, <2>3
  <2>7. /\ format = "encrypted" => r.at = "key" /\ r.goal = "load"
        /\ format = "plain" =>
             /\ r.at = IF Job(p) = "flow" THEN "key" ELSE "loaded"
             /\ r.goal = IF Job(p) = "flow" THEN "migrate" ELSE "load"
             /\ r.mem = content[1].image
    BY <1>1 DEF ProcRecords
  <2> HIDE DEF r
  <2>8. StepOf(p) /\ proc'[p] = r
    BY <2>5, <2>6 DEF StepOf, CacheInv, Typed
  <2>9. OwnOK(p, proc[p], handle[p], lock[p])'
    BY <1>1, <1>2, <2>2, <2>3, <2>4, <2>5, <2>7, <2>8
       DEF OwnOK, HandleOK, LockOK, ImageOK, BufferOK, ServedOK, Job,
           Writing, Saving, Wiping, Updating, Locked
  <2> QED BY <1>1, <2>3, <2>8, <2>9, QuietStep DEF CacheInv, Typed, Writing, Wiping, Ended
<1> QED BY <1>3, <1>4

LEMMA ForDecrypt ==
    ASSUME CacheInv, NEW p \in Process, Decrypt(p)
    PROVE  CacheInv'
<1>1. /\ proc[p] \in ProcRecords /\ handle[p] = NoFile
      /\ lock[p] \in {"none", "shared", "exclusive"}
      /\ (proc[p].goal = "migrate" => Job(p) = "flow")
      /\ proc[p].at = "decrypt" /\ UNCHANGED envVars /\ spent' = spent
  BY OwnFacts DEF Decrypt, NoFault, Writing, Wiping, Saving
<1>2. UNCHANGED plan
  BY <1>1 DEF envVars
<1>3. CASE Decrypts(proc[p].buf, proc[p].key)
  <2> DEFINE image == proc[p].buf[1].image
             r == [proc[p] EXCEPT !.at = "loaded", !.mem = image]
  <2>1. image \in Images /\ Whole(proc[p].buf)
    <3>1. proc[p].buf \in Seq(Halves) /\ Whole(proc[p].buf)
      BY <1>1, <1>3 DEF ProcRecords, Decrypts
    <3>2. proc[p].buf[1] \in Seals
      BY <3>1 DEF Whole, Halves
    <3> QED BY <3>1, <3>2 DEF Seals
  <2>2. proc' = [proc EXCEPT ![p] = r] /\ UNCHANGED <<files, handle, lock>>
    BY <1>3 DEF Decrypt
  <2> HIDE DEF image
  <2>3. r \in ProcRecords
    BY <1>1, <2>1 DEF ProcRecords, Steps, Updating
  <2>4. r.at = "loaded" /\ r.mem = image /\ r.goal = proc[p].goal /\ r.buf = proc[p].buf
          /\ r.seen = proc[p].seen
    BY <1>1 DEF ProcRecords
  <2> HIDE DEF r
  <2>5. StepOf(p) /\ proc'[p] = r
    BY <2>2, <2>3, <2>4 DEF StepOf, CacheInv, Typed
  <2>6. OwnOK(p, proc[p], handle[p], lock[p])'
    BY <1>1, <1>2, <2>1, <2>2, <2>4, <2>5
       DEF image, OwnOK, HandleOK, LockOK, ImageOK, BufferOK, ServedOK, Job,
           Writing, Saving, Wiping, Updating, Locked
  <2> QED BY <1>1, <2>2, <2>5, <2>6, QuietStep DEF CacheInv, Typed, Writing, Wiping, Ended
<1>4. CASE ~Decrypts(proc[p].buf, proc[p].key)
  <2>1. RemoveFiles({CacheFile(p)}) /\ LoadFailed(p)
    BY <1>4 DEF Decrypt, DecryptFailed
  <2>2. {CacheFile(p)} \in SUBSET FileNames
    BY DEF CacheFile, FileNames
  <2>3. handle'[p] = NoFile
    BY <1>1, <2>1 DEF RemoveFiles
  <2> QED BY <1>1, <1>2, <2>1, <2>2, <2>3, LoadFailedOwns, RemoveStep DEF Writing, Wiping, Ended
<1> QED BY <1>3, <1>4

(* While an image is looked at and brought up to date.                     *)
LEMMA UpdatingOwns ==
    ASSUME NEW p, UNCHANGED plan, handle'[p] = NoFile, lock'[p] = "none",
           proc'[p].at \in {"query", "journal", "apply", "stamp", "save"},
           proc'[p].mem \in Images,
           proc'[p].goal = "migrate" => Job(p) = "flow",
           Job(p) \in {"frame", "flow"} => proc'[p].at \in {"query", "stamp"},
           Job(p) = "frame" => proc'[p].at = "stamp"
    PROVE  OwnOK(p, proc[p], handle[p], lock[p])'
BY DEF OwnOK, HandleOK, LockOK, ImageOK, BufferOK, ServedOK, Job,
       Ended, Writing, Saving, Wiping, Updating, Locked

LEMMA ForUseLoaded ==
    ASSUME CacheInv, NEW p \in Process, UseLoaded(p)
    PROVE  CacheInv'
<1>1. /\ proc[p] \in ProcRecords /\ handle[p] = NoFile
      /\ (proc[p].goal = "migrate" => Job(p) = "flow")
      /\ proc[p].at = "loaded" /\ UNCHANGED <<files, handle, envVars>> /\ spent' = spent
  BY OwnFacts DEF UseLoaded, NoFault, Writing, Wiping, Saving
<1>2. UNCHANGED plan /\ Typed
  BY <1>1 DEF envVars, CacheInv
<1>3. proc[p].mem \in Images /\ proc[p].mem # None
  BY <1>1, OwnFacts, HalvesAssumption DEF ImageOK, Updating
<1>4. /\ lock' \in [Process -> {"none", "shared", "exclusive"}]
      /\ lock'[p] = "none" /\ \A q \in Process \ {p} : lock'[q] = lock[q]
  BY <1>2 DEF UseLoaded, Unlock, Lock, Typed
<1>5. CASE End(p, "done", proc[p].mem, TRUE)
  <2>1. /\ StepOf(p) /\ proc'[p].at = "done" /\ proc'[p].out = proc[p].mem
        /\ proc'[p].goal = proc[p].goal
    BY <1>2, <1>3, <1>5, EndStep DEF Ended
  <2>2. OwnOK(p, proc[p], handle[p], lock[p])'
    BY <1>1, <1>2, <1>3, <1>4, <2>1, EndedOwns DEF Ended
  <2> QED BY <1>1, <1>4, <2>1, <2>2, QuietStep DEF Writing, Wiping, Ended
<1>6. CASE GoTo(p, "query") /\ Job(p) # "frame"
  <2>1. /\ StepOf(p) /\ proc'[p].at = "query" /\ proc'[p].mem = proc[p].mem
        /\ proc'[p].goal = proc[p].goal
    BY <1>2, <1>6, GoToStep DEF Steps, Updating
  <2>2. OwnOK(p, proc[p], handle[p], lock[p])'
    BY <1>1, <1>2, <1>3, <1>4, <1>6, <2>1, UpdatingOwns
  <2> QED BY <1>1, <1>4, <2>1, <2>2, QuietStep DEF Writing, Wiping, Ended
<1> QED BY <1>5, <1>6 DEF UseLoaded, LocksToLoad

(* On the way to the key, whether to load or to save.                      *)
LEMMA SeekKeyOwns ==
    ASSUME CacheInv, NEW p \in Process, UNCHANGED <<plan, spent>>, lock'[p] = lock[p],
           proc[p].at \in {"key", "generate", "drop", "createkey"},
           NEW step \in {"generate", "drop", "createkey", "writekey"}, GoTo(p, step),
           handle'[p] = NoFile \/ (step = "writekey" /\ handle'[p] = "key")
    PROVE  StepOf(p) /\ OwnOK(p, proc[p], handle[p], lock[p])'
<1>1. /\ StepOf(p) /\ proc'[p].at = step /\ proc'[p].goal = proc[p].goal
      /\ proc'[p].mem = proc[p].mem /\ proc'[p].out = proc[p].out
      /\ proc'[p].buf = proc[p].buf
  BY GoToStep DEF CacheInv, Steps, Saving
<1>2. /\ lock[p] \in {"none", "shared", "exclusive"}
      /\ ImageOK(p, proc[p]) /\ BufferOK(proc[p]) /\ ServedOK(p, proc[p])
  BY OwnFacts
<1>3. OwnOK(p, proc[p], handle[p], lock[p])'
  BY <1>1, <1>2
     DEF OwnOK, HandleOK, LockOK, ImageOK, BufferOK, ServedOK, Job,
         Writing, Saving, Wiping, Updating, Locked
<1> QED BY <1>1, <1>3

LEMMA HaveKeyOwns ==
    ASSUME CacheInv, NEW p \in Process, UNCHANGED <<plan, spent>>, lock'[p] = lock[p],
           proc[p].at \in {"key", "writekey"}, NEW key \in MadeKeys, HaveKey(p, key),
           handle'[p] = NoFile
    PROVE  StepOf(p) /\ OwnOK(p, proc[p], handle[p], lock[p])'
<1> DEFINE at == IF proc[p].goal = "load" THEN "decrypt" ELSE "create"
           r == [proc[p] EXCEPT !.at = at, !.key = key]
<1>1. /\ proc[p] \in ProcRecords /\ lock[p] \in {"none", "shared", "exclusive"}
      /\ ImageOK(p, proc[p]) /\ BufferOK(proc[p]) /\ ServedOK(p, proc[p])
  BY OwnFacts
<1>2. proc' = [proc EXCEPT ![p] = r]
  BY DEF HaveKey
<1>3. at \in Steps
  BY DEF Steps, Saving
<1> HIDE DEF at
<1>4. r \in ProcRecords
  BY <1>1, <1>3 DEF ProcRecords
<1>5. /\ r.at = at /\ r.key = key /\ r.goal = proc[p].goal /\ r.mem = proc[p].mem
      /\ r.out = proc[p].out /\ r.buf = proc[p].buf /\ r.seen = proc[p].seen
  BY <1>1 DEF ProcRecords
<1> HIDE DEF r
<1>6. StepOf(p) /\ proc'[p] = r
  BY <1>2, <1>4, <1>5 DEF StepOf, CacheInv, Typed
<1>7. OwnOK(p, proc[p], handle[p], lock[p])'
  BY <1>1, <1>5, <1>6
     DEF at, OwnOK, HandleOK, LockOK, ImageOK, BufferOK, ServedOK, Job,
         Writing, Saving, Wiping, Updating, Locked
<1> QED BY <1>6, <1>7

LEMMA ForGetCacheKey ==
    ASSUME CacheInv, NEW p \in Process, GetCacheKey(p)
    PROVE  CacheInv'
<1>1. /\ handle[p] = NoFile
      /\ proc[p].at = "key" /\ UNCHANGED <<fileVars, envVars>> /\ spent' = spent
  BY OwnFacts DEF GetCacheKey, NoFault, Writing, Wiping, Saving
<1>2. UNCHANGED <<plan, files, handle, lock>> /\ Typed
  BY <1>1 DEF envVars, fileVars, CacheInv
<1>3. CASE \E step \in {"generate", "drop"} : GoTo(p, step)
  <2>1. StepOf(p) /\ OwnOK(p, proc[p], handle[p], lock[p])'
    BY <1>1, <1>2, <1>3, SeekKeyOwns
  <2> QED BY <1>1, <1>2, <2>1, QuietStep DEF Typed, Writing, Wiping, Ended
<1>4. CASE /\ Exists("key") /\ files["key"] \notin {<< >>, <<Blank>>}
           /\ HaveKey(p, files["key"][1])
  <2>1. files["key"][1] \in MadeKeys
    BY <1>4 DEF CacheInv, FilesInv, KeyShaped, Exists
  <2>2. StepOf(p) /\ OwnOK(p, proc[p], handle[p], lock[p])'
    BY <1>1, <1>2, <1>4, <2>1, HaveKeyOwns
  <2> QED BY <1>1, <1>2, <2>2, QuietStep DEF Typed, Writing, Wiping, Ended
<1> QED BY <1>3, <1>4 DEF GetCacheKey

LEMMA ForDropKey ==
    ASSUME CacheInv, NEW p \in Process, DropKey(p)
    PROVE  CacheInv'
<1>1. /\ handle[p] = NoFile
      /\ proc[p].at \in {"drop", "generate"} /\ UNCHANGED <<lock, envVars>> /\ spent' = spent
      /\ RemoveFiles({"key"})
  BY OwnFacts DEF DropKey, NoFault, Writing, Wiping, Saving
<1>2. UNCHANGED plan /\ Typed /\ handle'[p] = NoFile
  BY <1>1 DEF envVars, CacheInv, RemoveFiles
<1>3. PICK step \in {"generate", "createkey"} : GoTo(p, step)
  BY DEF DropKey
<1>4. StepOf(p) /\ OwnOK(p, proc[p], handle[p], lock[p])'
  BY <1>1, <1>2, <1>3, SeekKeyOwns
<1>5. {"key"} \in SUBSET FileNames
  BY DEF FileNames
<1> QED BY <1>1, <1>2, <1>4, <1>5, RemoveStep DEF Typed, Writing, Wiping, Ended

LEMMA SaveEndsOwns ==
    ASSUME CacheInv, NEW p \in Process, NEW ok \in BOOLEAN, SaveEnds(p, ok), UNCHANGED plan,
           handle'[p] = NoFile, spent \subseteq spent',
           proc[p].at = "save" \/ (proc[p].at \in Saving /\ proc[p].goal # "load")
    PROVE  /\ StepOf(p)
           /\ lock' \in [Process -> {"none", "shared", "exclusive"}]
           /\ \A q \in Process \ {p} : lock'[q] = lock[q]
           /\ OwnOK(p, proc[p], handle[p], lock[p])'
<1>1. /\ proc[p] \in ProcRecords /\ lock[p] \in {"none", "shared", "exclusive"}
      /\ ImageOK(p, proc[p]) /\ BufferOK(proc[p]) /\ ServedOK(p, proc[p]) /\ Typed
  BY OwnFacts DEF CacheInv
<1>2. proc[p].mem \in Images /\ (proc[p].goal = "migrate" => Job(p) = "flow")
  BY <1>1 DEF ImageOK, Updating
<1>3. CASE proc[p].goal = "migrate"
  <2>1. UNCHANGED lock /\ GoTo(p, "loaded")
    BY <1>3 DEF SaveEnds
  <2>2. /\ StepOf(p) /\ proc'[p].at = "loaded" /\ proc'[p].goal = proc[p].goal
        /\ proc'[p].mem = proc[p].mem /\ proc'[p].buf = proc[p].buf
    BY <1>1, <2>1, GoToStep DEF Steps, Updating
  <2>3. proc[p].at \in Saving
    BY <1>1, <1>2, <1>3 DEF ImageOK
  <2>4. OwnOK(p, proc[p], handle[p], lock[p])'
    BY <1>1, <1>2, <1>3, <2>1, <2>2, <2>3
       DEF OwnOK, HandleOK, LockOK, ImageOK, BufferOK, ServedOK, Job,
           Writing, Saving, Wiping, Updating, Locked
  <2> QED BY <1>1, <2>1, <2>2, <2>4 DEF Typed
<1>4. CASE proc[p].goal # "migrate"
  <2> DEFINE how == IF ok \/ Job(p) \notin {"update", "get"} THEN "done" ELSE "failed"
             image == IF Job(p) = "frame" THEN proc[p].out ELSE proc[p].mem
  <2>1. Unlock(p) /\ End(p, how, image, FALSE)
    BY <1>4 DEF SaveEnds
  <2>2. image \in Images
    BY <1>1, <1>2, <1>4 DEF ImageOK, ProcRecords
  <2>3. how \in Ended /\ (Job(p) \in {"cached", "frame", "flow"} => how = "done")
    BY DEF Ended
  <2> HIDE DEF how, image
  <2>4. /\ StepOf(p) /\ proc'[p].at = how /\ proc'[p].out = image
        /\ proc'[p].goal = proc[p].goal
    BY <1>1, <2>1, <2>2, <2>3, EndStep
  <2>5. /\ lock' \in [Process -> {"none", "shared", "exclusive"}]
        /\ lock'[p] = "none" /\ \A q \in Process \ {p} : lock'[q] = lock[q]
    BY <1>1, <2>1 DEF Unlock, Lock, Typed
  <2>6. OwnOK(p, proc[p], handle[p], lock[p])'
    BY <1>2, <2>2, <2>3, <2>4, <2>5, EndedOwns, HalvesAssumption
  <2> QED BY <2>4, <2>5, <2>6
<1> QED BY <1>3, <1>4

(* Who has no temporary file leaves those of the others as they are.       *)
LEMMA TempsKeep ==
    ASSUME FilesInv, NEW p \in Process, files[p] = NoFile, UNCHANGED plan, spent \subseteq spent',
           \A q \in Process : files'[q] = files[q],
           \A q \in Process \ {p} : proc'[q] = proc[q] /\ handle'[q] = handle[q]
    PROVE  \A q \in Process : TempOK(q)'
<1> SUFFICES ASSUME NEW q \in Process PROVE TempOK(q)'
  OBVIOUS
<1>1. CASE q = p
  BY <1>1 DEF TempOK
<1>2. CASE q # p
  <2>1. Sealed(q)' = Sealed(q) /\ TempOK(q)
    BY <1>2 DEF Sealed, Seal, FilesInv
  <2> QED BY <1>2, <2>1 DEF TempOK
<1> QED BY <1>1, <1>2

(***************************************************************************)
(* A step of p on one of the files that all use: what is now in it is      *)
(* fit for all that have it open.                                          *)
(***************************************************************************)
LEMMA SharedFile ==
    ASSUME CacheInv, NEW p \in Process, NEW n \in {"key", "index", "flow", "flowtmp"},
           UNCHANGED envVars, spent \subseteq spent', StepOf(p), files[p] = NoFile,
           UNCHANGED lock, OwnOK(p, proc[p], handle[p], lock[p])',
           DOMAIN files' = FileNames, \A m \in FileNames \ {n} : files'[m] = files[m],
           handle' \in [Process -> FileNames \union {NoFile}],
           \A q \in Process \ {p} : handle'[q] = handle[q],
           handle'[p] \in {n, NoFile}, handle[p] = "index" => handle'[p] = "index",
           n = "key" => KeyShaped(files'["key"]),
           n \in {"flow", "flowtmp"} => files'[n] \in Seq(MadeHalves),
           n = "index" =>
             /\ Shaped(files'["index"]) /\ handle'[p] = "index"
             /\ \/ files'["index"][1] = Blank
                \/ files'["index"] = files["index"] /\ proc'[p].at = "wipe1"
    PROVE  CacheInv'
<1> USE DEF CacheInv
<1>1. UNCHANGED plan
  BY DEF envVars
<1>2. Typed'
  BY DEF Typed, StepOf, envVars
<1>3. OwnInv'
  BY <1>1, OthersOwn DEF OwnInv, StepOf
<1>n. {"key", "index", "flow", "flowtmp"} \subseteq FileNames /\ NoFile \notin FileNames
  BY NamesAssumption DEF FileNames
<1>4. \A q \in Process : TempOK(q)'
  <2>1. \A q \in Process : q \in FileNames \ {n}
    BY NamesAssumption DEF FileNames
  <2>2. \A q \in Process : files'[q] = files[q]
    BY <2>1
  <2>3. FilesInv /\ \A q \in Process \ {p} : proc'[q] = proc[q] /\ handle'[q] = handle[q]
    BY DEF StepOf
  <2> QED BY <1>1, <2>2, <2>3, TempsKeep
<1>5. ASSUME NEW q \in Process PROVE OpenOK(q)'
  <2>1. CASE q = p
    <3>1. handle'[p] # p
      BY NamesAssumption DEF FileNames
    <3> QED BY <1>n, <2>1, <3>1 DEF OpenOK
  <2>2. CASE q # p
    <3>1. proc'[q] = proc[q] /\ handle'[q] = handle[q] /\ OpenOK(q)
      BY <2>2 DEF StepOf, FilesInv
    <3>2. handle[q] = "index" =>
            /\ Shaped(files'["index"])
            /\ proc'[q].at \in {"wipe2", "unlink"} => files'["index"][1] = Blank
      BY <1>n, <3>1 DEF OpenOK
    <3>3. handle[q] = "key" => KeyShaped(files'["key"])
      BY <1>n, <3>1 DEF OpenOK
    <3>4. handle[q] \in {"flow", "flowtmp"} => files'[handle[q]] \in Seq(MadeHalves)
      BY <1>n, <3>1 DEF OpenOK
    <3>5. handle[q] = q => files'[q] # NoFile
      BY <3>1, NamesAssumption DEF OpenOK, FileNames
    <3> QED BY <3>1, <3>2, <3>3, <3>4, <3>5 DEF OpenOK
  <2> QED BY <2>1, <2>2
<1>6. IndexOK'
  <2>1. CASE n = "index"
    BY <2>1 DEF IndexOK
  <2>2. CASE n # "index"
    <3>1. files'["index"] = files["index"] /\ IndexOK
      BY <1>n, <2>2 DEF FilesInv
    <3>2. \A q \in Process : handle[q] = "index" => handle'[q] = "index"
      OBVIOUS
    <3> QED BY <3>1, <3>2 DEF IndexOK
  <2> QED BY <2>1, <2>2
<1>7. /\ (files["key"] = NoFile \/ KeyShaped(files["key"]))'
      /\ (files["flow"] = NoFile \/ FlowShaped(files["flow"]))'
      /\ (files["flowtmp"] = NoFile \/ files["flowtmp"] \in Seq(MadeHalves))'
  BY <1>n DEF FilesInv, FlowShaped
<1>8. FilesInv'
  BY <1>4, <1>5, <1>6, <1>7 DEF FilesInv
<1> QED BY <1>2, <1>3, <1>8

LEMMA NoTemp ==
    ASSUME CacheInv, NEW p \in Process, proc[p].at \notin Writing \union {"dead"}
    PROVE  files[p] = NoFile
BY DEF CacheInv, FilesInv, TempOK

LEMMA ForCreateKey ==
    ASSUME CacheInv, NEW p \in Process, CreateKey(p)
    PROVE  CacheInv'
<1>1. /\ handle[p] = NoFile /\ ImageOK(p, proc[p])
      /\ proc[p].at = "createkey" /\ UNCHANGED <<dir, envVars>> /\ spent' = spent
  BY OwnFacts DEF CreateKey, NoFault, Writing, Wiping, Saving
<1>2. UNCHANGED plan /\ Typed /\ OwnInv /\ FilesInv
  BY <1>1 DEF envVars, CacheInv
<1>4. CASE Exists("key")
  <2>1. UNCHANGED <<files, handle>>
    BY <1>4 DEF CreateKey
  <2>2. /\ StepOf(p)
        /\ lock' \in [Process -> {"none", "shared", "exclusive"}]
        /\ \A q \in Process \ {p} : lock'[q] = lock[q]
        /\ OwnOK(p, proc[p], handle[p], lock[p])'
    <3>1. CASE proc[p].goal = "load"
      BY <1>1, <1>2, <1>4, <2>1, <3>1, LoadFailedOwns DEF CreateKey
    <3>2. CASE proc[p].goal # "load"
      BY <1>1, <1>2, <1>4, <2>1, <3>2, SaveEndsOwns DEF CreateKey, Saving
    <3> QED BY <3>1, <3>2
  <2> QED BY <1>1, <2>1, <2>2, QuietStep DEF Writing, Wiping, Ended
<1>5. CASE ~Exists("key")
  <2>1. CreateFile(p, "key") /\ GoTo(p, "writekey") /\ UNCHANGED lock
    BY <1>5 DEF CreateKey
  <2>2. "key" \in FileNames
    BY DEF FileNames
  <2>3. /\ handle' \in [Process -> FileNames \union {NoFile}]
        /\ handle'[p] = "key" /\ \A q \in Process \ {p} : handle'[q] = handle[q]
        /\ DOMAIN files' = FileNames
        /\ files'["key"] = << >> /\ \A n \in FileNames \ {"key"} : files'[n] = files[n]
    BY <1>2, <2>1, <2>2 DEF CreateFile, Typed, FilesInv
  <2>4. StepOf(p) /\ OwnOK(p, proc[p], handle[p], lock[p])'
    BY <1>1, <1>2, <2>1, <2>3, SeekKeyOwns
  <2>5. files[p] = NoFile
    BY <1>1, NoTemp DEF Writing
  <2>6. KeyShaped(files'["key"]) /\ handle[p] # "index"
    BY <1>1, <2>3, NamesAssumption DEF KeyShaped, FileNames
  <2> QED BY <1>1, <2>1, <2>3, <2>4, <2>5, <2>6, SharedFile
<1> QED BY <1>4, <1>5

(* A half at the place of the handle.                                      *)
LEMMA PutHalf ==
    ASSUME NEW S, Blank \in S, NEW content \in Seq(S), NEW i \in Nat \ {0}, NEW half \in S
    PROVE  /\ Put(content, i, half) \in Seq(S)
           /\ Len(Put(content, i, half)) = IF Len(content) < i THEN i ELSE Len(content)
           /\ \A k \in 1 .. Len(Put(content, i, half)) :
                Put(content, i, half)[k] = IF k = i THEN half
                                           ELSE IF k <= Len(content) THEN content[k] ELSE Blank
<1> DEFINE n == IF Len(content) < i THEN i ELSE Len(content)
           each(k) == IF k = i THEN half
                      ELSE IF k <= Len(content) THEN content[k] ELSE Blank
<1>1. n \in Nat /\ \A k \in 1 .. n : each(k) \in S
  OBVIOUS
<1>2. Put(content, i, half) = [k \in 1 .. n |-> each(k)]
  BY DEF Put
<1> HIDE DEF n, each
<1>3. Put(content, i, half) \in Seq(S) /\ Len(Put(content, i, half)) = n
  BY <1>1, <1>2
<1>4. \A k \in 1 .. n : Put(content, i, half)[k] = each(k)
  BY <1>2
<1> QED BY <1>3, <1>4 DEF n, each

LEMMA PutOnly ==
    ASSUME NEW S, Blank \in S, NEW content \in Seq(S), Len(content) \in {0, 1}, NEW half \in S
    PROVE  Put(content, 1, half) = <<half>>
<1> DEFINE n == IF Len(content) < 1 THEN 1 ELSE Len(content)
           each(k) == IF k = 1 THEN half
                      ELSE IF k <= Len(content) THEN content[k] ELSE Blank
<1>1. Put(content, 1, half) = [k \in 1 .. n |-> each(k)]
  BY DEF Put
<1>2. n = 1 /\ \A k \in 1 .. 1 : each(k) = half
  OBVIOUS
<1> HIDE DEF n, each
<1>3. Put(content, 1, half) = [k \in 1 .. 1 |-> half]
  BY <1>1, <1>2
<1> QED BY <1>3

LEMMA KeyContent ==
    ASSUME NEW content, KeyShaped(content)
    PROVE  content \in Seq(MadeKeys \union {Blank}) /\ Len(content) \in {0, 1}
<1>1. CASE content = << >>
  BY <1>1
<1>2. CASE content = <<Blank>>
  BY <1>2
<1>3. ASSUME NEW k \in MadeKeys, content = <<k>>
      PROVE  content \in Seq(MadeKeys \union {Blank}) /\ Len(content) \in {0, 1}
  BY <1>3
<1> QED BY <1>1, <1>2, <1>3 DEF KeyShaped

LEMMA ForWriteKey ==
    ASSUME CacheInv, NEW p \in Process, WriteKey(p)
    PROVE  CacheInv'
<1>1. /\ proc[p] \in ProcRecords /\ proc[p].at = "writekey"
      /\ WritePart(p, 1, NewKey(p)) /\ CloseFile(p) /\ HaveKey(p, NewKey(p))
      /\ UNCHANGED <<lock, envVars>> /\ spent' = spent
  BY OwnFacts DEF WriteKey, NoFault
<1>2. UNCHANGED plan /\ Typed /\ FilesInv
  BY <1>1 DEF envVars, CacheInv
<1>3. NewKey(p) \in MadeKeys
  BY <1>1 DEF NewKey, MadeKeys, ProcRecords
<1>4. /\ handle' = [handle EXCEPT ![p] = NoFile]
      /\ handle' \in [Process -> FileNames \union {NoFile}]
      /\ handle'[p] = NoFile /\ \A q \in Process \ {p} : handle'[q] = handle[q]
  BY <1>1, <1>2 DEF CloseFile, Typed
<1>5. StepOf(p) /\ OwnOK(p, proc[p], handle[p], lock[p])'
  BY <1>1, <1>2, <1>3, <1>4, HaveKeyOwns
<1>6. CASE handle[p] = NoFile
  <2>1. UNCHANGED <<files, handle>>
    BY <1>1, <1>2, <1>4, <1>6 DEF WritePart, Typed
  <2> QED BY <1>1, <1>2, <1>5, <1>6, <2>1, QuietStep DEF Typed, Ended
<1>7. CASE handle[p] = "key"
  <2>1. "key" \in FileNames /\ NoFile # "key"
    BY NamesAssumption DEF FileNames
  <2>2. files' = [files EXCEPT !["key"] = Put(files["key"], 1, NewKey(p))]
    BY <1>1, <1>7, <2>1 DEF WritePart
  <2>3. KeyShaped(files["key"])
    BY <1>2, <1>7 DEF FilesInv, OpenOK
  <2>4. Put(files["key"], 1, NewKey(p)) = <<NewKey(p)>>
    <3> DEFINE S == MadeKeys \union {Blank}
    <3>1. files["key"] \in Seq(S) /\ Len(files["key"]) \in {0, 1}
      BY <2>3, KeyContent
    <3>2. Blank \in S /\ NewKey(p) \in S
      BY <1>3
    <3> HIDE DEF S
    <3> QED BY <3>1, <3>2, PutOnly
  <2>5. /\ DOMAIN files' = FileNames
        /\ files'["key"] = <<NewKey(p)>> /\ \A n \in FileNames \ {"key"} : files'[n] = files[n]
    BY <1>2, <2>1, <2>2, <2>4 DEF FilesInv
  <2>6. KeyShaped(files'["key"])
    BY <1>3, <2>5 DEF KeyShaped
  <2>7. files[p] = NoFile
    BY <1>1, NoTemp DEF Writing
  <2> QED BY <1>1, <1>4, <1>5, <1>7, <2>5, <2>6, <2>7, SharedFile
<1> QED BY <1>1, <1>6, <1>7 DEF CacheInv, OwnInv, OwnOK, HandleOK, Writing, Wiping

LEMMA ForScanVolume ==
    ASSUME CacheInv, NEW p \in Process, ScanVolume(p)
    PROVE  CacheInv'
<1>1. /\ proc[p] \in ProcRecords /\ handle[p] = NoFile /\ lock[p] = "none"
      /\ (proc[p].goal = "migrate" => Job(p) = "flow")
      /\ proc[p].at = "scan" /\ UNCHANGED <<fileVars, envVars>>
  BY OwnFacts DEF ScanVolume, Writing, Wiping, Saving, Locked
<1>2. UNCHANGED <<plan, files, handle, lock>> /\ Typed
  BY <1>1 DEF envVars, fileVars, CacheInv
<1>3. CASE Fault("volume") /\ End(p, "failed", None, FALSE)
  <2>1. StepOf(p) /\ proc'[p].at = "failed" /\ proc'[p].goal = proc[p].goal
    BY <1>2, <1>3, EndStep DEF Ended
  <2>2. spent \subseteq spent' /\ "volume" \in spent'
    BY <1>3 DEF Fault
  <2>3. OwnOK(p, proc[p], handle[p], lock[p])'
    BY <1>1, <1>2, <2>1, <2>2, EndedOwns DEF Ended
  <2> QED BY <1>1, <1>2, <2>1, <2>2, <2>3, QuietStep DEF Typed, Ended
<1>4. CASE /\ NoFault
           /\ proc' = [proc EXCEPT ![p].at = "stamp", ![p].buf = << >>,
                                   ![p].mem = ScanImage(vol, Len(hist))]
  <2> DEFINE image == ScanImage(vol, Len(hist))
             r == [proc[p] EXCEPT !.at = "stamp", !.buf = << >>, !.mem = image]
  <2>1. image \in Images
    BY <1>2, ScannedImage DEF Typed
  <2>2. proc' = [proc EXCEPT ![p] = r]
    BY <1>4
  <2> HIDE DEF image
  <2>3. r \in ProcRecords
    <3>1. "stamp" \in Steps /\ << >> \in Seq(Halves)
      BY DEF Steps, Updating
    <3> QED BY <1>1, <2>1, <3>1 DEF ProcRecords
  <2>4. r.at = "stamp" /\ r.mem = image /\ r.goal = proc[p].goal /\ r.seen = proc[p].seen
    BY <1>1 DEF ProcRecords
  <2> HIDE DEF r
  <2>5. StepOf(p) /\ proc'[p] = r
    BY <1>2, <2>2, <2>3, <2>4 DEF StepOf, Typed
  <2>6. OwnOK(p, proc[p], handle[p], lock[p])'
    BY <1>1, <1>2, <2>1, <2>4, <2>5, UpdatingOwns
  <2> QED BY <1>1, <1>2, <1>4, <2>5, <2>6, QuietStep DEF Typed, Ended, NoFault
<1> QED BY <1>3, <1>4 DEF ScanVolume

LEMMA AnswerOwns ==
    ASSUME CacheInv, NEW p \in Process, NEW next \in {"asis", "current", "scan", "journal"},
           Answer(p, next), proc[p].at \in {"query", "journal"},
           UNCHANGED <<plan, handle, lock>>,
           next = "journal" => Job(p) \notin {"frame", "flow"}
    PROVE  StepOf(p) /\ OwnOK(p, proc[p], handle[p], lock[p])'
<1>1. /\ proc[p] \in ProcRecords /\ handle[p] = NoFile /\ lock[p] = "none" /\ Typed
      /\ (proc[p].goal = "migrate" => Job(p) = "flow")
      /\ proc[p].mem \in Images /\ proc[p].mem # None
  BY OwnFacts, HalvesAssumption
     DEF CacheInv, ImageOK, Writing, Wiping, Saving, Updating, Locked
<1>2. CASE next \in {"asis", "current"}
  <2>1. PICK asIs \in BOOLEAN : End(p, "done", proc[p].mem, asIs)
    BY <1>2 DEF Answer
  <2>2. /\ StepOf(p) /\ proc'[p].at = "done" /\ proc'[p].out = proc[p].mem
        /\ proc'[p].goal = proc[p].goal
    BY <1>1, <2>1, EndStep DEF Ended
  <2> QED BY <1>1, <2>2, EndedOwns DEF Ended
<1>3. CASE next = "scan"
  <2>1. StepOf(p) /\ proc'[p].at = "scan" /\ proc'[p].goal = proc[p].goal
    BY <1>1, <1>3, GoToStep DEF Answer, Steps
  <2> QED BY <1>1, <2>1, IdleOwns
<1>4. CASE next = "journal"
  <2> DEFINE seen == [proc[p].seen EXCEPT !.id = journal.id]
             r == [proc[p] EXCEPT !.at = "journal", !.seen = seen]
  <2>1. proc[p].seen \in [id : Nat, next : Nat, upto : Nat] /\ journal.id \in Nat
    BY <1>1 DEF ProcRecords, Typed
  <2>2. seen \in [id : Nat, next : Nat, upto : Nat] /\ seen.upto = proc[p].seen.upto
    BY <2>1
  <2>3. proc' = [proc EXCEPT ![p] = r]
    BY <1>1, <1>4 DEF Answer, ProcRecords
  <2> HIDE DEF seen
  <2>4. r \in ProcRecords
    BY <1>1, <2>2 DEF ProcRecords, Steps, Updating
  <2>5. r.at = "journal" /\ r.mem = proc[p].mem /\ r.goal = proc[p].goal /\ r.seen = seen
    BY <1>1 DEF ProcRecords
  <2> HIDE DEF r
  <2>6. StepOf(p) /\ proc'[p] = r
    BY <1>1, <2>2, <2>3, <2>4, <2>5 DEF StepOf, Typed
  <2>7. OwnOK(p, proc[p], handle[p], lock[p])'
    BY <1>1, <1>4, <2>5, <2>6, UpdatingOwns
  <2> QED BY <2>6, <2>7
<1> QED BY <1>2, <1>3, <1>4

LEMMA ForQueryJournal ==
    ASSUME CacheInv, NEW p \in Process, QueryJournal(p)
    PROVE  CacheInv'
<1>1. /\ handle[p] = NoFile /\ lock[p] = "none" /\ ImageOK(p, proc[p]) /\ Typed
      /\ (proc[p].goal = "migrate" => Job(p) = "flow")
      /\ proc[p].at = "query" /\ UNCHANGED <<fileVars, envVars>>
  BY OwnFacts DEF QueryJournal, CacheInv, Writing, Wiping, Saving, Locked
<1>2. UNCHANGED <<plan, files, handle, lock>>
  BY <1>1 DEF envVars, fileVars
<1>3. Job(p) # "frame"
  BY <1>1 DEF ImageOK
<1>4. CASE Job(p) = "cached" /\ Fault("volume") /\ End(p, "failed", None, FALSE)
  <2>1. StepOf(p) /\ proc'[p].at = "failed" /\ proc'[p].goal = proc[p].goal
    BY <1>1, <1>4, EndStep DEF Ended
  <2>2. spent \subseteq spent' /\ "volume" \in spent'
    BY <1>4 DEF Fault
  <2>3. OwnOK(p, proc[p], handle[p], lock[p])'
    BY <1>1, <1>2, <2>1, <2>2, EndedOwns DEF Ended
  <2> QED BY <1>1, <1>2, <2>1, <2>2, <2>3, QuietStep DEF Typed, Ended
<1>5. ASSUME NEW next \in {"asis", "current", "scan", "journal"}, Answer(p, next),
             next = "journal" => Job(p) # "flow", spent \subseteq spent'
      PROVE  CacheInv'
  <2>1. StepOf(p) /\ OwnOK(p, proc[p], handle[p], lock[p])'
    BY <1>1, <1>2, <1>3, <1>5, AnswerOwns
  <2> QED BY <1>1, <1>2, <1>5, <2>1, QuietStep DEF Typed, Ended
<1>6. CASE \E next \in CASE Job(p) = "cached" -> {"asis", "scan"}
                         [] Job(p) = "update" -> {"scan"}
                         [] OTHER -> {"asis"} : Answer(p, next) /\ Fault("query")
  BY <1>5, <1>6 DEF Fault
<1>7. CASE /\ Answer(p, CASE Job(p) = "cached" -> NextOfCached(proc[p].mem)
                          [] Job(p) = "update" -> NextOfUpdate(proc[p].mem)
                          [] OTHER -> NextOfFlow(proc[p].mem))
           /\ NoFault
  <2>1. CASE Job(p) = "cached"
    BY <1>5, <1>7, <2>1 DEF NextOfCached, NoFault
  <2>2. CASE Job(p) = "update"
    BY <1>5, <1>7, <2>2 DEF NextOfUpdate, NoFault
  <2>3. CASE Job(p) \notin {"cached", "update"}
    BY <1>5, <1>7, <2>3 DEF NextOfFlow, NoFault
  <2> QED BY <2>1, <2>2, <2>3
<1> QED BY <1>4, <1>6, <1>7 DEF QueryJournal

LEMMA ForReadJournal ==
    ASSUME CacheInv, NEW p \in Process, ReadJournal(p)
    PROVE  CacheInv'
<1> DEFINE batch == ReadUsnJournal(journal, proc[p].mem.next)
           unread == IF Job(p) = "cached" THEN "asis" ELSE "scan"
<1>1. /\ proc[p] \in ProcRecords /\ handle[p] = NoFile /\ lock[p] = "none"
      /\ ImageOK(p, proc[p]) /\ Typed
      /\ (proc[p].goal = "migrate" => Job(p) = "flow")
      /\ proc[p].at = "journal" /\ UNCHANGED <<fileVars, envVars>>
  BY OwnFacts DEF ReadJournal, CacheInv, Writing, Wiping, Saving, Locked
<1>2. UNCHANGED <<plan, files, handle, lock>>
  BY <1>1 DEF envVars, fileVars
<1>3. proc[p].mem \in Images /\ Job(p) \notin {"frame", "flow"}
  BY <1>1 DEF ImageOK, Updating
<1>4. ASSUME NEW next \in {"asis", "current", "scan", "journal"}, Answer(p, next),
             spent \subseteq spent'
      PROVE  CacheInv'
  <2>1. StepOf(p) /\ OwnOK(p, proc[p], handle[p], lock[p])'
    BY <1>1, <1>2, <1>3, <1>4, AnswerOwns
  <2> QED BY <1>1, <1>2, <1>4, <2>1, QuietStep DEF Typed, Ended
<1>5. CASE (Answer(p, unread) \/ Answer(p, "current")) /\ (NoFault \/ Fault("journal"))
  BY <1>4, <1>5 DEF NoFault, Fault
<1>6. CASE /\ Readable(journal, proc[p].seen.id, proc[p].mem.next) /\ NoFault
           /\ proc' = [proc EXCEPT ![p].at = "apply", ![p].batch = batch,
                                   ![p].seen.next = JournalNext(journal),
                                   ![p].seen.upto = Len(hist)]
  <2> DEFINE seen == [proc[p].seen EXCEPT !.next = JournalNext(journal), !.upto = Len(hist)]
             r == [proc[p] EXCEPT !.at = "apply", !.batch = batch, !.seen = seen]
  <2>1. /\ proc[p].seen \in [id : Nat, next : Nat, upto : Nat]
        /\ JournalNext(journal) \in Nat /\ Len(hist) \in Nat
    BY <1>1 DEF ProcRecords, Typed, JournalNext
  <2>2. seen \in [id : Nat, next : Nat, upto : Nat] /\ seen.upto = Len(hist)
    BY <2>1
  <2>3. batch \in Seq(Entries)
    <3>1. journal.log \in Seq(Entries) /\ journal.first \in Nat /\ proc[p].mem.next \in Nat
      BY <1>1, <1>3 DEF Typed, Images
    <3>2. proc[p].mem.next >= journal.first
      BY <1>6 DEF Readable
    <3>3. /\ proc[p].mem.next - journal.first + 1 \in Nat \ {0}
          /\ Len(journal.log) \in Nat
      BY <3>1, <3>2
    <3> QED BY <3>1, <3>3, SubSeqProperties DEF ReadUsnJournal
  <2>4. proc' = [proc EXCEPT ![p] = r]
    <3> DEFINE next == JournalNext(journal)
               upto == Len(hist)
    <3>1. proc' = [proc EXCEPT ![p].at = "apply", ![p].batch = batch,
                               ![p].seen.next = next, ![p].seen.upto = upto]
      BY <1>6
    <3> HIDE DEF batch, next, upto
    <3>2. [proc[p] EXCEPT !.at = "apply", !.batch = batch,
                          !.seen.next = next, !.seen.upto = upto]
            = [proc[p] EXCEPT !.at = "apply", !.batch = batch,
                 !.seen = [proc[p].seen EXCEPT !.next = next, !.upto = upto]]
      BY <1>1 DEF ProcRecords
    <3> QED BY <1>1, <3>1, <3>2 DEF next, upto
  <2> HIDE DEF seen, batch
  <2>5. r \in ProcRecords
    BY <1>1, <2>2, <2>3 DEF ProcRecords, Steps, Updating
  <2>6. r.at = "apply" /\ r.mem = proc[p].mem /\ r.goal = proc[p].goal /\ r.seen = seen
    BY <1>1 DEF ProcRecords
  <2> HIDE DEF r
  <2>7. StepOf(p) /\ proc'[p] = r
    BY <1>1, <2>2, <2>4, <2>5, <2>6 DEF StepOf, Typed
  <2>8. OwnOK(p, proc[p], handle[p], lock[p])'
    BY <1>1, <1>2, <1>3, <2>6, <2>7, UpdatingOwns
  <2> QED BY <1>1, <1>2, <1>6, <2>7, <2>8, QuietStep DEF Typed, Ended, NoFault
<1> QED BY <1>5, <1>6 DEF ReadJournal

LEMMA ForApplyUsnChanges ==
    ASSUME CacheInv, NEW p \in Process, ApplyUsnChanges(p)
    PROVE  CacheInv'
<1>1. /\ proc[p] \in ProcRecords /\ handle[p] = NoFile /\ lock[p] = "none"
      /\ ImageOK(p, proc[p]) /\ Typed
      /\ (proc[p].goal = "migrate" => Job(p) = "flow")
      /\ proc[p].at = "apply" /\ UNCHANGED <<fileVars, envVars>>
  BY OwnFacts DEF ApplyUsnChanges, CacheInv, Writing, Wiping, Saving, Locked
<1>2. UNCHANGED <<plan, files, handle, lock>>
  BY <1>1 DEF envVars, fileVars
<1>3. proc[p].mem \in Images /\ Job(p) \notin {"frame", "flow"}
  BY <1>1 DEF ImageOK, Updating
<1>4. CASE Job(p) = "update" /\ Fault("volume") /\ End(p, "failed", None, FALSE)
  <2>1. StepOf(p) /\ proc'[p].at = "failed" /\ proc'[p].goal = proc[p].goal
    BY <1>1, <1>4, EndStep DEF Ended
  <2>2. spent \subseteq spent'
    BY <1>4 DEF Fault
  <2>3. OwnOK(p, proc[p], handle[p], lock[p])'
    BY <1>1, <1>2, <1>4, <2>1, EndedOwns DEF Ended, Job
  <2> QED BY <1>1, <1>2, <2>1, <2>2, <2>3, QuietStep DEF Typed, Ended
<1>5. ASSUME NEW missed \in SUBSET FrsToRead(proc[p].batch), spent \subseteq spent',
             proc' = [proc EXCEPT ![p].at = "save",
                        ![p].mem = Updated(@, proc[p].batch, proc[p].seen, missed)]
      PROVE  CacheInv'
  <2> DEFINE image == Updated(proc[p].mem, proc[p].batch, proc[p].seen, missed)
             r == [proc[p] EXCEPT !.at = "save", !.mem = image]
  <2>1. image \in Images
    <3>1. proc[p].seen \in [id : Nat, next : Nat, upto : Nat] /\ missed \in SUBSET Files
      BY <1>1 DEF ProcRecords, FrsToRead
    <3> QED BY <1>1, <1>3, <3>1, UpdatedImage DEF Typed
  <2>2. proc' = [proc EXCEPT ![p] = r]
    BY <1>5
  <2> HIDE DEF image
  <2>3. r \in ProcRecords
    BY <1>1, <2>1 DEF ProcRecords, Steps, Updating
  <2>4. r.at = "save" /\ r.mem = image /\ r.goal = proc[p].goal /\ r.seen = proc[p].seen
    BY <1>1 DEF ProcRecords
  <2> HIDE DEF r
  <2>5. StepOf(p) /\ proc'[p] = r
    BY <1>1, <2>2, <2>3, <2>4 DEF StepOf, Typed
  <2>6. OwnOK(p, proc[p], handle[p], lock[p])'
    BY <1>1, <1>2, <1>3, <2>1, <2>4, <2>5, UpdatingOwns
  <2> QED BY <1>1, <1>2, <1>5, <2>5, <2>6, QuietStep DEF Typed, Ended
<1> QED BY <1>4, <1>5 DEF ApplyUsnChanges, NoFault, Fault

(* An image to be written: by way of the lock, or at once.                 *)
LEMMA ToSaveOwns ==
    ASSUME CacheInv, NEW p \in Process, NEW image \in Images, ToSave(p, image),
           proc[p].at = "stamp", UNCHANGED <<plan, lock>>, handle'[p] = NoFile
    PROVE  StepOf(p) /\ OwnOK(p, proc[p], handle[p], lock[p])'
<1>1. /\ proc[p] \in ProcRecords /\ lock[p] = "none" /\ Typed
      /\ (proc[p].goal = "migrate" => Job(p) = "flow")
  BY OwnFacts DEF CacheInv, Writing, Wiping, Saving, Locked
<1>2. CASE Job(p) \in {"frame", "flow"}
  <2> DEFINE out == IF Job(p) = "frame" THEN image ELSE None
             r == [proc[p] EXCEPT !.at = "key", !.goal = "save", !.mem = image, !.out = out]
  <2>1. proc' = [proc EXCEPT ![p] = r] /\ out \in Images \union {None}
    BY <1>2 DEF ToSave
  <2>2. Job(p) = "frame" => out \in Images
    OBVIOUS
  <2> HIDE DEF out
  <2>3. r \in ProcRecords
    BY <1>1, <2>1 DEF ProcRecords, Steps, Saving
  <2>4. r.at = "key" /\ r.goal = "save" /\ r.mem = image /\ r.out = out /\ r.seen = proc[p].seen
    BY <1>1 DEF ProcRecords
  <2> HIDE DEF r
  <2>5. StepOf(p) /\ proc'[p] = r
    BY <1>1, <2>1, <2>3, <2>4 DEF StepOf, Typed
  <2>6. OwnOK(p, proc[p], handle[p], lock[p])'
    BY <1>1, <2>2, <2>4, <2>5
       DEF OwnOK, HandleOK, LockOK, ImageOK, BufferOK, ServedOK, Job,
           Writing, Saving, Wiping, Updating, Locked
  <2> QED BY <2>5, <2>6
<1>3. CASE Job(p) \notin {"frame", "flow"}
  <2> DEFINE r == [proc[p] EXCEPT !.at = "save", !.mem = image]
  <2>1. proc' = [proc EXCEPT ![p] = r]
    BY <1>3 DEF ToSave
  <2>2. r \in ProcRecords
    BY <1>1 DEF ProcRecords, Steps, Updating
  <2>3. r.at = "save" /\ r.mem = image /\ r.goal = proc[p].goal /\ r.seen = proc[p].seen
    BY <1>1 DEF ProcRecords
  <2> HIDE DEF r
  <2>4. StepOf(p) /\ proc'[p] = r
    BY <1>1, <2>1, <2>2, <2>3 DEF StepOf, Typed
  <2>5. OwnOK(p, proc[p], handle[p], lock[p])'
    BY <1>1, <1>3, <2>3, <2>4, UpdatingOwns
  <2> QED BY <2>4, <2>5
<1> QED BY <1>2, <1>3

LEMMA ForStampCheckpoint ==
    ASSUME CacheInv, NEW p \in Process, StampCheckpoint(p)
    PROVE  CacheInv'
<1>1. /\ handle[p] = NoFile /\ lock[p] = "none" /\ ImageOK(p, proc[p]) /\ Typed
      /\ (proc[p].goal = "migrate" => Job(p) = "flow")
      /\ proc[p].at = "stamp" /\ UNCHANGED <<lock, envVars>>
  BY OwnFacts DEF StampCheckpoint, CacheInv, Writing, Wiping, Saving, Locked
<1>2. /\ UNCHANGED plan /\ spent \subseteq spent'
      /\ Fault("volume") => "volume" \in spent'
  BY <1>1 DEF envVars, StampCheckpoint, NoFault, Fault
<1>3. CleanupStaleTemps \/ UNCHANGED <<files, handle>>
  BY DEF StampCheckpoint
<1>4. handle'[p] = NoFile
  BY <1>1, <1>3 DEF CleanupStaleTemps, RemoveFiles
<1>5. StepOf(p) /\ OwnOK(p, proc[p], handle[p], lock[p])'
  <2>1. proc[p].mem \in Images
    BY <1>1 DEF ImageOK, Updating
  <2>2. CASE \E image \in Images : ToSave(p, image)
    BY <1>1, <1>2, <1>4, <2>2, ToSaveOwns
  <2>3. CASE Fault("volume") /\ End(p, "failed", None, FALSE)
    <3>1. StepOf(p) /\ proc'[p].at = "failed" /\ proc'[p].goal = proc[p].goal
      BY <1>1, <2>3, EndStep DEF Ended
    <3> QED BY <1>1, <1>2, <1>4, <2>3, <3>1, EndedOwns DEF Ended
  <2>4. Stamped(proc[p].mem) \in Images
    BY <1>1, <2>1, StampedImage DEF Typed
  <2> QED BY <2>1, <2>2, <2>3, <2>4 DEF StampCheckpoint
<1>6. CASE CleanupStaleTemps
  <2>1. Process \in SUBSET FileNames /\ RemoveFiles(Process)
    BY <1>6 DEF FileNames, CleanupStaleTemps
  <2> QED BY <1>1, <1>2, <1>5, <2>1, RemoveStep DEF Typed, Writing, Wiping, Ended
<1>7. CASE UNCHANGED <<files, handle>>
  BY <1>1, <1>2, <1>5, <1>7, QuietStep DEF Typed, Ended
<1> QED BY <1>3, <1>6, <1>7

LEMMA ForPersist ==
    ASSUME CacheInv, NEW p \in Process, Persist(p)
    PROVE  CacheInv'
<1> DEFINE image == Stamped(ScanImage(vol, Len(hist)))
           r == [proc[p] EXCEPT !.at = "key", !.goal = "save", !.mem = image]
<1>1. /\ proc[p] \in ProcRecords /\ handle[p] = NoFile /\ lock[p] = "none" /\ Typed
      /\ proc[p].at = "compacted" /\ UNCHANGED <<fileVars, envVars>> /\ spent' = spent
  BY OwnFacts DEF Persist, NoFault, CacheInv, Writing, Wiping, Saving, Locked
<1>2. UNCHANGED <<plan, files, handle, lock>>
  BY <1>1 DEF envVars, fileVars
<1>3. Job(p) = "persist"
  BY <1>1, OwnFacts DEF ImageOK
<1>4. image \in Images
  BY <1>1, ScannedImage, StampedImage DEF Typed
<1>5. proc' = [proc EXCEPT ![p] = r]
  BY DEF Persist
<1> HIDE DEF image
<1>6. r \in ProcRecords
  BY <1>1, <1>4 DEF ProcRecords, Steps, Saving
<1>7. r.at = "key" /\ r.goal = "save" /\ r.mem = image /\ r.out = proc[p].out
        /\ r.seen = proc[p].seen
  BY <1>1 DEF ProcRecords
<1> HIDE DEF r
<1>8. StepOf(p) /\ proc'[p] = r
  BY <1>1, <1>5, <1>6, <1>7 DEF StepOf, Typed
<1>9. OwnOK(p, proc[p], handle[p], lock[p])'
  BY <1>1, <1>2, <1>3, <1>4, <1>7, <1>8
     DEF OwnOK, HandleOK, LockOK, ImageOK, BufferOK, ServedOK, Job,
         Writing, Saving, Wiping, Updating, Locked
<1> QED BY <1>1, <1>2, <1>8, <1>9, QuietStep DEF Typed, Ended

LEMMA ForLockToSave ==
    ASSUME CacheInv, NEW p \in Process, LockToSave(p)
    PROVE  CacheInv'
<1>1. /\ proc[p] \in ProcRecords /\ handle[p] = NoFile /\ lock[p] = "none"
      /\ ImageOK(p, proc[p]) /\ Typed
      /\ (proc[p].goal = "migrate" => Job(p) = "flow")
      /\ proc[p].at = "save" /\ UNCHANGED envVars /\ spent' = spent
  BY OwnFacts DEF LockToSave, NoFault, CacheInv, Writing, Wiping, Saving, Locked
<1>2. /\ UNCHANGED plan /\ handle'[p] = NoFile
      /\ Process \in SUBSET FileNames /\ RemoveFiles(Process)
  BY <1>1 DEF LockToSave, CleanupStaleTemps, RemoveFiles, FileNames, envVars
<1>3. proc[p].mem \in Images /\ Job(p) \notin {"frame", "flow"}
  BY <1>1 DEF ImageOK, Updating
<1>4. /\ StepOf(p)
      /\ lock' \in [Process -> {"none", "shared", "exclusive"}]
      /\ \A q \in Process \ {p} : lock'[q] = lock[q]
      /\ OwnOK(p, proc[p], handle[p], lock[p])'
  <2>1. CASE ~MayLock(p, "exclusive")
    BY <1>1, <1>2, <2>1, SaveEndsOwns DEF LockToSave
  <2>2. CASE MayLock(p, "exclusive")
    <3> DEFINE r == [proc[p] EXCEPT !.at = "key", !.goal = "save"]
    <3>1. proc' = [proc EXCEPT ![p] = r] /\ Lock(p, "exclusive")
      BY <2>2 DEF LockToSave
    <3>2. r \in ProcRecords
      BY <1>1 DEF ProcRecords, Steps, Saving
    <3>3. r.at = "key" /\ r.goal = "save" /\ r.mem = proc[p].mem /\ r.seen = proc[p].seen
      BY <1>1 DEF ProcRecords
    <3> HIDE DEF r
    <3>4. StepOf(p) /\ proc'[p] = r
      BY <1>1, <3>1, <3>2, <3>3 DEF StepOf, Typed
    <3>5. /\ lock' \in [Process -> {"none", "shared", "exclusive"}]
          /\ lock'[p] = "exclusive" /\ \A q \in Process \ {p} : lock'[q] = lock[q]
      BY <1>1, <3>1 DEF Lock, Typed
    <3>6. OwnOK(p, proc[p], handle[p], lock[p])'
      BY <1>2, <1>3, <3>3, <3>4, <3>5
         DEF OwnOK, HandleOK, LockOK, ImageOK, BufferOK, ServedOK, Job,
             Writing, Saving, Wiping, Updating, Locked
    <3> QED BY <3>4, <3>5, <3>6
  <2> QED BY <2>1, <2>2
<1> QED BY <1>1, <1>2, <1>4, RemoveStep DEF Writing, Wiping, Ended

LEMMA ForFindCached ==
    ASSUME CacheInv, NEW p \in Process, FindCached(p)
    PROVE  CacheInv'
<1>1. /\ handle[p] = NoFile /\ lock[p] = "none" /\ Typed /\ ImageOK(p, proc[p])
      /\ (proc[p].goal = "migrate" => Job(p) = "flow")
      /\ proc[p].at = "find" /\ UNCHANGED <<lock, envVars>> /\ spent' = spent
  BY OwnFacts DEF FindCached, NoFault, CacheInv, Writing, Wiping, Saving, Locked
<1>2. /\ UNCHANGED plan /\ handle'[p] = NoFile
      /\ Process \in SUBSET FileNames /\ RemoveFiles(Process)
  BY <1>1 DEF FindCached, CleanupStaleTemps, RemoveFiles, FileNames, envVars
<1>a. Job(p) \in {"clear", "purge"}
  BY <1>1 DEF ImageOK
<1>3. StepOf(p) /\ OwnOK(p, proc[p], handle[p], lock[p])'
  <2>1. CASE Exists("index")
    <3>1. StepOf(p) /\ proc'[p].at = "open" /\ proc'[p].goal = proc[p].goal
      BY <1>1, <2>1, GoToStep DEF FindCached, Steps
    <3> QED BY <1>1, <1>a, <1>2, <3>1, RemovalOwns
  <2>2. CASE ~Exists("index")
    <3>1. /\ StepOf(p) /\ proc'[p].at = "done" /\ proc'[p].goal = proc[p].goal
      BY <1>1, <2>2, EndStep DEF FindCached, Ended
    <3> QED BY <1>1, <1>a, <1>2, <3>1, EndedOwns DEF Ended
  <2> QED BY <2>1, <2>2
<1> QED BY <1>1, <1>2, <1>3, RemoveStep DEF Typed, Writing, Wiping, Ended

LEMMA ForOpenToWipe ==
    ASSUME CacheInv, NEW p \in Process, OpenToWipe(p)
    PROVE  CacheInv'
<1>1. /\ handle[p] = NoFile /\ lock[p] = "none" /\ ImageOK(p, proc[p]) /\ Typed
      /\ (proc[p].goal = "migrate" => Job(p) = "flow")
      /\ proc[p].at = "open" /\ UNCHANGED <<lock, envVars>> /\ spent' = spent
  BY OwnFacts DEF OpenToWipe, NoFault, CacheInv, Writing, Wiping, Saving, Locked
<1>2. UNCHANGED plan
  BY <1>1 DEF envVars
<1>3. Job(p) \in {"clear", "purge"} /\ proc[p].goal # "migrate"
  BY <1>1 DEF ImageOK
<1>4. CASE ~Exists("index")
  <2>1. UNCHANGED <<files, handle>> /\ GoTo(p, "unlock")
    BY <1>4 DEF OpenToWipe
  <2>2. StepOf(p) /\ proc'[p].at = "unlock" /\ proc'[p].goal = proc[p].goal
    BY <1>1, <2>1, GoToStep DEF Steps
  <2>3. OwnOK(p, proc[p], handle[p], lock[p])'
    BY <1>1, <1>2, <1>3, <2>1, <2>2, RemovalOwns
  <2> QED BY <1>1, <2>1, <2>2, <2>3, QuietStep DEF Typed, Ended
<1>5. CASE Exists("index")
  <2>1. OpenFile(p, "index") /\ GoTo(p, "wipe1")
    BY <1>5 DEF OpenToWipe
  <2>2. "index" \in FileNames /\ NoFile # "index" /\ files[p] = NoFile
    BY <1>1, NoTemp, NamesAssumption DEF FileNames, Writing
  <2>3. /\ handle' \in [Process -> FileNames \union {NoFile}]
        /\ handle'[p] = "index" /\ \A q \in Process \ {p} : handle'[q] = handle[q]
        /\ DOMAIN files' = FileNames /\ files' = files
    BY <1>1, <2>1, <2>2 DEF OpenFile, Typed, CacheInv, FilesInv
  <2>4. StepOf(p) /\ proc'[p].at = "wipe1" /\ proc'[p].goal = proc[p].goal
    BY <1>1, <2>1, GoToStep DEF Steps, Wiping
  <2>5. OwnOK(p, proc[p], handle[p], lock[p])'
    BY <1>1, <1>2, <1>3, <2>3, <2>4, RemovalOwns DEF Wiping
  <2>6. Shaped(files["index"])
    BY <1>5 DEF CacheInv, FilesInv, IndexOK, Exists
  <2> QED BY <1>1, <2>2, <2>3, <2>4, <2>5, <2>6, SharedFile
<1> QED BY <1>4, <1>5

LEMMA Wiped ==
    ASSUME NEW content, Shaped(content)
    PROVE  /\ Shaped(Put(content, 1, Blank)) /\ Put(content, 1, Blank)[1] = Blank
           /\ content[1] = Blank =>
                Shaped(Put(content, 2, Blank)) /\ Put(content, 2, Blank)[1] = Blank
<1>1. PICK s \in Seals : content \in {<<s, s>>, <<Blank, s>>, <<Blank, Blank>>}
  BY DEF Shaped
<1>2. PICK a \in {s, Blank}, b \in {s, Blank} : content = <<a, b>>
  BY <1>1
<1>3. /\ Put(content, 1, Blank) = <<Blank, b>>
      /\ Put(content, 2, Blank) = <<a, Blank>>
  <2>1. Put(<<a, b>>, 1, Blank) = <<Blank, b>> /\ Put(<<a, b>>, 2, Blank) = <<a, Blank>>
    BY DEF Put
  <2> QED BY <1>2, <2>1
<1>4. Shaped(<<Blank, b>>) /\ Shaped(<<Blank, Blank>>)
  BY DEF Shaped
<1>5. content[1] = a /\ <<Blank, b>>[1] = Blank /\ <<a, Blank>>[1] = a
  BY <1>2
<1> QED BY <1>3, <1>4, <1>5

LEMMA ForWipe ==
    ASSUME CacheInv, NEW p \in Process, Wipe(p)
    PROVE  CacheInv'
<1> DEFINE i == IF proc[p].at = "wipe1" THEN 1 ELSE 2
<1>1. /\ lock[p] = "none" /\ ImageOK(p, proc[p]) /\ Typed
      /\ (proc[p].goal = "migrate" => Job(p) = "flow")
      /\ proc[p].at \in {"wipe1", "wipe2"}
      /\ UNCHANGED <<handle, lock, envVars>> /\ spent' = spent
      /\ WritePart(p, i, Blank)
  BY OwnFacts DEF Wipe, NoFault, CacheInv, Writing, Wiping, Saving, Locked
<1>2. UNCHANGED plan
  BY <1>1 DEF envVars
<1>3. Job(p) \in {"clear", "purge"} /\ proc[p].goal # "migrate"
  BY <1>1 DEF ImageOK, Wiping
<1>4. PICK step \in {"wipe2", "unlink"} : GoTo(p, step)
  BY DEF Wipe
<1>5. StepOf(p) /\ proc'[p].at = step /\ proc'[p].goal = proc[p].goal
  BY <1>1, <1>4, GoToStep DEF Steps, Wiping
<1>6. handle[p] \in {NoFile, "index"}
  BY <1>1 DEF CacheInv, OwnInv, OwnOK, HandleOK, Writing
<1>7. OwnOK(p, proc[p], handle[p], lock[p])'
  BY <1>1, <1>2, <1>3, <1>5, <1>6, RemovalOwns DEF Wiping
<1>8. CASE handle[p] = NoFile
  <2>1. UNCHANGED files
    BY <1>1, <1>8 DEF WritePart
  <2> QED BY <1>1, <1>5, <1>7, <1>8, <2>1, QuietStep DEF Typed, Ended
<1>9. CASE handle[p] = "index"
  <2>1. "index" \in FileNames /\ NoFile # "index" /\ files[p] = NoFile
    BY <1>1, NoTemp, NamesAssumption DEF FileNames, Writing
  <2>2. OpenOK(p) /\ DOMAIN files = FileNames
    BY DEF CacheInv, FilesInv
  <2>3. Shaped(files["index"]) /\ (proc[p].at = "wipe2" => files["index"][1] = Blank)
    BY <1>9, <2>2 DEF OpenOK
  <2>4. Shaped(Put(files["index"], i, Blank)) /\ Put(files["index"], i, Blank)[1] = Blank
    BY <1>1, <2>3, Wiped
  <2> HIDE DEF i
  <2>5. files' = [files EXCEPT !["index"] = Put(files["index"], i, Blank)]
    BY <1>1, <1>9, <2>1 DEF WritePart
  <2>6. /\ DOMAIN files' = FileNames /\ files'["index"] = Put(files["index"], i, Blank)
        /\ \A n \in FileNames \ {"index"} : files'[n] = files[n]
    BY <2>1, <2>2, <2>5
  <2>7. Shaped(files'["index"]) /\ files'["index"][1] = Blank
    BY <2>4, <2>6
  <2> QED BY <1>1, <1>5, <1>7, <1>9, <2>1, <2>6, <2>7, SharedFile DEF Typed
<1> QED BY <1>6, <1>8, <1>9

LEMMA ForUnlink ==
    ASSUME CacheInv, NEW p \in Process, Unlink(p)
    PROVE  CacheInv'
<1>1. /\ lock[p] = "none" /\ ImageOK(p, proc[p]) /\ Typed
      /\ (proc[p].goal = "migrate" => Job(p) = "flow")
      /\ proc[p].at = "unlink"
      /\ UNCHANGED <<lock, envVars>> /\ spent' = spent
      /\ RemoveFiles({"index"}) /\ GoTo(p, "unlock")
  BY OwnFacts DEF Unlink, NoFault, CacheInv, Writing, Wiping, Saving, Locked
<1>2. UNCHANGED plan
  BY <1>1 DEF envVars
<1>3. Job(p) \in {"clear", "purge"} /\ proc[p].goal # "migrate"
  BY <1>1 DEF ImageOK, Wiping
<1>4. StepOf(p) /\ proc'[p].at = "unlock" /\ proc'[p].goal = proc[p].goal
  BY <1>1, GoToStep DEF Steps
<1>5. handle[p] \in {NoFile, "index"}
  BY <1>1 DEF CacheInv, OwnInv, OwnOK, HandleOK, Writing
<1>6. handle'[p] = NoFile /\ {"index"} \in SUBSET FileNames
  BY <1>1, <1>5 DEF RemoveFiles, FileNames
<1>7. OwnOK(p, proc[p], handle[p], lock[p])'
  BY <1>1, <1>2, <1>3, <1>4, <1>6, RemovalOwns
<1> QED BY <1>1, <1>4, <1>6, <1>7, RemoveStep DEF Typed, Writing, Ended

LEMMA ForRemoveLock ==
    ASSUME CacheInv, NEW p \in Process, RemoveLock(p)
    PROVE  CacheInv'
<1>1. /\ handle[p] = NoFile /\ ImageOK(p, proc[p]) /\ Typed
      /\ (proc[p].goal = "migrate" => Job(p) = "flow")
      /\ proc[p].at = "unlock" /\ UNCHANGED envVars /\ spent' = spent
      /\ RemoveLockFile /\ End(p, "done", None, FALSE)
  BY OwnFacts DEF RemoveLock, NoFault, CacheInv, Writing, Wiping, Saving, Locked
<1>2. UNCHANGED plan /\ Job(p) \in {"clear", "purge"}
  BY <1>1 DEF envVars, ImageOK
<1>3. /\ lock' \in [Process -> {"none", "shared", "exclusive"}]
      /\ \A q \in Process : lock'[q] = "none"
  BY <1>1 DEF RemoveLockFile
<1>4. StepOf(p) /\ proc'[p].at = "done" /\ proc'[p].goal = proc[p].goal
  BY <1>1, EndStep DEF Ended
<1>5. (RemoveFiles(Process \union {"index"}) \/ UNCHANGED <<files, handle>>)
        /\ handle'[p] = NoFile
  BY <1>1 DEF RemoveLock, RemoveFiles
<1>6. OwnOK(p, proc[p], handle[p], lock[p])'
  BY <1>1, <1>2, <1>3, <1>4, <1>5, EndedOwns DEF Ended
<1>7. Process \union {"index"} \in SUBSET FileNames
  BY DEF FileNames
<1> QED BY <1>1, <1>3, <1>4, <1>5, <1>6, <1>7, RemoveStep, QuietStep DEF Writing, Wiping, Ended

-----------------------------------------------------------------------------
(* Writing.                                                                *)

(***************************************************************************)
(* A step of p on its own temporary file: no other can have it open.       *)
(***************************************************************************)
LEMMA PrivateFile ==
    ASSUME CacheInv, NEW p \in Process,
           UNCHANGED envVars, spent \subseteq spent', StepOf(p), handle[p] \in {p, NoFile},
           UNCHANGED lock, OwnOK(p, proc[p], handle[p], lock[p])',
           DOMAIN files' = FileNames, \A m \in FileNames \ {p} : files'[m] = files[m],
           handle' \in [Process -> FileNames \union {NoFile}],
           \A q \in Process \ {p} : handle'[q] = handle[q],
           handle'[p] = p, files'[p] # NoFile, TempOK(p)'
    PROVE  CacheInv'
<1> USE DEF CacheInv
<1>1. UNCHANGED plan
  BY DEF envVars
<1>2. Typed'
  BY DEF Typed, StepOf, envVars
<1>3. OwnInv'
  BY <1>1, OthersOwn DEF OwnInv, StepOf
<1>n. /\ {"key", "index", "flow", "flowtmp"} \subseteq FileNames \ {p} /\ NoFile \notin FileNames
      /\ \A q \in Process \ {p} : q \in FileNames \ {p}
  BY NamesAssumption DEF FileNames
<1>4. ASSUME NEW q \in Process PROVE TempOK(q)' /\ OpenOK(q)'
  <2>1. CASE q = p
    BY <1>n, <2>1 DEF OpenOK
  <2>2. CASE q # p
    <3>1. proc'[q] = proc[q] /\ handle'[q] = handle[q] /\ files'[q] = files[q]
      BY <1>n, <2>2 DEF StepOf
    <3>2. Sealed(q)' = Sealed(q)
      BY <3>1 DEF Sealed, Seal
    <3>3. TempOK(q) /\ OpenOK(q)
      BY DEF FilesInv
    <3>4. TempOK(q)'
      BY <3>1, <3>2, <3>3 DEF TempOK
    <3>5. OpenOK(q)'
      BY <1>n, <3>1, <3>3 DEF OpenOK
    <3> QED BY <3>4, <3>5
  <2> QED BY <2>1, <2>2
<1>5. IndexOK'
  <2>1. files'["index"] = files["index"] /\ IndexOK
    BY <1>n DEF FilesInv
  <2>2. \A q \in Process : handle[q] = "index" => handle'[q] = "index"
    BY <1>n
  <2> QED BY <2>1, <2>2 DEF IndexOK
<1>6. /\ (files["key"] = NoFile \/ KeyShaped(files["key"]))'
      /\ (files["flow"] = NoFile \/ FlowShaped(files["flow"]))'
      /\ (files["flowtmp"] = NoFile \/ files["flowtmp"] \in Seq(MadeHalves))'
  BY <1>n DEF FilesInv
<1>7. FilesInv'
  BY <1>4, <1>5, <1>6 DEF FilesInv
<1> QED BY <1>2, <1>3, <1>7

(* From the key to the rename, with a place in the temporary file or none. *)
LEMMA WritingOwns ==
    ASSUME CacheInv, NEW p \in Process, UNCHANGED <<plan, spent, lock>>,
           proc[p].at \in {"create", "write1", "write2"}, NEW step \in Writing, GoTo(p, step),
           handle'[p] \in {TempPath(p), NoFile, handle[p]}
    PROVE  /\ StepOf(p) /\ proc'[p].at = step /\ Sealed(p)' = Sealed(p)
           /\ OwnOK(p, proc[p], handle[p], lock[p])'
<1>1. /\ proc[p] \in ProcRecords /\ lock[p] \in {"none", "shared", "exclusive"}
      /\ ImageOK(p, proc[p]) /\ BufferOK(proc[p]) /\ ServedOK(p, proc[p]) /\ Typed
  BY OwnFacts DEF CacheInv
<1>2. /\ StepOf(p) /\ proc'[p].at = step /\ proc'[p].goal = proc[p].goal
      /\ proc'[p].mem = proc[p].mem /\ proc'[p].out = proc[p].out
      /\ proc'[p].buf = proc[p].buf /\ proc'[p].key = proc[p].key
  BY <1>1, GoToStep DEF Steps, Saving
<1>3. Sealed(p)' = Sealed(p)
  BY <1>2 DEF Sealed, Seal
<1>4. HandleOK(p, proc[p].at, handle[p])'
  <2>1. Job(p)' = Job(p) /\ TempPath(p)' = TempPath(p)
    BY DEF Job, TempPath
  <2>2. \/ handle[p] \in {NoFile, TempPath(p)}
        \/ handle[p] = "flow" /\ Job(p) \in FlowJobs
    BY DEF CacheInv, OwnInv, OwnOK, HandleOK, Writing, Wiping
  <2> QED BY <1>2, <2>1, <2>2 DEF HandleOK
<1>5. OwnOK(p, proc[p], handle[p], lock[p])'
  BY <1>1, <1>2, <1>4
     DEF OwnOK, LockOK, ImageOK, BufferOK, ServedOK, Job,
         Writing, Saving, Wiping, Updating, Locked
<1> QED BY <1>2, <1>3, <1>5

LEMMA ForCreateTemp ==
    ASSUME CacheInv, NEW p \in Process, CreateTemp(p)
    PROVE  CacheInv'
<1>1. /\ handle[p] = NoFile /\ ImageOK(p, proc[p]) /\ Typed
      /\ proc[p].at = "create" /\ UNCHANGED <<dir, envVars>> /\ spent' = spent
  BY OwnFacts DEF CreateTemp, NoFault, CacheInv, Writing, Wiping, Saving
<1>2. UNCHANGED plan /\ proc[p].goal # "load"
  BY <1>1 DEF envVars, ImageOK
<1>3. CASE SaveEnds(p, FALSE) /\ UNCHANGED <<files, handle>>
  <2>1. /\ StepOf(p)
        /\ lock' \in [Process -> {"none", "shared", "exclusive"}]
        /\ \A q \in Process \ {p} : lock'[q] = lock[q]
        /\ OwnOK(p, proc[p], handle[p], lock[p])'
    BY <1>1, <1>2, <1>3, SaveEndsOwns DEF Saving
  <2> QED BY <1>1, <1>3, <2>1, QuietStep DEF Ended
<1>4. CASE CreateFile(p, TempPath(p)) /\ GoTo(p, "write1") /\ UNCHANGED lock
  <2>1. TempPath(p) \in FileNames /\ files[p] = NoFile
    BY <1>1, NoTemp DEF TempPath, FileNames, Writing
  <2>2. /\ handle' \in [Process -> FileNames \union {NoFile}]
        /\ handle'[p] = TempPath(p) /\ \A q \in Process \ {p} : handle'[q] = handle[q]
        /\ DOMAIN files' = FileNames
        /\ files'[TempPath(p)] = << >>
        /\ \A n \in FileNames \ {TempPath(p)} : files'[n] = files[n]
    BY <1>1, <1>4, <2>1 DEF CreateFile, Typed, CacheInv, FilesInv
  <2>3. StepOf(p) /\ proc'[p].at = "write1" /\ OwnOK(p, proc[p], handle[p], lock[p])'
    BY <1>1, <1>2, <1>4, <2>2, WritingOwns DEF Writing
  <2>4. CASE Job(p) \in FlowJobs
    <3>1. TempPath(p) = "flowtmp" /\ << >> \in Seq(MadeHalves)
      BY <2>4 DEF TempPath
    <3>2. handle[p] # "index"
      BY <1>1, NamesAssumption DEF FileNames
    <3>3. /\ handle'[p] = "flowtmp" /\ files'["flowtmp"] \in Seq(MadeHalves)
          /\ \A n \in FileNames \ {"flowtmp"} : files'[n] = files[n]
      BY <2>2, <3>1
    <3> QED BY <1>1, <1>4, <2>1, <2>2, <2>3, <3>2, <3>3, SharedFile
  <2>5. CASE Job(p) \notin FlowJobs
    <3>1. TempPath(p) = p
      BY <2>5 DEF TempPath
    <3>2. TempOK(p)'
      BY <2>2, <2>3, <3>1 DEF TempOK, Writing
    <3>3. << >> # NoFile
      <4>1. << >> \in Seq(Seals \union {Blank})
        OBVIOUS
      <4> QED BY <4>1, HalvesAssumption
    <3> QED BY <1>1, <1>4, <2>2, <2>3, <3>1, <3>2, <3>3, PrivateFile
  <2> QED BY <2>4, <2>5
<1> QED BY <1>3, <1>4 DEF CreateTemp

LEMMA SealedMade ==
    ASSUME CacheInv, NEW p \in Process, proc[p].at \in Writing
    PROVE  Sealed(p) \in MadeSeals
<1>1. proc[p] \in ProcRecords /\ ImageOK(p, proc[p])
  BY OwnFacts
<1>2. proc[p].key \in MadeKeys /\ proc[p].mem \in Images /\ <<p, proc[p].goal>> \in MadeKeys
  BY <1>1 DEF ImageOK, Saving, ProcRecords, MadeKeys
<1> QED BY <1>2 DEF Sealed, Seal, MadeSeals

(* The private temporary file, as far as its writer is.                    *)
LEMMA TempFacts ==
    ASSUME CacheInv, NEW p \in Process, handle[p] = p
    PROVE  /\ proc[p].at \in Writing /\ Job(p) \notin FlowJobs /\ files[p] # NoFile
           /\ proc[p].at = "write1" => files[p] = << >>
           /\ proc[p].at = "write2" => files[p] = <<Sealed(p)>>
           /\ proc[p].at = "rename" => files[p] = <<Sealed(p), Sealed(p)>>
<1>1. p \notin {"key", "index", "flow", "flowtmp", NoFile}
  BY NamesAssumption DEF FileNames
<1>2. proc[p].at \in Writing /\ Job(p) \notin FlowJobs
  BY <1>1 DEF CacheInv, OwnInv, OwnOK, HandleOK, TempPath
<1>3. TempOK(p) /\ OpenOK(p)
  BY DEF CacheInv, FilesInv
<1> QED BY <1>2, <1>3 DEF TempOK, OpenOK, Writing

LEMMA WritesHalf ==
    ASSUME CacheInv, NEW p \in Process, proc[p].at \in {"write1", "write2"},
           WritePart(p, IF proc[p].at = "write1" THEN 1 ELSE 2, Sealed(p)),
           GoTo(p, IF proc[p].at = "write1" THEN "write2" ELSE "rename"),
           NoFault, UNCHANGED <<handle, lock, envVars>>
    PROVE  CacheInv'
<1> DEFINE i == IF proc[p].at = "write1" THEN 1 ELSE 2
           step == IF proc[p].at = "write1" THEN "write2" ELSE "rename"
<1>1. /\ UNCHANGED <<plan, spent>> /\ Typed /\ DOMAIN files = FileNames
      /\ WritePart(p, i, Sealed(p)) /\ GoTo(p, step)
      /\ step \in Writing /\ i \in Nat \ {0}
      /\ proc[p].at \notin Ended
  BY DEF envVars, CacheInv, FilesInv, NoFault, Writing, Ended
<1>2. \/ step = "write2" /\ proc[p].at = "write1" /\ i = 1
      \/ step = "rename" /\ proc[p].at = "write2" /\ i = 2
  OBVIOUS
<1> HIDE DEF i, step
<1>3. /\ StepOf(p) /\ proc'[p].at = step /\ Sealed(p)' = Sealed(p)
      /\ OwnOK(p, proc[p], handle[p], lock[p])'
  BY <1>1, WritingOwns
<1>4. Sealed(p) \in MadeSeals
  BY SealedMade DEF Writing
<1>n. NoFile \notin FileNames /\ {"flow", "flowtmp"} \subseteq FileNames /\ p \in FileNames
  BY NamesAssumption DEF FileNames
<1>5. CASE handle[p] = NoFile
  <2>1. UNCHANGED files
    BY <1>1, <1>5 DEF WritePart
  <2> QED BY <1>1, <1>3, <1>5, <2>1, QuietStep DEF Typed
<1>6. CASE handle[p] # NoFile
  <2> DEFINE n == handle[p]
             content == Put(files[n], i, Sealed(p))
  <2>1. n \in FileNames
    BY <1>1, <1>6 DEF Typed
  <2>2. files' = [files EXCEPT ![n] = content]
    BY <1>1, <1>6 DEF WritePart
  <2>3. /\ DOMAIN files' = FileNames /\ files'[n] = content
        /\ \A m \in FileNames \ {n} : files'[m] = files[m]
    BY <1>1, <2>1, <2>2
  <2>4. n = p \/ n \in {"flow", "flowtmp"}
    BY <1>6 DEF CacheInv, OwnInv, OwnOK, HandleOK, Wiping, TempPath
  <2>5. CASE n \in {"flow", "flowtmp"}
    <3>1. files[n] \in Seq(MadeHalves)
      BY <2>5 DEF CacheInv, FilesInv, OpenOK
    <3>2. content \in Seq(MadeHalves)
      <4>1. Blank \in MadeHalves /\ Sealed(p) \in MadeHalves
        BY <1>4 DEF MadeHalves
      <4> HIDE DEF n
      <4> QED BY <1>1, <3>1, <4>1, PutHalf
    <3>3. files[p] = NoFile
      BY <1>n, <2>5, NamesAssumption DEF CacheInv, FilesInv, TempOK, Ended
    <3>4. n # "index" /\ n # "key"
      BY <2>5
    <3> HIDE DEF content
    <3> QED BY <1>1, <1>3, <2>3, <2>5, <3>2, <3>3, <3>4, SharedFile DEF Typed
  <2>6. CASE n = p
    <3>1. /\ proc[p].at = "write1" => files[p] = << >>
          /\ proc[p].at = "write2" => files[p] = <<Sealed(p)>>
      BY <2>6, TempFacts
    <3>2. /\ proc[p].at = "write1" => content = <<Sealed(p)>>
          /\ proc[p].at = "write2" => content = <<Sealed(p), Sealed(p)>>
      <4>1. ASSUME NEW s PROVE Put(<< >>, 1, s) = <<s>> /\ Put(<<s>>, 2, s) = <<s, s>>
        BY DEF Put
      <4> QED BY <1>2, <2>6, <3>1, <4>1
    <3>3. content # NoFile
      <4>1. Sealed(p) \in Seals \union {Blank}
        BY <1>4 DEF MadeSeals, Seals
      <4>2. <<Sealed(p)>> \in Seq(Seals \union {Blank})
              /\ <<Sealed(p), Sealed(p)>> \in Seq(Seals \union {Blank})
        BY <4>1
      <4> QED BY <1>2, <3>2, <4>2, HalvesAssumption
    <3> HIDE DEF content
    <3>4. TempOK(p)'
      BY <1>2, <1>3, <2>3, <2>6, <3>2 DEF TempOK, Writing
    <3> QED BY <1>1, <1>3, <2>3, <2>6, <3>3, <3>4, PrivateFile DEF Typed
  <2> QED BY <2>4, <2>5, <2>6
<1> QED BY <1>5, <1>6

LEMMA ForWriteTemp ==
    ASSUME CacheInv, NEW p \in Process, WriteTemp(p)
    PROVE  CacheInv'
<1>1. /\ ImageOK(p, proc[p]) /\ Typed
      /\ proc[p].at \in {"write1", "write2"} /\ UNCHANGED envVars
  BY OwnFacts DEF WriteTemp, CacheInv
<1>2. UNCHANGED plan /\ proc[p].goal # "load"
  BY <1>1 DEF envVars, ImageOK, Writing
<1>3. CASE AbandonTemp(p) /\ Fault("write")
  <2>1. SaveEnds(p, FALSE) /\ spent \subseteq spent'
    BY <1>3 DEF AbandonTemp, Fault
  <2>2. ASSUME handle'[p] = NoFile
        PROVE  /\ StepOf(p)
               /\ lock' \in [Process -> {"none", "shared", "exclusive"}]
               /\ \A q \in Process \ {p} : lock'[q] = lock[q]
               /\ OwnOK(p, proc[p], handle[p], lock[p])'
    BY <1>1, <1>2, <2>1, <2>2, SaveEndsOwns DEF Saving, Writing
  <2>3. handle[p] \in {NoFile, TempPath(p), "flow"} /\ (handle[p] = "flow" => Job(p) \in FlowJobs)
    BY <1>1, NamesAssumption DEF CacheInv, OwnInv, OwnOK, HandleOK, Wiping, TempPath, FileNames
  <2>4. CASE Job(p) \in FlowJobs
    <3>1. UNCHANGED files /\ CloseFile(p)
      BY <1>3, <2>4 DEF AbandonTemp
    <3>2. handle' = [handle EXCEPT ![p] = NoFile] /\ handle'[p] = NoFile
      BY <1>1, <3>1 DEF CloseFile, Typed
    <3>3. handle[p] \notin {p, "index"}
      BY <2>3, <2>4, NamesAssumption DEF TempPath, FileNames
    <3> QED BY <1>1, <2>1, <2>2, <3>1, <3>2, <3>3, CloseStep DEF Ended
  <2>5. CASE Job(p) \notin FlowJobs
    <3>1. RemoveFiles({p}) /\ {p} \in SUBSET FileNames
      BY <1>3, <2>5 DEF AbandonTemp, FileNames
    <3>2. handle'[p] = NoFile
      BY <2>3, <2>5, <3>1 DEF RemoveFiles, TempPath
    <3> QED BY <1>1, <2>1, <2>2, <3>1, <3>2, RemoveStep DEF Ended, Wiping
  <2> QED BY <2>4, <2>5
<1> QED BY <1>1, <1>3, WritesHalf DEF WriteTemp

LEMMA Renamed ==
    ASSUME CacheInv, NEW p \in Process, proc[p].at = "rename", Exists(TempPath(p)),
           RenameFile(p, TempPath(p), CacheFile(p)), SaveEnds(p, TRUE), NoFault,
           UNCHANGED envVars
    PROVE  CacheInv'
<1> DEFINE from == TempPath(p)
           to == CacheFile(p)
<1>1. /\ ImageOK(p, proc[p]) /\ Typed /\ FilesInv /\ OwnInv
      /\ UNCHANGED <<plan, spent>> /\ files[from] # NoFile
  BY OwnFacts DEF CacheInv, envVars, NoFault, Exists
<1>n. /\ NoFile \notin FileNames /\ Process \subseteq FileNames
      /\ {"key", "index", "flow", "flowtmp"} \subseteq FileNames
      /\ \A q \in Process : q \notin {"key", "index", "flow", "flowtmp"}
  BY NamesAssumption DEF FileNames
<1>2. \/ from = p /\ to = "index" /\ Job(p) \notin FlowJobs
      \/ from = "flowtmp" /\ to = "flow" /\ Job(p) \in FlowJobs
  BY DEF TempPath, CacheFile
<1> HIDE DEF from, to
<1>3. /\ DOMAIN files' = FileNames /\ files'[to] = files[from] /\ files'[from] = NoFile
      /\ \A n \in FileNames \ {from, to} : files'[n] = files[n]
      /\ handle'[p] = NoFile
      /\ \A q \in Process \ {p} :
           handle'[q] = IF handle[q] = to THEN NoFile
                        ELSE IF handle[q] = from THEN to ELSE handle[q]
      /\ handle' \in [Process -> FileNames \union {NoFile}]
  <2>1. /\ files' = [files EXCEPT ![to] = files[from], ![from] = NoFile]
        /\ handle' = [q \in Process |->
                  IF q = p \/ handle[q] = to THEN NoFile
                  ELSE IF handle[q] = from THEN to ELSE handle[q]]
    BY DEF RenameFile, from, to
  <2>2. DOMAIN files = FileNames /\ from \in FileNames /\ to \in FileNames /\ from # to
    BY <1>1, <1>2, <1>n DEF FilesInv
  <2>3. handle \in [Process -> FileNames \union {NoFile}]
    BY <1>1 DEF Typed
  <2> QED BY <2>1, <2>2, <2>3
<1>4. /\ StepOf(p)
      /\ lock' \in [Process -> {"none", "shared", "exclusive"}]
      /\ \A q \in Process \ {p} : lock'[q] = lock[q]
      /\ OwnOK(p, proc[p], handle[p], lock[p])'
  BY <1>1, <1>3, SaveEndsOwns DEF Saving, Writing, ImageOK
<1>5. Typed'
  BY <1>1, <1>3, <1>4 DEF Typed, StepOf, envVars
<1>6. ASSUME NEW q \in Process \ {p}
      PROVE  /\ from = p => handle[q] # from
             /\ handle'[q] \in {handle[q], NoFile} \/ (handle[q] = "flowtmp" /\ handle'[q] = "flow")
  <2>1. OwnOK(q, proc[q], handle[q], lock[q])
    BY <1>1 DEF OwnInv
  <2>2. from = p => handle[q] # from
    BY <1>n, <2>1 DEF OwnOK, HandleOK, TempPath
  <2> QED BY <1>2, <1>3, <2>2
<1>7. OwnInv'
  BY <1>1, <1>4, <1>6, OthersOwn DEF OwnInv, StepOf
<1>8. ASSUME NEW q \in Process PROVE TempOK(q)' /\ OpenOK(q)'
  <2>1. CASE q = p
    <3>1. files'[p] = NoFile
      <4>1. CASE from = p
        BY <1>3, <4>1
      <4>2. CASE from # p
        <5>1. handle[p] # p
          BY <1>2, <4>2, TempFacts
        <5>2. files[p] = NoFile
          BY <1>1, <5>1 DEF FilesInv, TempOK
        <5> QED BY <1>2, <1>3, <1>n, <4>2, <5>2
      <4> QED BY <4>1, <4>2
    <3> QED BY <1>3, <1>n, <2>1, <3>1 DEF TempOK, OpenOK
  <2>2. CASE q # p
    <3>1. proc'[q] = proc[q] /\ files'[q] = files[q] /\ TempOK(q) /\ OpenOK(q)
      BY <1>1, <1>2, <1>3, <1>4, <1>n, <2>2 DEF StepOf, FilesInv
    <3>2. Sealed(q)' = Sealed(q)
      BY <3>1 DEF Sealed, Seal
    <3>3. /\ from = p => handle[q] # from
          /\ handle'[q] = IF handle[q] = to THEN NoFile
                          ELSE IF handle[q] = from THEN to ELSE handle[q]
      BY <1>3, <1>6, <2>2
    <3>4. handle[q] = q => handle'[q] = q
      BY <1>2, <1>n, <3>3
    <3>5. TempOK(q)'
      BY <1>1, <3>1, <3>2, <3>4 DEF TempOK
    <3>6. OpenOK(q)'
      <4>1. CASE handle'[q] = NoFile
        BY <1>n, <4>1 DEF OpenOK
      <4>2. CASE from = "flowtmp" /\ handle[q] = from /\ handle'[q] = to
        BY <1>2, <1>3, <1>n, <3>1, <4>2 DEF OpenOK
      <4>3. CASE handle'[q] = handle[q] /\ handle[q] \notin {NoFile, from, to}
        <5>1. handle[q] \in FileNames /\ files'[handle[q]] = files[handle[q]]
          BY <1>1, <1>3, <4>3 DEF Typed
        <5> QED BY <3>1, <4>3, <5>1 DEF OpenOK
      <4> QED BY <1>2, <3>3, <4>1, <4>2, <4>3
    <3> QED BY <3>5, <3>6
  <2> QED BY <2>1, <2>2
<1>9. IndexOK'
  <2>1. CASE to = "index"
    <3>1. handle[p] = p \/ files[p] = NoFile
      BY <1>1 DEF FilesInv, TempOK
    <3>2. files'["index"] = <<Sealed(p), Sealed(p)>>
      BY <1>1, <1>2, <1>3, <2>1, <3>1, TempFacts
    <3>3. Sealed(p) \in Seals /\ Sealed(p) # Blank
      BY SealedMade, HalvesAssumption DEF Writing, MadeSeals, Seals
    <3> QED BY <3>2, <3>3 DEF IndexOK, Shaped
  <2>2. CASE to # "index"
    <3>1. files'["index"] = files["index"] /\ IndexOK /\ handle[p] # "index"
      BY <1>1, <1>2, <1>3, <1>n, <2>2 DEF FilesInv, OwnInv, OwnOK, HandleOK, Wiping, TempPath
    <3>2. \A q \in Process : handle[q] = "index" => handle'[q] = "index"
      BY <1>2, <1>3, <2>2, <3>1
    <3> QED BY <1>1, <3>1, <3>2 DEF IndexOK
  <2> QED BY <2>1, <2>2
<1>10. /\ (files["key"] = NoFile \/ KeyShaped(files["key"]))'
       /\ (files["flow"] = NoFile \/ FlowShaped(files["flow"]))'
       /\ (files["flowtmp"] = NoFile \/ files["flowtmp"] \in Seq(MadeHalves))'
  <2>1. CASE from = p /\ to = "index"
    BY <1>1, <1>3, <1>n, <2>1 DEF FilesInv
  <2>2. CASE from = "flowtmp" /\ to = "flow"
    BY <1>1, <1>3, <1>n, <2>2 DEF FilesInv, FlowShaped
  <2> QED BY <1>2, <2>1, <2>2
<1>11. FilesInv'
  BY <1>3, <1>8, <1>9, <1>10 DEF FilesInv
<1> QED BY <1>5, <1>7, <1>11 DEF CacheInv

LEMMA ForRenameTemp ==
    ASSUME CacheInv, NEW p \in Process, RenameTemp(p)
    PROVE  CacheInv'
<1>1. /\ ImageOK(p, proc[p]) /\ Typed
      /\ proc[p].at = "rename" /\ UNCHANGED envVars /\ NoFault
  BY OwnFacts DEF RenameTemp, CacheInv
<1>2. UNCHANGED <<plan, spent>> /\ proc[p].goal # "load"
  BY <1>1 DEF envVars, ImageOK, Writing, NoFault
<1>3. CASE ~Exists(TempPath(p))
  <2>1. UNCHANGED files /\ CloseFile(p) /\ SaveEnds(p, FALSE)
    BY <1>3 DEF RenameTemp
  <2>2. handle' = [handle EXCEPT ![p] = NoFile] /\ handle'[p] = NoFile
    BY <1>1, <2>1 DEF CloseFile, Typed
  <2>3. /\ StepOf(p)
        /\ lock' \in [Process -> {"none", "shared", "exclusive"}]
        /\ \A q \in Process \ {p} : lock'[q] = lock[q]
        /\ OwnOK(p, proc[p], handle[p], lock[p])'
    BY <1>1, <1>2, <2>1, <2>2, SaveEndsOwns DEF Saving, Writing
  <2>4. handle[p] \in {NoFile, TempPath(p), "flow"}
    BY <1>1 DEF CacheInv, OwnInv, OwnOK, HandleOK, Wiping
  <2>5. handle[p] # p
    BY <1>3, TempFacts DEF Exists, TempPath
  <2>6. handle[p] # "index"
    BY <1>1, <2>4, <2>5, NamesAssumption DEF TempPath, FileNames
  <2> QED BY <1>1, <1>2, <2>1, <2>2, <2>3, <2>5, <2>6, CloseStep DEF Ended
<1> QED BY <1>1, <1>3, Renamed DEF RenameTemp

-----------------------------------------------------------------------------
(* What happens around the processes, and the whole.                       *)

LEMMA ForCrash ==
    ASSUME CacheInv, NEW p \in Process, Crash(p)
    PROVE  CacheInv'
<1> DEFINE victims == {q \in Process :
                         /\ q = p \/ {Job(p), Job(q)} \subseteq FlowJobs
                         /\ proc[q].at \notin Ended}
<1>1. /\ Typed /\ OwnInv /\ FilesInv
      /\ UNCHANGED <<plan, vol, journal, hist, files>>
      /\ spent \subseteq spent' /\ "crash" \in spent'
  BY DEF CacheInv, Crash, Fault, envVars
<1>2. /\ proc' = [q \in Process |-> IF q \in victims THEN [proc[q] EXCEPT !.at = "dead"]
                                    ELSE proc[q]]
      /\ handle' = [q \in Process |-> IF q \in victims THEN NoFile ELSE handle[q]]
      /\ lock' = [q \in Process |-> IF q \in victims THEN "none" ELSE lock[q]]
  BY DEF Crash
<1>3. \A q \in victims : q \in Process /\ proc[q].at \notin Ended
  OBVIOUS
<1> HIDE DEF victims
<1>4. ASSUME NEW q \in Process
      PROVE  /\ proc'[q] \in ProcRecords /\ proc'[q].seen = proc[q].seen
             /\ proc'[q].goal = proc[q].goal
             /\ q \in victims => proc'[q].at = "dead"
  <2>1. proc[q] \in ProcRecords /\ "dead" \in Steps
    BY <1>1 DEF Typed, Steps, Ended
  <2>2. [proc[q] EXCEPT !.at = "dead"] \in ProcRecords
    BY <2>1 DEF ProcRecords
  <2>3. [proc[q] EXCEPT !.at = "dead"].at = "dead"
          /\ [proc[q] EXCEPT !.at = "dead"].seen = proc[q].seen
          /\ [proc[q] EXCEPT !.at = "dead"].goal = proc[q].goal
    BY <2>1 DEF ProcRecords
  <2> QED BY <1>2, <2>1, <2>2, <2>3
<1>5. Typed'
  <2>1. proc' \in [Process -> ProcRecords]
    BY <1>2, <1>4
  <2>2. handle' \in [Process -> FileNames \union {NoFile}]
          /\ lock' \in [Process -> {"none", "shared", "exclusive"}]
    BY <1>1, <1>2 DEF Typed
  <2> QED BY <1>1, <1>4, <2>1, <2>2 DEF Typed
<1>6. OwnInv'
  <2> SUFFICES ASSUME NEW q \in Process PROVE OwnOK(q, proc[q], handle[q], lock[q])'
    BY DEF OwnInv
  <2>1. CASE q \in victims
    <3>1. handle'[q] = NoFile /\ lock'[q] = "none" /\ proc'[q].at = "dead"
      BY <1>2, <1>4, <2>1
    <3>2. proc'[q].goal = "migrate" => Job(q) = "flow"
      BY <1>4, OwnFacts
    <3> QED BY <1>1, <3>1, <3>2, EndedOwns DEF Ended
  <2>2. CASE q \notin victims
    BY <1>1, <1>2, <2>2, OthersOwn DEF OwnInv
  <2> QED BY <2>1, <2>2
<1>7. FilesInv'
  <2>1. \A q \in Process : handle'[q] = "index" => proc'[q].at = proc[q].at
    BY <1>2, NamesAssumption DEF FileNames
  <2>2. \A q \in Process :
          \/ proc'[q] = proc[q] /\ handle'[q] = handle[q]
          \/ proc'[q].at = "dead" /\ "crash" \in spent'
    BY <1>1, <1>2, <1>4
  <2>3. \A q \in Process : handle'[q] = NoFile \/ handle'[q] = handle[q]
    BY <1>2
  <2>4. DOMAIN files' = FileNames
    BY <1>1 DEF FilesInv
  <2> QED BY <1>1, <2>1, <2>2, <2>3, <2>4, FilesOnlyGo
<1> QED BY <1>5, <1>6, <1>7 DEF CacheInv

LEMMA ForChangeFile ==
    ASSUME CacheInv, NEW f \in Files, NEW name \in Names \union {Absent}, ChangeFile(f, name)
    PROVE  CacheInv'
<1>1. /\ Typed /\ OwnInv /\ FilesInv
      /\ UNCHANGED <<files, handle, lock, proc, plan, spent>>
  BY DEF ChangeFile, CacheInv, fileVars
<1>2. Typed'
  <2>1. vol' \in [Files -> Names \union {Absent}]
    BY <1>1 DEF ChangeFile, Typed
  <2>2. journal' \in [id : Nat, first : Nat, log : Seq(Entries)]
    <3> DEFINE entry == [file |-> f, op |-> ChangeOp(vol[f], name)]
    <3>1. entry \in Entries
      BY DEF Entries, ChangeOp
    <3>2. journal \in [id : Nat, first : Nat, log : Seq(Entries)]
      BY <1>1 DEF Typed
    <3> DEFINE log == Append(journal.log, entry)
    <3>3. journal' = [journal EXCEPT !.log = log]
      BY DEF ChangeFile
    <3> HIDE DEF entry
    <3>4. log \in Seq(Entries)
      BY <3>1, <3>2
    <3> HIDE DEF log
    <3> QED BY <3>2, <3>3, <3>4
  <2>3. hist' \in Seq(Files) /\ Len(hist') = Len(hist) + 1 /\ Len(hist) \in Nat
    BY <1>1 DEF ChangeFile, Typed
  <2>4. \A q \in Process : proc[q].seen.upto \in Nat /\ proc[q].seen.upto <= Len(hist)
    <3> SUFFICES ASSUME NEW q \in Process
                 PROVE  proc[q].seen.upto \in Nat /\ proc[q].seen.upto <= Len(hist)
      OBVIOUS
    <3>1. proc[q] \in ProcRecords /\ proc[q].seen.upto <= Len(hist)
      BY <1>1 DEF Typed
    <3> QED BY <3>1 DEF ProcRecords
  <2>5. \A q \in Process : proc'[q].seen.upto <= Len(hist')
    BY <1>1, <2>3, <2>4
  <2> QED BY <1>1, <2>1, <2>2, <2>3, <2>5 DEF Typed
<1>3. OwnInv'
  BY <1>1, OthersOwn DEF OwnInv
<1>4. FilesInv'
  BY <1>1, FilesOnlyGo DEF FilesInv
<1> QED BY <1>2, <1>3, <1>4 DEF CacheInv

LEMMA ForLoseJournal ==
    ASSUME CacheInv, LoseJournal
    PROVE  CacheInv'
<1>1. /\ Typed /\ OwnInv /\ FilesInv /\ spent \subseteq spent'
      /\ UNCHANGED <<files, handle, lock, proc, plan, vol, hist>>
  BY DEF LoseJournal, CacheInv, fileVars, Fault
<1>2. Typed'
  <2>1. journal \in [id : Nat, first : Nat, log : Seq(Entries)]
    BY <1>1 DEF Typed
  <2>2. JournalNext(journal) \in Nat
    BY <2>1 DEF JournalNext
  <2>3. << >> \in Seq(Entries)
    OBVIOUS
  <2>4. journal' \in [id : Nat, first : Nat, log : Seq(Entries)]
    <3> DEFINE next == JournalNext(journal)
    <3>1. \/ journal' = [journal EXCEPT !.first = next, !.log = << >>]
          \/ journal' = [id |-> journal.id + 1, first |-> 0, log |-> << >>]
      BY DEF LoseJournal
    <3> HIDE DEF next
    <3>2. next \in Nat
      BY <2>2 DEF next
    <3>3. CASE journal' = [journal EXCEPT !.first = next, !.log = << >>]
      BY <2>1, <2>3, <3>2, <3>3
    <3>4. CASE journal' = [id |-> journal.id + 1, first |-> 0, log |-> << >>]
      BY <2>1, <2>3, <3>4
    <3> QED BY <3>1, <3>3, <3>4
  <2> QED BY <1>1, <2>4 DEF Typed
<1>3. OwnInv'
  BY <1>1, OthersOwn DEF OwnInv
<1>4. FilesInv'
  BY <1>1, FilesOnlyGo DEF FilesInv
<1> QED BY <1>2, <1>3, <1>4 DEF CacheInv

LEMMA ForLoseKey ==
    ASSUME CacheInv, LoseKey
    PROVE  CacheInv'
<1>1. /\ Typed /\ OwnInv /\ FilesInv /\ spent \subseteq spent'
      /\ UNCHANGED <<handle, lock, proc, plan, vol, hist, journal>>
  BY DEF LoseKey, CacheInv, envVars, Fault
<1>n. /\ NoFile \notin FileNames /\ Process \subseteq FileNames
      /\ {"key", "index", "flow", "flowtmp"} \subseteq FileNames
      /\ \A q \in Process : q \notin {"key", "index", "flow", "flowtmp"}
  BY NamesAssumption DEF FileNames
<1>2. Typed'
  BY <1>1 DEF Typed
<1>3. OwnInv'
  BY <1>1, OthersOwn DEF OwnInv
<1>4. /\ DOMAIN files' = FileNames /\ files'["key"] = <<Blank>>
      /\ \A n \in FileNames \ {"key"} : files'[n] = files[n]
  BY <1>1, <1>n DEF LoseKey, FilesInv
<1>5. ASSUME NEW q \in Process PROVE TempOK(q)' /\ OpenOK(q)'
  <2>1. files'[q] = files[q] /\ TempOK(q) /\ OpenOK(q)
    BY <1>1, <1>4, <1>n DEF FilesInv
  <2>2. Sealed(q)' = Sealed(q)
    BY <1>1 DEF Sealed, Seal
  <2>3. TempOK(q)'
    BY <1>1, <2>1, <2>2 DEF TempOK
  <2>4. OpenOK(q)'
    BY <1>1, <1>4, <1>n, <2>1 DEF OpenOK, KeyShaped
  <2> QED BY <2>3, <2>4
<1>6. IndexOK'
  BY <1>1, <1>4, <1>n DEF FilesInv, IndexOK
<1>7. FilesInv'
  BY <1>1, <1>4, <1>5, <1>6, <1>n DEF FilesInv, KeyShaped
<1> QED BY <1>2, <1>3, <1>7 DEF CacheInv

LEMMA InitKeeps ==
    ASSUME Init
    PROVE  CacheInv
<1>n. /\ NoFile \notin FileNames /\ Process \subseteq FileNames
      /\ {"key", "index", "flow", "flowtmp"} \subseteq FileNames
      /\ \A q \in Process : q \notin {"key", "index", "flow", "flowtmp"}
  BY NamesAssumption DEF FileNames
<1>1. plan.job \in [Process -> DOMAIN FirstStep]
  BY PlansAssumption DEF Init
<1>2. ASSUME NEW p \in Process
      PROVE  \/ Job(p) = "persist" /\ FirstStep[Job(p)] = "compacted"
             \/ Job(p) \in {"clear", "purge"} /\ FirstStep[Job(p)] \in {"find", "open"}
             \/ Job(p) = "none" /\ FirstStep[Job(p)] = "done"
             \/ FirstStep[Job(p)] \in {"look", "read"}
  <2>1. Job(p) \in {"cached", "update", "get", "frame", "clear", "purge", "flow", "persist", "none"}
    BY <1>1 DEF Job, FirstStep
  <2> QED BY <2>1 DEF FirstStep
<1>3. vol \in [Files -> Names \union {Absent}]
  <2>1. (CHOOSE n \in Names : TRUE) \in Names
    BY ImageAssumption
  <2> QED BY <2>1 DEF Init
<1>4. /\ hist = << >> /\ hist \in Seq(Files) /\ Len(hist) = 0
      /\ journal \in [id : Nat, first : Nat, log : Seq(Entries)]
  BY DEF Init
<1>5. ASSUME NEW p \in Process
      PROVE  proc[p] \in ProcRecords /\ proc[p].at = FirstStep[Job(p)]
               /\ proc[p].goal = "load" /\ proc[p].seen.upto = 0
  <2>1. proc[p] = [at |-> FirstStep[Job(p)], goal |-> "load", mem |-> None, buf |-> << >>,
                   key |-> None, batch |-> << >>, seen |-> [id |-> 0, next |-> 0, upto |-> 0],
                   out |-> None, asIs |-> FALSE, began |-> 0, before |-> {}]
    BY DEF Init
  <2>2. FirstStep[Job(p)] \in Steps
    BY <1>2 DEF Steps, Ended
  <2>3. << >> \in Seq(Halves) /\ << >> \in Seq(Entries)
    OBVIOUS
  <2> DEFINE at == FirstStep[Job(p)]
  <2> HIDE DEF at
  <2>4. at \in Steps /\ proc[p] = [at |-> at, goal |-> "load", mem |-> None, buf |-> << >>,
                   key |-> None, batch |-> << >>, seen |-> [id |-> 0, next |-> 0, upto |-> 0],
                   out |-> None, asIs |-> FALSE, began |-> 0, before |-> {}]
    BY <2>1, <2>2 DEF at
  <2>5. proc[p] \in ProcRecords
    BY <2>3, <2>4 DEF ProcRecords
  <2> QED BY <2>1, <2>5
<1>6. /\ handle = [p \in Process |-> NoFile] /\ lock = [p \in Process |-> "none"]
      /\ DOMAIN proc = Process
      /\ proc \in [Process -> ProcRecords]
  BY <1>5 DEF Init
<1>7. Typed
  BY <1>1, <1>3, <1>4, <1>5, <1>6 DEF Typed
<1>8. OwnInv
  <2> SUFFICES ASSUME NEW p \in Process PROVE OwnOK(p, proc[p], handle[p], lock[p])
    BY DEF OwnInv
  <2> QED BY <1>2, <1>5, <1>6
     DEF OwnOK, HandleOK, LockOK, ImageOK, BufferOK, ServedOK,
         Writing, Saving, Wiping, Updating, Locked
<1>9. FilesInv
  <2>1. /\ DOMAIN files = FileNames
        /\ files["index"] = SetupFile(plan.cached) /\ files["flow"] = SetupFile(plan.cached)
        /\ files["key"] \in {NoFile, <<SetupKey>>} /\ files["flowtmp"] = NoFile
        /\ \A p \in Process : files[p] = NoFile
    BY <1>n DEF Init
  <2>2. SetupFile(plan.cached) = NoFile
          \/ \E s \in Seals : SetupFile(plan.cached) = <<s, s>> /\ s # Blank
    <3> DEFINE image == ScanImage(vol, 0)
    <3>1. image \in Images
      BY <1>3, ScannedImage
    <3> HIDE DEF image
    <3>2. [image EXCEPT !.jid = 1] \in Images
      BY <3>1 DEF Images
    <3>3. SetupKey \in MadeKeys
      BY DEF SetupKey, MadeKeys
    <3>4. SetupSeal(plan.cached) \in Seals
      BY <3>2, <3>3 DEF SetupSeal, Seal, Seals, image
    <3> QED BY <3>4, HalvesAssumption DEF SetupFile
  <2>3. \A p \in Process : TempOK(p) /\ OpenOK(p)
    BY <1>6, <1>n, <2>1 DEF TempOK, OpenOK
  <2>4. IndexOK
    BY <2>1, <2>2 DEF IndexOK, Shaped
  <2>5. files["key"] = NoFile \/ KeyShaped(files["key"])
    BY <2>1 DEF KeyShaped, SetupKey, MadeKeys
  <2>6. files["flow"] = NoFile \/ FlowShaped(files["flow"])
    BY <2>1, <2>2 DEF FlowShaped
  <2> QED BY <2>1, <2>3, <2>4, <2>5, <2>6 DEF FilesInv
<1> QED BY <1>7, <1>8, <1>9 DEF CacheInv

LEMMA NextKeeps ==
    ASSUME CacheInv, [Next]_vars
    PROVE  CacheInv'
<1>1. ASSUME NEW p \in Process, Step(p) PROVE CacheInv'
  <2>1. CASE CheckCacheStatus(p) \/ LockToLoad(p) \/ ReadFile(p) \/ Decrypt(p) \/ UseLoaded(p)
    BY <2>1, ForCheckCacheStatus, ForLockToLoad, ForReadFile, ForDecrypt, ForUseLoaded
  <2>2. CASE GetCacheKey(p) \/ DropKey(p) \/ CreateKey(p) \/ WriteKey(p)
    BY <2>2, ForGetCacheKey, ForDropKey, ForCreateKey, ForWriteKey
  <2>3. CASE QueryJournal(p) \/ ReadJournal(p) \/ ApplyUsnChanges(p)
    BY <2>3, ForQueryJournal, ForReadJournal, ForApplyUsnChanges
  <2>4. CASE ScanVolume(p) \/ StampCheckpoint(p) \/ Persist(p) \/ LockToSave(p)
    BY <2>4, ForScanVolume, ForStampCheckpoint, ForPersist, ForLockToSave
  <2>5. CASE CreateTemp(p) \/ WriteTemp(p) \/ RenameTemp(p)
    BY <2>5, ForCreateTemp, ForWriteTemp, ForRenameTemp
  <2>6. CASE FindCached(p) \/ OpenToWipe(p) \/ Wipe(p) \/ Unlink(p) \/ RemoveLock(p)
    BY <2>6, ForFindCached, ForOpenToWipe, ForWipe, ForUnlink, ForRemoveLock
  <2> QED BY <1>1, <2>1, <2>2, <2>3, <2>4, <2>5, <2>6 DEF Step
<1>2. ASSUME NEW p \in Process, Crash(p) PROVE CacheInv'
  BY <1>2, ForCrash
<1>3. ASSUME NEW f \in Files, NEW name \in Names \union {Absent}, ChangeFile(f, name)
      PROVE  CacheInv'
  BY <1>3, ForChangeFile
<1>4. CASE LoseJournal
  BY <1>4, ForLoseJournal
<1>5. CASE LoseKey
  BY <1>5, ForLoseKey
<1>6. CASE UNCHANGED vars
  <2>1. UNCHANGED <<files, handle, lock, plan, proc, vol, journal, hist, spent>>
    BY <1>6 DEF vars, fileVars, envVars
  <2>2. Typed'
    BY <2>1 DEF CacheInv, Typed
  <2>3. OwnInv'
    BY <2>1, OthersOwn DEF CacheInv, OwnInv
  <2>4. FilesInv'
    BY <2>1, FilesOnlyGo DEF CacheInv, FilesInv
  <2> QED BY <2>2, <2>3, <2>4 DEF CacheInv
<1> QED BY <1>1, <1>2, <1>3, <1>4, <1>5, <1>6 DEF Next

(***************************************************************************)
(* The whole of the account, at every moment of every behaviour.           *)
(***************************************************************************)
THEOREM CacheAlwaysHolds == Spec => []CacheInv
<1>1. Init => CacheInv
  BY InitKeeps
<1>2. CacheInv /\ [Next]_vars => CacheInv'
  BY NextKeeps
<1> QED BY <1>1, <1>2, PTL DEF Spec

(***************************************************************************)
(* Whoever is through has given the lock back and closed its file.         *)
(***************************************************************************)
THEOREM NothingHeldAtTheEnd == Spec => []TypeOK
<1>1. CacheInv => TypeOK
  <2> SUFFICES ASSUME CacheInv PROVE TypeOK
    OBVIOUS
  <2>1. ASSUME NEW p \in Process
        PROVE  /\ proc[p].mem \in Images \union {None}
               /\ proc[p].at \in Ended => lock[p] = "none" /\ handle[p] = NoFile
    BY OwnFacts DEF ProcRecords, Ended, Writing, Wiping, Saving, Locked
  <2> QED BY <2>1 DEF CacheInv, Typed, FilesInv, TypeOK
<1> QED BY <1>1, CacheAlwaysHolds, PTL

(***************************************************************************)
(* No failure of a cache file, a lock, a key or the journal keeps an index *)
(* from who asked for it.                                                  *)
(***************************************************************************)
THEOREM RequestsAlwaysServed == Spec => []EveryRequestServed
<1>1. CacheInv => EveryRequestServed
  BY OwnFacts DEF EveryRequestServed, ServedOK
<1> QED BY <1>1, CacheAlwaysHolds, PTL

(***************************************************************************)
(* The .uffs file is never torn by those who save, and zeros in it are     *)
(* those of a removal.                                                     *)
(***************************************************************************)
THEOREM IndexFileAlwaysWhole == Spec => []IndexFileWhole
<1>1. ASSUME CacheInv PROVE IndexFileWhole
  <2> DEFINE content == files["index"]
             halves == ToSet(content) \ {Blank}
  <2> SUFFICES ASSUME content # NoFile
               PROVE  /\ Len(content) = 2 /\ Cardinality(halves) <= 1
                      /\ Blank \in ToSet(content) =>
                           "crash" \in spent \/ \E p \in Process : handle[p] = "index"
    BY DEF IndexFileWhole
  <2>1. /\ Shaped(content)
        /\ content[1] = Blank =>
             "crash" \in spent \/ \E p \in Process : handle[p] = "index"
    BY <1>1 DEF CacheInv, FilesInv, IndexOK
  <2> HIDE DEF content
  <2>2. PICK s \in Seals : content \in {<<s, s>>, <<Blank, s>>, <<Blank, Blank>>}
    BY <2>1 DEF Shaped
  <2>3. s # Blank
    BY HalvesAssumption
  <2>4. PICK a \in {s, Blank}, b \in {s, Blank} : content = <<a, b>> /\ (b = Blank => a = Blank)
    BY <2>2, <2>3
  <2>5. Len(content) = 2 /\ content[1] = a /\ ToSet(content) = {a, b}
    BY <2>4 DEF ToSet
  <2>6. halves = {} \/ halves = {s}
    BY <2>4, <2>5
  <2>7. Cardinality(halves) <= 1
    <3>1. Cardinality({}) = 0 /\ Cardinality({s}) = 1
      BY FS_EmptySet, FS_Singleton
    <3> HIDE DEF halves
    <3> QED BY <2>6, <3>1
  <2> QED BY <2>1, <2>3, <2>4, <2>5, <2>7
<1> QED BY <1>1, CacheAlwaysHolds, PTL

(***************************************************************************)
(* Mixed halves are never accepted by a reader.                            *)
(***************************************************************************)
THEOREM LoadedAlwaysWhole == Spec => []LoadedIsWhole
<1>1. CacheInv => LoadedIsWhole
  BY OwnFacts DEF LoadedIsWhole, BufferOK
<1> QED BY <1>1, CacheAlwaysHolds, PTL

(***************************************************************************)
(* Without a crash no private temporary file outlives the saves.           *)
(***************************************************************************)
THEOREM NeverLitter == Spec => []NoLitter
<1>1. CacheInv => NoLitter
  BY DEF CacheInv, FilesInv, TempOK, NoLitter, Exists, Ended, Writing
<1> QED BY <1>1, CacheAlwaysHolds, PTL


-----------------------------------------------------------------------------
(***************************************************************************)
(* A cached index tells the truth, for every set of processes, plans and   *)
(* files: whatever is kept in a file, a buffer or a process agrees with    *)
(* the volume on all that did not change after its checkpoint, and what is *)
(* answered is as new as the request.                                      *)
(*                                                                         *)
(* The predicates take the world (volume, history of changes, journal) and *)
(* one process' record, so that the same words describe two states.        *)
(***************************************************************************)

World == [vol |-> vol, hist |-> hist, journal |-> journal]

Since(w, n) == {w.hist[k] : k \in n + 1 .. Len(w.hist)}

(* A journal position and the number of changes seen before it.            *)
InStep(w, next, upto) == next + Len(w.hist) = JournalNext(w.journal) + upto

(***************************************************************************)
(* An image is true of every file but its gaps that did not change after   *)
(* its checkpoint, and the checkpoint is where it says if the journal is   *)
(* still the same one.                                                     *)
(***************************************************************************)
True(w, image) ==
  /\ image \in Images /\ image.upto <= Len(w.hist) /\ image.jid <= w.journal.id
  /\ image.jid = w.journal.id => InStep(w, image.next, image.upto)
  /\ \A f \in Files \ (image.gaps \union Since(w, image.upto)) :
       Agrees(image.recs[f], w.vol[f])

TrueHalves(w) == {Blank} \union {s \in Seals : True(w, s.image)}

FilesTrue(w, content) ==
  \A n \in FileNames \ {"key"} : content[n] # NoFile => content[n] \in Seq(TrueHalves(w))

(* The last of some entries that is about a file says what the file is now.*)
LastIn(batch, i) == \A k \in DOMAIN batch : batch[k].file = batch[i].file => k <= i

Tells(w, entry) == entry.op = "deleted" <=> w.vol[entry.file] = Absent

JournalOK(w) ==
  /\ w.vol \in [Files -> Names \union {Absent}] /\ w.hist \in Seq(Files)
  /\ w.journal \in [id : Nat, first : Nat, log : Seq(Entries)]
  /\ w.journal.id # 0 /\ Len(w.journal.log) <= Len(w.hist)
  /\ \A i \in DOMAIN w.journal.log :
       /\ w.journal.log[i].file = w.hist[Len(w.hist) - Len(w.journal.log) + i]
       /\ LastIn(w.journal.log, i) => Tells(w, w.journal.log[i])

(* The journal lost entries since the request began.                       *)
Losses == {"trim", "recreate"}

LostSince(s, r) == (s \intersect Losses) # r.before

QueryOK(w, s, job, r) ==
  r.at \in {"journal", "apply"} =>
    /\ r.mem # None /\ r.mem.jid \in {0, r.seen.id}
    /\ r.seen.id # 0 /\ r.seen.id <= w.journal.id
    /\ r.at = "journal" =>
         \/ r.seen.id = w.journal.id /\ r.mem.next >= w.journal.first
         \/ LostSince(s, r) \/ job # "cached"

(* What was read covers all changes since the image's checkpoint.          *)
BatchOK(w, r) ==
  r.at = "apply" =>
    /\ r.began <= r.seen.upto
    /\ r.seen.id = w.journal.id => InStep(w, r.seen.next, r.seen.upto)
    /\ r.mem.jid # 0 =>
         \A k \in r.mem.upto + 1 .. r.seen.upto :
           \E i \in DOMAIN r.batch : r.batch[i].file = w.hist[k]
    /\ \A i \in DOMAIN r.batch :
         LastIn(r.batch, i) /\ r.batch[i].file \notin Since(w, r.seen.upto)
           => Tells(w, r.batch[i])

(* Where the image in hand is one to answer with.                          *)
Fresh(r) == r.at \in {"stamp", "save"} \/ (r.at \in Saving /\ r.goal = "save")

AsNew(image, r) == image.jid = 0 \/ image.upto >= r.began

MemOK(w, r) ==
  /\ r.mem # None => True(w, r.mem)
  /\ r.buf \in Seq(TrueHalves(w))
  /\ r.at = "stamp" => r.mem.gaps = {}
  /\ Fresh(r) => AsNew(r.mem, r)

MayServe(job, readOnly, s, r) ==
  job # "cached" \/ readOnly \/ s \intersect {"query", "journal"} # {} \/ LostSince(s, r)

OutOK(w, s, job, readOnly, r) ==
  /\ r.asIs => r.at \in Ended
  /\ r.at = "look" => r.out = None
  /\ r.out # None =>
       /\ True(w, r.out)
       /\ (r.asIs /\ MayServe(job, readOnly, s, r)) \/ AsNew(r.out, r)

HandOK(w, s, job, readOnly, r) ==
  /\ r \in ProcRecords /\ r.seen.upto <= Len(w.hist)
  /\ r.began <= Len(w.hist) /\ r.before \subseteq s
  /\ QueryOK(w, s, job, r) /\ BatchOK(w, r) /\ MemOK(w, r)
  /\ OutOK(w, s, job, readOnly, r)

Hand(p) == HandOK(World, spent, Job(p), plan.readOnly, proc[p])

CurrentInv ==
  FilesTrue(World, files) /\ JournalOK(World) /\ \A p \in Process : Hand(p)

-----------------------------------------------------------------------------
(* Steps that leave the world as it is.                                    *)

LEMMA LossesStay ==
    ASSUME NEW s, NEW t, s \subseteq t, NEW r, r.before \subseteq s, LostSince(s, r)
    PROVE  LostSince(t, r)
BY DEF LostSince, Losses

LEMMA HandLater ==
    ASSUME NEW w, NEW s, NEW t, s \subseteq t, NEW job, NEW readOnly, NEW r,
           HandOK(w, s, job, readOnly, r)
    PROVE  HandOK(w, t, job, readOnly, r)
<1>1. r.before \subseteq s /\ r.before \subseteq t
  BY DEF HandOK
<1>2. LostSince(s, r) => LostSince(t, r)
  BY <1>1, LossesStay
<1>3. MayServe(job, readOnly, s, r) => MayServe(job, readOnly, t, r)
  BY <1>2 DEF MayServe
<1> QED BY <1>1, <1>2, <1>3 DEF HandOK, QueryOK, OutOK

LEMMA WorldSame ==
    ASSUME UNCHANGED envVars
    PROVE  World' = World /\ plan' = plan /\ \A p : Job(p)' = Job(p)
BY DEF envVars, World, Job

(* One process moves on, and everything it leaves is true.                 *)
LEMMA HandStep ==
    ASSUME CurrentInv, NEW p \in Process, UNCHANGED envVars, spent \subseteq spent',
           \A q \in Process \ {p} : proc'[q] = proc[q],
           FilesTrue(World, files'),
           HandOK(World, spent', Job(p), plan.readOnly, proc'[p])
    PROVE  CurrentInv'
<1>1. World' = World /\ plan' = plan /\ \A q : Job(q)' = Job(q)
  BY WorldSame
<1>2. FilesTrue(World, files)' /\ JournalOK(World)'
  BY <1>1 DEF CurrentInv
<1>3. ASSUME NEW q \in Process PROVE Hand(q)'
  <2>1. CASE q = p
    BY <1>1, <2>1 DEF Hand
  <2>2. CASE q # p
    <3>1. HandOK(World, spent', Job(q), plan.readOnly, proc[q])
      BY HandLater DEF CurrentInv, Hand
    <3> QED BY <1>1, <2>2, <3>1 DEF Hand
  <2> QED BY <2>1, <2>2
<1> QED BY <1>2, <1>3 DEF CurrentInv

LEMMA HandFacts ==
    ASSUME CacheInv, CurrentInv, NEW p \in Process, spent \subseteq spent'
    PROVE  /\ HandOK(World, spent', Job(p), plan.readOnly, proc[p])
           /\ proc[p] \in ProcRecords /\ proc \in [Process -> ProcRecords]
BY HandLater DEF CurrentInv, Hand, CacheInv, Typed

(* A process goes on with what it has in hand.                             *)
LEMMA GoesOn ==
    ASSUME NEW w, NEW s, NEW job, NEW readOnly, NEW r, HandOK(w, s, job, readOnly, r),
           NEW step \in Steps \ {"journal", "apply", "stamp", "look"}, r.at \notin Ended,
           Fresh([r EXCEPT !.at = step]) => Fresh(r)
    PROVE  HandOK(w, s, job, readOnly, [r EXCEPT !.at = step])
<1> DEFINE v == [r EXCEPT !.at = step]
<1>1. r \in ProcRecords
  BY DEF HandOK
<1>2. /\ v \in ProcRecords /\ v.at = step /\ v.goal = r.goal /\ v.mem = r.mem
      /\ v.buf = r.buf /\ v.out = r.out /\ v.asIs = r.asIs /\ v.seen = r.seen
      /\ v.began = r.began /\ v.before = r.before
  BY <1>1 DEF ProcRecords
<1> HIDE DEF v
<1>3. QueryOK(w, s, job, v) /\ BatchOK(w, v)
  BY <1>2 DEF QueryOK, BatchOK
<1>4. MemOK(w, v)
  BY <1>2 DEF HandOK, MemOK, AsNew, v
<1>5. ~r.asIs
  BY DEF HandOK, OutOK
<1>6. OutOK(w, s, job, readOnly, v)
  BY <1>2, <1>5 DEF HandOK, OutOK, AsNew
<1>7. HandOK(w, s, job, readOnly, v)
  BY <1>2, <1>3, <1>4, <1>6 DEF HandOK
<1> QED BY <1>7 DEF v

EndedWith(r, how, image, asIs) ==
  [r EXCEPT !.at = how, !.out = image, !.asIs = asIs, !.mem = None,
            !.buf = << >>, !.key = None, !.batch = << >>,
            !.seen = [id |-> 0, next |-> 0, upto |-> 0]]

(* It ends with an answer, or without one.                                 *)
LEMMA EndsWith ==
    ASSUME NEW w, NEW s, NEW job, NEW readOnly, NEW r, HandOK(w, s, job, readOnly, r),
           NEW how \in Ended, NEW image \in Images \union {None}, NEW asIs \in BOOLEAN,
           image # None =>
             /\ True(w, image)
             /\ (asIs /\ MayServe(job, readOnly, s, r)) \/ AsNew(image, r)
    PROVE  HandOK(w, s, job, readOnly, EndedWith(r, how, image, asIs))
<1> DEFINE v == [r EXCEPT !.at = how, !.out = image, !.asIs = asIs, !.mem = None,
                          !.buf = << >>, !.key = None, !.batch = << >>,
                          !.seen = [id |-> 0, next |-> 0, upto |-> 0]]
<1>1. r \in ProcRecords /\ how \in Steps
  BY DEF HandOK, Steps
<1>2. << >> \in Seq(Halves) /\ << >> \in Seq(Entries) /\ << >> \in Seq(TrueHalves(w))
  OBVIOUS
<1>3. v \in ProcRecords
  BY <1>1, <1>2 DEF ProcRecords
<1>4. /\ v.at = how /\ v.mem = None /\ v.buf = << >> /\ v.out = image /\ v.asIs = asIs
      /\ v.seen.upto = 0 /\ v.began = r.began /\ v.before = r.before
  BY <1>1 DEF ProcRecords
<1> HIDE DEF v
<1>5. QueryOK(w, s, job, v) /\ BatchOK(w, v)
  BY <1>4 DEF QueryOK, BatchOK, Ended
<1>6. MemOK(w, v)
  BY <1>2, <1>4 DEF MemOK, Fresh, Ended, Saving, Writing
<1>7. MayServe(job, readOnly, s, r) => MayServe(job, readOnly, s, v)
  BY <1>4 DEF MayServe, LostSince
<1>8. OutOK(w, s, job, readOnly, v)
  BY <1>4, <1>7 DEF OutOK, AsNew, Ended
<1>9. r.began \in Nat /\ r.began <= Len(w.hist)
  BY <1>1 DEF HandOK, ProcRecords
<1>10. v.seen.upto <= Len(w.hist) /\ v.before \subseteq s
  BY <1>4, <1>9 DEF HandOK
<1>11. HandOK(w, s, job, readOnly, v)
  BY <1>3, <1>4, <1>5, <1>6, <1>8, <1>9, <1>10 DEF HandOK
<1> QED BY <1>11 DEF v, EndedWith

LEMMA GoToHand ==
    ASSUME CacheInv, CurrentInv, NEW p \in Process, UNCHANGED envVars,
           spent \subseteq spent', FilesTrue(World, files'),
           NEW step \in Steps \ {"journal", "apply", "stamp", "save", "look"}, GoTo(p, step),
           proc[p].at \notin Ended, step \in Saving => proc[p].at \in Saving
    PROVE  CurrentInv'
<1> DEFINE r == proc[p]
           v == [r EXCEPT !.at = step]
<1>1. HandOK(World, spent', Job(p), plan.readOnly, r) /\ r \in ProcRecords
  BY HandFacts
<1>2. proc'[p] = v /\ \A q \in Process \ {p} : proc'[q] = proc[q]
  BY HandFacts DEF GoTo
<1>3. v.at = step /\ v.goal = r.goal
  BY <1>1 DEF ProcRecords
<1>4. Fresh(v) => Fresh(r)
  BY <1>3 DEF Fresh
<1>5. HandOK(World, spent', Job(p), plan.readOnly, v)
  BY <1>1, <1>4, GoesOn
<1> QED BY <1>2, <1>5, HandStep

LEMMA EndHand ==
    ASSUME CacheInv, CurrentInv, NEW p \in Process, UNCHANGED envVars,
           spent \subseteq spent', FilesTrue(World, files'),
           NEW how \in Ended, NEW image \in Images \union {None}, NEW asIs \in BOOLEAN,
           End(p, how, image, asIs),
           image # None =>
             /\ True(World, image)
             /\ \/ asIs /\ MayServe(Job(p), plan.readOnly, spent', proc[p])
                \/ AsNew(image, proc[p])
    PROVE  CurrentInv'
<1> DEFINE r == proc[p]
           v == [r EXCEPT !.at = how, !.out = image, !.asIs = asIs, !.mem = None,
                          !.buf = << >>, !.key = None, !.batch = << >>,
                          !.seen = [id |-> 0, next |-> 0, upto |-> 0]]
<1>1. HandOK(World, spent', Job(p), plan.readOnly, r)
  BY HandFacts
<1>2. HandOK(World, spent', Job(p), plan.readOnly, v)
  <2> DEFINE w == World
             s == spent'
             job == Job(p)
             ro == plan.readOnly
  <2>1. /\ HandOK(w, s, job, ro, r)
        /\ image # None =>
             /\ True(w, image)
             /\ \/ asIs /\ MayServe(job, ro, s, r)
                \/ AsNew(image, r)
    BY <1>1
  <2> HIDE DEF w, s, job, ro, r
  <2>2. HandOK(w, s, job, ro, EndedWith(r, how, image, asIs))
    BY <2>1, EndsWith
  <2> QED BY <2>2 DEF w, s, job, ro, EndedWith
<1>3. proc'[p] = v /\ \A q \in Process \ {p} : proc'[q] = proc[q]
  BY HandFacts DEF End
<1> QED BY <1>2, <1>3, HandStep

-----------------------------------------------------------------------------
(* What the steps do to the files.                                         *)

LEMMA FilesSame == CurrentInv /\ files' = files => FilesTrue(World, files')
BY DEF CurrentInv

LEMMA FilesRemoved ==
    ASSUME CurrentInv, NEW names, RemoveFiles(names)
    PROVE  FilesTrue(World, files')
BY DEF CurrentInv, FilesTrue, RemoveFiles

LEMMA FilesCreated ==
    ASSUME CacheInv, CurrentInv, NEW p, NEW n, CreateFile(p, n)
    PROVE  FilesTrue(World, files')
<1>1. << >> \in Seq(TrueHalves(World))
  OBVIOUS
<1>2. DOMAIN files = FileNames
  BY DEF CacheInv, FilesInv
<1> QED BY <1>1, <1>2 DEF CurrentInv, FilesTrue, CreateFile

LEMMA FilesRenamed ==
    ASSUME CacheInv, CurrentInv, NEW p, NEW from \in FileNames \ {"key"},
           NEW to \in FileNames \ {"key"}, RenameFile(p, from, to)
    PROVE  FilesTrue(World, files')
<1>1. DOMAIN files = FileNames
  BY DEF CacheInv, FilesInv
<1> QED BY <1>1 DEF CurrentInv, FilesTrue, RenameFile

(* A process that writes to a file has one that is there.                  *)
LEMMA FilesWritten ==
    ASSUME CacheInv, CurrentInv, NEW p \in Process, NEW i \in Nat \ {0}, NEW half,
           WritePart(p, i, half), half \in TrueHalves(World) \/ handle[p] = "key"
    PROVE  FilesTrue(World, files')
<1>1. DOMAIN files = FileNames /\ OpenOK(p)
  BY DEF CacheInv, FilesInv
<1>2. CASE handle[p] \in {NoFile, "key"}
  BY <1>1, <1>2 DEF CurrentInv, FilesTrue, WritePart
<1>3. CASE handle[p] \notin {NoFile, "key"}
  <2> DEFINE n == handle[p]
             S == TrueHalves(World)
  <2>1. n \in FileNames \ {"key"} /\ n \in {"index", "flow", "flowtmp", p}
    <3>1. OwnOK(p, proc[p], handle[p], lock[p]) /\ n \in FileNames
      BY <1>3 DEF CacheInv, OwnInv, Typed
    <3> QED BY <1>3, <3>1 DEF OwnOK, HandleOK, TempPath
  <2>2. files[n] \in Seq(S)
    <3>1. files[n] # NoFile
      <4>1. CASE n = p
        BY <1>1, <4>1 DEF OpenOK
      <4>2. CASE n = "index"
        <5>1. PICK s \in Seals : files[n] \in {<<s, s>>, <<Blank, s>>, <<Blank, Blank>>}
          BY <1>1, <4>2 DEF OpenOK, Shaped
        <5>2. s \in Seals \union {Blank} /\ Blank \in Seals \union {Blank}
          OBVIOUS
        <5> DEFINE H == Seals \union {Blank}
        <5> HIDE DEF H
        <5>3. <<s, s>> \in Seq(H) /\ <<Blank, s>> \in Seq(H) /\ <<Blank, Blank>> \in Seq(H)
          BY <5>2 DEF H
        <5>4. files[n] \in Seq(H)
          <6>1. CASE files[n] = <<s, s>>
            BY <5>3, <6>1
          <6>2. CASE files[n] = <<Blank, s>>
            BY <5>3, <6>2
          <6>3. CASE files[n] = <<Blank, Blank>>
            BY <5>3, <6>3
          <6> QED BY <5>1, <6>1, <6>2, <6>3
        <5> QED BY <5>4, HalvesAssumption DEF H
      <4>3. CASE n \in {"flow", "flowtmp"}
        <5>1. files[n] \in Seq(MadeHalves)
          BY <1>1, <4>3 DEF OpenOK
        <5>2. MadeHalves \subseteq Seals \union {Blank}
          BY DEF MadeHalves, MadeSeals, Seals
        <5>3. files[n] \in Seq(Seals \union {Blank})
          BY <5>1, <5>2
        <5> QED BY <5>3, HalvesAssumption
      <4> QED BY <2>1, <4>1, <4>2, <4>3
    <3> QED BY <2>1, <3>1 DEF CurrentInv, FilesTrue
  <2>3. Blank \in S /\ half \in S
    BY <1>3 DEF TrueHalves
  <2>4. files' = [files EXCEPT ![n] = Put(files[n], i, half)]
    BY <1>3 DEF WritePart
  <2> HIDE DEF n, S
  <2>5. Put(files[n], i, half) \in Seq(S)
    BY <2>2, <2>3, PutHalf
  <2> QED BY <1>1, <2>1, <2>4, <2>5 DEF CurrentInv, FilesTrue, S
<1> QED BY <1>2, <1>3

-----------------------------------------------------------------------------
(* Loading.                                                                *)

(* What a process has in hand changes, but not what it will answer with.   *)
LEMMA NewHand ==
    ASSUME NEW w, NEW s, NEW job, NEW readOnly, NEW r, HandOK(w, s, job, readOnly, r),
           r.at \notin Ended, NEW v \in ProcRecords, v.at # "look",
           v.seen.upto <= Len(w.hist), v.out = r.out, v.asIs = r.asIs,
           v.began = r.began, v.before = r.before,
           QueryOK(w, s, job, v), BatchOK(w, v), MemOK(w, v)
    PROVE  HandOK(w, s, job, readOnly, v)
<1>1. ~r.asIs
  BY DEF HandOK, OutOK
<1>2. OutOK(w, s, job, readOnly, v)
  BY <1>1 DEF HandOK, OutOK, AsNew
<1> QED BY <1>2 DEF HandOK

(* The same for the step of a process.                                     *)
LEMMA NewHandStep ==
    ASSUME CacheInv, CurrentInv, NEW p \in Process, UNCHANGED envVars,
           spent \subseteq spent', FilesTrue(World, files'),
           \A q \in Process \ {p} : proc'[q] = proc[q],
           proc[p].at \notin Ended, proc'[p] \in ProcRecords, proc'[p].at # "look",
           proc'[p].seen.upto <= Len(hist),
           proc'[p].out = proc[p].out, proc'[p].asIs = proc[p].asIs,
           proc'[p].began = proc[p].began, proc'[p].before = proc[p].before,
           QueryOK(World, spent', Job(p), proc'[p]), BatchOK(World, proc'[p]),
           MemOK(World, proc'[p])
    PROVE  CurrentInv'
<1>1. HandOK(World, spent', Job(p), plan.readOnly, proc[p]) /\ World.hist = hist
  BY HandFacts DEF World
<1>2. HandOK(World, spent', Job(p), plan.readOnly, proc'[p])
  BY <1>1, NewHand
<1> QED BY <1>2, HandStep

LEMMA CurCheckCacheStatus ==
    ASSUME CacheInv, CurrentInv, NEW p \in Process, CheckCacheStatus(p)
    PROVE  CurrentInv'
<1> DEFINE r == proc[p]
           s == spent \intersect {"trim", "recreate"}
<1>1. UNCHANGED envVars /\ spent' = spent /\ FilesTrue(World, files')
  BY FilesRemoved DEF CheckCacheStatus, NoFault, CleanupStaleTemps
<1>2. HandOK(World, spent', Job(p), plan.readOnly, r) /\ r \in ProcRecords
        /\ proc \in [Process -> ProcRecords]
  BY <1>1, HandFacts
<1>3. PICK next \in {"scan", "read", "lock"} :
        proc' = [proc EXCEPT ![p].at = next, ![p].began = Len(hist), ![p].before = s]
  BY DEF CheckCacheStatus
<1> DEFINE v == [r EXCEPT !.at = next, !.began = Len(hist), !.before = s]
<1>4. proc'[p] = v /\ \A q \in Process \ {p} : proc'[q] = proc[q]
  BY <1>2, <1>3
<1>5. hist \in Seq(Files) /\ Len(hist) \in Nat /\ World.hist = hist
  BY DEF CacheInv, Typed, World
<1>6. /\ v \in ProcRecords /\ v.at = next /\ v.mem = r.mem /\ v.buf = r.buf
      /\ v.out = r.out /\ v.asIs = r.asIs /\ v.seen = r.seen
      /\ v.began = Len(hist) /\ v.before = s
  <2>1. r \in ProcRecords /\ s \in SUBSET {"trim", "recreate"} /\ Len(hist) \in Nat
    BY <1>2, <1>5
  <2>2. next \in Steps
    BY DEF Steps
  <2> HIDE DEF r, s
  <2>3. v \in ProcRecords
    BY <2>1, <2>2 DEF ProcRecords
  <2> QED BY <2>1, <2>3 DEF ProcRecords
<1>7. r.at = "look"
  BY DEF CheckCacheStatus
<1> HIDE DEF v
<1>8. QueryOK(World, spent', Job(p), v) /\ BatchOK(World, v)
  BY <1>6 DEF QueryOK, BatchOK
<1>9. MemOK(World, v)
  BY <1>2, <1>6 DEF HandOK, MemOK, Fresh, Saving, Writing
<1>10. OutOK(World, spent', Job(p), plan.readOnly, v)
  BY <1>2, <1>6, <1>7 DEF HandOK, OutOK, Ended
<1>11. v.before \subseteq spent' /\ v.seen.upto <= Len(World.hist) /\ v.began <= Len(World.hist)
  BY <1>1, <1>2, <1>5, <1>6 DEF HandOK
<1>12. HandOK(World, spent', Job(p), plan.readOnly, v)
  BY <1>6, <1>8, <1>9, <1>10, <1>11 DEF HandOK
<1> QED BY <1>1, <1>4, <1>12, HandStep

LEMMA CurLockToLoad ==
    ASSUME CacheInv, CurrentInv, NEW p \in Process, LockToLoad(p)
    PROVE  CurrentInv'
<1>1. UNCHANGED envVars /\ spent' = spent /\ FilesTrue(World, files')
  BY FilesRemoved DEF LockToLoad, NoFault, CleanupStaleTemps
<1>2. PICK step \in {"read", "scan"} : GoTo(p, step)
  BY DEF LockToLoad
<1>3. proc[p].at \notin Ended
  BY DEF LockToLoad, Ended
<1>4. step \in Steps \ {"journal", "apply", "stamp", "save", "look"} /\ step \notin Saving
  BY DEF Steps, Saving, Writing
<1> QED BY <1>1, <1>2, <1>3, <1>4, GoToHand

LEMMA LoadFailedHand ==
    ASSUME CacheInv, CurrentInv, NEW p \in Process, UNCHANGED envVars, spent' = spent,
           FilesTrue(World, files'), LoadFailed(p), proc[p].at \notin Ended
    PROVE  CurrentInv'
<1>1. GoTo(p, "scan")
  BY DEF LoadFailed
<1>2. "scan" \in Steps \ {"journal", "apply", "stamp", "save", "look"} /\ "scan" \notin Saving
  BY DEF Steps, Saving, Writing
<1> QED BY <1>1, <1>2, GoToHand

(* What is in a cache that is read.                                        *)
LEMMA ContentTrue ==
    ASSUME CacheInv, CurrentInv, NEW p, files[CacheFile(p)] # NoFile
    PROVE  files[CacheFile(p)] \in Seq(TrueHalves(World))
<1>1. CacheFile(p) \in FileNames \ {"key"}
  BY DEF CacheFile, FileNames
<1> QED BY <1>1 DEF CurrentInv, FilesTrue

LEMMA WholeTrue ==
    ASSUME NEW w, NEW content \in Seq(TrueHalves(w)), Whole(content)
    PROVE  True(w, content[1].image)
<1>1. content[1] \in TrueHalves(w) /\ content[1] # Blank
  BY DEF Whole
<1> QED BY <1>1 DEF TrueHalves

LEMMA CurReadFile ==
    ASSUME CacheInv, CurrentInv, NEW p \in Process, ReadFile(p)
    PROVE  CurrentInv'
<1> DEFINE content == files[CacheFile(p)]
           format == IF content = NoFile THEN "unknown" ELSE DetectFormat(content)
           r == proc[p]
           v == proc'[p]
<1>1. UNCHANGED envVars /\ spent' = spent /\ FilesTrue(World, files') /\ r.at \notin Ended
  BY FilesSame DEF ReadFile, NoFault, Ended
<1>2. HandOK(World, spent', Job(p), plan.readOnly, r) /\ r \in ProcRecords
        /\ proc \in [Process -> ProcRecords]
  BY <1>1, HandFacts
<1>3. CASE format = "unknown"
  <2>1. LoadFailed(p)
    BY <1>3 DEF ReadFile
  <2> QED BY <1>1, <2>1, LoadFailedHand
<1>4. ASSUME format # "unknown"
      PROVE  content \in Seq(TrueHalves(World)) /\ content \in Seq(Halves)
  BY <1>4, ContentTrue, CacheContent
<1>5. CASE format = "encrypted"
  <2>1. proc' = [proc EXCEPT ![p].at = "key", ![p].goal = "load", ![p].buf = content]
    BY <1>5 DEF ReadFile
  <2>2. /\ v \in ProcRecords /\ v.at = "key" /\ v.goal = "load" /\ v.mem = r.mem
        /\ v.buf = content /\ v.out = r.out /\ v.asIs = r.asIs /\ v.seen = r.seen
        /\ v.began = r.began /\ v.before = r.before
    BY <1>2, <1>4, <1>5, <2>1 DEF ProcRecords, Steps, Saving
  <2>3. \A q \in Process \ {p} : proc'[q] = proc[q]
    BY <2>1, <1>2
  <2>4. QueryOK(World, spent', Job(p), v) /\ BatchOK(World, v)
    BY <2>2 DEF QueryOK, BatchOK
  <2>5. MemOK(World, v)
    BY <1>2, <1>4, <1>5, <2>2 DEF HandOK, MemOK, Fresh
  <2>6. v.seen.upto <= Len(hist)
    BY <1>2, <2>2 DEF HandOK, World
  <2> HIDE DEF v
  <2> QED BY <1>1, <2>2, <2>3, <2>4, <2>5, <2>6, NewHandStep DEF v
<1>6. CASE format = "plain"
  <2> DEFINE flow == Job(p) = "flow"
  <2>1. proc' = [proc EXCEPT ![p].at = IF flow THEN "key" ELSE "loaded",
                             ![p].goal = IF flow THEN "migrate" ELSE "load",
                             ![p].buf = content, ![p].mem = content[1].image]
    BY <1>6 DEF ReadFile
  <2>2. content # NoFile /\ DetectFormat(content) = "plain"
    BY <1>6
  <2>3. Whole(content) /\ content[1].image \in Images
    BY <2>2, CacheContent
  <2>4. True(World, content[1].image)
    BY <1>4, <1>6, <2>3, WholeTrue
  <2> DEFINE step == IF flow THEN "key" ELSE "loaded"
             goal == IF flow THEN "migrate" ELSE "load"
             image == content[1].image
  <2>5. step \in {"key", "loaded"} /\ goal \in {"migrate", "load"}
    OBVIOUS
  <2>6. image \in Images /\ content \in Seq(Halves)
    BY <1>4, <1>6, <2>3
  <2> HIDE DEF step, goal, image
  <2>7. proc' = [proc EXCEPT ![p].at = step, ![p].goal = goal, ![p].buf = content,
                             ![p].mem = image]
    BY <2>1 DEF step, goal, image
  <2> HIDE DEF content
  <2>8. /\ v \in ProcRecords /\ v.at = step /\ v.goal = goal /\ v.mem = image
        /\ v.buf = content /\ v.out = r.out /\ v.asIs = r.asIs /\ v.seen = r.seen
        /\ v.began = r.began /\ v.before = r.before
    <3>1. v = [r EXCEPT !.at = step, !.goal = goal, !.buf = content, !.mem = image]
      BY <1>2, <2>7
    <3>2. r \in ProcRecords
      BY <1>2
    <3>3. step \in Steps
      BY <2>5 DEF Steps, Saving, Updating
    <3> HIDE DEF r, v
    <3>4. v \in ProcRecords
      BY ONLY <2>5, <2>6, <3>1, <3>2, <3>3 DEF ProcRecords
    <3> QED BY ONLY <3>1, <3>2, <3>4 DEF ProcRecords
  <2>9. \A q \in Process \ {p} : proc'[q] = proc[q]
    BY <2>7, <1>2
  <2>10. QueryOK(World, spent', Job(p), v) /\ BatchOK(World, v)
    BY <2>5, <2>8 DEF QueryOK, BatchOK
  <2>11. MemOK(World, v)
    <3>1. True(World, v.mem) /\ v.buf \in Seq(TrueHalves(World))
      BY <1>4, <1>6, <2>4, <2>8 DEF image
    <3> QED BY <3>1, <2>5, <2>8 DEF MemOK, Fresh
  <2>12. v.seen.upto <= Len(hist) /\ v.at # "look"
    BY <1>2, <2>5, <2>8 DEF HandOK, World
  <2> HIDE DEF v
  <2> QED BY <1>1, <2>8, <2>9, <2>10, <2>11, <2>12, NewHandStep DEF v
<1>7. format \in {"unknown", "encrypted", "plain"}
  BY DEF DetectFormat
<1> QED BY <1>3, <1>5, <1>6, <1>7

LEMMA CurDecrypt ==
    ASSUME CacheInv, CurrentInv, NEW p \in Process, Decrypt(p)
    PROVE  CurrentInv'
<1> DEFINE r == proc[p]
           v == proc'[p]
<1>1. UNCHANGED envVars /\ spent' = spent /\ r.at \notin Ended
  BY DEF Decrypt, NoFault, Ended
<1>2. HandOK(World, spent', Job(p), plan.readOnly, r) /\ r \in ProcRecords
        /\ proc \in [Process -> ProcRecords]
  BY <1>1, HandFacts
<1>3. CASE Decrypts(r.buf, r.key)
  <2> DEFINE image == r.buf[1].image
  <2>1. True(World, image)
    BY <1>2, <1>3, WholeTrue DEF HandOK, MemOK, Decrypts
  <2>2. image \in Images
    BY <2>1 DEF True
  <2> HIDE DEF image
  <2>3. proc' = [proc EXCEPT ![p].at = "loaded", ![p].mem = image]
    BY <1>3 DEF Decrypt, image
  <2>4. /\ v \in ProcRecords /\ v.at = "loaded" /\ v.mem = image
        /\ v.buf = r.buf /\ v.out = r.out /\ v.asIs = r.asIs /\ v.seen = r.seen
        /\ v.began = r.began /\ v.before = r.before
    BY <1>2, <2>2, <2>3 DEF ProcRecords, Steps, Updating
  <2>5. \A q \in Process \ {p} : proc'[q] = proc[q]
    BY <2>3, <1>2
  <2>6. QueryOK(World, spent', Job(p), v) /\ BatchOK(World, v)
    BY <2>4 DEF QueryOK, BatchOK
  <2>7. MemOK(World, v)
    BY <1>2, <2>1, <2>4 DEF HandOK, MemOK, Fresh, Saving, Writing
  <2>8. v.seen.upto <= Len(hist)
    BY <1>2, <2>4 DEF HandOK, World
  <2>9. FilesTrue(World, files')
    BY <1>3, FilesSame DEF Decrypt
  <2> HIDE DEF v
  <2> QED BY <1>1, <2>4, <2>5, <2>6, <2>7, <2>8, <2>9, NewHandStep DEF v
<1>4. CASE ~Decrypts(r.buf, r.key)
  <2>1. RemoveFiles({CacheFile(p)}) /\ LoadFailed(p)
    BY <1>4 DEF Decrypt, DecryptFailed
  <2>2. FilesTrue(World, files')
    BY <2>1, FilesRemoved
  <2> QED BY <1>1, <2>1, <2>2, LoadFailedHand
<1> QED BY <1>3, <1>4

LEMMA CurUseLoaded ==
    ASSUME CacheInv, CurrentInv, NEW p \in Process, UseLoaded(p)
    PROVE  CurrentInv'
<1> DEFINE answers == LocksToLoad(p) \/ Job(p) = "get" \/ (Job(p) = "update" /\ plan.readOnly)
<1>1. UNCHANGED envVars /\ spent' = spent /\ FilesTrue(World, files')
        /\ proc[p].at \notin Ended
  BY FilesSame DEF UseLoaded, NoFault, Ended
<1>2. HandOK(World, spent', Job(p), plan.readOnly, proc[p])
  BY <1>1, HandFacts
<1>3. CASE answers
  <2>1. End(p, "done", proc[p].mem, TRUE)
    BY <1>3 DEF UseLoaded
  <2>2. Job(p) # "cached" \/ plan.readOnly
    BY <1>3 DEF LocksToLoad
  <2>3. MayServe(Job(p), plan.readOnly, spent', proc[p])
    BY <2>2 DEF MayServe
  <2>4. proc[p].mem \in Images \union {None} /\ (proc[p].mem # None => True(World, proc[p].mem))
    BY <1>2 DEF HandOK, MemOK, ProcRecords
  <2>5. "done" \in Ended /\ TRUE \in BOOLEAN
    BY DEF Ended
  <2> QED BY <1>1, <2>1, <2>3, <2>4, <2>5, EndHand
<1>4. CASE ~answers
  <2>1. GoTo(p, "query")
    BY <1>4 DEF UseLoaded
  <2>2. "query" \in Steps \ {"journal", "apply", "stamp", "save", "look"} /\ "query" \notin Saving
    BY DEF Steps, Saving, Writing, Updating
  <2> QED BY <1>1, <2>1, <2>2, GoToHand
<1> QED BY <1>3, <1>4

-----------------------------------------------------------------------------
(* The key, and the saving of an image.                                    *)

LEMMA HaveKeyHand ==
    ASSUME CacheInv, CurrentInv, NEW p \in Process, UNCHANGED envVars, spent' = spent,
           FilesTrue(World, files'), proc[p].at \in Saving,
           NEW key \in MadeKeys, HaveKey(p, key)
    PROVE  CurrentInv'
<1> DEFINE r == proc[p]
           v == proc'[p]
           step == IF r.goal = "load" THEN "decrypt" ELSE "create"
<1>1. HandOK(World, spent', Job(p), plan.readOnly, r) /\ r \in ProcRecords
        /\ proc \in [Process -> ProcRecords]
  BY HandFacts
<1>2. step \in {"decrypt", "create"} /\ (step = "create" => r.goal # "load")
  OBVIOUS
<1> HIDE DEF step
<1>3. proc' = [proc EXCEPT ![p].at = step, ![p].key = key]
  BY DEF HaveKey, step
<1>4. /\ v \in ProcRecords /\ v.at = step /\ v.goal = r.goal /\ v.mem = r.mem
      /\ v.buf = r.buf /\ v.out = r.out /\ v.asIs = r.asIs /\ v.seen = r.seen
      /\ v.began = r.began /\ v.before = r.before
  BY <1>1, <1>2, <1>3 DEF ProcRecords, Steps, Saving
<1>5. \A q \in Process \ {p} : proc'[q] = proc[q]
  BY <1>1, <1>3
<1> HIDE DEF v
<1>6. QueryOK(World, spent', Job(p), v) /\ BatchOK(World, v)
  BY <1>2, <1>4 DEF QueryOK, BatchOK
<1>7. Fresh(v) => Fresh(r)
  BY <1>2, <1>4 DEF Fresh
<1>8. MemOK(World, v)
  BY <1>1, <1>2, <1>4, <1>7 DEF HandOK, MemOK, AsNew
<1>9. v.seen.upto <= Len(hist) /\ v.at # "look" /\ r.at \notin Ended
  BY <1>1, <1>2, <1>4 DEF HandOK, World, Saving, Writing, Ended
<1> QED BY <1>4, <1>5, <1>6, <1>8, <1>9, NewHandStep DEF v

LEMMA CurGetCacheKey ==
    ASSUME CacheInv, CurrentInv, NEW p \in Process, GetCacheKey(p)
    PROVE  CurrentInv'
<1>1. UNCHANGED envVars /\ spent' = spent /\ FilesTrue(World, files')
        /\ proc[p].at \notin Ended /\ proc[p].at \in Saving
  BY FilesSame DEF GetCacheKey, NoFault, Ended, fileVars, Saving
<1>2. CASE \E step \in {"generate", "drop"} : GoTo(p, step)
  <2>1. PICK step \in {"generate", "drop"} : GoTo(p, step)
    BY <1>2
  <2>2. step \in Steps \ {"journal", "apply", "stamp", "save", "look"}
    BY DEF Steps, Saving
  <2> QED BY <1>1, <2>1, <2>2, GoToHand
<1>3. CASE /\ Exists("key") /\ files["key"] \notin {<< >>, <<Blank>>}
           /\ HaveKey(p, files["key"][1])
  <2>1. files["key"][1] \in MadeKeys
    BY <1>3 DEF CacheInv, FilesInv, KeyShaped, Exists
  <2> QED BY <1>1, <1>3, <2>1, HaveKeyHand
<1> QED BY <1>2, <1>3 DEF GetCacheKey

LEMMA CurDropKey ==
    ASSUME CacheInv, CurrentInv, NEW p \in Process, DropKey(p)
    PROVE  CurrentInv'
<1>1. UNCHANGED envVars /\ spent' = spent /\ FilesTrue(World, files')
        /\ proc[p].at \notin Ended /\ proc[p].at \in Saving
  BY FilesRemoved DEF DropKey, NoFault, Ended, Saving
<1>2. PICK step \in {"generate", "createkey"} : GoTo(p, step)
  BY DEF DropKey
<1>3. step \in Steps \ {"journal", "apply", "stamp", "save", "look"}
  BY DEF Steps, Saving
<1> QED BY <1>1, <1>2, <1>3, GoToHand

(* What a save ends with is as new as the request.                         *)
LEMMA SaveEndsHand ==
    ASSUME CacheInv, CurrentInv, NEW p \in Process, UNCHANGED envVars,
           spent \subseteq spent', FilesTrue(World, files'), NEW ok \in BOOLEAN,
           SaveEnds(p, ok),
           proc[p].at = "save" \/ (proc[p].at \in Saving /\ proc[p].goal # "load")
    PROVE  CurrentInv'
<1> DEFINE r == proc[p]
<1>1. HandOK(World, spent', Job(p), plan.readOnly, r) /\ r \in ProcRecords
  BY HandFacts
<1>2. r.at \notin Ended
  BY DEF Ended, Saving, Writing
<1>3. CASE r.goal = "migrate"
  <2>1. GoTo(p, "loaded")
    BY <1>3 DEF SaveEnds
  <2>2. "loaded" \in Steps \ {"journal", "apply", "stamp", "save", "look"}
          /\ "loaded" \notin Saving
    BY DEF Steps, Saving, Writing, Updating
  <2> QED BY <1>2, <2>1, <2>2, GoToHand
<1>4. CASE r.goal # "migrate"
  <2> DEFINE how == IF ok \/ Job(p) \notin {"update", "get"} THEN "done" ELSE "failed"
             image == IF Job(p) = "frame" THEN r.out ELSE r.mem
  <2>1. End(p, how, image, FALSE)
    BY <1>4 DEF SaveEnds
  <2>2. Fresh(r)
    BY <1>1, <1>4 DEF Fresh, ProcRecords
  <2>3. /\ r.mem # None => True(World, r.mem) /\ AsNew(r.mem, r)
        /\ r.out # None => True(World, r.out) /\ AsNew(r.out, r)
    BY <1>1, <1>2, <2>2 DEF HandOK, MemOK, OutOK
  <2>4. how \in Ended /\ image \in Images \union {None} /\ FALSE \in BOOLEAN
    BY <1>1 DEF Ended, ProcRecords
  <2>5. image # None => True(World, image) /\ AsNew(image, r)
    BY <2>3
  <2> HIDE DEF how, image
  <2> QED BY <2>1, <2>4, <2>5, EndHand
<1> QED BY <1>3, <1>4

LEMMA CurCreateKey ==
    ASSUME CacheInv, CurrentInv, NEW p \in Process, CreateKey(p)
    PROVE  CurrentInv'
<1>1. UNCHANGED envVars /\ spent' = spent /\ proc[p].at \notin Ended
        /\ proc[p].at \in Saving
  BY DEF CreateKey, NoFault, Ended, Saving
<1>2. CASE ~Exists("key")
  <2>1. CreateFile(p, "key") /\ GoTo(p, "writekey")
    BY <1>2 DEF CreateKey
  <2>2. "writekey" \in Steps \ {"journal", "apply", "stamp", "save", "look"}
    BY DEF Steps, Saving
  <2> QED BY <1>1, <2>1, <2>2, FilesCreated, GoToHand
<1>3. CASE Exists("key")
  <2>1. FilesTrue(World, files')
    BY <1>3, FilesSame DEF CreateKey
  <2>2. CASE proc[p].goal = "load"
    <3>1. LoadFailed(p)
      BY <1>3, <2>2 DEF CreateKey
    <3> QED BY <1>1, <2>1, <3>1, LoadFailedHand
  <2>3. CASE proc[p].goal # "load"
    <3>1. SaveEnds(p, FALSE)
      BY <1>3, <2>3 DEF CreateKey
    <3> QED BY <1>1, <2>1, <2>3, <3>1, SaveEndsHand
  <2> QED BY <2>2, <2>3
<1> QED BY <1>2, <1>3

LEMMA CurWriteKey ==
    ASSUME CacheInv, CurrentInv, NEW p \in Process, WriteKey(p)
    PROVE  CurrentInv'
<1>1. UNCHANGED envVars /\ spent' = spent /\ proc[p].at \in Saving
        /\ proc[p].at = "writekey" /\ WritePart(p, 1, NewKey(p)) /\ HaveKey(p, NewKey(p))
  BY DEF WriteKey, NoFault, Saving
<1>2. NewKey(p) \in MadeKeys
  BY OwnFacts DEF NewKey, MadeKeys, ProcRecords
<1>3. OwnOK(p, proc[p], handle[p], lock[p])
  BY DEF CacheInv, OwnInv
<1>4. handle[p] \in {NoFile, "key"}
  BY <1>1, <1>3 DEF OwnOK, HandleOK, Writing, Wiping
<1>5. FilesTrue(World, files')
  <2>1. CASE handle[p] = NoFile
    BY <1>1, <2>1, FilesSame DEF WritePart
  <2>2. CASE handle[p] = "key"
    BY <1>1, <2>2, FilesWritten
  <2> QED BY <1>4, <2>1, <2>2
<1> QED BY <1>1, <1>2, <1>5, HaveKeyHand

LEMMA CurLockToSave ==
    ASSUME CacheInv, CurrentInv, NEW p \in Process, LockToSave(p)
    PROVE  CurrentInv'
<1> DEFINE r == proc[p]
           v == proc'[p]
<1>1. UNCHANGED envVars /\ spent' = spent /\ FilesTrue(World, files') /\ r.at = "save"
        /\ r.at \notin Ended
  BY FilesRemoved DEF LockToSave, NoFault, CleanupStaleTemps, Ended
<1>2. HandOK(World, spent', Job(p), plan.readOnly, r) /\ r \in ProcRecords
        /\ proc \in [Process -> ProcRecords]
  BY <1>1, HandFacts
<1>3. CASE SaveEnds(p, FALSE)
  BY <1>1, <1>3, SaveEndsHand
<1>4. CASE proc' = [proc EXCEPT ![p].at = "key", ![p].goal = "save"]
  <2>1. /\ v \in ProcRecords /\ v.at = "key" /\ v.goal = "save" /\ v.mem = r.mem
        /\ v.buf = r.buf /\ v.out = r.out /\ v.asIs = r.asIs /\ v.seen = r.seen
        /\ v.began = r.began /\ v.before = r.before
    BY <1>2, <1>4 DEF ProcRecords, Steps, Saving
  <2>2. \A q \in Process \ {p} : proc'[q] = proc[q]
    BY <1>2, <1>4
  <2> HIDE DEF v
  <2>3. QueryOK(World, spent', Job(p), v) /\ BatchOK(World, v)
    BY <2>1 DEF QueryOK, BatchOK
  <2>4. Fresh(r)
    BY <1>1 DEF Fresh
  <2>5. MemOK(World, v)
    BY <1>2, <2>1, <2>4 DEF HandOK, MemOK, AsNew
  <2>6. v.seen.upto <= Len(hist)
    BY <1>2, <2>1 DEF HandOK, World
  <2> QED BY <1>1, <2>1, <2>2, <2>3, <2>5, <2>6, NewHandStep DEF v
<1> QED BY <1>3, <1>4 DEF LockToSave

(* Who writes a cache has something to save.                               *)
LEMMA WriterFacts ==
    ASSUME CacheInv, CurrentInv, NEW p \in Process, proc[p].at \in Writing \union {"create"}
    PROVE  /\ proc[p].at \in Saving /\ proc[p].goal # "load" /\ proc[p].at \notin Ended
           /\ Sealed(p) \in TrueHalves(World)
<1>1. ImageOK(p, proc[p]) /\ proc[p] \in ProcRecords
  BY OwnFacts
<1>2. proc[p].at \in Saving /\ proc[p].goal # "load" /\ proc[p].at \notin Ended
  BY <1>1 DEF ImageOK, Saving, Writing, Ended
<1>3. proc[p].mem \in Images /\ proc[p].key \in MadeKeys
  BY <1>1, <1>2 DEF ImageOK
<1>4. True(World, proc[p].mem)
  BY <1>3, HalvesAssumption DEF CurrentInv, Hand, HandOK, MemOK
<1>5. <<p, proc[p].goal>> \in MadeKeys
  BY <1>1 DEF MadeKeys, ProcRecords
<1>6. Sealed(p) \in Seals /\ Sealed(p).image = proc[p].mem
  BY <1>3, <1>5 DEF Sealed, Seal, Seals
<1> QED BY <1>2, <1>4, <1>6 DEF TrueHalves

LEMMA CurCreateTemp ==
    ASSUME CacheInv, CurrentInv, NEW p \in Process, CreateTemp(p)
    PROVE  CurrentInv'
<1>1. UNCHANGED envVars /\ spent' = spent /\ proc[p].at = "create"
  BY DEF CreateTemp, NoFault
<1>2. proc[p].at \in Saving /\ proc[p].goal # "load" /\ proc[p].at \notin Ended
  BY <1>1, WriterFacts
<1>3. CASE CreateFile(p, TempPath(p)) /\ GoTo(p, "write1")
  <2>1. "write1" \in Steps \ {"journal", "apply", "stamp", "save", "look"}
    BY DEF Steps, Saving, Writing
  <2> QED BY <1>1, <1>2, <1>3, <2>1, FilesCreated, GoToHand
<1>4. CASE SaveEnds(p, FALSE) /\ UNCHANGED <<files, handle>>
  BY <1>1, <1>2, <1>4, FilesSame, SaveEndsHand
<1> QED BY <1>3, <1>4 DEF CreateTemp

LEMMA CurWriteTemp ==
    ASSUME CacheInv, CurrentInv, NEW p \in Process, WriteTemp(p)
    PROVE  CurrentInv'
<1>1. UNCHANGED envVars /\ spent \subseteq spent' /\ proc[p].at \in {"write1", "write2"}
  BY DEF WriteTemp, NoFault, Fault
<1>2. /\ proc[p].at \in Saving /\ proc[p].goal # "load" /\ proc[p].at \notin Ended
      /\ Sealed(p) \in TrueHalves(World)
  BY <1>1, WriterFacts DEF Writing
<1>3. CASE AbandonTemp(p) /\ Fault("write")
  <2>1. FilesTrue(World, files')
    BY <1>3, FilesSame, FilesRemoved DEF AbandonTemp
  <2>2. SaveEnds(p, FALSE)
    BY <1>3 DEF AbandonTemp
  <2> QED BY <1>1, <1>2, <2>1, <2>2, SaveEndsHand
<1>4. CASE /\ WritePart(p, IF proc[p].at = "write1" THEN 1 ELSE 2, Sealed(p))
           /\ GoTo(p, IF proc[p].at = "write1" THEN "write2" ELSE "rename")
  <2>1. PICK i \in {1, 2}, step \in {"write2", "rename"} :
          WritePart(p, i, Sealed(p)) /\ GoTo(p, step)
    BY <1>4
  <2>2. step \in Steps \ {"journal", "apply", "stamp", "save", "look"} /\ i \in Nat \ {0}
    BY DEF Steps, Saving, Writing
  <2>3. FilesTrue(World, files')
    BY <1>2, <2>1, <2>2, FilesWritten
  <2> QED BY <1>1, <1>2, <2>1, <2>2, <2>3, GoToHand
<1> QED BY <1>3, <1>4 DEF WriteTemp

LEMMA CurRenameTemp ==
    ASSUME CacheInv, CurrentInv, NEW p \in Process, RenameTemp(p)
    PROVE  CurrentInv'
<1>1. UNCHANGED envVars /\ spent' = spent /\ proc[p].at = "rename"
  BY DEF RenameTemp, NoFault
<1>2. proc[p].at \in Saving /\ proc[p].goal # "load"
  BY <1>1, WriterFacts DEF Writing
<1>3. TempPath(p) \in FileNames \ {"key"} /\ CacheFile(p) \in FileNames \ {"key"}
  BY NamesAssumption DEF TempPath, CacheFile, FileNames
<1>4. FilesTrue(World, files')
  BY <1>3, FilesSame, FilesRenamed DEF RenameTemp
<1>5. PICK ok \in BOOLEAN : SaveEnds(p, ok)
  BY DEF RenameTemp
<1> QED BY <1>1, <1>2, <1>4, <1>5, SaveEndsHand

-----------------------------------------------------------------------------
(* Removal, and crashes.                                                   *)

LEMMA EndEmpty ==
    ASSUME CacheInv, CurrentInv, NEW p \in Process, UNCHANGED envVars,
           spent \subseteq spent', FilesTrue(World, files'),
           NEW how \in Ended, End(p, how, None, FALSE)
    PROVE  CurrentInv'
BY EndHand

LEMMA CurFindCached ==
    ASSUME CacheInv, CurrentInv, NEW p \in Process, FindCached(p)
    PROVE  CurrentInv'
<1>1. UNCHANGED envVars /\ spent' = spent /\ FilesTrue(World, files')
        /\ proc[p].at \notin Ended
  BY FilesRemoved DEF FindCached, NoFault, CleanupStaleTemps, Ended
<1>2. "open" \in Steps \ {"journal", "apply", "stamp", "save", "look"} /\ "open" \notin Saving
        /\ "done" \in Ended
  BY DEF Steps, Saving, Writing, Ended
<1> QED BY <1>1, <1>2, GoToHand, EndEmpty DEF FindCached

LEMMA CurOpenToWipe ==
    ASSUME CacheInv, CurrentInv, NEW p \in Process, OpenToWipe(p)
    PROVE  CurrentInv'
<1>1. UNCHANGED envVars /\ spent' = spent /\ FilesTrue(World, files')
        /\ proc[p].at \notin Ended
  BY FilesSame DEF OpenToWipe, NoFault, OpenFile, Ended
<1>2. PICK step \in {"wipe1", "unlock"} : GoTo(p, step)
  BY DEF OpenToWipe
<1>3. step \in Steps \ {"journal", "apply", "stamp", "save", "look"} /\ step \notin Saving
  BY DEF Steps, Wiping, Saving, Writing
<1> QED BY <1>1, <1>2, <1>3, GoToHand

LEMMA CurWipe ==
    ASSUME CacheInv, CurrentInv, NEW p \in Process, Wipe(p)
    PROVE  CurrentInv'
<1>1. UNCHANGED envVars /\ spent' = spent /\ proc[p].at \notin Ended
  BY DEF Wipe, NoFault, Ended
<1>2. PICK i \in {1, 2}, step \in {"wipe2", "unlink"} : WritePart(p, i, Blank) /\ GoTo(p, step)
  BY DEF Wipe
<1>3. step \in Steps \ {"journal", "apply", "stamp", "save", "look"} /\ step \notin Saving
  BY DEF Steps, Wiping, Saving, Writing
<1>4. FilesTrue(World, files')
  BY <1>2, FilesWritten DEF TrueHalves
<1> QED BY <1>1, <1>2, <1>3, <1>4, GoToHand

LEMMA CurUnlink ==
    ASSUME CacheInv, CurrentInv, NEW p \in Process, Unlink(p)
    PROVE  CurrentInv'
<1>1. UNCHANGED envVars /\ spent' = spent /\ FilesTrue(World, files')
        /\ proc[p].at \notin Ended
  BY FilesRemoved DEF Unlink, NoFault, Ended
<1>2. "unlock" \in Steps \ {"journal", "apply", "stamp", "save", "look"}
        /\ "unlock" \notin Saving
  BY DEF Steps, Saving, Writing
<1> QED BY <1>1, <1>2, GoToHand DEF Unlink

LEMMA CurRemoveLock ==
    ASSUME CacheInv, CurrentInv, NEW p \in Process, RemoveLock(p)
    PROVE  CurrentInv'
<1>1. UNCHANGED envVars /\ spent' = spent /\ "done" \in Ended
        /\ End(p, "done", None, FALSE)
  BY DEF RemoveLock, NoFault, Ended
<1>2. FilesTrue(World, files')
  BY FilesSame, FilesRemoved DEF RemoveLock
<1> QED BY <1>1, <1>2, EndEmpty

(* A process that dies keeps what it had, and has no more use for it.      *)
LEMMA DeadHand ==
    ASSUME NEW w, NEW s, NEW job, NEW readOnly, NEW r, HandOK(w, s, job, readOnly, r)
    PROVE  HandOK(w, s, job, readOnly, [r EXCEPT !.at = "dead"])
<1> DEFINE v == [r EXCEPT !.at = "dead"]
<1>1. r \in ProcRecords /\ "dead" \in Steps
  BY DEF HandOK, Steps, Ended
<1>2. /\ v \in ProcRecords /\ v.at = "dead" /\ v.goal = r.goal /\ v.mem = r.mem
      /\ v.buf = r.buf /\ v.out = r.out /\ v.asIs = r.asIs /\ v.seen = r.seen
      /\ v.began = r.began /\ v.before = r.before
  BY <1>1 DEF ProcRecords
<1> HIDE DEF v
<1>3. QueryOK(w, s, job, v) /\ BatchOK(w, v)
  BY <1>2 DEF QueryOK, BatchOK
<1>4. MemOK(w, v)
  BY <1>2 DEF HandOK, MemOK, Fresh, Saving, Writing
<1>5. OutOK(w, s, job, readOnly, v)
  BY <1>2 DEF HandOK, OutOK, AsNew, MayServe, LostSince, Ended
<1>6. HandOK(w, s, job, readOnly, v)
  BY <1>2, <1>3, <1>4, <1>5 DEF HandOK
<1> QED BY <1>6 DEF v

LEMMA CurCrash ==
    ASSUME CacheInv, CurrentInv, NEW p \in Process, Crash(p)
    PROVE  CurrentInv'
<1>1. UNCHANGED envVars /\ spent \subseteq spent' /\ files' = files
  BY DEF Crash, Fault
<1>2. World' = World /\ plan' = plan /\ \A q : Job(q)' = Job(q)
  BY <1>1, WorldSame
<1>3. ASSUME NEW q \in Process PROVE Hand(q)'
  <2>1. HandOK(World, spent', Job(q), plan.readOnly, proc[q])
    BY <1>1, HandFacts
  <2>2. proc'[q] = proc[q] \/ proc'[q] = [proc[q] EXCEPT !.at = "dead"]
    BY DEF Crash
  <2>3. HandOK(World, spent', Job(q), plan.readOnly, proc'[q])
    BY <2>1, <2>2, DeadHand
  <2> QED BY <1>2, <2>3 DEF Hand
<1>4. FilesTrue(World, files)' /\ JournalOK(World)'
  BY <1>1, <1>2 DEF CurrentInv
<1> QED BY <1>3, <1>4 DEF CurrentInv

-----------------------------------------------------------------------------
(* Reading the volume.                                                     *)

(* What was just read is true; and no journal has the id 0.                *)
LEMMA ScanTrue ==
    ASSUME JournalOK(World)
    PROVE  /\ True(World, ScanImage(vol, Len(hist)))
           /\ ScanImage(vol, Len(hist)).gaps = {}
<1> DEFINE image == ScanImage(vol, Len(hist))
<1>1. /\ vol \in [Files -> Names \union {Absent}] /\ hist \in Seq(Files) /\ Len(hist) \in Nat
      /\ journal.id \in Nat /\ journal.id # 0
      /\ World.vol = vol /\ World.hist = hist /\ World.journal = journal
  BY DEF JournalOK, World
<1>2. image \in Images
  BY <1>1, ScannedImage
<1>3. ASSUME NEW f \in Files PROVE Agrees(image.recs[f], vol[f])
  <2>1. image.recs[f] = IF vol[f] = Absent THEN NoRecord
                        ELSE [live |-> TRUE, names |-> <<vol[f]>>]
    BY DEF ScanImage
  <2>2. CASE vol[f] = Absent
    BY <2>1, <2>2 DEF Agrees, NoRecord
  <2>3. CASE vol[f] # Absent
    <3>1. vol[f] \in ToSet(<<vol[f]>>)
      BY DEF ToSet
    <3>2. image.recs[f].live = TRUE /\ image.recs[f].names = <<vol[f]>>
      BY <2>1, <2>3
    <3> QED BY <2>3, <3>1, <3>2 DEF Agrees
  <2> QED BY <2>2, <2>3
<1>4. image.jid = 0 /\ image.upto = Len(hist) /\ image.gaps = {}
  BY DEF ScanImage
<1> HIDE DEF image
<1>5. True(World, image)
  BY <1>1, <1>2, <1>3, <1>4 DEF True
<1> QED BY <1>4, <1>5 DEF image

LEMMA ChangedIsSince ==
    ASSUME hist \in Seq(Files), NEW n \in Nat, n <= Len(hist)
    PROVE  ToSet(SubSeq(hist, n + 1, Len(hist))) = Since(World, n)
<1> DEFINE part == SubSeq(hist, n + 1, Len(hist))
<1>1. Len(hist) \in Nat /\ World.hist = hist
  BY DEF World
<1>2. Len(part) = Len(hist) - n /\ DOMAIN part = 1 .. Len(hist) - n
        /\ \A i \in 1 .. Len(hist) - n : part[i] = hist[n + i]
  BY <1>1
<1> HIDE DEF part
<1>3. ASSUME NEW f \in ToSet(part) PROVE f \in Since(World, n)
  <2>1. PICK i \in DOMAIN part : f = part[i]
    BY <1>3 DEF ToSet
  <2>2. n + i \in n + 1 .. Len(hist) /\ f = hist[n + i]
    BY <1>1, <1>2, <2>1
  <2> QED BY <1>1, <2>2 DEF Since
<1>4. ASSUME NEW f \in Since(World, n) PROVE f \in ToSet(part)
  <2>1. PICK k \in n + 1 .. Len(hist) : f = hist[k]
    BY <1>1, <1>4 DEF Since
  <2>2. k - n \in DOMAIN part /\ n + (k - n) = k
    BY <1>1, <1>2, <2>1
  <2> QED BY <1>2, <2>1, <2>2 DEF ToSet
<1> QED BY <1>3, <1>4 DEF part

(* A checkpoint taken late is true of all but what changed in between.     *)
LEMMA StampTrue ==
    ASSUME JournalOK(World), NEW image, True(World, image), image.gaps = {}
    PROVE  True(World, Stamped(image)) /\ Stamped(image).upto = Len(hist)
<1> DEFINE stamped == Stamped(image)
<1>1. /\ hist \in Seq(Files) /\ Len(hist) \in Nat
      /\ journal \in [id : Nat, first : Nat, log : Seq(Entries)]
      /\ World.vol = vol /\ World.hist = hist /\ World.journal = journal
  BY DEF JournalOK, World
<1>2. image \in Images /\ image.upto \in Nat /\ image.upto <= Len(hist)
  BY <1>1 DEF True, Images
<1>3. stamped \in Images
  BY <1>1, <1>2, StampedImage
<1>4. /\ stamped.recs = image.recs /\ stamped.jid = journal.id
      /\ stamped.next = JournalNext(journal) /\ stamped.upto = Len(hist)
      /\ stamped.gaps = Since(World, image.upto)
  BY <1>1, <1>2, ChangedIsSince DEF Stamped, Images
<1>5. JournalNext(journal) \in Nat /\ journal.id \in Nat
  BY <1>1 DEF JournalNext
<1> HIDE DEF stamped
<1>6. InStep(World, stamped.next, stamped.upto)
  BY <1>1, <1>4, <1>5 DEF InStep
<1>7. True(World, stamped)
  BY <1>1, <1>3, <1>4, <1>5, <1>6 DEF True
<1> QED BY <1>4, <1>7 DEF stamped

LEMMA CurScanVolume ==
    ASSUME CacheInv, CurrentInv, NEW p \in Process, ScanVolume(p)
    PROVE  CurrentInv'
<1> DEFINE r == proc[p]
           v == proc'[p]
           image == ScanImage(vol, Len(hist))
<1>1. UNCHANGED envVars /\ spent \subseteq spent' /\ FilesTrue(World, files')
        /\ r.at \notin Ended
  BY FilesSame DEF ScanVolume, NoFault, Fault, fileVars, Ended
<1>2. HandOK(World, spent', Job(p), plan.readOnly, r) /\ r \in ProcRecords
        /\ proc \in [Process -> ProcRecords]
  BY <1>1, HandFacts
<1>3. True(World, image) /\ image.gaps = {}
  BY ScanTrue DEF CurrentInv
<1>4. image \in Images /\ << >> \in Seq(Halves) /\ << >> \in Seq(TrueHalves(World))
  BY <1>3 DEF True
<1> HIDE DEF image
<1>5. CASE proc' = [proc EXCEPT ![p].at = "stamp", ![p].buf = << >>, ![p].mem = image]
  <2>1. /\ v \in ProcRecords /\ v.at = "stamp" /\ v.mem = image
        /\ v.buf = << >> /\ v.out = r.out /\ v.asIs = r.asIs /\ v.seen = r.seen
        /\ v.began = r.began /\ v.before = r.before
    BY <1>2, <1>4, <1>5 DEF ProcRecords, Steps, Updating
  <2>2. \A q \in Process \ {p} : proc'[q] = proc[q]
    BY <1>2, <1>5
  <2> HIDE DEF v
  <2>3. QueryOK(World, spent', Job(p), v) /\ BatchOK(World, v)
    BY <2>1 DEF QueryOK, BatchOK
  <2>4. AsNew(image, v)
    BY DEF AsNew, image, ScanImage
  <2>5. MemOK(World, v)
    BY <1>3, <1>4, <2>1, <2>4 DEF MemOK
  <2>6. v.seen.upto <= Len(hist)
    BY <1>2, <2>1 DEF HandOK, World
  <2> QED BY <1>1, <2>1, <2>2, <2>3, <2>5, <2>6, NewHandStep DEF v
<1>6. CASE End(p, "failed", None, FALSE)
  BY <1>1, <1>6, EndEmpty DEF Ended
<1> QED BY <1>5, <1>6 DEF ScanVolume, image

(* An image as new as the request is answered with, or saved, or both.     *)
LEMMA ToSaveHand ==
    ASSUME CacheInv, CurrentInv, NEW p \in Process, UNCHANGED envVars,
           spent \subseteq spent', FilesTrue(World, files'), proc[p].at \notin Ended,
           NEW image, True(World, image), AsNew(image, proc[p]), ToSave(p, image)
    PROVE  CurrentInv'
<1> DEFINE r == proc[p]
           v == proc'[p]
           out == IF Job(p) = "frame" THEN image ELSE None
<1>1. HandOK(World, spent', Job(p), plan.readOnly, r) /\ r \in ProcRecords
        /\ proc \in [Process -> ProcRecords] /\ image \in Images
  BY HandFacts DEF True
<1>2. out \in Images \union {None} /\ (out # None => out = image)
  BY <1>1
<1> HIDE DEF out
<1>3. CASE Job(p) \in {"frame", "flow"}
  <2>1. proc' = [proc EXCEPT ![p].at = "key", ![p].goal = "save", ![p].mem = image,
                             ![p].out = out]
    BY <1>3 DEF ToSave, out
  <2>2. /\ v \in ProcRecords /\ v.at = "key" /\ v.goal = "save" /\ v.mem = image
        /\ v.buf = r.buf /\ v.out = out /\ v.asIs = r.asIs /\ v.seen = r.seen
        /\ v.began = r.began /\ v.before = r.before
    BY <1>1, <1>2, <2>1 DEF ProcRecords, Steps, Saving
  <2>3. \A q \in Process \ {p} : proc'[q] = proc[q]
    BY <1>1, <2>1
  <2> HIDE DEF v
  <2>4. QueryOK(World, spent', Job(p), v) /\ BatchOK(World, v)
    BY <2>2 DEF QueryOK, BatchOK
  <2>5. AsNew(image, v)
    BY <2>2 DEF AsNew
  <2>6. MemOK(World, v)
    BY <1>1, <2>2, <2>5 DEF MemOK, HandOK
  <2>7. OutOK(World, spent', Job(p), plan.readOnly, v)
    BY <1>1, <1>2, <2>2, <2>5 DEF HandOK, OutOK
  <2>8. HandOK(World, spent', Job(p), plan.readOnly, v)
    BY <1>1, <2>2, <2>4, <2>6, <2>7 DEF HandOK
  <2> QED BY <2>3, <2>8, HandStep DEF v
<1>4. CASE Job(p) \notin {"frame", "flow"}
  <2>1. proc' = [proc EXCEPT ![p].at = "save", ![p].mem = image]
    BY <1>4 DEF ToSave
  <2>2. /\ v \in ProcRecords /\ v.at = "save" /\ v.mem = image
        /\ v.buf = r.buf /\ v.out = r.out /\ v.asIs = r.asIs /\ v.seen = r.seen
        /\ v.began = r.began /\ v.before = r.before
    BY <1>1, <2>1 DEF ProcRecords, Steps, Updating
  <2>3. \A q \in Process \ {p} : proc'[q] = proc[q]
    BY <1>1, <2>1
  <2> HIDE DEF v
  <2>4. QueryOK(World, spent', Job(p), v) /\ BatchOK(World, v)
    BY <2>2 DEF QueryOK, BatchOK
  <2>5. AsNew(image, v)
    BY <2>2 DEF AsNew
  <2>6. MemOK(World, v)
    BY <1>1, <2>2, <2>5 DEF MemOK, HandOK
  <2>7. v.seen.upto <= Len(hist)
    BY <1>1, <2>2 DEF HandOK, World
  <2> QED BY <2>2, <2>3, <2>4, <2>6, <2>7, NewHandStep DEF v
<1> QED BY <1>3, <1>4

LEMMA CurStampCheckpoint ==
    ASSUME CacheInv, CurrentInv, NEW p \in Process, StampCheckpoint(p)
    PROVE  CurrentInv'
<1> DEFINE r == proc[p]
<1>1. UNCHANGED envVars /\ spent \subseteq spent' /\ r.at = "stamp" /\ r.at \notin Ended
  BY DEF StampCheckpoint, NoFault, Fault, Ended
<1>2. FilesTrue(World, files')
  BY FilesSame, FilesRemoved DEF StampCheckpoint, CleanupStaleTemps
<1>3. HandOK(World, spent', Job(p), plan.readOnly, r)
  BY <1>1, HandFacts
<1>4. r.mem \in Images /\ r.mem # None
  BY <1>1, OwnFacts, HalvesAssumption DEF ImageOK, Updating
<1>5. True(World, r.mem) /\ r.mem.gaps = {} /\ AsNew(r.mem, r)
  BY <1>1, <1>3, <1>4 DEF HandOK, MemOK, Fresh
<1>6. CASE ToSave(p, Stamped(r.mem))
  <2>1. True(World, Stamped(r.mem)) /\ Stamped(r.mem).upto = Len(hist)
    BY <1>5, StampTrue DEF CurrentInv
  <2>2. r.began <= Len(hist)
    BY <1>3 DEF HandOK, World
  <2>3. hist \in Seq(Files) /\ r \in ProcRecords
    BY <1>3 DEF CacheInv, Typed, HandOK
  <2>4. AsNew(Stamped(r.mem), r)
    BY <2>1, <2>2, <2>3 DEF AsNew, ProcRecords
  <2> QED BY <1>1, <1>2, <1>6, <2>1, <2>4, ToSaveHand
<1>7. CASE ToSave(p, r.mem)
  BY <1>1, <1>2, <1>5, <1>7, ToSaveHand
<1>8. CASE End(p, "failed", None, FALSE)
  BY <1>1, <1>2, <1>8, EndEmpty DEF Ended
<1> QED BY <1>6, <1>7, <1>8 DEF StampCheckpoint

LEMMA CurPersist ==
    ASSUME CacheInv, CurrentInv, NEW p \in Process, Persist(p)
    PROVE  CurrentInv'
<1> DEFINE r == proc[p]
           v == proc'[p]
           image == Stamped(ScanImage(vol, Len(hist)))
<1>1. UNCHANGED envVars /\ spent' = spent /\ FilesTrue(World, files') /\ r.at \notin Ended
  BY FilesSame DEF Persist, NoFault, fileVars, Ended
<1>2. HandOK(World, spent', Job(p), plan.readOnly, r) /\ r \in ProcRecords
        /\ proc \in [Process -> ProcRecords]
  BY <1>1, HandFacts
<1>3. True(World, image) /\ image.upto = Len(hist)
  BY ScanTrue, StampTrue DEF CurrentInv
<1>4. image \in Images
  BY <1>3 DEF True
<1> HIDE DEF image
<1>5. proc' = [proc EXCEPT ![p].at = "key", ![p].goal = "save", ![p].mem = image]
  BY DEF Persist, image
<1>6. /\ v \in ProcRecords /\ v.at = "key" /\ v.goal = "save" /\ v.mem = image
      /\ v.buf = r.buf /\ v.out = r.out /\ v.asIs = r.asIs /\ v.seen = r.seen
      /\ v.began = r.began /\ v.before = r.before
  BY <1>2, <1>4, <1>5 DEF ProcRecords, Steps, Saving
<1>7. \A q \in Process \ {p} : proc'[q] = proc[q]
  BY <1>2, <1>5
<1> HIDE DEF v
<1>8. QueryOK(World, spent', Job(p), v) /\ BatchOK(World, v)
  BY <1>6 DEF QueryOK, BatchOK
<1>9. AsNew(image, v)
  <2>1. r.began <= Len(hist)
    BY <1>2 DEF HandOK, World
  <2>2. r.began \in Nat /\ hist \in Seq(Files)
    BY <1>2 DEF CacheInv, Typed, ProcRecords
  <2> QED BY <1>3, <1>6, <2>1, <2>2 DEF AsNew
<1>10. MemOK(World, v)
  BY <1>2, <1>3, <1>6, <1>9 DEF MemOK, HandOK
<1>11. v.seen.upto <= Len(hist)
  BY <1>2, <1>6 DEF HandOK, World
<1> QED BY <1>1, <1>6, <1>7, <1>8, <1>10, <1>11, NewHandStep DEF v

-----------------------------------------------------------------------------
(* What the journal tells.                                                 *)

LEMMA AnswerHand ==
    ASSUME CacheInv, CurrentInv, NEW p \in Process, UNCHANGED <<fileVars, envVars>>,
           spent \subseteq spent', proc[p].at \in {"query", "journal"},
           NEW next \in {"asis", "current", "scan", "journal"}, Answer(p, next),
           next = "asis" => MayServe(Job(p), plan.readOnly, spent', proc[p]),
           next = "current" => AsNew(proc[p].mem, proc[p]),
           next = "journal" =>
             /\ proc[p].mem.jid \in {0, journal.id}
             /\ proc[p].mem.next >= journal.first \/ Job(p) # "cached"
    PROVE  CurrentInv'
<1> DEFINE r == proc[p]
           v == proc'[p]
<1>1. UNCHANGED envVars /\ FilesTrue(World, files') /\ r.at \notin Ended
  BY FilesSame DEF fileVars, Ended
<1>2. HandOK(World, spent', Job(p), plan.readOnly, r) /\ r \in ProcRecords
        /\ proc \in [Process -> ProcRecords]
  BY HandFacts
<1>3. r.mem \in Images /\ r.mem # None
  BY OwnFacts, HalvesAssumption DEF ImageOK, Updating
<1>4. True(World, r.mem) /\ "done" \in Ended /\ TRUE \in BOOLEAN /\ FALSE \in BOOLEAN
  BY <1>2, <1>3 DEF HandOK, MemOK, Ended
<1>5. CASE next = "asis"
  BY <1>1, <1>3, <1>4, <1>5, EndHand DEF Answer
<1>6. CASE next = "current"
  BY <1>1, <1>3, <1>4, <1>6, EndHand DEF Answer
<1>7. CASE next = "scan"
  <2>1. GoTo(p, "scan")
    BY <1>7 DEF Answer
  <2>2. "scan" \in Steps \ {"journal", "apply", "stamp", "save", "look"} /\ "scan" \notin Saving
    BY DEF Steps, Saving, Writing
  <2> QED BY <1>1, <2>1, <2>2, GoToHand
<1>8. CASE next = "journal"
  <2> DEFINE id == journal.id
  <2>1. id \in Nat /\ id # 0 /\ World.journal = journal
    BY DEF CurrentInv, JournalOK, World
  <2>2. proc' = [proc EXCEPT ![p].at = "journal", ![p].seen.id = id]
    BY <1>8 DEF Answer
  <2> HIDE DEF id
  <2>3. r.seen \in [id : Nat, next : Nat, upto : Nat]
    BY <1>2 DEF ProcRecords
  <2>4. v = [r EXCEPT !.at = "journal", !.seen = [r.seen EXCEPT !.id = id]]
    BY <1>2, <2>2 DEF ProcRecords
  <2> DEFINE seen == [r.seen EXCEPT !.id = id]
  <2>5. seen \in [id : Nat, next : Nat, upto : Nat] /\ seen.id = id /\ seen.upto = r.seen.upto
    BY <2>1, <2>3
  <2> HIDE DEF seen
  <2> DEFINE u == [r EXCEPT !.at = "journal", !.seen = seen]
  <2>6. v = u
    BY <2>4 DEF seen
  <2>13. /\ u \in ProcRecords /\ u.at = "journal" /\ u.mem = r.mem
         /\ u.buf = r.buf /\ u.out = r.out /\ u.asIs = r.asIs /\ u.seen = seen
         /\ u.began = r.began /\ u.before = r.before
    <3>1. "journal" \in Steps
      BY DEF Steps, Updating
    <3> HIDE DEF v
    <3> QED BY <1>2, <2>5, <3>1 DEF ProcRecords
  <2> HIDE DEF u
  <2>7. /\ v \in ProcRecords /\ v.at = "journal" /\ v.mem = r.mem
        /\ v.buf = r.buf /\ v.out = r.out /\ v.asIs = r.asIs /\ v.seen = seen
        /\ v.began = r.began /\ v.before = r.before
    BY <2>6, <2>13
  <2>8. \A q \in Process \ {p} : proc'[q] = proc[q]
    BY <1>2, <2>2
  <2> HIDE DEF v
  <2>9. QueryOK(World, spent', Job(p), v)
    <3>1. id <= World.journal.id
      BY <2>1 DEF id
    <3> QED BY <1>3, <1>8, <2>1, <2>5, <2>7, <3>1 DEF QueryOK, id
  <2>10. BatchOK(World, v)
    BY <2>7 DEF BatchOK
  <2>11. MemOK(World, v)
    BY <1>2, <2>7 DEF HandOK, MemOK, Fresh, Saving, Writing
  <2>12. v.seen.upto <= Len(hist)
    BY <1>2, <2>5, <2>7 DEF HandOK, World
  <2> QED BY <1>1, <2>7, <2>8, <2>9, <2>10, <2>11, <2>12, NewHandStep DEF v
<1> QED BY <1>5, <1>6, <1>7, <1>8

(* An image whose checkpoint is at the journal's end has seen everything.  *)
LEMMA AtTheEnd ==
    ASSUME CacheInv, CurrentInv, NEW p \in Process, proc[p].mem \in Images, proc[p].mem # None,
           proc[p].mem.jid \in {0, journal.id}, proc[p].mem.next >= JournalNext(journal)
    PROVE  AsNew(proc[p].mem, proc[p])
<1> DEFINE r == proc[p]
<1>1. HandOK(World, spent, Job(p), plan.readOnly, r)
  BY DEF CurrentInv, Hand
<1>2. True(World, r.mem) /\ r.began <= Len(hist) /\ r.began \in Nat
  BY <1>1 DEF HandOK, MemOK, World, ProcRecords
<1>3. r.mem.jid # 0 => InStep(World, r.mem.next, r.mem.upto)
  BY <1>2 DEF True, World
<1>4. hist \in Seq(Files) /\ journal \in [id : Nat, first : Nat, log : Seq(Entries)]
  BY DEF CacheInv, Typed
<1>5. JournalNext(journal) \in Nat /\ Len(hist) \in Nat
  BY <1>4 DEF JournalNext
<1>6. r.mem.next \in Nat /\ r.mem.upto \in Nat /\ r.mem.jid \in Nat
  BY DEF Images
<1>7. r.mem.jid # 0 => r.mem.upto >= Len(hist)
  BY <1>3, <1>5, <1>6 DEF InStep, World
<1> QED BY <1>2, <1>5, <1>6, <1>7 DEF AsNew

LEMMA CurQueryJournal ==
    ASSUME CacheInv, CurrentInv, NEW p \in Process, QueryJournal(p)
    PROVE  CurrentInv'
<1> DEFINE r == proc[p]
<1>1. UNCHANGED <<fileVars, envVars>> /\ spent \subseteq spent' /\ r.at = "query"
        /\ UNCHANGED envVars /\ FilesTrue(World, files')
  BY FilesSame DEF QueryJournal, NoFault, Fault, fileVars
<1>2. r.mem \in Images /\ r.mem # None
  BY <1>1, OwnFacts, HalvesAssumption DEF ImageOK, Updating
<1>3. journal.id \in Nat /\ journal.first \in Nat /\ JournalNext(journal) \in Nat
        /\ r.mem.next \in Nat
  BY <1>2 DEF CacheInv, Typed, Images, JournalNext
<1>4. CASE Job(p) = "cached" /\ Answer(p, NextOfCached(r.mem))
  <2> DEFINE next == NextOfCached(r.mem)
  <2>1. /\ next \in {"scan", "current", "journal"}
        /\ next # "scan" => r.mem.jid \in {0, journal.id} /\ r.mem.next >= journal.first
        /\ next = "current" => r.mem.next >= JournalNext(journal)
    BY <1>3 DEF NextOfCached, ClassifyUsnState, JournalInvalidates
  <2>2. next = "current" => AsNew(r.mem, r)
    BY <1>2, <2>1, AtTheEnd
  <2> HIDE DEF next
  <2>3. Answer(p, next)
    BY <1>4 DEF next
  <2> QED BY <1>1, <2>1, <2>2, <2>3, AnswerHand
<1>5. CASE Job(p) = "update" /\ Answer(p, NextOfUpdate(r.mem))
  <2> DEFINE next == NextOfUpdate(r.mem)
  <2>1. next \in {"scan", "journal"} /\ (next = "journal" => r.mem.jid = journal.id)
    BY DEF NextOfUpdate
  <2> HIDE DEF next
  <2>2. Answer(p, next)
    BY <1>5 DEF next
  <2> QED BY <1>1, <1>5, <2>1, <2>2, AnswerHand
<1>6. CASE Job(p) # "cached" /\ Answer(p, NextOfFlow(r.mem))
  <2> DEFINE next == NextOfFlow(r.mem)
  <2>1. next \in {"asis", "scan"}
    BY DEF NextOfFlow
  <2> HIDE DEF next
  <2>2. Answer(p, next)
    BY <1>6 DEF next
  <2> QED BY <1>1, <1>6, <2>1, <2>2, AnswerHand DEF MayServe
<1>7. CASE (\E next \in {"asis", "scan"} : Answer(p, next)) /\ Fault("query")
  <2>1. PICK next \in {"asis", "scan"} : Answer(p, next)
    BY <1>7
  <2>2. MayServe(Job(p), plan.readOnly, spent', r)
    BY <1>7 DEF Fault, MayServe
  <2> QED BY <1>1, <2>1, <2>2, AnswerHand
<1>8. CASE End(p, "failed", None, FALSE)
  BY <1>1, <1>8, EndEmpty DEF Ended
<1> QED BY <1>4, <1>5, <1>6, <1>7, <1>8 DEF QueryJournal

FromPlace(log, d) == SubSeq(log, d + 1, Len(log))

PartIs(log, d, batch) ==
  /\ batch \in Seq(Entries)
  /\ batch = << >> <=> d >= Len(log)
  /\ \A i \in DOMAIN batch : d + i \in DOMAIN log /\ batch[i] = log[d + i]
  /\ \A k \in DOMAIN log : k > d => k - d \in DOMAIN batch

(* The entries from the checkpoint on.                                     *)
LEMMA PartOfLog ==
    ASSUME NEW log \in Seq(Entries), NEW d \in Nat
    PROVE  PartIs(log, d, FromPlace(log, d))
<1> DEFINE part == SubSeq(log, d + 1, Len(log))
<1> SUFFICES PartIs(log, d, part)
  BY DEF FromPlace
<1>1. Len(log) \in Nat /\ DOMAIN log = 1 .. Len(log) /\ part \in Seq(Entries)
  <2>1. d + 1 \in Nat \ {0} /\ Len(log) \in Nat
    OBVIOUS
  <2> QED BY <2>1, SubSeqProperties
<1>2. CASE d < Len(log)
  <2>1. Len(part) = Len(log) - d /\ DOMAIN part = 1 .. Len(log) - d
          /\ \A i \in 1 .. Len(log) - d : part[i] = log[d + i]
    BY <1>1, <1>2
  <2> HIDE DEF part
  <2>2. part # << >>
    BY <1>1, <1>2, <2>1
  <2> DEFINE n == Len(log)
  <2>3. n \in Nat /\ d < n /\ DOMAIN log = 1 .. n /\ DOMAIN part = 1 .. n - d
          /\ \A i \in 1 .. n - d : part[i] = log[d + i]
    BY <1>1, <1>2, <2>1
  <2> HIDE DEF n
  <2>4. \A i \in DOMAIN part : d + i \in DOMAIN log /\ part[i] = log[d + i]
    BY <2>3
  <2>5. \A k \in DOMAIN log : k > d => k - d \in DOMAIN part
    BY <2>3
  <2>6. part = << >> <=> d >= Len(log)
    BY <1>1, <1>2, <2>2
  <2> QED BY ONLY <1>1, <2>4, <2>5, <2>6 DEF PartIs
<1>3. CASE ~(d < Len(log))
  <2>1. part = << >> /\ d >= Len(log)
    BY <1>1, <1>3
  <2>2. DOMAIN part = {}
    BY <2>1
  <2>3. \A k \in DOMAIN log : ~(k > d)
    BY <1>1, <2>1
  <2> HIDE DEF part
  <2>4. part = << >> <=> d >= Len(log)
    BY <2>1
  <2>5. \A i \in DOMAIN part : d + i \in DOMAIN log /\ part[i] = log[d + i]
    BY ONLY <2>2
  <2>6. \A k \in DOMAIN log : k > d => k - d \in DOMAIN part
    BY ONLY <2>3
  <2> QED BY ONLY <1>1, <2>4, <2>5, <2>6 DEF PartIs
<1> QED BY <1>2, <1>3

LEMMA LastOfPart ==
    ASSUME NEW log \in Seq(Entries), NEW d \in Nat, NEW part,
           part = SubSeq(log, d + 1, Len(log)), NEW i \in DOMAIN part, LastIn(part, i)
    PROVE  LastIn(log, d + i)
<1>1. /\ \A k \in DOMAIN part : d + k \in DOMAIN log /\ part[k] = log[d + k]
      /\ \A k \in DOMAIN log : k > d => k - d \in DOMAIN part
  BY PartOfLog DEF FromPlace, PartIs
<1>2. part \in Seq(Entries) /\ i \in Nat /\ DOMAIN log \subseteq Nat
  BY PartOfLog DEF FromPlace, PartIs
<1>3. ASSUME NEW k \in DOMAIN log, log[k].file = log[d + i].file PROVE k <= d + i
  <2>1. CASE k > d
    <3>1. k - d \in DOMAIN part /\ part[k - d] = log[d + (k - d)] /\ d + (k - d) = k
      BY <1>1, <1>2, <2>1
    <3>2. part[k - d].file = part[i].file
      BY <1>1, <1>3, <3>1
    <3>3. k - d <= i
      BY <3>1, <3>2 DEF LastIn
    <3> QED BY <1>2, <3>3
  <2>2. CASE ~(k > d)
    BY <1>2, <2>2
  <2> QED BY <2>1, <2>2
<1> QED BY <1>3 DEF LastIn

(* The batch that was read covers what the image has not seen.             *)
LEMMA BatchCovers ==
    ASSUME JournalOK(World), NEW image, True(World, image), image.jid \in {0, journal.id},
           image.next >= journal.first, NEW batch,
           batch = ReadUsnJournal(journal, image.next)
    PROVE  /\ batch \in Seq(Entries)
           /\ batch = << >> => image.next >= JournalNext(journal)
           /\ image.jid # 0 =>
                \A k \in image.upto + 1 .. Len(hist) :
                  \E i \in DOMAIN batch : batch[i].file = hist[k]
           /\ \A i \in DOMAIN batch : LastIn(batch, i) => Tells(World, batch[i])
<1> DEFINE log == journal.log
           d == image.next - journal.first
<1>1. /\ hist \in Seq(Files) /\ Len(hist) \in Nat
      /\ log \in Seq(Entries) /\ Len(log) \in Nat /\ Len(log) <= Len(hist)
      /\ journal.first \in Nat
      /\ World.vol = vol /\ World.hist = hist /\ World.journal = journal
      /\ \A i \in DOMAIN log : /\ log[i].file = hist[Len(hist) - Len(log) + i]
                               /\ LastIn(log, i) => Tells(World, log[i])
  BY DEF JournalOK, World
<1>2. image.next \in Nat /\ image.upto \in Nat /\ image.upto <= Len(hist)
        /\ (image.jid # 0 => InStep(World, image.next, image.upto))
  BY <1>1 DEF True, Images
<1>3. d \in Nat /\ image.next - journal.first + 1 = d + 1
  BY <1>1, <1>2
<1>4. batch = SubSeq(log, d + 1, Len(log))
  BY <1>3 DEF ReadUsnJournal
<1>5. image.next = journal.first + d
  BY <1>1, <1>2
<1>6. JournalNext(journal) = journal.first + Len(log)
  BY DEF JournalNext
<1> HIDE DEF log, d
<1>7. /\ batch \in Seq(Entries) /\ (batch = << >> <=> d >= Len(log))
      /\ \A i \in DOMAIN batch : d + i \in DOMAIN log /\ batch[i] = log[d + i]
      /\ \A k \in DOMAIN log : k > d => k - d \in DOMAIN batch
  <2>1. log \in Seq(Entries) /\ d \in Nat
    BY <1>1, <1>3
  <2>2. batch = FromPlace(log, d)
    BY <1>4 DEF FromPlace
  <2>3. PartIs(log, d, batch)
    BY ONLY <2>1, <2>2, PartOfLog
  <2> QED BY <2>3 DEF PartIs
<1>8. batch = << >> => image.next >= JournalNext(journal)
  BY <1>1, <1>3, <1>5, <1>6, <1>7
<1>9. ASSUME image.jid # 0, NEW k \in image.upto + 1 .. Len(hist)
      PROVE  \E i \in DOMAIN batch : batch[i].file = hist[k]
  <2> DEFINE n == Len(log)
             h == Len(hist)
             first == journal.first
             upto == image.upto
             at == k - h + n
  <2>1. /\ n \in Nat /\ h \in Nat /\ first \in Nat /\ upto \in Nat /\ d \in Nat
        /\ (first + d) + h = (first + n) + upto
    BY <1>1, <1>2, <1>3, <1>5, <1>6, <1>9 DEF InStep
  <2>2. k \in Int /\ upto + 1 <= k /\ k <= h
    BY <1>1, <1>2, <1>9
  <2> HIDE DEF n, h, first, upto
  <2>3. d + h = n + upto
    BY <2>1
  <2>4. at > d /\ at <= n /\ at \in Int /\ at - d \in Int /\ h - n + at = k /\ d + (at - d) = at
    BY <2>1, <2>2, <2>3
  <2> HIDE DEF at
  <2>5. at \in DOMAIN log
    <3>1. DOMAIN log = 1 .. n
      BY <1>1 DEF n
    <3> QED BY <1>3, <2>1, <2>4, <3>1
  <2>6. at - d \in DOMAIN batch /\ log[at].file = hist[k]
    BY <1>1, <1>7, <2>4, <2>5 DEF h, n
  <2>7. batch[at - d] = log[d + (at - d)]
    BY <1>7, <2>6
  <2> QED BY <2>4, <2>6, <2>7
<1>10. ASSUME NEW i \in DOMAIN batch, LastIn(batch, i) PROVE Tells(World, batch[i])
  <2>1. LastIn(log, d + i)
    BY <1>1, <1>3, <1>4, <1>10, LastOfPart
  <2> QED BY <1>1, <1>7, <2>1
<1> QED BY <1>7, <1>8, <1>9, <1>10

LEMMA CurReadJournal ==
    ASSUME CacheInv, CurrentInv, NEW p \in Process, ReadJournal(p)
    PROVE  CurrentInv'
<1> DEFINE r == proc[p]
           v == proc'[p]
           got == ReadUsnJournal(journal, r.mem.next)
           unread == IF Job(p) = "cached" THEN "asis" ELSE "scan"
           readable == Readable(journal, r.seen.id, r.mem.next)
<1>1. UNCHANGED <<fileVars, envVars>> /\ spent \subseteq spent' /\ r.at = "journal"
        /\ UNCHANGED envVars /\ FilesTrue(World, files') /\ r.at \notin Ended
  BY FilesSame DEF ReadJournal, NoFault, Fault, fileVars, Ended
<1>2. HandOK(World, spent', Job(p), plan.readOnly, r) /\ r \in ProcRecords
        /\ proc \in [Process -> ProcRecords]
  BY <1>1, HandFacts
<1>3. r.mem \in Images /\ r.mem # None /\ True(World, r.mem)
  BY <1>1, <1>2, OwnFacts, HalvesAssumption DEF ImageOK, Updating, HandOK, MemOK
<1>4. /\ r.mem.jid \in {0, r.seen.id} /\ r.seen.id # 0 /\ r.seen.id <= journal.id
      /\ \/ r.seen.id = journal.id /\ r.mem.next >= journal.first
         \/ LostSince(spent', r) \/ Job(p) # "cached"
  BY <1>1, <1>2 DEF HandOK, QueryOK, World
<1>5. CASE Answer(p, unread) /\ (~readable \/ Fault("journal"))
  <2>1. Job(p) = "cached" => MayServe(Job(p), plan.readOnly, spent', r)
    BY <1>4, <1>5 DEF Readable, MayServe, Fault
  <2>2. unread \in {"asis", "scan"} /\ (unread = "asis" => Job(p) = "cached")
    OBVIOUS
  <2> HIDE DEF unread
  <2>3. Answer(p, unread)
    BY <1>5
  <2> QED BY <1>1, <2>1, <2>2, <2>3, AnswerHand
<1>6. ASSUME readable
      PROVE  /\ got \in Seq(Entries)
             /\ got = << >> => r.mem.next >= JournalNext(journal)
             /\ r.mem.jid # 0 =>
                  \A k \in r.mem.upto + 1 .. Len(hist) :
                    \E i \in DOMAIN got : got[i].file = hist[k]
             /\ \A i \in DOMAIN got : LastIn(got, i) => Tells(World, got[i])
             /\ r.mem.jid \in {0, journal.id} /\ r.seen.id = journal.id
  <2>1. r.seen.id = journal.id /\ r.mem.next >= journal.first
    BY <1>6 DEF Readable
  <2> HIDE DEF got
  <2>2. got = ReadUsnJournal(journal, r.mem.next)
    BY DEF got
  <2>3. JournalOK(World) /\ r.mem.jid \in {0, journal.id}
    BY <1>4, <2>1 DEF CurrentInv
  <2> DEFINE held == r.mem
  <2> HIDE DEF held
  <2>4. /\ True(World, held) /\ held.jid \in {0, journal.id}
        /\ held.next >= journal.first /\ got = ReadUsnJournal(journal, held.next)
    BY <1>3, <2>1, <2>2, <2>3 DEF held
  <2>5. /\ got \in Seq(Entries)
        /\ got = << >> => held.next >= JournalNext(journal)
    BY <2>3, <2>4, BatchCovers
  <2>6. held.jid # 0 =>
          \A k \in held.upto + 1 .. Len(hist) :
            \E i \in DOMAIN got : got[i].file = hist[k]
    BY <2>3, <2>4, BatchCovers
  <2>7. \A i \in DOMAIN got : LastIn(got, i) => Tells(World, got[i])
    BY <2>3, <2>4, BatchCovers
  <2> QED BY <2>1, <2>3, <2>5, <2>6, <2>7 DEF held
<1>7. CASE readable /\ got = << >> /\ Answer(p, "current")
  <2>1. AsNew(r.mem, r)
    BY <1>3, <1>6, <1>7, AtTheEnd
  <2> QED BY <1>1, <1>7, <2>1, AnswerHand
<1>8. CASE readable /\ proc' = [proc EXCEPT ![p].at = "apply", ![p].batch = got,
                                   ![p].seen.next = JournalNext(journal),
                                   ![p].seen.upto = Len(hist)]
  <2> DEFINE next == JournalNext(journal)
             upto == Len(hist)
             seen == [r.seen EXCEPT !.next = next, !.upto = upto]
             u == [r EXCEPT !.at = "apply", !.batch = got, !.seen = seen]
  <2>1. /\ hist \in Seq(Files) /\ upto \in Nat /\ next \in Nat
        /\ journal \in [id : Nat, first : Nat, log : Seq(Entries)]
        /\ World.hist = hist /\ World.journal = journal /\ World.vol = vol
    BY DEF CacheInv, Typed, JournalNext, World
  <2>2. got \in Seq(Entries)
    BY <1>6, <1>8
  <2>3. r.seen \in [id : Nat, next : Nat, upto : Nat]
    BY <1>2 DEF ProcRecords
  <2>4. proc' = [proc EXCEPT ![p].at = "apply", ![p].batch = got,
                             ![p].seen.next = next, ![p].seen.upto = upto]
    BY <1>8
  <2> HIDE DEF got, next, upto
  <2>5. v = u
    BY <1>2, <2>4 DEF ProcRecords
  <2>6. \A q \in Process \ {p} : proc'[q] = proc[q]
    BY <1>2, <2>4
  <2>7. /\ seen \in [id : Nat, next : Nat, upto : Nat]
        /\ seen.id = r.seen.id /\ seen.next = next /\ seen.upto = upto
    BY <2>1, <2>3
  <2> HIDE DEF seen
  <2>8. "apply" \in Steps
    BY DEF Steps, Updating
  <2> HIDE DEF v
  <2>9. /\ u \in ProcRecords /\ u.at = "apply" /\ u.batch = got /\ u.mem = r.mem
        /\ u.buf = r.buf /\ u.out = r.out /\ u.asIs = r.asIs /\ u.seen = seen
        /\ u.began = r.began /\ u.before = r.before
    BY <1>2, <2>2, <2>7, <2>8 DEF ProcRecords
  <2> HIDE DEF u
  <2>10. QueryOK(World, spent', Job(p), u)
    BY <1>3, <1>4, <2>1, <2>7, <2>9 DEF QueryOK
  <2>11. InStep(World, next, upto)
    BY <2>1 DEF InStep, next, upto
  <2>12. r.began <= upto
    BY <1>2, <2>1 DEF HandOK, upto
  <2>13. BatchOK(World, u)
    <3>1. /\ u.began <= u.seen.upto
          /\ u.seen.id = World.journal.id => InStep(World, u.seen.next, u.seen.upto)
      BY <2>7, <2>9, <2>11, <2>12
    <3>2. u.mem.jid # 0 =>
            \A k \in u.mem.upto + 1 .. u.seen.upto :
              \E i \in DOMAIN u.batch : u.batch[i].file = World.hist[k]
      BY <1>6, <1>8, <2>1, <2>7, <2>9 DEF upto
    <3>3. \A i \in DOMAIN u.batch : LastIn(u.batch, i) => Tells(World, u.batch[i])
      BY <1>6, <1>8, <2>9
    <3> QED BY <3>1, <3>2, <3>3 DEF BatchOK
  <2>14. MemOK(World, u)
    BY <1>2, <2>9 DEF HandOK, MemOK, Fresh, Saving, Writing
  <2>15. u.seen.upto <= Len(hist) /\ u.at # "look"
    BY <2>1, <2>7, <2>9 DEF upto
  <2> QED BY <1>1, <2>5, <2>6, <2>9, <2>10, <2>13, <2>14, <2>15, NewHandStep DEF v
<1> QED BY <1>5, <1>7, <1>8 DEF ReadJournal

-----------------------------------------------------------------------------
(* Applying what the journal tells.                                        *)

LEMMA LargestOf ==
    ASSUME NEW n \in Nat, NEW S \in SUBSET (1 .. n), S # {}
    PROVE  \E i \in S : \A k \in S : i >= k
<1> DEFINE D == {n - i : i \in S}
<1>1. D \in SUBSET Nat /\ D # {}
  <2>1. \A i \in S : n - i \in Nat
    OBVIOUS
  <2> QED BY <2>1
<1>2. PICK m \in D : \A k \in D : ~ <<k, m>> \in OpToRel(<, Nat)
  BY <1>1, NatLessThanWellFounded, WFMin
<1>3. PICK i \in S : m = n - i
  OBVIOUS
<1>4. ASSUME NEW k \in S PROVE i >= k
  <2>1. ~ (n - k < n - i)
    BY <1>1, <1>2, <1>3 DEF OpToRel
  <2> QED BY <2>1
<1> QED BY <1>4

(* The last entry about a file decides; without one, nothing changed.      *)
LEMMA LastDecides ==
    ASSUME NEW batch \in Seq(Entries), NEW f
    PROVE  \/ /\ NetChange(batch, f) = "none"
              /\ \A i \in DOMAIN batch : batch[i].file # f
           \/ \E i \in DOMAIN batch :
                /\ batch[i].file = f /\ LastIn(batch, i)
                /\ NetChange(batch, f) = batch[i].op
<1> DEFINE S == {i \in DOMAIN batch : batch[i].file = f}
<1>1. CASE S = {}
  BY <1>1 DEF NetChange
<1>2. CASE S # {}
  <2>1. Len(batch) \in Nat /\ DOMAIN batch = 1 .. Len(batch)
    OBVIOUS
  <2>2. S \in SUBSET (1 .. Len(batch))
    BY <2>1
  <2> DEFINE n == Len(batch)
  <2>3. n \in Nat /\ S \in SUBSET (1 .. n)
    BY <2>1, <2>2
  <2> HIDE DEF n, S
  <2>4. \E i \in S : \A k \in S : i >= k
    BY <1>2, <2>3, LargestOf
  <2>5. Max(S) \in S /\ \A k \in S : Max(S) >= k
    BY <2>4 DEF Max
  <2>6. S \subseteq Int
    BY <2>3
  <2>7. \A k \in S : k <= Max(S)
    BY <2>5, <2>6
  <2>8. NetChange(batch, f) = batch[Max(S)].op
    BY <1>2 DEF NetChange, S
  <2>9. Max(S) \in DOMAIN batch /\ batch[Max(S)].file = f
    BY <2>5 DEF S
  <2>10. LastIn(batch, Max(S))
    BY <2>7, <2>9 DEF LastIn, S
  <2> QED BY <2>8, <2>9, <2>10
<1> QED BY <1>1, <1>2

(* A record that is parsed again is as the volume has it.                  *)
LEMMA ParsedAgrees ==
    ASSUME NEW r, r.names \in Seq(Names), NEW f \in Files,
           vol[f] \in Names, vol[f] # Absent
    PROVE  Agrees(ParseRecordToIndex(r, f, vol), vol[f])
<1> DEFINE name == vol[f]
           names == r.names
<1>1. name \in ToSet(<<name>>)
  BY DEF ToSet
<1>2. name \in ToSet(Append(names, name))
  <2> HIDE DEF name, names
  <2>1. names \in Seq(Names) /\ name \in Names
    BY DEF names, name
  <2>2. /\ Len(names) + 1 \in DOMAIN Append(names, name)
        /\ Append(names, name)[Len(names) + 1] = name
    BY <2>1
  <2> QED BY <2>2 DEF ToSet
<1>3. CASE f \in Spilled
  <2>1. ParseRecordToIndex(r, f, vol) = [live |-> TRUE, names |-> Append(names, name)]
    BY <1>3 DEF ParseRecordToIndex
  <2> HIDE DEF names, name
  <2>2. Agrees([live |-> TRUE, names |-> Append(names, name)], name)
    BY <1>2 DEF Agrees, name
  <2> QED BY <2>1, <2>2 DEF name
<1>4. CASE f \notin Spilled
  <2>1. ParseRecordToIndex(r, f, vol) = [live |-> TRUE, names |-> <<name>>]
    BY <1>4 DEF ParseRecordToIndex
  <2> HIDE DEF name
  <2>2. Agrees([live |-> TRUE, names |-> <<name>>], name)
    BY <1>1 DEF Agrees, name
  <2> QED BY <2>1, <2>2 DEF name
<1> QED BY <1>3, <1>4

LEMMA UpdatedTrue ==
    ASSUME JournalOK(World), NEW image, True(World, image), NEW batch \in Seq(Entries),
           NEW seen \in [id : Nat, next : Nat, upto : Nat],
           seen.id <= journal.id, seen.upto <= Len(hist),
           seen.id = journal.id => InStep(World, seen.next, seen.upto),
           image.jid # 0 =>
             \A k \in image.upto + 1 .. seen.upto :
               \E i \in DOMAIN batch : batch[i].file = hist[k],
           \A i \in DOMAIN batch :
             LastIn(batch, i) /\ batch[i].file \notin Since(World, seen.upto)
               => Tells(World, batch[i]),
           NEW missed \in SUBSET FrsToRead(batch)
    PROVE  /\ True(World, Updated(image, batch, seen, missed))
           /\ Updated(image, batch, seen, missed).upto = seen.upto
<1> DEFINE new == Updated(image, batch, seen, missed)
           reread == FrsToRead(batch) \ missed
           about == {batch[i].file : i \in DOMAIN batch}
           unseen == IF image.jid # 0 THEN {}
                     ELSE ToSet(SubSeq(hist, image.upto + 1, seen.upto)) \ about
           deleted == ApplyDeletes(image.recs, batch)
<1>1. /\ vol \in [Files -> Names \union {Absent}] /\ hist \in Seq(Files) /\ Len(hist) \in Nat
      /\ World.vol = vol /\ World.hist = hist /\ World.journal = journal
  BY DEF JournalOK, World
<1>2. image \in Images /\ image.upto \in Nat
      /\ image.recs \in [Files -> [live : BOOLEAN, names : Seq(Names)]]
  BY DEF True, Images
<1>3. new \in Images
  <2>1. missed \in SUBSET Files
    BY DEF FrsToRead
  <2> QED BY <1>1, <1>2, <2>1, UpdatedImage
<1>4. /\ new.recs = TargetedReads(deleted, reread, vol)
      /\ new.jid = seen.id /\ new.next = seen.next /\ new.upto = seen.upto
      /\ new.gaps = (image.gaps \ (DeletedIn(batch) \union reread)) \union missed \union unseen
  BY DEF Updated
<1> HIDE DEF new
<1>5. ASSUME NEW f \in Files \ (new.gaps \union Since(World, new.upto))
      PROVE  Agrees(new.recs[f], vol[f])
  <2>1. f \notin missed /\ f \notin unseen /\ f \notin Since(World, seen.upto)
          /\ (f \in image.gaps => f \in DeletedIn(batch) \union reread)
    BY <1>4, <1>5
  <2>2. new.recs[f] = IF f \in reread THEN ParseRecordToIndex(deleted[f], f, vol) ELSE deleted[f]
    BY <1>4 DEF TargetedReads
  <2>3. deleted[f] = IF f \in DeletedIn(batch) THEN [image.recs[f] EXCEPT !.live = FALSE]
                     ELSE image.recs[f]
    BY DEF ApplyDeletes
  <2>4. image.recs[f] \in [live : BOOLEAN, names : Seq(Names)]
    BY <1>2
  <2>5. CASE NetChange(batch, f) = "none" /\ \A i \in DOMAIN batch : batch[i].file # f
    <3>1. f \notin DeletedIn(batch) /\ f \notin reread /\ f \notin about
      BY <2>5 DEF DeletedIn, FrsToRead
    <3>2. new.recs[f] = image.recs[f] /\ f \notin image.gaps
      BY <2>1, <2>2, <2>3, <3>1
    <3>3. f \notin Since(World, image.upto)
      <4> SUFFICES ASSUME NEW k \in image.upto + 1 .. Len(hist), f = hist[k] PROVE FALSE
        BY <1>1 DEF Since
      <4>1. k \in Int /\ seen.upto \in Nat /\ k <= Len(hist)
        BY <1>1, <1>2
      <4>2. ~(k > seen.upto)
        <5> SUFFICES ASSUME k > seen.upto PROVE FALSE
          OBVIOUS
        <5>1. k \in seen.upto + 1 .. Len(hist)
          BY <1>1, <4>1
        <5> QED BY <1>1, <2>1, <5>1 DEF Since
      <4>3. k \in image.upto + 1 .. seen.upto
        BY <1>2, <4>1, <4>2
      <4>4. CASE image.jid # 0
        BY <2>5, <4>3, <4>4
      <4>5. CASE image.jid = 0
        <5> DEFINE a == image.upto
                   b == seen.upto
                   part == SubSeq(hist, a + 1, b)
        <5>1. a \in Nat /\ b \in Nat /\ b <= Len(hist) /\ a < b
          BY <1>2, <4>1, <4>3
        <5> HIDE DEF a, b
        <5>2. k - a \in DOMAIN part /\ part[k - a] = hist[a + (k - a)] /\ a + (k - a) = k
          <6>1. k \in a + 1 .. b /\ k \in Int
            BY <4>1, <4>3 DEF a, b
          <6>2. k - a \in 1 .. b - a /\ a + (k - a) = k
            BY <5>1, <6>1
          <6>3. DOMAIN part = 1 .. b - a /\ \A i \in 1 .. b - a : part[i] = hist[a + i]
            BY <1>1, <5>1
          <6> QED BY <6>2, <6>3
        <5>3. hist[k] \in ToSet(part)
          BY <5>2 DEF ToSet
        <5> QED BY <2>1, <3>1, <4>5, <5>3 DEF a, b
      <4> QED BY <4>4, <4>5
    <3> QED BY <1>1, <3>2, <3>3 DEF True
  <2>6. CASE \E i \in DOMAIN batch : /\ batch[i].file = f /\ LastIn(batch, i)
                                     /\ NetChange(batch, f) = batch[i].op
    <3>1. PICK i \in DOMAIN batch : /\ batch[i].file = f /\ LastIn(batch, i)
                                    /\ NetChange(batch, f) = batch[i].op
      BY <2>6
    <3>2. Tells(World, batch[i])
      BY <2>1, <3>1
    <3>3. batch[i].op \in {"created", "deleted", "renamed"}
      <4>1. batch[i] \in Entries
        OBVIOUS
      <4> QED BY <4>1 DEF Entries
    <3>4. CASE batch[i].op = "deleted"
      <4>1. vol[f] = Absent /\ f \in DeletedIn(batch) /\ f \notin reread
        BY <1>1, <3>1, <3>2, <3>4 DEF Tells, DeletedIn, FrsToRead
      <4>2. new.recs[f].live = FALSE
        BY <2>2, <2>3, <2>4, <4>1
      <4> QED BY <4>1, <4>2 DEF Agrees
    <3>5. CASE batch[i].op # "deleted"
      <4>1. vol[f] # Absent /\ f \notin DeletedIn(batch) /\ f \in reread
        BY <1>1, <2>1, <3>1, <3>2, <3>3, <3>5 DEF Tells, DeletedIn, FrsToRead
      <4>2. vol[f] \in Names /\ image.recs[f].names \in Seq(Names)
        BY <1>1, <2>4, <4>1
      <4> QED BY <2>2, <2>3, <4>1, <4>2, ParsedAgrees
    <3> QED BY <3>4, <3>5
  <2> QED BY <2>5, <2>6, LastDecides
<1>6. True(World, new)
  BY <1>1, <1>3, <1>4, <1>5 DEF True
<1> QED BY <1>4, <1>6 DEF new

LEMMA CurApplyUsnChanges ==
    ASSUME CacheInv, CurrentInv, NEW p \in Process, ApplyUsnChanges(p)
    PROVE  CurrentInv'
<1> DEFINE r == proc[p]
           v == proc'[p]
<1>1. UNCHANGED envVars /\ spent \subseteq spent' /\ FilesTrue(World, files')
        /\ r.at = "apply" /\ r.at \notin Ended
  BY FilesSame DEF ApplyUsnChanges, NoFault, Fault, fileVars, Ended
<1>2. HandOK(World, spent', Job(p), plan.readOnly, r) /\ r \in ProcRecords
        /\ proc \in [Process -> ProcRecords]
  BY <1>1, HandFacts
<1>3. CASE End(p, "failed", None, FALSE)
  BY <1>1, <1>3, EndEmpty DEF Ended
<1>4. ASSUME NEW missed \in SUBSET FrsToRead(r.batch),
             proc' = [proc EXCEPT ![p].at = "save",
                        ![p].mem = Updated(@, r.batch, r.seen, missed)]
      PROVE  CurrentInv'
  <2> DEFINE image == Updated(r.mem, r.batch, r.seen, missed)
             held == r.mem
             got == r.batch
             seen == r.seen
  <2>1. /\ held # None /\ True(World, held) /\ got \in Seq(Entries)
        /\ seen \in [id : Nat, next : Nat, upto : Nat]
        /\ seen.id <= journal.id /\ seen.upto <= Len(hist) /\ r.began <= seen.upto
        /\ seen.id = journal.id => InStep(World, seen.next, seen.upto)
        /\ held.jid # 0 =>
             \A k \in held.upto + 1 .. seen.upto :
               \E i \in DOMAIN got : got[i].file = hist[k]
        /\ \A i \in DOMAIN got :
             LastIn(got, i) /\ got[i].file \notin Since(World, seen.upto)
               => Tells(World, got[i])
        /\ missed \in SUBSET FrsToRead(got)
    BY <1>1, <1>2 DEF HandOK, QueryOK, BatchOK, MemOK, ProcRecords, World
  <2>2. image = Updated(held, got, seen, missed)
    OBVIOUS
  <2>3. JournalOK(World)
    BY DEF CurrentInv
  <2>4. proc'[p] = [r EXCEPT !.at = "save", !.mem = image]
          /\ \A q \in Process \ {p} : proc'[q] = proc[q]
    BY <1>2, <1>4
  <2> HIDE DEF image, held, got, seen
  <2>5. True(World, image) /\ image.upto = seen.upto
    BY <2>1, <2>2, <2>3, UpdatedTrue
  <2>6. image \in Images
    BY <2>5 DEF True
  <2> DEFINE u == [r EXCEPT !.at = "save", !.mem = image]
  <2>7. "save" \in Steps
    BY DEF Steps, Updating
  <2> HIDE DEF v
  <2>8. /\ u \in ProcRecords /\ u.at = "save" /\ u.mem = image
        /\ u.buf = r.buf /\ u.out = r.out /\ u.asIs = r.asIs /\ u.seen = r.seen
        /\ u.began = r.began /\ u.before = r.before
    BY <1>2, <2>6, <2>7 DEF ProcRecords
  <2>9. v = u
    BY <2>4 DEF v
  <2> HIDE DEF u
  <2>10. QueryOK(World, spent', Job(p), u) /\ BatchOK(World, u)
    BY <2>8 DEF QueryOK, BatchOK
  <2>11. AsNew(image, u)
    <3>1. seen.upto \in Nat /\ r.began \in Nat
      BY <1>2, <2>1 DEF ProcRecords
    <3> QED BY <2>1, <2>5, <2>8, <3>1 DEF AsNew
  <2>12. MemOK(World, u)
    BY <1>2, <2>5, <2>8, <2>11 DEF HandOK, MemOK
  <2>13. u.seen.upto <= Len(hist)
    BY <1>2, <2>8 DEF HandOK, World
  <2> QED BY <1>1, <2>4, <2>8, <2>9, <2>10, <2>12, <2>13, NewHandStep DEF v
<1> QED BY <1>3, <1>4 DEF ApplyUsnChanges

-----------------------------------------------------------------------------
(* A file changes.                                                         *)

Grows(w, z, f) ==
  /\ f \in Files /\ w.hist \in Seq(Files) /\ z.hist = Append(w.hist, f)
  /\ JournalNext(w.journal) \in Nat
  /\ JournalNext(z.journal) = JournalNext(w.journal) + 1
  /\ z.journal.id = w.journal.id /\ z.journal.first = w.journal.first
  /\ \A g \in Files \ {f} : z.vol[g] = w.vol[g]

LEMMA SinceGrows ==
    ASSUME NEW w, NEW z, NEW f, Grows(w, z, f), NEW n \in Nat, n <= Len(w.hist)
    PROVE  Since(z, n) = Since(w, n) \union {f} /\ Len(w.hist) \in Nat
             /\ Len(z.hist) = Len(w.hist) + 1
<1>1. w.hist \in Seq(Files) /\ z.hist = Append(w.hist, f) /\ f \in Files
  BY DEF Grows
<1>2. /\ Len(w.hist) \in Nat /\ Len(z.hist) = Len(w.hist) + 1
      /\ z.hist[Len(w.hist) + 1] = f
      /\ \A k \in 1 .. Len(w.hist) : z.hist[k] = w.hist[k]
  BY <1>1
<1> DEFINE m == Len(w.hist)
           old == w.hist
           new == z.hist
<1>3. m \in Nat /\ Len(new) = m + 1 /\ new[m + 1] = f /\ \A k \in 1 .. m : new[k] = old[k]
  BY <1>2
<1>4. /\ Since(z, n) = {new[k] : k \in n + 1 .. m + 1}
      /\ Since(w, n) = {old[k] : k \in n + 1 .. m}
  BY <1>2 DEF Since
<1> HIDE DEF m, old, new
<1>5. {new[k] : k \in n + 1 .. m + 1} = {old[k] : k \in n + 1 .. m} \union {f}
  <2>1. n + 1 .. m + 1 = (n + 1 .. m) \union {m + 1}
    <3>1. n <= m
      BY DEF m
    <3> QED BY <1>3, <3>1
  <2>2. \A k \in n + 1 .. m : new[k] = old[k]
    BY <1>3
  <2> DEFINE S == n + 1 .. m
             T == n + 1 .. m + 1
  <2>3. T = S \union {m + 1} /\ new[m + 1] = f /\ \A k \in S : new[k] = old[k]
    BY <1>3, <2>1, <2>2
  <2> HIDE DEF S, T
  <2>4. {new[k] : k \in T} = {old[k] : k \in S} \union {f}
    BY ONLY <2>3
  <2> QED BY <2>4 DEF S, T
<1> QED BY <1>2, <1>4, <1>5

LEMMA InStepGrows ==
    ASSUME NEW w, NEW z, NEW f, Grows(w, z, f), NEW next \in Nat, NEW upto \in Nat,
           InStep(w, next, upto)
    PROVE  InStep(z, next, upto)
<1> DEFINE m == Len(w.hist)
           end == JournalNext(w.journal)
<1>1. m \in Nat /\ Len(z.hist) = m + 1 /\ end \in Nat /\ JournalNext(z.journal) = end + 1
  BY DEF Grows
<1>2. next + m = end + upto
  BY DEF InStep
<1> HIDE DEF m, end
<1>3. next + (m + 1) = (end + 1) + upto
  BY <1>1, <1>2
<1> QED BY <1>1, <1>3 DEF InStep

LEMMA TrueGrows ==
    ASSUME NEW w, NEW z, NEW f, Grows(w, z, f), NEW image, True(w, image)
    PROVE  True(z, image)
<1>1. image \in Images /\ image.next \in Nat /\ image.upto \in Nat /\ image.jid \in Nat
        /\ image.upto <= Len(w.hist)
  BY DEF True, Images
<1>2. /\ Since(z, image.upto) = Since(w, image.upto) \union {f}
      /\ Len(w.hist) \in Nat /\ Len(z.hist) = Len(w.hist) + 1
  BY <1>1, SinceGrows
<1>3. image.upto <= Len(z.hist)
  <2> DEFINE m == Len(w.hist)
             u == image.upto
  <2>1. m \in Nat /\ u \in Nat /\ u <= m /\ Len(z.hist) = m + 1
    BY <1>1, <1>2
  <2> HIDE DEF m, u
  <2>2. u <= m + 1
    BY <2>1
  <2> QED BY <2>1, <2>2 DEF u
<1>4. image.jid = w.journal.id => InStep(z, image.next, image.upto)
  BY <1>1, InStepGrows DEF True
<1>5. ASSUME NEW g \in Files \ (image.gaps \union Since(z, image.upto))
      PROVE  Agrees(image.recs[g], z.vol[g])
  BY <1>2, <1>5 DEF True, Grows
<1>6. z.journal.id = w.journal.id /\ image.jid <= w.journal.id
  BY DEF Grows, True
<1> QED BY <1>1, <1>3, <1>4, <1>5, <1>6 DEF True

LEMMA HandGrows ==
    ASSUME NEW w, NEW z, NEW f, Grows(w, z, f), NEW s, NEW job, NEW readOnly, NEW r,
           HandOK(w, s, job, readOnly, r)
    PROVE  HandOK(z, s, job, readOnly, r)
<1>1. /\ r \in ProcRecords /\ r.seen \in [id : Nat, next : Nat, upto : Nat]
      /\ r.began \in Nat /\ r.batch \in Seq(Entries)
      /\ r.seen.upto <= Len(w.hist) /\ r.began <= Len(w.hist)
  BY DEF HandOK, ProcRecords
<1>2. /\ Since(z, r.seen.upto) = Since(w, r.seen.upto) \union {f}
      /\ Len(w.hist) \in Nat /\ Len(z.hist) = Len(w.hist) + 1
  BY <1>1, SinceGrows
<1>3. r.seen.upto <= Len(z.hist) /\ r.began <= Len(z.hist)
  <2> DEFINE m == Len(w.hist)
             u == r.seen.upto
             b == r.began
  <2>1. m \in Nat /\ u \in Nat /\ b \in Nat /\ u <= m /\ b <= m /\ Len(z.hist) = m + 1
    BY <1>1, <1>2
  <2> HIDE DEF m, u, b
  <2>2. u <= m + 1 /\ b <= m + 1
    BY <2>1
  <2> QED BY <2>1, <2>2 DEF u, b
<1>4. QueryOK(z, s, job, r)
  BY DEF HandOK, QueryOK, Grows
<1>5. BatchOK(z, r)
  <2> SUFFICES ASSUME r.at = "apply" PROVE BatchOK(z, r)
    BY DEF BatchOK
  <2>1. BatchOK(w, r) /\ QueryOK(w, s, job, r)
    BY DEF HandOK
  <2>2. r.began <= r.seen.upto
          /\ (r.seen.id = z.journal.id => InStep(z, r.seen.next, r.seen.upto))
    <3>1. z.journal.id = w.journal.id /\ r.seen.next \in Nat /\ r.seen.upto \in Nat
      BY <1>1 DEF Grows
    <3> QED BY <2>1, <3>1, InStepGrows DEF BatchOK
  <2>3. ASSUME r.mem.jid # 0, NEW k \in r.mem.upto + 1 .. r.seen.upto
        PROVE  \E i \in DOMAIN r.batch : r.batch[i].file = z.hist[k]
    <3>1. PICK i \in DOMAIN r.batch : r.batch[i].file = w.hist[k]
      BY <2>1, <2>3 DEF BatchOK
    <3>2. z.hist[k] = w.hist[k]
      <4>1. r.mem \in Images
        BY <1>1, <2>1 DEF QueryOK, ProcRecords
      <4>2. r.mem.upto \in Nat
        BY <4>1 DEF Images
      <4>3. k \in 1 .. Len(w.hist)
        <5> DEFINE m == Len(w.hist)
                   u == r.seen.upto
                   b == r.mem.upto
        <5>1. m \in Nat /\ u \in Nat /\ b \in Nat /\ u <= m /\ k \in b + 1 .. u
          BY <1>1, <1>2, <2>3, <4>2
        <5> HIDE DEF m, u, b
        <5>2. k \in 1 .. m
          BY ONLY <5>1
        <5> QED BY <5>2 DEF m
      <4>4. w.hist \in Seq(Files) /\ z.hist = Append(w.hist, f) /\ f \in Files
        BY DEF Grows
      <4> QED BY <4>3, <4>4
    <3> QED BY <3>1, <3>2
  <2>4. ASSUME NEW i \in DOMAIN r.batch, LastIn(r.batch, i),
               r.batch[i].file \notin Since(z, r.seen.upto)
        PROVE  Tells(z, r.batch[i])
    <3>1. Tells(w, r.batch[i]) /\ r.batch[i].file # f
      BY <1>2, <2>1, <2>4 DEF BatchOK
    <3>2. r.batch[i].file \in Files
      <4>1. r.batch[i] \in Entries
        BY <1>1
      <4> QED BY <4>1 DEF Entries
    <3> QED BY <3>1, <3>2 DEF Tells, Grows
  <2> QED BY <2>2, <2>3, <2>4 DEF BatchOK
<1>6. MemOK(z, r)
  <2>1. TrueHalves(w) \subseteq TrueHalves(z)
    BY TrueGrows DEF TrueHalves
  <2>2. r.buf \in Seq(TrueHalves(z))
    BY <2>1 DEF HandOK, MemOK
  <2> QED BY <2>2, TrueGrows DEF HandOK, MemOK
<1>7. OutOK(z, s, job, readOnly, r)
  BY TrueGrows DEF HandOK, OutOK
<1> QED BY <1>1, <1>3, <1>4, <1>5, <1>6, <1>7 DEF HandOK

LEMMA FilesGrow ==
    ASSUME NEW w, NEW z, NEW f, Grows(w, z, f), NEW content, FilesTrue(w, content)
    PROVE  FilesTrue(z, content)
<1>1. TrueHalves(w) \subseteq TrueHalves(z)
  BY TrueGrows DEF TrueHalves
<1> DEFINE S == TrueHalves(w)
           T == TrueHalves(z)
<1>2. \A c \in Seq(S) : c \in Seq(T)
  <2> HIDE DEF S, T
  <2>1. S \subseteq T
    BY <1>1 DEF S, T
  <2> QED BY <2>1
<1> QED BY <1>2 DEF FilesTrue

(* The new entry is the last about its file, and tells what became of it.  *)
LEMMA JournalGrows ==
    ASSUME NEW w, NEW z, NEW f \in Files, NEW entry \in Entries, JournalOK(w),
           entry.file = f, Tells(z, entry), z.hist = Append(w.hist, f),
           z.journal = [w.journal EXCEPT !.log = Append(w.journal.log, entry)],
           z.vol \in [Files -> Names \union {Absent}],
           \A g \in Files \ {f} : z.vol[g] = w.vol[g]
    PROVE  JournalOK(z) /\ Grows(w, z, f)
<1> DEFINE old == w.journal.log
           new == z.journal.log
           n == Len(old)
           m == Len(w.hist)
<1>1. /\ w.hist \in Seq(Files) /\ w.journal \in [id : Nat, first : Nat, log : Seq(Entries)]
      /\ w.journal.id # 0 /\ n <= m
      /\ \A i \in DOMAIN old : /\ old[i].file = w.hist[m - n + i]
                               /\ LastIn(old, i) => Tells(w, old[i])
  BY DEF JournalOK
<1>2. /\ old \in Seq(Entries) /\ new = Append(old, entry)
      /\ z.journal.id = w.journal.id /\ z.journal.first = w.journal.first
      /\ w.journal.first \in Nat /\ w.journal.id \in Nat
  BY <1>1
<1>3. z.journal \in [id : Nat, first : Nat, log : Seq(Entries)]
  <2> DEFINE log == Append(old, entry)
  <2>1. log \in Seq(Entries)
    BY <1>2
  <2>2. z.journal = [w.journal EXCEPT !.log = log]
    OBVIOUS
  <2> HIDE DEF log, old
  <2> QED BY <1>1, <2>1, <2>2
<1>4. /\ n \in Nat /\ DOMAIN old = 1 .. n /\ Len(new) = n + 1 /\ DOMAIN new = 1 .. n + 1
      /\ new[n + 1] = entry /\ \A i \in 1 .. n : new[i] = old[i]
  BY <1>2
<1>5. /\ m \in Nat /\ Len(z.hist) = m + 1 /\ z.hist \in Seq(Files)
      /\ z.hist[m + 1] = f /\ \A k \in 1 .. m : z.hist[k] = w.hist[k]
  BY <1>1
<1>6. JournalNext(w.journal) = w.journal.first + n
        /\ JournalNext(z.journal) = w.journal.first + (n + 1)
  BY <1>2, <1>4 DEF JournalNext
<1> DEFINE was == w.hist
           is == z.hist
           first == w.journal.first
<1>7. /\ n <= m /\ first \in Nat
      /\ \A i \in DOMAIN old : /\ old[i].file = was[m - n + i]
                               /\ LastIn(old, i) => Tells(w, old[i])
      /\ is[m + 1] = f /\ \A k \in 1 .. m : is[k] = was[k]
  BY <1>1, <1>2, <1>5
<1>8. old \in Seq(Entries)
  BY <1>2
<1> HIDE DEF old, new, n, m, was, is, first
<1>9. ASSUME NEW i \in DOMAIN new
      PROVE  /\ new[i].file = is[(m + 1) - (n + 1) + i]
             /\ LastIn(new, i) => Tells(z, new[i])
  <2>1. CASE i = n + 1
    <3>1. (m + 1) - (n + 1) + i = m + 1
      BY <1>4, <1>5, <2>1
    <3> QED BY <1>4, <1>7, <2>1, <3>1
  <2>2. CASE i # n + 1
    <3>1. i \in 1 .. n /\ new[i] = old[i] /\ i \in DOMAIN old
      BY <1>4, <2>2
    <3>2. (m + 1) - (n + 1) + i = m - n + i /\ m - n + i \in 1 .. m
      BY <1>4, <1>5, <1>7, <3>1
    <3>3. new[i].file = is[(m + 1) - (n + 1) + i]
      BY <1>7, <3>1, <3>2
    <3>4. ASSUME LastIn(new, i) PROVE Tells(z, new[i])
      <4>1. new[i].file # f
        <5>1. n + 1 \in DOMAIN new /\ ~(n + 1 <= i)
          BY <1>4, <3>1
        <5> QED BY <1>4, <3>4, <5>1 DEF LastIn
      <4>2. LastIn(old, i)
        <5>1. \A k \in DOMAIN old : k \in DOMAIN new /\ new[k] = old[k]
          BY <1>4
        <5> QED BY <3>1, <3>4, <5>1 DEF LastIn
      <4>3. old[i] \in Entries
        BY <1>8, <3>1
      <4>4. new[i].file \in Files
        BY <3>1, <4>3 DEF Entries
      <4>5. Tells(w, old[i])
        BY <1>7, <3>1, <4>2
      <4> QED BY <3>1, <4>1, <4>4, <4>5 DEF Tells
    <3> QED BY <3>3, <3>4
  <2> QED BY <2>1, <2>2
<1>10. /\ Len(z.journal.log) = n + 1 /\ Len(z.hist) = m + 1 /\ z.journal.log = new /\ z.hist = is
       /\ z.hist \in Seq(Files)
  BY <1>4, <1>5 DEF new, is
<1>11. n + 1 <= m + 1
  BY <1>4, <1>5, <1>7
<1>12. z.journal.id # 0
  BY <1>1, <1>2
<1>13. JournalOK(z)
  BY <1>3, <1>9, <1>10, <1>11, <1>12 DEF JournalOK
<1>14. /\ JournalNext(w.journal) \in Nat
       /\ JournalNext(z.journal) = JournalNext(w.journal) + 1
  <2>1. JournalNext(w.journal) = first + n /\ JournalNext(z.journal) = first + (n + 1)
    BY <1>6 DEF first
  <2>2. first + n \in Nat /\ first + (n + 1) = (first + n) + 1
    <3>1. n \in Nat
      BY <1>4
    <3>2. first \in Nat
      BY <1>7
    <3> QED BY ONLY <3>1, <3>2
  <2> QED BY <2>1, <2>2
<1> QED BY <1>1, <1>2, <1>13, <1>14 DEF Grows

LEMMA CurChangeFile ==
    ASSUME CacheInv, CurrentInv, NEW f \in Files, NEW name \in Names \union {Absent},
           ChangeFile(f, name)
    PROVE  CurrentInv'
<1> DEFINE entry == [file |-> f, op |-> ChangeOp(vol[f], name)]
           w == World
           z == World'
<1>1. UNCHANGED <<files, proc, plan, spent>> /\ \A p : Job(p)' = Job(p)
  BY DEF ChangeFile, fileVars, Job
<1>2. JournalOK(w)
  BY DEF CurrentInv
<1>3. /\ vol \in [Files -> Names \union {Absent}] /\ w.vol = vol /\ w.hist = hist
      /\ w.journal = journal /\ z.vol = vol' /\ z.hist = hist' /\ z.journal = journal'
  BY DEF CacheInv, Typed, World
<1>4. /\ z.vol = [vol EXCEPT ![f] = name] /\ vol[f] # name
      /\ z.journal = [w.journal EXCEPT !.log = Append(w.journal.log, entry)]
      /\ z.hist = Append(w.hist, f)
  BY <1>3 DEF ChangeFile
<1>5. /\ z.vol \in [Files -> Names \union {Absent}] /\ z.vol[f] = name
      /\ \A g \in Files \ {f} : z.vol[g] = w.vol[g]
  BY <1>3, <1>4
<1>6. entry \in Entries /\ entry.file = f /\ (entry.op = "deleted" <=> name = Absent)
  BY <1>4 DEF Entries, ChangeOp
<1>7. Tells(z, entry)
  BY <1>5, <1>6 DEF Tells
<1> HIDE DEF w, z, entry
<1>8. JournalOK(z) /\ Grows(w, z, f)
  BY <1>2, <1>4, <1>5, <1>6, <1>7, JournalGrows
<1>9. FilesTrue(z, files)
  BY <1>8, FilesGrow DEF CurrentInv, w
<1>10. ASSUME NEW p \in Process PROVE HandOK(z, spent, Job(p), plan.readOnly, proc[p])
  <2>1. HandOK(w, spent, Job(p), plan.readOnly, proc[p])
    BY DEF CurrentInv, Hand, w
  <2> QED BY <1>8, <2>1, HandGrows
<1>11. FilesTrue(World, files)' /\ JournalOK(World)'
  BY <1>1, <1>8, <1>9 DEF z
<1>12. ASSUME NEW p \in Process PROVE Hand(p)'
  BY <1>1, <1>10 DEF Hand, z
<1> QED BY <1>11, <1>12 DEF CurrentInv

-----------------------------------------------------------------------------
(* The journal loses its tail, or is made anew.                            *)

Loses(w, z) ==
  /\ z.vol = w.vol /\ z.hist = w.hist /\ w.journal.id \in Nat
  /\ \/ z.journal.id = w.journal.id /\ JournalNext(z.journal) = JournalNext(w.journal)
     \/ z.journal.id = w.journal.id + 1

LEMMA TrueStays ==
    ASSUME NEW w, NEW z, Loses(w, z), NEW image, True(w, image)
    PROVE  True(z, image)
<1>1. image \in Images /\ image.jid \in Nat /\ image.jid <= w.journal.id
  BY DEF True, Images
<1>2. Since(z, image.upto) = Since(w, image.upto)
  BY DEF Loses, Since
<1>3. CASE z.journal.id = w.journal.id /\ JournalNext(z.journal) = JournalNext(w.journal)
  BY <1>2, <1>3 DEF Loses, True, InStep
<1>4. CASE z.journal.id = w.journal.id + 1
  <2>1. image.jid <= z.journal.id /\ image.jid # z.journal.id
    BY <1>1, <1>4 DEF Loses
  <2> QED BY <1>2, <2>1 DEF Loses, True
<1> QED BY <1>3, <1>4 DEF Loses

LEMMA HandStays ==
    ASSUME NEW w, NEW z, Loses(w, z), NEW s, NEW kind \in Losses, kind \notin s,
           NEW job, NEW readOnly, NEW r, HandOK(w, s, job, readOnly, r)
    PROVE  HandOK(z, s \union {kind}, job, readOnly, r)
<1> DEFINE t == s \union {kind}
<1>1. HandOK(w, t, job, readOnly, r)
  BY HandLater
<1>2. LostSince(t, r)
  BY DEF HandOK, LostSince
<1> HIDE DEF t
<1>3. r \in ProcRecords /\ r.seen.id \in Nat /\ w.journal.id \in Nat
  BY <1>1 DEF HandOK, ProcRecords, Loses
<1>4. QueryOK(z, t, job, r)
  BY <1>1, <1>2, <1>3 DEF HandOK, QueryOK, Loses
<1>5. BatchOK(z, r)
  <2> SUFFICES ASSUME r.at = "apply" PROVE BatchOK(z, r)
    BY DEF BatchOK
  <2>1. BatchOK(w, r) /\ r.seen.id <= w.journal.id
    BY <1>1 DEF HandOK, QueryOK
  <2>2. r.seen.id = z.journal.id => InStep(z, r.seen.next, r.seen.upto)
    BY <1>3, <2>1 DEF BatchOK, InStep, Loses
  <2>3. Since(z, r.seen.upto) = Since(w, r.seen.upto)
    BY DEF Since, Loses
  <2>4. \A i \in DOMAIN r.batch : Tells(w, r.batch[i]) => Tells(z, r.batch[i])
    BY DEF Tells, Loses
  <2>5. z.hist = w.hist
    BY DEF Loses
  <2> QED BY <2>1, <2>2, <2>3, <2>4, <2>5 DEF BatchOK
<1>6. MemOK(z, r)
  <2>1. TrueHalves(w) \subseteq TrueHalves(z)
    BY TrueStays DEF TrueHalves
  <2>2. r.buf \in Seq(TrueHalves(z))
    BY <1>1, <2>1 DEF HandOK, MemOK
  <2> QED BY <1>1, <2>2, TrueStays DEF HandOK, MemOK
<1>7. OutOK(z, t, job, readOnly, r)
  BY <1>1, TrueStays DEF HandOK, OutOK
<1>8. z.hist = w.hist
  BY DEF Loses
<1>9. HandOK(z, t, job, readOnly, r)
  BY <1>1, <1>4, <1>5, <1>6, <1>7, <1>8 DEF HandOK
<1> QED BY <1>9 DEF t

LEMMA FilesStay ==
    ASSUME NEW w, NEW z, Loses(w, z), NEW content, FilesTrue(w, content)
    PROVE  FilesTrue(z, content)
<1> DEFINE S == TrueHalves(w)
           T == TrueHalves(z)
<1>1. S \subseteq T
  BY TrueStays DEF TrueHalves
<1>2. \A c \in Seq(S) : c \in Seq(T)
  <2> HIDE DEF S, T
  <2> QED BY <1>1
<1> QED BY <1>2 DEF FilesTrue

LEMMA CurLoseJournal ==
    ASSUME CacheInv, CurrentInv, LoseJournal
    PROVE  CurrentInv'
<1> DEFINE w == World
           z == World'
<1>1. UNCHANGED <<files, proc, plan, vol, hist>> /\ \A p : Job(p)' = Job(p)
  BY DEF LoseJournal, fileVars, Job
<1>2. PICK kind \in Losses : kind \notin spent /\ spent' = spent \union {kind}
  BY DEF LoseJournal, Fault, Losses
<1>3. /\ w.vol = vol /\ w.hist = hist /\ w.journal = journal
      /\ z.vol = vol /\ z.hist = hist /\ z.journal = journal'
  BY <1>1 DEF World
<1>4. /\ vol \in [Files -> Names \union {Absent}] /\ hist \in Seq(Files) /\ Len(hist) \in Nat
      /\ journal \in [id : Nat, first : Nat, log : Seq(Entries)] /\ journal.id # 0
  BY <1>3 DEF CurrentInv, JournalOK
<1>5. << >> \in Seq(Entries) /\ Len(<< >>) = 0 /\ DOMAIN << >> = {}
  OBVIOUS
<1> DEFINE next == JournalNext(journal)
<1>6. next \in Nat
  BY <1>4 DEF JournalNext
<1>7. \/ journal' = [journal EXCEPT !.first = next, !.log = << >>]
      \/ journal' = [id |-> journal.id + 1, first |-> 0, log |-> << >>]
  BY DEF LoseJournal
<1> HIDE DEF next
<1>8. /\ journal' \in [id : Nat, first : Nat, log : Seq(Entries)]
      /\ journal'.log = << >>
      /\ \/ journal'.id = journal.id /\ journal'.first = next
         \/ journal'.id = journal.id + 1
  <2> DEFINE empty == << >>
             S == Seq(Entries)
  <2>1. empty \in S /\ journal.id \in Nat /\ journal.id + 1 \in Nat
    BY <1>4
  <2>2. journal \in [id : Nat, first : Nat, log : S]
    BY <1>4
  <2>3. journal' = [journal EXCEPT !.first = next, !.log = empty]
        \/ journal' = [id |-> journal.id + 1, first |-> 0, log |-> empty]
    BY <1>7
  <2> HIDE DEF empty, S
  <2>4. ASSUME journal' = [journal EXCEPT !.first = next, !.log = empty]
        PROVE  /\ journal' \in [id : Nat, first : Nat, log : S] /\ journal'.log = empty
               /\ journal'.id = journal.id /\ journal'.first = next
    <3> DEFINE u == journal
               v == journal'
    <3>1. u \in [id : Nat, first : Nat, log : S]
      BY <2>2
    <3>2. v = [u EXCEPT !.first = next, !.log = empty]
      BY <2>4
    <3> HIDE DEF u, v
    <3>3. v = [id |-> u.id, first |-> next, log |-> empty]
      BY <3>1, <3>2
    <3>4. v.id = u.id /\ v.first = next /\ v.log = empty /\ u.id \in Nat
      BY <3>1, <3>3
    <3>5. v \in [id : Nat, first : Nat, log : S]
      BY <1>6, <2>1, <3>3, <3>4
    <3> QED BY <3>4, <3>5 DEF u, v
  <2>5. ASSUME journal' = [id |-> journal.id + 1, first |-> 0, log |-> empty]
        PROVE  /\ journal' \in [id : Nat, first : Nat, log : S] /\ journal'.log = empty
               /\ journal'.id = journal.id + 1
    BY <2>1, <2>5
  <2>6. /\ journal' \in [id : Nat, first : Nat, log : S]
        /\ journal'.log = empty
        /\ \/ journal'.id = journal.id /\ journal'.first = next
           \/ journal'.id = journal.id + 1
    BY <2>3, <2>4, <2>5
  <2> QED BY <2>6 DEF empty, S
<1>9. journal'.id # 0 /\ journal.id \in Nat
  BY <1>4, <1>8
<1> HIDE DEF w, z
<1>10. JournalOK(z)
  BY <1>3, <1>4, <1>5, <1>8, <1>9 DEF JournalOK
<1>11. Loses(w, z)
  <2>1. journal'.first = next => JournalNext(journal') = next
    BY <1>5, <1>6, <1>8 DEF JournalNext
  <2> QED BY <1>3, <1>8, <1>9, <2>1 DEF Loses, next
<1>12. FilesTrue(z, files)
  BY <1>11, FilesStay DEF CurrentInv, w
<1>13. ASSUME NEW p \in Process PROVE HandOK(z, spent', Job(p), plan.readOnly, proc[p])
  <2>1. HandOK(w, spent, Job(p), plan.readOnly, proc[p])
    BY DEF CurrentInv, Hand, w
  <2>2. HandOK(z, spent \union {kind}, Job(p), plan.readOnly, proc[p])
    BY <1>2, <1>11, <2>1, HandStays
  <2> QED BY <1>2, <2>2
<1>14. FilesTrue(World, files)' /\ JournalOK(World)'
  BY <1>1, <1>10, <1>12 DEF z
<1>15. ASSUME NEW p \in Process PROVE Hand(p)'
  BY <1>1, <1>13 DEF Hand, z
<1> QED BY <1>14, <1>15 DEF CurrentInv

LEMMA CurLoseKey ==
    ASSUME CacheInv, CurrentInv, LoseKey
    PROVE  CurrentInv'
<1>1. UNCHANGED envVars /\ spent \subseteq spent' /\ proc' = proc
  BY DEF LoseKey, Fault
<1>2. World' = World /\ plan' = plan /\ \A p : Job(p)' = Job(p)
  BY <1>1, WorldSame
<1>3. FilesTrue(World, files')
  BY DEF LoseKey, CurrentInv, FilesTrue, CacheInv, FilesInv
<1>4. ASSUME NEW p \in Process PROVE Hand(p)'
  <2>1. HandOK(World, spent', Job(p), plan.readOnly, proc[p])
    BY <1>1, HandFacts
  <2> QED BY <1>1, <1>2, <2>1 DEF Hand
<1>5. FilesTrue(World, files)' /\ JournalOK(World)'
  BY <1>2, <1>3 DEF CurrentInv
<1> QED BY <1>4, <1>5 DEF CurrentInv

-----------------------------------------------------------------------------
(* The whole of it.                                                        *)

LEMMA InitCurrent ==
    ASSUME Init
    PROVE  CurrentInv
<1>1. CacheInv
  BY InitKeeps
<1>2. /\ vol \in [Files -> Names \union {Absent}] /\ hist = << >> /\ hist \in Seq(Files)
      /\ Len(hist) = 0 /\ proc \in [Process -> ProcRecords]
      /\ journal \in [id : Nat, first : Nat, log : Seq(Entries)]
      /\ journal.id = 1 /\ journal.first = 0 /\ journal.log = << >>
      /\ World.vol = vol /\ World.hist = hist /\ World.journal = journal
  BY <1>1 DEF CacheInv, Typed, Init, World
<1>3. Len(journal.log) = 0 /\ DOMAIN journal.log = {}
  BY <1>2
<1>4. JournalOK(World)
  BY <1>2, <1>3 DEF JournalOK
<1> DEFINE scan == ScanImage(vol, 0)
           image == [scan EXCEPT !.jid = 1]
<1>5. True(World, scan) /\ scan.gaps = {} /\ scan.next = 0 /\ scan.upto = 0
  BY <1>2, <1>4, ScanTrue DEF ScanImage
<1> HIDE DEF scan
<1>6. scan \in Images
  BY <1>5 DEF True
<1>7. /\ image \in Images /\ image.jid = 1 /\ image.next = 0 /\ image.upto = 0
      /\ image.gaps = {} /\ image.recs = scan.recs
  BY <1>5, <1>6 DEF Images
<1> HIDE DEF image
<1>8. InStep(World, 0, 0)
  BY <1>2, <1>3 DEF InStep, JournalNext
<1>9. True(World, image)
  BY <1>2, <1>5, <1>7, <1>8 DEF True
<1>10. SetupSeal(plan.cached) \in TrueHalves(World)
  <2>1. SetupKey \in MadeKeys
    BY DEF SetupKey, MadeKeys
  <2>2. SetupSeal(plan.cached) =
          [key |-> IF plan.cached = "plain" THEN PlainKey ELSE SetupKey,
           nonce |-> SetupKey, image |-> image]
    BY DEF SetupSeal, Seal, image, scan
  <2>3. SetupSeal(plan.cached) \in Seals /\ SetupSeal(plan.cached).image = image
    BY <1>7, <2>1, <2>2 DEF Seals
  <2> QED BY <1>9, <2>3 DEF TrueHalves
<1>11. FilesTrue(World, files)
  <2> SUFFICES ASSUME NEW n \in FileNames \ {"key"}, files[n] # NoFile
               PROVE  files[n] \in Seq(TrueHalves(World))
    BY DEF FilesTrue
  <2>1. files[n] = SetupFile(plan.cached)
    BY NamesAssumption DEF Init, FileNames
  <2> DEFINE s == SetupSeal(plan.cached)
             S == TrueHalves(World)
  <2>2. s \in S /\ files[n] = <<s, s>>
    BY <1>10, <2>1 DEF SetupFile
  <2> HIDE DEF s, S
  <2>3. files[n] \in Seq(S)
    BY <2>2
  <2> QED BY <2>3 DEF S
<1>12. ASSUME NEW p \in Process PROVE Hand(p)
  <2> DEFINE r == proc[p]
  <2>1. r \in ProcRecords
    BY <1>2
  <2>2. /\ r.at = FirstStep[Job(p)] /\ r.goal = "load" /\ r.mem = None /\ r.buf = << >>
        /\ r.out = None /\ r.asIs = FALSE /\ r.began = 0 /\ r.before = {} /\ r.seen.upto = 0
    BY DEF Init
  <2>3. FirstStep[Job(p)] \in {"look", "find", "open", "read", "compacted", "done"}
    <3>1. Job(p) \in {"cached", "update", "get", "frame", "clear", "purge", "flow", "persist", "none"}
      BY PlansAssumption DEF Init, Job, FirstStep
    <3> QED BY <3>1 DEF FirstStep
  <2> HIDE DEF r
  <2>4. << >> \in Seq(TrueHalves(World))
    OBVIOUS
  <2>5. QueryOK(World, spent, Job(p), r) /\ BatchOK(World, r)
    BY <2>2, <2>3 DEF QueryOK, BatchOK
  <2>6. MemOK(World, r)
    BY <2>2, <2>3, <2>4 DEF MemOK, Fresh, Saving, Writing
  <2>7. OutOK(World, spent, Job(p), plan.readOnly, r)
    BY <2>2 DEF OutOK
  <2>8. HandOK(World, spent, Job(p), plan.readOnly, r)
    BY <1>2, <2>1, <2>2, <2>5, <2>6, <2>7 DEF HandOK
  <2> QED BY <2>8 DEF Hand, r
<1> QED BY <1>4, <1>11, <1>12 DEF CurrentInv

LEMMA NextCurrent ==
    ASSUME CacheInv, CurrentInv, [Next]_vars
    PROVE  CurrentInv'
<1>1. ASSUME NEW p \in Process, Step(p) PROVE CurrentInv'
  <2>1. CASE CheckCacheStatus(p) \/ LockToLoad(p) \/ ReadFile(p) \/ Decrypt(p) \/ UseLoaded(p)
    BY <2>1, CurCheckCacheStatus, CurLockToLoad, CurReadFile, CurDecrypt, CurUseLoaded
  <2>2. CASE GetCacheKey(p) \/ DropKey(p) \/ CreateKey(p) \/ WriteKey(p)
    BY <2>2, CurGetCacheKey, CurDropKey, CurCreateKey, CurWriteKey
  <2>3. CASE QueryJournal(p) \/ ReadJournal(p) \/ ApplyUsnChanges(p)
    BY <2>3, CurQueryJournal, CurReadJournal, CurApplyUsnChanges
  <2>4. CASE ScanVolume(p) \/ StampCheckpoint(p) \/ Persist(p) \/ LockToSave(p)
    BY <2>4, CurScanVolume, CurStampCheckpoint, CurPersist, CurLockToSave
  <2>5. CASE CreateTemp(p) \/ WriteTemp(p) \/ RenameTemp(p)
    BY <2>5, CurCreateTemp, CurWriteTemp, CurRenameTemp
  <2>6. CASE FindCached(p) \/ OpenToWipe(p) \/ Wipe(p) \/ Unlink(p) \/ RemoveLock(p)
    BY <2>6, CurFindCached, CurOpenToWipe, CurWipe, CurUnlink, CurRemoveLock
  <2> QED BY <1>1, <2>1, <2>2, <2>3, <2>4, <2>5, <2>6 DEF Step
<1>2. ASSUME NEW p \in Process, Crash(p) PROVE CurrentInv'
  BY <1>2, CurCrash
<1>3. ASSUME NEW f \in Files, NEW name \in Names \union {Absent}, ChangeFile(f, name)
      PROVE  CurrentInv'
  BY <1>3, CurChangeFile
<1>4. CASE LoseJournal
  BY <1>4, CurLoseJournal
<1>5. CASE LoseKey
  BY <1>5, CurLoseKey
<1>6. CASE UNCHANGED vars
  <2>1. World' = World /\ UNCHANGED <<files, plan, proc, spent>> /\ \A p : Job(p)' = Job(p)
    BY <1>6, WorldSame DEF vars, fileVars, envVars
  <2> QED BY <2>1 DEF CurrentInv, Hand
<1> QED BY <1>1, <1>2, <1>3, <1>4, <1>5, <1>6 DEF Next

(***************************************************************************)
(* Whoever was answered has an index that tells the truth of all that did  *)
(* not change after its checkpoint and is not among its gaps, and that is  *)
(* as new as the request, where it may not be served as it is.             *)
(* (read_index_cached, apply_usn_updates_to_fresh_index, cmd_index_update, *)
(* load_or_build_dataframe_cached and build_index_windows.)                *)
(***************************************************************************)
THEOREM ServedAlwaysCurrent == Spec => []ServedIsCurrent
<1>1. Init => CacheInv /\ CurrentInv
  BY InitKeeps, InitCurrent
<1>2. CacheInv /\ CurrentInv /\ [Next]_vars => (CacheInv /\ CurrentInv)'
  BY NextKeeps, NextCurrent
<1>3. CacheInv /\ CurrentInv => ServedIsCurrent
  <2> SUFFICES ASSUME CacheInv, CurrentInv, NEW p \in Process, proc[p].out # None
               PROVE  LET image == proc[p].out
                      IN /\ \A f \in Files \ (image.gaps \union Changed(image)) :
                              Agrees(image.recs[f], vol[f])
                         /\ \/ proc[p].asIs /\ MayServeAsIs(p)
                            \/ image.jid = 0 \/ image.upto >= proc[p].began
    BY DEF ServedIsCurrent
  <2> DEFINE image == proc[p].out
  <2>1. HandOK(World, spent, Job(p), plan.readOnly, proc[p])
    BY DEF CurrentInv, Hand
  <2>2. /\ True(World, image)
        /\ \/ proc[p].asIs /\ MayServe(Job(p), plan.readOnly, spent, proc[p])
           \/ AsNew(image, proc[p])
    BY <2>1 DEF HandOK, OutOK
  <2>3. hist \in Seq(Files) /\ image.upto \in Nat /\ image.upto <= Len(hist)
    BY <2>2 DEF CacheInv, Typed, True, Images, World
  <2>4. Changed(image) = Since(World, image.upto)
    BY <2>3, ChangedIsSince DEF Changed
  <2>5. \A f \in Files \ (image.gaps \union Changed(image)) : Agrees(image.recs[f], vol[f])
    BY <2>2, <2>4 DEF True, World
  <2>6. MayServe(Job(p), plan.readOnly, spent, proc[p]) => MayServeAsIs(p)
    BY DEF MayServe, MayServeAsIs, LostSince, Losses
  <2> QED BY <2>2, <2>5, <2>6 DEF AsNew
<1> QED BY <1>1, <1>2, <1>3, PTL DEF Spec
=============================================================================
