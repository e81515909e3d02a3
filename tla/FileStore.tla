----------------------------- MODULE FileStore -----------------------------
(***************************************************************************)
(* The file system below the caches, as the code uses it: named files, a   *)
(* handle each process may hold on one of them, and the advisory lock of   *)
(* the index file. A file is as many of its two halves as are written, so  *)
(* that a write takes two steps and two writers can mix.                   *)
(*                                                                         *)
(* A handle follows its file: it is kept as the name the file has now, or  *)
(* as NoFile when the file was removed or replaced under it.               *)
(***************************************************************************)
EXTENDS Sequences, Integers

CONSTANTS
  Process,  \* the processes and threads; the name of p's private temp is p
  NoFile,   \* no file, or a handle whose file has no name any more
  Blank     \* a half overwritten with zeros, or never written

VARIABLES
  files,   \* what is under each name: a sequence of halves, or NoFile
  handle,  \* the name of the file a process writes to, or NoFile
  lock,    \* "none", "shared" or "exclusive": what a process holds
  dir      \* the index cache directory exists

fileVars == <<files, handle, lock, dir>>

FileNames == {"key", "index", "flow", "flowtmp"} \union Process

ASSUME NamesAssumption ==
  /\ Process \intersect {"key", "index", "flow", "flowtmp"} = {}
  /\ NoFile \notin FileNames

Exists(n) == files[n] # NoFile

-----------------------------------------------------------------------------
(* File::create: an existing file is emptied, whoever else writes to it.   *)
CreateFile(p, n) ==
  /\ files' = [files EXCEPT ![n] = << >>]
  /\ handle' = [handle EXCEPT ![p] = n]

OpenFile(p, n) == handle' = [handle EXCEPT ![p] = n] /\ UNCHANGED files

Put(content, i, half) ==
  [k \in 1 .. (IF Len(content) < i THEN i ELSE Len(content)) |->
     IF k = i THEN half
     ELSE IF k <= Len(content) THEN content[k] ELSE Blank]

(* The i-th half, at the place the handle stands, wherever its file is now.*)
WritePart(p, i, half) ==
  files' = IF handle[p] = NoFile THEN files
           ELSE [files EXCEPT ![handle[p]] = Put(@, i, half)]

(* Rename over the target; the writer has closed its own handle.           *)
RenameFile(p, from, to) ==
  /\ files' = [files EXCEPT ![to] = files[from], ![from] = NoFile]
  /\ handle' = [q \in Process |->
                  IF q = p \/ handle[q] = to THEN NoFile
                  ELSE IF handle[q] = from THEN to ELSE handle[q]]

RemoveFiles(names) ==
  /\ files' = [n \in FileNames |-> IF n \in names THEN NoFile ELSE files[n]]
  /\ handle' = [q \in Process |-> IF handle[q] \in names THEN NoFile ELSE handle[q]]

(* What a process leaves when it returns from an operation early.          *)
CloseFile(p) == handle' = [handle EXCEPT ![p] = NoFile]

-----------------------------------------------------------------------------
MayLock(p, kind) ==
  \A q \in Process \ {p} :
    IF kind = "shared" THEN lock[q] # "exclusive" ELSE lock[q] = "none"

Lock(p, kind) == lock' = [lock EXCEPT ![p] = kind]

Unlock(p) == Lock(p, "none")

(* The lock is on the file, and a removed file is created anew: who held   *)
(* it excludes nobody from now on.                                         *)
RemoveLockFile == lock' = [p \in Process |-> "none"]

=============================================================================
