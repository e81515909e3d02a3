----------------------------- MODULE CacheImage -----------------------------
(***************************************************************************)
(* What a cache of a volume holds and how it is brought up to date: the    *)
(* image a full read makes, the checkpoint in the change journal it is     *)
(* saved with, the decision what the journal still allows, the deletions   *)
(* and the re-reads of single records, and the sealing of an image in an   *)
(* authenticated file.                                                     *)
(*                                                                         *)
(* A record keeps every name it was given; the first is the primary one.   *)
(* A file of Spilled keeps its name in an extension record.                *)
(***************************************************************************)
EXTENDS FileStore, FiniteSets, SequencesExt

CONSTANTS
  Files,     \* record numbers of the volume
  Names,     \* file names
  Spilled,   \* the files whose $FILE_NAME is in an extension record
  Absent     \* the record is not in use

ASSUME ImageAssumption ==
  /\ Spilled \subseteq Files
  /\ Names # {} /\ Absent \notin Names

NoRecord == [live |-> FALSE, names |-> << >>]

(***************************************************************************)
(* An image: its records, the journal checkpoint in its header (0, 0 when  *)
(* the journal could not be queried), and two facts the code does not      *)
(* keep: how many of the volume's changes it has seen, and the files of    *)
(* which it may have missed one below its checkpoint.                      *)
(***************************************************************************)
ScanImage(vol, seen) ==
  [recs |-> [f \in Files |-> IF vol[f] = Absent THEN NoRecord
                             ELSE [live |-> TRUE, names |-> <<vol[f]>>]],
   jid |-> 0, next |-> 0, upto |-> seen, gaps |-> {}]

JournalNext(j) == j.first + Len(j.log)

-----------------------------------------------------------------------------
(* Mutant: a wrapped journal goes unnoticed. *)
InvalidatesById(image, j) == image.jid # 0 /\ j.id # image.jid

JournalInvalidates(image, j) ==
  \/ image.jid # 0 /\ j.id # image.jid
  \/ image.next < j.first

ClassifyUsnState(image, j) ==
  IF JournalInvalidates(image, j) THEN "rebuild"
  ELSE IF image.next >= JournalNext(j) THEN "cached" ELSE "apply"

(* A journal entry that is gone, or another journal, is an error.          *)
Readable(j, id, start) == j.id = id /\ start >= j.first

ReadUsnJournal(j, start) == SubSeq(j.log, start - j.first + 1, Len(j.log))

(***************************************************************************)
(* The last creation, deletion or rename of a file decides.                *)
(***************************************************************************)
NetChange(batch, f) ==
  LET at == {i \in DOMAIN batch : batch[i].file = f}
  IN IF at = {} THEN "none" ELSE batch[Max(at)].op

DeletedIn(batch) == {f \in Files : NetChange(batch, f) = "deleted"}

FrsToRead(batch) == {f \in Files : NetChange(batch, f) \in {"created", "renamed"}}

ApplyDeletes(recs, batch) ==
  [f \in Files |-> IF f \in DeletedIn(batch) THEN [recs[f] EXCEPT !.live = FALSE]
                   ELSE recs[f]]

(***************************************************************************)
(* A record with its name in the base record is replaced; one whose name   *)
(* is in an extension record keeps its names and gets one more.            *)
(***************************************************************************)
ParseRecordToIndex(r, f, vol) ==
  IF vol[f] = Absent THEN r
  ELSE IF f \in Spilled THEN [live |-> TRUE, names |-> Append(r.names, vol[f])]
  ELSE [live |-> TRUE, names |-> <<vol[f]>>]

TargetedReads(recs, frs, vol) ==
  [f \in Files |-> IF f \in frs THEN ParseRecordToIndex(recs[f], f, vol) ELSE recs[f]]

-----------------------------------------------------------------------------
(***************************************************************************)
(* A sealed file: both halves carry the same key, nonce and image. Key 0   *)
(* is a file from before there was encryption.                             *)
(***************************************************************************)
Seal(key, nonce, image) == [key |-> key, nonce |-> nonce, image |-> image]

PlainKey == <<"none", "plain">>

Whole(content) ==
  Len(content) = 2 /\ content[1] # Blank /\ content[1] = content[2]

DetectFormat(content) ==
  IF content = << >> \/ content[1] = Blank THEN "unknown"
  ELSE IF content[1].key = PlainKey THEN "plain" ELSE "encrypted"

(* Mutant: the authentication tag covers the header only. *)
DecryptsHeader(content, key) == content # << >> /\ content[1].key = key

(* The authentication tag covers the header and all of the content.        *)
Decrypts(content, key) == Whole(content) /\ content[1].key = key

=============================================================================
