--------------------------- MODULE CacheProperties ---------------------------
(***************************************************************************)
(* What the caches promise to those who use them.                          *)
(***************************************************************************)
EXTENDS CacheJobs

Images ==
  [recs : [Files -> [live : BOOLEAN, names : Seq(Names)]],
   jid : Nat, next : Nat, upto : Nat, gaps : SUBSET Files]

MadeKeys == (Process \union {"setup"}) \X {"load", "save", "migrate"}

Seals == [key : MadeKeys \union {PlainKey}, nonce : MadeKeys, image : Images]

ASSUME HalvesAssumption ==
  /\ None \notin Images /\ Blank \notin Seals
  /\ NoFile \notin Seq(Seals \union {Blank})

(***************************************************************************)
(* The types; and a process that is through holds neither the lock nor an  *)
(* open file, whichever way it came to its end: the next one would wait    *)
(* for the whole of the lock's timeout, and then go without its cache.     *)
(* (with_file_lock and the handles of cache.rs and security fs.rs.)        *)
(***************************************************************************)
TypeOK ==
  /\ handle \in [Process -> FileNames \union {NoFile}]
  /\ lock \in [Process -> {"none", "shared", "exclusive"}]
  /\ DOMAIN files = FileNames
  /\ \A p \in Process :
       /\ proc[p].mem \in Images \union {None}
       /\ proc[p].at \in Ended => lock[p] = "none" /\ handle[p] = NoFile

Changed(image) == ToSet(SubSeq(hist, image.upto + 1, Len(hist)))

Agrees(rec, name) ==
  IF name = Absent THEN ~rec.live ELSE rec.live /\ name \in ToSet(rec.names)

(***************************************************************************)
(* A refresh answers with a cache as it is when the journal cannot be      *)
(* queried or read, and when entries went away between the two.            *)
(***************************************************************************)
MayServeAsIs(p) ==
  \/ Job(p) # "cached" \/ plan.readOnly
  \/ spent \intersect {"query", "journal"} # {}
  \/ (spent \intersect {"trim", "recreate"}) # proc[p].before

(***************************************************************************)
(* An index that was handed out tells the truth of every file that did not *)
(* change after its checkpoint, but for the gaps it was made with; and who *)
(* asked got every change made before the request, unless the cache may be *)
(* served as it is, or its checkpoint was not known. A wrapped or          *)
(* recreated journal, a cache another process has replaced meanwhile, or a *)
(* file the wiper has begun with must not get in between.                  *)
(* (read_index_cached, apply_usn_updates_to_fresh_index, cmd_index_update, *)
(* load_or_build_dataframe_cached and build_index_windows.)                *)
(***************************************************************************)
ServedIsCurrent ==
  \A p \in Process :
    LET image == proc[p].out
    IN image # None =>
         /\ \A f \in Files \ (image.gaps \union Changed(image)) :
              Agrees(image.recs[f], vol[f])
         /\ \/ proc[p].asIs /\ MayServeAsIs(p)
            \/ image.jid = 0 \/ image.upto >= proc[p].began

(***************************************************************************)
(* Caches are an optimisation: whatever happens to the file, its lock, its *)
(* key or the journal, who asked for an index has one in the end, unless   *)
(* the volume itself cannot be read. (The non-fatal errors of index_cache  *)
(* and usn_apply, cache_dataframe.rs and drive_manager.rs.)                *)
(***************************************************************************)
EveryRequestServed ==
  \A p \in Process :
    Job(p) \in {"cached", "frame", "flow"} =>
      /\ proc[p].at = "done" => proc[p].out # None
      /\ proc[p].at = "failed" => "volume" \in spent

(***************************************************************************)
(* Under its name the .uffs file is one writer's, and complete, at every   *)
(* moment, whoever saves at the same time and wherever it crashes: zeros   *)
(* in it are those of a removal that is under way, or was interrupted.     *)
(* (atomic_write, secure_remove, save_to_cache_background.)                *)
(***************************************************************************)
IndexFileWhole ==
  LET content == files["index"]
      halves == ToSet(content) \ {Blank}
  IN content # NoFile =>
       /\ Len(content) = 2 /\ Cardinality(halves) <= 1
       /\ Blank \in ToSet(content) =>
            "crash" \in spent \/ \E p \in Process : handle[p] = "index"

(***************************************************************************)
(* What a reader accepts was written as a whole by one writer, although    *)
(* the engine's writers share one temporary name: two of them may mix      *)
(* their halves in it, and the second may write on in the file the first   *)
(* has already renamed. (write_flow_cache, read_flow_cache, decrypt_cache, *)
(* load_from_file.)                                                        *)
(***************************************************************************)
LoadedIsWhole ==
  \A p \in Process :
    proc[p].at = "loaded" =>
      Whole(proc[p].buf) /\ proc[p].mem = proc[p].buf[1].image

(***************************************************************************)
(* When all have ended, no private temporary file is left, whichever write *)
(* failed and whoever swept the directory meanwhile, unless a process died *)
(* between its creation and its rename. (atomic_write.)                    *)
(***************************************************************************)
NoLitter ==
  (\A p \in Process : proc[p].at \in Ended) /\ "crash" \notin spent
    => \A p \in Process : ~Exists(p)

=============================================================================
