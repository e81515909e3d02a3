----------------------------- MODULE IndexFeed -----------------------------
(***************************************************************************)
(* One volume, its USN journal, and the index that follows it: the records *)
(* of one poll are aggregated to one change per file record                *)
(* (mft/src/usn/mod.rs), converted to events in the order of a HashMap     *)
(* (engine/src/usn_source.rs) and applied to the overlay                   *)
(* (core/src/index.rs), which compaction folds into a new base.            *)
(***************************************************************************)
EXTENDS EsIndex

CONSTANTS
    Recs,        \* file record numbers, the low 48 bits of references
    Dirs,        \* those that only ever hold directories
    Root,        \* record 5
    NoRec,       \* no record: the parent of the root
    Names, RootName,
    InitVolume,  \* what the MFT read found: record -> [parent, name]
    Env,         \* what this instance lets happen between two polls
    MaxOps       \* bound on the changes of the volume

(* A volume is a tree of directories under its root.                        *)
ASSUME FeedAssumption ==
    /\ IsFiniteSet(Recs) /\ Recs \subseteq Nat /\ MinSpan \in Nat
    /\ Dirs \subseteq Recs /\ Root \in Dirs /\ NoRec \notin Recs
    /\ RootName \notin Names
    /\ Root \in DOMAIN InitVolume /\ DOMAIN InitVolume \subseteq Recs
    /\ InitVolume = [r \in DOMAIN InitVolume |-> InitVolume[r]]
    /\ InitVolume[Root] = [parent |-> NoRec, name |-> RootName]
    /\ \A r \in DOMAIN InitVolume \ {Root} :
          InitVolume[r] \in [parent : Dirs \cap DOMAIN InitVolume, name : Names]
    /\ \A r, s \in DOMAIN InitVolume : InitVolume[r] = InitVolume[s] => r = s
    /\ Env \subseteq {"reuse", "open", "intoNew"}
    /\ MaxOps \in Nat

VARIABLES
    volume,   \* record -> [parent, name] of the files that exist
    open,     \* files whose creating handle is not closed yet
    pending,  \* record -> its journal records since the last poll, aggregated
    index,
    ambiguous, \* history: records that had several entries when a sorted map
               \* was built of them, until they are created again
    ops

vars == <<volume, open, pending, index, ambiguous, ops>>

-----------------------------------------------------------------------------
(* FileChange; "created" and so on are UsnRecord::change_type.              *)

NoChange == [parent |-> NoRec, name |-> RootName,
             created |-> FALSE, deleted |-> FALSE, renamed |-> FALSE]

(* aggregate_changes, one record of the journal at a time: the last create  *)
(* or delete wins, name and parent are the latest.                          *)
Aggregate(change, parent, name, type) ==
    LET c == [change EXCEPT !.parent = parent, !.name = name] IN
    CASE type = "created" -> [c EXCEPT !.created = TRUE, !.deleted = FALSE,
                                       !.renamed = FALSE]
      [] type = "deleted" -> [c EXCEPT !.deleted = TRUE, !.created = FALSE,
                                       !.renamed = FALSE]
      [] type = "renamed" -> [c EXCEPT !.renamed = TRUE, !.deleted = FALSE]
      [] OTHER -> c

Changed == {r \in Recs : \/ pending[r].created \/ pending[r].deleted
                         \/ pending[r].renamed}

(* convert_records                                                          *)
EventOf(r) ==
    LET c == pending[r] IN
    [kind |-> IF c.deleted THEN "delete"
              ELSE IF c.created THEN "create" ELSE "rename",
     ref |-> r, parent |-> c.parent, name |-> c.name]

-----------------------------------------------------------------------------
(* The volume.  NTFS keeps names unique in a directory, directories empty   *)
(* before they go, and directories out of themselves.  Reasons accumulate   *)
(* while a file is open, so until it is closed every record of a new file   *)
(* says that it was created.                                                *)

Emit(r, parent, name, type) ==
    pending' = [pending EXCEPT ![r] = Aggregate(@, parent, name, type)]

Free(parent, name) ==
    \A r \in DOMAIN volume : volume[r] # [parent |-> parent, name |-> name]

(* r and the directories above it.                                          *)
AtOrAbove(r) ==
    LET up[n \in 0 .. Cardinality(Recs)] ==
          IF n = 0 THEN {r}
          ELSE LET below == up[n - 1] IN
               below \cup {volume[s].parent : s \in below \ {NoRec}}
    IN up[Cardinality(Recs)]

Step == ops < MaxOps /\ ops' = ops + 1 /\ UNCHANGED <<index, ambiguous>>

Create(r, parent, name) ==
    /\ Step
    /\ r \notin DOMAIN volume
    /\ parent \in Dirs \cap DOMAIN volume
    /\ Free(parent, name)
    /\ "reuse" \in Env \/ ~pending[r].deleted
    /\ volume' = Put(volume, r, [parent |-> parent, name |-> name])
    /\ Emit(r, parent, name, "created")
    /\ open' = IF "open" \in Env THEN open \cup {r} ELSE open

(* The first handle of a new file is closed after more was written.         *)
Close(r) ==
    /\ r \in open
    /\ open' = open \ {r}
    /\ Emit(r, volume[r].parent, volume[r].name, "created")
    /\ UNCHANGED <<volume, index, ambiguous, ops>>

Rename(r, parent, name) ==
    /\ Step
    /\ r \in DOMAIN volume \ {Root}
    /\ parent \in Dirs \cap DOMAIN volume
    /\ r \notin AtOrAbove(parent)
    /\ Free(parent, name)
    /\ "intoNew" \in Env \/ ~pending[parent].created
    /\ volume' = [volume EXCEPT ![r] = [parent |-> parent, name |-> name]]
    /\ Emit(r, parent, name, IF r \in open THEN "created" ELSE "renamed")
    /\ open' = open

Delete(r) ==
    /\ Step
    /\ r \in DOMAIN volume \ {Root}
    /\ \A s \in DOMAIN volume : volume[s].parent # r
    /\ volume' = [s \in DOMAIN volume \ {r} |-> volume[s]]
    /\ Emit(r, volume[r].parent, volume[r].name, "deleted")
    /\ open' = open \ {r}

-----------------------------------------------------------------------------
(* One turn of the poll loop, under the write lock, and a compaction that   *)
(* commits (module Engine has the interleavings of the two).                *)

Poll ==
    /\ Changed # {}
    /\ \E order \in SetToSeqs(Changed) :
          index' = ApplyEvents(index, [n \in DOMAIN order |-> EventOf(order[n])])
    /\ pending' = [r \in Recs |-> NoChange]
    /\ ambiguous' = ambiguous \ {r \in Changed : EventOf(r).kind = "create"}
    /\ UNCHANGED <<volume, open, ops>>

Compact ==
    /\ ShouldCompact(index)
    /\ LET base == RebuiltBase(index)
           pairs == RefPairs(base) IN
       /\ \E map \in RefMaps(pairs) : index' = FromBase(base, map)
       /\ ambiguous' = IF IsDense(pairs) THEN ambiguous
                                         ELSE ambiguous \cup Repeated(pairs)
    /\ UNCHANGED <<volume, open, pending, ops>>

-----------------------------------------------------------------------------
(* build_index_from_mft_index puts the root first and every record after    *)
(* its parent.                                                              *)
InitBases ==
    {base \in {[n \in DOMAIN order |->
                  [ref |-> order[n], name |-> InitVolume[order[n]].name,
                   parent |-> IF order[n] = Root THEN NoIdx
                              ELSE CHOOSE k \in DOMAIN order :
                                     order[k] = InitVolume[order[n]].parent]] :
               order \in SetToSeqs(DOMAIN InitVolume)} :
     \A n \in DOMAIN base : base[n].parent < n}

Init ==
    /\ volume = InitVolume
    /\ open = {}
    /\ pending = [r \in Recs |-> NoChange]
    /\ \E base \in InitBases : \E map \in RefMaps(RefPairs(base)) :
          index = FromBase(base, map)
    /\ ambiguous = {}
    /\ ops = 0

Next ==
    \/ \E r \in Recs \ {Root} : \E parent \in Dirs, name \in Names :
          Create(r, parent, name) \/ Rename(r, parent, name)
    \/ \E r \in Recs \ {Root} : Delete(r) \/ Close(r)
    \/ Poll
    \/ Compact

Spec == Init /\ [][Next]_vars

-----------------------------------------------------------------------------
Entries(r) == {i \in Visible(index) : RefOf(index, i) = r}

(* A record of the volume as the index shows it: exactly one entry, with    *)
(* its name and the record of its parent.                                   *)
EntryShown(r) ==
    LET i == CHOOSE i \in Entries(r) : TRUE
        p == ParentOf(index, i) IN
    IF Cardinality(Entries(r)) # 1 THEN [parent |-> r, name |-> NoRec]
    ELSE [parent |-> IF p = NoIdx THEN NoRec ELSE RefOf(index, p),
          name |-> NameOf(index, i)]

Shown == [r \in {r \in Recs : Entries(r) # {}} |-> EntryShown(r)]

M == INSTANCE Mirror WITH shown <- Shown

(* The index implements Mirror: at each poll it comes to show exactly the   *)
(* volume, whatever order the events are applied in, and compaction changes *)
(* nothing.  It holds between polls that see no record number reused, no    *)
(* new file still open and nothing moved into a directory just created.     *)
MirrorsVolume == M!Spec

Settled == Changed = {}

(* After a poll, looking up the record of a file that exists gives one of   *)
(* its visible entries, also where the index keeps stale entries of the     *)
(* record, and one of its entries has its current name.  It is the one      *)
(* found, whatever compactions there were, unless one of them built a       *)
(* sorted map while the record had several entries: then the lookup may     *)
(* stay with a stale one, which later renames go to (ref_lookup, its        *)
(* overrides, and FileRefMap over a base with duplicates).                  *)
LookupIsCurrent ==
    Settled => \A r \in DOMAIN volume :
        LET i == RefLookup(index, r) IN
        /\ i \in Entries(r)
        /\ \E j \in Entries(r) : NameOf(index, j) = volume[r].name
        /\ r \notin ambiguous => NameOf(index, i) = volume[r].name

(* The three passes of logical_children_inner list a visible entry under    *)
(* exactly the directory that logical_parent names.                         *)
ChildrenAgreeWithParents ==
    \A d \in Visible(index) :
        LET kids == Children(index, d) IN
        {i \in Visible(index) : ParentOf(index, i) = d} = {kids[n] : n \in DOMAIN kids}
=============================================================================
