------------------------------ MODULE MftPlan ------------------------------
(***************************************************************************)
(* The read plan of the $MFT: which pieces of the disk are read and which  *)
(* record numbers (FRS) they are taken to hold.  Everything is counted in  *)
(* records, so a disk offset is a record position on the disk.             *)
(***************************************************************************)
EXTENDS Integers, Sequences, SequencesExt, FiniteSetsExt

CONSTANTS
  RecordsPerCluster,  \* bytes_per_cluster / bytes_per_record
  ChunkRecords,       \* chunk_size / record_size
  IoRecords,          \* io_chunk_size / record_size of the sub-divided reads
  MaxIoRecords,       \* max_io_size / record_size of the precise plan
  MaxMergedRecords,   \* MAX_CHUNK_BYTES / record_size of the merged chunks
  MergeThreshold      \* records of gap that two merged chunks may span

ASSUME PlanAssumption ==
  /\ {RecordsPerCluster, ChunkRecords, IoRecords, MaxIoRecords} \subseteq Nat \ {0}
  /\ MaxMergedRecords \in Nat
  /\ MergeThreshold \in Nat

Hole == -1

-----------------------------------------------------------------------------
(***************************************************************************)
(* An extent maps count clusters from virtual cluster vcn to disk cluster  *)
(* lcn, or to nothing.  The extents of an $MFT are in ascending vcn order. *)
(***************************************************************************)
IsExtentMap(extents) ==
  /\ extents \in Seq([vcn : Nat, count : Nat \ {0}, lcn : Nat \union {Hole}])
  /\ \A i, j \in DOMAIN extents : i < j => extents[i].vcn + extents[i].count <= extents[j].vcn

FirstFrs(e) == e.vcn * RecordsPerCluster
EndFrs(e)   == (e.vcn + e.count) * RecordsPerCluster

FindExtent(extents, vcn) ==
  {i \in DOMAIN extents : vcn >= extents[i].vcn /\ vcn < extents[i].vcn + extents[i].count}

PhysicalOffset(extents, frs) ==
  LET vcn  == frs \div RecordsPerCluster
      hits == FindExtent(extents, vcn)
  IN IF \E i \in hits : extents[i].lcn # Hole
     THEN LET e == extents[CHOOSE i \in hits : TRUE]
          IN (e.lcn + vcn - e.vcn) * RecordsPerCluster + (frs % RecordsPerCluster)
     ELSE Hole

TotalRecords(extents) ==
  FoldLeft(LAMBDA n, e : n + e.count * RecordsPerCluster, 0, extents)

ContiguousMap(start, records) ==
  << [vcn   |-> 0,
      count |-> (records + RecordsPerCluster - 1) \div RecordsPerCluster,
      lcn   |-> start] >>

-----------------------------------------------------------------------------
(***************************************************************************)
(* Cutting a run of records into chunks of at most size records.           *)
(***************************************************************************)
Least(a, b) == IF a < b THEN a ELSE b
Most(a, b)  == IF a > b THEN a ELSE b

Cut(disk, frs, records, size) ==
  [i \in 1 .. (records + size - 1) \div size |->
     [disk  |-> disk + (i - 1) * size,
      frs   |-> frs + (i - 1) * size,
      count |-> Least(size, records - (i - 1) * size)]]

SplitExtentIntoChunks(e) ==
  IF e.lcn = Hole THEN << >>
  ELSE Cut(e.lcn * RecordsPerCluster, FirstFrs(e), EndFrs(e) - FirstFrs(e), ChunkRecords)

ChunkEnd(c) == c.disk + c.count

(***************************************************************************)
(* Both merges walk the chunks once, starting from the first: the last     *)
(* chunk kept is stretched to count records, or the next one is kept too.  *)
(***************************************************************************)
StretchOrKeep(kept, n, joins, count) ==
  IF joins
  THEN Append(Front(kept), [Last(kept) EXCEPT !.count = count])
  ELSE Append(kept, n)

(* Mutant: a saturating gap, 0 for a chunk that lies before this one. *)
JoinSaturating(kept, n) ==
  LET c == Last(kept)
  IN StretchOrKeep(kept, n,
       /\ n.disk - ChunkEnd(c) <= MergeThreshold
       /\ n.frs - (c.frs + c.count) <= MergeThreshold
       /\ n.frs + n.count - c.frs <= MaxMergedRecords,
       n.frs + n.count - c.frs)

JoinAdjacent(kept, n) ==
  LET c == Last(kept)
  IN StretchOrKeep(kept, n,
       /\ n.disk \in ChunkEnd(c) .. (ChunkEnd(c) + MergeThreshold)
       /\ n.frs - (c.frs + c.count) <= MergeThreshold
       /\ n.frs + n.count - c.frs <= MaxMergedRecords,
       n.frs + n.count - c.frs)

MergeAdjacentChunks(chunks) ==
  IF chunks = << >> THEN chunks
  ELSE FoldLeft(JoinAdjacent, <<Head(chunks)>>, Tail(chunks))

GenerateReadChunks(extents, bitmapKnown) ==
  LET chunks == FlattenSeq([i \in DOMAIN extents |-> SplitExtentIntoChunks(extents[i])])
  IN IF bitmapKnown THEN chunks ELSE MergeAdjacentChunks(chunks)

-----------------------------------------------------------------------------
(***************************************************************************)
(* The precise plan reads only the clusters that the $MFT bitmap shows in  *)
(* use: inUse is the set of record numbers whose bit is set, records the   *)
(* number of bits.                                                         *)
(***************************************************************************)
ClusterHasInUse(inUse, c) ==
  \E frs \in inUse : frs \div RecordsPerCluster = c

InUseClusterRanges(inUse, records) ==
  LET busy   == {c \in 0 .. (records - 1) \div RecordsPerCluster : ClusterHasInUse(inUse, c)}
      starts == {c \in busy : c - 1 \notin busy}
      end(c) == CHOOSE d \in c + 1 .. c + Cardinality(busy) :
                  d \notin busy /\ c .. d - 1 \subseteq busy
      nth(i) == CHOOSE c \in starts : Cardinality({d \in starts : d < c}) = i - 1
  IN [i \in 1 .. Cardinality(starts) |-> [vcn |-> nth(i), count |-> end(nth(i)) - nth(i)]]

SplitExtentIntoPreciseChunks(e, ranges) ==
  LET piece(r) ==
        LET from == Most(FirstFrs(r), FirstFrs(e))
            to   == Least(EndFrs(r), EndFrs(e))
        IN IF to <= from THEN << >>
           ELSE Cut(e.lcn * RecordsPerCluster + from - FirstFrs(e), from, to - from, MaxIoRecords)
  IN IF e.lcn = Hole THEN << >>
     ELSE FlattenSeq([i \in DOMAIN ranges |-> piece(ranges[i])])

(* The sort is stable. *)
ByDiskOffset(chunks) ==
  LET before(i, j) == \/ chunks[i].disk < chunks[j].disk
                      \/ chunks[i].disk = chunks[j].disk /\ i < j
      nth(n) == CHOOSE i \in DOMAIN chunks :
                  Cardinality({j \in DOMAIN chunks : before(j, i)}) = n - 1
  IN [n \in DOMAIN chunks |-> chunks[nth(n)]]

(***************************************************************************)
(* The precise merge looks at the disk alone: the record numbers of the    *)
(* two chunks are not compared.                                            *)
(***************************************************************************)
JoinPrecise(kept, n) ==
  LET c == Last(kept)
  IN StretchOrKeep(kept, n,
       /\ n.disk - ChunkEnd(c) <= MergeThreshold
       /\ ChunkEnd(n) - c.disk <= MaxIoRecords,
       ChunkEnd(n) - c.disk)

MergePreciseChunks(chunks) ==
  LET sorted == ByDiskOffset(chunks)
  IN IF chunks = << >> THEN chunks
     ELSE FoldLeft(JoinPrecise, <<Head(sorted)>>, Tail(sorted))

GeneratePreciseReadChunks(extents, inUse, records) ==
  LET ranges == InUseClusterRanges(inUse, records)
  IN MergePreciseChunks(
       FlattenSeq([i \in DOMAIN extents |-> SplitExtentIntoPreciseChunks(extents[i], ranges)]))

-----------------------------------------------------------------------------
(***************************************************************************)
(* The reads of the sliding window: whole chunks on solid-state drives,    *)
(* pieces of IoRecords on the others, in ascending disk order.             *)
(***************************************************************************)
IoOps(chunks, direct) ==
  LET sorted == ByDiskOffset(chunks)
  IN IF direct THEN sorted
     ELSE FlattenSeq([i \in DOMAIN sorted |->
            Cut(sorted[i].disk, sorted[i].frs, sorted[i].count, IoRecords)])

-----------------------------------------------------------------------------
(***************************************************************************)
(* What a plan has to do for the records frs it is made for: one read and  *)
(* no more covers each, and it finds the record at the place on the disk   *)
(* where the extents put it.                                               *)
(***************************************************************************)
Covers(op, frs) == frs \in op.frs .. op.frs + op.count - 1

PlanReads(ops, extents, wanted) ==
  \A frs \in wanted :
    /\ Cardinality({i \in DOMAIN ops : Covers(ops[i], frs)}) = 1
    /\ \A i \in DOMAIN ops :
         Covers(ops[i], frs) => ops[i].disk + frs - ops[i].frs = PhysicalOffset(extents, frs)
=============================================================================
