------------------------------ MODULE MftVolume ------------------------------
(***************************************************************************)
(* A volume as the readers see it: what the disk holds (a segment at some  *)
(* of its positions), the extents of its $MFT, and what its driver tells   *)
(* of it: whether the extents and the bitmap can be had, and whether it is *)
(* a solid-state drive.                                                    *)
(***************************************************************************)
EXTENDS MftPlan, MftParse

(***************************************************************************)
(* A volume whose extents cannot be had is read as one contiguous run      *)
(* from the first cluster of the $MFT.                                     *)
(***************************************************************************)
Extents(v) ==
  IF v.extentsKnown THEN v.extents
  ELSE ContiguousMap(v.extents[1].lcn, TotalRecords(v.extents))

Segment(v, position) ==
  IF position \in DOMAIN v.disk THEN <<v.disk[position]>> ELSE << >>

(***************************************************************************)
(* What a read finds: the record numbers it thinks it holds, each with its *)
(* segment, without what is no FILE record or fails its fixup.             *)
(***************************************************************************)
KeepReadable(kept, r) == IF r.seg = << >> THEN kept ELSE Append(kept, r)

Found(v, op, torn) ==
  LET frs(i) == op.frs + i - 1
      seg(i) == IF frs(i) \in torn THEN << >> ELSE Segment(v, op.disk + i - 1)
  IN FoldLeft(KeepReadable, << >>, [i \in 1 .. op.count |-> [frs |-> frs(i), seg |-> seg(i)]])

(***************************************************************************)
(* The readers that collect records first parse each (record number,       *)
(* segment) pair on its own and merge the extensions into their bases.     *)
(***************************************************************************)
KeepParsed(kept, r) ==
  IF r.seg[1].used THEN Append(kept, ParseRecordFull(r.frs, r.seg[1])) ELSE kept

Collected(records) == MergeResults(FoldLeft(KeepParsed, << >>, records))

(* The $MFT opened as a file: the file system maps it, record by record. *)
FilePlan(v) ==
  LET records == Least(TotalRecords(Extents(v)), TotalRecords(v.extents))
  IN [i \in 1 .. records |->
        [disk |-> PhysicalOffset(v.extents, i - 1), frs |-> i - 1, count |-> 1]]
=============================================================================
