--------------------------- MODULE MftProperties ---------------------------
(***************************************************************************)
(* What the reading of a volume promises.                                  *)
(***************************************************************************)
EXTENDS MftReader

(***************************************************************************)
(* The volume itself, as the file system would tell it: the record numbers *)
(* its extents map, the segments in use, the attributes of a base record   *)
(* over all of its segments.                                               *)
(***************************************************************************)
Mapped(v) ==
  {frs \in 0 .. TotalRecords(v.extents) - 1 : PhysicalOffset(v.extents, frs) # Hole}

SegmentOf(v, frs) == Segment(v, PhysicalOffset(v.extents, frs))

InUse(v) == {frs \in Mapped(v) : SegmentOf(v, frs) # << >> /\ SegmentOf(v, frs)[1].used}

Live(v) == InUse(v) \ gone

Owner(v, frs) == BaseOf(frs, SegmentOf(v, frs)[1])

Counts(a) == a.kind # "name" \/ a.ns # DosOnly

AttributesOf(v, b, kinds) ==
  LET attrs(frs) == SegmentOf(v, frs)[1].attrs
      here(frs)  == {i \in DOMAIN attrs(frs) : attrs(frs)[i].kind \in kinds /\ Counts(attrs(frs)[i])}
  IN UNION {{<<frs, i>> : i \in here(frs)} : frs \in {f \in Live(v) : Owner(v, f) = b}}

Attribute(v, at) == SegmentOf(v, at[1])[1].attrs[at[2]]

(* A segment says that its record is a directory by its flag or its index.  *)
SaysDirectory(v, frs) ==
  \/ SegmentOf(v, frs)[1].dir
  \/ \E i \in DOMAIN SegmentOf(v, frs)[1].attrs : SegmentOf(v, frs)[1].attrs[i].kind = "i30"

(* The segment with the standard information has the flag if any says so.   *)
ASSUME DirectoryAssumption ==
  \A v \in Volumes : \A f, g \in InUse(v) :
    LET seg == SegmentOf(v, f)[1]
    IN (\E i \in DOMAIN seg.attrs : seg.attrs[i].kind = "si")
         /\ Owner(v, f) = Owner(v, g) /\ SaysDirectory(v, g) => seg.dir

NamesOf(v, b) ==
  {[parent |-> Attribute(v, at).parent, id |-> Attribute(v, at).id] :
     at \in AttributesOf(v, b, {"name"})}

Owners(v) == {Owner(v, frs) : frs \in Live(v)}

(***************************************************************************)
(* Extents that lie close together, though not as close as their record    *)
(* numbers: without a bitmap the merge of chunks takes them for one run.   *)
(***************************************************************************)
Misnumbered(v) ==
  LET real == {i \in DOMAIN v.extents : v.extents[i].lcn # Hole}
  IN \E i, j \in real :
       LET e   == v.extents[i]
           gap == (v.extents[j].lcn - e.lcn - e.count) * RecordsPerCluster
       IN /\ i < j /\ real \intersect (i + 1 .. j - 1) = {}
          /\ gap \in 0 .. MergeThreshold /\ gap # FirstFrs(v.extents[j]) - EndFrs(e)

-----------------------------------------------------------------------------
TypeOK ==
  /\ WindowTypeOK
  /\ source \in Sources
  /\ volume \in Volumes
  /\ Cardinality(gone) <= MaxGone

(***************************************************************************)
(* Each plan reads each record it is made for once, from the place where   *)
(* the extents put it.  The plan of chunks, merged and cut into reads, is  *)
(* made for the whole $MFT; it does so except where extents lie close      *)
(* together and no bitmap is known.  The plan from the bitmap is made for  *)
(* the records in use; it has no reason to join chunks of one extent only. *)
(***************************************************************************)
ChunkPlanIsSound ==
  source = "none" /\ volume.extentsKnown /\ (volume.bitmapKnown \/ ~Misnumbered(volume))
    => PlanReads(ops, volume.extents, Mapped(volume))

PrecisePlanIsSound ==
  LET inUse == {frs \in Mapped(volume) : frs \in Live(volume)}
  IN Len(volume.extents) = 1 =>
       PlanReads(GeneratePreciseReadChunks(volume.extents, inUse, TotalRecords(volume.extents)),
                 volume.extents, inUse)

PlansAreSound == ChunkPlanIsSound /\ PrecisePlanIsSound

(***************************************************************************)
(* What a plan reads along (the hole between two chunks that are merged)   *)
(* holds no segment, which would be taken for the record of that number.   *)
(***************************************************************************)
FindsNoMore(v, plan) ==
  \A i \in DOMAIN plan : \A n \in 0 .. plan[i].count - 1 :
    plan[i].frs + n \notin Mapped(v) => Segment(v, plan[i].disk + n) = << >>

(***************************************************************************)
(* An index that the sliding window delivers is the volume: whatever order *)
(* the reads complete in, whether an extension is parsed before or after   *)
(* its base record or a directory after its children, each record has the  *)
(* names, sizes and streams of all its segments, once, and each directory  *)
(* lists each name below it once.                                          *)
(***************************************************************************)
RecordIs(v, r, b) ==
  LET names  == AttributesOf(v, b, {"name"})
      sizes  == AttributesOf(v, b, {"data", "i30"})
      listed == {l \in UNION {{c} \X AttributesOf(v, c, {"name"}) : c \in Owners(v) \ {b}} :
                   Attribute(v, l[2]).parent = b}
  IN /\ ToSet(r.links) = NamesOf(v, b) /\ Len(r.links) = Cardinality(names)
     /\ r.size = MapThenSumSet(LAMBDA at : Attribute(v, at).size, sizes)
     /\ ToSet(r.ads) = {Attribute(v, at).id : at \in AttributesOf(v, b, {"ads"})}
     /\ r.total - r.streams = Cardinality(AttributesOf(v, b, {"other"}))
     /\ r.std = (AttributesOf(v, b, {"si"}) # {})
     /\ r.dir = \E frs \in Live(v) : Owner(v, frs) = b /\ SaysDirectory(v, frs)
     /\ Len(r.kids) = Cardinality(listed)
     /\ {k.child : k \in ToSet(r.kids)} = {l[1] : l \in listed}

IndexIsTheVolume ==
  source = "inline" /\ PlanReads(ops, volume.extents, Mapped(volume)) /\ FindsNoMore(volume, ops) =>
    /\ DOMAIN index = Owners(volume) \union
         UNION {{n.parent : n \in NamesOf(volume, b)} : b \in Owners(volume)}
    /\ \A b \in DOMAIN index : RecordIs(volume, index[b], b)

(***************************************************************************)
(* The entry of a child in its directory carries the place of the name it  *)
(* was made for (counted from the oldest name); names that come later must *)
(* not make it point at another directory's name.                          *)
(***************************************************************************)
ChildEntriesNameTheirLink ==
  source \in {"none", "inline"} =>
    \A d \in DOMAIN index : \A k \in ToSet(index[d].kids) :
      LET links == index[k.child].links
      IN links[Len(links) - k.place].parent = d

(***************************************************************************)
(* Every row has a way up to a top-level row, also when parents are        *)
(* missing, unreadable or form a cycle on a damaged volume.                *)
(***************************************************************************)
Above(frs, rows) == IF frs = NoParent THEN frs ELSE rows[frs].parent

RowsReachTheTop ==
  source \in {"inline", "file", "unbuffered"} =>
    LET rows  == BuildRows(index)
        steps == [n \in 1 .. Cardinality(DOMAIN rows) |-> rows]
    IN \A frs \in DOMAIN rows :
         /\ rows[frs].parent \in DOMAIN rows \union {NoParent}
         /\ FoldLeft(Above, frs, steps) = NoParent

(* The size a collected record has for want of a default stream.            *)
ReparseInstead(v, b, r) ==
  IF r.hasData \/ r.hasI30 THEN 0
  ELSE SizeOf(SelectSeq(SegmentOf(v, b)[1].attrs, LAMBDA a : a.kind = "other" /\ a.reparse))

(***************************************************************************)
(* A fallback delivers the files that the window would have: the same      *)
(* records with the same set of names, directory flags and sizes; besides  *)
(* them only placeholders for directories that could not be read.  Where a *)
(* record has no default stream the two differ: the collected one has the  *)
(* size of its reparse point, the window's has none.                       *)
(***************************************************************************)
InOrder(v) ==
  FoldLeft(LAMBDA i, frs : ProcessRecord(i, frs, SegmentOf(v, frs)[1]), << >>,
           SelectSeq([n \in 1 .. TotalRecords(v.extents) |-> n - 1], LAMBDA frs : frs \in Live(v)))

FallbackNamesSameFiles ==
  source \in {"file", "unbuffered"} /\ gone = {} /\ volume.extentsKnown /\ ~Misnumbered(volume) =>
    LET inline == InOrder(volume)
        named  == {b \in Live(volume) : b \in DOMAIN inline /\ inline[b].links # << >>}
    IN /\ named \subseteq DOMAIN index
       /\ \A b \in named :
            /\ ToSet(index[b].links) = ToSet(inline[b].links)
            /\ index[b].dir = inline[b].dir
            /\ index[b].size = inline[b].size + ReparseInstead(volume, b, inline[b])
            /\ ToSet(index[b].ads) = ToSet(inline[b].ads)
       /\ \A frs \in DOMAIN index \ named :
            /\ index[frs].dir
            /\ \E b \in named : \E l \in ToSet(index[b].links) : l.parent = frs

(***************************************************************************)
(* Reading a volume ends, with an index or an error, also when a read was  *)
(* refused in mid-window and nothing ever completes it.                    *)
(***************************************************************************)
ReadEnds == <>(source \notin {"none", "fallback"})
=============================================================================
