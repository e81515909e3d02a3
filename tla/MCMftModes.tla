----------------------------- MODULE MCMftModes -----------------------------
(* Volumes of ten records, two to a cluster, for model checking. *)
EXTENDS MftModes

File(dir, attrs) == [used |-> TRUE, base |-> Self, dir |-> dir, attrs |-> attrs]
Ext(base, attrs) == [used |-> TRUE, base |-> base, dir |-> FALSE, attrs |-> attrs]
Unused           == [used |-> FALSE, base |-> Self, dir |-> FALSE,
                     attrs |-> <<[kind |-> "name", parent |-> 1, id |-> "old", ns |-> 3]>>]

Si                 == [kind |-> "si"]
Name(parent, i, n) == [kind |-> "name", parent |-> parent, id |-> i, ns |-> n]
Data(n)            == [kind |-> "data", size |-> n]
Ads(i)             == [kind |-> "ads", id |-> i, size |-> 1]

(* All names of 6 are in extension records, one below and one above it; of *)
(* 4 there are names and streams in three records; 8 is not in use.        *)
Record(frs) ==
  CASE frs = 0 -> File(FALSE, <<Si, Name(1, "mft", 3), Data(3)>>)
    [] frs = 1 -> File(TRUE,  <<Si, Name(1, "dot", 3)>>)
    [] frs = 2 -> Ext(6, <<Name(1, "first", 1), Ads("s")>>)
    [] frs = 3 -> Ext(4, <<Name(1, "low", 0), Ads("t"), Data(1)>>)
    [] frs = 4 -> File(FALSE, <<Si, Name(1, "mid", 1), Ads("u")>>)
    [] frs = 5 -> File(TRUE,  <<Si, Name(1, "dir", 3)>>)
    [] frs = 6 -> File(FALSE, <<Si, Data(7)>>)
    [] frs = 7 -> Ext(6, <<Name(5, "second", 1), Ads("s")>>)
    [] frs = 8 -> Unused
    [] frs = 9 -> Ext(4, <<Name(5, "high", 0), Ads("t")>>)

Extent(v, n, l) == [vcn |-> v, count |-> n, lcn |-> l]

(* In one piece; in two that descend on the disk; with a hole. *)
Layouts ==
  { <<Extent(0, 5, 3)>>,
    <<Extent(0, 2, 10), Extent(2, 3, 2)>>,
    <<Extent(0, 2, 3), Extent(2, 1, Hole), Extent(3, 2, 20)>> }

DiskOf(extents) ==
  LET frs == {f \in 0 .. 9 : PhysicalOffset(extents, f) # Hole}
      at  == {PhysicalOffset(extents, f) : f \in frs}
  IN [p \in at |-> Record(CHOOSE f \in frs : PhysicalOffset(extents, f) = p)]

MCVolumes ==
  {[disk |-> DiskOf(l), extents |-> l, extentsKnown |-> TRUE,
    bitmapKnown |-> b, direct |-> d] : l \in Layouts, b \in BOOLEAN, d \in BOOLEAN}
=============================================================================
