------------------------------- MODULE MCMft -------------------------------
(* Volumes of fourteen records, two to a cluster, for model checking. *)
EXTENDS MftProperties

File(dir, attrs) == [used |-> TRUE, base |-> Self, dir |-> dir, attrs |-> attrs]
Ext(base, attrs) == [used |-> TRUE, base |-> base, dir |-> FALSE, attrs |-> attrs]
Unused           == [used |-> FALSE, base |-> Self, dir |-> FALSE,
                     attrs |-> <<[kind |-> "name", parent |-> 1, id |-> "old", ns |-> 3]>>]

Si                 == [kind |-> "si"]
Name(parent, i, n) == [kind |-> "name", parent |-> parent, id |-> i, ns |-> n]
Data(n)            == [kind |-> "data", size |-> n]
I30(n)             == [kind |-> "i30", size |-> n]
Ads(i)             == [kind |-> "ads", id |-> i, size |-> 1]
Other              == [kind |-> "other", size |-> 1, reparse |-> FALSE]
Reparse(n)         == [kind |-> "other", size |-> n, reparse |-> TRUE]

(* Record frs of the volume: hard links across base and extension records  *)
(* (3 and 4; both names of 6 are in 12), a reparse point with data in an   *)
(* extension (6) and one without (9), an orphaned directory (5) with a     *)
(* file in it (9), two directories that contain each other (7 and 8) with  *)
(* a file in them (13), and a cluster that is not in use (10 and 11).      *)
Content(frs) ==
  CASE frs = 0  -> File(FALSE, <<Si, Name(1, "mft", 3), Data(3), Other>>)
    [] frs = 1  -> File(TRUE,  <<Si, Name(1, "dot", 3), I30(1)>>)
    [] frs = 2  -> File(TRUE,  <<Si, Name(1, "d", 3), I30(2)>>)
    [] frs = 3  -> File(FALSE, <<Si, Name(2, "F~1", 2), Name(2, "f", 1), Data(5)>>)
    [] frs = 4  -> Ext(3, <<Name(1, "hard", 0), Ads("s"), Other>>)
    [] frs = 5  -> File(TRUE,  <<Si, Name(11, "lostdir", 3)>>)
    [] frs = 6  -> File(FALSE, <<Si, Reparse(4)>>)
    [] frs = 7  -> File(TRUE,  <<Si, Name(8, "ring2", 3), I30(1)>>)
    [] frs = 8  -> File(TRUE,  <<Si, Name(7, "ring", 3)>>)
    [] frs = 9  -> File(FALSE, <<Si, Name(5, "inlost", 3), Ads("s"), Reparse(4)>>)
    [] frs = 10 -> Unused
    [] frs = 11 -> Unused
    [] frs = 12 -> Ext(6, <<Name(2, "late", 0), Name(2, "later", 1), Data(7)>>)
    [] frs = 13 -> File(FALSE, <<Si, Name(7, "inring", 3)>>)

Extent(v, n, l) == [vcn |-> v, count |-> n, lcn |-> l]

Layouts ==
  { <<Extent(0, 7, 3)>>,
    <<Extent(0, 2, 10), Extent(2, 2, 2), Extent(4, 3, 20)>>,
    <<Extent(0, 3, 3), Extent(3, 4, 7)>>,
    <<Extent(0, 3, 3), Extent(3, 4, 6)>>,
    <<Extent(0, 2, 3), Extent(2, 1, Hole), Extent(3, 4, 5)>>,
    <<Extent(0, 2, 3), Extent(2, 1, Hole), Extent(3, 4, 6)>>,
    <<Extent(0, 2, 3), Extent(2, 1, Hole), Extent(3, 4, 30)>> }

DiskOf(extents) ==
  LET frs == {f \in 0 .. 13 : PhysicalOffset(extents, f) # Hole}
      at  == {PhysicalOffset(extents, f) : f \in frs}
  IN [p \in at |-> Content(CHOOSE f \in frs : PhysicalOffset(extents, f) = p)]

Volume(extents, extentsKnown, bitmapKnown, direct) ==
  [disk |-> DiskOf(extents), extents |-> extents, extentsKnown |-> extentsKnown,
   bitmapKnown |-> bitmapKnown, direct |-> direct]

(* Every layout read in whole chunks, with and without a bitmap; a drive   *)
(* that is read in pieces, and one whose extents cannot be had.            *)
MCVolumes ==
  {Volume(l, TRUE, b, TRUE) : l \in Layouts, b \in BOOLEAN} \union
  {Volume(<<Extent(0, 2, 3), Extent(2, 1, Hole), Extent(3, 4, 30)>>, TRUE, FALSE, FALSE)} \union
  {Volume(<<Extent(0, 2, 10), Extent(2, 2, 2), Extent(4, 3, 20)>>, FALSE, TRUE, TRUE)}
=============================================================================
