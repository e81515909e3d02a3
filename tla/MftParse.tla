------------------------------ MODULE MftParse ------------------------------
(***************************************************************************)
(* From the records of the $MFT to the rows of the search index.  Two      *)
(* pipelines exist: process_record feeds each record into the index as it  *)
(* arrives, parse_record_full and the merger collect every record first.   *)
(*                                                                         *)
(* A segment is one FILE record: used (the IN_USE flag), base (Self, or    *)
(* the base record of an extension), dir (the directory flag) and attrs,   *)
(* the sequence of its primary attributes:                                 *)
(*   si                    $STANDARD_INFORMATION                           *)
(*   name, parent, id, ns  $FILE_NAME; ns as on the disk, 2 is DOS only    *)
(*   data, size            the unnamed $DATA                               *)
(*   i30, size             the directory index                             *)
(*   ads, id, size         a named $DATA                                   *)
(*   other, size, reparse  anything else; reparse: a resident reparse point *)
(***************************************************************************)
EXTENDS Integers, Sequences, SequencesExt, FiniteSetsExt, TLC

CONSTANTS Root,     \* ROOT_FRS
          NoParent  \* NO_ENTRY as a parent reference

DosOnly == 2
Self    == -1

BaseOf(frs, seg) == IF seg.base = Self THEN frs ELSE seg.base

-----------------------------------------------------------------------------
(***************************************************************************)
(* A FileRecord of the index.  links is the name chain, first_name first;  *)
(* kids is the child chain, first_child first.                             *)
(***************************************************************************)
NewUnified ==
  [std |-> FALSE, dir |-> FALSE, links |-> << >>, kids |-> << >>, size |-> 0,
   hasData |-> FALSE, hasI30 |-> FALSE, ads |-> << >>,
   internal |-> << >>, streams |-> 0, total |-> 0]

(* Mutant: the parent of a name is always made anew. *)
EnsureFresh(index, frs) == (frs :> NewUnified) @@ index

EnsureRecord(index, frs) ==
  [f \in DOMAIN index \union {frs} |-> IF f \in DOMAIN index THEN index[f] ELSE NewUnified]

(* Mutant: the child entry always takes the first place. *)
AddNameFirstPlace(index, b, a) ==
  LET link     == [parent |-> a.parent, id |-> a.id]
      named    == [index EXCEPT ![b].links = <<link>> \o @]
      parented == EnsureRecord(named, a.parent)
      entry    == [child |-> b, place |-> 0]
  IN IF a.ns = DosOnly THEN index
     ELSE IF a.parent \in {b, NoParent} THEN named
     ELSE [parented EXCEPT ![a.parent].kids = <<entry>> \o @]

(* The newest name becomes first_name, the older ones move down the chain. *)
AddName(index, b, a) ==
  LET link     == [parent |-> a.parent, id |-> a.id]
      place    == Len(index[b].links)
      named    == [index EXCEPT ![b].links = <<link>> \o @]
      parented == EnsureRecord(named, a.parent)
  IN IF a.ns = DosOnly THEN index
     ELSE IF a.parent \in {b, NoParent} THEN named
     ELSE [parented EXCEPT ![a.parent].kids = <<[child |-> b, place |-> place]>> \o @]

AddSize(index, b, a, flag) ==
  [index EXCEPT ![b].size = @ + a.size,
                ![b].streams = IF index[b][flag] THEN @ ELSE @ + 1,
                ![b].total = IF index[b][flag] THEN @ ELSE @ + 1,
                ![b][flag] = TRUE]

AddAttribute(index, b, dir, a) ==
  CASE a.kind = "si"    -> [index EXCEPT ![b].std = TRUE, ![b].dir = dir]
    [] a.kind = "name"  -> AddName(index, b, a)
    [] a.kind = "data"  -> AddSize(index, b, a, "hasData")
    [] a.kind = "i30"   -> [AddSize(index, b, a, "hasI30") EXCEPT ![b].dir = TRUE]
    [] a.kind = "ads"   -> [index EXCEPT ![b].ads = Append(@, a.id),
                                         ![b].streams = @ + 1, ![b].total = @ + 1]
    [] a.kind = "other" -> [index EXCEPT ![b].internal = Append(@, a.size),
                                         ![b].total = @ + 1]

(* An attribute with the base record and the directory flag of its segment. *)
Primary(frs, seg) ==
  [i \in DOMAIN seg.attrs |-> [base |-> BaseOf(frs, seg), dir |-> seg.dir, attr |-> seg.attrs[i]]]

ProcessAttribute(index, p) == AddAttribute(index, p.base, p.dir, p.attr)

ProcessRecord(index, frs, seg) ==
  LET b      == BaseOf(frs, seg)
      parsed == FoldLeft(ProcessAttribute, EnsureRecord(index, b), Primary(frs, seg))
  IN IF ~seg.used THEN index
     ELSE IF seg.dir THEN [parsed EXCEPT ![b].dir = TRUE] ELSE parsed

-----------------------------------------------------------------------------
(***************************************************************************)
(* The collecting pipeline: each record is parsed on its own.  The primary *)
(* name of a base record prefers the Win32 namespaces (1 and 3), the last  *)
(* of them, over the first of the others.                                  *)
(***************************************************************************)
Win32 == {1, 3}

PickPrimary(names) ==
  LET win == {i \in DOMAIN names : names[i].ns \in Win32}
  IN IF names = << >> THEN << >>
     ELSE << names[IF win = {} THEN 1 ELSE Max(win)] >>

Of(seg, kinds) == SelectSeq(seg.attrs, LAMBDA a : a.kind \in kinds)

SizeOf(attrs) == FoldLeft(LAMBDA n, a : n + a.size, 0, attrs)

ParseRecordFull(frs, seg) ==
  LET names == SelectSeq(Of(seg, {"name"}), LAMBDA a : a.ns # DosOnly)
  IN [frs      |-> frs,
      base     |-> BaseOf(frs, seg),
      dir      |-> seg.dir,
      std      |-> Of(seg, {"si"}) # << >>,
      names    |-> [i \in DOMAIN names |->
                      [parent |-> names[i].parent, id |-> names[i].id,
                       ns |-> names[i].ns, source |-> frs]],
      primary  |-> PickPrimary(names),
      hasData  |-> Of(seg, {"data"}) # << >>,
      data     |-> SizeOf(Of(seg, {"data"})),
      reparse  |-> SizeOf(SelectSeq(Of(seg, {"other"}), LAMBDA a : a.reparse)),
      dirIndex |-> SizeOf(Of(seg, {"i30"})),
      ads      |-> [i \in DOMAIN Of(seg, {"ads"}) |-> Of(seg, {"ads"})[i].id],
      internal |-> Len(Of(seg, {"other"}))]

(***************************************************************************)
(* The merger adds every extension, in the order they came, to its base    *)
(* record, sorts the names by the record they came from, names the bases   *)
(* whose names are all in extensions, and drops what has no name.          *)
(***************************************************************************)
(* Mutant: an extension brings streams and sizes, not names. *)
AddExtensionNameless(base, ext) ==
  [base EXCEPT !.hasData = @ \/ ext.hasData,
               !.data = @ + ext.data,
               !.dirIndex = @ + ext.dirIndex,
               !.ads = @ \o SelectSeq(ext.ads, LAMBDA id : ~Contains(base.ads, id)),
               !.internal = @ + ext.internal]

AddExtension(base, ext) ==
  [base EXCEPT !.names = @ \o ext.names,
               !.hasData = @ \/ ext.hasData,
               !.data = @ + ext.data,
               !.dirIndex = @ + ext.dirIndex,
               !.ads = @ \o SelectSeq(ext.ads, LAMBDA id : ~Contains(base.ads, id)),
               !.internal = @ + ext.internal]

MergedRecord(base, exts) ==
  LET all    == FoldLeft(AddExtension, base, exts)
      sorted == SortSeq(all.names, LAMBDA a, b : a.source < b.source)
  IN [all EXCEPT !.names = sorted,
                 !.primary = IF @ = << >> THEN PickPrimary(sorted) ELSE @]

MergeResults(results) ==
  LET bases     == {i \in DOMAIN results :
                      /\ results[i].base = results[i].frs
                      /\ \A j \in DOMAIN results :
                           results[j].frs = results[i].frs => j <= i}
      extsOf(b) == SelectSeq(results, LAMBDA r : r.base = b /\ r.frs # b)
      merged    == {MergedRecord(results[i], extsOf(results[i].frs)) : i \in bases}
  IN {r \in merged : r.primary # << >>}

-----------------------------------------------------------------------------
(***************************************************************************)
(* A directory that is named as a parent and was not read gets a made-up   *)
(* record below the root, so that every path ends.                         *)
(***************************************************************************)
Placeholder(frs) ==
  [frs |-> frs, base |-> frs, dir |-> TRUE, std |-> FALSE, names |-> << >>,
   primary |-> <<[parent |-> Root, id |-> <<"dir", frs>>, ns |-> 1]>>,
   hasData |-> FALSE, data |-> 0, reparse |-> 0, dirIndex |-> 0, ads |-> << >>, internal |-> 0]

InsertMissingParents(records) ==
  LET known   == {r.frs : r \in records}
      wanted  == {r.primary[1].parent : r \in records}
  IN records \union {Placeholder(frs) : frs \in wanted \ (known \union {0, Root})}

(***************************************************************************)
(* The size is that of the default stream (the index of a directory, the   *)
(* unnamed data of a file), without one that of the base record's reparse  *)
(* point.                                                                  *)
(***************************************************************************)
PrimarySize(r) ==
  IF r.dir /\ r.dirIndex > 0 THEN r.dirIndex
  ELSE IF r.hasData THEN r.data
  ELSE r.reparse

(***************************************************************************)
(* The index of the collected records: the primary name first, the names   *)
(* that differ from it behind it.                                          *)
(***************************************************************************)
FromParsedRecords(records) ==
  LET first(r) == [parent |-> r.primary[1].parent, id |-> r.primary[1].id]
      chain(r) == <<first(r)>> \o
                  SelectSeq([i \in DOMAIN r.names |->
                               [parent |-> r.names[i].parent, id |-> r.names[i].id]],
                            LAMBDA l : l # first(r))
      rec(r)   == [NewUnified EXCEPT
                     !.std = r.std, !.dir = r.dir, !.links = chain(r),
                     !.size = PrimarySize(r),
                     !.ads = r.ads, !.streams = 1 + Len(r.ads)]
      of(frs)  == CHOOSE r \in records : r.frs = frs
  IN [frs \in {r.frs : r \in records} |-> rec(of(frs))]
-----------------------------------------------------------------------------
(***************************************************************************)
(* The rows of the search index: one per named record, by its first name.  *)
(* Rows are added in rounds, each below a row that is already there; what  *)
(* no round reaches (a parent without a name, a cycle, and everything      *)
(* below them) goes directly below the root.                               *)
(***************************************************************************)
Drafts(index) == {frs \in DOMAIN index : index[frs].links # << >>} \union {Root}

ParentOf(index, frs) ==
  IF frs = Root THEN NoParent ELSE index[frs].links[1].parent

TopLevel(index, frs) == ParentOf(index, frs) \in {NoParent, frs}

Round(rows, index) ==
  rows \union {frs \in Drafts(index) : TopLevel(index, frs) \/ ParentOf(index, frs) \in rows}

Anchored(index) ==
  FoldLeft(Round, {Root}, [n \in 1 .. Cardinality(Drafts(index)) |-> index])

(* Mutant: what no round reaches keeps the parent it names. *)
RowsKeepParents(index) ==
  [frs \in Drafts(index) |->
     [id     |-> IF frs = Root THEN "drive" ELSE index[frs].links[1].id,
      dir    |-> frs = Root \/ index[frs].dir,
      parent |-> IF TopLevel(index, frs) THEN NoParent ELSE ParentOf(index, frs)]]

BuildRows(index) ==
  [frs \in Drafts(index) |->
     [id     |-> IF frs = Root THEN "drive" ELSE index[frs].links[1].id,
      dir    |-> frs = Root \/ index[frs].dir,
      parent |-> IF TopLevel(index, frs) THEN NoParent
                 ELSE IF frs \in Anchored(index) THEN ParentOf(index, frs)
                 ELSE Root]]
=============================================================================
