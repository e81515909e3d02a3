------------------------------ MODULE EsIndex ------------------------------
(***************************************************************************)
(* The logical index of crates/core/src/index.rs: immutable base records   *)
(* and the delta overlay above them, addressed together by a logical       *)
(* index.  An index is a value                                             *)
(*   base      sequence of [ref, parent, name]; parent is a logical index  *)
(*   map       record number -> logical index in the base (FileRefMap)     *)
(*   inserted  sequence of [ref, parentRef, name]                          *)
(*   renamed   logical index -> name                                       *)
(*   moved     logical index -> logical index of the new parent            *)
(*   deleted   set of logical indices                                      *)
(*   overrides record number -> logical index, NoIdx for a tombstone       *)
(* Logical indices count from 1.  Record numbers stand for the low 48 bits *)
(* of file references, which is all the code keys by; names are compared   *)
(* as wholes, directories are known by their record number.                *)
(***************************************************************************)
EXTENDS Integers, SequencesExt

CONSTANT MinSpan  \* record numbers this close always get a dense map: 1,024

NoIdx == 0

EmptyFunction == [x \in {} |-> NoIdx]

(* FileRefMap::from_pairs, of the pairs of a record and its index.  A dense  *)
(* map has one slot per record, so its last entry wins.  A sorted one keeps  *)
(* them all, those of one record in no order, and the binary search may      *)
(* return any of them.                                                       *)
RefPairs(base) == {<<base[i].ref, i>> : i \in DOMAIN base}

IsDense(pairs) ==
    LET widest == Max({4 * Cardinality(pairs), MinSpan}) IN
    \A p, q \in pairs : q[1] - p[1] < widest

RefsOf(pairs) == {p[1] : p \in pairs}
IndicesOf(pairs, ref) == {i \in {p[2] : p \in pairs} : <<ref, i>> \in pairs}
Repeated(pairs) == {ref \in RefsOf(pairs) : Cardinality(IndicesOf(pairs, ref)) > 1}

(* Mutant: a dense slot is written once.                                     *)
RefMapsFirstWins(pairs) ==
    {[ref \in RefsOf(pairs) |-> Min(IndicesOf(pairs, ref))]}

RefMaps(pairs) ==
    LET last(ref) == Max(IndicesOf(pairs, ref))
        picks == {pick \in [Repeated(pairs) -> {p[2] : p \in pairs}] :
                     \A ref \in Repeated(pairs) : pick[ref] \in IndicesOf(pairs, ref)} IN
    IF IsDense(pairs) THEN {[ref \in RefsOf(pairs) |-> last(ref)]}
    ELSE {[ref \in RefsOf(pairs) |->
              IF ref \in Repeated(pairs) THEN pick[ref] ELSE last(ref)] : pick \in picks}

FromBase(base, map) ==
    [base |-> base, map |-> map, inserted |-> <<>>, renamed |-> EmptyFunction,
     moved |-> EmptyFunction, deleted |-> {}, overrides |-> EmptyFunction]

(* The map f with the entry k -> v.                                         *)
Put(f, k, v) == [x \in DOMAIN f \cup {k} |-> IF x = k THEN v ELSE f[x]]

BaseLen(ix) == Len(ix.base)
LogicalLen(ix) == BaseLen(ix) + Len(ix.inserted)
Indices(ix) == 1 .. LogicalLen(ix)
InsertedAt(ix, i) == ix.inserted[i - BaseLen(ix)]

RefOf(ix, i) == IF i <= BaseLen(ix) THEN ix.base[i].ref
                                    ELSE InsertedAt(ix, i).ref

BaseLookup(ix, ref) == IF ref \in DOMAIN ix.map THEN ix.map[ref] ELSE NoIdx

RefLookup(ix, ref) ==
    IF ref \in DOMAIN ix.overrides THEN ix.overrides[ref]
                                   ELSE BaseLookup(ix, ref)

(* Base records carry no tombstone flag: nothing in the program sets it.    *)
IsDeleted(ix, i) == i \in ix.deleted

NameOf(ix, i) ==
    IF i \in DOMAIN ix.renamed THEN ix.renamed[i]
    ELSE IF i <= BaseLen(ix) THEN ix.base[i].name
    ELSE InsertedAt(ix, i).name

(* logical_parent: an inserted record finds its parent when asked.          *)
ParentOf(ix, i) ==
    IF i \in DOMAIN ix.moved THEN ix.moved[i]
    ELSE IF i <= BaseLen(ix) THEN ix.base[i].parent
    ELSE RefLookup(ix, InsertedAt(ix, i).parentRef)

Visible(ix) == {i \in Indices(ix) : ~IsDeleted(ix, i)}

-----------------------------------------------------------------------------
(* Reading: children and paths.                                             *)

Ascending(S) ==
    [n \in 1 .. Cardinality(S) |->
        CHOOSE i \in S : Cardinality({j \in S : j < i}) = n - 1]

BaseChildren(ix, d) ==
    {i \in 1 .. BaseLen(ix) : /\ ix.base[i].parent = d
                              /\ ~IsDeleted(ix, i)
                              /\ i \in DOMAIN ix.moved => ix.moved[i] = d}

MovedChildren(ix, d) ==
    {i \in DOMAIN ix.moved : /\ ix.moved[i] = d
                             /\ ~IsDeleted(ix, i)
                             /\ i <= BaseLen(ix) => ix.base[i].parent # d}

(* Mutant: an inserted record is listed where it was created.               *)
InsertedChildrenByRef(ix, d) ==
    {i \in Indices(ix) : /\ i > BaseLen(ix)
                         /\ ~IsDeleted(ix, i)
                         /\ RefLookup(ix, InsertedAt(ix, i).parentRef) = d}

InsertedChildren(ix, d) ==
    {i \in Indices(ix) : /\ i > BaseLen(ix)
                         /\ ~IsDeleted(ix, i)
                         /\ ParentOf(ix, i) = d}

(* logical_children_inner: three passes, appended.                          *)
Children(ix, d) == Ascending(BaseChildren(ix, d))
                      \o Ascending(MovedChildren(ix, d))
                      \o Ascending(InsertedChildren(ix, d))

(* The indices from i to its root, at most one step more than there are     *)
(* records; a chain that has not ended by then is a ParentCycle.            *)
Chain(ix, i) ==
    LET up[n \in 0 .. LogicalLen(ix)] ==
          IF n = 0 THEN <<i>>
          ELSE LET below == up[n - 1]
                   p == ParentOf(ix, Last(below)) IN
               IF p = NoIdx THEN below ELSE Append(below, p)
    IN up[LogicalLen(ix)]

HasPath(ix, i) == ParentOf(ix, Last(Chain(ix, i))) = NoIdx

(* logical_path, from the root down.                                        *)
PathOf(ix, i) ==
    LET c == Chain(ix, i) IN [n \in DOMAIN c |-> NameOf(ix, c[Len(c) - n + 1])]

(* path_to_idx: one child per segment, the first that has the name.         *)
ChildNamed(ix, d, name) ==
    LET kids == IF d = NoIdx THEN <<>> ELSE Children(ix, d)
        hits == {n \in DOMAIN kids : NameOf(ix, kids[n]) = name} IN
    IF hits = {} THEN NoIdx
    ELSE kids[CHOOSE n \in hits : \A m \in hits : n <= m]

PathToIdx(ix, rootRef, path) ==
    LET isRoot(i) == /\ i \in Visible(ix)
                     /\ ParentOf(ix, i) = NoIdx
                     /\ NameOf(ix, i) = Head(path)
        roots == {i \in Visible(ix) : isRoot(i)}
        start == IF isRoot(RefLookup(ix, rootRef)) THEN RefLookup(ix, rootRef)
                ELSE IF roots = {} THEN NoIdx
                ELSE CHOOSE i \in roots : \A j \in roots : i <= j
        down[n \in 1 .. Len(path)] ==
          IF n = 1 THEN start ELSE ChildNamed(ix, down[n - 1], path[n])
    IN down[Len(path)]

-----------------------------------------------------------------------------
(* apply_events                                                             *)

ApplyDelete(ix, ref) ==
    LET i == RefLookup(ix, ref) IN
    IF i = NoIdx THEN ix
    ELSE [ix EXCEPT !.deleted = @ \cup {i},
                    !.overrides = Put(@, ref, NoIdx)]

ApplyCreate(ix, e) ==
    LET i == LogicalLen(ix) + 1 IN
    [ix EXCEPT !.inserted = Append(@, [ref |-> e.ref, parentRef |-> e.parent,
                                       name |-> e.name]),
               !.deleted = @ \ {i},
               !.overrides = Put(@, e.ref, i)]

SetName(ix, i, name) ==
    IF i <= BaseLen(ix)
    THEN [ix EXCEPT !.renamed = Put(@, i, name)]
    ELSE [ix EXCEPT !.inserted[i - BaseLen(ix)].name = name]

SetParent(ix, i, parent) == [ix EXCEPT !.moved = Put(@, i, parent)]

(* Mutant: a record inserted since the snapshot keeps its place.            *)
ApplyRenameOnly(ix, e) ==
    LET i == RefLookup(ix, e.ref) IN
    IF i = NoIdx THEN ApplyCreate(ix, e) ELSE SetName(ix, i, e.name)

(* The parent is looked up now: an unknown one leaves the record in place.  *)
ApplyRenameMove(ix, e) ==
    LET i == RefLookup(ix, e.ref)
        p == RefLookup(ix, e.parent)
        named == SetName(ix, i, e.name) IN
    IF i = NoIdx THEN ApplyCreate(ix, e)
    ELSE IF p = NoIdx THEN named
    ELSE SetParent(named, i, p)

ApplyEvent(ix, e) ==
    CASE e.kind = "delete" -> ApplyDelete(ix, e.ref)
      [] e.kind = "create" -> ApplyCreate(ix, e)
      [] e.kind = "rename" -> ApplyRenameMove(ix, e)

ApplyEvents(ix, events) == FoldLeft(ApplyEvent, ix, events)

-----------------------------------------------------------------------------
(* Compaction                                                               *)

EventCount(ix) == Len(ix.inserted) + Cardinality(DOMAIN ix.renamed)
                     + Cardinality(DOMAIN ix.moved) + Cardinality(ix.deleted)

ShouldCompact(ix) ==
    /\ EventCount(ix) > 0 \/ DOMAIN ix.overrides # {}
    /\ LET threshold == (BaseLen(ix) + 19) \div 20 IN
       EventCount(ix) >= IF threshold > 1 THEN threshold ELSE 1

(* compact_snapshot and EsCompactSnapshot::rebuild: the visible records in  *)
(* order; a parent that is not among them is lost.                          *)
RebuiltBase(ix) ==
    LET live == Ascending(Visible(ix))
        newIndex(i) == IF i \in Visible(ix)
                       THEN CHOOSE n \in DOMAIN live : live[n] = i ELSE NoIdx IN
    [n \in DOMAIN live |-> [ref |-> RefOf(ix, live[n]),
                            parent |-> newIndex(ParentOf(ix, live[n])),
                            name |-> NameOf(ix, live[n])]]
=============================================================================
