---------------------------- MODULE IndexSearch ----------------------------
(***************************************************************************)
(* Searching and listing the index of one volume                           *)
(* (crates/core/src/index.rs and search/): names are matched over the base *)
(* records and the overlay, one- and two-letter queries go through the     *)
(* prefix buckets of the base, the best entries are kept while scanning,   *)
(* and paths are made for those only.  How a query matches a name is a     *)
(* constant; results are values [path, name, dir, score].  Equal scores    *)
(* come in any order, so a search has a set of results it may give.        *)
(***************************************************************************)
EXTENDS IndexFeed

CONSTANTS
    Queries,     \* folded, not empty
    Short,       \* those of one or two characters
    Match,       \* query -> name -> 0, or the score of score_name
    Unlimited    \* a limit that no result reaches

ASSUME SearchAssumption ==
    /\ Short \subseteq Queries
    /\ Match \in [Queries -> [Names \cup {RootName} -> {0, 800, 900, 1000}]]
    /\ Unlimited \in Nat /\ Unlimited > 2 * (Cardinality(Recs) + MaxOps)

DirectoryBonus == 100

IsDir(ix, i) == RefOf(ix, i) \in Dirs

(* Mutant: base records are matched by the name they had in the base.       *)
HitInBase(ix, q, i) ==
    /\ ~IsDeleted(ix, i)
    /\ Match[q][IF i <= BaseLen(ix) THEN ix.base[i].name ELSE NameOf(ix, i)] # 0

Hit(ix, q, i) == ~IsDeleted(ix, i) /\ Match[q][NameOf(ix, i)] # 0

Scored(ix, q, i) ==
    [index |-> i,
     score |-> Match[q][NameOf(ix, i)] + (IF IsDir(ix, i) THEN DirectoryBonus ELSE 0)]

(* Of the set ids, in the order of the records.                             *)
Scores(ix, q, ids) ==
    LET hits == Ascending({i \in ids : Hit(ix, q, i)}) IN
    [n \in DOMAIN hits |-> Scored(ix, q, hits[n])]

-----------------------------------------------------------------------------
(* The best entries while scanning: a full list gives up the first of its   *)
(* lowest entries for a better one.                                         *)

InsertTopN(top, entry, cap) ==
    LET worst == {n \in DOMAIN top : \A m \in DOMAIN top : top[n].score <= top[m].score}
        first == CHOOSE n \in worst : \A m \in worst : n <= m IN
    IF Len(top) < cap THEN Append(top, entry)
    ELSE IF top # << >> /\ entry.score > top[first].score
         THEN [top EXCEPT ![first] = entry]
    ELSE top

TopN(scored, cap) ==
    LET top[n \in 0 .. Len(scored)] ==
          IF n = 0 THEN << >> ELSE InsertTopN(top[n - 1], scored[n], cap)
    IN top[Len(scored)]

BaseIds(ix) == 1 .. BaseLen(ix)
InsertedIds(ix) == BaseLen(ix) + 1 .. LogicalLen(ix)

(* Keys of the prefix buckets are the first two letters of the base names:  *)
(* a bucket starts with a short query when the base name does.              *)
InBucket(ix, q, i) == Match[q][ix.base[i].name] >= 900

ShortCandidates(ix, q) == {i \in BaseIds(ix) : InBucket(ix, q, i)}

Result(ix, entry) ==
    [path |-> PathOf(ix, entry.index), name |-> NameOf(ix, entry.index),
     dir |-> IsDir(ix, entry.index), score |-> entry.score]

(* sort_unstable_by: the orders that put no entry before a better one.      *)
Sorted(scored) ==
    {order \in [DOMAIN scored -> DOMAIN scored] :
       /\ IsInjective(order)
       /\ \A m, n \in DOMAIN scored :
             m < n => scored[order[m]].score >= scored[order[n]].score}

(* Sorted by score, cut at the limit, and only then freed of the entries    *)
(* that have no path.                                                       *)
Materialize(ix, scored, limit) ==
    LET cut  == IF Len(scored) < limit THEN Len(scored) ELSE limit
        real(order) == Ascending({n \in 1 .. cut : HasPath(ix, scored[order[n]].index)})
    IN {[n \in DOMAIN real(order) |-> Result(ix, scored[order[real(order)[n]]])] :
          order \in Sorted(scored)}

(* search_inner: short queries take all of their buckets, longer ones the   *)
(* best of the base; what was inserted since is scanned for both.           *)
Search(ix, q, limit) ==
    LET base == IF q \in Short THEN Scores(ix, q, ShortCandidates(ix, q))
                ELSE TopN(Scores(ix, q, BaseIds(ix)), 2 * limit) IN
    Materialize(ix, base \o Scores(ix, q, InsertedIds(ix)), limit)

(* search_candidates_inner: of all records, or of a kept candidate set.     *)
CandidateIds(ix, q, ids) == {i \in ids : Hit(ix, q, i)}

AllIds(ix) == BaseIds(ix) \cup InsertedIds(ix)

SearchCandidates(ix, q, ids, limit) ==
    Materialize(ix, TopN(Scores(ix, q, ids), 2 * limit), limit)

-----------------------------------------------------------------------------
(* Listing a directory: its children, or a stack of them and of theirs.     *)

(* Mutant: what was inserted is not gone into.                              *)
KidsOfBase(ix, d) == IF d <= BaseLen(ix) /\ IsDir(ix, d) THEN Children(ix, d) ELSE << >>

Kids(ix, d) == IF IsDir(ix, d) THEN Children(ix, d) ELSE << >>

Collected(ix, root) ==
    LET level[n \in 0 .. LogicalLen(ix)] ==
          IF n = 0 THEN Children(ix, root)
          ELSE LET above == level[n - 1] IN
               FlattenSeq([k \in DOMAIN above |-> Kids(ix, above[k])])
    IN FlattenSeq([n \in 1 .. LogicalLen(ix) + 1 |-> level[n - 1]])

(* An entry without a path makes an error of the whole list, which the      *)
(* drive manager answers with nothing. The final order is left out, and     *)
(* the query that filters the list is empty.                                *)
Enumerate(ix, path, recursive) ==
    LET root == PathToIdx(ix, Root, path)
        ids  == IF root = NoIdx THEN << >>
                ELSE IF recursive THEN Collected(ix, root) ELSE Children(ix, root)
        live == Ascending({n \in DOMAIN ids : ~IsDeleted(ix, ids[n])})
        entry(n) == ids[live[n]] IN
    IF \E n \in DOMAIN live : ~HasPath(ix, entry(n)) THEN << >>
    ELSE [n \in DOMAIN live |->
            Result(ix, [index |-> entry(n),
                        score |-> IF IsDir(ix, entry(n)) THEN DirectoryBonus ELSE 0])]

-----------------------------------------------------------------------------
(* What the volume holds.                                                   *)

Below(r) == {s \in DOMAIN volume \ {r} : r \in AtOrAbove(s)}

VolumePath(r) ==
    LET up[n \in 0 .. Cardinality(Recs)] ==
          IF n = 0 THEN [at |-> r, names |-> << >>]
          ELSE LET below == up[n - 1] IN
               IF below.at = NoRec THEN below
               ELSE [at    |-> volume[below.at].parent,
                     names |-> <<volume[below.at].name>> \o below.names]
    IN up[Cardinality(Recs)].names

Found(r, base) ==
    [path |-> VolumePath(r), name |-> volume[r].name, dir |-> r \in Dirs,
     score |-> base + (IF r \in Dirs THEN DirectoryBonus ELSE 0)]

Hits(q) == {r \in DOMAIN volume : Match[q][volume[r].name] # 0}
Wanted(q) == {Found(r, Match[q][volume[r].name]) : r \in Hits(q)}

(* No result twice, none that is not wanted, and none left out that is      *)
(* better than one that is there.                                           *)
BestOf(results, wanted, limit) ==
    /\ IsInjective(results) /\ ToSet(results) \subseteq wanted
    /\ Len(results) = IF Cardinality(wanted) < limit THEN Cardinality(wanted) ELSE limit
    /\ \A n \in DOMAIN results : \A w \in wanted \ ToSet(results) :
          w.score <= results[n].score

Refines(q, broader) ==
    \A name \in Names \cup {RootName} : Match[q][name] # 0 => Match[broader][name] # 0

(* Between a poll and the next change, searching finds the files of the     *)
(* volume under their names and paths, each once, and the best of them when *)
(* not all fit; whether all records are scanned or the candidates of a      *)
(* broader query. A query of one or two letters finds all whose names start *)
(* with it, but for those renamed since the last compaction.                *)
SearchFindsTheVolume ==
    Settled =>
        /\ \A q \in Queries \ Short : \A limit \in {1, Unlimited} :
              LET wanted == Wanted(q) IN
              /\ \A results \in Search(index, q, limit) :
                    BestOf(results, wanted, limit)
              /\ \A broader \in {b \in Queries : Refines(q, b)} :
                    LET ids == CandidateIds(index, broader, AllIds(index)) IN
                    \A results \in SearchCandidates(index, q, ids, limit) :
                        BestOf(results, wanted, limit)
        /\ \A q \in Short : \A results \in Search(index, q, Unlimited) :
              LET found == ToSet(results) IN
              /\ found \subseteq Wanted(q)
              /\ \A r \in Hits(q) :
                    Match[q][volume[r].name] >= 900
                      /\ RefLookup(index, r) \notin DOMAIN index.renamed
                    => Found(r, Match[q][volume[r].name]) \in found

(* An entry inserted since the last compaction and moved or renamed since   *)
(* is in two of the three passes over the children of its directory.        *)
InTwoPasses(r) ==
    LET i == RefLookup(index, r) IN i > BaseLen(index) /\ i \in DOMAIN index.moved

(* Listing a directory gives what is in it, or everything below it, with    *)
(* its path, whatever was created, moved, renamed and deleted since the     *)
(* last compaction. Each entry is there once, but twice for each directory  *)
(* on the way to it, and itself, that two passes over children come upon.   *)
EnumerationIsTheSubtree ==
    Settled =>
        \A r \in Dirs \cap DOMAIN volume : \A recursive \in BOOLEAN :
            LET listed   == Enumerate(index, VolumePath(r), recursive)
                inside   == {s \in Below(r) : recursive \/ volume[s].parent = r}
                doubled(s) == {t \in AtOrAbove(s) \cap inside : InTwoPasses(t)} IN
            /\ ToSet(listed) = {Found(s, 0) : s \in inside}
            /\ \A s \in inside :
                  Cardinality({n \in DOMAIN listed : listed[n] = Found(s, 0)})
                    = 2 ^ Cardinality(doubled(s))
=============================================================================
