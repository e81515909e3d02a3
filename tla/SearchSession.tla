--------------------------- MODULE SearchSession ---------------------------
(***************************************************************************)
(* The candidate cache of one input session                                *)
(* (engine/src/search_session.rs): a query that extends an earlier one     *)
(* filters the candidates kept for that one instead of scanning the index. *)
(* Names are abstract; what the loaded indexes hold at each generation of  *)
(* the drive manager is the constant Contents (module Engine shows that    *)
(* content does not change without the generation). A result is the set of *)
(* its entries: ranking and the limit see them in index order either way.  *)
(***************************************************************************)
EXTENDS Integers, Sequences, FiniteSets, FiniteSetsExt

CONSTANTS
    Queries,       \* normalized query texts
    Short,         \* those of less than MIN_CACHED_QUERY_CHARS characters
    Length,        \* query -> its length
    Extends,       \* <<q, p>>: p is a proper prefix of q
    Matches,       \* <<q, name>>: score_name finds q in name
    Contents,      \* generation -> drive -> id -> name
    MaxSnapshots,  \* MAX_SNAPSHOTS
    MaxCandidates, \* MAX_CACHED_CANDIDATES
    MaxGeneration  \* bound on the changes of the index

(* Folding a prefix gives a prefix of the folded text (it fails only for a  *)
(* prefix that ends in a capital sigma), so a match of q is one of p.       *)
ASSUME SessionAssumption ==
    /\ Short \subseteq Queries
    /\ Length \in [Queries -> Nat]
    /\ Extends \subseteq Queries \X Queries
    /\ \A e \in Extends :
          /\ Length[e[2]] < Length[e[1]]
          /\ \A m \in Matches : m[1] = e[1] => <<e[2], m[2]>> \in Matches
    /\ MaxSnapshots \in Nat \ {0} /\ MaxCandidates \in Nat
    /\ MaxGeneration \in Nat
    /\ \A g \in 0 .. MaxGeneration :
          /\ IsFiniteSet(DOMAIN Contents[g])
          /\ \A d \in DOMAIN Contents[g] : IsFiniteSet(DOMAIN Contents[g][d])

VARIABLES
    generation,  \* of the drive manager
    session,     \* [snapshots, count]
    answers      \* the last result that was not cancelled, if any

sessionVars == <<generation, session, answers>>

NoSource == [d \in {} |-> {}]

EmptySession == [snapshots |-> <<>>, count |-> 0]

-----------------------------------------------------------------------------
(* search_candidates: a drive of which the source says nothing is scanned.  *)
Scan(q, g, source) ==
    [d \in DOMAIN Contents[g] |->
        {i \in DOMAIN Contents[g][d] :
            /\ d \in DOMAIN source => i \in source[d]
            /\ <<q, Contents[g][d][i]>> \in Matches}]

Entries(drives) == UNION {{d} \X drives[d] : d \in DOMAIN drives}

(* What a scan of everything finds.                                         *)
Found(q, g) == Entries(Scan(q, g, NoSource))

CountOf(drives) == Cardinality(Entries(drives))

-----------------------------------------------------------------------------
(* SearchSession::search                                                    *)

(* The snapshots all go when the oldest is of another generation.           *)
Fresh(s, g) == IF s.snapshots # <<>> /\ Head(s.snapshots).generation # g
               THEN EmptySession ELSE s

Exact(s, q, g) == {n \in DOMAIN s.snapshots : /\ s.snapshots[n].generation = g
                                              /\ s.snapshots[n].query = q}

(* Mutant: the snapshot of a longer query is taken.                         *)
BroaderSwapped(s, q, g) ==
    {n \in DOMAIN s.snapshots : /\ s.snapshots[n].generation = g
                                /\ <<s.snapshots[n].query, q>> \in Extends}

Broader(s, q, g) ==
    {n \in DOMAIN s.snapshots : /\ s.snapshots[n].generation = g
                                /\ <<q, s.snapshots[n].query>> \in Extends}

(* The session before it scans: a short query and an unrelated edit empty   *)
(* it, also when the scan is cancelled afterwards.                          *)
Prepare(s, q, g) ==
    LET f == Fresh(s, g) IN
    IF q \in Short \/ Exact(f, q, g) \cup Broader(f, q, g) = {}
    THEN EmptySession ELSE f

(* The last exact snapshot, or the last of those of the longest prefix.     *)
SourceOf(s, q, g) ==
    LET exact == Exact(s, q, g)
        broader == Broader(s, q, g)
        best == {n \in broader : \A k \in broader :
                    Length[s.snapshots[k].query] <= Length[s.snapshots[n].query]} IN
    IF exact # {} THEN s.snapshots[Max(exact)].drives
    ELSE IF broader # {} THEN s.snapshots[Max(best)].drives
    ELSE NoSource

Searched(s, q, g) == Scan(q, g, SourceOf(Prepare(s, q, g), q, g))

(* The candidates of the k oldest snapshots.                                *)
CountOfOldest(s, k) ==
    Cardinality(UNION {{n} \X Entries(s.snapshots[n].drives) : n \in 1 .. k})

(* Mutant: what was evicted still counts.                                   *)
EvictKeepsCount(s, count) ==
    LET len == Len(s.snapshots)
        rest(k) == SubSeq(s.snapshots, k + 1, len)
        fits == {k \in 0 .. len : len - k < MaxSnapshots} IN
    [s EXCEPT !.snapshots = rest(Min(fits))]

(* The oldest snapshots go until another of this size fits (saturating_sub).*)
Evict(s, count) ==
    LET len == Len(s.snapshots)
        rest(k) == SubSeq(s.snapshots, k + 1, len)
        left(k) == IF CountOfOldest(s, k) <= s.count
                   THEN s.count - CountOfOldest(s, k) ELSE 0
        fits == {k \in 0 .. len : \/ k = len
                                  \/ /\ len - k < MaxSnapshots
                                     /\ left(k) + count <= MaxCandidates} IN
    [snapshots |-> rest(Min(fits)), count |-> left(Min(fits))]

(* push_snapshot; a scan that overflowed the budget has no candidates.      *)
Push(s, q, g, drives) ==
    LET e == Evict(s, CountOf(drives)) IN
    IF CountOf(drives) > MaxCandidates THEN s
    ELSE [snapshots |-> Append(e.snapshots,
                               [query |-> q, generation |-> g, drives |-> drives]),
          count |-> e.count + CountOf(drives)]

AfterSearch(s, q, g) ==
    LET p == Prepare(s, q, g) IN
    IF q \in Short \/ Exact(p, q, g) # {} THEN p
    ELSE Push(p, q, g, Searched(s, q, g))

-----------------------------------------------------------------------------
(* The manager's read lock is held during a search, so the index and the    *)
(* generation stand still; a cancelled search returns nothing.              *)

Change ==
    /\ generation < MaxGeneration
    /\ generation' = generation + 1
    /\ UNCHANGED <<session, answers>>

Search(q) ==
    /\ session' = AfterSearch(session, q, generation)
    /\ answers' = {[query |-> q, generation |-> generation,
                    found |-> Entries(Searched(session, q, generation))]}
    /\ UNCHANGED generation

CancelledSearch(q) ==
    /\ session' = Prepare(session, q, generation)
    /\ UNCHANGED <<generation, answers>>

Reset == session' = EmptySession /\ UNCHANGED <<generation, answers>>

SessionInit == generation = 0 /\ session = EmptySession /\ answers = {}

SessionNext ==
    \/ Change
    \/ \E q \in Queries : Search(q) \/ CancelledSearch(q)
    \/ Reset

SessionSpec == SessionInit /\ [][SessionNext]_sessionVars

-----------------------------------------------------------------------------
(* A kept candidate set is the whole result of its query at its generation: *)
(* never one cut short by the budget, by a cancel or by a stale source.     *)
SnapshotsWhole ==
    \A n \in DOMAIN session.snapshots :
        LET s == session.snapshots[n] IN s.drives = Scan(s.query, s.generation, NoSource)

(* All snapshots are of one generation, so that looking at the front is     *)
(* enough to notice a change of the index.                                  *)
OneGeneration ==
    \A n, k \in DOMAIN session.snapshots :
        session.snapshots[n].generation = session.snapshots[k].generation

(* However the candidates were obtained, a search returns what a scan of    *)
(* the whole index would have returned at that moment.                      *)
SearchIsWhole ==
    \A a \in answers : a.found = Found(a.query, a.generation)

(* The counter of cached candidates is exact through evictions and resets,  *)
(* and both budgets hold (candidate_count, MAX_SNAPSHOTS).                  *)
WithinBudget ==
    /\ Len(session.snapshots) <= MaxSnapshots
    /\ session.count = CountOfOldest(session, Len(session.snapshots))
    /\ session.count <= MaxCandidates
=============================================================================
