----------------------------- MODULE FlowProofs -----------------------------
(***************************************************************************)
(* Theorems about one search session and about the search flow around it,  *)
(* for every set of queries and names, every history of the index, every   *)
(* budget and any number of user inputs.                                   *)
(***************************************************************************)
EXTENDS SearchFlow, SequenceTheorems, FiniteSetTheorems, WellFoundedInduction,
        TLAPS

-----------------------------------------------------------------------------
(* The session: the candidate cache is invisible.                           *)

USE SessionAssumption

-----------------------------------------------------------------------------
(* Choices from sets of numbers                                             *)

LEMMA SmallestExists ==
    ASSUME NEW S \in SUBSET Nat, S # {}
    PROVE  \E n \in S : \A k \in S : n <= k
<1>1. PICK n \in S : \A k \in S : ~ <<k, n>> \in OpToRel(<, Nat)
  BY NatLessThanWellFounded, WFMin
<1>2. ASSUME NEW k \in S PROVE n <= k
  <2>1. ~ <<k, n>> \in OpToRel(<, Nat)
    BY <1>1
  <2>2. ~ (k < n)
    BY <2>1 DEF OpToRel
  <2> QED
    BY <2>2
<1> QED
  BY <1>2

LEMMA MinProperty ==
    ASSUME NEW S \in SUBSET Nat, S # {}
    PROVE  Min(S) \in S
BY SmallestExists DEF Min

(* A set of numbers up to b has a largest: the one nearest to b.            *)
LEMMA LargestExists ==
    ASSUME NEW b \in Nat, NEW S \in SUBSET (0 .. b), S # {}
    PROVE  \E n \in S : \A k \in S : n >= k
<1> DEFINE D == {b - n : n \in S}
<1>1. D \in SUBSET Nat /\ D # {}
  <2>1. \A n \in S : b - n \in Nat
    OBVIOUS
  <2> QED
    BY <2>1
<1>2. PICK m \in D : \A k \in D : m <= k
  BY <1>1, SmallestExists
<1>3. PICK n \in S : m = b - n
  OBVIOUS
<1>4. ASSUME NEW k \in S PROVE n >= k
  <2>1. b - n <= b - k
    BY <1>2, <1>3
  <2> QED
    BY <2>1
<1> QED
  BY <1>4

LEMMA MaxProperty ==
    ASSUME NEW b \in Nat, NEW S \in SUBSET (0 .. b), S # {}
    PROVE  Max(S) \in S
BY LargestExists DEF Max
-----------------------------------------------------------------------------
(* Whole candidate sets                                                     *)

(* What the snapshots of generation g can be when each is a whole result.   *)
WholeAt(g) == {[query |-> q, generation |-> g, drives |-> Scan(q, g, NoSource)] :
                  q \in Queries}

(* The candidates of a prefix, or of the query itself, lose nothing.        *)
LEMMA ReuseIsWhole ==
    ASSUME NEW q \in Queries, NEW p \in Queries, NEW g,
           p = q \/ <<q, p>> \in Extends
    PROVE  Scan(q, g, Scan(p, g, NoSource)) = Scan(q, g, NoSource)
<1> DEFINE source == Scan(p, g, NoSource)
<1>1. \A name : <<q, name>> \in Matches => <<p, name>> \in Matches
  <2>1. CASE p = q
    BY <2>1
  <2>2. CASE <<q, p>> \in Extends
    <3> SUFFICES ASSUME NEW name, <<q, name>> \in Matches
                 PROVE  <<p, name>> \in Matches
      OBVIOUS
    <3>1. <<q, p>>[1] = q /\ <<q, p>>[2] = p /\ <<q, name>>[1] = q /\ <<q, name>>[2] = name
      OBVIOUS
    <3> QED
      BY <2>2, <3>1
  <2> QED
    BY <2>1, <2>2
<1>2. DOMAIN source = DOMAIN Contents[g]
  BY DEF Scan
<1>3. ASSUME NEW d \in DOMAIN Contents[g]
      PROVE  source[d] = {i \in DOMAIN Contents[g][d] : <<p, Contents[g][d][i]>> \in Matches}
  BY DEF Scan, NoSource
<1>4. ASSUME NEW d \in DOMAIN Contents[g]
      PROVE  {i \in DOMAIN Contents[g][d] :
                 /\ d \in DOMAIN source => i \in source[d]
                 /\ <<q, Contents[g][d][i]>> \in Matches}
           = {i \in DOMAIN Contents[g][d] :
                 /\ d \in DOMAIN NoSource => i \in NoSource[d]
                 /\ <<q, Contents[g][d][i]>> \in Matches}
  <2>1. d \notin DOMAIN NoSource
    BY DEF NoSource
  <2> HIDE DEF source
  <2> QED
    BY <1>1, <1>2, <1>3, <2>1
<1> HIDE DEF source
<1>5. Scan(q, g, source) = Scan(q, g, NoSource)
  BY <1>4 DEF Scan
<1> QED
  BY <1>5 DEF source

(* A session whose snapshots are whole and of one generation keeps only     *)
(* those of the current generation.                                         *)
LEMMA PrepareIsWhole ==
    ASSUME NEW s, NEW h \in Nat, NEW g \in Nat, NEW q \in Queries,
           s.snapshots \in Seq(WholeAt(h))
    PROVE  Prepare(s, q, g).snapshots \in Seq(WholeAt(g))
<1>1. EmptySession.snapshots \in Seq(WholeAt(g))
  BY DEF EmptySession
<1>2. Fresh(s, g).snapshots \in Seq(WholeAt(g))
  <2>1. CASE s.snapshots = <<>>
    BY <2>1, EmptySeq DEF Fresh
  <2>2. CASE s.snapshots # <<>>
    <3>1. Head(s.snapshots).generation = h
      BY <2>2 DEF WholeAt
    <3> QED
      BY <1>1, <3>1 DEF Fresh
  <2> QED
    BY <2>1, <2>2
<1> QED
  BY <1>1, <1>2 DEF Prepare

(* Candidates are only ever taken from a snapshot of the query or of a      *)
(* prefix of it.                                                            *)
LEMMA SourceIsReusable ==
    ASSUME NEW s, NEW g \in Nat, NEW q \in Queries,
           s.snapshots \in Seq(WholeAt(g))
    PROVE  \/ SourceOf(s, q, g) = NoSource
           \/ \E p \in Queries : /\ p = q \/ <<q, p>> \in Extends
                                 /\ SourceOf(s, q, g) = Scan(p, g, NoSource)
<1> DEFINE exact == Exact(s, q, g)
           broader == Broader(s, q, g)
           best == {n \in broader : \A k \in broader :
                       Length[s.snapshots[k].query] <= Length[s.snapshots[n].query]}
<1>1. DOMAIN s.snapshots = 1 .. Len(s.snapshots) /\ Len(s.snapshots) \in Nat
  OBVIOUS
<1>2. /\ exact \in SUBSET (0 .. Len(s.snapshots))
      /\ broader \in SUBSET (0 .. Len(s.snapshots))
  BY <1>1 DEF Exact, Broader
<1>3. ASSUME NEW n \in exact \cup broader
      PROVE  \E p \in Queries : /\ p = q \/ <<q, p>> \in Extends
                                /\ s.snapshots[n].drives = Scan(p, g, NoSource)
  <2>1. n \in 1 .. Len(s.snapshots)
    BY <1>1 DEF Exact, Broader
  <2>2. s.snapshots[n] \in WholeAt(g)
    BY <2>1, ElementOfSeq
  <2>3. PICK p \in Queries : s.snapshots[n] =
             [query |-> p, generation |-> g, drives |-> Scan(p, g, NoSource)]
    BY <2>2 DEF WholeAt
  <2>4. p = q \/ <<q, p>> \in Extends
    <3>1. s.snapshots[n].query = p
      BY <2>3
    <3>2. s.snapshots[n].query = q \/ <<q, s.snapshots[n].query>> \in Extends
      BY DEF Exact, Broader
    <3> QED
      BY <3>1, <3>2
  <2> HIDE DEF exact, broader, best
  <2>5. s.snapshots[n].drives = Scan(p, g, NoSource)
    BY <2>3
  <2> QED
    BY <2>4, <2>5
<1>4. CASE exact # {}
  <2>1. Max(exact) \in exact
    BY <1>1, <1>2, <1>4, MaxProperty
  <2>2. SourceOf(s, q, g) = s.snapshots[Max(exact)].drives
    BY <1>4 DEF SourceOf
  <2> QED
    BY <1>3, <2>1, <2>2
<1>5. CASE exact = {} /\ broader # {}
  <2>1. best # {}
    <3> DEFINE LengthAt(n) == Length[s.snapshots[n].query]
               L == {LengthAt(n) : n \in broader}
    <3>1. ASSUME NEW n \in broader PROVE LengthAt(n) \in 0 .. Length[q]
      <4>1. s.snapshots[n].query \in Queries /\ <<q, s.snapshots[n].query>> \in Extends
        BY DEF Broader
      <4> QED
        BY <4>1
    <3>2. L \in SUBSET (0 .. Length[q]) /\ L # {} /\ Length[q] \in Nat
      BY <1>5, <3>1
    <3>3. PICK l \in L : \A k \in L : l >= k
      <4> HIDE DEF L
      <4> QED
        BY <3>2, LargestExists
    <3>4. PICK n \in broader : l = LengthAt(n)
      OBVIOUS
    <3>5. n \in best
      <4>1. ASSUME NEW k \in broader PROVE LengthAt(k) <= LengthAt(n)
        BY <3>1, <3>3, <3>4
      <4> QED
        BY <4>1
    <3> QED
      BY <3>5
  <2>2. Max(best) \in best
    <3> HIDE DEF broader
    <3>1. best \in SUBSET (0 .. Len(s.snapshots))
      BY <1>2
    <3> HIDE DEF best
    <3> QED
      BY <1>1, <2>1, <3>1, MaxProperty
  <2>3. SourceOf(s, q, g) = s.snapshots[Max(best)].drives
    BY <1>5 DEF SourceOf
  <2> QED
    BY <1>3, <2>2, <2>3
<1>6. CASE exact = {} /\ broader = {}
  BY <1>6 DEF SourceOf
<1> QED
  BY <1>4, <1>5, <1>6

LEMMA SearchedIsWhole ==
    ASSUME NEW s, NEW h \in Nat, NEW g \in Nat, NEW q \in Queries,
           s.snapshots \in Seq(WholeAt(h))
    PROVE  Searched(s, q, g) = Scan(q, g, NoSource)
<1>1. Prepare(s, q, g).snapshots \in Seq(WholeAt(g))
  BY PrepareIsWhole
<1>2. \/ SourceOf(Prepare(s, q, g), q, g) = NoSource
      \/ \E p \in Queries : /\ p = q \/ <<q, p>> \in Extends
                            /\ SourceOf(Prepare(s, q, g), q, g) = Scan(p, g, NoSource)
  BY <1>1, SourceIsReusable
<1>3. CASE SourceOf(Prepare(s, q, g), q, g) = NoSource
  BY <1>3 DEF Searched
<1>4. ASSUME NEW p \in Queries, p = q \/ <<q, p>> \in Extends,
             SourceOf(Prepare(s, q, g), q, g) = Scan(p, g, NoSource)
      PROVE  Searched(s, q, g) = Scan(q, g, NoSource)
  BY <1>4, ReuseIsWhole DEF Searched
<1> QED
  BY <1>2, <1>3, <1>4

(* Dropping the oldest snapshots and keeping another whole one.             *)
LEMMA PushIsWhole ==
    ASSUME NEW s, NEW g \in Nat, NEW q \in Queries,
           s.snapshots \in Seq(WholeAt(g))
    PROVE  Push(s, q, g, Scan(q, g, NoSource)).snapshots \in Seq(WholeAt(g))
<1> DEFINE drives == Scan(q, g, NoSource)
           count == CountOf(drives)
           len == Len(s.snapshots)
           kept == Evict(s, count).snapshots
           x == [query |-> q, generation |-> g, drives |-> drives]
<1>1. PICK fits \in SUBSET (0 .. len) : /\ fits # {}
                                         /\ kept = SubSeq(s.snapshots, Min(fits) + 1, len)
  <2> HIDE DEF count
  <2> DEFINE left(k) == IF CountOfOldest(s, k) <= s.count
                        THEN s.count - CountOfOldest(s, k) ELSE 0
             F == {k \in 0 .. len : \/ k = len
                                    \/ /\ len - k < MaxSnapshots
                                       /\ left(k) + count <= MaxCandidates}
  <2>1. len \in F
    OBVIOUS
  <2>2. kept = SubSeq(s.snapshots, Min(F) + 1, len)
    BY DEF Evict
  <2> QED
    BY <2>1, <2>2
<1>2. Min(fits) \in 0 .. len
  <2>1. fits \in SUBSET Nat
    OBVIOUS
  <2> QED
    BY <1>1, <2>1, MinProperty
<1>3. kept \in Seq(WholeAt(g))
  <2>1. len \in Nat /\ Min(fits) + 1 \in Int
    BY <1>2
  <2>2. \A i \in Min(fits) + 1 .. len : s.snapshots[i] \in WholeAt(g)
    BY <1>2, <2>1, ElementOfSeq
  <2> QED
    BY <1>1, <2>1, <2>2, SubSeqProperties
<1>4. x \in WholeAt(g)
  BY DEF WholeAt
<1>5. Append(kept, x) \in Seq(WholeAt(g))
  BY <1>3, <1>4, AppendProperties
<1>6. \/ Push(s, q, g, drives) = s
      \/ Push(s, q, g, drives).snapshots = Append(kept, x)
  <2> HIDE DEF drives
  <2> QED
    BY DEF Push
<1> QED
  BY <1>5, <1>6

LEMMA SearchKeepsWhole ==
    ASSUME NEW s, NEW h \in Nat, NEW g \in Nat, NEW q \in Queries,
           s.snapshots \in Seq(WholeAt(h))
    PROVE  AfterSearch(s, q, g).snapshots \in Seq(WholeAt(g))
<1>1. Prepare(s, q, g).snapshots \in Seq(WholeAt(g))
  BY PrepareIsWhole
<1>2. Push(Prepare(s, q, g), q, g, Searched(s, q, g)).snapshots \in Seq(WholeAt(g))
  <2>1. Searched(s, q, g) = Scan(q, g, NoSource)
    <3> HIDE DEF WholeAt, Searched, Scan
    <3> QED
      BY ONLY s.snapshots \in Seq(WholeAt(h)), h \in Nat, g \in Nat, q \in Queries,
         SearchedIsWhole
  <2>2. Push(Prepare(s, q, g), q, g, Scan(q, g, NoSource)).snapshots \in Seq(WholeAt(g))
    BY <1>1, PushIsWhole
  <2> QED
    BY <2>1, <2>2
<1> QED
  BY <1>1, <1>2 DEF AfterSearch

-----------------------------------------------------------------------------
(* The inductive invariant: the snapshots are whole results of one and the  *)
(* same generation.  Neither half is inductive without the other: a stale   *)
(* snapshot behind a current one would be a source that loses files.        *)
Whole ==
    /\ generation \in Nat
    /\ \E h \in Nat : session.snapshots \in Seq(WholeAt(h))
    /\ SearchIsWhole

LEMMA WholeInit == SessionInit => Whole
BY EmptySeq DEF SessionInit, Whole, EmptySession, SearchIsWhole

LEMMA WholeNext == Whole /\ [SessionNext]_sessionVars => Whole'
<1> SUFFICES ASSUME Whole, [SessionNext]_sessionVars PROVE Whole'
  OBVIOUS
<1>0. generation \in Nat
  BY DEF Whole
<1>1. PICK h \in Nat : session.snapshots \in Seq(WholeAt(h))
  BY DEF Whole
<1>2. CASE Change
  <2>1. generation' \in Nat /\ session' = session /\ answers' = answers
    BY <1>0, <1>2 DEF Change
  <2> QED
    BY <1>1, <2>1 DEF Whole, SearchIsWhole
<1>3. ASSUME NEW q \in Queries, Search(q) PROVE Whole'
  <2>1. generation' = generation /\ session' = AfterSearch(session, q, generation)
    BY <1>3 DEF Search
  <2>2. session'.snapshots \in Seq(WholeAt(generation))
    BY <1>0, <1>1, <2>1, SearchKeepsWhole
  <2>3. answers' = {[query |-> q, generation |-> generation,
                     found |-> Found(q, generation)]}
    <3>1. Searched(session, q, generation) = Scan(q, generation, NoSource)
      <4> DEFINE s == session
                 g == generation
      <4>1. s.snapshots \in Seq(WholeAt(h)) /\ g \in Nat
        BY <1>0, <1>1
      <4> HIDE DEF s, g
      <4>2. Searched(s, q, g) = Scan(q, g, NoSource)
        BY ONLY <4>1, h \in Nat, q \in Queries, SearchedIsWhole
      <4> QED
        BY <4>2 DEF s, g
    <3> QED
      BY <1>3, <3>1 DEF Search, Found
  <2>4. SearchIsWhole'
    BY <2>3 DEF SearchIsWhole
  <2> QED
    BY <1>0, <2>1, <2>2, <2>4 DEF Whole
<1>4. ASSUME NEW q \in Queries, CancelledSearch(q) PROVE Whole'
  <2>1. /\ generation' = generation /\ answers' = answers
        /\ session' = Prepare(session, q, generation)
    BY <1>4 DEF CancelledSearch
  <2>2. session'.snapshots \in Seq(WholeAt(generation))
    BY <1>0, <1>1, <2>1, PrepareIsWhole
  <2> QED
    BY <1>0, <2>1, <2>2 DEF Whole, SearchIsWhole
<1>5. CASE Reset
  BY <1>0, <1>5, EmptySeq DEF Reset, Whole, EmptySession, SearchIsWhole
<1>6. CASE UNCHANGED sessionVars
  BY <1>0, <1>1, <1>6 DEF sessionVars, Whole, SearchIsWhole
<1> QED
  BY <1>2, <1>3, <1>4, <1>5, <1>6 DEF SessionNext

LEMMA WholeImplies == Whole => SnapshotsWhole /\ OneGeneration
<1> SUFFICES ASSUME Whole PROVE SnapshotsWhole /\ OneGeneration
  OBVIOUS
<1>1. PICK h \in Nat : session.snapshots \in Seq(WholeAt(h))
  BY DEF Whole
<1>2. ASSUME NEW n \in DOMAIN session.snapshots
      PROVE  /\ session.snapshots[n].generation = h
             /\ session.snapshots[n].drives = Scan(session.snapshots[n].query, h, NoSource)
  <2>1. session.snapshots[n] \in WholeAt(h)
    BY <1>1, ElementOfSeq
  <2> QED
    BY <2>1 DEF WholeAt
<1> QED
  BY <1>2 DEF SnapshotsWhole, OneGeneration

(* Whatever is typed, deleted or cancelled and however the index changes in *)
(* between, reusing candidates never changes the result of a search.        *)
THEOREM SearchIsAlwaysWhole == SessionSpec => []SearchIsWhole
<1>1. Whole => SearchIsWhole
  BY DEF Whole
<1> QED
  BY WholeInit, WholeNext, <1>1, PTL DEF SessionSpec

(* Every candidate set that is kept is complete, whatever the budget.       *)
THEOREM SnapshotsAlwaysWhole == SessionSpec => []SnapshotsWhole
BY WholeInit, WholeNext, WholeImplies, PTL DEF SessionSpec

(* The look at the oldest snapshot that notices a change of the index is    *)
(* enough for all of them.                                                  *)
THEOREM AlwaysOneGeneration == SessionSpec => []OneGeneration
BY WholeInit, WholeNext, WholeImplies, PTL DEF SessionSpec

-----------------------------------------------------------------------------
(* Counting the candidates of several snapshots                             *)

(* The members of the sets A[n], told apart by the n they come from.        *)
Tagged(A, I) == UNION {{n} \X A[n] : n \in I}

LEMMA TaggedMembers ==
    ASSUME NEW A, NEW I
    PROVE  /\ \A n \in I : \A e \in A[n] : <<n, e>> \in Tagged(A, I)
           /\ \A x \in Tagged(A, I) : \E n \in I : \E e \in A[n] : x = <<n, e>>
BY DEF Tagged

LEMMA SameCount ==
    ASSUME NEW S, NEW T, NEW f \in [S -> T], IsFiniteSet(S),
           \A x, y \in S : f[x] = f[y] => x = y,
           \A t \in T : \E x \in S : f[x] = t
    PROVE  IsFiniteSet(T) /\ Cardinality(T) = Cardinality(S)
<1>1. f \in Bijection(S, T)
  BY DEF Bijection, Injection, Surjection, IsInjective
<1> QED
  BY <1>1, FS_Bijection DEF ExistsBijection

LEMMA TaggedOne ==
    ASSUME NEW A, NEW n, IsFiniteSet(A[n])
    PROVE  /\ IsFiniteSet(Tagged(A, {n}))
           /\ Cardinality(Tagged(A, {n})) = Cardinality(A[n])
<1> DEFINE T == {n} \X A[n]
           f == [e \in A[n] |-> <<n, e>>]
<1>1. Tagged(A, {n}) = T
  BY DEF Tagged
<1>2. f \in [A[n] -> T] /\ \A e \in A[n] : f[e] = <<n, e>>
  OBVIOUS
<1>3. /\ \A x, y \in A[n] : f[x] = f[y] => x = y
      /\ \A t \in T : \E x \in A[n] : f[x] = t
  OBVIOUS
<1> HIDE DEF f, T
<1> QED
  BY <1>1, <1>2, <1>3, SameCount

LEMMA TaggedFinite ==
    ASSUME NEW A, NEW I, IsFiniteSet(I), \A n \in I : IsFiniteSet(A[n])
    PROVE  IsFiniteSet(Tagged(A, I))
<1> DEFINE T == {{n} \X A[n] : n \in I}
           f == [n \in I |-> {n} \X A[n]]
<1>1. f \in Surjection(I, T)
  BY DEF Surjection
<1>2. IsFiniteSet(T)
  BY <1>1, FS_Surjection
<1>3. ASSUME NEW t \in T PROVE IsFiniteSet(t)
  <2>1. PICK n \in I : t = {n} \X A[n]
    OBVIOUS
  <2>2. IsFiniteSet({n})
    BY FS_Singleton
  <2> QED
    BY <2>1, <2>2, FS_Product
<1> HIDE DEF T
<1>4. IsFiniteSet(UNION T)
  BY <1>2, <1>3, FS_UNION
<1> QED
  BY <1>4 DEF Tagged, T

LEMMA TaggedApart ==
    ASSUME NEW A, NEW I, NEW J, IsFiniteSet(I), IsFiniteSet(J), I \cap J = {},
           \A n \in I \cup J : IsFiniteSet(A[n])
    PROVE  /\ Cardinality(Tagged(A, I)) \in Nat
           /\ Cardinality(Tagged(A, J)) \in Nat
           /\ Cardinality(Tagged(A, I \cup J)) =
                 Cardinality(Tagged(A, I)) + Cardinality(Tagged(A, J))
<1>1. IsFiniteSet(Tagged(A, I)) /\ IsFiniteSet(Tagged(A, J))
  BY TaggedFinite
<1>2. Tagged(A, I \cup J) = Tagged(A, I) \cup Tagged(A, J)
  BY DEF Tagged
<1>3. Tagged(A, I) \cap Tagged(A, J) = {}
  <2> SUFFICES ASSUME NEW x \in Tagged(A, I), x \in Tagged(A, J) PROVE FALSE
    OBVIOUS
  <2>1. PICK n \in I : \E e \in A[n] : x = <<n, e>>
    BY TaggedMembers
  <2>2. PICK k \in J : \E e \in A[k] : x = <<k, e>>
    BY TaggedMembers
  <2> QED
    BY <2>1, <2>2
<1>4. /\ Cardinality(Tagged(A, I)) \in Nat /\ Cardinality(Tagged(A, J)) \in Nat
      /\ Cardinality({}) = 0
  BY <1>1, FS_CardinalityType, FS_EmptySet
<1> DEFINE P == Tagged(A, I)
           Q == Tagged(A, J)
<1>5. IsFiniteSet(P) /\ IsFiniteSet(Q) /\ P \cap Q = {}
  BY <1>1, <1>3
<1> HIDE DEF P, Q
<1>6. Cardinality(P \cup Q) = Cardinality(P) + Cardinality(Q) - Cardinality(P \cap Q)
  BY <1>5, FS_Union
<1>7. Cardinality(P) \in Nat /\ Cardinality(Q) \in Nat /\ Cardinality(P \cap Q) = 0
  BY <1>4, <1>5 DEF P, Q
<1>8. Cardinality(P \cup Q) = Cardinality(P) + Cardinality(Q)
  BY <1>6, <1>7
<1> QED
  BY <1>2, <1>4, <1>8 DEF P, Q

Shifted(A, B, k, m) == \A n \in 1 .. m : B[n] = A[n + k] /\ IsFiniteSet(B[n])

(* Renumbering the sets changes no count.                                   *)
LEMMA TaggedShift ==
    ASSUME NEW A, NEW B, NEW k \in Nat, NEW m \in Nat, Shifted(A, B, k, m)
    PROVE  Cardinality(Tagged(B, 1 .. m)) = Cardinality(Tagged(A, k + 1 .. k + m))
<1> DEFINE S == Tagged(B, 1 .. m)
           T == Tagged(A, k + 1 .. k + m)
           f == [x \in S |-> <<x[1] + k, x[2]>>]
<1>0. \A n \in 1 .. m : B[n] = A[n + k] /\ IsFiniteSet(B[n])
  BY DEF Shifted
<1>1. IsFiniteSet(S)
  <2> DEFINE I == 1 .. m
  <2>1. IsFiniteSet(I) /\ \A n \in I : IsFiniteSet(B[n])
    BY <1>0, FS_Interval
  <2> HIDE DEF I
  <2>2. IsFiniteSet(Tagged(B, I))
    BY <2>1, TaggedFinite
  <2> QED
    BY <2>2 DEF I
<1>2. ASSUME NEW x \in S
      PROVE  /\ x[1] \in 1 .. m /\ x[2] \in B[x[1]] /\ x = <<x[1], x[2]>>
             /\ f[x] = <<x[1] + k, x[2]>>
  BY TaggedMembers
<1>3. ASSUME NEW x \in S PROVE f[x] \in T
  <2> DEFINE n == x[1]
  <2>2. n \in 1 .. m /\ x[2] \in B[n]
    BY <1>2
  <2> HIDE DEF n
  <2>3. n + k \in k + 1 .. k + m /\ x[2] \in A[n + k]
    BY <1>0, <2>2
  <2>1. x[1] + k \in k + 1 .. k + m /\ x[2] \in A[x[1] + k]
    BY <2>3 DEF n
  <2> QED
    BY <1>2, <2>1, TaggedMembers
<1>4. ASSUME NEW x \in S, NEW y \in S, f[x] = f[y] PROVE x = y
  <2>1. x[1] + k = y[1] + k /\ x[2] = y[2]
    BY <1>2, <1>4
  <2>2. x[1] = y[1]
    <3> DEFINE n == x[1]
               l == y[1]
    <3>1. n \in 1 .. m /\ l \in 1 .. m /\ n + k = l + k
      BY <1>2, <2>1
    <3> HIDE DEF n, l
    <3>2. n = l
      BY <3>1
    <3> QED
      BY <3>2 DEF n, l
  <2> QED
    BY <1>2, <2>1, <2>2
<1>5. ASSUME NEW t \in T PROVE \E x \in S : f[x] = t
  <2>1. PICK n \in k + 1 .. k + m : \E e \in A[n] : t = <<n, e>>
    BY TaggedMembers
  <2>2. n - k \in 1 .. m /\ (n - k) + k = n
    OBVIOUS
  <2>6. PICK e \in A[n] : t = <<n, e>>
    BY <2>1
  <2>3. e \in B[n - k]
    BY <1>0, <2>2
  <2>4. <<n - k, e>> \in S
    BY <2>2, <2>3, TaggedMembers
  <2>5. f[<<n - k, e>>] = <<(n - k) + k, e>>
    BY <2>4
  <2> QED
    BY <2>2, <2>4, <2>5, <2>6
<1>6. f \in [S -> T]
  BY <1>3
<1> HIDE DEF f
<1> HIDE DEF S, T
<1>8. Cardinality(T) = Cardinality(S)
  BY <1>1, <1>4, <1>5, <1>6, SameCount
<1> QED
  BY <1>8 DEF S, T

-----------------------------------------------------------------------------
(* The budget of the session                                                *)

FiniteEach(S) == \A x \in S : IsFiniteSet(Entries(x.drives))

(* The counter is exact and both limits hold.                               *)
Budgeted(s, S) ==
    /\ s.snapshots \in Seq(S)
    /\ Len(s.snapshots) <= MaxSnapshots
    /\ s.count = CountOfOldest(s, Len(s.snapshots))
    /\ s.count <= MaxCandidates

KeptSets(s) == [n \in DOMAIN s.snapshots |-> Entries(s.snapshots[n].drives)]

LEMMA CountIsTagged ==
    ASSUME NEW s, NEW k \in Nat, 1 .. k \subseteq DOMAIN s.snapshots
    PROVE  CountOfOldest(s, k) = Cardinality(Tagged(KeptSets(s), 1 .. k))
<1> DEFINE I == 1 .. k
<1>1. \A n \in I : KeptSets(s)[n] = Entries(s.snapshots[n].drives)
  BY DEF KeptSets
<1> HIDE DEF I
<1>2. UNION {{n} \X Entries(s.snapshots[n].drives) : n \in I} = Tagged(KeptSets(s), I)
  BY <1>1 DEF Tagged
<1> QED
  BY <1>2 DEF I, CountOfOldest

(* The candidates of the oldest k snapshots and of the others are apart.    *)
LEMMA CountSplits ==
    ASSUME NEW S, FiniteEach(S), NEW s, s.snapshots \in Seq(S),
           NEW k \in 0 .. Len(s.snapshots)
    PROVE  /\ CountOfOldest(s, k) \in Nat
           /\ Cardinality(Tagged(KeptSets(s), k + 1 .. Len(s.snapshots))) \in Nat
           /\ CountOfOldest(s, Len(s.snapshots)) =
                 CountOfOldest(s, k)
                   + Cardinality(Tagged(KeptSets(s), k + 1 .. Len(s.snapshots)))
<1> DEFINE len == Len(s.snapshots)
           I == 1 .. k
           J == k + 1 .. len
           A == KeptSets(s)
<1>1. len \in Nat /\ DOMAIN s.snapshots = 1 .. len /\ k \in Nat /\ k <= len
      /\ \A n \in 1 .. len : s.snapshots[n] \in S
  OBVIOUS
<1> HIDE DEF len
<1>2. /\ I \subseteq 1 .. len /\ J \subseteq 1 .. len /\ I \cup J = 1 .. len
      /\ I \cap J = {}
  BY <1>1
<1>3. IsFiniteSet(I) /\ IsFiniteSet(J)
  BY <1>1, FS_Interval
<1>4. \A n \in 1 .. len : A[n] = Entries(s.snapshots[n].drives)
  BY <1>1 DEF KeptSets
<1>5. \A n \in I \cup J : IsFiniteSet(A[n])
  BY <1>1, <1>2, <1>4 DEF FiniteEach
<1>6. /\ CountOfOldest(s, k) = Cardinality(Tagged(A, I))
      /\ CountOfOldest(s, len) = Cardinality(Tagged(A, 1 .. len))
  BY <1>1, <1>2, CountIsTagged
<1> HIDE DEF I, J, A
<1>7. /\ Cardinality(Tagged(A, I)) \in Nat
      /\ Cardinality(Tagged(A, J)) \in Nat
      /\ Cardinality(Tagged(A, I \cup J)) =
            Cardinality(Tagged(A, I)) + Cardinality(Tagged(A, J))
  BY <1>2, <1>3, <1>5, TaggedApart
<1> QED
  BY <1>2, <1>6, <1>7 DEF len, J, A

(* What is left when the k oldest have gone.                                *)
LEMMA CountOfRest ==
    ASSUME NEW S, FiniteEach(S), NEW s, s.snapshots \in Seq(S),
           NEW k \in 0 .. Len(s.snapshots), NEW t,
           t.snapshots = SubSeq(s.snapshots, k + 1, Len(s.snapshots))
    PROVE  /\ t.snapshots \in Seq(S)
           /\ Len(t.snapshots) = Len(s.snapshots) - k
           /\ CountOfOldest(t, Len(t.snapshots)) =
                 Cardinality(Tagged(KeptSets(s), k + 1 .. Len(s.snapshots)))
<1> DEFINE len == Len(s.snapshots)
           m == len - k
<1>1. len \in Nat /\ k \in Nat /\ k <= len /\ DOMAIN s.snapshots = 1 .. len
      /\ \A n \in 1 .. len : s.snapshots[n] \in S
  OBVIOUS
<1>2. m \in Nat /\ k + m = len /\ \A n \in 1 .. m : n + k \in 1 .. len
  BY <1>1
<1>3. /\ t.snapshots \in Seq(S) /\ Len(t.snapshots) = m /\ DOMAIN t.snapshots = 1 .. m
      /\ \A n \in 1 .. m : t.snapshots[n] = s.snapshots[n + k]
  <2>1. k + 1 \in Int /\ len \in Nat /\ \A i \in k + 1 .. len : s.snapshots[i] \in S
    BY <1>1
  <2>2. t.snapshots \in Seq(S)
    BY <2>1, SubSeqProperties
  <2>3. Len(t.snapshots) = m /\ \A n \in 1 .. m : t.snapshots[n] = s.snapshots[n + k]
    BY <1>1
  <2> QED
    BY <2>2, <2>3
<1> HIDE DEF len, m
<1>4. \A n \in 1 .. m : KeptSets(t)[n] = KeptSets(s)[n + k] /\ IsFiniteSet(KeptSets(t)[n])
  <2> SUFFICES ASSUME NEW n \in 1 .. m
               PROVE  KeptSets(t)[n] = KeptSets(s)[n + k] /\ IsFiniteSet(KeptSets(t)[n])
    OBVIOUS
  <2>1. KeptSets(t)[n] = Entries(t.snapshots[n].drives)
    BY <1>3 DEF KeptSets
  <2>2. n + k \in 1 .. len /\ KeptSets(s)[n + k] = Entries(s.snapshots[n + k].drives)
    BY <1>1, <1>2 DEF KeptSets
  <2>3. IsFiniteSet(Entries(s.snapshots[n + k].drives))
    BY <1>1, <2>2 DEF FiniteEach
  <2> QED
    BY <1>3, <2>1, <2>2, <2>3
<1>5. Cardinality(Tagged(KeptSets(t), 1 .. m)) = Cardinality(Tagged(KeptSets(s), k + 1 .. k + m))
  <2> DEFINE A == KeptSets(s)
             B == KeptSets(t)
  <2>1. k \in Nat /\ m \in Nat /\ Shifted(A, B, k, m)
    BY <1>1, <1>2, <1>4 DEF Shifted
  <2> HIDE DEF A, B
  <2>2. Cardinality(Tagged(B, 1 .. m)) = Cardinality(Tagged(A, k + 1 .. k + m))
    BY ONLY <2>1, TaggedShift
  <2> QED
    BY <2>2 DEF A, B
<1>6. CountOfOldest(t, m) = Cardinality(Tagged(KeptSets(t), 1 .. m))
  BY <1>2, <1>3, CountIsTagged
<1> QED
  BY <1>2, <1>3, <1>5, <1>6 DEF len, m

(* Evicting makes room, and what it subtracts is what went.                 *)
LEMMA EvictBudget ==
    ASSUME NEW S, FiniteEach(S), NEW s, Budgeted(s, S), NEW count \in Nat,
           count <= MaxCandidates
    PROVE  /\ Budgeted(Evict(s, count), S)
           /\ Len(Evict(s, count).snapshots) < MaxSnapshots
           /\ Evict(s, count).count \in Nat
           /\ Evict(s, count).count + count <= MaxCandidates
<1> DEFINE len == Len(s.snapshots)
           left(k) == IF CountOfOldest(s, k) <= s.count
                      THEN s.count - CountOfOldest(s, k) ELSE 0
           F == {k \in 0 .. len : \/ k = len
                                  \/ /\ len - k < MaxSnapshots
                                     /\ left(k) + count <= MaxCandidates}
           m == Min(F)
           e == Evict(s, count)
<1>1. len \in Nat /\ s.snapshots \in Seq(S) /\ len <= MaxSnapshots
      /\ s.count = CountOfOldest(s, len) /\ s.count <= MaxCandidates
  BY DEF Budgeted
<1>2. e.snapshots = SubSeq(s.snapshots, m + 1, len) /\ e.count = left(m)
  BY DEF Evict
<1>3. m \in F
  <2>1. len \in F /\ F \in SUBSET Nat
    BY <1>1
  <2> HIDE DEF F
  <2> QED
    BY <2>1, MinProperty
<1>4. m \in 0 .. len /\ (m = len \/ (len - m < MaxSnapshots /\ left(m) + count <= MaxCandidates))
  BY <1>3
<1> HIDE DEF m, F
<1> DEFINE gone == CountOfOldest(s, m)
           rest == Cardinality(Tagged(KeptSets(s), m + 1 .. len))
<1>5. gone \in Nat /\ rest \in Nat /\ s.count = gone + rest
  BY <1>1, <1>4, CountSplits
<1>6. e.snapshots \in Seq(S) /\ Len(e.snapshots) = len - m
      /\ CountOfOldest(e, Len(e.snapshots)) = rest
  <2> HIDE DEF e
  <2> QED
    BY <1>1, <1>2, <1>4, CountOfRest
<1>7. left(m) = rest
  <2> HIDE DEF gone, rest
  <2>1. gone <= s.count /\ s.count - gone = rest
    BY <1>5
  <2> QED
    BY <2>1 DEF gone
<1>8. e.count = rest /\ rest <= MaxCandidates
  <2> HIDE DEF gone, rest, left, e
  <2> QED
    BY <1>1, <1>2, <1>5, <1>7
<1>9. len - m <= MaxSnapshots
  <2> HIDE DEF len
  <2> QED
    BY <1>1, <1>4
<1>10. Budgeted(e, S)
  <2> HIDE DEF rest, e, len
  <2> QED
    BY <1>6, <1>8, <1>9 DEF Budgeted
<1>11. len - m < MaxSnapshots /\ rest + count <= MaxCandidates
  <2>1. CASE m = len
    <3>1. len - m = 0 /\ m + 1 .. len = {}
      BY <1>1, <2>1
    <3>2. Tagged(KeptSets(s), {}) = {}
      BY DEF Tagged
    <3>3. rest = 0
      BY <3>1, <3>2, FS_EmptySet
    <3> HIDE DEF rest, len
    <3> QED
      BY <3>1, <3>3
  <2>2. CASE len - m < MaxSnapshots /\ left(m) + count <= MaxCandidates
    BY <1>7, <2>2
  <2> QED
    BY <1>4, <2>1, <2>2
<1> HIDE DEF rest, e, len
<1> QED
  BY <1>5, <1>6, <1>8, <1>10, <1>11 DEF e

(* The new snapshot is counted once.                                        *)
LEMMA AppendBudget ==
    ASSUME NEW S, FiniteEach(S), NEW e, Budgeted(e, S), NEW x \in S, NEW t,
           Len(e.snapshots) < MaxSnapshots, e.count \in Nat,
           e.count + CountOf(x.drives) <= MaxCandidates,
           t.snapshots = Append(e.snapshots, x), t.count = e.count + CountOf(x.drives)
    PROVE  Budgeted(t, S)
<1> DEFINE len == Len(e.snapshots)
           I == 1 .. len
           J == {len + 1}
           A == KeptSets(t)
<1>1. /\ e.snapshots \in Seq(S) /\ len \in Nat /\ len + 1 <= MaxSnapshots
      /\ DOMAIN e.snapshots = 1 .. len
      /\ e.count = CountOfOldest(e, len)
  BY DEF Budgeted
<1>2. /\ t.snapshots \in Seq(S) /\ Len(t.snapshots) = len + 1
      /\ DOMAIN t.snapshots = 1 .. len + 1
      /\ t.snapshots[len + 1] = x /\ \A n \in 1 .. len : t.snapshots[n] = e.snapshots[n]
  BY <1>1
<1>3. I \subseteq 1 .. len + 1 /\ I \cup J = 1 .. len + 1 /\ I \cap J = {}
      /\ len + 1 \in Nat
  <2> HIDE DEF len
  <2> QED
    BY <1>1
<1>4. IsFiniteSet(I) /\ IsFiniteSet(J)
  <2>1. 1 \in Int /\ len \in Int
    BY <1>1
  <2> HIDE DEF len
  <2> QED
    BY <2>1, FS_Interval, FS_Singleton
<1>5. /\ A[len + 1] = Entries(x.drives) /\ \A n \in I : A[n] = KeptSets(e)[n]
      /\ \A n \in I \cup J : IsFiniteSet(A[n])
  <2>1. \A n \in 1 .. len + 1 : A[n] = Entries(t.snapshots[n].drives)
    BY <1>2 DEF KeptSets
  <2>2. \A n \in 1 .. len + 1 : t.snapshots[n] \in S
    BY <1>2
  <2>3. \A n \in I : KeptSets(e)[n] = Entries(e.snapshots[n].drives)
    BY <1>1 DEF KeptSets
  <2>4. len + 1 \in 1 .. len + 1
    BY <1>3
  <2> HIDE DEF A, J, len
  <2>5. A[len + 1] = Entries(x.drives)
    BY <1>2, <2>1, <2>4
  <2>6. \A n \in I : A[n] = KeptSets(e)[n]
    BY <1>2, <1>3, <2>1, <2>3
  <2>7. \A n \in 1 .. len + 1 : IsFiniteSet(A[n])
    BY <2>1, <2>2 DEF FiniteEach
  <2> QED
    BY <1>3, <2>5, <2>6, <2>7
<1>6. /\ Cardinality(Tagged(A, J)) = CountOf(x.drives)
      /\ Tagged(A, I) = Tagged(KeptSets(e), I)
  <2>1. IsFiniteSet(A[len + 1])
    BY <1>5
  <2> HIDE DEF A, I
  <2>2. Cardinality(Tagged(A, {len + 1})) = Cardinality(A[len + 1])
    BY <2>1, TaggedOne
  <2> QED
    BY <1>5, <2>2 DEF CountOf, Tagged
<1>7. /\ CountOfOldest(e, len) = Cardinality(Tagged(KeptSets(e), I))
      /\ CountOfOldest(t, len + 1) = Cardinality(Tagged(A, 1 .. len + 1))
  BY <1>1, <1>2, <1>3, CountIsTagged
<1> HIDE DEF I, J, A, len
<1>8. Cardinality(Tagged(A, I \cup J)) =
         Cardinality(Tagged(A, I)) + Cardinality(Tagged(A, J))
  BY <1>3, <1>4, <1>5, TaggedApart
<1>9. CountOfOldest(t, len + 1) = t.count
  BY <1>1, <1>3, <1>6, <1>7, <1>8
<1> QED
  BY <1>1, <1>2, <1>9 DEF Budgeted

LEMMA PushBudget ==
    ASSUME NEW S, FiniteEach(S), NEW s, Budgeted(s, S), NEW q, NEW g, NEW drives,
           [query |-> q, generation |-> g, drives |-> drives] \in S
    PROVE  Budgeted(Push(s, q, g, drives), S)
<1> DEFINE x == [query |-> q, generation |-> g, drives |-> drives]
           count == CountOf(drives)
           e == Evict(s, count)
           t == Push(s, q, g, drives)
<1>1. x \in S /\ x.drives = drives
  OBVIOUS
<1>2. count \in Nat
  BY <1>1, FS_CardinalityType DEF FiniteEach, CountOf
<1>3. CASE count > MaxCandidates
  BY <1>3 DEF Push
<1>4. CASE ~(count > MaxCandidates)
  <2>1. count <= MaxCandidates
    BY <1>2, <1>4
  <2>2. t = [snapshots |-> Append(e.snapshots, x), count |-> e.count + count]
    BY <1>4 DEF Push
  <2>3. t.snapshots = Append(e.snapshots, x) /\ t.count = e.count + count
    <3> HIDE DEF e, x, count
    <3> QED
      BY <2>2
  <2> HIDE DEF count
  <2>4. /\ Budgeted(e, S) /\ Len(e.snapshots) < MaxSnapshots /\ e.count \in Nat
        /\ e.count + count <= MaxCandidates
    BY <1>2, <2>1, EvictBudget
  <2>5. count = CountOf(x.drives)
    BY <1>1 DEF count
  <2> HIDE DEF e, t, x
  <2>6. Budgeted(t, S)
    BY <1>1, <2>3, <2>4, <2>5, AppendBudget
  <2> QED
    BY <2>6 DEF t
<1> QED
  BY <1>3, <1>4

(* What a drive lists is finite, so every candidate set is.                 *)
LEMMA ScanIsFinite ==
    ASSUME NEW q, NEW g \in 0 .. MaxGeneration, NEW source
    PROVE  IsFiniteSet(Entries(Scan(q, g, source)))
<1> DEFINE D == DOMAIN Contents[g]
           scan == Scan(q, g, source)
           f == [d \in D |-> {d} \X scan[d]]
           T == {{d} \X scan[d] : d \in D}
<1>1. DOMAIN scan = D /\ \A d \in D : scan[d] \in SUBSET DOMAIN Contents[g][d]
  BY DEF Scan
<1>2. IsFiniteSet(D) /\ \A d \in D : IsFiniteSet(scan[d])
  BY <1>1, FS_Subset
<1> HIDE DEF D, scan
<1>3. f \in Surjection(D, T)
  BY DEF Surjection
<1>4. IsFiniteSet(T)
  BY <1>2, <1>3, FS_Surjection
<1>5. ASSUME NEW t \in T PROVE IsFiniteSet(t)
  <2>1. PICK d \in D : t = {d} \X scan[d]
    OBVIOUS
  <2>2. IsFiniteSet({d})
    BY FS_Singleton
  <2> QED
    BY <1>2, <2>1, <2>2, FS_Product
<1> HIDE DEF T
<1>6. IsFiniteSet(UNION T)
  BY <1>4, <1>5, FS_UNION
<1>7. Entries(scan) = UNION T
  BY <1>1 DEF Entries, T
<1> QED
  BY <1>6, <1>7 DEF scan

LEMMA EmptyBudget ==
    ASSUME NEW S
    PROVE  Budgeted(EmptySession, S)
<1>1. EmptySession.snapshots = <<>> /\ EmptySession.count = 0
  BY DEF EmptySession
<1>2. Len(<<>>) = 0 /\ <<>> \in Seq(S) /\ 1 .. 0 = {}
  OBVIOUS
<1>3. CountOfOldest(EmptySession, 0) = 0
  BY <1>2, FS_EmptySet DEF CountOfOldest
<1> QED
  BY <1>1, <1>2, <1>3 DEF Budgeted

(* The inductive invariant: the limits, and the counter is the number of    *)
(* candidates in snapshots that are whole results of one generation.        *)
BudgetInv ==
    /\ generation \in 0 .. MaxGeneration
    /\ \E h \in 0 .. MaxGeneration : Budgeted(session, WholeAt(h))

LEMMA WholeAreFinite ==
    ASSUME NEW h \in 0 .. MaxGeneration
    PROVE  FiniteEach(WholeAt(h))
<1> SUFFICES ASSUME NEW x \in WholeAt(h) PROVE IsFiniteSet(Entries(x.drives))
  BY DEF FiniteEach
<1>1. PICK q \in Queries : x.drives = Scan(q, h, NoSource)
  BY DEF WholeAt
<1> QED
  BY <1>1, ScanIsFinite

LEMMA PrepareBudget ==
    ASSUME NEW s, NEW h \in Nat, NEW g \in Nat, NEW q \in Queries, Budgeted(s, WholeAt(h))
    PROVE  Budgeted(Prepare(s, q, g), WholeAt(g))
<1>1. Prepare(s, q, g).snapshots \in Seq(WholeAt(g))
  BY PrepareIsWhole DEF Budgeted
<1>2. Prepare(s, q, g) \in {s, EmptySession}
  BY DEF Prepare, Fresh
<1>3. CASE Prepare(s, q, g) = s
  BY <1>1, <1>3 DEF Budgeted
<1>4. CASE Prepare(s, q, g) = EmptySession
  BY <1>4, EmptyBudget
<1> QED
  BY <1>2, <1>3, <1>4

LEMMA SearchBudget ==
    ASSUME NEW s, NEW h \in Nat, NEW g \in 0 .. MaxGeneration, NEW q \in Queries,
           Budgeted(s, WholeAt(h))
    PROVE  Budgeted(AfterSearch(s, q, g), WholeAt(g))
<1> DEFINE p == Prepare(s, q, g)
           drives == Scan(q, g, NoSource)
<1>1. Budgeted(p, WholeAt(g))
  BY PrepareBudget
<1>2. Searched(s, q, g) = drives
  <2>1. s.snapshots \in Seq(WholeAt(h)) /\ g \in Nat
    BY DEF Budgeted
  <2> QED
    BY ONLY <2>1, h \in Nat, q \in Queries, SearchedIsWhole
<1>3. [query |-> q, generation |-> g, drives |-> drives] \in WholeAt(g)
  BY DEF WholeAt
<1>4. FiniteEach(WholeAt(g))
  BY WholeAreFinite
<1> HIDE DEF p, drives
<1>5. Budgeted(Push(p, q, g, drives), WholeAt(g))
  BY <1>1, <1>3, <1>4, PushBudget
<1> QED
  BY <1>1, <1>2, <1>5 DEF AfterSearch, p

LEMMA BudgetNext == BudgetInv /\ [SessionNext]_sessionVars => BudgetInv'
<1> SUFFICES ASSUME BudgetInv, [SessionNext]_sessionVars PROVE BudgetInv'
  OBVIOUS
<1>1. PICK h \in 0 .. MaxGeneration : Budgeted(session, WholeAt(h))
  BY DEF BudgetInv
<1>2. generation \in 0 .. MaxGeneration /\ MaxGeneration \in Nat
  BY DEF BudgetInv
<1>3. SUFFICES /\ generation' \in 0 .. MaxGeneration
               /\ \E k \in 0 .. MaxGeneration : Budgeted(session', WholeAt(k))
  BY DEF BudgetInv, Budgeted, CountOfOldest, WholeAt
<1>4. CASE Change
  <2>1. generation' \in 0 .. MaxGeneration /\ session' = session
    BY <1>2, <1>4 DEF Change
  <2> QED
    BY <1>1, <2>1
<1>5. ASSUME NEW q \in Queries, Search(q)
      PROVE  Budgeted(session', WholeAt(generation)) /\ generation' = generation
  <2>1. generation' = generation /\ session' = AfterSearch(session, q, generation)
    BY <1>5 DEF Search
  <2> QED
    BY <1>1, <1>2, <2>1, SearchBudget
<1>6. ASSUME NEW q \in Queries, CancelledSearch(q)
      PROVE  Budgeted(session', WholeAt(generation)) /\ generation' = generation
  <2>1. generation' = generation /\ session' = Prepare(session, q, generation)
    BY <1>6 DEF CancelledSearch
  <2>2. h \in Nat /\ generation \in Nat
    BY <1>2
  <2> QED
    BY <1>1, <2>1, <2>2, PrepareBudget
<1>7. CASE Reset
  <2>1. session' = EmptySession /\ generation' = generation
    BY <1>7 DEF Reset
  <2> QED
    BY <1>2, <2>1, EmptyBudget
<1>8. CASE UNCHANGED sessionVars
  BY <1>1, <1>2, <1>8 DEF sessionVars
<1> QED
  BY <1>2, <1>4, <1>5, <1>6, <1>7, <1>8 DEF SessionNext

(* However queries follow each other and the index changes, at most         *)
(* MAX_SNAPSHOTS sets and MAX_CACHED_CANDIDATES candidates are kept, and    *)
(* the counter that decides on evictions is their exact number.             *)
THEOREM AlwaysWithinBudget == SessionSpec => []WithinBudget
<1>1. SessionInit => BudgetInv
  <2> SUFFICES ASSUME SessionInit PROVE BudgetInv
    OBVIOUS
  <2>1. generation \in 0 .. MaxGeneration /\ session = EmptySession
    BY DEF SessionInit
  <2> QED
    BY <2>1, EmptyBudget DEF BudgetInv
<1>2. BudgetInv => WithinBudget
  BY DEF BudgetInv, Budgeted, WithinBudget
<1> QED
  BY <1>1, <1>2, BudgetNext, PTL DEF SessionSpec

-----------------------------------------------------------------------------
(* The flow.  The proof climbs four invariants: types and jobs, the one     *)
(* deferred query, the reset protocol, the replies.                         *)

HIDE SessionAssumption
USE FlowAssumption

-----------------------------------------------------------------------------
(* Jobs                                                                     *)

Finding == {{}} \cup {Found(q, g) : q \in Queries, g \in Nat}

Reply == [query : Queries \cup Paths, since : Nat, found : Finding]

JobSet == [query : Queries \cup Paths, seq : Nat, since : Nat, resets : Nat,
           cancelled : BOOLEAN, over : BOOLEAN, replies : SUBSET Reply]

WorkerPCs == {"idle", "request", "try", "release", "lock", "swap", "search",
              "swapAfter", "unlock", "finish", "relock", "send"}

SearchPCs == {"lock", "swap", "search", "swapAfter", "unlock", "finish", "relock"}

JobsInv ==
    /\ text \in Texts /\ seq \in Nat /\ resets \in Nat /\ generation \in Nat
    /\ jobs \in Seq(JobSet)
    /\ queue \in Seq(Nat) /\ \A n \in DOMAIN queue : queue[n] \in DOMAIN jobs
    /\ worker \in [pc : WorkerPCs, job : Nat, found : Finding]
    /\ ~At("idle") => worker.job \in DOMAIN jobs
    /\ worker.pc \in SearchPCs => Job.query \in Queries

(* What no step does to a job: forget it, change what was asked, or undo    *)
(* its cancellation.                                                        *)
JobsKept ==
    /\ jobs' \in Seq(JobSet)
    /\ Len(jobs) <= Len(jobs')
    /\ \A n \in DOMAIN jobs : /\ jobs'[n].query = jobs[n].query
                              /\ jobs'[n].seq = jobs[n].seq
                              /\ jobs'[n].since = jobs[n].since
                              /\ jobs'[n].resets = jobs[n].resets
                              /\ jobs[n].cancelled => jobs'[n].cancelled

LEMMA DroppedJobs ==
    ASSUME jobs \in Seq(JobSet)
    PROVE  /\ Dropped \in Seq(JobSet) /\ Len(Dropped) = Len(jobs)
           /\ \A n \in DOMAIN jobs :
                 /\ Dropped[n].query = jobs[n].query
                 /\ Dropped[n].seq = jobs[n].seq
                 /\ Dropped[n].since = jobs[n].since
                 /\ Dropped[n].resets = jobs[n].resets
                 /\ Dropped[n].replies = jobs[n].replies
                 /\ n \in deferred => Dropped[n].cancelled
                 /\ n \notin deferred => Dropped[n] = jobs[n]
                 /\ jobs[n].cancelled => Dropped[n].cancelled
<1>1. DOMAIN jobs = 1 .. Len(jobs) /\ Len(jobs) \in Nat
  OBVIOUS
<1>2. ASSUME NEW j \in JobSet
      PROVE  /\ [j EXCEPT !.cancelled = TRUE] \in JobSet
             /\ [j EXCEPT !.cancelled = TRUE].query = j.query
             /\ [j EXCEPT !.cancelled = TRUE].seq = j.seq
             /\ [j EXCEPT !.cancelled = TRUE].since = j.since
             /\ [j EXCEPT !.cancelled = TRUE].resets = j.resets
             /\ [j EXCEPT !.cancelled = TRUE].replies = j.replies
             /\ [j EXCEPT !.cancelled = TRUE].cancelled
  BY DEF JobSet
<1>3. ASSUME NEW n \in DOMAIN jobs
      PROVE  /\ jobs[n] \in JobSet
             /\ Dropped[n] = IF n \in deferred THEN [jobs[n] EXCEPT !.cancelled = TRUE]
                             ELSE jobs[n]
  BY <1>1, ElementOfSeq DEF Dropped
<1>4. ASSUME NEW n \in DOMAIN jobs
      PROVE  /\ Dropped[n] \in JobSet
             /\ Dropped[n].query = jobs[n].query
             /\ Dropped[n].seq = jobs[n].seq
             /\ Dropped[n].since = jobs[n].since
             /\ Dropped[n].resets = jobs[n].resets
             /\ Dropped[n].replies = jobs[n].replies
             /\ n \in deferred => Dropped[n].cancelled
             /\ n \notin deferred => Dropped[n] = jobs[n]
             /\ jobs[n].cancelled => Dropped[n].cancelled
  <2>1. CASE n \in deferred
    BY <1>2, <1>3, <2>1
  <2>2. CASE n \notin deferred
    BY <1>2, <1>3, <2>2
  <2> QED
    BY <2>1, <2>2
<1>5. Dropped = [n \in 1 .. Len(jobs) |-> Dropped[n]]
  BY <1>1 DEF Dropped
<1>6. Dropped \in Seq(JobSet) /\ Len(Dropped) = Len(jobs)
  <2>1. Dropped \in [1 .. Len(jobs) -> JobSet]
    BY <1>1, <1>4, <1>5
  <2> QED
    BY <1>1, <2>1
<1> QED
  BY <1>4, <1>6

LEMMA DroppedKeeps ==
    ASSUME jobs \in Seq(JobSet), jobs' = Dropped
    PROVE  JobsKept /\ Len(jobs') = Len(jobs)
<1>1. Len(Dropped) \in Nat /\ Len(jobs) = Len(Dropped)
  BY DroppedJobs
<1> QED
  BY <1>1, DroppedJobs DEF JobsKept

LEMMA UnchangedKeeps ==
    ASSUME jobs \in Seq(JobSet), jobs' = jobs
    PROVE  JobsKept /\ Len(jobs') = Len(jobs)
BY DEF JobsKept

(* A new query: the old one is dropped and one job is appended.             *)
LEMMA AskedKeeps ==
    ASSUME JobsInv, text # Blank, jobs' = Append(Dropped, NewJob)
    PROVE  /\ JobsKept /\ Len(jobs') = Len(jobs) + 1
           /\ jobs'[Len(jobs) + 1] = NewJob
           /\ \A n \in DOMAIN jobs : jobs'[n] = Dropped[n]
<1>1. NewJob \in JobSet
  BY DEF JobsInv, JobSet, NewJob, Texts
<1>2. /\ Dropped \in Seq(JobSet) /\ Len(Dropped) = Len(jobs)
      /\ DOMAIN jobs = 1 .. Len(jobs) /\ Len(jobs) \in Nat
  BY DroppedJobs DEF JobsInv
<1>3. /\ jobs' \in Seq(JobSet) /\ Len(jobs') = Len(jobs) + 1
      /\ jobs'[Len(jobs) + 1] = NewJob
      /\ \A n \in DOMAIN jobs : jobs'[n] = Dropped[n]
  BY <1>1, <1>2, AppendProperties
<1>4. ASSUME NEW n \in DOMAIN jobs
      PROVE  /\ jobs'[n].query = jobs[n].query
             /\ jobs'[n].seq = jobs[n].seq
             /\ jobs'[n].since = jobs[n].since
             /\ jobs'[n].resets = jobs[n].resets
             /\ jobs[n].cancelled => jobs'[n].cancelled
  <2>1. jobs'[n] = Dropped[n]
    BY <1>3
  <2> QED
    BY <2>1, DroppedJobs DEF JobsInv
<1>5. Len(jobs) <= Len(jobs')
  BY <1>2, <1>3
<1> QED
  BY <1>3, <1>4, <1>5 DEF JobsKept

(* Every step keeps what it was asked and types; steps of the window leave  *)
(* the worker alone.                                                        *)
LEMMA WindowFrame ==
    ASSUME JobsInv, JobsKept, UNCHANGED <<worker, queue>>,
           text' \in Texts, seq' \in Nat, resets' \in Nat, generation' \in Nat
    PROVE  JobsInv'
<1>1. DOMAIN jobs = 1 .. Len(jobs) /\ DOMAIN jobs' = 1 .. Len(jobs')
  BY DEF JobsInv, JobsKept
<1>2. DOMAIN jobs \subseteq DOMAIN jobs'
  <2>1. Len(jobs) \in Nat /\ Len(jobs') \in Nat /\ Len(jobs) <= Len(jobs')
    BY DEF JobsInv, JobsKept
  <2> QED
    BY <1>1, <2>1
<1>3. worker.pc \in SearchPCs => worker.pc # "idle"
  BY DEF SearchPCs
<1> QED
  BY <1>2, <1>3 DEF JobsInv, JobsKept, At, Job

LEMMA TypedGoto ==
    ASSUME JobsInv, NEW pc \in WorkerPCs, Goto(pc)
    PROVE  /\ worker'.pc = pc /\ worker'.job = worker.job
           /\ worker'.found = worker.found
           /\ worker' \in [pc : WorkerPCs, job : Nat, found : Finding]
BY DEF JobsInv, Goto

LEMMA WorkerMoves ==
    ASSUME JobsInv, UNCHANGED <<text, seq, resets, generation, queue, jobs>>,
           worker' \in [pc : WorkerPCs, job : Nat, found : Finding],
           worker'.job = worker.job, ~At("idle"),
           worker'.pc \in SearchPCs => worker.pc \in SearchPCs
    PROVE  JobsInv' /\ JobsKept
<1>1. JobsKept
  BY UnchangedKeeps DEF JobsInv
<1> QED
  BY <1>1 DEF JobsInv, At, Job

LEMMA JobsType == ASSUME JobsInv, NEW q \in Queries \cup Paths \cup {Blank}, Type(q)
                  PROVE  JobsInv' /\ JobsKept
<1>1. /\ text' = q /\ seq' = seq + 1 /\ jobs' = Dropped
      /\ UNCHANGED <<worker, queue, generation>>
  BY DEF Type
<1>2. resets' \in Nat
  BY DEF Type, RequestReset, JobsInv
<1>3. JobsKept
  BY <1>1, DroppedKeeps DEF JobsInv
<1>4. text' \in Texts /\ seq' \in Nat /\ generation' \in Nat
  BY <1>1 DEF Texts, JobsInv
<1> QED
  BY <1>1, <1>2, <1>3, <1>4, WindowFrame

LEMMA JobsHide == ASSUME JobsInv, Hide PROVE JobsInv' /\ JobsKept
<1>1. /\ text' = Blank /\ seq' = seq /\ jobs' = Dropped
      /\ UNCHANGED <<worker, queue, generation>>
  BY DEF Hide
<1>2. resets' \in Nat
  BY DEF Hide, RequestReset, JobsInv
<1>3. JobsKept
  BY <1>1, DroppedKeeps DEF JobsInv
<1>4. text' \in Texts /\ seq' \in Nat /\ generation' \in Nat
  BY <1>1 DEF Texts, JobsInv
<1> QED
  BY <1>1, <1>2, <1>3, <1>4, WindowFrame

(* Steps that change none of this.                                          *)
LEMMA JobsIdle ==
    ASSUME JobsInv, UNCHANGED <<text, seq, resets, worker, queue, jobs>>,
           generation' \in Nat
    PROVE  JobsInv' /\ JobsKept
<1>1. JobsKept
  BY UnchangedKeeps DEF JobsInv
<1> QED
  BY <1>1, WindowFrame DEF JobsInv

LEMMA JobsDebounceTick == ASSUME JobsInv, DebounceTick PROVE JobsInv' /\ JobsKept
<1>1. UNCHANGED <<text, seq, worker, resets, generation>>
  BY DEF DebounceTick
<1>2. CASE UNCHANGED <<jobs, queue>>
  BY <1>1, <1>2, JobsIdle DEF JobsInv
<1>3. CASE /\ text # Blank /\ jobs' = Append(Dropped, NewJob)
           /\ queue' = Append(queue, Len(jobs) + 1)
  <2>1. /\ JobsKept /\ Len(jobs') = Len(jobs) + 1
        /\ jobs' \in Seq(JobSet) /\ Len(jobs) \in Nat
    BY <1>3, AskedKeeps DEF JobsInv, JobsKept
  <2>2. /\ DOMAIN jobs = 1 .. Len(jobs) /\ DOMAIN jobs' = 1 .. Len(jobs')
    BY <2>1 DEF JobsInv
  <2>3. DOMAIN jobs \subseteq DOMAIN jobs' /\ Len(jobs) + 1 \in DOMAIN jobs'
    BY <2>1, <2>2
  <2>4. /\ queue' \in Seq(Nat)
        /\ \A n \in DOMAIN queue' : queue'[n] \in DOMAIN jobs'
    <3>1. queue \in Seq(Nat) /\ Len(jobs) + 1 \in Nat
      BY <2>1 DEF JobsInv
    <3>2. ASSUME NEW n \in DOMAIN queue' PROVE queue'[n] \in DOMAIN jobs'
      <4>1. n \in 1 .. Len(queue) + 1
        BY <1>3, <3>1, AppendProperties
      <4>2. CASE n \in 1 .. Len(queue)
        <5>1. queue'[n] = queue[n] /\ n \in DOMAIN queue
          BY <1>3, <3>1, <4>2, AppendProperties
        <5> QED
          BY <2>3, <5>1 DEF JobsInv
      <4>3. CASE n = Len(queue) + 1
        BY <1>3, <2>3, <3>1, <4>3, AppendProperties
      <4> QED
        BY <3>1, <4>1, <4>2, <4>3
    <3> QED
      BY <1>3, <3>1, <3>2, AppendProperties
  <2>5. worker.pc \in SearchPCs => worker.pc # "idle"
    BY DEF SearchPCs
  <2> QED
    BY <1>1, <2>1, <2>3, <2>4, <2>5 DEF JobsInv, JobsKept, At, Job
<1> QED
  BY <1>2, <1>3 DEF DebounceTick

LEMMA JobsPollTick == ASSUME JobsInv, PollTick PROVE JobsInv' /\ JobsKept
<1>1. UNCHANGED <<text, seq, worker, queue, resets, generation>>
  BY DEF PollTick
<1>2. jobs' = Dropped \/ jobs' = jobs
  BY DEF PollTick
<1>3. JobsKept
  BY <1>2, DroppedKeeps, UnchangedKeeps DEF JobsInv
<1> QED
  BY <1>1, <1>3, WindowFrame DEF JobsInv

(* The worker writes one job; what it asked for stays.                      *)
LEMMA WrittenKeeps ==
    ASSUME jobs \in Seq(JobSet), NEW n \in DOMAIN jobs, NEW j \in JobSet,
           j.query = jobs[n].query, j.seq = jobs[n].seq, j.since = jobs[n].since,
           j.resets = jobs[n].resets, jobs[n].cancelled => j.cancelled,
           jobs' = [jobs EXCEPT ![n] = j]
    PROVE  /\ JobsKept /\ Len(jobs') = Len(jobs) /\ jobs'[n] = j
           /\ \A m \in DOMAIN jobs : m # n => jobs'[m] = jobs[m]
<1>1. DOMAIN jobs = 1 .. Len(jobs) /\ Len(jobs) \in Nat
  OBVIOUS
<1>2. jobs \in [1 .. Len(jobs) -> JobSet]
  OBVIOUS
<1>3. jobs' \in [1 .. Len(jobs) -> JobSet]
  BY <1>1, <1>2
<1>4. jobs' \in Seq(JobSet) /\ Len(jobs') = Len(jobs)
  BY <1>1, <1>3
<1>5. jobs'[n] = j /\ \A m \in DOMAIN jobs : m # n => jobs'[m] = jobs[m]
  BY <1>1
<1> QED
  BY <1>1, <1>4, <1>5 DEF JobsKept

LEMMA JobsReceive ==
    ASSUME JobsInv, Receive
    PROVE  JobsInv' /\ JobsKept
<1> DEFINE n == Head(queue)
<1>1. /\ UNCHANGED <<text, seq, resets, generation>> /\ At("idle")
      /\ queue # <<>> /\ queue' = Tail(queue) /\ queue \in Seq(Nat)
  BY DEF Receive, WorkerFrame, window, JobsInv
<1>2. n \in DOMAIN jobs /\ n \in Nat /\ jobs[n] \in JobSet
  <2>1. n = queue[1] /\ 1 \in DOMAIN queue
    BY <1>1
  <2>2. n \in DOMAIN jobs /\ n \in Nat
    BY <1>1, <2>1 DEF JobsInv
  <2> QED
    BY <2>2, ElementOfSeq DEF JobsInv
<1>3. queue' \in Seq(Nat) /\ \A m \in DOMAIN queue' : queue'[m] \in DOMAIN jobs
  <2>1. ASSUME NEW m \in DOMAIN queue' PROVE queue'[m] \in DOMAIN jobs
    <3>1. queue'[m] = queue[m + 1] /\ m + 1 \in DOMAIN queue
      BY <1>1
    <3> QED
      BY <3>1 DEF JobsInv
  <2> QED
    BY <1>1, <2>1
<1>4. CASE jobs[n].cancelled
  <2> DEFINE j == [jobs[n] EXCEPT !.over = TRUE]
  <2>1. jobs' = [jobs EXCEPT ![n] = j] /\ worker' = worker
    BY <1>4 DEF Receive
  <2>2. /\ j \in JobSet /\ j.query = jobs[n].query /\ j.seq = jobs[n].seq
        /\ j.since = jobs[n].since /\ j.resets = jobs[n].resets
        /\ jobs[n].cancelled => j.cancelled
    BY <1>2 DEF JobSet
  <2>3. JobsKept /\ Len(jobs') = Len(jobs) /\ jobs' \in Seq(JobSet)
    <3> HIDE DEF j
    <3> QED
      BY <1>2, <2>1, <2>2, WrittenKeeps DEF JobsInv, JobsKept
  <2>4. DOMAIN jobs' = DOMAIN jobs
    BY <2>3 DEF JobsInv
  <2>5. worker.pc \in SearchPCs => worker.pc # "idle"
    BY DEF SearchPCs
  <2> QED
    BY <1>1, <1>3, <2>1, <2>3, <2>4, <2>5 DEF JobsInv, At, Job, JobsKept
<1>5. CASE ~jobs[n].cancelled
  <2> DEFINE first == IF jobs[n].query \in Paths THEN "request" ELSE "lock"
  <2>1. jobs' = jobs /\ worker' = [pc |-> first, job |-> n, found |-> {}]
    BY <1>5 DEF Receive
  <2>2. JobsKept
    BY <2>1, UnchangedKeeps DEF JobsInv
  <2>3. first \in WorkerPCs /\ {} \in Finding
    BY DEF WorkerPCs, Finding
  <2>4. worker' \in [pc : WorkerPCs, job : Nat, found : Finding]
    BY <1>2, <2>1, <2>3
  <2>5. jobs[n].query \in Queries \cup Paths
    BY <1>2 DEF JobSet
  <2>6. worker'.pc \in SearchPCs => jobs[n].query \in Queries
    BY <2>1, <2>5 DEF SearchPCs
  <2> QED
    BY <1>1, <1>2, <1>3, <2>1, <2>2, <2>4, <2>6 DEF JobsInv, At, Job
<1> QED
  BY <1>4, <1>5

LEMMA JobsSend ==
    ASSUME JobsInv, Send
    PROVE  JobsInv' /\ JobsKept
<1> DEFINE n == worker.job
           R == IF Job.cancelled THEN {}
                ELSE {[query |-> Job.query, since |-> Job.since, found |-> worker.found]}
           j == [jobs[n] EXCEPT !.over = TRUE, !.replies = R]
<1>1. /\ UNCHANGED <<text, seq, resets, generation, queue>> /\ At("send") /\ Goto("idle")
      /\ jobs' = [jobs EXCEPT ![n] = j]
  BY DEF Send, WorkerFrame, window
<1>2. n \in DOMAIN jobs /\ jobs[n] \in JobSet /\ worker.found \in Finding
  <2>1. n \in DOMAIN jobs
    BY <1>1 DEF JobsInv, At
  <2> QED
    BY <2>1, ElementOfSeq DEF JobsInv
<1>3. R \in SUBSET Reply
  BY <1>2 DEF Job, JobSet, Reply
<1>4. /\ j \in JobSet /\ j.query = jobs[n].query /\ j.seq = jobs[n].seq
      /\ j.since = jobs[n].since /\ j.resets = jobs[n].resets
      /\ jobs[n].cancelled => j.cancelled
  <2> HIDE DEF R
  <2> QED
    BY <1>2, <1>3 DEF JobSet
<1>5. JobsKept /\ Len(jobs') = Len(jobs) /\ jobs' \in Seq(JobSet)
  <2> HIDE DEF j, n
  <2> QED
    BY <1>1, <1>2, <1>4, WrittenKeeps DEF JobsInv, JobsKept
<1>6. DOMAIN jobs' = DOMAIN jobs
  BY <1>5 DEF JobsInv
<1>7. /\ worker' \in [pc : WorkerPCs, job : Nat, found : Finding]
      /\ worker'.pc = "idle" /\ worker'.pc \notin SearchPCs
  <2>1. "idle" \in WorkerPCs /\ "idle" \notin SearchPCs
    BY DEF WorkerPCs, SearchPCs
  <2> QED
    BY <1>1, <2>1, TypedGoto
<1> HIDE DEF j, R, n
<1> QED
  BY <1>1, <1>5, <1>6, <1>7 DEF JobsInv, At

(* The search types what it finds because the session is whole.             *)
LEMMA SearchFinds ==
    ASSUME JobsInv, Whole, At("search")
    PROVE  /\ Entries(Searched(session, Job.query, generation)) = Found(Job.query, generation)
           /\ Found(Job.query, generation) \in Finding /\ Job.query \in Queries
<1>1. Job.query \in Queries /\ generation \in Nat
  BY DEF JobsInv, At, SearchPCs
<1>2. PICK h \in Nat : session.snapshots \in Seq(WholeAt(h))
  BY DEF Whole
<1>3. Searched(session, Job.query, generation) = Scan(Job.query, generation, NoSource)
  BY <1>1, <1>2, SearchedIsWhole
<1> QED
  BY <1>1, <1>3 DEF Found, Finding

LEMMA JobsSearchStep ==
    ASSUME JobsInv, Whole, SearchStep
    PROVE  /\ JobsInv' /\ JobsKept
           /\ \/ CancelledSearch(Job.query)
              \/ Search(Job.query) /\ worker'.found = Found(Job.query, generation)
           /\ Job.query \in Queries
           /\ At("search") /\ worker'.pc = "swapAfter" /\ worker'.job = worker.job
<1>1. /\ UNCHANGED <<text, seq, resets, generation, queue, jobs>> /\ At("search")
  BY DEF SearchStep, window, CancelledSearch, Search
<1>2. /\ Entries(Searched(session, Job.query, generation)) = Found(Job.query, generation)
      /\ Found(Job.query, generation) \in Finding /\ Job.query \in Queries
  BY <1>1, SearchFinds
<1>3. CASE Job.cancelled
  <2>1. CancelledSearch(Job.query) /\ Goto("swapAfter")
    BY <1>3 DEF SearchStep
  <2>2. "swapAfter" \in WorkerPCs /\ "swapAfter" # "idle" /\ "search" \in SearchPCs
    BY DEF WorkerPCs, SearchPCs
  <2> QED
    BY <1>1, <1>2, <2>1, <2>2, TypedGoto, WorkerMoves DEF At
<1>4. CASE ~Job.cancelled
  <2>1. /\ Search(Job.query)
        /\ worker' = [worker EXCEPT !.pc = "swapAfter", !.found = Found(Job.query, generation)]
    BY <1>2, <1>4 DEF SearchStep
  <2>2. "swapAfter" \in WorkerPCs /\ "search" \in SearchPCs
    BY DEF WorkerPCs, SearchPCs
  <2>3. /\ worker' \in [pc : WorkerPCs, job : Nat, found : Finding]
        /\ worker'.job = worker.job /\ worker'.pc = "swapAfter"
        /\ worker'.found = Found(Job.query, generation)
    BY <1>2, <2>1, <2>2 DEF JobsInv
  <2> QED
    BY <1>1, <1>2, <2>1, <2>2, <2>3, WorkerMoves DEF At
<1> QED
  BY <1>3, <1>4

LEMMA WorkerGoesOn ==
    ASSUME JobsInv, WorkerFrame, UNCHANGED <<jobs, queue>>, ~At("idle"),
           NEW pc \in WorkerPCs, Goto(pc), pc \in SearchPCs => worker.pc \in SearchPCs
    PROVE  JobsInv' /\ JobsKept
BY TypedGoto, WorkerMoves DEF WorkerFrame, window

LEMMA JobsReset == ASSUME JobsInv, PathReset \/ Finish PROVE JobsInv' /\ JobsKept
<1>1. WorkerFrame /\ UNCHANGED <<jobs, queue>>
  BY DEF PathReset, Finish
<1>2. PICK pc \in {"try", "release", "send", "relock"} :
         /\ Goto(pc) /\ ~At("idle")
         /\ pc = "relock" => At("finish")
  BY DEF PathReset, Finish, At
<1>3. /\ pc \in WorkerPCs
      /\ pc \in SearchPCs => pc = "relock"
      /\ At("finish") => worker.pc \in SearchPCs
  BY DEF WorkerPCs, SearchPCs, At
<1> QED
  BY <1>1, <1>2, <1>3, WorkerGoesOn

LEMMA JobsUnderLock ==
    ASSUME JobsInv,
           \/ Lock \/ Unlock
           \/ SwapUnderLock("swap", "search") \/ SwapUnderLock("swapAfter", "unlock")
    PROVE  JobsInv' /\ JobsKept
<1>1. WorkerFrame /\ UNCHANGED <<jobs, queue>>
  BY DEF Lock, Unlock, SwapUnderLock
<1>2. PICK pc \in {"swap", "search", "unlock", "finish"} :
         Goto(pc) /\ worker.pc \in {"lock", "swap", "swapAfter", "unlock"}
  BY DEF Lock, Unlock, SwapUnderLock, At
<1>3. pc \in WorkerPCs /\ ~At("idle") /\ worker.pc \in SearchPCs
  BY <1>2 DEF WorkerPCs, SearchPCs, At
<1> QED
  BY <1>1, <1>2, <1>3, WorkerGoesOn

(* One case per action.                                                     *)
LEMMA JobsStep ==
    ASSUME JobsInv, Whole, [Next]_vars
    PROVE  JobsInv' /\ JobsKept
<1>1. ASSUME NEW q \in Queries \cup Paths \cup {Blank}, Type(q) PROVE JobsInv' /\ JobsKept
  BY <1>1, JobsType
<1>2. CASE Hide
  BY <1>2, JobsHide
<1>3. CASE Show \/ UIReset \/ (\E t \in timers : TimerExpires(t)) \/ EngineReady
  <2>1. UNCHANGED <<text, seq, resets, worker, queue, jobs, generation>>
    BY <1>3 DEF Show, UIReset, TimerExpires, EngineReady, window
  <2> QED
    BY <2>1, JobsIdle DEF JobsInv
<1>4. CASE IndexChanges \/ UNCHANGED vars
  <2>1. UNCHANGED <<text, seq, resets, worker, queue, jobs>>
    BY <1>4 DEF IndexChanges, window, vars
  <2>2. generation' \in Nat
    BY <1>4 DEF IndexChanges, Change, vars, JobsInv
  <2> QED
    BY <2>1, <2>2, JobsIdle
<1>5. CASE DebounceTick
  BY <1>5, JobsDebounceTick
<1>6. CASE PollTick
  BY <1>6, JobsPollTick
<1>7. CASE Work
  BY <1>7, JobsReceive, JobsReset, JobsUnderLock, JobsSearchStep, JobsSend DEF Work
<1> QED
  BY <1>1, <1>2, <1>3, <1>4, <1>5, <1>6, <1>7 DEF Next, UserActs

-----------------------------------------------------------------------------
(* The session is used as a whole                                           *)

LEMMA StepUsesSession ==
    ASSUME JobsInv, Whole, [Next]_vars
    PROVE  [SessionNext]_sessionVars
<1> USE DEF sessionVars
<1>1. CASE UserActs
  BY <1>1 DEF UserActs, Type, Hide, Show, RequestReset, Requested, plugin
<1>2. CASE UIReset
  <2>1. UNCHANGED <<generation, answers>> /\ (UNCHANGED session \/ session' = EmptySession)
    BY <1>2 DEF UIReset, TryReset, ResetUnderLock, ResetDone, plugin
  <2> QED
    BY <2>1 DEF SessionNext, Reset
<1>3. CASE \/ DebounceTick \/ PollTick \/ (\E t \in timers : TimerExpires(t))
           \/ EngineReady \/ UNCHANGED vars
  BY <1>3 DEF DebounceTick, PollTick, TimerExpires, EngineReady, plugin, vars
<1>4. CASE IndexChanges
  BY <1>4 DEF IndexChanges, SessionNext
<1>5. CASE SearchStep
  BY <1>5, JobsSearchStep DEF SessionNext
<1>6. CASE PathReset \/ Finish
  <2>1. UNCHANGED <<generation, answers>> /\ (UNCHANGED session \/ session' = EmptySession)
    BY <1>6 DEF PathReset, Finish, Requested, TryReset, ResetUnderLock, ResetDone,
                plugin, WorkerFrame
  <2> QED
    BY <2>1 DEF SessionNext, Reset
<1>7. CASE Receive \/ Lock \/ Unlock \/ Send
  BY <1>7 DEF Receive, Lock, Unlock, Send, WorkerFrame, plugin
<1>8. CASE SwapUnderLock("swap", "search") \/ SwapUnderLock("swapAfter", "unlock")
  <2>1. UNCHANGED <<generation, answers>> /\ (UNCHANGED session \/ session' = EmptySession)
    BY <1>8 DEF SwapUnderLock, ResetUnderLock, WorkerFrame
  <2> QED
    BY <2>1 DEF SessionNext, Reset
<1> QED
  BY <1>1, <1>2, <1>3, <1>4, <1>5, <1>6, <1>7, <1>8 DEF Next, Work

LEMMA JobsInit == Init => JobsInv /\ Whole
<1> SUFFICES ASSUME Init PROVE JobsInv /\ Whole
  OBVIOUS
<1>1. worker = [pc |-> "idle", job |-> 0, found |-> {}]
  BY DEF Init
<1>2. "idle" \in WorkerPCs /\ "idle" \notin SearchPCs /\ {} \in Finding
  BY DEF WorkerPCs, SearchPCs, Finding
<1>3. worker \in [pc : WorkerPCs, job : Nat, found : Finding]
  BY <1>1, <1>2
<1>4. /\ text = Blank /\ seq = 0 /\ resets = 0 /\ generation = 0
      /\ jobs = <<>> /\ queue = <<>>
  BY DEF Init, SessionInit
<1>5. jobs \in Seq(JobSet) /\ queue \in Seq(Nat) /\ DOMAIN queue = {}
  BY <1>4
<1>6. JobsInv
  BY <1>1, <1>2, <1>3, <1>4, <1>5 DEF JobsInv, At, Texts
<1> QED
  BY <1>6, WholeInit DEF Init

LEMMA JobsInductive == Spec => [](JobsInv /\ Whole)
<1>1. JobsInv /\ Whole /\ [Next]_vars => (JobsInv /\ Whole)'
  BY JobsStep, StepUsesSession, WholeNext
<1> QED
  BY JobsInit, <1>1, PTL DEF Spec

(* The window and the worker together implement the search session: each of *)
(* their steps is a whole search, a cancelled one, a reset, or none of the  *)
(* session's business.  What SessionProofs shows of sessions holds here.    *)
THEOREM FlowUsesSessionWhole == Spec => SessionUsedWhole
<1>1. JobsInv /\ Whole /\ [Next]_vars => [SessionNext]_sessionVars
  BY StepUsesSession
<1>2. Init => SessionInit
  BY DEF Init
<1> QED
  BY <1>1, <1>2, JobsInductive, PTL DEF Spec, SessionUsedWhole, SessionSpec

-----------------------------------------------------------------------------
(* The one deferred query                                                   *)

DeferredInv ==
    /\ deferred \subseteq DOMAIN jobs
    /\ \A n \in deferred : ~jobs[n].cancelled
    /\ OnlyDeferredRuns

(* The worker cancels nothing and revives nothing.                          *)
LEMMA WorkCancelsNothing ==
    ASSUME JobsInv, Whole, Work
    PROVE  /\ deferred' = deferred /\ DOMAIN jobs' = DOMAIN jobs
           /\ \A n \in DOMAIN jobs : jobs'[n].cancelled = jobs[n].cancelled
<1>1. CASE Receive
  <2>1. deferred' = deferred /\ DOMAIN jobs' = DOMAIN jobs
    BY <1>1 DEF Receive, WorkerFrame, window
  <2>2. ASSUME NEW n \in DOMAIN jobs PROVE jobs'[n].cancelled = jobs[n].cancelled
    <3>1. jobs[n] \in JobSet
      BY ElementOfSeq DEF JobsInv
    <3>2. jobs'[n] = jobs[n] \/ jobs'[n] = [jobs[n] EXCEPT !.over = TRUE]
      BY <1>1 DEF Receive
    <3> QED
      BY <3>1, <3>2 DEF JobSet
  <2> QED
    BY <2>1, <2>2
<1>2. CASE Send
  <2>1. deferred' = deferred /\ DOMAIN jobs' = DOMAIN jobs
    BY <1>2 DEF Send, WorkerFrame, window
  <2>2. ASSUME NEW n \in DOMAIN jobs PROVE jobs'[n].cancelled = jobs[n].cancelled
    <3> DEFINE R == IF Job.cancelled THEN {}
                    ELSE {[query |-> Job.query, since |-> Job.since, found |-> worker.found]}
    <3>1. jobs[n] \in JobSet
      BY ElementOfSeq DEF JobsInv
    <3>2. \/ jobs'[n] = jobs[n]
          \/ jobs'[n] = [jobs[n] EXCEPT !.over = TRUE, !.replies = R]
      BY <1>2 DEF Send
    <3> HIDE DEF R
    <3> QED
      BY <3>1, <3>2 DEF JobSet
  <2> QED
    BY <2>1, <2>2
<1>3. CASE SearchStep
  BY <1>3 DEF SearchStep, window
<1>4. CASE \/ PathReset \/ Lock \/ Unlock \/ Finish
           \/ SwapUnderLock("swap", "search") \/ SwapUnderLock("swapAfter", "unlock")
  BY <1>4 DEF PathReset, Lock, Unlock, Finish, SwapUnderLock, WorkerFrame, window
<1> QED
  BY <1>1, <1>2, <1>3, <1>4 DEF Work

(* Dropping leaves nothing deferred and nothing running.                    *)
LEMMA DroppedIsCancelled ==
    ASSUME JobsInv, DeferredInv, NEW n \in DOMAIN jobs
    PROVE  Dropped[n].cancelled
BY DroppedJobs DEF JobsInv, DeferredInv, OnlyDeferredRuns

LEMMA DeferredDrops ==
    ASSUME JobsInv, DeferredInv, deferred' = {}, jobs' = Dropped
    PROVE  DeferredInv'
<1>1. DOMAIN jobs' = DOMAIN jobs
  BY DEF Dropped
<1> QED
  BY <1>1, DroppedIsCancelled DEF DeferredInv, OnlyDeferredRuns

LEMMA DeferredSame ==
    ASSUME DeferredInv, deferred' = deferred, DOMAIN jobs' = DOMAIN jobs,
           \A n \in DOMAIN jobs : jobs'[n].cancelled = jobs[n].cancelled
    PROVE  DeferredInv'
BY DEF DeferredInv, OnlyDeferredRuns

LEMMA DeferredAsks ==
    ASSUME JobsInv, DeferredInv, text # Blank, jobs' = Append(Dropped, NewJob),
           deferred' = {Len(jobs) + 1}
    PROVE  DeferredInv'
<1>1. /\ Len(jobs') = Len(jobs) + 1 /\ jobs'[Len(jobs) + 1] = NewJob
      /\ \A n \in DOMAIN jobs : jobs'[n] = Dropped[n]
      /\ jobs' \in Seq(JobSet)
  BY AskedKeeps DEF JobsKept
<1>2. /\ DOMAIN jobs = 1 .. Len(jobs) /\ Len(jobs) \in Nat
      /\ DOMAIN jobs' = 1 .. Len(jobs) + 1
  BY <1>1 DEF JobsInv
<1>3. ~jobs'[Len(jobs) + 1].cancelled
  BY <1>1 DEF NewJob
<1>4. ASSUME NEW n \in DOMAIN jobs' PROVE n \in deferred' \/ jobs'[n].cancelled
  <2>1. n \in DOMAIN jobs \/ n = Len(jobs) + 1
    BY <1>2
  <2> QED
    BY <1>1, <2>1, DroppedIsCancelled
<1>5. Len(jobs) + 1 \in DOMAIN jobs'
  BY <1>2
<1> QED
  BY <1>3, <1>4, <1>5 DEF DeferredInv, OnlyDeferredRuns

LEMMA DeferredStep ==
    ASSUME JobsInv, Whole, DeferredInv, [Next]_vars
    PROVE  DeferredInv'
<1>1. CASE (\E q \in Queries \cup Paths \cup {Blank} : Type(q)) \/ Hide
  BY <1>1, DeferredDrops DEF Type, Hide
<1>2. CASE \/ Show \/ UIReset \/ (\E t \in timers : TimerExpires(t)) \/ EngineReady
           \/ IndexChanges \/ UNCHANGED vars
  <2>1. UNCHANGED <<deferred, jobs>>
    BY <1>2 DEF Show, UIReset, TimerExpires, EngineReady, IndexChanges, window, vars
  <2> QED
    BY <2>1, DeferredSame
<1>3. CASE DebounceTick
  <2>1. CASE UNCHANGED <<deferred, jobs>>
    BY <2>1, DeferredSame
  <2>2. CASE /\ text # Blank /\ jobs' = Append(Dropped, NewJob)
             /\ deferred' = {Len(jobs) + 1}
    BY <2>2, DeferredAsks
  <2> QED
    BY <1>3, <2>1, <2>2 DEF DebounceTick
<1>4. CASE PollTick
  <2>1. CASE UNCHANGED <<deferred, jobs>>
    BY <2>1, DeferredSame
  <2>2. CASE deferred' = {} /\ jobs' = Dropped
    BY <2>2, DeferredDrops
  <2> QED
    BY <1>4, <2>1, <2>2 DEF PollTick
<1>5. CASE Work
  BY <1>5, WorkCancelsNothing, DeferredSame
<1> QED
  BY <1>1, <1>2, <1>3, <1>4, <1>5 DEF Next, UserActs

LEMMA DeferredInductive == Spec => [](JobsInv /\ Whole /\ DeferredInv)
<1>1. JobsInv /\ Whole /\ DeferredInv /\ [Next]_vars => DeferredInv'
  BY DeferredStep
<1>2. Init => DeferredInv
  BY DEF Init, DeferredInv, OnlyDeferredRuns
<1> QED
  BY <1>1, <1>2, JobsInductive, PTL DEF Spec

(* No abandoned search keeps the worker busy: a query that the window does  *)
(* not wait for is cancelled.                                               *)
THEOREM AbandonedIsCancelled == Spec => []OnlyDeferredRuns
<1>1. DeferredInv => OnlyDeferredRuns
  BY DEF DeferredInv
<1> QED
  BY <1>1, DeferredInductive, PTL

-----------------------------------------------------------------------------
(* The reset protocol                                                       *)

Holding == {"swap", "search", "swapAfter", "unlock", "release"}

(* The flag will be seen: the worker has a look at it ahead.                *)
Looking == {"try", "swap", "search", "swapAfter", "unlock", "finish"}

ResetTypes == flag \in BOOLEAN /\ stale \in BOOLEAN /\ ui \in {"idle", "try", "release"}

(* Who holds the mutex.                                                     *)
MutexInv ==
    /\ lock \in {"free", "ui", "worker"}
    /\ lock = "worker" <=> worker.pc \in Holding
    /\ lock = "ui" <=> ui = "release"

(* While somebody finishes a reset the session is empty, so that whatever   *)
(* clears the flag then loses nothing.                                      *)
EmptyInv ==
    /\ ui = "release" \/ At("release") => ~Kept
    /\ stale => Kept

(* A stale session has somebody who is about to reset it.                   *)
StaleInv == stale => \/ At("relock")
                     \/ flag /\ (ui = "try" \/ worker.pc \in Looking)

(* Queries of an earlier input session are cancelled.                       *)
OldJobs ==
    \A n \in DOMAIN jobs : /\ jobs[n].resets <= resets
                           /\ jobs[n].resets < resets => jobs[n].cancelled

(* One that gets to search all the same leaves no candidates without the    *)
(* flag.                                                                    *)
OldSearch ==
    /\ At("search") /\ stale => Job.resets < resets
    /\ worker.pc \in {"lock", "swap", "search"} /\ Job.resets < resets => flag \/ ~Kept

ResetInv ==
    ResetTypes /\ MutexInv /\ EmptyInv /\ StaleInv /\ OldJobs /\ OldSearch

(* The protocol's own state.                                                *)
protocol == <<session, flag, stale, ui, lock, resets>>

LEMMA OldJobsKept ==
    ASSUME JobsInv, JobsKept, OldJobs, resets' = resets,
           \A n \in DOMAIN jobs' \ DOMAIN jobs : jobs'[n].resets = resets
    PROVE  OldJobs'
<1>1. ASSUME NEW n \in DOMAIN jobs'
      PROVE  /\ jobs'[n].resets <= resets
             /\ jobs'[n].resets < resets => jobs'[n].cancelled
  BY <1>1 DEF JobsInv, JobsKept, OldJobs
<1> QED
  BY <1>1 DEF OldJobs

LEMMA OldJobsSame ==
    ASSUME JobsInv, JobsKept, OldJobs, resets' = resets, Len(jobs') = Len(jobs)
    PROVE  OldJobs'
<1>1. DOMAIN jobs' = DOMAIN jobs
  BY DEF JobsInv, JobsKept
<1> QED
  BY <1>1, OldJobsKept

(* A job the worker holds is still what it was.                             *)
LEMMA JobSame ==
    ASSUME JobsInv, JobsKept, ~At("idle"), worker'.job = worker.job
    PROVE  Job'.resets = Job.resets
BY DEF JobsInv, JobsKept, Job

LEMMA ResetFrame ==
    ASSUME JobsInv, JobsKept, ResetInv, UNCHANGED <<protocol, worker>>,
           \A n \in DOMAIN jobs' \ DOMAIN jobs : jobs'[n].resets = resets
    PROVE  ResetInv'
<1>1. OldJobs'
  BY OldJobsKept DEF ResetInv, protocol
<1>2. ~At("idle") => Job'.resets = Job.resets
  BY JobSame
<1>3. OldSearch'
  BY <1>2 DEF ResetInv, OldSearch, protocol, At, Kept
<1> QED
  BY <1>1, <1>3 DEF ResetInv, ResetTypes, MutexInv, EmptyInv, StaleInv, protocol, At, Kept

(* Typing nothing and hiding ask for a reset and cancel every query.        *)
LEMMA ResetRequested ==
    ASSUME JobsInv, JobsKept, DeferredInv, ResetInv, ui = "idle", RequestReset,
           jobs' = Dropped, worker' = worker
    PROVE  ResetInv'
<1>1. /\ ui' = "try" /\ resets' = resets + 1 /\ flag' = TRUE /\ stale' = Kept
      /\ session' = session /\ lock' = lock /\ resets \in Nat
  BY DEF RequestReset, Requested, JobsInv
<1>2. ASSUME NEW n \in DOMAIN jobs'
      PROVE  jobs'[n].resets <= resets /\ jobs'[n].resets \in Nat /\ jobs'[n].cancelled
  <2>1. n \in DOMAIN jobs
    BY DEF Dropped
  <2>2. jobs'[n].resets = jobs[n].resets /\ jobs[n].resets \in Nat
    <3>1. jobs[n] \in JobSet
      BY <2>1, ElementOfSeq DEF JobsInv
    <3>2. jobs[n].resets \in Nat
      BY <3>1 DEF JobSet
    <3> QED
      BY <2>1, <3>2 DEF JobsKept
  <2> QED
    BY <2>1, <2>2, DroppedIsCancelled DEF ResetInv, OldJobs
<1>3. OldJobs'
  BY <1>1, <1>2 DEF OldJobs
<1>4. ~At("idle") => Job'.resets <= resets /\ Job'.resets \in Nat
  <2>1. DOMAIN jobs' = DOMAIN jobs
    BY DEF Dropped
  <2> QED
    BY <1>2, <2>1 DEF JobsInv, Job
<1>5. OldSearch'
  BY <1>1, <1>4 DEF OldSearch, At
<1>6. ResetTypes' /\ MutexInv' /\ EmptyInv' /\ StaleInv'
  BY <1>1 DEF ResetInv, ResetTypes, MutexInv, EmptyInv, StaleInv, At, Kept
<1> QED
  BY <1>3, <1>5, <1>6 DEF ResetInv

LEMMA ResetUI ==
    ASSUME JobsInv, JobsKept, ResetInv, UIReset
    PROVE  ResetInv'
<1>1. /\ resets' = resets /\ jobs' = jobs /\ worker' = worker
  BY DEF UIReset
<1>2. OldJobs'
  BY <1>1, OldJobsSame DEF ResetInv
<1>3. CASE ui = "try" /\ lock = "free"
  <2>1. /\ lock' = "ui" /\ ui' = "release" /\ flag' = flag /\ stale' = FALSE /\ ~Kept'
    BY <1>3 DEF UIReset, TryReset, ResetUnderLock, Kept, EmptySession
  <2> QED
    BY <1>1, <1>2, <1>3, <2>1 DEF ResetInv, ResetTypes, MutexInv, EmptyInv, StaleInv, OldSearch, At
<1>4. CASE ui = "try" /\ lock # "free"
  <2>1. UNCHANGED <<lock, flag, stale, session>> /\ ui' = "idle"
    BY <1>4 DEF UIReset, TryReset, plugin
  <2>2. worker.pc \in Holding
    BY <1>4 DEF ResetInv, MutexInv
  <2>3. StaleInv'
    BY <1>1, <2>1, <2>2 DEF ResetInv, EmptyInv, StaleInv, Holding, Looking, At
  <2> QED
    BY <1>1, <1>2, <1>4, <2>1, <2>3
    DEF ResetInv, ResetTypes, MutexInv, EmptyInv, OldSearch, At, Job, Kept
<1>5. CASE ui = "release"
  <2>1. UNCHANGED <<session, stale>> /\ flag' = FALSE /\ lock' = "free" /\ ui' = "idle"
    BY <1>5 DEF UIReset, ResetDone
  <2> QED
    BY <1>1, <1>2, <1>5, <2>1
    DEF ResetInv, ResetTypes, MutexInv, EmptyInv, StaleInv, OldSearch, At, Kept
<1> QED
  BY <1>3, <1>4, <1>5 DEF UIReset

LEMMA ResetReceive ==
    ASSUME JobsInv, JobsKept, ResetInv, Receive
    PROVE  ResetInv'
<1>1. /\ UNCHANGED protocol /\ At("idle") /\ Len(jobs') = Len(jobs)
  BY DEF Receive, WorkerFrame, window, plugin, protocol, JobsInv, JobsKept
<1>2. OldJobs' /\ resets' = resets
  BY <1>1, OldJobsSame DEF ResetInv, protocol
<1>3. CASE worker' = worker
  <2>1. DOMAIN jobs' = DOMAIN jobs
    BY <1>1 DEF JobsInv, JobsKept
  <2> QED
    BY <1>1, <1>3, <2>1, ResetFrame
<1>4. CASE /\ ~jobs[Head(queue)].cancelled /\ jobs' = jobs
           /\ worker'.pc \in {"request", "lock"} /\ worker'.job = Head(queue)
  <2>1. Head(queue) \in DOMAIN jobs
    <3>1. queue # <<>> /\ queue \in Seq(Nat)
      BY DEF Receive, JobsInv
    <3>2. Head(queue) = queue[1] /\ 1 \in DOMAIN queue
      BY <3>1
    <3> QED
      BY <3>2 DEF JobsInv
  <2>2. ~(Job'.resets < resets)
    BY <1>4, <2>1 DEF ResetInv, OldJobs, Job
  <2>3. OldSearch'
    BY <1>2, <1>4, <2>2 DEF OldSearch, At
  <2>4. ResetTypes' /\ MutexInv' /\ EmptyInv' /\ StaleInv'
    BY <1>1, <1>4
    DEF ResetInv, ResetTypes, MutexInv, EmptyInv, StaleInv, protocol, Holding, Looking, At, Kept
  <2> QED
    BY <1>2, <2>3, <2>4 DEF ResetInv
<1>5. worker' = worker \/ /\ ~jobs[Head(queue)].cancelled /\ jobs' = jobs
                          /\ worker'.pc \in {"request", "lock"} /\ worker'.job = Head(queue)
  BY DEF Receive
<1> QED
  BY <1>3, <1>4, <1>5

(* Facts about steps of the worker that leave the jobs alone.               *)
LEMMA WorkerFacts ==
    ASSUME JobsInv, ResetInv, WorkerFrame, UNCHANGED jobs
    PROVE  /\ OldJobs' /\ resets' = resets /\ ui' = ui
           /\ worker'.job = worker.job => Job'.resets = Job.resets
BY DEF WorkerFrame, ResetInv, OldJobs, Job

LEMMA ResetPath ==
    ASSUME JobsInv, ResetInv, PathReset
    PROVE  ResetInv'
<1> USE DEF ResetInv, ResetTypes, MutexInv, EmptyInv, StaleInv, OldSearch,
            Holding, Looking, At
<1>1. /\ OldJobs' /\ resets' = resets /\ ui' = ui
  BY WorkerFacts DEF PathReset
<1>2. CASE At("request") /\ Requested /\ Goto("try")
  <2>1. flag' = TRUE /\ stale' = Kept /\ session' = session /\ lock' = lock
    BY <1>2 DEF Requested
  <2>2. worker'.pc = "try"
    BY <1>2, TypedGoto DEF WorkerPCs
  <2> QED
    BY <1>1, <1>2, <2>1, <2>2 DEF Kept
<1>3. CASE At("try") /\ lock = "free" /\ TryReset("worker") /\ Goto("release")
  <2>1. lock' = "worker" /\ flag' = flag /\ stale' = FALSE /\ ~Kept'
    BY <1>3 DEF TryReset, ResetUnderLock, Kept, EmptySession
  <2>2. worker'.pc = "release"
    BY <1>3, TypedGoto DEF WorkerPCs
  <2> QED
    BY <1>1, <1>3, <2>1, <2>2
<1>4. CASE At("try") /\ lock # "free" /\ TryReset("worker") /\ Goto("send")
  <2>1. UNCHANGED <<lock, flag, stale, session>>
    BY <1>4 DEF TryReset, plugin
  <2>2. worker'.pc = "send"
    BY <1>4, TypedGoto DEF WorkerPCs
  <2>3. ~stale
    BY <1>4
  <2> QED
    BY <1>1, <1>4, <2>1, <2>2, <2>3 DEF Kept
<1>5. CASE At("release") /\ ResetDone /\ Goto("send")
  <2>1. UNCHANGED <<session, stale>> /\ flag' = FALSE /\ lock' = "free"
    BY <1>5 DEF ResetDone
  <2>2. worker'.pc = "send"
    BY <1>5, TypedGoto DEF WorkerPCs
  <2> QED
    BY <1>1, <1>5, <2>1, <2>2 DEF Kept
<1> QED
  BY <1>2, <1>3, <1>4, <1>5 DEF PathReset

LEMMA ResetUnderMutex ==
    ASSUME JobsInv, ResetInv,
           \/ Lock \/ Unlock
           \/ SwapUnderLock("swap", "search") \/ SwapUnderLock("swapAfter", "unlock")
    PROVE  ResetInv'
<1> USE DEF ResetInv, ResetTypes, MutexInv, EmptyInv, StaleInv, OldSearch,
            Holding, Looking, At
<1>1. /\ OldJobs' /\ resets' = resets /\ ui' = ui
      /\ worker'.job = worker.job => Job'.resets = Job.resets
  BY WorkerFacts DEF Lock, Unlock, SwapUnderLock
<1>2. CASE Lock
  <2>1. /\ UNCHANGED <<session, flag, stale>> /\ lock' = "worker" /\ lock = "free"
        /\ At("lock")
    BY <1>2 DEF Lock
  <2>2. worker'.pc = "swap" /\ worker'.job = worker.job
    BY <1>2, TypedGoto DEF WorkerPCs, Lock
  <2> QED
    BY <1>1, <2>1, <2>2 DEF Kept
<1>3. CASE Unlock
  <2>1. UNCHANGED <<session, flag, stale>> /\ lock' = "free" /\ At("unlock")
    BY <1>3 DEF Unlock
  <2>2. worker'.pc = "finish"
    BY <1>3, TypedGoto DEF WorkerPCs, Unlock
  <2> QED
    BY <1>1, <2>1, <2>2 DEF Kept
<1>4. ASSUME NEW from \in {"swap", "swapAfter"}, NEW to \in {"search", "unlock"},
             from = "swap" <=> to = "search", SwapUnderLock(from, to)
      PROVE  ResetInv'
  <2>1. /\ lock' = lock /\ At(from) /\ flag' = FALSE
        /\ worker'.pc = to /\ worker'.job = worker.job
    BY <1>4, TypedGoto DEF WorkerPCs, SwapUnderLock
  <2>2. CASE flag
    <3>1. stale' = FALSE /\ ~Kept'
      BY <1>4, <2>2 DEF SwapUnderLock, ResetUnderLock, Kept, EmptySession
    <3> QED
      BY <1>1, <1>4, <2>1, <3>1
  <2>3. CASE ~flag
    <3>1. stale' = stale /\ session' = session
      BY <1>4, <2>3 DEF SwapUnderLock
    <3>2. ~stale
      BY <1>4, <2>1, <2>3
    <3> QED
      BY <1>1, <1>4, <2>1, <2>3, <3>1, <3>2 DEF Kept
  <2> QED
    BY <2>2, <2>3
<1> QED
  BY <1>2, <1>3, <1>4

LEMMA ResetSearch ==
    ASSUME JobsInv, JobsKept, Whole, ResetInv, SearchStep
    PROVE  ResetInv'
<1> USE DEF ResetInv, ResetTypes, MutexInv, EmptyInv, StaleInv, OldSearch,
            Holding, Looking, At
<1>1. /\ UNCHANGED <<ui, lock, flag, resets, jobs>> /\ worker.pc = "search"
      /\ stale' = (Kept' /\ (stale \/ Job.resets < resets))
  BY DEF SearchStep, Kept
<1>2. OldJobs'
  BY <1>1, OldJobsSame
<1>3. worker'.pc = "swapAfter"
  BY JobsSearchStep
<1>4. CASE Job.resets < resets /\ ~flag
  <2>1. ~Kept
    BY <1>1, <1>4
  <2>2. Job.cancelled
    BY <1>1, <1>4 DEF OldJobs, JobsInv, Job
  <2>3. session' = Prepare(session, Job.query, generation)
    BY <2>2 DEF SearchStep, CancelledSearch
  <2>4. ~Kept'
    BY <2>1, <2>3 DEF Kept, Prepare, Fresh, EmptySession
  <2> QED
    BY <1>1, <1>2, <1>3, <2>4
<1>5. CASE ~(Job.resets < resets /\ ~flag)
  <2>1. stale' \in BOOLEAN /\ stale' => flag
    BY <1>1, <1>5
  <2> QED
    BY <1>1, <1>2, <1>3, <2>1
<1> QED
  BY <1>4, <1>5

LEMMA ResetFinish ==
    ASSUME JobsInv, ResetInv, Finish
    PROVE  ResetInv'
<1> USE DEF ResetInv, ResetTypes, MutexInv, EmptyInv, StaleInv, OldSearch,
            Holding, Looking, At
<1>1. /\ OldJobs' /\ resets' = resets /\ ui' = ui
  BY WorkerFacts DEF Finish
<1>2. CASE /\ At("finish") /\ flag' = FALSE /\ Goto(IF flag THEN "relock" ELSE "send")
           /\ UNCHANGED <<session, lock, stale>>
  <2>1. worker'.pc = IF flag THEN "relock" ELSE "send"
    BY <1>2, TypedGoto DEF WorkerPCs
  <2> QED
    BY <1>1, <1>2, <2>1 DEF Kept
<1>3. CASE /\ At("relock") /\ lock = "free" /\ ResetUnderLock /\ Goto("send")
           /\ UNCHANGED <<lock, flag>>
  <2>1. worker'.pc = "send" /\ stale' = FALSE /\ ~Kept'
    BY <1>3, TypedGoto DEF WorkerPCs, ResetUnderLock, Kept, EmptySession
  <2> QED
    BY <1>1, <1>3, <2>1
<1> QED
  BY <1>2, <1>3 DEF Finish

LEMMA ResetSend ==
    ASSUME JobsInv, JobsKept, ResetInv, Send
    PROVE  ResetInv'
<1>1. /\ UNCHANGED protocol /\ At("send") /\ DOMAIN jobs' = DOMAIN jobs
  BY DEF Send, WorkerFrame, window, plugin, protocol
<1>2. OldJobs'
  BY <1>1, OldJobsKept DEF ResetInv, protocol
<1>3. worker'.pc = "idle"
  BY TypedGoto DEF Send, WorkerPCs
<1> QED
  BY <1>1, <1>2, <1>3
  DEF ResetInv, ResetTypes, MutexInv, EmptyInv, StaleInv, OldSearch, protocol,
      Holding, Looking, At, Kept

(* Steps of the window that are no requests.                                *)
LEMMA ResetWindow ==
    ASSUME JobsInv, JobsKept, DeferredInv, ResetInv,
           \/ \E q \in Queries \cup Paths \cup {Blank} : Type(q)
           \/ Hide \/ DebounceTick \/ PollTick
    PROVE  ResetInv'
<1>1. CASE ui = "idle" /\ RequestReset /\ jobs' = Dropped /\ worker' = worker
  BY <1>1, ResetRequested
<1>2. CASE UNCHANGED <<protocol, worker>> /\ DOMAIN jobs' = DOMAIN jobs
  BY <1>2, ResetFrame
<1>3. CASE /\ UNCHANGED <<protocol, worker>> /\ text # Blank
           /\ jobs' = Append(Dropped, NewJob)
  <2>1. /\ Len(jobs') = Len(jobs) + 1 /\ jobs'[Len(jobs) + 1] = NewJob
        /\ jobs' \in Seq(JobSet) /\ jobs \in Seq(JobSet)
    BY <1>3, AskedKeeps DEF JobsKept, JobsInv
  <2>2. ASSUME NEW n \in DOMAIN jobs' \ DOMAIN jobs PROVE jobs'[n].resets = resets
    <3>1. n = Len(jobs) + 1
      BY <2>1
    <3> QED
      BY <2>1, <3>1 DEF NewJob
  <2> QED
    BY <1>3, <2>2, ResetFrame
<1>4. ASSUME NEW q \in Queries \cup Paths \cup {Blank}, Type(q) PROVE ResetInv'
  <2>1. CASE q = Blank
    BY <1>1, <1>4, <2>1 DEF Type, Input
  <2>2. CASE q # Blank
    BY <1>2, <1>4, <2>2 DEF Type, Dropped, plugin, protocol
  <2> QED
    BY <2>1, <2>2
<1>5. CASE Hide
  BY <1>1, <1>5 DEF Hide, Input
<1>6. CASE DebounceTick
  BY <1>2, <1>3, <1>6 DEF DebounceTick, plugin, protocol
<1>7. CASE PollTick
  BY <1>2, <1>7 DEF PollTick, Dropped, plugin, protocol
<1> QED
  BY <1>4, <1>5, <1>6, <1>7

LEMMA ResetStep ==
    ASSUME JobsInv, Whole, DeferredInv, ResetInv, [Next]_vars
    PROVE  ResetInv'
<1>1. JobsKept
  BY JobsStep
<1>2. CASE \/ Show \/ EngineReady \/ IndexChanges \/ UNCHANGED vars
           \/ \E t \in timers : TimerExpires(t)
  <2>1. UNCHANGED <<protocol, worker, jobs>>
    BY <1>2 DEF Show, EngineReady, IndexChanges, Change, TimerExpires, window, plugin,
                protocol, vars
  <2> QED
    BY <1>1, <2>1, ResetFrame
<1>3. CASE \/ \E q \in Queries \cup Paths \cup {Blank} : Type(q)
           \/ Hide \/ DebounceTick \/ PollTick
  BY <1>1, <1>3, ResetWindow
<1>4. CASE UIReset
  BY <1>1, <1>4, ResetUI
<1>5. CASE Work
  BY <1>1, <1>5, ResetReceive, ResetPath, ResetUnderMutex, ResetSearch, ResetFinish,
     ResetSend DEF Work
<1> QED
  BY <1>2, <1>3, <1>4, <1>5 DEF Next, UserActs

LEMMA ResetInit == Init => ResetInv
<1> SUFFICES ASSUME Init PROVE ResetInv
  OBVIOUS
<1>1. /\ ui = "idle" /\ lock = "free" /\ flag = FALSE /\ stale = FALSE /\ jobs = <<>>
      /\ worker.pc = "idle"
  BY DEF Init
<1>2. OldJobs
  <2>1. DOMAIN jobs = {}
    BY <1>1
  <2> QED
    BY <2>1 DEF OldJobs
<1>3. ResetTypes /\ MutexInv /\ EmptyInv /\ StaleInv /\ OldSearch
  BY <1>1 DEF ResetTypes, MutexInv, EmptyInv, StaleInv, OldSearch, Holding, At
<1> QED
  BY <1>2, <1>3 DEF ResetInv

LEMMA ResetInductive == Spec => []ResetInv
<1>1. JobsInv /\ Whole /\ DeferredInv /\ ResetInv /\ [Next]_vars => ResetInv'
  BY ResetStep
<1> QED
  BY <1>1, ResetInit, DeferredInductive, PTL DEF Spec

(* However the window's request, its attempt to lock and the worker's three *)
(* looks at the flag interleave, also with the worker's own reset for a     *)
(* directory query: a search of the present input session never uses        *)
(* candidates of an earlier one, and none stay behind.                      *)
THEOREM ResetIsNeverLost == Spec => []NoStaleSession
<1>1. JobsInv /\ ResetInv => NoStaleSession
  <2> SUFFICES ASSUME JobsInv, ResetInv PROVE NoStaleSession
    OBVIOUS
  <2>1. At("search") => Job.resets \in Nat
    <3> SUFFICES ASSUME At("search") PROVE Job.resets \in Nat
      OBVIOUS
    <3>1. jobs[worker.job] \in JobSet
      BY ElementOfSeq DEF JobsInv, At
    <3> QED
      BY <3>1 DEF JobSet, Job
  <2>2. At("search") /\ Job.resets = resets => ~stale
    BY <2>1 DEF ResetInv, OldSearch
  <2>3. ui = "idle" /\ At("idle") => ~stale
    BY DEF ResetInv, StaleInv, Looking, At
  <2> QED
    BY <2>2, <2>3 DEF NoStaleSession
<1> QED
  BY <1>1, JobsInductive, ResetInductive, PTL

-----------------------------------------------------------------------------
(* The replies                                                              *)

(* f is what the index held for q at some moment from n to g.               *)
HeldSince(q, n, f, g) == q \in Queries => \E k \in n .. g : f = Found(q, k)

GoodReply(r, g) == r \in Reply /\ HeldSince(r.query, r.since, r.found, g)

Answering == {"swapAfter", "unlock", "finish", "relock", "send"}

GoodJobs == \A n \in DOMAIN jobs :
    jobs[n].since <= generation /\ \A r \in jobs[n].replies : GoodReply(r, generation)

GoodItems == \A r \in items.replies : GoodReply(r, generation)

GoodWorker ==
    /\ worker.pc \in {"request", "try", "release"} => Job.query \notin Queries
    /\ worker.pc \in Answering /\ ~Job.cancelled =>
          HeldSince(Job.query, Job.since, worker.found, generation)

ReplyInv == GoodJobs /\ GoodItems /\ GoodWorker

LEMMA HeldLonger ==
    ASSUME NEW q, NEW n \in Nat, NEW f, NEW g \in Nat, NEW h \in Nat, g <= h,
           HeldSince(q, n, f, g)
    PROVE  HeldSince(q, n, f, h)
BY DEF HeldSince

LEMMA GoodLonger ==
    ASSUME NEW g \in Nat, NEW h \in Nat, g <= h, NEW r, GoodReply(r, g)
    PROVE  GoodReply(r, h)
<1>1. r.since \in Nat
  BY DEF GoodReply, Reply
<1> QED
  BY <1>1, HeldLonger DEF GoodReply

(* Jobs and items of good replies stay good as the index changes.           *)
LEMMA GoodStays ==
    ASSUME JobsInv, JobsKept, generation' \in Nat, generation <= generation',
           \A n \in DOMAIN jobs' : /\ jobs'[n].since <= generation
                                   /\ \A r \in jobs'[n].replies : GoodReply(r, generation),
           \A r \in items'.replies : GoodReply(r, generation)
    PROVE  GoodJobs' /\ GoodItems'
<1>1. generation \in Nat
  BY DEF JobsInv
<1>2. ASSUME NEW n \in DOMAIN jobs' PROVE jobs'[n].since <= generation'
  <2>1. jobs'[n] \in JobSet
    BY ElementOfSeq DEF JobsKept
  <2>2. jobs'[n].since \in Nat /\ jobs'[n].since <= generation
    BY <2>1 DEF JobSet
  <2> QED
    BY <1>1, <2>2
<1> QED
  BY <1>1, <1>2, GoodLonger DEF GoodJobs, GoodItems

LEMMA GoodWorkerStays ==
    ASSUME JobsInv, JobsKept, GoodWorker, generation' \in Nat, generation <= generation',
           worker' = worker
    PROVE  GoodWorker'
<1>1. CASE At("idle")
  BY <1>1 DEF GoodWorker, Answering, At
<1>2. CASE ~At("idle")
  <2>1. /\ Job'.query = Job.query /\ Job'.since = Job.since
        /\ Job.cancelled => Job'.cancelled
    BY <1>2 DEF JobsInv, JobsKept, Job
  <2>2. Job.since \in Nat /\ generation \in Nat
    <3>1. jobs[worker.job] \in JobSet
      BY <1>2, ElementOfSeq DEF JobsInv
    <3> QED
      BY <3>1 DEF JobSet, Job, JobsInv
  <2> QED
    BY <2>1, <2>2, HeldLonger DEF GoodWorker
<1> QED
  BY <1>1, <1>2

(* Steps of the window.                                                     *)
LEMMA ReplyWindow ==
    ASSUME JobsInv, JobsKept, ReplyInv, worker' = worker,
           generation' \in Nat, generation <= generation',
           \/ jobs' \in {jobs, Dropped}
           \/ text # Blank /\ jobs' = Append(Dropped, NewJob),
           \A r \in items'.replies : r \in items.replies \/
                \E n \in DOMAIN jobs : r \in jobs[n].replies
    PROVE  ReplyInv'
<1>1. ASSUME NEW n \in DOMAIN jobs, jobs' = jobs \/ jobs'[n] = Dropped[n]
      PROVE  /\ jobs'[n].since <= generation
             /\ \A r \in jobs'[n].replies : GoodReply(r, generation)
  BY <1>1, DroppedJobs DEF JobsInv, ReplyInv, GoodJobs
<1>2. ASSUME NEW n \in DOMAIN jobs'
      PROVE  /\ jobs'[n].since <= generation
             /\ \A r \in jobs'[n].replies : GoodReply(r, generation)
  <2>1. CASE jobs' \in {jobs, Dropped}
    <3>1. n \in DOMAIN jobs
      BY <2>1 DEF Dropped
    <3> QED
      BY <1>1, <2>1, <3>1
  <2>2. CASE text # Blank /\ jobs' = Append(Dropped, NewJob)
    <3>1. /\ Len(jobs') = Len(jobs) + 1 /\ jobs'[Len(jobs) + 1] = NewJob
          /\ \A k \in DOMAIN jobs : jobs'[k] = Dropped[k]
          /\ jobs' \in Seq(JobSet) /\ jobs \in Seq(JobSet)
      BY <2>2, AskedKeeps DEF JobsKept, JobsInv
    <3>2. n \in DOMAIN jobs \/ n = Len(jobs) + 1
      BY <3>1
    <3>3. CASE n = Len(jobs) + 1
      BY <3>1, <3>3 DEF NewJob, JobsInv
    <3> QED
      BY <1>1, <3>1, <3>2, <3>3
  <2> QED
    BY <2>1, <2>2
<1>3. \A r \in items'.replies : GoodReply(r, generation)
  BY DEF ReplyInv, GoodJobs, GoodItems
<1> QED
  BY <1>2, <1>3, GoodStays, GoodWorkerStays DEF ReplyInv

LEMMA ReplyUser ==
    ASSUME JobsInv, JobsKept, DeferredInv, ReplyInv,
           UserActs \/ UIReset \/ DebounceTick \/ PollTick
    PROVE  ReplyInv'
<1>1. worker' = worker /\ generation' = generation /\ generation \in Nat
  BY DEF UserActs, Type, Hide, Show, UIReset, DebounceTick, PollTick, JobsInv
<1>2. \/ jobs' \in {jobs, Dropped}
      \/ text # Blank /\ jobs' = Append(Dropped, NewJob)
  BY DEF UserActs, Type, Hide, Show, UIReset, DebounceTick, PollTick
<1>3. CASE items' = items \/ items'.replies = {}
  BY <1>1, <1>2, <1>3, ReplyWindow
<1>4. CASE PollTick /\ items' = [items EXCEPT !.replies = Merged]
  <2>1. \A r \in Merged : \E n \in DOMAIN jobs : r \in jobs[n].replies
    BY DEF Merged, DeferredInv
  <2>2. items'.replies \subseteq items.replies \cup Merged
    BY <1>4
  <2> QED
    BY <1>1, <1>2, <2>1, <2>2, ReplyWindow
<1>5. CASE UserActs \/ UIReset
  <2>1. items' = items \/ items' = NoItems
    BY <1>5 DEF UserActs, Type, Hide, Show, UIReset, window
  <2> QED
    BY <1>3, <2>1 DEF NoItems
<1>6. CASE DebounceTick
  <2>1. items' = items \/ \E a \in BOOLEAN : items' = [query |-> text, asked |-> a, replies |-> {}]
    BY <1>6 DEF DebounceTick
  <2> QED
    BY <1>3, <2>1
<1>7. CASE PollTick
  BY <1>3, <1>4, <1>7 DEF PollTick
<1> QED
  BY <1>5, <1>6, <1>7

(* Steps of the worker that leave the jobs alone.                           *)
LEMMA ReplyWorker ==
    ASSUME JobsInv, JobsKept, ReplyInv, UNCHANGED <<items, jobs, generation>>, GoodWorker'
    PROVE  ReplyInv'
BY DEF ReplyInv, GoodJobs, GoodItems

LEMMA ReplyReceive ==
    ASSUME JobsInv, JobsKept, ReplyInv, Receive
    PROVE  ReplyInv'
<1>1. /\ UNCHANGED <<items, generation>> /\ generation \in Nat
      /\ queue # <<>> /\ queue \in Seq(Nat)
  BY DEF Receive, WorkerFrame, window, JobsInv
<1>2. CASE worker' = worker
  <2>1. ASSUME NEW n \in DOMAIN jobs'
        PROVE  n \in DOMAIN jobs /\ jobs'[n].replies = jobs[n].replies
                 /\ jobs'[n].since = jobs[n].since
    <3>1. n \in DOMAIN jobs
      BY DEF Receive
    <3>2. jobs[n] \in JobSet
      BY <3>1, ElementOfSeq DEF JobsInv
    <3>3. jobs'[n] = jobs[n] \/ jobs'[n] = [jobs[n] EXCEPT !.over = TRUE]
      BY <3>1 DEF Receive
    <3> QED
      BY <3>1, <3>2, <3>3 DEF JobSet
  <2>2. /\ \A n \in DOMAIN jobs' :
              /\ jobs'[n].since <= generation
              /\ \A r \in jobs'[n].replies : GoodReply(r, generation)
        /\ \A r \in items'.replies : GoodReply(r, generation)
    BY <1>1, <2>1 DEF ReplyInv, GoodJobs, GoodItems
  <2> QED
    BY <1>1, <1>2, <2>2, GoodStays, GoodWorkerStays DEF ReplyInv
<1>3. CASE /\ jobs' = jobs /\ worker'.job = Head(queue)
           /\ worker'.pc = IF jobs[Head(queue)].query \in Paths THEN "request" ELSE "lock"
  <2>1. worker'.pc = "request" => Job'.query \notin Queries
    BY <1>3 DEF Job
  <2>2. GoodWorker'
    BY <1>3, <2>1 DEF GoodWorker, Answering
  <2> QED
    BY <1>1, <1>3, <2>2, ReplyWorker
<1>4. \/ worker' = worker
      \/ /\ jobs' = jobs /\ worker'.job = Head(queue)
         /\ worker'.pc = IF jobs[Head(queue)].query \in Paths THEN "request" ELSE "lock"
  BY DEF Receive
<1> QED
  BY <1>2, <1>3, <1>4

LEMMA ReplyGoesOn ==
    ASSUME JobsInv, JobsKept, ReplyInv, WorkerFrame, UNCHANGED jobs,
           NEW pc \in WorkerPCs, Goto(pc),
           \/ pc \in {"try", "release"} /\ worker.pc \in {"request", "try"}
           \/ pc = "send" /\ worker.pc \in {"try", "release"}
           \/ pc \in Answering /\ worker.pc \in Answering
           \/ pc \in {"swap", "search"}
    PROVE  ReplyInv'
<1>1. UNCHANGED <<items, jobs, generation>>
  BY DEF WorkerFrame, window
<1>2. /\ worker'.pc = pc /\ Job' = Job /\ worker'.found = worker.found
  BY TypedGoto DEF Job
<1>3. GoodWorker'
  BY <1>1, <1>2 DEF ReplyInv, GoodWorker, Answering, HeldSince
<1> QED
  BY <1>1, <1>3, ReplyWorker

LEMMA ReplyMoves ==
    ASSUME JobsInv, JobsKept, ReplyInv,
           \/ PathReset \/ Lock \/ Unlock \/ Finish
           \/ SwapUnderLock("swap", "search") \/ SwapUnderLock("swapAfter", "unlock")
    PROVE  ReplyInv'
<1>1. WorkerFrame /\ UNCHANGED jobs
  BY DEF PathReset, Lock, Unlock, Finish, SwapUnderLock
<1>2. PICK pc \in WorkerPCs : /\ Goto(pc)
                              /\ \/ pc \in {"try", "release"} /\ worker.pc \in {"request", "try"}
                                 \/ pc = "send" /\ worker.pc \in {"try", "release"}
                                 \/ pc \in Answering /\ worker.pc \in Answering
                                 \/ pc \in {"swap", "search"}
  BY DEF PathReset, Lock, Unlock, Finish, SwapUnderLock, At, Answering, WorkerPCs
<1> QED
  BY <1>1, <1>2, ReplyGoesOn

(* The search answers with what the index holds now.                        *)
LEMMA ReplySearch ==
    ASSUME JobsInv, JobsKept, Whole, ReplyInv, SearchStep
    PROVE  ReplyInv'
<1>1. UNCHANGED <<items, jobs, generation>> /\ generation \in Nat
  BY DEF SearchStep, window, CancelledSearch, Search, JobsInv
<1>2. /\ Job.query \in Queries /\ At("search")
      /\ worker'.pc = "swapAfter" /\ worker'.job = worker.job
  BY JobsSearchStep
<1>3. ~Job.cancelled => worker'.found = Found(Job.query, generation)
  <2> SUFFICES ASSUME ~Job.cancelled PROVE worker'.found = Found(Job.query, generation)
    OBVIOUS
  <2>1. worker' = [worker EXCEPT !.pc = "swapAfter",
                     !.found = Entries(Searched(session, Job.query, generation))]
    BY DEF SearchStep
  <2>2. worker'.found = Entries(Searched(session, Job.query, generation))
    BY <2>1 DEF JobsInv
  <2> QED
    BY <1>2, <2>2, SearchFinds
<1>4. Job.since \in Nat /\ Job.since <= generation
  <2>1. worker.job \in DOMAIN jobs
    BY <1>2 DEF JobsInv, At
  <2>2. jobs[worker.job] \in JobSet
    BY <2>1, ElementOfSeq DEF JobsInv
  <2> QED
    BY <2>1, <2>2 DEF JobSet, Job, ReplyInv, GoodJobs
<1>5. ~Job.cancelled => HeldSince(Job.query, Job.since, worker'.found, generation)
  BY <1>1, <1>3, <1>4 DEF HeldSince
<1>6. GoodWorker'
  <2>1. Job' = Job
    BY <1>1, <1>2 DEF Job
  <2> QED
    BY <1>1, <1>2, <1>5, <2>1 DEF GoodWorker, HeldSince
<1> QED
  BY <1>1, <1>6, ReplyWorker

LEMMA ReplySend ==
    ASSUME JobsInv, JobsKept, ReplyInv, Send
    PROVE  ReplyInv'
<1> DEFINE r == [query |-> Job.query, since |-> Job.since, found |-> worker.found]
           R == IF Job.cancelled THEN {} ELSE {r}
<1>1. /\ UNCHANGED <<items, generation>> /\ generation \in Nat /\ At("send")
      /\ worker.job \in DOMAIN jobs
  BY DEF Send, WorkerFrame, window, JobsInv, At
<1>2. jobs[worker.job] \in JobSet /\ worker.found \in Finding
  BY <1>1, ElementOfSeq DEF JobsInv
<1>3. r \in Reply
  BY <1>2 DEF Reply, JobSet, Job
<1>4. ~Job.cancelled => GoodReply(r, generation)
  BY <1>1, <1>3 DEF ReplyInv, GoodWorker, GoodReply, Answering, At
<1>5. ASSUME NEW n \in DOMAIN jobs'
      PROVE  /\ jobs'[n].since <= generation
             /\ \A x \in jobs'[n].replies : GoodReply(x, generation)
  <2>1. n \in DOMAIN jobs
    BY <1>5 DEF Send
  <2>2. /\ jobs[n] \in JobSet /\ jobs[n].since <= generation
        /\ \A x \in jobs[n].replies : GoodReply(x, generation)
    BY <2>1, ElementOfSeq DEF JobsInv, ReplyInv, GoodJobs
  <2>3. jobs'[n] = jobs[n] \/ jobs'[n] = [jobs[n] EXCEPT !.over = TRUE, !.replies = R]
    BY <2>1 DEF Send
  <2>4. jobs'[n].since = jobs[n].since /\ jobs'[n].replies \in {jobs[n].replies, R}
    <3> HIDE DEF R
    <3> QED
      BY <2>2, <2>3 DEF JobSet
  <2> HIDE DEF r
  <2> QED
    BY <1>4, <2>2, <2>4
<1>6. GoodJobs' /\ GoodItems'
  <2>1. \A x \in items'.replies : GoodReply(x, generation)
    BY <1>1 DEF ReplyInv, GoodItems
  <2> QED
    BY <1>1, <1>5, <2>1, GoodStays
<1>7. worker'.pc = "idle"
  BY TypedGoto DEF Send, WorkerPCs
<1>8. GoodWorker'
  BY <1>7 DEF GoodWorker, Answering
<1> QED
  BY <1>6, <1>8 DEF ReplyInv

LEMMA ReplyStep ==
    ASSUME JobsInv, Whole, DeferredInv, ReplyInv, [Next]_vars
    PROVE  ReplyInv'
<1>1. JobsKept
  BY JobsStep
<1>2. CASE EngineReady \/ IndexChanges \/ UNCHANGED vars \/ \E t \in timers : TimerExpires(t)
  <2>1. /\ UNCHANGED <<items, jobs, worker>>
        /\ generation' \in Nat /\ generation <= generation'
    BY <1>2 DEF EngineReady, IndexChanges, Change, TimerExpires, window, vars, JobsInv
  <2> QED
    BY <1>1, <2>1, ReplyWindow
<1>3. CASE UserActs \/ UIReset \/ DebounceTick \/ PollTick
  BY <1>1, <1>3, ReplyUser
<1>4. CASE Work
  BY <1>1, <1>4, ReplyReceive, ReplyMoves, ReplySearch, ReplySend DEF Work
<1> QED
  BY <1>2, <1>3, <1>4 DEF Next

LEMMA ReplyInit == Init => ReplyInv
<1> SUFFICES ASSUME Init PROVE ReplyInv
  OBVIOUS
<1>1. jobs = <<>> /\ items.replies = {} /\ worker.pc = "idle"
  BY DEF Init, NoItems
<1>2. DOMAIN jobs = {}
  BY <1>1
<1> QED
  BY <1>1, <1>2 DEF ReplyInv, GoodJobs, GoodItems, GoodWorker, Answering

(* Whatever was cancelled, reset, reused or reindexed on the way: an answer *)
(* in the result list is everything the index held for its query at a       *)
(* moment since the query was asked.                                        *)
THEOREM RepliesAreAlwaysWhole == Spec => []RepliesAreWhole
<1>1. JobsInv /\ Whole /\ DeferredInv /\ ReplyInv /\ [Next]_vars => ReplyInv'
  BY ReplyStep
<1>2. ReplyInv => RepliesAreWhole
  BY DEF ReplyInv, GoodItems, GoodReply, HeldSince, RepliesAreWhole
<1> QED
  BY <1>1, <1>2, ReplyInit, DeferredInductive, PTL DEF Spec
-----------------------------------------------------------------------------
(* The list and the text                                                    *)

Items == [query : Texts, asked : BOOLEAN, replies : SUBSET Reply]

(* A job is answered with its own query.                                    *)
AnswersOwn == \A n \in DOMAIN jobs : \A r \in jobs[n].replies : r.query = jobs[n].query

(* The deferred query is the text in the box, and the list is already its.  *)
DeferredIsShown ==
    \A n \in deferred : text # Blank /\ jobs[n].query = text /\ items.query = text

ShownInv == items \in Items /\ ShownBelongsToText /\ AnswersOwn /\ DeferredIsShown

LEMMA AnswersWritten ==
    ASSUME JobsInv, AnswersOwn, NEW n \in DOMAIN jobs, NEW R,
           \A r \in R : r.query = jobs[n].query,
           \/ jobs' = [jobs EXCEPT ![n] = [jobs[n] EXCEPT !.over = TRUE]]
           \/ jobs' = [jobs EXCEPT ![n] = [jobs[n] EXCEPT !.over = TRUE, !.replies = R]]
    PROVE  AnswersOwn'
<1>1. ASSUME NEW m \in DOMAIN jobs', NEW r \in jobs'[m].replies
      PROVE  r.query = jobs'[m].query
  <2>1. m \in DOMAIN jobs
    OBVIOUS
  <2>2. jobs[m] \in JobSet
    BY <2>1, ElementOfSeq DEF JobsInv
  <2> DEFINE j == jobs[m]
  <2>3. DOMAIN j = {"query", "seq", "since", "resets", "cancelled", "over", "replies"}
    BY <2>2 DEF JobSet
  <2>4. \/ jobs'[m] = j \/ jobs'[m] = [j EXCEPT !.over = TRUE]
        \/ m = n /\ jobs'[m] = [j EXCEPT !.over = TRUE, !.replies = R]
    BY <2>1
  <2>5. /\ \A x \in j.replies : x.query = j.query
        /\ m = n => \A x \in R : x.query = j.query
    BY <2>1 DEF AnswersOwn
  <2> HIDE DEF j
  <2>6. /\ [j EXCEPT !.over = TRUE].query = j.query
        /\ [j EXCEPT !.over = TRUE].replies = j.replies
        /\ [j EXCEPT !.over = TRUE, !.replies = R].query = j.query
        /\ [j EXCEPT !.over = TRUE, !.replies = R].replies = R
    BY <2>3
  <2>7. CASE m = n /\ jobs'[m] = [j EXCEPT !.over = TRUE, !.replies = R]
    BY <1>1, <2>5, <2>6, <2>7
  <2> QED
    BY <1>1, <2>4, <2>5, <2>6, <2>7
<1> QED
  BY <1>1 DEF AnswersOwn

(* Dropping and appending a job leave the answers as they are.              *)
LEMMA AnswersStay ==
    ASSUME JobsInv, AnswersOwn,
           \/ jobs' \in {jobs, Dropped}
           \/ text # Blank /\ jobs' = Append(Dropped, NewJob)
    PROVE  AnswersOwn'
<1>1. ASSUME NEW n \in DOMAIN jobs, jobs' = jobs \/ jobs'[n] = Dropped[n]
      PROVE  \A r \in jobs'[n].replies : r.query = jobs'[n].query
  BY <1>1, DroppedJobs DEF JobsInv, AnswersOwn
<1>2. CASE jobs' \in {jobs, Dropped}
  <2>1. DOMAIN jobs' = DOMAIN jobs
    BY <1>2 DEF Dropped
  <2> QED
    BY <1>1, <1>2, <2>1 DEF AnswersOwn
<1>3. CASE text # Blank /\ jobs' = Append(Dropped, NewJob)
  <2>1. /\ Len(jobs') = Len(jobs) + 1 /\ jobs'[Len(jobs) + 1] = NewJob
        /\ \A k \in DOMAIN jobs : jobs'[k] = Dropped[k]
        /\ jobs' \in Seq(JobSet) /\ jobs \in Seq(JobSet)
    BY <1>3, AskedKeeps DEF JobsKept, JobsInv
  <2>2. ASSUME NEW n \in DOMAIN jobs'
        PROVE  \A r \in jobs'[n].replies : r.query = jobs'[n].query
    <3>1. n \in DOMAIN jobs \/ n = Len(jobs) + 1
      BY <2>1
    <3>2. CASE n = Len(jobs) + 1
      BY <2>1, <3>2 DEF NewJob
    <3> QED
      BY <1>1, <2>1, <3>1, <3>2
  <2> QED
    BY <2>2 DEF AnswersOwn
<1> QED
  BY <1>2, <1>3

LEMMA ShownType ==
    ASSUME JobsInv, ShownInv, NEW q \in Texts, Type(q)
    PROVE  ShownInv'
<1>1. text' = q /\ deferred' = {} /\ jobs' = Dropped
  BY DEF Type
<1>2. CASE q = Blank
  <2>1. items' = NoItems
    BY <1>2 DEF Type
  <2>2. NoItems \in Items
    BY DEF NoItems, Items, Texts
  <2>3. AnswersOwn'
    BY <1>1, AnswersStay DEF ShownInv
  <2> QED
    BY <1>1, <1>2, <2>1, <2>2, <2>3 DEF ShownInv, ShownBelongsToText, DeferredIsShown
<1>3. CASE q # Blank
  BY <1>1, <1>3, AnswersStay
     DEF Type, Waiting, ShownInv, ShownBelongsToText, DeferredIsShown
<1> QED
  BY <1>2, <1>3

LEMMA ShownHide == ASSUME JobsInv, ShownInv, Hide \/ Show PROVE ShownInv'
<1>1. CASE Hide
  BY <1>1, AnswersStay
     DEF Hide, NoItems, Items, Texts, ShownInv, ShownBelongsToText, DeferredIsShown
<1>2. CASE Show
  <2>1. items' = items /\ UNCHANGED <<text, deferred, jobs, timers, posted>>
    BY <1>2 DEF Show, ShownInv, ShownBelongsToText
  <2> QED
    BY <2>1 DEF ShownInv, ShownBelongsToText, AnswersOwn, DeferredIsShown, Waiting
<1> QED
  BY <1>1, <1>2

LEMMA ShownDebounce ==
    ASSUME JobsInv, DeferredInv, ShownInv, DebounceTick
    PROVE  ShownInv'
<1>1. text' = text /\ text \in Texts
  BY DEF DebounceTick, JobsInv
<1>2. CASE text = Blank
  BY <1>1, <1>2 DEF DebounceTick, ShownInv, ShownBelongsToText, AnswersOwn, DeferredIsShown
<1>3. CASE text # Blank /\ ~ready
  <2>1. /\ items' = [query |-> text, asked |-> FALSE, replies |-> {}]
        /\ UNCHANGED <<deferred, jobs>>
    BY <1>3 DEF DebounceTick
  <2> QED
    BY <1>1, <1>3, <2>1
       DEF Items, ShownInv, ShownBelongsToText, AnswersOwn, DeferredIsShown
<1>4. CASE text # Blank /\ ready
  <2>1. /\ items' = [query |-> text, asked |-> TRUE, replies |-> {}]
        /\ jobs' = Append(Dropped, NewJob) /\ deferred' = {Len(jobs) + 1}
    BY <1>4 DEF DebounceTick
  <2>2. jobs'[Len(jobs) + 1].query = text
    BY <1>4, <2>1, AskedKeeps DEF NewJob
  <2>3. AnswersOwn'
    BY <1>4, <2>1, AnswersStay DEF ShownInv
  <2> QED
    BY <1>1, <1>4, <2>1, <2>2, <2>3 DEF Items, ShownInv, ShownBelongsToText, DeferredIsShown
<1> QED
  BY <1>2, <1>3, <1>4

LEMMA ShownPoll ==
    ASSUME JobsInv, DeferredInv, ShownInv, PollTick
    PROVE  ShownInv'
<1>1. /\ text' = text /\ posted' = posted \ {"poll"}
      /\ timers' \in {timers, timers \ {"poll"}}
      /\ "debounce" # "poll"
  BY DEF PollTick, Tick
<1>2. Waiting("debounce")' <=> Waiting("debounce")
  BY <1>1 DEF Waiting
<1>3. CASE PollStops /\ Merged # {}
  <2>1. /\ items' = [items EXCEPT !.replies = Merged]
        /\ deferred' = {} /\ jobs' = Dropped
    BY <1>3 DEF PollTick
  <2>2. PICK n \in deferred : TRUE
    BY <1>3 DEF Merged
  <2>3. text # Blank /\ items.query = text
    BY <2>2 DEF ShownInv, DeferredIsShown
  <2>4. \A r \in Merged : r \in Reply /\ r.query = text
    <3>1. ASSUME NEW m \in deferred, NEW r \in jobs[m].replies
          PROVE  r \in Reply /\ r.query = text
      <4>1. m \in DOMAIN jobs /\ jobs[m] \in JobSet
        BY ElementOfSeq DEF DeferredInv, JobsInv
      <4> QED
        BY <3>1, <4>1 DEF JobSet, ShownInv, AnswersOwn, DeferredIsShown
    <3> QED
      BY <3>1 DEF Merged
  <2>5. items' \in Items /\ items'.query = text /\ items'.replies = Merged
    BY <2>1, <2>3, <2>4 DEF ShownInv, Items
  <2> QED
    BY <1>1, <2>1, <2>3, <2>4, <2>5, AnswersStay
       DEF ShownInv, ShownBelongsToText, DeferredIsShown
<1>4. CASE ~PollStops \/ Merged = {}
  <2>1. items' = items /\ jobs' \in {jobs, Dropped} /\ deferred' \subseteq deferred
    BY <1>4 DEF PollTick
  <2>2. AnswersOwn'
    BY <2>1, AnswersStay DEF ShownInv
  <2>3. DeferredIsShown'
    <3>1. \A n \in deferred : jobs'[n].query = jobs[n].query
      BY <2>1, DroppedJobs DEF DeferredInv, JobsInv
    <3> QED
      BY <1>1, <2>1, <3>1 DEF ShownInv, DeferredIsShown
  <2> QED
    BY <1>1, <1>2, <2>1, <2>2, <2>3 DEF ShownInv, ShownBelongsToText
<1> QED
  BY <1>3, <1>4

(* Steps that leave the window alone keep what the jobs ask.                *)
LEMMA ShownElsewhere ==
    ASSUME JobsInv, JobsKept, DeferredInv, ShownInv,
           UNCHANGED <<text, items, deferred, timers>>,
           posted' \subseteq posted \cup timers, posted \subseteq posted',
           AnswersOwn'
    PROVE  ShownInv'
<1>1. \A n \in deferred : jobs'[n].query = jobs[n].query
  BY DEF DeferredInv, JobsKept
<1>2. Waiting("debounce")' <=> Waiting("debounce")
  BY DEF Waiting
<1> QED
  BY <1>1, <1>2 DEF ShownInv, ShownBelongsToText, DeferredIsShown

LEMMA AnswersWork ==
    ASSUME JobsInv, AnswersOwn, Work
    PROVE  AnswersOwn'
<1>1. CASE Receive
  <2>1. CASE jobs' = jobs
    BY <2>1 DEF AnswersOwn
  <2>2. CASE jobs' # jobs
    <3>1. Head(queue) \in DOMAIN jobs
      BY <1>1 DEF Receive, JobsInv
    <3> QED
      BY <1>1, <2>2, <3>1, AnswersWritten DEF Receive
  <2> QED
    BY <2>1, <2>2
<1>2. CASE Send
  <2> DEFINE R == IF Job.cancelled THEN {}
                  ELSE {[query |-> Job.query, since |-> Job.since, found |-> worker.found]}
  <2>1. worker.job \in DOMAIN jobs
    BY <1>2 DEF Send, JobsInv, At
  <2>2. jobs' = [jobs EXCEPT ![worker.job] =
                   [jobs[worker.job] EXCEPT !.over = TRUE, !.replies = R]]
    BY <1>2 DEF Send
  <2>3. \A r \in R : r.query = jobs[worker.job].query
    BY DEF Job
  <2> HIDE DEF R
  <2> QED
    BY <2>1, <2>2, <2>3, AnswersWritten
<1>3. CASE \/ PathReset \/ Lock \/ Unlock \/ Finish \/ SearchStep
           \/ SwapUnderLock("swap", "search") \/ SwapUnderLock("swapAfter", "unlock")
  <2>1. jobs' = jobs
    BY <1>3 DEF PathReset, Lock, Unlock, Finish, SearchStep, SwapUnderLock
  <2> QED
    BY <2>1 DEF AnswersOwn
<1> QED
  BY <1>1, <1>2, <1>3 DEF Work

LEMMA ShownStep ==
    ASSUME JobsInv, Whole, DeferredInv, ShownInv, [Next]_vars
    PROVE  ShownInv'
<1>1. CASE UserActs
  BY <1>1, ShownType, ShownHide DEF UserActs, Texts
<1>2. CASE DebounceTick \/ PollTick
  BY <1>2, ShownDebounce, ShownPoll
<1>3. CASE UIReset \/ EngineReady \/ IndexChanges \/ UNCHANGED vars
  <2>1. UNCHANGED <<text, items, deferred, timers, posted, jobs>>
    BY <1>3 DEF UIReset, EngineReady, IndexChanges, vars, window
  <2>2. AnswersOwn'
    BY <2>1 DEF ShownInv, AnswersOwn
  <2> QED
    BY <2>1, <2>2, JobsStep, ShownElsewhere
<1>4. CASE \E t \in timers : TimerExpires(t)
  <2>1. /\ UNCHANGED <<text, items, deferred, timers, jobs>>
        /\ posted' \subseteq posted \cup timers /\ posted \subseteq posted'
    BY <1>4 DEF TimerExpires
  <2>2. AnswersOwn'
    BY <2>1 DEF ShownInv, AnswersOwn
  <2> QED
    BY <2>1, <2>2, JobsStep, ShownElsewhere
<1>5. CASE Work
  <2>1. UNCHANGED <<text, items, deferred, timers, posted>>
    BY <1>5 DEF Work, Receive, PathReset, Lock, Unlock, Finish, Send, SearchStep,
                SwapUnderLock, WorkerFrame, window
  <2>2. AnswersOwn'
    BY <1>5, AnswersWork DEF ShownInv
  <2> QED
    BY <2>1, <2>2, JobsStep, ShownElsewhere
<1> QED
  BY <1>1, <1>2, <1>3, <1>4, <1>5 DEF Next

LEMMA ShownInit == Init => ShownInv
<1> SUFFICES ASSUME Init PROVE ShownInv
  OBVIOUS
<1>1. jobs = <<>> /\ items = NoItems /\ text = Blank /\ deferred = {}
  BY DEF Init
<1>2. DOMAIN jobs = {}
  BY <1>1
<1> QED
  BY <1>1, <1>2
     DEF ShownInv, ShownBelongsToText, AnswersOwn, DeferredIsShown, NoItems, Items, Texts

(* However late an answer comes, and whatever was typed, hidden or shown    *)
(* again in between: the list shows the text in the box and nothing of an   *)
(* earlier one, and an empty box shows nothing.                             *)
THEOREM ShownAlwaysBelongs == Spec => []ShownBelongsToText
<1>1. JobsInv /\ Whole /\ DeferredInv /\ ShownInv /\ [Next]_vars => ShownInv'
  BY ShownStep
<1>2. ShownInv => ShownBelongsToText
  BY DEF ShownInv
<1> QED
  BY <1>1, <1>2, ShownInit, DeferredInductive, PTL DEF Spec
=============================================================================
