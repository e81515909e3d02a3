---------------------------- MODULE IndexProofs ----------------------------
(***************************************************************************)
(* The index of one volume, for every set of files, every history of the   *)
(* volume and every order in which a poll's events are applied.            *)
(***************************************************************************)
EXTENDS IndexSearch, FiniteSetTheorems, SequenceTheorems, TLAPS

F == INSTANCE Folding WITH Op <- ApplyEvent

-----------------------------------------------------------------------------
(* Enumerating a set of numbers                                             *)

Rank(S, i) == Cardinality({j \in S : j < i})

LEMMA RankGrows ==
    ASSUME NEW S \in SUBSET Nat, IsFiniteSet(S),
           NEW i \in S, NEW k \in S, i < k
    PROVE  /\ Rank(S, i) \in Nat /\ Rank(S, k) \in Nat
           /\ Rank(S, i) < Rank(S, k)
<1> DEFINE A == {j \in S : j < i}
           B == {j \in S : j < k}
<1>1. IsFiniteSet(A) /\ IsFiniteSet(B)
  BY FS_Subset
<1>2. Cardinality(A) \in Nat /\ Cardinality(B) \in Nat
  BY <1>1, FS_CardinalityType
<1>3. A \in SUBSET B /\ i \in B /\ i \notin A
  <2>1. \A j \in S : j \in Nat
    OBVIOUS
  <2>2. \A j \in S : j < i => j < k
    BY <2>1
  <2>3. ~ (i < i)
    BY <2>1
  <2> QED
    BY <2>2, <2>3
<1>4. Cardinality(A) <= Cardinality(B) /\ (Cardinality(A) = Cardinality(B) => B = A)
  <2> HIDE DEF A, B
  <2> QED
    BY <1>1, <1>3, FS_Subset
<1>5. Cardinality(A) # Cardinality(B)
  <2> HIDE DEF A, B
  <2> QED
    BY <1>3, <1>4
<1> HIDE DEF A, B
<1>6. Cardinality(A) < Cardinality(B)
  BY <1>2, <1>4, <1>5
<1> QED
  BY <1>2, <1>6 DEF Rank, A, B

LEMMA RankBelow ==
    ASSUME NEW S \in SUBSET Nat, IsFiniteSet(S), NEW i \in S
    PROVE  Rank(S, i) \in Nat /\ Rank(S, i) < Cardinality(S)
<1> DEFINE A == {j \in S : j < i}
<1>1. IsFiniteSet(A) /\ Cardinality(A) <= Cardinality(S)
        /\ (Cardinality(S) = Cardinality(A) => S = A)
  <2>1. A \in SUBSET S
    OBVIOUS
  <2> HIDE DEF A
  <2> QED
    BY <2>1, FS_Subset
<1>2. A # S
  <2>1. ~ (i < i)
    OBVIOUS
  <2> QED
    BY <2>1
<1>3. Cardinality(A) \in Nat /\ Cardinality(S) \in Nat
  <2> HIDE DEF A
  <2> QED
    BY <1>1, FS_CardinalityType
<1>4. Cardinality(A) < Cardinality(S)
  <2> HIDE DEF A
  <2> QED
    BY <1>1, <1>2, <1>3
<1> QED
  BY <1>3, <1>4 DEF Rank

(* Each place of the list is the rank of one member.                        *)
LEMMA RankReached ==
    ASSUME NEW S \in SUBSET Nat, IsFiniteSet(S), NEW n \in 1 .. Cardinality(S)
    PROVE  \E i \in S : Rank(S, i) = n - 1
<1> DEFINE f == [i \in S |-> Rank(S, i)]
           T == 0 .. (Cardinality(S) - 1)
<1>1. Cardinality(S) \in Nat
  BY FS_CardinalityType
<1>2. f \in [S -> T]
  <2>1. \A i \in S : Rank(S, i) \in T
    BY <1>1, RankBelow
  <2> QED
    BY <2>1
<1>3. \A i, k \in S : f[i] = f[k] => i = k
  <2> SUFFICES ASSUME NEW i \in S, NEW k \in S, i # k PROVE Rank(S, i) # Rank(S, k)
    OBVIOUS
  <2>1. i < k \/ k < i
    OBVIOUS
  <2>2. ASSUME i < k PROVE Rank(S, i) # Rank(S, k)
    BY <2>2, RankGrows
  <2>3. ASSUME k < i PROVE Rank(S, i) # Rank(S, k)
    BY <2>3, RankGrows
  <2> QED
    BY <2>1, <2>2, <2>3
<1>4. f \in Injection(S, T)
  <2> HIDE DEF f
  <2> QED
    BY <1>2, <1>3 DEF Injection, IsInjective
<1>5. IsFiniteSet(T) /\ Cardinality(T) = Cardinality(S)
  <2> DEFINE c == Cardinality(S)
  <2>1. c \in Nat /\ c - 1 \in Int /\ 0 \in Int
    BY <1>1
  <2> HIDE DEF c
  <2>2. /\ IsFiniteSet(0 .. (c - 1))
        /\ Cardinality(0 .. (c - 1)) = IF 0 > c - 1 THEN 0 ELSE (c - 1) - 0 + 1
    BY ONLY <2>1, FS_Interval
  <2>3. IsFiniteSet(0 .. (c - 1)) /\ Cardinality(0 .. (c - 1)) = c
    BY <2>1, <2>2
  <2> QED
    BY <2>3 DEF c
<1>6. f \in Surjection(S, T)
  <2> HIDE DEF f, T
  <2> QED
    BY <1>4, <1>5, FS_Injection
<1>7. n - 1 \in T
  BY <1>1
<1>8. \E i \in S : f[i] = n - 1
  <2> HIDE DEF f, T
  <2> QED
    BY <1>6, <1>7 DEF Surjection
<1> QED
  BY <1>8

(* The list is the set's members in ascending order.                        *)
Enumerates(s, S) ==
    /\ DOMAIN s = 1 .. Len(s) /\ Len(s) \in Nat /\ s \in Seq(Nat)
    /\ \A n \in DOMAIN s : s[n] \in S
    /\ \A i \in S : \E n \in DOMAIN s : s[n] = i
    /\ \A n, k \in DOMAIN s : n < k => s[n] < s[k]

LEMMA AscendingEnumerates ==
    ASSUME NEW S \in SUBSET Nat, IsFiniteSet(S)
    PROVE  Enumerates(Ascending(S), S)
<1> DEFINE s == Ascending(S)
<1>1. Cardinality(S) \in Nat
  BY FS_CardinalityType
<1>2. s = [n \in 1 .. Cardinality(S) |-> CHOOSE i \in S : Rank(S, i) = n - 1]
  BY DEF Ascending, Rank
<1>3. ASSUME NEW n \in 1 .. Cardinality(S)
      PROVE  s[n] \in S /\ Rank(S, s[n]) = n - 1
  <2>1. s[n] = CHOOSE i \in S : Rank(S, i) = n - 1
    BY <1>2
  <2>2. \E i \in S : Rank(S, i) = n - 1
    BY RankReached
  <2> QED
    BY <2>1, <2>2
<1> HIDE DEF s
<1>4. s \in Seq(Nat) /\ Len(s) = Cardinality(S) /\ DOMAIN s = 1 .. Cardinality(S)
  <2>1. s \in [1 .. Cardinality(S) -> Nat]
    BY <1>2, <1>3
  <2> QED
    BY <1>1, <2>1
<1>5. ASSUME NEW i \in S PROVE \E n \in DOMAIN s : s[n] = i
  <2> DEFINE n == Rank(S, i) + 1
  <2>1. n \in 1 .. Cardinality(S) /\ n - 1 = Rank(S, i)
    BY <1>1, RankBelow
  <2>2. s[n] \in S /\ Rank(S, s[n]) = Rank(S, i)
    BY <1>3, <2>1
  <2>3. s[n] = i
    <3> HIDE DEF n
    <3>1. PICK x \in S : x = s[n] /\ Rank(S, x) = Rank(S, i)
      BY <2>2
    <3>2. ASSUME x < i PROVE FALSE
      <4>1. Rank(S, x) \in Nat /\ Rank(S, x) < Rank(S, i)
        BY <3>2, RankGrows
      <4> QED
        BY <3>1, <4>1
    <3>3. ASSUME i < x PROVE FALSE
      <4>1. Rank(S, i) \in Nat /\ Rank(S, i) < Rank(S, x)
        BY <3>3, RankGrows
      <4> QED
        BY <3>1, <4>1
    <3>4. x = i
      BY <3>2, <3>3
    <3> QED
      BY <3>1, <3>4
  <2> QED
    BY <1>4, <2>1, <2>3
<1>6. ASSUME NEW n \in DOMAIN s, NEW k \in DOMAIN s, n < k PROVE s[n] < s[k]
  <2>1. n \in Nat /\ k \in Nat
    BY <1>1, <1>4
  <2>2. PICK x \in S, y \in S : /\ x = s[n] /\ y = s[k]
                               /\ Rank(S, x) = n - 1 /\ Rank(S, y) = k - 1
    BY <1>3, <1>4
  <2>3. x # y
    BY <1>6, <2>1, <2>2
  <2>4. ASSUME y < x PROVE FALSE
    <3>1. Rank(S, y) < Rank(S, x)
      BY <2>4, RankGrows
    <3> QED
      BY <1>6, <2>1, <2>2, <3>1
  <2>5. x < y
    BY <2>3, <2>4
  <2> QED
    BY <2>2, <2>5
<1>7. DOMAIN s = 1 .. Len(s) /\ Len(s) \in Nat
  BY <1>1, <1>4
<1>8. \A n \in DOMAIN s : s[n] \in S
  BY <1>3, <1>4
<1> QED
  BY <1>4, <1>5, <1>6, <1>7, <1>8 DEF Enumerates, s
-----------------------------------------------------------------------------
(* What an index can be                                                     *)

AllNames == Names \cup {RootName}
AllRecs == Recs \cup {NoRec}

BaseRecords == [ref : Recs, parent : Nat, name : AllNames]
InsertedRecords == [ref : Recs, parentRef : AllRecs, name : AllNames]
Events == [kind : {"delete", "create", "rename"}, ref : Recs,
           parent : AllRecs, name : AllNames]

(* An index is a record of its seven parts.                                 *)
Shape(ix) ==
    ix = [base |-> ix.base, map |-> ix.map, inserted |-> ix.inserted,
          renamed |-> ix.renamed, moved |-> ix.moved, deleted |-> ix.deleted,
          overrides |-> ix.overrides]

(* The map of a base knows its records, and an entry of each.               *)
MapTyped(map, base) ==
    /\ DOMAIN map = {base[n].ref : n \in 1 .. Len(base)}
    /\ \A r \in DOMAIN map : map[r] \in 1 .. Len(base) /\ base[map[r]].ref = r

Typed(ix) ==
    /\ Shape(ix)
    /\ ix.base \in Seq(BaseRecords) /\ ix.inserted \in Seq(InsertedRecords)
    /\ MapTyped(ix.map, ix.base)
    /\ DOMAIN ix.renamed \subseteq 1 .. BaseLen(ix)
    /\ \A i \in DOMAIN ix.renamed : ix.renamed[i] \in AllNames
    /\ DOMAIN ix.moved \subseteq Indices(ix)
    /\ ix.deleted \subseteq Indices(ix)

LEMMA Lengths ==
    ASSUME NEW ix, Typed(ix)
    PROVE  /\ BaseLen(ix) \in Nat /\ LogicalLen(ix) \in Nat
           /\ BaseLen(ix) <= LogicalLen(ix)
           /\ Len(ix.inserted) \in Nat
           /\ LogicalLen(ix) = BaseLen(ix) + Len(ix.inserted)
           /\ DOMAIN ix.base = 1 .. BaseLen(ix)
           /\ DOMAIN ix.inserted = 1 .. Len(ix.inserted)
<1>1. ix.base \in Seq(BaseRecords) /\ ix.inserted \in Seq(InsertedRecords)
  BY DEF Typed
<1>2. Len(ix.base) \in Nat /\ Len(ix.inserted) \in Nat
  BY <1>1
<1>3. DOMAIN ix.base = 1 .. Len(ix.base) /\ DOMAIN ix.inserted = 1 .. Len(ix.inserted)
  BY <1>1
<1>4. \A m, n \in Nat : m <= m + n /\ m + n \in Nat
  OBVIOUS
<1>5. /\ Len(ix.base) <= Len(ix.base) + Len(ix.inserted)
      /\ Len(ix.base) + Len(ix.inserted) \in Nat
  BY <1>2, <1>4
<1> QED
  BY <1>2, <1>3, <1>4, <1>5 DEF BaseLen, LogicalLen

-----------------------------------------------------------------------------
(* The children of a directory                                              *)

LEMMA IndexSetsFinite ==
    ASSUME NEW ix, Typed(ix), NEW S \in SUBSET Indices(ix)
    PROVE  IsFiniteSet(S) /\ S \in SUBSET Nat
<1>1. IsFiniteSet(Indices(ix)) /\ Indices(ix) \in SUBSET Nat
  <2>1. LogicalLen(ix) \in Nat
    BY Lengths
  <2>2. IsFiniteSet(1 .. LogicalLen(ix))
    <3>1. 1 \in Int /\ LogicalLen(ix) \in Int
      BY <2>1
    <3> QED
      BY ONLY <3>1, FS_Interval
  <2> QED
    BY <2>1, <2>2 DEF Indices
<1> QED
  BY <1>1, FS_Subset

ChildSets(ix, d) ==
    BaseChildren(ix, d) \cup MovedChildren(ix, d) \cup InsertedChildren(ix, d)

Members(s) == {s[n] : n \in DOMAIN s}

(* Two lists one after the other hold what each of them holds.              *)
LEMMA MembersOfBoth ==
    ASSUME NEW a \in Seq(Nat), NEW b \in Seq(Nat)
    PROVE  a \o b \in Seq(Nat) /\ Members(a \o b) = Members(a) \cup Members(b)
<1> DEFINE s == a \o b
<1>1. /\ s \in Seq(Nat) /\ Len(s) = Len(a) + Len(b)
      /\ \A n \in 1 .. Len(s) : s[n] = IF n <= Len(a) THEN a[n] ELSE b[n - Len(a)]
  BY ConcatProperties
<1>2. /\ Len(a) \in Nat /\ Len(b) \in Nat
      /\ DOMAIN a = 1 .. Len(a) /\ DOMAIN b = 1 .. Len(b)
  OBVIOUS
<1> HIDE DEF s
<1>3. DOMAIN s = 1 .. Len(s)
  BY <1>1
<1>4. ASSUME NEW n \in DOMAIN s PROVE s[n] \in Members(a) \cup Members(b)
  <2>1. CASE n <= Len(a)
    <3>1. n \in DOMAIN a /\ s[n] = a[n]
      BY <1>1, <1>2, <1>3, <2>1
    <3> QED
      BY <3>1 DEF Members
  <2>2. CASE ~ (n <= Len(a))
    <3>1. n - Len(a) \in DOMAIN b /\ s[n] = b[n - Len(a)]
      BY <1>1, <1>2, <1>3, <2>2
    <3> QED
      BY <3>1 DEF Members
  <2> QED
    BY <2>1, <2>2
<1>5. ASSUME NEW n \in DOMAIN a PROVE a[n] \in Members(s)
  <2>1. n \in DOMAIN s /\ s[n] = a[n]
    BY <1>1, <1>2, <1>3
  <2> QED
    BY <2>1 DEF Members
<1>6. ASSUME NEW n \in DOMAIN b PROVE b[n] \in Members(s)
  <2> DEFINE k == Len(a) + n
  <2>1. k \in 1 .. Len(s) /\ ~ (k <= Len(a)) /\ k - Len(a) = n
    <3>1. \A m, l \in Nat : \A i \in 1 .. l :
             m + i \in 1 .. (m + l) /\ ~ (m + i <= m) /\ (m + i) - m = i
      OBVIOUS
    <3>2. n \in 1 .. Len(b)
      BY <1>2
    <3> QED
      BY <1>1, <1>2, <3>1, <3>2
  <2> HIDE DEF k
  <2>2. k \in DOMAIN s /\ s[k] = b[n]
    BY <1>1, <1>3, <2>1
  <2> QED
    BY <2>2 DEF Members
<1>7. Members(s) = Members(a) \cup Members(b)
  BY <1>4, <1>5, <1>6 DEF Members
<1> QED
  BY <1>1, <1>7 DEF s

LEMMA EnumeratesMembers ==
    ASSUME NEW s, NEW S, Enumerates(s, S)
    PROVE  s \in Seq(Nat) /\ Members(s) = S
BY DEF Enumerates, Members

LEMMA ChildrenAre ==
    ASSUME NEW ix, Typed(ix), NEW d
    PROVE  {Children(ix, d)[n] : n \in DOMAIN Children(ix, d)} = ChildSets(ix, d)
<1> DEFINE A == BaseChildren(ix, d)
           B == MovedChildren(ix, d)
           C == InsertedChildren(ix, d)
<1>1. A \in SUBSET Indices(ix) /\ B \in SUBSET Indices(ix) /\ C \in SUBSET Indices(ix)
  <2>1. A \in SUBSET Indices(ix)
    BY Lengths DEF BaseChildren, Indices
  <2>2. B \in SUBSET Indices(ix)
    BY DEF MovedChildren, Typed
  <2>3. C \in SUBSET Indices(ix)
    BY DEF InsertedChildren
  <2> QED
    BY <2>1, <2>2, <2>3
<1> HIDE DEF A, B, C
<1>2. /\ IsFiniteSet(A) /\ A \in SUBSET Nat
      /\ IsFiniteSet(B) /\ B \in SUBSET Nat
      /\ IsFiniteSet(C) /\ C \in SUBSET Nat
  BY <1>1, IndexSetsFinite
<1>3. /\ Enumerates(Ascending(A), A) /\ Enumerates(Ascending(B), B)
      /\ Enumerates(Ascending(C), C)
  BY <1>2, AscendingEnumerates
<1>4. Children(ix, d) = Ascending(A) \o Ascending(B) \o Ascending(C)
  BY DEF Children, A, B, C
<1>5. /\ Ascending(A) \in Seq(Nat) /\ Members(Ascending(A)) = A
      /\ Ascending(B) \in Seq(Nat) /\ Members(Ascending(B)) = B
      /\ Ascending(C) \in Seq(Nat) /\ Members(Ascending(C)) = C
  BY <1>3, EnumeratesMembers
<1>6. /\ Ascending(A) \o Ascending(B) \in Seq(Nat)
      /\ Members(Ascending(A) \o Ascending(B)) = A \cup B
  BY <1>5, MembersOfBoth
<1>7. Members((Ascending(A) \o Ascending(B)) \o Ascending(C)) = A \cup B \cup C
  BY <1>5, <1>6, MembersOfBoth
<1>8. Members(Children(ix, d)) = A \cup B \cup C
  BY <1>4, <1>7
<1> QED
  BY <1>8 DEF ChildSets, A, B, C, Members

(* The passes list a visible entry where logical_parent puts it, because    *)
(* only entries of the index are moved.                                     *)
LEMMA ChildrenAgree ==
    ASSUME NEW ix, Typed(ix), NEW d
    PROVE  {i \in Visible(ix) : ParentOf(ix, i) = d} = ChildSets(ix, d)
<1>1. ASSUME NEW i \in Visible(ix), ParentOf(ix, i) = d PROVE i \in ChildSets(ix, d)
  <2>1. i \in Indices(ix) /\ ~IsDeleted(ix, i) /\ i \in Nat
    BY Lengths DEF Visible, Indices
  <2>2. CASE i > BaseLen(ix)
    BY <1>1, <2>1, <2>2 DEF ChildSets, InsertedChildren
  <2>3. CASE i <= BaseLen(ix) /\ i \in DOMAIN ix.moved
    BY <1>1, <2>1, <2>3, Lengths
       DEF ChildSets, BaseChildren, MovedChildren, ParentOf, Indices
  <2>4. CASE i <= BaseLen(ix) /\ i \notin DOMAIN ix.moved
    BY <1>1, <2>1, <2>4, Lengths DEF ChildSets, BaseChildren, ParentOf, Indices
  <2> QED
    BY <2>1, <2>2, <2>3, <2>4, Lengths
<1>2. ASSUME NEW i \in ChildSets(ix, d) PROVE i \in Visible(ix) /\ ParentOf(ix, i) = d
  <2>1. CASE i \in BaseChildren(ix, d)
    BY <2>1, Lengths DEF BaseChildren, Visible, ParentOf, Indices
  <2>2. CASE i \in MovedChildren(ix, d)
    BY <2>2 DEF MovedChildren, Visible, ParentOf, Typed
  <2>3. CASE i \in InsertedChildren(ix, d)
    BY <2>3 DEF InsertedChildren, Visible
  <2> QED
    BY <1>2, <2>1, <2>2, <2>3 DEF ChildSets
<1> QED
  BY <1>1, <1>2
-----------------------------------------------------------------------------
(* Entries and lookups                                                      *)

(* The visible entries of a record, and how one of them finds its parent: a *)
(* record inserted and never moved looks it up, the others have its index.  *)
Ents(ix, r) == {i \in Visible(ix) : RefOf(ix, i) = r}

LooksUp(ix, i) == i > BaseLen(ix) /\ i \notin DOMAIN ix.moved

LinkOf(ix, i) ==
    IF i \in DOMAIN ix.moved THEN ix.moved[i]
    ELSE IF i <= BaseLen(ix) THEN ix.base[i].parent
    ELSE InsertedAt(ix, i).parentRef

LEMMA ParentIsLink ==
    ASSUME NEW ix, Typed(ix), NEW i \in Indices(ix)
    PROVE  ParentOf(ix, i) = IF LooksUp(ix, i) THEN RefLookup(ix, LinkOf(ix, i))
                                              ELSE LinkOf(ix, i)
<1>1. i \in Nat /\ BaseLen(ix) \in Nat
  BY Lengths DEF Indices
<1>2. i <= BaseLen(ix) <=> ~ (i > BaseLen(ix))
  BY <1>1
<1> QED
  BY <1>2 DEF ParentOf, LooksUp, LinkOf

(* A record that the overlay knows has there one of its visible entries or  *)
(* a tombstone; of any other nothing was deleted or inserted.               *)
LastEntry(ix, r, i) == i \in Ents(ix, r) /\ \A j \in Ents(ix, r) : j <= i

LookupInv(ix) ==
    \A r \in AllRecs :
       IF r \in DOMAIN ix.overrides
       THEN ix.overrides[r] # NoIdx => ix.overrides[r] \in Ents(ix, r)
       ELSE \A i \in Indices(ix) :
               RefOf(ix, i) = r => i \notin ix.deleted /\ i <= BaseLen(ix)

LEMMA LargestExists ==
    ASSUME NEW b \in Nat, NEW S \in SUBSET (0 .. b), S # {}
    PROVE  \E n \in S : \A k \in S : k <= n
<1> DEFINE D == {b - n : n \in S}
<1>1. D \in SUBSET Nat /\ D # {}
  <2>1. \A n \in S : b - n \in Nat
    OBVIOUS
  <2> QED
    BY <2>1
<1>2. PICK m \in D : \A k \in D : m <= k
  <2> HIDE DEF D
  <2> QED
    BY <1>1, F!SmallestExists
<1>3. PICK n \in S : m = b - n
  OBVIOUS
<1>4. ASSUME NEW k \in S PROVE k <= n
  <2>1. b - n <= b - k
    BY <1>2, <1>3
  <2> QED
    BY <2>1
<1> QED
  BY <1>4

LEMMA BaseLookupIs ==
    ASSUME NEW ix, Typed(ix), NEW r
    PROVE  LET hits == {i \in 1 .. BaseLen(ix) : ix.base[i].ref = r}
               i == BaseLookup(ix, r) IN
           /\ i = NoIdx <=> hits = {}
           /\ i # NoIdx => i \in hits
<1>1. MapTyped(ix.map, ix.base) /\ BaseLen(ix) = Len(ix.base)
  BY DEF Typed, BaseLen
<1>2. BaseLen(ix) \in Nat
  BY Lengths
<1> QED
  BY <1>1, <1>2 DEF BaseLookup, MapTyped, NoIdx

LEMMA LookupIsEntry ==
    ASSUME NEW ix, Typed(ix), LookupInv(ix), NEW r \in AllRecs
    PROVE  /\ RefLookup(ix, r) # NoIdx => RefLookup(ix, r) \in Ents(ix, r)
           /\ RefLookup(ix, r) = NoIdx /\ r \notin DOMAIN ix.overrides
                => Ents(ix, r) = {}
<1>1. CASE r \in DOMAIN ix.overrides
  BY <1>1 DEF RefLookup, LookupInv
<1>2. CASE r \notin DOMAIN ix.overrides
  <2> DEFINE hits == {i \in 1 .. BaseLen(ix) : ix.base[i].ref = r}
  <2>1. RefLookup(ix, r) = BaseLookup(ix, r)
    BY <1>2 DEF RefLookup
  <2>2. \A i \in Indices(ix) :
           RefOf(ix, i) = r => i \notin ix.deleted /\ i <= BaseLen(ix)
    BY <1>2 DEF LookupInv
  <2>3. Ents(ix, r) = hits
    <3>1. \A i \in 1 .. BaseLen(ix) : i \in Indices(ix) /\ RefOf(ix, i) = ix.base[i].ref
      BY Lengths DEF Indices, RefOf
    <3>2. \A i \in Indices(ix) : i <= BaseLen(ix) => i \in 1 .. BaseLen(ix)
      BY Lengths DEF Indices
    <3> QED
      BY <2>2, <3>1, <3>2 DEF Ents, Visible, IsDeleted
  <2> QED
    BY <2>1, <2>3, BaseLookupIs
<1> QED
  BY <1>1, <1>2

LEMMA LookupInIndex ==
    ASSUME NEW ix, Typed(ix), LookupInv(ix), NEW r \in AllRecs,
           RefLookup(ix, r) # NoIdx
    PROVE  /\ RefLookup(ix, r) \in Indices(ix) /\ RefLookup(ix, r) \in Nat
           /\ RefLookup(ix, r) \notin ix.deleted
           /\ RefOf(ix, RefLookup(ix, r)) = r
<1>1. RefLookup(ix, r) \in Ents(ix, r)
  BY LookupIsEntry
<1> QED
  BY <1>1, Lengths DEF Ents, Visible, IsDeleted, Indices
-----------------------------------------------------------------------------
(* What an event does to the index                                          *)

(* Nothing about q has changed.                                             *)
SameFor(y, ix, q) ==
    /\ RefLookup(y, q) = RefLookup(ix, q)
    /\ Ents(y, q) = Ents(ix, q)
    /\ \A i \in Ents(ix, q) : /\ NameOf(y, i) = NameOf(ix, i)
                              /\ LooksUp(y, i) <=> LooksUp(ix, i)
                              /\ LinkOf(y, i) = LinkOf(ix, i)

OthersSame(y, ix, r) == \A q \in AllRecs : q # r => SameFor(y, ix, q)

LEMMA SameBaseLookup ==
    ASSUME NEW y, NEW ix, y.base = ix.base, y.map = ix.map, NEW r
    PROVE  BaseLookup(y, r) = BaseLookup(ix, r) /\ BaseLen(y) = BaseLen(ix)
BY DEF BaseLookup, BaseLen

LEMMA DeleteFields ==
    ASSUME NEW ix, Shape(ix), NEW r, RefLookup(ix, r) # NoIdx
    PROVE  LET y == ApplyDelete(ix, r) IN
           /\ Shape(y) /\ y.base = ix.base /\ y.map = ix.map
           /\ y.inserted = ix.inserted /\ y.renamed = ix.renamed /\ y.moved = ix.moved
           /\ y.deleted = ix.deleted \cup {RefLookup(ix, r)}
           /\ y.overrides = Put(ix.overrides, r, NoIdx)
BY DEF ApplyDelete, Shape

LEMMA DeleteEffect ==
    ASSUME NEW ix, Typed(ix), LookupInv(ix), NEW r \in Recs
    PROVE  LET y == ApplyDelete(ix, r) IN
           /\ Typed(y) /\ LookupInv(y) /\ OthersSame(y, ix, r)
           /\ RefLookup(y, r) = NoIdx
           /\ Ents(y, r) = Ents(ix, r) \ {RefLookup(ix, r)}
<1>1. CASE RefLookup(ix, r) = NoIdx
  <2>1. ApplyDelete(ix, r) = ix
    BY <1>1 DEF ApplyDelete
  <2>2. NoIdx \notin Ents(ix, r)
    BY Lengths DEF Ents, Visible, Indices, NoIdx
  <2> QED
    BY <1>1, <2>1, <2>2 DEF OthersSame, SameFor
<1>2. CASE RefLookup(ix, r) # NoIdx
  <2> DEFINE y == ApplyDelete(ix, r)
             i == RefLookup(ix, r)
  <2>1. /\ Shape(y) /\ y.base = ix.base /\ y.map = ix.map
        /\ y.inserted = ix.inserted /\ y.renamed = ix.renamed /\ y.moved = ix.moved
        /\ y.deleted = ix.deleted \cup {i}
        /\ y.overrides = Put(ix.overrides, r, NoIdx)
    <3>1. Shape(ix)
      BY DEF Typed
    <3> QED
      BY <1>2, <3>1, DeleteFields
  <2>2. i \in Indices(ix) /\ i \notin ix.deleted /\ RefOf(ix, i) = r
    BY <1>2, LookupInIndex DEF AllRecs
  <2> HIDE DEF y, i
  <2>3. /\ BaseLen(y) = BaseLen(ix) /\ LogicalLen(y) = LogicalLen(ix)
        /\ Indices(y) = Indices(ix)
    BY <2>1 DEF BaseLen, LogicalLen, Indices
  <2>4. Typed(y)
    BY <2>1, <2>2, <2>3 DEF Typed
  <2>5. \A j : /\ RefOf(y, j) = RefOf(ix, j) /\ NameOf(y, j) = NameOf(ix, j)
               /\ LooksUp(y, j) <=> LooksUp(ix, j)
               /\ LinkOf(y, j) = LinkOf(ix, j)
    BY <2>1, <2>3 DEF RefOf, NameOf, LooksUp, LinkOf, InsertedAt
  <2>6. Visible(y) = Visible(ix) \ {i}
    BY <2>1, <2>3 DEF Visible, IsDeleted
  <2>7. \A q : Ents(y, q) = Ents(ix, q) \ {i}
    BY <2>5, <2>6 DEF Ents
  <2>8. \A q : q # r => Ents(y, q) = Ents(ix, q)
    BY <2>2, <2>7 DEF Ents
  <2>9. \A q : q # r => RefLookup(y, q) = RefLookup(ix, q)
    <3>1. \A q : BaseLookup(y, q) = BaseLookup(ix, q)
      BY <2>1, SameBaseLookup
    <3> QED
      BY <2>1, <3>1 DEF RefLookup, Put
  <2>10. RefLookup(y, r) = NoIdx
    BY <2>1 DEF RefLookup, Put
  <2>11. OthersSame(y, ix, r)
    BY <2>5, <2>8, <2>9 DEF OthersSame, SameFor
  <2>12. LookupInv(y)
    <3> SUFFICES ASSUME NEW q \in AllRecs
                 PROVE  IF q \in DOMAIN y.overrides
                        THEN y.overrides[q] # NoIdx => y.overrides[q] \in Ents(y, q)
                        ELSE \A j \in Indices(y) :
                                RefOf(y, j) = q => j \notin y.deleted /\ j <= BaseLen(y)
      BY DEF LookupInv
    <3>1. CASE q = r
      BY <2>1, <3>1 DEF Put
    <3>2. CASE q # r /\ q \in DOMAIN ix.overrides
      <4>1. q \in DOMAIN y.overrides /\ y.overrides[q] = ix.overrides[q]
        BY <2>1, <3>2 DEF Put
      <4>2. ix.overrides[q] # NoIdx => ix.overrides[q] \in Ents(ix, q)
        BY <3>2 DEF LookupInv
      <4> QED
        BY <2>8, <3>2, <4>1, <4>2
    <3>3. CASE q # r /\ q \notin DOMAIN ix.overrides
      <4>1. q \notin DOMAIN y.overrides
        BY <2>1, <3>3 DEF Put
      <4>2. \A j \in Indices(ix) : RefOf(ix, j) = q => j \notin ix.deleted /\ j <= BaseLen(ix)
        BY <3>3 DEF LookupInv
      <4>3. \A j \in Indices(ix) : RefOf(ix, j) = q => j # i
        BY <2>2, <3>3
      <4> QED
        BY <2>1, <2>3, <2>5, <4>1, <4>2, <4>3
    <3> QED
      BY <3>1, <3>2, <3>3
  <2> QED
    BY <2>4, <2>7, <2>10, <2>11, <2>12 DEF y, i
<1> QED
  BY <1>1, <1>2

LEMMA CreateFields ==
    ASSUME NEW ix, Shape(ix), NEW e
    PROVE  LET y == ApplyCreate(ix, e)
               k == LogicalLen(ix) + 1 IN
           /\ Shape(y) /\ y.base = ix.base /\ y.map = ix.map
           /\ y.inserted = Append(ix.inserted, [ref |-> e.ref, parentRef |-> e.parent,
                                                name |-> e.name])
           /\ y.renamed = ix.renamed /\ y.moved = ix.moved
           /\ y.deleted = ix.deleted \ {k}
           /\ y.overrides = Put(ix.overrides, e.ref, k)
<1> DEFINE k == LogicalLen(ix) + 1
           rec == [ref |-> e.ref, parentRef |-> e.parent, name |-> e.name]
           y == [base |-> ix.base, map |-> ix.map,
                 inserted |-> Append(ix.inserted, rec), renamed |-> ix.renamed, moved |-> ix.moved,
                 deleted |-> ix.deleted \ {k},
                 overrides |-> Put(ix.overrides, e.ref, k)]
<1>1. ApplyCreate(ix, e) = [ix EXCEPT !.inserted = Append(ix.inserted, rec),
                                      !.deleted = ix.deleted \ {k},
                                      !.overrides = Put(ix.overrides, e.ref, k)]
  BY DEF ApplyCreate
<1> HIDE DEF k, rec
<1>2. ApplyCreate(ix, e) = y
  BY <1>1 DEF Shape
<1>3. Shape(y)
  BY DEF Shape
<1> QED
  BY <1>2, <1>3 DEF k, rec

LEMMA CreateEffect ==
    ASSUME NEW ix, Typed(ix), LookupInv(ix), NEW e \in Events
    PROVE  LET y == ApplyCreate(ix, e)
               k == LogicalLen(ix) + 1 IN
           /\ Typed(y) /\ LookupInv(y) /\ OthersSame(y, ix, e.ref)
           /\ RefLookup(y, e.ref) = k /\ k # NoIdx
           /\ Ents(y, e.ref) = Ents(ix, e.ref) \cup {k}
           /\ \A j \in Ents(y, e.ref) : j <= k
           /\ NameOf(y, k) = e.name /\ LooksUp(y, k) /\ LinkOf(y, k) = e.parent
<1> DEFINE y == ApplyCreate(ix, e)
           k == LogicalLen(ix) + 1
           r == e.ref
           rec == [ref |-> e.ref, parentRef |-> e.parent, name |-> e.name]
<1>1. /\ Shape(y) /\ y.base = ix.base /\ y.map = ix.map
      /\ y.inserted = Append(ix.inserted, rec)
      /\ y.renamed = ix.renamed /\ y.moved = ix.moved
      /\ y.deleted = ix.deleted \ {k}
      /\ y.overrides = Put(ix.overrides, r, k)
  <2>1. Shape(ix)
    BY DEF Typed
  <2> QED
    BY <2>1, CreateFields
<1>2. /\ rec \in InsertedRecords /\ rec.ref = r /\ rec.parentRef = e.parent
      /\ rec.name = e.name /\ r \in Recs
  BY DEF Events, InsertedRecords
<1> HIDE DEF y, rec
<1>3. /\ BaseLen(ix) \in Nat /\ LogicalLen(ix) \in Nat /\ Len(ix.inserted) \in Nat
      /\ LogicalLen(ix) = BaseLen(ix) + Len(ix.inserted)
      /\ DOMAIN ix.base = 1 .. BaseLen(ix) /\ BaseLen(ix) <= LogicalLen(ix)
  BY Lengths
<1>4. /\ k \in Nat /\ k # NoIdx /\ k > BaseLen(ix) /\ k \notin Indices(ix)
      /\ k - BaseLen(ix) = Len(ix.inserted) + 1
      /\ 1 .. k = Indices(ix) \cup {k}
  <2>1. \A n \in Nat : 1 .. (n + 1) = (1 .. n) \cup {n + 1}
    OBVIOUS
  <2>2. 1 .. k = Indices(ix) \cup {k}
    BY <1>3, <2>1 DEF Indices
  <2>3. \A m, n \in Nat : LET j == m + n + 1 IN
           /\ j \in Nat /\ j # 0 /\ j > m /\ j - m = n + 1 /\ j \notin 1 .. (m + n)
    OBVIOUS
  <2>4. /\ k \in Nat /\ k # 0 /\ k > BaseLen(ix) /\ k \notin 1 .. LogicalLen(ix)
        /\ k - BaseLen(ix) = Len(ix.inserted) + 1
    <3> DEFINE b == BaseLen(ix)
               l == Len(ix.inserted)
    <3>1. b \in Nat /\ l \in Nat /\ LogicalLen(ix) = b + l
      BY <1>3
    <3> HIDE DEF b, l
    <3>2. k = b + l + 1
      BY <3>1
    <3> HIDE DEF k
    <3>3. /\ k \in Nat /\ k # 0 /\ k > b /\ k - b = l + 1
          /\ k \notin 1 .. LogicalLen(ix)
      BY <2>3, <3>1, <3>2
    <3> QED
      BY <3>3 DEF b, l
  <2> QED
    BY <2>2, <2>4 DEF NoIdx, Indices
<1>5. /\ y.inserted \in Seq(InsertedRecords) /\ Len(y.inserted) = Len(ix.inserted) + 1
      /\ \A n \in 1 .. Len(ix.inserted) : y.inserted[n] = ix.inserted[n]
      /\ y.inserted[Len(ix.inserted) + 1] = rec
  <2>1. ix.inserted \in Seq(InsertedRecords)
    BY DEF Typed
  <2> QED
    BY <1>1, <1>2, <2>1
<1>6. /\ BaseLen(y) = BaseLen(ix) /\ LogicalLen(y) = k /\ Indices(y) = Indices(ix) \cup {k}
  <2>1. BaseLen(y) = BaseLen(ix)
    BY <1>1 DEF BaseLen
  <2>2. LogicalLen(y) = k
    BY <1>3, <1>5, <2>1 DEF LogicalLen
  <2> HIDE DEF k
  <2> QED
    BY <1>4, <2>1, <2>2 DEF Indices
<1> HIDE DEF k
<1>7. y.deleted = ix.deleted
  BY <1>1, <1>4 DEF Typed
<1>8. Typed(y)
  <2>1. DOMAIN y.moved \subseteq Indices(y) /\ y.deleted \subseteq Indices(y)
    BY <1>1, <1>6, <1>7 DEF Typed
  <2> QED
    BY <1>1, <1>5, <1>6, <2>1 DEF Typed
<1>9. \A j \in Indices(ix) :
         /\ RefOf(y, j) = RefOf(ix, j) /\ NameOf(y, j) = NameOf(ix, j)
         /\ LooksUp(y, j) <=> LooksUp(ix, j)
         /\ LinkOf(y, j) = LinkOf(ix, j)
  <2> TAKE j \in Indices(ix)
  <2>1. ~ (j <= BaseLen(ix)) => InsertedAt(y, j) = InsertedAt(ix, j)
    <3>1. j \in Nat /\ (~ (j <= BaseLen(ix)) => j - BaseLen(ix) \in 1 .. Len(ix.inserted))
      BY <1>3 DEF Indices
    <3> QED
      BY <1>5, <1>6, <3>1 DEF InsertedAt
  <2> QED
    BY <1>1, <1>6, <2>1 DEF RefOf, NameOf, LooksUp, LinkOf
<1>10. /\ RefOf(y, k) = r /\ NameOf(y, k) = e.name
       /\ LooksUp(y, k) /\ LinkOf(y, k) = e.parent
  <2>1. k \notin DOMAIN y.renamed /\ k \notin DOMAIN y.moved
    <3>1. \A j \in 1 .. BaseLen(ix) : j \in Indices(ix)
      BY <1>3 DEF Indices
    <3> QED
      BY <1>1, <1>4, <3>1 DEF Typed
  <2>2. ~ (k <= BaseLen(y)) /\ k > BaseLen(y) /\ InsertedAt(y, k) = rec
    BY <1>3, <1>4, <1>5, <1>6 DEF InsertedAt
  <2> QED
    BY <1>2, <2>1, <2>2 DEF RefOf, NameOf, LooksUp, LinkOf
<1>11. Visible(y) = Visible(ix) \cup {k}
  <2>1. k \notin y.deleted
    BY <1>1
  <2> QED
    BY <1>6, <1>7, <2>1 DEF Visible, IsDeleted
<1>12. \A q : Ents(y, q) = IF q = r THEN Ents(ix, q) \cup {k} ELSE Ents(ix, q)
  <2>1. \A j \in Visible(ix) : j \in Indices(ix)
    BY DEF Visible
  <2> QED
    BY <1>9, <1>10, <1>11, <2>1 DEF Ents
<1>13. RefLookup(y, r) = k /\ \A q : q # r => RefLookup(y, q) = RefLookup(ix, q)
  <2>1. \A q : BaseLookup(y, q) = BaseLookup(ix, q)
    BY <1>1, SameBaseLookup
  <2> QED
    BY <1>1, <2>1 DEF RefLookup, Put
<1>14. OthersSame(y, ix, r)
  <2>1. \A q : \A j \in Ents(ix, q) : j \in Indices(ix)
    BY DEF Ents, Visible
  <2> QED
    BY <1>9, <1>12, <1>13, <2>1 DEF OthersSame, SameFor
<1>15. LookupInv(y)
  <2> SUFFICES ASSUME NEW q \in AllRecs
               PROVE  IF q \in DOMAIN y.overrides
                      THEN y.overrides[q] # NoIdx => y.overrides[q] \in Ents(y, q)
                      ELSE \A j \in Indices(y) :
                              RefOf(y, j) = q => j \notin y.deleted /\ j <= BaseLen(y)
    BY DEF LookupInv
  <2>1. CASE q = r
    <3>1. q \in DOMAIN y.overrides /\ y.overrides[q] = k
      BY <1>1, <2>1 DEF Put
    <3> QED
      BY <1>12, <2>1, <3>1
  <2>2. CASE q # r /\ q \in DOMAIN ix.overrides
    <3>1. q \in DOMAIN y.overrides /\ y.overrides[q] = ix.overrides[q]
      BY <1>1, <2>2 DEF Put
    <3>2. ix.overrides[q] # NoIdx => ix.overrides[q] \in Ents(ix, q)
      BY <2>2 DEF LookupInv
    <3> QED
      BY <1>12, <2>2, <3>1, <3>2
  <2>3. CASE q # r /\ q \notin DOMAIN ix.overrides
    <3>1. q \notin DOMAIN y.overrides
      BY <1>1, <2>3 DEF Put
    <3>2. \A j \in Indices(ix) : RefOf(ix, j) = q => j \notin ix.deleted /\ j <= BaseLen(ix)
      BY <2>3 DEF LookupInv
    <3> QED
      BY <1>6, <1>7, <1>9, <1>10, <2>3, <3>1, <3>2
  <2> QED
    BY <2>1, <2>2, <2>3
<1>16. \A j \in Ents(y, r) : j <= k
  <2>1. \A j \in Indices(ix) : j <= k
    BY <1>3 DEF Indices, k
  <2>2. k <= k
    BY <1>4
  <2>3. \A j \in Ents(ix, r) : j \in Indices(ix)
    BY DEF Ents, Visible
  <2> QED
    BY <1>12, <2>1, <2>2, <2>3
<1> QED
  BY <1>4, <1>8, <1>10, <1>12, <1>13, <1>14, <1>15, <1>16 DEF y, k

(* Names and parents can change without any lookup changing.                *)
Relabels(y, ix) ==
    /\ y.base = ix.base /\ y.map = ix.map /\ LogicalLen(y) = LogicalLen(ix)
    /\ y.deleted = ix.deleted /\ y.overrides = ix.overrides
    /\ \A j \in Indices(ix) : RefOf(y, j) = RefOf(ix, j)

LEMMA RelabelKeepsLookups ==
    ASSUME NEW ix, NEW y, Relabels(y, ix), LookupInv(ix)
    PROVE  /\ LookupInv(y) /\ Indices(y) = Indices(ix) /\ BaseLen(y) = BaseLen(ix)
           /\ \A q : RefLookup(y, q) = RefLookup(ix, q) /\ Ents(y, q) = Ents(ix, q)
<1>1. Indices(y) = Indices(ix) /\ BaseLen(y) = BaseLen(ix)
  BY DEF Relabels, Indices, BaseLen
<1>2. \A q : Ents(y, q) = Ents(ix, q)
  BY <1>1 DEF Relabels, Ents, Visible, IsDeleted
<1>3. \A q : RefLookup(y, q) = RefLookup(ix, q)
  <2>1. \A q : BaseLookup(y, q) = BaseLookup(ix, q)
    BY SameBaseLookup DEF Relabels
  <2> QED
    BY <2>1 DEF Relabels, RefLookup
<1>4. LookupInv(y)
  BY <1>1, <1>2 DEF Relabels, LookupInv
<1> QED
  BY <1>1, <1>2, <1>3, <1>4

LEMMA SetNameFields ==
    ASSUME NEW ix, Shape(ix), NEW i, NEW name
    PROVE  LET y == SetName(ix, i, name) IN
           /\ Shape(y) /\ y.base = ix.base /\ y.map = ix.map /\ y.moved = ix.moved
           /\ y.deleted = ix.deleted /\ y.overrides = ix.overrides
           /\ i <= BaseLen(ix) => /\ y.inserted = ix.inserted
                                  /\ y.renamed = Put(ix.renamed, i, name)
           /\ ~ (i <= BaseLen(ix)) =>
                 /\ y.renamed = ix.renamed
                 /\ y.inserted = [ix.inserted EXCEPT ![i - BaseLen(ix)].name = name]
<1>1. CASE i <= BaseLen(ix)
  <2>1. SetName(ix, i, name) = [ix EXCEPT !.renamed = Put(ix.renamed, i, name)]
    BY <1>1 DEF SetName
  <2> QED
    BY <1>1, <2>1 DEF Shape
<1>2. CASE ~ (i <= BaseLen(ix))
  <2> DEFINE ins == [ix.inserted EXCEPT ![i - BaseLen(ix)].name = name]
  <2>1. SetName(ix, i, name) = [ix EXCEPT !.inserted = ins]
    BY <1>2 DEF SetName
  <2> HIDE DEF ins
  <2>2. LET y == SetName(ix, i, name) IN
        /\ Shape(y) /\ y.base = ix.base /\ y.map = ix.map /\ y.moved = ix.moved
        /\ y.deleted = ix.deleted /\ y.overrides = ix.overrides
        /\ y.renamed = ix.renamed /\ y.inserted = ins
    BY <2>1 DEF Shape
  <2> QED
    BY <1>2, <2>2 DEF ins
<1> QED
  BY <1>1, <1>2

(* What renaming i leaves: everything but its name.                         *)
SameLinks(y, ix) ==
    \A j \in Indices(ix) : /\ LooksUp(y, j) <=> LooksUp(ix, j)
                           /\ LinkOf(y, j) = LinkOf(ix, j)

LEMMA SetNameEffect ==
    ASSUME NEW ix, Typed(ix), NEW i \in Indices(ix), NEW name \in AllNames
    PROVE  LET y == SetName(ix, i, name) IN
           /\ Typed(y) /\ Relabels(y, ix) /\ SameLinks(y, ix) /\ y.moved = ix.moved
           /\ NameOf(y, i) = name
           /\ \A j \in Indices(ix) : j # i => NameOf(y, j) = NameOf(ix, j)
<1> DEFINE y == SetName(ix, i, name)
<1>1. /\ Shape(y) /\ y.base = ix.base /\ y.map = ix.map /\ y.moved = ix.moved
      /\ y.deleted = ix.deleted /\ y.overrides = ix.overrides
      /\ i <= BaseLen(ix) => /\ y.inserted = ix.inserted
                             /\ y.renamed = Put(ix.renamed, i, name)
      /\ ~ (i <= BaseLen(ix)) =>
            /\ y.renamed = ix.renamed
            /\ y.inserted = [ix.inserted EXCEPT ![i - BaseLen(ix)].name = name]
  <2>1. Shape(ix)
    BY DEF Typed
  <2> QED
    BY <2>1, SetNameFields
<1> HIDE DEF y
<1>2. BaseLen(y) = BaseLen(ix)
  BY <1>1 DEF BaseLen
<1>3. /\ BaseLen(ix) \in Nat /\ LogicalLen(ix) \in Nat /\ Len(ix.inserted) \in Nat
      /\ LogicalLen(ix) = BaseLen(ix) + Len(ix.inserted)
      /\ BaseLen(ix) <= LogicalLen(ix)
  BY Lengths
<1>4. \A j \in Indices(ix) : j \in Nat
                  /\ (~ (j <= BaseLen(ix)) => j - BaseLen(ix) \in 1 .. Len(ix.inserted))
  BY <1>3 DEF Indices
<1>5. CASE i <= BaseLen(ix)
  <2>1. LogicalLen(y) = LogicalLen(ix) /\ Indices(y) = Indices(ix)
    BY <1>1, <1>2, <1>5 DEF LogicalLen, Indices
  <2>2. \A j : RefOf(y, j) = RefOf(ix, j)
    BY <1>1, <1>2, <1>5 DEF RefOf, InsertedAt
  <2>3. SameLinks(y, ix)
    BY <1>1, <1>2, <1>5 DEF SameLinks, LooksUp, LinkOf, InsertedAt
  <2>4. NameOf(y, i) = name /\ \A j : j # i => NameOf(y, j) = NameOf(ix, j)
    BY <1>1, <1>2, <1>5 DEF NameOf, Put, InsertedAt
  <2>5. Typed(y)
    <3>1. i \in 1 .. BaseLen(ix)
      BY <1>4, <1>5 DEF Indices
    <3>2. DOMAIN y.renamed = DOMAIN ix.renamed \cup {i}
      BY <1>1, <1>5 DEF Put
    <3>3. DOMAIN y.renamed \subseteq 1 .. BaseLen(y)
      BY <1>2, <3>1, <3>2 DEF Typed
    <3>4. \A j \in DOMAIN y.renamed : y.renamed[j] \in AllNames
      BY <1>1, <1>5 DEF Put, Typed
    <3> QED
      BY <1>1, <1>2, <1>5, <2>1, <3>3, <3>4 DEF Typed
  <2> QED
    BY <1>1, <2>1, <2>2, <2>3, <2>4, <2>5 DEF Relabels, y
<1>6. CASE ~ (i <= BaseLen(ix))
  <2> DEFINE n == i - BaseLen(ix)
             rec == [ix.inserted[n] EXCEPT !.name = name]
  <2>1. n \in 1 .. Len(ix.inserted) /\ ix.inserted \in Seq(InsertedRecords)
    BY <1>4, <1>6 DEF Typed
  <2>2. ix.inserted[n] \in InsertedRecords
    BY <2>1
  <2>3. /\ rec \in InsertedRecords /\ rec.ref = ix.inserted[n].ref
        /\ rec.parentRef = ix.inserted[n].parentRef /\ rec.name = name
    BY <2>2 DEF InsertedRecords
  <2>4. y.inserted = [ix.inserted EXCEPT ![n] = rec]
    BY <1>1, <1>6
  <2> HIDE DEF n, rec
  <2>5. /\ y.inserted \in Seq(InsertedRecords) /\ Len(y.inserted) = Len(ix.inserted)
        /\ y.inserted[n] = rec
        /\ \A k \in 1 .. Len(ix.inserted) : k # n => y.inserted[k] = ix.inserted[k]
    BY <2>1, <2>3, <2>4
  <2>6. LogicalLen(y) = LogicalLen(ix) /\ Indices(y) = Indices(ix)
    BY <1>2, <2>5 DEF LogicalLen, Indices
  <2>7. \A j \in Indices(ix) : ~ (j <= BaseLen(ix)) =>
           /\ InsertedAt(y, j).ref = InsertedAt(ix, j).ref
           /\ InsertedAt(y, j).parentRef = InsertedAt(ix, j).parentRef
           /\ j # i => InsertedAt(y, j) = InsertedAt(ix, j)
    <3> SUFFICES ASSUME NEW j \in Indices(ix), ~ (j <= BaseLen(ix))
                 PROVE  /\ InsertedAt(y, j).ref = InsertedAt(ix, j).ref
                        /\ InsertedAt(y, j).parentRef = InsertedAt(ix, j).parentRef
                        /\ j # i => InsertedAt(y, j) = InsertedAt(ix, j)
      OBVIOUS
    <3>1. j - BaseLen(ix) \in 1 .. Len(ix.inserted)
      BY <1>4
    <3>2. j # i => j - BaseLen(ix) # n
      BY <1>3, <1>4 DEF n
    <3>3. CASE j = i
      <4>1. InsertedAt(y, j) = rec /\ InsertedAt(ix, j) = ix.inserted[n]
        BY <1>2, <2>5, <3>3 DEF InsertedAt, n
      <4> QED
        BY <2>3, <3>3, <4>1
    <3>4. CASE j # i
      <4>1. InsertedAt(y, j) = InsertedAt(ix, j)
        BY <1>2, <2>5, <3>1, <3>2, <3>4 DEF InsertedAt
      <4> QED
        BY <4>1
    <3> QED
      BY <3>3, <3>4
  <2>8. \A j \in Indices(ix) : RefOf(y, j) = RefOf(ix, j)
    BY <1>1, <1>2, <2>7 DEF RefOf
  <2>9. SameLinks(y, ix)
    BY <1>1, <1>2, <2>7 DEF SameLinks, LooksUp, LinkOf
  <2>10. \A j \in Indices(ix) : j # i => NameOf(y, j) = NameOf(ix, j)
    BY <1>1, <1>2, <1>6, <2>7 DEF NameOf
  <2>11. NameOf(y, i) = name
    <3>1. i \notin DOMAIN y.renamed
      BY <1>1, <1>6, <1>3 DEF Typed
    <3>2. InsertedAt(y, i) = rec
      BY <1>2, <2>5 DEF InsertedAt, n
    <3> QED
      BY <1>2, <1>6, <2>3, <3>1, <3>2 DEF NameOf
  <2>12. Typed(y)
    BY <1>1, <1>2, <1>6, <2>5, <2>6 DEF Typed
  <2> QED
    BY <1>1, <2>6, <2>8, <2>9, <2>10, <2>11, <2>12 DEF Relabels, y
<1> QED
  BY <1>5, <1>6

LEMMA SetParentEffect ==
    ASSUME NEW ix, Typed(ix), NEW i \in Indices(ix), NEW p
    PROVE  LET y == SetParent(ix, i, p) IN
           /\ Typed(y) /\ Relabels(y, ix)
           /\ ~ LooksUp(y, i) /\ LinkOf(y, i) = p
           /\ \A j \in Indices(ix) : /\ NameOf(y, j) = NameOf(ix, j)
                                     /\ j # i => /\ LooksUp(y, j) <=> LooksUp(ix, j)
                                                 /\ LinkOf(y, j) = LinkOf(ix, j)
<1> DEFINE y == SetParent(ix, i, p)
<1>1. /\ Shape(y) /\ y.base = ix.base /\ y.map = ix.map
      /\ y.inserted = ix.inserted /\ y.renamed = ix.renamed /\ y.moved = Put(ix.moved, i, p)
      /\ y.deleted = ix.deleted /\ y.overrides = ix.overrides
  <2>1. Shape(ix)
    BY DEF Typed
  <2> QED
    BY <2>1 DEF SetParent, Shape
<1> HIDE DEF y
<1>2. /\ BaseLen(y) = BaseLen(ix) /\ LogicalLen(y) = LogicalLen(ix)
      /\ Indices(y) = Indices(ix)
  BY <1>1 DEF BaseLen, LogicalLen, Indices
<1>3. \A j : RefOf(y, j) = RefOf(ix, j) /\ NameOf(y, j) = NameOf(ix, j)
  BY <1>1, <1>2 DEF RefOf, NameOf, InsertedAt
<1>4. ~ LooksUp(y, i) /\ LinkOf(y, i) = p
  BY <1>1 DEF LooksUp, LinkOf, Put
<1>5. \A j : j # i => /\ LooksUp(y, j) <=> LooksUp(ix, j)
                      /\ LinkOf(y, j) = LinkOf(ix, j)
  BY <1>1, <1>2 DEF LooksUp, LinkOf, Put, InsertedAt
<1>6. Typed(y)
  BY <1>1, <1>2 DEF Typed, Put
<1> QED
  BY <1>1, <1>2, <1>3, <1>4, <1>5, <1>6 DEF Relabels, y

LEMMA RenameEffect ==
    ASSUME NEW ix, Typed(ix), LookupInv(ix), NEW e \in Events,
           RefLookup(ix, e.ref) # NoIdx
    PROVE  LET y == ApplyRenameMove(ix, e)
               i == RefLookup(ix, e.ref)
               p == RefLookup(ix, e.parent) IN
           /\ Typed(y) /\ LookupInv(y) /\ OthersSame(y, ix, e.ref)
           /\ RefLookup(y, e.ref) = i /\ Ents(y, e.ref) = Ents(ix, e.ref)
           /\ NameOf(y, i) = e.name
           /\ p # NoIdx => ~ LooksUp(y, i) /\ LinkOf(y, i) = p
           /\ p = NoIdx => /\ LooksUp(y, i) <=> LooksUp(ix, i)
                           /\ LinkOf(y, i) = LinkOf(ix, i)
<1> DEFINE y == ApplyRenameMove(ix, e)
           i == RefLookup(ix, e.ref)
           p == RefLookup(ix, e.parent)
           z == SetName(ix, i, e.name)
<1>1. e.ref \in Recs /\ e.name \in AllNames
  BY DEF Events
<1>2. i \in Indices(ix) /\ RefOf(ix, i) = e.ref
  BY <1>1, LookupInIndex DEF AllRecs
<1>3. y = IF p = NoIdx THEN z ELSE SetParent(z, i, p)
  BY DEF ApplyRenameMove
<1> HIDE DEF i
<1>4. /\ Typed(z) /\ Relabels(z, ix) /\ SameLinks(z, ix) /\ NameOf(z, i) = e.name
      /\ \A j \in Indices(ix) : j # i => NameOf(z, j) = NameOf(ix, j)
  BY <1>1, <1>2, SetNameEffect
<1> HIDE DEF z, y
<1>5. /\ LookupInv(z) /\ Indices(z) = Indices(ix)
      /\ \A q : RefLookup(z, q) = RefLookup(ix, q) /\ Ents(z, q) = Ents(ix, q)
  BY <1>4, RelabelKeepsLookups
<1>6. \A q : \A j \in Ents(ix, q) : j \in Indices(ix) /\ RefOf(ix, j) = q
  BY DEF Ents, Visible
<1> HIDE DEF p
<1>7. CASE p = NoIdx
  <2>1. y = z
    BY <1>3, <1>7
  <2>2. OthersSame(y, ix, e.ref)
    BY <1>2, <1>4, <1>5, <1>6, <2>1 DEF OthersSame, SameFor, SameLinks
  <2>3. RefLookup(y, e.ref) = i /\ Ents(y, e.ref) = Ents(ix, e.ref)
    BY <1>5, <2>1 DEF i
  <2>4. (LooksUp(y, i) <=> LooksUp(ix, i)) /\ LinkOf(y, i) = LinkOf(ix, i)
    BY <1>2, <1>4, <2>1 DEF SameLinks
  <2> QED
    BY <1>4, <1>5, <1>7, <2>1, <2>2, <2>3, <2>4 DEF y, i, p
<1>8. CASE p # NoIdx
  <2>1. y = SetParent(z, i, p)
    BY <1>3, <1>8
  <2>2. /\ Typed(y) /\ Relabels(y, z) /\ ~ LooksUp(y, i) /\ LinkOf(y, i) = p
        /\ \A j \in Indices(z) : /\ NameOf(y, j) = NameOf(z, j)
                                 /\ j # i => /\ LooksUp(y, j) <=> LooksUp(z, j)
                                             /\ LinkOf(y, j) = LinkOf(z, j)
    BY <1>2, <1>4, <1>5, <2>1, SetParentEffect
  <2>3. /\ LookupInv(y)
        /\ \A q : RefLookup(y, q) = RefLookup(z, q) /\ Ents(y, q) = Ents(z, q)
    BY <1>5, <2>2, RelabelKeepsLookups
  <2>4. OthersSame(y, ix, e.ref)
    <3> SUFFICES ASSUME NEW q \in AllRecs, q # e.ref PROVE SameFor(y, ix, q)
      BY DEF OthersSame
    <3>1. RefLookup(y, q) = RefLookup(ix, q) /\ Ents(y, q) = Ents(ix, q)
      BY <1>5, <2>3
    <3>2. ASSUME NEW j \in Ents(ix, q)
          PROVE  /\ NameOf(y, j) = NameOf(ix, j)
                 /\ LooksUp(y, j) <=> LooksUp(ix, j)
                 /\ LinkOf(y, j) = LinkOf(ix, j)
      <4>1. j \in Indices(ix) /\ j \in Indices(z) /\ j # i
        BY <1>2, <1>5, <1>6
      <4> QED
        BY <1>4, <2>2, <4>1 DEF SameLinks
    <3> QED
      BY <3>1, <3>2 DEF SameFor
  <2>5. RefLookup(y, e.ref) = i /\ Ents(y, e.ref) = Ents(ix, e.ref)
    BY <1>5, <2>3 DEF i
  <2>6. NameOf(y, i) = e.name
    BY <1>2, <1>4, <1>5, <2>2
  <2> QED
    BY <1>8, <2>2, <2>3, <2>4, <2>5, <2>6 DEF y, i, p
<1> QED
  BY <1>7, <1>8
-----------------------------------------------------------------------------
(* A poll: events of different records, one after the other                 *)

LEMMA SameForTrans ==
    ASSUME NEW x, NEW y, NEW z, NEW q, SameFor(y, x, q), SameFor(z, y, q)
    PROVE  SameFor(z, x, q)
BY DEF SameFor

(* What y holds of the record of e when e has been applied to what x had of *)
(* it; p is the parent that the lookup found then.                          *)
New(y, x, e) ==
    LET i == RefLookup(y, e.ref) IN
    /\ i # NoIdx /\ Ents(y, e.ref) = Ents(x, e.ref) \cup {i}
    /\ \A j \in Ents(y, e.ref) : j <= i
    /\ NameOf(y, i) = e.name /\ LooksUp(y, i) /\ LinkOf(y, i) = e.parent

Renamed(y, x, e, p) ==
    LET i == RefLookup(x, e.ref) IN
    /\ RefLookup(y, e.ref) = i /\ Ents(y, e.ref) = Ents(x, e.ref)
    /\ NameOf(y, i) = e.name
    /\ p # NoIdx => ~ LooksUp(y, i) /\ LinkOf(y, i) = p
    /\ p = NoIdx => /\ LooksUp(y, i) <=> LooksUp(x, i)
                    /\ LinkOf(y, i) = LinkOf(x, i)

Gone(y, x, e) ==
    /\ RefLookup(y, e.ref) = NoIdx
    /\ Ents(y, e.ref) = Ents(x, e.ref) \ {RefLookup(x, e.ref)}

IsNew(x, e) == e.kind = "create" \/ (e.kind = "rename" /\ RefLookup(x, e.ref) = NoIdx)

Outcome(y, x, e, p) ==
    /\ e.kind = "delete" => Gone(y, x, e)
    /\ IsNew(x, e) => New(y, x, e)
    /\ e.kind = "rename" /\ RefLookup(x, e.ref) # NoIdx => Renamed(y, x, e, p)

LEMMA EventEffect ==
    ASSUME NEW ix, Typed(ix), LookupInv(ix), NEW e \in Events
    PROVE  LET y == ApplyEvent(ix, e) IN
           /\ Typed(y) /\ LookupInv(y) /\ OthersSame(y, ix, e.ref)
           /\ Outcome(y, ix, e, RefLookup(ix, e.parent))
<1> DEFINE y == ApplyEvent(ix, e)
           p == RefLookup(ix, e.parent)
<1>1. e.kind \in {"delete", "create", "rename"} /\ e.ref \in Recs
  BY DEF Events
<1>2. CASE e.kind = "delete"
  <2>1. y = ApplyDelete(ix, e.ref)
    BY <1>2 DEF ApplyEvent
  <2>2. /\ Typed(y) /\ LookupInv(y) /\ OthersSame(y, ix, e.ref)
        /\ RefLookup(y, e.ref) = NoIdx
        /\ Ents(y, e.ref) = Ents(ix, e.ref) \ {RefLookup(ix, e.ref)}
    BY <1>1, <2>1, DeleteEffect
  <2> HIDE DEF y, p
  <2>3. Outcome(y, ix, e, p)
    BY <1>2, <2>2 DEF Outcome, Gone, IsNew
  <2> QED
    BY <2>2, <2>3 DEF y, p
<1>3. CASE IsNew(ix, e)
  <2>1. y = ApplyCreate(ix, e)
    BY <1>3 DEF ApplyEvent, ApplyRenameMove, IsNew
  <2> DEFINE k == LogicalLen(ix) + 1
  <2>2. /\ Typed(y) /\ LookupInv(y) /\ OthersSame(y, ix, e.ref)
        /\ RefLookup(y, e.ref) = k /\ k # NoIdx
        /\ Ents(y, e.ref) = Ents(ix, e.ref) \cup {k}
        /\ \A j \in Ents(y, e.ref) : j <= k
        /\ NameOf(y, k) = e.name /\ LooksUp(y, k) /\ LinkOf(y, k) = e.parent
    BY <2>1, CreateEffect
  <2> HIDE DEF y, k, p
  <2>3. New(y, ix, e)
    BY <2>2 DEF New
  <2>4. Outcome(y, ix, e, p)
    BY <1>3, <2>3 DEF Outcome, IsNew
  <2> QED
    BY <2>2, <2>4 DEF y, p
<1>4. CASE e.kind = "rename" /\ RefLookup(ix, e.ref) # NoIdx
  <2>1. y = ApplyRenameMove(ix, e)
    BY <1>4 DEF ApplyEvent
  <2> DEFINE i == RefLookup(ix, e.ref)
  <2>2. /\ Typed(y) /\ LookupInv(y) /\ OthersSame(y, ix, e.ref)
        /\ RefLookup(y, e.ref) = i /\ Ents(y, e.ref) = Ents(ix, e.ref)
        /\ NameOf(y, i) = e.name
        /\ p # NoIdx => ~ LooksUp(y, i) /\ LinkOf(y, i) = p
        /\ p = NoIdx => /\ LooksUp(y, i) <=> LooksUp(ix, i)
                        /\ LinkOf(y, i) = LinkOf(ix, i)
    BY <1>4, <2>1, RenameEffect
  <2> HIDE DEF y, p
  <2>3. Renamed(y, ix, e, p)
    BY <2>2 DEF Renamed
  <2>4. Outcome(y, ix, e, p)
    BY <1>4, <2>3 DEF Outcome, IsNew
  <2> QED
    BY <2>2, <2>4 DEF y, p
<1> QED
  BY <1>1, <1>2, <1>3, <1>4 DEF IsNew

LEMMA OutcomeFromSame ==
    ASSUME NEW ix, NEW x, NEW y, NEW e \in Events, NEW p,
           Typed(ix), LookupInv(ix), SameFor(x, ix, e.ref), Outcome(y, x, e, p)
    PROVE  Outcome(y, ix, e, p)
<1>1. e.ref \in AllRecs
  BY DEF Events, AllRecs
<1>2. RefLookup(x, e.ref) = RefLookup(ix, e.ref) /\ Ents(x, e.ref) = Ents(ix, e.ref)
  BY DEF SameFor
<1>3. RefLookup(ix, e.ref) # NoIdx => RefLookup(ix, e.ref) \in Ents(ix, e.ref)
  BY <1>1, LookupIsEntry
<1>4. Gone(y, x, e) => Gone(y, ix, e)
  BY <1>2 DEF Gone
<1>5. New(y, x, e) => New(y, ix, e)
  BY <1>2 DEF New
<1>6. RefLookup(ix, e.ref) # NoIdx /\ Renamed(y, x, e, p) => Renamed(y, ix, e, p)
  BY <1>2, <1>3 DEF Renamed, SameFor
<1> QED
  BY <1>2, <1>4, <1>5, <1>6 DEF Outcome, IsNew

LEMMA OutcomeKept ==
    ASSUME NEW ix, NEW y, NEW z, NEW e \in Events, NEW p,
           Typed(y), LookupInv(y), SameFor(z, y, e.ref), Outcome(y, ix, e, p)
    PROVE  Outcome(z, ix, e, p)
<1>1. e.ref \in AllRecs
  BY DEF Events, AllRecs
<1>2. RefLookup(z, e.ref) = RefLookup(y, e.ref) /\ Ents(z, e.ref) = Ents(y, e.ref)
  BY DEF SameFor
<1>3. RefLookup(y, e.ref) # NoIdx => RefLookup(y, e.ref) \in Ents(y, e.ref)
  BY <1>1, LookupIsEntry
<1>4. Gone(y, ix, e) => Gone(z, ix, e)
  BY <1>2 DEF Gone
<1>5. New(y, ix, e) => New(z, ix, e)
  BY <1>2, <1>3 DEF New, SameFor
<1>6. RefLookup(ix, e.ref) # NoIdx /\ Renamed(y, ix, e, p) => Renamed(z, ix, e, p)
  <2> SUFFICES ASSUME RefLookup(ix, e.ref) # NoIdx, Renamed(y, ix, e, p)
               PROVE  Renamed(z, ix, e, p)
    OBVIOUS
  <2> DEFINE i == RefLookup(ix, e.ref)
  <2>1. RefLookup(y, e.ref) = i /\ i \in Ents(y, e.ref)
    BY <1>3 DEF Renamed
  <2>2. /\ NameOf(z, i) = NameOf(y, i)
        /\ LooksUp(z, i) <=> LooksUp(y, i)
        /\ LinkOf(z, i) = LinkOf(y, i)
    BY <2>1 DEF SameFor
  <2> QED
    BY <1>2, <2>1, <2>2 DEF Renamed
<1> QED
  BY <1>4, <1>5, <1>6 DEF Outcome

(* The index f[k] after k of the events of a poll that found x.             *)
SoFar(f, x, ev, k) ==
    /\ Typed(f[k]) /\ LookupInv(f[k])
    /\ \A j \in 1 .. k : Outcome(f[k], x, ev[j], RefLookup(f[j - 1], ev[j].parent))
    /\ \A q \in AllRecs : (\A j \in 1 .. k : ev[j].ref # q) => SameFor(f[k], x, q)

LEMMA OneMoreEvent ==
    ASSUME NEW x, Typed(x), LookupInv(x), NEW n \in Nat, NEW ev \in [1 .. n -> Events],
           \A j, k \in 1 .. n : j # k => ev[j].ref # ev[k].ref,
           NEW f, NEW k \in 1 .. n, SoFar(f, x, ev, k - 1),
           f[k] = ApplyEvent(f[k - 1], ev[k])
    PROVE  SoFar(f, x, ev, k)
<1> DEFINE y == f[k - 1]
           z == f[k]
           e == ev[k]
<1>1. /\ Typed(y) /\ LookupInv(y) /\ e \in Events /\ z = ApplyEvent(y, e)
      /\ e.ref \in AllRecs
  BY DEF SoFar, Events, AllRecs
<1>2. /\ Typed(z) /\ LookupInv(z) /\ OthersSame(z, y, e.ref)
      /\ Outcome(z, y, e, RefLookup(y, e.parent))
  BY <1>1, EventEffect
<1>3. \A j \in 1 .. (k - 1) : j \in 1 .. n /\ j # k /\ ev[j].ref # e.ref
  OBVIOUS
<1>4. SameFor(y, x, e.ref)
  BY <1>1, <1>3 DEF SoFar
<1>5. Outcome(z, x, e, RefLookup(y, e.parent))
  <2> HIDE DEF y, z, e
  <2> QED
    BY <1>1, <1>2, <1>4, OutcomeFromSame
<1>6. ASSUME NEW j \in 1 .. (k - 1)
      PROVE  Outcome(z, x, ev[j], RefLookup(f[j - 1], ev[j].parent))
  <2> DEFINE p == RefLookup(f[j - 1], ev[j].parent)
             c == ev[j]
  <2>1. Outcome(y, x, c, p) /\ c \in Events /\ c.ref \in AllRecs /\ c.ref # e.ref
    BY <1>3 DEF SoFar, Events, AllRecs
  <2> HIDE DEF p, c, y, z, e
  <2>2. SameFor(z, y, c.ref)
    BY <1>2, <2>1 DEF OthersSame
  <2>3. Outcome(z, x, c, p)
    BY <1>1, <2>1, <2>2, OutcomeKept
  <2> QED
    BY <2>3 DEF p, c
<1>7. \A j \in 1 .. k : Outcome(z, x, ev[j], RefLookup(f[j - 1], ev[j].parent))
  <2>1. \A j \in 1 .. k : j = k \/ j \in 1 .. (k - 1)
    OBVIOUS
  <2>2. Outcome(z, x, ev[k], RefLookup(f[k - 1], ev[k].parent))
    BY <1>5
  <2> HIDE DEF z
  <2> QED
    BY <1>6, <2>1, <2>2
<1>8. ASSUME NEW q \in AllRecs, \A j \in 1 .. k : ev[j].ref # q PROVE SameFor(z, x, q)
  <2>1. (\A j \in 1 .. (k - 1) : ev[j].ref # q) /\ q # e.ref
    BY <1>8
  <2>2. SameFor(y, x, q)
    BY <2>1 DEF SoFar
  <2>3. SameFor(z, y, q)
    BY <1>2, <2>1 DEF OthersSame
  <2> HIDE DEF y, z, e
  <2> QED
    BY <2>2, <2>3, SameForTrans
<1> QED
  BY <1>2, <1>7, <1>8 DEF SoFar

LEMMA PollEffect ==
    ASSUME NEW x, Typed(x), LookupInv(x), NEW n \in Nat, NEW ev \in [1 .. n -> Events],
           \A j, k \in 1 .. n : j # k => ev[j].ref # ev[k].ref
    PROVE  \E f : /\ ApplyEvents(x, ev) = f[n]
                  /\ \A k \in 0 .. n : SoFar(f, x, ev, k)
<1>1. DOMAIN ev = 1 .. n
  OBVIOUS
<1>2. PICK f : F!Steps(f, x, ev, n) /\ F!FoldOf(x, ev) = f[n]
  BY <1>1, F!FoldSteps
<1>3. ApplyEvents(x, ev) = f[n]
  <2>1. FoldLeft(ApplyEvent, x, ev) = F!FoldOf(x, ev)
    BY DEF FoldLeft, MapThenFoldSet, Max, F!FoldOf, F!Largest
  <2> QED
    BY <1>2, <2>1 DEF ApplyEvents
<1>4. f[0] = x /\ \A k \in 1 .. n : f[k] = ApplyEvent(f[k - 1], ev[k])
  BY <1>2 DEF F!Steps
<1>5. SoFar(f, x, ev, 0)
  <2>1. \A q : SameFor(x, x, q)
    BY DEF SameFor
  <2> QED
    BY <1>4, <2>1 DEF SoFar
<1>6. ASSUME NEW k \in 1 .. n, SoFar(f, x, ev, k - 1) PROVE SoFar(f, x, ev, k)
  <2>1. f[k] = ApplyEvent(f[k - 1], ev[k])
    BY <1>4
  <2> QED
    BY <1>6, <2>1, OneMoreEvent
<1> DEFINE Bad == {k \in 0 .. n : ~ SoFar(f, x, ev, k)}
<1>7. Bad = {}
  <2> SUFFICES ASSUME Bad # {} PROVE FALSE
    OBVIOUS
  <2>1. Bad \in SUBSET Nat
    OBVIOUS
  <2>2. PICK k \in Bad : \A j \in Bad : k <= j
    <3> HIDE DEF Bad
    <3> QED
      BY <2>1, F!SmallestExists
  <2>3. k # 0
    BY <1>5
  <2>4. k - 1 \in 0 .. n /\ k - 1 \notin Bad /\ k \in 1 .. n
    BY <2>2, <2>3
  <2>5. SoFar(f, x, ev, k - 1)
    BY <2>4
  <2> QED
    BY <1>6, <2>4, <2>5
<1> QED
  BY <1>3, <1>7
-----------------------------------------------------------------------------
(* A new base                                                               *)

LEMMA EntryTypes ==
    ASSUME NEW ix, Typed(ix), NEW i \in Indices(ix)
    PROVE  RefOf(ix, i) \in Recs /\ NameOf(ix, i) \in AllNames
<1>1. CASE i <= BaseLen(ix)
  <2>1. i \in 1 .. BaseLen(ix) /\ ix.base \in Seq(BaseRecords)
    BY <1>1, Lengths DEF Indices, Typed
  <2>2. ix.base[i] \in BaseRecords
    BY <2>1, Lengths
  <2> QED
    BY <1>1, <2>2 DEF RefOf, NameOf, BaseRecords, Typed
<1>2. CASE ~ (i <= BaseLen(ix))
  <2>1. i - BaseLen(ix) \in 1 .. Len(ix.inserted) /\ ix.inserted \in Seq(InsertedRecords)
    BY <1>2, Lengths DEF Indices, Typed
  <2>2. InsertedAt(ix, i) \in InsertedRecords
    BY <2>1, Lengths DEF InsertedAt
  <2> QED
    BY <1>2, <2>2 DEF RefOf, NameOf, InsertedRecords, Typed
<1> QED
  BY <1>1, <1>2

(* The lookup in a map of this base gives the last entry of r: the map is   *)
(* dense, or there is one entry.                                            *)
Sure(base, r) == IsDense(RefPairs(base)) \/ r \notin Repeated(RefPairs(base))

LEMMA RefMapIs ==
    ASSUME NEW base \in Seq(BaseRecords), NEW map \in RefMaps(RefPairs(base))
    PROVE  /\ MapTyped(map, base)
           /\ \A r \in DOMAIN map : Sure(base, r) =>
                 \A n \in 1 .. Len(base) : base[n].ref = r => n <= map[r]
<1> DEFINE P == RefPairs(base)
           D == 1 .. Len(base)
           last(r) == Max(IndicesOf(P, r))
<1>1. /\ Len(base) \in Nat /\ DOMAIN base = D
      /\ P = {<<base[i].ref, i>> : i \in D}
  BY DEF RefPairs
<1> HIDE DEF P
<1>2. \A r : IndicesOf(P, r) = {n \in D : base[n].ref = r}
  <2>1. \A n \in D : <<base[n].ref, n>> \in P /\ <<base[n].ref, n>>[2] = n
    BY <1>1
  <2>2. \A p \in P : \E n \in D : p = <<base[n].ref, n>>
    BY <1>1
  <2>3. \A p \in P : p[2] \in D
    BY <2>2
  <2> HIDE DEF D
  <2>4. {p[2] : p \in P} = D
    BY <2>1, <2>3
  <2>5. \A r : \A n \in D : <<r, n>> \in P <=> base[n].ref = r
    BY <1>1 DEF D
  <2> QED
    BY <2>4, <2>5 DEF IndicesOf
<1>3. RefsOf(P) = {base[n].ref : n \in D}
  <2>1. \A n \in D : <<base[n].ref, n>> \in P /\ <<base[n].ref, n>>[1] = base[n].ref
    BY <1>1
  <2>2. \A p \in P : \E n \in D : p = <<base[n].ref, n>>
    BY <1>1
  <2>3. \A p \in P : \E n \in D : p[1] = base[n].ref
    BY <2>2
  <2>4. \A n \in D : base[n].ref \in RefsOf(P)
    BY <2>1 DEF RefsOf
  <2>5. \A x \in RefsOf(P) : \E n \in D : x = base[n].ref
    BY <2>3 DEF RefsOf
  <2> HIDE DEF D
  <2> QED
    BY <2>4, <2>5
<1>4. ASSUME NEW r \in RefsOf(P)
      PROVE  last(r) \in IndicesOf(P, r) /\ \A n \in IndicesOf(P, r) : n <= last(r)
  <2> DEFINE S == IndicesOf(P, r)
  <2>0. S = {n \in D : base[n].ref = r}
    BY <1>2
  <2> HIDE DEF S
  <2>1. S # {} /\ S \in SUBSET (0 .. Len(base)) /\ S \in SUBSET Nat
    BY <1>1, <1>3, <2>0
  <2>2. \E n \in S : \A k \in S : k <= n
    BY <1>1, <2>1, LargestExists
  <2>3. \E n \in S : \A k \in S : n >= k
    BY <2>1, <2>2
  <2>4. Max(S) \in S /\ \A k \in S : Max(S) >= k
    BY <2>3 DEF Max
  <2> QED
    BY <2>1, <2>4 DEF S
<1> HIDE DEF last
<1>5. /\ DOMAIN map = RefsOf(P)
      /\ \A r \in RefsOf(P) : map[r] \in IndicesOf(P, r)
      /\ \A r \in RefsOf(P) : Sure(base, r) => map[r] = last(r)
  <2>1. CASE IsDense(P)
    <3>1. map = [r \in RefsOf(P) |-> last(r)]
      BY <2>1 DEF RefMaps, last, P
    <3> QED
      BY <1>4, <3>1
  <2>2. CASE ~ IsDense(P)
    <3>1. PICK pick \in [Repeated(P) -> {p[2] : p \in P}] :
             /\ \A r \in Repeated(P) : pick[r] \in IndicesOf(P, r)
             /\ map = [r \in RefsOf(P) |->
                          IF r \in Repeated(P) THEN pick[r] ELSE last(r)]
      BY <2>2 DEF RefMaps, last, P
    <3> QED
      BY <1>4, <2>2, <3>1 DEF Sure, P
  <2> QED
    BY <2>1, <2>2
<1>6. MapTyped(map, base)
  BY <1>2, <1>3, <1>5 DEF MapTyped
<1>7. ASSUME NEW r \in DOMAIN map, Sure(base, r), NEW n \in D, base[n].ref = r
      PROVE  n <= map[r]
  BY <1>2, <1>4, <1>5, <1>7
<1> QED
  BY <1>6, <1>7

LEMMA FromBaseIs ==
    ASSUME NEW base \in Seq(BaseRecords), NEW map \in RefMaps(RefPairs(base))
    PROVE  LET y == FromBase(base, map) IN
           /\ Typed(y) /\ LookupInv(y) /\ y.base = base
           /\ BaseLen(y) = Len(base) /\ Indices(y) = 1 .. Len(base)
           /\ Visible(y) = 1 .. Len(base)
           /\ \A r : RefLookup(y, r) = BaseLookup(y, r)
           /\ \A r : Sure(base, r) /\ RefLookup(y, r) # NoIdx
                       => LastEntry(y, r, RefLookup(y, r))
           /\ \A n \in 1 .. Len(base) :
                 /\ RefOf(y, n) = base[n].ref /\ NameOf(y, n) = base[n].name
                 /\ ~ LooksUp(y, n) /\ LinkOf(y, n) = base[n].parent
<1> DEFINE y == FromBase(base, map)
<1>1. /\ y = [base |-> base, map |-> map, inserted |-> << >>,
              renamed |-> EmptyFunction, moved |-> EmptyFunction, deleted |-> {},
              overrides |-> EmptyFunction]
      /\ Shape(y) /\ y.base = base /\ y.map = map /\ y.inserted = << >> /\ y.renamed = EmptyFunction
      /\ y.moved = EmptyFunction /\ y.deleted = {} /\ y.overrides = EmptyFunction
  BY DEF FromBase, Shape
<1> HIDE DEF y
<1>2. DOMAIN EmptyFunction = {}
  BY DEF EmptyFunction
<1>3. /\ Len(base) \in Nat /\ Len(y.inserted) = 0 /\ y.inserted \in Seq(InsertedRecords)
  BY <1>1
<1>4. /\ BaseLen(y) = Len(base) /\ LogicalLen(y) = Len(base)
      /\ Indices(y) = 1 .. Len(base)
  BY <1>1, <1>3 DEF BaseLen, LogicalLen, Indices
<1>5. Typed(y)
  BY <1>1, <1>2, <1>3, <1>4, RefMapIs DEF Typed
<1>6. Visible(y) = 1 .. Len(base)
  BY <1>1, <1>4 DEF Visible, IsDeleted
<1>7. \A n \in 1 .. Len(base) : n <= BaseLen(y) /\ ~ (n > BaseLen(y))
  BY <1>3, <1>4
<1>8. LookupInv(y)
  BY <1>1, <1>2, <1>4, <1>7 DEF LookupInv
<1>9. \A r : RefLookup(y, r) = BaseLookup(y, r)
  BY <1>1, <1>2 DEF RefLookup
<1>10. \A n \in 1 .. Len(base) :
         /\ RefOf(y, n) = base[n].ref /\ NameOf(y, n) = base[n].name
         /\ ~ LooksUp(y, n) /\ LinkOf(y, n) = base[n].parent
  BY <1>1, <1>2, <1>7 DEF RefOf, NameOf, LooksUp, LinkOf
<1>11. ASSUME NEW r, Sure(base, r), RefLookup(y, r) # NoIdx
       PROVE  LastEntry(y, r, RefLookup(y, r))
  <2>1. r \in DOMAIN map /\ RefLookup(y, r) = map[r]
    BY <1>1, <1>9, <1>11 DEF BaseLookup
  <2>2. /\ map[r] \in 1 .. Len(base) /\ base[map[r]].ref = r
        /\ \A n \in 1 .. Len(base) : base[n].ref = r => n <= map[r]
    BY <1>11, <2>1, RefMapIs DEF MapTyped
  <2>3. Ents(y, r) = {n \in 1 .. Len(base) : base[n].ref = r}
    BY <1>6, <1>10 DEF Ents
  <2> QED
    BY <2>1, <2>2, <2>3 DEF LastEntry
<1> QED
  BY <1>1, <1>4, <1>5, <1>6, <1>8, <1>9, <1>10, <1>11 DEF y

(* at[n] is the old index of the new entry n.                               *)
Rebuilt(y, ix, at) ==
    /\ Typed(y) /\ LookupInv(y)
    /\ Enumerates(at, Visible(ix)) /\ Visible(y) = DOMAIN at /\ Indices(y) = DOMAIN at
    /\ \A n \in DOMAIN at :
          /\ RefOf(y, n) = RefOf(ix, at[n]) /\ NameOf(y, n) = NameOf(ix, at[n])
          /\ ~ LooksUp(y, n)
          /\ LET p == ParentOf(ix, at[n]) IN
             IF p \in Visible(ix) THEN LinkOf(y, n) \in DOMAIN at /\ at[LinkOf(y, n)] = p
                                  ELSE LinkOf(y, n) = NoIdx

LEMMA RebuildEffect ==
    ASSUME NEW ix, Typed(ix), NEW map \in RefMaps(RefPairs(RebuiltBase(ix)))
    PROVE  LET y == FromBase(RebuiltBase(ix), map) IN
           /\ Rebuilt(y, ix, Ascending(Visible(ix))) /\ y.overrides = EmptyFunction
           /\ \A r : Sure(RebuiltBase(ix), r) /\ RefLookup(y, r) # NoIdx
                       => LastEntry(y, r, RefLookup(y, r))
<1> DEFINE at == Ascending(Visible(ix))
           newIndex(i) == IF i \in Visible(ix)
                          THEN CHOOSE n \in DOMAIN at : at[n] = i ELSE NoIdx
           base == [n \in DOMAIN at |->
                      [ref |-> RefOf(ix, at[n]), parent |-> newIndex(ParentOf(ix, at[n])),
                       name |-> NameOf(ix, at[n])]]
           y == FromBase(RebuiltBase(ix), map)
<1>1. base = RebuiltBase(ix) /\ y = FromBase(base, map) /\ y.overrides = EmptyFunction
  BY DEF RebuiltBase, FromBase
<1>2. Enumerates(at, Visible(ix))
  <2>1. Visible(ix) \in SUBSET Indices(ix)
    BY DEF Visible
  <2> QED
    BY <2>1, IndexSetsFinite, AscendingEnumerates
<1> HIDE DEF at
<1>3. DOMAIN at = 1 .. Len(at) /\ Len(at) \in Nat
  BY <1>2 DEF Enumerates
<1>4. \A i : IF i \in Visible(ix) THEN newIndex(i) \in DOMAIN at /\ at[newIndex(i)] = i
                                 ELSE newIndex(i) = NoIdx
  BY <1>2 DEF Enumerates
<1> HIDE DEF newIndex
<1>5. \A i : newIndex(i) \in Nat
  BY <1>3, <1>4 DEF NoIdx
<1>6. \A n \in DOMAIN at : RefOf(ix, at[n]) \in Recs /\ NameOf(ix, at[n]) \in AllNames
  <2>1. \A n \in DOMAIN at : at[n] \in Indices(ix)
    BY <1>2 DEF Enumerates, Visible
  <2> QED
    BY <2>1, EntryTypes
<1>7. base \in Seq(BaseRecords) /\ Len(base) = Len(at)
  <2>1. \A n \in DOMAIN at : base[n] \in BaseRecords
    BY <1>5, <1>6 DEF BaseRecords
  <2>2. base \in [1 .. Len(at) -> BaseRecords]
    BY <1>3, <2>1
  <2> HIDE DEF base
  <2> QED
    BY <1>3, <2>2
<1>8. \A n \in DOMAIN at : /\ base[n].ref = RefOf(ix, at[n])
                           /\ base[n].name = NameOf(ix, at[n])
                           /\ base[n].parent = newIndex(ParentOf(ix, at[n]))
  OBVIOUS
<1> HIDE DEF base, y
<1>9. /\ Typed(y) /\ LookupInv(y)
      /\ Indices(y) = 1 .. Len(at) /\ Visible(y) = 1 .. Len(at)
      /\ \A n \in 1 .. Len(at) :
            /\ RefOf(y, n) = base[n].ref /\ NameOf(y, n) = base[n].name
            /\ ~ LooksUp(y, n) /\ LinkOf(y, n) = base[n].parent
      /\ \A r : Sure(base, r) /\ RefLookup(y, r) # NoIdx
                  => LastEntry(y, r, RefLookup(y, r))
  BY <1>1, <1>7, FromBaseIs
<1>10. Rebuilt(y, ix, at)
  BY <1>2, <1>3, <1>4, <1>8, <1>9 DEF Rebuilt
<1> QED
  BY <1>1, <1>9, <1>10 DEF at, y

(* A lookup that found the last entry of a record finds it in the new base. *)
LEMMA RebuildKeepsLookup ==
    ASSUME NEW ix, Typed(ix), LookupInv(ix), NEW y, NEW at, Rebuilt(y, ix, at),
           NEW r \in AllRecs, y.overrides = EmptyFunction,
           LastEntry(ix, r, RefLookup(ix, r)),
           RefLookup(y, r) # NoIdx => LastEntry(y, r, RefLookup(y, r))
    PROVE  /\ RefLookup(y, r) \in DOMAIN at /\ RefLookup(y, r) # NoIdx
           /\ at[RefLookup(y, r)] = RefLookup(ix, r)
<1> DEFINE i == RefLookup(ix, r)
           m == RefLookup(y, r)
<1>1. LastEntry(ix, r, i)
  OBVIOUS
<1>2. PICK n \in DOMAIN at : at[n] = i
  BY <1>1 DEF Rebuilt, Enumerates, LastEntry, Ents
<1>3. n \in Ents(y, r)
  BY <1>1, <1>2 DEF Rebuilt, Ents, LastEntry
<1>4. r \notin DOMAIN y.overrides
  BY DEF EmptyFunction
<1>5. Typed(y) /\ LookupInv(y)
  BY DEF Rebuilt
<1>6. m # NoIdx
  BY <1>3, <1>4, <1>5, LookupIsEntry
<1>7. LastEntry(y, r, m)
  BY <1>6
<1> HIDE DEF i, m
<1>8. m \in DOMAIN at /\ n <= m
  BY <1>3, <1>7 DEF LastEntry, Ents, Rebuilt
<1>9. at[m] \in Ents(ix, r)
  BY <1>7, <1>8 DEF Rebuilt, Ents, LastEntry, Enumerates
<1>10. at[m] <= i /\ at[m] \in Nat /\ i \in Nat
  <2>1. \A j \in Ents(ix, r) : j \in Nat
    BY Lengths DEF Ents, Visible, Indices
  <2> QED
    BY <1>1, <1>9, <2>1 DEF LastEntry
<1>11. ~ (n < m)
  <2>1. n < m => at[n] < at[m]
    BY <1>8 DEF Rebuilt, Enumerates
  <2> QED
    BY <1>2, <1>10, <2>1
<1>12. n \in Nat /\ m \in Nat
  BY <1>8 DEF Rebuilt, Enumerates
<1>13. n = m
  BY <1>8, <1>11, <1>12
<1> QED
  BY <1>2, <1>6, <1>8, <1>13 DEF i, m

(* Every visible entry is in the new base, so that a record that had one    *)
(* still has one and is found.                                              *)
LEMMA RebuildKeepsEntries ==
    ASSUME NEW ix, Typed(ix), NEW y, NEW at, Rebuilt(y, ix, at), NEW r \in AllRecs,
           y.overrides = EmptyFunction, NEW i \in Ents(ix, r)
    PROVE  /\ RefLookup(y, r) # NoIdx
           /\ \E n \in Ents(y, r) : NameOf(y, n) = NameOf(ix, i)
<1>1. PICK n \in DOMAIN at : at[n] = i
  BY DEF Rebuilt, Enumerates, Ents
<1>2. n \in Ents(y, r) /\ NameOf(y, n) = NameOf(ix, i)
  BY <1>1 DEF Rebuilt, Ents
<1>3. r \notin DOMAIN y.overrides
  BY DEF EmptyFunction
<1>4. RefLookup(y, r) # NoIdx
  BY <1>2, <1>3, LookupIsEntry DEF Rebuilt
<1> QED
  BY <1>2, <1>4
-----------------------------------------------------------------------------
(* The feed                                                                 *)

Changes == [parent : AllRecs, name : AllNames,
            created : BOOLEAN, deleted : BOOLEAN, renamed : BOOLEAN]
Files == [parent : AllRecs, name : AllNames]

VolumeTyped(vol) == DOMAIN vol \subseteq Recs /\ vol \in [DOMAIN vol -> Files]

ChangedIn(pend) ==
    {r \in Recs : pend[r].created \/ pend[r].deleted \/ pend[r].renamed}

(* What is aggregated of a record is how it is now: gone, or under the last *)
(* name in the last directory.                                              *)
PendingTrue(vol, pend) ==
    \A r \in ChangedIn(pend) :
       IF pend[r].deleted THEN r \notin DOMAIN vol
       ELSE /\ r \in DOMAIN vol
            /\ pend[r].parent = vol[r].parent /\ pend[r].name = vol[r].name

(* A file that nothing is pending about is found, one of its entries has    *)
(* its name, and it is the one found unless the record is ambiguous.        *)
KnownAs(ix, r, name, amb) ==
    /\ RefLookup(ix, r) # NoIdx
    /\ \E i \in Ents(ix, r) : NameOf(ix, i) = name
    /\ r \notin amb => NameOf(ix, RefLookup(ix, r)) = name

Current(vol, pend, ix, amb) ==
    \A r \in DOMAIN vol \ ChangedIn(pend) : KnownAs(ix, r, vol[r].name, amb)

(* Which of several entries the lookup gives is certain for the others.     *)
LastFound(ix, r) ==
    RefLookup(ix, r) # NoIdx => LastEntry(ix, r, RefLookup(ix, r))

Certain(ix, amb) == \A r \in AllRecs \ amb : LastFound(ix, r)

(* The files of the volume, and what is pending about them.                 *)
Following(vol, opened, pend) ==
    /\ VolumeTyped(vol) /\ opened \subseteq DOMAIN vol
    /\ pend \in [Recs -> Changes] /\ PendingTrue(vol, pend)

FeedInv ==
    /\ Following(volume, open, pending)
    /\ Typed(index) /\ LookupInv(index)
    /\ Certain(index, ambiguous) /\ Current(volume, pending, index, ambiguous)

LEMMA ChangedIs == Changed = ChangedIn(pending)
BY DEF Changed, ChangedIn

LEMMA AggregateIs ==
    ASSUME NEW c \in Changes, NEW p \in AllRecs, NEW name \in AllNames,
           NEW type \in {"created", "deleted", "renamed"}
    PROVE  LET a == Aggregate(c, p, name, type) IN
           /\ a \in Changes /\ a.parent = p /\ a.name = name
           /\ a.deleted <=> type = "deleted"
           /\ a.created <=> type = "created" \/ (type = "renamed" /\ c.created)
           /\ a.created \/ a.deleted \/ a.renamed
<1> DEFINE a == Aggregate(c, p, name, type)
           b == [c EXCEPT !.parent = p, !.name = name]
<1>1. /\ b \in Changes /\ b.parent = p /\ b.name = name
      /\ b.created = c.created /\ b.deleted = c.deleted /\ b.renamed = c.renamed
  BY DEF Changes
<1>2. a = CASE type = "created" -> [b EXCEPT !.created = TRUE, !.deleted = FALSE,
                                             !.renamed = FALSE]
            [] type = "deleted" -> [b EXCEPT !.deleted = TRUE, !.created = FALSE,
                                             !.renamed = FALSE]
            [] type = "renamed" -> [b EXCEPT !.renamed = TRUE, !.deleted = FALSE]
            [] OTHER -> b
  BY DEF Aggregate
<1> HIDE DEF b
<1>3. CASE type = "created"
  <2>1. a = [b EXCEPT !.created = TRUE, !.deleted = FALSE, !.renamed = FALSE]
    BY <1>2, <1>3
  <2> HIDE DEF a
  <2>2. /\ a \in Changes /\ a.parent = p /\ a.name = name
        /\ a.created = TRUE /\ a.deleted = FALSE /\ a.renamed = FALSE
    BY <1>1, <2>1 DEF Changes
  <2> QED
    BY <1>3, <2>2 DEF a
<1>4. CASE type = "deleted"
  <2>1. a = [b EXCEPT !.deleted = TRUE, !.created = FALSE, !.renamed = FALSE]
    BY <1>2, <1>4
  <2> HIDE DEF a
  <2>2. /\ a \in Changes /\ a.parent = p /\ a.name = name
        /\ a.created = FALSE /\ a.deleted = TRUE /\ a.renamed = FALSE
    BY <1>1, <2>1 DEF Changes
  <2> QED
    BY <1>4, <2>2 DEF a
<1>5. CASE type = "renamed"
  <2>1. a = [b EXCEPT !.renamed = TRUE, !.deleted = FALSE]
    BY <1>2, <1>5
  <2> HIDE DEF a
  <2>2. /\ a \in Changes /\ a.parent = p /\ a.name = name
        /\ a.created = c.created /\ a.deleted = FALSE /\ a.renamed = TRUE
    BY <1>1, <2>1 DEF Changes
  <2> QED
    BY <1>5, <2>2 DEF a
<1> QED
  BY <1>3, <1>4, <1>5

(* The journal has one more record about r.                                 *)
Emits(pend2, pend, r, p, name, type) ==
    pend2 = [pend EXCEPT ![r] = Aggregate(pend[r], p, name, type)]

LEMMA EmitEffect ==
    ASSUME NEW pend \in [Recs -> Changes], NEW pend2, NEW r \in Recs,
           NEW p \in AllRecs, NEW name \in AllNames,
           NEW type \in {"created", "deleted", "renamed"},
           Emits(pend2, pend, r, p, name, type)
    PROVE  /\ pend2 \in [Recs -> Changes]
           /\ ChangedIn(pend2) = ChangedIn(pend) \cup {r}
           /\ pend2[r].parent = p /\ pend2[r].name = name
           /\ pend2[r].deleted <=> type = "deleted"
           /\ pend2[r].created <=> type = "created" \/ (type = "renamed" /\ pend[r].created)
           /\ \A q \in Recs : q # r => pend2[q] = pend[q]
<1> DEFINE a == Aggregate(pend[r], p, name, type)
<1>1. /\ a \in Changes /\ a.parent = p /\ a.name = name
      /\ a.deleted <=> type = "deleted"
      /\ a.created <=> type = "created" \/ (type = "renamed" /\ pend[r].created)
      /\ a.created \/ a.deleted \/ a.renamed
  <2>1. pend[r] \in Changes
    OBVIOUS
  <2> QED
    BY <2>1, AggregateIs
<1>2. pend2 = [pend EXCEPT ![r] = a]
  BY DEF Emits
<1> HIDE DEF a
<1>3. /\ pend2 \in [Recs -> Changes] /\ pend2[r] = a
      /\ \A q \in Recs : q # r => pend2[q] = pend[q]
  BY <1>1, <1>2
<1>4. ChangedIn(pend2) = ChangedIn(pend) \cup {r}
  BY <1>1, <1>3 DEF ChangedIn
<1> QED
  BY <1>1, <1>3, <1>4

(* One file comes, changes or goes, and the journal says so.                *)
LEMMA FileComes ==
    ASSUME NEW vol, NEW vol2, NEW opened, NEW opened2, NEW pend, NEW pend2, NEW ix, NEW amb,
           NEW r \in Recs, NEW f \in Files, NEW type \in {"created", "renamed"},
           Following(vol, opened, pend), Current(vol, pend, ix, amb),
           vol2 = Put(vol, r, f), opened2 \subseteq DOMAIN vol2,
           Emits(pend2, pend, r, f.parent, f.name, type)
    PROVE  Following(vol2, opened2, pend2) /\ Current(vol2, pend2, ix, amb)
<1>1. f.parent \in AllRecs /\ f.name \in AllNames
  BY DEF Files
<1>2. /\ pend2 \in [Recs -> Changes] /\ ChangedIn(pend2) = ChangedIn(pend) \cup {r}
      /\ pend2[r].parent = f.parent /\ pend2[r].name = f.name /\ ~ pend2[r].deleted
      /\ \A q \in Recs : q # r => pend2[q] = pend[q]
  <2>1. pend \in [Recs -> Changes]
    BY DEF Following
  <2>2. /\ pend2 \in [Recs -> Changes]
        /\ ChangedIn(pend2) = ChangedIn(pend) \cup {r}
        /\ pend2[r].parent = f.parent /\ pend2[r].name = f.name
        /\ pend2[r].deleted <=> type = "deleted"
        /\ \A q \in Recs : q # r => pend2[q] = pend[q]
    <3> DEFINE p == f.parent
               name == f.name
    <3>1. p \in AllRecs /\ name \in AllNames /\ Emits(pend2, pend, r, p, name, type)
      BY <1>1
    <3>2. type \in {"created", "deleted", "renamed"}
      OBVIOUS
    <3> HIDE DEF p, name
    <3>3. /\ pend2 \in [Recs -> Changes]
          /\ ChangedIn(pend2) = ChangedIn(pend) \cup {r}
          /\ pend2[r].parent = p /\ pend2[r].name = name
          /\ pend2[r].deleted <=> type = "deleted"
          /\ \A q \in Recs : q # r => pend2[q] = pend[q]
      BY <2>1, <3>1, <3>2, EmitEffect
    <3> QED
      BY <3>3 DEF p, name
  <2> QED
    BY <2>2
<1>3. /\ DOMAIN vol2 = DOMAIN vol \cup {r} /\ vol2[r] = f
      /\ \A q \in DOMAIN vol : q # r => vol2[q] = vol[q]
  BY DEF Put
<1>4. VolumeTyped(vol2)
  BY DEF VolumeTyped, Following, Put
<1>5. PendingTrue(vol2, pend2)
  <2> SUFFICES ASSUME NEW q \in ChangedIn(pend2)
               PROVE  IF pend2[q].deleted THEN q \notin DOMAIN vol2
                      ELSE /\ q \in DOMAIN vol2
                           /\ pend2[q].parent = vol2[q].parent
                           /\ pend2[q].name = vol2[q].name
    BY DEF PendingTrue
  <2>1. CASE q = r
    BY <1>2, <1>3, <2>1
  <2>2. CASE q # r
    <3>1. q \in ChangedIn(pend) /\ pend2[q] = pend[q]
      BY <1>2, <2>2 DEF ChangedIn
    <3>2. IF pend[q].deleted THEN q \notin DOMAIN vol
          ELSE q \in DOMAIN vol /\ pend[q].parent = vol[q].parent /\ pend[q].name = vol[q].name
      BY <3>1 DEF Following, PendingTrue
    <3> QED
      BY <1>3, <2>2, <3>1, <3>2
  <2> QED
    BY <2>1, <2>2
<1>6. Current(vol2, pend2, ix, amb)
  BY <1>2, <1>3 DEF Current
<1> QED
  BY <1>2, <1>4, <1>5, <1>6 DEF Following

LEMMA FileGoes ==
    ASSUME NEW vol, NEW vol2, NEW opened, NEW pend, NEW pend2, NEW ix, NEW amb,
           NEW r \in DOMAIN vol,
           Following(vol, opened, pend), Current(vol, pend, ix, amb),
           vol2 = [s \in DOMAIN vol \ {r} |-> vol[s]],
           Emits(pend2, pend, r, vol[r].parent, vol[r].name, "deleted")
    PROVE  Following(vol2, opened \ {r}, pend2) /\ Current(vol2, pend2, ix, amb)
<1>1. r \in Recs /\ vol[r].parent \in AllRecs /\ vol[r].name \in AllNames
  BY DEF Following, VolumeTyped, Files
<1>2. /\ pend2 \in [Recs -> Changes] /\ ChangedIn(pend2) = ChangedIn(pend) \cup {r}
      /\ pend2[r].deleted
      /\ \A q \in Recs : q # r => pend2[q] = pend[q]
  <2>1. pend \in [Recs -> Changes]
    BY DEF Following
  <2>2. /\ pend2 \in [Recs -> Changes]
        /\ ChangedIn(pend2) = ChangedIn(pend) \cup {r}
        /\ pend2[r].deleted <=> "deleted" = "deleted"
        /\ \A q \in Recs : q # r => pend2[q] = pend[q]
    BY <1>1, <2>1, EmitEffect
  <2> QED
    BY <2>2
<1>3. DOMAIN vol2 = DOMAIN vol \ {r} /\ \A q \in DOMAIN vol2 : vol2[q] = vol[q]
  OBVIOUS
<1>4. VolumeTyped(vol2)
  BY DEF VolumeTyped, Following
<1>5. PendingTrue(vol2, pend2)
  <2> SUFFICES ASSUME NEW q \in ChangedIn(pend2)
               PROVE  IF pend2[q].deleted THEN q \notin DOMAIN vol2
                      ELSE /\ q \in DOMAIN vol2
                           /\ pend2[q].parent = vol2[q].parent
                           /\ pend2[q].name = vol2[q].name
    BY DEF PendingTrue
  <2>1. CASE q = r
    BY <1>2, <1>3, <2>1
  <2>2. CASE q # r
    <3>1. q \in ChangedIn(pend) /\ pend2[q] = pend[q]
      BY <1>2, <2>2 DEF ChangedIn
    <3>2. IF pend[q].deleted THEN q \notin DOMAIN vol
          ELSE q \in DOMAIN vol /\ pend[q].parent = vol[q].parent /\ pend[q].name = vol[q].name
      BY <3>1 DEF Following, PendingTrue
    <3> QED
      BY <1>3, <2>2, <3>1, <3>2
  <2> QED
    BY <2>1, <2>2
<1>6. Current(vol2, pend2, ix, amb)
  BY <1>2, <1>3 DEF Current
<1>7. opened \ {r} \subseteq DOMAIN vol2
  BY <1>3 DEF Following
<1> QED
  BY <1>2, <1>4, <1>5, <1>6, <1>7 DEF Following
-----------------------------------------------------------------------------
(* A poll has the events of all changed records in some order               *)

EventIn(pend, r) ==
    [kind |-> IF pend[r].deleted THEN "delete"
              ELSE IF pend[r].created THEN "create" ELSE "rename",
     ref |-> r, parent |-> pend[r].parent, name |-> pend[r].name]

(* ev are the events of the n changed records, each once.                   *)
PollOf(pend, ev, n) ==
    /\ n \in Nat /\ ev \in [1 .. n -> Events]
    /\ \A j, k \in 1 .. n : j # k => ev[j].ref # ev[k].ref
    /\ \A j \in 1 .. n : /\ ev[j].ref \in ChangedIn(pend)
                         /\ ev[j] = EventIn(pend, ev[j].ref)
    /\ \A r \in ChangedIn(pend) : \E j \in 1 .. n : ev[j].ref = r

(* A list of members of a finite set, as long as the set and none twice,    *)
(* has them all.                                                            *)
LEMMA ListHasAll ==
    ASSUME NEW S, IsFiniteSet(S), NEW order \in SetToSeqs(S)
    PROVE  /\ Cardinality(S) \in Nat /\ order \in [1 .. Cardinality(S) -> S]
           /\ \A j, k \in 1 .. Cardinality(S) : j # k => order[j] # order[k]
           /\ \A x \in S : \E j \in 1 .. Cardinality(S) : order[j] = x
<1> DEFINE n == Cardinality(S)
           D == 1 .. n
<1>1. n \in Nat
  BY FS_CardinalityType
<1>2. order \in [D -> S] /\ \A j, k \in D : j # k => order[j] # order[k]
  BY DEF SetToSeqs
<1>3. IsFiniteSet(D) /\ Cardinality(D) = n
  <2>1. 1 \in Int /\ n \in Int
    BY <1>1
  <2> HIDE DEF n
  <2>2. IsFiniteSet(1 .. n) /\ Cardinality(1 .. n) = IF 1 > n THEN 0 ELSE n - 1 + 1
    BY ONLY <2>1, FS_Interval
  <2> QED
    BY <1>1, <2>2
<1>4. order \in Injection(D, S)
  <2> HIDE DEF D, n
  <2> QED
    BY <1>2 DEF Injection, IsInjective
<1>5. order \in Surjection(D, S)
  <2>1. Cardinality(D) = Cardinality(S)
    BY <1>3
  <2> HIDE DEF D, n
  <2> QED
    BY <1>4, <2>1, FS_Injection
<1> HIDE DEF D
<1>6. \A x \in S : \E j \in D : order[j] = x
  BY <1>5 DEF Surjection
<1> QED
  BY <1>1, <1>2, <1>6 DEF D

LEMMA PollIsPoll ==
    ASSUME NEW pend \in [Recs -> Changes], NEW order \in SetToSeqs(ChangedIn(pend))
    PROVE  LET n == Cardinality(ChangedIn(pend))
               ev == [k \in DOMAIN order |-> EventIn(pend, order[k])] IN
           PollOf(pend, ev, n)
<1> DEFINE S == ChangedIn(pend)
           n == Cardinality(S)
           ev == [k \in DOMAIN order |-> EventIn(pend, order[k])]
<1>1. IsFiniteSet(S)
  <2>1. S \in SUBSET Recs /\ IsFiniteSet(Recs)
    BY FeedAssumption DEF ChangedIn
  <2> HIDE DEF S
  <2> QED
    BY <2>1, FS_Subset
<1>2. /\ n \in Nat /\ order \in [1 .. n -> S]
      /\ \A j, k \in 1 .. n : j # k => order[j] # order[k]
      /\ \A x \in S : \E j \in 1 .. n : order[j] = x
  <2> HIDE DEF S
  <2> QED
    BY <1>1, ListHasAll DEF S
<1>3. \A r \in S : EventIn(pend, r) \in Events /\ EventIn(pend, r).ref = r
  <2> TAKE r \in S
  <2>1. r \in Recs /\ pend[r] \in Changes
    BY DEF ChangedIn
  <2>2. pend[r].parent \in AllRecs /\ pend[r].name \in AllNames
    BY <2>1 DEF Changes
  <2> QED
    BY <2>1, <2>2 DEF EventIn, Events
<1>4. DOMAIN ev = 1 .. n /\ \A k \in 1 .. n : ev[k] = EventIn(pend, order[k])
  BY <1>2
<1>5. \A k \in 1 .. n : /\ ev[k] \in Events /\ ev[k].ref = order[k] /\ order[k] \in S
                        /\ ev[k] = EventIn(pend, ev[k].ref)
  BY <1>2, <1>3, <1>4
<1>6. ev \in [1 .. n -> Events]
  <2>1. ev = [k \in 1 .. n |-> ev[k]]
    BY <1>4
  <2> HIDE DEF ev, n
  <2> QED
    BY <1>5, <2>1
<1> HIDE DEF S, n, ev
<1>7. PollOf(pend, ev, n)
  BY <1>2, <1>5, <1>6 DEF PollOf, S
<1> QED
  BY <1>7 DEF S, n, ev

(* What a poll leaves of each record.                                       *)
LEMMA PollOutcome ==
    ASSUME NEW x, Typed(x), LookupInv(x), NEW pend, NEW ev, NEW n,
           PollOf(pend, ev, n)
    PROVE  \E f : LET y == ApplyEvents(x, ev) IN
              /\ Typed(y) /\ LookupInv(y)
              /\ \A k \in 0 .. n : SoFar(f, x, ev, k)
              /\ \A j \in 1 .. n :
                    Outcome(y, x, ev[j], RefLookup(f[j - 1], ev[j].parent))
              /\ \A q \in AllRecs \ ChangedIn(pend) : SameFor(y, x, q)
<1>1. /\ n \in Nat /\ ev \in [1 .. n -> Events]
      /\ \A j, k \in 1 .. n : j # k => ev[j].ref # ev[k].ref
  BY DEF PollOf
<1>2. PICK f : ApplyEvents(x, ev) = f[n] /\ \A k \in 0 .. n : SoFar(f, x, ev, k)
  BY <1>1, PollEffect
<1> DEFINE y == ApplyEvents(x, ev)
<1>3. SoFar(f, x, ev, n) /\ y = f[n]
  BY <1>1, <1>2
<1> HIDE DEF y
<1>4. \A q \in AllRecs \ ChangedIn(pend) : \A j \in 1 .. n : ev[j].ref # q
  BY DEF PollOf
<1>5. /\ Typed(y) /\ LookupInv(y)
      /\ \A j \in 1 .. n : Outcome(y, x, ev[j], RefLookup(f[j - 1], ev[j].parent))
      /\ \A q \in AllRecs \ ChangedIn(pend) : SameFor(y, x, q)
  BY <1>3, <1>4 DEF SoFar
<1> QED
  BY <1>2, <1>5 DEF y

NothingPending == [r \in Recs |-> NoChange]

LEMMA NothingIsPending ==
    /\ NothingPending \in [Recs -> Changes] /\ ChangedIn(NothingPending) = {}
    /\ \A vol : PendingTrue(vol, NothingPending)
<1>1. NoChange \in Changes
  BY FeedAssumption DEF NoChange, Changes, AllRecs, AllNames
<1>2. ChangedIn(NothingPending) = {}
  BY DEF ChangedIn, NothingPending, NoChange
<1> QED
  BY <1>1, <1>2 DEF NothingPending, PendingTrue

Created(pend) == {r \in ChangedIn(pend) : EventIn(pend, r).kind = "create"}

LEMMA PollKeepsCurrent ==
    ASSUME NEW vol, NEW opened, NEW pend, NEW x, NEW amb, NEW ev, NEW n,
           Following(vol, opened, pend), Typed(x), LookupInv(x), Certain(x, amb),
           Current(vol, pend, x, amb), PollOf(pend, ev, n)
    PROVE  LET y == ApplyEvents(x, ev)
               amb2 == amb \ Created(pend) IN
           /\ Typed(y) /\ LookupInv(y)
           /\ Certain(y, amb2) /\ Current(vol, NothingPending, y, amb2)
<1> DEFINE y == ApplyEvents(x, ev)
           amb2 == amb \ Created(pend)
<1>1. PICK f :
        /\ Typed(y) /\ LookupInv(y)
        /\ \A j \in 1 .. n : Outcome(y, x, ev[j], RefLookup(f[j - 1], ev[j].parent))
        /\ \A q \in AllRecs \ ChangedIn(pend) : SameFor(y, x, q)
  BY PollOutcome
<1> HIDE DEF y
<1>2. ASSUME NEW r \in AllRecs \ ChangedIn(pend)
      PROVE  /\ SameFor(y, x, r) /\ (r \in amb <=> r \in amb2)
             /\ RefLookup(x, r) # NoIdx => RefLookup(x, r) \in Ents(x, r)
  BY <1>1, LookupIsEntry DEF Created
<1>3. ASSUME NEW r \in ChangedIn(pend)
      PROVE  LET e == EventIn(pend, r) IN
             \/ e.kind = "delete" /\ RefLookup(y, r) = NoIdx
             \/ e.kind \in {"create", "rename"} /\ New(y, x, e)
             \/ /\ e.kind = "rename" /\ RefLookup(x, r) # NoIdx
                /\ RefLookup(x, r) \in Ents(x, r)
                /\ \E p : Renamed(y, x, e, p)
  <2> DEFINE e == EventIn(pend, r)
  <2>1. PICK j \in 1 .. n : ev[j].ref = r /\ ev[j] = e
    BY DEF PollOf
  <2>2. PICK p : Outcome(y, x, e, p)
    BY <1>1, <2>1
  <2>3. e.ref = r /\ e.kind \in {"delete", "create", "rename"} /\ r \in AllRecs
    BY DEF EventIn, ChangedIn, AllRecs
  <2> HIDE DEF e
  <2>4. CASE e.kind = "delete"
    BY <2>2, <2>3, <2>4 DEF Outcome, Gone, e
  <2>5. CASE IsNew(x, e)
    <3>1. New(y, x, e) /\ e.kind \in {"create", "rename"}
      BY <2>2, <2>5 DEF Outcome, IsNew
    <3> QED
      BY <3>1 DEF e
  <2>6. CASE e.kind = "rename" /\ RefLookup(x, e.ref) # NoIdx
    <3>1. Renamed(y, x, e, p)
      BY <2>2, <2>6 DEF Outcome
    <3>2. RefLookup(x, r) # NoIdx /\ RefLookup(x, r) \in Ents(x, r)
      BY <2>3, <2>6, LookupIsEntry
    <3> QED
      BY <2>6, <3>1, <3>2 DEF e
  <2> QED
    BY <2>3, <2>4, <2>5, <2>6 DEF IsNew
<1>4. ASSUME NEW r \in DOMAIN vol PROVE KnownAs(y, r, vol[r].name, amb2)
  <2>1. r \in AllRecs
    BY DEF Following, VolumeTyped, AllRecs
  <2>2. CASE r \notin ChangedIn(pend)
    <3>1. KnownAs(x, r, vol[r].name, amb)
      BY <2>2 DEF Current
    <3> QED
      BY <1>2, <2>1, <2>2, <3>1 DEF KnownAs, SameFor
  <2>3. CASE r \in ChangedIn(pend)
    <3> DEFINE e == EventIn(pend, r)
    <3>1. ~ pend[r].deleted /\ pend[r].name = vol[r].name
      BY <2>3 DEF Following, PendingTrue
    <3>2. e.ref = r /\ e.name = vol[r].name /\ e.kind # "delete"
      BY <3>1 DEF EventIn
    <3>3. \/ New(y, x, e)
          \/ /\ RefLookup(x, r) # NoIdx /\ RefLookup(x, r) \in Ents(x, r)
             /\ \E p : Renamed(y, x, e, p)
      BY <1>3, <2>3, <3>2
    <3> HIDE DEF e
    <3>4. CASE New(y, x, e)
      BY <3>2, <3>4 DEF New, KnownAs
    <3>5. ASSUME RefLookup(x, r) # NoIdx, RefLookup(x, r) \in Ents(x, r),
                 NEW p, Renamed(y, x, e, p)
          PROVE  KnownAs(y, r, vol[r].name, amb2)
      BY <3>2, <3>5 DEF Renamed, KnownAs
    <3> QED
      BY <3>3, <3>4, <3>5
  <2> QED
    BY <2>2, <2>3
<1>5. ASSUME NEW r \in AllRecs \ amb2 PROVE LastFound(y, r)
  <2>1. CASE r \notin ChangedIn(pend)
    <3>1. LastFound(x, r)
      BY <1>2, <2>1 DEF Certain
    <3> QED
      BY <1>2, <2>1, <3>1 DEF LastFound, LastEntry, SameFor
  <2>2. CASE r \in ChangedIn(pend)
    <3> DEFINE e == EventIn(pend, r)
    <3>1. e.ref = r
      BY DEF EventIn
    <3>2. CASE New(y, x, e)
      BY <3>1, <3>2 DEF New, LastFound, LastEntry
    <3>3. CASE e.kind = "rename" /\ \E p : Renamed(y, x, e, p)
      <4>1. r \notin amb
        BY <2>2, <3>3 DEF Created
      <4>2. LastFound(x, r)
        BY <4>1 DEF Certain
      <4> QED
        BY <3>1, <3>3, <4>2 DEF Renamed, LastFound, LastEntry
    <3>4. CASE RefLookup(y, r) = NoIdx
      BY <3>4 DEF LastFound
    <3> QED
      BY <1>3, <2>2, <3>2, <3>3, <3>4
  <2> QED
    BY <2>1, <2>2
<1>6. Current(vol, NothingPending, y, amb2) /\ Certain(y, amb2)
  BY <1>4, <1>5 DEF Current, Certain
<1> QED
  BY <1>1, <1>6 DEF y

(* What becomes ambiguous with a new base.                                  *)
Blurs(amb2, amb, base) ==
    amb2 = IF IsDense(RefPairs(base)) THEN amb ELSE amb \cup Repeated(RefPairs(base))

LEMMA CompactKeepsCurrent ==
    ASSUME NEW vol, NEW opened, NEW pend, NEW x, NEW amb, NEW amb2,
           Following(vol, opened, pend), Typed(x), LookupInv(x), Certain(x, amb),
           Current(vol, pend, x, amb), NEW map \in RefMaps(RefPairs(RebuiltBase(x))),
           Blurs(amb2, amb, RebuiltBase(x))
    PROVE  LET y == FromBase(RebuiltBase(x), map) IN
           /\ Typed(y) /\ LookupInv(y)
           /\ Certain(y, amb2) /\ Current(vol, pend, y, amb2)
<1> DEFINE y == FromBase(RebuiltBase(x), map)
           at == Ascending(Visible(x))
<1>1. /\ Rebuilt(y, x, at) /\ y.overrides = EmptyFunction
      /\ \A r : Sure(RebuiltBase(x), r) => LastFound(y, r)
  BY RebuildEffect DEF LastFound
<1> HIDE DEF y, at
<1>2. Certain(y, amb2) /\ \A r : r \notin amb2 => r \notin amb
  BY <1>1 DEF Certain, Blurs, Sure
<1>3. ASSUME NEW r \in DOMAIN vol \ ChangedIn(pend)
      PROVE  KnownAs(y, r, vol[r].name, amb2)
  <2>1. r \in AllRecs
    BY DEF Following, VolumeTyped, AllRecs
  <2>2. KnownAs(x, r, vol[r].name, amb)
    BY DEF Current
  <2>3. RefLookup(y, r) # NoIdx /\ \E i \in Ents(y, r) : NameOf(y, i) = vol[r].name
    <3>1. PICK i \in Ents(x, r) : NameOf(x, i) = vol[r].name
      BY <2>2 DEF KnownAs
    <3> QED
      BY <1>1, <2>1, <3>1, RebuildKeepsEntries
  <2>4. CASE r \notin amb2
    <3>1. LastEntry(x, r, RefLookup(x, r)) /\ LastFound(y, r)
      BY <1>2, <2>1, <2>2, <2>4 DEF Certain, LastFound, KnownAs
    <3>2. RefLookup(y, r) \in DOMAIN at /\ at[RefLookup(y, r)] = RefLookup(x, r)
      BY <1>1, <2>1, <3>1, RebuildKeepsLookup DEF LastFound
    <3>3. NameOf(y, RefLookup(y, r)) = NameOf(x, RefLookup(x, r))
      BY <1>1, <3>2 DEF Rebuilt
    <3> QED
      BY <1>2, <2>2, <2>3, <2>4, <3>3 DEF KnownAs
  <2> QED
    BY <2>3, <2>4 DEF KnownAs
<1>4. Current(vol, pend, y, amb2)
  BY <1>3 DEF Current
<1> QED
  BY <1>1, <1>2, <1>4 DEF y, Rebuilt
-----------------------------------------------------------------------------
(* The feed follows the volume                                              *)

(* The base of a start: every file once, under the entry of its directory.  *)
BaseOfVolume(base, vol) ==
    /\ base \in Seq(BaseRecords)
    /\ \A m, n \in 1 .. Len(base) : m # n => base[m].ref # base[n].ref
    /\ \A r \in DOMAIN vol : \E n \in 1 .. Len(base) : base[n].ref = r
    /\ \A n \in 1 .. Len(base) :
          /\ base[n].ref \in DOMAIN vol /\ base[n].name = vol[base[n].ref].name
          /\ IF base[n].ref = Root THEN base[n].parent = NoIdx
             ELSE /\ base[n].parent \in 1 .. Len(base)
                  /\ base[base[n].parent].ref = vol[base[n].ref].parent

LEMMA InitVolumeIs ==
    /\ IsFiniteSet(DOMAIN InitVolume) /\ VolumeTyped(InitVolume)
    /\ \A r \in DOMAIN InitVolume \ {Root} :
          InitVolume[r].parent \in Dirs \cap DOMAIN InitVolume
<1>1. DOMAIN InitVolume \subseteq Recs /\ IsFiniteSet(DOMAIN InitVolume)
  BY FeedAssumption, FS_Subset
<1>2. \A r \in DOMAIN InitVolume \ {Root} :
         /\ InitVolume[r] \in Files
         /\ InitVolume[r].parent \in Dirs \cap DOMAIN InitVolume
  <2> TAKE r \in DOMAIN InitVolume \ {Root}
  <2>1. InitVolume[r] \in [parent : Dirs \cap DOMAIN InitVolume, name : Names]
    BY FeedAssumption
  <2> QED
    BY <2>1, <1>1 DEF Files, AllRecs, AllNames
<1>3. InitVolume[Root] \in Files
  BY FeedAssumption DEF Files, AllRecs, AllNames
<1>4. \A r \in DOMAIN InitVolume : InitVolume[r] \in Files
  BY <1>2, <1>3
<1>5. InitVolume = [r \in DOMAIN InitVolume |-> InitVolume[r]]
  BY FeedAssumption
<1> QED
  BY <1>1, <1>2, <1>4, <1>5 DEF VolumeTyped

LEMMA InitBaseIs ==
    ASSUME NEW base \in InitBases
    PROVE  BaseOfVolume(base, InitVolume)
<1> DEFINE S == DOMAIN InitVolume
           n == Cardinality(S)
           At(order, r) == CHOOSE k \in DOMAIN order : order[k] = r
<1>1. PICK order \in SetToSeqs(S) :
         base = [k \in DOMAIN order |->
                  [ref |-> order[k], name |-> InitVolume[order[k]].name,
                   parent |-> IF order[k] = Root THEN NoIdx
                              ELSE At(order, InitVolume[order[k]].parent)]]
  BY DEF InitBases
<1>2. /\ n \in Nat /\ order \in [1 .. n -> S]
      /\ \A j, k \in 1 .. n : j # k => order[j] # order[k]
      /\ \A r \in S : \E k \in 1 .. n : order[k] = r
  <2>1. IsFiniteSet(S)
    BY InitVolumeIs
  <2> HIDE DEF S
  <2> QED
    BY <2>1, ListHasAll
<1>3. \A r \in S : At(order, r) \in 1 .. n /\ order[At(order, r)] = r
  BY <1>2
<1> HIDE DEF At
<1>4. /\ DOMAIN base = 1 .. n
      /\ \A k \in 1 .. n :
            /\ base[k].ref = order[k] /\ base[k].name = InitVolume[order[k]].name
            /\ base[k].parent = IF order[k] = Root THEN NoIdx
                                ELSE At(order, InitVolume[order[k]].parent)
  <2>1. DOMAIN order = 1 .. n
    BY <1>2
  <2> HIDE DEF n
  <2> QED
    BY <1>1, <2>1
<1> HIDE DEF n
<1>5. \A k \in 1 .. n : order[k] \in S
  BY <1>2
<1>6. \A k \in 1 .. n :
         IF order[k] = Root THEN base[k].parent = NoIdx
         ELSE base[k].parent \in 1 .. n /\ order[base[k].parent] = InitVolume[order[k]].parent
  BY <1>3, <1>4, <1>5, InitVolumeIs
<1>7. \A k \in 1 .. n : base[k] \in BaseRecords
  <2> TAKE k \in 1 .. n
  <2>1. base[k].parent \in Nat
    BY <1>2, <1>6 DEF NoIdx
  <2>2. order[k] \in Recs /\ InitVolume[order[k]].name \in AllNames
    BY <1>5, InitVolumeIs DEF VolumeTyped, Files
  <2>3. base[k] = [ref |-> base[k].ref, name |-> base[k].name, parent |-> base[k].parent]
    <3>1. DOMAIN order = 1 .. n
      BY <1>2
    <3> QED
      BY <1>1, <3>1
  <2> QED
    BY <1>4, <2>1, <2>2, <2>3 DEF BaseRecords
<1>8. base \in Seq(BaseRecords) /\ Len(base) = n
  <2>1. base = [k \in 1 .. n |-> base[k]]
    BY <1>1, <1>4
  <2>2. base \in [1 .. n -> BaseRecords]
    BY <1>7, <2>1
  <2> QED
    BY <1>2, <2>2
<1>9. \A k \in 1 .. n :
         /\ base[k].ref \in DOMAIN InitVolume
         /\ base[k].name = InitVolume[base[k].ref].name
         /\ IF base[k].ref = Root THEN base[k].parent = NoIdx
            ELSE /\ base[k].parent \in 1 .. n
                 /\ base[base[k].parent].ref = InitVolume[base[k].ref].parent
  BY <1>4, <1>5, <1>6
<1>10. /\ \A j, k \in 1 .. n : j # k => base[j].ref # base[k].ref
       /\ \A r \in DOMAIN InitVolume : \E k \in 1 .. n : base[k].ref = r
  BY <1>2, <1>4
<1> QED
  BY <1>8, <1>9, <1>10 DEF BaseOfVolume

(* A base of distinct records is looked up where they are.                  *)
LEMMA BaseFindsAll ==
    ASSUME NEW base, NEW vol, BaseOfVolume(base, vol), NEW map \in RefMaps(RefPairs(base))
    PROVE  \A k \in 1 .. Len(base) : RefLookup(FromBase(base, map), base[k].ref) = k
<1> DEFINE y == FromBase(base, map)
<1>1. /\ Typed(y) /\ y.base = base /\ BaseLen(y) = Len(base)
      /\ \A r : RefLookup(y, r) = BaseLookup(y, r)
  BY FromBaseIs DEF BaseOfVolume
<1> HIDE DEF y
<1> SUFFICES ASSUME NEW k \in 1 .. Len(base) PROVE RefLookup(y, base[k].ref) = k
  BY DEF y
<1> DEFINE hits == {i \in 1 .. BaseLen(y) : y.base[i].ref = base[k].ref}
<1>2. hits = {k}
  BY <1>1 DEF BaseOfVolume
<1>3. /\ BaseLookup(y, base[k].ref) = NoIdx <=> hits = {}
      /\ BaseLookup(y, base[k].ref) # NoIdx => BaseLookup(y, base[k].ref) \in hits
  BY <1>1, BaseLookupIs
<1> QED
  BY <1>1, <1>2, <1>3

LEMMA FeedInit == Init => FeedInv
<1> SUFFICES ASSUME Init PROVE FeedInv
  OBVIOUS
<1>1. PICK base, map : /\ base \in InitBases /\ map \in RefMaps(RefPairs(base))
                       /\ index = FromBase(base, map)
  BY DEF Init
<1>2. BaseOfVolume(base, InitVolume)
  BY <1>1, InitBaseIs
<1> DEFINE y == FromBase(base, map)
<1>3. /\ Typed(y) /\ LookupInv(y) /\ Visible(y) = 1 .. Len(base)
      /\ \A n \in 1 .. Len(base) : RefOf(y, n) = base[n].ref /\ NameOf(y, n) = base[n].name
  BY <1>1, <1>2, FromBaseIs DEF BaseOfVolume
<1>4. \A n \in 1 .. Len(base) : RefLookup(y, base[n].ref) = n /\ n # NoIdx
  BY <1>1, <1>2, BaseFindsAll DEF NoIdx
<1> HIDE DEF y
<1>5. \A n \in 1 .. Len(base) : Ents(y, base[n].ref) = {n}
  BY <1>2, <1>3 DEF Ents, BaseOfVolume
<1>6. Current(InitVolume, NothingPending, y, {})
  <2> SUFFICES ASSUME NEW r \in DOMAIN InitVolume
               PROVE  KnownAs(y, r, InitVolume[r].name, {})
    BY DEF Current
  <2>1. PICK n \in 1 .. Len(base) : base[n].ref = r
    BY <1>2 DEF BaseOfVolume
  <2>2. base[n].name = InitVolume[r].name
    BY <1>2, <2>1 DEF BaseOfVolume
  <2> QED
    BY <1>3, <1>4, <1>5, <2>1, <2>2 DEF KnownAs
<1>7. Certain(y, {})
  <2> SUFFICES ASSUME NEW r \in AllRecs, RefLookup(y, r) # NoIdx
               PROVE  LastEntry(y, r, RefLookup(y, r))
    BY DEF Certain, LastFound
  <2>1. RefLookup(y, r) \in Ents(y, r)
    BY <1>3, LookupIsEntry
  <2>2. PICK n \in 1 .. Len(base) : base[n].ref = r
    BY <1>3, <2>1 DEF Ents
  <2>3. Ents(y, r) = {n} /\ n <= n
    BY <1>5, <2>2
  <2> QED
    BY <2>1, <2>3 DEF LastEntry
<1>8. Following(InitVolume, {}, NothingPending)
  BY InitVolumeIs, NothingIsPending DEF Following
<1>9. /\ volume = InitVolume /\ open = {} /\ pending = NothingPending /\ index = y
      /\ ambiguous = {}
  BY <1>1 DEF Init, NothingPending, y
<1> QED
  BY <1>3, <1>6, <1>7, <1>8, <1>9 DEF FeedInv

LEMMA CreateFeed ==
    ASSUME FeedInv, NEW r \in Recs \ {Root}, NEW parent \in Dirs, NEW name \in Names,
           Create(r, parent, name)
    PROVE  FeedInv'
<1> DEFINE f == [parent |-> parent, name |-> name]
<1>1. f \in Files /\ f.parent = parent /\ f.name = name
  BY FeedAssumption DEF Files, AllRecs, AllNames
<1>2. /\ volume' = Put(volume, r, f)
      /\ index' = index /\ ambiguous' = ambiguous
      /\ Emits(pending', pending, r, f.parent, f.name, "created")
  BY DEF Create, Step, Emit, Emits
<1>3. open' \subseteq DOMAIN volume'
  <2>1. open' \subseteq open \cup {r} /\ open \subseteq DOMAIN volume
    BY DEF Create, FeedInv, Following
  <2> HIDE DEF f
  <2> QED
    BY <1>2, <2>1 DEF Put
<1> HIDE DEF f
<1>4. Following(volume', open', pending') /\ Current(volume', pending', index, ambiguous)
  BY <1>1, <1>2, <1>3, FileComes DEF FeedInv
<1> QED
  BY <1>2, <1>4 DEF FeedInv

LEMMA RenameFeed ==
    ASSUME FeedInv, NEW r \in Recs \ {Root}, NEW parent \in Dirs, NEW name \in Names,
           Rename(r, parent, name)
    PROVE  FeedInv'
<1> DEFINE f == [parent |-> parent, name |-> name]
<1>1. /\ f \in Files /\ f.parent = parent /\ f.name = name
  BY FeedAssumption DEF Files, AllRecs, AllNames
<1>2. PICK type \in {"created", "renamed"} :
         Emits(pending', pending, r, f.parent, f.name, type)
  BY DEF Rename, Emit, Emits
<1>3. /\ volume' = [volume EXCEPT ![r] = f] /\ open' = open
      /\ index' = index /\ ambiguous' = ambiguous
      /\ r \in DOMAIN volume
  BY DEF Rename, Step
<1> HIDE DEF f
<1>4. volume' = Put(volume, r, f)
  <2>1. DOMAIN volume \cup {r} = DOMAIN volume
    BY <1>3
  <2> QED
    BY <1>3, <2>1 DEF Put, FeedInv, Following, VolumeTyped
<1>5. /\ open' \subseteq DOMAIN volume' /\ r \in Recs
      /\ Following(volume, open, pending) /\ Current(volume, pending, index, ambiguous)
  BY <1>3 DEF FeedInv, Following
<1>6. Following(volume', open', pending') /\ Current(volume', pending', index, ambiguous)
  BY <1>1, <1>2, <1>4, <1>5, FileComes
<1> QED
  BY <1>3, <1>6 DEF FeedInv

LEMMA CloseFeed ==
    ASSUME FeedInv, NEW r \in Recs \ {Root}, Close(r)
    PROVE  FeedInv'
<1> DEFINE f == volume[r]
<1>1. /\ r \in DOMAIN volume /\ f \in Files
  BY DEF FeedInv, Following, VolumeTyped, Close
<1>2. /\ volume' = volume /\ index' = index /\ ambiguous' = ambiguous
      /\ open' = open \ {r}
      /\ Emits(pending', pending, r, f.parent, f.name, "created")
  BY DEF Close, Emit, Emits
<1>3. volume' = Put(volume, r, f)
  <2>1. DOMAIN volume \cup {r} = DOMAIN volume
    BY <1>1
  <2>2. volume = [x \in DOMAIN volume |-> volume[x]]
    BY DEF FeedInv, Following, VolumeTyped
  <2>3. volume = [x \in DOMAIN volume |-> IF x = r THEN f ELSE volume[x]]
    BY <2>2
  <2> QED
    BY <1>2, <2>1, <2>3 DEF Put
<1>4. open' \subseteq DOMAIN volume'
  BY <1>2 DEF FeedInv, Following
<1> HIDE DEF f
<1>5. Following(volume', open', pending') /\ Current(volume', pending', index, ambiguous)
  BY <1>1, <1>2, <1>3, <1>4, FileComes DEF FeedInv
<1> QED
  BY <1>2, <1>5 DEF FeedInv

LEMMA DeleteFeed ==
    ASSUME FeedInv, NEW r \in Recs \ {Root}, Delete(r)
    PROVE  FeedInv'
<1>1. /\ volume' = [s \in DOMAIN volume \ {r} |-> volume[s]]
      /\ index' = index /\ ambiguous' = ambiguous /\ open' = open \ {r}
      /\ r \in DOMAIN volume
      /\ Emits(pending', pending, r, volume[r].parent, volume[r].name, "deleted")
  BY DEF Delete, Step, Emit, Emits
<1>2. Following(volume', open', pending') /\ Current(volume', pending', index, ambiguous)
  BY <1>1, FileGoes DEF FeedInv
<1> QED
  BY <1>1, <1>2 DEF FeedInv

(* A turn of the poll loop applies a poll.                                  *)
LEMMA PollApplies ==
    ASSUME FeedInv, Poll
    PROVE  \E ev, n : /\ PollOf(pending, ev, n) /\ index' = ApplyEvents(index, ev)
                      /\ pending' = NothingPending /\ volume' = volume /\ open' = open
                      /\ ambiguous' = ambiguous \ Created(pending)
<1>1. PICK order \in SetToSeqs(Changed) :
         index' = ApplyEvents(index, [k \in DOMAIN order |-> EventOf(order[k])])
  BY DEF Poll
<1>2. order \in SetToSeqs(ChangedIn(pending))
  BY <1>1, ChangedIs
<1> DEFINE ev == [k \in DOMAIN order |-> EventIn(pending, order[k])]
<1>3. ev = [k \in DOMAIN order |-> EventOf(order[k])]
  BY DEF EventIn, EventOf
<1>4. pending \in [Recs -> Changes]
  BY DEF FeedInv, Following
<1>5. PollOf(pending, ev, Cardinality(ChangedIn(pending)))
  BY <1>2, <1>4, PollIsPoll
<1>6. /\ pending' = NothingPending /\ volume' = volume /\ open' = open
      /\ ambiguous' = ambiguous \ Created(pending)
  BY ChangedIs DEF Poll, NothingPending, Created, EventIn, EventOf
<1> QED
  BY <1>1, <1>3, <1>5, <1>6

LEMMA PollFeed ==
    ASSUME FeedInv, Poll
    PROVE  FeedInv'
<1>1. PICK ev, n : /\ PollOf(pending, ev, n) /\ index' = ApplyEvents(index, ev)
                   /\ pending' = NothingPending /\ volume' = volume /\ open' = open
                   /\ ambiguous' = ambiguous \ Created(pending)
  BY PollApplies
<1>2. /\ Typed(index') /\ LookupInv(index') /\ Certain(index', ambiguous')
      /\ Current(volume, NothingPending, index', ambiguous')
  BY <1>1, PollKeepsCurrent DEF FeedInv
<1>3. Following(volume, open, NothingPending)
  BY NothingIsPending DEF FeedInv, Following
<1> QED
  BY <1>1, <1>2, <1>3 DEF FeedInv

LEMMA CompactFeed ==
    ASSUME FeedInv, Compact
    PROVE  FeedInv'
<1>1. PICK map \in RefMaps(RefPairs(RebuiltBase(index))) :
         /\ index' = FromBase(RebuiltBase(index), map)
         /\ Blurs(ambiguous', ambiguous, RebuiltBase(index))
         /\ volume' = volume /\ open' = open /\ pending' = pending
  BY DEF Compact, Blurs
<1>2. /\ Typed(index') /\ LookupInv(index') /\ Certain(index', ambiguous')
      /\ Current(volume, pending, index', ambiguous')
  BY <1>1, CompactKeepsCurrent DEF FeedInv
<1> QED
  BY <1>1, <1>2 DEF FeedInv

LEMMA FeedStep == FeedInv /\ [Next]_vars => FeedInv'
<1> SUFFICES ASSUME FeedInv, [Next]_vars PROVE FeedInv'
  OBVIOUS
<1>1. ASSUME NEW r \in Recs \ {Root}, NEW parent \in Dirs, NEW name \in Names,
             Create(r, parent, name) \/ Rename(r, parent, name)
      PROVE  FeedInv'
  BY <1>1, CreateFeed, RenameFeed
<1>2. ASSUME NEW r \in Recs \ {Root}, Delete(r) \/ Close(r) PROVE FeedInv'
  BY <1>2, DeleteFeed, CloseFeed
<1>3. Poll => FeedInv'
  BY PollFeed
<1>4. Compact => FeedInv'
  BY CompactFeed
<1>5. UNCHANGED vars => FeedInv'
  BY DEF vars, FeedInv
<1> QED
  BY <1>1, <1>2, <1>3, <1>4, <1>5 DEF Next

LEMMA FeedAlwaysFollows == Spec => []FeedInv
<1>1. Init => FeedInv
  BY FeedInit
<1>2. FeedInv /\ [Next]_vars => FeedInv'
  BY FeedStep
<1> QED
  BY <1>1, <1>2, PTL DEF Spec

LEMMA EntriesAre == \A r : Entries(r) = Ents(index, r)
BY DEF Entries, Ents

(* After every poll, the lookup of the record of each file that exists      *)
(* gives a visible entry of it, whatever happened between two polls and in  *)
(* whatever order the poll applied it; one of its entries has its current   *)
(* name, and it is the one given unless, since the record was last created, *)
(* a sorted map was built of a base with several entries of it.             *)
THEOREM LookupAlwaysCurrent == Spec => []LookupIsCurrent
<1>1. FeedInv => LookupIsCurrent
  <2> SUFFICES ASSUME FeedInv, Changed = {}, NEW r \in DOMAIN volume
               PROVE  LET i == RefLookup(index, r) IN
                      /\ i \in Entries(r)
                      /\ \E j \in Entries(r) : NameOf(index, j) = volume[r].name
                      /\ r \notin ambiguous => NameOf(index, i) = volume[r].name
    BY DEF LookupIsCurrent, Settled
  <2>1. r \in AllRecs /\ r \notin ChangedIn(pending)
    BY ChangedIs DEF FeedInv, Following, VolumeTyped, AllRecs
  <2>2. KnownAs(index, r, volume[r].name, ambiguous)
    BY <2>1 DEF FeedInv, Current
  <2>3. RefLookup(index, r) \in Ents(index, r)
    BY <2>1, <2>2, LookupIsEntry DEF FeedInv, KnownAs
  <2> QED
    BY <2>2, <2>3, EntriesAre DEF KnownAs
<1> QED
  BY <1>1, FeedAlwaysFollows, PTL

(* At every moment the three passes of logical_children_inner list a        *)
(* visible entry under exactly the directory that logical_parent names for  *)
(* it, so a walk down the tree and a walk up from an entry never disagree.  *)
THEOREM ChildrenAlwaysAgree == Spec => []ChildrenAgreeWithParents
<1>1. FeedInv => ChildrenAgreeWithParents
  <2> SUFFICES ASSUME Typed(index), NEW d
               PROVE  {i \in Visible(index) : ParentOf(index, i) = d}
                         = {Children(index, d)[n] : n \in DOMAIN Children(index, d)}
    BY DEF ChildrenAgreeWithParents, FeedInv
  <2> QED
    BY ChildrenAre, ChildrenAgree
<1> QED
  BY <1>1, FeedAlwaysFollows, PTL
-----------------------------------------------------------------------------
(* The index as a mirror of the volume, where no record number is reused,   *)
(* nothing stays open and nothing moves into a new directory                *)

Tree(vol) ==
    /\ VolumeTyped(vol)
    /\ Root \in DOMAIN vol /\ vol[Root] = [parent |-> NoRec, name |-> RootName]
    /\ \A r \in DOMAIN vol \ {Root} : vol[r].parent \in DOMAIN vol

(* One entry for each file, under that of its directory.                    *)
OneEach(ix, vol) ==
    \A r \in Recs :
       IF r \in DOMAIN vol
       THEN RefLookup(ix, r) # NoIdx /\ Ents(ix, r) = {RefLookup(ix, r)}
       ELSE RefLookup(ix, r) = NoIdx /\ Ents(ix, r) = {}

InPlace(ix, vol) ==
    \A r \in DOMAIN vol :
       LET i == RefLookup(ix, r) IN
       /\ NameOf(ix, i) = vol[r].name
       /\ IF r = Root THEN ~ LooksUp(ix, i) /\ LinkOf(ix, i) = NoIdx
          ELSE ParentOf(ix, i) = RefLookup(ix, vol[r].parent)

Faithful(ix, vol) == OneEach(ix, vol) /\ InPlace(ix, vol)

(* The volume was v at the last poll, and pend tells what has changed.      *)
Behind(v, vol, pend) ==
    /\ Root \notin ChangedIn(pend)
    /\ \A r \in Recs \ ChangedIn(pend) :
          /\ r \in DOMAIN v <=> r \in DOMAIN vol
          /\ r \in DOMAIN v => v[r] = vol[r]
    /\ \A r \in ChangedIn(pend) :
          ~ pend[r].deleted =>
             IF pend[r].created THEN r \notin DOMAIN v
                                ELSE r \in DOMAIN v /\ vol[r].parent \in DOMAIN v

LEMMA RootLink ==
    ASSUME NEW ix, Typed(ix), LookupInv(ix), NEW v, Tree(v), Faithful(ix, v)
    PROVE  ParentOf(ix, RefLookup(ix, Root)) = NoIdx
<1>1. Root \in DOMAIN v /\ Root \in Recs /\ Root \in AllRecs
  BY FeedAssumption DEF Tree, AllRecs
<1>2. RefLookup(ix, Root) \in Indices(ix)
  BY <1>1, LookupInIndex DEF Faithful, OneEach
<1> QED
  BY <1>1, <1>2, ParentIsLink DEF Faithful, InPlace

ShownIn(ix) ==
    [r \in {r \in Recs : Ents(ix, r) # {}} |->
        LET i == CHOOSE i \in Ents(ix, r) : TRUE
            p == ParentOf(ix, i) IN
        IF Cardinality(Ents(ix, r)) # 1 THEN [parent |-> r, name |-> NoRec]
        ELSE [parent |-> IF p = NoIdx THEN NoRec ELSE RefOf(ix, p),
              name |-> NameOf(ix, i)]]

LEMMA FaithfulShows ==
    ASSUME NEW ix, Typed(ix), LookupInv(ix), NEW v, Tree(v), Faithful(ix, v)
    PROVE  ShownIn(ix) = v
<1>1. {r \in Recs : Ents(ix, r) # {}} = DOMAIN v
  <2>1. DOMAIN v \subseteq Recs
    BY DEF Tree, VolumeTyped
  <2> QED
    BY <2>1 DEF Faithful, OneEach
<1>2. ASSUME NEW r \in DOMAIN v PROVE ShownIn(ix)[r] = v[r]
  <2> DEFINE i == RefLookup(ix, r)
             p == ParentOf(ix, i)
  <2>1. r \in Recs /\ v[r] \in Files
    BY DEF Tree, VolumeTyped
  <2>2. Ents(ix, r) = {i}
    BY <2>1 DEF Faithful, OneEach
  <2>3. Cardinality(Ents(ix, r)) = 1 /\ (CHOOSE j \in Ents(ix, r) : TRUE) = i
    <3>1. Cardinality({i}) = 1
      BY FS_Singleton
    <3> QED
      BY <2>2, <3>1
  <2>4. NameOf(ix, i) = v[r].name
    BY DEF Faithful, InPlace
  <2>5. (IF p = NoIdx THEN NoRec ELSE RefOf(ix, p)) = v[r].parent
    <3>1. CASE r = Root
      BY <3>1, RootLink DEF Tree
    <3>2. CASE r # Root
      <4>1. p = RefLookup(ix, v[r].parent)
        BY <3>2 DEF Faithful, InPlace
      <4>2. v[r].parent \in DOMAIN v
        BY <3>2 DEF Tree
      <4>3. v[r].parent \in Recs /\ v[r].parent \in AllRecs
        BY <4>2 DEF Tree, VolumeTyped, AllRecs
      <4>4. RefLookup(ix, v[r].parent) # NoIdx
        BY <4>2, <4>3 DEF Faithful, OneEach
      <4> QED
        BY <4>1, <4>3, <4>4, LookupInIndex
    <3> QED
      BY <3>1, <3>2
  <2>6. v[r] = [parent |-> v[r].parent, name |-> v[r].name]
    BY <2>1 DEF Files
  <2> HIDE DEF i
  <2>7. ShownIn(ix)[r] = [parent |-> IF p = NoIdx THEN NoRec ELSE RefOf(ix, p),
                          name |-> NameOf(ix, i)]
    BY <1>1, <2>3 DEF ShownIn
  <2> QED
    BY <2>4, <2>5, <2>6, <2>7
<1>3. v = [r \in DOMAIN v |-> v[r]]
  BY DEF Tree, VolumeTyped
<1>4. ShownIn(ix) = [r \in DOMAIN v |-> ShownIn(ix)[r]]
  BY <1>1 DEF ShownIn
<1> QED
  BY <1>2, <1>3, <1>4

LEMMA ShownIs == Shown = ShownIn(index)
BY DEF Shown, ShownIn, EntryShown, Entries, Ents

-----------------------------------------------------------------------------
(* The first mirror                                                         *)

LEMMA BaseIsFaithful ==
    ASSUME NEW base, NEW vol, Tree(vol), BaseOfVolume(base, vol),
           NEW map \in RefMaps(RefPairs(base))
    PROVE  Faithful(FromBase(base, map), vol)
<1> DEFINE y == FromBase(base, map)
           D == 1 .. Len(base)
<1>1. /\ Typed(y) /\ LookupInv(y) /\ Visible(y) = D /\ Indices(y) = D
      /\ \A n \in D : /\ RefOf(y, n) = base[n].ref /\ NameOf(y, n) = base[n].name
                      /\ ~ LooksUp(y, n) /\ LinkOf(y, n) = base[n].parent
  BY FromBaseIs DEF BaseOfVolume
<1>2. \A n \in D : RefLookup(y, base[n].ref) = n /\ n # NoIdx
  BY BaseFindsAll DEF NoIdx
<1> HIDE DEF y, D
<1>3. /\ \A m, n \in D : m # n => base[m].ref # base[n].ref
      /\ \A r \in DOMAIN vol : \E n \in D : base[n].ref = r
      /\ \A n \in D :
          /\ base[n].ref \in DOMAIN vol /\ base[n].name = vol[base[n].ref].name
          /\ IF base[n].ref = Root THEN base[n].parent = NoIdx
             ELSE base[n].parent \in D /\ base[base[n].parent].ref = vol[base[n].ref].parent
  BY DEF BaseOfVolume, D
<1>4. \A r : Ents(y, r) = {n \in D : base[n].ref = r}
  BY <1>1 DEF Ents
<1>5. OneEach(y, vol)
  <2> SUFFICES ASSUME NEW r \in Recs
               PROVE  IF r \in DOMAIN vol
                      THEN RefLookup(y, r) # NoIdx /\ Ents(y, r) = {RefLookup(y, r)}
                      ELSE RefLookup(y, r) = NoIdx /\ Ents(y, r) = {}
    BY DEF OneEach
  <2>1. CASE r \in DOMAIN vol
    <3>1. PICK n \in D : base[n].ref = r
      BY <1>3, <2>1
    <3>2. RefLookup(y, r) = n /\ n # NoIdx
      BY <1>2, <3>1
    <3>3. Ents(y, r) = {n}
      BY <1>3, <1>4, <3>1
    <3> QED
      BY <2>1, <3>2, <3>3
  <2>2. CASE r \notin DOMAIN vol
    <3>1. Ents(y, r) = {}
      BY <1>3, <1>4, <2>2
    <3>2. RefLookup(y, r) = NoIdx
      BY <1>1, <3>1, LookupIsEntry DEF AllRecs
    <3> QED
      BY <2>2, <3>1, <3>2
  <2> QED
    BY <2>1, <2>2
<1>6. InPlace(y, vol)
  <2> SUFFICES ASSUME NEW r \in DOMAIN vol
               PROVE  LET i == RefLookup(y, r) IN
                      /\ NameOf(y, i) = vol[r].name
                      /\ IF r = Root THEN ~ LooksUp(y, i) /\ LinkOf(y, i) = NoIdx
                         ELSE ParentOf(y, i) = RefLookup(y, vol[r].parent)
    BY DEF InPlace
  <2>1. PICK n \in D : base[n].ref = r
    BY <1>3
  <2>2. RefLookup(y, r) = n
    BY <1>2, <2>1
  <2>3. NameOf(y, n) = vol[r].name /\ ~ LooksUp(y, n) /\ LinkOf(y, n) = base[n].parent
    BY <1>1, <1>3, <2>1
  <2>4. ParentOf(y, n) = base[n].parent
    BY <1>1, <2>3, ParentIsLink
  <2>5. r # Root => base[n].parent = RefLookup(y, vol[r].parent)
    BY <1>2, <1>3, <2>1
  <2>6. r = Root => base[n].parent = NoIdx
    BY <1>3, <2>1
  <2> QED
    BY <2>2, <2>3, <2>4, <2>5, <2>6
<1> QED
  BY <1>5, <1>6 DEF Faithful, y

LEMMA InitIsTree == Tree(InitVolume)
BY InitVolumeIs, FeedAssumption DEF Tree

LEMMA NothingBehind ==
    ASSUME NEW vol PROVE Behind(vol, vol, NothingPending)
BY NothingIsPending DEF Behind
-----------------------------------------------------------------------------
(* Compaction is invisible                                                  *)

LEMMA CompactStaysFaithful ==
    ASSUME NEW x, Typed(x), LookupInv(x), NEW v, Tree(v), Faithful(x, v),
           NEW map \in RefMaps(RefPairs(RebuiltBase(x)))
    PROVE  Faithful(FromBase(RebuiltBase(x), map), v)
<1> DEFINE y == FromBase(RebuiltBase(x), map)
           at == Ascending(Visible(x))
<1>1. Rebuilt(y, x, at) /\ y.overrides = EmptyFunction
  BY RebuildEffect
<1> HIDE DEF y, at
<1>2. /\ Typed(y) /\ LookupInv(y) /\ Enumerates(at, Visible(x))
      /\ Visible(y) = DOMAIN at /\ Indices(y) = DOMAIN at
      /\ \A n \in DOMAIN at : RefOf(y, n) = RefOf(x, at[n])
  BY <1>1 DEF Rebuilt
<1>3. /\ \A n \in DOMAIN at : at[n] \in Visible(x)
      /\ \A m, n \in DOMAIN at : at[m] = at[n] => m = n
  <2>1. DOMAIN at \in SUBSET Nat /\ \A n \in DOMAIN at : at[n] \in Nat
    BY <1>2 DEF Enumerates
  <2>2. \A m, n \in DOMAIN at : m < n => at[m] < at[n]
    BY <1>2 DEF Enumerates
  <2>3. \A m, n \in Nat : m = n \/ m < n \/ n < m
    OBVIOUS
  <2>4. \A m, n \in Nat : m < n => m # n
    OBVIOUS
  <2>5. \A m, n \in DOMAIN at : at[m] = at[n] => m = n
    BY <2>1, <2>2, <2>3, <2>4
  <2> QED
    BY <1>2, <2>5 DEF Enumerates
<1>4. \A r, n : n \in Ents(y, r) <=> n \in DOMAIN at /\ at[n] \in Ents(x, r)
  BY <1>2, <1>3 DEF Ents
<1>5. ASSUME NEW r \in Recs, r \in DOMAIN v
      PROVE  /\ RefLookup(y, r) \in DOMAIN at /\ RefLookup(y, r) # NoIdx
             /\ at[RefLookup(y, r)] = RefLookup(x, r)
  <2>1. /\ r \in AllRecs /\ RefLookup(x, r) # NoIdx
        /\ Ents(x, r) = {RefLookup(x, r)}
    BY <1>5 DEF AllRecs, Faithful, OneEach
  <2>2. \A i \in Ents(x, r) \cup Ents(y, r) : i \in Nat
    BY <1>2, Lengths DEF Ents, Visible, Indices, Enumerates
  <2>3. LastEntry(x, r, RefLookup(x, r))
    BY <2>1, <2>2 DEF LastEntry
  <2>4. \A i, j \in Ents(y, r) : i = j
    BY <1>3, <1>4, <2>1
  <2>5. RefLookup(y, r) # NoIdx => LastEntry(y, r, RefLookup(y, r))
    <3>1. RefLookup(y, r) # NoIdx => RefLookup(y, r) \in Ents(y, r)
      BY <1>2, <2>1, LookupIsEntry
    <3> QED
      BY <2>2, <2>4, <3>1 DEF LastEntry
  <2>6. /\ RefLookup(y, r) \in DOMAIN at /\ RefLookup(y, r) # NoIdx
        /\ at[RefLookup(y, r)] = RefLookup(x, r)
    BY <1>1, <2>1, <2>3, <2>5, RebuildKeepsLookup
  <2> QED
    BY <2>6
<1>6. OneEach(y, v)
  <2> SUFFICES ASSUME NEW r \in Recs
               PROVE  IF r \in DOMAIN v
                      THEN RefLookup(y, r) # NoIdx /\ Ents(y, r) = {RefLookup(y, r)}
                      ELSE RefLookup(y, r) = NoIdx /\ Ents(y, r) = {}
    BY DEF OneEach
  <2>1. CASE r \in DOMAIN v
    <3>1. Ents(x, r) = {RefLookup(x, r)}
      BY <2>1 DEF Faithful, OneEach
    <3>2. \A n : n \in Ents(y, r) <=> n = RefLookup(y, r)
      BY <1>3, <1>4, <1>5, <2>1, <3>1
    <3> QED
      BY <1>5, <2>1, <3>2
  <2>2. CASE r \notin DOMAIN v
    <3>1. Ents(y, r) = {}
      BY <1>4, <2>2 DEF Faithful, OneEach
    <3>2. RefLookup(y, r) = NoIdx
      BY <1>2, <3>1, LookupIsEntry DEF AllRecs
    <3> QED
      BY <2>2, <3>1, <3>2
  <2> QED
    BY <2>1, <2>2
<1>7. ASSUME NEW r \in DOMAIN v
      PROVE  LET m == RefLookup(y, r) IN
             /\ NameOf(y, m) = v[r].name
             /\ IF r = Root THEN ~ LooksUp(y, m) /\ LinkOf(y, m) = NoIdx
                ELSE ParentOf(y, m) = RefLookup(y, v[r].parent)
  <2> DEFINE i == RefLookup(x, r)
             m == RefLookup(y, r)
             p == ParentOf(x, i)
  <2>1. r \in Recs
    BY DEF Tree, VolumeTyped
  <2>2. m \in DOMAIN at /\ at[m] = i
    BY <1>5, <2>1
  <2> HIDE DEF m
  <2>3. /\ NameOf(y, m) = NameOf(x, i) /\ ~ LooksUp(y, m)
        /\ IF p \in Visible(x) THEN LinkOf(y, m) \in DOMAIN at /\ at[LinkOf(y, m)] = p
                               ELSE LinkOf(y, m) = NoIdx
    BY <1>1, <2>2 DEF Rebuilt
  <2>4. NameOf(y, m) = v[r].name
    BY <2>3 DEF Faithful, InPlace
  <2>5. ParentOf(y, m) = LinkOf(y, m)
    BY <1>2, <2>2, <2>3, ParentIsLink
  <2>6. CASE r = Root
    <3>1. p = NoIdx
      BY <2>6, RootLink
    <3>2. NoIdx \notin Visible(x)
      BY Lengths DEF Visible, Indices, NoIdx
    <3> QED
      BY <2>3, <2>4, <2>6, <3>1, <3>2 DEF m
  <2>7. CASE r # Root
    <3> DEFINE d == v[r].parent
    <3>1. p = RefLookup(x, d) /\ d \in DOMAIN v
      BY <2>7 DEF Faithful, InPlace, Tree
    <3>2. d \in Recs
      BY <3>1 DEF Tree, VolumeTyped
    <3> HIDE DEF d, p
    <3>3. p \in Visible(x)
      <4>1. p \in Ents(x, d)
        BY <3>1, <3>2 DEF Faithful, OneEach
      <4> QED
        BY <4>1 DEF Ents
    <3>4. LinkOf(y, m) \in DOMAIN at /\ at[LinkOf(y, m)] = p
      BY <2>3, <3>3 DEF p
    <3>5. RefLookup(y, d) \in DOMAIN at /\ at[RefLookup(y, d)] = p
      BY <1>5, <3>1, <3>2
    <3>6. LinkOf(y, m) = RefLookup(y, d)
      BY <1>3, <3>4, <3>5
    <3> QED
      BY <2>4, <2>5, <2>7, <3>6 DEF m, d
  <2> QED
    BY <2>6, <2>7
<1>8. InPlace(y, v)
  BY <1>7 DEF InPlace
<1> QED
  BY <1>6, <1>8 DEF Faithful, y

-----------------------------------------------------------------------------
(* A poll catches up                                                        *)

(* A directory that is there before and after keeps its entry at every      *)
(* moment of a poll.                                                        *)
LEMMA StaysFound ==
    ASSUME NEW x, NEW v, NEW vol, NEW pend, NEW ev, NEW n, NEW f, NEW k \in 0 .. n,
           Faithful(x, v), Behind(v, vol, pend), PollOf(pend, ev, n),
           PendingTrue(vol, pend), SoFar(f, x, ev, k),
           NEW d \in Recs, d \in DOMAIN v, d \in DOMAIN vol
    PROVE  RefLookup(f[k], d) = RefLookup(x, d)
<1>1. n \in Nat /\ d \in AllRecs
  BY DEF PollOf, AllRecs
<1>2. CASE \A j \in 1 .. k : ev[j].ref # d
  BY <1>1, <1>2 DEF SoFar, SameFor
<1>3. CASE \E j \in 1 .. k : ev[j].ref = d
  <2>1. PICK j \in 1 .. k : ev[j].ref = d
    BY <1>3
  <2>2. j \in 1 .. n
    BY <1>1
  <2>3. d \in ChangedIn(pend) /\ ev[j] = EventIn(pend, d)
    BY <2>1, <2>2 DEF PollOf
  <2>4. ~ pend[d].deleted
    BY <2>3 DEF PendingTrue
  <2>5. ~ pend[d].created
    BY <2>3, <2>4 DEF Behind
  <2> DEFINE e == ev[j]
  <2>6. e.kind = "rename" /\ e.ref = d
    BY <2>3, <2>4, <2>5 DEF EventIn
  <2>7. PICK p : Outcome(f[k], x, e, p)
    BY <2>1 DEF SoFar
  <2>8. RefLookup(x, d) # NoIdx
    BY DEF Faithful, OneEach
  <2> HIDE DEF e
  <2> QED
    BY <2>6, <2>7, <2>8 DEF Outcome, Renamed
<1> QED
  BY <1>2, <1>3

LEMMA LinkIsRecord ==
    ASSUME NEW ix, Typed(ix), NEW i \in Indices(ix), LooksUp(ix, i)
    PROVE  LinkOf(ix, i) \in AllRecs
<1>1. ~ (i <= BaseLen(ix)) /\ i \notin DOMAIN ix.moved
  BY Lengths DEF LooksUp, Indices
<1>2. i - BaseLen(ix) \in 1 .. Len(ix.inserted) /\ ix.inserted \in Seq(InsertedRecords)
  BY <1>1, Lengths DEF Indices, Typed
<1>3. InsertedAt(ix, i) \in InsertedRecords
  BY <1>2, Lengths DEF InsertedAt
<1> QED
  BY <1>1, <1>3 DEF LinkOf, InsertedRecords

LEMMA PollIsFaithful ==
    ASSUME NEW x, Typed(x), LookupInv(x), NEW v, NEW vol, NEW opened, NEW pend,
           NEW ev, NEW n, Following(vol, opened, pend), Tree(v), Tree(vol),
           Faithful(x, v), Behind(v, vol, pend), PollOf(pend, ev, n)
    PROVE  Faithful(ApplyEvents(x, ev), vol)
<1> DEFINE y == ApplyEvents(x, ev)
<1>1. n \in Nat /\ PendingTrue(vol, pend) /\ DOMAIN vol \subseteq Recs
  BY DEF PollOf, Following, VolumeTyped
<1>2. PICK f : /\ y = f[n] /\ \A k \in 0 .. n : SoFar(f, x, ev, k)
  <2>1. /\ n \in Nat /\ ev \in [1 .. n -> Events]
        /\ \A j, k \in 1 .. n : j # k => ev[j].ref # ev[k].ref
    BY DEF PollOf
  <2> QED
    BY <2>1, PollEffect
<1> HIDE DEF y
<1>3. SoFar(f, x, ev, n) /\ n \in 0 .. n
  BY <1>1, <1>2
<1>4. Typed(y) /\ LookupInv(y)
  BY <1>2, <1>3 DEF SoFar
<1>5. ASSUME NEW d \in DOMAIN v, d \in DOMAIN vol, NEW k \in 0 .. n
      PROVE  RefLookup(f[k], d) = RefLookup(x, d)
  <2>1. d \in Recs /\ SoFar(f, x, ev, k)
    BY <1>1, <1>2, <1>5
  <2> QED
    BY <1>1, <1>5, <2>1, StaysFound
<1>6. ASSUME NEW r \in Recs \ ChangedIn(pend) PROVE SameFor(y, x, r)
  <2>1. \A j \in 1 .. n : ev[j].ref # r
    BY DEF PollOf
  <2> QED
    BY <1>2, <1>3, <2>1 DEF SoFar, AllRecs
<1>7. ASSUME NEW r \in ChangedIn(pend)
      PROVE  \E j \in 1 .. n : /\ ev[j] = EventIn(pend, r)
                               /\ Outcome(y, x, ev[j], RefLookup(f[j - 1], ev[j].parent))
  <2>1. PICK j \in 1 .. n : ev[j].ref = r /\ ev[j] = EventIn(pend, r)
    BY DEF PollOf
  <2>2. Outcome(y, x, ev[j], RefLookup(f[j - 1], ev[j].parent))
    BY <1>2, <1>3 DEF SoFar
  <2> QED
    BY <2>1, <2>2
<1>8. OneEach(y, vol)
  <2> SUFFICES ASSUME NEW r \in Recs
               PROVE  IF r \in DOMAIN vol
                      THEN RefLookup(y, r) # NoIdx /\ Ents(y, r) = {RefLookup(y, r)}
                      ELSE RefLookup(y, r) = NoIdx /\ Ents(y, r) = {}
    BY DEF OneEach
  <2>1. IF r \in DOMAIN v
        THEN RefLookup(x, r) # NoIdx /\ Ents(x, r) = {RefLookup(x, r)}
        ELSE RefLookup(x, r) = NoIdx /\ Ents(x, r) = {}
    BY DEF Faithful, OneEach
  <2>2. CASE r \notin ChangedIn(pend)
    <3>1. RefLookup(y, r) = RefLookup(x, r) /\ Ents(y, r) = Ents(x, r)
      BY <1>6, <2>2 DEF SameFor
    <3>2. r \in DOMAIN v <=> r \in DOMAIN vol
      BY <2>2 DEF Behind
    <3> QED
      BY <2>1, <3>1, <3>2
  <2>3. CASE r \in ChangedIn(pend)
    <3>1. PICK j \in 1 .. n :
             /\ ev[j] = EventIn(pend, r)
             /\ Outcome(y, x, ev[j], RefLookup(f[j - 1], ev[j].parent))
      BY <1>7, <2>3
    <3> DEFINE e == ev[j]
               p == RefLookup(f[j - 1], ev[j].parent)
    <3>2. /\ e.ref = r
          /\ e.kind = IF pend[r].deleted THEN "delete"
                      ELSE IF pend[r].created THEN "create" ELSE "rename"
      BY <3>1 DEF EventIn
    <3>3. Outcome(y, x, e, p)
      BY <3>1
    <3> HIDE DEF e, p
    <3>4. CASE pend[r].deleted
      <4>1. Gone(y, x, e) /\ r \notin DOMAIN vol
        BY <2>3, <3>2, <3>3, <3>4, <1>1 DEF Outcome, PendingTrue
      <4> QED
        BY <2>1, <3>2, <4>1 DEF Gone
    <3>5. CASE ~ pend[r].deleted /\ pend[r].created
      <4>1. New(y, x, e) /\ r \in DOMAIN vol /\ r \notin DOMAIN v
        BY <2>3, <3>2, <3>3, <3>5, <1>1 DEF Outcome, IsNew, PendingTrue, Behind
      <4> QED
        BY <2>1, <3>2, <4>1 DEF New
    <3>6. CASE ~ pend[r].deleted /\ ~ pend[r].created
      <4>1. r \in DOMAIN vol /\ r \in DOMAIN v
        BY <2>3, <3>6, <1>1 DEF PendingTrue, Behind
      <4>2. Renamed(y, x, e, p)
        BY <2>1, <3>2, <3>3, <3>6, <4>1 DEF Outcome
      <4> QED
        BY <2>1, <3>2, <4>1, <4>2 DEF Renamed
    <3> QED
      BY <3>4, <3>5, <3>6
  <2> QED
    BY <2>2, <2>3
<1>9. ASSUME NEW r \in DOMAIN vol
      PROVE  LET i == RefLookup(y, r) IN
             /\ NameOf(y, i) = vol[r].name
             /\ IF r = Root THEN ~ LooksUp(y, i) /\ LinkOf(y, i) = NoIdx
                ELSE ParentOf(y, i) = RefLookup(y, vol[r].parent)
  <2> DEFINE i == RefLookup(y, r)
             d == vol[r].parent
  <2>1. r \in Recs
    BY <1>1
  <2>2. i \in Indices(y) /\ i \in Ents(y, r)
    BY <1>8, <2>1 DEF OneEach, Ents, Visible
  <2>3. r # Root => d \in DOMAIN vol /\ d \in Recs /\ d \in AllRecs
    BY <1>1 DEF Tree, AllRecs
  <2>4. d \in DOMAIN v /\ d \in DOMAIN vol => RefLookup(y, d) = RefLookup(x, d)
    BY <1>2, <1>3, <1>5
  <2> HIDE DEF i, d
  <2>5. ParentOf(y, i) = IF LooksUp(y, i) THEN RefLookup(y, LinkOf(y, i)) ELSE LinkOf(y, i)
    BY <1>4, <2>2, ParentIsLink
  <2>6. CASE r \notin ChangedIn(pend)
    <3>1. r \in DOMAIN v /\ v[r] = vol[r]
      BY <2>1, <2>6 DEF Behind
    <3>2. SameFor(y, x, r)
      BY <1>6, <2>1, <2>6
    <3>3. i = RefLookup(x, r) /\ i \in Ents(x, r)
      BY <2>2, <3>2 DEF SameFor, i
    <3>4. /\ NameOf(y, i) = NameOf(x, i)
          /\ LooksUp(y, i) <=> LooksUp(x, i)
          /\ LinkOf(y, i) = LinkOf(x, i)
      BY <3>2, <3>3 DEF SameFor
    <3>5. /\ NameOf(x, i) = vol[r].name
          /\ IF r = Root THEN ~ LooksUp(x, i) /\ LinkOf(x, i) = NoIdx
             ELSE ParentOf(x, i) = RefLookup(x, d)
      BY <3>1, <3>3 DEF Faithful, InPlace, d
    <3>6. CASE r = Root
      BY <3>4, <3>5, <3>6 DEF i
    <3>7. CASE r # Root
      <4>1. d \in DOMAIN v
        BY <3>1, <3>7 DEF Tree, d
      <4>2. RefLookup(y, d) = RefLookup(x, d) /\ RefLookup(x, d) # NoIdx
        BY <2>3, <2>4, <3>7, <4>1 DEF Faithful, OneEach
      <4>3. i \in Indices(x)
        BY <3>3 DEF Ents, Visible
      <4>4. ParentOf(x, i) = IF LooksUp(x, i) THEN RefLookup(x, LinkOf(x, i))
                             ELSE LinkOf(x, i)
        BY <4>3, ParentIsLink
      <4>5. CASE ~ LooksUp(x, i)
        <5>1. ParentOf(y, i) = RefLookup(y, d)
          BY <2>5, <3>4, <3>5, <3>7, <4>2, <4>4, <4>5
        <5> QED
          BY <3>4, <3>5, <3>7, <5>1 DEF i, d
      <4>6. CASE LooksUp(x, i)
        <5> DEFINE q == LinkOf(x, i)
        <5>1. q \in AllRecs
          BY <4>3, <4>6, LinkIsRecord
        <5>2. RefLookup(x, q) = RefLookup(x, d)
          BY <3>5, <3>7, <4>4, <4>6
        <5>3. q = d
          BY <2>3, <3>7, <4>2, <5>1, <5>2, LookupInIndex
        <5>4. ParentOf(y, i) = RefLookup(y, d)
          BY <2>5, <3>4, <4>6, <5>3
        <5> QED
          BY <3>4, <3>5, <3>7, <5>4 DEF i, d
      <4> QED
        BY <4>5, <4>6
    <3> QED
      BY <3>6, <3>7
  <2>7. CASE r \in ChangedIn(pend)
    <3>1. PICK j \in 1 .. n :
             /\ ev[j] = EventIn(pend, r)
             /\ Outcome(y, x, ev[j], RefLookup(f[j - 1], ev[j].parent))
      BY <1>7, <2>7
    <3> DEFINE e == ev[j]
               p == RefLookup(f[j - 1], ev[j].parent)
    <3>2. ~ pend[r].deleted /\ pend[r].name = vol[r].name /\ pend[r].parent = d
      BY <1>1, <2>7 DEF PendingTrue, d
    <3>3. /\ e.ref = r /\ e.name = vol[r].name /\ e.parent = d
          /\ e.kind = IF pend[r].created THEN "create" ELSE "rename"
      BY <3>1, <3>2 DEF EventIn
    <3>4. Outcome(y, x, e, p) /\ p = RefLookup(f[j - 1], d) /\ r # Root
      BY <2>7, <3>1, <3>3 DEF Behind
    <3>5. j - 1 \in 0 .. n
      BY <1>1
    <3> HIDE DEF e, p
    <3>6. CASE pend[r].created
      <4>1. New(y, x, e)
        BY <3>3, <3>4, <3>6 DEF Outcome, IsNew
      <4>2. NameOf(y, i) = vol[r].name /\ LooksUp(y, i) /\ LinkOf(y, i) = d
        BY <3>3, <4>1 DEF New, i
      <4>3. ParentOf(y, i) = RefLookup(y, d)
        BY <2>5, <4>2
      <4> QED
        BY <3>4, <4>2, <4>3 DEF i, d
    <3>7. CASE ~ pend[r].created
      <4>1. r \in DOMAIN v /\ d \in DOMAIN v
        BY <2>7, <3>2, <3>7 DEF Behind, d
      <4>2. RefLookup(x, r) # NoIdx /\ RefLookup(x, d) # NoIdx
        BY <2>1, <2>3, <3>4, <4>1 DEF Faithful, OneEach
      <4>3. p = RefLookup(x, d)
        BY <1>5, <2>3, <3>4, <3>5, <4>1
      <4>4. Renamed(y, x, e, p)
        BY <3>3, <3>4, <3>7, <4>2 DEF Outcome
      <4>5. NameOf(y, i) = vol[r].name /\ ~ LooksUp(y, i) /\ LinkOf(y, i) = p
        BY <3>3, <4>2, <4>3, <4>4 DEF Renamed, i
      <4>6. ParentOf(y, i) = RefLookup(y, d)
        BY <2>3, <2>4, <2>5, <3>4, <4>1, <4>3, <4>5
      <4> QED
        BY <3>4, <4>5, <4>6 DEF i, d
    <3> QED
      BY <3>6, <3>7
  <2> QED
    BY <2>6, <2>7
<1>10. InPlace(y, vol)
  BY <1>9 DEF InPlace
<1> QED
  BY <1>8, <1>10 DEF Faithful, y
-----------------------------------------------------------------------------
(* The mirror is kept                                                       *)

MirrorInv ==
    /\ FeedInv
    /\ open = {} /\ Tree(volume)
    /\ \E v : Tree(v) /\ Faithful(index, v) /\ Behind(v, volume, pending)

(* What a change that follows the rules leaves of the comparison.           *)
LEMMA ComesBehind ==
    ASSUME NEW v, NEW vol, NEW pend \in [Recs -> Changes], NEW pend2,
           NEW r \in Recs, r # Root, NEW f \in Files,
           NEW type \in {"created", "renamed"},
           Behind(v, vol, pend), PendingTrue(vol, pend),
           Emits(pend2, pend, r, f.parent, f.name, type),
           type = "created" => r \notin DOMAIN v,
           type = "renamed" => IF pend[r].created THEN r \notin DOMAIN v
                               ELSE r \in DOMAIN v /\ f.parent \in DOMAIN v
    PROVE  Behind(v, Put(vol, r, f), pend2)
<1> DEFINE vol2 == Put(vol, r, f)
<1>1. /\ DOMAIN vol2 = DOMAIN vol \cup {r} /\ vol2[r] = f
      /\ \A q \in DOMAIN vol : q # r => vol2[q] = vol[q]
  BY DEF Put
<1> HIDE DEF vol2
<1>2. f.parent \in AllRecs /\ f.name \in AllNames /\ r \in Recs
  BY DEF Files
<1>3. /\ ChangedIn(pend2) = ChangedIn(pend) \cup {r}
      /\ pend2[r].created <=> type = "created" \/ (type = "renamed" /\ pend[r].created)
      /\ \A q \in Recs : q # r => pend2[q] = pend[q]
  <2> DEFINE p == f.parent
             name == f.name
  <2>1. p \in AllRecs /\ name \in AllNames /\ Emits(pend2, pend, r, p, name, type)
    BY <1>2
  <2> HIDE DEF p, name
  <2> QED
    BY <2>1, EmitEffect, type \in {"created", "deleted", "renamed"}
<1>4. Root \notin ChangedIn(pend2)
  BY <1>3 DEF Behind
<1>5. ASSUME NEW q \in Recs \ ChangedIn(pend2)
      PROVE  /\ q \in DOMAIN v <=> q \in DOMAIN vol2
             /\ q \in DOMAIN v => v[q] = vol2[q]
  BY <1>1, <1>3 DEF Behind
<1>6. ASSUME NEW q \in ChangedIn(pend2), ~ pend2[q].deleted
      PROVE  IF pend2[q].created THEN q \notin DOMAIN v
             ELSE q \in DOMAIN v /\ vol2[q].parent \in DOMAIN v
  <2>1. CASE q = r
    <3>1. CASE type = "created"
      BY <1>3, <2>1, <3>1
    <3>2. CASE type = "renamed"
      BY <1>1, <1>3, <2>1, <3>2
    <3> QED
      BY <3>1, <3>2
  <2>2. CASE q # r
    <3>1. q \in ChangedIn(pend) /\ q \in Recs /\ pend2[q] = pend[q]
      BY <1>3, <2>2 DEF ChangedIn
    <3>2. IF pend[q].created THEN q \notin DOMAIN v
          ELSE q \in DOMAIN v /\ vol[q].parent \in DOMAIN v
      BY <1>6, <3>1 DEF Behind
    <3>3. vol2[q] = vol[q]
      <4>1. ~ pend[q].deleted /\ q \in DOMAIN vol
        BY <1>6, <3>1 DEF PendingTrue
      <4> QED
        BY <1>1, <2>2, <4>1
    <3> QED
      BY <3>1, <3>2, <3>3
  <2> QED
    BY <2>1, <2>2
<1> QED
  BY <1>4, <1>5, <1>6 DEF Behind, vol2
LEMMA GoesBehind ==
    ASSUME NEW v, NEW vol, NEW pend \in [Recs -> Changes], NEW pend2,
           NEW r \in Recs \ {Root}, NEW p \in AllRecs, NEW name \in AllNames,
           PendingTrue(vol, pend), Behind(v, vol, pend),
           Emits(pend2, pend, r, p, name, "deleted")
    PROVE  Behind(v, [s \in DOMAIN vol \ {r} |-> vol[s]], pend2)
<1> DEFINE vol2 == [s \in DOMAIN vol \ {r} |-> vol[s]]
<1>1. DOMAIN vol2 = DOMAIN vol \ {r} /\ \A q \in DOMAIN vol \ {r} : vol2[q] = vol[q]
  OBVIOUS
<1> HIDE DEF vol2
<1>2. /\ ChangedIn(pend2) = ChangedIn(pend) \cup {r} /\ pend2[r].deleted
      /\ \A q \in Recs : q # r => pend2[q] = pend[q]
  <2>1. /\ ChangedIn(pend2) = ChangedIn(pend) \cup {r}
        /\ pend2[r].deleted <=> "deleted" = "deleted"
        /\ \A q \in Recs : q # r => pend2[q] = pend[q]
    BY EmitEffect
  <2> QED
    BY <2>1
<1>3. Root \notin ChangedIn(pend2)
  BY <1>2 DEF Behind
<1>4. ASSUME NEW q \in Recs \ ChangedIn(pend2)
      PROVE  /\ q \in DOMAIN v <=> q \in DOMAIN vol2
             /\ q \in DOMAIN v => v[q] = vol2[q]
  BY <1>1, <1>2 DEF Behind
<1>5. ASSUME NEW q \in ChangedIn(pend2), ~ pend2[q].deleted
      PROVE  IF pend2[q].created THEN q \notin DOMAIN v
             ELSE q \in DOMAIN v /\ vol2[q].parent \in DOMAIN v
  <2>1. q # r
    BY <1>2, <1>5
  <2>2. q \in ChangedIn(pend) /\ q \in Recs /\ pend2[q] = pend[q]
    BY <1>2, <2>1 DEF ChangedIn
  <2>3. q \in DOMAIN vol
    BY <1>5, <2>2 DEF PendingTrue
  <2> QED
    BY <1>1, <1>5, <2>1, <2>2, <2>3 DEF Behind
<1> QED
  BY <1>3, <1>4, <1>5 DEF Behind, vol2

LEMMA PutKeepsTree ==
    ASSUME NEW vol, Tree(vol), NEW r \in Recs \ {Root}, NEW f \in Files,
           f.parent \in DOMAIN vol
    PROVE  Tree(Put(vol, r, f))
<1> DEFINE vol2 == Put(vol, r, f)
<1>1. VolumeTyped(vol2)
  BY DEF VolumeTyped, Tree, Put
<1>2. /\ DOMAIN vol2 = DOMAIN vol \cup {r} /\ vol2[r] = f
      /\ \A q \in DOMAIN vol : q # r => vol2[q] = vol[q]
  BY DEF Put
<1> HIDE DEF vol2
<1> QED
  BY <1>1, <1>2 DEF Tree, vol2

LEMMA RemoveKeepsTree ==
    ASSUME NEW vol, Tree(vol), NEW r \in Recs \ {Root},
           \A s \in DOMAIN vol : vol[s].parent # r
    PROVE  Tree([s \in DOMAIN vol \ {r} |-> vol[s]])
BY DEF Tree, VolumeTyped

LEMMA MirrorInit == Init => MirrorInv
<1> SUFFICES ASSUME Init PROVE MirrorInv
  OBVIOUS
<1>1. PICK base, map : /\ base \in InitBases /\ map \in RefMaps(RefPairs(base))
                       /\ index = FromBase(base, map)
  BY DEF Init
<1>2. Faithful(index, InitVolume) /\ Tree(InitVolume)
  BY <1>1, InitBaseIs, InitIsTree, BaseIsFaithful
<1>3. volume = InitVolume /\ open = {} /\ pending = NothingPending
  BY DEF Init, NothingPending
<1>4. Behind(InitVolume, volume, pending)
  BY <1>3, NothingBehind
<1> QED
  BY <1>2, <1>3, <1>4, FeedInit DEF MirrorInv

LEMMA CreateMirrors ==
    ASSUME Env = {}, MirrorInv, NEW r \in Recs \ {Root}, NEW parent \in Dirs,
           NEW name \in Names, Create(r, parent, name)
    PROVE  open' = {} /\ Tree(volume') /\ index' = index
           /\ \A v : Behind(v, volume, pending) => Behind(v, volume', pending')
<1> DEFINE f == [parent |-> parent, name |-> name]
<1>1. f \in Files /\ f.parent = parent /\ f.name = name
  BY FeedAssumption DEF Files, AllRecs, AllNames
<1>2. /\ volume' = Put(volume, r, f) /\ index' = index /\ open' = open
      /\ Emits(pending', pending, r, f.parent, f.name, "created")
      /\ r \notin DOMAIN volume /\ ~ pending[r].deleted /\ parent \in DOMAIN volume
  BY DEF Create, Step, Emit, Emits
<1> HIDE DEF f
<1>3. /\ Tree(volume) /\ open = {} /\ pending \in [Recs -> Changes]
      /\ PendingTrue(volume, pending)
  BY DEF MirrorInv, FeedInv, Following
<1>4. Tree(volume')
  BY <1>1, <1>2, <1>3, PutKeepsTree
<1>5. ASSUME NEW v, Behind(v, volume, pending) PROVE Behind(v, volume', pending')
  <2>1. r \notin ChangedIn(pending)
    BY <1>2, <1>3 DEF PendingTrue
  <2>2. r \notin DOMAIN v
    BY <1>2, <1>5, <2>1 DEF Behind
  <2>3. "created" \in {"created", "renamed"} /\ "created" # "renamed"
    OBVIOUS
  <2>4. Behind(v, Put(volume, r, f), pending')
    BY <1>1, <1>2, <1>3, <1>5, <2>2, <2>3, ComesBehind
  <2> QED
    BY <1>2, <2>4
<1> QED
  BY <1>2, <1>3, <1>4, <1>5

LEMMA RenameMirrors ==
    ASSUME Env = {}, MirrorInv, NEW r \in Recs \ {Root}, NEW parent \in Dirs,
           NEW name \in Names, Rename(r, parent, name)
    PROVE  open' = {} /\ Tree(volume') /\ index' = index
           /\ \A v : Behind(v, volume, pending) => Behind(v, volume', pending')
<1> DEFINE f == [parent |-> parent, name |-> name]
<1>1. f \in Files /\ f.parent = parent /\ f.name = name
  BY FeedAssumption DEF Files, AllRecs, AllNames
<1>2. /\ Tree(volume) /\ open = {} /\ pending \in [Recs -> Changes]
      /\ PendingTrue(volume, pending)
  BY DEF MirrorInv, FeedInv, Following
<1>3. /\ volume' = [volume EXCEPT ![r] = f] /\ index' = index /\ open' = {}
      /\ Emits(pending', pending, r, f.parent, f.name, "renamed")
      /\ r \in DOMAIN volume /\ ~ pending[parent].created /\ parent \in DOMAIN volume
  BY <1>2 DEF Rename, Step, Emit, Emits
<1> HIDE DEF f
<1>4. volume' = Put(volume, r, f)
  <2>1. DOMAIN volume \cup {r} = DOMAIN volume
    BY <1>3
  <2> QED
    BY <1>2, <1>3, <2>1 DEF Put, Tree, VolumeTyped
<1>5. Tree(volume')
  <2>1. f.parent \in DOMAIN volume
    BY <1>1, <1>3
  <2> QED
    BY <1>1, <1>2, <1>4, <2>1, PutKeepsTree
<1>6. ASSUME NEW v, Behind(v, volume, pending) PROVE Behind(v, volume', pending')
  <2>1. parent \in Recs
    BY <1>2, <1>3 DEF Tree, VolumeTyped
  <2>2. parent \in DOMAIN v
    <3>1. CASE parent \in ChangedIn(pending)
      <4>1. ~ pending[parent].deleted
        BY <1>2, <1>3, <3>1 DEF PendingTrue
      <4> QED
        BY <1>3, <1>6, <3>1, <4>1 DEF Behind
    <3>2. CASE parent \notin ChangedIn(pending)
      BY <1>3, <1>6, <2>1, <3>2 DEF Behind
    <3> QED
      BY <3>1, <3>2
  <2>3. IF pending[r].created THEN r \notin DOMAIN v ELSE r \in DOMAIN v
    <3>1. CASE r \in ChangedIn(pending)
      <4>1. ~ pending[r].deleted
        BY <1>2, <1>3, <3>1 DEF PendingTrue
      <4> QED
        BY <1>6, <3>1, <4>1 DEF Behind
    <3>2. CASE r \notin ChangedIn(pending)
      BY <1>3, <1>6, <3>2 DEF Behind, ChangedIn
    <3> QED
      BY <3>1, <3>2
  <2>4. "renamed" \in {"created", "renamed"} /\ "renamed" # "created"
    OBVIOUS
  <2>5. Emits(pending', pending, r, f.parent, f.name, "renamed")
    BY <1>3
  <2>6. Behind(v, Put(volume, r, f), pending')
    BY <1>1, <1>2, <1>6, <2>2, <2>3, <2>4, <2>5, ComesBehind
  <2> QED
    BY <1>4, <2>6
<1> QED
  BY <1>3, <1>5, <1>6

LEMMA DeleteMirrors ==
    ASSUME MirrorInv, NEW r \in Recs \ {Root}, Delete(r)
    PROVE  open' = {} /\ Tree(volume') /\ index' = index
           /\ \A v : Behind(v, volume, pending) => Behind(v, volume', pending')
<1>1. /\ Tree(volume) /\ open = {} /\ pending \in [Recs -> Changes]
      /\ PendingTrue(volume, pending)
  BY DEF MirrorInv, FeedInv, Following
<1>2. /\ volume' = [s \in DOMAIN volume \ {r} |-> volume[s]]
      /\ index' = index /\ open' = {} /\ r \in DOMAIN volume
      /\ \A s \in DOMAIN volume : volume[s].parent # r
      /\ Emits(pending', pending, r, volume[r].parent, volume[r].name, "deleted")
  BY <1>1 DEF Delete, Step, Emit, Emits
<1>3. volume[r].parent \in AllRecs /\ volume[r].name \in AllNames
  BY <1>1, <1>2 DEF Tree, VolumeTyped, Files
<1>4. Tree(volume')
  BY <1>1, <1>2, RemoveKeepsTree
<1>5. ASSUME NEW v, Behind(v, volume, pending) PROVE Behind(v, volume', pending')
  BY <1>1, <1>2, <1>3, <1>5, GoesBehind
<1> QED
  BY <1>2, <1>4, <1>5

(* A step that changes the volume leaves the index and what it shows; a     *)
(* poll makes it show the volume; a compaction leaves both.                 *)
LEMMA MirrorStep ==
    ASSUME Env = {}, MirrorInv, [Next]_vars
    PROVE  /\ MirrorInv'
           /\ \/ Shown' = Shown
              \/ Shown' = volume /\ volume' = volume
<1>1. FeedInv'
  BY FeedStep DEF MirrorInv
<1>2. PICK v : Tree(v) /\ Faithful(index, v) /\ Behind(v, volume, pending)
  BY DEF MirrorInv
<1>3. Typed(index) /\ LookupInv(index) /\ Typed(index') /\ LookupInv(index')
  BY <1>1 DEF MirrorInv, FeedInv
<1>4. Shown' = ShownIn(index')
  BY DEF Shown, ShownIn, EntryShown, Entries, Ents
<1>5. Shown = v
  BY <1>2, <1>3, FaithfulShows, ShownIs
<1>6. ASSUME open' = {}, Tree(volume'), index' = index, Behind(v, volume', pending')
      PROVE  MirrorInv' /\ Shown' = Shown
  BY <1>1, <1>2, <1>4, <1>6, ShownIs DEF MirrorInv
<1>7. ASSUME NEW r \in Recs \ {Root}, NEW parent \in Dirs, NEW name \in Names,
             Create(r, parent, name) \/ Rename(r, parent, name)
      PROVE  MirrorInv' /\ Shown' = Shown
  BY <1>2, <1>6, <1>7, CreateMirrors, RenameMirrors
<1>8. ASSUME NEW r \in Recs \ {Root}, Delete(r)
      PROVE  MirrorInv' /\ Shown' = Shown
  BY <1>2, <1>6, <1>8, DeleteMirrors
<1>9. ASSUME NEW r \in Recs \ {Root}, Close(r) PROVE FALSE
  BY <1>9 DEF MirrorInv, Close
<1>10. ASSUME Poll PROVE MirrorInv' /\ Shown' = volume /\ volume' = volume
  <2>1. PICK ev, n : /\ PollOf(pending, ev, n) /\ index' = ApplyEvents(index, ev)
                     /\ pending' = NothingPending /\ volume' = volume /\ open' = open
    BY <1>10, PollApplies DEF MirrorInv
  <2>2. Following(volume, open, pending) /\ Tree(volume) /\ open = {}
    BY DEF MirrorInv, FeedInv
  <2>3. Faithful(index', volume)
    BY <1>2, <1>3, <2>1, <2>2, PollIsFaithful
  <2>4. Shown' = volume
    BY <1>3, <1>4, <2>2, <2>3, FaithfulShows
  <2>5. Behind(volume, volume, NothingPending)
    BY NothingBehind
  <2> QED
    BY <1>1, <2>1, <2>2, <2>3, <2>4, <2>5 DEF MirrorInv
<1>11. ASSUME Compact PROVE MirrorInv' /\ Shown' = Shown
  <2>1. PICK map \in RefMaps(RefPairs(RebuiltBase(index))) :
           /\ index' = FromBase(RebuiltBase(index), map)
           /\ volume' = volume /\ open' = open /\ pending' = pending
    BY <1>11 DEF Compact
  <2>2. Faithful(index', v)
    BY <1>2, <1>3, <2>1, CompactStaysFaithful
  <2>3. Shown' = v
    BY <1>2, <1>3, <1>4, <2>2, FaithfulShows
  <2> QED
    BY <1>1, <1>2, <1>5, <2>1, <2>2, <2>3 DEF MirrorInv
<1>12. ASSUME UNCHANGED vars PROVE MirrorInv' /\ Shown' = Shown
  BY <1>2, <1>6, <1>12 DEF vars, MirrorInv
<1> QED
  BY <1>7, <1>8, <1>9, <1>10, <1>11, <1>12 DEF Next

(* While no record number is reused, no new file left open and nothing      *)
(* moved into a new directory between two polls, the feed implements        *)
(* Mirror: a change of the volume leaves what the index shows, a poll makes *)
(* it show exactly the volume (each file once, under its name, in the       *)
(* directory it is in) whatever order the events are applied in, and a      *)
(* compaction cannot be seen.                                               *)
THEOREM AlwaysMirrors == ASSUME Env = {} PROVE Spec => MirrorsVolume
<1>1. Init => MirrorInv
  BY MirrorInit
<1>2. MirrorInv /\ [Next]_vars => MirrorInv'
  BY MirrorStep
<1>3. Init => M!Init
  <2> SUFFICES ASSUME Init PROVE Shown = volume
    BY DEF M!Init
  <2>1. PICK base, map : /\ base \in InitBases /\ map \in RefMaps(RefPairs(base))
                         /\ index = FromBase(base, map)
    BY DEF Init
  <2>2. Faithful(index, InitVolume) /\ Tree(InitVolume)
    BY <2>1, InitBaseIs, InitIsTree, BaseIsFaithful
  <2>3. Typed(index) /\ LookupInv(index)
    BY FeedInit DEF FeedInv
  <2>4. volume = InitVolume
    BY DEF Init
  <2> QED
    BY <2>2, <2>3, <2>4, FaithfulShows, ShownIs
<1>4. MirrorInv /\ [Next]_vars => [M!Change \/ M!Sync]_<<volume, Shown>>
  BY MirrorStep DEF M!Change, M!Sync
<1> QED
  BY <1>1, <1>2, <1>3, <1>4, PTL DEF Spec, MirrorsVolume, M!Spec
-----------------------------------------------------------------------------
(* Files by their depth: every file is below the root, and has a path of    *)
(* its own                                                                  *)

(* g makes a value of the number of a step and the value before it.         *)
Stepping(g, N, A) == \A n \in 1 .. N : \A x \in A : g[<<n, x>>] \in A

Iterates(f, N, A, a, g) ==
    /\ f \in [0 .. N -> A] /\ f[0] = a
    /\ \A n \in 1 .. N : f[n] = g[<<n, f[n - 1]>>]

LEMMA StepsExist ==
    ASSUME NEW N \in Nat, NEW A, NEW a \in A, NEW g, Stepping(g, N, A)
    PROVE  \E f : Iterates(f, N, A, a, g)
<1> USE DEF Stepping
<1> DEFINE Good(f, k) == /\ f \in [0 .. N -> A] /\ f[0] = a
                         /\ \A n \in 1 .. k : f[n] = g[<<n, f[n - 1]>>]
           S == {k \in 0 .. N : \E f : Good(f, k)}
<1>1. 0 \in S
  <2>1. Good([n \in 0 .. N |-> a], 0)
    OBVIOUS
  <2> HIDE DEF Good
  <2> QED
    BY <2>1
<1>2. ASSUME NEW k \in 1 .. N, k - 1 \in S PROVE k \in S
  <2>1. PICK f : Good(f, k - 1)
    BY <1>2
  <2> DEFINE v == g[<<k, f[k - 1]>>]
             h == [n \in 0 .. N |-> IF n = k THEN v ELSE f[n]]
  <2>2. v \in A
    <3>1. k - 1 \in 0 .. N
      OBVIOUS
    <3>2. f[k - 1] \in A
      BY <2>1, <3>1
    <3> QED
      BY <3>2
  <2>3. h \in [0 .. N -> A] /\ h[0] = a
    <3> HIDE DEF v
    <3> QED
      BY <2>1, <2>2
  <2>4. ASSUME NEW n \in 1 .. k PROVE h[n] = g[<<n, h[n - 1]>>]
    <3>1. h[n - 1] = f[n - 1]
      OBVIOUS
    <3>2. CASE n = k
      <4>1. h[k] = v
        OBVIOUS
      <4> HIDE DEF h
      <4> QED
        BY <3>1, <3>2, <4>1
    <3>3. CASE n # k
      <4>1. n \in 1 .. k - 1 /\ h[n] = f[n]
        BY <3>3
      <4>2. f[n] = g[<<n, f[n - 1]>>]
        BY <2>1, <4>1
      <4> QED
        BY <3>1, <4>1, <4>2
    <3> QED
      BY <3>2, <3>3
  <2>5. Good(h, k)
    <3> HIDE DEF h
    <3> QED
      BY <2>3, <2>4
  <2> HIDE DEF h, Good
  <2> QED
    BY <2>5
<1>3. N \in S
  <2>1. \A k \in 0 .. N : k \in S
    <3> HIDE DEF S
    <3> QED
      BY <1>1, <1>2, F!UpTo
  <2> HIDE DEF S
  <2> QED
    BY <2>1
<1> QED
  BY <1>3 DEF Iterates

Depths(vol, d) ==
    /\ d \in [DOMAIN vol -> Nat]
    /\ d[Root] = 0
    /\ \A r \in DOMAIN vol \ {Root} : d[r] = d[vol[r].parent] + 1

Unique(vol) == \A r, s \in DOMAIN vol : vol[r] = vol[s] => r = s

InDirs(vol) == \A r \in DOMAIN vol \ {Root} : vol[r].parent \in Dirs

LEMMA DepthsReached ==
    ASSUME NEW vol, Tree(vol), NEW d, Depths(vol, d), NEW r \in DOMAIN vol,
           NEW k \in 0 .. d[r]
    PROVE  \E s \in DOMAIN vol : d[s] = k
<1> DEFINE n == d[r]
           S == {j \in 0 .. n : \E s \in DOMAIN vol : d[s] = n - j}
<1>1. n \in Nat
  BY DEF Depths
<1>2. 0 \in S
  <2>1. n - 0 = n
    BY <1>1
  <2> QED
    BY <1>1, <2>1
<1>3. ASSUME NEW j \in 1 .. n, j - 1 \in S PROVE j \in S
  <2>1. PICK s \in DOMAIN vol : d[s] = n - (j - 1)
    BY <1>3
  <2> HIDE DEF n
  <2>2. d[s] # 0 /\ j \in Nat
    BY <1>1, <2>1
  <2>3. s # Root
    BY <2>2 DEF Depths
  <2>4. vol[s].parent \in DOMAIN vol /\ d[s] = d[vol[s].parent] + 1
    BY <2>3 DEF Depths, Tree
  <2>5. d[vol[s].parent] \in Nat
    BY <2>4 DEF Depths
  <2>6. d[vol[s].parent] = n - j
    BY <1>1, <2>1, <2>2, <2>4, <2>5
  <2> QED
    BY <2>4, <2>6
<1>4. \A j \in 0 .. n : j \in S
  <2> HIDE DEF S, n
  <2> QED
    BY <1>1, <1>2, <1>3, F!UpTo
<1> HIDE DEF n
<1>5. n - k \in 0 .. n /\ n - (n - k) = k
  BY <1>1 DEF n
<1>6. n - k \in S
  <2> HIDE DEF S
  <2> QED
    BY <1>4, <1>5
<1> QED
  BY <1>5, <1>6

(* A file has no more files above it than there are others.                 *)
LEMMA DepthBound ==
    ASSUME NEW vol, Tree(vol), NEW d, Depths(vol, d), NEW r \in DOMAIN vol
    PROVE  /\ IsFiniteSet(DOMAIN vol) /\ d[r] \in Nat
           /\ Cardinality(DOMAIN vol) \in Nat /\ Cardinality(Recs) \in Nat
           /\ d[r] < Cardinality(DOMAIN vol)
           /\ d[r] < Cardinality(Recs)
<1> DEFINE n == d[r]
           f == [k \in 0 .. n |-> CHOOSE s \in DOMAIN vol : d[s] = k]
<1>1. DOMAIN vol \in SUBSET Recs /\ IsFiniteSet(Recs)
  BY FeedAssumption DEF Tree, VolumeTyped
<1>2. /\ IsFiniteSet(DOMAIN vol)
      /\ Cardinality(DOMAIN vol) <= Cardinality(Recs)
      /\ Cardinality(DOMAIN vol) \in Nat /\ Cardinality(Recs) \in Nat
  BY <1>1, FS_Subset, FS_CardinalityType
<1>3. n \in Nat
  BY DEF Depths
<1>4. ASSUME NEW k \in 0 .. n PROVE f[k] \in DOMAIN vol /\ d[f[k]] = k
  <2>1. \E s \in DOMAIN vol : d[s] = k
    BY DepthsReached
  <2> QED
    BY <2>1
<1>5. f \in Injection(0 .. n, DOMAIN vol)
  <2>1. f \in [0 .. n -> DOMAIN vol]
    BY <1>4
  <2>2. ASSUME NEW a \in 0 .. n, NEW b \in 0 .. n, f[a] = f[b] PROVE a = b
    <3> HIDE DEF f
    <3> QED
      BY <1>4, <2>2
  <2> HIDE DEF f
  <2> QED
    BY <2>1, <2>2 DEF Injection, IsInjective
<1>6. Cardinality(0 .. n) <= Cardinality(DOMAIN vol)
  <2> HIDE DEF f, n
  <2> QED
    BY <1>2, <1>5, FS_Injection
<1> HIDE DEF n, f
<1>7. Cardinality(0 .. n) = n + 1
  <2>1. 0 \in Int /\ n \in Int
    BY <1>3
  <2>2. Cardinality(0 .. n) = IF 0 > n THEN 0 ELSE n - 0 + 1
    BY ONLY <2>1, FS_Interval
  <2> QED
    BY <1>3, <2>2
<1>8. n < Cardinality(DOMAIN vol) /\ n < Cardinality(Recs)
  <2> DEFINE a == Cardinality(DOMAIN vol)
             b == Cardinality(Recs)
  <2>1. n + 1 <= a /\ a <= b /\ a \in Nat /\ b \in Nat
    BY <1>2, <1>6, <1>7
  <2> HIDE DEF a, b
  <2>2. n < a /\ n < b
    BY <1>3, <2>1
  <2> QED
    BY <2>2 DEF a, b
<1> QED
  BY <1>2, <1>3, <1>8 DEF n

(* The names from the root to each file.                                    *)
Paths(vol, d, p) ==
    /\ p \in [DOMAIN vol -> Seq(AllNames)]
    /\ p[Root] = <<RootName>>
    /\ \A r \in DOMAIN vol : Len(p[r]) = d[r] + 1
    /\ \A r \in DOMAIN vol \ {Root} : p[r] = Append(p[vol[r].parent], vol[r].name)

LEMMA PathsExist ==
    ASSUME NEW vol, Tree(vol), NEW d, Depths(vol, d)
    PROVE  \E p : Paths(vol, d, p)
<1> DEFINE N == Cardinality(Recs)
           A == [DOMAIN vol -> Seq(AllNames)]
           next(x) == [r \in DOMAIN vol |->
                         IF r = Root THEN <<RootName>>
                         ELSE Append(x[vol[r].parent], vol[r].name)]
           g == [t \in (1 .. N) \X A |-> next(t[2])]
           a == [r \in DOMAIN vol |-> <<RootName>>]
<1>1. Root \in DOMAIN vol /\ RootName \in AllNames
  BY DEF Tree, AllNames
<1>2. N \in Nat /\ \A r \in DOMAIN vol : d[r] \in Nat /\ d[r] < N
  BY <1>1, DepthBound
<1>3. ASSUME NEW r \in DOMAIN vol \ {Root}
      PROVE  /\ vol[r].parent \in DOMAIN vol /\ vol[r].name \in AllNames
             /\ d[vol[r].parent] \in Nat /\ d[r] = d[vol[r].parent] + 1
  BY DEF Tree, VolumeTyped, Files, Depths
<1>4. a \in A
  BY <1>1
<1>5. ASSUME NEW n \in 1 .. N, NEW x \in A PROVE g[<<n, x>>] = next(x) /\ g[<<n, x>>] \in A
  <2>1. next(x) \in A
    <3>1. ASSUME NEW r \in DOMAIN vol
          PROVE  (IF r = Root THEN <<RootName>>
                  ELSE Append(x[vol[r].parent], vol[r].name)) \in Seq(AllNames)
      <4>1. CASE r = Root
        BY <1>1, <4>1
      <4>2. CASE r # Root
        <5>1. x[vol[r].parent] \in Seq(AllNames) /\ vol[r].name \in AllNames
          BY <1>3, <4>2
        <5> QED
          BY <4>2, <5>1
      <4> QED
        BY <4>1, <4>2
    <3> QED
      BY <3>1
  <2>2. g[<<n, x>>] = next(x)
    <3>1. <<n, x>> \in (1 .. N) \X A
      OBVIOUS
    <3> HIDE DEF A, N
    <3> QED
      BY <3>1
  <2> QED
    BY <2>1, <2>2
<1>6. PICK f : Iterates(f, N, A, a, g)
  <2> HIDE DEF g, A, a, N, next
  <2>1. Stepping(g, N, A)
    BY <1>5 DEF Stepping
  <2>2. N \in Nat
    BY <1>2
  <2> QED
    BY <1>4, <2>1, <2>2, StepsExist
<1>7. ASSUME NEW n \in 1 .. N PROVE f[n - 1] \in A /\ f[n] = next(f[n - 1])
  <2>1. n - 1 \in 0 .. N
    BY <1>2
  <2>2. f[n - 1] \in A
    BY <1>6, <2>1 DEF Iterates
  <2> HIDE DEF g, A, next, N
  <2> QED
    BY <1>5, <1>6, <2>2 DEF Iterates
<1> DEFINE p == [r \in DOMAIN vol |-> f[d[r]][r]]
<1> HIDE DEF g, N
<1>8. p \in [DOMAIN vol -> Seq(AllNames)]
  <2>1. ASSUME NEW r \in DOMAIN vol PROVE f[d[r]][r] \in Seq(AllNames)
    <3>1. d[r] \in 0 .. N
      BY <1>2
    <3>2. f[d[r]] \in A
      BY <1>6, <3>1 DEF Iterates
    <3> QED
      BY <3>2
  <2> QED
    BY <2>1
<1>9. p[Root] = <<RootName>>
  <2>1. p[Root] = f[0][Root]
    BY <1>1 DEF Depths
  <2>2. f[0][Root] = <<RootName>>
    BY <1>1, <1>6 DEF Iterates
  <2> QED
    BY <2>1, <2>2
<1>10. ASSUME NEW r \in DOMAIN vol \ {Root}
       PROVE  p[r] = Append(p[vol[r].parent], vol[r].name)
  <2> DEFINE q == vol[r].parent
  <2>1. d[r] \in 1 .. N /\ d[r] - 1 = d[q] /\ q \in DOMAIN vol
    <3> DEFINE e == d[r]
               c == d[q]
    <3>1. /\ q \in DOMAIN vol /\ d[q] \in Nat /\ d[r] = d[q] + 1
          /\ e \in Nat /\ e < N /\ N \in Nat /\ c \in Nat /\ e = c + 1
      BY <1>2, <1>3
    <3>2. e \in 1 .. N /\ e - 1 = c
      <4> HIDE DEF e, c, q
      <4> QED
        BY <3>1
    <3> QED
      BY <3>1, <3>2
  <2>2. f[d[r]] = next(f[d[r] - 1])
    <3> HIDE DEF next, A
    <3> QED
      BY <1>7, <2>1
  <2>3. p[r] = next(f[d[q]])[r]
    BY <2>1, <2>2
  <2>4. next(f[d[q]])[r] = Append(f[d[q]][q], vol[r].name)
    OBVIOUS
  <2> QED
    BY <2>1, <2>3, <2>4
<1> HIDE DEF p
<1>11. ASSUME NEW r \in DOMAIN vol PROVE Len(p[r]) = d[r] + 1
  <2> DEFINE S == {k \in 0 .. N : \A s \in DOMAIN vol : d[s] = k => Len(p[s]) = k + 1}
  <2>1. 0 \in S
    <3>1. ASSUME NEW s \in DOMAIN vol, d[s] = 0 PROVE Len(p[s]) = 0 + 1
      <4>1. s = Root
        BY <1>3, <3>1
      <4>2. Len(<<RootName>>) = 1 /\ 0 + 1 = 1
        OBVIOUS
      <4>3. p[s] = <<RootName>>
        BY <1>9, <4>1
      <4> QED
        BY <4>2, <4>3
    <3> QED
      BY <1>2, <3>1
  <2>2. ASSUME NEW k \in 1 .. N, k - 1 \in S PROVE k \in S
    <3>1. ASSUME NEW s \in DOMAIN vol, d[s] = k PROVE Len(p[s]) = k + 1
      <4>1. s # Root
        BY <3>1 DEF Depths
      <4>2. vol[s].parent \in DOMAIN vol /\ d[vol[s].parent] = k - 1
        BY <1>3, <3>1, <4>1
      <4>3. Len(p[vol[s].parent]) = (k - 1) + 1
        BY <2>2, <4>2
      <4>4. p[s] = Append(p[vol[s].parent], vol[s].name)
              /\ p[vol[s].parent] \in Seq(AllNames)
        BY <1>8, <1>10, <4>1, <4>2
      <4>5. Len(p[s]) = Len(p[vol[s].parent]) + 1
        BY <4>4
      <4> QED
        BY <4>3, <4>5
    <3> QED
      BY <3>1
  <2>3. \A k \in 0 .. N : k \in S
    <3> HIDE DEF S
    <3> QED
      BY <1>2, <2>1, <2>2, F!UpTo
  <2>4. d[r] \in 0 .. N
    BY <1>2
  <2>5. d[r] \in S
    <3> HIDE DEF S
    <3> QED
      BY <2>3, <2>4
  <2> QED
    BY <2>5
<1> QED
  BY <1>8, <1>9, <1>10, <1>11 DEF Paths
(* Two files of a volume with unique names have different paths.            *)
LEMMA PathsDiffer ==
    ASSUME NEW vol, Tree(vol), Unique(vol), NEW d, Depths(vol, d),
           NEW p, Paths(vol, d, p), NEW r \in DOMAIN vol, NEW s \in DOMAIN vol,
           p[r] = p[s]
    PROVE  r = s
<1> DEFINE N == Cardinality(Recs)
           S == {k \in 0 .. N : \A a, b \in DOMAIN vol : d[a] = k /\ p[a] = p[b] => a = b}
<1>1. N \in Nat /\ \A a \in DOMAIN vol : d[a] \in Nat /\ d[a] < N
  <2>1. Root \in DOMAIN vol
    BY DEF Tree
  <2> QED
    BY <2>1, DepthBound
<1>2. ASSUME NEW a \in DOMAIN vol, NEW b \in DOMAIN vol, p[a] = p[b] PROVE d[a] = d[b]
  <2>1. Len(p[a]) = d[a] + 1 /\ Len(p[b]) = d[b] + 1
    BY DEF Paths
  <2>2. d[a] \in Nat /\ d[b] \in Nat
    BY <1>1
  <2> QED
    BY <1>2, <2>1, <2>2
<1>3. ASSUME NEW a \in DOMAIN vol \ {Root}
      PROVE  /\ vol[a].parent \in DOMAIN vol /\ d[a] = d[vol[a].parent] + 1
             /\ d[vol[a].parent] \in Nat /\ d[a] # 0
             /\ p[a] = Append(p[vol[a].parent], vol[a].name)
             /\ p[vol[a].parent] \in Seq(AllNames) /\ vol[a].name \in AllNames
  <2>1. vol[a].parent \in DOMAIN vol /\ vol[a].name \in AllNames
    BY DEF Tree, VolumeTyped, Files
  <2>2. d[vol[a].parent] \in Nat /\ d[a] = d[vol[a].parent] + 1
    BY <1>1, <2>1 DEF Depths
  <2> QED
    BY <2>1, <2>2 DEF Paths
<1>4. 0 \in S
  <2>1. ASSUME NEW a \in DOMAIN vol, NEW b \in DOMAIN vol, d[a] = 0, p[a] = p[b]
        PROVE  a = b
    BY <1>2, <1>3, <2>1
  <2> QED
    BY <1>1, <2>1
<1>5. ASSUME NEW k \in 1 .. N, k - 1 \in S PROVE k \in S
  <2>1. ASSUME NEW a \in DOMAIN vol, NEW b \in DOMAIN vol, d[a] = k, p[a] = p[b]
        PROVE  a = b
    <3> DEFINE x == vol[a].parent
               y == vol[b].parent
    <3>1. d[b] = k /\ a # Root /\ b # Root
      BY <1>2, <2>1 DEF Depths
    <3>2. /\ p[a] = Append(p[x], vol[a].name) /\ p[b] = Append(p[y], vol[b].name)
          /\ p[x] \in Seq(AllNames) /\ p[y] \in Seq(AllNames)
          /\ x \in DOMAIN vol /\ y \in DOMAIN vol
          /\ d[a] = d[x] + 1 /\ d[x] \in Nat
      BY <1>3, <3>1
    <3>3. d[x] = k - 1
      BY <2>1, <3>2
    <3>4. p[x] = p[y] /\ vol[a].name = vol[b].name
      <4> DEFINE u == vol[a].name
                 v == vol[b].name
      <4>1. Append(p[x], u) = Append(p[y], v)
        BY <2>1, <3>2
      <4>3. u \in AllNames /\ v \in AllNames
        BY <1>3, <3>1
      <4> HIDE DEF u, v, x, y
      <4>4. p[x] \in Seq(AllNames) /\ p[y] \in Seq(AllNames)
        BY <3>2
      <4>5. \A s1, s2 \in Seq(AllNames) : \A e1, e2 \in AllNames :
               Append(s1, e1) = Append(s2, e2) => s1 = s2 /\ e1 = e2
        BY AppendInjective
      <4>2. p[x] = p[y] /\ u = v
        BY ONLY <4>1, <4>3, <4>4, <4>5
      <4> QED
        BY <4>2 DEF u, v
    <3>5. x = y
      BY <1>5, <3>2, <3>3, <3>4
    <3>6. vol[a] = vol[b]
      <4>1. vol[a] \in Files /\ vol[b] \in Files
        BY DEF Tree, VolumeTyped
      <4> QED
        BY <3>4, <3>5, <4>1 DEF Files
    <3> QED
      BY <3>6 DEF Unique
  <2> QED
    BY <2>1
<1>6. \A k \in 0 .. N : k \in S
  <2> HIDE DEF S, N
  <2> QED
    BY <1>1, <1>4, <1>5, F!UpTo
<1>7. d[r] \in 0 .. N
  BY <1>1
<1>8. d[r] \in S
  <2> HIDE DEF S
  <2> QED
    BY <1>6, <1>7
<1> QED
  BY <1>8

-----------------------------------------------------------------------------
(* The recursive definitions of the specification, as they unfold.          *)

Climb(vol, r, n) ==
    LET up[k \in 0 .. n] ==
          IF k = 0 THEN {r}
          ELSE LET below == up[k - 1] IN
               below \cup {vol[s].parent : s \in below \ {NoRec}}
    IN up

ClimbStep(vol, below) == below \cup {vol[s].parent : s \in below \ {NoRec}}

LEMMA ClimbIs ==
    ASSUME NEW vol, Tree(vol), NEW r \in DOMAIN vol, NEW n \in Nat
    PROVE  /\ Climb(vol, r, n)[0] = {r}
           /\ \A k \in 1 .. n : Climb(vol, r, n)[k] = ClimbStep(vol, Climb(vol, r, n)[k - 1])
           /\ \A k \in 0 .. n : Climb(vol, r, n)[k] \in SUBSET (DOMAIN vol \cup {NoRec})
<1> DEFINE A == SUBSET (DOMAIN vol \cup {NoRec})
           g == [t \in (1 .. n) \X A |-> ClimbStep(vol, t[2])]
           a == {r}
           Is(up) == up = [k \in 0 .. n |->
                             IF k = 0 THEN {r}
                             ELSE LET below == up[k - 1] IN
                                  below \cup {vol[s].parent : s \in below \ {NoRec}}]
           up == CHOOSE up : Is(up)
<1>1. ASSUME NEW k \in 1 .. n, NEW x \in A
      PROVE  g[<<k, x>>] = ClimbStep(vol, x) /\ g[<<k, x>>] \in A
  <2>1. g[<<k, x>>] = ClimbStep(vol, x)
    <3>1. <<k, x>> \in (1 .. n) \X A
      OBVIOUS
    <3> HIDE DEF A
    <3> QED
      BY <3>1
  <2>2. ASSUME NEW s \in DOMAIN vol PROVE vol[s].parent \in DOMAIN vol \cup {NoRec}
    BY DEF Tree
  <2>3. ClimbStep(vol, x) \in A
    BY <2>2 DEF ClimbStep
  <2> QED
    BY <2>1, <2>3
<1>2. a \in A
  OBVIOUS
<1>3. PICK f : Iterates(f, n, A, a, g)
  <2> HIDE DEF A, a, g
  <2>1. Stepping(g, n, A)
    BY <1>1 DEF Stepping
  <2> QED
    BY <1>2, <2>1, StepsExist
<1>4. /\ f \in [0 .. n -> A] /\ f[0] = {r}
      /\ \A k \in 1 .. n : f[k] = ClimbStep(vol, f[k - 1])
  <2>1. ASSUME NEW k \in 1 .. n PROVE f[k] = ClimbStep(vol, f[k - 1])
    <3>1. k - 1 \in 0 .. n
      OBVIOUS
    <3>2. f[k - 1] \in A
      BY <1>3, <3>1 DEF Iterates
    <3> HIDE DEF A, g
    <3> QED
      BY <1>1, <1>3, <3>2 DEF Iterates
  <2> HIDE DEF A, g
  <2> QED
    BY <1>3, <2>1 DEF Iterates
<1>5. Is(f)
  <2> DEFINE h == [k \in 0 .. n |-> IF k = 0 THEN {r} ELSE ClimbStep(vol, f[k - 1])]
  <2>1. ASSUME NEW k \in 0 .. n PROVE f[k] = h[k]
    BY <1>4
  <2>2. f = h
    <3> HIDE DEF A
    <3>1. f = [k \in 0 .. n |-> f[k]]
      BY <1>4
    <3> QED
      BY <2>1, <3>1
  <2> HIDE DEF A, g
  <2> QED
    BY <2>2 DEF ClimbStep
<1>6. Is(up)
  <2> HIDE DEF Is
  <2> QED
    BY <1>5
<1>7. Climb(vol, r, n) = up
  BY DEF Climb
<1> HIDE DEF up
<1>8. /\ up[0] = {r}
      /\ \A k \in 1 .. n : up[k] = ClimbStep(vol, up[k - 1])
  <2>1. ASSUME NEW k \in 0 .. n
        PROVE  up[k] = IF k = 0 THEN {r} ELSE ClimbStep(vol, up[k - 1])
    BY <1>6 DEF ClimbStep
  <2> QED
    BY <2>1
<1> DEFINE S == {k \in 0 .. n : up[k] \in A}
<1>9. \A k \in 0 .. n : k \in S
  <2>1. 0 \in S
    BY <1>8
  <2>2. ASSUME NEW k \in 1 .. n, k - 1 \in S PROVE k \in S
    <3>1. up[k - 1] \in A
      BY <2>2
    <3>2. up[k] = ClimbStep(vol, up[k - 1])
      BY <1>8
    <3>3. up[k] \in A
      <4> HIDE DEF A, g
      <4> QED
        BY <1>1, <3>1, <3>2
    <3> QED
      BY <3>3
  <2> HIDE DEF S
  <2> QED
    BY <2>1, <2>2, F!UpTo
<1> QED
  BY <1>7, <1>8, <1>9

Above(vol, r) == Climb(vol, r, Cardinality(Recs))[Cardinality(Recs)]

LEMMA AboveIsAtOrAbove == \A r : AtOrAbove(r) = Above(volume, r)
BY DEF AtOrAbove, Above, Climb

(* What is at or above a file is the file and what is at or above the       *)
(* directory it is in.                                                      *)
LEMMA AboveIs ==
    ASSUME NEW vol, Tree(vol), NEW d, Depths(vol, d), NEW r \in DOMAIN vol
    PROVE  /\ Above(vol, Root) = {Root, NoRec}
           /\ r # Root => Above(vol, r) = {r} \cup Above(vol, vol[r].parent)
           /\ Above(vol, r) \subseteq DOMAIN vol \cup {NoRec}
<1> DEFINE N == Cardinality(Recs)
           U(s) == Climb(vol, s, N)
<1>1. /\ N \in Nat /\ Root \in DOMAIN vol /\ NoRec \notin DOMAIN vol
      /\ \A s \in DOMAIN vol : d[s] \in Nat /\ d[s] < N
  <2>1. Root \in DOMAIN vol /\ DOMAIN vol \subseteq Recs /\ NoRec \notin Recs
    BY FeedAssumption DEF Tree, VolumeTyped
  <2> QED
    BY <2>1, DepthBound
<1>2. ASSUME NEW s \in DOMAIN vol
      PROVE  /\ U(s)[0] = {s}
             /\ \A k \in 1 .. N : U(s)[k] = ClimbStep(vol, U(s)[k - 1])
             /\ \A k \in 0 .. N : U(s)[k] \in SUBSET (DOMAIN vol \cup {NoRec})
  BY <1>1, ClimbIs
<1>3. ASSUME NEW s \in DOMAIN vol \ {Root}
      PROVE  /\ vol[s].parent \in DOMAIN vol /\ d[vol[s].parent] \in Nat
             /\ d[s] = d[vol[s].parent] + 1
  <2>1. vol[s].parent \in DOMAIN vol
    BY DEF Tree
  <2> QED
    BY <2>1 DEF Depths
<1>4. vol[Root].parent = NoRec
  BY DEF Tree
<1> HIDE DEF N, U
<1>5. \A k \in 1 .. N : U(Root)[k] = {Root, NoRec}
  <2> DEFINE S == {k \in 0 .. N : k # 0 => U(Root)[k] = {Root, NoRec}}
  <2>1. 0 \in S
    BY <1>1
  <2>2. ASSUME NEW k \in 1 .. N, k - 1 \in S PROVE k \in S
    <3>1. U(Root)[k] = ClimbStep(vol, U(Root)[k - 1])
      BY <1>1, <1>2
    <3>2. U(Root)[k - 1] = {Root} \/ U(Root)[k - 1] = {Root, NoRec}
      <4>1. CASE k = 1
        BY <1>1, <1>2, <4>1
      <4>2. CASE k # 1
        BY <2>2, <4>2
      <4> QED
        BY <4>1, <4>2
    <3>3. ClimbStep(vol, {Root}) = {Root, NoRec}
      BY <1>1, <1>4 DEF ClimbStep
    <3>4. ClimbStep(vol, {Root, NoRec}) = {Root, NoRec}
      <4>1. {Root, NoRec} \ {NoRec} = {Root}
        BY <1>1
      <4> QED
        BY <1>4, <4>1 DEF ClimbStep
    <3> QED
      BY <3>1, <3>2, <3>3, <3>4
  <2>3. \A k \in 0 .. N : k \in S
    <3> HIDE DEF S
    <3> QED
      BY <1>1, <2>1, <2>2, F!UpTo
  <2> QED
    BY <1>1, <2>3
<1>6. ASSUME NEW s \in DOMAIN vol \ {Root}
      PROVE  \A k \in 1 .. N : U(s)[k] = {s} \cup U(vol[s].parent)[k - 1]
  <2> DEFINE q == vol[s].parent
             S == {k \in 0 .. N : k # 0 => U(s)[k] = {s} \cup U(q)[k - 1]}
  <2>1. 0 \in S
    BY <1>1
  <2>2. ASSUME NEW k \in 1 .. N, k - 1 \in S PROVE k \in S
    <3>1. U(s)[k] = ClimbStep(vol, U(s)[k - 1])
      BY <1>2
    <3>2. CASE k = 1
      <4>1. U(s)[0] = {s} /\ U(q)[0] = {q}
        BY <1>2, <1>3
      <4>2. ClimbStep(vol, {s}) = {s} \cup {q}
        <5>1. s # NoRec
          BY <1>1
        <5> QED
          BY <5>1 DEF ClimbStep
      <4>3. U(s)[1] = {s} \cup U(q)[0]
        BY <3>1, <3>2, <4>1, <4>2
      <4> QED
        BY <3>2, <4>3
    <3>3. CASE k # 1
      <4>1. k - 1 \in 1 .. N /\ k - 1 # 0 /\ (k - 1) - 1 = k - 2
        BY <1>1, <3>3
      <4>2. U(s)[k - 1] = {s} \cup U(q)[k - 2]
        BY <2>2, <4>1
      <4>3. U(q)[k - 1] = ClimbStep(vol, U(q)[k - 2])
        BY <1>2, <1>3, <4>1
      <4>4. k - 2 \in 0 .. N
        BY <1>1, <4>1
      <4>5. ClimbStep(vol, {s} \cup U(q)[k - 2]) = {s} \cup ClimbStep(vol, U(q)[k - 2])
        <5> DEFINE b == U(q)[k - 2]
        <5>1. q \in b
          <6> DEFINE T == {j \in 0 .. N : q \in U(q)[j]}
          <6>1. 0 \in T
            BY <1>1, <1>2, <1>3
          <6>2. ASSUME NEW j \in 1 .. N, j - 1 \in T PROVE j \in T
            BY <1>2, <1>3, <6>2 DEF ClimbStep
          <6>3. \A j \in 0 .. N : j \in T
            <7> HIDE DEF T
            <7> QED
              BY <1>1, <6>1, <6>2, F!UpTo
          <6> QED
            BY <4>4, <6>3
        <5>2. s # NoRec /\ q = vol[s].parent
          BY <1>1
        <5> HIDE DEF b, q
        <5>3. ({s} \cup b) \ {NoRec} = {s} \cup (b \ {NoRec})
          BY <5>2
        <5>4. {vol[t].parent : t \in {s} \cup (b \ {NoRec})}
                = {q} \cup {vol[t].parent : t \in b \ {NoRec}}
          BY <5>2
        <5>5. ClimbStep(vol, {s} \cup b) = {s} \cup ClimbStep(vol, b)
          BY <5>1, <5>3, <5>4 DEF ClimbStep
        <5> QED
          BY <5>5 DEF b
      <4>6. U(s)[k] = {s} \cup U(q)[k - 1]
        BY <3>1, <4>2, <4>3, <4>5
      <4> QED
        BY <4>6
    <3> QED
      BY <3>2, <3>3
  <2>3. \A k \in 0 .. N : k \in S
    <3> HIDE DEF S
    <3> QED
      BY <1>1, <2>1, <2>2, F!UpTo
  <2> QED
    BY <1>1, <2>3
<1>7. \A s \in DOMAIN vol : \A k \in 1 .. N : d[s] < k - 1 => U(s)[k] = U(s)[k - 1]
  <2> DEFINE S == {k \in 0 .. N : k # 0 =>
                     \A s \in DOMAIN vol : d[s] < k - 1 => U(s)[k] = U(s)[k - 1]}
  <2>1. 0 \in S
    BY <1>1
  <2>2. ASSUME NEW k \in 1 .. N, k - 1 \in S PROVE k \in S
    <3>1. ASSUME NEW s \in DOMAIN vol, d[s] < k - 1 PROVE U(s)[k] = U(s)[k - 1]
      <4>1. k - 1 \in 1 .. N /\ k - 1 # 0
        BY <1>1, <3>1
      <4>2. CASE s = Root
        BY <1>5, <4>1, <4>2
      <4>3. CASE s # Root
        <5> DEFINE q == vol[s].parent
        <5>1. U(s)[k] = {s} \cup U(q)[k - 1] /\ U(s)[k - 1] = {s} \cup U(q)[(k - 1) - 1]
          BY <1>6, <4>1, <4>3
        <5>2. q \in DOMAIN vol /\ d[q] < (k - 1) - 1
          BY <1>3, <3>1, <4>3
        <5>3. U(q)[k - 1] = U(q)[(k - 1) - 1]
          BY <2>2, <4>1, <5>2
        <5> QED
          BY <5>1, <5>3
      <4> QED
        BY <4>2, <4>3
    <3> QED
      BY <3>1
  <2>3. \A k \in 0 .. N : k \in S
    <3> HIDE DEF S
    <3> QED
      BY <1>1, <2>1, <2>2, F!UpTo
  <2> QED
    BY <1>1, <2>3
<1>8. N \in 1 .. N
  BY <1>1
<1>9. Above(vol, r) = U(r)[N] /\ Above(vol, Root) = U(Root)[N]
  BY DEF Above, U, N
<1>10. ASSUME r # Root PROVE Above(vol, r) = {r} \cup Above(vol, vol[r].parent)
  <2> DEFINE q == vol[r].parent
  <2>1. U(r)[N] = {r} \cup U(q)[N - 1]
    BY <1>6, <1>8, <1>10
  <2>2. d[q] < N - 1 /\ q \in DOMAIN vol
    BY <1>1, <1>3, <1>10
  <2>3. U(q)[N] = U(q)[N - 1]
    BY <1>7, <1>8, <2>2
  <2>4. Above(vol, q) = U(q)[N]
    BY DEF Above, U, N
  <2> QED
    BY <1>9, <2>1, <2>3, <2>4
<1>11. Above(vol, r) \in SUBSET (DOMAIN vol \cup {NoRec})
  <2>1. N \in 0 .. N
    BY <1>1
  <2> QED
    BY <1>2, <1>9, <2>1
<1> QED
  BY <1>5, <1>8, <1>9, <1>10, <1>11
(* VolumePath, for any volume and number of steps.                          *)
NameStep(vol, below) ==
    IF below.at = NoRec THEN below
    ELSE [at    |-> vol[below.at].parent,
          names |-> <<vol[below.at].name>> \o below.names]

Names0(r) == [at |-> r, names |-> << >>]

NamesUp(vol, r, n) ==
    LET up[k \in 0 .. n] ==
          IF k = 0 THEN [at |-> r, names |-> << >>]
          ELSE LET below == up[k - 1] IN
               IF below.at = NoRec THEN below
               ELSE [at    |-> vol[below.at].parent,
                     names |-> <<vol[below.at].name>> \o below.names]
    IN up

LEMMA VolumePathIs ==
    \A r : VolumePath(r) = NamesUp(volume, r, Cardinality(Recs))[Cardinality(Recs)].names
BY DEF VolumePath, NamesUp

LEMMA NamesUpIs ==
    ASSUME NEW vol, Tree(vol), NEW r \in DOMAIN vol, NEW n \in Nat
    PROVE  /\ NamesUp(vol, r, n)[0] = Names0(r)
           /\ \A k \in 1 .. n : NamesUp(vol, r, n)[k] = NameStep(vol, NamesUp(vol, r, n)[k - 1])
<1> DEFINE A == [at : DOMAIN vol \cup {NoRec}, names : Seq(AllNames)]
           g == [t \in (1 .. n) \X A |-> NameStep(vol, t[2])]
           a == Names0(r)
           Is(up) == up = [k \in 0 .. n |->
                             IF k = 0 THEN [at |-> r, names |-> << >>]
                             ELSE LET below == up[k - 1] IN
                                  IF below.at = NoRec THEN below
                                  ELSE [at    |-> vol[below.at].parent,
                                        names |-> <<vol[below.at].name>> \o below.names]]
           up == CHOOSE up : Is(up)
<1>1. ASSUME NEW k \in 1 .. n, NEW x \in A
      PROVE  g[<<k, x>>] = NameStep(vol, x) /\ g[<<k, x>>] \in A
  <2>1. g[<<k, x>>] = NameStep(vol, x)
    <3>1. <<k, x>> \in (1 .. n) \X A
      OBVIOUS
    <3> HIDE DEF A
    <3> QED
      BY <3>1
  <2>2. ASSUME NEW s \in DOMAIN vol
        PROVE vol[s].parent \in DOMAIN vol \cup {NoRec} /\ vol[s].name \in AllNames
    BY DEF Tree, VolumeTyped, Files
  <2>3. NameStep(vol, x) \in A
    <3>1. CASE x.at = NoRec
      BY <3>1 DEF NameStep
    <3>2. CASE x.at # NoRec
      <4>1. x.at \in DOMAIN vol /\ x.names \in Seq(AllNames)
        BY <3>2
      <4>2. <<vol[x.at].name>> \in Seq(AllNames)
        BY <2>2, <4>1
      <4>3. <<vol[x.at].name>> \o x.names \in Seq(AllNames)
        BY <4>1, <4>2, ConcatProperties
      <4> QED
        BY <2>2, <3>2, <4>1, <4>3 DEF NameStep
    <3> QED
      BY <3>1, <3>2
  <2> QED
    BY <2>1, <2>3
<1>2. a \in A
  BY DEF Names0
<1>3. PICK f : Iterates(f, n, A, a, g)
  <2> HIDE DEF A, a, g
  <2>1. Stepping(g, n, A)
    BY <1>1 DEF Stepping
  <2> QED
    BY <1>2, <2>1, StepsExist
<1>4. /\ f \in [0 .. n -> A] /\ f[0] = Names0(r)
      /\ \A k \in 1 .. n : f[k] = NameStep(vol, f[k - 1])
  <2>1. ASSUME NEW k \in 1 .. n PROVE f[k] = NameStep(vol, f[k - 1])
    <3>1. k - 1 \in 0 .. n
      OBVIOUS
    <3>2. f[k - 1] \in A
      BY <1>3, <3>1 DEF Iterates
    <3> HIDE DEF A, g
    <3> QED
      BY <1>1, <1>3, <3>2 DEF Iterates
  <2> HIDE DEF A, g
  <2> QED
    BY <1>3, <2>1 DEF Iterates
<1>5. Is(f)
  <2> DEFINE h == [k \in 0 .. n |-> IF k = 0 THEN Names0(r) ELSE NameStep(vol, f[k - 1])]
  <2>1. ASSUME NEW k \in 0 .. n PROVE f[k] = h[k]
    BY <1>4
  <2>2. f = h
    <3> HIDE DEF A
    <3>1. f = [k \in 0 .. n |-> f[k]]
      BY <1>4
    <3> QED
      BY <2>1, <3>1
  <2> HIDE DEF A, g
  <2> QED
    BY <2>2 DEF NameStep, Names0
<1>6. Is(up)
  <2> HIDE DEF Is
  <2> QED
    BY <1>5
<1>7. NamesUp(vol, r, n) = up
  BY DEF NamesUp
<1> HIDE DEF up
<1>8. /\ up[0] = Names0(r)
      /\ \A k \in 1 .. n : up[k] = NameStep(vol, up[k - 1])
  <2>1. ASSUME NEW k \in 0 .. n
        PROVE  up[k] = IF k = 0 THEN Names0(r) ELSE NameStep(vol, up[k - 1])
    BY <1>6 DEF NameStep, Names0
  <2> QED
    BY <2>1
<1> QED
  BY <1>7, <1>8

(* After k steps: the last names of the path, and the file they end at.     *)
ClimbedTo(vol, d, p, r, x, k) ==
    IF k <= d[r]
    THEN /\ x.at \in DOMAIN vol /\ d[x.at] + k = d[r]
         /\ x.names \in Seq(AllNames) /\ p[r] = p[x.at] \o x.names
    ELSE x.at = NoRec /\ x.names = p[r]

LEMMA NamesClimb ==
    ASSUME NEW vol, Tree(vol), NEW d, Depths(vol, d), NEW p, Paths(vol, d, p),
           NEW r \in DOMAIN vol, NEW N \in Nat
    PROVE  \A k \in 0 .. N : ClimbedTo(vol, d, p, r, NamesUp(vol, r, N)[k], k)
<1> DEFINE U == NamesUp(vol, r, N)
           S == {k \in 0 .. N : ClimbedTo(vol, d, p, r, U[k], k)}
<1>1. /\ Root \in DOMAIN vol /\ NoRec \notin DOMAIN vol
      /\ \A s \in DOMAIN vol : d[s] \in Nat
  <2>1. Root \in DOMAIN vol /\ DOMAIN vol \subseteq Recs /\ NoRec \notin Recs
    BY FeedAssumption DEF Tree, VolumeTyped
  <2> QED
    BY <2>1, DepthBound
<1>2. U[0] = Names0(r) /\ \A k \in 1 .. N : U[k] = NameStep(vol, U[k - 1])
  BY <1>1, NamesUpIs
<1>3. \A s \in DOMAIN vol : p[s] \in Seq(AllNames) /\ vol[s].name \in AllNames
  BY DEF Paths, Tree, VolumeTyped, Files
<1> HIDE DEF U
<1>4. 0 \in S
  <2>1. d[r] \in Nat /\ p[r] \in Seq(AllNames)
    BY <1>1, <1>3
  <2>2. p[r] = p[r] \o << >>
    BY <2>1, ConcatEmptySeq
  <2>3. U[0].at = r /\ U[0].names = << >>
    BY <1>2 DEF Names0
  <2>4. << >> \in Seq(AllNames)
    OBVIOUS
  <2>5. ClimbedTo(vol, d, p, r, U[0], 0)
    <3>1. 0 <= d[r] /\ d[r] + 0 = d[r]
      BY <2>1
    <3> QED
      BY <2>2, <2>3, <2>4, <3>1 DEF ClimbedTo
  <2> QED
    BY <1>1, <2>5
<1>5. ASSUME NEW k \in 1 .. N, k - 1 \in S PROVE ClimbedTo(vol, d, p, r, U[k], k)
  <2> DEFINE x == U[k - 1]
             y == U[k]
  <2>1. ClimbedTo(vol, d, p, r, x, k - 1) /\ y = NameStep(vol, x)
    BY <1>2, <1>5
  <2>2. d[r] \in Nat /\ k \in Nat
    BY <1>1
  <2> HIDE DEF x, y
  <2>3. ASSUME k - 1 > d[r] PROVE ClimbedTo(vol, d, p, r, y, k)
    <3>1. ~ (k - 1 <= d[r]) /\ ~ (k <= d[r])
      BY <2>2, <2>3
    <3> QED
      BY <2>1, <3>1 DEF ClimbedTo, NameStep
  <2>4. ASSUME k - 1 <= d[r] PROVE ClimbedTo(vol, d, p, r, y, k)
    <3> DEFINE s == x.at
    <3>1. /\ s \in DOMAIN vol /\ d[s] + (k - 1) = d[r]
          /\ x.names \in Seq(AllNames) /\ p[r] = p[s] \o x.names
      BY <2>1, <2>4 DEF ClimbedTo
    <3>2. d[s] \in Nat /\ p[s] \in Seq(AllNames) /\ vol[s].name \in AllNames /\ s # NoRec
      BY <1>1, <1>3, <3>1
    <3>3. y.at = vol[s].parent /\ y.names = <<vol[s].name>> \o x.names
      BY <2>1, <3>2 DEF NameStep
    <3>4. <<vol[s].name>> \in Seq(AllNames)
      BY <3>2
    <3>5. y.names \in Seq(AllNames)
      BY <3>1, <3>3, <3>4, ConcatProperties
    <3> HIDE DEF s
    <3>6. CASE s = Root
      <4>1. d[s] = 0 /\ vol[s].parent = NoRec /\ p[s] = <<vol[s].name>>
        BY <3>6 DEF Depths, Tree, Paths
      <4>2. ~ (k <= d[r])
        BY <2>2, <3>1, <4>1
      <4>3. y.names = p[r]
        BY <3>1, <3>3, <4>1
      <4> QED
        BY <1>5, <3>3, <4>1, <4>2, <4>3 DEF ClimbedTo
    <3>7. CASE s # Root
      <4> DEFINE q == vol[s].parent
      <4>1. /\ q \in DOMAIN vol /\ d[s] = d[q] + 1
            /\ p[s] = Append(p[q], vol[s].name)
        BY <3>1, <3>7 DEF Depths, Tree, Paths
      <4>2. d[q] \in Nat /\ p[q] \in Seq(AllNames)
        BY <1>1, <1>3, <4>1
      <4>3. k <= d[r] /\ d[q] + k = d[r]
        BY <2>2, <3>1, <3>2, <4>1, <4>2
      <4>4. p[s] = p[q] \o <<vol[s].name>>
        BY <3>2, <4>1, <4>2, AppendIsConcat
      <4>5. p[r] = p[q] \o y.names
        <5>1. \A s1, s2, s3 \in Seq(AllNames) : (s1 \o s2) \o s3 = s1 \o (s2 \o s3)
          BY ConcatAssociative
        <5>2. (p[q] \o <<vol[s].name>>) \o x.names = p[q] \o (<<vol[s].name>> \o x.names)
          BY ONLY <3>1, <3>4, <4>2, <5>1
        <5> HIDE DEF q
        <5> QED
          BY <3>1, <3>3, <4>4, <5>2
      <4> QED
        BY <1>5, <3>3, <3>5, <4>1, <4>3, <4>5 DEF ClimbedTo
    <3> QED
      BY <3>6, <3>7
  <2>5. k - 1 > d[r] \/ k - 1 <= d[r]
    BY <2>2
  <2>6. ClimbedTo(vol, d, p, r, y, k)
    BY <2>3, <2>4, <2>5
  <2> QED
    BY <2>6 DEF y
<1>6. \A k \in 0 .. N : k \in S
  <2>1. \A k \in 1 .. N : k - 1 \in S => k \in S
    BY <1>5
  <2> HIDE DEF S
  <2> QED
    BY <1>1, <1>4, <2>1, F!UpTo
<1> QED
  BY <1>6 DEF U

LEMMA PathOfVolume ==
    ASSUME NEW vol, Tree(vol), NEW d, Depths(vol, d), NEW p, Paths(vol, d, p),
           NEW r \in DOMAIN vol
    PROVE  NamesUp(vol, r, Cardinality(Recs))[Cardinality(Recs)].names = p[r]
<1> DEFINE N == Cardinality(Recs)
<1>1. N \in Nat /\ d[r] \in Nat /\ d[r] < N
  BY DepthBound
<1> HIDE DEF N
<1>2. ClimbedTo(vol, d, p, r, NamesUp(vol, r, N)[N], N) /\ ~ (N <= d[r])
  BY <1>1, NamesClimb
<1> QED
  BY <1>2 DEF ClimbedTo, N
-----------------------------------------------------------------------------
(* An index that is faithful to a volume gives its files their paths        *)

Mirrored(ix, v) == Typed(ix) /\ LookupInv(ix) /\ Tree(v) /\ Faithful(ix, v)

LEMMA EntryOfFile ==
    ASSUME NEW ix, NEW v, Mirrored(ix, v), NEW r \in DOMAIN v
    PROVE  LET i == RefLookup(ix, r) IN
           /\ i \in Nat /\ i \in Indices(ix) /\ i # NoIdx /\ ~ IsDeleted(ix, i)
           /\ RefOf(ix, i) = r /\ NameOf(ix, i) = v[r].name
           /\ ParentOf(ix, i) = IF v[r].parent = NoRec THEN NoIdx
                                ELSE RefLookup(ix, v[r].parent)
           /\ v[r].parent = NoRec <=> r = Root
           /\ r # Root => v[r].parent \in DOMAIN v
           /\ v[r].name \in AllNames
<1> DEFINE i == RefLookup(ix, r)
<1>1. r \in Recs /\ r \in AllRecs /\ NoRec \notin DOMAIN v /\ v[r].name \in AllNames
  BY FeedAssumption DEF Mirrored, Tree, VolumeTyped, AllRecs, Files
<1>2. i # NoIdx
  BY <1>1 DEF Mirrored, Faithful, OneEach
<1>3. i \in Indices(ix) /\ i \in Nat /\ i \notin ix.deleted /\ RefOf(ix, i) = r
  BY <1>1, <1>2, LookupInIndex DEF Mirrored
<1>4. NameOf(ix, i) = v[r].name
  BY DEF Mirrored, Faithful, InPlace
<1>5. v[Root].parent = NoRec
  BY DEF Mirrored, Tree
<1>6. r # Root => v[r].parent \in DOMAIN v
  BY DEF Mirrored, Tree
<1>7. v[r].parent = NoRec <=> r = Root
  BY <1>1, <1>5, <1>6
<1>8. CASE r = Root
  <2>1. ParentOf(ix, i) = NoIdx
    BY <1>8, RootLink DEF Mirrored
  <2> QED
    BY <1>1, <1>2, <1>3, <1>4, <1>6, <1>7, <1>8, <2>1 DEF IsDeleted
<1>9. CASE r # Root
  <2>1. ParentOf(ix, i) = RefLookup(ix, v[r].parent)
    BY <1>9 DEF Mirrored, Faithful, InPlace
  <2> QED
    BY <1>1, <1>2, <1>3, <1>4, <1>6, <1>7, <1>9, <2>1 DEF IsDeleted
<1> QED
  BY <1>8, <1>9

(* Every entry that is not deleted is that of a file.                       *)
LEMMA FileOfEntry ==
    ASSUME NEW ix, NEW v, Mirrored(ix, v), NEW i \in Visible(ix)
    PROVE  RefOf(ix, i) \in DOMAIN v /\ RefLookup(ix, RefOf(ix, i)) = i
<1> DEFINE r == RefOf(ix, i)
<1>1. i \in Indices(ix)
  BY DEF Visible
<1>2. r \in Recs
  BY <1>1, EntryTypes DEF Mirrored
<1>3. i \in Ents(ix, r)
  BY DEF Ents
<1> HIDE DEF r
<1>4. r \in DOMAIN v /\ RefLookup(ix, r) = i
  BY <1>2, <1>3 DEF Mirrored, Faithful, OneEach
<1> QED
  BY <1>4 DEF r

(* There are no more files than entries.                                    *)
LEMMA FewerFiles ==
    ASSUME NEW ix, NEW v, Mirrored(ix, v)
    PROVE  Cardinality(DOMAIN v) <= LogicalLen(ix)
<1> DEFINE f == [r \in DOMAIN v |-> RefLookup(ix, r)]
<1>1. ASSUME NEW r \in DOMAIN v PROVE f[r] \in Indices(ix) /\ RefOf(ix, f[r]) = r
  BY EntryOfFile
<1>2. f \in Injection(DOMAIN v, Indices(ix))
  <2>1. f \in [DOMAIN v -> Indices(ix)]
    BY <1>1
  <2>2. ASSUME NEW a \in DOMAIN v, NEW b \in DOMAIN v, f[a] = f[b] PROVE a = b
    <3> HIDE DEF f
    <3> QED
      BY <1>1, <2>2
  <2> HIDE DEF f
  <2> QED
    BY <2>1, <2>2 DEF Injection, IsInjective
<1>3. IsFiniteSet(Indices(ix)) /\ Cardinality(Indices(ix)) = LogicalLen(ix)
  <2> DEFINE n == LogicalLen(ix)
  <2>1. n \in Nat /\ n \in Int /\ 1 \in Int
    BY Lengths DEF Mirrored
  <2> HIDE DEF n
  <2>2. IsFiniteSet(1 .. n) /\ Cardinality(1 .. n) = IF 1 > n THEN 0 ELSE n - 1 + 1
    BY ONLY <2>1, FS_Interval
  <2>3. Cardinality(1 .. n) = n
    BY <2>1, <2>2
  <2> QED
    BY <2>2, <2>3 DEF n, Indices
<1> HIDE DEF f
<1>4. Cardinality(DOMAIN v) <= Cardinality(Indices(ix))
  BY <1>2, <1>3, FS_Injection
<1> QED
  BY <1>3, <1>4

(* Chain, for any number of steps.                                          *)
ChainStep(ix, below) ==
    LET p == ParentOf(ix, Last(below)) IN
    IF p = NoIdx THEN below ELSE Append(below, p)

ChainUp(ix, i, n) ==
    LET up[k \in 0 .. n] ==
          IF k = 0 THEN <<i>>
          ELSE LET below == up[k - 1]
                   p == ParentOf(ix, Last(below)) IN
               IF p = NoIdx THEN below ELSE Append(below, p)
    IN up

LEMMA ChainIs == \A ix, i : Chain(ix, i) = ChainUp(ix, i, LogicalLen(ix))[LogicalLen(ix)]
BY DEF Chain, ChainUp

(* The entries of files.                                                    *)
EntriesOf(ix, v) == {RefLookup(ix, r) : r \in DOMAIN v}

LEMMA ChainUpIs ==
    ASSUME NEW ix, NEW v, Mirrored(ix, v), NEW i \in EntriesOf(ix, v), NEW n \in Nat
    PROVE  /\ ChainUp(ix, i, n)[0] = <<i>>
           /\ \A k \in 1 .. n : ChainUp(ix, i, n)[k] = ChainStep(ix, ChainUp(ix, i, n)[k - 1])
<1> DEFINE L == EntriesOf(ix, v)
           A == Seq(L) \ {<< >>}
           g == [t \in (1 .. n) \X A |-> ChainStep(ix, t[2])]
           a == <<i>>
           Is(up) == up = [k \in 0 .. n |->
                             IF k = 0 THEN <<i>>
                             ELSE LET below == up[k - 1]
                                      p == ParentOf(ix, Last(below)) IN
                                  IF p = NoIdx THEN below ELSE Append(below, p)]
           up == CHOOSE up : Is(up)
<1>1. ASSUME NEW k \in 1 .. n, NEW x \in A
      PROVE  g[<<k, x>>] = ChainStep(ix, x) /\ g[<<k, x>>] \in A
  <2>1. g[<<k, x>>] = ChainStep(ix, x)
    <3>1. <<k, x>> \in (1 .. n) \X A
      OBVIOUS
    <3> HIDE DEF A
    <3> QED
      BY <3>1
  <2>2. ASSUME NEW e \in L PROVE ParentOf(ix, e) \in L \cup {NoIdx}
    <3>1. PICK s \in DOMAIN v : e = RefLookup(ix, s)
      BY DEF EntriesOf
    <3> QED
      BY <3>1, EntryOfFile DEF EntriesOf
  <2>3. Last(x) \in L
    <3> HIDE DEF L
    <3>1. x \in Seq(L) /\ x # << >>
      OBVIOUS
    <3>2. Len(x) \in 1 .. Len(x)
      BY <3>1
    <3> QED
      BY <3>1, <3>2 DEF Last
  <2>4. ChainStep(ix, x) \in A
    <3> HIDE DEF L
    <3>1. ParentOf(ix, Last(x)) \in L \cup {NoIdx}
      BY <2>2, <2>3
    <3>2. \A e \in L : Append(x, e) \in Seq(L) /\ Append(x, e) # << >>
      BY AppendProperties
    <3> QED
      BY <3>1, <3>2 DEF ChainStep
  <2> QED
    BY <2>1, <2>4
<1>2. a \in A
  OBVIOUS
<1>3. PICK f : Iterates(f, n, A, a, g)
  <2> HIDE DEF A, a, g
  <2>1. Stepping(g, n, A)
    BY <1>1 DEF Stepping
  <2> QED
    BY <1>2, <2>1, StepsExist
<1>4. /\ f \in [0 .. n -> A] /\ f[0] = <<i>>
      /\ \A k \in 1 .. n : f[k] = ChainStep(ix, f[k - 1])
  <2>1. ASSUME NEW k \in 1 .. n PROVE f[k] = ChainStep(ix, f[k - 1])
    <3>1. k - 1 \in 0 .. n
      OBVIOUS
    <3>2. f[k - 1] \in A
      BY <1>3, <3>1 DEF Iterates
    <3> HIDE DEF A, g
    <3> QED
      BY <1>1, <1>3, <3>2 DEF Iterates
  <2> HIDE DEF A, g
  <2> QED
    BY <1>3, <2>1 DEF Iterates
<1>5. Is(f)
  <2> DEFINE h == [k \in 0 .. n |-> IF k = 0 THEN <<i>> ELSE ChainStep(ix, f[k - 1])]
  <2>1. ASSUME NEW k \in 0 .. n PROVE f[k] = h[k]
    <3>1. k # 0 => k \in 1 .. n
      OBVIOUS
    <3>2. h[k] = IF k = 0 THEN <<i>> ELSE ChainStep(ix, f[k - 1])
      OBVIOUS
    <3> HIDE DEF h, A
    <3> QED
      BY <1>4, <3>1, <3>2
  <2>2. f = h
    <3> HIDE DEF A
    <3>1. f = [k \in 0 .. n |-> f[k]]
      BY <1>4
    <3> QED
      BY <2>1, <3>1
  <2> HIDE DEF A, g
  <2> QED
    BY <2>2 DEF ChainStep
<1>6. Is(up)
  <2> HIDE DEF Is
  <2> QED
    BY <1>5
<1>7. ChainUp(ix, i, n) = up
  BY DEF ChainUp
<1> HIDE DEF up
<1>8. /\ up[0] = <<i>>
      /\ \A k \in 1 .. n : up[k] = ChainStep(ix, up[k - 1])
  <2>1. ASSUME NEW k \in 0 .. n
        PROVE  up[k] = IF k = 0 THEN <<i>> ELSE ChainStep(ix, up[k - 1])
    BY <1>6 DEF ChainStep
  <2> QED
    BY <2>1
<1> QED
  BY <1>7, <1>8

NamesOf(ix, c) == [n \in DOMAIN c |-> NameOf(ix, c[Len(c) - n + 1])]

LEMMA NamesOfLonger ==
    ASSUME NEW ix, NEW L, NEW c \in Seq(L), NEW e \in L, \A l \in L : NameOf(ix, l) \in AllNames
    PROVE  /\ NamesOf(ix, Append(c, e)) = <<NameOf(ix, e)>> \o NamesOf(ix, c)
           /\ NamesOf(ix, c) \in Seq(AllNames)
<1> DEFINE n == Len(c)
           b == Append(c, e)
           x == NameOf(ix, e)
           one == <<x>>
<1>1. n \in Nat /\ DOMAIN c = 1 .. n /\ \A k \in 1 .. n : c[k] \in L
  OBVIOUS
<1>2. Len(b) = n + 1 /\ DOMAIN b = 1 .. n + 1 /\ b[n + 1] = e /\ \A k \in 1 .. n : b[k] = c[k]
  OBVIOUS
<1> HIDE DEF n, b
<1>3. NamesOf(ix, c) \in Seq(AllNames) /\ Len(NamesOf(ix, c)) = n
  <2>1. ASSUME NEW k \in 1 .. n PROVE NameOf(ix, c[n - k + 1]) \in AllNames
    <3>1. n - k + 1 \in 1 .. n
      BY <1>1
    <3> QED
      BY <1>1, <3>1
  <2>2. NamesOf(ix, c) = [k \in 1 .. n |-> NameOf(ix, c[n - k + 1])]
    BY <1>1 DEF NamesOf, n
  <2> QED
    BY <1>1, <2>1, <2>2
<1>4. NamesOf(ix, b) = [k \in 1 .. n + 1 |-> NameOf(ix, b[(n + 1) - k + 1])]
  BY <1>2 DEF NamesOf
<1>5. one \in Seq(AllNames) /\ Len(one) = 1 /\ one[1] = x
  OBVIOUS
<1> DEFINE both == one \o NamesOf(ix, c)
<1>6. both = [k \in 1 .. n + 1 |-> IF k <= 1 THEN one[k] ELSE NamesOf(ix, c)[k - 1]]
  <2> HIDE DEF one
  <2>1. /\ both \in Seq(AllNames) /\ Len(both) = 1 + n
        /\ \A k \in 1 .. 1 + n : both[k] = IF k <= 1 THEN one[k] ELSE NamesOf(ix, c)[k - 1]
    <3> DEFINE y == NamesOf(ix, c)
    <3>1. y \in Seq(AllNames) /\ Len(y) = n
      BY <1>3
    <3> HIDE DEF y
    <3>2. /\ one \o y \in Seq(AllNames) /\ Len(one \o y) = 1 + n
          /\ \A k \in 1 .. 1 + n : (one \o y)[k] = IF k <= 1 THEN one[k] ELSE y[k - 1]
      <4>1. \A s1, s2 \in Seq(AllNames) :
               /\ s1 \o s2 \in Seq(AllNames) /\ Len(s1 \o s2) = Len(s1) + Len(s2)
               /\ \A k \in 1 .. Len(s1) + Len(s2) :
                     (s1 \o s2)[k] = IF k <= Len(s1) THEN s1[k] ELSE s2[k - Len(s1)]
        BY ConcatProperties
      <4>2. one \in Seq(AllNames) /\ Len(one) = 1
        BY <1>5
      <4>3. /\ one \o y \in Seq(AllNames) /\ Len(one \o y) = Len(one) + Len(y)
            /\ \A k \in 1 .. Len(one) + Len(y) :
                  (one \o y)[k] = IF k <= Len(one) THEN one[k] ELSE y[k - Len(one)]
        BY ONLY <3>1, <4>1, <4>2, Zenon
      <4> QED
        BY <3>1, <4>2, <4>3
    <3> QED
      BY <3>2 DEF y
  <2> HIDE DEF both
  <2>2. both = [k \in 1 .. 1 + n |-> both[k]]
    BY <2>1
  <2>3. 1 + n = n + 1
    BY <1>1
  <2> QED
    BY <2>1, <2>2, <2>3
<1> HIDE DEF both, one
<1>7. ASSUME NEW k \in 1 .. n + 1
      PROVE  NameOf(ix, b[(n + 1) - k + 1]) = IF k <= 1 THEN one[k] ELSE NamesOf(ix, c)[k - 1]
  <2>1. CASE k = 1
    <3>1. (n + 1) - k + 1 = n + 1
      BY <1>1, <2>1
    <3> QED
      BY <1>1, <1>2, <1>5, <2>1, <3>1
  <2>2. CASE k # 1
    <3>1. /\ k - 1 \in 1 .. n /\ ~ (k <= 1) /\ (n + 1) - k + 1 = n - (k - 1) + 1
          /\ (n + 1) - k + 1 \in 1 .. n
      BY <1>1, <2>2
    <3>2. NamesOf(ix, c)[k - 1] = NameOf(ix, c[n - (k - 1) + 1])
      BY <1>1, <3>1 DEF NamesOf, n
    <3> QED
      BY <1>2, <3>1, <3>2
  <2> QED
    BY <2>1, <2>2
<1>8. NamesOf(ix, b) = both
  BY <1>4, <1>6, <1>7
<1> QED
  BY <1>3, <1>8 DEF b, both, one
(* The chain has the names of the climb that is one step further.           *)
Abreast(ix, v, c, x) ==
    /\ c \in Seq(EntriesOf(ix, v)) /\ c # << >>
    /\ NamesOf(ix, c) = x.names
    /\ x.at \in DOMAIN v \cup {NoRec}
    /\ ParentOf(ix, Last(c)) = IF x.at = NoRec THEN NoIdx ELSE RefLookup(ix, x.at)

LEMMA ChainClimbs ==
    ASSUME NEW ix, NEW v, Mirrored(ix, v), NEW r \in DOMAIN v, NEW n \in Nat
    PROVE  \A k \in 0 .. n : Abreast(ix, v, ChainUp(ix, RefLookup(ix, r), n)[k],
                                            NamesUp(v, r, n + 1)[k + 1])
<1> DEFINE i == RefLookup(ix, r)
           L == EntriesOf(ix, v)
           C == ChainUp(ix, i, n)
           U == NamesUp(v, r, n + 1)
           S == {k \in 0 .. n : Abreast(ix, v, C[k], U[k + 1])}
<1>1. i \in L
  BY DEF EntriesOf
<1>2. C[0] = <<i>> /\ \A k \in 1 .. n : C[k] = ChainStep(ix, C[k - 1])
  BY <1>1, ChainUpIs
<1>3. U[0] = Names0(r) /\ \A k \in 1 .. n + 1 : U[k] = NameStep(v, U[k - 1])
  BY NamesUpIs DEF Mirrored
<1>4. ASSUME NEW s \in DOMAIN v
      PROVE  /\ RefLookup(ix, s) \in L /\ NameOf(ix, RefLookup(ix, s)) = v[s].name
             /\ v[s].name \in AllNames /\ RefLookup(ix, s) # NoIdx
             /\ ParentOf(ix, RefLookup(ix, s)) = IF v[s].parent = NoRec THEN NoIdx
                                                 ELSE RefLookup(ix, v[s].parent)
             /\ v[s].parent \in DOMAIN v \cup {NoRec}
             /\ s # NoRec
  <2>1. NoRec \notin DOMAIN v
    BY FeedAssumption DEF Mirrored, Tree, VolumeTyped
  <2> QED
    BY <2>1, EntryOfFile DEF EntriesOf
<1>5. \A l \in L : NameOf(ix, l) \in AllNames
  BY <1>4 DEF EntriesOf
<1> HIDE DEF C, U, L, i
<1>6. 0 \in S
  <2>1. U[1] = NameStep(v, Names0(r))
    <3>1. 1 \in 1 .. n + 1 /\ 1 - 1 = 0
      OBVIOUS
    <3> QED
      BY <1>3, <3>1
  <2>2. <<v[r].name>> \o << >> = <<v[r].name>>
    <3>1. <<v[r].name>> \in Seq(AllNames)
      BY <1>4
    <3> QED
      BY <3>1, ConcatEmptySeq
  <2>3. U[1].at = v[r].parent /\ U[1].names = <<v[r].name>>
    BY <1>4, <2>1, <2>2 DEF NameStep, Names0
  <2>4. <<i>> \in Seq(L) /\ <<i>> # << >> /\ Last(<<i>>) = i
    BY <1>1 DEF Last
  <2>5. NamesOf(ix, <<i>>) = <<v[r].name>>
    <3>1. DOMAIN <<i>> = {1} /\ Len(<<i>>) = 1 /\ <<i>>[1] = i
      OBVIOUS
    <3>2. NameOf(ix, i) = v[r].name
      BY <1>4 DEF i
    <3>3. NamesOf(ix, <<i>>) = [m \in {1} |-> v[r].name]
      BY <3>1, <3>2 DEF NamesOf
    <3> QED
      BY <3>3
  <2>6. Abreast(ix, v, C[0], U[0 + 1])
    <3>1. 0 + 1 = 1
      OBVIOUS
    <3>2. ParentOf(ix, i) = IF v[r].parent = NoRec THEN NoIdx ELSE RefLookup(ix, v[r].parent)
      BY <1>4 DEF i
    <3> QED
      BY <1>2, <1>4, <2>3, <2>4, <2>5, <3>1, <3>2 DEF Abreast, L
  <2> QED
    BY <2>6
<1>7. ASSUME NEW k \in 1 .. n, k - 1 \in S PROVE Abreast(ix, v, C[k], U[k + 1])
  <2> DEFINE c == C[k - 1]
             x == U[k]
             y == U[k + 1]
  <2>1. C[k] = ChainStep(ix, c)
    BY <1>2
  <2>2. y = NameStep(v, x)
    <3>1. k + 1 \in 1 .. n + 1 /\ (k + 1) - 1 = k
      OBVIOUS
    <3> QED
      BY <1>3, <3>1
  <2>3. Abreast(ix, v, c, x)
    <3>1. (k - 1) + 1 = k
      OBVIOUS
    <3> QED
      BY <1>7, <3>1
  <2> HIDE DEF c, x, y
  <2>4. c \in Seq(L)
    BY <2>3 DEF Abreast, L
  <2>5. ASSUME x.at = NoRec PROVE Abreast(ix, v, C[k], y)
    <3>1. y = x /\ C[k] = c
      BY <2>1, <2>2, <2>3, <2>5 DEF NameStep, ChainStep, Abreast
    <3> QED
      BY <2>3, <3>1
  <2>6. ASSUME x.at # NoRec PROVE Abreast(ix, v, C[k], y)
    <3> DEFINE s == x.at
               e == RefLookup(ix, s)
    <3>1. s \in DOMAIN v /\ ParentOf(ix, Last(c)) = e
      BY <2>3, <2>6 DEF Abreast
    <3>2. /\ e \in L /\ e # NoIdx /\ NameOf(ix, e) = v[s].name
          /\ v[s].parent \in DOMAIN v \cup {NoRec}
          /\ ParentOf(ix, e) = IF v[s].parent = NoRec THEN NoIdx
                               ELSE RefLookup(ix, v[s].parent)
      BY <1>4, <3>1
    <3>3. C[k] = Append(c, e)
      BY <2>1, <3>1, <3>2 DEF ChainStep
    <3>4. y.at = v[s].parent /\ y.names = <<v[s].name>> \o x.names
      BY <2>2, <2>6 DEF NameStep
    <3> HIDE DEF e, s
    <3>5. /\ Append(c, e) \in Seq(L) /\ Append(c, e) # << >>
          /\ Last(Append(c, e)) = e
      BY <2>4, <3>2, AppendProperties DEF Last
    <3>6. NamesOf(ix, Append(c, e)) = <<NameOf(ix, e)>> \o NamesOf(ix, c)
      BY <1>5, <2>4, <3>2, NamesOfLonger
    <3>7. NamesOf(ix, C[k]) = y.names
      BY <2>3, <3>2, <3>3, <3>4, <3>6 DEF Abreast
    <3> QED
      BY <3>2, <3>3, <3>4, <3>5, <3>7 DEF Abreast, L
  <2>7. Abreast(ix, v, C[k], y)
    BY <2>5, <2>6
  <2> QED
    BY <2>7 DEF y
<1>8. \A k \in 0 .. n : k \in S
  <2>1. \A k \in 1 .. n : k - 1 \in S => k \in S
    BY <1>7
  <2> HIDE DEF S
  <2> QED
    BY <1>6, <2>1, F!UpTo
<1> QED
  BY <1>8 DEF C, U, i

(* The index gives each file the path it has in the volume.                 *)
LEMMA PathOfIndex ==
    ASSUME NEW ix, NEW v, Mirrored(ix, v), NEW d, Depths(v, d), NEW p, Paths(v, d, p),
           NEW r \in DOMAIN v
    PROVE  HasPath(ix, RefLookup(ix, r)) /\ PathOf(ix, RefLookup(ix, r)) = p[r]
<1> DEFINE i == RefLookup(ix, r)
           n == LogicalLen(ix)
           c == ChainUp(ix, i, n)[n]
           x == NamesUp(v, r, n + 1)[n + 1]
<1>1. n \in Nat /\ Cardinality(DOMAIN v) <= n /\ d[r] \in Nat
        /\ Cardinality(DOMAIN v) \in Nat /\ d[r] < Cardinality(DOMAIN v)
  BY Lengths, FewerFiles, DepthBound DEF Mirrored
<1>2. Chain(ix, i) = c
  BY ChainIs
<1> HIDE DEF n
<1>3. ~ (n + 1 <= d[r]) /\ n \in 0 .. n /\ n + 1 \in 0 .. n + 1 /\ n + 1 \in Nat
  BY <1>1
<1>4. Abreast(ix, v, c, x)
  BY <1>1, <1>3, ChainClimbs
<1>5. ClimbedTo(v, d, p, r, x, n + 1)
  BY <1>3, NamesClimb DEF Mirrored
<1>6. x.at = NoRec /\ x.names = p[r]
  BY <1>3, <1>5 DEF ClimbedTo
<1> HIDE DEF c, x, i
<1>7. ParentOf(ix, Last(c)) = NoIdx /\ NamesOf(ix, c) = p[r]
  BY <1>4, <1>6 DEF Abreast
<1>8. HasPath(ix, i)
  BY <1>2, <1>7 DEF HasPath
<1>9. PathOf(ix, i) = NamesOf(ix, c)
  BY <1>2 DEF PathOf, NamesOf
<1> QED
  BY <1>7, <1>8, <1>9 DEF i
-----------------------------------------------------------------------------
(* The best entries while scanning                                          *)

ScoredEntries == [index : Nat, score : Nat]

Worst(top) == {n \in DOMAIN top : \A m \in DOMAIN top : top[n].score <= top[m].score}

FirstWorst(top) == CHOOSE n \in Worst(top) : \A m \in Worst(top) : n <= m

LEMMA WorstExists ==
    ASSUME NEW top \in Seq(ScoredEntries), top # << >>
    PROVE  /\ FirstWorst(top) \in DOMAIN top
           /\ \A m \in DOMAIN top : top[FirstWorst(top)].score <= top[m].score
<1> DEFINE V == {top[n].score : n \in DOMAIN top}
<1>1. DOMAIN top = 1 .. Len(top) /\ Len(top) \in Nat /\ Len(top) # 0
  BY EmptySeq
<1>2. \A n \in DOMAIN top : top[n].score \in Nat
  <2>1. \A n \in DOMAIN top : top[n] \in ScoredEntries
    BY <1>1
  <2> QED
    BY <2>1 DEF ScoredEntries
<1>3. V \in SUBSET Nat /\ top[1].score \in V
  BY <1>1, <1>2
<1>4. PICK b \in V : \A a \in V : b <= a
  <2> HIDE DEF V
  <2> QED
    BY <1>3, F!SmallestExists
<1>5. PICK n \in DOMAIN top : b = top[n].score
  OBVIOUS
<1>6. n \in Worst(top) /\ Worst(top) \in SUBSET Nat
  BY <1>1, <1>4, <1>5 DEF Worst
<1>7. \E k \in Worst(top) : \A m \in Worst(top) : k <= m
  BY <1>6, F!SmallestExists
<1>8. FirstWorst(top) \in Worst(top)
  BY <1>7 DEF FirstWorst
<1> QED
  BY <1>8 DEF Worst

LEMMA InsertTopNIs ==
    ASSUME NEW top \in Seq(ScoredEntries), NEW e \in ScoredEntries, NEW cap \in Nat
    PROVE  /\ Len(top) < cap => InsertTopN(top, e, cap) = Append(top, e)
           /\ ~ (Len(top) < cap) /\ top # << >> /\ e.score > top[FirstWorst(top)].score
                => InsertTopN(top, e, cap) = [top EXCEPT ![FirstWorst(top)] = e]
           /\ ~ (Len(top) < cap) /\ ~ (top # << >> /\ e.score > top[FirstWorst(top)].score)
                => InsertTopN(top, e, cap) = top
           /\ InsertTopN(top, e, cap) \in Seq(ScoredEntries)
<1>1. InsertTopN(top, e, cap) =
        IF Len(top) < cap THEN Append(top, e)
        ELSE IF top # << >> /\ e.score > top[FirstWorst(top)].score
             THEN [top EXCEPT ![FirstWorst(top)] = e]
        ELSE top
  BY DEF InsertTopN, FirstWorst, Worst
<1>2. Append(top, e) \in Seq(ScoredEntries)
  BY AppendProperties
<1>3. ASSUME top # << >>
      PROVE  [top EXCEPT ![FirstWorst(top)] = e] \in Seq(ScoredEntries)
  <2>1. FirstWorst(top) \in DOMAIN top
    BY <1>3, WorstExists
  <2> QED
    BY <2>1
<1> QED
  BY <1>1, <1>2, <1>3

(* All of the first k are in the list, or it is full of ones as good.       *)
KeptSoFar(top, scored, cap, k) ==
    /\ top \in Seq(ScoredEntries) /\ Len(top) <= cap
    /\ \A n \in DOMAIN top : \E j \in 1 .. k : top[n] = scored[j]
    /\ \A n, m \in DOMAIN top : top[n].index = top[m].index => n = m
    /\ \A j \in 1 .. k :
          \/ \E n \in DOMAIN top : top[n] = scored[j]
          \/ Len(top) = cap /\ \A n \in DOMAIN top : scored[j].score <= top[n].score

LEMMA KeepsOneMore ==
    ASSUME NEW scored \in Seq(ScoredEntries), NEW cap \in Nat,
           \A n, m \in DOMAIN scored : scored[n].index = scored[m].index => n = m,
           NEW k \in 1 .. Len(scored), NEW top, KeptSoFar(top, scored, cap, k - 1)
    PROVE  KeptSoFar(InsertTopN(top, scored[k], cap), scored, cap, k)
<1> DEFINE e == scored[k]
           y == InsertTopN(top, e, cap)
           w == FirstWorst(top)
<1>1. /\ k \in Nat /\ Len(scored) \in Nat /\ DOMAIN scored = 1 .. Len(scored)
      /\ e \in ScoredEntries /\ \A j \in 1 .. Len(scored) : scored[j] \in ScoredEntries
  OBVIOUS
<1>2. /\ top \in Seq(ScoredEntries) /\ Len(top) <= cap /\ Len(top) \in Nat
      /\ DOMAIN top = 1 .. Len(top) /\ \A n \in DOMAIN top : top[n] \in ScoredEntries
  BY DEF KeptSoFar
<1>3. \A x \in ScoredEntries : x.score \in Nat
  BY DEF ScoredEntries
<1>0. \/ Len(top) < cap /\ Len(top) # cap
      \/ ~ (Len(top) < cap) /\ Len(top) = cap
  <2> DEFINE l == Len(top)
  <2>1. l \in Nat /\ l <= cap
    BY <1>2
  <2> HIDE DEF l
  <2>2. (l < cap /\ l # cap) \/ (~ (l < cap) /\ l = cap)
    BY <2>1
  <2> QED
    BY <2>2 DEF l
<1>4. ASSUME NEW n \in DOMAIN top
      PROVE  (\E j \in 1 .. k : top[n] = scored[j]) /\ top[n].index # e.index
  <2>1. PICK j \in 1 .. k - 1 : top[n] = scored[j]
    BY DEF KeptSoFar
  <2>2. j \in 1 .. k /\ j # k /\ j \in DOMAIN scored /\ k \in DOMAIN scored
    BY <1>1
  <2> QED
    BY <2>1, <2>2
<1>5. ASSUME NEW j \in 1 .. k, j # k
      PROVE  \/ \E n \in DOMAIN top : top[n] = scored[j]
             \/ Len(top) = cap /\ \A n \in DOMAIN top : scored[j].score <= top[n].score
  <2>1. j \in 1 .. k - 1
    BY <1>1, <1>5
  <2> QED
    BY <2>1 DEF KeptSoFar
<1>6. k \in 1 .. k /\ \A j \in 1 .. k : j \in 1 .. Len(scored)
  BY <1>1
<1>7. y \in Seq(ScoredEntries)
  BY <1>1, <1>2, InsertTopNIs
<1>8. ASSUME Len(top) < cap PROVE KeptSoFar(y, scored, cap, k)
  <2> DEFINE l == Len(top)
  <2>1. y = Append(top, e)
    BY <1>1, <1>2, <1>8, InsertTopNIs
  <2>2. /\ Len(y) = l + 1 /\ DOMAIN y = 1 .. l + 1 /\ y[l + 1] = e
        /\ \A n \in 1 .. l : y[n] = top[n]
    BY <1>1, <1>2, <2>1, AppendProperties
  <2>3. l \in Nat /\ l < cap /\ l # cap /\ DOMAIN top = 1 .. l
    BY <1>0, <1>2, <1>8
  <2> HIDE DEF l, y, e
  <2>4. Len(y) <= cap
    BY <2>2, <2>3
  <2>5. ASSUME NEW n \in DOMAIN y
        PROVE  \/ n = l + 1 /\ y[n] = e
               \/ n \in DOMAIN top /\ y[n] = top[n]
    BY <2>2, <2>3, <2>5
  <2>6. \A n \in DOMAIN y : \E j \in 1 .. k : y[n] = scored[j]
    BY <1>4, <1>6, <2>5 DEF e
  <2>7. \A n, m \in DOMAIN y : y[n].index = y[m].index => n = m
    BY <1>4, <2>5 DEF KeptSoFar
  <2>8. ASSUME NEW j \in 1 .. k PROVE \E n \in DOMAIN y : y[n] = scored[j]
    <3>1. CASE j = k
      <4>1. l + 1 \in DOMAIN y
        BY <2>2, <2>3
      <4> QED
        BY <2>2, <3>1, <4>1 DEF e
    <3>2. CASE j # k
      <4>1. PICK n \in DOMAIN top : top[n] = scored[j]
        BY <1>5, <2>3, <3>2 DEF l
      <4>2. n \in DOMAIN y /\ y[n] = top[n]
        BY <2>2, <2>3
      <4> QED
        BY <4>1, <4>2
    <3> QED
      BY <3>1, <3>2
  <2> QED
    BY <1>7, <2>4, <2>6, <2>7, <2>8 DEF KeptSoFar
<1>9. ASSUME ~ (Len(top) < cap), top # << >>, e.score > top[w].score
      PROVE  KeptSoFar(y, scored, cap, k)
  <2>1. y = [top EXCEPT ![w] = e]
    BY <1>1, <1>2, <1>9, InsertTopNIs
  <2>2. w \in DOMAIN top /\ \A m \in DOMAIN top : top[w].score <= top[m].score
    BY <1>2, <1>9, WorstExists
  <2>3. /\ Len(y) = Len(top) /\ DOMAIN y = DOMAIN top /\ y[w] = e
        /\ \A n \in DOMAIN top : n # w => y[n] = top[n]
    BY <1>2, <2>1, <2>2
  <2>4. Len(top) = cap
    BY <1>0, <1>9
  <2>5. e.score \in Nat /\ \A n \in DOMAIN top : top[n].score \in Nat
    BY <1>1, <1>2, <1>3
  <2> HIDE DEF y, e, w
  <2>6. \A n \in DOMAIN y : \E j \in 1 .. k : y[n] = scored[j]
    BY <1>4, <1>6, <2>3 DEF e
  <2>7. ASSUME NEW n \in DOMAIN y, NEW m \in DOMAIN y, y[n].index = y[m].index
        PROVE  n = m
    <3>1. \A a \in DOMAIN y : IF a = w THEN y[a].index = e.index
                             ELSE y[a].index = top[a].index /\ top[a].index # e.index
      BY <1>4, <2>3 DEF e
    <3>2. \A a, b \in DOMAIN y : top[a].index = top[b].index => a = b
      BY <2>3 DEF KeptSoFar
    <3> QED
      BY <2>7, <3>1, <3>2
  <2>8. \A n \in DOMAIN y : top[w].score <= y[n].score
    BY <1>9, <2>2, <2>3, <2>5
  <2>9. ASSUME NEW j \in 1 .. k
        PROVE  \/ \E n \in DOMAIN y : y[n] = scored[j]
               \/ Len(y) = cap /\ \A n \in DOMAIN y : scored[j].score <= y[n].score
    <3>1. CASE j = k
      BY <2>2, <2>3, <3>1 DEF e
    <3>2. CASE j # k
      <4>1. CASE \E n \in DOMAIN top : top[n] = scored[j]
        <5>1. PICK n \in DOMAIN top : top[n] = scored[j]
          BY <4>1
        <5>2. n # w => y[n] = scored[j] /\ n \in DOMAIN y
          BY <2>3, <5>1
        <5>3. n = w => \A m \in DOMAIN y : scored[j].score <= y[m].score
          BY <2>8, <5>1
        <5> QED
          BY <2>3, <2>4, <5>2, <5>3
      <4>2. CASE \A n \in DOMAIN top : scored[j].score <= top[n].score
        <5>1. scored[j].score <= top[w].score /\ scored[j].score \in Nat
          BY <1>1, <1>3, <1>6, <2>2, <4>2
        <5>2. \A m \in DOMAIN y : y[m].score \in Nat
          BY <2>3, <2>5
        <5>3. \A m \in DOMAIN y : scored[j].score <= y[m].score
          BY <2>2, <2>5, <2>8, <5>1, <5>2
        <5> QED
          BY <2>3, <2>4, <5>3
      <4> QED
        BY <1>5, <3>2, <4>1, <4>2
    <3> QED
      BY <3>1, <3>2
  <2> QED
    BY <1>7, <2>3, <2>4, <2>6, <2>7, <2>9, <1>2 DEF KeptSoFar
<1>10. ASSUME ~ (Len(top) < cap), ~ (top # << >> /\ e.score > top[w].score)
       PROVE  KeptSoFar(y, scored, cap, k)
  <2>1. y = top
    BY <1>1, <1>2, <1>10, InsertTopNIs
  <2>2. Len(top) = cap
    BY <1>0, <1>10
  <2>3. \A n \in DOMAIN top : e.score <= top[n].score
    <3>1. ASSUME NEW n \in DOMAIN top PROVE e.score <= top[n].score
      <4>1. top # << >>
        BY <1>2
      <4>2. w \in DOMAIN top /\ top[w].score <= top[n].score
        BY <1>2, <4>1, WorstExists
      <4>3. e.score \in Nat /\ top[w].score \in Nat /\ top[n].score \in Nat
        BY <1>1, <1>2, <1>3, <4>2
      <4> QED
        BY <1>10, <4>1, <4>2, <4>3
    <3> QED
      BY <3>1
  <2> HIDE DEF y, e, w
  <2>4. ASSUME NEW j \in 1 .. k
        PROVE  \/ \E n \in DOMAIN y : y[n] = scored[j]
               \/ Len(y) = cap /\ \A n \in DOMAIN y : scored[j].score <= y[n].score
    <3>1. CASE j = k
      BY <2>1, <2>2, <2>3, <3>1 DEF e
    <3>2. CASE j # k
      BY <1>5, <2>1, <3>2
    <3> QED
      BY <3>1, <3>2
  <2> QED
    BY <1>2, <1>4, <1>7, <2>1, <2>4 DEF KeptSoFar
<1> QED
  BY <1>8, <1>9, <1>10

(* The list keeps entries of the sequence, each once, and all of them but   *)
(* ones that a full list of no worse ones leaves out.                       *)
LEMMA TopNKeepsTheBest ==
    ASSUME NEW scored \in Seq(ScoredEntries), NEW cap \in Nat,
           \A n, m \in DOMAIN scored : scored[n].index = scored[m].index => n = m
    PROVE  KeptSoFar(TopN(scored, cap), scored, cap, Len(scored))
<1> DEFINE n == Len(scored)
           A == Seq(ScoredEntries)
           g == [t \in (1 .. n) \X A |-> InsertTopN(t[2], scored[t[1]], cap)]
           a == << >>
           Is(top) == top = [k \in 0 .. n |->
                               IF k = 0 THEN << >> ELSE InsertTopN(top[k - 1], scored[k], cap)]
           up == CHOOSE top : Is(top)
<1>1. n \in Nat /\ \A k \in 1 .. n : scored[k] \in ScoredEntries
  OBVIOUS
<1> HIDE DEF n
<1>2. ASSUME NEW k \in 1 .. n, NEW x \in A
      PROVE  g[<<k, x>>] = InsertTopN(x, scored[k], cap) /\ g[<<k, x>>] \in A
  <2>1. g[<<k, x>>] = InsertTopN(x, scored[k], cap)
    <3>1. <<k, x>> \in (1 .. n) \X A
      OBVIOUS
    <3> HIDE DEF A
    <3> QED
      BY <3>1
  <2>2. InsertTopN(x, scored[k], cap) \in A
    BY <1>1, InsertTopNIs
  <2> QED
    BY <2>1, <2>2
<1>3. a \in A
  OBVIOUS
<1>4. PICK f : Iterates(f, n, A, a, g)
  <2> HIDE DEF A, a, g
  <2>1. Stepping(g, n, A)
    BY <1>2 DEF Stepping
  <2> QED
    BY <1>1, <1>3, <2>1, StepsExist
<1>5. /\ f \in [0 .. n -> A] /\ f[0] = << >>
      /\ \A k \in 1 .. n : f[k] = InsertTopN(f[k - 1], scored[k], cap)
  <2>1. ASSUME NEW k \in 1 .. n PROVE f[k] = InsertTopN(f[k - 1], scored[k], cap)
    <3>1. k - 1 \in 0 .. n
      BY <1>1
    <3>2. f[k - 1] \in A
      BY <1>4, <3>1 DEF Iterates
    <3> HIDE DEF A, g
    <3> QED
      BY <1>2, <1>4, <3>2 DEF Iterates
  <2> HIDE DEF A, g
  <2> QED
    BY <1>4, <2>1 DEF Iterates
<1>6. Is(f)
  <2> DEFINE h == [k \in 0 .. n |->
                     IF k = 0 THEN << >> ELSE InsertTopN(f[k - 1], scored[k], cap)]
  <2>1. ASSUME NEW k \in 0 .. n PROVE f[k] = h[k]
    <3>1. k # 0 => k \in 1 .. n
      BY <1>1
    <3>2. h[k] = IF k = 0 THEN << >> ELSE InsertTopN(f[k - 1], scored[k], cap)
      OBVIOUS
    <3> HIDE DEF h, A
    <3> QED
      BY <1>5, <3>1, <3>2
  <2>2. f = h
    <3> HIDE DEF A
    <3>1. f = [k \in 0 .. n |-> f[k]]
      BY <1>5
    <3> QED
      BY <2>1, <3>1
  <2> HIDE DEF A, g
  <2> QED
    BY <2>2
<1>7. Is(up)
  <2> HIDE DEF Is
  <2> QED
    BY <1>6
<1>8. TopN(scored, cap) = up[n]
  BY DEF TopN, n
<1> HIDE DEF up
<1>9. ASSUME NEW k \in 0 .. n
      PROVE  up[k] = IF k = 0 THEN << >> ELSE InsertTopN(up[k - 1], scored[k], cap)
  BY <1>7
<1> DEFINE S == {k \in 0 .. n : KeptSoFar(up[k], scored, cap, k)}
<1>10. 0 \in S
  <2>1. up[0] = << >>
    BY <1>1, <1>9
  <2>2. KeptSoFar(<< >>, scored, cap, 0)
    BY DEF KeptSoFar
  <2> QED
    BY <1>1, <2>1, <2>2
<1>11. ASSUME NEW k \in 1 .. n, k - 1 \in S PROVE KeptSoFar(up[k], scored, cap, k)
  <2>1. k # 0 /\ k \in 0 .. n
    BY <1>1
  <2>2. up[k] = InsertTopN(up[k - 1], scored[k], cap)
    BY <1>9, <2>1
  <2>3. KeptSoFar(up[k - 1], scored, cap, k - 1)
    BY <1>11
  <2>4. k \in 1 .. Len(scored)
    BY DEF n
  <2> QED
    BY <2>2, <2>3, <2>4, KeepsOneMore
<1>12. \A k \in 0 .. n : k \in S
  <2>1. \A k \in 1 .. n : k - 1 \in S => k \in S
    BY <1>1, <1>11
  <2> HIDE DEF S
  <2> QED
    BY <1>1, <1>10, <2>1, F!UpTo
<1>13. KeptSoFar(up[n], scored, cap, n)
  BY <1>1, <1>12
<1> QED
  BY <1>8, <1>13 DEF n
-----------------------------------------------------------------------------
(* Sorting, and cutting at the limit                                        *)

Cut(scored, limit) == IF Len(scored) < limit THEN Len(scored) ELSE limit

(* At least so many entries of the list, its first, are no worse than w.    *)
Outdone(scored, w, limit) ==
    \E m \in Nat : /\ limit <= m /\ m <= Len(scored)
                   /\ \A n \in 1 .. m : w <= scored[n].score

LEMMA IntervalIs ==
    ASSUME NEW n \in Nat
    PROVE  IsFiniteSet(1 .. n) /\ Cardinality(1 .. n) = n
<1>1. 1 \in Int /\ n \in Int
  OBVIOUS
<1>2. IsFiniteSet(1 .. n) /\ Cardinality(1 .. n) = IF 1 > n THEN 0 ELSE n - 1 + 1
  BY ONLY <1>1, FS_Interval
<1> QED
  BY <1>2

LEMMA NoMoreThanBelow ==
    ASSUME NEW m \in Nat, NEW n \in Nat, NEW f \in [1 .. m -> 1 .. n],
           \A a, b \in 1 .. m : f[a] = f[b] => a = b
    PROVE  m <= n
<1>1. f \in Injection(1 .. m, 1 .. n)
  BY DEF Injection, IsInjective
<1>2. Cardinality(1 .. m) <= Cardinality(1 .. n)
  BY <1>1, IntervalIs, FS_Injection
<1> QED
  BY <1>2, IntervalIs

LEMMA CutIs ==
    ASSUME NEW scored \in Seq(ScoredEntries), NEW limit \in Nat
    PROVE  /\ Len(scored) \in Nat /\ Cut(scored, limit) \in Nat
           /\ Cut(scored, limit) <= Len(scored) /\ Cut(scored, limit) <= limit
           /\ Cut(scored, limit) = Len(scored) \/ Cut(scored, limit) = limit
           /\ DOMAIN scored = 1 .. Len(scored)
<1> DEFINE n == Len(scored)
<1>1. n \in Nat /\ DOMAIN scored = 1 .. n
  OBVIOUS
<1>2. Cut(scored, limit) = IF n < limit THEN n ELSE limit
  BY DEF Cut
<1> HIDE DEF n
<1> QED
  BY <1>1, <1>2 DEF n

LEMMA SortedIs ==
    ASSUME NEW scored \in Seq(ScoredEntries), NEW order \in Sorted(scored)
    PROVE  /\ order \in [DOMAIN scored -> DOMAIN scored]
           /\ \A m, n \in DOMAIN scored : order[m] = order[n] => m = n
           /\ \A k \in DOMAIN scored : \E j \in DOMAIN scored : order[j] = k
           /\ \A m, n \in DOMAIN scored :
                 m < n => scored[order[n]].score <= scored[order[m]].score
<1>1. /\ order \in [DOMAIN scored -> DOMAIN scored] /\ IsInjective(order)
      /\ \A m, n \in DOMAIN scored :
            m < n => scored[order[m]].score >= scored[order[n]].score
  BY DEF Sorted
<1>2. \A m, n \in DOMAIN scored : order[m] = order[n] => m = n
  BY <1>1 DEF IsInjective
<1>3. order \in Injection(DOMAIN scored, DOMAIN scored)
  BY <1>1 DEF Injection
<1>4. IsFiniteSet(DOMAIN scored)
  BY IntervalIs
<1>5. order \in Surjection(DOMAIN scored, DOMAIN scored)
  BY <1>3, <1>4, FS_Injection
<1>6. \A k \in DOMAIN scored : \E j \in DOMAIN scored : order[j] = k
  BY <1>5 DEF Surjection
<1>7. ASSUME NEW m \in DOMAIN scored, NEW n \in DOMAIN scored, m < n
      PROVE  scored[order[n]].score <= scored[order[m]].score
  <2>1. scored[order[m]] \in ScoredEntries /\ scored[order[n]] \in ScoredEntries
    BY <1>1
  <2>2. scored[order[m]].score \in Nat /\ scored[order[n]].score \in Nat
    BY <2>1 DEF ScoredEntries
  <2>3. scored[order[m]].score >= scored[order[n]].score
    BY <1>1, <1>7
  <2> QED
    BY <2>2, <2>3
<1> QED
  BY <1>1, <1>2, <1>6, <1>7

(* The first of a sorted list are no worse than any other of it, and than   *)
(* what as many as are taken outdo.                                         *)
LEMMA FirstAreBest ==
    ASSUME NEW scored \in Seq(ScoredEntries), NEW order \in Sorted(scored),
           NEW limit \in Nat, NEW n \in 1 .. Cut(scored, limit)
    PROVE  /\ n \in DOMAIN scored
           /\ \A j \in DOMAIN scored \ (1 .. Cut(scored, limit)) :
                 scored[order[j]].score <= scored[order[n]].score
           /\ \A w \in Nat : Outdone(scored, w, limit) => w <= scored[order[n]].score
<1> DEFINE cut == Cut(scored, limit)
           l == Len(scored)
<1>1. l \in Nat /\ cut \in Nat /\ cut <= l /\ cut <= limit /\ DOMAIN scored = 1 .. l
  BY CutIs
<1> HIDE DEF cut, l
<1>2. n \in 1 .. cut /\ n \in DOMAIN scored /\ n \in Nat
  BY <1>1 DEF cut
<1>3. ASSUME NEW j \in DOMAIN scored \ (1 .. cut)
      PROVE  scored[order[j]].score <= scored[order[n]].score
  <2>1. j \in DOMAIN scored /\ n < j
    BY <1>1, <1>2
  <2> QED
    BY <1>2, <2>1, SortedIs
<1>4. ASSUME NEW w \in Nat, Outdone(scored, w, limit) PROVE w <= scored[order[n]].score
  <2>1. PICK m \in Nat : /\ limit <= m /\ m <= l
                         /\ \A k \in 1 .. m : w <= scored[k].score
    BY <1>4 DEF Outdone, l
  <2>2. order[n] \in DOMAIN scored
    BY <1>2, SortedIs
  <2>3. \A k \in DOMAIN scored : scored[k].score \in Nat
    <3>1. \A k \in DOMAIN scored : scored[k] \in ScoredEntries
      OBVIOUS
    <3> QED
      BY <3>1 DEF ScoredEntries
  <2>4. ASSUME ~ (w <= scored[order[n]].score) PROVE FALSE
    <3> DEFINE f == [k \in 1 .. m |-> CHOOSE j \in DOMAIN scored : order[j] = k]
    <3>1. ASSUME NEW k \in 1 .. m PROVE f[k] \in 1 .. n - 1 /\ order[f[k]] = k
      <4>1. k \in DOMAIN scored
        BY <1>1, <2>1
      <4>2. \E j \in DOMAIN scored : order[j] = k
        BY <4>1, SortedIs
      <4>3. f[k] \in DOMAIN scored /\ order[f[k]] = k
        BY <4>2
      <4> HIDE DEF f
      <4>4. w <= scored[k].score /\ scored[k].score \in Nat /\ scored[order[n]].score \in Nat
        BY <2>1, <2>2, <2>3, <4>1
      <4>5. ~ (scored[k].score <= scored[order[n]].score)
        BY <2>4, <4>4
      <4>a. \A a, b \in DOMAIN scored :
               a < b => scored[order[b]].score <= scored[order[a]].score
        BY SortedIs
      <4>b. ASSUME n < f[k] PROVE FALSE
        <5>1. scored[order[f[k]]].score <= scored[order[n]].score
          BY <1>2, <4>3, <4>a, <4>b
        <5> QED
          BY <4>3, <4>5, <5>1
      <4>c. ASSUME f[k] = n PROVE FALSE
        <5>1. order[n] = k
          BY <4>3, <4>c
        <5>2. scored[k].score = scored[order[n]].score
          BY <5>1
        <5> QED
          BY <4>4, <4>5, <5>2
      <4>6. ~ (n < f[k]) /\ f[k] # n
        BY <4>b, <4>c
      <4>7. f[k] \in 1 .. n - 1
        BY <1>1, <1>2, <4>3, <4>6
      <4> QED
        BY <4>3, <4>7
    <3>2. f \in [1 .. m -> 1 .. n - 1]
      BY <3>1
    <3>3. \A a, b \in 1 .. m : f[a] = f[b] => a = b
      <4> HIDE DEF f
      <4> QED
        BY <3>1
    <3> HIDE DEF f
    <3>4. n - 1 \in Nat
      BY <1>2
    <3>5. m <= n - 1
      BY <3>2, <3>3, <3>4, NoMoreThanBelow
    <3> QED
      BY <1>1, <1>2, <2>1, <3>5
  <2> QED
    BY <2>4
<1> QED
  BY <1>2, <1>3, <1>4 DEF cut

(* What is returned: the entries at the first places of a sorted list.      *)
Taken(results, ix, scored, limit, pos) ==
    LET cut == Cut(scored, limit) IN
    /\ pos \in [1 .. cut -> DOMAIN scored]
    /\ \A a, b \in 1 .. cut : pos[a] = pos[b] => a = b
    /\ results = [n \in 1 .. cut |-> Result(ix, scored[pos[n]])]
    /\ \A n \in 1 .. cut :
          /\ \A k \in DOMAIN scored : (\A m \in 1 .. cut : pos[m] # k)
                 => scored[k].score <= scored[pos[n]].score
          /\ \A w \in Nat : Outdone(scored, w, limit) => w <= scored[pos[n]].score

LEMMA MaterializeTakes ==
    ASSUME NEW ix, NEW scored \in Seq(ScoredEntries), NEW limit \in Nat,
           \A n \in DOMAIN scored : HasPath(ix, scored[n].index),
           NEW results \in Materialize(ix, scored, limit)
    PROVE  \E pos : Taken(results, ix, scored, limit, pos)
<1> DEFINE cut == Cut(scored, limit)
           real(order) == Ascending({n \in 1 .. cut : HasPath(ix, scored[order[n]].index)})
<1>1. PICK order \in Sorted(scored) :
         results = [n \in DOMAIN real(order) |-> Result(ix, scored[order[real(order)[n]]])]
  BY DEF Materialize, Cut
<1>2. /\ order \in [DOMAIN scored -> DOMAIN scored]
      /\ \A m, n \in DOMAIN scored : order[m] = order[n] => m = n
      /\ \A k \in DOMAIN scored : \E j \in DOMAIN scored : order[j] = k
  BY SortedIs
<1>3. cut \in Nat /\ 1 .. cut \subseteq DOMAIN scored
  BY CutIs
<1> DEFINE at == Ascending(1 .. cut)
           pos == [n \in 1 .. cut |-> order[at[n]]]
<1>4. real(order) = at
  <2>1. \A n \in 1 .. cut : HasPath(ix, scored[order[n]].index)
    BY <1>2, <1>3
  <2>2. {n \in 1 .. cut : HasPath(ix, scored[order[n]].index)} = 1 .. cut
    BY <2>1
  <2> QED
    BY <2>2
<1>5. Enumerates(at, 1 .. cut) /\ DOMAIN at = 1 .. cut
  <2> HIDE DEF cut
  <2>1. 1 .. cut \in SUBSET Nat /\ IsFiniteSet(1 .. cut) /\ Cardinality(1 .. cut) = cut
    BY <1>3, IntervalIs
  <2>2. DOMAIN at = 1 .. cut
    BY <2>1 DEF Ascending
  <2> QED
    BY <2>1, <2>2, AscendingEnumerates
<1> HIDE DEF at, cut, real
<1>6. \A n \in 1 .. cut : at[n] \in 1 .. cut
  BY <1>5 DEF Enumerates
<1>7. ASSUME NEW a \in 1 .. cut, NEW b \in 1 .. cut, at[a] = at[b] PROVE a = b
  <2>1. a \in Nat /\ b \in Nat /\ at[a] \in Nat /\ at[b] \in Nat
    BY <1>3, <1>6
  <2>2. a < b => at[a] < at[b]
    BY <1>5 DEF Enumerates
  <2>3. b < a => at[b] < at[a]
    BY <1>5 DEF Enumerates
  <2> QED
    BY <1>7, <2>1, <2>2, <2>3
<1>8. \A j \in 1 .. cut : \E n \in 1 .. cut : at[n] = j
  BY <1>5 DEF Enumerates
<1>9. pos \in [1 .. cut -> DOMAIN scored]
  BY <1>2, <1>3, <1>6
<1>10. ASSUME NEW a \in 1 .. cut, NEW b \in 1 .. cut, pos[a] = pos[b] PROVE a = b
  <2>1. order[at[a]] = order[at[b]]
    BY <1>10
  <2>2. at[a] \in DOMAIN scored /\ at[b] \in DOMAIN scored
    BY <1>3, <1>6
  <2>3. \A m, n \in DOMAIN scored : order[m] = order[n] => m = n
    BY <1>2
  <2>4. at[a] = at[b]
    BY ONLY <2>1, <2>2, <2>3
  <2> QED
    BY <1>7, <2>4
<1>11. results = [n \in 1 .. cut |-> Result(ix, scored[pos[n]])]
  BY <1>1, <1>4, <1>5
<1>12. ASSUME NEW n \in 1 .. cut, NEW k \in DOMAIN scored, \A m \in 1 .. cut : pos[m] # k
       PROVE  scored[k].score <= scored[pos[n]].score
  <2>1. PICK j \in DOMAIN scored : order[j] = k
    BY <1>2
  <2>2. j \notin 1 .. cut
    <3> SUFFICES ASSUME j \in 1 .. cut PROVE FALSE
      OBVIOUS
    <3>1. PICK m \in 1 .. cut : at[m] = j
      BY <1>8
    <3>2. pos[m] = k
      BY <2>1, <3>1
    <3> QED
      BY <1>12, <3>2
  <2>3. at[n] \in 1 .. cut
    BY <1>6
  <2>4. scored[order[j]].score <= scored[order[at[n]]].score
    BY <2>2, <2>3, FirstAreBest DEF cut
  <2> QED
    BY <2>1, <2>4
<1>13. ASSUME NEW n \in 1 .. cut, NEW w \in Nat, Outdone(scored, w, limit)
       PROVE  w <= scored[pos[n]].score
  <2>1. at[n] \in 1 .. cut
    BY <1>6
  <2>2. w <= scored[order[at[n]]].score
    BY <1>13, <2>1, FirstAreBest DEF cut
  <2> QED
    BY <2>2
<1> HIDE DEF pos
<1>14. Taken(results, ix, scored, limit, pos)
  BY <1>9, <1>10, <1>11, <1>12, <1>13 DEF Taken, cut
<1> QED
  BY <1>14
-----------------------------------------------------------------------------
(* What a scan collects                                                     *)

LEMMA MatchIs ==
    ASSUME NEW q \in Queries, NEW name \in AllNames
    PROVE  Match[q][name] \in Nat
<1>1. Match \in [Queries -> [AllNames -> {0, 800, 900, 1000}]]
  BY SearchAssumption DEF AllNames
<1>2. Match[q][name] \in {0, 800, 900, 1000}
  BY <1>1
<1> QED
  BY <1>2

LEMMA ScoredIs ==
    ASSUME NEW ix, NEW v, Mirrored(ix, v), NEW q \in Queries, NEW i \in Visible(ix)
    PROVE  /\ Scored(ix, q, i) \in ScoredEntries /\ Scored(ix, q, i).index = i
           /\ Scored(ix, q, i).score
                = Match[q][NameOf(ix, i)] + (IF IsDir(ix, i) THEN DirectoryBonus ELSE 0)
<1>1. RefOf(ix, i) \in DOMAIN v /\ RefLookup(ix, RefOf(ix, i)) = i
  BY FileOfEntry
<1>2. NameOf(ix, i) \in AllNames /\ i \in Nat
  BY <1>1, EntryOfFile
<1>3. Match[q][NameOf(ix, i)] \in Nat
  BY <1>2, MatchIs
<1>4. Match[q][NameOf(ix, i)] + (IF IsDir(ix, i) THEN DirectoryBonus ELSE 0) \in Nat
  BY <1>3 DEF DirectoryBonus
<1> QED
  BY <1>2, <1>4 DEF Scored, ScoredEntries

(* The hits of ids, each once.                                              *)
Scanned(ix, q, ids, s) ==
    /\ s \in Seq(ScoredEntries)
    /\ \A n \in DOMAIN s : /\ s[n].index \in ids /\ Hit(ix, q, s[n].index)
                           /\ s[n] = Scored(ix, q, s[n].index)
    /\ \A m, n \in DOMAIN s : s[m].index = s[n].index => m = n
    /\ \A i \in ids : Hit(ix, q, i) => \E n \in DOMAIN s : s[n].index = i

LEMMA ScoresAre ==
    ASSUME NEW ix, NEW v, Mirrored(ix, v), NEW q \in Queries, NEW ids \in SUBSET Indices(ix)
    PROVE  Scanned(ix, q, ids, Scores(ix, q, ids))
<1> DEFINE S == {i \in ids : Hit(ix, q, i)}
           hits == Ascending(S)
           s == Scores(ix, q, ids)
<1>1. LogicalLen(ix) \in Nat /\ Indices(ix) = 1 .. LogicalLen(ix)
  BY Lengths DEF Mirrored, Indices
<1>2. S \in SUBSET Nat /\ IsFiniteSet(S) /\ \A i \in S : i \in Visible(ix)
  <2>1. S \subseteq 1 .. LogicalLen(ix)
    BY <1>1
  <2>2. IsFiniteSet(1 .. LogicalLen(ix))
    BY <1>1, IntervalIs
  <2>3. IsFiniteSet(S)
    BY <2>1, <2>2, FS_Subset
  <2>4. \A i \in S : i \in Visible(ix)
    BY DEF Visible, Hit
  <2>5. S \in SUBSET Nat
    BY <1>1, <2>1
  <2> QED
    BY <2>3, <2>4, <2>5
<1>3. Enumerates(hits, S)
  BY <1>2, AscendingEnumerates
<1>4. s = [n \in DOMAIN hits |-> Scored(ix, q, hits[n])]
  BY DEF Scores
<1>5. \A i \in S : /\ i \in ids /\ Hit(ix, q, i)
                   /\ Scored(ix, q, i) \in ScoredEntries /\ Scored(ix, q, i).index = i
  BY <1>2, ScoredIs
<1>6. \A i \in ids : Hit(ix, q, i) => i \in S
  OBVIOUS
<1> HIDE DEF S, hits, s
<1>7. /\ DOMAIN hits = 1 .. Len(hits) /\ Len(hits) \in Nat
      /\ \A n \in DOMAIN hits : hits[n] \in S
      /\ \A i \in S : \E n \in DOMAIN hits : hits[n] = i
  BY <1>3 DEF Enumerates
<1>8. \A n \in DOMAIN hits : s[n] = Scored(ix, q, hits[n]) /\ s[n].index = hits[n]
  BY <1>4, <1>5, <1>7
<1>9. DOMAIN s = DOMAIN hits /\ s \in [1 .. Len(hits) -> ScoredEntries]
  BY <1>4, <1>5, <1>7
<1>10. s \in Seq(ScoredEntries)
  BY <1>7, <1>9
<1>11. ASSUME NEW m \in DOMAIN s, NEW n \in DOMAIN s, s[m].index = s[n].index PROVE m = n
  <2>a. m \in DOMAIN hits /\ n \in DOMAIN hits
    BY <1>9
  <2>b. hits[m] = hits[n]
    BY <1>8, <1>11, <2>a
  <2>c. hits[m] \in S /\ m \in Nat /\ n \in Nat
    BY <1>7, <2>a
  <2>1. hits[m] = hits[n] /\ m \in Nat /\ n \in Nat /\ hits[m] \in Nat
    BY <1>2, <2>b, <2>c
  <2>2. m < n => hits[m] < hits[n]
    BY <1>3, <1>9 DEF Enumerates
  <2>3. n < m => hits[n] < hits[m]
    BY <1>3, <1>9 DEF Enumerates
  <2> QED
    BY <2>1, <2>2, <2>3
<1>12. \A n \in DOMAIN s : /\ s[n].index \in ids /\ Hit(ix, q, s[n].index)
                           /\ s[n] = Scored(ix, q, s[n].index)
  BY <1>5, <1>7, <1>8, <1>9
<1>13. \A i \in ids : Hit(ix, q, i) => \E n \in DOMAIN s : s[n].index = i
  BY <1>6, <1>7, <1>8, <1>9
<1>14. Scanned(ix, q, ids, s)
  BY <1>10, <1>11, <1>12, <1>13 DEF Scanned
<1> QED
  BY <1>14 DEF s

(* What is left when not all are kept: hits of ids, each once, and what is  *)
(* not there would not be among the first.                                  *)
Candidates(ix, q, ids, s, limit) ==
    /\ s \in Seq(ScoredEntries)
    /\ \A n \in DOMAIN s : /\ s[n].index \in ids /\ Hit(ix, q, s[n].index)
                           /\ s[n] = Scored(ix, q, s[n].index)
    /\ \A m, n \in DOMAIN s : s[m].index = s[n].index => m = n
    /\ \A i \in ids : Hit(ix, q, i) => \/ \E n \in DOMAIN s : s[n].index = i
                                       \/ Outdone(s, Scored(ix, q, i).score, limit)

LEMMA AllAreCandidates ==
    ASSUME NEW ix, NEW q, NEW ids, NEW s, Scanned(ix, q, ids, s), NEW limit
    PROVE  Candidates(ix, q, ids, s, limit)
BY DEF Scanned, Candidates

LEMMA TopCandidates ==
    ASSUME NEW ix, NEW q, NEW ids, NEW s, Scanned(ix, q, ids, s), NEW limit \in Nat
    PROVE  Candidates(ix, q, ids, TopN(s, 2 * limit), limit)
<1> DEFINE cap == 2 * limit
           top == TopN(s, cap)
<1>1. /\ s \in Seq(ScoredEntries)
      /\ \A n \in DOMAIN s : /\ s[n].index \in ids /\ Hit(ix, q, s[n].index)
                             /\ s[n] = Scored(ix, q, s[n].index)
      /\ \A m, n \in DOMAIN s : s[m].index = s[n].index => m = n
      /\ \A i \in ids : Hit(ix, q, i) => \E n \in DOMAIN s : s[n].index = i
  BY DEF Scanned
<1>2. cap \in Nat /\ limit <= cap
  OBVIOUS
<1> HIDE DEF cap
<1>3. KeptSoFar(top, s, cap, Len(s))
  BY <1>1, <1>2, TopNKeepsTheBest
<1> HIDE DEF top
<1>4. DOMAIN s = 1 .. Len(s)
  BY <1>1
<1>5. /\ top \in Seq(ScoredEntries) /\ Len(top) <= cap
      /\ \A n \in DOMAIN top : \E j \in DOMAIN s : top[n] = s[j]
      /\ \A n, m \in DOMAIN top : top[n].index = top[m].index => n = m
      /\ \A j \in DOMAIN s :
            \/ \E n \in DOMAIN top : top[n] = s[j]
            \/ Len(top) = cap /\ \A n \in DOMAIN top : s[j].score <= top[n].score
  BY <1>3, <1>4 DEF KeptSoFar
<1>6. \A n \in DOMAIN top : /\ top[n].index \in ids /\ Hit(ix, q, top[n].index)
                            /\ top[n] = Scored(ix, q, top[n].index)
  BY <1>1, <1>5
<1>7. ASSUME NEW i \in ids, Hit(ix, q, i)
      PROVE  \/ \E n \in DOMAIN top : top[n].index = i
             \/ Outdone(top, Scored(ix, q, i).score, limit)
  <2>1. PICK j \in DOMAIN s : s[j].index = i /\ s[j] = Scored(ix, q, i)
    BY <1>1, <1>7
  <2>2. ASSUME NEW n \in DOMAIN top, top[n] = s[j]
        PROVE  top[n].index = i
    BY <2>1, <2>2
  <2>3. ASSUME Len(top) = cap, \A n \in DOMAIN top : s[j].score <= top[n].score
        PROVE  Outdone(top, Scored(ix, q, i).score, limit)
    <3>1. DOMAIN top = 1 .. cap
      BY <1>5, <2>3
    <3>2. \A n \in 1 .. cap : Scored(ix, q, i).score <= top[n].score
      BY <2>1, <2>3, <3>1
    <3>3. limit <= cap /\ cap <= Len(top)
      BY <1>2, <2>3
    <3> QED
      BY <1>2, <3>2, <3>3 DEF Outdone
  <2> QED
    BY <1>5, <2>1, <2>2, <2>3
<1>8. Candidates(ix, q, ids, top, limit)
  BY <1>5, <1>6, <1>7 DEF Candidates
<1> QED
  BY <1>8 DEF top, cap

(* Candidates of two parts, one after the other.                            *)
LEMMA MoreCandidates ==
    ASSUME NEW ix, NEW q, NEW A, NEW B, A \cap B = {}, NEW limit,
           NEW s, Candidates(ix, q, A, s, limit), NEW t, Scanned(ix, q, B, t)
    PROVE  Candidates(ix, q, A \cup B, s \o t, limit)
<1> DEFINE m == Len(s)
           n == Len(t)
           u == s \o t
<1>1. /\ s \in Seq(ScoredEntries)
      /\ \A k \in DOMAIN s : /\ s[k].index \in A /\ Hit(ix, q, s[k].index)
                             /\ s[k] = Scored(ix, q, s[k].index)
      /\ \A j, k \in DOMAIN s : s[j].index = s[k].index => j = k
      /\ \A i \in A : Hit(ix, q, i) => \/ \E k \in DOMAIN s : s[k].index = i
                                       \/ Outdone(s, Scored(ix, q, i).score, limit)
  BY DEF Candidates
<1>2. /\ t \in Seq(ScoredEntries)
      /\ \A k \in DOMAIN t : /\ t[k].index \in B /\ Hit(ix, q, t[k].index)
                             /\ t[k] = Scored(ix, q, t[k].index)
      /\ \A j, k \in DOMAIN t : t[j].index = t[k].index => j = k
      /\ \A i \in B : Hit(ix, q, i) => \E k \in DOMAIN t : t[k].index = i
  BY DEF Scanned
<1>3. /\ u \in Seq(ScoredEntries) /\ Len(u) = m + n /\ m \in Nat /\ n \in Nat
      /\ DOMAIN u = 1 .. m + n /\ DOMAIN s = 1 .. m /\ DOMAIN t = 1 .. n
      /\ \A k \in 1 .. m + n : u[k] = IF k <= m THEN s[k] ELSE t[k - m]
  BY <1>1, <1>2
<1> HIDE DEF m, n, u
<1>4. \A k \in DOMAIN s : k \in DOMAIN u /\ u[k] = s[k]
  BY <1>3
<1>5. \A k \in DOMAIN t : m + k \in DOMAIN u /\ u[m + k] = t[k]
  <2>1. ASSUME NEW k \in DOMAIN t PROVE m + k \in DOMAIN u /\ u[m + k] = t[k]
    <3>1. m + k \in 1 .. m + n /\ ~ (m + k <= m) /\ m + k - m = k
      BY <1>3
    <3> QED
      BY <1>3, <3>1
  <2> QED
    BY <2>1
<1>6. \A k \in DOMAIN u : \/ k \in DOMAIN s /\ u[k] = s[k] /\ u[k].index \in A
                          \/ k - m \in DOMAIN t /\ u[k] = t[k - m] /\ u[k].index \in B
  <2>1. ASSUME NEW k \in DOMAIN u
        PROVE  \/ k \in DOMAIN s /\ u[k] = s[k] /\ u[k].index \in A
               \/ k - m \in DOMAIN t /\ u[k] = t[k - m] /\ u[k].index \in B
    <3>1. ASSUME k <= m PROVE k \in DOMAIN s /\ u[k] = s[k]
      BY <1>3, <3>1
    <3>2. ASSUME ~ (k <= m) PROVE k - m \in DOMAIN t /\ u[k] = t[k - m]
      BY <1>3, <3>2
    <3> QED
      BY <1>1, <1>2, <3>1, <3>2
  <2> QED
    BY <2>1
<1>7. \A k \in DOMAIN u : /\ u[k].index \in A \cup B /\ Hit(ix, q, u[k].index)
                          /\ u[k] = Scored(ix, q, u[k].index)
  BY <1>1, <1>2, <1>6
<1>8. ASSUME NEW j \in DOMAIN u, NEW k \in DOMAIN u, u[j].index = u[k].index PROVE j = k
  <2>1. ASSUME u[j].index \in A PROVE j = k
    <3>1. u[j].index \notin B /\ u[k].index \notin B
      BY <1>8, <2>1
    <3>2. j \in DOMAIN s /\ u[j] = s[j] /\ k \in DOMAIN s /\ u[k] = s[k]
      BY <1>6, <3>1
    <3> QED
      BY <1>1, <1>8, <3>2
  <2>2. ASSUME u[j].index \in B PROVE j = k
    <3>1. u[j].index \notin A /\ u[k].index \notin A
      BY <1>8, <2>2
    <3>2. j - m \in DOMAIN t /\ u[j] = t[j - m] /\ k - m \in DOMAIN t /\ u[k] = t[k - m]
      BY <1>6, <3>1
    <3>3. j - m = k - m
      BY <1>2, <1>8, <3>2
    <3>4. j \in Nat /\ k \in Nat
      BY <1>3
    <3> QED
      BY <1>3, <3>3, <3>4
  <2> QED
    BY <1>6, <2>1, <2>2
<1>9. ASSUME NEW i \in A \cup B, Hit(ix, q, i)
      PROVE  \/ \E k \in DOMAIN u : u[k].index = i
             \/ Outdone(u, Scored(ix, q, i).score, limit)
  <2>1. ASSUME i \in B PROVE \E k \in DOMAIN u : u[k].index = i
    <3>1. PICK k \in DOMAIN t : t[k].index = i
      BY <1>2, <1>9, <2>1
    <3> QED
      BY <1>5, <3>1
  <2>2. ASSUME NEW k \in DOMAIN s, s[k].index = i PROVE \E j \in DOMAIN u : u[j].index = i
    BY <1>4, <2>2
  <2>3. ASSUME Outdone(s, Scored(ix, q, i).score, limit)
        PROVE  Outdone(u, Scored(ix, q, i).score, limit)
    <3> DEFINE w == Scored(ix, q, i).score
    <3> HIDE DEF w
    <3>1. PICK k \in Nat : /\ limit <= k /\ k <= m
                           /\ \A j \in 1 .. k : w <= s[j].score
      BY <2>3 DEF Outdone, w, m
    <3>2. \A j \in 1 .. k : w <= u[j].score
      <4>1. \A j \in 1 .. k : j \in DOMAIN s
        BY <1>3, <3>1
      <4> QED
        BY <1>4, <3>1, <4>1
    <3>3. k <= Len(u)
      BY <1>3, <3>1
    <3> QED
      BY <3>1, <3>2, <3>3 DEF Outdone, w
  <2> QED
    BY <1>1, <1>9, <2>1, <2>2, <2>3
<1>10. Candidates(ix, q, A \cup B, u, limit)
  BY <1>3, <1>7, <1>8, <1>9 DEF Candidates
<1> QED
  BY <1>10 DEF u
-----------------------------------------------------------------------------
(* The results of a search are the best of what the volume holds            *)

(* A volume whose files have depths and paths, and an index that shows it.  *)
Charted(ix, v, d, p) ==
    Mirrored(ix, v) /\ Unique(v) /\ Depths(v, d) /\ Paths(v, d, p)

FoundIn(v, p, r, base) ==
    [path |-> p[r], name |-> v[r].name, dir |-> r \in Dirs,
     score |-> base + (IF r \in Dirs THEN DirectoryBonus ELSE 0)]

HitsIn(v, q) == {r \in DOMAIN v : Match[q][v[r].name] # 0}

WantedIn(v, p, q) == {FoundIn(v, p, r, Match[q][v[r].name]) : r \in HitsIn(v, q)}

FileFound(v, p, q, r) == FoundIn(v, p, r, Match[q][v[r].name])

LEMMA ResultIs ==
    ASSUME NEW ix, NEW v, NEW d, NEW p, Charted(ix, v, d, p), NEW q \in Queries,
           NEW i \in Visible(ix)
    PROVE  /\ RefOf(ix, i) \in DOMAIN v /\ RefLookup(ix, RefOf(ix, i)) = i
           /\ HasPath(ix, i)
           /\ Result(ix, Scored(ix, q, i)) = FileFound(v, p, q, RefOf(ix, i))
           /\ FileFound(v, p, q, RefOf(ix, i)).score = Scored(ix, q, i).score
           /\ Hit(ix, q, i) <=> RefOf(ix, i) \in HitsIn(v, q)
<1> DEFINE r == RefOf(ix, i)
<1>1. Mirrored(ix, v) /\ Depths(v, d) /\ Paths(v, d, p)
  BY DEF Charted
<1>2. r \in DOMAIN v /\ RefLookup(ix, r) = i
  BY <1>1, FileOfEntry
<1>3. NameOf(ix, i) = v[r].name /\ ~ IsDeleted(ix, i)
  BY <1>1, <1>2, EntryOfFile
<1>4. HasPath(ix, i) /\ PathOf(ix, i) = p[r]
  BY <1>1, <1>2, PathOfIndex
<1>5. IsDir(ix, i) <=> r \in Dirs
  BY DEF IsDir
<1>6. Result(ix, Scored(ix, q, i)) = FileFound(v, p, q, r)
  <2> DEFINE m == Match[q][NameOf(ix, i)]
  <2>1. Result(ix, Scored(ix, q, i))
          = [path |-> PathOf(ix, i), name |-> NameOf(ix, i), dir |-> IsDir(ix, i),
             score |-> m + (IF IsDir(ix, i) THEN DirectoryBonus ELSE 0)]
    BY DEF Result, Scored
  <2>2. IsDir(ix, i) = (r \in Dirs)
    BY DEF IsDir
  <2>3. FileFound(v, p, q, r)
          = [path |-> p[r], name |-> v[r].name, dir |-> r \in Dirs,
             score |-> m + (IF r \in Dirs THEN DirectoryBonus ELSE 0)]
    BY <1>3 DEF FileFound, FoundIn
  <2> HIDE DEF m, r
  <2> QED
    BY <1>3, <1>4, <2>1, <2>2, <2>3
<1>7. FileFound(v, p, q, r).score = Scored(ix, q, i).score
  BY <1>3, <1>5 DEF Scored, FileFound, FoundIn
<1>8. Hit(ix, q, i) <=> r \in HitsIn(v, q)
  BY <1>2, <1>3 DEF Hit, HitsIn
<1> QED
  BY <1>2, <1>4, <1>6, <1>7, <1>8

LEMMA FileIs ==
    ASSUME NEW ix, NEW v, NEW d, NEW p, Charted(ix, v, d, p), NEW q \in Queries,
           NEW r \in DOMAIN v
    PROVE  /\ RefLookup(ix, r) \in Visible(ix) /\ RefOf(ix, RefLookup(ix, r)) = r
           /\ FileFound(v, p, q, r).score = Scored(ix, q, RefLookup(ix, r)).score
           /\ Hit(ix, q, RefLookup(ix, r)) <=> r \in HitsIn(v, q)
<1>1. Mirrored(ix, v)
  BY DEF Charted
<1>2. RefLookup(ix, r) \in Visible(ix) /\ RefOf(ix, RefLookup(ix, r)) = r
  BY <1>1, EntryOfFile DEF Visible
<1> QED
  BY <1>2, ResultIs

LEMMA SameFound ==
    ASSUME NEW ix, NEW v, NEW d, NEW p, Charted(ix, v, d, p), NEW q,
           NEW r \in DOMAIN v, NEW s \in DOMAIN v,
           FileFound(v, p, q, r) = FileFound(v, p, q, s)
    PROVE  r = s
<1>1. p[r] = p[s]
  BY DEF FileFound, FoundIn
<1>2. Tree(v) /\ Unique(v) /\ Depths(v, d) /\ Paths(v, d, p)
  BY DEF Charted, Mirrored
<1> QED
  BY <1>1, <1>2, PathsDiffer

(* Each candidate stands for a wanted result of its own.                    *)
LEMMA CandidatesAreWanted ==
    ASSUME NEW ix, NEW v, NEW d, NEW p, Charted(ix, v, d, p), NEW q \in Queries,
           NEW ids, ids \subseteq Indices(ix), NEW limit,
           NEW s, Candidates(ix, q, ids, s, limit)
    PROVE  /\ s \in Seq(ScoredEntries)
           /\ \A k \in DOMAIN s :
                 /\ s[k].index \in Visible(ix) /\ HasPath(ix, s[k].index)
                 /\ RefOf(ix, s[k].index) \in HitsIn(v, q)
                 /\ Result(ix, s[k]) = FileFound(v, p, q, RefOf(ix, s[k].index))
                 /\ Result(ix, s[k]) \in WantedIn(v, p, q)
                 /\ Result(ix, s[k]).score = s[k].score
           /\ \A j, k \in DOMAIN s : Result(ix, s[j]) = Result(ix, s[k]) => j = k
<1>1. /\ s \in Seq(ScoredEntries)
      /\ \A k \in DOMAIN s : /\ s[k].index \in ids /\ Hit(ix, q, s[k].index)
                             /\ s[k] = Scored(ix, q, s[k].index)
      /\ \A j, k \in DOMAIN s : s[j].index = s[k].index => j = k
  BY DEF Candidates
<1>2. ASSUME NEW k \in DOMAIN s
      PROVE  /\ s[k].index \in Visible(ix) /\ HasPath(ix, s[k].index)
             /\ RefOf(ix, s[k].index) \in HitsIn(v, q)
             /\ Result(ix, s[k]) = FileFound(v, p, q, RefOf(ix, s[k].index))
             /\ Result(ix, s[k]) \in WantedIn(v, p, q)
             /\ Result(ix, s[k]).score = s[k].score
  <2> DEFINE i == s[k].index
  <2>1. s[k] = Scored(ix, q, i) /\ Hit(ix, q, i) /\ i \in Visible(ix)
    BY <1>1 DEF Visible, Hit
  <2> HIDE DEF i
  <2>2. /\ HasPath(ix, i)
        /\ Result(ix, Scored(ix, q, i)) = FileFound(v, p, q, RefOf(ix, i))
        /\ FileFound(v, p, q, RefOf(ix, i)).score = Scored(ix, q, i).score
        /\ RefOf(ix, i) \in HitsIn(v, q)
    BY <2>1, ResultIs
  <2>3. Result(ix, s[k]) = FileFound(v, p, q, RefOf(ix, i))
    BY <2>1, <2>2
  <2>4. Result(ix, s[k]) \in WantedIn(v, p, q)
    BY <2>2, <2>3 DEF WantedIn, FileFound
  <2>5. Result(ix, s[k]).score = s[k].score
    BY <2>1, <2>2, <2>3
  <2> QED
    BY <2>1, <2>2, <2>3, <2>4, <2>5 DEF i
<1>3. ASSUME NEW j \in DOMAIN s, NEW k \in DOMAIN s, Result(ix, s[j]) = Result(ix, s[k])
      PROVE  j = k
  <2> DEFINE a == s[j].index
             b == s[k].index
  <2>1. a \in Visible(ix) /\ b \in Visible(ix)
    BY <1>2
  <2>2. FileFound(v, p, q, RefOf(ix, a)) = FileFound(v, p, q, RefOf(ix, b))
    BY <1>2, <1>3
  <2> HIDE DEF a, b
  <2>3. /\ RefOf(ix, a) \in DOMAIN v /\ RefLookup(ix, RefOf(ix, a)) = a
        /\ RefOf(ix, b) \in DOMAIN v /\ RefLookup(ix, RefOf(ix, b)) = b
    BY <2>1, ResultIs
  <2>4. RefOf(ix, a) = RefOf(ix, b)
    BY <2>2, <2>3, SameFound
  <2>5. a = b
    BY <2>3, <2>4
  <2> QED
    BY <1>1, <2>5 DEF a, b
<1> QED
  BY <1>1, <1>2, <1>3

(* There are no more candidates than results wanted, and as many when the   *)
(* limit cut none off.                                                      *)
LEMMA WantedAre ==
    ASSUME NEW ix, NEW v, NEW d, NEW p, Charted(ix, v, d, p), NEW q \in Queries,
           NEW ids, ids \subseteq Indices(ix), NEW limit \in Nat,
           NEW s, Candidates(ix, q, ids, s, limit)
    PROVE  /\ IsFiniteSet(WantedIn(v, p, q)) /\ Cardinality(WantedIn(v, p, q)) \in Nat
           /\ Len(s) <= Cardinality(WantedIn(v, p, q))
           /\ Len(s) < limit /\ ids = Indices(ix) => Len(s) = Cardinality(WantedIn(v, p, q))
           /\ Cardinality(WantedIn(v, p, q)) <= Cardinality(Recs)
<1> DEFINE W == WantedIn(v, p, q)
           n == Len(s)
           g == [k \in 1 .. n |-> Result(ix, s[k])]
<1>1. Mirrored(ix, v) /\ Tree(v)
  BY DEF Charted, Mirrored
<1>2. IsFiniteSet(Recs) /\ DOMAIN v \subseteq Recs
  BY <1>1, FeedAssumption DEF Tree, VolumeTyped
<1>3. IsFiniteSet(HitsIn(v, q)) /\ Cardinality(HitsIn(v, q)) <= Cardinality(Recs)
  <2>1. HitsIn(v, q) \subseteq Recs
    BY <1>2 DEF HitsIn
  <2> QED
    BY <1>2, <2>1, FS_Subset
<1>4. IsFiniteSet(W) /\ Cardinality(W) <= Cardinality(HitsIn(v, q))
  <2> DEFINE h == [r \in HitsIn(v, q) |-> FileFound(v, p, q, r)]
  <2>1. W = {FileFound(v, p, q, r) : r \in HitsIn(v, q)}
    BY DEF WantedIn, FileFound
  <2>2. h \in Surjection(HitsIn(v, q), W)
    BY <2>1 DEF Surjection
  <2> QED
    BY <1>3, <2>2, FS_Surjection
<1>5. Cardinality(W) \in Nat /\ Cardinality(HitsIn(v, q)) \in Nat /\ Cardinality(Recs) \in Nat
  BY <1>2, <1>3, <1>4, FS_CardinalityType
<1>6. /\ s \in Seq(ScoredEntries)
      /\ \A k \in DOMAIN s : Result(ix, s[k]) \in W
      /\ \A j, k \in DOMAIN s : Result(ix, s[j]) = Result(ix, s[k]) => j = k
  <2>1. s \in Seq(ScoredEntries)
    BY DEF Candidates
  <2>2. \A k \in DOMAIN s : Result(ix, s[k]) \in WantedIn(v, p, q)
    BY CandidatesAreWanted
  <2>3. \A j, k \in DOMAIN s : Result(ix, s[j]) = Result(ix, s[k]) => j = k
    BY <2>1, CandidatesAreWanted
  <2> QED
    BY <2>1, <2>2, <2>3
<1>7. n \in Nat /\ DOMAIN s = 1 .. n /\ IsFiniteSet(1 .. n) /\ Cardinality(1 .. n) = n
  <2>1. n \in Nat /\ DOMAIN s = 1 .. n
    BY <1>6
  <2> QED
    BY <2>1, IntervalIs
<1>8. n <= Cardinality(W)
  <2> HIDE DEF n, W
  <2>1. g \in Injection(1 .. n, W)
    BY <1>6, <1>7 DEF Injection, IsInjective
  <2>2. Cardinality(1 .. n) <= Cardinality(W)
    BY <1>4, <1>7, <2>1, FS_Injection
  <2> QED
    BY <1>7, <2>2
<1>9. ASSUME n < limit, ids = Indices(ix) PROVE n = Cardinality(W)
  <2>1. ASSUME NEW w \in W PROVE \E k \in 1 .. n : g[k] = w
    <3>1. PICK r \in HitsIn(v, q) : w = FileFound(v, p, q, r)
      BY <2>1 DEF WantedIn, FileFound
    <3> DEFINE i == RefLookup(ix, r)
    <3>2. r \in DOMAIN v
      BY DEF HitsIn
    <3>3. i \in Visible(ix) /\ RefOf(ix, i) = r /\ Hit(ix, q, i)
      BY <3>1, <3>2, FileIs
    <3> HIDE DEF i
    <3>4. i \in ids
      BY <1>9, <3>3 DEF Visible
    <3>5. ~ Outdone(s, Scored(ix, q, i).score, limit)
      <4>1. ASSUME NEW m \in Nat, limit <= m, m <= n PROVE FALSE
        BY <1>7, <1>9, <4>1
      <4> QED
        BY <4>1 DEF Outdone, n
    <3>6. PICK k \in DOMAIN s : s[k].index = i
      BY <3>3, <3>4, <3>5 DEF Candidates
    <3>7. Result(ix, s[k]) = FileFound(v, p, q, RefOf(ix, s[k].index))
      BY CandidatesAreWanted
    <3>8. k \in 1 .. n /\ g[k] = w
      BY <1>7, <3>1, <3>3, <3>6, <3>7
    <3> QED
      BY <3>8
  <2> HIDE DEF n, W
  <2>2. g \in [1 .. n -> W]
    BY <1>6, <1>7
  <2>3. g \in Surjection(1 .. n, W)
    BY <2>1, <2>2 DEF Surjection
  <2>4. Cardinality(W) <= Cardinality(1 .. n)
    BY <1>7, <2>3, FS_Surjection
  <2> QED
    BY <1>5, <1>7, <1>8, <2>4
<1> QED
  BY <1>3, <1>4, <1>5, <1>7, <1>8, <1>9

(* What is returned, one by one.                                            *)
Returned(results, ix, v, p, q, s, limit, pos) ==
    /\ Taken(results, ix, s, limit, pos)
    /\ Cut(s, limit) \in Nat /\ DOMAIN results = 1 .. Cut(s, limit)
    /\ Len(results) = Cut(s, limit)
    /\ \A n \in DOMAIN results :
          /\ pos[n] \in DOMAIN s
          /\ results[n] = Result(ix, s[pos[n]])
          /\ results[n] \in WantedIn(v, p, q)
          /\ results[n].score = s[pos[n]].score

LEMMA ReturnedAre ==
    ASSUME NEW ix, NEW v, NEW d, NEW p, Charted(ix, v, d, p), NEW q \in Queries,
           NEW ids, ids \subseteq Indices(ix), NEW limit \in Nat,
           NEW s, Candidates(ix, q, ids, s, limit),
           NEW results \in Materialize(ix, s, limit)
    PROVE  \E pos : Returned(results, ix, v, p, q, s, limit, pos)
<1>1. s \in Seq(ScoredEntries) /\ \A k \in DOMAIN s : HasPath(ix, s[k].index)
  BY CandidatesAreWanted
<1>2. PICK pos : Taken(results, ix, s, limit, pos)
  BY <1>1, MaterializeTakes
<1> DEFINE cut == Cut(s, limit)
<1>3. cut \in Nat
  BY <1>1, CutIs
<1> HIDE DEF cut
<1>4. /\ pos \in [1 .. cut -> DOMAIN s]
      /\ results = [n \in 1 .. cut |-> Result(ix, s[pos[n]])]
  BY <1>2 DEF Taken, cut
<1>5. DOMAIN results = 1 .. cut /\ Len(results) = cut
  <2>1. DOMAIN results = 1 .. cut
    BY <1>4
  <2>2. results \in Seq({results[n] : n \in 1 .. cut})
    BY <1>3, <1>4
  <2> QED
    BY <1>3, <2>1, <2>2
<1>6. ASSUME NEW n \in DOMAIN results
      PROVE  /\ pos[n] \in DOMAIN s
             /\ results[n] = Result(ix, s[pos[n]])
             /\ results[n] \in WantedIn(v, p, q)
             /\ results[n].score = s[pos[n]].score
  <2>1. pos[n] \in DOMAIN s /\ results[n] = Result(ix, s[pos[n]])
    BY <1>4, <1>5
  <2> QED
    BY <2>1, CandidatesAreWanted
<1>7. Returned(results, ix, v, p, q, s, limit, pos)
  BY <1>2, <1>3, <1>5, <1>6 DEF Returned, cut
<1> QED
  BY <1>7

LEMMA MaterializeIsBest ==
    ASSUME NEW ix, NEW v, NEW d, NEW p, Charted(ix, v, d, p), NEW q \in Queries,
           NEW limit \in Nat, NEW s, Candidates(ix, q, Indices(ix), s, limit),
           NEW results \in Materialize(ix, s, limit)
    PROVE  BestOf(results, WantedIn(v, p, q), limit)
<1> DEFINE W == WantedIn(v, p, q)
           cut == Cut(s, limit)
<1>0. PICK pos : Returned(results, ix, v, p, q, s, limit, pos)
  BY ReturnedAre
<1>1.   /\ Taken(results, ix, s, limit, pos)
        /\ cut \in Nat /\ DOMAIN results = 1 .. cut /\ Len(results) = cut
        /\ \A n \in DOMAIN results :
              /\ pos[n] \in DOMAIN s /\ results[n] = Result(ix, s[pos[n]])
              /\ results[n] \in W /\ results[n].score = s[pos[n]].score
  BY <1>0 DEF Returned
<1>2. /\ \A a, b \in 1 .. cut : pos[a] = pos[b] => a = b
      /\ \A n \in 1 .. cut :
            /\ \A k \in DOMAIN s : (\A m \in 1 .. cut : pos[m] # k)
                   => s[k].score <= s[pos[n]].score
            /\ \A w \in Nat : Outdone(s, w, limit) => w <= s[pos[n]].score
  BY <1>1 DEF Taken
<1>3. IsInjective(results)
  <2>1. ASSUME NEW a \in DOMAIN results, NEW b \in DOMAIN results, results[a] = results[b]
        PROVE  a = b
    <3>1. pos[a] = pos[b]
      BY <1>1, <2>1, CandidatesAreWanted
    <3> QED
      BY <1>1, <1>2, <3>1
  <2> QED
    BY <2>1 DEF IsInjective
<1>4. ToSet(results) \subseteq W
  BY <1>1 DEF ToSet
<1>5. Len(results) = IF Cardinality(W) < limit THEN Cardinality(W) ELSE limit
  <2> DEFINE l == Len(s)
             c == Cardinality(W)
  <2>1. c \in Nat /\ l <= c /\ (l < limit => l = c)
    BY WantedAre
  <2>2. l \in Nat
    BY CandidatesAreWanted
  <2>3. cut = IF l < limit THEN l ELSE limit
    BY DEF Cut
  <2> HIDE DEF l, c, cut
  <2>4. cut = IF c < limit THEN c ELSE limit
    BY <2>1, <2>2, <2>3
  <2> QED
    BY <1>1, <2>4 DEF c, cut
<1>6. ASSUME NEW n \in DOMAIN results, NEW w \in W \ ToSet(results)
      PROVE  w.score <= results[n].score
  <2>1. PICK r \in HitsIn(v, q) : w = FileFound(v, p, q, r)
    BY <1>6 DEF WantedIn, FileFound
  <2> DEFINE i == RefLookup(ix, r)
  <2>2. r \in DOMAIN v
    BY DEF HitsIn
  <2>3. /\ i \in Visible(ix) /\ RefOf(ix, i) = r /\ Hit(ix, q, i)
        /\ w.score = Scored(ix, q, i).score
    BY <2>1, <2>2, FileIs
  <2> HIDE DEF i
  <2>4. i \in Indices(ix) /\ Scored(ix, q, i).score \in Nat
    <3>1. Scored(ix, q, i) \in ScoredEntries
      BY <2>3, ScoredIs DEF Charted
    <3> QED
      BY <2>3, <3>1 DEF Visible, ScoredEntries
  <2>5. ASSUME NEW k \in DOMAIN s, s[k].index = i PROVE w.score <= results[n].score
    <3>1. /\ Result(ix, s[k]) = FileFound(v, p, q, RefOf(ix, s[k].index))
          /\ Result(ix, s[k]).score = s[k].score
      BY CandidatesAreWanted
    <3>2. Result(ix, s[k]) = w /\ s[k].score = w.score
      BY <2>1, <2>3, <2>5, <3>1
    <3>3. ASSUME NEW m \in 1 .. cut, pos[m] = k PROVE FALSE
      <4>1. m \in DOMAIN results /\ results[m] = w
        BY <1>1, <3>2, <3>3
      <4>2. w \in ToSet(results)
        BY <4>1 DEF ToSet
      <4> QED
        BY <1>6, <4>2
    <3>4. s[k].score <= s[pos[n]].score
      BY <1>1, <1>2, <3>3
    <3> QED
      BY <1>1, <3>2, <3>4
  <2>6. ASSUME Outdone(s, Scored(ix, q, i).score, limit) PROVE w.score <= results[n].score
    <3>1. Scored(ix, q, i).score <= s[pos[n]].score
      BY <1>1, <1>2, <2>4, <2>6
    <3> QED
      BY <1>1, <2>3, <3>1
  <2> QED
    BY <2>3, <2>4, <2>5, <2>6 DEF Candidates
<1> QED
  BY <1>3, <1>4, <1>5, <1>6 DEF BestOf
-----------------------------------------------------------------------------
(* The searches                                                             *)

LEMMA IdsAre ==
    ASSUME NEW ix, Typed(ix)
    PROVE  /\ BaseIds(ix) \subseteq Indices(ix) /\ InsertedIds(ix) \subseteq Indices(ix)
           /\ BaseIds(ix) \cup InsertedIds(ix) = Indices(ix)
           /\ BaseIds(ix) \cap InsertedIds(ix) = {}
           /\ AllIds(ix) = Indices(ix)
<1> DEFINE b == BaseLen(ix)
           l == LogicalLen(ix)
<1>1. b \in Nat /\ l \in Nat /\ b <= l
  BY Lengths
<1>2. /\ BaseIds(ix) = 1 .. b /\ InsertedIds(ix) = b + 1 .. l /\ Indices(ix) = 1 .. l
      /\ AllIds(ix) = BaseIds(ix) \cup InsertedIds(ix)
  BY DEF BaseIds, InsertedIds, Indices, AllIds
<1> HIDE DEF b, l
<1>3. 1 .. b \subseteq 1 .. l /\ b + 1 .. l \subseteq 1 .. l
  BY <1>1
<1>4. (1 .. b) \cup (b + 1 .. l) = 1 .. l
  BY <1>1
<1>5. (1 .. b) \cap (b + 1 .. l) = {}
  BY <1>1
<1> QED
  BY <1>2, <1>3, <1>4, <1>5

LEMMA SearchIsBest ==
    ASSUME NEW ix, NEW v, NEW d, NEW p, Charted(ix, v, d, p),
           NEW q \in Queries, q \notin Short, NEW limit \in Nat,
           NEW results \in Search(ix, q, limit)
    PROVE  BestOf(results, WantedIn(v, p, q), limit)
<1> DEFINE base == Scores(ix, q, BaseIds(ix))
           ins  == Scores(ix, q, InsertedIds(ix))
           top  == TopN(base, 2 * limit)
<1>1. results \in Materialize(ix, top \o ins, limit)
  BY DEF Search
<1>2. Mirrored(ix, v) /\ Typed(ix)
  BY DEF Charted, Mirrored
<1>3. /\ BaseIds(ix) \subseteq Indices(ix) /\ InsertedIds(ix) \subseteq Indices(ix)
      /\ BaseIds(ix) \cup InsertedIds(ix) = Indices(ix)
      /\ BaseIds(ix) \cap InsertedIds(ix) = {}
  BY <1>2, IdsAre
<1>4. Scanned(ix, q, BaseIds(ix), base) /\ Scanned(ix, q, InsertedIds(ix), ins)
  BY <1>2, <1>3, ScoresAre
<1> HIDE DEF base, ins, top
<1>5. Candidates(ix, q, BaseIds(ix), top, limit)
  BY <1>4, TopCandidates DEF top
<1>6. Candidates(ix, q, BaseIds(ix) \cup InsertedIds(ix), top \o ins, limit)
  BY <1>3, <1>4, <1>5, MoreCandidates
<1>7. Candidates(ix, q, Indices(ix), top \o ins, limit)
  BY <1>3, <1>6
<1> QED
  BY <1>1, <1>7, MaterializeIsBest

LEMMA NarrowedIsBest ==
    ASSUME NEW ix, NEW v, NEW d, NEW p, Charted(ix, v, d, p),
           NEW q \in Queries, NEW broader \in Queries, Refines(q, broader),
           NEW limit \in Nat,
           NEW results \in SearchCandidates(ix, q, CandidateIds(ix, broader, AllIds(ix)), limit)
    PROVE  BestOf(results, WantedIn(v, p, q), limit)
<1> DEFINE ids == CandidateIds(ix, broader, AllIds(ix))
           s   == Scores(ix, q, ids)
           top == TopN(s, 2 * limit)
<1>1. results \in Materialize(ix, top, limit)
  BY DEF SearchCandidates
<1>2. Mirrored(ix, v) /\ Typed(ix)
  BY DEF Charted, Mirrored
<1>3. ids = {i \in Indices(ix) : Hit(ix, broader, i)}
  BY <1>2, IdsAre DEF CandidateIds
<1>4. ids \subseteq Indices(ix)
  BY <1>3
<1>5. ASSUME NEW i \in Indices(ix), Hit(ix, q, i) PROVE i \in ids
  <2>1. i \in Visible(ix)
    BY <1>5 DEF Hit, Visible
  <2>2. NameOf(ix, i) \in Names \cup {RootName}
    <3>1. RefOf(ix, i) \in DOMAIN v /\ RefLookup(ix, RefOf(ix, i)) = i
      BY <1>2, <2>1, FileOfEntry
    <3> QED
      BY <1>2, <3>1, EntryOfFile DEF AllNames
  <2>3. Hit(ix, broader, i)
    BY <1>5, <2>2 DEF Refines, Hit
  <2> QED
    BY <1>3, <2>3
<1> HIDE DEF ids, s, top
<1>6. Scanned(ix, q, ids, s)
  BY <1>2, <1>4, ScoresAre DEF s
<1>7. Candidates(ix, q, ids, top, limit)
  BY <1>6, TopCandidates DEF top
<1>8. Candidates(ix, q, Indices(ix), top, limit)
  BY <1>4, <1>5, <1>7 DEF Candidates
<1> QED
  BY <1>1, <1>8, MaterializeIsBest

LEMMA ShortSearchFinds ==
    ASSUME NEW ix, NEW v, NEW d, NEW p, Charted(ix, v, d, p),
           NEW q \in Queries, q \in Short, NEW results \in Search(ix, q, Unlimited)
    PROVE  /\ ToSet(results) \subseteq WantedIn(v, p, q)
           /\ \A r \in HitsIn(v, q) :
                 Match[q][v[r].name] >= 900 /\ RefLookup(ix, r) \notin DOMAIN ix.renamed
                    => FileFound(v, p, q, r) \in ToSet(results)
<1> DEFINE bucket == ShortCandidates(ix, q)
           base == Scores(ix, q, bucket)
           ins  == Scores(ix, q, InsertedIds(ix))
           ids  == bucket \cup InsertedIds(ix)
           s    == base \o ins
<1>1. results \in Materialize(ix, s, Unlimited)
  BY DEF Search
<1>2. Mirrored(ix, v) /\ Typed(ix)
  BY DEF Charted, Mirrored
<1>3. /\ BaseIds(ix) \subseteq Indices(ix) /\ InsertedIds(ix) \subseteq Indices(ix)
      /\ BaseIds(ix) \cup InsertedIds(ix) = Indices(ix)
      /\ BaseIds(ix) \cap InsertedIds(ix) = {}
  BY <1>2, IdsAre
<1>4. bucket = {i \in BaseIds(ix) : InBucket(ix, q, i)}
  BY DEF ShortCandidates
<1>5. bucket \subseteq Indices(ix) /\ bucket \cap InsertedIds(ix) = {} /\ ids \subseteq Indices(ix)
  BY <1>3, <1>4
<1> HIDE DEF bucket, base, ins, s
<1>6. Scanned(ix, q, bucket, base) /\ Scanned(ix, q, InsertedIds(ix), ins)
  BY <1>2, <1>3, <1>5, ScoresAre DEF base, ins
<1> HIDE DEF ids
<1>7. Candidates(ix, q, bucket, base, Unlimited)
  BY <1>6, AllAreCandidates
<1>8. Candidates(ix, q, ids, s, Unlimited)
  BY <1>5, <1>6, <1>7, MoreCandidates DEF ids, s
<1>9. Unlimited \in Nat /\ Cardinality(Recs) < Unlimited /\ Cardinality(Recs) \in Nat
  <2>1. Cardinality(Recs) \in Nat
    BY FeedAssumption, FS_CardinalityType
  <2> QED
    BY <2>1, FeedAssumption, SearchAssumption
<1>10. s \in Seq(ScoredEntries)
  BY <1>8 DEF Candidates
<1>11. Len(s) < Unlimited /\ Cut(s, Unlimited) = Len(s)
  <2>1. /\ Len(s) <= Cardinality(WantedIn(v, p, q))
        /\ Cardinality(WantedIn(v, p, q)) \in Nat
        /\ Cardinality(WantedIn(v, p, q)) <= Cardinality(Recs)
    BY <1>5, <1>8, <1>9, WantedAre
  <2>2. Len(s) \in Nat
    BY <1>10
  <2>3. Len(s) < Unlimited
    BY <1>9, <2>1, <2>2
  <2> QED
    BY <2>3 DEF Cut
<1>12. PICK pos : Returned(results, ix, v, p, q, s, Unlimited, pos)
  BY <1>1, <1>5, <1>8, <1>9, ReturnedAre
<1>13. ToSet(results) \subseteq WantedIn(v, p, q)
  BY <1>12 DEF Returned, ToSet
<1>14. ASSUME NEW k \in DOMAIN s PROVE Result(ix, s[k]) \in ToSet(results)
  <2> DEFINE n == Len(s)
  <2>1. n \in Nat /\ DOMAIN s = 1 .. n
    BY <1>10
  <2>2. Taken(results, ix, s, Unlimited, pos) /\ DOMAIN results = 1 .. n
    BY <1>11, <1>12 DEF Returned
  <2> HIDE DEF n
  <2>3. pos \in [1 .. n -> 1 .. n] /\ \A a, b \in 1 .. n : pos[a] = pos[b] => a = b
    BY <1>11, <2>1, <2>2 DEF Taken, n
  <2>4. pos \in Injection(1 .. n, 1 .. n)
    BY <2>3 DEF Injection, IsInjective
  <2>5. pos \in Surjection(1 .. n, 1 .. n)
    BY <2>1, <2>4, IntervalIs, FS_Injection
  <2>6. PICK m \in 1 .. n : pos[m] = k
    BY <2>1, <2>5 DEF Surjection
  <2>7. m \in DOMAIN results /\ results[m] = Result(ix, s[k])
    BY <1>12, <2>2, <2>6 DEF Returned
  <2> QED
    BY <2>7 DEF ToSet
<1>15. ASSUME NEW r \in HitsIn(v, q), Match[q][v[r].name] >= 900,
              RefLookup(ix, r) \notin DOMAIN ix.renamed
       PROVE  FileFound(v, p, q, r) \in ToSet(results)
  <2> DEFINE i == RefLookup(ix, r)
  <2>1. r \in DOMAIN v
    BY DEF HitsIn
  <2>2. i \in Visible(ix) /\ RefOf(ix, i) = r /\ Hit(ix, q, i) /\ NameOf(ix, i) = v[r].name
    BY <1>2, <2>1, FileIs, EntryOfFile
  <2>3. i \in Indices(ix) /\ i \notin DOMAIN ix.renamed
    BY <1>15, <2>2 DEF Visible
  <2> HIDE DEF i
  <2>4. ASSUME i \in BaseIds(ix) PROVE i \in bucket
    <3>1. i <= BaseLen(ix)
      BY <1>2, <2>4, Lengths DEF BaseIds
    <3>2. NameOf(ix, i) = ix.base[i].name
      BY <2>3, <3>1 DEF NameOf
    <3> QED
      BY <1>4, <1>15, <2>2, <2>4, <3>2 DEF InBucket
  <2>5. i \in ids
    BY <1>3, <2>3, <2>4 DEF ids
  <2>6. (\E k \in DOMAIN s : s[k].index = i) \/ Outdone(s, Scored(ix, q, i).score, Unlimited)
    BY <1>8, <2>2, <2>5 DEF Candidates
  <2>7. ~ Outdone(s, Scored(ix, q, i).score, Unlimited)
    <3> DEFINE n == Len(s)
    <3>1. n \in Nat /\ n < Unlimited
      BY <1>10, <1>11
    <3> HIDE DEF n
    <3>2. ASSUME NEW m \in Nat, Unlimited <= m, m <= n PROVE FALSE
      BY <1>9, <3>1, <3>2
    <3> QED
      BY <3>2 DEF Outdone, n
  <2>8. PICK k \in DOMAIN s : s[k].index = i
    BY <2>6, <2>7
  <2>9. Result(ix, s[k]) = FileFound(v, p, q, RefOf(ix, s[k].index))
    BY <1>5, <1>8, CandidatesAreWanted
  <2> QED
    BY <1>14, <2>2, <2>8, <2>9
<1> QED
  BY <1>13, <1>15
-----------------------------------------------------------------------------
(* The volume stays a tree                                                  *)

(* Every file has a depth below the root, no two the same name in the same  *)
(* directory, and files are in directories.                                 *)
Rooted(vol) == Unique(vol) /\ InDirs(vol) /\ \E d : Depths(vol, d)

(* Depths of the first k records of a base.                                 *)
DepthsTo(base, e, k) ==
    /\ e \in [1 .. k -> Nat]
    /\ \A j \in 1 .. k : e[j] = IF base[j].ref = Root THEN 0 ELSE e[base[j].parent] + 1

LEMMA BaseHasDepths ==
    ASSUME NEW base, NEW vol, BaseOfVolume(base, vol), Tree(vol),
           \A n \in DOMAIN base : base[n].parent < n
    PROVE  \E d : Depths(vol, d)
<1> DEFINE n == Len(base)
           S == {k \in 0 .. n : \E e : DepthsTo(base, e, k)}
<1>1. n \in Nat /\ DOMAIN base = 1 .. n
  BY DEF BaseOfVolume
<1>2. 0 \in S
  <2> DEFINE e == [j \in 1 .. 0 |-> 0]
  <2>1. DepthsTo(base, e, 0)
    BY DEF DepthsTo
  <2> HIDE DEF e
  <2> QED
    BY <1>1, <2>1
<1>3. ASSUME NEW k \in 1 .. n, k - 1 \in S PROVE k \in S
  <2>1. PICK e : DepthsTo(base, e, k - 1)
    BY <1>3
  <2> DEFINE here == IF base[k].ref = Root THEN 0 ELSE e[base[k].parent] + 1
             e2 == [j \in 1 .. k |-> IF j = k THEN here ELSE e[j]]
  <2>2. k \in Nat /\ k - 1 \in Nat /\ 1 .. k = (1 .. k - 1) \cup {k} /\ k \notin 1 .. k - 1
    BY <1>1
  <2>3. \A j \in 1 .. k : base[j].ref = Root \/ base[j].parent \in 1 .. j - 1
    <3>1. ASSUME NEW j \in 1 .. k, base[j].ref # Root PROVE base[j].parent \in 1 .. j - 1
      <4>1. j \in 1 .. n /\ j \in DOMAIN base
        BY <1>1
      <4>2. base[j].parent \in 1 .. n
        BY <3>1, <4>1 DEF BaseOfVolume
      <4>3. base[j].parent < j
        BY <4>1
      <4> QED
        BY <1>1, <4>2, <4>3
    <3> QED
      BY <3>1
  <2>4. /\ \A j \in 1 .. k - 1 : e[j] \in Nat
        /\ \A j \in 1 .. k - 1 : e[j] = IF base[j].ref = Root THEN 0
                                        ELSE e[base[j].parent] + 1
    BY <2>1 DEF DepthsTo
  <2>5. here \in Nat
    <3>1. ASSUME base[k].ref # Root PROVE e[base[k].parent] \in Nat
      <4>1. base[k].parent \in 1 .. k - 1
        BY <2>2, <2>3, <3>1
      <4> QED
        BY <2>4, <4>1
    <3> QED
      BY <3>1
  <2> HIDE DEF here
  <2>6. e2 \in [1 .. k -> Nat] /\ e2[k] = here
    BY <2>2, <2>4, <2>5
  <2>7. \A j \in 1 .. k - 1 : e2[j] = e[j]
    BY <2>2
  <2> HIDE DEF e2
  <2>8. ASSUME NEW j \in 1 .. k
        PROVE  e2[j] = IF base[j].ref = Root THEN 0 ELSE e2[base[j].parent] + 1
    <3>1. ASSUME base[j].ref # Root PROVE e2[base[j].parent] = e[base[j].parent]
      <4>1. base[j].parent \in 1 .. j - 1
        BY <2>3, <3>1
      <4>2. base[j].parent \in 1 .. k - 1
        BY <2>2, <4>1
      <4> QED
        BY <2>7, <4>2
    <3>2. ASSUME j = k PROVE e2[j] = IF base[j].ref = Root THEN 0 ELSE e[base[j].parent] + 1
      BY <2>6, <3>2 DEF here
    <3>3. ASSUME j # k PROVE e2[j] = IF base[j].ref = Root THEN 0 ELSE e[base[j].parent] + 1
      <4>1. j \in 1 .. k - 1
        BY <2>2, <3>3
      <4> QED
        BY <2>4, <2>7, <4>1
    <3> QED
      BY <3>1, <3>2, <3>3
  <2>9. DepthsTo(base, e2, k)
    BY <2>6, <2>8 DEF DepthsTo
  <2> QED
    BY <2>9
<1>4. n \in S
  <2> HIDE DEF S, n
  <2>1. \A k \in 0 .. n : k \in S
    BY <1>1, <1>2, <1>3, F!UpTo
  <2> QED
    BY <1>1, <2>1
<1>5. PICK e : DepthsTo(base, e, n)
  BY <1>4
<1> HIDE DEF S
<1> DEFINE at(r) == CHOOSE j \in 1 .. n : base[j].ref = r
           d == [r \in DOMAIN vol |-> e[at(r)]]
<1>6. ASSUME NEW r \in DOMAIN vol PROVE at(r) \in 1 .. n /\ base[at(r)].ref = r
  <2>1. \E j \in 1 .. n : base[j].ref = r
    BY DEF BaseOfVolume
  <2> QED
    BY <2>1
<1> HIDE DEF at
<1>7. ASSUME NEW j \in 1 .. n PROVE base[j].ref \in DOMAIN vol /\ at(base[j].ref) = j
  <2>1. base[j].ref \in DOMAIN vol
    BY DEF BaseOfVolume
  <2>2. at(base[j].ref) \in 1 .. n /\ base[at(base[j].ref)].ref = base[j].ref
    BY <1>6, <2>1
  <2>3. \A k, l \in 1 .. n : k # l => base[k].ref # base[l].ref
    BY DEF BaseOfVolume
  <2> QED
    BY <2>1, <2>2, <2>3
<1>8. /\ \A j \in 1 .. n : e[j] \in Nat
      /\ \A j \in 1 .. n : e[j] = IF base[j].ref = Root THEN 0 ELSE e[base[j].parent] + 1
  BY <1>5 DEF DepthsTo
<1>9. d \in [DOMAIN vol -> Nat]
  BY <1>6, <1>8
<1>10. d[Root] = 0
  <2>1. Root \in DOMAIN vol
    BY DEF Tree
  <2>2. at(Root) \in 1 .. n /\ base[at(Root)].ref = Root
    BY <1>6, <2>1
  <2> QED
    BY <1>8, <2>1, <2>2
<1>11. ASSUME NEW r \in DOMAIN vol \ {Root} PROVE d[r] = d[vol[r].parent] + 1
  <2> DEFINE j == at(r)
  <2>1. j \in 1 .. n /\ base[j].ref = r
    BY <1>6
  <2> HIDE DEF j
  <2>2. base[j].parent \in 1 .. n /\ base[base[j].parent].ref = vol[r].parent
    BY <2>1 DEF BaseOfVolume
  <2>3. vol[r].parent \in DOMAIN vol /\ at(vol[r].parent) = base[j].parent
    BY <1>7, <2>2
  <2>4. d[r] = e[j] /\ d[vol[r].parent] = e[base[j].parent]
    BY <2>3 DEF j
  <2> QED
    BY <1>8, <2>1, <2>4
<1> HIDE DEF d
<1>12. Depths(vol, d)
  BY <1>9, <1>10, <1>11 DEF Depths
<1> QED
  BY <1>12

(* What is at or above a file is no deeper.                                 *)
LEMMA AboveIsNoDeeper ==
    ASSUME NEW vol, Tree(vol), NEW d, Depths(vol, d), NEW r \in DOMAIN vol,
           NEW s \in Above(vol, r), s # NoRec
    PROVE  s \in DOMAIN vol /\ d[s] \in Nat /\ d[s] <= d[r]
<1> DEFINE N == Cardinality(Recs)
           S == {k \in 0 .. N : \A t \in DOMAIN vol : d[t] = k =>
                                   \A u \in Above(vol, t) \ {NoRec} : d[u] <= k}
<1>1. \A t \in DOMAIN vol : d[t] \in 0 .. N /\ d[t] \in Nat
  BY DepthBound
<1>2. N \in Nat
  BY DepthBound
<1>3. \A t \in DOMAIN vol : Above(vol, t) \subseteq DOMAIN vol \cup {NoRec}
  BY AboveIs
<1>4. 0 \in S
  <2>1. ASSUME NEW t \in DOMAIN vol, d[t] = 0, NEW u \in Above(vol, t) \ {NoRec}
        PROVE  d[u] <= 0
    <3>1. t = Root
      <4>1. ASSUME t # Root PROVE FALSE
        <5>1. d[t] = d[vol[t].parent] + 1 /\ vol[t].parent \in DOMAIN vol
          BY <4>1 DEF Depths, Tree
        <5> QED
          BY <1>1, <2>1, <5>1
      <4> QED
        BY <4>1
    <3>2. u = Root
      BY <2>1, <3>1, AboveIs
    <3>3. d[u] = 0
      BY <2>1, <3>1, <3>2
    <3> QED
      BY <3>3
  <2> QED
    BY <1>2, <2>1
<1>5. ASSUME NEW k \in 1 .. N, k - 1 \in S PROVE k \in S
  <2>1. ASSUME NEW t \in DOMAIN vol, d[t] = k, NEW u \in Above(vol, t) \ {NoRec}
        PROVE  d[u] <= k
    <3>1. t # Root
      BY <1>2, <2>1 DEF Depths
    <3> DEFINE q == vol[t].parent
    <3>2. d[t] = d[q] + 1 /\ q \in DOMAIN vol
      BY <3>1 DEF Depths, Tree
    <3>3. d[q] = k - 1
      BY <1>1, <1>2, <2>1, <3>2
    <3>4. u = t \/ u \in Above(vol, q) \ {NoRec}
      BY <2>1, <3>1, AboveIs
    <3> HIDE DEF q
    <3>5. ASSUME u \in Above(vol, q) \ {NoRec} PROVE d[u] <= k
      <4>1. d[u] <= k - 1
        BY <1>5, <3>2, <3>3, <3>5
      <4>2. u \in DOMAIN vol
        BY <1>3, <3>2, <3>5
      <4>3. d[u] \in Nat
        BY <1>1, <4>2
      <4> QED
        BY <1>2, <4>1, <4>3
    <3>6. ASSUME u = t PROVE d[u] <= k
      BY <1>1, <2>1, <3>6
    <3> QED
      BY <3>4, <3>5, <3>6
  <2> QED
    BY <2>1
<1>6. \A k \in 0 .. N : k \in S
  <2> HIDE DEF S, N
  <2> QED
    BY <1>2, <1>4, <1>5, F!UpTo
<1>7. d[r] \in S
  <2> HIDE DEF S
  <2> QED
    BY <1>1, <1>6
<1>8. s \in DOMAIN vol
  BY <1>3
<1> QED
  BY <1>1, <1>7, <1>8

(* A name that is free comes into a directory.                              *)
LEMMA PutKeepsUnique ==
    ASSUME NEW vol, Unique(vol), NEW r, NEW f, \A s \in DOMAIN vol : vol[s] # f
    PROVE  Unique(Put(vol, r, f))
<1> DEFINE vol2 == Put(vol, r, f)
<1>1. /\ DOMAIN vol2 = DOMAIN vol \cup {r} /\ vol2[r] = f
      /\ \A q \in DOMAIN vol : q # r => vol2[q] = vol[q]
  BY DEF Put
<1> HIDE DEF vol2
<1>2. Unique(vol2)
  BY <1>1 DEF Unique
<1> QED
  BY <1>2 DEF vol2

LEMMA PutKeepsInDirs ==
    ASSUME NEW vol, InDirs(vol), NEW r, NEW f, f.parent \in Dirs
    PROVE  InDirs(Put(vol, r, f))
<1> DEFINE vol2 == Put(vol, r, f)
<1>1. /\ DOMAIN vol2 = DOMAIN vol \cup {r} /\ vol2[r] = f
      /\ \A q \in DOMAIN vol : q # r => vol2[q] = vol[q]
  BY DEF Put
<1> HIDE DEF vol2
<1>2. InDirs(vol2)
  BY <1>1 DEF InDirs
<1> QED
  BY <1>2 DEF vol2

LEMMA CreateKeepsDepths ==
    ASSUME NEW vol, Tree(vol), NEW d, Depths(vol, d), NEW r, r \notin DOMAIN vol,
           NEW f, f.parent \in DOMAIN vol
    PROVE  \E e : Depths(Put(vol, r, f), e)
<1> DEFINE vol2 == Put(vol, r, f)
           e == [s \in DOMAIN vol2 |-> IF s = r THEN d[f.parent] + 1 ELSE d[s]]
<1>1. /\ DOMAIN vol2 = DOMAIN vol \cup {r} /\ vol2[r] = f
      /\ \A q \in DOMAIN vol : q # r => vol2[q] = vol[q]
  BY DEF Put
<1> HIDE DEF vol2
<1>2. Root \in DOMAIN vol /\ Root # r /\ \A s \in DOMAIN vol \ {Root} : vol[s].parent \in DOMAIN vol
  BY DEF Tree
<1>3. /\ \A s \in DOMAIN vol : d[s] \in Nat
      /\ d[Root] = 0
      /\ \A s \in DOMAIN vol \ {Root} : d[s] = d[vol[s].parent] + 1
  BY DEF Depths
<1>4. e \in [DOMAIN vol2 -> Nat]
  BY <1>1, <1>3
<1>5. /\ \A s \in DOMAIN vol : s # r /\ e[s] = d[s]
      /\ e[r] = d[f.parent] + 1
  BY <1>1
<1> HIDE DEF e
<1>6. ASSUME NEW s \in DOMAIN vol2 \ {Root} PROVE e[s] = e[vol2[s].parent] + 1
  <2>1. ASSUME s = r PROVE e[s] = e[vol2[s].parent] + 1
    BY <1>1, <1>5, <2>1
  <2>2. ASSUME s # r PROVE e[s] = e[vol2[s].parent] + 1
    <3>1. s \in DOMAIN vol \ {Root} /\ vol2[s] = vol[s]
      BY <1>1, <2>2
    <3> QED
      BY <1>2, <1>3, <1>5, <3>1
  <2> QED
    BY <2>1, <2>2
<1>7. Depths(vol2, e)
  BY <1>2, <1>3, <1>4, <1>5, <1>6 DEF Depths
<1> QED
  BY <1>7 DEF vol2

(* A file moved out of itself takes what is below it along.                 *)
LEMMA RenameKeepsDepths ==
    ASSUME NEW vol, Tree(vol), NEW d, Depths(vol, d), NEW r \in DOMAIN vol \ {Root},
           NEW f, f.parent \in DOMAIN vol, r \notin Above(vol, f.parent)
    PROVE  \E e : Depths(Put(vol, r, f), e)
<1> DEFINE vol2 == Put(vol, r, f)
           q == f.parent
           moved(s) == r \in Above(vol, s)
           e == [s \in DOMAIN vol2 |-> IF moved(s) THEN d[s] - d[r] + d[q] + 1 ELSE d[s]]
<1>1. /\ DOMAIN vol2 = DOMAIN vol /\ vol2[r] = f
      /\ \A s \in DOMAIN vol : s # r => vol2[s] = vol[s]
  BY DEF Put
<1> HIDE DEF vol2
<1>2. Root \in DOMAIN vol /\ \A s \in DOMAIN vol \ {Root} : vol[s].parent \in DOMAIN vol
  BY DEF Tree
<1>3. /\ \A s \in DOMAIN vol : d[s] \in Nat
      /\ d[Root] = 0
      /\ \A s \in DOMAIN vol \ {Root} : d[s] = d[vol[s].parent] + 1
  BY DEF Depths
<1>4. r # NoRec /\ r # Root
  BY FeedAssumption DEF Tree, VolumeTyped
<1>5. ASSUME NEW s \in DOMAIN vol, moved(s) PROVE d[r] <= d[s]
  BY <1>4, <1>5, AboveIsNoDeeper
<1>6. ~ moved(Root) /\ moved(r) /\ ~ moved(q)
  BY <1>4, AboveIs
<1>7. ASSUME NEW s \in DOMAIN vol \ {Root}, s # r
      PROVE  moved(s) <=> moved(vol[s].parent)
  BY <1>7, AboveIs
<1> HIDE DEF moved
<1>8. e \in [DOMAIN vol2 -> Nat]
  <2>1. ASSUME NEW s \in DOMAIN vol, moved(s) PROVE d[s] - d[r] + d[q] + 1 \in Nat
    <3> DEFINE a == d[s]
               b == d[r]
               c == d[q]
    <3>1. a \in Nat /\ b \in Nat /\ c \in Nat /\ b <= a
      BY <1>3, <1>5, <2>1
    <3> HIDE DEF a, b, c
    <3>2. a - b + c + 1 \in Nat
      BY <3>1
    <3> QED
      BY <3>2 DEF a, b, c
  <2> QED
    BY <1>1, <1>3, <2>1
<1>9. \A s \in DOMAIN vol : e[s] = IF moved(s) THEN d[s] - d[r] + d[q] + 1 ELSE d[s]
  BY <1>1
<1> HIDE DEF e
<1>10. e[Root] = 0
  BY <1>2, <1>3, <1>6, <1>9
<1>11. ASSUME NEW s \in DOMAIN vol2 \ {Root} PROVE e[s] = e[vol2[s].parent] + 1
  <2>1. ASSUME s = r PROVE e[s] = e[vol2[s].parent] + 1
    <3>1. e[r] = d[r] - d[r] + d[q] + 1 /\ e[q] = d[q]
      BY <1>6, <1>9
    <3>2. d[r] \in Nat /\ d[q] \in Nat
      BY <1>3
    <3>3. e[r] = e[q] + 1
      BY <3>1, <3>2
    <3> QED
      BY <1>1, <2>1, <3>3
  <2>2. ASSUME s # r PROVE e[s] = e[vol2[s].parent] + 1
    <3> DEFINE t == vol[s].parent
    <3>1. s \in DOMAIN vol \ {Root} /\ vol2[s].parent = t /\ t \in DOMAIN vol
      BY <1>1, <1>2, <2>2
    <3>2. d[s] = d[t] + 1 /\ d[s] \in Nat /\ d[t] \in Nat /\ d[r] \in Nat /\ d[q] \in Nat
      BY <1>3, <3>1
    <3>3. moved(s) <=> moved(t)
      BY <1>7, <2>2, <3>1
    <3>4. e[s] = (IF moved(s) THEN d[s] - d[r] + d[q] + 1 ELSE d[s])
      BY <1>9, <3>1
    <3>5. e[t] = (IF moved(t) THEN d[t] - d[r] + d[q] + 1 ELSE d[t])
      BY <1>9, <3>1
    <3> HIDE DEF t
    <3>6. e[s] = e[t] + 1
      <4>1. ASSUME moved(s) PROVE e[s] = e[t] + 1
        BY <3>2, <3>3, <3>4, <3>5, <4>1
      <4>2. ASSUME ~ moved(s) PROVE e[s] = e[t] + 1
        BY <3>2, <3>3, <3>4, <3>5, <4>2
      <4> QED
        BY <4>1, <4>2
    <3> QED
      BY <3>1, <3>6
  <2> QED
    BY <2>1, <2>2
<1>12. Depths(vol2, e)
  BY <1>8, <1>10, <1>11 DEF Depths
<1> QED
  BY <1>12 DEF vol2

LEMMA RemoveKeepsRooted ==
    ASSUME NEW vol, Tree(vol), Rooted(vol), NEW r \in Recs \ {Root},
           \A s \in DOMAIN vol : vol[s].parent # r
    PROVE  Rooted([s \in DOMAIN vol \ {r} |-> vol[s]])
<1> DEFINE vol2 == [s \in DOMAIN vol \ {r} |-> vol[s]]
<1>1. DOMAIN vol2 = DOMAIN vol \ {r} /\ \A s \in DOMAIN vol2 : vol2[s] = vol[s]
  OBVIOUS
<1> HIDE DEF vol2
<1>2. Unique(vol2) /\ InDirs(vol2)
  BY <1>1 DEF Rooted, Unique, InDirs
<1>3. PICK d : Depths(vol, d)
  BY DEF Rooted
<1> DEFINE e == [s \in DOMAIN vol2 |-> d[s]]
<1>4. e \in [DOMAIN vol2 -> Nat] /\ \A s \in DOMAIN vol2 : e[s] = d[s]
  BY <1>1, <1>3 DEF Depths
<1> HIDE DEF e
<1>5. Root \in DOMAIN vol2 /\ e[Root] = 0
  BY <1>1, <1>3, <1>4 DEF Tree, Depths
<1>6. \A s \in DOMAIN vol2 \ {Root} : e[s] = e[vol2[s].parent] + 1
  <2> TAKE s \in DOMAIN vol2 \ {Root}
  <2>1. s \in DOMAIN vol \ {Root} /\ vol2[s] = vol[s]
    BY <1>1
  <2>2. vol[s].parent \in DOMAIN vol2
    BY <1>1, <2>1 DEF Tree
  <2>3. d[s] = d[vol[s].parent] + 1
    BY <1>3, <2>1 DEF Depths
  <2> QED
    BY <1>4, <2>1, <2>2, <2>3
<1>7. Depths(vol2, e)
  BY <1>4, <1>5, <1>6 DEF Depths
<1>8. Rooted(vol2)
  BY <1>2, <1>7 DEF Rooted
<1> QED
  BY <1>8 DEF vol2
-----------------------------------------------------------------------------
TreeInv == Tree(volume) /\ Rooted(volume)

LEMMA TreeInit == Init => TreeInv
<1> SUFFICES ASSUME Init PROVE TreeInv
  OBVIOUS
<1>1. PICK base \in InitBases : TRUE
  BY DEF Init
<1>2. BaseOfVolume(base, InitVolume) /\ \A n \in DOMAIN base : base[n].parent < n
  BY InitBaseIs DEF InitBases
<1>3. Tree(InitVolume)
  BY InitIsTree
<1>4. \E d : Depths(InitVolume, d)
  BY <1>2, <1>3, BaseHasDepths
<1>5. Unique(InitVolume)
  BY FeedAssumption DEF Unique
<1>6. InDirs(InitVolume)
  BY InitVolumeIs DEF InDirs
<1>7. volume = InitVolume
  BY DEF Init
<1> QED
  BY <1>3, <1>4, <1>5, <1>6, <1>7 DEF TreeInv, Rooted

LEMMA TreeStep == TreeInv /\ [Next]_vars => TreeInv'
<1> SUFFICES ASSUME TreeInv, [Next]_vars PROVE TreeInv'
  OBVIOUS
<1>1. Tree(volume) /\ Unique(volume) /\ InDirs(volume)
  BY DEF TreeInv, Rooted
<1>2. PICK d : Depths(volume, d)
  BY DEF TreeInv, Rooted
<1>3. ASSUME NEW r \in Recs \ {Root}, NEW parent \in Dirs, NEW name \in Names,
             Create(r, parent, name) \/ Rename(r, parent, name)
      PROVE  TreeInv'
  <2> DEFINE f == [parent |-> parent, name |-> name]
  <2>1. f \in Files /\ f.parent = parent
    BY FeedAssumption DEF Files, AllRecs, AllNames
  <2>2. parent \in DOMAIN volume /\ \A s \in DOMAIN volume : volume[s] # f
    BY <1>3 DEF Create, Rename, Free
  <2>3. volume' = Put(volume, r, f)
    <3>1. CASE Create(r, parent, name)
      BY <3>1 DEF Create
    <3>2. CASE Rename(r, parent, name)
      <4>1. volume' = [volume EXCEPT ![r] = f] /\ r \in DOMAIN volume
        BY <3>2 DEF Rename
      <4>2. DOMAIN volume \cup {r} = DOMAIN volume
        BY <4>1
      <4> HIDE DEF f
      <4> QED
        BY <1>1, <4>1, <4>2 DEF Put, Tree, VolumeTyped
    <3> QED
      BY <1>3, <3>1, <3>2
  <2>4. \E e : Depths(Put(volume, r, f), e)
    <3>1. CASE Create(r, parent, name)
      <4>1. r \notin DOMAIN volume
        BY <3>1 DEF Create
      <4> HIDE DEF f
      <4> QED
        BY <1>1, <1>2, <2>1, <2>2, <4>1, CreateKeepsDepths
    <3>2. CASE Rename(r, parent, name)
      <4>1. r \in DOMAIN volume \ {Root} /\ r \notin AtOrAbove(parent)
        BY <3>2 DEF Rename
      <4>2. r \notin Above(volume, parent)
        BY <4>1, AboveIsAtOrAbove
      <4> HIDE DEF f
      <4> QED
        BY <1>1, <1>2, <2>1, <2>2, <4>1, <4>2, RenameKeepsDepths
    <3> QED
      BY <1>3, <3>1, <3>2
  <2> HIDE DEF f
  <2>5. Tree(volume')
    BY <1>1, <2>1, <2>2, <2>3, PutKeepsTree
  <2>6. Unique(volume') /\ InDirs(volume')
    BY <1>1, <2>1, <2>2, <2>3, PutKeepsUnique, PutKeepsInDirs
  <2> QED
    BY <2>3, <2>4, <2>5, <2>6 DEF TreeInv, Rooted
<1>4. ASSUME NEW r \in Recs \ {Root}, Delete(r) PROVE TreeInv'
  <2>1. /\ volume' = [s \in DOMAIN volume \ {r} |-> volume[s]]
        /\ \A s \in DOMAIN volume : volume[s].parent # r
    BY <1>4 DEF Delete
  <2>2. Tree(volume')
    BY <1>1, <2>1, RemoveKeepsTree
  <2>3. Rooted(volume')
    BY <1>1, <2>1, RemoveKeepsRooted DEF TreeInv
  <2> QED
    BY <2>2, <2>3 DEF TreeInv
<1>5. ASSUME volume' = volume PROVE TreeInv'
  BY <1>5 DEF TreeInv
<1>6. ASSUME NEW r, Close(r) PROVE volume' = volume
  BY <1>6 DEF Close
<1>7. Poll \/ Compact \/ UNCHANGED vars => volume' = volume
  BY DEF Poll, Compact, vars
<1> QED
  BY <1>3, <1>4, <1>5, <1>6, <1>7 DEF Next

(* When nothing is pending, the index shows the volume.                     *)
LEMMA SettledIsMirrored ==
    ASSUME MirrorInv, Settled
    PROVE  Mirrored(index, volume)
<1>1. PICK v : Tree(v) /\ Faithful(index, v) /\ Behind(v, volume, pending)
  BY DEF MirrorInv
<1>2. Tree(volume) /\ Typed(index) /\ LookupInv(index)
  BY DEF MirrorInv, FeedInv
<1>3. ChangedIn(pending) = {}
  BY ChangedIs DEF Settled
<1>4. \A r \in Recs : /\ r \in DOMAIN v <=> r \in DOMAIN volume
                      /\ r \in DOMAIN v => v[r] = volume[r]
  BY <1>1, <1>3 DEF Behind
<1>5. /\ DOMAIN v \subseteq Recs /\ v = [r \in DOMAIN v |-> v[r]]
      /\ DOMAIN volume \subseteq Recs /\ volume = [r \in DOMAIN volume |-> volume[r]]
  BY <1>1, <1>2 DEF Tree, VolumeTyped
<1>6. DOMAIN v = DOMAIN volume
  BY <1>4, <1>5
<1>7. v = volume
  BY <1>4, <1>5, <1>6
<1> QED
  BY <1>1, <1>2, <1>7 DEF Mirrored

(* The volume has the depths and paths that its files are compared by.      *)
LEMMA SettledIsCharted ==
    ASSUME MirrorInv, TreeInv, Settled
    PROVE  \E d, p : /\ Charted(index, volume, d, p)
                     /\ \A r \in DOMAIN volume : VolumePath(r) = p[r]
<1>1. Mirrored(index, volume)
  BY SettledIsMirrored
<1>2. Tree(volume) /\ Unique(volume)
  BY DEF TreeInv, Rooted
<1>3. PICK d : Depths(volume, d)
  BY DEF TreeInv, Rooted
<1>4. PICK p : Paths(volume, d, p)
  BY <1>2, <1>3, PathsExist
<1>5. Charted(index, volume, d, p)
  BY <1>1, <1>2, <1>3, <1>4 DEF Charted
<1>6. \A r \in DOMAIN volume : VolumePath(r) = p[r]
  BY <1>2, <1>3, <1>4, PathOfVolume, VolumePathIs
<1> QED
  BY <1>5, <1>6

LEMMA FoundIs ==
    ASSUME NEW p, \A r \in DOMAIN volume : VolumePath(r) = p[r], NEW q
    PROVE  /\ Hits(q) = HitsIn(volume, q)
           /\ \A r \in DOMAIN volume :
                 Found(r, Match[q][volume[r].name]) = FileFound(volume, p, q, r)
           /\ Wanted(q) = WantedIn(volume, p, q)
<1>1. Hits(q) = HitsIn(volume, q)
  BY DEF Hits, HitsIn
<1>2. \A r \in DOMAIN volume :
         Found(r, Match[q][volume[r].name]) = FileFound(volume, p, q, r)
  BY DEF Found, FileFound, FoundIn
<1>3. Wanted(q) = {Found(r, Match[q][volume[r].name]) : r \in HitsIn(volume, q)}
  BY <1>1 DEF Wanted
<1>4. WantedIn(volume, p, q) = {FileFound(volume, p, q, r) : r \in HitsIn(volume, q)}
  BY DEF WantedIn, FileFound
<1>5. \A r \in HitsIn(volume, q) : r \in DOMAIN volume
  BY DEF HitsIn
<1>6. Wanted(q) = WantedIn(volume, p, q)
  BY <1>2, <1>3, <1>4, <1>5
<1> QED
  BY <1>1, <1>2, <1>6

LEMMA SettledIsFound == MirrorInv /\ TreeInv => SearchFindsTheVolume
<1> SUFFICES ASSUME MirrorInv, TreeInv, Settled
             PROVE  SearchFindsTheVolume
  BY DEF SearchFindsTheVolume
<1>1. PICK d, p : /\ Charted(index, volume, d, p)
                  /\ \A r \in DOMAIN volume : VolumePath(r) = p[r]
  BY SettledIsCharted
<1>2. \A q : Wanted(q) = WantedIn(volume, p, q)
  BY <1>1, FoundIs
<1>3. Unlimited \in Nat /\ 1 \in Nat
  BY SearchAssumption
<1>4. ASSUME NEW q \in Queries \ Short, NEW limit \in {1, Unlimited}
      PROVE  LET wanted == Wanted(q) IN
             /\ \A results \in Search(index, q, limit) : BestOf(results, wanted, limit)
             /\ \A broader \in {b \in Queries : Refines(q, b)} :
                   LET ids == CandidateIds(index, broader, AllIds(index)) IN
                   \A results \in SearchCandidates(index, q, ids, limit) :
                       BestOf(results, wanted, limit)
  <2>1. limit \in Nat /\ q \in Queries /\ q \notin Short
    BY <1>3
  <2>2. ASSUME NEW results \in Search(index, q, limit)
        PROVE  BestOf(results, Wanted(q), limit)
    BY <1>1, <1>2, <2>1, <2>2, SearchIsBest
  <2>3. ASSUME NEW broader \in {b \in Queries : Refines(q, b)},
               NEW results \in SearchCandidates(index, q,
                                 CandidateIds(index, broader, AllIds(index)), limit)
        PROVE  BestOf(results, Wanted(q), limit)
    <3>1. broader \in Queries /\ Refines(q, broader)
      OBVIOUS
    <3> QED
      BY <1>1, <1>2, <2>1, <2>3, <3>1, NarrowedIsBest
  <2> QED
    BY <2>2, <2>3
<1>5. ASSUME NEW q \in Short, NEW results \in Search(index, q, Unlimited)
      PROVE  LET found == ToSet(results) IN
             /\ found \subseteq Wanted(q)
             /\ \A r \in Hits(q) :
                   Match[q][volume[r].name] >= 900
                     /\ RefLookup(index, r) \notin DOMAIN index.renamed
                   => Found(r, Match[q][volume[r].name]) \in found
  <2>1. q \in Queries
    BY SearchAssumption
  <2>2. /\ ToSet(results) \subseteq WantedIn(volume, p, q)
        /\ \A r \in HitsIn(volume, q) :
              Match[q][volume[r].name] >= 900 /\ RefLookup(index, r) \notin DOMAIN index.renamed
                 => FileFound(volume, p, q, r) \in ToSet(results)
    BY <1>1, <2>1, ShortSearchFinds
  <2>3. /\ Hits(q) = HitsIn(volume, q)
        /\ \A r \in DOMAIN volume :
              Found(r, Match[q][volume[r].name]) = FileFound(volume, p, q, r)
    BY <1>1, FoundIs
  <2>4. \A r \in HitsIn(volume, q) : r \in DOMAIN volume
    BY DEF HitsIn
  <2> QED
    BY <1>2, <2>2, <2>3, <2>4
<1> QED
  BY <1>4, <1>5 DEF SearchFindsTheVolume

(* While no record number is reused, no new file left open and nothing      *)
(* moved into a new directory between two polls: once the changes are       *)
(* applied, a search finds the files of the volume whose names match, each  *)
(* once, under its name and path, and the best ones when not all fit, also  *)
(* when the candidates of a broader query are searched; a query of one or   *)
(* two letters finds all whose names start with it but for those renamed    *)
(* since the last compaction (EsIndex::search_inner, materialize_scored).   *)
THEOREM SearchAlwaysFinds == ASSUME Env = {} PROVE Spec => []SearchFindsTheVolume
<1>1. Init => MirrorInv /\ TreeInv
  BY MirrorInit, TreeInit
<1>2. MirrorInv /\ TreeInv /\ [Next]_vars => (MirrorInv /\ TreeInv)'
  BY MirrorStep, TreeStep
<1>3. MirrorInv /\ TreeInv => SearchFindsTheVolume
  BY SettledIsFound
<1> QED
  BY <1>1, <1>2, <1>3, PTL DEF Spec
-----------------------------------------------------------------------------
(* How many times                                                           *)

Times(s, x) == Cardinality({n \in DOMAIN s : s[n] = x})

LEMMA TimesIs ==
    ASSUME NEW A, NEW s \in Seq(A), NEW x
    PROVE  /\ IsFiniteSet({n \in DOMAIN s : s[n] = x})
           /\ Times(s, x) \in Nat
           /\ Times(s, x) # 0 <=> \E n \in DOMAIN s : s[n] = x
<1> DEFINE S == {n \in DOMAIN s : s[n] = x}
<1>1. DOMAIN s = 1 .. Len(s) /\ Len(s) \in Nat
  OBVIOUS
<1>2. IsFiniteSet(1 .. Len(s))
  BY <1>1, IntervalIs
<1>3. S \subseteq 1 .. Len(s)
  BY <1>1
<1>4. IsFiniteSet(S)
  <2> HIDE DEF S
  <2> QED
    BY <1>2, <1>3, FS_Subset
<1>5. Cardinality(S) \in Nat /\ (Cardinality(S) = 0 <=> S = {})
  <2> HIDE DEF S
  <2> QED
    BY <1>4, FS_CardinalityType, FS_EmptySet
<1> QED
  BY <1>4, <1>5 DEF Times

LEMMA TimesOfBoth ==
    ASSUME NEW A, NEW s \in Seq(A), NEW t \in Seq(A), NEW x
    PROVE  s \o t \in Seq(A) /\ Times(s \o t, x) = Times(s, x) + Times(t, x)
<1> DEFINE m == Len(s)
           n == Len(t)
           u == s \o t
           S == {k \in DOMAIN s : s[k] = x}
           T == {k \in DOMAIN t : t[k] = x}
           U == {k \in DOMAIN u : u[k] = x}
           T2 == {m + k : k \in T}
           g == [k \in T |-> m + k]
<1>1. /\ u \in Seq(A) /\ m \in Nat /\ n \in Nat
      /\ DOMAIN u = 1 .. m + n /\ DOMAIN s = 1 .. m /\ DOMAIN t = 1 .. n
      /\ \A k \in 1 .. m + n : u[k] = IF k <= m THEN s[k] ELSE t[k - m]
  OBVIOUS
<1> HIDE DEF m, n, u
<1>2. S \subseteq 1 .. m /\ T \subseteq 1 .. n
  BY <1>1
<1>3. ASSUME NEW k \in U PROVE k \in S \cup T2
  <2>1. k \in 1 .. m + n /\ u[k] = x
    BY <1>1
  <2>2. ASSUME k <= m PROVE k \in S
    BY <1>1, <2>1, <2>2
  <2>3. ASSUME ~ (k <= m) PROVE k \in T2
    <3>1. k - m \in 1 .. n /\ t[k - m] = x /\ m + (k - m) = k
      BY <1>1, <2>1, <2>3
    <3>2. k - m \in T
      BY <1>1, <3>1
    <3> QED
      BY <3>1, <3>2
  <2> QED
    BY <2>2, <2>3
<1>4. ASSUME NEW k \in S PROVE k \in U
  <2>1. k \in 1 .. m + n /\ k <= m /\ s[k] = x
    BY <1>1
  <2> QED
    BY <1>1, <2>1
<1>5. ASSUME NEW k \in T PROVE m + k \in U
  <2>1. k \in 1 .. n /\ t[k] = x
    BY <1>1
  <2>2. m + k \in 1 .. m + n /\ ~ (m + k <= m) /\ (m + k) - m = k
    BY <1>1, <2>1
  <2> QED
    BY <1>1, <2>1, <2>2
<1>6. U = S \cup T2
  <2> HIDE DEF U, S, T
  <2> QED
    BY <1>3, <1>4, <1>5
<1>7. S \cap T2 = {}
  <2> HIDE DEF S, T
  <2> QED
    BY <1>1, <1>2
<1>8. IsFiniteSet(S) /\ IsFiniteSet(T) /\ Cardinality(S) \in Nat /\ Cardinality(T) \in Nat
  BY TimesIs DEF Times
<1>9. IsFiniteSet(T2) /\ Cardinality(T2) = Cardinality(T)
  <2> HIDE DEF T
  <2>1. g \in [T -> T2] /\ \A j \in T2 : \E k \in T : g[k] = j
    OBVIOUS
  <2>2. \A j, k \in T : g[j] = g[k] => j = k
    BY <1>1, <1>2
  <2> HIDE DEF g, T2
  <2>3. g \in Bijection(T, T2)
    BY <2>1, <2>2 DEF Bijection, Injection, Surjection, IsInjective
  <2> QED
    BY <1>8, <2>3, FS_Bijection DEF ExistsBijection
<1>10. Cardinality(U) = Cardinality(S) + Cardinality(T)
  <2> HIDE DEF S, T, T2, U
  <2>1. Cardinality(S \cup T2) = Cardinality(S) + Cardinality(T2) - Cardinality(S \cap T2)
    BY <1>8, <1>9, FS_Union
  <2>2. Cardinality(S \cap T2) = 0
    BY <1>7, FS_EmptySet
  <2> QED
    BY <1>6, <1>8, <1>9, <2>1, <2>2
<1> QED
  BY <1>1, <1>10 DEF Times, u

(* In sequences joined together something is as often as in all of them.    *)
Adds(f, ss, x, n) ==
    f[0] = 0 /\ \A k \in 1 .. n : f[k] = f[k - 1] + Times(ss[k], x)

LEMMA TimesOfAll ==
    ASSUME NEW A, NEW n \in Nat, NEW ss \in [1 .. n -> Seq(A)], NEW x,
           NEW f, Adds(f, ss, x, n)
    PROVE  FlattenSeq(ss) \in Seq(A) /\ Times(FlattenSeq(ss), x) = f[n]
<1>1. DOMAIN ss = 1 .. n /\ Len(ss) = n
  OBVIOUS
<1>0. f[0] = 0 /\ \A k \in 1 .. n : f[k] = f[k - 1] + Times(ss[k], x)
  BY DEF Adds
<1>2. PICK fl : /\ F!Flat(fl, ss, n)
                /\ FlattenSeq(ss) = IF n = 0 THEN ss ELSE fl[n]
  <2>1. F!Flattened(ss) = FlattenSeq(ss)
    BY DEF F!Flattened, FlattenSeq
  <2>2. \E fl : /\ F!Flat(fl, ss, n)
                /\ F!Flattened(ss) = IF n = 0 THEN ss ELSE fl[n]
    BY <1>1, F!FlattenSteps
  <2> QED
    BY <2>1, <2>2
<1>3. \A k \in 1 .. n : fl[k] = IF k = 1 THEN ss[k] ELSE fl[k - 1] \o ss[k]
  BY <1>2 DEF F!Flat
<1> DEFINE S == {k \in 0 .. n : k # 0 => fl[k] \in Seq(A) /\ Times(fl[k], x) = f[k]}
<1>4. 0 \in S
  OBVIOUS
<1>5. ASSUME NEW k \in 1 .. n, k - 1 \in S PROVE k \in S
  <2>1. ss[k] \in Seq(A) /\ Times(ss[k], x) \in Nat
    BY TimesIs
  <2>2. ASSUME k = 1 PROVE fl[k] \in Seq(A) /\ Times(fl[k], x) = f[k]
    <3>1. f[1] = 0 + Times(ss[1], x)
      BY <1>0, <2>2
    <3>2. f[1] = Times(ss[1], x)
      BY <2>1, <2>2, <3>1
    <3> QED
      BY <1>3, <2>1, <2>2, <3>2
  <2>3. ASSUME k # 1 PROVE fl[k] \in Seq(A) /\ Times(fl[k], x) = f[k]
    <3>1. fl[k - 1] \in Seq(A) /\ Times(fl[k - 1], x) = f[k - 1]
      BY <1>5, <2>3
    <3>2. fl[k] = fl[k - 1] \o ss[k]
      BY <1>3, <2>3
    <3>3. fl[k] \in Seq(A) /\ Times(fl[k], x) = Times(fl[k - 1], x) + Times(ss[k], x)
      BY <2>1, <3>1, <3>2, TimesOfBoth
    <3> QED
      BY <1>0, <3>1, <3>3
  <2> QED
    BY <2>2, <2>3
<1>6. \A k \in 0 .. n : k \in S
  <2> HIDE DEF S
  <2> QED
    BY <1>4, <1>5, F!UpTo
<1>7. ASSUME n # 0 PROVE FlattenSeq(ss) \in Seq(A) /\ Times(FlattenSeq(ss), x) = f[n]
  <2>1. fl[n] \in Seq(A) /\ Times(fl[n], x) = f[n]
    BY <1>6, <1>7
  <2> QED
    BY <1>2, <1>7, <2>1
<1>8. ASSUME n = 0 PROVE FlattenSeq(ss) \in Seq(A) /\ Times(FlattenSeq(ss), x) = f[n]
  <2>1. ss = << >> /\ FlattenSeq(ss) = ss /\ << >> \in Seq(A)
    BY <1>2, <1>8
  <2>2. Times(<< >>, x) = 0
    <3>1. {k \in DOMAIN << >> : << >>[k] = x} = {}
      OBVIOUS
    <3> QED
      BY <3>1, FS_EmptySet DEF Times
  <2> QED
    BY <1>0, <1>8, <2>1, <2>2
<1> QED
  BY <1>7, <1>8

(* Once or twice in each of some of them, and in no other.                  *)
Doubling(two, n) == IF two THEN 2 * n ELSE n

OnlyIn(A, ss, x, n, K, w) ==
    /\ n \in Nat /\ ss \in [1 .. n -> Seq(A)] /\ K \subseteq 1 .. n /\ w \in {1, 2}
    /\ \A k \in 1 .. n : Times(ss[k], x) = IF k \in K THEN w ELSE 0

LEMMA TimesOfSome ==
    ASSUME NEW A, NEW n, NEW ss, NEW x, NEW K, NEW w, OnlyIn(A, ss, x, n, K, w)
    PROVE  Times(FlattenSeq(ss), x) = w * Cardinality(K)
<1> USE DEF OnlyIn
<1> DEFINE card(k) == Cardinality(K \cap (1 .. k))
           f == [k \in 0 .. n |-> w * card(k)]
<1>1. ASSUME NEW k \in 0 .. n
      PROVE  IsFiniteSet(K \cap (1 .. k)) /\ card(k) \in Nat
  <2>1. IsFiniteSet(1 .. k)
    BY IntervalIs
  <2>2. K \cap (1 .. k) \subseteq 1 .. k
    OBVIOUS
  <2>3. IsFiniteSet(K \cap (1 .. k))
    BY <2>1, <2>2, FS_Subset
  <2> QED
    BY <2>3, FS_CardinalityType
<1>2. f[0] = 0
  <2>1. K \cap (1 .. 0) = {}
    OBVIOUS
  <2>2. card(0) = 0
    BY <2>1, FS_EmptySet
  <2> QED
    BY <2>2
<1>3. ASSUME NEW k \in 1 .. n PROVE f[k] = f[k - 1] + Times(ss[k], x)
  <2>1. k \in 0 .. n /\ k - 1 \in 0 .. n
    OBVIOUS
  <2>2. card(k - 1) \in Nat /\ IsFiniteSet(K \cap (1 .. k - 1))
    BY <1>1, <2>1
  <2>3. ASSUME k \in K PROVE card(k) = card(k - 1) + 1
    <3>1. K \cap (1 .. k) = (K \cap (1 .. k - 1)) \cup {k} /\ k \notin K \cap (1 .. k - 1)
      BY <2>3
    <3> QED
      BY <2>2, <3>1, FS_AddElement
  <2>4. ASSUME k \notin K PROVE card(k) = card(k - 1)
    <3>1. K \cap (1 .. k) = K \cap (1 .. k - 1)
      BY <2>4
    <3> QED
      BY <3>1
  <2> HIDE DEF card
  <2>5. f[k] = w * card(k) /\ f[k - 1] = w * card(k - 1)
    BY <2>1
  <2> HIDE DEF f
  <2>6. ASSUME k \in K PROVE f[k] = f[k - 1] + Times(ss[k], x)
    <3>1. Times(ss[k], x) = w
      BY <2>6 DEF OnlyIn
    <3> QED
      BY <2>2, <2>3, <2>5, <2>6, <3>1
  <2>7. ASSUME k \notin K PROVE f[k] = f[k - 1] + Times(ss[k], x)
    <3>1. Times(ss[k], x) = 0
      BY <2>7 DEF OnlyIn
    <3> QED
      BY <2>2, <2>4, <2>5, <2>7, <3>1
  <2> QED
    BY <2>6, <2>7
<1>4. f[n] = w * Cardinality(K)
  <2>1. n \in 0 .. n
    OBVIOUS
  <2>2. f[n] = w * card(n)
    BY <2>1
  <2>3. K \cap (1 .. n) = K
    OBVIOUS
  <2> QED
    BY <2>2, <2>3
<1> HIDE DEF f
<1>5. FlattenSeq(ss) \in Seq(A) /\ Times(FlattenSeq(ss), x) = f[n]
  <2>1. Adds(f, ss, x, n)
    BY <1>2, <1>3 DEF Adds
  <2> QED
    BY <2>1, TimesOfAll
<1> QED
  BY <1>4, <1>5

(* In one of them only.                                                     *)
OnlyAt(A, ss, x, n, j) ==
    /\ n \in Nat /\ ss \in [1 .. n -> Seq(A)] /\ j \in 1 .. n
    /\ \A k \in 1 .. n : k # j => Times(ss[k], x) = 0

LEMMA TimesOfOne ==
    ASSUME NEW A, NEW n, NEW ss, NEW x, NEW j, OnlyAt(A, ss, x, n, j)
    PROVE  Times(FlattenSeq(ss), x) = Times(ss[j], x)
<1> USE DEF OnlyAt
<1> DEFINE c == Times(ss[j], x)
           f == [k \in 0 .. n |-> IF k < j THEN 0 ELSE c]
<1>1. c \in Nat
  BY TimesIs
<1> HIDE DEF c
<1>2. f[0] = 0 /\ f[n] = c
  OBVIOUS
<1>3. ASSUME NEW k \in 1 .. n PROVE f[k] = f[k - 1] + Times(ss[k], x)
  <2>1. k = j => Times(ss[k], x) = c
    BY DEF c
  <2>2. k # j => Times(ss[k], x) = 0
    OBVIOUS
  <2>3. k < j => f[k] = 0 /\ f[k - 1] = 0
    OBVIOUS
  <2>4. k = j => f[k] = c /\ f[k - 1] = 0
    OBVIOUS
  <2>5. j < k => f[k] = c /\ f[k - 1] = c
    OBVIOUS
  <2> HIDE DEF f
  <2> QED
    BY <1>1, <2>1, <2>2, <2>3, <2>4, <2>5
<1> HIDE DEF f
<1>4. Times(FlattenSeq(ss), x) = f[n]
  <2>1. Adds(f, ss, x, n)
    BY <1>2, <1>3 DEF Adds
  <2> QED
    BY <2>1, TimesOfAll
<1> QED
  BY <1>2, <1>4 DEF c

-----------------------------------------------------------------------------
(* As many as there are subsets                                             *)

LEMMA PowerGrows ==
    ASSUME NEW S, IsFiniteSet(S), NEW x, x \notin S
    PROVE  /\ 2 ^ Cardinality(S) \in Nat /\ 2 ^ Cardinality(S) # 0
           /\ 2 ^ Cardinality(S \cup {x}) = 2 * (2 ^ Cardinality(S))
<1> DEFINE P == SUBSET S
           Q == {T \cup {x} : T \in P}
           R == SUBSET (S \cup {x})
           g == [T \in P |-> T \cup {x}]
<1>1. IsFiniteSet(P) /\ Cardinality(P) = 2 ^ Cardinality(S)
  BY FS_SUBSET
<1>2. IsFiniteSet(S \cup {x})
  BY FS_AddElement
<1>3. Cardinality(R) = 2 ^ Cardinality(S \cup {x})
  BY <1>2, FS_SUBSET
<1>4. R = P \cup Q
  <2>1. ASSUME NEW T \in R PROVE T \in P \cup Q
    <3>1. ASSUME x \in T PROVE T \in Q
      <4>1. T \ {x} \in P /\ T = (T \ {x}) \cup {x}
        BY <3>1
      <4> QED
        BY <4>1
    <3> QED
      BY <3>1
  <2>2. P \subseteq R /\ Q \subseteq R
    OBVIOUS
  <2> QED
    BY <2>1, <2>2
<1>5. P \cap Q = {}
  OBVIOUS
<1>6. IsFiniteSet(Q) /\ Cardinality(Q) = Cardinality(P)
  <2>1. g \in [P -> Q] /\ \A U \in Q : \E T \in P : g[T] = U
    OBVIOUS
  <2>2. ASSUME NEW T \in P, NEW U \in P, g[T] = g[U] PROVE T = U
    <3>1. T \cup {x} = U \cup {x} /\ x \notin T /\ x \notin U
      BY <2>2
    <3> QED
      BY <3>1
  <2> HIDE DEF g, P, Q
  <2>3. g \in Bijection(P, Q)
    BY <2>1, <2>2 DEF Bijection, Injection, Surjection, IsInjective
  <2> QED
    BY <1>1, <2>3, FS_Bijection DEF ExistsBijection
<1> DEFINE p == Cardinality(P)
<1>7. p \in Nat /\ p # 0
  <2>1. {} \in P
    OBVIOUS
  <2> HIDE DEF P
  <2> QED
    BY <1>1, <2>1, FS_CardinalityType, FS_EmptySet
<1>8. Cardinality(R) = 2 * p
  <2>1. Cardinality(P \cup Q) = Cardinality(P) + Cardinality(Q) - Cardinality(P \cap Q)
    BY <1>1, <1>6, FS_Union
  <2>2. Cardinality(P \cap Q) = 0
    BY <1>5, FS_EmptySet
  <2> HIDE DEF P, Q, R
  <2> QED
    BY <1>4, <1>6, <1>7, <2>1, <2>2
<1> QED
  BY <1>1, <1>3, <1>7, <1>8

LEMMA PowerOfNone == 2 ^ Cardinality({}) = 1
<1>1. Cardinality(SUBSET {}) = 2 ^ Cardinality({})
  BY FS_EmptySet, FS_SUBSET
<1>2. SUBSET {} = {{}}
  OBVIOUS
<1>3. Cardinality({{}}) = 1
  BY FS_Singleton
<1> QED
  BY <1>1, <1>2, <1>3
-----------------------------------------------------------------------------
(* How many passes over the children come upon an entry                     *)

LEMMA TimesOfAscending ==
    ASSUME NEW S \in SUBSET Nat, IsFiniteSet(S), NEW i
    PROVE  /\ Ascending(S) \in Seq(Nat)
           /\ Times(Ascending(S), i) = IF i \in S THEN 1 ELSE 0
<1> DEFINE s == Ascending(S)
           P == {n \in DOMAIN s : s[n] = i}
<1>1. Enumerates(s, S)
  BY AscendingEnumerates
<1>2. /\ s \in Seq(Nat) /\ DOMAIN s = 1 .. Len(s) /\ Len(s) \in Nat
      /\ \A n \in DOMAIN s : s[n] \in S
      /\ \A j \in S : \E n \in DOMAIN s : s[n] = j
      /\ \A n, k \in DOMAIN s : n < k => s[n] < s[k]
  BY <1>1 DEF Enumerates
<1> HIDE DEF s
<1>3. ASSUME i \in S PROVE Times(s, i) = 1
  <2>1. PICK n \in DOMAIN s : s[n] = i
    BY <1>2, <1>3
  <2>2. ASSUME NEW k \in DOMAIN s, s[k] = i PROVE k = n
    <3>1. k \in Nat /\ n \in Nat /\ s[k] \in Nat /\ s[n] \in Nat
      BY <1>2
    <3>2. ~ (k < n) /\ ~ (n < k)
      BY <1>2, <2>1, <2>2, <3>1
    <3> QED
      BY <3>1, <3>2
  <2>3. P = {n}
    BY <2>1, <2>2
  <2>4. Cardinality(P) = 1
    <3> HIDE DEF P
    <3> QED
      BY <2>3, FS_Singleton
  <2> QED
    BY <2>4 DEF Times
<1>4. ASSUME i \notin S PROVE Times(s, i) = 0
  <2>1. P = {}
    BY <1>2, <1>4
  <2>2. Cardinality(P) = 0
    <3> HIDE DEF P
    <3> QED
      BY <2>1, FS_EmptySet
  <2> QED
    BY <2>2 DEF Times
<1> QED
  BY <1>2, <1>3, <1>4 DEF s

InBoth(ix, i) == i > BaseLen(ix) /\ i \in DOMAIN ix.moved

LEMMA TimesOfChild ==
    ASSUME NEW ix, Typed(ix), NEW d, NEW i
    PROVE  /\ Children(ix, d) \in Seq(Nat)
           /\ Times(Children(ix, d), i)
                = IF i \in Visible(ix) /\ ParentOf(ix, i) = d
                  THEN Doubling(InBoth(ix, i), 1) ELSE 0
<1> DEFINE A == BaseChildren(ix, d)
           B == MovedChildren(ix, d)
           C == InsertedChildren(ix, d)
           one(S) == IF i \in S THEN 1 ELSE 0
<1>1. /\ A \in SUBSET Indices(ix) /\ B \in SUBSET Indices(ix) /\ C \in SUBSET Indices(ix)
      /\ BaseLen(ix) \in Nat /\ Indices(ix) \subseteq Nat
  <2>1. A \in SUBSET Indices(ix) /\ BaseLen(ix) \in Nat
    BY Lengths DEF BaseChildren, Indices
  <2>2. B \in SUBSET Indices(ix)
    BY DEF MovedChildren, Typed
  <2>3. C \in SUBSET Indices(ix)
    BY DEF InsertedChildren
  <2> QED
    BY <2>1, <2>2, <2>3 DEF Indices
<1>2. i \in A \cup B \cup C <=> i \in Visible(ix) /\ ParentOf(ix, i) = d
  BY ChildrenAgree DEF ChildSets
<1>3. i \in Visible(ix) /\ ParentOf(ix, i) = d
        => one(A) + one(B) + one(C) = Doubling(InBoth(ix, i), 1)
  <2> SUFFICES ASSUME i \in Visible(ix), ParentOf(ix, i) = d
               PROVE  one(A) + one(B) + one(C) = Doubling(InBoth(ix, i), 1)
    OBVIOUS
  <2>1. i \in Indices(ix) /\ i \in Nat /\ ~ IsDeleted(ix, i)
    BY <1>1 DEF Visible
  <2>2. ASSUME i > BaseLen(ix)
        PROVE  i \notin A /\ (i \in B <=> i \in DOMAIN ix.moved) /\ i \in C
    <3>1. i \notin A
      BY <1>1, <2>1, <2>2 DEF BaseChildren
    <3>2. i \in C
      BY <2>1, <2>2 DEF InsertedChildren
    <3>3. i \in B <=> i \in DOMAIN ix.moved
      <4>1. i \in DOMAIN ix.moved => ix.moved[i] = d
        BY DEF ParentOf
      <4>2. ~ (i <= BaseLen(ix))
        BY <1>1, <2>1, <2>2
      <4> QED
        BY <2>1, <4>1, <4>2 DEF MovedChildren
    <3> QED
      BY <3>1, <3>2, <3>3
  <2>3. ASSUME ~ (i > BaseLen(ix))
        PROVE  i \notin C /\ (i \in A <=> i \notin B)
    <3>1. i <= BaseLen(ix) /\ i \in 1 .. BaseLen(ix)
      BY <1>1, <2>1, <2>3 DEF Indices
    <3>2. i \notin C
      BY <2>3 DEF InsertedChildren
    <3>3. i \in DOMAIN ix.moved => ix.moved[i] = d
      BY DEF ParentOf
    <3>4. i \notin DOMAIN ix.moved => ix.base[i].parent = d
      BY <3>1 DEF ParentOf
    <3>5. i \in A <=> ix.base[i].parent = d
      BY <2>1, <3>1, <3>3 DEF BaseChildren
    <3>6. i \in B <=> i \in DOMAIN ix.moved /\ ix.base[i].parent # d
      BY <2>1, <3>1, <3>3 DEF MovedChildren
    <3> QED
      BY <3>2, <3>4, <3>5, <3>6
  <2> HIDE DEF A, B, C
  <2> QED
    BY <2>2, <2>3 DEF InBoth, Doubling
<1> HIDE DEF A, B, C
<1>4. /\ IsFiniteSet(A) /\ A \in SUBSET Nat
      /\ IsFiniteSet(B) /\ B \in SUBSET Nat
      /\ IsFiniteSet(C) /\ C \in SUBSET Nat
  BY <1>1, IndexSetsFinite
<1>5. /\ Ascending(A) \in Seq(Nat) /\ Times(Ascending(A), i) = one(A)
      /\ Ascending(B) \in Seq(Nat) /\ Times(Ascending(B), i) = one(B)
      /\ Ascending(C) \in Seq(Nat) /\ Times(Ascending(C), i) = one(C)
  BY <1>4, TimesOfAscending
<1>6. Children(ix, d) = (Ascending(A) \o Ascending(B)) \o Ascending(C)
  BY DEF Children, A, B, C
<1> DEFINE ab == Ascending(A) \o Ascending(B)
<1>7. ab \in Seq(Nat) /\ Times(ab, i) = one(A) + one(B)
  BY <1>5, TimesOfBoth
<1> HIDE DEF ab
<1>8. /\ Children(ix, d) \in Seq(Nat)
      /\ Times(Children(ix, d), i) = one(A) + one(B) + one(C)
  <2>1. ab \o Ascending(C) \in Seq(Nat)
        /\ Times(ab \o Ascending(C), i) = Times(ab, i) + Times(Ascending(C), i)
    BY <1>5, <1>7, TimesOfBoth
  <2>2. Children(ix, d) = ab \o Ascending(C)
    BY <1>6 DEF ab
  <2> QED
    BY <1>5, <1>7, <2>1, <2>2
<1>9. ~ (i \in Visible(ix) /\ ParentOf(ix, i) = d) => one(A) + one(B) + one(C) = 0
  BY <1>2
<1> HIDE DEF one
<1> QED
  BY <1>3, <1>8, <1>9

(* Every child is an entry that is not deleted and has this parent.         *)
LEMMA ChildIs ==
    ASSUME NEW ix, Typed(ix), NEW d
    PROVE  /\ Children(ix, d) \in Seq(Visible(ix))
           /\ \A n \in DOMAIN Children(ix, d) :
                 /\ Children(ix, d)[n] \in Visible(ix)
                 /\ ParentOf(ix, Children(ix, d)[n]) = d
           /\ \A i \in Visible(ix) : ParentOf(ix, i) = d =>
                 \E n \in DOMAIN Children(ix, d) : Children(ix, d)[n] = i
<1> DEFINE c == Children(ix, d)
<1>1. {c[n] : n \in DOMAIN c} = {i \in Visible(ix) : ParentOf(ix, i) = d}
  BY ChildrenAre, ChildrenAgree
<1>2. c \in Seq(Nat)
  BY TimesOfChild
<1> HIDE DEF c
<1>3. \A n \in DOMAIN c : c[n] \in Visible(ix) /\ ParentOf(ix, c[n]) = d
  BY <1>1
<1>4. c \in Seq(Visible(ix))
  <2>1. DOMAIN c = 1 .. Len(c) /\ Len(c) \in Nat /\ c = [n \in 1 .. Len(c) |-> c[n]]
    BY <1>2
  <2> QED
    BY <1>3, <2>1
<1>5. \A i \in Visible(ix) : ParentOf(ix, i) = d => \E n \in DOMAIN c : c[n] = i
  BY <1>1
<1> QED
  BY <1>3, <1>4, <1>5 DEF c
-----------------------------------------------------------------------------
(* The path of a directory leads to its entry                               *)

LEMMA SameEntry ==
    ASSUME NEW ix, NEW v, Mirrored(ix, v), NEW r \in DOMAIN v, NEW s \in DOMAIN v,
           RefLookup(ix, r) = RefLookup(ix, s)
    PROVE  r = s
<1>1. RefOf(ix, RefLookup(ix, r)) = r /\ RefOf(ix, RefLookup(ix, s)) = s
  BY EntryOfFile
<1> QED
  BY <1>1

(* The file of an entry is in the directory whose entry is the parent.      *)
LEMMA ChildOfFile ==
    ASSUME NEW ix, NEW v, Mirrored(ix, v), NEW r \in DOMAIN v, NEW i \in Visible(ix),
           ParentOf(ix, i) = RefLookup(ix, r)
    PROVE  /\ RefOf(ix, i) \in DOMAIN v \ {Root} /\ v[RefOf(ix, i)].parent = r
           /\ RefLookup(ix, RefOf(ix, i)) = i
           /\ NameOf(ix, i) = v[RefOf(ix, i)].name
<1> DEFINE s == RefOf(ix, i)
<1>1. s \in DOMAIN v /\ RefLookup(ix, s) = i
  BY FileOfEntry
<1> HIDE DEF s
<1>2. /\ NameOf(ix, i) = v[s].name
      /\ ParentOf(ix, i) = IF v[s].parent = NoRec THEN NoIdx
                           ELSE RefLookup(ix, v[s].parent)
      /\ v[s].parent = NoRec <=> s = Root
      /\ s # Root => v[s].parent \in DOMAIN v
  BY <1>1, EntryOfFile
<1>3. RefLookup(ix, r) # NoIdx
  BY EntryOfFile
<1>4. s # Root /\ RefLookup(ix, v[s].parent) = RefLookup(ix, r)
  BY <1>2, <1>3
<1>5. v[s].parent = r
  BY <1>2, <1>4, SameEntry
<1> QED
  BY <1>1, <1>2, <1>4, <1>5 DEF s

LEMMA ChildNamedIs ==
    ASSUME NEW ix, NEW v, Mirrored(ix, v), Unique(v), NEW t \in DOMAIN v \ {Root}
    PROVE  ChildNamed(ix, RefLookup(ix, v[t].parent), v[t].name) = RefLookup(ix, t)
<1> DEFINE r == v[t].parent
           d == RefLookup(ix, r)
           i == RefLookup(ix, t)
           kids == Children(ix, d)
           hits == {n \in DOMAIN kids : NameOf(ix, kids[n]) = v[t].name}
<1>1. /\ r \in DOMAIN v /\ r # NoRec
      /\ i \in Indices(ix) /\ ~ IsDeleted(ix, i) /\ NameOf(ix, i) = v[t].name
      /\ ParentOf(ix, i) = d
  BY EntryOfFile
<1>2. d # NoIdx
  BY <1>1, EntryOfFile
<1>3. i \in Visible(ix)
  BY <1>1 DEF Visible
<1>4. /\ kids \in Seq(Visible(ix))
      /\ \A n \in DOMAIN kids : kids[n] \in Visible(ix) /\ ParentOf(ix, kids[n]) = d
      /\ \E n \in DOMAIN kids : kids[n] = i
  <2>1. Typed(ix)
    BY DEF Mirrored
  <2> QED
    BY <1>1, <1>3, <2>1, ChildIs
<1> HIDE DEF kids
<1>5. ASSUME NEW n \in hits PROVE kids[n] = i
  <2> DEFINE s == RefOf(ix, kids[n])
  <2>1. kids[n] \in Visible(ix) /\ ParentOf(ix, kids[n]) = RefLookup(ix, r)
    BY <1>4
  <2>2. /\ s \in DOMAIN v \ {Root} /\ v[s].parent = r
        /\ RefLookup(ix, s) = kids[n] /\ NameOf(ix, kids[n]) = v[s].name
    BY <1>1, <2>1, ChildOfFile
  <2> HIDE DEF s
  <2>3. v[s] \in Files /\ v[t] \in Files
    BY <2>2 DEF Mirrored, Tree, VolumeTyped
  <2>4. v[s].name = v[t].name /\ v[s].parent = v[t].parent
    BY <2>2
  <2>5. v[s] = v[t]
    BY <2>3, <2>4 DEF Files
  <2>6. s = t
    BY <2>2, <2>5 DEF Unique
  <2> QED
    BY <2>2, <2>6
<1>6. hits # {} /\ hits \subseteq Nat
  <2>1. DOMAIN kids \subseteq Nat
    BY <1>4
  <2> QED
    BY <1>1, <1>4, <2>1
<1> HIDE DEF hits
<1>7. (CHOOSE n \in hits : \A m \in hits : n <= m) \in hits
  <2>1. \E n \in hits : \A m \in hits : n <= m
    BY <1>6, F!SmallestExists
  <2> QED
    BY <2>1
<1>8. ChildNamed(ix, d, v[t].name) = kids[CHOOSE n \in hits : \A m \in hits : n <= m]
  BY <1>2, <1>6 DEF ChildNamed, kids, hits
<1> QED
  BY <1>5, <1>7, <1>8

(* The steps of path_to_idx below the root.                                 *)
Down(ix, start, path) ==
    LET down[n \in 1 .. Len(path)] ==
          IF n = 1 THEN start ELSE ChildNamed(ix, down[n - 1], path[n])
    IN down

LEMMA DownIs ==
    ASSUME NEW ix, NEW start, NEW path, NEW n \in Nat, n # 0, Len(path) = n,
           NEW e, e[1] = start,
           \A k \in 1 .. n : k # 1 => e[k] = ChildNamed(ix, e[k - 1], path[k])
    PROVE  Down(ix, start, path)[n] = e[n]
<1> DEFINE Is(f) == f = [k \in 1 .. n |-> IF k = 1 THEN start
                                           ELSE ChildNamed(ix, f[k - 1], path[k])]
           f == CHOOSE f : Is(f)
           g == [k \in 1 .. n |-> e[k]]
<1>1. Is(g)
  <2>1. ASSUME NEW k \in 1 .. n
        PROVE  g[k] = IF k = 1 THEN start ELSE ChildNamed(ix, g[k - 1], path[k])
    <3>1. g[k] = e[k] /\ (k # 1 => g[k - 1] = e[k - 1])
      OBVIOUS
    <3> HIDE DEF g
    <3> QED
      BY <3>1
  <2>2. g = [k \in 1 .. n |-> g[k]]
    OBVIOUS
  <2> HIDE DEF g
  <2> QED
    BY <2>1, <2>2
<1>2. Is(f)
  <2> HIDE DEF Is, g
  <2> QED
    BY <1>1
<1>3. Down(ix, start, path) = f
  BY DEF Down
<1> HIDE DEF f
<1>4. \A k \in 1 .. n : f[k] = IF k = 1 THEN start ELSE ChildNamed(ix, f[k - 1], path[k])
  BY <1>2
<1> HIDE DEF Is
<1> DEFINE S == {k \in 0 .. n : k # 0 => f[k] = e[k]}
<1>5. 0 \in S
  OBVIOUS
<1>6. ASSUME NEW k \in 1 .. n, k - 1 \in S PROVE k \in S
  <2>1. f[k] = IF k = 1 THEN start ELSE ChildNamed(ix, f[k - 1], path[k])
    BY <1>4
  <2>2. k # 1 => f[k - 1] = e[k - 1]
    BY <1>6
  <2>3. k # 1 => e[k] = ChildNamed(ix, e[k - 1], path[k])
    OBVIOUS
  <2>4. f[k] = e[k]
    BY <2>1, <2>2, <2>3
  <2> QED
    BY <2>4
<1>7. \A k \in 0 .. n : k \in S
  <2> HIDE DEF S
  <2> QED
    BY <1>5, <1>6, F!UpTo
<1>8. n \in 0 .. n
  OBVIOUS
<1> QED
  BY <1>3, <1>7, <1>8

(* The k-th name of a path is that of the k-th directory on the way.        *)
Way(v, d, p, r, t) ==
    /\ t \in [1 .. d[r] + 1 -> DOMAIN v]
    /\ t[1] = Root /\ t[d[r] + 1] = r
    /\ p[r][1] = RootName
    /\ \A k \in 1 .. d[r] + 1 : k # 1 => /\ t[k] # Root /\ v[t[k]].parent = t[k - 1]
                                         /\ p[r][k] = v[t[k]].name

LEMMA WayDown ==
    ASSUME NEW v, Tree(v), NEW d, Depths(v, d), NEW p, Paths(v, d, p), NEW r \in DOMAIN v
    PROVE  \E t : Way(v, d, p, r, t)
<1> DEFINE n == d[r] + 1
           U == NamesUp(v, r, n)
           t == [k \in 1 .. n |-> U[n - k].at]
<1>1. /\ n \in Nat /\ n # 0 /\ d[r] \in Nat /\ d[r] = n - 1
      /\ \A s \in DOMAIN v : d[s] \in Nat /\ p[s] \in Seq(AllNames) /\ Len(p[s]) = d[s] + 1
  BY DEF Depths, Paths
<1>2. \A k \in 0 .. n : ClimbedTo(v, d, p, r, U[k], k)
  BY <1>1, NamesClimb
<1>3. U[0] = Names0(r) /\ \A k \in 1 .. n : U[k] = NameStep(v, U[k - 1])
  BY <1>1, NamesUpIs
<1>4. NoRec \notin DOMAIN v
  BY FeedAssumption DEF Tree, VolumeTyped
<1> HIDE DEF U, n
<1>5. ASSUME NEW k \in 0 .. n - 1
      PROVE  /\ U[k].at \in DOMAIN v /\ d[U[k].at] + k = n - 1
             /\ U[k].names \in Seq(AllNames) /\ p[r] = p[U[k].at] \o U[k].names
  <2>1. k \in 0 .. n /\ k <= d[r]
    BY <1>1
  <2>2. ClimbedTo(v, d, p, r, U[k], k)
    BY <1>2, <2>1
  <2> QED
    BY <1>1, <2>1, <2>2 DEF ClimbedTo
<1>6. ASSUME NEW k \in 1 .. n
      PROVE  /\ t[k] \in DOMAIN v /\ d[t[k]] = k - 1
             /\ Len(p[t[k]]) = k /\ p[t[k]] \in Seq(AllNames)
             /\ p[r][k] = p[t[k]][k]
  <2> DEFINE s == U[n - k].at
             names == U[n - k].names
  <2>1. n - k \in 0 .. n - 1 /\ t[k] = s
    BY <1>1
  <2>2. s \in DOMAIN v /\ d[s] + (n - k) = n - 1
        /\ names \in Seq(AllNames) /\ p[r] = p[s] \o names
    BY <1>5, <2>1
  <2>3. p[s] \in Seq(AllNames) /\ Len(p[s]) = d[s] + 1 /\ d[s] \in Nat
    BY <1>1, <2>2
  <2> HIDE DEF s, names, t
  <2>4. d[s] = k - 1 /\ Len(p[s]) = k
    BY <1>1, <2>2, <2>3
  <2>5. p[r][k] = p[s][k]
    BY <2>2, <2>3, <2>4
  <2> QED
    BY <2>1, <2>2, <2>3, <2>4, <2>5
<1>7. t[n] = r
  <2>1. n \in 1 .. n /\ n - n = 0
    BY <1>1
  <2> QED
    BY <1>3, <2>1 DEF Names0
<1>8. t[1] = Root /\ p[r][1] = RootName
  <2>1. 1 \in 1 .. n
    BY <1>1
  <2>2. t[1] \in DOMAIN v /\ d[t[1]] = 0 /\ p[r][1] = p[t[1]][1]
    BY <1>6, <2>1
  <2> HIDE DEF t
  <2>3. t[1] = Root
    <3> SUFFICES ASSUME t[1] # Root PROVE FALSE
      OBVIOUS
    <3>1. d[t[1]] = d[v[t[1]].parent] + 1 /\ v[t[1]].parent \in DOMAIN v
      BY <2>2 DEF Depths, Tree
    <3> QED
      BY <1>1, <2>2, <3>1
  <2>4. p[Root] = <<RootName>>
    BY DEF Paths
  <2> QED
    BY <2>2, <2>3, <2>4
<1>9. ASSUME NEW k \in 1 .. n, k # 1
      PROVE  t[k] # Root /\ v[t[k]].parent = t[k - 1] /\ p[r][k] = v[t[k]].name
  <2>1. k - 1 \in 1 .. n /\ n - k \in 0 .. n - 1 /\ n - (k - 1) \in 1 .. n
        /\ n - (k - 1) - 1 = n - k
    BY <1>1, <1>9
  <2>2. U[n - (k - 1)] = NameStep(v, U[n - k])
    BY <1>3, <2>1
  <2>3. U[n - k].at \in DOMAIN v
    BY <1>5, <2>1
  <2>4. U[n - (k - 1)].at = v[U[n - k].at].parent
    BY <1>4, <2>2, <2>3 DEF NameStep
  <2>5. t[k] = U[n - k].at /\ t[k - 1] = U[n - (k - 1)].at
    BY <2>1
  <2>6. v[t[k]].parent = t[k - 1]
    BY <2>4, <2>5
  <2> HIDE DEF t
  <2>7. t[k] \in DOMAIN v /\ d[t[k]] = k - 1 /\ p[r][k] = p[t[k]][k]
        /\ t[k - 1] \in DOMAIN v /\ p[t[k - 1]] \in Seq(AllNames) /\ Len(p[t[k - 1]]) = k - 1
    BY <1>6, <2>1
  <2>8. t[k] # Root
    BY <1>1, <1>9, <2>7 DEF Depths
  <2>9. p[t[k]] = Append(p[t[k - 1]], v[t[k]].name)
    BY <2>6, <2>7, <2>8 DEF Paths
  <2>10. p[t[k]][k] = v[t[k]].name
    <3> DEFINE q == p[t[k - 1]]
               x == v[t[k]].name
    <3>1. q \in Seq(AllNames) /\ Len(q) + 1 = k
      BY <1>1, <2>7
    <3> HIDE DEF q, x
    <3>2. Append(q, x)[Len(q) + 1] = x
      BY <3>1
    <3> QED
      BY <2>9, <3>1, <3>2 DEF q, x
  <2> QED
    BY <2>6, <2>7, <2>8, <2>10
<1>10. t \in [1 .. n -> DOMAIN v]
  <2>1. t = [k \in 1 .. n |-> t[k]]
    OBVIOUS
  <2> HIDE DEF t
  <2> QED
    BY <1>6, <2>1
<1> HIDE DEF t
<1> QED
  BY <1>7, <1>8, <1>9, <1>10 DEF Way, n

(* So path_to_idx finds the entry of every file by its path.                *)
LEMMA PathLeads ==
    ASSUME NEW ix, NEW v, NEW d, NEW p, Charted(ix, v, d, p), NEW r \in DOMAIN v
    PROVE  PathToIdx(ix, Root, p[r]) = RefLookup(ix, r)
<1> DEFINE n == d[r] + 1
           i == RefLookup(ix, Root)
           path == p[r]
           isRoot(j) == /\ j \in Visible(ix)
                        /\ ParentOf(ix, j) = NoIdx
                        /\ NameOf(ix, j) = Head(path)
           roots == {j \in Visible(ix) : isRoot(j)}
           start == IF isRoot(RefLookup(ix, Root)) THEN RefLookup(ix, Root)
                    ELSE IF roots = {} THEN NoIdx
                    ELSE CHOOSE j \in roots : \A k \in roots : j <= k
<1>1. /\ Mirrored(ix, v) /\ Unique(v) /\ Depths(v, d) /\ Paths(v, d, p) /\ Tree(v)
      /\ Root \in DOMAIN v /\ v[Root].parent = NoRec /\ v[Root].name = RootName
  BY DEF Charted, Mirrored, Tree
<1>2. n \in Nat /\ n # 0 /\ path \in Seq(AllNames) /\ Len(path) = n
  BY <1>1 DEF Depths, Paths
<1>3. PICK t : Way(v, d, p, r, t)
  BY <1>1, WayDown
<1>4. /\ t \in [1 .. n -> DOMAIN v] /\ t[1] = Root /\ t[n] = r /\ path[1] = RootName
      /\ \A k \in 1 .. n : k # 1 => /\ t[k] # Root /\ v[t[k]].parent = t[k - 1]
                                    /\ path[k] = v[t[k]].name
  BY <1>3 DEF Way
<1>5. start = i
  <2>1. /\ i \in Indices(ix) /\ ~ IsDeleted(ix, i)
        /\ NameOf(ix, i) = RootName /\ ParentOf(ix, i) = NoIdx
    BY <1>1, EntryOfFile
  <2>2. Head(path) = path[1]
    BY <1>2
  <2>3. isRoot(i)
    BY <1>4, <2>1, <2>2 DEF Visible
  <2> HIDE DEF isRoot, roots
  <2> QED
    BY <2>3
<1>6. PathToIdx(ix, Root, path) = Down(ix, start, path)[n]
  <2>1. PathToIdx(ix, Root, path) = Down(ix, start, path)[Len(path)]
    <3> HIDE DEF path
    <3> QED
      BY DEF PathToIdx, Down
  <2> QED
    BY <1>2, <2>1
<1> HIDE DEF n, i, path, start, isRoot, roots
<1> DEFINE e == [k \in 1 .. n |-> RefLookup(ix, t[k])]
<1>7. e[1] = start /\ e[n] = RefLookup(ix, r)
  BY <1>2, <1>4, <1>5 DEF i
<1>8. ASSUME NEW k \in 1 .. n, k # 1 PROVE e[k] = ChildNamed(ix, e[k - 1], path[k])
  <2>1. k - 1 \in 1 .. n
    BY <1>2, <1>8
  <2>2. e[k] = RefLookup(ix, t[k]) /\ e[k - 1] = RefLookup(ix, t[k - 1])
    BY <2>1
  <2> HIDE DEF e
  <2>3. t[k] \in DOMAIN v \ {Root} /\ v[t[k]].parent = t[k - 1] /\ path[k] = v[t[k]].name
    BY <1>4, <1>8
  <2>4. ChildNamed(ix, RefLookup(ix, v[t[k]].parent), v[t[k]].name) = RefLookup(ix, t[k])
    BY <1>1, <2>3, ChildNamedIs
  <2> QED
    BY <2>2, <2>3, <2>4
<1> HIDE DEF e
<1>9. Down(ix, start, path)[n] = e[n]
  <2>1. n \in Nat /\ n # 0 /\ Len(path) = n
    BY <1>2
  <2>2. \A k \in 1 .. n : k # 1 => e[k] = ChildNamed(ix, e[k - 1], path[k])
    BY <1>8
  <2>3. e[1] = start
    BY <1>7
  <2> QED
    BY <2>1, <2>2, <2>3, DownIs
<1> QED
  BY <1>6, <1>7, <1>9 DEF path
-----------------------------------------------------------------------------
(* What is below a directory, and what is twice on the way to it            *)

BelowIn(v, r) == {s \in DOMAIN v \ {r} : r \in Above(v, s)}

Twice(ix, v, in, s) == {t \in Above(v, s) \cap in : InBoth(ix, RefLookup(ix, t))}

LEMMA AboveItself ==
    ASSUME NEW v, Tree(v), NEW d, Depths(v, d), NEW s \in DOMAIN v
    PROVE  /\ s \in Above(v, s) /\ NoRec \notin DOMAIN v
           /\ \A t \in Above(v, s) : t # s /\ t # NoRec => t \in DOMAIN v /\ d[t] < d[s]
           /\ s # Root => v[s].parent \in DOMAIN v /\ d[s] = d[v[s].parent] + 1
                          /\ Above(v, s) = {s} \cup Above(v, v[s].parent)
           /\ s = Root => Above(v, s) = {s, NoRec}
<1>1. /\ Above(v, Root) = {Root, NoRec}
      /\ s # Root => Above(v, s) = {s} \cup Above(v, v[s].parent)
  BY AboveIs
<1>2. NoRec \notin DOMAIN v
  BY FeedAssumption DEF Tree, VolumeTyped
<1>3. s # Root => v[s].parent \in DOMAIN v /\ d[s] = d[v[s].parent] + 1
  BY DEF Tree, Depths
<1>4. ASSUME NEW t \in Above(v, s), t # s, t # NoRec PROVE t \in DOMAIN v /\ d[t] < d[s]
  <2>1. s # Root
    BY <1>1, <1>4
  <2>2. t \in Above(v, v[s].parent) /\ v[s].parent \in DOMAIN v
    BY <1>1, <1>3, <1>4, <2>1
  <2>3. t \in DOMAIN v /\ d[t] \in Nat /\ d[t] <= d[v[s].parent]
    BY <1>4, <2>2, AboveIsNoDeeper
  <2>4. d[v[s].parent] \in Nat /\ d[s] = d[v[s].parent] + 1
    BY <1>3, <2>1, <2>2 DEF Depths
  <2> QED
    BY <2>3, <2>4
<1> QED
  BY <1>1, <1>2, <1>3, <1>4

(* A file is below a directory if its own directory is that or below it.    *)
LEMMA BelowGrows ==
    ASSUME NEW v, Tree(v), NEW d, Depths(v, d), NEW r \in DOMAIN v,
           NEW s \in DOMAIN v
    PROVE  /\ s \in BelowIn(v, r) <=> /\ s # Root
                                      /\ v[s].parent = r \/ v[s].parent \in BelowIn(v, r)
           /\ s \in BelowIn(v, r) => d[r] < d[s]
           /\ v[s].parent = r => s # Root
<1>1. /\ r \in Above(v, r) /\ r # NoRec
      /\ s = Root => Above(v, s) = {s, NoRec} /\ v[s].parent = NoRec
      /\ s # Root => /\ v[s].parent \in DOMAIN v
                     /\ Above(v, s) = {s} \cup Above(v, v[s].parent)
  BY AboveItself DEF Tree
<1>2. s \in BelowIn(v, r) => d[r] < d[s]
  BY <1>1, AboveItself DEF BelowIn
<1>3. s \in BelowIn(v, r) => s # Root
  BY <1>1 DEF BelowIn
<1>4. ASSUME s # Root
      PROVE  s \in BelowIn(v, r) <=> v[s].parent = r \/ v[s].parent \in BelowIn(v, r)
  <2> DEFINE q == v[s].parent
  <2>1. q \in DOMAIN v /\ Above(v, s) = {s} \cup Above(v, q) /\ d[s] = d[q] + 1
        /\ d[q] \in Nat /\ d[s] \in Nat /\ d[r] \in Nat
    BY <1>1, <1>4 DEF Depths
  <2> HIDE DEF q
  <2>2. r \in Above(v, q) => r # s
    <3>1. r \in Above(v, q) => d[r] <= d[q]
      BY <1>1, <2>1, AboveIsNoDeeper
    <3> QED
      BY <2>1, <3>1
  <2>3. s \in BelowIn(v, r) <=> r \in Above(v, q)
    BY <2>1, <2>2 DEF BelowIn
  <2>4. r \in Above(v, q) <=> q = r \/ q \in BelowIn(v, r)
    BY <1>1, <2>1 DEF BelowIn
  <2> QED
    BY <2>3, <2>4 DEF q
<1> QED
  BY <1>1, <1>2, <1>3, <1>4

LEMMA TwiceIsFinite ==
    ASSUME NEW ix, NEW v, Tree(v), NEW in, in \subseteq DOMAIN v, NEW s
    PROVE  IsFiniteSet(Twice(ix, v, in, s))
<1>1. IsFiniteSet(in)
  BY FeedAssumption, FS_Subset DEF Tree, VolumeTyped
<1>2. Twice(ix, v, in, s) \subseteq in
  BY DEF Twice
<1> QED
  BY <1>1, <1>2, FS_Subset

(* One file further down there are twice as many ways if two passes come    *)
(* upon it.                                                                 *)
LEMMA TwiceGrows ==
    ASSUME NEW ix, NEW v, Tree(v), NEW d, Depths(v, d), NEW r \in DOMAIN v,
           NEW s \in BelowIn(v, r)
    PROVE  LET below == BelowIn(v, r)
               q     == v[s].parent IN
           /\ 2 ^ Cardinality(Twice(ix, v, below, q)) \in Nat
           /\ 2 ^ Cardinality(Twice(ix, v, below, s))
                = Doubling(InBoth(ix, RefLookup(ix, s)), 2 ^ Cardinality(Twice(ix, v, below, q)))
<1> DEFINE below == BelowIn(v, r)
           q     == v[s].parent
           Q     == Twice(ix, v, below, q)
           S     == Twice(ix, v, below, s)
<1>1. s \in DOMAIN v /\ s # Root /\ below \subseteq DOMAIN v
  BY BelowGrows DEF BelowIn
<1>2. /\ q \in DOMAIN v /\ d[s] = d[q] + 1 /\ d[q] \in Nat
      /\ Above(v, s) = {s} \cup Above(v, q) /\ NoRec \notin DOMAIN v
  BY <1>1, AboveItself DEF Depths
<1>3. s \notin Above(v, q)
  <2> SUFFICES ASSUME s \in Above(v, q) PROVE FALSE
    OBVIOUS
  <2>1. d[s] <= d[q]
    BY <1>1, <1>2, AboveIsNoDeeper
  <2> QED
    BY <1>2, <2>1
<1>4. IsFiniteSet(Q) /\ s \notin Q
  BY <1>1, <1>3, TwiceIsFinite DEF Twice
<1>5. S = IF InBoth(ix, RefLookup(ix, s)) THEN Q \cup {s} ELSE Q
  BY <1>2 DEF Twice
<1> HIDE DEF S, Q, below, q
<1>6. 2 ^ Cardinality(Q) \in Nat /\ 2 ^ Cardinality(Q \cup {s}) = 2 * (2 ^ Cardinality(Q))
  BY <1>4, PowerGrows
<1>7. 2 ^ Cardinality(S) = Doubling(InBoth(ix, RefLookup(ix, s)), 2 ^ Cardinality(Q))
  BY <1>5, <1>6 DEF Doubling
<1> QED
  BY <1>6, <1>7 DEF S, Q, below, q

LEMMA TwiceStarts ==
    ASSUME NEW ix, NEW v, Tree(v), NEW d, Depths(v, d), NEW r \in DOMAIN v
    PROVE  2 ^ Cardinality(Twice(ix, v, BelowIn(v, r), r)) = 1
<1>1. ASSUME NEW t \in Above(v, r), t \in BelowIn(v, r) PROVE FALSE
  <2>1. t \in DOMAIN v /\ t # r /\ t # NoRec /\ d[r] < d[t]
    BY <1>1, AboveItself, BelowGrows DEF BelowIn
  <2>2. d[t] < d[r] /\ d[t] \in Nat /\ d[r] \in Nat
    BY <2>1, AboveItself DEF Depths
  <2> QED
    BY <2>1, <2>2
<1>2. Twice(ix, v, BelowIn(v, r), r) = {}
  BY <1>1 DEF Twice
<1> QED
  BY <1>2, PowerOfNone
-----------------------------------------------------------------------------
(* The levels below a directory, as enumerate_inner goes down them          *)

KidLists(ix, above) == [k \in DOMAIN above |-> Kids(ix, above[k])]

NextLevel(ix, above) == FlattenSeq(KidLists(ix, above))

Levels(ix, root, n) ==
    LET level[k \in 0 .. n] ==
          IF k = 0 THEN Children(ix, root)
          ELSE LET above == level[k - 1] IN
               FlattenSeq([j \in DOMAIN above |-> Kids(ix, above[j])])
    IN level

LEMMA CollectedIs ==
    \A ix, root :
       Collected(ix, root) = FlattenSeq([k \in 1 .. LogicalLen(ix) + 1 |->
                                           Levels(ix, root, LogicalLen(ix))[k - 1]])
BY DEF Collected, Levels

LEMMA KidsAre ==
    ASSUME NEW ix, Typed(ix), NEW above \in Seq(Nat)
    PROVE  /\ \A i : Kids(ix, i) \in Seq(Nat)
           /\ KidLists(ix, above) \in [1 .. Len(above) -> Seq(Nat)]
           /\ NextLevel(ix, above) \in Seq(Nat)
<1>1. ASSUME NEW i PROVE Kids(ix, i) \in Seq(Nat)
  <2>1. Children(ix, i) \in Seq(Nat)
    BY TimesOfChild
  <2>2. << >> \in Seq(Nat)
    OBVIOUS
  <2> QED
    BY <2>1, <2>2 DEF Kids
<1>2. DOMAIN above = 1 .. Len(above) /\ Len(above) \in Nat
  OBVIOUS
<1>3. KidLists(ix, above) \in [1 .. Len(above) -> Seq(Nat)]
  BY <1>1, <1>2 DEF KidLists
<1>4. NextLevel(ix, above) \in Seq(Nat)
  <2> DEFINE ss == KidLists(ix, above)
             n == Len(above)
  <2>1. ss \in [1 .. n -> Seq(Nat)] /\ n \in Nat
    BY <1>2, <1>3
  <2> HIDE DEF ss, n
  <2>2. F!Flattened(ss) \in Seq(Nat)
    BY <2>1, F!FlattenIsSeq
  <2>3. F!Flattened(ss) = FlattenSeq(ss)
    BY DEF F!Flattened, FlattenSeq
  <2> QED
    BY <2>2, <2>3 DEF NextLevel, ss
<1> QED
  BY <1>1, <1>3, <1>4

LEMMA LevelsAre ==
    ASSUME NEW ix, Typed(ix), NEW root, NEW n \in Nat
    PROVE  /\ Levels(ix, root, n)[0] = Children(ix, root)
           /\ \A k \in 1 .. n : Levels(ix, root, n)[k] = NextLevel(ix, Levels(ix, root, n)[k - 1])
           /\ \A k \in 0 .. n : Levels(ix, root, n)[k] \in Seq(Nat)
<1> DEFINE A == Seq(Nat)
           g == [t \in (1 .. n) \X A |-> NextLevel(ix, t[2])]
           a == Children(ix, root)
           Is(level) == level = [k \in 0 .. n |->
                                   IF k = 0 THEN Children(ix, root)
                                   ELSE LET above == level[k - 1] IN
                                        FlattenSeq([j \in DOMAIN above |-> Kids(ix, above[j])])]
           level == CHOOSE level : Is(level)
<1>1. ASSUME NEW k \in 1 .. n, NEW x \in A
      PROVE  g[<<k, x>>] = NextLevel(ix, x) /\ g[<<k, x>>] \in A
  <2>1. g[<<k, x>>] = NextLevel(ix, x)
    <3>1. <<k, x>> \in (1 .. n) \X A
      OBVIOUS
    <3> HIDE DEF A
    <3> QED
      BY <3>1
  <2>2. NextLevel(ix, x) \in A
    BY KidsAre
  <2> QED
    BY <2>1, <2>2
<1>2. a \in A
  BY TimesOfChild
<1>3. PICK f : Iterates(f, n, A, a, g)
  <2> HIDE DEF A, a, g
  <2>1. Stepping(g, n, A)
    BY <1>1 DEF Stepping
  <2> QED
    BY <1>2, <2>1, StepsExist
<1>4. /\ f \in [0 .. n -> A] /\ f[0] = Children(ix, root)
      /\ \A k \in 1 .. n : f[k] = NextLevel(ix, f[k - 1])
  <2>1. f \in [0 .. n -> A] /\ f[0] = a /\ \A k \in 1 .. n : f[k] = g[<<k, f[k - 1]>>]
    BY <1>3 DEF Iterates
  <2>2. ASSUME NEW k \in 1 .. n PROVE f[k] = NextLevel(ix, f[k - 1])
    <3>1. k - 1 \in 0 .. n
      OBVIOUS
    <3>2. f[k - 1] \in A
      <4> HIDE DEF A, a, g
      <4> QED
        BY <2>1, <3>1
    <3> HIDE DEF A, a, g
    <3>3. g[<<k, f[k - 1]>>] = NextLevel(ix, f[k - 1])
      BY <1>1, <3>2
    <3> QED
      BY <2>1, <3>3
  <2> HIDE DEF A, g
  <2> QED
    BY <2>1, <2>2
<1>5. Is(f)
  <2>1. ASSUME NEW k \in 0 .. n
        PROVE  f[k] = IF k = 0 THEN Children(ix, root)
                      ELSE LET above == f[k - 1] IN
                           FlattenSeq([j \in DOMAIN above |-> Kids(ix, above[j])])
    <3>1. k # 0 => f[k] = NextLevel(ix, f[k - 1])
      BY <1>4
    <3> HIDE DEF A
    <3> QED
      BY <1>4, <3>1 DEF NextLevel, KidLists
  <2>2. f = [k \in 0 .. n |-> f[k]]
    <3> HIDE DEF A
    <3> QED
      BY <1>4
  <2> HIDE DEF A
  <2> QED
    BY <2>1, <2>2
<1>6. Is(level)
  <2> HIDE DEF Is
  <2> QED
    BY <1>5
<1>7. Levels(ix, root, n) = level
  BY DEF Levels
<1> HIDE DEF level, a, g
<1>8. level[0] = Children(ix, root) /\ \A k \in 1 .. n : level[k] = NextLevel(ix, level[k - 1])
  <2>1. \A k \in 0 .. n :
           level[k] = IF k = 0 THEN Children(ix, root)
                      ELSE LET above == level[k - 1] IN
                           FlattenSeq([j \in DOMAIN above |-> Kids(ix, above[j])])
    BY <1>6
  <2> HIDE DEF Is
  <2>2. ASSUME NEW k \in 1 .. n PROVE level[k] = NextLevel(ix, level[k - 1])
    <3>1. k \in 0 .. n /\ k # 0
      OBVIOUS
    <3>2. level[k] = LET above == level[k - 1] IN
                     FlattenSeq([j \in DOMAIN above |-> Kids(ix, above[j])])
      BY <2>1, <3>1
    <3> QED
      BY <3>2 DEF NextLevel, KidLists
  <2>3. 0 \in 0 .. n
    OBVIOUS
  <2> QED
    BY <2>1, <2>2, <2>3
<1> HIDE DEF Is
<1> DEFINE S == {k \in 0 .. n : level[k] \in Seq(Nat)}
<1>9. 0 \in S
  BY <1>2, <1>8 DEF a
<1>10. ASSUME NEW k \in 1 .. n, k - 1 \in S PROVE k \in S
  <2>1. level[k] \in Seq(Nat)
    BY <1>8, <1>10, KidsAre
  <2> QED
    BY <2>1
<1>11. \A k \in 0 .. n : k \in S
  <2> HIDE DEF S
  <2> QED
    BY <1>9, <1>10, F!UpTo
<1> QED
  BY <1>7, <1>8, <1>11

(* A level of the walk below r: each file as often as there are ways to it, *)
(* and no entry that is deleted.                                            *)
Counted(ix, v, d, r, m, seq) ==
    /\ seq \in Seq(Nat)
    /\ \A i : i \notin Visible(ix) => Times(seq, i) = 0
    /\ \A s \in DOMAIN v :
          Times(seq, RefLookup(ix, s))
            = IF s \in BelowIn(v, r) /\ d[s] = d[r] + 1 + m
              THEN 2 ^ Cardinality(Twice(ix, v, BelowIn(v, r), s)) ELSE 0

LEMMA CountedEntries ==
    ASSUME NEW ix, NEW seq \in Seq(Nat),
           \A i : i \notin Visible(ix) => Times(seq, i) = 0
    PROVE  \A n \in DOMAIN seq : seq[n] \in Visible(ix)
<1> SUFFICES ASSUME NEW n \in DOMAIN seq PROVE seq[n] \in Visible(ix)
  OBVIOUS
<1>1. Times(seq, seq[n]) # 0
  BY TimesIs
<1> QED
  BY <1>1

(* The children of the entry of a file are those of the files in it.        *)
LEMMA TimesOfFile ==
    ASSUME NEW ix, NEW v, Mirrored(ix, v), NEW q \in DOMAIN v, NEW s \in DOMAIN v
    PROVE  Times(Children(ix, RefLookup(ix, q)), RefLookup(ix, s))
             = IF v[s].parent = q THEN Doubling(InBoth(ix, RefLookup(ix, s)), 1) ELSE 0
<1> DEFINE i == RefLookup(ix, s)
           j == RefLookup(ix, q)
<1>1. i \in Visible(ix)
  BY EntryOfFile DEF Visible
<1>2. Times(Children(ix, j), i)
        = IF ParentOf(ix, i) = j THEN Doubling(InBoth(ix, i), 1) ELSE 0
  BY <1>1, TimesOfChild DEF Mirrored
<1>3. j # NoIdx /\ q # NoRec
  BY EntryOfFile, FeedAssumption DEF Mirrored, Tree, VolumeTyped
<1>4. ParentOf(ix, i) = IF v[s].parent = NoRec THEN NoIdx ELSE RefLookup(ix, v[s].parent)
  BY EntryOfFile
<1>5. v[s].parent # NoRec => v[s].parent \in DOMAIN v
  BY EntryOfFile
<1>6. v[s].parent = q => ParentOf(ix, i) = j
  BY <1>3, <1>4
<1>7. ASSUME ParentOf(ix, i) = j PROVE v[s].parent = q
  <2>1. v[s].parent # NoRec /\ RefLookup(ix, v[s].parent) = RefLookup(ix, q)
    BY <1>3, <1>4, <1>7
  <2> QED
    BY <1>5, <2>1, SameEntry
<1> QED
  BY <1>2, <1>6, <1>7

LEMMA FirstLevel ==
    ASSUME NEW ix, NEW v, Mirrored(ix, v), NEW d, Depths(v, d), NEW r \in DOMAIN v
    PROVE  Counted(ix, v, d, r, 0, Children(ix, RefLookup(ix, r)))
<1> DEFINE c == Children(ix, RefLookup(ix, r))
           below == BelowIn(v, r)
<1>1. Typed(ix) /\ Tree(v)
  BY DEF Mirrored
<1>2. c \in Seq(Nat) /\ \A i : i \notin Visible(ix) => Times(c, i) = 0
  BY <1>1, TimesOfChild
<1>3. ASSUME NEW s \in DOMAIN v
      PROVE  Times(c, RefLookup(ix, s))
               = IF s \in below /\ d[s] = d[r] + 1 + 0
                 THEN 2 ^ Cardinality(Twice(ix, v, below, s)) ELSE 0
  <2> DEFINE q == v[s].parent
             two == InBoth(ix, RefLookup(ix, s))
  <2>1. Times(c, RefLookup(ix, s)) = IF q = r THEN Doubling(two, 1) ELSE 0
    BY TimesOfFile
  <2>2. d[r] \in Nat /\ d[s] \in Nat
    BY DEF Depths
  <2>3. ASSUME q = r
        PROVE  /\ s \in below /\ d[s] = d[r] + 1 + 0
               /\ 2 ^ Cardinality(Twice(ix, v, below, s)) = Doubling(two, 1)
    <3>1. s \in below /\ s # Root
      BY <1>1, <2>3, BelowGrows
    <3>2. d[s] = d[r] + 1
      BY <2>3, <3>1 DEF Depths
    <3>3. 2 ^ Cardinality(Twice(ix, v, below, s))
            = Doubling(two, 2 ^ Cardinality(Twice(ix, v, below, q)))
      BY <1>1, <3>1, TwiceGrows
    <3>4. 2 ^ Cardinality(Twice(ix, v, below, r)) = 1
      BY <1>1, TwiceStarts
    <3> QED
      BY <2>2, <2>3, <3>1, <3>2, <3>3, <3>4
  <2>4. ASSUME s \in below, d[s] = d[r] + 1 + 0 PROVE q = r
    <3>1. s # Root /\ (q = r \/ q \in below)
      BY <1>1, <2>4, BelowGrows
    <3>2. q \in DOMAIN v /\ d[s] = d[q] + 1 /\ d[q] \in Nat
      BY <1>1, <3>1, AboveItself DEF Depths
    <3>3. q \in below => d[r] < d[q]
      BY <1>1, <3>2, BelowGrows
    <3> QED
      BY <2>2, <2>4, <3>1, <3>2, <3>3
  <2> HIDE DEF q, two, below, c
  <2> QED
    BY <2>1, <2>3, <2>4
<1> QED
  BY <1>2, <1>3 DEF Counted

LEMMA OneLevelDown ==
    ASSUME NEW ix, NEW v, Mirrored(ix, v), InDirs(v), NEW d, Depths(v, d),
           NEW r \in DOMAIN v, NEW m \in Nat, NEW above, Counted(ix, v, d, r, m, above)
    PROVE  Counted(ix, v, d, r, m + 1, NextLevel(ix, above))
<1> DEFINE n == Len(above)
           ss == KidLists(ix, above)
           below == BelowIn(v, r)
           power(s) == 2 ^ Cardinality(Twice(ix, v, below, s))
<1>1. Typed(ix) /\ Tree(v)
  BY DEF Mirrored
<1>2. /\ above \in Seq(Nat) /\ n \in Nat /\ DOMAIN above = 1 .. n
      /\ \A i : i \notin Visible(ix) => Times(above, i) = 0
      /\ \A s \in DOMAIN v :
            Times(above, RefLookup(ix, s))
              = IF s \in below /\ d[s] = d[r] + 1 + m THEN power(s) ELSE 0
  BY DEF Counted
<1>3. \A k \in 1 .. n : above[k] \in Visible(ix)
  BY <1>2, CountedEntries
<1>4. ss \in [1 .. n -> Seq(Nat)] /\ NextLevel(ix, above) = FlattenSeq(ss)
      /\ \A k \in 1 .. n : ss[k] = Kids(ix, above[k])
  BY <1>1, <1>2, KidsAre DEF NextLevel, KidLists
<1>5. FlattenSeq(ss) \in Seq(Nat)
  BY <1>1, <1>2, <1>4, KidsAre
<1> HIDE DEF ss, n, below
<1>6. ASSUME NEW i, i \notin Visible(ix) PROVE Times(FlattenSeq(ss), i) = 0
  <2>1. ASSUME NEW k \in 1 .. n PROVE Times(ss[k], i) = IF k \in {} THEN 1 ELSE 0
    <3>1. Times(Children(ix, above[k]), i) = 0
      BY <1>1, <1>6, TimesOfChild
    <3>2. Times(<< >>, i) = 0
      <4>1. {j \in DOMAIN << >> : << >>[j] = i} = {}
        OBVIOUS
      <4> QED
        BY <4>1, FS_EmptySet DEF Times
    <3> QED
      BY <1>4, <3>1, <3>2 DEF Kids
  <2>2. OnlyIn(Nat, ss, i, n, {}, 1)
    BY <1>2, <1>4, <2>1 DEF OnlyIn
  <2>3. Times(FlattenSeq(ss), i) = 1 * Cardinality({})
    BY <2>2, TimesOfSome
  <2> QED
    BY <2>3, FS_EmptySet
<1>7. ASSUME NEW s \in DOMAIN v
      PROVE  Times(FlattenSeq(ss), RefLookup(ix, s))
               = IF s \in below /\ d[s] = d[r] + 1 + (m + 1) THEN power(s) ELSE 0
  <2> DEFINE i == RefLookup(ix, s)
             q == v[s].parent
             two == InBoth(ix, i)
             w == Doubling(two, 1)
             K == {k \in 1 .. n : s # Root /\ above[k] = RefLookup(ix, q)}
  <2>1. ASSUME NEW k \in 1 .. n PROVE Times(ss[k], i) = IF k \in K THEN w ELSE 0
    <3> DEFINE t == RefOf(ix, above[k])
    <3>1. t \in DOMAIN v /\ RefLookup(ix, t) = above[k]
      BY <1>3, FileOfEntry
    <3>2. ss[k] = IF t \in Dirs THEN Children(ix, above[k]) ELSE << >>
      BY <1>4 DEF Kids, IsDir
    <3> HIDE DEF t
    <3>3. Times(Children(ix, above[k]), i) = IF q = t THEN Doubling(two, 1) ELSE 0
      BY <3>1, TimesOfFile
    <3>4. Times(<< >>, i) = 0
      <4>1. {j \in DOMAIN << >> : << >>[j] = i} = {}
        OBVIOUS
      <4> QED
        BY <4>1, FS_EmptySet DEF Times
    <3>5. q = t => s # Root
      BY <1>1, <3>1, BelowGrows
    <3>6. s # Root => q \in DOMAIN v /\ q \in Dirs
      BY <1>1 DEF InDirs, Tree
    <3>7. k \in K <=> q = t
      BY <3>1, <3>5, <3>6, SameEntry
    <3> QED
      BY <3>2, <3>3, <3>4, <3>5, <3>6, <3>7
  <2>2. K \subseteq 1 .. n /\ w \in {1, 2}
    BY DEF Doubling
  <2>3. Times(FlattenSeq(ss), i) = w * Cardinality(K)
    <3> HIDE DEF K, w, two, i
    <3>1. OnlyIn(Nat, ss, i, n, K, w)
      BY <1>2, <1>4, <2>1, <2>2 DEF OnlyIn
    <3> QED
      BY <3>1, TimesOfSome
  <2>4. d[r] \in Nat /\ d[s] \in Nat
    BY DEF Depths
  <2>5. s \in below => s # Root
    BY <1>1, BelowGrows DEF below
  <2>6. ASSUME s = Root PROVE Cardinality(K) = 0 /\ s \notin below
    BY <2>5, <2>6, FS_EmptySet
  <2>7. ASSUME s # Root
        PROVE  Cardinality(K) = IF q \in below /\ d[q] = d[r] + 1 + m THEN power(q) ELSE 0
    <3>1. K = {k \in DOMAIN above : above[k] = RefLookup(ix, q)} /\ q \in DOMAIN v
      BY <1>1, <1>2, <2>7 DEF Tree
    <3>2. Cardinality(K) = Times(above, RefLookup(ix, q))
      BY <3>1 DEF Times
    <3> QED
      BY <1>2, <3>1, <3>2
  <2>8. ASSUME s # Root
        PROVE  /\ s \in below /\ d[s] = d[r] + 1 + (m + 1)
                     <=> q \in below /\ d[q] = d[r] + 1 + m
               /\ s \in below => power(s) = Doubling(two, power(q))
    <3>1. q \in DOMAIN v /\ d[s] = d[q] + 1 /\ d[q] \in Nat
      BY <1>1, <2>8, AboveItself DEF Depths
    <3>2. s \in below <=> q = r \/ q \in below
      BY <1>1, <2>8, BelowGrows DEF below
    <3>3. s \in below => power(s) = Doubling(two, power(q))
      BY <1>1, TwiceGrows DEF below
    <3> HIDE DEF q, power, two
    <3> QED
      BY <2>4, <3>1, <3>2, <3>3
  <2>9. w * 0 = 0 /\ \A c \in Nat : w * c = Doubling(two, c)
    BY DEF Doubling
  <2>10. s \in below /\ s # Root => power(q) \in Nat
    BY <1>1, TwiceGrows DEF below
  <2> HIDE DEF q, power, two, K, i, w
  <2>11. Times(FlattenSeq(ss), i)
           = IF s \in below /\ d[s] = d[r] + 1 + (m + 1) THEN power(s) ELSE 0
    BY <2>3, <2>6, <2>7, <2>8, <2>9, <2>10
  <2> QED
    BY <2>11 DEF i
<1> QED
  BY <1>4, <1>5, <1>6, <1>7 DEF Counted, below

LEMMA LevelsCounted ==
    ASSUME NEW ix, NEW v, Mirrored(ix, v), InDirs(v), NEW d, Depths(v, d),
           NEW r \in DOMAIN v, NEW n \in Nat
    PROVE  \A m \in 0 .. n : Counted(ix, v, d, r, m, Levels(ix, RefLookup(ix, r), n)[m])
<1> DEFINE level == Levels(ix, RefLookup(ix, r), n)
           S == {m \in 0 .. n : Counted(ix, v, d, r, m, level[m])}
<1>1. Typed(ix)
  BY DEF Mirrored
<1>2. /\ level[0] = Children(ix, RefLookup(ix, r))
      /\ \A k \in 1 .. n : level[k] = NextLevel(ix, level[k - 1])
  BY <1>1, LevelsAre
<1> HIDE DEF level
<1>3. 0 \in S
  <2>1. Counted(ix, v, d, r, 0, level[0])
    BY <1>2, FirstLevel
  <2> QED
    BY <2>1
<1>4. ASSUME NEW k \in 1 .. n, k - 1 \in S PROVE k \in S
  <2>1. k - 1 \in Nat /\ (k - 1) + 1 = k /\ Counted(ix, v, d, r, k - 1, level[k - 1])
    BY <1>4
  <2>2. Counted(ix, v, d, r, (k - 1) + 1, NextLevel(ix, level[k - 1]))
    BY <2>1, OneLevelDown
  <2>3. Counted(ix, v, d, r, k, level[k])
    BY <1>2, <2>1, <2>2
  <2> QED
    BY <2>3
<1>5. \A k \in 0 .. n : k \in S
  <2> HIDE DEF S
  <2> QED
    BY <1>3, <1>4, F!UpTo
<1> QED
  BY <1>5 DEF level

(* The entries of a listing: those of the files in inside, each as often as *)
(* the passes come upon it and the directories on the way to it.            *)
Lists(ix, v, inside, ids) ==
    /\ ids \in Seq(Nat)
    /\ \A i : i \notin Visible(ix) => Times(ids, i) = 0
    /\ \A s \in DOMAIN v :
          Times(ids, RefLookup(ix, s))
            = IF s \in inside THEN 2 ^ Cardinality(Twice(ix, v, inside, s)) ELSE 0

LEMMA CollectedLists ==
    ASSUME NEW ix, NEW v, Mirrored(ix, v), InDirs(v), NEW d, Depths(v, d),
           NEW r \in DOMAIN v
    PROVE  Lists(ix, v, BelowIn(v, r), Collected(ix, RefLookup(ix, r)))
<1> DEFINE N == LogicalLen(ix)
           n == N + 1
           level == Levels(ix, RefLookup(ix, r), N)
           ss == [k \in 1 .. n |-> level[k - 1]]
           ids == FlattenSeq(ss)
           below == BelowIn(v, r)
<1>1. Typed(ix) /\ Tree(v) /\ N \in Nat /\ n \in Nat
  BY Lengths DEF Mirrored
<1>2. \A m \in 0 .. N : Counted(ix, v, d, r, m, level[m])
  BY <1>1, LevelsCounted
<1>3. Collected(ix, RefLookup(ix, r)) = ids
  BY CollectedIs
<1>4. \A k \in 1 .. n : k - 1 \in 0 .. N /\ k - 1 \in Nat
  BY <1>1
<1> HIDE DEF level, below, N, n
<1>5. \A k \in 1 .. n : ss[k] = level[k - 1]
  OBVIOUS
<1>6. ss \in [1 .. n -> Seq(Nat)]
  <2>1. \A k \in 1 .. n : level[k - 1] \in Seq(Nat)
    BY <1>2, <1>4 DEF Counted
  <2> QED
    BY <2>1
<1> HIDE DEF ss
<1>7. ids \in Seq(Nat)
  <2>1. F!Flattened(ss) \in Seq(Nat)
    BY <1>1, <1>6, F!FlattenIsSeq
  <2>2. F!Flattened(ss) = FlattenSeq(ss)
    BY DEF F!Flattened, FlattenSeq
  <2> QED
    BY <2>1, <2>2
<1> HIDE DEF ids
<1>8. ASSUME NEW i, \A k \in 1 .. n : Times(ss[k], i) = 0 PROVE Times(ids, i) = 0
  <2>1. 1 \in 1 .. n
    BY <1>1 DEF n
  <2>2. OnlyAt(Nat, ss, i, n, 1)
    BY <1>1, <1>6, <1>8, <2>1 DEF OnlyAt
  <2>3. Times(ids, i) = Times(ss[1], i)
    BY <2>2, TimesOfOne DEF ids
  <2> QED
    BY <1>8, <2>1, <2>3
<1>9. ASSUME NEW i, i \notin Visible(ix) PROVE Times(ids, i) = 0
  <2>1. \A k \in 1 .. n : Times(ss[k], i) = 0
    BY <1>2, <1>4, <1>5, <1>9 DEF Counted
  <2> QED
    BY <1>8, <2>1
<1>10. ASSUME NEW s \in DOMAIN v
       PROVE  Times(ids, RefLookup(ix, s))
                = IF s \in below THEN 2 ^ Cardinality(Twice(ix, v, below, s)) ELSE 0
  <2> DEFINE i == RefLookup(ix, s)
             power == 2 ^ Cardinality(Twice(ix, v, below, s))
             j == d[s] - d[r]
  <2>1. d[r] \in Nat /\ d[s] \in Nat
    BY DEF Depths
  <2>2. ASSUME NEW k \in 1 .. n
        PROVE  Times(ss[k], i) = IF s \in below /\ k = j THEN power ELSE 0
    <3>1. Times(ss[k], i) = IF s \in below /\ d[s] = d[r] + 1 + (k - 1) THEN power ELSE 0
      BY <1>2, <1>4, <1>5 DEF Counted, below
    <3>2. d[s] = d[r] + 1 + (k - 1) <=> k = j
      BY <1>4, <2>1
    <3> QED
      BY <3>1, <3>2
  <2>3. ASSUME s \in below PROVE j \in 1 .. n
    <3>1. d[r] < d[s]
      BY <1>1, <2>3, BelowGrows DEF below
    <3>2. Cardinality(DOMAIN v) \in Nat /\ d[s] < Cardinality(DOMAIN v)
      BY <1>1, DepthBound
    <3>3. Cardinality(DOMAIN v) <= N
      BY FewerFiles DEF N
    <3> QED
      BY <1>1, <2>1, <3>1, <3>2, <3>3 DEF n
  <2> HIDE DEF i, power, j
  <2>4. ASSUME s \in below PROVE Times(ids, i) = power
    <3>1. OnlyAt(Nat, ss, i, n, j)
      BY <1>1, <1>6, <2>2, <2>3, <2>4 DEF OnlyAt
    <3>2. Times(ids, i) = Times(ss[j], i)
      BY <3>1, TimesOfOne DEF ids
    <3> QED
      BY <2>2, <2>3, <2>4, <3>2
  <2>5. ASSUME s \notin below PROVE Times(ids, i) = 0
    BY <1>8, <2>2, <2>5
  <2> QED
    BY <2>4, <2>5 DEF i, power
<1> QED
  BY <1>3, <1>7, <1>9, <1>10 DEF Lists, below

(* The files in a directory.                                                *)
InsideOf(v, r) == {s \in BelowIn(v, r) : v[s].parent = r}

LEMMA ChildrenList ==
    ASSUME NEW ix, NEW v, Mirrored(ix, v), NEW d, Depths(v, d), NEW r \in DOMAIN v
    PROVE  Lists(ix, v, InsideOf(v, r), Children(ix, RefLookup(ix, r)))
<1> DEFINE inside == InsideOf(v, r)
           ids == Children(ix, RefLookup(ix, r))
<1>1. Typed(ix) /\ Tree(v)
  BY DEF Mirrored
<1>2. ids \in Seq(Nat) /\ \A i : i \notin Visible(ix) => Times(ids, i) = 0
  BY <1>1, TimesOfChild
<1>3. ASSUME NEW s \in DOMAIN v
      PROVE  Times(ids, RefLookup(ix, s))
               = IF s \in inside THEN 2 ^ Cardinality(Twice(ix, v, inside, s)) ELSE 0
  <2> DEFINE two == InBoth(ix, RefLookup(ix, s))
             T == Twice(ix, v, inside, s)
  <2>1. Times(ids, RefLookup(ix, s)) = IF v[s].parent = r THEN Doubling(two, 1) ELSE 0
    BY TimesOfFile
  <2>2. s \in inside <=> v[s].parent = r
    BY <1>1, BelowGrows DEF InsideOf
  <2>3. ASSUME v[s].parent = r PROVE 2 ^ Cardinality(T) = Doubling(two, 1)
    <3>1. ASSUME NEW t \in Above(v, s), t \in inside PROVE t = s
      <4>1. t \in DOMAIN v /\ t # Root /\ s # Root /\ v[t].parent = r /\ t # NoRec
        BY <1>1, <2>3, <3>1, BelowGrows, AboveItself DEF InsideOf, BelowIn
      <4>2. d[t] = d[r] + 1 /\ d[s] = d[r] + 1 /\ d[t] \in Nat
        BY <2>3, <4>1 DEF Depths
      <4>3. t # s => d[t] < d[s]
        BY <1>1, <4>1, AboveItself
      <4> QED
        BY <4>2, <4>3
    <3>2. s \in Above(v, s) /\ s \in inside
      BY <1>1, <2>2, <2>3, AboveItself
    <3>3. T = IF two THEN {s} ELSE {}
      BY <3>1, <3>2 DEF Twice
    <3>4. 2 ^ Cardinality({}) = 1 /\ 2 ^ Cardinality({} \cup {s}) = 2 * (2 ^ Cardinality({}))
      <4>1. IsFiniteSet({}) /\ s \notin {}
        BY FS_EmptySet
      <4> QED
        BY <4>1, PowerOfNone, PowerGrows
    <3>5. {} \cup {s} = {s}
      OBVIOUS
    <3> HIDE DEF T, two
    <3> QED
      BY <3>3, <3>4, <3>5 DEF Doubling
  <2> HIDE DEF T, two, inside
  <2> QED
    BY <2>1, <2>2, <2>3 DEF T
<1> QED
  BY <1>2, <1>3 DEF Lists
-----------------------------------------------------------------------------
(* What is listed                                                           *)

Listed(ix, ids) ==
    LET live == Ascending({n \in DOMAIN ids : ~IsDeleted(ix, ids[n])})
        entry(n) == ids[live[n]] IN
    IF \E n \in DOMAIN live : ~HasPath(ix, entry(n)) THEN << >>
    ELSE [n \in DOMAIN live |->
            Result(ix, [index |-> entry(n),
                        score |-> IF IsDir(ix, entry(n)) THEN DirectoryBonus ELSE 0])]

LEMMA EnumerateIs ==
    \A ix, path, recursive :
       Enumerate(ix, path, recursive)
         = LET root == PathToIdx(ix, Root, path) IN
           Listed(ix, IF root = NoIdx THEN << >>
                      ELSE IF recursive THEN Collected(ix, root) ELSE Children(ix, root))
BY DEF Enumerate, Listed

LEMMA EntryFound ==
    ASSUME NEW ix, NEW v, NEW d, NEW p, Charted(ix, v, d, p), NEW i \in Visible(ix)
    PROVE  LET r == RefOf(ix, i) IN
           /\ r \in DOMAIN v /\ RefLookup(ix, r) = i /\ HasPath(ix, i)
           /\ Result(ix, [index |-> i, score |-> IF IsDir(ix, i) THEN DirectoryBonus ELSE 0])
                = FoundIn(v, p, r, 0)
<1> DEFINE r == RefOf(ix, i)
<1>1. Mirrored(ix, v) /\ Depths(v, d) /\ Paths(v, d, p)
  BY DEF Charted
<1>2. r \in DOMAIN v /\ RefLookup(ix, r) = i
  BY <1>1, FileOfEntry
<1>3. IsDir(ix, i) = (r \in Dirs)
  BY DEF IsDir
<1> HIDE DEF r
<1>4. HasPath(ix, i) /\ PathOf(ix, i) = p[r] /\ NameOf(ix, i) = v[r].name
  BY <1>1, <1>2, PathOfIndex, EntryOfFile
<1>5. Result(ix, [index |-> i, score |-> IF IsDir(ix, i) THEN DirectoryBonus ELSE 0])
        = FoundIn(v, p, r, 0)
  <2> DEFINE bonus == IF r \in Dirs THEN DirectoryBonus ELSE 0
  <2>1. bonus \in Nat /\ (IF IsDir(ix, i) THEN DirectoryBonus ELSE 0) = bonus
    BY <1>3 DEF DirectoryBonus
  <2>2. 0 + bonus = bonus
    BY <2>1
  <2>3. FoundIn(v, p, r, 0) = [path |-> p[r], name |-> v[r].name, dir |-> r \in Dirs,
                               score |-> 0 + bonus]
    BY DEF FoundIn
  <2> HIDE DEF bonus
  <2>4. Result(ix, [index |-> i, score |-> bonus])
          = [path |-> PathOf(ix, i), name |-> NameOf(ix, i), dir |-> IsDir(ix, i),
             score |-> bonus]
    BY DEF Result
  <2>5. Result(ix, [index |-> i, score |-> bonus])
          = [path |-> p[r], name |-> v[r].name, dir |-> r \in Dirs, score |-> bonus]
    BY <1>3, <1>4, <2>4
  <2> QED
    BY <2>1, <2>2, <2>3, <2>5
<1> QED
  BY <1>2, <1>4, <1>5 DEF r

LEMMA ListedIs ==
    ASSUME NEW ix, NEW v, NEW d, NEW p, Charted(ix, v, d, p),
           NEW inside, inside \subseteq DOMAIN v, NEW ids, Lists(ix, v, inside, ids)
    PROVE  /\ ToSet(Listed(ix, ids)) = {FoundIn(v, p, s, 0) : s \in inside}
           /\ \A s \in inside :
                 Times(Listed(ix, ids), FoundIn(v, p, s, 0))
                   = 2 ^ Cardinality(Twice(ix, v, inside, s))
<1> DEFINE live == Ascending({n \in DOMAIN ids : ~IsDeleted(ix, ids[n])})
           file(n) == RefOf(ix, ids[live[n]])
           listed == [n \in DOMAIN live |-> FoundIn(v, p, file(n), 0)]
<1>1. /\ Mirrored(ix, v) /\ Tree(v) /\ Unique(v) /\ Depths(v, d) /\ Paths(v, d, p)
      /\ ids \in Seq(Nat) /\ DOMAIN ids = 1 .. Len(ids) /\ Len(ids) \in Nat
      /\ \A i : i \notin Visible(ix) => Times(ids, i) = 0
      /\ \A s \in DOMAIN v :
            Times(ids, RefLookup(ix, s))
              = IF s \in inside THEN 2 ^ Cardinality(Twice(ix, v, inside, s)) ELSE 0
  BY DEF Charted, Mirrored, Lists
<1>2. \A n \in DOMAIN ids : ids[n] \in Visible(ix)
  BY <1>1, CountedEntries
<1>3. {n \in DOMAIN ids : ~IsDeleted(ix, ids[n])} = DOMAIN ids
  BY <1>2 DEF Visible
<1>4. IsFiniteSet(DOMAIN ids) /\ DOMAIN ids \in SUBSET Nat
  BY <1>1, IntervalIs
<1>5. Enumerates(live, DOMAIN ids)
  <2> DEFINE D == DOMAIN ids
  <2>1. live = Ascending(D)
    BY <1>3
  <2> HIDE DEF live, D
  <2>2. Enumerates(Ascending(D), D)
    BY <1>4, AscendingEnumerates DEF D
  <2> QED
    BY <2>1, <2>2 DEF D
<1>6. Listed(ix, ids)
        = IF \E n \in DOMAIN live : ~HasPath(ix, ids[live[n]]) THEN << >>
          ELSE [n \in DOMAIN live |->
                  Result(ix, [index |-> ids[live[n]],
                              score |-> IF IsDir(ix, ids[live[n]])
                                        THEN DirectoryBonus ELSE 0])]
  BY DEF Listed
<1> HIDE DEF live
<1>7. /\ \A n \in DOMAIN live : live[n] \in DOMAIN ids
      /\ \A k \in DOMAIN ids : \E n \in DOMAIN live : live[n] = k
      /\ DOMAIN live = 1 .. Len(live) /\ Len(live) \in Nat
      /\ \A m, n \in DOMAIN live : m < n => live[m] < live[n]
  BY <1>5 DEF Enumerates
<1>8. ASSUME NEW n \in DOMAIN live
      PROVE  /\ file(n) \in inside /\ RefLookup(ix, file(n)) = ids[live[n]]
             /\ HasPath(ix, ids[live[n]])
             /\ Result(ix, [index |-> ids[live[n]],
                            score |-> IF IsDir(ix, ids[live[n]]) THEN DirectoryBonus ELSE 0])
                  = FoundIn(v, p, file(n), 0)
  <2> DEFINE i == ids[live[n]]
             r == RefOf(ix, i)
  <2>1. live[n] \in DOMAIN ids /\ i \in Visible(ix)
    BY <1>2, <1>7
  <2>2. Times(ids, i) # 0
    BY <1>1, <2>1, TimesIs
  <2> HIDE DEF i
  <2>3. /\ r \in DOMAIN v /\ RefLookup(ix, r) = i /\ HasPath(ix, i)
        /\ Result(ix, [index |-> i, score |-> IF IsDir(ix, i) THEN DirectoryBonus ELSE 0])
             = FoundIn(v, p, r, 0)
    BY <2>1, EntryFound
  <2>4. r \in inside
    BY <1>1, <2>2, <2>3
  <2> QED
    BY <2>3, <2>4 DEF i
<1>9. Listed(ix, ids) = listed
  <2>1. \A n \in DOMAIN live :
           Result(ix, [index |-> ids[live[n]],
                       score |-> IF IsDir(ix, ids[live[n]]) THEN DirectoryBonus ELSE 0])
             = FoundIn(v, p, file(n), 0)
    BY <1>8
  <2> HIDE DEF file
  <2>2. Listed(ix, ids)
          = [n \in DOMAIN live |->
               Result(ix, [index |-> ids[live[n]],
                           score |-> IF IsDir(ix, ids[live[n]]) THEN DirectoryBonus ELSE 0])]
    BY <1>6, <1>8
  <2> QED
    BY <2>1, <2>2
<1> HIDE DEF file
<1>10. DOMAIN listed = DOMAIN live /\ \A n \in DOMAIN live : listed[n] = FoundIn(v, p, file(n), 0)
  OBVIOUS
<1> HIDE DEF listed
<1>11. ASSUME NEW r \in DOMAIN v, NEW s \in DOMAIN v, FoundIn(v, p, r, 0) = FoundIn(v, p, s, 0)
       PROVE  r = s
  <2>1. p[r] = p[s]
    BY <1>11 DEF FoundIn
  <2> QED
    BY <1>1, <2>1, PathsDiffer
<1>12. ASSUME NEW s \in inside
       PROVE  /\ \E n \in DOMAIN live : file(n) = s
              /\ Times(listed, FoundIn(v, p, s, 0))
                   = 2 ^ Cardinality(Twice(ix, v, inside, s))
  <2> DEFINE i == RefLookup(ix, s)
             A == {n \in DOMAIN listed : listed[n] = FoundIn(v, p, s, 0)}
             B == {k \in DOMAIN ids : ids[k] = i}
             g == [n \in A |-> live[n]]
             T == Twice(ix, v, inside, s)
  <2>1. Times(ids, i) = 2 ^ Cardinality(T) /\ s \in DOMAIN v
    BY <1>1
  <2>2. 2 ^ Cardinality(T) # 0
    <3>1. IsFiniteSet(T) /\ NoRec \notin T
      BY <1>1, TwiceIsFinite, FeedAssumption DEF Twice, Tree, VolumeTyped
    <3> HIDE DEF T
    <3> QED
      BY <3>1, PowerGrows
  <2>3. IsFiniteSet(B) /\ Cardinality(B) = Times(ids, i)
    BY <1>1, TimesIs DEF Times
  <2>4. \E k \in DOMAIN ids : ids[k] = i
    BY <1>1, <2>1, <2>2, TimesIs
  <2>5. RefOf(ix, i) = s
    BY <1>1, <2>1, EntryOfFile
  <2> HIDE DEF i, T
  <2>6. ASSUME NEW n \in DOMAIN live
        PROVE  n \in A <=> live[n] \in B
    <3>1. file(n) \in DOMAIN v /\ RefLookup(ix, file(n)) = ids[live[n]]
          /\ live[n] \in DOMAIN ids /\ listed[n] = FoundIn(v, p, file(n), 0)
          /\ file(n) = RefOf(ix, ids[live[n]])
      BY <1>7, <1>8, <1>10 DEF file
    <3>2. listed[n] = FoundIn(v, p, s, 0) <=> file(n) = s
      BY <1>11, <2>1, <3>1
    <3>3. file(n) = s <=> ids[live[n]] = i
      BY <2>5, <3>1 DEF i
    <3> QED
      BY <1>10, <3>1, <3>2, <3>3
  <2>7. \E n \in DOMAIN live : file(n) = s
    <3>1. PICK n \in DOMAIN live : ids[live[n]] = i
      BY <1>7, <2>4
    <3> QED
      BY <2>5, <3>1 DEF file
  <2>8. g \in [A -> B] /\ \A k \in B : \E n \in A : g[n] = k
    <3>1. \A n \in A : n \in DOMAIN live /\ live[n] \in B
      BY <1>10, <2>6
    <3>2. \A k \in B : \E n \in A : live[n] = k
      BY <1>7, <2>6
    <3> HIDE DEF A, B
    <3> QED
      BY <3>1, <3>2
  <2>9. ASSUME NEW m \in A, NEW n \in A, g[m] = g[n] PROVE m = n
    <3>1. m \in DOMAIN live /\ n \in DOMAIN live /\ live[m] = live[n]
      BY <1>10, <2>9
    <3>2. m \in Nat /\ n \in Nat /\ live[m] \in Nat /\ live[n] \in Nat
      BY <1>1, <1>7, <3>1
    <3>3. ~ (m < n) /\ ~ (n < m)
      BY <1>7, <3>1, <3>2
    <3> QED
      BY <3>2, <3>3
  <2> HIDE DEF A, B, g
  <2>10. Cardinality(A) = Cardinality(B)
    <3>1. g \in Bijection(A, B)
      BY <2>8, <2>9 DEF Bijection, Injection, Surjection, IsInjective
    <3>2. g \in Bijection(A, B) /\ IsFiniteSet(A)
      <4>1. g \in Injection(A, B)
        BY <3>1 DEF Bijection
      <4> QED
        BY <2>3, <3>1, <4>1, FS_Injection
    <3> QED
      BY <3>2, FS_Bijection DEF ExistsBijection
  <2>11. Times(listed, FoundIn(v, p, s, 0)) = Cardinality(A)
    BY DEF Times, A
  <2> QED
    BY <2>1, <2>3, <2>7, <2>10, <2>11 DEF T
<1>13. ToSet(listed) = {FoundIn(v, p, s, 0) : s \in inside}
  <2>1. ToSet(listed) = {listed[n] : n \in DOMAIN listed}
    BY DEF ToSet
  <2>2. \A n \in DOMAIN live : file(n) \in inside
    BY <1>8
  <2> QED
    BY <1>10, <1>12, <2>1, <2>2
<1> QED
  BY <1>9, <1>12, <1>13

LEMMA SettledIsListed == MirrorInv /\ TreeInv => EnumerationIsTheSubtree
<1> SUFFICES ASSUME MirrorInv, TreeInv, Settled,
                    NEW r \in Dirs \cap DOMAIN volume, NEW recursive \in BOOLEAN
             PROVE  LET listed   == Enumerate(index, VolumePath(r), recursive)
                        inside   == {s \in Below(r) : recursive \/ volume[s].parent = r}
                        doubled(s) == {t \in AtOrAbove(s) \cap inside : InTwoPasses(t)} IN
                    /\ ToSet(listed) = {Found(s, 0) : s \in inside}
                    /\ \A s \in inside :
                          Cardinality({n \in DOMAIN listed : listed[n] = Found(s, 0)})
                            = 2 ^ Cardinality(doubled(s))
  BY DEF EnumerationIsTheSubtree
<1> DEFINE inside == {s \in Below(r) : recursive \/ volume[s].parent = r}
           listed == Enumerate(index, VolumePath(r), recursive)
           root == RefLookup(index, r)
           ids == IF recursive THEN Collected(index, root) ELSE Children(index, root)
           doubled(s) == {t \in AtOrAbove(s) \cap inside : InTwoPasses(t)}
<1>1. PICK d, p : /\ Charted(index, volume, d, p)
                  /\ \A s \in DOMAIN volume : VolumePath(s) = p[s]
  BY SettledIsCharted
<1>2. /\ Mirrored(index, volume) /\ Depths(volume, d) /\ InDirs(volume)
      /\ r \in DOMAIN volume
  BY <1>1 DEF Charted, TreeInv, Rooted
<1>3. Below(r) = BelowIn(volume, r)
  BY AboveIsAtOrAbove DEF Below, BelowIn
<1>4. inside \subseteq DOMAIN volume
  BY DEF Below
<1>5. listed = Listed(index, ids)
  <2>1. PathToIdx(index, Root, VolumePath(r)) = root /\ root # NoIdx
    BY <1>1, <1>2, PathLeads, EntryOfFile
  <2> HIDE DEF root
  <2> QED
    BY <2>1, EnumerateIs
<1>6. Lists(index, volume, inside, ids)
  <2>1. ASSUME recursive PROVE Lists(index, volume, inside, ids)
    <3>1. inside = BelowIn(volume, r) /\ ids = Collected(index, root)
      BY <1>3, <2>1
    <3>2. Lists(index, volume, BelowIn(volume, r), Collected(index, root))
      BY <1>2, CollectedLists
    <3> HIDE DEF inside, ids, root
    <3> QED
      BY <3>1, <3>2
  <2>2. ASSUME ~ recursive PROVE Lists(index, volume, inside, ids)
    <3>1. inside = InsideOf(volume, r) /\ ids = Children(index, root)
      BY <1>3, <2>2 DEF InsideOf
    <3>2. Lists(index, volume, InsideOf(volume, r), Children(index, root))
      BY <1>2, ChildrenList
    <3> HIDE DEF inside, ids, root
    <3> QED
      BY <3>1, <3>2
  <2> QED
    BY <2>1, <2>2
<1>7. ASSUME NEW s \in DOMAIN volume PROVE Found(s, 0) = FoundIn(volume, p, s, 0)
  BY <1>1 DEF Found, FoundIn
<1>8. \A s : doubled(s) = Twice(index, volume, inside, s)
  BY AboveIsAtOrAbove DEF Twice, InTwoPasses, InBoth
<1> HIDE DEF inside, listed, ids, doubled
<1>9. /\ ToSet(listed) = {FoundIn(volume, p, s, 0) : s \in inside}
      /\ \A s \in inside :
            Times(listed, FoundIn(volume, p, s, 0))
              = 2 ^ Cardinality(Twice(index, volume, inside, s))
  BY <1>1, <1>4, <1>5, <1>6, ListedIs
<1>10. ToSet(listed) = {Found(s, 0) : s \in inside}
  BY <1>4, <1>7, <1>9
<1>11. ASSUME NEW s \in inside
       PROVE  Cardinality({n \in DOMAIN listed : listed[n] = Found(s, 0)})
                = 2 ^ Cardinality(doubled(s))
  BY <1>4, <1>7, <1>8, <1>9 DEF Times
<1> QED
  BY <1>10, <1>11 DEF inside, listed, doubled

(* While no record number is reused, no new file left open and nothing      *)
(* moved into a new directory between two polls: once the changes are       *)
(* applied, listing a directory by its path gives the files in it, or all   *)
(* those below it, and no other, with their paths; each once, and twice for *)
(* each directory on the way to it, and itself, that was inserted and then  *)
(* moved since the last compaction (path_to_idx, logical_children_inner,    *)
(* enumerate_inner).                                                        *)
THEOREM EnumerationAlwaysTheSubtree ==
    ASSUME Env = {} PROVE Spec => []EnumerationIsTheSubtree
<1>1. Init => MirrorInv /\ TreeInv
  BY MirrorInit, TreeInit
<1>2. MirrorInv /\ TreeInv /\ [Next]_vars => (MirrorInv /\ TreeInv)'
  BY MirrorStep, TreeStep
<1>3. MirrorInv /\ TreeInv => EnumerationIsTheSubtree
  BY SettledIsListed
<1> QED
  BY <1>1, <1>2, <1>3, PTL DEF Spec
=============================================================================
