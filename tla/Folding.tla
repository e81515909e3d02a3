------------------------------ MODULE Folding ------------------------------
(***************************************************************************)
(* Folds and enumerations over data of any size. A module that folds with  *)
(* an operator instantiates this one with it and has its lemmas: that is   *)
(* how the induction over a sequence is had where the provers cannot take  *)
(* an operator as a parameter.                                             *)
(* What it needs of the library is spelled out: a module that instantiates *)
(* this one several times would carry the library as many times.           *)
(***************************************************************************)
EXTENDS Sequences, WellFoundedInduction, TLAPS

CONSTANT Op(_, _)

LEMMA SmallestExists ==
  ASSUME NEW S \in SUBSET Nat, S # {}
  PROVE  \E n \in S : \A k \in S : n <= k
<1>1. PICK n \in S : \A k \in S : ~ <<k, n>> \in OpToRel(<, Nat)
  BY NatLessThanWellFounded, WFMin
<1>2. ASSUME NEW k \in S PROVE n <= k
  <2>1. ~ <<k, n>> \in OpToRel(<, Nat)
    BY <1>1
  <2>2. ~ (k < n)
    BY <2>1 DEF OpToRel
  <2> QED
    BY <2>2
<1> QED
  BY <1>2

(* What holds before the first step, and after each step if before it,      *)
(* holds after all of them: S is the set of the numbers it holds after.     *)
LEMMA UpTo ==
  ASSUME NEW n \in Nat, NEW S, 0 \in S,
         \A k \in 1 .. n : k - 1 \in S => k \in S
  PROVE  \A k \in 0 .. n : k \in S
<1> DEFINE Bad == {k \in 0 .. n : k \notin S}
<1> SUFFICES ASSUME Bad # {} PROVE FALSE
  OBVIOUS
<1>1. Bad \in SUBSET Nat
  OBVIOUS
<1>2. PICK k \in Bad : \A j \in Bad : k <= j
  <2> HIDE DEF Bad
  <2> QED
    BY <1>1, SmallestExists
<1>3. k \in 1 .. n
  OBVIOUS
<1>4. k - 1 \in 0 .. n /\ k - 1 \notin Bad
  BY <1>2, <1>3
<1> QED
  BY <1>3, <1>4

-----------------------------------------------------------------------------
(* FiniteSetsExt!Max, SequencesExt!FoldLeft with Op, SequencesExt!FlattenSeq. *)
Largest(s) == CHOOSE x \in s : \A y \in s : x >= y

FoldOf(base, seq) ==
  LET iter[s \in SUBSET DOMAIN seq] ==
        IF s = {} THEN base ELSE Op(iter[s \ {Largest(s)}], seq[Largest(s)])
  IN iter[DOMAIN seq]

Flattened(seqs) ==
  IF Len(seqs) = 0 THEN seqs
  ELSE LET flatten[i \in 1 .. Len(seqs)] ==
             IF i = 1 THEN seqs[i] ELSE flatten[i - 1] \o seqs[i]
       IN flatten[Len(seqs)]

(* The largest number of a set that reaches up to m is m.                   *)
LEMMA LargestIs ==
  ASSUME NEW m \in Nat, NEW s \in SUBSET (1 .. m), m \in s
  PROVE  Largest(s) = m
<1>1. \A y \in s : m >= y
  OBVIOUS
<1>2. Largest(s) \in s /\ \A y \in s : Largest(s) >= y
  BY <1>1 DEF Largest
<1>3. Largest(s) \in 1 .. m /\ Largest(s) >= m
  BY <1>2
<1> QED
  BY <1>3

(* What the fold of the library makes of a set of places of the sequence.   *)
Value(g, base, seq, s) ==
  IF s = {} THEN base ELSE Op(g[s \ {Largest(s)}], seq[Largest(s)])

Folds(g, base, seq, n) ==
  g = [s \in SUBSET (1 .. n) |-> Value(g, base, seq, s)]

Below(g, base, seq, n) ==
  \A s \in SUBSET (1 .. n) : g[s] = Value(g, base, seq, s)

LEMMA OneMore ==
  ASSUME NEW n \in Nat, NEW base, NEW seq, NEW g, Below(g, base, seq, n)
  PROVE  \E h : Below(h, base, seq, n + 1)
<1> DEFINE h == [s \in SUBSET (1 .. n + 1) |->
                   IF n + 1 \in s THEN Op(g[s \ {n + 1}], seq[n + 1]) ELSE g[s]]
<1> SUFFICES ASSUME NEW s \in SUBSET (1 .. n + 1)
             PROVE  h[s] = Value(h, base, seq, s)
  BY DEF Below
<1>1. CASE n + 1 \in s
  <2>1. Largest(s) = n + 1
    BY <1>1, LargestIs
  <2>2. s \ {n + 1} \in SUBSET (1 .. n)
    OBVIOUS
  <2>3. n + 1 \notin s \ {n + 1} /\ s \ {n + 1} \in SUBSET (1 .. n + 1)
    OBVIOUS
  <2>4. h[s \ {n + 1}] = g[s \ {n + 1}]
    BY <2>3
  <2>5. h[s] = Op(g[s \ {n + 1}], seq[n + 1])
    BY <1>1
  <2> HIDE DEF h
  <2> QED
    BY <1>1, <2>1, <2>4, <2>5 DEF Value
<1>2. CASE n + 1 \notin s
  <2>1. s \in SUBSET (1 .. n)
    BY <1>2
  <2>2. h[s] = g[s] /\ g[s] = Value(g, base, seq, s)
    BY <1>2, <2>1 DEF Below
  <2>3. s \ {Largest(s)} \in SUBSET (1 .. n + 1) /\ n + 1 \notin s \ {Largest(s)}
    BY <1>2
  <2>4. h[s \ {Largest(s)}] = g[s \ {Largest(s)}]
    BY <2>3
  <2> HIDE DEF h
  <2> QED
    BY <2>2, <2>4 DEF Value
<1> QED
  BY <1>1, <1>2

LEMMA AllBelow ==
  ASSUME NEW n \in Nat, NEW base, NEW seq
  PROVE  \E g : Below(g, base, seq, n)
<1> DEFINE Bad == {m \in Nat : ~ \E g : Below(g, base, seq, m)}
<1> SUFFICES ASSUME Bad # {} PROVE FALSE
  OBVIOUS
<1>1. PICK m \in Bad : \A k \in Bad : m <= k
  BY SmallestExists
<1>2. CASE m = 0
  <2> DEFINE g == [s \in SUBSET (1 .. 0) |-> base]
  <2>1. \A s \in SUBSET (1 .. 0) : s = {}
    OBVIOUS
  <2>2. Below(g, base, seq, 0)
    BY <2>1 DEF Below, Value
  <2> QED
    BY <1>2, <2>2
<1>3. CASE m # 0
  <2>1. m - 1 \in Nat /\ (m - 1) + 1 = m /\ m - 1 \notin Bad
    BY <1>1, <1>3
  <2>2. PICK g : Below(g, base, seq, m - 1)
    BY <2>1
  <2>3. \E h : Below(h, base, seq, (m - 1) + 1)
    BY <2>1, <2>2, OneMore
  <2> QED
    BY <2>1, <2>3
<1> QED
  BY <1>2, <1>3

LEMMA FoldExists ==
  ASSUME NEW n \in Nat, NEW base, NEW seq
  PROVE  \E g : Folds(g, base, seq, n)
<1>1. PICK h : Below(h, base, seq, n)
  BY AllBelow
<1> DEFINE g == [s \in SUBSET (1 .. n) |-> h[s]]
<1>2. ASSUME NEW s \in SUBSET (1 .. n) PROVE g[s] = Value(g, base, seq, s)
  <2>1. g[s] = h[s] /\ g[s \ {Largest(s)}] = h[s \ {Largest(s)}]
    OBVIOUS
  <2> QED
    BY <1>1, <2>1 DEF Below, Value
<1>3. g = [s \in SUBSET (1 .. n) |-> Value(g, base, seq, s)]
  <2>1. \A s \in SUBSET (1 .. n) : g[s] = Value(g, base, seq, s)
    BY <1>2
  <2>2. g = [s \in SUBSET (1 .. n) |-> g[s]]
    OBVIOUS
  <2> HIDE DEF g
  <2> QED
    BY <2>1, <2>2
<1> QED
  BY <1>3 DEF Folds

(* The value of the fold after each element of the sequence, from base on.  *)
Steps(f, base, seq, n) ==
  /\ f[0] = base
  /\ \A k \in 1 .. n : f[k] = Op(f[k - 1], seq[k])

LEMMA FoldSteps ==
  ASSUME NEW n \in Nat, NEW base, NEW seq, DOMAIN seq = 1 .. n
  PROVE  \E f : Steps(f, base, seq, n) /\ FoldOf(base, seq) = f[n]
<1> DEFINE it == CHOOSE g : Folds(g, base, seq, n)
<1>1. Folds(it, base, seq, n)
  BY FoldExists
<1>2. FoldOf(base, seq) = it[1 .. n]
  BY DEF FoldOf, Folds, Value
<1> HIDE DEF it
<1> DEFINE f == [k \in 0 .. n |-> it[1 .. k]]
<1>3. f[0] = base
  <2>1. it[1 .. 0] = Value(it, base, seq, 1 .. 0)
    BY <1>1 DEF Folds
  <2>2. 1 .. 0 = {}
    OBVIOUS
  <2> QED
    BY <2>1, <2>2 DEF Value
<1>4. ASSUME NEW k \in 1 .. n PROVE f[k] = Op(f[k - 1], seq[k])
  <2>1. it[1 .. k] = Value(it, base, seq, 1 .. k)
    BY <1>1 DEF Folds
  <2>2. Largest(1 .. k) = k /\ 1 .. k # {} /\ (1 .. k) \ {k} = 1 .. (k - 1)
    <3>1. k \in Nat /\ 1 .. k \in SUBSET (1 .. k) /\ k \in 1 .. k
      OBVIOUS
    <3>2. Largest(1 .. k) = k
      BY ONLY <3>1, LargestIs
    <3> QED
      BY <3>1, <3>2
  <2>3. it[1 .. k] = Op(it[1 .. (k - 1)], seq[k])
    BY <2>1, <2>2 DEF Value
  <2> QED
    BY <2>3
<1>5. Steps(f, base, seq, n)
  BY <1>3, <1>4 DEF Steps
<1>6. FoldOf(base, seq) = f[n]
  BY <1>2
<1> HIDE DEF f
<1> QED
  BY <1>5, <1>6

(* Nothing folds to what it starts from, one element more is one step more.  *)
LEMMA FoldNothing ==
  ASSUME NEW base
  PROVE  FoldOf(base, << >>) = base
<1>1. DOMAIN << >> = 1 .. 0 /\ 0 \in Nat
  OBVIOUS
<1>2. PICK f : Steps(f, base, << >>, 0) /\ FoldOf(base, << >>) = f[0]
  BY <1>1, FoldSteps
<1> QED
  BY <1>2 DEF Steps

LEMMA StepsAgree ==
  ASSUME NEW n \in Nat, NEW base, NEW s, NEW t, \A k \in 1 .. n : t[k] = s[k],
         NEW f, Steps(f, base, s, n), NEW g, Steps(g, base, t, n)
  PROVE  g[n] = f[n]
<1> DEFINE S == {k \in 0 .. n : g[k] = f[k]}
<1>1. 0 \in S
  BY DEF Steps
<1>2. ASSUME NEW k \in 1 .. n, k - 1 \in S PROVE k \in S
  BY <1>2 DEF Steps
<1>3. \A k \in 0 .. n : k \in S
  <2> HIDE DEF S
  <2> QED
    BY <1>1, <1>2, UpTo
<1>4. n \in 0 .. n
  OBVIOUS
<1> QED
  BY <1>3, <1>4

LEMMA FoldOneMore ==
  ASSUME NEW S, NEW s \in Seq(S), NEW e, NEW base
  PROVE  FoldOf(base, Append(s, e)) = Op(FoldOf(base, s), e)
<1> DEFINE t == Append(s, e)
           n == Len(s)
<1>1. n \in Nat /\ DOMAIN s = 1 .. n
  OBVIOUS
<1>2. DOMAIN t = 1 .. n + 1 /\ t[n + 1] = e /\ \A k \in 1 .. n : t[k] = s[k]
  <2>1. s \in Seq(S \union {e}) /\ e \in S \union {e}
    OBVIOUS
  <2> QED
    BY <2>1
<1> HIDE DEF t, n
<1>3. PICK f : Steps(f, base, s, n) /\ FoldOf(base, s) = f[n]
  BY <1>1, FoldSteps
<1>4. n + 1 \in Nat
  BY <1>1
<1>5. PICK g : Steps(g, base, t, n + 1) /\ FoldOf(base, t) = g[n + 1]
  BY <1>2, <1>4, FoldSteps
<1>6. \A k \in 1 .. n : k \in 1 .. n + 1
  BY <1>1
<1>7. Steps(g, base, t, n)
  BY <1>5, <1>6 DEF Steps
<1>8. g[n] = f[n]
  BY <1>1, <1>2, <1>3, <1>7, StepsAgree
<1>9. n + 1 \in 1 .. n + 1 /\ (n + 1) - 1 = n
  BY <1>1
<1>10. g[n + 1] = Op(g[n], t[n + 1])
  BY <1>5, <1>9 DEF Steps
<1> QED
  BY <1>2, <1>3, <1>5, <1>8, <1>10 DEF t

-----------------------------------------------------------------------------
(* The sequences that are joined up to each of them.                        *)
Flat(fl, ss, k) == \A i \in 1 .. k : fl[i] = IF i = 1 THEN ss[i] ELSE fl[i - 1] \o ss[i]

LEMMA FlatExists ==
    ASSUME NEW n \in Nat, NEW ss
    PROVE  \E fl : fl = [i \in 1 .. n |-> IF i = 1 THEN ss[i] ELSE fl[i - 1] \o ss[i]]
<1> DEFINE S == {k \in 0 .. n : \E fl : Flat(fl, ss, k)}
<1>1. 0 \in S
  BY DEF Flat
<1>2. ASSUME NEW k \in 1 .. n, k - 1 \in S PROVE k \in S
  <2>1. PICK fl : Flat(fl, ss, k - 1)
    BY <1>2
  <2> DEFINE h == [i \in 1 .. n |-> IF i = k
                                   THEN IF k = 1 THEN ss[k] ELSE fl[k - 1] \o ss[k]
                                   ELSE fl[i]]
  <2>2. ASSUME NEW i \in 1 .. k PROVE h[i] = IF i = 1 THEN ss[i] ELSE h[i - 1] \o ss[i]
    <3>1. i # 1 => h[i - 1] = fl[i - 1]
      OBVIOUS
    <3>2. CASE i = k
      BY <3>1, <3>2
    <3>3. CASE i # k
      <4>1. i \in 1 .. k - 1 /\ h[i] = fl[i]
        BY <3>3
      <4>2. fl[i] = IF i = 1 THEN ss[i] ELSE fl[i - 1] \o ss[i]
        BY <2>1, <4>1 DEF Flat
      <4> HIDE DEF h
      <4> QED
        BY <3>1, <4>1, <4>2
    <3> QED
      BY <3>2, <3>3
  <2>3. Flat(h, ss, k)
    <3> HIDE DEF h
    <3> QED
      BY <2>2 DEF Flat
  <2> HIDE DEF h
  <2> QED
    BY <2>3
<1>3. n \in S
  <2>1. \A k \in 0 .. n : k \in S
    <3> HIDE DEF S
    <3> QED
      BY <1>1, <1>2, UpTo
  <2> HIDE DEF S
  <2> QED
    BY <2>1
<1>4. PICK fl : Flat(fl, ss, n)
  BY <1>3
<1> DEFINE g == [i \in 1 .. n |-> fl[i]]
<1>5. ASSUME NEW i \in 1 .. n PROVE g[i] = IF i = 1 THEN ss[i] ELSE g[i - 1] \o ss[i]
  <2>1. g[i] = fl[i] /\ (i # 1 => g[i - 1] = fl[i - 1])
    OBVIOUS
  <2> HIDE DEF g
  <2> QED
    BY <1>4, <2>1 DEF Flat
<1>6. g = [i \in 1 .. n |-> g[i]]
  OBVIOUS
<1>7. g = [i \in 1 .. n |-> IF i = 1 THEN ss[i] ELSE g[i - 1] \o ss[i]]
  <2> HIDE DEF g
  <2> QED
    BY <1>5, <1>6
<1> HIDE DEF g
<1> QED
  BY <1>7

(* Flattening sequences joins one after the other.                          *)
LEMMA FlattenSteps ==
    ASSUME NEW n \in Nat, NEW ss, DOMAIN ss = 1 .. n, Len(ss) = n
    PROVE  \E fl : /\ Flat(fl, ss, n)
                   /\ Flattened(ss) = IF n = 0 THEN ss ELSE fl[n]
<1> DEFINE fl == CHOOSE fl : fl = [i \in 1 .. n |-> IF i = 1 THEN ss[i]
                                                   ELSE fl[i - 1] \o ss[i]]
<1>1. fl = [i \in 1 .. n |-> IF i = 1 THEN ss[i] ELSE fl[i - 1] \o ss[i]]
  BY FlatExists
<1>2. Flattened(ss) = IF n = 0 THEN ss ELSE fl[n]
  BY DEF Flattened
<1> HIDE DEF fl
<1>3. \A i \in 1 .. n : fl[i] = IF i = 1 THEN ss[i] ELSE fl[i - 1] \o ss[i]
  BY <1>1
<1>4. Flat(fl, ss, n)
  BY <1>3 DEF Flat
<1> QED
  BY <1>2, <1>4

LEMMA FlattenIsSeq ==
    ASSUME NEW S, NEW n \in Nat, NEW ss \in [1 .. n -> Seq(S)]
    PROVE  Flattened(ss) \in Seq(S)
<1>1. Len(ss) = n
  OBVIOUS
<1>2. CASE n = 0
  <2>1. Flattened(ss) = ss
    BY <1>1, <1>2 DEF Flattened
  <2>2. ss \in Seq(S)
    BY <1>2
  <2> QED
    BY <2>1, <2>2
<1>3. CASE n # 0
  <2> DEFINE fl == CHOOSE fl : fl = [i \in 1 .. n |-> IF i = 1 THEN ss[i]
                                                     ELSE fl[i - 1] \o ss[i]]
  <2>1. Flattened(ss) = fl[n]
    BY <1>1, <1>3 DEF Flattened
  <2>2. fl = [i \in 1 .. n |-> IF i = 1 THEN ss[i] ELSE fl[i - 1] \o ss[i]]
    BY FlatExists
  <2> HIDE DEF fl
  <2>3. \A i \in 1 .. n : fl[i] = IF i = 1 THEN ss[i] ELSE fl[i - 1] \o ss[i]
    BY <2>2
  <2> DEFINE T == {k \in 0 .. n : k # 0 => fl[k] \in Seq(S)}
  <2>4. 0 \in T
    OBVIOUS
  <2>5. ASSUME NEW k \in 1 .. n, k - 1 \in T PROVE k \in T
    <3>1. ss[k] \in Seq(S) /\ k \in 0 .. n
      OBVIOUS
    <3>2. CASE k = 1
      BY <2>3, <3>1, <3>2
    <3>3. CASE k # 1
      <4>1. k - 1 # 0 /\ k - 1 \in T
        BY <2>5, <3>3
      <4>2. fl[k - 1] \in Seq(S)
        BY <4>1
      <4>3. fl[k] = fl[k - 1] \o ss[k]
        BY <2>3, <3>3
      <4>4. fl[k] \in Seq(S)
        BY <3>1, <4>2, <4>3
      <4> QED
        BY <3>1, <4>4
    <3> QED
      BY <3>2, <3>3
  <2>6. \A k \in 0 .. n : k \in T
    <3> HIDE DEF T
    <3> QED
      BY <2>4, <2>5, UpTo
  <2>7. fl[n] \in Seq(S)
    BY <1>3, <2>6
  <2> QED
    BY <2>1, <2>7
<1> QED
  BY <1>2, <1>3
=============================================================================
