----------------------------- MODULE MftProofs -----------------------------
(***************************************************************************)
(* The sliding window, for every volume, plan and window size: no read is  *)
(* lost or counted twice, the buffers always suffice, and an index that is *)
(* delivered has seen every read of the plan.  The index, for every volume *)
(* and every order of its segments: the entries of children stay true, the *)
(* rows that are made of it always lead up, and it is the volume. The read *)
(* plan, for every extent map: each record once, from where it lies.       *)
(***************************************************************************)
EXTENDS MftProperties, FiniteSetTheorems, TLAPS

ByAttribute == INSTANCE Folding WITH Op <- ProcessAttribute
ByRecord    == INSTANCE Folding WITH Op <- ProcessFound
ByFound     == INSTANCE Folding WITH Op <- KeepReadable
ByParsed    == INSTANCE Folding WITH Op <- KeepParsed
ByRound     == INSTANCE Folding WITH Op <- Round
ByStep      == INSTANCE Folding WITH Op <- Above
ByAdjacent  == INSTANCE Folding WITH Op <- JoinAdjacent
ByPrecise   == INSTANCE Folding WITH Op <- JoinPrecise

USE WindowAssumption

Busy == {s \in Slots : slot[s] # Free}

(* What is strengthened: the pool counts the free slots, and while the     *)
(* window is filled only the slots before next are taken.                  *)
WindowInv ==
  /\ Len(ops) \in Nat
  /\ WindowTypeOK
  /\ ReadsAccountedFor
  /\ pool = Concurrency - Cardinality(Busy)
  /\ reader = "fill" =>
       next <= Concurrency + 1 /\ done = {} /\ \A s \in Slots : slot[s] # Free => s < next
  /\ PoolSuffices
  /\ OkMeansAll

-----------------------------------------------------------------------------
LEMMA FirstNumbers ==
    ASSUME NEW n \in Nat
    PROVE  IsFiniteSet(1 .. n) /\ Cardinality(1 .. n) = n
<1>1. 1 \in Int /\ n \in Int
  OBVIOUS
<1>2. IsFiniteSet(1 .. n) /\ Cardinality(1 .. n) = IF 1 > n THEN 0 ELSE n - 1 + 1
  BY <1>1, FS_Interval
<1>3. (IF 1 > n THEN 0 ELSE n - 1 + 1) = n
  OBVIOUS
<1> QED BY <1>2, <1>3

LEMMA SlotsFinite ==
    /\ IsFiniteSet(Slots)
    /\ IsFiniteSet(Busy) /\ Cardinality(Busy) \in Nat
    /\ Cardinality(Busy) <= Concurrency
<1>1. IsFiniteSet(Slots) /\ Cardinality(Slots) = Concurrency
  BY FS_Interval DEF Slots
<1>2. Busy \in SUBSET Slots
  BY DEF Busy
<1>3. IsFiniteSet(Busy) /\ Cardinality(Busy) <= Cardinality(Slots)
  BY <1>1, <1>2, FS_Subset
<1>4. Cardinality(Busy) \in Nat
  BY <1>3, FS_CardinalityType
<1> QED BY <1>1, <1>3, <1>4

LEMMA EmptyWindow ==
    ASSUME next = 1, slot = [s \in Slots |-> Free], pool = Concurrency,
           lost = {}, done = {}, Len(ops) \in Nat,
           reader \in {"fill"} \union (GaveUp \ {"exhausted"})
    PROVE  WindowInv
<1>1. Busy = {}
  BY DEF Busy
<1>2. Cardinality(Busy) = 0
  BY <1>1, FS_EmptySet
<1>3. WindowTypeOK
  BY DEF WindowTypeOK, Reads, Free, GaveUp, Working
<1>4. {slot[s] : s \in Slots} \ {Free} = {}
  OBVIOUS
<1>5. ReadsAccountedFor
  BY <1>4 DEF ReadsAccountedFor
<1>6. PoolSuffices /\ OkMeansAll
  BY DEF PoolSuffices, OkMeansAll, GaveUp
<1> QED BY <1>2, <1>3, <1>5, <1>6 DEF WindowInv, Free

LEMMA FillKeepsInv ==
    ASSUME WindowInv, QueueInitialRead
    PROVE  WindowInv'
<1> USE DEF Free
<1>0. /\ Len(ops) \in Nat /\ WindowTypeOK /\ ReadsAccountedFor
      /\ pool = Concurrency - Cardinality(Busy)
      /\ next \in 1 .. Len(ops) /\ next \in Slots /\ ops' = ops /\ done' = done /\ lost' = lost
      /\ done = {} /\ \A s \in Slots : slot[s] # Free => s < next
  BY DEF WindowInv, QueueInitialRead, WindowTypeOK, Slots
<1>1. CASE reader' = "refused" /\ UNCHANGED <<next, slot, pool>>
  <2>1. Busy' = Busy
    BY <1>1 DEF Busy, Slots
  <2>2. WindowTypeOK'
    BY <1>0, <1>1 DEF WindowTypeOK, Reads, Slots, GaveUp
  <2>3. ReadsAccountedFor'
    BY <1>0, <1>1 DEF ReadsAccountedFor, Slots
  <2> QED BY <1>0, <1>1, <2>1, <2>2, <2>3 DEF WindowInv, PoolSuffices, OkMeansAll
<1>2. CASE /\ pool' = IF pool = 0 THEN pool ELSE pool - 1
           /\ reader' = IF pool = 0 THEN "exhausted" ELSE reader
           /\ slot' = [slot EXCEPT ![next] = next]
           /\ next' = next + 1
  <2>1. Busy \subseteq 1 .. next - 1
    BY <1>0 DEF Busy, Slots, WindowTypeOK
  <2>2. Cardinality(Busy) <= next - 1
    <3>0. next - 1 \in Nat
      BY <1>0
    <3>1. IsFiniteSet(1 .. next - 1) /\ Cardinality(1 .. next - 1) = next - 1
      BY <3>0, FirstNumbers
    <3> QED BY <2>1, <3>1, FS_Subset
  <2>3. pool > 0
    BY <2>2, <1>0, SlotsFinite DEF Slots
  <2>4. next \notin Busy /\ Busy' = Busy \union {next}
    BY <1>0, <1>2 DEF Busy, Slots, WindowTypeOK
  <2>5. Cardinality(Busy') = Cardinality(Busy) + 1
    BY <2>4, SlotsFinite, FS_AddElement
  <2>6. pool' = Concurrency - Cardinality(Busy') /\ reader' = "fill"
    BY <1>0, <1>2, <2>3, <2>5, SlotsFinite DEF QueueInitialRead
  <2>7. WindowTypeOK'
    BY <1>0, <1>2, <2>3, <2>6 DEF WindowTypeOK, Reads, Slots, Working
  <2>8. ReadsAccountedFor'
    <3>1. {slot'[s] : s \in Slots} \ {0} = ({slot[s] : s \in Slots} \ {0}) \union {next}
      <4>1. slot[next] = 0 /\ slot \in [Slots -> Nat]
        BY <1>0 DEF WindowTypeOK, Reads
      <4> QED BY <1>0, <1>2, <4>1 DEF WindowTypeOK, Slots
    <3>2. {slot[s] : s \in Slots} \ {0} = 1 .. next - 1
      BY <1>0 DEF ReadsAccountedFor
    <3>3. {slot'[s] : s \in Slots} \ {0} = 1 .. next
      <4>1. (1 .. next - 1) \union {next} = 1 .. next
        BY <1>0
      <4> QED BY <3>1, <3>2, <4>1
    <3>4. \A s \in Slots : slot[s] # next
      <4>1. SUFFICES ASSUME NEW s \in Slots, slot[s] = next PROVE FALSE
        OBVIOUS
      <4>2. next \in Nat /\ next # 0
        BY <1>0
      <4>3. next \in {slot[t] : t \in Slots} \ {0}
        BY <4>1, <4>2
      <4> QED BY <3>2, <4>2, <4>3
    <3>5. \A s, t \in Slots : slot'[s] = slot'[t] /\ slot'[s] # 0 => s = t
      BY <1>0, <1>2, <3>4 DEF ReadsAccountedFor, WindowTypeOK
    <3> QED BY <1>0, <1>2, <3>3, <3>5 DEF ReadsAccountedFor, Slots
  <2>9. (next <= Concurrency + 1)' /\ \A s \in Slots : slot'[s] # 0 => s < next'
    BY <1>0, <1>2 DEF Slots, WindowTypeOK
  <2> QED BY <1>0, <2>6, <2>7, <2>8, <2>9 DEF WindowInv, PoolSuffices, OkMeansAll, Slots
<1> QED BY <1>1, <1>2 DEF QueueInitialRead

(* A completed read leaves its slot, and the next one takes it if there is one. *)
LEMMA CompleteKeepsInv ==
    ASSUME WindowInv, NEW s \in Slots, Complete(s)
    PROVE  WindowInv'
<1> USE DEF Free
<1>0. /\ Len(ops) \in Nat /\ WindowTypeOK /\ ReadsAccountedFor
      /\ pool = Concurrency - Cardinality(Busy)
      /\ ops' = ops /\ done' = done \union {slot[s]} /\ reader = "loop"
      /\ slot[s] # 0 /\ slot[s] \notin lost
  BY DEF WindowInv, Complete, Accepted
<1>1. /\ slot \in [Slots -> 0 .. Len(ops)] /\ next \in 1 .. Len(ops) + 1
      /\ slot[s] \in 1 .. next - 1 /\ slot[s] \notin done
      /\ pool \in Nat /\ done \subseteq 1 .. next - 1
      /\ lost \subseteq 1 .. Len(ops) /\ done \subseteq 1 .. Len(ops)
  <2>1. slot[s] \in {slot[t] : t \in Slots} \ {0}
    BY <1>0
  <2> QED BY <1>0, <2>1 DEF WindowTypeOK, ReadsAccountedFor, Reads
<1>2. \A t \in Slots : t # s => slot[t] # slot[s]
  BY <1>0 DEF ReadsAccountedFor
<1>3. {slot[t] : t \in Slots} \ {0} = (1 .. next - 1) \ done
  BY <1>0 DEF ReadsAccountedFor
<1>4. s \in Busy
  BY <1>0 DEF Busy
<1>5. CASE next > Len(ops) /\ slot' = [slot EXCEPT ![s] = 0] /\ pool' = Recycled
           /\ UNCHANGED <<next, lost, reader>>
  <2>1. Busy' = Busy \ {s}
    BY <1>1, <1>5 DEF Busy, Slots
  <2>2. Cardinality(Busy') = Cardinality(Busy) - 1
    BY <2>1, <1>4, SlotsFinite, FS_RemoveElement
  <2>3. pool' = Concurrency - Cardinality(Busy') /\ pool' \in 0 .. Concurrency
    <3>1. Cardinality(Busy) # 0
      BY <1>4, SlotsFinite, FS_EmptySet
    <3> QED BY <1>0, <1>5, <2>2, <3>1, SlotsFinite DEF Recycled
  <2>4. WindowTypeOK'
    BY <1>0, <1>1, <1>5, <2>3 DEF WindowTypeOK, Reads, Slots, Working
  <2>5. {slot'[t] : t \in Slots} \ {0} = ({slot[t] : t \in Slots} \ {0}) \ {slot[s]}
    BY <1>0, <1>1, <1>2, <1>5
  <2>6. ReadsAccountedFor'
    <3>1. {slot'[t] : t \in Slots} \ {0} = (1 .. next - 1) \ (done \union {slot[s]})
      BY <2>5, <1>3
    <3>2. \A t, u \in Slots : slot'[t] = slot'[u] /\ slot'[t] # 0 => t = u
      BY <1>0, <1>1, <1>5 DEF ReadsAccountedFor
    <3>3. lost' \intersect done' = {} /\ done' \subseteq 1 .. next' - 1
      BY <1>0, <1>1, <1>5 DEF ReadsAccountedFor
    <3> QED BY <1>0, <1>5, <3>1, <3>2, <3>3 DEF ReadsAccountedFor, Slots
  <2> QED BY <1>0, <1>5, <2>3, <2>4, <2>6 DEF WindowInv, PoolSuffices, OkMeansAll
<1>6. CASE /\ next <= Len(ops) /\ slot' = [slot EXCEPT ![s] = next] /\ next' = next + 1
           /\ lost' \in {lost, lost \union {next}}
           /\ pool' = IF Recycled = 0 THEN Recycled ELSE Recycled - 1
           /\ reader' = IF Recycled = 0 THEN "exhausted" ELSE reader
  <2>1. Busy' = Busy
    BY <1>1, <1>4, <1>6 DEF Busy, Slots
  <2>2. pool' = pool /\ reader' = "loop"
    BY <1>0, <1>1, <1>6 DEF Recycled
  <2>3. WindowTypeOK'
    <3>1. next \in 1 .. Len(ops) /\ next' \in 1 .. Len(ops) + 1
      BY <1>0, <1>1, <1>6
    <3>2. slot' \in [Slots -> 0 .. Len(ops)] /\ lost' \subseteq 1 .. Len(ops)
      BY <1>1, <1>6, <3>1
    <3>3. done' \subseteq 1 .. Len(ops)
      <4>1. slot[s] \in 1 .. Len(ops)
        BY <1>0, <1>1
      <4> QED BY <1>0, <1>1, <4>1
    <3>4. pool \in 0 .. Concurrency
      BY <1>0 DEF WindowTypeOK
    <3> QED BY <1>0, <2>2, <3>1, <3>2, <3>3, <3>4 DEF WindowTypeOK, Reads, Slots, Working
  <2>4. {slot'[t] : t \in Slots} \ {0} = (({slot[t] : t \in Slots} \ {0}) \ {slot[s]}) \union {next}
    BY <1>0, <1>1, <1>2, <1>6
  <2>5. ReadsAccountedFor'
    <3>1. {slot'[t] : t \in Slots} \ {0} = (1 .. next) \ (done \union {slot[s]})
      <4>1. next \in Nat \ {0} /\ next \notin done /\ slot[s] # next
        BY <1>0, <1>1
      <4>2. (((1 .. next - 1) \ done) \ {slot[s]}) \union {next} = (1 .. next) \ (done \union {slot[s]})
        BY <4>1
      <4> QED BY <2>4, <1>3, <4>2
    <3>2. \A t \in Slots : slot[t] # next
      <4>1. SUFFICES ASSUME NEW t \in Slots, slot[t] = next PROVE FALSE
        OBVIOUS
      <4>2. next \in Nat /\ next # 0
        BY <1>0, <1>1
      <4>3. next \in {slot[u] : u \in Slots} \ {0}
        BY <4>1, <4>2
      <4> QED BY <1>3, <4>2, <4>3
    <3>3. \A t, u \in Slots : slot'[t] = slot'[u] /\ slot'[t] # 0 => t = u
      BY <1>0, <1>1, <1>6, <3>2 DEF ReadsAccountedFor
    <3>4. lost' \intersect done' = {}
      <4>1. next \notin done /\ slot[s] # next
        BY <1>0, <1>1
      <4>2. lost \intersect done = {}
        BY <1>0 DEF ReadsAccountedFor
      <4> QED BY <1>0, <1>6, <4>1, <4>2
    <3>5. done' \subseteq 1 .. next' - 1 /\ next' - 1 = next
      <4>1. next \in Nat /\ next' = next + 1
        BY <1>1, <1>6
      <4>2. done \subseteq 1 .. next /\ slot[s] \in 1 .. next
        BY <1>1, <4>1
      <4>3. next' - 1 = next
        BY <4>1
      <4> QED BY <1>0, <4>2, <4>3
    <3> QED BY <1>0, <3>1, <3>3, <3>4, <3>5 DEF ReadsAccountedFor, Slots
  <2> QED BY <1>0, <1>6, <2>1, <2>2, <2>3, <2>5 DEF WindowInv, PoolSuffices, OkMeansAll
<1> QED BY <1>5, <1>6 DEF Complete, SubmitNext

LEMMA AllDone ==
    ASSUME WindowInv, Cardinality(done) = Len(ops)
    PROVE  done = Reads
<1>1. IsFiniteSet(Reads) /\ Cardinality(Reads) = Len(ops)
  <2>1. Len(ops) \in Nat
    BY DEF WindowInv
  <2> QED BY <2>1, FirstNumbers DEF Reads
<1>2. done \in SUBSET Reads
  BY DEF WindowInv, WindowTypeOK
<1> QED BY <1>1, <1>2, FS_Subset

(* The other steps of the reader only move reader. *)
LEMMA OtherStepsKeepInv ==
    ASSUME WindowInv, StartWaiting \/ AllCompleted \/ WaitFails \/ DeadlineExceeded
    PROVE  WindowInv'
<1>0. /\ UNCHANGED <<ops, next, slot, pool, lost, done>>
      /\ reader' \in {"loop", "ok", "failed", "stalled"}
      /\ reader' = "ok" => Cardinality(done) = Len(ops)
  <2>1. CASE StartWaiting
    BY <2>1 DEF StartWaiting
  <2>2. CASE AllCompleted
    <3>1. reader' = "ok" /\ UNCHANGED <<ops, next, slot, pool, lost, done>>
      BY <2>2 DEF AllCompleted
    <3>2. Cardinality(done) = Len(ops)
      BY <2>2, Zenon DEF AllCompleted
    <3> QED BY <3>1, <3>2
  <2>3. CASE WaitFails
    BY <2>3 DEF WaitFails
  <2>4. CASE DeadlineExceeded
    BY <2>4 DEF DeadlineExceeded
  <2> QED BY <2>1, <2>2, <2>3, <2>4
<1>1. Busy' = Busy
  BY <1>0 DEF Busy, Slots
<1>2. WindowTypeOK' /\ ReadsAccountedFor'
  BY <1>0 DEF WindowInv, WindowTypeOK, ReadsAccountedFor, Reads, Slots, Working, GaveUp
<1>3. OkMeansAll'
  BY <1>0, AllDone DEF OkMeansAll, Reads
<1> QED BY <1>0, <1>1, <1>2, <1>3 DEF WindowInv, PoolSuffices

LEMMA UnchangedKeepsInv ==
    ASSUME WindowInv, UNCHANGED winVars
    PROVE  WindowInv'
BY DEF WindowInv, winVars, WindowTypeOK, ReadsAccountedFor, Busy, Slots, Reads,
       PoolSuffices, OkMeansAll

-----------------------------------------------------------------------------
LEMMA InitGivesInv == Init => WindowInv
<1> SUFFICES ASSUME Init PROVE WindowInv
  OBVIOUS
<1>1. volume \in Volumes /\ WindowInit(InlinePlan(volume))
  BY DEF Init
<1>2. Len(ops) \in Nat
  BY <1>1 DEF WindowInit, IsPlan, IsList
<1> QED BY <1>1, <1>2, EmptyWindow DEF WindowInit

LEMMA EmptyPlan == Len(<< >>) = 0
OBVIOUS

LEMMA AbandonKeepsInv ==
    ASSUME WindowInv, Abandon
    PROVE  WindowInv'
<1>1. /\ next' = 1 /\ slot' = [s \in Slots |-> Free] /\ pool' = Concurrency
      /\ lost' = {} /\ done' = {} /\ Len(ops') = 0
      /\ reader' \in GaveUp \ {"exhausted"}
  BY EmptyPlan DEF Abandon, WindowInv, PoolSuffices
<1>2. Busy' = {} /\ Cardinality(Busy') = 0
  BY <1>1, FS_EmptySet DEF Busy, Slots
<1>3. WindowTypeOK'
  BY <1>1 DEF WindowTypeOK, Reads, Free, GaveUp, Working, Slots
<1>4. ReadsAccountedFor'
  BY <1>1 DEF ReadsAccountedFor, Slots, Free
<1>5. PoolSuffices' /\ OkMeansAll'
  BY <1>1 DEF PoolSuffices, OkMeansAll, GaveUp
<1> QED BY <1>1, <1>2, <1>3, <1>4, <1>5 DEF WindowInv, GaveUp, Free

LEMMA NextKeepsInv == WindowInv /\ [Next]_vars => WindowInv'
<1> SUFFICES ASSUME WindowInv, [Next]_vars PROVE WindowInv'
  OBVIOUS
<1>1. CASE WindowOnly
  BY <1>1, FillKeepsInv, OtherStepsKeepInv DEF WindowOnly, ReaderStep
<1>2. CASE \E s \in Slots : CompleteRead(s)
  BY <1>2, CompleteKeepsInv DEF CompleteRead
<1>3. CASE ReturnIndex \/ FallBackStep \/ UNCHANGED vars
  <2>1. UNCHANGED winVars
    BY <1>3 DEF ReturnIndex, FallBackStep, ReadMftFile, ReadUnbuffered, FallBackFails, FallBack, vars
  <2> QED BY <2>1, UnchangedKeepsInv
<1>4. CASE Abandon
  BY <1>4, AbandonKeepsInv
<1> QED BY <1>1, <1>2, <1>3, <1>4 DEF Next

LEMMA WindowInvariant == Spec => []WindowInv
BY InitGivesInv, NextKeepsInv, PTL DEF Spec

(***************************************************************************)
(* to_index.rs: every submitted read is in one slot or parsed, never both  *)
(* and never twice, whatever the kernel completes, refuses or stalls.      *)
(***************************************************************************)
THEOREM ReadsAlwaysAccountedFor == Spec => []ReadsAccountedFor
<1>1. WindowInv => ReadsAccountedFor
  BY DEF WindowInv
<1> QED BY <1>1, WindowInvariant, PTL

(***************************************************************************)
(* to_index.rs: an index is only returned when each read of the plan has   *)
(* been parsed into it.                                                    *)
(***************************************************************************)
THEOREM OkAlwaysMeansAll == Spec => []OkMeansAll
<1>1. WindowInv => OkMeansAll
  BY DEF WindowInv
<1> QED BY <1>1, WindowInvariant, PTL

(***************************************************************************)
(* to_index.rs: the two "buffer pool exhausted" errors are never met.      *)
(***************************************************************************)
THEOREM PoolAlwaysSuffices == Spec => []PoolSuffices
<1>1. WindowInv => PoolSuffices
  BY DEF WindowInv
<1> QED BY <1>1, WindowInvariant, PTL

(***************************************************************************)
(* The window's numbers stay in range and every way of reading a volume    *)
(* keeps to the bound on unusable records.                                 *)
(***************************************************************************)
THEOREM TypesAlwaysHold == Spec => []TypeOK
<1> DEFINE Rest == source \in Sources /\ volume \in Volumes /\ Cardinality(gone) <= MaxGone
<1>1. Init => Rest
  <2>1. Cardinality({}) = 0
    BY FS_EmptySet
  <2>2. ASSUME Init PROVE source \in Sources /\ volume \in Volumes /\ gone = {}
    BY <2>2 DEF Init, Sources
  <2>3. ASSUME Init PROVE Cardinality(gone) <= MaxGone
    <3>1. Cardinality(gone) = 0
      BY <2>1, <2>2, <2>3
    <3> QED BY <3>1, ReaderAssumption
  <2> QED BY <2>2, <2>3
<1>2. Rest /\ [Next]_vars => Rest'
  <2> SUFFICES ASSUME Rest, [Next]_vars PROVE Rest'
    OBVIOUS
  <2>1. CASE WindowOnly \/ ReturnIndex \/ FallBackFails \/ UNCHANGED vars
    BY <2>1 DEF WindowOnly, ReturnIndex, FallBackFails, vars, Sources
  <2>2. CASE Abandon
    <3>1. gone' = {} /\ Cardinality(gone') = 0
      BY <2>2, FS_EmptySet DEF Abandon
    <3> QED BY <2>2, <3>1, ReaderAssumption DEF Abandon, Sources
  <2>3. CASE \E s \in Slots : CompleteRead(s)
    <3>1. PICK s \in Slots : CompleteRead(s)
      BY <2>3
    <3>2. PICK torn \in MayTear(volume, ops[slot[s]]) : gone' = gone \union torn
      BY <3>1 DEF CompleteRead
    <3>3. Cardinality(gone \union torn) <= MaxGone
      BY <3>2 DEF MayTear
    <3> QED BY <3>1, <3>2, <3>3 DEF CompleteRead
  <2>4. CASE ReadMftFile \/ ReadUnbuffered
    <3>1. /\ UNCHANGED volume /\ source' \in {"file", "unbuffered"}
          /\ Cardinality(gone') <= MaxGone
      <4>1. ASSUME NEW plan, NEW how, FallBack(plan, how)
            PROVE  UNCHANGED volume /\ source' = how /\ Cardinality(gone') <= MaxGone
        BY <4>1 DEF FallBack
      <4> QED BY <2>4, <4>1 DEF ReadMftFile, ReadUnbuffered
    <3> QED BY <3>1 DEF Sources
  <2> QED BY <2>1, <2>2, <2>3, <2>4 DEF Next, FallBackStep
<1>3. WindowInv /\ Rest => TypeOK
  BY DEF WindowInv, TypeOK
<1> QED BY <1>1, <1>2, <1>3, WindowInvariant, PTL DEF Spec

-----------------------------------------------------------------------------
(* The chains of the index                                                  *)

HIDE ReaderAssumption
HIDE WindowAssumption

(* What the index keeps of names: the chains of a record are sequences, and *)
(* an entry of a child leads to a name that is below the directory.         *)
Listed(s) == \E S : s \in Seq(S)

Chains(r) == {"links", "kids"} \in SUBSET DOMAIN r /\ Listed(r.links) /\ Listed(r.kids)

EntryHolds(x, d, e) ==
  LET links == x[e.child].links
  IN /\ e.child \in DOMAIN x
     /\ e.place \in Nat /\ e.place < Len(links)
     /\ links[Len(links) - e.place].parent = d

Chained(x) ==
  /\ IsFiniteSet(DOMAIN x)
  /\ \A f \in DOMAIN x : Chains(x[f])
  /\ \A f \in DOMAIN x : \A n \in DOMAIN x[f].kids : EntryHolds(x, f, x[f].kids[n])

LEMMA Prepending ==
    ASSUME NEW s, Listed(s), NEW e
    PROVE  LET t == <<e>> \o s IN
           /\ Listed(t) /\ Len(s) \in Nat /\ DOMAIN s = 1 .. Len(s)
           /\ Len(t) = Len(s) + 1 /\ DOMAIN t = 1 .. Len(s) + 1
           /\ t[1] = e /\ \A n \in 1 .. Len(s) : t[n + 1] = s[n]
<1>1. PICK S : s \in Seq(S)
  BY DEF Listed
<1> DEFINE T == S \union {e}
           t == <<e>> \o s
<1>2. s \in Seq(T) /\ <<e>> \in Seq(T) /\ Len(<<e>>) = 1 /\ <<e>>[1] = e
  BY <1>1
<1>3. t \in Seq(T) /\ Len(t) = 1 + Len(s) /\ DOMAIN t = 1 .. 1 + Len(s)
  BY <1>2
<1>4. Len(s) \in Nat /\ DOMAIN s = 1 .. Len(s)
  BY <1>1
<1>5. t[1] = e /\ \A n \in 1 .. Len(s) : t[n + 1] = s[n]
  BY <1>2, <1>4
<1>6. Listed(t)
  BY <1>3 DEF Listed
<1> HIDE DEF t
<1> QED
  BY <1>3, <1>4, <1>5, <1>6 DEF t

(* A step that leaves the chains alone.                                     *)
LEMMA ChainsKept ==
    ASSUME NEW x, NEW y, Chained(x), DOMAIN y = DOMAIN x,
           \A f \in DOMAIN x : /\ {"links", "kids"} \in SUBSET DOMAIN y[f]
                               /\ y[f].links = x[f].links /\ y[f].kids = x[f].kids
    PROVE  Chained(y)
<1>1. \A f \in DOMAIN y : Chains(y[f])
  BY SMTT(20) DEF Chained, Chains
<1>2. ASSUME NEW f \in DOMAIN y, NEW n \in DOMAIN y[f].kids
      PROVE  EntryHolds(y, f, y[f].kids[n])
  <2>1. EntryHolds(x, f, x[f].kids[n]) /\ y[f].kids[n] = x[f].kids[n]
    BY <1>2 DEF Chained
  <2> QED
    BY <2>1 DEF EntryHolds
<1> QED
  BY <1>1, <1>2 DEF Chained

LEMMA EnsureKeepsChains ==
    ASSUME NEW x, Chained(x), NEW p
    PROVE  LET y == EnsureRecord(x, p) IN
           /\ Chained(y) /\ DOMAIN y = DOMAIN x \union {p}
           /\ \A f \in DOMAIN x : y[f] = x[f]
<1> DEFINE y == EnsureRecord(x, p)
<1>1. DOMAIN y = DOMAIN x \union {p}
  BY DEF EnsureRecord
<1>2. \A f \in DOMAIN x : y[f] = x[f]
  BY DEF EnsureRecord
<1>3. p \notin DOMAIN x => y[p] = NewUnified
  BY DEF EnsureRecord
<1> HIDE DEF y
<1>4. IsFiniteSet(DOMAIN y)
  BY <1>1, FS_AddElement DEF Chained
<1>5. /\ {"links", "kids"} \in SUBSET DOMAIN NewUnified
      /\ NewUnified.links = << >> /\ NewUnified.kids = << >>
  BY DEF NewUnified
<1>6. Chains(NewUnified)
  <2>1. << >> \in Seq({})
    OBVIOUS
  <2> QED
    BY <1>5, <2>1 DEF Chains, Listed
<1>7. \A f \in DOMAIN y : Chains(y[f])
  BY SMTT(20), <1>1, <1>2, <1>3, <1>6 DEF Chained
<1>8. ASSUME NEW f \in DOMAIN y, NEW n \in DOMAIN y[f].kids
      PROVE  EntryHolds(y, f, y[f].kids[n])
  <2>1. f \in DOMAIN x
    <3> SUFFICES ASSUME f \notin DOMAIN x PROVE FALSE
      OBVIOUS
    <3>1. y[f].kids = << >>
      BY <1>1, <1>3, <1>5
    <3>2. DOMAIN << >> = {}
      OBVIOUS
    <3> QED
      BY <1>8, <3>1, <3>2
  <2>2. EntryHolds(x, f, x[f].kids[n]) /\ y[f] = x[f]
    BY <1>2, <1>8, <2>1 DEF Chained
  <2> QED
    BY <1>1, <1>2, <2>2 DEF EntryHolds
<1> QED
  BY <1>1, <1>2, <1>4, <1>7, <1>8 DEF Chained, y

LEMMA LinkKeepsChains ==
    ASSUME NEW x, Chained(x), NEW b \in DOMAIN x, NEW link
    PROVE  LET y == [x EXCEPT ![b].links = <<link>> \o @] IN
           /\ Chained(y) /\ DOMAIN y = DOMAIN x
           /\ y[b].links[1] = link /\ Len(y[b].links) = Len(x[b].links) + 1
           /\ Len(x[b].links) \in Nat
<1> DEFINE old == x[b].links
           new == <<link>> \o old
           y == [x EXCEPT ![b].links = new]
<1>1. Chains(x[b]) /\ Listed(old) /\ {"links", "kids"} \in SUBSET DOMAIN x[b]
  BY DEF Chained, Chains
<1>2. /\ Listed(new) /\ Len(old) \in Nat /\ Len(new) = Len(old) + 1
      /\ new[1] = link /\ \A n \in 1 .. Len(old) : new[n + 1] = old[n]
  <2> HIDE DEF old
  <2> QED
    BY <1>1, Prepending
<1>3. /\ DOMAIN y = DOMAIN x
      /\ \A f \in DOMAIN x : f # b => y[f] = x[f]
      /\ y[b].links = new /\ y[b].kids = x[b].kids
      /\ {"links", "kids"} \in SUBSET DOMAIN y[b]
  <2> HIDE DEF new
  <2> QED
    BY <1>1
<1> HIDE DEF y, new, old
<1>4. \A f \in DOMAIN y : Chains(y[f])
  BY <1>1, <1>2, <1>3 DEF Chained, Chains
<1>5. ASSUME NEW f \in DOMAIN y, NEW n \in DOMAIN y[f].kids
      PROVE  EntryHolds(y, f, y[f].kids[n])
  <2> DEFINE e == y[f].kids[n]
  <2>1. f \in DOMAIN x /\ n \in DOMAIN x[f].kids /\ e = x[f].kids[n]
    BY <1>3, <1>5
  <2>2. EntryHolds(x, f, e)
    BY <2>1 DEF Chained
  <2> HIDE DEF e
  <2>3. ASSUME e.child # b PROVE EntryHolds(y, f, e)
    <3>1. e.child \in DOMAIN x
      BY <2>2 DEF EntryHolds
    <3>2. y[e.child] = x[e.child] /\ e.child \in DOMAIN y
      BY <1>3, <2>3, <3>1
    <3> QED
      BY <2>2, <3>2 DEF EntryHolds
  <2>4. ASSUME e.child = b PROVE EntryHolds(y, f, e)
    <3>1. e.place \in Nat /\ e.place < Len(old) /\ old[Len(old) - e.place].parent = f
      BY <2>2, <2>4 DEF EntryHolds, old
    <3>2. \A l, p \in Nat : p < l => l - p \in 1 .. l /\ (l + 1) - p = (l - p) + 1 /\ p < l + 1
      OBVIOUS
    <3>3. /\ Len(old) - e.place \in 1 .. Len(old) /\ e.place < Len(new)
          /\ Len(new) - e.place = (Len(old) - e.place) + 1
      BY <1>2, <3>1, <3>2
    <3>4. new[Len(new) - e.place] = old[Len(old) - e.place]
      BY <1>2, <3>3
    <3>5. new[Len(new) - e.place].parent = f
      BY <3>1, <3>4
    <3>6. y[e.child].links = new /\ e.child \in DOMAIN y
      BY <1>3, <2>4
    <3> QED
      BY <3>1, <3>3, <3>5, <3>6 DEF EntryHolds
  <2>5. EntryHolds(y, f, e)
    BY <2>3, <2>4
  <2> QED
    BY <2>5 DEF e
<1>6. Chained(y)
  BY <1>3, <1>4, <1>5 DEF Chained
<1> QED
  BY <1>2, <1>3, <1>6 DEF y, new, old

LEMMA KidKeepsChains ==
    ASSUME NEW x, Chained(x), NEW p \in DOMAIN x, NEW e, EntryHolds(x, p, e)
    PROVE  LET y == [x EXCEPT ![p].kids = <<e>> \o @] IN
           Chained(y) /\ DOMAIN y = DOMAIN x
<1> DEFINE old == x[p].kids
           new == <<e>> \o old
           y == [x EXCEPT ![p].kids = new]
<1>1. Chains(x[p]) /\ Listed(old) /\ {"links", "kids"} \in SUBSET DOMAIN x[p]
  BY DEF Chained, Chains
<1>2. /\ Listed(new) /\ Len(old) \in Nat /\ DOMAIN old = 1 .. Len(old)
      /\ DOMAIN new = 1 .. Len(old) + 1
      /\ new[1] = e /\ \A n \in 1 .. Len(old) : new[n + 1] = old[n]
  <2> HIDE DEF old
  <2> QED
    BY <1>1, Prepending
<1>3. /\ DOMAIN y = DOMAIN x
      /\ \A f \in DOMAIN x : f # p => y[f] = x[f]
      /\ y[p].kids = new /\ y[p].links = x[p].links
      /\ {"links", "kids"} \in SUBSET DOMAIN y[p]
  <2> HIDE DEF new
  <2> QED
    BY <1>1
<1> HIDE DEF y, new, old
<1>4. \A f \in DOMAIN y : Chains(y[f]) /\ y[f].links = x[f].links
  BY <1>1, <1>2, <1>3 DEF Chained, Chains
<1>5. \A f, k : EntryHolds(x, f, k) => EntryHolds(y, f, k)
  BY <1>3, <1>4 DEF EntryHolds
<1>6. ASSUME NEW f \in DOMAIN y, NEW n \in DOMAIN y[f].kids
      PROVE  EntryHolds(x, f, y[f].kids[n])
  <2>1. CASE f # p
    BY <1>3, <1>6, <2>1 DEF Chained
  <2>2. CASE f = p /\ n = 1
    BY <1>2, <1>3, <2>2
  <2>3. CASE f = p /\ n # 1
    <3>1. n \in 1 .. Len(old) + 1
      BY <1>2, <1>3, <1>6, <2>3
    <3>2. n - 1 \in 1 .. Len(old) /\ (n - 1) + 1 = n
      BY <1>2, <2>3, <3>1
    <3>3. new[n] = old[n - 1] /\ n - 1 \in DOMAIN old
      BY <1>2, <3>2
    <3> QED
      BY <1>3, <2>3, <3>3 DEF Chained, old
  <2> QED
    BY <2>1, <2>2, <2>3
<1>7. Chained(y)
  BY <1>3, <1>4, <1>5, <1>6 DEF Chained
<1> QED
  BY <1>3, <1>7 DEF y, new, old

LEMMA NameKeepsChains ==
    ASSUME NEW x, Chained(x), NEW b \in DOMAIN x, NEW a
    PROVE  LET y == AddName(x, b, a) IN Chained(y) /\ DOMAIN x \in SUBSET DOMAIN y
<1> DEFINE link == [parent |-> a.parent, id |-> a.id]
           named == [x EXCEPT ![b].links = <<link>> \o @]
           parented == EnsureRecord(named, a.parent)
           e == [child |-> b, place |-> Len(x[b].links)]
           y == [parented EXCEPT ![a.parent].kids = <<e>> \o @]
<1>1. AddName(x, b, a) \in {x, named, y}
  BY DEF AddName
<1>2. /\ Chained(named) /\ DOMAIN named = DOMAIN x
      /\ named[b].links[1] = link /\ Len(named[b].links) = Len(x[b].links) + 1
      /\ Len(x[b].links) \in Nat
  <2> HIDE DEF link
  <2> QED
    BY LinkKeepsChains
<1>3. /\ Chained(parented) /\ DOMAIN parented = DOMAIN x \union {a.parent}
      /\ parented[b] = named[b]
  <2>1. \A f \in DOMAIN named : parented[f] = named[f]
    <3> HIDE DEF named
    <3> QED
      BY <1>2, EnsureKeepsChains
  <2>2. Chained(parented) /\ DOMAIN parented = DOMAIN named \union {a.parent}
    <3> HIDE DEF named
    <3> QED
      BY <1>2, EnsureKeepsChains
  <2> HIDE DEF named, parented
  <2> QED
    BY <1>2, <2>1, <2>2
<1>4. EntryHolds(parented, a.parent, e)
  <2>1. link.parent = a.parent /\ e.child = b /\ e.place = Len(x[b].links)
    OBVIOUS
  <2> DEFINE l == Len(x[b].links)
             links == parented[b].links
  <2>2. l \in Nat /\ Len(links) = l + 1 /\ links[1].parent = a.parent
    BY <1>2, <1>3, <2>1
  <2>3. e.place = l /\ b \in DOMAIN parented
    BY <1>3, <2>1
  <2> HIDE DEF l, links, e, parented, link, named
  <2>4. l < l + 1 /\ (l + 1) - l = 1
    BY <2>2
  <2>5. e.place \in Nat /\ e.place < Len(links) /\ links[Len(links) - e.place].parent = a.parent
    BY <2>2, <2>3, <2>4
  <2> QED
    BY <2>1, <2>3, <2>5 DEF EntryHolds, links
<1>5. Chained(y) /\ DOMAIN y = DOMAIN parented
  <2> HIDE DEF parented, e
  <2>1. a.parent \in DOMAIN parented
    BY <1>3
  <2> QED
    BY <1>3, <1>4, <2>1, KidKeepsChains
<1> HIDE DEF named, parented, y
<1>6. QED
  BY <1>1, <1>2, <1>3, <1>5

(* A step that writes another field of a record.                           *)
LEMMA FieldKeepsChains ==
    ASSUME NEW x, Chained(x), NEW b \in DOMAIN x, NEW field,
           field \notin {"links", "kids"}, NEW e
    PROVE  LET y == [x EXCEPT ![b][field] = e] IN Chained(y) /\ DOMAIN y = DOMAIN x
<1> DEFINE y == [x EXCEPT ![b][field] = e]
<1>1. DOMAIN y = DOMAIN x /\ \A f \in DOMAIN x : f # b => y[f] = x[f]
  OBVIOUS
<1>2. y[b] = [x[b] EXCEPT ![field] = e]
  OBVIOUS
<1>3. {"links", "kids"} \in SUBSET DOMAIN x[b]
  BY DEF Chained, Chains
<1> HIDE DEF y
<1>4. /\ {"links", "kids"} \in SUBSET DOMAIN y[b]
      /\ y[b].links = x[b].links /\ y[b].kids = x[b].kids
  BY <1>2, <1>3
<1>5. ASSUME NEW f \in DOMAIN x
      PROVE  /\ {"links", "kids"} \in SUBSET DOMAIN y[f]
             /\ y[f].links = x[f].links /\ y[f].kids = x[f].kids
  <2>1. {"links", "kids"} \in SUBSET DOMAIN x[f]
    BY DEF Chained, Chains
  <2> QED
    BY <1>1, <1>4, <2>1
<1>6. Chained(y)
  BY <1>1, <1>5, ChainsKept
<1> QED
  BY <1>1, <1>6 DEF y

LEMMA SizeKeepsChains ==
    ASSUME NEW x, Chained(x), NEW b \in DOMAIN x, NEW a,
           NEW flag \in {"hasData", "hasI30"}
    PROVE  LET y == AddSize(x, b, a, flag) IN Chained(y) /\ DOMAIN y = DOMAIN x
<1> DEFINE y == AddSize(x, b, a, flag)
           s == {"links", "kids"}
<1>1. DOMAIN y = DOMAIN x /\ \A f \in DOMAIN x : f # b => y[f] = x[f]
  BY DEF AddSize
<1>2. s \in SUBSET DOMAIN x[b]
  BY DEF Chained, Chains
<1>3. DOMAIN y[b] = DOMAIN x[b] /\ y[b].links = x[b].links /\ y[b].kids = x[b].kids
  BY <1>2 DEF AddSize
<1> HIDE DEF y
<1>5. ASSUME NEW f \in DOMAIN x
      PROVE  /\ s \in SUBSET DOMAIN y[f]
             /\ y[f].links = x[f].links /\ y[f].kids = x[f].kids
  <2>1. s \in SUBSET DOMAIN x[f]
    BY DEF Chained, Chains
  <2> QED
    BY <1>1, <1>2, <1>3, <2>1
<1>6. Chained(y)
  BY <1>1, <1>5, ChainsKept
<1> QED
  BY <1>1, <1>6 DEF y

Kinds == {"si", "name", "data", "i30", "ads", "other"}

LEMMA AttributeKeepsChains ==
    ASSUME NEW x, Chained(x), NEW b \in DOMAIN x, NEW dir, NEW a, a.kind \in Kinds
    PROVE  LET y == AddAttribute(x, b, dir, a) IN Chained(y) /\ DOMAIN x \in SUBSET DOMAIN y
<1> DEFINE y == AddAttribute(x, b, dir, a)
<1>1. CASE a.kind = "si"
  <2> DEFINE y1 == [x EXCEPT ![b]["std"] = TRUE]
             y2 == [y1 EXCEPT ![b]["dir"] = dir]
  <2>1. y = y2
    BY <1>1 DEF AddAttribute
  <2>2. Chained(y1) /\ DOMAIN y1 = DOMAIN x
    BY FieldKeepsChains
  <2> HIDE DEF y1
  <2>3. Chained(y2) /\ DOMAIN y2 = DOMAIN x
    BY <2>2, FieldKeepsChains
  <2> QED
    BY <2>1, <2>3
<1>2. CASE a.kind = "name"
  <2>1. y = AddName(x, b, a)
    BY <1>2 DEF AddAttribute
  <2> QED
    BY <2>1, NameKeepsChains
<1>3. CASE a.kind = "data"
  <2>1. y = AddSize(x, b, a, "hasData")
    BY <1>3 DEF AddAttribute
  <2> QED
    BY <2>1, SizeKeepsChains
<1>4. CASE a.kind = "i30"
  <2> DEFINE y1 == AddSize(x, b, a, "hasI30")
             y2 == [y1 EXCEPT ![b]["dir"] = TRUE]
  <2>1. y = y2
    BY <1>4 DEF AddAttribute
  <2>2. Chained(y1) /\ DOMAIN y1 = DOMAIN x
    BY SizeKeepsChains
  <2> HIDE DEF y1
  <2>3. Chained(y2) /\ DOMAIN y2 = DOMAIN x
    BY <2>2, FieldKeepsChains
  <2> QED
    BY <2>1, <2>3
<1>5. CASE a.kind = "ads"
  <2> DEFINE y1 == [x EXCEPT ![b]["ads"] = Append(@, a.id)]
             y2 == [y1 EXCEPT ![b]["streams"] = @ + 1]
             y3 == [y2 EXCEPT ![b]["total"] = @ + 1]
  <2>1. y = y3
    BY ZenonT(40), <1>5 DEF AddAttribute
  <2>2. Chained(y1) /\ DOMAIN y1 = DOMAIN x
    BY FieldKeepsChains
  <2> HIDE DEF y1
  <2>3. Chained(y2) /\ DOMAIN y2 = DOMAIN x
    BY <2>2, FieldKeepsChains
  <2> HIDE DEF y2
  <2>4. Chained(y3) /\ DOMAIN y3 = DOMAIN x
    BY <2>3, FieldKeepsChains
  <2> QED
    BY <2>1, <2>4
<1>6. CASE a.kind = "other"
  <2> DEFINE y1 == [x EXCEPT ![b]["internal"] = Append(@, a.size)]
             y2 == [y1 EXCEPT ![b]["total"] = @ + 1]
  <2>1. y = y2
    BY <1>6 DEF AddAttribute
  <2>2. Chained(y1) /\ DOMAIN y1 = DOMAIN x
    BY FieldKeepsChains
  <2> HIDE DEF y1
  <2>3. Chained(y2) /\ DOMAIN y2 = DOMAIN x
    BY <2>2, FieldKeepsChains
  <2> QED
    BY <2>1, <2>3
<1> QED
  BY <1>1, <1>2, <1>3, <1>4, <1>5, <1>6 DEF Kinds

LEMMA RecordKeepsChains ==
    ASSUME NEW x, Chained(x), NEW frs, NEW seg, IsSegment(seg)
    PROVE  Chained(ProcessRecord(x, frs, seg))
<1> DEFINE b == BaseOf(frs, seg)
           x0 == EnsureRecord(x, b)
           n == Len(seg.attrs)
           ps == Primary(frs, seg)
           parsed == FoldLeft(ProcessAttribute, x0, ps)
<1>1. Chained(x0) /\ b \in DOMAIN x0
  <2> HIDE DEF b
  <2> QED
    BY EnsureKeepsChains
<1>2. /\ n \in Nat /\ DOMAIN ps = 1 .. n
      /\ \A k \in 1 .. n : ps[k].base = b /\ ps[k].attr.kind \in Kinds
  BY DEF IsSegment, IsList, Primary, Kinds
<1> HIDE DEF n, ps, x0, b
<1>3. PICK f : ByAttribute!Steps(f, x0, ps, n) /\ ByAttribute!FoldOf(x0, ps) = f[n]
  BY <1>2, ByAttribute!FoldSteps
<1>4. parsed = f[n]
  <2>1. FoldLeft(ProcessAttribute, x0, ps) = ByAttribute!FoldOf(x0, ps)
    BY DEF FoldLeft, MapThenFoldSet, Max, ByAttribute!FoldOf, ByAttribute!Largest
  <2> QED
    BY <1>3, <2>1
<1> HIDE DEF parsed
<1> DEFINE S == {k \in 0 .. n : Chained(f[k]) /\ b \in DOMAIN f[k]}
<1>5. 0 \in S
  BY <1>1, <1>2, <1>3 DEF ByAttribute!Steps
<1>6. ASSUME NEW k \in 1 .. n, k - 1 \in S PROVE k \in S
  <2> DEFINE y == f[k - 1]
             a == ps[k].attr
             z == AddAttribute(y, b, ps[k].dir, a)
  <2>1. f[k] = z
    BY <1>2, <1>3 DEF ByAttribute!Steps, ProcessAttribute
  <2>2. Chained(y) /\ b \in DOMAIN y /\ a.kind \in Kinds
    BY <1>2, <1>6
  <2>3. Chained(z) /\ DOMAIN y \in SUBSET DOMAIN z
    <3> HIDE DEF y, a
    <3> QED
      BY <2>2, AttributeKeepsChains
  <2>4. k \in 0 .. n
    BY <1>2
  <2> HIDE DEF z, y
  <2> QED
    BY <2>1, <2>2, <2>3, <2>4
<1>7. n \in S
  <2>1. \A k \in 0 .. n : k \in S
    <3> HIDE DEF S
    <3> QED
      BY <1>2, <1>5, <1>6, ByAttribute!UpTo
  <2>2. n \in 0 .. n
    BY <1>2
  <2> HIDE DEF S
  <2> QED
    BY <2>1, <2>2
<1>8. Chained(parsed) /\ b \in DOMAIN parsed
  BY <1>4, <1>7
<1> DEFINE dir == [parsed EXCEPT ![b]["dir"] = TRUE]
<1>9. Chained(dir)
  BY <1>8, FieldKeepsChains
<1>10. ProcessRecord(x, frs, seg) \in {x, dir, parsed}
  BY DEF ProcessRecord, parsed, x0, b, ps
<1> HIDE DEF dir
<1> QED
  BY <1>8, <1>9, <1>10

Readable(s) == Listed(s) /\ IsList(s) /\ \A n \in DOMAIN s : IsSegment(s[n].seg[1])

(* What a read finds it holds.                                              *)
LEMMA FoundAreItems ==
    ASSUME NEW v, NEW op, op.count \in Nat, NEW torn
    PROVE  LET s == Found(v, op, torn)
               item(i) == [frs |-> op.frs + i - 1,
                           seg |-> IF op.frs + i - 1 \in torn THEN << >>
                                   ELSE Segment(v, op.disk + i - 1)]
           IN /\ Listed(s) /\ IsList(s)
              /\ \A k \in DOMAIN s : s[k].seg # << >> /\ \E i \in 1 .. op.count : s[k] = item(i)
<1> DEFINE n == op.count
           item(i) == [frs |-> op.frs + i - 1,
                       seg |-> IF op.frs + i - 1 \in torn THEN << >>
                               ELSE Segment(v, op.disk + i - 1)]
           items == [i \in 1 .. n |-> item(i)]
           S == {r \in {items[i] : i \in 1 .. n} : r.seg # << >>}
<1>1. \A r \in S : r.seg # << >> /\ \E i \in 1 .. op.count : r = item(i)
  OBVIOUS
<1>2. Found(v, op, torn) = FoldLeft(KeepReadable, << >>, items)
  BY DEF Found
<1>3. n \in Nat /\ DOMAIN items = 1 .. n
  OBVIOUS
<1> HIDE DEF n, item
<1>4. \A k \in 1 .. n : items[k].seg # << >> => items[k] \in S
  OBVIOUS
<1> HIDE DEF items, S
<1>5. PICK f : ByFound!Steps(f, << >>, items, n) /\ ByFound!FoldOf(<< >>, items) = f[n]
  BY <1>3, ByFound!FoldSteps
<1>6. Found(v, op, torn) = f[n]
  <2>1. FoldLeft(KeepReadable, << >>, items) = ByFound!FoldOf(<< >>, items)
    BY DEF FoldLeft, MapThenFoldSet, Max, ByFound!FoldOf, ByFound!Largest
  <2> QED
    BY <1>2, <1>5, <2>1
<1> DEFINE T == {k \in 0 .. n : f[k] \in Seq(S)}
<1>7. 0 \in T
  <2>1. f[0] = << >> /\ << >> \in Seq(S)
    BY <1>5 DEF ByFound!Steps
  <2>2. 0 \in 0 .. n
    BY <1>3
  <2> QED
    BY <2>1, <2>2
<1>8. ASSUME NEW k \in 1 .. n, k - 1 \in T PROVE k \in T
  <2>1. f[k] = KeepReadable(f[k - 1], items[k]) /\ f[k - 1] \in Seq(S)
    BY <1>5, <1>8 DEF ByFound!Steps
  <2>2. f[k] \in Seq(S)
    <3>1. CASE items[k].seg = << >>
      BY <2>1, <3>1 DEF KeepReadable
    <3>2. CASE items[k].seg # << >>
      <4>1. f[k] = Append(f[k - 1], items[k]) /\ items[k] \in S
        BY <1>4, <2>1, <3>2 DEF KeepReadable
      <4> QED
        BY <2>1, <4>1
    <3> QED
      BY <3>1, <3>2
  <2>3. k \in 0 .. n
    BY <1>3
  <2> QED
    BY <2>2, <2>3
<1>9. n \in T
  <2>1. \A k \in 0 .. n : k \in T
    <3> HIDE DEF T
    <3> QED
      BY <1>3, <1>7, <1>8, ByFound!UpTo
  <2>2. n \in 0 .. n
    BY <1>3
  <2> HIDE DEF T
  <2> QED
    BY <2>1, <2>2
<1>10. f[n] \in Seq(S)
  BY <1>9
<1>11. Listed(f[n]) /\ IsList(f[n]) /\ \A k \in DOMAIN f[n] : f[n][k] \in S
  BY <1>10 DEF IsList, Listed
<1>12. \A k \in DOMAIN f[n] : f[n][k].seg # << >> /\ \E i \in 1 .. op.count : f[n][k] = item(i)
  BY <1>1, <1>11
<1> QED
  BY <1>6, <1>11, <1>12 DEF item

LEMMA FoundIsReadable ==
    ASSUME NEW v \in Volumes, NEW op, op.count \in Nat, NEW torn
    PROVE  Readable(Found(v, op, torn))
<1> DEFINE s == Found(v, op, torn)
<1>1. Listed(s) /\ IsList(s)
  BY FoundAreItems
<1>2. ASSUME NEW k \in DOMAIN s PROVE IsSegment(s[k].seg[1])
  <2>1. PICK i \in 1 .. op.count :
          s[k].seg # << >> /\ s[k].seg \in {<< >>, Segment(v, op.disk + i - 1)}
    BY FoundAreItems
  <2>2. PICK p \in DOMAIN v.disk : s[k].seg = <<v.disk[p]>>
    BY <2>1 DEF Segment
  <2>3. s[k].seg[1] = v.disk[p]
    BY <2>2
  <2> QED
    BY <2>3, ReaderAssumption
<1> QED
  BY <1>1, <1>2 DEF Readable

LEMMA ReadKeepsChains ==
    ASSUME NEW x, Chained(x), NEW s, Readable(s)
    PROVE  Chained(FoldLeft(ProcessFound, x, s))
<1> DEFINE n == Len(s)
<1>1. n \in Nat /\ DOMAIN s = 1 .. n /\ \A k \in 1 .. n : IsSegment(s[k].seg[1])
  BY DEF Readable, IsList
<1> HIDE DEF n
<1>2. PICK f : ByRecord!Steps(f, x, s, n) /\ ByRecord!FoldOf(x, s) = f[n]
  BY <1>1, ByRecord!FoldSteps
<1>3. FoldLeft(ProcessFound, x, s) = f[n]
  <2>1. FoldLeft(ProcessFound, x, s) = ByRecord!FoldOf(x, s)
    BY DEF FoldLeft, MapThenFoldSet, Max, ByRecord!FoldOf, ByRecord!Largest
  <2> QED
    BY <1>2, <2>1
<1> DEFINE S == {k \in 0 .. n : Chained(f[k])}
<1>4. 0 \in S
  BY <1>1, <1>2 DEF ByRecord!Steps
<1>5. ASSUME NEW k \in 1 .. n, k - 1 \in S PROVE k \in S
  <2>1. f[k] = ProcessRecord(f[k - 1], s[k].frs, s[k].seg[1])
    BY <1>2 DEF ByRecord!Steps, ProcessFound
  <2>2. Chained(f[k - 1]) /\ IsSegment(s[k].seg[1])
    BY <1>1, <1>5
  <2>3. Chained(f[k])
    BY <2>1, <2>2, RecordKeepsChains
  <2>4. k \in 0 .. n
    BY <1>1
  <2> QED
    BY <2>3, <2>4
<1>6. n \in S
  <2>1. \A k \in 0 .. n : k \in S
    <3> HIDE DEF S
    <3> QED
      BY <1>1, <1>4, <1>5, ByRecord!UpTo
  <2>2. n \in 0 .. n
    BY <1>1
  <2> HIDE DEF S
  <2> QED
    BY <2>1, <2>2
<1> QED
  BY <1>3, <1>6

LEMMA EmptyIsChained == Chained(<< >>)
<1>1. DOMAIN << >> = {}
  OBVIOUS
<1> QED
  BY <1>1, FS_EmptySet DEF Chained

-----------------------------------------------------------------------------
(* The records a fallback collects                                          *)

LEMMA ImageFinite ==
    ASSUME NEW S, IsFiniteSet(S), NEW f
    PROVE  IsFiniteSet({f[x] : x \in S})
<1> DEFINE T == {f[x] : x \in S}
           g == [x \in S |-> f[x]]
<1>1. g \in Surjection(S, T)
  BY DEF Surjection
<1> HIDE DEF g, T
<1>2. IsFiniteSet(T)
  BY <1>1, FS_Surjection
<1> QED
  BY <1>2 DEF T

LEMMA MergedFinite ==
    ASSUME NEW results, IsFiniteSet(DOMAIN results)
    PROVE  IsFiniteSet(DOMAIN FromParsedRecords(InsertMissingParents(MergeResults(results))))
<1> DEFINE bases == {i \in DOMAIN results :
                       /\ results[i].base = results[i].frs
                       /\ \A j \in DOMAIN results :
                            results[j].frs = results[i].frs => j <= i}
           extsOf(b) == SelectSeq(results, LAMBDA r : r.base = b /\ r.frs # b)
           one(i) == MergedRecord(results[i], extsOf(results[i].frs))
           merged == {one(i) : i \in bases}
           kept == {r \in merged : r.primary # << >>}
           known == {r.frs : r \in kept}
           wanted == {r.primary[1].parent : r \in kept}
           missing == wanted \ (known \union {0, Root})
           made == {Placeholder(frs) : frs \in missing}
           all == kept \union made
<1>1. MergeResults(results) = kept
  BY DEF MergeResults
<1>2. InsertMissingParents(kept) = all
  BY SMTT(20) DEF InsertMissingParents
<1>3. DOMAIN FromParsedRecords(all) = {r.frs : r \in all}
  BY DEF FromParsedRecords
<1>4. IsFiniteSet(bases)
  <2>1. bases \in SUBSET DOMAIN results
    OBVIOUS
  <2> HIDE DEF bases
  <2> QED
    BY <2>1, FS_Subset
<1> HIDE DEF bases, one
<1>5. IsFiniteSet(merged)
  <2> DEFINE f == [i \in bases |-> one(i)]
  <2>1. merged = {f[i] : i \in bases}
    OBVIOUS
  <2> HIDE DEF f, merged
  <2> QED
    BY <1>4, <2>1, ImageFinite
<1>6. IsFiniteSet(kept)
  <2>1. kept \in SUBSET merged
    OBVIOUS
  <2> HIDE DEF kept, merged
  <2> QED
    BY <1>5, <2>1, FS_Subset
<1> HIDE DEF kept
<1>7. IsFiniteSet(wanted)
  <2> DEFINE f == [r \in kept |-> r.primary[1].parent]
  <2>1. wanted = {f[r] : r \in kept}
    OBVIOUS
  <2> HIDE DEF f, wanted
  <2> QED
    BY <1>6, <2>1, ImageFinite
<1>8. IsFiniteSet(missing)
  <2>1. missing \in SUBSET wanted
    OBVIOUS
  <2> HIDE DEF missing, wanted
  <2> QED
    BY <1>7, <2>1, FS_Subset
<1> HIDE DEF missing
<1>9. IsFiniteSet(made)
  <2> DEFINE f == [frs \in missing |-> Placeholder(frs)]
  <2>1. made = {f[frs] : frs \in missing}
    OBVIOUS
  <2> HIDE DEF f, made
  <2> QED
    BY <1>8, <2>1, ImageFinite
<1> HIDE DEF made
<1>10. IsFiniteSet(all)
  BY <1>6, <1>9, FS_Union
<1> HIDE DEF all
<1>11. IsFiniteSet({r.frs : r \in all})
  <2> DEFINE f == [r \in all |-> r.frs]
  <2>1. {r.frs : r \in all} = {f[r] : r \in all}
    OBVIOUS
  <2> HIDE DEF f
  <2> QED
    BY <1>10, <2>1, ImageFinite
<1> QED
  BY <1>1, <1>2, <1>3, <1>11
(* What is collected in order: a list, and so a finite number of records.   *)
LEMMA CollectedFinite ==
    ASSUME NEW n \in Nat, NEW s, DOMAIN s = 1 .. n
    PROVE  IsFiniteSet(DOMAIN FromParsedRecords(InsertMissingParents(Collected(s))))
<1> DEFINE S == {ParseRecordFull(s[i].frs, s[i].seg[1]) : i \in 1 .. n}
           results == FoldLeft(KeepParsed, << >>, s)
<1>1. PICK f : ByParsed!Steps(f, << >>, s, n) /\ ByParsed!FoldOf(<< >>, s) = f[n]
  BY ByParsed!FoldSteps
<1>2. results = f[n]
  <2>1. FoldLeft(KeepParsed, << >>, s) = ByParsed!FoldOf(<< >>, s)
    BY DEF FoldLeft, MapThenFoldSet, Max, ByParsed!FoldOf, ByParsed!Largest
  <2> QED
    BY <1>1, <2>1
<1>3. \A k \in 1 .. n : f[k] = f[k - 1] \/ \E e \in S : f[k] = Append(f[k - 1], e)
  BY <1>1 DEF ByParsed!Steps, KeepParsed
<1>4. f[0] = << >>
  BY <1>1 DEF ByParsed!Steps
<1>5. Collected(s) = MergeResults(results)
  BY DEF Collected
<1> HIDE DEF S, results
<1> DEFINE T == {k \in 0 .. n : f[k] \in Seq(S)}
<1>6. 0 \in T
  <2>1. f[0] \in Seq(S)
    BY <1>4
  <2>2. 0 \in 0 .. n
    OBVIOUS
  <2> QED
    BY <2>1, <2>2
<1>7. ASSUME NEW k \in 1 .. n, k - 1 \in T PROVE k \in T
  <2>1. k \in 0 .. n /\ f[k - 1] \in Seq(S)
    BY <1>7
  <2>2. CASE f[k] = f[k - 1]
    BY <2>1, <2>2
  <2>3. CASE \E e \in S : f[k] = Append(f[k - 1], e)
    <3>1. PICK e \in S : f[k] = Append(f[k - 1], e)
      BY <2>3
    <3>2. f[k] \in Seq(S)
      BY <2>1, <3>1
    <3> QED
      BY <2>1, <3>2
  <2> QED
    BY <1>3, <2>2, <2>3
<1>8. \A k \in 0 .. n : k \in T
  <2> HIDE DEF T
  <2> QED
    BY <1>6, <1>7, ByParsed!UpTo
<1>9. results \in Seq(S)
  BY <1>2, <1>8
<1>10. Len(results) \in Nat /\ DOMAIN results = 1 .. Len(results)
  BY <1>9
<1>11. IsFiniteSet(DOMAIN results)
  BY <1>10, FirstNumbers
<1> QED
  BY <1>5, <1>11, MergedFinite

LEMMA PlanCollectedFinite ==
    ASSUME NEW v \in Volumes, NEW plan, IsPlan(plan), NEW torn
    PROVE  IsFiniteSet(DOMAIN FromParsedRecords(InsertMissingParents(Collected(
             FlattenSeq([i \in DOMAIN plan |-> Found(v, plan[i], torn)])))))
<1> DEFINE n == Len(plan)
           ss == [i \in 1 .. n |-> Found(v, plan[i], torn)]
           S == UNION {{Found(v, plan[i], torn)[j] : j \in DOMAIN Found(v, plan[i], torn)} : i \in 1 .. n}
           s == FlattenSeq(ss)
<1>1. n \in Nat /\ DOMAIN plan = 1 .. n /\ \A i \in 1 .. n : plan[i].count \in Nat
  BY DEF IsPlan, IsList
<1>2. \A i \in 1 .. n : Found(v, plan[i], torn) \in Seq(S)
  <2> SUFFICES ASSUME NEW i \in 1 .. n PROVE Found(v, plan[i], torn) \in Seq(S)
    OBVIOUS
  <2> DEFINE t == Found(v, plan[i], torn)
  <2>1. \E Q : t \in Seq(Q)
    BY <1>1, FoundIsReadable DEF Readable, Listed
  <2>2. \A j \in DOMAIN t : t[j] \in S
    OBVIOUS
  <2> HIDE DEF t, S
  <2>3. t \in Seq(S)
    BY <2>1, <2>2
  <2> QED
    BY <2>3 DEF t
<1> HIDE DEF n, S
<1>3. ss \in [1 .. n -> Seq(S)]
  BY <1>2
<1>4. s \in Seq(S)
  <2> HIDE DEF ss
  <2>1. ByParsed!Flattened(ss) \in Seq(S)
    BY <1>1, <1>3, ByParsed!FlattenIsSeq
  <2>2. ByParsed!Flattened(ss) = FlattenSeq(ss)
    BY DEF ByParsed!Flattened, FlattenSeq
  <2> QED
    BY <2>1, <2>2
<1>5. Len(s) \in Nat /\ DOMAIN s = 1 .. Len(s)
  <2> HIDE DEF s
  <2> QED
    BY <1>4
<1>6. s = FlattenSeq([i \in DOMAIN plan |-> Found(v, plan[i], torn)])
  BY <1>1
<1> HIDE DEF s
<1>7. IsFiniteSet(DOMAIN FromParsedRecords(InsertMissingParents(Collected(s))))
  BY <1>5, CollectedFinite
<1> QED
  BY <1>6, <1>7

-----------------------------------------------------------------------------
(* The rows                                                                 *)

(* The rounds in which the rows are added: g[k] are the rows after k.       *)
Rounds(g, x, n) == g[0] = {Root} /\ \A k \in 1 .. n : g[k] = Round(g[k - 1], x)

LEMMA DraftsFinite ==
    ASSUME NEW x, IsFiniteSet(DOMAIN x)
    PROVE  /\ IsFiniteSet(Drafts(x)) /\ Cardinality(Drafts(x)) \in Nat \ {0}
           /\ Root \in Drafts(x)
<1>1. Drafts(x) \in SUBSET (DOMAIN x \union {Root}) /\ Root \in Drafts(x)
  BY DEF Drafts
<1>2. IsFiniteSet(DOMAIN x \union {Root})
  BY FS_AddElement
<1>3. IsFiniteSet(Drafts(x))
  BY <1>1, <1>2, FS_Subset
<1>4. Cardinality(Drafts(x)) \in Nat
  BY <1>3, FS_CardinalityType
<1>5. Cardinality(Drafts(x)) # 0
  BY <1>1, <1>3, FS_EmptySet
<1> QED
  BY <1>1, <1>3, <1>4, <1>5

LEMMA RoundsExist ==
    ASSUME NEW x, IsFiniteSet(DOMAIN x)
    PROVE  LET n == Cardinality(Drafts(x)) IN
           \E g : Rounds(g, x, n) /\ Anchored(x) = g[n]
<1> DEFINE n == Cardinality(Drafts(x))
           xs == [i \in 1 .. n |-> x]
<1>1. n \in Nat /\ DOMAIN xs = 1 .. n /\ \A k \in 1 .. n : xs[k] = x
  BY DraftsFinite
<1>2. Anchored(x) = FoldLeft(Round, {Root}, xs)
  BY DEF Anchored
<1> HIDE DEF n, xs
<1>3. PICK g : ByRound!Steps(g, {Root}, xs, n) /\ ByRound!FoldOf({Root}, xs) = g[n]
  BY <1>1, ByRound!FoldSteps
<1>4. FoldLeft(Round, {Root}, xs) = ByRound!FoldOf({Root}, xs)
  BY DEF FoldLeft, MapThenFoldSet, Max, ByRound!FoldOf, ByRound!Largest
<1>5. g[0] = {Root} /\ \A k \in 1 .. n : g[k] = Round(g[k - 1], x)
  BY <1>1, <1>3 DEF ByRound!Steps
<1>6. Rounds(g, x, n) /\ Anchored(x) = g[n]
  BY <1>2, <1>3, <1>4, <1>5 DEF Rounds
<1> QED
  BY <1>6 DEF n

(* A row that is there after k rounds was there after fewer, or is on top,  *)
(* or its parent was there a round earlier.                                 *)
LEMMA RoundsGrow ==
    ASSUME NEW x, NEW n \in Nat, NEW g, Rounds(g, x, n), Root \in Drafts(x)
    PROVE  \A k \in 0 .. n :
             /\ g[k] \in SUBSET Drafts(x) /\ Root \in g[k]
             /\ \A j \in 0 .. k : g[j] \in SUBSET g[k]
             /\ \A f \in g[k] : TopLevel(x, f) \/ (k > 0 /\ ParentOf(x, f) \in g[k - 1])
<1> DEFINE Grown(k) ==
             /\ g[k] \in SUBSET Drafts(x) /\ Root \in g[k]
             /\ \A j \in 0 .. k : g[j] \in SUBSET g[k]
             /\ \A f \in g[k] : TopLevel(x, f) \/ (k > 0 /\ ParentOf(x, f) \in g[k - 1])
           S == {k \in 0 .. n : Grown(k)}
<1>1. Grown(0)
  <2>1. TopLevel(x, Root)
    BY DEF TopLevel, ParentOf
  <2>2. \A j \in 0 .. 0 : j = 0
    OBVIOUS
  <2> QED
    BY <2>1, <2>2 DEF Rounds
<1>2. ASSUME NEW k \in 1 .. n, Grown(k - 1) PROVE Grown(k)
  <2> DEFINE old == g[k - 1]
             new == {f \in Drafts(x) : TopLevel(x, f) \/ ParentOf(x, f) \in old}
  <2>1. g[k] = old \union new
    BY DEF Rounds, Round
  <2>2. k > 0 /\ \A j \in 0 .. k : j = k \/ j \in 0 .. k - 1
    OBVIOUS
  <2>3. g[k] \in SUBSET Drafts(x) /\ Root \in g[k] /\ \A j \in 0 .. k : g[j] \in SUBSET g[k]
    BY <1>2, <2>1, <2>2
  <2>4. ASSUME NEW f \in old PROVE TopLevel(x, f) \/ ParentOf(x, f) \in old
    <3>1. CASE k - 1 > 0
      <4>1. (k - 1) - 1 \in 0 .. k - 1
        BY <3>1
      <4>2. g[(k - 1) - 1] \in SUBSET old
        BY <1>2, <4>1
      <4> QED
        BY <1>2, <2>4, <4>2
    <3>2. CASE ~ (k - 1 > 0)
      BY <1>2, <2>4, <3>2
    <3> QED
      BY <3>1, <3>2
  <2>5. \A f \in g[k] : TopLevel(x, f) \/ (k > 0 /\ ParentOf(x, f) \in old)
    BY <2>1, <2>2, <2>4
  <2> QED
    BY <2>3, <2>5
<1> HIDE DEF Grown
<1>3. 0 \in S
  BY <1>1
<1>4. ASSUME NEW k \in 1 .. n, k - 1 \in S PROVE k \in S
  <2>1. k \in 0 .. n
    OBVIOUS
  <2> QED
    BY <1>2, <1>4, <2>1
<1>5. \A k \in 0 .. n : k \in S
  <2> HIDE DEF S
  <2> QED
    BY <1>3, <1>4, ByRound!UpTo
<1>6. \A k \in 0 .. n : Grown(k)
  BY <1>5
<1> QED
  BY <1>6 DEF Grown

(* Before the last round there is one that added nothing more.              *)
LEMMA RoundsEnd ==
    ASSUME NEW x, IsFiniteSet(DOMAIN x), NEW g, Rounds(g, x, Cardinality(Drafts(x)))
    PROVE  LET n == Cardinality(Drafts(x)) IN \E m \in 0 .. n - 1 : g[m] = g[n]
<1> DEFINE D == Drafts(x)
           n == Cardinality(D)
<1>1. IsFiniteSet(D) /\ n \in Nat \ {0} /\ Root \in D
  BY DraftsFinite
<1>2. Rounds(g, x, n)
  OBVIOUS
<1> HIDE DEF n
<1>3. /\ \A k \in 0 .. n : g[k] \in SUBSET D
      /\ \A k \in 1 .. n : g[k - 1] \in SUBSET g[k]
  <2>1. \A k \in 1 .. n : k \in 0 .. n /\ k - 1 \in 0 .. k
    OBVIOUS
  <2> QED
    BY <1>1, <1>2, <2>1, RoundsGrow
<1> HIDE DEF D
<1>4. \A k \in 0 .. n : IsFiniteSet(g[k]) /\ Cardinality(g[k]) \in Nat
  <2>1. \A k \in 0 .. n : IsFiniteSet(g[k])
    BY <1>1, <1>3, FS_Subset
  <2> QED
    BY <2>1, FS_CardinalityType
<1> DEFINE Same(k) == \E m \in 0 .. n - 1 : m < k /\ g[m] = g[k]
           S == {k \in 0 .. n : Same(k) \/ Cardinality(g[k]) >= k + 1}
<1>5. 0 \in S
  <2>1. Cardinality(g[0]) = 1
    BY <1>2, FS_Singleton DEF Rounds
  <2> QED
    BY <1>1, <2>1
<1>6. ASSUME NEW k \in 1 .. n, k - 1 \in S PROVE k \in S
  <2>1. k \in 0 .. n /\ k - 1 \in 0 .. n - 1 /\ k - 1 \in 0 .. n /\ k - 1 < k
    BY <1>1
  <2>2. g[k] = Round(g[k - 1], x)
    BY <1>2 DEF Rounds
  <2>3. CASE Same(k - 1)
    <3>1. PICK m \in 0 .. n - 1 : m < k - 1 /\ g[m] = g[k - 1]
      BY <2>3
    <3>2. m + 1 \in 1 .. n /\ m + 1 < k /\ m + 1 \in 0 .. n - 1 /\ (m + 1) - 1 = m
      BY <1>1, <3>1
    <3>3. g[m + 1] = Round(g[m], x)
      BY <1>2, <3>2 DEF Rounds
    <3>4. Same(k)
      BY <2>2, <3>1, <3>2, <3>3
    <3> QED
      BY <2>1, <3>4
  <2>4. CASE g[k] = g[k - 1]
    <3>1. Same(k)
      BY <2>1, <2>4
    <3> QED
      BY <2>1, <3>1
  <2>5. CASE Cardinality(g[k - 1]) >= (k - 1) + 1 /\ g[k] # g[k - 1]
    <3>1. g[k - 1] \in SUBSET g[k] /\ IsFiniteSet(g[k])
      BY <1>3, <1>4, <2>1
    <3>2. Cardinality(g[k - 1]) <= Cardinality(g[k])
            /\ (Cardinality(g[k]) = Cardinality(g[k - 1]) => g[k] = g[k - 1])
      BY <3>1, FS_Subset
    <3>3. Cardinality(g[k]) >= k + 1
      BY <1>4, <2>1, <2>5, <3>2
    <3> QED
      BY <2>1, <3>3
  <2> HIDE DEF Same
  <2> QED
    BY <1>6, <2>3, <2>4, <2>5
<1>7. n \in S
  <2>1. \A k \in 0 .. n : k \in S
    <3> HIDE DEF S
    <3> QED
      BY <1>1, <1>5, <1>6, ByRound!UpTo
  <2>2. n \in 0 .. n
    BY <1>1
  <2> HIDE DEF S
  <2> QED
    BY <2>1, <2>2
<1>8. ~ (Cardinality(g[n]) >= n + 1)
  <2>1. g[n] \in SUBSET D
    BY <1>1, <1>3
  <2>2. Cardinality(g[n]) <= Cardinality(D)
    BY <1>1, <2>1, FS_Subset
  <2>3. Cardinality(g[n]) <= n /\ Cardinality(g[n]) \in Nat
    BY <1>1, <1>4, <2>2 DEF n
  <2> QED
    BY <1>1, <2>3
<1>9. Same(n)
  BY <1>7, <1>8
<1> QED
  BY <1>9 DEF n, D

LEMMA RowsReach ==
    ASSUME NEW x, IsFiniteSet(DOMAIN x)
    PROVE  LET rows == BuildRows(x)
               steps == [i \in 1 .. Cardinality(DOMAIN rows) |-> rows] IN
           \A frs \in DOMAIN rows :
             /\ rows[frs].parent \in DOMAIN rows \union {NoParent}
             /\ FoldLeft(Above, frs, steps) = NoParent
<1> DEFINE D == Drafts(x)
           n == Cardinality(D)
           rows == BuildRows(x)
           steps == [i \in 1 .. n |-> rows]
<1>1. n \in Nat \ {0} /\ Root \in D /\ IsFiniteSet(D)
  BY DraftsFinite
<1>2. PICK g : Rounds(g, x, n) /\ Anchored(x) = g[n]
  BY RoundsExist
<1>3. PICK m \in 0 .. n - 1 : g[m] = g[n]
  BY <1>2, RoundsEnd
<1>4. /\ DOMAIN rows = D
      /\ \A f \in D : rows[f].parent = IF TopLevel(x, f) THEN NoParent
                                       ELSE IF f \in g[n] THEN ParentOf(x, f) ELSE Root
  BY <1>2 DEF BuildRows
<1>5. DOMAIN steps = 1 .. n /\ \A k \in 1 .. n : steps[k] = rows
  OBVIOUS
<1> HIDE DEF rows, steps, n
<1>6. ASSUME NEW k \in 0 .. m
      PROVE  /\ g[k] \in SUBSET D /\ g[k] \in SUBSET g[n]
             /\ \A f \in g[k] : \/ rows[f].parent = NoParent
                                \/ k > 0 /\ rows[f].parent \in g[k - 1]
  <2>1. k \in 0 .. n /\ n \in 0 .. n
    BY <1>1, <1>3
  <2>2. /\ g[k] \in SUBSET D
        /\ \A f \in g[k] : TopLevel(x, f) \/ (k > 0 /\ ParentOf(x, f) \in g[k - 1])
    BY <1>1, <1>2, <2>1, RoundsGrow
  <2>3. g[k] \in SUBSET g[n]
    BY <1>1, <1>2, <2>1, RoundsGrow
  <2> HIDE DEF D
  <2> QED
    BY <1>4, <2>2, <2>3
<1>7. rows[Root].parent = NoParent
  BY <1>1, <1>4 DEF TopLevel, ParentOf
<1>8. ASSUME NEW f \in D PROVE rows[f].parent \in D \union {NoParent}
  <2>1. CASE f \in g[n] /\ ~ TopLevel(x, f)
    <3>1. f \in g[m] /\ m \in 0 .. m
      BY <1>3, <2>1
    <3>2. rows[f].parent = NoParent \/ (m > 0 /\ rows[f].parent \in g[m - 1])
      BY <1>6, <3>1
    <3>3. m > 0 => m - 1 \in 0 .. m
      BY <1>3
    <3> QED
      BY <1>6, <3>2, <3>3
  <2>2. CASE f \notin g[n] \/ TopLevel(x, f)
    BY <1>1, <1>4, <2>2
  <2> QED
    BY <2>1, <2>2
<1>9. ASSUME NEW f \in D PROVE FoldLeft(Above, f, steps) = NoParent
  <2>1. PICK h : ByStep!Steps(h, f, steps, n) /\ ByStep!FoldOf(f, steps) = h[n]
    BY <1>1, <1>5, ByStep!FoldSteps
  <2>2. FoldLeft(Above, f, steps) = ByStep!FoldOf(f, steps)
    BY DEF FoldLeft, MapThenFoldSet, Max, ByStep!FoldOf, ByStep!Largest
  <2>3. /\ h[0] = f
        /\ \A k \in 1 .. n : h[k] = IF h[k - 1] = NoParent THEN h[k - 1]
                                    ELSE rows[h[k - 1]].parent
    BY <1>5, <2>1 DEF ByStep!Steps, Above
  <2>4. h[n] = NoParent
    <3>1. CASE f \in g[n]
      <4> DEFINE Climbs(k) == h[k] = NoParent \/ (k <= m /\ h[k] \in g[m - k])
                 S == {k \in 0 .. n : Climbs(k)}
      <4>1. 0 \in S
        <5>1. m - 0 = m /\ 0 <= m /\ 0 \in 0 .. n
          BY <1>1, <1>3
        <5> QED
          BY <1>3, <2>3, <3>1, <5>1
      <4>2. ASSUME NEW k \in 1 .. n, k - 1 \in S PROVE k \in S
        <5>1. k \in 0 .. n /\ Climbs(k - 1)
          BY <1>1, <4>2
        <5>2. CASE h[k - 1] = NoParent
          BY <2>3, <5>1, <5>2
        <5>3. CASE h[k - 1] # NoParent
          <6>1. k - 1 <= m /\ h[k - 1] \in g[m - (k - 1)] /\ h[k] = rows[h[k - 1]].parent
            BY <2>3, <5>1, <5>3
          <6>2. /\ m - (k - 1) \in 0 .. m /\ (m - (k - 1)) - 1 = m - k
                /\ (m - (k - 1) > 0 => k <= m)
            BY <1>1, <1>3, <6>1
          <6>3. \/ h[k] = NoParent
                \/ m - (k - 1) > 0 /\ h[k] \in g[(m - (k - 1)) - 1]
            BY <1>6, <6>1, <6>2
          <6> QED
            BY <5>1, <6>2, <6>3
        <5> QED
          BY <5>2, <5>3
      <4>3. \A k \in 0 .. n : k \in S
        <5> HIDE DEF S
        <5> QED
          BY <1>1, <4>1, <4>2, ByStep!UpTo
      <4>4. n \in 0 .. n /\ ~ (n <= m)
        BY <1>1, <1>3
      <4> QED
        BY <4>3, <4>4
    <3>2. CASE f \notin g[n]
      <4>1. Root \in g[n]
        <5>1. n \in 0 .. n
          BY <1>1
        <5> QED
          BY <1>1, <1>2, <5>1, RoundsGrow
      <4>2. n >= 2
        <5>1. {f, Root} \in SUBSET D /\ f # Root
          BY <1>1, <3>2, <4>1
        <5>2. IsFiniteSet({f, Root}) /\ Cardinality({f, Root}) = 2
          <6>1. IsFiniteSet({Root}) /\ Cardinality({Root}) = 1 /\ f \notin {Root}
            BY <5>1, FS_Singleton
          <6>2. {f, Root} = {Root} \union {f}
            OBVIOUS
          <6>3. IsFiniteSet({Root} \union {f}) /\ Cardinality({Root} \union {f}) = 1 + 1
            BY <6>1, FS_AddElement
          <6> QED
            BY <6>2, <6>3
        <5>3. Cardinality({f, Root}) <= Cardinality(D)
          BY <1>1, <5>1, FS_Subset
        <5> QED
          BY <1>1, <5>2, <5>3 DEF n
      <4> DEFINE Climbs(k) == h[k] = NoParent \/ (k = 0 /\ h[k] = f) \/ (k = 1 /\ h[k] = Root)
                 S == {k \in 0 .. n : Climbs(k)}
      <4>3. 0 \in S
        BY <1>1, <2>3
      <4>4. ASSUME NEW k \in 1 .. n, k - 1 \in S PROVE k \in S
        <5>1. k \in 0 .. n /\ Climbs(k - 1)
          BY <1>1, <4>4
        <5>2. rows[f].parent \in {NoParent, Root}
          BY <1>4, <3>2
        <5>3. CASE h[k - 1] = NoParent
          BY <2>3, <5>1, <5>3
        <5>4. CASE h[k - 1] # NoParent /\ k - 1 = 0
          <6>1. k = 1 /\ h[k] = rows[f].parent
            BY <2>3, <5>1, <5>4
          <6> QED
            BY <5>1, <5>2, <6>1
        <5>5. CASE h[k - 1] # NoParent /\ k - 1 # 0
          <6>1. h[k - 1] = Root
            BY <5>1, <5>5
          <6>2. h[k] = NoParent
            BY <1>7, <2>3, <5>5, <6>1
          <6> QED
            BY <5>1, <6>2
        <5> QED
          BY <5>3, <5>4, <5>5
      <4>5. \A k \in 0 .. n : k \in S
        <5> HIDE DEF S
        <5> QED
          BY <1>1, <4>3, <4>4, ByStep!UpTo
      <4>6. n \in 0 .. n /\ n # 0 /\ n # 1
        BY <1>1, <4>2
      <4> QED
        BY <4>5, <4>6
    <3> QED
      BY <3>1, <3>2
  <2> QED
    BY <2>1, <2>2, <2>4
<1>10. DOMAIN rows = D /\ steps = [i \in 1 .. Cardinality(DOMAIN rows) |-> rows]
  BY <1>4 DEF n, steps
<1>11. \A frs \in DOMAIN rows :
         /\ rows[frs].parent \in DOMAIN rows \union {NoParent}
         /\ FoldLeft(Above, frs, steps) = NoParent
  BY <1>8, <1>9, <1>10
<1> QED
  BY <1>10, <1>11 DEF rows

-----------------------------------------------------------------------------
(* The index while a volume is read: what the window feeds is chained, what *)
(* a fallback collects is finite, and nothing is read once it is delivered. *)
IndexInv ==
  /\ volume \in Volumes
  /\ ops \in {InlinePlan(volume), << >>}
  /\ source # "none" => reader \notin Working
  /\ IsFiniteSet(DOMAIN index)
  /\ source \in {"none", "inline"} => Chained(index)

LEMMA CompleteReadKeepsIndex ==
    ASSUME WindowInv, IndexInv, NEW s \in Slots, CompleteRead(s)
    PROVE  IndexInv'
<1>1. /\ reader = "loop" /\ s \in Accepted /\ UNCHANGED <<ops, volume, source>>
  BY DEF CompleteRead, Complete
<1>2. source = "none" /\ Chained(index)
  BY <1>1 DEF IndexInv, Working
<1>3. slot[s] \in Reads
  BY <1>1 DEF WindowInv, WindowTypeOK, Accepted
<1>4. volume \in Volumes /\ ops[slot[s]].count \in Nat
  <2>1. CASE ops = InlinePlan(volume)
    <3>1. volume \in Volumes /\ IsPlan(ops)
      BY <2>1, ReaderAssumption DEF IndexInv
    <3> QED
      BY <1>3, <3>1 DEF IsPlan, IsList, Reads
  <2>2. CASE ops = << >>
    <3>1. Reads = {}
      <4>1. Len(ops) = 0
        BY <2>2
      <4> QED
        BY <4>1 DEF Reads
    <3> QED
      BY <1>3, <3>1
  <2> QED
    BY <2>1, <2>2 DEF IndexInv
<1>5. PICK torn : index' = FoldLeft(ProcessFound, index, Found(volume, ops[slot[s]], torn))
  BY DEF CompleteRead
<1>6. Readable(Found(volume, ops[slot[s]], torn))
  BY <1>4, FoundIsReadable
<1> DEFINE found == Found(volume, ops[slot[s]], torn)
           y == FoldLeft(ProcessFound, index, found)
<1>7. Chained(y)
  BY <1>2, <1>6, ReadKeepsChains
<1>8. index' = y
  BY SMTT(20), <1>5
<1> HIDE DEF y
<1>9. Chained(index)' /\ IsFiniteSet(DOMAIN index)'
  BY <1>7, <1>8 DEF Chained, EntryHolds
<1> QED
  BY <1>1, <1>2, <1>9 DEF IndexInv, InlinePlan

LEMMA FallBackKeepsIndex ==
    ASSUME IndexInv, NEW plan, IsPlan(plan), NEW how \in {"file", "unbuffered"},
           source = "fallback", FallBack(plan, how)
    PROVE  IndexInv'
<1>1. UNCHANGED <<winVars, volume>> /\ source' = how /\ volume \in Volumes
  BY DEF FallBack, IndexInv
<1>2. PICK torn : index' = FromParsedRecords(InsertMissingParents(Collected(
             FlattenSeq([i \in DOMAIN plan |-> Found(volume, plan[i], torn)]))))
  BY DEF FallBack
<1>3. IsFiniteSet(DOMAIN index)'
  BY <1>1, <1>2, PlanCollectedFinite
<1>4. UNCHANGED <<ops, reader>>
  BY <1>1 DEF winVars
<1> QED
  BY <1>1, <1>3, <1>4 DEF IndexInv, InlinePlan

LEMMA NextKeepsIndex == WindowInv /\ IndexInv /\ [Next]_vars => IndexInv'
<1> SUFFICES ASSUME WindowInv, IndexInv, [Next]_vars PROVE IndexInv'
  BY SMTT(20)
<1>1. CASE WindowOnly
  <2>1. UNCHANGED <<volume, index, source, ops>> /\ reader \in Working
    BY <1>1 DEF WindowOnly, ReaderStep, QueueInitialRead, StartWaiting, AllCompleted,
                WaitFails, DeadlineExceeded, Working
  <2>2. source' = "none"
    BY <2>1 DEF IndexInv
  <2> QED
    BY <2>1, <2>2 DEF IndexInv, InlinePlan, Chained, EntryHolds
<1>2. CASE \E s \in Slots : CompleteRead(s)
  BY SMTT(20), <1>2, CompleteReadKeepsIndex
<1>3. CASE ReturnIndex
  <2>1. /\ reader' = "ok" /\ source' = "inline" /\ source = "none"
        /\ UNCHANGED <<volume, index, ops>>
    BY <1>3 DEF ReturnIndex, winVars
  <2> QED
    BY <2>1 DEF IndexInv, InlinePlan, Chained, EntryHolds, Working
<1>4. CASE Abandon
  <2>1. /\ reader' \in GaveUp /\ source' = "fallback" /\ index' = << >>
        /\ ops' = << >> /\ UNCHANGED volume
    BY <1>4 DEF Abandon
  <2>2. IsFiniteSet(DOMAIN index')
    BY <2>1, EmptyIsChained DEF Chained
  <2> QED
    BY <2>1, <2>2 DEF IndexInv, Working, GaveUp
<1>5. CASE ReadMftFile
  <2>1. source = "fallback" /\ FallBack(FilePlan(volume), "file")
    BY <1>5 DEF ReadMftFile
  <2>2. IsPlan(FilePlan(volume))
    BY ReaderAssumption DEF IndexInv
  <2> QED
    BY <2>1, <2>2, FallBackKeepsIndex
<1>6. CASE ReadUnbuffered
  <2>1. PICK known \in BOOLEAN :
          source = "fallback"
            /\ FallBack(GenerateReadChunks(volume.extents, known), "unbuffered")
    BY <1>6 DEF ReadUnbuffered
  <2>2. IsPlan(GenerateReadChunks(volume.extents, known))
    BY ReaderAssumption DEF IndexInv
  <2> QED
    BY <2>1, <2>2, FallBackKeepsIndex
<1>7. CASE FallBackFails
  <2>1. source' = "error" /\ UNCHANGED <<reader, ops, volume, index>> /\ source = "fallback"
    BY SMTT(20), <1>7 DEF FallBackFails, winVars
  <2> QED
    BY <2>1 DEF IndexInv, InlinePlan
<1>8. CASE UNCHANGED vars
  <2>1. UNCHANGED <<reader, ops, volume, index, source>>
    BY <1>8 DEF vars, winVars
  <2> QED
    BY <2>1 DEF IndexInv, InlinePlan, Chained, EntryHolds
<1> QED
  BY <1>1, <1>2, <1>3, <1>4, <1>5, <1>6, <1>7, <1>8 DEF Next, FallBackStep

LEMMA IndexInvariant == Spec => []IndexInv
<1>1. Init => IndexInv
  <2> SUFFICES ASSUME Init PROVE IndexInv
    OBVIOUS
  <2>1. volume \in Volumes /\ ops = InlinePlan(volume) /\ index = << >> /\ source = "none"
    BY DEF Init, WindowInit
  <2>2. Chained(index) /\ IsFiniteSet(DOMAIN index)
    BY <2>1, EmptyIsChained DEF Chained
  <2> QED
    BY <2>1, <2>2 DEF IndexInv
<1> QED
  BY <1>1, NextKeepsIndex, WindowInvariant, PTL DEF Spec

(***************************************************************************)
(* unified.rs: the entry of a child in its directory always leads to the   *)
(* name it was made for, whatever names the child gets later and in        *)
(* whatever order its segments and its directory are read.                 *)
(***************************************************************************)
THEOREM EntriesAlwaysNameTheirLink == Spec => []ChildEntriesNameTheirLink
<1>1. IndexInv => ChildEntriesNameTheirLink
  <2> SUFFICES ASSUME IndexInv, source \in {"none", "inline"},
                      NEW d \in DOMAIN index, NEW k \in ToSet(index[d].kids)
               PROVE  LET links == index[k.child].links
                      IN links[Len(links) - k.place].parent = d
    BY DEF ChildEntriesNameTheirLink
  <2>1. PICK n \in DOMAIN index[d].kids : k = index[d].kids[n]
    BY DEF ToSet
  <2>2. EntryHolds(index, d, k)
    BY <2>1 DEF IndexInv, Chained
  <2> QED
    BY <2>2 DEF EntryHolds
<1> QED
  BY <1>1, IndexInvariant, PTL

(***************************************************************************)
(* drive_manager.rs: from every row the parents lead up to a top-level row *)
(* in no more steps than there are rows, whatever the names on the volume  *)
(* claim about their parents.                                              *)
(***************************************************************************)
THEOREM RowsAlwaysReachTheTop == Spec => []RowsReachTheTop
<1>1. IndexInv => RowsReachTheTop
  <2>1. IsFiniteSet(DOMAIN index) => RowsReachTheTop
    BY RowsReach DEF RowsReachTheTop
  <2> QED
    BY <2>1 DEF IndexInv
<1> QED
  BY <1>1, IndexInvariant, PTL

-----------------------------------------------------------------------------
(* Sums over sets of attributes                                            *)

(* The sum over a set of places of the sizes there, in any order.           *)
SizeSum(v, S) == MapThenSumSet(LAMBDA at : Attribute(v, at).size, S)

Sized(v, S) == IsFiniteSet(S) /\ \A at \in S : Attribute(v, at).size \in Nat

Chosen(s) == CHOOSE x \in s : TRUE

SumAt(v, g, s) ==
  IF s = {} THEN 0 ELSE Attribute(v, Chosen(s)).size + g[s \ {Chosen(s)}]

Summing(v, S, g) == g = [s \in SUBSET S |-> SumAt(v, g, s)]

SummingTo(v, S, g, n) ==
  \A s \in SUBSET S : Cardinality(s) <= n => g[s] = SumAt(v, g, s)

LEMMA ChosenOf ==
    ASSUME NEW S, IsFiniteSet(S), NEW s \in SUBSET S, s # {}
    PROVE  /\ Chosen(s) \in s /\ IsFiniteSet(s) /\ Cardinality(s) \in Nat \ {0}
           /\ s \ {Chosen(s)} \in SUBSET S
           /\ Cardinality(s \ {Chosen(s)}) = Cardinality(s) - 1
<1>1. Chosen(s) \in s
  BY DEF Chosen
<1>2. IsFiniteSet(s)
  BY FS_Subset
<1>3. Cardinality(s) \in Nat
  BY <1>2, FS_CardinalityType
<1>4. Cardinality(s) # 0
  BY <1>2, FS_EmptySet
<1>5. Cardinality(s \ {Chosen(s)}) = Cardinality(s) - 1
  BY <1>1, <1>2, FS_RemoveElement
<1> QED
  BY <1>1, <1>2, <1>3, <1>4, <1>5

LEMMA SummingExists ==
    ASSUME NEW v, NEW S, IsFiniteSet(S)
    PROVE  \E g : Summing(v, S, g)
<1> DEFINE N == Cardinality(S)
           T == {k \in 0 .. N : \E g : SummingTo(v, S, g, k)}
<1>1. N \in Nat
  BY FS_CardinalityType
<1>2. ASSUME NEW s \in SUBSET S PROVE Cardinality(s) \in 0 .. N
  <2>1. IsFiniteSet(s) /\ Cardinality(s) <= N
    BY FS_Subset
  <2>2. Cardinality(s) \in Nat
    BY <2>1, FS_CardinalityType
  <2> HIDE DEF N
  <2> QED
    BY <1>1, <2>1, <2>2
<1> HIDE DEF N
<1>3. 0 \in T
  <2> DEFINE g == [s \in SUBSET S |-> 0]
  <2>1. ASSUME NEW s \in SUBSET S, Cardinality(s) <= 0 PROVE g[s] = SumAt(v, g, s)
    <3>1. s = {}
      <4>1. s # {} => Cardinality(s) \in Nat \ {0}
        BY ChosenOf
      <4> QED
        BY <2>1, <4>1
    <3> QED
      BY <3>1 DEF SumAt
  <2> HIDE DEF g
  <2>2. SummingTo(v, S, g, 0)
    BY <2>1 DEF SummingTo
  <2> QED
    BY <1>1, <2>2
<1>4. ASSUME NEW k \in 1 .. N, k - 1 \in T PROVE k \in T
  <2>1. PICK g : SummingTo(v, S, g, k - 1)
    BY <1>4
  <2> DEFINE h == [s \in SUBSET S |-> IF Cardinality(s) = k THEN SumAt(v, g, s) ELSE g[s]]
  <2>2. ASSUME NEW s \in SUBSET S, Cardinality(s) <= k PROVE h[s] = SumAt(v, h, s)
    <3>1. h[s] = SumAt(v, g, s)
      <4>1. CASE Cardinality(s) = k
        BY <4>1
      <4>2. CASE Cardinality(s) # k
        <5>1. Cardinality(s) \in Nat /\ k \in Nat
          BY <1>1, <1>2
        <5>2. Cardinality(s) <= k - 1
          BY <2>2, <4>2, <5>1
        <5>3. g[s] = SumAt(v, g, s)
          BY <2>1, <5>2 DEF SummingTo
        <5> QED
          BY <4>2, <5>3
      <4> QED
        BY <4>1, <4>2
    <3>2. CASE s = {}
      BY <3>1, <3>2 DEF SumAt
    <3>3. CASE s # {}
      <4> DEFINE t == s \ {Chosen(s)}
      <4>1. t \in SUBSET S /\ Cardinality(t) = Cardinality(s) - 1 /\ Cardinality(s) \in Nat
        BY <3>3, ChosenOf
      <4>2. Cardinality(t) # k
        <5> HIDE DEF t
        <5>1. k \in Nat
          BY <1>1
        <5> QED
          BY <2>2, <4>1, <5>1
      <4>3. h[t] = g[t]
        <5> HIDE DEF t
        <5> QED
          BY <4>1, <4>2
      <4> HIDE DEF h
      <4> QED
        BY <3>1, <3>3, <4>3 DEF SumAt
    <3> QED
      BY <3>2, <3>3
  <2> HIDE DEF h
  <2>3. SummingTo(v, S, h, k)
    BY <2>2 DEF SummingTo
  <2>4. k \in 0 .. N
    BY <1>1
  <2> QED
    BY <2>3, <2>4
<1>5. N \in T
  <2>1. \A k \in 0 .. N : k \in T
    <3> HIDE DEF T
    <3> QED
      BY <1>1, <1>3, <1>4, ByAttribute!UpTo
  <2> HIDE DEF T
  <2> QED
    BY <1>1, <2>1
<1>6. PICK h : SummingTo(v, S, h, N)
  BY <1>5
<1> DEFINE g == [s \in SUBSET S |-> h[s]]
<1>7. ASSUME NEW s \in SUBSET S PROVE g[s] = SumAt(v, g, s)
  <2>1. h[s] = SumAt(v, h, s)
    <3>1. Cardinality(s) <= N
      BY <1>1, <1>2
    <3> QED
      BY <1>6, <3>1 DEF SummingTo
  <2>2. g[s] = h[s] /\ g[s \ {Chosen(s)}] = h[s \ {Chosen(s)}]
    OBVIOUS
  <2> HIDE DEF g
  <2> QED
    BY <2>1, <2>2 DEF SumAt
<1>8. g = [s \in SUBSET S |-> SumAt(v, g, s)]
  <2>1. g = [s \in SUBSET S |-> g[s]]
    OBVIOUS
  <2> HIDE DEF g
  <2> QED
    BY <1>7, <2>1
<1> QED
  BY <1>8 DEF Summing

(* Whichever element is taken out first, the rest is the sum of the rest.   *)
LEMMA SummingAnyOrder ==
    ASSUME NEW v, NEW S, Sized(v, S), NEW g, Summing(v, S, g)
    PROVE  /\ g[{}] = 0
           /\ \A s \in SUBSET S : g[s] \in Nat
           /\ \A s \in SUBSET S : \A x \in s : g[s] = Attribute(v, x).size + g[s \ {x}]
<1> DEFINE N == Cardinality(S)
           w(x) == Attribute(v, x).size
<1>0. IsFiniteSet(S) /\ \A x \in S : w(x) \in Nat
  BY DEF Sized
<1>1. N \in Nat
  BY <1>0, FS_CardinalityType
<1>2. ASSUME NEW s \in SUBSET S PROVE Cardinality(s) \in 0 .. N
  <2>1. IsFiniteSet(s) /\ Cardinality(s) <= N
    BY <1>0, FS_Subset
  <2>2. Cardinality(s) \in Nat
    BY <2>1, FS_CardinalityType
  <2> HIDE DEF N
  <2> QED
    BY <1>1, <2>1, <2>2
<1> HIDE DEF N
<1>3. \A s \in SUBSET S : g[s] = SumAt(v, g, s)
  BY DEF Summing
<1>4. g[{}] = 0
  BY <1>3 DEF SumAt
<1>5. ASSUME NEW s \in SUBSET S, s # {}
      PROVE  Chosen(s) \in s /\ s \ {Chosen(s)} \in SUBSET S /\ g[s] = w(Chosen(s)) + g[s \ {Chosen(s)}]
  BY <1>0, <1>3, <1>5, ChosenOf DEF SumAt
<1> DEFINE T == {k \in 0 .. N : \A s \in SUBSET S : Cardinality(s) = k => g[s] \in Nat}
<1>6. 0 \in T
  <2>1. ASSUME NEW s \in SUBSET S, Cardinality(s) = 0 PROVE g[s] \in Nat
    <3>1. s = {}
      BY <1>0, <2>1, ChosenOf
    <3> QED
      BY <1>4, <3>1
  <2> QED
    BY <1>1, <2>1
<1>7. ASSUME NEW k \in 1 .. N, k - 1 \in T PROVE k \in T
  <2>1. ASSUME NEW s \in SUBSET S, Cardinality(s) = k PROVE g[s] \in Nat
    <3>1. s # {}
      BY <2>1, FS_EmptySet
    <3>2. s \ {Chosen(s)} \in SUBSET S /\ Cardinality(s \ {Chosen(s)}) = k - 1
      BY <1>0, <2>1, <3>1, ChosenOf
    <3>3. g[s \ {Chosen(s)}] \in Nat
      BY <1>7, <3>2
    <3>4. Chosen(s) \in S
      BY <1>5, <3>1
    <3>5. w(Chosen(s)) \in Nat
      BY <1>0, <3>4
    <3> HIDE DEF w
    <3> QED
      BY <1>5, <3>1, <3>3, <3>5
  <2>2. k \in 0 .. N
    BY <1>1
  <2> QED
    BY <2>1, <2>2
<1>8. \A k \in 0 .. N : k \in T
  <2> HIDE DEF T
  <2> QED
    BY <1>1, <1>6, <1>7, ByAttribute!UpTo
<1>9. \A s \in SUBSET S : g[s] \in Nat
  BY <1>2, <1>8
<1> HIDE DEF T
<1> DEFINE U == {k \in 0 .. N : \A s \in SUBSET S : \A x \in s :
                    Cardinality(s) = k => g[s] = w(x) + g[s \ {x}]}
<1>10. 0 \in U
  <2>1. ASSUME NEW s \in SUBSET S, NEW x \in s, Cardinality(s) = 0 PROVE FALSE
    BY <1>0, <2>1, ChosenOf
  <2> HIDE DEF w
  <2> QED
    BY <1>1, <2>1
<1>11. ASSUME NEW k \in 1 .. N, k - 1 \in U PROVE k \in U
  <2>1. ASSUME NEW s \in SUBSET S, NEW x \in s, Cardinality(s) = k
        PROVE  g[s] = w(x) + g[s \ {x}]
    <3> DEFINE c == Chosen(s)
    <3>1. s # {}
      OBVIOUS
    <3>2. c \in s /\ g[s] = w(c) + g[s \ {c}] /\ c \in S
      BY <1>5, <3>1
    <3>3. CASE c = x
      BY <3>2, <3>3
    <3>4. CASE c # x
      <4> DEFINE a == s \ {c}
                 b == s \ {x}
                 d == s \ {c, x}
      <4>1. IsFiniteSet(s)
        BY <1>0, FS_Subset
      <4>2. Cardinality(a) = k - 1 /\ Cardinality(b) = k - 1
        BY <2>1, <3>2, <4>1, FS_RemoveElement
      <4>3. /\ {a, b, d} \subseteq SUBSET S
            /\ x \in a /\ c \in b /\ a \ {x} = d /\ b \ {c} = d
        BY <3>2, <3>4
      <4> HIDE DEF a, b, d, c
      <4>4. g[a] = w(x) + g[a \ {x}]
        <5> HIDE DEF w
        <5> QED
          BY <1>11, <4>2, <4>3
      <4>5. g[b] = w(c) + g[b \ {c}]
        <5> HIDE DEF w
        <5> QED
          BY <1>11, <4>2, <4>3
      <4>6. g[d] \in Nat /\ w(x) \in Nat /\ w(c) \in Nat
        BY <1>0, <1>9, <3>2, <4>3
      <4>7. g[s] = w(c) + g[a]
        BY <3>2 DEF a
      <4>8. g[s] = w(x) + g[b]
        <5> HIDE DEF w
        <5> QED
          BY <4>3, <4>4, <4>5, <4>6, <4>7
      <4> QED
        BY <4>8 DEF b
    <3> QED
      BY <3>3, <3>4
  <2>2. k \in 0 .. N
    BY <1>1
  <2> HIDE DEF w
  <2> QED
    BY <2>1, <2>2
<1>12. \A k \in 0 .. N : k \in U
  <2> HIDE DEF U
  <2> QED
    BY <1>1, <1>10, <1>11, ByAttribute!UpTo
<1>13. ASSUME NEW s \in SUBSET S, NEW x \in s PROVE g[s] = w(x) + g[s \ {x}]
  <2> HIDE DEF w
  <2> QED
    BY <1>2, <1>12
<1> QED
  BY <1>4, <1>9, <1>13

(* Sums over smaller sets are those of the function for the larger one.     *)
LEMMA SummingAgrees ==
    ASSUME NEW v, NEW S, IsFiniteSet(S), NEW R \in SUBSET S,
           NEW g, Summing(v, S, g), NEW h, Summing(v, R, h)
    PROVE  h[R] = g[R]
<1> DEFINE N == Cardinality(R)
           T == {k \in 0 .. N : \A s \in SUBSET R : Cardinality(s) = k => h[s] = g[s]}
<1>0. IsFiniteSet(R)
  BY FS_Subset
<1>1. N \in Nat
  BY <1>0, FS_CardinalityType
<1> HIDE DEF N
<1>2. ASSUME NEW s \in SUBSET R PROVE h[s] = SumAt(v, h, s) /\ g[s] = SumAt(v, g, s)
  <2>1. s \in SUBSET S
    OBVIOUS
  <2>2. h[s] = SumAt(v, h, s)
    BY DEF Summing
  <2>3. g[s] = SumAt(v, g, s)
    BY <2>1 DEF Summing
  <2> QED
    BY <2>2, <2>3
<1>3. 0 \in T
  <2>1. ASSUME NEW s \in SUBSET R, Cardinality(s) = 0 PROVE h[s] = g[s]
    <3>1. s = {}
      BY <1>0, <2>1, ChosenOf
    <3> QED
      BY <1>2, <3>1 DEF SumAt
  <2> QED
    BY <1>1, <2>1
<1>4. ASSUME NEW k \in 1 .. N, k - 1 \in T PROVE k \in T
  <2>1. ASSUME NEW s \in SUBSET R, Cardinality(s) = k PROVE h[s] = g[s]
    <3>1. s # {}
      BY <2>1, FS_EmptySet
    <3>2. s \ {Chosen(s)} \in SUBSET R /\ Cardinality(s \ {Chosen(s)}) = k - 1
      BY <1>0, <2>1, <3>1, ChosenOf
    <3>3. h[s \ {Chosen(s)}] = g[s \ {Chosen(s)}]
      BY <1>4, <3>2
    <3> QED
      BY <1>2, <3>1, <3>3 DEF SumAt
  <2>2. k \in 0 .. N
    BY <1>1
  <2> QED
    BY <2>1, <2>2
<1>5. \A k \in 0 .. N : k \in T
  <2> HIDE DEF T
  <2> QED
    BY <1>1, <1>3, <1>4, ByAttribute!UpTo
<1>6. N \in T
  <2> HIDE DEF T
  <2> QED
    BY <1>1, <1>5
<1> QED
  BY <1>6 DEF N

LEMMA SizeSumIs ==
    ASSUME NEW v, NEW S, IsFiniteSet(S)
    PROVE  \E g : Summing(v, S, g) /\ SizeSum(v, S) = g[S]
<1> DEFINE it == CHOOSE g : Summing(v, S, g)
<1>1. Summing(v, S, it)
  BY SummingExists
<1>2. SizeSum(v, S) = it[S]
  BY DEF SizeSum, MapThenSumSet, MapThenFoldSet, Summing, SumAt, Chosen
<1> HIDE DEF it
<1> QED
  BY <1>1, <1>2

LEMMA SizeSumNone ==
    ASSUME NEW v
    PROVE  SizeSum(v, {}) = 0
<1>1. Sized(v, {}) /\ IsFiniteSet({})
  BY FS_EmptySet DEF Sized
<1>2. PICK g : Summing(v, {}, g) /\ SizeSum(v, {}) = g[{}]
  BY <1>1, SizeSumIs
<1> QED
  BY <1>1, <1>2, SummingAnyOrder

LEMMA SizeSumGrows ==
    ASSUME NEW v, NEW S, Sized(v, S), NEW x, x \notin S, Attribute(v, x).size \in Nat
    PROVE  /\ SizeSum(v, S) \in Nat
           /\ SizeSum(v, S \union {x}) = SizeSum(v, S) + Attribute(v, x).size
<1> DEFINE T == S \union {x}
<1>1. IsFiniteSet(S) /\ IsFiniteSet(T)
  BY FS_AddElement DEF Sized
<1>2. Sized(v, T)
  BY <1>1 DEF Sized
<1>3. S \in SUBSET T /\ x \in T /\ T \in SUBSET T /\ T \ {x} = S
  OBVIOUS
<1> HIDE DEF T
<1>4. PICK g : Summing(v, T, g) /\ SizeSum(v, T) = g[T]
  BY <1>1, SizeSumIs
<1>5. PICK h : Summing(v, S, h) /\ SizeSum(v, S) = h[S]
  BY <1>1, SizeSumIs
<1>6. h[S] = g[S]
  BY <1>1, <1>3, <1>4, <1>5, SummingAgrees
<1>7. /\ \A s \in SUBSET T : g[s] \in Nat
      /\ \A s \in SUBSET T : \A y \in s : g[s] = Attribute(v, y).size + g[s \ {y}]
  BY <1>2, <1>4, SummingAnyOrder
<1>8. g[T] = Attribute(v, x).size + g[S] /\ g[S] \in Nat
  BY <1>3, <1>7
<1> QED
  BY <1>4, <1>5, <1>6, <1>8 DEF T

-----------------------------------------------------------------------------
(* What the index shows of the places that were parsed                     *)

(* The steps of parsing, as places: <<frs, 0>> when the base record of a    *)
(* segment is made sure of, <<frs, i>> for its i-th attribute, and one more *)
(* for its directory flag.                                                  *)
Attrs(v, f) == SegmentOf(v, f)[1].attrs

Places(v, f) == {<<f, i>> : i \in 0 .. Len(Attrs(v, f)) + 1}

Own(v, at) == Owner(v, at[1])

Is(v, at, K) ==
  /\ at[2] \in DOMAIN Attrs(v, at[1])
  /\ Attribute(v, at).kind \in K /\ Counts(Attribute(v, at))

Parts(v, A, b, K) == {at \in A : Own(v, at) = b /\ Is(v, at, K)}

NamesChild(v, at, b) ==
  Is(v, at, {"name"}) /\ Attribute(v, at).parent = b /\ Own(v, at) # b

Entries(v, A, b) == {at \in A : NamesChild(v, at, b)}

Directs(v, at) ==
  \/ Is(v, at, {"i30"})
  \/ /\ SegmentOf(v, at[1])[1].dir
     /\ Is(v, at, {"si"}) \/ at[2] = Len(Attrs(v, at[1])) + 1

Directed(v, A, b) == {at \in A : Own(v, at) = b /\ Directs(v, at)}

LinkOf(a) == [parent |-> a.parent, id |-> a.id]

(* What the record b of the index shows of the places that were parsed.     *)
LinksShow(v, A, b, r) ==
  LET names == Parts(v, A, b, {"name"})
  IN /\ Listed(r.links)
     /\ ToSet(r.links) = {LinkOf(Attribute(v, at)) : at \in names}
     /\ Len(r.links) = Cardinality(names)

KidsShow(v, A, b, r) ==
  LET entries == Entries(v, A, b)
  IN /\ Listed(r.kids)
     /\ {k.child : k \in ToSet(r.kids)} = {Own(v, at) : at \in entries}
     /\ Len(r.kids) = Cardinality(entries)

SizeShows(v, A, b, r) == r.size = SizeSum(v, Parts(v, A, b, {"data", "i30"}))

AdsShow(v, A, b, r) ==
  /\ Listed(r.ads)
  /\ ToSet(r.ads) = {Attribute(v, at).id : at \in Parts(v, A, b, {"ads"})}

CountShows(v, A, b, r) ==
  /\ r.total \in Int /\ r.streams \in Int
  /\ r.total - r.streams = Cardinality(Parts(v, A, b, {"other"}))

StdShows(v, A, b, r) == r.std = (Parts(v, A, b, {"si"}) # {})

DirShows(v, A, b, r) == r.dir = (Directed(v, A, b) # {})

Fields == {"std", "dir", "links", "kids", "size", "hasData", "hasI30",
           "ads", "internal", "streams", "total"}

RecordShows(v, A, b, r) ==
  /\ DOMAIN r = Fields
  /\ LinksShow(v, A, b, r) /\ KidsShow(v, A, b, r)
  /\ SizeShows(v, A, b, r) /\ AdsShow(v, A, b, r) /\ CountShows(v, A, b, r)
  /\ StdShows(v, A, b, r) /\ DirShows(v, A, b, r)

Concerns(v, at, b) ==
  Own(v, at) = b \/ (Is(v, at, {"name"}) /\ Attribute(v, at).parent = b)

Shows(v, A, x) ==
  /\ \A b : b \in DOMAIN x <=> \E at \in A : Concerns(v, at, b)
  /\ \A b \in DOMAIN x : RecordShows(v, A, b, x[b])

(* One more place.                                                          *)
New(A, at) == IsFiniteSet(A) /\ at \notin A

LEMMA PartsGrow ==
    ASSUME NEW v, NEW A, NEW at, New(A, at), NEW b, NEW K
    PROVE  LET S == Parts(v, A, b, K)
               T == Parts(v, A \union {at}, b, K)
           IN /\ T = IF Own(v, at) = b /\ Is(v, at, K) THEN S \union {at} ELSE S
              /\ at \notin S /\ IsFiniteSet(S) /\ Cardinality(S) \in Nat
              /\ Cardinality(S \union {at}) = Cardinality(S) + 1
<1> DEFINE S == Parts(v, A, b, K)
<1>1. S \in SUBSET A /\ at \notin S
  BY DEF Parts, New
<1>2. IsFiniteSet(S)
  BY <1>1, FS_Subset DEF New
<1>3. Cardinality(S) \in Nat /\ Cardinality(S \union {at}) = Cardinality(S) + 1
  <2> HIDE DEF S
  <2> QED
    BY <1>1, <1>2, FS_CardinalityType, FS_AddElement
<1>4. Parts(v, A \union {at}, b, K) = IF Own(v, at) = b /\ Is(v, at, K) THEN S \union {at} ELSE S
  BY DEF Parts
<1> QED
  BY <1>1, <1>2, <1>3, <1>4

LEMMA PartsKept ==
    ASSUME NEW v, NEW A, NEW at, NEW b, NEW K, ~ (Own(v, at) = b /\ Is(v, at, K))
    PROVE  Parts(v, A \union {at}, b, K) = Parts(v, A, b, K)
BY DEF Parts

LEMMA EntriesGrow ==
    ASSUME NEW v, NEW A, NEW at, New(A, at), NEW b
    PROVE  LET S == Entries(v, A, b)
               T == Entries(v, A \union {at}, b)
           IN /\ T = IF NamesChild(v, at, b) THEN S \union {at} ELSE S
              /\ IsFiniteSet(S) /\ Cardinality(S) \in Nat
              /\ Cardinality(S \union {at}) = Cardinality(S) + 1
<1> DEFINE S == Entries(v, A, b)
<1>1. S \in SUBSET A /\ at \notin S
  BY DEF Entries, New
<1>2. IsFiniteSet(S)
  BY <1>1, FS_Subset DEF New
<1>3. Cardinality(S) \in Nat /\ Cardinality(S \union {at}) = Cardinality(S) + 1
  <2> HIDE DEF S
  <2> QED
    BY <1>1, <1>2, FS_CardinalityType, FS_AddElement
<1>4. Entries(v, A \union {at}, b) = IF NamesChild(v, at, b) THEN S \union {at} ELSE S
  BY DEF Entries
<1> QED
  BY <1>2, <1>3, <1>4

LEMMA DirectedGrows ==
    ASSUME NEW v, NEW A, NEW at, NEW b
    PROVE  Directed(v, A \union {at}, b) =
             IF Own(v, at) = b /\ Directs(v, at) THEN Directed(v, A, b) \union {at}
                                                 ELSE Directed(v, A, b)
BY DEF Directed

(* What the place has nothing to do with is kept.                           *)
LEMMA LinksKept ==
    ASSUME NEW v, NEW A, NEW at, New(A, at), NEW b, NEW r, LinksShow(v, A, b, r),
           NEW s, s.links = r.links, ~ (Own(v, at) = b /\ Is(v, at, {"name"}))
    PROVE  LinksShow(v, A \union {at}, b, s)
<1>1. Parts(v, A \union {at}, b, {"name"}) = Parts(v, A, b, {"name"})
  BY PartsKept
<1> QED
  BY <1>1 DEF LinksShow

LEMMA KidsKept ==
    ASSUME NEW v, NEW A, NEW at, New(A, at), NEW b, NEW r, KidsShow(v, A, b, r),
           NEW s, s.kids = r.kids, ~ NamesChild(v, at, b)
    PROVE  KidsShow(v, A \union {at}, b, s)
<1>1. Entries(v, A \union {at}, b) = Entries(v, A, b)
  BY EntriesGrow
<1> QED
  BY <1>1 DEF KidsShow

LEMMA SizeKept ==
    ASSUME NEW v, NEW A, NEW at, New(A, at), NEW b, NEW r, SizeShows(v, A, b, r),
           NEW s, s.size = r.size, ~ (Own(v, at) = b /\ Is(v, at, {"data", "i30"}))
    PROVE  SizeShows(v, A \union {at}, b, s)
<1>1. Parts(v, A \union {at}, b, {"data", "i30"}) = Parts(v, A, b, {"data", "i30"})
  BY PartsKept
<1> QED
  BY <1>1 DEF SizeShows

LEMMA AdsKept ==
    ASSUME NEW v, NEW A, NEW at, New(A, at), NEW b, NEW r, AdsShow(v, A, b, r),
           NEW s, s.ads = r.ads, ~ (Own(v, at) = b /\ Is(v, at, {"ads"}))
    PROVE  AdsShow(v, A \union {at}, b, s)
<1>1. Parts(v, A \union {at}, b, {"ads"}) = Parts(v, A, b, {"ads"})
  BY PartsKept
<1> QED
  BY <1>1 DEF AdsShow

(* Streams that count in both do not show.                                  *)
LEMMA CountKept ==
    ASSUME NEW v, NEW A, NEW at, New(A, at), NEW b, NEW r, CountShows(v, A, b, r),
           NEW s, NEW n \in {0, 1}, s.total = r.total + n, s.streams = r.streams + n,
           ~ (Own(v, at) = b /\ Is(v, at, {"other"}))
    PROVE  CountShows(v, A \union {at}, b, s)
<1>1. Parts(v, A \union {at}, b, {"other"}) = Parts(v, A, b, {"other"})
  BY PartsKept
<1>2. r.total \in Int /\ r.streams \in Int
  BY DEF CountShows
<1>3. s.total \in Int /\ s.streams \in Int /\ s.total - s.streams = r.total - r.streams
  BY <1>2
<1> QED
  BY <1>1, <1>3 DEF CountShows

LEMMA StdKept ==
    ASSUME NEW v, NEW A, NEW at, New(A, at), NEW b, NEW r, StdShows(v, A, b, r),
           NEW s, s.std = r.std, ~ (Own(v, at) = b /\ Is(v, at, {"si"}))
    PROVE  StdShows(v, A \union {at}, b, s)
<1>1. Parts(v, A \union {at}, b, {"si"}) = Parts(v, A, b, {"si"})
  BY PartsKept
<1> QED
  BY <1>1 DEF StdShows

LEMMA DirKept ==
    ASSUME NEW v, NEW A, NEW at, NEW b, NEW r, DirShows(v, A, b, r),
           NEW s, s.dir = r.dir, ~ (Own(v, at) = b /\ Directs(v, at))
    PROVE  DirShows(v, A \union {at}, b, s)
<1>1. Directed(v, A \union {at}, b) = Directed(v, A, b)
  BY DirectedGrows
<1> QED
  BY <1>1 DEF DirShows

-----------------------------------------------------------------------------
(* What it adds to the one record or the other.                             *)
LEMMA ToSetPrepended ==
    ASSUME NEW s, Listed(s), NEW e
    PROVE  /\ Listed(<<e>> \o s) /\ Len(<<e>> \o s) = Len(s) + 1
           /\ ToSet(<<e>> \o s) = {e} \union ToSet(s)
<1> DEFINE t == <<e>> \o s
<1>1. /\ Listed(t) /\ Len(s) \in Nat /\ DOMAIN s = 1 .. Len(s)
      /\ Len(t) = Len(s) + 1 /\ DOMAIN t = 1 .. Len(s) + 1
      /\ t[1] = e /\ \A i \in 1 .. Len(s) : t[i + 1] = s[i]
  <2>1. PICK S : s \in Seq(S)
    BY DEF Listed
  <2>2. s \in Seq(S \union {e}) /\ <<e>> \in Seq(S \union {e}) /\ Len(<<e>>) = 1 /\ <<e>>[1] = e
    BY <2>1
  <2>3. t \in Seq(S \union {e}) /\ Len(t) = 1 + Len(s) /\ DOMAIN t = 1 .. 1 + Len(s)
    BY <2>2
  <2>4. Len(s) \in Nat /\ DOMAIN s = 1 .. Len(s)
    BY <2>1
  <2>5. t[1] = e /\ \A i \in 1 .. Len(s) : t[i + 1] = s[i]
    BY <2>2, <2>4
  <2>6. Listed(t)
    BY <2>3 DEF Listed
  <2> HIDE DEF t
  <2> QED
    BY <2>3, <2>4, <2>5, <2>6
<1> HIDE DEF t
<1> DEFINE n == Len(s)
<1>2. ASSUME NEW y \in ToSet(t) PROVE y \in {e} \union ToSet(s)
  <2>1. PICK i \in 1 .. n + 1 : y = t[i]
    BY <1>1, <1>2 DEF ToSet
  <2>2. CASE i = 1
    BY <1>1, <2>1, <2>2
  <2>3. CASE i # 1
    <3>1. i - 1 \in 1 .. n /\ (i - 1) + 1 = i
      BY <1>1, <2>1, <2>3
    <3>2. y = s[i - 1]
      BY <1>1, <2>1, <3>1
    <3> QED
      BY <1>1, <3>1, <3>2 DEF ToSet
  <2> QED
    BY <2>2, <2>3
<1>3. e \in ToSet(t)
  <2>1. 1 \in 1 .. n + 1
    BY <1>1
  <2> QED
    BY <1>1, <2>1 DEF ToSet
<1>4. ASSUME NEW y \in ToSet(s) PROVE y \in ToSet(t)
  <2>1. PICK i \in 1 .. n : y = s[i]
    BY <1>1, <1>4 DEF ToSet
  <2>2. i + 1 \in 1 .. n + 1 /\ t[i + 1] = y
    BY <1>1, <2>1
  <2> QED
    BY <1>1, <2>2 DEF ToSet
<1>5. ToSet(t) = {e} \union ToSet(s)
  BY <1>2, <1>3, <1>4
<1> QED
  BY <1>1, <1>5 DEF t

LEMMA ToSetAppended ==
    ASSUME NEW s, Listed(s), NEW e
    PROVE  Listed(Append(s, e)) /\ ToSet(Append(s, e)) = ToSet(s) \union {e}
<1>1. PICK S : s \in Seq(S)
  BY DEF Listed
<1> DEFINE T == S \union {e}
           t == Append(s, e)
           n == Len(s)
<1>2. s \in Seq(T) /\ e \in T
  BY <1>1
<1>3. t \in Seq(T) /\ Len(t) = n + 1 /\ n \in Nat /\ DOMAIN s = 1 .. n
  BY <1>2
<1>4. t[n + 1] = e /\ \A i \in 1 .. n : t[i] = s[i]
  BY <1>2
<1>5. DOMAIN t = 1 .. n + 1
  BY <1>3
<1> HIDE DEF t, n, T
<1>6. \A i \in 1 .. n + 1 : i \in 1 .. n \/ i = n + 1
  BY <1>3
<1>7. ToSet(t) = ToSet(s) \union {e}
  BY <1>3, <1>4, <1>5, <1>6 DEF ToSet
<1>8. Listed(t)
  BY <1>3 DEF Listed
<1> QED
  BY <1>7, <1>8 DEF t

LEMMA LinksGrow ==
    ASSUME NEW v, NEW A, NEW at, New(A, at), NEW b, NEW r, LinksShow(v, A, b, r),
           NEW s, s.links = <<LinkOf(Attribute(v, at))>> \o r.links,
           Own(v, at) = b, Is(v, at, {"name"})
    PROVE  LinksShow(v, A \union {at}, b, s)
<1> DEFINE S == Parts(v, A, b, {"name"})
           T == Parts(v, A \union {at}, b, {"name"})
           e == LinkOf(Attribute(v, at))
<1>1. T = S \union {at} /\ Cardinality(T) = Cardinality(S) + 1
  <2>1. T = S \union {at}
    BY PartsGrow
  <2>2. Cardinality(S \union {at}) = Cardinality(S) + 1 /\ Cardinality(S) \in Nat
    BY PartsGrow
  <2> HIDE DEF S, T
  <2> QED
    BY <2>1, <2>2
<1>2. Listed(r.links) /\ ToSet(r.links) = {LinkOf(Attribute(v, a)) : a \in S}
      /\ Len(r.links) = Cardinality(S)
  BY DEF LinksShow
<1> HIDE DEF S, T
<1>3. Listed(s.links) /\ Len(s.links) = Len(r.links) + 1 /\ ToSet(s.links) = {e} \union ToSet(r.links)
  <2> HIDE DEF e
  <2>1. s.links = <<e>> \o r.links
    BY DEF e
  <2> QED
    BY <1>2, <2>1, ToSetPrepended
<1>4. ToSet(s.links) = {LinkOf(Attribute(v, a)) : a \in T}
  BY <1>1, <1>2, <1>3
<1> QED
  BY <1>1, <1>2, <1>3, <1>4 DEF LinksShow, T

LEMMA KidsGrow ==
    ASSUME NEW v, NEW A, NEW at, New(A, at), NEW b, NEW r, KidsShow(v, A, b, r),
           NEW e, e.child = Own(v, at),
           NEW s, s.kids = <<e>> \o r.kids, NamesChild(v, at, b)
    PROVE  KidsShow(v, A \union {at}, b, s)
<1> DEFINE S == Entries(v, A, b)
           T == Entries(v, A \union {at}, b)
<1>1. T = S \union {at} /\ Cardinality(T) = Cardinality(S) + 1
  BY EntriesGrow
<1>2. Listed(r.kids) /\ {k.child : k \in ToSet(r.kids)} = {Own(v, a) : a \in S}
      /\ Len(r.kids) = Cardinality(S)
  BY DEF KidsShow
<1> HIDE DEF S, T
<1>3. Listed(s.kids) /\ Len(s.kids) = Len(r.kids) + 1 /\ ToSet(s.kids) = {e} \union ToSet(r.kids)
  BY <1>2, ToSetPrepended
<1>4. {k.child : k \in ToSet(s.kids)} = {e.child} \union {k.child : k \in ToSet(r.kids)}
  BY <1>3
<1>5. {k.child : k \in ToSet(s.kids)} = {Own(v, a) : a \in T}
  BY <1>1, <1>2, <1>4
<1> QED
  BY <1>1, <1>2, <1>3, <1>5 DEF KidsShow, T

LEMMA SizeGrows ==
    ASSUME NEW v, NEW A, NEW at, New(A, at), NEW b, NEW r, SizeShows(v, A, b, r),
           Sized(v, Parts(v, A, b, {"data", "i30"})), Attribute(v, at).size \in Nat,
           NEW s, s.size = r.size + Attribute(v, at).size,
           Own(v, at) = b, Is(v, at, {"data", "i30"})
    PROVE  SizeShows(v, A \union {at}, b, s)
<1> DEFINE S == Parts(v, A, b, {"data", "i30"})
           T == Parts(v, A \union {at}, b, {"data", "i30"})
<1>1. T = S \union {at} /\ at \notin S
  BY PartsGrow
<1>2. SizeSum(v, S \union {at}) = SizeSum(v, S) + Attribute(v, at).size
  <2>1. Sized(v, S) /\ at \notin S
    BY <1>1
  <2> HIDE DEF S
  <2> QED
    BY <2>1, SizeSumGrows
<1> QED
  BY <1>1, <1>2 DEF SizeShows

LEMMA AdsGrow ==
    ASSUME NEW v, NEW A, NEW at, New(A, at), NEW b, NEW r, AdsShow(v, A, b, r),
           NEW s, s.ads = Append(r.ads, Attribute(v, at).id),
           Own(v, at) = b, Is(v, at, {"ads"})
    PROVE  AdsShow(v, A \union {at}, b, s)
<1> DEFINE S == Parts(v, A, b, {"ads"})
           T == Parts(v, A \union {at}, b, {"ads"})
<1>1. T = S \union {at}
  BY PartsGrow
<1>2. Listed(r.ads) /\ ToSet(r.ads) = {Attribute(v, a).id : a \in S}
  BY DEF AdsShow
<1> HIDE DEF S, T
<1>3. Listed(s.ads) /\ ToSet(s.ads) = ToSet(r.ads) \union {Attribute(v, at).id}
  BY <1>2, ToSetAppended
<1>4. ToSet(s.ads) = {Attribute(v, a).id : a \in T}
  BY <1>1, <1>2, <1>3
<1> QED
  BY <1>3, <1>4 DEF AdsShow, T

LEMMA CountGrows ==
    ASSUME NEW v, NEW A, NEW at, New(A, at), NEW b, NEW r, CountShows(v, A, b, r),
           NEW s, s.total = r.total + 1, s.streams = r.streams,
           Own(v, at) = b, Is(v, at, {"other"})
    PROVE  CountShows(v, A \union {at}, b, s)
<1> DEFINE S == Parts(v, A, b, {"other"})
           T == Parts(v, A \union {at}, b, {"other"})
           c == Cardinality(S)
<1>1. Cardinality(T) = c + 1 /\ c \in Nat
  <2>1. T = S \union {at}
    BY PartsGrow
  <2>2. Cardinality(S \union {at}) = Cardinality(S) + 1 /\ Cardinality(S) \in Nat
    BY PartsGrow
  <2> HIDE DEF S, T
  <2> QED
    BY <2>1, <2>2
<1>2. r.total \in Int /\ r.streams \in Int /\ r.total - r.streams = c
  BY DEF CountShows
<1> HIDE DEF c
<1>3. s.total \in Int /\ s.streams \in Int /\ s.total - s.streams = c + 1
  BY <1>1, <1>2
<1> QED
  BY <1>1, <1>3 DEF CountShows

LEMMA StdGrows ==
    ASSUME NEW v, NEW A, NEW at, New(A, at), NEW b,
           NEW s, s.std = TRUE, Own(v, at) = b, Is(v, at, {"si"})
    PROVE  StdShows(v, A \union {at}, b, s)
<1>1. at \in Parts(v, A \union {at}, b, {"si"})
  BY DEF Parts
<1> QED
  BY <1>1 DEF StdShows

LEMMA DirGrows ==
    ASSUME NEW v, NEW A, NEW at, NEW b,
           NEW s, s.dir = TRUE, Own(v, at) = b, Directs(v, at)
    PROVE  DirShows(v, A \union {at}, b, s)
<1>1. at \in Directed(v, A \union {at}, b)
  BY DEF Directed
<1> QED
  BY <1>1 DEF DirShows

(* Places of segments that are in use.                                      *)
Parsing(v, A) ==
  v \in Volumes /\ \A at \in A : at[1] \in InUse(v)

LEMMA SegmentIs ==
    ASSUME NEW v \in Volumes, NEW f \in InUse(v)
    PROVE  IsSegment(SegmentOf(v, f)[1]) /\ SegmentOf(v, f)[1].used
<1>1. SegmentOf(v, f) # << >> /\ SegmentOf(v, f)[1].used
  BY DEF InUse
<1>2. PICK p \in DOMAIN v.disk : SegmentOf(v, f) = <<v.disk[p]>>
  BY <1>1 DEF SegmentOf, Segment
<1>3. SegmentOf(v, f)[1] = v.disk[p]
  BY <1>2
<1> QED
  BY <1>1, <1>3, ReaderAssumption

LEMMA AttrsAre ==
    ASSUME NEW v \in Volumes, NEW f \in InUse(v)
    PROVE  /\ Len(Attrs(v, f)) \in Nat /\ DOMAIN Attrs(v, f) = 1 .. Len(Attrs(v, f))
           /\ SegmentOf(v, f)[1].dir \in BOOLEAN
           /\ \A i \in DOMAIN Attrs(v, f) :
                /\ Attrs(v, f)[i].kind \in Kinds
                /\ Attrs(v, f)[i].kind = "name" => Attrs(v, f)[i].parent \in Nat
                /\ Attrs(v, f)[i].kind \in {"data", "i30"} => Attrs(v, f)[i].size \in Nat
<1>1. IsSegment(SegmentOf(v, f)[1])
  BY SegmentIs
<1> QED
  BY <1>1 DEF IsSegment, IsList, Attrs, Kinds

LEMMA SizesAre ==
    ASSUME NEW v, NEW A, Parsing(v, A), IsFiniteSet(A), NEW b
    PROVE  Sized(v, Parts(v, A, b, {"data", "i30"}))
<1> DEFINE S == Parts(v, A, b, {"data", "i30"})
<1>1. S \in SUBSET A
  BY DEF Parts
<1>2. IsFiniteSet(S)
  BY <1>1, FS_Subset
<1>3. ASSUME NEW at \in S PROVE Attribute(v, at).size \in Nat
  <2>1. at \in A /\ Is(v, at, {"data", "i30"})
    BY <1>3 DEF Parts
  <2>2. v \in Volumes /\ at[1] \in InUse(v) /\ at[2] \in DOMAIN Attrs(v, at[1])
    BY <2>1 DEF Parsing, Is
  <2>3. Attribute(v, at) = Attrs(v, at[1])[at[2]] /\ Attribute(v, at).kind \in {"data", "i30"}
    BY <2>1 DEF Is, Attribute, Attrs
  <2> QED
    BY <2>2, <2>3, AttrsAre
<1> QED
  BY <1>2, <1>3 DEF Sized

(* A record that the place does not concern shows the same.                 *)
LEMMA Unconcerned ==
    ASSUME NEW v, NEW A, NEW at, New(A, at), NEW b, NEW r, RecordShows(v, A, b, r),
           ~ Concerns(v, at, b)
    PROVE  RecordShows(v, A \union {at}, b, r)
<1>1. Own(v, at) # b /\ ~ NamesChild(v, at, b)
  BY DEF Concerns, NamesChild
<1>2. /\ DOMAIN r = Fields
      /\ LinksShow(v, A, b, r) /\ KidsShow(v, A, b, r)
      /\ SizeShows(v, A, b, r) /\ AdsShow(v, A, b, r) /\ CountShows(v, A, b, r)
      /\ StdShows(v, A, b, r) /\ DirShows(v, A, b, r)
  BY DEF RecordShows
<1>3. LinksShow(v, A \union {at}, b, r)
  BY <1>1, <1>2, LinksKept
<1>4. KidsShow(v, A \union {at}, b, r)
  BY <1>1, <1>2, KidsKept
<1>5. SizeShows(v, A \union {at}, b, r)
  BY <1>1, <1>2, SizeKept
<1>6. AdsShow(v, A \union {at}, b, r)
  BY <1>1, <1>2, AdsKept
<1>7. CountShows(v, A \union {at}, b, r)
  <2>1. r.total \in Int /\ r.streams \in Int
    BY <1>2 DEF CountShows
  <2>2. r.total = r.total + 0 /\ r.streams = r.streams + 0
    BY <2>1
  <2> QED
    BY <1>1, <1>2, <2>2, CountKept
<1>8. StdShows(v, A \union {at}, b, r)
  BY <1>1, <1>2, StdKept
<1>9. DirShows(v, A \union {at}, b, r)
  BY <1>1, <1>2, DirKept
<1> QED
  BY <1>2, <1>3, <1>4, <1>5, <1>6, <1>7, <1>8, <1>9 DEF RecordShows

(* Nor does a place that shows nothing, such as a name for DOS only.        *)
LEMMA Idle ==
    ASSUME NEW v, NEW A, NEW at, New(A, at), NEW b, NEW r, RecordShows(v, A, b, r),
           ~ Is(v, at, Kinds), ~ Directs(v, at)
    PROVE  RecordShows(v, A \union {at}, b, r)
<1>1. /\ ~ Is(v, at, {"name"}) /\ ~ Is(v, at, {"data", "i30"}) /\ ~ Is(v, at, {"ads"})
      /\ ~ Is(v, at, {"other"}) /\ ~ Is(v, at, {"si"}) /\ ~ NamesChild(v, at, b)
  BY DEF Is, Kinds, NamesChild
<1>2. /\ DOMAIN r = Fields
      /\ LinksShow(v, A, b, r) /\ KidsShow(v, A, b, r)
      /\ SizeShows(v, A, b, r) /\ AdsShow(v, A, b, r) /\ CountShows(v, A, b, r)
      /\ StdShows(v, A, b, r) /\ DirShows(v, A, b, r)
  BY DEF RecordShows
<1>3. LinksShow(v, A \union {at}, b, r)
  BY <1>1, <1>2, LinksKept
<1>4. KidsShow(v, A \union {at}, b, r)
  BY <1>1, <1>2, KidsKept
<1>5. SizeShows(v, A \union {at}, b, r)
  BY <1>1, <1>2, SizeKept
<1>6. AdsShow(v, A \union {at}, b, r)
  BY <1>1, <1>2, AdsKept
<1>7. CountShows(v, A \union {at}, b, r)
  <2>1. r.total \in Int /\ r.streams \in Int
    BY <1>2 DEF CountShows
  <2>2. r.total = r.total + 0 /\ r.streams = r.streams + 0
    BY <2>1
  <2> QED
    BY <1>1, <1>2, <2>2, CountKept
<1>8. StdShows(v, A \union {at}, b, r)
  BY <1>1, <1>2, StdKept
<1>9. DirShows(v, A \union {at}, b, r)
  BY <1>2, DirKept
<1> QED
  BY <1>2, <1>3, <1>4, <1>5, <1>6, <1>7, <1>8, <1>9 DEF RecordShows

(* A record that nothing concerned yet is a new one.                        *)
LEMMA FreshShows ==
    ASSUME NEW v, NEW A, NEW b, \A at \in A : ~ Concerns(v, at, b)
    PROVE  RecordShows(v, A, b, NewUnified)
<1>1. \A K : Parts(v, A, b, K) = {}
  BY DEF Parts, Concerns
<1>2. Entries(v, A, b) = {}
  BY DEF Entries, NamesChild, Concerns
<1>3. Directed(v, A, b) = {}
  BY DEF Directed, Concerns
<1>4. Listed(<< >>) /\ ToSet(<< >>) = {} /\ Len(<< >>) = 0
  <2>1. << >> \in Seq({})
    OBVIOUS
  <2> QED
    BY <2>1 DEF Listed, ToSet
<1>5. Cardinality({}) = 0
  BY FS_EmptySet
<1>6. /\ NewUnified.links = << >> /\ NewUnified.kids = << >> /\ NewUnified.size = 0
      /\ NewUnified.ads = << >> /\ NewUnified.total = 0 /\ NewUnified.streams = 0
      /\ NewUnified.std = FALSE /\ NewUnified.dir = FALSE
  BY DEF NewUnified
<1>7. DOMAIN NewUnified = Fields
  BY DEF NewUnified, Fields
<1>8. LinksShow(v, A, b, NewUnified)
  BY <1>1, <1>4, <1>5, <1>6 DEF LinksShow
<1>9. KidsShow(v, A, b, NewUnified)
  BY <1>2, <1>4, <1>5, <1>6 DEF KidsShow
<1>10. SizeShows(v, A, b, NewUnified)
  BY <1>1, <1>6, SizeSumNone DEF SizeShows
<1>11. AdsShow(v, A, b, NewUnified)
  BY <1>1, <1>4, <1>6 DEF AdsShow
<1>12. CountShows(v, A, b, NewUnified)
  <2>1. Cardinality(Parts(v, A, b, {"other"})) = 0
    BY <1>1, <1>5
  <2>2. 0 \in Int /\ 0 - 0 = 0
    OBVIOUS
  <2> QED
    BY <1>6, <2>1, <2>2 DEF CountShows
<1>13. StdShows(v, A, b, NewUnified)
  BY <1>1, <1>6 DEF StdShows
<1>14. DirShows(v, A, b, NewUnified)
  BY <1>3, <1>6 DEF DirShows
<1> QED
  BY <1>7, <1>8, <1>9, <1>10, <1>11, <1>12, <1>13, <1>14 DEF RecordShows

-----------------------------------------------------------------------------
(* One attribute                                                           *)

KindIs(v, at, k) ==
  /\ v \in Volumes /\ at[1] \in InUse(v) /\ at[2] \in DOMAIN Attrs(v, at[1])
  /\ Attribute(v, at).kind = k /\ Counts(Attribute(v, at))

Alike(r, s, F) == DOMAIN s = Fields /\ \A f \in F : s[f] = r[f]

LEMMA OnlyKind ==
    ASSUME NEW v, NEW at, NEW k, KindIs(v, at, k)
    PROVE  /\ \A K : Is(v, at, K) <=> k \in K
           /\ Directs(v, at) <=> k = "i30" \/ (k = "si" /\ SegmentOf(v, at[1])[1].dir)
<1>1. \A K : Is(v, at, K) <=> k \in K
  BY DEF KindIs, Is
<1>2. at[2] # Len(Attrs(v, at[1])) + 1
  <2> DEFINE n == Len(Attrs(v, at[1]))
  <2>1. n \in Nat /\ at[2] \in 1 .. n
    BY AttrsAre DEF KindIs
  <2> HIDE DEF n
  <2> QED
    BY <2>1 DEF n
<1> QED
  BY <1>1, <1>2 DEF Directs

LEMMA SiShows ==
    ASSUME NEW v, NEW A, NEW at, New(A, at), NEW b, NEW r, RecordShows(v, A, b, r),
           Own(v, at) = b, KindIs(v, at, "si"),
           NEW s, Alike(r, s, {"links", "kids", "size", "ads", "total", "streams"}),
           s.std = TRUE, s.dir = SegmentOf(v, at[1])[1].dir,
           s.dir \/ Directed(v, A, b) = {}
    PROVE  RecordShows(v, A \union {at}, b, s)
<1>1. /\ ~ Is(v, at, {"name"}) /\ ~ Is(v, at, {"data", "i30"}) /\ ~ Is(v, at, {"ads"})
      /\ ~ Is(v, at, {"other"}) /\ Is(v, at, {"si"}) /\ ~ NamesChild(v, at, b)
      /\ Directs(v, at) <=> SegmentOf(v, at[1])[1].dir
  BY OnlyKind DEF NamesChild
<1>2. /\ DOMAIN r = Fields
      /\ LinksShow(v, A, b, r) /\ KidsShow(v, A, b, r)
      /\ SizeShows(v, A, b, r) /\ AdsShow(v, A, b, r) /\ CountShows(v, A, b, r)
      /\ StdShows(v, A, b, r) /\ DirShows(v, A, b, r)
  BY DEF RecordShows
<1>3. /\ s.links = r.links /\ s.kids = r.kids /\ s.size = r.size /\ s.ads = r.ads
      /\ s.total = r.total /\ s.streams = r.streams /\ DOMAIN s = Fields
  BY DEF Alike
<1>4. LinksShow(v, A \union {at}, b, s) /\ KidsShow(v, A \union {at}, b, s)
  BY <1>1, <1>2, <1>3, LinksKept, KidsKept
<1>5. SizeShows(v, A \union {at}, b, s)
  BY <1>1, <1>2, <1>3, SizeKept
<1>6. AdsShow(v, A \union {at}, b, s)
  BY <1>1, <1>2, <1>3, AdsKept
<1>7. CountShows(v, A \union {at}, b, s)
  <2>1. r.total \in Int /\ r.streams \in Int
    BY <1>2 DEF CountShows
  <2>2. s.total = r.total + 0 /\ s.streams = r.streams + 0
    BY <1>3, <2>1
  <2> QED
    BY <1>1, <1>2, <2>2, CountKept
<1>8. StdShows(v, A \union {at}, b, s)
  BY <1>1, StdGrows
<1>9. DirShows(v, A \union {at}, b, s)
  <2>1. SegmentOf(v, at[1])[1].dir \in BOOLEAN
    BY AttrsAre DEF KindIs
  <2>2. ASSUME s.dir = TRUE PROVE DirShows(v, A \union {at}, b, s)
    <3>1. Directs(v, at)
      BY <1>1, <2>2
    <3> QED
      BY <2>2, <3>1, DirGrows
  <2>3. ASSUME s.dir = FALSE PROVE DirShows(v, A \union {at}, b, s)
    <3>1. ~ Directs(v, at) /\ Directed(v, A, b) = {}
      BY <1>1, <2>3
    <3>2. Directed(v, A \union {at}, b) = {}
      BY ZenonT(40), <3>1, DirectedGrows
    <3> QED
      BY <2>3, <3>2 DEF DirShows
  <2> QED
    BY <2>1, <2>2, <2>3
<1> QED
  BY <1>3, <1>4, <1>5, <1>6, <1>7, <1>8, <1>9 DEF RecordShows

(* The name and the links of its record; the directory's entry is another's. *)
LEMMA NameShows ==
    ASSUME NEW v, NEW A, NEW at, New(A, at), NEW b, NEW r, RecordShows(v, A, b, r),
           Own(v, at) = b, KindIs(v, at, "name"),
           NEW s, Alike(r, s, {"std", "dir", "kids", "size", "ads", "total", "streams"}),
           s.links = <<LinkOf(Attribute(v, at))>> \o r.links
    PROVE  RecordShows(v, A \union {at}, b, s)
<1>1. /\ Is(v, at, {"name"}) /\ ~ Is(v, at, {"data", "i30"}) /\ ~ Is(v, at, {"ads"})
      /\ ~ Is(v, at, {"other"}) /\ ~ Is(v, at, {"si"}) /\ ~ NamesChild(v, at, b)
      /\ ~ Directs(v, at)
  BY OnlyKind DEF NamesChild
<1>2. /\ DOMAIN r = Fields
      /\ LinksShow(v, A, b, r) /\ KidsShow(v, A, b, r)
      /\ SizeShows(v, A, b, r) /\ AdsShow(v, A, b, r) /\ CountShows(v, A, b, r)
      /\ StdShows(v, A, b, r) /\ DirShows(v, A, b, r)
  BY DEF RecordShows
<1>3. /\ s.std = r.std /\ s.dir = r.dir /\ s.kids = r.kids /\ s.size = r.size /\ s.ads = r.ads
      /\ s.total = r.total /\ s.streams = r.streams /\ DOMAIN s = Fields
  BY DEF Alike
<1>4. LinksShow(v, A \union {at}, b, s) /\ KidsShow(v, A \union {at}, b, s)
  BY <1>1, <1>2, <1>3, LinksGrow, KidsKept
<1>5. SizeShows(v, A \union {at}, b, s)
  BY <1>1, <1>2, <1>3, SizeKept
<1>6. AdsShow(v, A \union {at}, b, s)
  BY <1>1, <1>2, <1>3, AdsKept
<1>7. CountShows(v, A \union {at}, b, s)
  <2>1. r.total \in Int /\ r.streams \in Int
    BY <1>2 DEF CountShows
  <2>2. s.total = r.total + 0 /\ s.streams = r.streams + 0
    BY <1>3, <2>1
  <2> QED
    BY <1>1, <1>2, <2>2, CountKept
<1>8. StdShows(v, A \union {at}, b, s)
  BY <1>1, <1>2, <1>3, StdKept
<1>9. DirShows(v, A \union {at}, b, s)
  BY <1>1, <1>2, <1>3, DirKept
<1> QED
  BY <1>3, <1>4, <1>5, <1>6, <1>7, <1>8, <1>9 DEF RecordShows

LEMMA EntryShows ==
    ASSUME NEW v, NEW A, NEW at, New(A, at), NEW b, NEW r, RecordShows(v, A, b, r),
           NamesChild(v, at, b), KindIs(v, at, "name"),
           NEW e, e.child = Own(v, at),
           NEW s, Alike(r, s, {"std", "dir", "links", "size", "ads", "total", "streams"}),
           s.kids = <<e>> \o r.kids
    PROVE  RecordShows(v, A \union {at}, b, s)
<1>1. /\ Own(v, at) # b
      /\ ~ Is(v, at, {"data", "i30"}) /\ ~ Is(v, at, {"ads"})
      /\ ~ Is(v, at, {"other"}) /\ ~ Is(v, at, {"si"}) /\ ~ Directs(v, at)
  BY OnlyKind DEF NamesChild
<1>2. /\ DOMAIN r = Fields
      /\ LinksShow(v, A, b, r) /\ KidsShow(v, A, b, r)
      /\ SizeShows(v, A, b, r) /\ AdsShow(v, A, b, r) /\ CountShows(v, A, b, r)
      /\ StdShows(v, A, b, r) /\ DirShows(v, A, b, r)
  BY DEF RecordShows
<1>3. /\ s.std = r.std /\ s.dir = r.dir /\ s.links = r.links /\ s.size = r.size /\ s.ads = r.ads
      /\ s.total = r.total /\ s.streams = r.streams /\ DOMAIN s = Fields
  BY DEF Alike
<1>4. LinksShow(v, A \union {at}, b, s) /\ KidsShow(v, A \union {at}, b, s)
  BY <1>1, <1>2, <1>3, LinksKept, KidsGrow
<1>5. SizeShows(v, A \union {at}, b, s)
  BY <1>1, <1>2, <1>3, SizeKept
<1>6. AdsShow(v, A \union {at}, b, s)
  BY <1>1, <1>2, <1>3, AdsKept
<1>7. CountShows(v, A \union {at}, b, s)
  <2>1. r.total \in Int /\ r.streams \in Int
    BY <1>2 DEF CountShows
  <2>2. s.total = r.total + 0 /\ s.streams = r.streams + 0
    BY <1>3, <2>1
  <2> QED
    BY <1>1, <1>2, <2>2, CountKept
<1>8. StdShows(v, A \union {at}, b, s)
  BY <1>1, <1>2, <1>3, StdKept
<1>9. DirShows(v, A \union {at}, b, s)
  BY <1>1, <1>2, <1>3, DirKept
<1> QED
  BY <1>3, <1>4, <1>5, <1>6, <1>7, <1>8, <1>9 DEF RecordShows

(* Sizes: of the unnamed data, or of the directory's index.                 *)
LEMMA StreamShows ==
    ASSUME NEW v, NEW A, NEW at, New(A, at), Parsing(v, A),
           NEW b, NEW r, RecordShows(v, A, b, r),
           Own(v, at) = b, NEW k \in {"data", "i30"}, KindIs(v, at, k),
           NEW s, Alike(r, s, {"std", "links", "kids", "ads"}),
           NEW n \in {0, 1}, s.total = r.total + n, s.streams = r.streams + n,
           s.size = r.size + Attribute(v, at).size,
           s.dir = IF k = "i30" THEN TRUE ELSE r.dir
    PROVE  RecordShows(v, A \union {at}, b, s)
<1>1. /\ ~ Is(v, at, {"name"}) /\ Is(v, at, {"data", "i30"}) /\ ~ Is(v, at, {"ads"})
      /\ ~ Is(v, at, {"other"}) /\ ~ Is(v, at, {"si"}) /\ ~ NamesChild(v, at, b)
      /\ Directs(v, at) <=> k = "i30"
  BY OnlyKind DEF NamesChild
<1>2. /\ DOMAIN r = Fields
      /\ LinksShow(v, A, b, r) /\ KidsShow(v, A, b, r)
      /\ SizeShows(v, A, b, r) /\ AdsShow(v, A, b, r) /\ CountShows(v, A, b, r)
      /\ StdShows(v, A, b, r) /\ DirShows(v, A, b, r)
  BY DEF RecordShows
<1>3. /\ s.std = r.std /\ s.links = r.links /\ s.kids = r.kids /\ s.ads = r.ads
      /\ DOMAIN s = Fields
  BY DEF Alike
<1>4. LinksShow(v, A \union {at}, b, s) /\ KidsShow(v, A \union {at}, b, s)
  BY <1>1, <1>2, <1>3, LinksKept, KidsKept
<1>5. SizeShows(v, A \union {at}, b, s)
  <2>1. Sized(v, Parts(v, A, b, {"data", "i30"}))
    BY SizesAre DEF New
  <2>2. Attribute(v, at).size \in Nat
    <3>1. Attribute(v, at) = Attrs(v, at[1])[at[2]]
      BY DEF Attribute, Attrs
    <3> QED
      BY <3>1, AttrsAre DEF KindIs
  <2> QED
    BY <1>1, <1>2, <2>1, <2>2, SizeGrows
<1>6. AdsShow(v, A \union {at}, b, s)
  BY <1>1, <1>2, <1>3, AdsKept
<1>7. CountShows(v, A \union {at}, b, s)
  BY <1>1, <1>2, CountKept
<1>8. StdShows(v, A \union {at}, b, s)
  BY <1>1, <1>2, <1>3, StdKept
<1>9. DirShows(v, A \union {at}, b, s)
  <2>1. CASE k = "i30"
    BY <1>1, <2>1, DirGrows
  <2>2. CASE k # "i30"
    BY <1>1, <1>2, <2>2, DirKept
  <2> QED
    BY <2>1, <2>2
<1> QED
  BY <1>3, <1>4, <1>5, <1>6, <1>7, <1>8, <1>9 DEF RecordShows

LEMMA NamedStreamShows ==
    ASSUME NEW v, NEW A, NEW at, New(A, at), NEW b, NEW r, RecordShows(v, A, b, r),
           Own(v, at) = b, KindIs(v, at, "ads"),
           NEW s, Alike(r, s, {"std", "dir", "links", "kids", "size"}),
           s.total = r.total + 1, s.streams = r.streams + 1,
           s.ads = Append(r.ads, Attribute(v, at).id)
    PROVE  RecordShows(v, A \union {at}, b, s)
<1>1. /\ ~ Is(v, at, {"name"}) /\ ~ Is(v, at, {"data", "i30"}) /\ Is(v, at, {"ads"})
      /\ ~ Is(v, at, {"other"}) /\ ~ Is(v, at, {"si"}) /\ ~ NamesChild(v, at, b)
      /\ ~ Directs(v, at)
  BY OnlyKind DEF NamesChild
<1>2. /\ DOMAIN r = Fields
      /\ LinksShow(v, A, b, r) /\ KidsShow(v, A, b, r)
      /\ SizeShows(v, A, b, r) /\ AdsShow(v, A, b, r) /\ CountShows(v, A, b, r)
      /\ StdShows(v, A, b, r) /\ DirShows(v, A, b, r)
  BY DEF RecordShows
<1>3. /\ s.std = r.std /\ s.dir = r.dir /\ s.links = r.links /\ s.kids = r.kids
      /\ s.size = r.size /\ DOMAIN s = Fields
  BY DEF Alike
<1>4. LinksShow(v, A \union {at}, b, s) /\ KidsShow(v, A \union {at}, b, s)
  BY <1>1, <1>2, <1>3, LinksKept, KidsKept
<1>5. SizeShows(v, A \union {at}, b, s)
  BY <1>1, <1>2, <1>3, SizeKept
<1>6. AdsShow(v, A \union {at}, b, s)
  BY <1>1, <1>2, AdsGrow
<1>7. CountShows(v, A \union {at}, b, s)
  BY <1>1, <1>2, CountKept
<1>8. StdShows(v, A \union {at}, b, s)
  BY <1>1, <1>2, <1>3, StdKept
<1>9. DirShows(v, A \union {at}, b, s)
  BY <1>1, <1>2, <1>3, DirKept
<1> QED
  BY <1>3, <1>4, <1>5, <1>6, <1>7, <1>8, <1>9 DEF RecordShows

LEMMA OtherShows ==
    ASSUME NEW v, NEW A, NEW at, New(A, at), NEW b, NEW r, RecordShows(v, A, b, r),
           Own(v, at) = b, KindIs(v, at, "other"),
           NEW s, Alike(r, s, {"std", "dir", "links", "kids", "size", "ads", "streams"}),
           s.total = r.total + 1
    PROVE  RecordShows(v, A \union {at}, b, s)
<1>1. /\ ~ Is(v, at, {"name"}) /\ ~ Is(v, at, {"data", "i30"}) /\ ~ Is(v, at, {"ads"})
      /\ Is(v, at, {"other"}) /\ ~ Is(v, at, {"si"}) /\ ~ NamesChild(v, at, b)
      /\ ~ Directs(v, at)
  BY OnlyKind DEF NamesChild
<1>2. /\ DOMAIN r = Fields
      /\ LinksShow(v, A, b, r) /\ KidsShow(v, A, b, r)
      /\ SizeShows(v, A, b, r) /\ AdsShow(v, A, b, r) /\ CountShows(v, A, b, r)
      /\ StdShows(v, A, b, r) /\ DirShows(v, A, b, r)
  BY DEF RecordShows
<1>3. /\ s.std = r.std /\ s.dir = r.dir /\ s.links = r.links /\ s.kids = r.kids
      /\ s.size = r.size /\ s.ads = r.ads /\ s.streams = r.streams /\ DOMAIN s = Fields
  BY DEF Alike
<1>4. LinksShow(v, A \union {at}, b, s) /\ KidsShow(v, A \union {at}, b, s)
  BY <1>1, <1>2, <1>3, LinksKept, KidsKept
<1>5. SizeShows(v, A \union {at}, b, s)
  BY <1>1, <1>2, <1>3, SizeKept
<1>6. AdsShow(v, A \union {at}, b, s)
  BY <1>1, <1>2, <1>3, AdsKept
<1>7. CountShows(v, A \union {at}, b, s)
  BY <1>1, <1>2, <1>3, CountGrows
<1>8. StdShows(v, A \union {at}, b, s)
  BY <1>1, <1>2, <1>3, StdKept
<1>9. DirShows(v, A \union {at}, b, s)
  BY <1>1, <1>2, <1>3, DirKept
<1> QED
  BY <1>3, <1>4, <1>5, <1>6, <1>7, <1>8, <1>9 DEF RecordShows

-----------------------------------------------------------------------------
(* One place, in the index                                                 *)

Writes(x, b, y) ==
  DOMAIN y = DOMAIN x /\ \A c \in DOMAIN x : c # b => y[c] = x[c]

LEMMA WriteShows ==
    ASSUME NEW v, NEW A, NEW at, New(A, at), NEW x, Shows(v, A, x),
           NEW b \in DOMAIN x, \A c : Concerns(v, at, c) <=> c = b,
           NEW y, Writes(x, b, y), RecordShows(v, A \union {at}, b, y[b])
    PROVE  Shows(v, A \union {at}, y)
<1> DEFINE B == A \union {at}
<1>1. ASSUME NEW c PROVE c \in DOMAIN y <=> \E a \in B : Concerns(v, a, c)
  <2>1. c \in DOMAIN x <=> \E a \in A : Concerns(v, a, c)
    BY DEF Shows
  <2>2. c \in DOMAIN y <=> c \in DOMAIN x
    BY DEF Writes
  <2>3. (\E a \in B : Concerns(v, a, c)) <=> (\E a \in A : Concerns(v, a, c)) \/ c = b
    OBVIOUS
  <2> HIDE DEF B
  <2> QED
    BY <2>1, <2>2, <2>3
<1>2. ASSUME NEW c \in DOMAIN y PROVE RecordShows(v, B, c, y[c])
  <2>1. CASE c = b
    BY <2>1
  <2>2. CASE c # b
    <3>1. c \in DOMAIN x /\ y[c] = x[c] /\ ~ Concerns(v, at, c)
      BY <1>2, <2>2 DEF Writes
    <3>2. RecordShows(v, A, c, x[c])
      BY <3>1 DEF Shows
    <3> QED
      BY <3>1, <3>2, Unconcerned
  <2> QED
    BY <2>1, <2>2
<1> HIDE DEF B
<1>3. Shows(v, B, y)
  BY <1>1, <1>2 DEF Shows
<1> QED
  BY <1>3 DEF B

(* The name of a file in another directory.                                 *)
Enters(x, p, e, z, y) ==
  /\ DOMAIN y = DOMAIN x \union {p}
  /\ \A c \in DOMAIN x : c # p => y[c] = z[c]
  /\ LET r == IF p \in DOMAIN x THEN x[p] ELSE NewUnified
     IN /\ Alike(r, y[p], {"std", "dir", "links", "size", "ads", "total", "streams"})
        /\ y[p].kids = <<e>> \o r.kids

LEMMA EnterShows ==
    ASSUME NEW v, NEW A, NEW at, New(A, at), NEW x, Shows(v, A, x),
           NEW b \in DOMAIN x, Own(v, at) = b, KindIs(v, at, "name"),
           NEW p, p # b, Attribute(v, at).parent = p,
           NEW z, Writes(x, b, z), RecordShows(v, A \union {at}, b, z[b]),
           NEW e, e.child = b, NEW y, Enters(x, p, e, z, y)
    PROVE  Shows(v, A \union {at}, y)
<1> DEFINE B == A \union {at}
           r == IF p \in DOMAIN x THEN x[p] ELSE NewUnified
<1>1. ASSUME NEW c PROVE Concerns(v, at, c) <=> c \in {b, p}
  BY OnlyKind DEF Concerns
<1>2. ASSUME NEW c PROVE c \in DOMAIN y <=> \E a \in B : Concerns(v, a, c)
  <2>1. c \in DOMAIN x <=> \E a \in A : Concerns(v, a, c)
    BY DEF Shows
  <2>2. c \in DOMAIN y <=> c \in DOMAIN x \/ c \in {b, p}
    BY DEF Enters
  <2>3. (\E a \in B : Concerns(v, a, c)) <=> (\E a \in A : Concerns(v, a, c)) \/ c \in {b, p}
    BY <1>1
  <2> HIDE DEF B
  <2> QED
    BY <2>1, <2>2, <2>3
<1>3. RecordShows(v, B, p, y[p])
  <2>1. RecordShows(v, A, p, r)
    <3>1. CASE p \in DOMAIN x
      BY <3>1 DEF Shows
    <3>2. CASE p \notin DOMAIN x
      <4>1. \A a \in A : ~ Concerns(v, a, p)
        BY <3>2 DEF Shows
      <4> QED
        BY <3>2, <4>1, FreshShows
    <3> QED
      BY <3>1, <3>2
  <2>2. NamesChild(v, at, p)
    BY OnlyKind DEF NamesChild
  <2>3. /\ Alike(r, y[p], {"std", "dir", "links", "size", "ads", "total", "streams"})
        /\ y[p].kids = <<e>> \o r.kids
    BY DEF Enters
  <2> HIDE DEF r
  <2> QED
    BY <2>1, <2>2, <2>3, EntryShows
<1>4. ASSUME NEW c \in DOMAIN y PROVE RecordShows(v, B, c, y[c])
  <2>1. CASE c = p
    BY <1>3, <2>1
  <2>2. CASE c = b
    BY <2>2 DEF Enters
  <2>3. CASE c \notin {b, p}
    <3>1. c \in DOMAIN x /\ y[c] = z[c] /\ z[c] = x[c] /\ ~ Concerns(v, at, c)
      BY <1>1, <1>4, <2>3 DEF Writes, Enters
    <3>2. RecordShows(v, A, c, x[c])
      BY <3>1 DEF Shows
    <3> QED
      BY <3>1, <3>2, Unconcerned
  <2> QED
    BY <2>1, <2>2, <2>3
<1> HIDE DEF B
<1>5. Shows(v, B, y)
  BY <1>2, <1>4 DEF Shows
<1> QED
  BY <1>5 DEF B

(* A place that shows nothing, of a record that is there.                   *)
LEMMA IdleShows ==
    ASSUME NEW v, NEW A, NEW at, New(A, at), NEW x, Shows(v, A, x),
           Own(v, at) \in DOMAIN x, ~ Is(v, at, Kinds), ~ Directs(v, at)
    PROVE  Shows(v, A \union {at}, x)
<1> DEFINE B == A \union {at}
<1>1. ASSUME NEW c PROVE Concerns(v, at, c) <=> c = Own(v, at)
  BY DEF Concerns, Is, Kinds
<1>2. ASSUME NEW c PROVE c \in DOMAIN x <=> \E a \in B : Concerns(v, a, c)
  <2>1. c \in DOMAIN x <=> \E a \in A : Concerns(v, a, c)
    BY DEF Shows
  <2>2. (\E a \in B : Concerns(v, a, c)) <=> (\E a \in A : Concerns(v, a, c)) \/ c = Own(v, at)
    BY <1>1
  <2> HIDE DEF B
  <2> QED
    BY <2>1, <2>2
<1>3. ASSUME NEW c \in DOMAIN x PROVE RecordShows(v, B, c, x[c])
  <2>1. RecordShows(v, A, c, x[c])
    BY <1>3 DEF Shows
  <2> QED
    BY <2>1, Idle
<1> HIDE DEF B
<1>4. Shows(v, B, x)
  BY <1>2, <1>3 DEF Shows
<1> QED
  BY <1>4 DEF B

(* What the attribute writes to the record, field by field.                 *)
LEMMA SizeWritten ==
    ASSUME NEW x, NEW b \in DOMAIN x, DOMAIN x[b] = Fields,
           x[b].total \in Int, x[b].streams \in Int,
           NEW a, NEW flag \in {"hasData", "hasI30"}
    PROVE  LET y == AddSize(x, b, a, flag)
           IN /\ Writes(x, b, y)
              /\ Alike(x[b], y[b], {"std", "dir", "links", "kids", "ads"})
              /\ y[b].size = x[b].size + a.size
              /\ \E n \in {0, 1} : y[b].total = x[b].total + n /\ y[b].streams = x[b].streams + n
<1> DEFINE y == AddSize(x, b, a, flag)
           n == IF x[b][flag] THEN 0 ELSE 1
<1>1. Writes(x, b, y)
  BY DEF Writes, AddSize
<1>2. Alike(x[b], y[b], {"std", "dir", "links", "kids", "ads"})
  BY DEF AddSize, Alike, Fields
<1>3. y[b].size = x[b].size + a.size
  BY DEF AddSize, Fields
<1>4. /\ y[b].streams = IF x[b][flag] THEN x[b].streams ELSE x[b].streams + 1
      /\ y[b].total = IF x[b][flag] THEN x[b].total ELSE x[b].total + 1
  BY DEF AddSize, Fields
<1>5. n \in {0, 1} /\ y[b].total = x[b].total + n /\ y[b].streams = x[b].streams + n
  BY <1>4
<1> HIDE DEF y, n
<1>6. \E m \in {0, 1} : y[b].total = x[b].total + m /\ y[b].streams = x[b].streams + m
  BY <1>5
<1> QED
  BY <1>1, <1>2, <1>3, <1>6 DEF y

LEMMA SizesShow ==
    ASSUME NEW v, NEW A, NEW at, New(A, at), Parsing(v, A), NEW x, Shows(v, A, x),
           NEW b \in DOMAIN x, Own(v, at) = b, NEW k \in {"data", "i30"}, KindIs(v, at, k),
           NEW dir
    PROVE  Shows(v, A \union {at}, AddAttribute(x, b, dir, Attribute(v, at)))
<1> DEFINE a == Attribute(v, at)
           flag == IF k = "data" THEN "hasData" ELSE "hasI30"
           z == AddSize(x, b, a, flag)
           y == AddAttribute(x, b, dir, a)
<1>0. a.kind = k
  BY DEF KindIs
<1>1. RecordShows(v, A, b, x[b]) /\ DOMAIN x[b] = Fields
      /\ x[b].total \in Int /\ x[b].streams \in Int
  BY DEF Shows, RecordShows, CountShows
<1>2. flag \in {"hasData", "hasI30"}
  OBVIOUS
<1>3. /\ Writes(x, b, z)
      /\ Alike(x[b], z[b], {"std", "dir", "links", "kids", "ads"})
      /\ z[b].size = x[b].size + a.size
      /\ \E n \in {0, 1} : z[b].total = x[b].total + n /\ z[b].streams = x[b].streams + n
  <2> HIDE DEF flag, a
  <2> QED
    BY <1>1, <1>2, SizeWritten
<1>4. y = IF k = "data" THEN z ELSE [z EXCEPT ![b].dir = TRUE]
  <2>1. CASE k = "data"
    <3>1. y = AddSize(x, b, a, "hasData")
      BY <1>0, <2>1 DEF AddAttribute
    <3> QED
      BY <2>1, <3>1
  <2>2. CASE k = "i30"
    <3>1. y = [AddSize(x, b, a, "hasI30") EXCEPT ![b].dir = TRUE]
      BY <1>0, <2>2 DEF AddAttribute
    <3> QED
      BY <2>2, <3>1
  <2> QED
    BY <2>1, <2>2
<1>5. PICK n \in {0, 1} : z[b].total = x[b].total + n /\ z[b].streams = x[b].streams + n
  BY <1>3
<1> HIDE DEF z, y, flag
<1>6. DOMAIN z = DOMAIN x /\ DOMAIN z[b] = Fields
  BY <1>3 DEF Writes, Alike
<1>7. Writes(x, b, y)
  BY <1>3, <1>4, <1>6 DEF Writes
<1>8. /\ Alike(x[b], y[b], {"std", "links", "kids", "ads"})
      /\ y[b].size = x[b].size + a.size
      /\ y[b].total = x[b].total + n /\ y[b].streams = x[b].streams + n
      /\ y[b].dir = IF k = "i30" THEN TRUE ELSE x[b].dir
  <2>1. CASE k = "data"
    BY <1>3, <1>4, <1>5, <2>1 DEF Alike
  <2>2. CASE k = "i30"
    <3>1. y[b] = [z[b] EXCEPT !.dir = TRUE]
      BY <1>4, <1>6, <2>2
    <3>2. /\ DOMAIN y[b] = Fields /\ y[b].dir = TRUE
          /\ \A f \in Fields : f # "dir" => y[b][f] = z[b][f]
      BY <1>6, <3>1 DEF Fields
    <3>3. \A f \in {"std", "links", "kids", "ads", "size", "total", "streams"} : y[b][f] = z[b][f]
      BY <3>2 DEF Fields
    <3>4. y[b].size = z[b].size /\ y[b].total = z[b].total /\ y[b].streams = z[b].streams
      BY <3>3
    <3>5. Alike(x[b], y[b], {"std", "links", "kids", "ads"})
      BY <1>3, <3>2, <3>3 DEF Alike
    <3> QED
      BY <1>3, <1>5, <2>2, <3>2, <3>4, <3>5
  <2> QED
    BY <2>1, <2>2
<1>9. RecordShows(v, A \union {at}, b, y[b])
  BY ZenonT(40), <1>1, <1>8, StreamShows
<1>10. \A c : Concerns(v, at, c) <=> c = b
  BY OnlyKind DEF Concerns
<1>11. Shows(v, A \union {at}, y)
  BY <1>7, <1>9, <1>10, WriteShows
<1> QED
  BY <1>11 DEF y

LEMMA NamedStreamsShow ==
    ASSUME NEW v, NEW A, NEW at, New(A, at), NEW x, Shows(v, A, x),
           NEW b \in DOMAIN x, Own(v, at) = b, KindIs(v, at, "ads"), NEW dir
    PROVE  Shows(v, A \union {at}, AddAttribute(x, b, dir, Attribute(v, at)))
<1> DEFINE a == Attribute(v, at)
           y == AddAttribute(x, b, dir, a)
<1>0. a.kind = "ads"
  BY DEF KindIs
<1>1. RecordShows(v, A, b, x[b]) /\ DOMAIN x[b] = Fields
  BY DEF Shows, RecordShows
<1>2. y = [x EXCEPT ![b].ads = Append(@, a.id), ![b].streams = @ + 1, ![b].total = @ + 1]
  BY <1>0 DEF AddAttribute
<1> HIDE DEF y
<1>3. Writes(x, b, y)
  BY <1>2 DEF Writes
<1>4. Alike(x[b], y[b], {"std", "dir", "links", "kids", "size"})
  BY <1>1, <1>2 DEF Alike, Fields
<1>5. /\ y[b].total = x[b].total + 1 /\ y[b].streams = x[b].streams + 1
      /\ y[b].ads = Append(x[b].ads, a.id)
  BY <1>1, <1>2 DEF Fields
<1>6. RecordShows(v, A \union {at}, b, y[b])
  BY <1>1, <1>4, <1>5, NamedStreamShows
<1>7. \A c : Concerns(v, at, c) <=> c = b
  BY OnlyKind DEF Concerns
<1>8. Shows(v, A \union {at}, y)
  BY <1>3, <1>6, <1>7, WriteShows
<1> QED
  BY <1>8 DEF y

LEMMA OthersShow ==
    ASSUME NEW v, NEW A, NEW at, New(A, at), NEW x, Shows(v, A, x),
           NEW b \in DOMAIN x, Own(v, at) = b, KindIs(v, at, "other"), NEW dir
    PROVE  Shows(v, A \union {at}, AddAttribute(x, b, dir, Attribute(v, at)))
<1> DEFINE a == Attribute(v, at)
           y == AddAttribute(x, b, dir, a)
<1>0. a.kind = "other"
  BY DEF KindIs
<1>1. RecordShows(v, A, b, x[b]) /\ DOMAIN x[b] = Fields
  BY DEF Shows, RecordShows
<1>2. y = [x EXCEPT ![b].internal = Append(@, a.size), ![b].total = @ + 1]
  BY <1>0 DEF AddAttribute
<1> HIDE DEF y
<1>3. Writes(x, b, y)
  BY <1>2 DEF Writes
<1>4. Alike(x[b], y[b], {"std", "dir", "links", "kids", "size", "ads", "streams"})
  BY <1>1, <1>2 DEF Alike, Fields
<1>5. y[b].total = x[b].total + 1
  BY <1>1, <1>2 DEF Fields
<1>6. RecordShows(v, A \union {at}, b, y[b])
  BY <1>1, <1>4, <1>5, OtherShows
<1>7. \A c : Concerns(v, at, c) <=> c = b
  BY OnlyKind DEF Concerns
<1>8. Shows(v, A \union {at}, y)
  BY <1>3, <1>6, <1>7, WriteShows
<1> QED
  BY <1>8 DEF y

(* The standard information takes the flag of its segment, which says      *)
(* "directory" if any segment of the record did before.                     *)
LEMMA StandardShows ==
    ASSUME NEW v, NEW A, NEW at, New(A, at), Parsing(v, A), NEW x, Shows(v, A, x),
           NEW b \in DOMAIN x, Own(v, at) = b, KindIs(v, at, "si")
    PROVE  Shows(v, A \union {at},
                 AddAttribute(x, b, SegmentOf(v, at[1])[1].dir, Attribute(v, at)))
<1> DEFINE a == Attribute(v, at)
           dir == SegmentOf(v, at[1])[1].dir
           y == AddAttribute(x, b, dir, a)
<1>0. a.kind = "si"
  BY DEF KindIs
<1>1. RecordShows(v, A, b, x[b]) /\ DOMAIN x[b] = Fields
  BY DEF Shows, RecordShows
<1>2. y = [x EXCEPT ![b].std = TRUE, ![b].dir = dir]
  BY <1>0 DEF AddAttribute
<1> HIDE DEF y
<1>3. Writes(x, b, y)
  BY <1>2 DEF Writes
<1>4. Alike(x[b], y[b], {"links", "kids", "size", "ads", "total", "streams"})
  BY <1>1, <1>2 DEF Alike, Fields
<1>5. y[b].std = TRUE /\ y[b].dir = dir
  BY <1>1, <1>2 DEF Fields
<1>6. ASSUME ~ dir, NEW c \in Directed(v, A, b) PROVE FALSE
  <2>1. c \in A /\ Own(v, c) = b /\ Directs(v, c)
    BY <1>6 DEF Directed
  <2>2. c[1] \in InUse(v) /\ at[1] \in InUse(v) /\ v \in Volumes
    BY <2>1 DEF Parsing, KindIs
  <2>3. SaysDirectory(v, c[1])
    BY <2>1 DEF Directs, SaysDirectory, Is, Attribute, Attrs
  <2>4. \E i \in DOMAIN SegmentOf(v, at[1])[1].attrs : SegmentOf(v, at[1])[1].attrs[i].kind = "si"
    BY DEF KindIs, Attribute, Attrs
  <2>5. Owner(v, at[1]) = Owner(v, c[1])
    BY <2>1 DEF Own
  <2> QED
    BY <1>6, <2>2, <2>3, <2>4, <2>5, DirectoryAssumption
<1>7. dir \in BOOLEAN
  BY AttrsAre DEF KindIs
<1>8. y[b].dir \/ Directed(v, A, b) = {}
  BY <1>5, <1>6
<1> HIDE DEF a
<1>9. RecordShows(v, A \union {at}, b, y[b])
  BY <1>1, <1>4, <1>5, <1>8, SiShows
<1>10. \A c : Concerns(v, at, c) <=> c = b
  BY OnlyKind DEF Concerns
<1>11. Shows(v, A \union {at}, y)
  BY <1>3, <1>9, <1>10, WriteShows
<1> QED
  BY <1>11 DEF y, a

LEMMA NamesShow ==
    ASSUME NEW v, NEW A, NEW at, New(A, at), Parsing(v, A), NEW x, Shows(v, A, x),
           NEW b \in DOMAIN x, Own(v, at) = b, KindIs(v, at, "name"), NEW dir
    PROVE  Shows(v, A \union {at}, AddAttribute(x, b, dir, Attribute(v, at)))
<1> DEFINE a == Attribute(v, at)
           p == a.parent
           link == [parent |-> a.parent, id |-> a.id]
           e == [child |-> b, place |-> Len(x[b].links)]
           z == [x EXCEPT ![b].links = <<link>> \o @]
           w == EnsureRecord(z, p)
           q == [w EXCEPT ![p].kids = <<e>> \o @]
           y == AddAttribute(x, b, dir, a)
<1>0. a.kind = "name" /\ a.ns # DosOnly
  BY DEF KindIs, Counts
<1>1. RecordShows(v, A, b, x[b]) /\ DOMAIN x[b] = Fields
  BY DEF Shows, RecordShows
<1>2. p # NoParent
  <2>1. a = Attrs(v, at[1])[at[2]]
    BY DEF Attribute, Attrs
  <2>2. p \in Nat
    BY SMTT(20), <1>0, <2>1, AttrsAre DEF KindIs
  <2> QED
    BY <2>2, ReaderAssumption
<1>3. y = IF p = b THEN z ELSE q
  <2>1. y = AddName(x, b, a)
    BY <1>0 DEF AddAttribute
  <2> QED
    BY <1>0, <1>2, <2>1 DEF AddName
<1>4. link = LinkOf(a)
  BY DEF LinkOf
<1>5. Writes(x, b, z)
  BY DEF Writes
<1>6. /\ Alike(x[b], z[b], {"std", "dir", "kids", "size", "ads", "total", "streams"})
      /\ z[b].links = <<LinkOf(a)>> \o x[b].links
  BY <1>1, <1>4 DEF Alike, Fields
<1>7. RecordShows(v, A \union {at}, b, z[b])
  <2> HIDE DEF z
  <2> QED
    BY <1>1, <1>6, NameShows
<1>8. CASE p = b
  <2>1. \A c : Concerns(v, at, c) <=> c = b
    BY <1>8, OnlyKind DEF Concerns
  <2>2. Shows(v, A \union {at}, z)
    <3> HIDE DEF z
    <3> QED
      BY <1>5, <1>7, <2>1, WriteShows
  <2> QED
    BY <1>3, <1>8, <2>2
<1>9. CASE p # b
  <2> DEFINE r == IF p \in DOMAIN x THEN x[p] ELSE NewUnified
  <2>1. DOMAIN z = DOMAIN x /\ \A c \in DOMAIN x : c # b => z[c] = x[c]
    BY <1>5 DEF Writes
  <2>2. w = [f \in DOMAIN z \union {p} |-> IF f \in DOMAIN z THEN z[f] ELSE NewUnified]
    BY DEF EnsureRecord
  <2> HIDE DEF z
  <2>3. w[p] = r
    BY <1>9, <2>1, <2>2
  <2>4. DOMAIN w = DOMAIN x \union {p} /\ \A c \in DOMAIN x : w[c] = z[c]
    BY <2>1, <2>2
  <2>5. DOMAIN r = Fields
    <3>1. CASE p \in DOMAIN x
      BY <3>1 DEF Shows, RecordShows
    <3>2. CASE p \notin DOMAIN x
      BY <3>2 DEF NewUnified, Fields
    <3> QED
      BY <3>1, <3>2
  <2> HIDE DEF w
  <2>6. DOMAIN q = DOMAIN x \union {p} /\ \A c \in DOMAIN x : c # p => q[c] = z[c]
    BY <2>4
  <2> HIDE DEF r
  <2>7. q[p] = [r EXCEPT !.kids = <<e>> \o @]
    BY <2>3, <2>4
  <2> HIDE DEF q
  <2>8. /\ Alike(r, q[p], {"std", "dir", "links", "size", "ads", "total", "streams"})
        /\ q[p].kids = <<e>> \o r.kids
    BY <2>5, <2>7 DEF Alike, Fields
  <2>9. e.child = b
    OBVIOUS
  <2>10. Shows(v, A \union {at}, q)
    <3> HIDE DEF e
    <3>1. Enters(x, p, e, z, q)
      BY <2>6, <2>8 DEF r, Enters
    <3> HIDE DEF p
    <3>2. a.parent = p /\ Attribute(v, at).parent = p
      BY DEF p
    <3> HIDE DEF a
    <3> QED
      BY <1>5, <1>7, <1>9, <2>9, <3>1, <3>2, EnterShows
  <2> QED
    BY <1>3, <1>9, <2>10
<1> QED
  BY <1>8, <1>9

(* Whatever the attribute is.                                               *)
LEMMA AttributeShows ==
    ASSUME NEW v \in Volumes, NEW A, NEW at, New(A, at), Parsing(v, A),
           at[1] \in InUse(v), at[2] \in DOMAIN Attrs(v, at[1]),
           NEW x, Shows(v, A, x), NEW b \in DOMAIN x, Own(v, at) = b
    PROVE  Shows(v, A \union {at},
                 AddAttribute(x, b, SegmentOf(v, at[1])[1].dir, Attribute(v, at)))
<1> DEFINE a == Attribute(v, at)
           k == a.kind
           dir == SegmentOf(v, at[1])[1].dir
<1>0. k \in Kinds
  <2>1. a = Attrs(v, at[1])[at[2]]
    BY DEF Attribute, Attrs
  <2> QED
    BY <2>1, AttrsAre
<1>1. ASSUME ~ Counts(a) PROVE Shows(v, A \union {at}, AddAttribute(x, b, dir, a))
  <2>1. k = "name" /\ a.ns = DosOnly
    BY <1>1 DEF Counts
  <2>2. AddAttribute(x, b, dir, a) = x
    BY <2>1 DEF AddAttribute, AddName
  <2>3. \A K : ~ Is(v, at, K)
    BY <1>1 DEF Is
  <2>4. at[2] # Len(Attrs(v, at[1])) + 1
    <3> DEFINE n == Len(Attrs(v, at[1]))
    <3>1. n \in Nat /\ at[2] \in 1 .. n
      BY AttrsAre
    <3> HIDE DEF n
    <3> QED
      BY <3>1 DEF n
  <2>5. ~ Directs(v, at)
    BY <2>3, <2>4 DEF Directs
  <2>6. Shows(v, A \union {at}, x)
    BY <2>3, <2>5, IdleShows
  <2> QED
    BY <2>2, <2>6
<1>2. ASSUME Counts(a) PROVE Shows(v, A \union {at}, AddAttribute(x, b, dir, a))
  <2>1. KindIs(v, at, k)
    BY <1>2 DEF KindIs
  <2>2. CASE k = "si"
    <3>1. KindIs(v, at, "si")
      BY <2>1, <2>2
    <3> QED
      BY <3>1, StandardShows
  <2>3. CASE k = "name"
    <3>1. KindIs(v, at, "name")
      BY <2>1, <2>3
    <3> HIDE DEF dir
    <3> QED
      BY <3>1, NamesShow
  <2>4. CASE k \in {"data", "i30"}
    <3> HIDE DEF dir, k
    <3>1. Shows(v, A \union {at}, AddAttribute(x, b, dir, Attribute(v, at)))
      BY <2>1, <2>4, SizesShow
    <3> QED
      BY <3>1
  <2>5. CASE k = "ads"
    <3>1. KindIs(v, at, "ads")
      BY <2>1, <2>5
    <3> HIDE DEF dir
    <3> QED
      BY <3>1, NamedStreamsShow
  <2>6. CASE k = "other"
    <3>1. KindIs(v, at, "other")
      BY <2>1, <2>6
    <3> HIDE DEF dir
    <3> QED
      BY <3>1, OthersShow
  <2> QED
    BY <1>0, <2>2, <2>3, <2>4, <2>5, <2>6 DEF Kinds
<1> QED
  BY <1>1, <1>2

(* Before its attributes, the record is made sure of.                       *)
LEMMA EnsureShows ==
    ASSUME NEW v \in Volumes, NEW A, NEW at, New(A, at), at[1] \in InUse(v), at[2] = 0,
           NEW x, Shows(v, A, x), NEW b, Own(v, at) = b
    PROVE  Shows(v, A \union {at}, EnsureRecord(x, b))
<1> DEFINE B == A \union {at}
           y == EnsureRecord(x, b)
<1>1. (\A K : ~ Is(v, at, K)) /\ ~ Directs(v, at)
  <2> DEFINE n == Len(Attrs(v, at[1]))
  <2>1. n \in Nat /\ DOMAIN Attrs(v, at[1]) = 1 .. n
    BY AttrsAre
  <2> HIDE DEF n
  <2>2. at[2] \notin DOMAIN Attrs(v, at[1]) /\ at[2] # n + 1
    BY <2>1
  <2> QED
    BY <2>2 DEF Is, Directs, n
<1>2. \A c : Concerns(v, at, c) <=> c = b
  BY <1>1 DEF Concerns
<1>3. y = [f \in DOMAIN x \union {b} |-> IF f \in DOMAIN x THEN x[f] ELSE NewUnified]
  BY DEF EnsureRecord
<1> HIDE DEF y
<1>4. ASSUME NEW c PROVE c \in DOMAIN y <=> \E a \in B : Concerns(v, a, c)
  <2>1. c \in DOMAIN x <=> \E a \in A : Concerns(v, a, c)
    BY DEF Shows
  <2>2. c \in DOMAIN y <=> c \in DOMAIN x \/ c = b
    BY <1>3
  <2>3. (\E a \in B : Concerns(v, a, c)) <=> (\E a \in A : Concerns(v, a, c)) \/ c = b
    BY <1>2
  <2> HIDE DEF B
  <2> QED
    BY <2>1, <2>2, <2>3
<1>5. ASSUME NEW c \in DOMAIN y PROVE RecordShows(v, B, c, y[c])
  <2>1. RecordShows(v, A, c, y[c])
    <3>1. CASE c \in DOMAIN x
      BY <1>3, <3>1 DEF Shows
    <3>2. CASE c \notin DOMAIN x
      <4>1. y[c] = NewUnified
        BY <1>3, <1>5, <3>2
      <4>2. \A a \in A : ~ Concerns(v, a, c)
        BY <3>2 DEF Shows
      <4> QED
        BY <4>1, <4>2, FreshShows
    <3> QED
      BY <3>1, <3>2
  <2> QED
    BY <1>1, <2>1, Idle
<1> HIDE DEF B
<1>6. Shows(v, B, y)
  BY <1>4, <1>5 DEF Shows
<1> QED
  BY <1>6 DEF B, y

(* After them, its flag.                                                    *)
LEMMA FlagShows ==
    ASSUME NEW v \in Volumes, NEW A, NEW at, New(A, at),
           at[1] \in InUse(v), at[2] = Len(Attrs(v, at[1])) + 1,
           NEW x, Shows(v, A, x), NEW b \in DOMAIN x, Own(v, at) = b
    PROVE  Shows(v, A \union {at},
                 IF SegmentOf(v, at[1])[1].dir THEN [x EXCEPT ![b].dir = TRUE] ELSE x)
<1> DEFINE B == A \union {at}
           dir == SegmentOf(v, at[1])[1].dir
           y == [x EXCEPT ![b].dir = TRUE]
<1>1. (\A K : ~ Is(v, at, K)) /\ (Directs(v, at) <=> dir)
  <2> DEFINE n == Len(Attrs(v, at[1]))
  <2>1. n \in Nat /\ DOMAIN Attrs(v, at[1]) = 1 .. n
    BY AttrsAre
  <2>0. at[2] = n + 1
    OBVIOUS
  <2> HIDE DEF n
  <2>2. at[2] \notin DOMAIN Attrs(v, at[1])
    BY <2>0, <2>1
  <2>3. \A K : ~ Is(v, at, K)
    BY <2>2 DEF Is
  <2> QED
    BY <2>0, <2>3 DEF Directs, n
<1>2. CASE ~ dir
  <2>1. Shows(v, A \union {at}, x)
    BY <1>1, <1>2, IdleShows
  <2> QED
    BY <1>2, <2>1
<1>3. CASE dir
  <2>1. \A c : Concerns(v, at, c) <=> c = b
    BY <1>1 DEF Concerns
  <2>2. RecordShows(v, A, b, x[b]) /\ DOMAIN x[b] = Fields
    BY DEF Shows, RecordShows
  <2>3. Writes(x, b, y)
    BY DEF Writes
  <2>4. y[b].dir = TRUE /\ Alike(x[b], y[b], Fields \ {"dir"})
    BY <2>2 DEF Alike, Fields
  <2> HIDE DEF y
  <2>5. RecordShows(v, B, b, y[b])
    <3> DEFINE r == x[b]
               s == y[b]
    <3>1. /\ s.std = r.std /\ s.links = r.links /\ s.kids = r.kids /\ s.size = r.size
          /\ s.ads = r.ads /\ s.total = r.total /\ s.streams = r.streams /\ DOMAIN s = Fields
      BY <2>4 DEF Alike, Fields
    <3>2. /\ LinksShow(v, A, b, r) /\ KidsShow(v, A, b, r)
          /\ SizeShows(v, A, b, r) /\ AdsShow(v, A, b, r) /\ CountShows(v, A, b, r)
          /\ StdShows(v, A, b, r)
      BY <2>2 DEF RecordShows
    <3>0. ~ NamesChild(v, at, b)
      BY <1>1 DEF NamesChild
    <3> HIDE DEF r, s
    <3>3. LinksShow(v, A \union {at}, b, s) /\ KidsShow(v, A \union {at}, b, s)
      BY <1>1, <3>0, <3>1, <3>2, LinksKept, KidsKept
    <3>4. SizeShows(v, A \union {at}, b, s)
      BY <1>1, <3>1, <3>2, SizeKept
    <3>5. AdsShow(v, A \union {at}, b, s)
      BY <1>1, <3>1, <3>2, AdsKept
    <3>6. CountShows(v, A \union {at}, b, s)
      <4>1. r.total \in Int /\ r.streams \in Int
        BY <3>2 DEF CountShows
      <4>2. s.total = r.total + 0 /\ s.streams = r.streams + 0
        BY <3>1, <4>1
      <4> QED
        BY <1>1, <3>2, <4>2, CountKept
    <3>7. StdShows(v, A \union {at}, b, s)
      BY <1>1, <3>1, <3>2, StdKept
    <3>8. DirShows(v, A \union {at}, b, s)
      <4>1. s.dir = TRUE
        BY <2>4 DEF s
      <4> QED
        BY <1>1, <1>3, <4>1, DirGrows
    <3>9. RecordShows(v, A \union {at}, b, s)
      BY <3>1, <3>3, <3>4, <3>5, <3>6, <3>7, <3>8 DEF RecordShows
    <3> QED
      BY <3>9 DEF s
  <2>6. Shows(v, A \union {at}, y)
    BY <2>1, <2>3, <2>5, WriteShows
  <2> QED
    BY <1>3, <2>6 DEF y
<1>4. dir \in BOOLEAN
  BY AttrsAre
<1> QED
  BY <1>2, <1>3, <1>4

-----------------------------------------------------------------------------
(* The places of one record                                                *)

PlacesTo(f, k) == {<<f, i>> : i \in 0 .. k}

LEMMA PlacesFinite ==
    ASSUME NEW f, NEW k \in Int
    PROVE  IsFiniteSet(PlacesTo(f, k))
<1> DEFINE g == [i \in 0 .. k |-> <<f, i>>]
           S == {g[i] : i \in 0 .. k}
<1>1. IsFiniteSet(0 .. k)
  BY FS_Interval
<1>2. IsFiniteSet(S)
  <2> HIDE DEF g
  <2> QED
    BY <1>1, ImageFinite
<1>3. S = PlacesTo(f, k)
  BY DEF PlacesTo
<1> QED
  BY <1>2, <1>3

LEMMA OnePlaceMore ==
    ASSUME NEW f, NEW k \in Nat
    PROVE  PlacesTo(f, k + 1) = PlacesTo(f, k) \union {<<f, k + 1>>}
<1>1. 0 .. k + 1 = (0 .. k) \union {k + 1}
  OBVIOUS
<1> QED
  BY <1>1 DEF PlacesTo

LEMMA NewPlace ==
    ASSUME NEW A, IsFiniteSet(A), NEW f, NEW k \in Nat, <<f, k + 1>> \notin A
    PROVE  New(A \union PlacesTo(f, k), <<f, k + 1>>)
<1>1. IsFiniteSet(A \union PlacesTo(f, k))
  <2>1. IsFiniteSet(PlacesTo(f, k))
    BY PlacesFinite
  <2> QED
    BY <2>1, FS_Union
<1>2. <<f, k + 1>> \notin PlacesTo(f, k)
  BY DEF PlacesTo
<1> QED
  BY <1>1, <1>2 DEF New

(* A record that is parsed adds all of its places.                          *)
LEMMA RecordsShow ==
    ASSUME NEW v \in Volumes, NEW A, Parsing(v, A), IsFiniteSet(A), NEW x, Shows(v, A, x),
           NEW f \in InUse(v), A \intersect Places(v, f) = {}
    PROVE  Shows(v, A \union Places(v, f), ProcessRecord(x, f, SegmentOf(v, f)[1]))
<1> DEFINE seg == SegmentOf(v, f)[1]
           b == BaseOf(f, seg)
           x0 == EnsureRecord(x, b)
           n == Len(Attrs(v, f))
           ps == Primary(f, seg)
           parsed == FoldLeft(ProcessAttribute, x0, ps)
           B(k) == A \union PlacesTo(f, k)
<1>1. n \in Nat /\ DOMAIN Attrs(v, f) = 1 .. n /\ seg.dir \in BOOLEAN /\ seg.used
  BY AttrsAre, SegmentIs
<1>2. b = Owner(v, f)
  BY DEF Owner
<1>3. \A k : Own(v, <<f, k>>) = b /\ <<f, k>>[1] = f /\ <<f, k>>[2] = k
  BY <1>2 DEF Own
<1>4. /\ DOMAIN ps = 1 .. n
      /\ \A k \in 1 .. n : ps[k] = [base |-> b, dir |-> seg.dir, attr |-> Attribute(v, <<f, k>>)]
  BY <1>1 DEF Primary, Attrs, Attribute
<1>5. \A k \in 0 .. n + 1 : <<f, k>> \in Places(v, f) /\ <<f, k>> \notin A
  BY DEF Places
<1>6. Places(v, f) = PlacesTo(f, n + 1)
  BY DEF Places, PlacesTo
<1>7. Shows(v, B(0), x0)
  <2> DEFINE at == <<f, 0>>
  <2>1. at[1] = f /\ at[2] = 0 /\ Own(v, at) = b
    BY <1>3
  <2>2. PlacesTo(f, 0) = {at}
    BY DEF PlacesTo
  <2>3. New(A, at)
    <3>1. 0 \in 0 .. n + 1
      BY <1>1
    <3> QED
      BY <1>5, <3>1 DEF New
  <2> HIDE DEF b, at
  <2>4. Shows(v, A \union {at}, x0)
    BY <2>1, <2>3, EnsureShows
  <2> QED
    BY <2>2, <2>4
<1>8. \A k \in Nat : Parsing(v, B(k))
  BY <1>3 DEF Parsing, PlacesTo
<1>9. ASSUME NEW k \in Nat, NEW y, Shows(v, B(k), y) PROVE b \in DOMAIN y
  <2>1. <<f, 0>> \in B(k)
    BY DEF PlacesTo
  <2>2. Concerns(v, <<f, 0>>, b)
    BY <1>3 DEF Concerns
  <2> HIDE DEF B, b
  <2> QED
    BY <1>9, <2>1, <2>2 DEF Shows
<1>10. \A k \in 0 .. n : New(B(k), <<f, k + 1>>) /\ B(k + 1) = B(k) \union {<<f, k + 1>>}
  <2> SUFFICES ASSUME NEW k \in 0 .. n
               PROVE  New(B(k), <<f, k + 1>>) /\ B(k + 1) = B(k) \union {<<f, k + 1>>}
    OBVIOUS
  <2>1. k \in Nat /\ k + 1 \in 0 .. n + 1
    BY <1>1
  <2>2. <<f, k + 1>> \notin A
    BY <1>5, <2>1
  <2>3. New(A \union PlacesTo(f, k), <<f, k + 1>>)
    BY <2>1, <2>2, NewPlace
  <2>4. PlacesTo(f, k + 1) = PlacesTo(f, k) \union {<<f, k + 1>>}
    BY <2>1, OnePlaceMore
  <2> QED
    BY <2>3, <2>4
<1> HIDE DEF n, ps, x0, B
<1>11. PICK g : ByAttribute!Steps(g, x0, ps, n) /\ ByAttribute!FoldOf(x0, ps) = g[n]
  <2> HIDE DEF b, seg
  <2> QED
    BY <1>1, <1>4, ByAttribute!FoldSteps
<1>12. parsed = g[n]
  <2>1. FoldLeft(ProcessAttribute, x0, ps) = ByAttribute!FoldOf(x0, ps)
    BY DEF FoldLeft, MapThenFoldSet, Max, ByAttribute!FoldOf, ByAttribute!Largest
  <2> QED
    BY <1>11, <2>1
<1> HIDE DEF parsed
<1> DEFINE S == {k \in 0 .. n : Shows(v, B(k), g[k])}
<1>13. 0 \in S
  BY <1>1, <1>7, <1>11 DEF ByAttribute!Steps
<1>14. ASSUME NEW k \in 1 .. n, k - 1 \in S PROVE k \in S
  <2> DEFINE y == g[k - 1]
             at == <<f, k>>
             z == AddAttribute(y, b, seg.dir, Attribute(v, at))
  <2>1. g[k] = z
    <3>1. g[k] = ProcessAttribute(y, ps[k])
      BY <1>11 DEF ByAttribute!Steps
    <3>2. ps[k].base = b /\ ps[k].dir = seg.dir /\ ps[k].attr = Attribute(v, at)
      BY <1>4
    <3> QED
      BY <3>1, <3>2 DEF ProcessAttribute
  <2>2. Shows(v, B(k - 1), y)
    BY <1>14
  <2>3. k - 1 \in Nat /\ k - 1 \in 0 .. n /\ (k - 1) + 1 = k /\ k \in 0 .. n
    BY <1>1
  <2>4. New(B(k - 1), at) /\ B(k) = B(k - 1) \union {at}
    BY <1>10, <2>3
  <2>5. b \in DOMAIN y /\ Parsing(v, B(k - 1))
    BY <1>8, <1>9, <2>2, <2>3
  <2>6. at[1] = f /\ at[2] = k /\ Own(v, at) = b
    BY <1>3
  <2>7. at[1] \in InUse(v) /\ at[2] \in DOMAIN Attrs(v, at[1])
    BY <1>1, <2>6
  <2>8. seg.dir = SegmentOf(v, at[1])[1].dir
    BY <2>6
  <2>9. Shows(v, B(k - 1) \union {at}, z)
    <3> HIDE DEF y, at, b, seg
    <3> QED
      BY <2>2, <2>4, <2>5, <2>6, <2>7, <2>8, AttributeShows
  <2> HIDE DEF z, y, at
  <2> QED
    BY <2>1, <2>3, <2>4, <2>9
<1>15. Shows(v, B(n), parsed)
  <2>1. \A k \in 0 .. n : k \in S
    <3> HIDE DEF S, b, seg
    <3> QED
      BY <1>1, <1>13, <1>14, ByAttribute!UpTo
  <2>2. n \in 0 .. n
    BY <1>1
  <2>3. n \in S
    <3> HIDE DEF S
    <3> QED
      BY <2>1, <2>2
  <2> QED
    BY <1>12, <2>3
<1>16. Shows(v, B(n + 1), IF seg.dir THEN [parsed EXCEPT ![b].dir = TRUE] ELSE parsed)
  <2> DEFINE at == <<f, n + 1>>
  <2>1. at[1] = f /\ at[2] = Len(Attrs(v, at[1])) + 1 /\ Own(v, at) = b
    BY <1>3 DEF n
  <2>2. b \in DOMAIN parsed
    BY <1>1, <1>9, <1>15
  <2>3. n \in 0 .. n
    BY <1>1
  <2>4. New(B(n), at) /\ B(n + 1) = B(n) \union {at}
    BY <1>10, <2>3
  <2>5. at[1] \in InUse(v) /\ seg = SegmentOf(v, at[1])[1]
    BY <2>1
  <2> HIDE DEF at, b, seg
  <2>6. Shows(v, B(n) \union {at}, IF SegmentOf(v, at[1])[1].dir THEN [parsed EXCEPT ![b].dir = TRUE] ELSE parsed)
    BY <1>15, <2>1, <2>2, <2>4, <2>5, FlagShows
  <2> QED
    BY <2>4, <2>5, <2>6
<1>17. ProcessRecord(x, f, seg) = IF seg.dir THEN [parsed EXCEPT ![b].dir = TRUE] ELSE parsed
  BY <1>1 DEF ProcessRecord, parsed, x0, ps
<1> QED
  BY <1>6, <1>16, <1>17 DEF B

-----------------------------------------------------------------------------
(* The records of one read                                                 *)

PlacesOf(v, F) == UNION {Places(v, f) : f \in F}

LEMMA InUseFinite ==
    ASSUME NEW v \in Volumes
    PROVE  IsFiniteSet(InUse(v))
<1> DEFINE T == 0 .. TotalRecords(v.extents) - 1
<1>1. TotalRecords(v.extents) \in Nat
  BY ReaderAssumption
<1>2. IsFiniteSet(T)
  <2>1. TotalRecords(v.extents) - 1 \in Int
    BY <1>1
  <2> QED
    BY <2>1, FS_Interval
<1>3. InUse(v) \in SUBSET T
  BY DEF InUse, Mapped
<1> QED
  BY <1>2, <1>3, FS_Subset

LEMMA InUseNumbers ==
    ASSUME NEW v \in Volumes, NEW f \in InUse(v)
    PROVE  f \in Nat /\ f \in Mapped(v)
<1>1. TotalRecords(v.extents) \in Nat
  BY ReaderAssumption
<1> QED
  BY <1>1 DEF InUse, Mapped

LEMMA PlacesOfFinite ==
    ASSUME NEW v \in Volumes, NEW F, F \in SUBSET InUse(v)
    PROVE  IsFiniteSet(PlacesOf(v, F)) /\ Parsing(v, PlacesOf(v, F))
<1> DEFINE g == [f \in F |-> Places(v, f)]
           S == {g[f] : f \in F}
<1>1. IsFiniteSet(F)
  BY InUseFinite, FS_Subset
<1>2. IsFiniteSet(S)
  <2> HIDE DEF g
  <2> QED
    BY <1>1, ImageFinite
<1>3. \A T \in S : IsFiniteSet(T)
  <2> SUFFICES ASSUME NEW f \in F PROVE IsFiniteSet(Places(v, f))
    OBVIOUS
  <2>1. f \in InUse(v)
    OBVIOUS
  <2>2. Len(Attrs(v, f)) + 1 \in Int
    BY <2>1, AttrsAre
  <2>3. Places(v, f) = PlacesTo(f, Len(Attrs(v, f)) + 1)
    BY DEF Places, PlacesTo
  <2> QED
    BY <2>2, <2>3, PlacesFinite
<1>4. UNION S = PlacesOf(v, F)
  BY DEF PlacesOf
<1>5. IsFiniteSet(PlacesOf(v, F))
  <2> HIDE DEF S
  <2> QED
    BY <1>2, <1>3, <1>4, FS_UNION
<1>6. Parsing(v, PlacesOf(v, F))
  BY DEF Parsing, PlacesOf, Places
<1> QED
  BY <1>5, <1>6

LEMMA OneRecordMore ==
    ASSUME NEW v \in Volumes, NEW F, F \in SUBSET InUse(v), NEW f \in InUse(v), f \notin F,
           NEW x, Shows(v, PlacesOf(v, F), x)
    PROVE  Shows(v, PlacesOf(v, F \union {f}), ProcessRecord(x, f, SegmentOf(v, f)[1]))
<1> DEFINE A == PlacesOf(v, F)
<1>1. IsFiniteSet(A) /\ Parsing(v, A)
  BY PlacesOfFinite
<1>2. A \intersect Places(v, f) = {}
  BY DEF PlacesOf, Places
<1>3. PlacesOf(v, F \union {f}) = A \union Places(v, f)
  BY DEF PlacesOf
<1> HIDE DEF A
<1>4. Shows(v, A, x)
  BY DEF A
<1>5. Shows(v, A \union Places(v, f), ProcessRecord(x, f, SegmentOf(v, f)[1]))
  BY <1>1, <1>2, <1>4, RecordsShow
<1> QED
  BY <1>3, <1>5

(* A read finds its records in place, and no other.                         *)
Placed(v, op) ==
  /\ op.frs \in Nat /\ op.count \in Nat /\ op.disk \in Int
  /\ \A n \in 0 .. op.count - 1 :
       IF op.frs + n \in Mapped(v)
       THEN op.disk + n = PhysicalOffset(v.extents, op.frs + n)
       ELSE Segment(v, op.disk + n) = << >>

Taken(v, op, torn, k) == {g \in InUse(v) \ torn : g \in op.frs .. op.frs + k - 1}

(* What one position of the read gives.                                     *)
LEMMA PositionHolds ==
    ASSUME NEW v \in Volumes, NEW op, Placed(v, op), NEW n \in 0 .. op.count - 1
    PROVE  LET f == op.frs + n
               seg == Segment(v, op.disk + n)
           IN /\ f \in InUse(v) <=> seg # << >> /\ seg[1].used
              /\ f \in InUse(v) => seg = SegmentOf(v, f)
              /\ seg # << >> => seg[1].used \in BOOLEAN
<1> DEFINE f == op.frs + n
           seg == Segment(v, op.disk + n)
<1>1. CASE f \in Mapped(v)
  <2>1. op.disk + n = PhysicalOffset(v.extents, f)
    BY <1>1 DEF Placed
  <2>2. seg = SegmentOf(v, f)
    BY <2>1 DEF SegmentOf
  <2>3. seg # << >> => IsSegment(seg[1])
    <3>1. ASSUME seg # << >> PROVE \E p \in DOMAIN v.disk : seg[1] = v.disk[p]
      BY <3>1 DEF Segment
    <3> QED
      BY <3>1, ReaderAssumption
  <2> QED
    BY <1>1, <2>2, <2>3 DEF InUse, IsSegment
<1>2. CASE f \notin Mapped(v)
  <2>1. seg = << >>
    BY <1>2 DEF Placed
  <2> QED
    BY <1>2, <2>1 DEF InUse
<1> QED
  BY <1>1, <1>2

LEMMA NothingFound ==
    ASSUME NEW x
    PROVE  FoldLeft(ProcessFound, x, << >>) = x
<1>1. FoldLeft(ProcessFound, x, << >>) = ByRecord!FoldOf(x, << >>)
  BY DEF FoldLeft, MapThenFoldSet, Max, ByRecord!FoldOf, ByRecord!Largest
<1> QED
  BY <1>1, ByRecord!FoldNothing

LEMMA OneFoundMore ==
    ASSUME NEW S, NEW s \in Seq(S), NEW r, NEW x
    PROVE  FoldLeft(ProcessFound, x, Append(s, r)) = ProcessFound(FoldLeft(ProcessFound, x, s), r)
<1> DEFINE t == Append(s, r)
<1>1. FoldLeft(ProcessFound, x, s) = ByRecord!FoldOf(x, s)
  BY DEF FoldLeft, MapThenFoldSet, Max, ByRecord!FoldOf, ByRecord!Largest
<1>2. ByRecord!FoldOf(x, t) = ProcessFound(ByRecord!FoldOf(x, s), r)
  BY ByRecord!FoldOneMore
<1> HIDE DEF t
<1>3. FoldLeft(ProcessFound, x, t) = ByRecord!FoldOf(x, t)
  BY DEF FoldLeft, MapThenFoldSet, Max, ByRecord!FoldOf, ByRecord!Largest
<1> QED
  BY <1>1, <1>2, <1>3 DEF t

(* A read that is parsed adds the records it has that are not torn.         *)
LEMMA ReadShows ==
    ASSUME NEW v \in Volumes, NEW op, Placed(v, op), NEW torn,
           NEW F, F \in SUBSET InUse(v), \A f \in F : ~ Covers(op, f),
           NEW x, Shows(v, PlacesOf(v, F), x)
    PROVE  Shows(v, PlacesOf(v, F \union Taken(v, op, torn, op.count)),
                 FoldLeft(ProcessFound, x, Found(v, op, torn)))
<1> DEFINE n == op.count
           item(i) == [frs |-> op.frs + i - 1,
                       seg |-> IF op.frs + i - 1 \in torn THEN << >>
                               ELSE Segment(v, op.disk + i - 1)]
           items == [i \in 1 .. n |-> item(i)]
           S == {items[i] : i \in 1 .. n}
           B(k) == PlacesOf(v, F \union Taken(v, op, torn, k))
<1>1. Found(v, op, torn) = FoldLeft(KeepReadable, << >>, items)
  BY DEF Found
<1>2. n \in Nat /\ DOMAIN items = 1 .. n
  BY DEF Placed
<1>3. \A k \in 1 .. n : items[k] \in S /\ items[k] = item(k)
  OBVIOUS
<1> HIDE DEF items, S, n
<1>4. PICK f : ByFound!Steps(f, << >>, items, n) /\ ByFound!FoldOf(<< >>, items) = f[n]
  BY <1>2, ByFound!FoldSteps
<1>5. Found(v, op, torn) = f[n]
  <2>1. FoldLeft(KeepReadable, << >>, items) = ByFound!FoldOf(<< >>, items)
    BY DEF FoldLeft, MapThenFoldSet, Max, ByFound!FoldOf, ByFound!Largest
  <2> QED
    BY <1>1, <1>4, <2>1
<1> DEFINE y(k) == FoldLeft(ProcessFound, x, f[k])
           T == {k \in 0 .. n : f[k] \in Seq(S) /\ Shows(v, B(k), y(k))}
<1>6. 0 \in T
  <2>1. f[0] = << >> /\ << >> \in Seq(S)
    BY <1>4 DEF ByFound!Steps
  <2>2. y(0) = x
    BY <2>1, NothingFound
  <2>3. Taken(v, op, torn, 0) = {}
    BY InUseNumbers DEF Taken, Placed
  <2>4. Shows(v, B(0), y(0))
    BY <2>2, <2>3
  <2>5. 0 \in 0 .. n
    BY <1>2
  <2> HIDE DEF B, y
  <2> QED
    BY <2>1, <2>4, <2>5
<1>7. ASSUME NEW k \in 1 .. n, k - 1 \in T PROVE k \in T
  <2> DEFINE g == op.frs + (k - 1)
             seg == Segment(v, op.disk + (k - 1))
             G == F \union Taken(v, op, torn, k - 1)
  <2>0. /\ k - 1 \in 0 .. n - 1 /\ k \in 0 .. n /\ k - 1 \in Nat
        /\ op.frs \in Nat /\ op.count = n /\ op.disk \in Int
    BY <1>2 DEF Placed, n
  <2>1. f[k] = KeepReadable(f[k - 1], items[k])
    BY <1>4 DEF ByFound!Steps
  <2>2. f[k - 1] \in Seq(S) /\ Shows(v, PlacesOf(v, G), y(k - 1))
    BY <1>7
  <2>3. items[k] = [frs |-> g, seg |-> IF g \in torn THEN << >> ELSE seg] /\ items[k] \in S
    <3>1. op.frs + k - 1 = g /\ op.disk + k - 1 = op.disk + (k - 1)
      BY <2>0
    <3> QED
      BY <1>3, <3>1
  <2>4. /\ g \in InUse(v) <=> seg # << >> /\ seg[1].used
        /\ g \in InUse(v) => seg = SegmentOf(v, g)
        /\ seg # << >> => seg[1].used \in BOOLEAN
    BY <2>0, PositionHolds
  <2>5. Taken(v, op, torn, k) = IF g \in InUse(v) /\ g \notin torn
                                THEN Taken(v, op, torn, k - 1) \union {g}
                                ELSE Taken(v, op, torn, k - 1)
    <3>1. op.frs .. op.frs + k - 1 = (op.frs .. op.frs + (k - 1) - 1) \union {g}
      BY <2>0
    <3> HIDE DEF g
    <3> QED
      BY <3>1 DEF Taken
  <2>6. g \notin G /\ G \in SUBSET InUse(v)
    <3>1. g \notin op.frs .. op.frs + (k - 1) - 1
      BY <2>0
    <3>2. Covers(op, g)
      BY <1>2, <2>0 DEF Covers
    <3> HIDE DEF g
    <3> QED
      BY <3>1, <3>2 DEF Taken
  <2> HIDE DEF g, seg, G, T, B
  <2>7. ASSUME items[k].seg = << >>
        PROVE  f[k] \in Seq(S) /\ Shows(v, B(k), y(k))
    <3>1. f[k] = f[k - 1]
      BY <2>1, <2>7 DEF KeepReadable
    <3>2. g \in torn \/ g \notin InUse(v)
      BY <2>3, <2>4, <2>7
    <3>3. B(k) = PlacesOf(v, G)
      BY <2>5, <3>2 DEF B, G
    <3> QED
      BY <2>2, <3>1, <3>3
  <2>8. ASSUME items[k].seg # << >>
        PROVE  f[k] \in Seq(S) /\ Shows(v, B(k), y(k))
    <3>1. f[k] = Append(f[k - 1], items[k]) /\ f[k] \in Seq(S)
      BY <2>1, <2>2, <2>3, <2>8 DEF KeepReadable
    <3>2. items[k].frs = g /\ items[k].seg = seg /\ g \notin torn /\ seg # << >>
      BY <2>3, <2>8
    <3>3. y(k) = ProcessRecord(y(k - 1), g, seg[1])
      <4>1. y(k) = ProcessFound(y(k - 1), items[k])
        BY <2>2, <3>1, OneFoundMore
      <4> HIDE DEF y
      <4> QED
        BY <3>2, <4>1 DEF ProcessFound
    <3> HIDE DEF y
    <3>4. CASE g \in InUse(v)
      <4>1. Shows(v, PlacesOf(v, G \union {g}), ProcessRecord(y(k - 1), g, SegmentOf(v, g)[1]))
        BY <2>2, <2>6, <3>4, OneRecordMore
      <4>2. F \union Taken(v, op, torn, k) = G \union {g}
        BY <2>5, <3>2, <3>4 DEF G
      <4>3. B(k) = PlacesOf(v, G \union {g})
        BY <4>2 DEF B
      <4> QED
        BY <2>4, <3>1, <3>3, <3>4, <4>1, <4>3
    <3>5. CASE g \notin InUse(v)
      <4>1. ~ seg[1].used
        BY <2>4, <3>2, <3>5
      <4>2. y(k) = y(k - 1)
        BY <3>3, <4>1 DEF ProcessRecord
      <4>3. B(k) = PlacesOf(v, G)
        BY <2>5, <3>5 DEF B, G
      <4> QED
        BY <2>2, <3>1, <4>2, <4>3
    <3> QED
      BY <3>4, <3>5
  <2> HIDE DEF y
  <2> QED
    BY <2>0, <2>7, <2>8 DEF T
<1>8. \A k \in 0 .. n : k \in T
  <2> HIDE DEF T
  <2> QED
    BY <1>2, <1>6, <1>7, ByFound!UpTo
<1>9. n \in 0 .. n
  BY <1>2
<1>10. Shows(v, B(n), y(n))
  <2> HIDE DEF B, y
  <2> QED
    BY <1>8, <1>9
<1> QED
  BY <1>5, <1>10 DEF n

LEMMA FoundAreCovered ==
    ASSUME NEW v, NEW op, op.count \in Nat, op.frs \in Nat, NEW torn,
           NEW r \in ToSet(Found(v, op, torn))
    PROVE  Covers(op, r.frs)
<1>1. PICK k \in DOMAIN Found(v, op, torn) : r = Found(v, op, torn)[k]
  BY DEF ToSet
<1>2. PICK i \in 1 .. op.count : r.frs = op.frs + i - 1
  BY <1>1, FoundAreItems
<1> QED
  BY <1>2 DEF Covers

-----------------------------------------------------------------------------
(* The records that were parsed, and what the index shows of them.          *)
Parsed(v, plan, g, d) == {f \in InUse(v) \ g : \E i \in d : Covers(plan[i], f)}

Sound(v, plan) == PlanReads(plan, v.extents, Mapped(v)) /\ FindsNoMore(v, plan)

ContentIs(v, plan, g, d, x) ==
  /\ \A f \in g : \E i \in d : Covers(plan[i], f)
  /\ Sound(v, plan) => Shows(v, PlacesOf(v, Parsed(v, plan, g, d)), x)

LEMMA OneCovers ==
    ASSUME NEW v, NEW plan, IsPlan(plan), Sound(v, plan), NEW f \in Mapped(v)
    PROVE  /\ \E i \in DOMAIN plan : Covers(plan[i], f)
           /\ \A i, j \in DOMAIN plan : Covers(plan[i], f) /\ Covers(plan[j], f) => i = j
<1> DEFINE C == {i \in DOMAIN plan : Covers(plan[i], f)}
<1>1. Cardinality(C) = 1
  BY DEF Sound, PlanReads
<1>2. IsFiniteSet(C)
  <2>1. DOMAIN plan = 1 .. Len(plan) /\ Len(plan) \in Nat
    BY DEF IsPlan, IsList
  <2>2. IsFiniteSet(1 .. Len(plan))
    BY <2>1, FS_Interval
  <2>3. C \in SUBSET (1 .. Len(plan))
    BY <2>1
  <2> QED
    BY <2>2, <2>3, FS_Subset
<1>3. PICK i : C = {i}
  <2> HIDE DEF C
  <2> QED
    BY <1>1, <1>2, FS_Singleton
<1> QED
  BY <1>3

LEMMA PlanIsPlaced ==
    ASSUME NEW v, NEW plan, IsPlan(plan), Sound(v, plan), NEW i \in DOMAIN plan
    PROVE  Placed(v, plan[i])
<1> DEFINE op == plan[i]
<1>1. op.frs \in Nat /\ op.count \in Nat /\ op.disk \in Int
  BY DEF IsPlan
<1>2. ASSUME NEW n \in 0 .. op.count - 1
      PROVE  IF op.frs + n \in Mapped(v)
             THEN op.disk + n = PhysicalOffset(v.extents, op.frs + n)
             ELSE Segment(v, op.disk + n) = << >>
  <2> DEFINE f == op.frs + n
  <2>1. CASE f \in Mapped(v)
    <3>1. Covers(op, f)
      BY <1>1 DEF Covers
    <3>2. op.disk + f - op.frs = PhysicalOffset(v.extents, f)
      <4> HIDE DEF f
      <4> QED
        BY <2>1, <3>1 DEF Sound, PlanReads
    <3>3. op.disk + f - op.frs = op.disk + n
      BY <1>1
    <3> QED
      BY <2>1, <3>2, <3>3
  <2>2. CASE f \notin Mapped(v)
    BY <2>2 DEF Sound, FindsNoMore
  <2> QED
    BY <2>1, <2>2
<1> QED
  BY <1>1, <1>2 DEF Placed

LEMMA CompletionShows ==
    ASSUME NEW v \in Volumes, NEW plan, IsPlan(plan), NEW g, NEW d, d \in SUBSET DOMAIN plan,
           NEW x, ContentIs(v, plan, g, d, x),
           NEW i \in DOMAIN plan, i \notin d,
           NEW torn, \A f \in torn : Covers(plan[i], f)
    PROVE  ContentIs(v, plan, g \union torn, d \union {i},
                     FoldLeft(ProcessFound, x, Found(v, plan[i], torn)))
<1> DEFINE op == plan[i]
           F == Parsed(v, plan, g, d)
           G == Parsed(v, plan, g \union torn, d \union {i})
           y == FoldLeft(ProcessFound, x, Found(v, op, torn))
<1>1. \A f \in g \union torn : \E j \in d \union {i} : Covers(plan[j], f)
  BY DEF ContentIs
<1>2. ASSUME Sound(v, plan) PROVE Shows(v, PlacesOf(v, G), y)
  <2>1. Shows(v, PlacesOf(v, F), x)
    BY <1>2 DEF ContentIs
  <2>2. Placed(v, op)
    BY <1>2, PlanIsPlaced
  <2>3. F \in SUBSET InUse(v)
    BY DEF Parsed
  <2>4. ASSUME NEW f \in InUse(v), NEW j \in d, Covers(plan[j], f) PROVE ~ Covers(op, f)
    <3>1. f \in Mapped(v)
      BY DEF InUse
    <3> QED
      BY <1>2, <2>4, <3>1, OneCovers
  <2>5. \A f \in F : ~ Covers(op, f)
    BY <2>4 DEF Parsed
  <2>6. Shows(v, PlacesOf(v, F \union Taken(v, op, torn, op.count)), y)
    <3> HIDE DEF F, op
    <3> QED
      BY <2>1, <2>2, <2>3, <2>5, ReadShows
  <2>7. G = F \union Taken(v, op, torn, op.count)
    <3>1. Taken(v, op, torn, op.count) = {f \in InUse(v) \ torn : Covers(op, f)}
      BY DEF Taken, Covers
    <3>2. \A f \in g : \E j \in d : Covers(plan[j], f)
      BY DEF ContentIs
    <3>3. ASSUME NEW f \in InUse(v)
          PROVE  f \in G <=> f \in F \/ (f \notin torn /\ Covers(op, f))
      <4>1. f \in G <=> f \notin g /\ f \notin torn /\ ((\E j \in d : Covers(plan[j], f)) \/ Covers(op, f))
        BY DEF Parsed
      <4>2. f \in F <=> f \notin g /\ \E j \in d : Covers(plan[j], f)
        BY DEF Parsed
      <4>3. f \in g => ~ Covers(op, f)
        BY <2>4, <3>2
      <4>4. f \in torn => ~ \E j \in d : Covers(plan[j], f)
        BY <2>4
      <4> QED
        BY <4>1, <4>2, <4>3, <4>4
    <3>4. F \in SUBSET InUse(v) /\ G \in SUBSET InUse(v)
      BY DEF Parsed
    <3> QED
      BY <3>1, <3>3, <3>4
  <2> QED
    BY <2>6, <2>7
<1> QED
  BY <1>1, <1>2 DEF ContentIs

-----------------------------------------------------------------------------
(* All the places: the volume                                              *)

(* What the index shows of every place is what the volume says.             *)
All(v) == PlacesOf(v, Live(v))

LEMMA AllAre ==
    ASSUME NEW v \in Volumes
    PROVE  /\ \A at \in All(v) : at[1] \in Live(v) /\ at = <<at[1], at[2]>>
           /\ \A f \in Live(v) : \A i : (i \in DOMAIN Attrs(v, f) \/ i \in {0, Len(Attrs(v, f)) + 1})
                => <<f, i>> \in All(v)
<1>1. ASSUME NEW at \in All(v) PROVE at[1] \in Live(v) /\ at = <<at[1], at[2]>>
  <2>1. PICK f \in Live(v) : at \in Places(v, f)
    BY <1>1 DEF All, PlacesOf
  <2>2. PICK i \in 0 .. Len(Attrs(v, f)) + 1 : at = <<f, i>>
    BY <2>1 DEF Places
  <2> QED
    BY <2>2
<1>2. ASSUME NEW f \in Live(v), NEW i, i \in DOMAIN Attrs(v, f) \/ i \in {0, Len(Attrs(v, f)) + 1}
      PROVE  <<f, i>> \in All(v)
  <2> DEFINE n == Len(Attrs(v, f))
  <2>1. f \in InUse(v)
    BY DEF Live
  <2>2. n \in Nat /\ DOMAIN Attrs(v, f) = 1 .. n
    BY <2>1, AttrsAre
  <2>3. i \in 1 .. n \/ i \in {0, n + 1}
    BY <1>2, <2>2
  <2> HIDE DEF n
  <2>4. i \in 0 .. n + 1
    BY <2>2, <2>3
  <2> QED
    BY <2>4 DEF All, PlacesOf, Places, n
<1> QED
  BY <1>1, <1>2

LEMMA PartsAreAttributes ==
    ASSUME NEW v \in Volumes, NEW b, NEW K
    PROVE  Parts(v, All(v), b, K) = AttributesOf(v, b, K)
<1> DEFINE attrs(frs) == SegmentOf(v, frs)[1].attrs
           here(frs)  == {i \in DOMAIN attrs(frs) : attrs(frs)[i].kind \in K /\ Counts(attrs(frs)[i])}
           S == UNION {{<<frs, i>> : i \in here(frs)} : frs \in {f \in Live(v) : Owner(v, f) = b}}
<1>1. AttributesOf(v, b, K) = S
  BY DEF AttributesOf
<1>2. ASSUME NEW at \in Parts(v, All(v), b, K) PROVE at \in S
  <2>1. at \in All(v) /\ Owner(v, at[1]) = b /\ Is(v, at, K)
    BY <1>2 DEF Parts, Own
  <2>2. at[1] \in Live(v) /\ at = <<at[1], at[2]>>
    BY <2>1, AllAre
  <2>3. at[2] \in here(at[1])
    BY <2>1 DEF Is, Attribute, Attrs
  <2> HIDE DEF here
  <2> QED
    BY <2>1, <2>2, <2>3
<1>3. ASSUME NEW at \in S PROVE at \in Parts(v, All(v), b, K)
  <2>1. PICK f \in Live(v) : Owner(v, f) = b /\ \E i \in here(f) : at = <<f, i>>
    BY <1>3
  <2>2. PICK i \in here(f) : at = <<f, i>>
    BY <2>1
  <2>3. at[1] = f /\ at[2] = i
    BY <2>2
  <2>4. i \in DOMAIN Attrs(v, f) /\ attrs(f)[i].kind \in K /\ Counts(attrs(f)[i])
    BY DEF Attrs
  <2>5. at \in All(v)
    BY <2>2, <2>4, AllAre
  <2>6. Is(v, at, K)
    BY <2>3, <2>4 DEF Is, Attribute
  <2> QED
    BY <2>1, <2>3, <2>5, <2>6 DEF Parts, Own
<1> QED
  BY <1>1, <1>2, <1>3

LEMMA DirectedSaysSo ==
    ASSUME NEW v \in Volumes, NEW b
    PROVE  Directed(v, All(v), b) # {} <=> \E frs \in Live(v) : Owner(v, frs) = b /\ SaysDirectory(v, frs)
<1>1. ASSUME NEW at \in Directed(v, All(v), b)
      PROVE  \E frs \in Live(v) : Owner(v, frs) = b /\ SaysDirectory(v, frs)
  <2>1. at \in All(v) /\ Owner(v, at[1]) = b /\ Directs(v, at)
    BY <1>1 DEF Directed, Own
  <2>2. SaysDirectory(v, at[1])
    BY <2>1 DEF Directs, SaysDirectory, Is, Attribute, Attrs
  <2> QED
    BY <2>1, <2>2, AllAre
<1>2. ASSUME NEW f \in Live(v), Owner(v, f) = b, SaysDirectory(v, f)
      PROVE  Directed(v, All(v), b) # {}
  <2>1. CASE SegmentOf(v, f)[1].dir
    <3> DEFINE at == <<f, Len(Attrs(v, f)) + 1>>
    <3>1. at \in All(v)
      BY AllAre
    <3>2. at[1] = f /\ at[2] = Len(Attrs(v, f)) + 1
      OBVIOUS
    <3> HIDE DEF at
    <3> QED
      BY <1>2, <2>1, <3>1, <3>2 DEF Directed, Own, Directs
  <2>2. CASE \E i \in DOMAIN Attrs(v, f) : Attrs(v, f)[i].kind = "i30"
    <3>1. PICK i \in DOMAIN Attrs(v, f) : Attrs(v, f)[i].kind = "i30"
      BY <2>2
    <3> DEFINE at == <<f, i>>
    <3>2. at \in All(v) /\ at[1] = f /\ at[2] = i
      BY AllAre
    <3> HIDE DEF at
    <3>3. Is(v, at, {"i30"})
      BY <3>1, <3>2 DEF Is, Attribute, Attrs, Counts
    <3> QED
      BY <1>2, <3>2, <3>3 DEF Directed, Own, Directs
  <2> QED
    BY <1>2, <2>1, <2>2 DEF SaysDirectory, Attrs
<1> QED
  BY <1>1, <1>2

(* The names in a directory, as pairs with the record they name.            *)
LEMMA EntriesAreListed ==
    ASSUME NEW v \in Volumes, NEW b
    PROVE  LET listed == {l \in UNION {{c} \X AttributesOf(v, c, {"name"}) : c \in Owners(v) \ {b}} :
                            Attribute(v, l[2]).parent = b}
               entries == Entries(v, All(v), b)
           IN /\ Cardinality(listed) = Cardinality(entries)
              /\ {l[1] : l \in listed} = {Own(v, at) : at \in entries}
<1> DEFINE listed == {l \in UNION {{c} \X AttributesOf(v, c, {"name"}) : c \in Owners(v) \ {b}} :
                        Attribute(v, l[2]).parent = b}
           entries == Entries(v, All(v), b)
           pair == [at \in entries |-> <<Own(v, at), at>>]
<1>1. ASSUME NEW at \in entries
      PROVE  pair[at] \in listed /\ pair[at] = <<Own(v, at), at>>
  <2>1. at \in All(v) /\ Is(v, at, {"name"}) /\ Attribute(v, at).parent = b /\ Own(v, at) # b
    BY <1>1 DEF Entries, NamesChild
  <2>2. at \in AttributesOf(v, Own(v, at), {"name"})
    <3>1. at \in Parts(v, All(v), Own(v, at), {"name"})
      BY <2>1 DEF Parts
    <3> QED
      BY <3>1, PartsAreAttributes
  <2>3. Own(v, at) \in Owners(v) \ {b}
    BY <2>1, AllAre DEF Own, Owners
  <2>4. pair[at] = <<Own(v, at), at>>
    BY <1>1
  <2> HIDE DEF entries, pair
  <2> QED
    BY <2>1, <2>2, <2>3, <2>4
<1>2. ASSUME NEW l \in listed
      PROVE  l[2] \in entries /\ l = <<Own(v, l[2]), l[2]>>
  <2>1. PICK c \in Owners(v) \ {b} : l \in {c} \X AttributesOf(v, c, {"name"})
    BY <1>2
  <2>2. l[1] = c /\ l = <<c, l[2]>> /\ l[2] \in AttributesOf(v, c, {"name"})
    BY <2>1
  <2>3. l[2] \in Parts(v, All(v), c, {"name"})
    BY <2>2, PartsAreAttributes
  <2>4. l[2] \in All(v) /\ Own(v, l[2]) = c /\ Is(v, l[2], {"name"})
    BY <2>3 DEF Parts
  <2>5. Attribute(v, l[2]).parent = b
    BY <1>2
  <2> QED
    BY <2>1, <2>2, <2>4, <2>5 DEF Entries, NamesChild
<1>3. IsFiniteSet(entries)
  <2>1. Live(v) \in SUBSET InUse(v)
    BY DEF Live
  <2>2. IsFiniteSet(All(v))
    BY <2>1, PlacesOfFinite DEF All
  <2>3. entries \in SUBSET All(v)
    BY DEF Entries
  <2> QED
    BY <2>2, <2>3, FS_Subset
<1> HIDE DEF entries, listed
<1>4. pair \in Bijection(entries, listed)
  <2>1. pair \in [entries -> listed]
    BY <1>1
  <2>2. ASSUME NEW p \in entries, NEW q \in entries, pair[p] = pair[q] PROVE p = q
    <3>1. <<Own(v, p), p>> = <<Own(v, q), q>>
      BY <1>1, <2>2
    <3> QED
      BY <3>1
  <2>3. \A l \in listed : \E at \in entries : pair[at] = l
    BY <1>1, <1>2
  <2> HIDE DEF pair
  <2> QED
    BY <2>1, <2>2, <2>3 DEF Bijection, Injection, Surjection, IsInjective
<1>5. Cardinality(listed) = Cardinality(entries)
  <2>1. ExistsBijection(entries, listed)
    BY <1>4 DEF ExistsBijection
  <2> QED
    BY <1>3, <2>1, FS_Bijection
<1>6. ASSUME NEW l \in listed PROVE l[1] \in {Own(v, at) : at \in entries}
  <2>1. l[2] \in entries /\ l = <<Own(v, l[2]), l[2]>>
    BY <1>2
  <2>2. l[1] = Own(v, l[2])
    BY <2>1
  <2> QED
    BY <2>1, <2>2
<1>7. ASSUME NEW at \in entries PROVE Own(v, at) \in {l[1] : l \in listed}
  <2>1. pair[at] \in listed /\ pair[at] = <<Own(v, at), at>>
    BY <1>1
  <2>2. pair[at][1] = Own(v, at)
    BY <2>1
  <2> HIDE DEF pair
  <2> QED
    BY <2>1, <2>2
<1>8. {l[1] : l \in listed} = {Own(v, at) : at \in entries}
  BY <1>6, <1>7
<1> QED
  BY <1>5, <1>8 DEF listed, entries

LEMMA RecordsAreVolume ==
    ASSUME NEW v \in Volumes, NEW b, NEW r, RecordShows(v, All(v), b, r)
    PROVE  RecordIs(v, r, b)
<1> DEFINE A == All(v)
           names  == AttributesOf(v, b, {"name"})
           sizes  == AttributesOf(v, b, {"data", "i30"})
           listed == {l \in UNION {{c} \X AttributesOf(v, c, {"name"}) : c \in Owners(v) \ {b}} :
                        Attribute(v, l[2]).parent = b}
<1>1. /\ LinksShow(v, A, b, r) /\ KidsShow(v, A, b, r)
      /\ SizeShows(v, A, b, r) /\ AdsShow(v, A, b, r) /\ CountShows(v, A, b, r)
      /\ StdShows(v, A, b, r) /\ DirShows(v, A, b, r)
  BY DEF RecordShows
<1>2. ToSet(r.links) = NamesOf(v, b) /\ Len(r.links) = Cardinality(names)
  <2>1. Parts(v, A, b, {"name"}) = names
    BY PartsAreAttributes
  <2>2. /\ ToSet(r.links) = {LinkOf(Attribute(v, at)) : at \in names}
        /\ Len(r.links) = Cardinality(names)
    BY <1>1, <2>1 DEF LinksShow
  <2> QED
    BY <2>2 DEF NamesOf, LinkOf
<1>3. r.size = MapThenSumSet(LAMBDA at : Attribute(v, at).size, sizes)
  <2>1. Parts(v, A, b, {"data", "i30"}) = sizes
    BY PartsAreAttributes
  <2>2. r.size = SizeSum(v, sizes)
    BY <1>1, <2>1 DEF SizeShows
  <2> HIDE DEF sizes
  <2>3. SizeSum(v, sizes) = MapThenSumSet(LAMBDA at : Attribute(v, at).size, sizes)
    BY DEF SizeSum
  <2> QED
    BY <2>2, <2>3
<1>4. ToSet(r.ads) = {Attribute(v, at).id : at \in AttributesOf(v, b, {"ads"})}
  <2>1. Parts(v, A, b, {"ads"}) = AttributesOf(v, b, {"ads"})
    BY PartsAreAttributes
  <2> QED
    BY <1>1, <2>1 DEF AdsShow
<1>5. r.total - r.streams = Cardinality(AttributesOf(v, b, {"other"}))
  <2>1. Parts(v, A, b, {"other"}) = AttributesOf(v, b, {"other"})
    BY PartsAreAttributes
  <2> QED
    BY <1>1, <2>1 DEF CountShows
<1>6. r.std = (AttributesOf(v, b, {"si"}) # {})
  <2>1. Parts(v, A, b, {"si"}) = AttributesOf(v, b, {"si"})
    BY PartsAreAttributes
  <2> QED
    BY <1>1, <2>1 DEF StdShows
<1>7. r.dir = \E frs \in Live(v) : Owner(v, frs) = b /\ SaysDirectory(v, frs)
  <2> DEFINE D == Directed(v, A, b)
             P == \E frs \in Live(v) : Owner(v, frs) = b /\ SaysDirectory(v, frs)
  <2>1. D # {} <=> P
    BY DirectedSaysSo
  <2>2. r.dir = (D # {})
    BY <1>1 DEF DirShows
  <2> HIDE DEF D, P
  <2>3. P \in BOOLEAN
    BY DEF P
  <2>4. r.dir = P
    BY <2>1, <2>2, <2>3
  <2> QED
    BY <2>4 DEF P
<1>8. Len(r.kids) = Cardinality(listed) /\ {k.child : k \in ToSet(r.kids)} = {l[1] : l \in listed}
  <2> DEFINE entries == Entries(v, A, b)
  <2>1. /\ Cardinality(listed) = Cardinality(entries)
        /\ {l[1] : l \in listed} = {Own(v, at) : at \in entries}
    BY EntriesAreListed
  <2>2. /\ {k.child : k \in ToSet(r.kids)} = {Own(v, at) : at \in entries}
        /\ Len(r.kids) = Cardinality(entries)
    BY <1>1 DEF KidsShow
  <2> HIDE DEF listed, entries
  <2> QED
    BY <2>1, <2>2
<1> QED
  BY <1>2, <1>3, <1>4, <1>5, <1>6, <1>7, <1>8 DEF RecordIs

LEMMA RecordsAreNamed ==
    ASSUME NEW v \in Volumes, NEW x, Shows(v, All(v), x)
    PROVE  DOMAIN x = Owners(v) \union UNION {{n.parent : n \in NamesOf(v, b)} : b \in Owners(v)}
<1> DEFINE P == UNION {{n.parent : n \in NamesOf(v, b)} : b \in Owners(v)}
<1>0. \A c : c \in DOMAIN x <=> \E at \in All(v) : Concerns(v, at, c)
  BY DEF Shows
<1>1. ASSUME NEW c, NEW at \in All(v), Concerns(v, at, c) PROVE c \in Owners(v) \union P
  <2>1. Own(v, at) \in Owners(v)
    BY AllAre DEF Own, Owners
  <2>2. CASE Own(v, at) = c
    BY <2>1, <2>2
  <2>3. CASE Is(v, at, {"name"}) /\ Attribute(v, at).parent = c
    <3> DEFINE b == Own(v, at)
               n == [parent |-> Attribute(v, at).parent, id |-> Attribute(v, at).id]
    <3>1. at \in Parts(v, All(v), b, {"name"})
      BY <2>3 DEF Parts
    <3>2. at \in AttributesOf(v, b, {"name"})
      BY <3>1, PartsAreAttributes
    <3>3. n \in NamesOf(v, b) /\ n.parent = c
      BY <2>3, <3>2 DEF NamesOf
    <3> HIDE DEF n, b
    <3>4. b \in Owners(v)
      BY <2>1 DEF b
    <3> QED
      BY <3>3, <3>4
  <2> QED
    BY <1>1, <2>2, <2>3 DEF Concerns
<1>2. ASSUME NEW c \in Owners(v) PROVE \E at \in All(v) : Concerns(v, at, c)
  <2>1. PICK f \in Live(v) : c = Owner(v, f)
    BY DEF Owners
  <2> DEFINE at == <<f, 0>>
  <2>2. at \in All(v) /\ at[1] = f
    BY AllAre
  <2> HIDE DEF at
  <2> QED
    BY <2>1, <2>2 DEF Concerns, Own
<1>3. ASSUME NEW c \in P PROVE \E at \in All(v) : Concerns(v, at, c)
  <2>1. PICK b \in Owners(v) : \E n \in NamesOf(v, b) : c = n.parent
    BY <1>3
  <2>2. PICK at \in AttributesOf(v, b, {"name"}) : c = Attribute(v, at).parent
    BY <2>1 DEF NamesOf
  <2>3. at \in Parts(v, All(v), b, {"name"})
    BY <2>2, PartsAreAttributes
  <2> QED
    BY <2>2, <2>3 DEF Parts, Concerns
<1> HIDE DEF P
<1>4. DOMAIN x = Owners(v) \union P
  BY <1>0, <1>1, <1>2, <1>3
<1> QED
  BY <1>4 DEF P

-----------------------------------------------------------------------------
ContentInv ==
  /\ source \in {"none", "inline"} => ContentIs(volume, ops, gone, done, index)
  /\ source = "inline" => reader = "ok"

(* A plan, or none at all once the reader gave up.                          *)
LEMMA OpsArePlan ==
    ASSUME WindowInv, IndexInv
    PROVE  IsPlan(ops) /\ DOMAIN ops = 1 .. Len(ops) /\ done \in SUBSET DOMAIN ops
<1>1. IsPlan(ops)
  <2>1. CASE ops = InlinePlan(volume)
    BY <2>1, ReaderAssumption DEF IndexInv
  <2>2. CASE ops = << >>
    <3>1. DOMAIN ops = {} /\ Len(ops) = 0 /\ 1 .. 0 = {}
      BY <2>2
    <3> QED
      BY <3>1 DEF IsPlan, IsList
  <2> QED
    BY <2>1, <2>2 DEF IndexInv
<1>2. DOMAIN ops = 1 .. Len(ops)
  BY <1>1 DEF IsPlan, IsList
<1>3. done \in SUBSET DOMAIN ops
  BY <1>2 DEF WindowInv, WindowTypeOK, Reads
<1> QED
  BY <1>1, <1>2, <1>3

LEMMA CompleteReadKeepsContent ==
    ASSUME WindowInv, IndexInv, ContentInv, NEW s \in Slots, CompleteRead(s)
    PROVE  ContentInv'
<1> DEFINE i == slot[s]
<1>1. /\ reader = "loop" /\ s \in Accepted /\ done' = done \union {i}
      /\ ops' = ops /\ volume' = volume /\ source' = source
  BY DEF CompleteRead, Complete
<1>2. source = "none" /\ volume \in Volumes
  BY <1>1 DEF IndexInv, Working
<1>3. i \in DOMAIN ops /\ i \notin done
  <2>1. i \in Reads /\ i # Free
    BY <1>1 DEF WindowInv, WindowTypeOK, Accepted
  <2>2. i \in {slot[t] : t \in Slots} \ {Free}
    BY <2>1
  <2>3. i \notin done
    BY <2>2 DEF WindowInv, ReadsAccountedFor
  <2> QED
    BY <2>1, <2>3, OpsArePlan DEF Reads
<1> HIDE DEF i
<1>4. IsPlan(ops) /\ done \in SUBSET DOMAIN ops
  BY OpsArePlan
<1>5. PICK torn \in MayTear(volume, ops[i]) :
        /\ gone' = gone \union torn
        /\ index' = FoldLeft(ProcessFound, index, Found(volume, ops[i], torn))
  BY DEF CompleteRead, i
<1>6. ASSUME NEW f \in torn PROVE Covers(ops[i], f)
  <2>1. torn \in SUBSET {r.frs : r \in ToSet(Found(volume, ops[i], gone))}
    BY DEF MayTear
  <2>2. PICK r \in ToSet(Found(volume, ops[i], gone)) : f = r.frs
    BY <2>1
  <2>3. ops[i].frs \in Nat /\ ops[i].count \in Nat
    BY <1>3, <1>4 DEF IsPlan
  <2> QED
    BY <2>2, <2>3, FoundAreCovered
<1>7. ContentIs(volume, ops, gone, done, index)
  BY <1>2 DEF ContentInv
<1>8. ContentIs(volume, ops, gone \union torn, done \union {i},
                FoldLeft(ProcessFound, index, Found(volume, ops[i], torn)))
  BY <1>2, <1>3, <1>4, <1>6, <1>7, CompletionShows
<1>9. ContentIs(volume', ops', gone', done', index')
  BY <1>1, <1>5, <1>8
<1> QED
  BY <1>1, <1>2, <1>9 DEF ContentInv

LEMMA NextKeepsContent == WindowInv /\ IndexInv /\ ContentInv /\ [Next]_vars => ContentInv'
<1> SUFFICES ASSUME WindowInv, IndexInv, ContentInv, [Next]_vars PROVE ContentInv'
  OBVIOUS
<1>1. CASE WindowOnly
  <2>1. UNCHANGED <<volume, ops, gone, done, index, source>> /\ reader \in Working
    BY <1>1 DEF WindowOnly, ReaderStep, QueueInitialRead, StartWaiting, AllCompleted,
                WaitFails, DeadlineExceeded, Working
  <2>2. source' = "none" /\ source = "none"
    BY <2>1 DEF IndexInv
  <2>3. ContentIs(volume', ops', gone', done', index')
    BY <2>1, <2>2 DEF ContentInv
  <2> QED
    BY <2>2, <2>3 DEF ContentInv
<1>2. CASE \E s \in Slots : CompleteRead(s)
  BY <1>2, CompleteReadKeepsContent
<1>3. CASE ReturnIndex
  <2>1. /\ reader' = "ok" /\ source' = "inline" /\ source = "none"
        /\ UNCHANGED <<volume, ops, gone, done, index>>
    BY <1>3 DEF ReturnIndex, winVars
  <2>2. ContentIs(volume', ops', gone', done', index')
    BY <2>1 DEF ContentInv
  <2> QED
    BY <2>1, <2>2 DEF ContentInv
<1>4. CASE Abandon
  BY <1>4 DEF Abandon, ContentInv
<1>5. CASE FallBackStep
  <2>1. source' \in {"file", "unbuffered", "error"}
    BY <1>5 DEF FallBackStep, ReadMftFile, ReadUnbuffered, FallBackFails, FallBack
  <2> QED
    BY <2>1 DEF ContentInv
<1>6. CASE UNCHANGED vars
  <2>1. UNCHANGED <<reader, ops, volume, gone, done, index, source>>
    BY <1>6 DEF vars, winVars
  <2>2. source \in {"none", "inline"} => ContentIs(volume', ops', gone', done', index')
    BY <2>1 DEF ContentInv
  <2> QED
    BY <2>1, <2>2 DEF ContentInv
<1> QED
  BY <1>1, <1>2, <1>3, <1>4, <1>5, <1>6 DEF Next

LEMMA ContentInvariant == Spec => []ContentInv
<1>1. Init => ContentInv
  <2> SUFFICES ASSUME Init PROVE ContentInv
    OBVIOUS
  <2>1. gone = {} /\ done = {} /\ index = << >> /\ source = "none"
    BY DEF Init, WindowInit
  <2>2. PlacesOf(volume, Parsed(volume, ops, {}, {})) = {}
    BY DEF PlacesOf, Parsed
  <2>3. DOMAIN << >> = {}
    OBVIOUS
  <2>4. Shows(volume, {}, << >>)
    BY <2>3 DEF Shows
  <2>5. ContentIs(volume, ops, {}, {}, << >>)
    BY <2>2, <2>4 DEF ContentIs
  <2> QED
    BY <2>1, <2>5 DEF ContentInv
<1> QED
  BY <1>1, NextKeepsContent, WindowInvariant, IndexInvariant, PTL DEF Spec

(***************************************************************************)
(* The sliding window of to_index.rs and process_record: an index that is  *)
(* delivered inline shows each record of the volume with the names, sizes, *)
(* streams and children of all its segments, once, whatever order the      *)
(* reads completed in and wherever the extensions lie.  The plan is taken  *)
(* to read each mapped record once, in place, and to find no other.        *)
(***************************************************************************)
THEOREM IndexAlwaysTheVolume == Spec => []IndexIsTheVolume
<1>1. WindowInv /\ IndexInv /\ ContentInv => IndexIsTheVolume
  <2> SUFFICES ASSUME WindowInv, IndexInv, ContentInv, source = "inline",
                      PlanReads(ops, volume.extents, Mapped(volume)), FindsNoMore(volume, ops)
               PROVE  /\ DOMAIN index = Owners(volume) \union
                           UNION {{n.parent : n \in NamesOf(volume, b)} : b \in Owners(volume)}
                      /\ \A b \in DOMAIN index : RecordIs(volume, index[b], b)
    BY DEF IndexIsTheVolume
  <2>1. volume \in Volumes /\ done = DOMAIN ops /\ IsPlan(ops)
    <3>1. reader = "ok"
      BY DEF ContentInv
    <3>2. done = Reads
      BY <3>1 DEF WindowInv, OkMeansAll
    <3> QED
      BY <3>2, OpsArePlan DEF Reads, IndexInv
  <2>2. Sound(volume, ops)
    BY DEF Sound
  <2>3. Shows(volume, PlacesOf(volume, Parsed(volume, ops, gone, done)), index)
    BY <2>2 DEF ContentInv, ContentIs
  <2>4. Parsed(volume, ops, gone, done) = Live(volume)
    <3>1. \A f \in InUse(volume) : \E i \in DOMAIN ops : Covers(ops[i], f)
      BY <2>1, <2>2, OneCovers DEF InUse
    <3> QED
      BY <2>1, <3>1 DEF Parsed, Live
  <2>5. Shows(volume, All(volume), index)
    BY <2>3, <2>4 DEF All
  <2>6. ASSUME NEW b \in DOMAIN index PROVE RecordIs(volume, index[b], b)
    <3>1. RecordShows(volume, All(volume), b, index[b])
      BY <2>5 DEF Shows
    <3> QED
      BY <2>1, <3>1, RecordsAreVolume
  <2> QED
    BY <2>1, <2>5, <2>6, RecordsAreNamed
<1> QED
  BY <1>1, WindowInvariant, IndexInvariant, ContentInvariant, PTL

-----------------------------------------------------------------------------
(* Numbers: what is divided, and what is multiplied by a width.             *)
LEMMA DividedIs ==
    ASSUME NEW a \in Int, NEW b \in Nat \ {0}
    PROVE  a \div b \in Int /\ a % b \in 0 .. b - 1 /\ a = b * (a \div b) + (a % b)
  OBVIOUS

LEMMA WidthsKeepOrder ==
    ASSUME NEW a \in Int, NEW b \in Int, NEW w \in Nat, a <= b
    PROVE  a * w \in Int /\ b * w \in Int /\ a * w <= b * w
  OBVIOUS

LEMMA WidthsOrdered ==
    ASSUME NEW a \in Int, NEW b \in Int, NEW w \in Nat \ {0}, a * w < b * w
    PROVE  a < b
  OBVIOUS

LEMMA WidthsAdd ==
    ASSUME NEW a \in Int, NEW b \in Int, NEW w \in Int
    PROVE  /\ a * w \in Int /\ a * w = w * a
           /\ (a + b) * w = a * w + b * w /\ (a - b) * w = a * w - b * w
           /\ (a + 1) * w = a * w + w /\ (a - 1) * w = a * w - w
  OBVIOUS

-----------------------------------------------------------------------------
(* Chunks of a plan: the first record number behind one, and plans whose    *)
(* chunks follow each other in the record numbers.                          *)
Chunk == [disk : Int, frs : Nat, count : Nat]

FrsEnd(c) == c.frs + c.count

Ascending(s) ==
  \A i, j \in DOMAIN s : i < j => FrsEnd(s[i]) <= s[j].frs

(* A run of records from frs on, of which each chunk has some.              *)
CutsUp(s, disk, frs, records) ==
  /\ s \in Seq(Chunk) /\ Ascending(s)
  /\ \A i \in DOMAIN s :
       /\ s[i].disk - s[i].frs = disk - frs /\ s[i].count > 0
       /\ frs <= s[i].frs /\ FrsEnd(s[i]) <= frs + records
  /\ \A f \in frs .. frs + records - 1 : \E i \in DOMAIN s : Covers(s[i], f)
  /\ \A i \in 1 .. Len(s) - 1 : s[i + 1].frs = FrsEnd(s[i])
  /\ records > 0 => /\ Len(s) > 0 /\ s[1].frs = frs
                    /\ FrsEnd(s[Len(s)]) = frs + records

LEMMA CutIs ==
    ASSUME NEW disk \in Int, NEW frs \in Nat, NEW records \in Nat, NEW size \in Nat \ {0}
    PROVE  CutsUp(Cut(disk, frs, records, size), disk, frs, records)
<1> DEFINE n == (records + size - 1) \div size
           s == Cut(disk, frs, records, size)
<1>1. n \in Int /\ records + size - 1 \in Nat
  BY DividedIs
<1>2. n * size <= records + size - 1 /\ records + size - 1 < n * size + size
  <2>1. /\ (records + size - 1) % size \in 0 .. size - 1
        /\ records + size - 1 = size * n + ((records + size - 1) % size)
    BY <1>1, DividedIs
  <2>2. n * size = size * n /\ n * size \in Int
    BY <1>1, WidthsAdd
  <2> HIDE DEF n
  <2> QED
    BY <2>1, <2>2
<1>3. n \in Nat
  <2>1. (0 - 1) * size < n * size
    <3>1. (0 - 1) * size = 0 - size
      BY WidthsAdd
    <3>2. n * size \in Int
      BY <1>1, WidthsAdd
    <3> HIDE DEF n
    <3> QED
      BY <1>2, <3>1, <3>2
  <2>2. 0 - 1 < n
    BY <1>1, <2>1, WidthsOrdered
  <2> HIDE DEF n
  <2> QED
    BY <1>1, <2>2
<1>4. s = [i \in 1 .. n |-> [disk  |-> disk + (i - 1) * size,
                             frs   |-> frs + (i - 1) * size,
                             count |-> Least(size, records - (i - 1) * size)]]
  BY DEF Cut
<1> HIDE DEF n, s
<1>5. ASSUME NEW i \in 1 .. n
      PROVE  /\ (i - 1) * size \in Nat /\ i * size = (i - 1) * size + size
             /\ (i - 1) * size < records /\ i - 1 \in Nat /\ i \in Nat
             /\ i = n => records <= i * size
             /\ i < n => i * size < records
  <2>0. i - 1 \in Nat /\ i \in Nat /\ i <= n /\ i \in Int /\ n \in Int /\ i - 1 \in Int
    BY <1>3
  <2>1. i * size = (i - 1) * size + size /\ (i - 1) * size \in Int /\ i * size \in Int
    BY <2>0, WidthsAdd
  <2>2. 0 * size <= (i - 1) * size /\ 0 * size = 0
    BY <2>0, WidthsKeepOrder
  <2>3. i * size <= n * size /\ n * size \in Int
    BY <2>0, WidthsKeepOrder
  <2>4. ASSUME i < n PROVE i * size < records
    <3>1. (i + 1) * size <= n * size /\ (i + 1) * size \in Int
      BY <2>0, <2>4, WidthsKeepOrder
    <3>2. (i + 1) * size = i * size + size
      BY <2>0, WidthsAdd
    <3> QED
      BY <1>2, <2>1, <2>3, <3>1, <3>2
  <2>5. (i - 1) * size < records
    BY <1>2, <2>1, <2>3
  <2>6. i = n => records <= i * size
    BY <1>2, <2>3
  <2> QED
    BY <2>0, <2>1, <2>2, <2>4, <2>5, <2>6
<1>6. ASSUME NEW i \in 1 .. n
      PROVE  /\ s[i] \in Chunk
             /\ s[i].disk - s[i].frs = disk - frs /\ s[i].count > 0
             /\ s[i].frs = frs + (i - 1) * size
             /\ FrsEnd(s[i]) = IF i = n THEN frs + records ELSE frs + i * size
  <2>1. /\ s[i].disk = disk + (i - 1) * size
        /\ s[i].frs = frs + (i - 1) * size
        /\ s[i].count = Least(size, records - (i - 1) * size)
        /\ s[i] = [disk |-> s[i].disk, frs |-> s[i].frs, count |-> s[i].count]
    BY <1>4
  <2>2. /\ (i - 1) * size \in Nat /\ i * size = (i - 1) * size + size
        /\ (i - 1) * size < records /\ i \in Nat
        /\ i = n => records <= i * size
        /\ i < n => i * size < records
    BY <1>5
  <2>3. s[i].count = IF i = n THEN records - (i - 1) * size ELSE size
    BY <1>3, <2>1, <2>2 DEF Least
  <2>4. s[i].disk \in Int /\ s[i].frs \in Nat /\ s[i].count \in Nat /\ s[i].count > 0
    BY <2>1, <2>2, <2>3
  <2>5. s[i] \in Chunk
    BY <2>1, <2>4 DEF Chunk
  <2>6. FrsEnd(s[i]) = IF i = n THEN frs + records ELSE frs + i * size
    BY <2>1, <2>2, <2>3 DEF FrsEnd
  <2> QED
    BY <2>1, <2>2, <2>4, <2>5, <2>6
<1>7. DOMAIN s = 1 .. n /\ Len(s) = n /\ s \in Seq(Chunk)
  <2>1. \A i \in 1 .. n : s[i] \in Chunk
    BY <1>6
  <2>2. DOMAIN s = 1 .. n /\ s = [i \in 1 .. n |-> s[i]]
    BY <1>4
  <2>3. s \in [1 .. n -> Chunk]
    BY <2>1, <2>2
  <2> QED
    BY <1>3, <2>3
<1>8. Ascending(s)
  <2> SUFFICES ASSUME NEW i \in 1 .. n, NEW j \in 1 .. n, i < j
               PROVE  FrsEnd(s[i]) <= s[j].frs
    BY <1>7 DEF Ascending
  <2>1. FrsEnd(s[i]) = frs + i * size /\ s[j].frs = frs + (j - 1) * size
    BY <1>3, <1>6
  <2>2. i * size <= (j - 1) * size /\ i * size \in Int /\ (j - 1) * size \in Int
    BY <1>3, WidthsKeepOrder
  <2> QED
    BY <2>1, <2>2
<1>9. ASSUME NEW i \in 1 .. n PROVE frs <= s[i].frs /\ FrsEnd(s[i]) <= frs + records
  <2>1. s[i].frs = frs + (i - 1) * size /\ (i - 1) * size \in Nat
    BY <1>5, <1>6
  <2>2. i # n => FrsEnd(s[i]) = frs + i * size /\ i * size < records
    BY <1>3, <1>5, <1>6
  <2>3. i = n => FrsEnd(s[i]) = frs + records
    BY <1>6
  <2>4. i * size \in Int
    BY <1>3, WidthsAdd
  <2> QED
    BY <2>1, <2>2, <2>3, <2>4
<1>10. ASSUME NEW f \in frs .. frs + records - 1 PROVE \E i \in DOMAIN s : Covers(s[i], f)
  <2> DEFINE q == (f - frs) \div size
  <2>0. f - frs \in Nat /\ f \in Nat
    OBVIOUS
  <2>1. q \in Int /\ q * size \in Int /\ q * size <= f - frs /\ f - frs < q * size + size
    <3>1. q \in Int /\ (f - frs) % size \in 0 .. size - 1
          /\ f - frs = size * q + ((f - frs) % size)
      BY <2>0, DividedIs
    <3>2. q * size = size * q /\ q * size \in Int
      BY <3>1, WidthsAdd
    <3> HIDE DEF q
    <3> QED
      BY <2>0, <3>1, <3>2
  <2> HIDE DEF q
  <2>2. q \in Nat
    <3>1. (0 - 1) * size = 0 - size
      BY WidthsAdd
    <3>2. (0 - 1) * size < q * size
      BY <2>0, <2>1, <3>1
    <3>3. 0 - 1 < q
      BY <2>1, <3>2, WidthsOrdered
    <3> QED
      BY <2>1, <3>3
  <2>3. q + 1 \in 1 .. n
    <3>1. q * size < n * size
      <4>1. n * size \in Int
        BY <1>3, WidthsAdd
      <4> QED
        BY <1>2, <2>0, <2>1, <4>1
    <3>2. q < n
      BY <1>3, <2>2, <3>1, WidthsOrdered
    <3> QED
      BY <1>3, <2>2, <3>2
  <2>4. /\ s[q + 1].frs = frs + q * size
        /\ FrsEnd(s[q + 1]) = IF q + 1 = n THEN frs + records ELSE frs + (q + 1) * size
        /\ s[q + 1] \in Chunk
    <3>1. (q + 1) - 1 = q
      BY <2>2
    <3> QED
      BY <1>6, <2>3, <3>1
  <2>5. (q + 1) * size = q * size + size
    BY <2>2, WidthsAdd
  <2>6. s[q + 1].frs <= f /\ f < FrsEnd(s[q + 1])
    BY <2>0, <2>1, <2>4, <2>5
  <2>7. f \in s[q + 1].frs .. s[q + 1].frs + s[q + 1].count - 1
    BY <2>0, <2>4, <2>6 DEF FrsEnd, Chunk
  <2>8. Covers(s[q + 1], f)
    BY <2>7 DEF Covers
  <2> QED
    BY <1>7, <2>3, <2>8
<1>11. ASSUME NEW i \in 1 .. Len(s) - 1 PROVE s[i + 1].frs = FrsEnd(s[i])
  <2>1. i \in 1 .. n /\ i + 1 \in 1 .. n /\ (i + 1) - 1 = i /\ i # n
    BY <1>3, <1>7
  <2>2. s[i + 1].frs = frs + ((i + 1) - 1) * size
    BY <1>6, <2>1
  <2> QED
    BY <1>6, <2>1, <2>2
<1>12. ASSUME records > 0
       PROVE  Len(s) > 0 /\ s[1].frs = frs /\ FrsEnd(s[Len(s)]) = frs + records
  <2>1. frs \in frs .. frs + records - 1
    BY <1>12
  <2>2. n > 0
    BY <1>3, <1>7, <1>10, <2>1
  <2>3. 1 \in 1 .. n /\ n \in 1 .. n
    BY <1>3, <2>2
  <2>4. s[1].frs = frs + (1 - 1) * size /\ FrsEnd(s[n]) = frs + records
    BY <1>6, <2>3
  <2> QED
    BY <1>7, <2>2, <2>4
<1>13. \A i \in DOMAIN s :
         /\ s[i].disk - s[i].frs = disk - frs /\ s[i].count > 0
         /\ frs <= s[i].frs /\ FrsEnd(s[i]) <= frs + records
  BY <1>6, <1>7, <1>9
<1>14. CutsUp(s, disk, frs, records)
  BY <1>7, <1>8, <1>10, <1>11, <1>12, <1>13 DEF CutsUp
<1> QED
  BY <1>14 DEF s

(* Sequences that are joined keep their places: place p of what they are    *)
(* joined to is place m[p] of sequence k[p].                                *)
Unjoined(A, s, ss, n, k, m) ==
  /\ s \in Seq(A)
  /\ \A p \in 1 .. Len(s) :
       k[p] \in 1 .. n /\ m[p] \in 1 .. Len(ss[k[p]]) /\ s[p] = ss[k[p]][m[p]]
  /\ \A p, q \in 1 .. Len(s) : p < q => k[p] < k[q] \/ (k[p] = k[q] /\ m[p] < m[q])
  /\ \A i \in 1 .. n : \A j \in 1 .. Len(ss[i]) : \E p \in 1 .. Len(s) : k[p] = i /\ m[p] = j

LEMMA JoinsOneMore ==
    ASSUME NEW A, NEW n \in Nat, NEW ss \in [1 .. n -> Seq(A)], NEW i \in 1 .. n,
           NEW s, NEW k, NEW m, Unjoined(A, s, ss, i - 1, k, m)
    PROVE  \E k2, m2 : Unjoined(A, s \o ss[i], ss, i, k2, m2)
<1> DEFINE l == Len(s)
           t == s \o ss[i]
           k2 == [p \in 1 .. Len(t) |-> IF p <= l THEN k[p] ELSE i]
           m2 == [p \in 1 .. Len(t) |-> IF p <= l THEN m[p] ELSE p - l]
<1>1. s \in Seq(A) /\ ss[i] \in Seq(A) /\ l \in Nat /\ Len(ss[i]) \in Nat
  BY DEF Unjoined
<1>2. t \in Seq(A) /\ Len(t) = l + Len(ss[i])
  BY <1>1
<1>3. \A p \in 1 .. Len(t) : t[p] = IF p <= l THEN s[p] ELSE ss[i][p - l]
  BY <1>1
<1> HIDE DEF l, t
<1>4. ASSUME NEW p \in 1 .. Len(t)
      PROVE  k2[p] \in 1 .. i /\ m2[p] \in 1 .. Len(ss[k2[p]]) /\ t[p] = ss[k2[p]][m2[p]]
  <2>1. CASE p <= l
    <3>1. p \in 1 .. Len(s)
      BY <1>1, <2>1 DEF l
    <3>2. k[p] \in 1 .. i - 1 /\ m[p] \in 1 .. Len(ss[k[p]]) /\ s[p] = ss[k[p]][m[p]]
      BY <3>1 DEF Unjoined
    <3>3. k2[p] = k[p] /\ m2[p] = m[p] /\ t[p] = s[p]
      BY <1>3, <2>1
    <3>4. k[p] \in 1 .. i
      BY <3>2
    <3> QED
      BY <3>2, <3>3, <3>4
  <2>2. CASE ~ (p <= l)
    <3>1. k2[p] = i /\ m2[p] = p - l /\ t[p] = ss[i][p - l]
      BY <1>3, <2>2
    <3>2. p - l \in 1 .. Len(ss[i])
      BY <1>1, <1>2, <2>2
    <3> QED
      BY <3>1, <3>2
  <2> QED
    BY <2>1, <2>2
<1>5. ASSUME NEW p \in 1 .. Len(t), NEW q \in 1 .. Len(t), p < q
      PROVE  k2[p] < k2[q] \/ (k2[p] = k2[q] /\ m2[p] < m2[q])
  <2>1. CASE q <= l
    <3>1. p \in 1 .. Len(s) /\ q \in 1 .. Len(s)
      BY <1>1, <1>2, <1>5, <2>1 DEF l
    <3>2. k[p] < k[q] \/ (k[p] = k[q] /\ m[p] < m[q])
      BY <1>5, <3>1 DEF Unjoined
    <3>3. k2[p] = k[p] /\ m2[p] = m[p] /\ k2[q] = k[q] /\ m2[q] = m[q]
      BY <1>1, <1>2, <1>5, <2>1
    <3> HIDE DEF k2, m2
    <3> QED
      BY <3>2, <3>3
  <2>2. CASE ~ (q <= l) /\ p <= l
    <3>1. p \in 1 .. Len(s)
      BY <2>2 DEF l
    <3>2. k[p] \in 1 .. i - 1
      BY <3>1 DEF Unjoined
    <3>3. k2[p] = k[p] /\ k2[q] = i
      BY <2>2
    <3>4. k[p] < i
      BY <3>2
    <3> HIDE DEF k2, m2
    <3> QED
      BY <3>3, <3>4
  <2>3. CASE ~ (q <= l) /\ ~ (p <= l)
    <3>1. k2[p] = i /\ k2[q] = i /\ m2[p] = p - l /\ m2[q] = q - l
      BY <2>3
    <3>2. p - l < q - l
      BY <1>1, <1>2, <1>5
    <3> HIDE DEF k2, m2
    <3> QED
      BY <3>1, <3>2
  <2> QED
    BY <2>1, <2>2, <2>3
<1>6. ASSUME NEW a \in 1 .. i, NEW j \in 1 .. Len(ss[a])
      PROVE  \E p \in 1 .. Len(t) : k2[p] = a /\ m2[p] = j
  <2>1. CASE a = i
    <3>1. l + j \in 1 .. Len(t) /\ ~ (l + j <= l) /\ (l + j) - l = j
      BY <1>1, <1>2, <2>1
    <3>2. k2[l + j] = a /\ m2[l + j] = j
      BY <2>1, <3>1
    <3> HIDE DEF k2, m2
    <3> QED
      BY <3>1, <3>2
  <2>2. CASE a # i
    <3>1. a \in 1 .. i - 1
      BY <2>2
    <3>2. PICK p \in 1 .. Len(s) : k[p] = a /\ m[p] = j
      BY <3>1 DEF Unjoined
    <3>3. p \in 1 .. Len(t) /\ p <= l
      BY <1>1, <1>2 DEF l
    <3>4. k2[p] = a /\ m2[p] = j
      BY <3>2, <3>3
    <3> HIDE DEF k2, m2
    <3> QED
      BY <3>3, <3>4
  <2> QED
    BY <2>1, <2>2
<1>7. Unjoined(A, t, ss, i, k2, m2)
  <2> HIDE DEF k2, m2
  <2> QED
    BY <1>2, <1>4, <1>5, <1>6 DEF Unjoined
<1> HIDE DEF k2, m2
<1> QED
  BY <1>7 DEF t

LEMMA JoinsNone ==
    ASSUME NEW A, NEW ss
    PROVE  \E k, m : Unjoined(A, << >>, ss, 0, k, m)
<1>1. << >> \in Seq(A) /\ Len(<< >>) = 0 /\ 1 .. 0 = {}
  OBVIOUS
<1>2. ASSUME NEW k, NEW m PROVE Unjoined(A, << >>, ss, 0, k, m)
  BY <1>1 DEF Unjoined
<1> QED
  BY <1>2

LEMMA JoinedKeepPlaces ==
    ASSUME NEW A, NEW n \in Nat, NEW ss \in [1 .. n -> Seq(A)]
    PROVE  \E k, m : Unjoined(A, FlattenSeq(ss), ss, n, k, m)
<1>1. DOMAIN ss = 1 .. n /\ Len(ss) = n
  OBVIOUS
<1>2. PICK fl : /\ ByRecord!Flat(fl, ss, n)
                /\ FlattenSeq(ss) = IF n = 0 THEN ss ELSE fl[n]
  <2>1. ByRecord!Flattened(ss) = FlattenSeq(ss)
    BY DEF ByRecord!Flattened, FlattenSeq
  <2>2. \E fl : /\ ByRecord!Flat(fl, ss, n)
                /\ ByRecord!Flattened(ss) = IF n = 0 THEN ss ELSE fl[n]
    BY <1>1, ByRecord!FlattenSteps
  <2> QED
    BY <2>1, <2>2
<1>3. \A i \in 1 .. n : fl[i] = IF i = 1 THEN ss[i] ELSE fl[i - 1] \o ss[i]
  BY <1>2 DEF ByRecord!Flat
<1> DEFINE S == {i \in 0 .. n : i # 0 => \E k, m : Unjoined(A, fl[i], ss, i, k, m)}
<1>4. 0 \in S
  OBVIOUS
<1>5. ASSUME NEW i \in 1 .. n, i - 1 \in S PROVE i \in S
  <2>1. CASE i = 1
    <3>0. 1 - 1 = 0
      OBVIOUS
    <3>1. PICK k, m : Unjoined(A, << >>, ss, 1 - 1, k, m)
      BY <3>0, JoinsNone, Zenon
    <3>2. \E k2, m2 : Unjoined(A, << >> \o ss[1], ss, 1, k2, m2)
      <4>1. 1 \in 1 .. n
        BY <2>1
      <4> QED
        BY <3>1, <4>1, JoinsOneMore
    <3>3. << >> \o ss[1] = ss[1] /\ fl[1] = ss[1]
      <4>1. ss[1] \in Seq(A)
        BY <2>1
      <4>2. fl[1] = ss[1]
        BY <1>3, <2>1
      <4> QED
        BY <4>1, <4>2
    <3> QED
      BY <2>1, <3>2, <3>3
  <2>2. CASE i # 1
    <3>1. PICK k, m : Unjoined(A, fl[i - 1], ss, i - 1, k, m)
      BY <1>5, <2>2
    <3>2. fl[i] = fl[i - 1] \o ss[i]
      BY <1>3, <2>2
    <3> HIDE DEF S
    <3>3. \E k2, m2 : Unjoined(A, fl[i - 1] \o ss[i], ss, i, k2, m2)
      BY <3>1, JoinsOneMore
    <3>4. \E k2, m2 : Unjoined(A, fl[i], ss, i, k2, m2)
      BY <3>2, <3>3
    <3> QED
      BY <3>4 DEF S
  <2> QED
    BY <2>1, <2>2
<1>6. \A i \in 0 .. n : i \in S
  <2> HIDE DEF S
  <2> QED
    BY <1>4, <1>5, ByRecord!UpTo
<1>7. CASE n = 0
  <2>1. FlattenSeq(ss) = << >>
    BY <1>2, <1>7
  <2> QED
    BY <1>7, <2>1, JoinsNone
<1>8. CASE n # 0
  BY <1>2, <1>6, <1>8
<1> QED
  BY <1>7, <1>8

-----------------------------------------------------------------------------
(* A finite set that an order R ranks: its members have the ranks from 0 on. *)
Rank(S, R, i) == Cardinality({j \in S : <<j, i>> \in R})

Ranks(S, R) ==
  /\ IsFiniteSet(S)
  /\ \A i \in S : <<i, i>> \notin R
  /\ \A i, j, l \in S : <<i, j>> \in R /\ <<j, l>> \in R => <<i, l>> \in R
  /\ \A i, j \in S : i # j => <<i, j>> \in R \/ <<j, i>> \in R

LEMMA RanksAre ==
    ASSUME NEW S, NEW R, Ranks(S, R)
    PROVE  /\ Cardinality(S) \in Nat
           /\ \A i \in S : Rank(S, R, i) \in 0 .. Cardinality(S) - 1
           /\ \A i, j \in S : <<i, j>> \in R => Rank(S, R, i) < Rank(S, R, j)
           /\ \A i, j \in S : Rank(S, R, i) < Rank(S, R, j) => <<i, j>> \in R
           /\ \A i, j \in S : Rank(S, R, i) = Rank(S, R, j) => i = j
           /\ \A r \in 0 .. Cardinality(S) - 1 : \E i \in S : Rank(S, R, i) = r
<1> DEFINE B(i) == {j \in S : <<j, i>> \in R}
           c == Cardinality(S)
<1>0. IsFiniteSet(S) /\ c \in Nat
  BY FS_CardinalityType DEF Ranks
<1>1. ASSUME NEW i \in S
      PROVE  IsFiniteSet(B(i)) /\ Cardinality(B(i)) \in Nat /\ Cardinality(B(i)) < c
  <2>1. B(i) \in SUBSET S /\ B(i) # S
    BY DEF Ranks
  <2>2. IsFiniteSet(B(i)) /\ Cardinality(B(i)) <= c /\ Cardinality(B(i)) # c
    BY <1>0, <2>1, FS_Subset
  <2>3. Cardinality(B(i)) \in Nat
    BY <2>2, FS_CardinalityType
  <2> HIDE DEF B, c
  <2> QED
    BY <1>0, <2>2, <2>3
<1>2. ASSUME NEW i \in S, NEW j \in S, <<i, j>> \in R
      PROVE  Cardinality(B(i)) < Cardinality(B(j))
  <2>1. B(i) \in SUBSET B(j) /\ i \in B(j) /\ i \notin B(i)
    BY <1>2 DEF Ranks
  <2>2. IsFiniteSet(B(j)) /\ Cardinality(B(j)) \in Nat /\ Cardinality(B(i)) \in Nat
    BY <1>1
  <2> HIDE DEF B
  <2>3. Cardinality(B(i)) <= Cardinality(B(j)) /\ Cardinality(B(i)) # Cardinality(B(j))
    <3>1. B(i) # B(j)
      BY <2>1
    <3> QED
      BY <2>1, <2>2, <3>1, FS_Subset
  <2> QED
    BY <2>2, <2>3
<1>3. \A i \in S : Rank(S, R, i) = Cardinality(B(i))
  BY DEF Rank
<1>4. \A i \in S : Rank(S, R, i) \in 0 .. c - 1
  <2> HIDE DEF B, c
  <2> QED
    BY <1>0, <1>1, <1>3
<1>5. \A i, j \in S : <<i, j>> \in R => Rank(S, R, i) < Rank(S, R, j)
  <2> HIDE DEF B
  <2> QED
    BY <1>2, <1>3
<1>6. \A i, j \in S : Rank(S, R, i) = Rank(S, R, j) => i = j
  <2> SUFFICES ASSUME NEW i \in S, NEW j \in S, Rank(S, R, i) = Rank(S, R, j), i # j
               PROVE  FALSE
    OBVIOUS
  <2>1. Rank(S, R, i) < Rank(S, R, j) \/ Rank(S, R, j) < Rank(S, R, i)
    BY <1>5 DEF Ranks
  <2>2. Rank(S, R, i) \in Int /\ Rank(S, R, j) \in Int
    BY <1>4
  <2> QED
    BY <2>1, <2>2
<1>7. \A i, j \in S : Rank(S, R, i) < Rank(S, R, j) => <<i, j>> \in R
  <2> SUFFICES ASSUME NEW i \in S, NEW j \in S, Rank(S, R, i) < Rank(S, R, j), <<i, j>> \notin R
               PROVE  FALSE
    OBVIOUS
  <2>1. Rank(S, R, i) \in Int /\ Rank(S, R, j) \in Int
    BY <1>4
  <2>2. i # j
    BY <2>1
  <2>3. Rank(S, R, j) < Rank(S, R, i)
    BY <1>5, <2>2 DEF Ranks
  <2> QED
    BY <2>1, <2>3
<1> DEFINE g == [i \in S |-> Rank(S, R, i)]
           T == 0 .. c - 1
<1>8. g \in Injection(S, T)
  <2>1. g \in [S -> T]
    BY <1>4
  <2>2. \A i, j \in S : g[i] = g[j] => i = j
    BY <1>6
  <2> HIDE DEF g, T
  <2> QED
    BY <2>1, <2>2 DEF Injection, IsInjective
<1>9. IsFiniteSet(T) /\ Cardinality(T) = c
  <2>1. 0 \in Int /\ c - 1 \in Int
    BY <1>0
  <2>2. IsFiniteSet(0 .. c - 1) /\ Cardinality(0 .. c - 1) = IF 0 > c - 1 THEN 0 ELSE (c - 1) - 0 + 1
    BY <2>1, FS_Interval
  <2> HIDE DEF c
  <2> QED
    BY <1>0, <2>2
<1>10. g \in Surjection(S, T)
  <2> HIDE DEF g, T
  <2> QED
    BY <1>8, <1>9, FS_Injection DEF c
<1>11. \A r \in T : \E i \in S : g[i] = r
  <2> HIDE DEF g, T
  <2> QED
    BY <1>10 DEF Surjection
<1>12. \A r \in 0 .. c - 1 : \E i \in S : Rank(S, R, i) = r
  BY <1>11
<1> QED
  BY <1>0, <1>4, <1>5, <1>6, <1>7, <1>12

(* The sort by disk offset puts chunks in another order, and in order.      *)
Reordered(t, s, p) ==
  /\ t \in Seq(Chunk) /\ Len(t) = Len(s)
  /\ \A i \in 1 .. Len(s) : p[i] \in 1 .. Len(s) /\ t[i] = s[p[i]]
  /\ \A i, j \in 1 .. Len(s) : p[i] = p[j] => i = j
  /\ \A i \in 1 .. Len(s) : \E j \in 1 .. Len(s) : p[j] = i

Before(s) ==
  {b \in (DOMAIN s) \X (DOMAIN s) :
     \/ s[b[1]].disk < s[b[2]].disk
     \/ s[b[1]].disk = s[b[2]].disk /\ b[1] < b[2]}

LEMMA SortIs ==
    ASSUME NEW s \in Seq(Chunk)
    PROVE  /\ \E p : Reordered(ByDiskOffset(s), s, p)
           /\ \A i, j \in 1 .. Len(s) : i < j => ByDiskOffset(s)[i].disk <= ByDiskOffset(s)[j].disk
<1> DEFINE n == Len(s)
           D == DOMAIN s
           R == Before(s)
           p == [r \in D |-> CHOOSE i \in D : Rank(D, R, i) = r - 1]
           t == ByDiskOffset(s)
<1>1. n \in Nat /\ D = 1 .. n /\ \A i \in D : s[i] \in Chunk /\ s[i].disk \in Int
  <2>1. n \in Nat /\ D = 1 .. n /\ \A i \in D : s[i] \in Chunk
    OBVIOUS
  <2>2. \A c \in Chunk : c.disk \in Int
    BY DEF Chunk
  <2> HIDE DEF n, D
  <2> QED
    BY <2>1, <2>2
<1>2. \A i, j \in D : <<i, j>> \in R <=> (s[i].disk < s[j].disk \/ (s[i].disk = s[j].disk /\ i < j))
  <2> SUFFICES ASSUME NEW i \in D, NEW j \in D
               PROVE  <<i, j>> \in R <=> (s[i].disk < s[j].disk \/ (s[i].disk = s[j].disk /\ i < j))
    OBVIOUS
  <2>1. <<i, j>> \in D \X D /\ <<i, j>>[1] = i /\ <<i, j>>[2] = j
    OBVIOUS
  <2> HIDE DEF D
  <2> QED
    BY <2>1 DEF Before, D
<1> HIDE DEF R, n
<1>3. Ranks(D, R)
  <2>1. IsFiniteSet(D)
    BY <1>1, FS_Interval
  <2>2. \A i \in D : i \in Int
    BY <1>1
  <2> HIDE DEF D
  <2>3. \A i \in D : <<i, i>> \notin R
    BY <1>1, <1>2, <2>2
  <2>4. ASSUME NEW i \in D, NEW j \in D, NEW l \in D, <<i, j>> \in R, <<j, l>> \in R
        PROVE  <<i, l>> \in R
    <3>1. {s[i].disk, s[j].disk, s[l].disk, i, j, l} \in SUBSET Int
      BY <1>1, <2>2
    <3>2. s[i].disk < s[j].disk \/ (s[i].disk = s[j].disk /\ i < j)
      BY <1>2, <2>4
    <3>3. s[j].disk < s[l].disk \/ (s[j].disk = s[l].disk /\ j < l)
      BY <1>2, <2>4
    <3>4. s[i].disk < s[l].disk \/ (s[i].disk = s[l].disk /\ i < l)
      BY <3>1, <3>2, <3>3
    <3> QED
      BY <1>2, <3>4
  <2>5. ASSUME NEW i \in D, NEW j \in D, i # j PROVE <<i, j>> \in R \/ <<j, i>> \in R
    <3>1. {s[i].disk, s[j].disk, i, j} \in SUBSET Int
      BY <1>1, <2>2
    <3>2. \/ s[i].disk < s[j].disk \/ (s[i].disk = s[j].disk /\ i < j)
          \/ s[j].disk < s[i].disk \/ (s[j].disk = s[i].disk /\ j < i)
      BY <2>5, <3>1
    <3> QED
      BY <1>2, <3>2
  <2> QED
    BY <2>1, <2>3, <2>4, <2>5 DEF Ranks
<1>4. Cardinality(D) = n
  <2>1. n \in Nat /\ D = 1 .. n
    BY <1>1
  <2>2. Cardinality(1 .. n) = IF 1 > n THEN 0 ELSE n - 1 + 1
    BY <2>1, FS_Interval
  <2> HIDE DEF D
  <2> QED
    BY <2>1, <2>2
<1>5. t = [r \in D |-> s[p[r]]]
  <2>1. ASSUME NEW i \in D
        PROVE  {j \in D : s[j].disk < s[i].disk \/ (s[j].disk = s[i].disk /\ j < i)}
                 = {j \in D : <<j, i>> \in R}
    BY <1>2
  <2> DEFINE N(r) == CHOOSE i \in D : Cardinality({j \in D : \/ s[j].disk < s[i].disk
                                                           \/ (s[j].disk = s[i].disk /\ j < i)}) = r - 1
  <2>2. ASSUME NEW r \in D PROVE N(r) = p[r]
    <3>1. \A i \in D : Cardinality({j \in D : \/ s[j].disk < s[i].disk
                                              \/ (s[j].disk = s[i].disk /\ j < i)}) = r - 1
                        <=> Rank(D, R, i) = r - 1
      BY <2>1 DEF Rank
    <3>2. p[r] = CHOOSE i \in D : Rank(D, R, i) = r - 1
      OBVIOUS
    <3> HIDE DEF D, p
    <3>3. N(r) = CHOOSE i \in D : Rank(D, R, i) = r - 1
      BY <3>1
    <3> HIDE DEF N
    <3> QED
      BY <3>2, <3>3
  <2>3. t = [r \in D |-> s[N(r)]]
    BY DEF ByDiskOffset
  <2> HIDE DEF t, D, N, p
  <2> QED
    BY <2>2, <2>3
<1> HIDE DEF D, t
<1>6. ASSUME NEW r \in D PROVE p[r] \in D /\ Rank(D, R, p[r]) = r - 1
  <2>1. r - 1 \in 0 .. Cardinality(D) - 1
    BY <1>1, <1>4
  <2>2. \E i \in D : Rank(D, R, i) = r - 1
    BY <1>3, <2>1, RanksAre
  <2> QED
    BY <2>2
<1>7. ASSUME NEW i \in D PROVE \E r \in D : p[r] = i
  <2>1. Rank(D, R, i) \in 0 .. Cardinality(D) - 1
    BY <1>3, RanksAre
  <2>2. Rank(D, R, i) + 1 \in D /\ (Rank(D, R, i) + 1) - 1 = Rank(D, R, i)
    BY <1>1, <1>4, <2>1
  <2>3. p[Rank(D, R, i) + 1] \in D /\ Rank(D, R, p[Rank(D, R, i) + 1]) = Rank(D, R, i)
    BY <1>6, <2>2
  <2> HIDE DEF p
  <2>4. p[Rank(D, R, i) + 1] = i
    BY <1>3, <2>3, RanksAre
  <2> QED
    BY <2>2, <2>4
<1> HIDE DEF p
<1>8. ASSUME NEW i \in D, NEW j \in D, p[i] = p[j] PROVE i = j
  <2>1. i - 1 = j - 1
    BY <1>6, <1>8
  <2> QED
    BY <1>1, <2>1
<1>9. ASSUME NEW i \in D, NEW j \in D, i < j PROVE t[i].disk <= t[j].disk
  <2>1. Rank(D, R, p[i]) < Rank(D, R, p[j])
    <3>1. Rank(D, R, p[i]) = i - 1 /\ Rank(D, R, p[j]) = j - 1
      BY <1>6
    <3>2. i - 1 < j - 1
      BY <1>1, <1>9
    <3> QED
      BY <3>1, <3>2
  <2>2. p[i] \in D /\ p[j] \in D
    BY <1>6
  <2>3. <<p[i], p[j]>> \in R
    BY <1>3, <2>1, <2>2, RanksAre
  <2>4. s[p[i]].disk <= s[p[j]].disk
    BY SMTT(20), <1>1, <1>2, <2>2, <2>3
  <2> QED
    BY <1>5, <2>4
<1>10. Reordered(t, s, p)
  <2>1. \A r \in D : t[r] = s[p[r]] /\ t[r] \in Chunk
    BY <1>1, <1>5, <1>6
  <2>2. DOMAIN t = D
    BY <1>5
  <2>3. t \in [D -> Chunk]
    BY <1>5, <2>1, <2>2
  <2>4. t \in Seq(Chunk) /\ Len(t) = n
    BY <1>1, <2>3
  <2> QED
    BY <1>1, <1>6, <1>7, <1>8, <2>1, <2>4 DEF Reordered, n
<1> QED
  BY <1>1, <1>9, <1>10 DEF t, n

-----------------------------------------------------------------------------
(* A plan for the records W: its chunks lie apart, reach each record, and   *)
(* find it where the extents put it.                                        *)
Apart(s) ==
  \A i, j \in DOMAIN s : i # j => FrsEnd(s[i]) <= s[j].frs \/ FrsEnd(s[j]) <= s[i].frs

Reaches(s, W) == \A f \in W : \E i \in DOMAIN s : Covers(s[i], f)

Finds(s, ex, W) ==
  \A i \in DOMAIN s : \A f \in W :
    Covers(s[i], f) => s[i].disk + f - s[i].frs = PhysicalOffset(ex, f)

Plans(s, ex, W) == s \in Seq(Chunk) /\ Apart(s) /\ Reaches(s, W) /\ Finds(s, ex, W)

LEMMA ListedIs ==
    ASSUME NEW A, NEW n \in Nat, NEW g \in [1 .. n -> A]
    PROVE  g \in Seq(A) /\ Len(g) = n
  OBVIOUS

LEMMA ChunkIs ==
    ASSUME NEW c \in Chunk
    PROVE  /\ c.disk \in Int /\ c.frs \in Nat /\ c.count \in Nat
           /\ c.frs \in Int /\ FrsEnd(c) \in Int /\ FrsEnd(c) \in Nat
           /\ FrsEnd(c) = c.frs + c.count /\ c.frs <= FrsEnd(c)
           /\ c = [disk |-> c.disk, frs |-> c.frs, count |-> c.count]
  BY DEF Chunk, FrsEnd

LEMMA CoversIs ==
    ASSUME NEW c \in Chunk, NEW f \in Int
    PROVE  Covers(c, f) <=> c.frs <= f /\ f < FrsEnd(c)
  BY DEF Covers, FrsEnd, Chunk

LEMMA AscendingApart ==
    ASSUME NEW s \in Seq(Chunk), Ascending(s)
    PROVE  Apart(s)
<1> SUFFICES ASSUME NEW i \in DOMAIN s, NEW j \in DOMAIN s, i # j
             PROVE  FrsEnd(s[i]) <= s[j].frs \/ FrsEnd(s[j]) <= s[i].frs
  BY DEF Apart
<1>1. i < j \/ j < i
  OBVIOUS
<1> QED
  BY <1>1 DEF Ascending

LEMMA PlansReadEach ==
    ASSUME NEW s, NEW ex, NEW W \in SUBSET Nat, Plans(s, ex, W)
    PROVE  PlanReads(s, ex, W)
<1> SUFFICES ASSUME NEW f \in W
             PROVE  /\ Cardinality({i \in DOMAIN s : Covers(s[i], f)}) = 1
                    /\ \A i \in DOMAIN s :
                         Covers(s[i], f) => s[i].disk + f - s[i].frs = PhysicalOffset(ex, f)
  BY DEF PlanReads
<1>1. s \in Seq(Chunk) /\ f \in Int /\ \A i \in DOMAIN s : s[i] \in Chunk
  BY DEF Plans
<1>2. PICK i \in DOMAIN s : Covers(s[i], f)
  BY DEF Plans, Reaches
<1>3. ASSUME NEW j \in DOMAIN s, Covers(s[j], f) PROVE j = i
  <2>1. s[i].frs <= f /\ f < FrsEnd(s[i]) /\ s[j].frs <= f /\ f < FrsEnd(s[j])
    BY <1>1, <1>2, <1>3, CoversIs
  <2>2. s[i].frs \in Int /\ FrsEnd(s[i]) \in Int
    <3>1. s[i] \in Chunk
      BY <1>1
    <3> QED
      BY <3>1, ChunkIs
  <2>3. s[j].frs \in Int /\ FrsEnd(s[j]) \in Int
    <3>1. s[j] \in Chunk
      BY <1>1
    <3> QED
      BY <3>1, ChunkIs
  <2>4. i # j => FrsEnd(s[i]) <= s[j].frs \/ FrsEnd(s[j]) <= s[i].frs
    BY DEF Plans, Apart
  <2>5. f \in Int
    BY <1>1
  <2> QED
    BY <2>1, <2>2, <2>3, <2>4, <2>5
<1>4. {j \in DOMAIN s : Covers(s[j], f)} = {i}
  BY <1>2, <1>3
<1>5. Cardinality({i}) = 1
  BY FS_Singleton
<1> QED
  BY <1>4, <1>5 DEF Plans, Finds

LEMMA SortedPlans ==
    ASSUME NEW s, NEW ex, NEW W, Plans(s, ex, W)
    PROVE  Plans(ByDiskOffset(s), ex, W)
<1> DEFINE t == ByDiskOffset(s)
<1>1. s \in Seq(Chunk)
  BY DEF Plans
<1>2. PICK p : Reordered(t, s, p)
  BY <1>1, SortIs
<1> HIDE DEF t
<1>3. DOMAIN s = 1 .. Len(s) /\ DOMAIN t = 1 .. Len(s) /\ t \in Seq(Chunk)
  BY <1>1, <1>2 DEF Reordered
<1>4. \A i \in DOMAIN t : p[i] \in DOMAIN s /\ t[i] = s[p[i]]
  BY <1>2, <1>3 DEF Reordered
<1>5. Apart(t)
  <2> SUFFICES ASSUME NEW i \in DOMAIN t, NEW j \in DOMAIN t, i # j
               PROVE  FrsEnd(t[i]) <= t[j].frs \/ FrsEnd(t[j]) <= t[i].frs
    BY DEF Apart
  <2>1. p[i] # p[j]
    BY <1>2, <1>3 DEF Reordered
  <2> QED
    BY <1>4, <2>1 DEF Plans, Apart
<1>6. Reaches(t, W)
  <2> SUFFICES ASSUME NEW f \in W PROVE \E i \in DOMAIN t : Covers(t[i], f)
    BY DEF Reaches
  <2>1. PICK j \in DOMAIN s : Covers(s[j], f)
    BY DEF Plans, Reaches
  <2>2. PICK i \in DOMAIN t : p[i] = j
    BY <1>2, <1>3 DEF Reordered
  <2> QED
    BY <1>4, <2>1, <2>2
<1>7. Finds(t, ex, W)
  BY <1>4 DEF Plans, Finds
<1> QED
  BY <1>3, <1>5, <1>6, <1>7 DEF Plans, t

(* Chunks that are cut into reads.                                          *)
LEMMA CutPlans ==
    ASSUME NEW s, NEW ex, NEW W \in SUBSET Nat, NEW size \in Nat \ {0}, Plans(s, ex, W)
    PROVE  Plans(FlattenSeq([i \in DOMAIN s |-> Cut(s[i].disk, s[i].frs, s[i].count, size)]), ex, W)
<1> DEFINE n == Len(s)
           ss == [i \in DOMAIN s |-> Cut(s[i].disk, s[i].frs, s[i].count, size)]
           t == FlattenSeq(ss)
<1>1. /\ s \in Seq(Chunk) /\ n \in Nat /\ DOMAIN s = 1 .. n
      /\ \A i \in 1 .. n : s[i] \in Chunk
  BY DEF Plans
<1> HIDE DEF n
<1>2. ASSUME NEW i \in 1 .. n PROVE CutsUp(ss[i], s[i].disk, s[i].frs, s[i].count)
  <2>1. s[i].disk \in Int /\ s[i].frs \in Nat /\ s[i].count \in Nat
    BY <1>1 DEF Chunk
  <2>2. CutsUp(Cut(s[i].disk, s[i].frs, s[i].count, size), s[i].disk, s[i].frs, s[i].count)
    BY <2>1, CutIs
  <2> QED
    BY <1>1, <2>2
<1>3. ss \in [1 .. n -> Seq(Chunk)]
  <2>1. \A i \in 1 .. n : ss[i] \in Seq(Chunk)
    BY <1>2 DEF CutsUp
  <2>2. DOMAIN ss = 1 .. n /\ ss = [i \in 1 .. n |-> ss[i]]
    BY <1>1
  <2> HIDE DEF ss
  <2> QED
    BY <2>1, <2>2
<1> HIDE DEF ss
<1>4. PICK k, m : Unjoined(Chunk, t, ss, n, k, m)
  BY <1>1, <1>3, JoinedKeepPlaces
<1> HIDE DEF t
<1>5. t \in Seq(Chunk) /\ DOMAIN t = 1 .. Len(t)
  BY <1>4 DEF Unjoined
<1>11. \A i \in 1 .. n : \A j \in 1 .. Len(ss[i]) : \E p \in 1 .. Len(t) : k[p] = i /\ m[p] = j
  BY <1>4 DEF Unjoined
<1>6. ASSUME NEW p \in DOMAIN t
      PROVE  /\ k[p] \in 1 .. n /\ m[p] \in DOMAIN ss[k[p]] /\ t[p] = ss[k[p]][m[p]]
             /\ t[p] \in Chunk /\ s[k[p]] \in Chunk
             /\ t[p].disk - t[p].frs = s[k[p]].disk - s[k[p]].frs
             /\ s[k[p]].frs <= t[p].frs /\ FrsEnd(t[p]) <= FrsEnd(s[k[p]])
  <2>1. k[p] \in 1 .. n /\ m[p] \in 1 .. Len(ss[k[p]]) /\ t[p] = ss[k[p]][m[p]]
    BY <1>4, <1>5 DEF Unjoined
  <2>2. m[p] \in DOMAIN ss[k[p]]
    BY <1>3, <2>1
  <2>3. /\ t[p].disk - t[p].frs = s[k[p]].disk - s[k[p]].frs
        /\ s[k[p]].frs <= t[p].frs /\ FrsEnd(t[p]) <= s[k[p]].frs + s[k[p]].count
    BY <1>2, <2>1, <2>2 DEF CutsUp
  <2> QED
    BY <1>1, <1>5, <2>1, <2>2, <2>3 DEF FrsEnd
<1>7. ASSUME NEW p \in DOMAIN t, NEW q \in DOMAIN t, p < q
      PROVE  FrsEnd(t[p]) <= t[q].frs \/ FrsEnd(t[q]) <= t[p].frs
  <2>1. {FrsEnd(t[p]), FrsEnd(t[q]), t[p].frs, t[q].frs, FrsEnd(s[k[p]]), FrsEnd(s[k[q]]),
         s[k[p]].frs, s[k[q]].frs} \in SUBSET Int
    BY <1>6 DEF FrsEnd, Chunk
  <2>2. CASE k[p] = k[q]
    <3>1. m[p] < m[q]
      <4>1. k[p] < k[q] \/ (k[p] = k[q] /\ m[p] < m[q])
        BY <1>4, <1>5, <1>7 DEF Unjoined
      <4>2. k[p] \in Int
        BY <1>6
      <4> QED
        BY <2>2, <4>1, <4>2
    <3>2. Ascending(ss[k[p]])
      BY <1>2, <1>6 DEF CutsUp
    <3> QED
      BY <1>6, <2>2, <3>1, <3>2 DEF Ascending
  <2>3. CASE k[p] # k[q]
    <3>1. FrsEnd(s[k[p]]) <= s[k[q]].frs \/ FrsEnd(s[k[q]]) <= s[k[p]].frs
      BY <1>1, <1>6, <2>3 DEF Plans, Apart
    <3> QED
      BY <1>6, <2>1, <3>1
  <2> QED
    BY <2>2, <2>3
<1>8. Apart(t)
  <2> SUFFICES ASSUME NEW i \in DOMAIN t, NEW j \in DOMAIN t, i # j
               PROVE  FrsEnd(t[i]) <= t[j].frs \/ FrsEnd(t[j]) <= t[i].frs
    BY DEF Apart
  <2>1. i < j \/ j < i
    BY <1>5
  <2> QED
    BY <1>7, <2>1
<1>9. Reaches(t, W)
  <2> SUFFICES ASSUME NEW f \in W PROVE \E i \in DOMAIN t : Covers(t[i], f)
    BY DEF Reaches
  <2>1. PICK a \in DOMAIN s : Covers(s[a], f)
    BY DEF Plans, Reaches
  <2>2. f \in s[a].frs .. s[a].frs + s[a].count - 1
    BY <2>1 DEF Covers
  <2>3. PICK b \in DOMAIN ss[a] : Covers(ss[a][b], f)
    BY <1>1, <1>2, <2>1, <2>2 DEF CutsUp
  <2>4. a \in 1 .. n /\ b \in 1 .. Len(ss[a])
    BY <1>1, <1>3
  <2>5. PICK p \in 1 .. Len(t) : k[p] = a /\ m[p] = b
    BY <1>11, <2>4
  <2> QED
    BY <1>5, <1>6, <2>3, <2>5
<1>10. Finds(t, ex, W)
  <2> SUFFICES ASSUME NEW p \in DOMAIN t, NEW f \in W, Covers(t[p], f)
               PROVE  t[p].disk + f - t[p].frs = PhysicalOffset(ex, f)
    BY DEF Finds
  <2>0. f \in Int
    OBVIOUS
  <2>1. {FrsEnd(t[p]), t[p].frs, FrsEnd(s[k[p]]), s[k[p]].frs, t[p].disk, s[k[p]].disk} \in SUBSET Int
    BY <1>6 DEF FrsEnd, Chunk
  <2>2. t[p].frs <= f /\ f < FrsEnd(t[p])
    BY <1>6, <2>0, CoversIs
  <2>3. s[k[p]].frs <= f /\ f < FrsEnd(s[k[p]])
    BY <1>6, <2>0, <2>1, <2>2
  <2>4. Covers(s[k[p]], f)
    BY <1>6, <2>0, <2>3, CoversIs
  <2>5. s[k[p]].disk + f - s[k[p]].frs = PhysicalOffset(ex, f)
    BY <1>1, <1>6, <2>4 DEF Plans, Finds
  <2> QED
    BY <1>6, <2>0, <2>1, <2>5
<1> QED
  BY <1>5, <1>8, <1>9, <1>10 DEF Plans, t, ss

LEMMA ReadsPlanned ==
    ASSUME NEW s, NEW ex, NEW W \in SUBSET Nat, NEW direct, Plans(s, ex, W)
    PROVE  Plans(IoOps(s, direct), ex, W)
<1>1. Plans(ByDiskOffset(s), ex, W)
  BY SortedPlans
<1>2. IoRecords \in Nat \ {0}
  BY PlanAssumption
<1>3. Plans(FlattenSeq([i \in DOMAIN ByDiskOffset(s) |->
                          Cut(ByDiskOffset(s)[i].disk, ByDiskOffset(s)[i].frs,
                              ByDiskOffset(s)[i].count, IoRecords)]), ex, W)
  BY <1>1, <1>2, CutPlans
<1> QED
  BY <1>1, <1>3 DEF IoOps

(* An extent, and where it puts the records it maps.                        *)
LEMMA ExtentIs ==
    ASSUME NEW ex, IsExtentMap(ex), NEW i \in DOMAIN ex
    PROVE  /\ ex[i].vcn \in Nat /\ ex[i].count \in Nat \ {0} /\ ex[i].lcn \in Nat \union {Hole}
           /\ ex[i].vcn * RecordsPerCluster \in Nat /\ FirstFrs(ex[i]) \in Nat /\ EndFrs(ex[i]) \in Nat
           /\ FirstFrs(ex[i]) < EndFrs(ex[i])
           /\ ex[i].lcn * RecordsPerCluster \in Int
           /\ ex[i].count * RecordsPerCluster \in Nat
           /\ EndFrs(ex[i]) - FirstFrs(ex[i]) = ex[i].count * RecordsPerCluster
<1> DEFINE w == RecordsPerCluster
           e == ex[i]
<1>1. w \in Nat \ {0}
  BY PlanAssumption
<1>2. e \in [vcn : Nat, count : Nat \ {0}, lcn : Nat \union {Hole}]
  <2> DEFINE R == [vcn : Nat, count : Nat \ {0}, lcn : Nat \union {Hole}]
  <2>1. ex \in Seq(R)
    BY DEF IsExtentMap
  <2> HIDE DEF R
  <2>2. ex[i] \in R
    BY <2>1
  <2> QED
    BY <2>2 DEF R
<1>3. e.vcn \in Nat /\ e.count \in Nat \ {0} /\ e.lcn \in Nat \union {Hole} /\ e.lcn \in Int
  BY <1>2 DEF Hole
<1> HIDE DEF w, e
<1>4. (e.vcn + e.count) * w = e.vcn * w + e.count * w /\ e.lcn * w \in Int
  BY <1>1, <1>3, WidthsAdd
<1>5. 0 * w <= e.vcn * w /\ 0 * w = 0 /\ e.vcn * w \in Int
  BY <1>1, <1>3, WidthsKeepOrder
<1>6. 1 * w <= e.count * w /\ 1 * w = w /\ e.count * w \in Int
  BY <1>1, <1>3, WidthsKeepOrder
<1>7. FirstFrs(e) = e.vcn * w /\ EndFrs(e) = (e.vcn + e.count) * w
  BY DEF FirstFrs, EndFrs, w
<1> QED
  BY <1>1, <1>3, <1>4, <1>5, <1>6, <1>7 DEF e, w

LEMMA ExtentsAscend ==
    ASSUME NEW ex, IsExtentMap(ex), NEW i \in DOMAIN ex, NEW j \in DOMAIN ex, i < j
    PROVE  EndFrs(ex[i]) <= FirstFrs(ex[j])
<1>1. ex[i].vcn + ex[i].count <= ex[j].vcn
  BY DEF IsExtentMap
<1>2. ex[i].vcn + ex[i].count \in Int /\ ex[j].vcn \in Int
  BY ExtentIs
<1>3. RecordsPerCluster \in Nat
  BY PlanAssumption
<1> QED
  BY <1>1, <1>2, <1>3, WidthsKeepOrder DEF FirstFrs, EndFrs

(* The record number of an extent is in a cluster of the extent.            *)
LEMMA ClusterOf ==
    ASSUME NEW ex, IsExtentMap(ex), NEW i \in DOMAIN ex, NEW f \in Nat
    PROVE  /\ f \div RecordsPerCluster \in Int
           /\ f % RecordsPerCluster \in 0 .. RecordsPerCluster - 1
           /\ f = (f \div RecordsPerCluster) * RecordsPerCluster + (f % RecordsPerCluster)
           /\ (f \div RecordsPerCluster) * RecordsPerCluster \in Int
           /\ i \in FindExtent(ex, f \div RecordsPerCluster) <=>
                FirstFrs(ex[i]) <= f /\ f < EndFrs(ex[i])
<1> DEFINE w == RecordsPerCluster
           q == f \div w
           v == ex[i].vcn
           u == ex[i].vcn + ex[i].count
<1>1. w \in Nat \ {0}
  BY PlanAssumption
<1>2. q \in Int /\ f % w \in 0 .. w - 1 /\ f = w * q + (f % w)
  BY <1>1, DividedIs
<1>3. q * w = w * q /\ q * w \in Int /\ (q + 1) * w = q * w + w
  BY <1>1, <1>2, WidthsAdd
<1>4. v \in Int /\ u \in Int /\ FirstFrs(ex[i]) = v * w /\ EndFrs(ex[i]) = u * w
      /\ v * w \in Int /\ u * w \in Int
  <2>1. v \in Int /\ u \in Int
    BY ExtentIs
  <2> QED
    BY <1>1, <2>1, WidthsAdd DEF FirstFrs, EndFrs
<1>5. i \in FindExtent(ex, q) <=> q >= v /\ q < u
  BY DEF FindExtent
<1> HIDE DEF w, q, v, u
<1>6. q * w <= f /\ f < q * w + w
  BY <1>1, <1>2, <1>3
<1>7. ASSUME q >= v, q < u PROVE v * w <= f /\ f < u * w
  <2>1. v * w <= q * w
    BY <1>1, <1>2, <1>4, <1>7, WidthsKeepOrder
  <2>2. (q + 1) * w <= u * w
    BY <1>1, <1>2, <1>4, <1>7, WidthsKeepOrder
  <2> QED
    BY <1>1, <1>3, <1>4, <1>6, <2>1, <2>2
<1>8. ASSUME v * w <= f, f < u * w PROVE q >= v /\ q < u
  <2>1. v * w < (q + 1) * w
    BY <1>1, <1>3, <1>4, <1>6, <1>8
  <2>2. v < q + 1
    BY <1>1, <1>2, <1>4, <2>1, WidthsOrdered
  <2>3. q * w < u * w
    BY <1>3, <1>4, <1>6, <1>8
  <2>4. q < u
    BY <1>1, <1>2, <1>4, <2>3, WidthsOrdered
  <2> QED
    BY <1>2, <1>4, <2>2, <2>4
<1>9. i \in FindExtent(ex, q) <=> FirstFrs(ex[i]) <= f /\ f < EndFrs(ex[i])
  BY <1>4, <1>5, <1>7, <1>8
<1> QED
  BY <1>2, <1>3, <1>9 DEF q, w

LEMMA OffsetIn ==
    ASSUME NEW ex, IsExtentMap(ex), NEW i \in DOMAIN ex, NEW f \in Nat,
           FirstFrs(ex[i]) <= f, f < EndFrs(ex[i])
    PROVE  PhysicalOffset(ex, f) =
             IF ex[i].lcn = Hole THEN Hole
             ELSE ex[i].lcn * RecordsPerCluster + f - FirstFrs(ex[i])
<1> DEFINE w == RecordsPerCluster
           q == f \div w
           hits == FindExtent(ex, q)
<1>1. i \in hits
  BY ClusterOf
<1>2. hits \in SUBSET DOMAIN ex /\ \A j \in DOMAIN ex : j \in Int
  BY DEF FindExtent, IsExtentMap
<1>3. ASSUME NEW j \in hits PROVE j = i
  <2>1. j \in DOMAIN ex /\ FirstFrs(ex[j]) <= f /\ f < EndFrs(ex[j])
    BY <1>2, ClusterOf
  <2>2. {FirstFrs(ex[i]), FirstFrs(ex[j]), EndFrs(ex[i]), EndFrs(ex[j])} \in SUBSET Int
    BY <2>1, ExtentIs
  <2>3. ~ (i < j) /\ ~ (j < i)
    BY <2>1, <2>2, ExtentsAscend
  <2> QED
    BY <1>2, <2>1, <2>3
<1>4. hits = {i}
  BY <1>1, <1>3
<1>5. (CHOOSE j \in hits : TRUE) = i
  BY <1>4
<1>6. PhysicalOffset(ex, f) =
        IF \E j \in hits : ex[j].lcn # Hole
        THEN (ex[CHOOSE j \in hits : TRUE].lcn + q - ex[CHOOSE j \in hits : TRUE].vcn) * w + (f % w)
        ELSE Hole
  BY DEF PhysicalOffset
<1> HIDE DEF hits
<1>7. PhysicalOffset(ex, f) =
        IF ex[i].lcn # Hole THEN (ex[i].lcn + q - ex[i].vcn) * w + (f % w) ELSE Hole
  BY <1>4, <1>5, <1>6
<1>8. (ex[i].lcn + q - ex[i].vcn) * w + (f % w) = ex[i].lcn * w + f - FirstFrs(ex[i])
  <2>1. /\ q \in Int /\ f % w \in Int /\ f = q * w + (f % w) /\ q * w \in Int
    BY ClusterOf, PlanAssumption
  <2>2. ex[i].lcn \in Int /\ ex[i].vcn \in Int /\ w \in Int
    BY ExtentIs, PlanAssumption DEF Hole
  <2> HIDE DEF q, w
  <2>3. /\ (ex[i].lcn + q - ex[i].vcn) * w = (ex[i].lcn + q) * w - ex[i].vcn * w
        /\ (ex[i].lcn + q) * w = ex[i].lcn * w + q * w
        /\ ex[i].lcn * w \in Int /\ ex[i].vcn * w \in Int
    BY <2>1, <2>2, WidthsAdd
  <2>4. FirstFrs(ex[i]) = ex[i].vcn * w
    BY DEF FirstFrs, w
  <2> QED
    BY <2>1, <2>3, <2>4
<1> QED
  BY <1>7, <1>8

LEMMA OffsetMapped ==
    ASSUME NEW ex, IsExtentMap(ex), NEW f \in Nat, PhysicalOffset(ex, f) # Hole
    PROVE  \E i \in DOMAIN ex : ex[i].lcn # Hole /\ FirstFrs(ex[i]) <= f /\ f < EndFrs(ex[i])
<1> DEFINE hits == FindExtent(ex, f \div RecordsPerCluster)
<1>1. \E i \in hits : ex[i].lcn # Hole
  BY DEF PhysicalOffset
<1>2. PICK i \in hits : ex[i].lcn # Hole
  BY <1>1
<1>3. i \in DOMAIN ex
  BY DEF FindExtent
<1>4. FirstFrs(ex[i]) <= f /\ f < EndFrs(ex[i])
  BY <1>3, ClusterOf
<1> QED
  BY <1>2, <1>3, <1>4

MappedBy(ex) == {f \in Nat : PhysicalOffset(ex, f) # Hole}

-----------------------------------------------------------------------------
(* The chunks of all extents. Between two of them the record numbers go on  *)
(* as the disk does, or one extent with a place on the disk ends and the    *)
(* next one begins.                                                         *)
ChunksOf(ex) == FlattenSeq([i \in DOMAIN ex |-> SplitExtentIntoChunks(ex[i])])

Next2(ex, i, j) ==
  /\ i \in DOMAIN ex /\ j \in DOMAIN ex /\ i < j
  /\ ex[i].lcn # Hole /\ ex[j].lcn # Hole
  /\ \A a \in DOMAIN ex : i < a /\ a < j => ex[a].lcn = Hole

Borders(ex, c, d) ==
  \/ d.disk - c.disk = d.frs - c.frs
  \/ \E i, j : /\ Next2(ex, i, j)
               /\ ChunkEnd(c) = (ex[i].lcn + ex[i].count) * RecordsPerCluster
               /\ FrsEnd(c) = EndFrs(ex[i])
               /\ d.disk = ex[j].lcn * RecordsPerCluster
               /\ d.frs = FirstFrs(ex[j])

LEMMA SplitIs ==
    ASSUME NEW ex, IsExtentMap(ex), NEW i \in DOMAIN ex
    PROVE  IF ex[i].lcn = Hole THEN SplitExtentIntoChunks(ex[i]) = << >>
           ELSE CutsUp(SplitExtentIntoChunks(ex[i]), ex[i].lcn * RecordsPerCluster,
                       FirstFrs(ex[i]), EndFrs(ex[i]) - FirstFrs(ex[i]))
<1>1. /\ ex[i].lcn * RecordsPerCluster \in Int /\ FirstFrs(ex[i]) \in Nat
      /\ EndFrs(ex[i]) - FirstFrs(ex[i]) \in Nat
  BY ExtentIs
<1>2. ChunkRecords \in Nat \ {0}
  BY PlanAssumption
<1> QED
  BY <1>1, <1>2, CutIs DEF SplitExtentIntoChunks

LEMMA ChunksAre ==
    ASSUME NEW ex, IsExtentMap(ex)
    PROVE  /\ ChunksOf(ex) \in Seq(Chunk) /\ Ascending(ChunksOf(ex))
           /\ \A p \in DOMAIN ChunksOf(ex) : ChunksOf(ex)[p].count > 0
           /\ Reaches(ChunksOf(ex), MappedBy(ex)) /\ Finds(ChunksOf(ex), ex, MappedBy(ex))
           /\ \A p \in 1 .. Len(ChunksOf(ex)) - 1 : Borders(ex, ChunksOf(ex)[p], ChunksOf(ex)[p + 1])
<1> DEFINE n == Len(ex)
           w == RecordsPerCluster
           ss == [i \in DOMAIN ex |-> SplitExtentIntoChunks(ex[i])]
           s == ChunksOf(ex)
           W == MappedBy(ex)
           size(i) == EndFrs(ex[i]) - FirstFrs(ex[i])
           place == [i \in 1 .. n |-> ex[i].lcn * w]
<1>1. n \in Nat /\ DOMAIN ex = 1 .. n
  BY DEF IsExtentMap
<1>2. ASSUME NEW i \in 1 .. n
      PROVE  /\ ss[i] \in Seq(Chunk)
             /\ ex[i].lcn = Hole => ss[i] = << >>
             /\ ex[i].lcn # Hole => CutsUp(ss[i], place[i], FirstFrs(ex[i]), size(i))
             /\ FirstFrs(ex[i]) \in Nat /\ EndFrs(ex[i]) \in Nat /\ size(i) \in Nat /\ size(i) > 0
             /\ place[i] \in Int
  <2>1. ss[i] = SplitExtentIntoChunks(ex[i])
    BY <1>1
  <2>2. IF ex[i].lcn = Hole THEN ss[i] = << >>
        ELSE CutsUp(ss[i], place[i], FirstFrs(ex[i]), size(i))
    BY <1>1, <2>1, SplitIs
  <2>3. << >> \in Seq(Chunk)
    OBVIOUS
  <2>4. /\ FirstFrs(ex[i]) \in Nat /\ EndFrs(ex[i]) \in Nat /\ FirstFrs(ex[i]) < EndFrs(ex[i])
        /\ place[i] \in Int
    BY <1>1, ExtentIs
  <2>5. size(i) \in Nat /\ size(i) > 0
    BY <2>4
  <2> HIDE DEF ss, size, w, place
  <2> QED
    BY <2>2, <2>3, <2>4, <2>5 DEF CutsUp
<1>3. ss \in [1 .. n -> Seq(Chunk)]
  <2>1. \A i \in 1 .. n : ss[i] \in Seq(Chunk)
    BY <1>2
  <2>2. ss = [i \in 1 .. n |-> ss[i]]
    BY <1>1
  <2> HIDE DEF ss, n
  <2> QED
    BY <2>1, <2>2
<1>4. s = FlattenSeq(ss)
  BY DEF ChunksOf
<1> HIDE DEF ss, n, w, s, W, size, place
<1>5. PICK k, m : Unjoined(Chunk, s, ss, n, k, m)
  BY <1>1, <1>3, <1>4, JoinedKeepPlaces
<1>6. s \in Seq(Chunk) /\ DOMAIN s = 1 .. Len(s) /\ Len(s) \in Nat
  BY <1>5 DEF Unjoined
<1>7. ASSUME NEW p \in 1 .. Len(s)
      PROVE  /\ k[p] \in 1 .. n /\ m[p] \in 1 .. Len(ss[k[p]]) /\ s[p] = ss[k[p]][m[p]]
             /\ m[p] \in DOMAIN ss[k[p]] /\ s[p] \in Chunk
  <2>1. k[p] \in 1 .. n /\ m[p] \in 1 .. Len(ss[k[p]]) /\ s[p] = ss[k[p]][m[p]]
    BY <1>5 DEF Unjoined
  <2>2. ss[k[p]] \in Seq(Chunk)
    BY <1>3, <2>1
  <2> QED
    BY <1>6, <2>1, <2>2
<1>8. \A i \in 1 .. n : \A j \in 1 .. Len(ss[i]) : \E p \in 1 .. Len(s) : k[p] = i /\ m[p] = j
  BY <1>5 DEF Unjoined
<1>9. \A p, q \in 1 .. Len(s) : p < q => k[p] < k[q] \/ (k[p] = k[q] /\ m[p] < m[q])
  BY <1>5 DEF Unjoined
<1>10. ASSUME NEW p \in 1 .. Len(s)
       PROVE  /\ ex[k[p]].lcn # Hole
              /\ CutsUp(ss[k[p]], place[k[p]], FirstFrs(ex[k[p]]), size(k[p]))
  <2>1. ex[k[p]].lcn = Hole => ss[k[p]] = << >>
    BY <1>2, <1>7
  <2>2. ss[k[p]] # << >>
    BY <1>7
  <2> QED
    BY <1>2, <1>7, <2>1, <2>2
<1>11. ASSUME NEW p \in 1 .. Len(s)
       PROVE  /\ s[p].disk - s[p].frs = place[k[p]] - FirstFrs(ex[k[p]]) /\ s[p].count > 0
              /\ FirstFrs(ex[k[p]]) <= s[p].frs /\ FrsEnd(s[p]) <= EndFrs(ex[k[p]])
              /\ FirstFrs(ex[k[p]]) \in Nat /\ EndFrs(ex[k[p]]) \in Nat
              /\ place[k[p]] \in Int
              /\ s[p].disk \in Int /\ s[p].frs \in Nat /\ s[p].count \in Nat /\ FrsEnd(s[p]) \in Nat
  <2>1. /\ s[p].disk - s[p].frs = place[k[p]] - FirstFrs(ex[k[p]]) /\ s[p].count > 0
        /\ FirstFrs(ex[k[p]]) <= s[p].frs
        /\ FrsEnd(s[p]) <= FirstFrs(ex[k[p]]) + size(k[p])
    BY ZenonT(40), <1>7, <1>10 DEF CutsUp
  <2>2. /\ FirstFrs(ex[k[p]]) \in Nat /\ EndFrs(ex[k[p]]) \in Nat
        /\ place[k[p]] \in Int
    BY <1>2, <1>7
  <2>3. FirstFrs(ex[k[p]]) + size(k[p]) = EndFrs(ex[k[p]])
    BY <2>2 DEF size
  <2>4. s[p].disk \in Int /\ s[p].frs \in Nat /\ s[p].count \in Nat /\ FrsEnd(s[p]) \in Nat
    BY <1>7 DEF Chunk, FrsEnd
  <2> QED
    BY <2>1, <2>2, <2>3, <2>4
<1>12. Ascending(s)
  <2> SUFFICES ASSUME NEW p \in 1 .. Len(s), NEW q \in 1 .. Len(s), p < q
               PROVE  FrsEnd(s[p]) <= s[q].frs
    BY <1>6 DEF Ascending
  <2>1. k[p] < k[q] \/ (k[p] = k[q] /\ m[p] < m[q])
    BY <1>9
  <2>2. CASE k[p] < k[q]
    <3>1. EndFrs(ex[k[p]]) <= FirstFrs(ex[k[q]])
      BY <1>1, <1>7, <2>2, ExtentsAscend
    <3> QED
      BY <1>11, <3>1
  <2>3. CASE k[p] = k[q] /\ m[p] < m[q]
    <3>1. Ascending(ss[k[p]])
      BY <1>10 DEF CutsUp
    <3> QED
      BY <1>7, <2>3, <3>1 DEF Ascending
  <2> QED
    BY <2>1, <2>2, <2>3
<1>13. Reaches(s, W)
  <2> SUFFICES ASSUME NEW f \in W PROVE \E p \in DOMAIN s : Covers(s[p], f)
    BY DEF Reaches
  <2>1. f \in Nat /\ PhysicalOffset(ex, f) # Hole
    BY DEF W, MappedBy
  <2>2. PICK i \in 1 .. n : ex[i].lcn # Hole /\ FirstFrs(ex[i]) <= f /\ f < EndFrs(ex[i])
    BY <1>1, <2>1, OffsetMapped
  <2>3. CutsUp(ss[i], place[i], FirstFrs(ex[i]), size(i)) /\ ss[i] \in Seq(Chunk)
    BY <1>2, <2>2
  <2>4. f \in FirstFrs(ex[i]) .. FirstFrs(ex[i]) + size(i) - 1
    BY <1>2, <2>1, <2>2 DEF size
  <2>5. PICK j \in DOMAIN ss[i] : Covers(ss[i][j], f)
    BY <2>3, <2>4 DEF CutsUp
  <2>6. j \in 1 .. Len(ss[i])
    BY <2>3
  <2>7. PICK p \in 1 .. Len(s) : k[p] = i /\ m[p] = j
    BY <1>8, <2>6
  <2> QED
    BY <1>6, <1>7, <2>5, <2>7
<1>14. Finds(s, ex, W)
  <2> SUFFICES ASSUME NEW p \in 1 .. Len(s), NEW f \in W, Covers(s[p], f)
               PROVE  s[p].disk + f - s[p].frs = PhysicalOffset(ex, f)
    BY <1>6 DEF Finds
  <2>1. f \in Nat
    BY DEF W, MappedBy
  <2>2. s[p].frs <= f /\ f < FrsEnd(s[p])
    BY <1>7, <2>1, CoversIs
  <2>3. FirstFrs(ex[k[p]]) <= f /\ f < EndFrs(ex[k[p]])
    BY <1>11, <2>1, <2>2
  <2>4. PhysicalOffset(ex, f) = place[k[p]] + f - FirstFrs(ex[k[p]])
    BY <1>1, <1>7, <1>10, <2>1, <2>3, OffsetIn DEF w, place
  <2>5. s[p].disk \in Int
    BY <1>11
  <2>6. s[p].frs \in Int
    BY <1>11
  <2>7. place[k[p]] \in Int
    BY <1>11
  <2>8. FirstFrs(ex[k[p]]) \in Int
    BY <1>11
  <2>9. s[p].disk - s[p].frs = place[k[p]] - FirstFrs(ex[k[p]])
    BY <1>11
  <2> DEFINE a == s[p].disk
             b == s[p].frs
             x == place[k[p]]
             y == FirstFrs(ex[k[p]])
  <2>10. a \in Int /\ b \in Int /\ x \in Int /\ y \in Int /\ f \in Int /\ a - b = x - y
    BY <2>1, <2>5, <2>6, <2>7, <2>8, <2>9
  <2>11. PhysicalOffset(ex, f) = x + f - y
    BY <2>4
  <2> HIDE DEF a, b, x, y
  <2>12. a + f - b = x + f - y
    BY <2>10
  <2>13. a + f - b = PhysicalOffset(ex, f)
    BY <2>11, <2>12
  <2> QED
    BY <2>13 DEF a, b
<1>15. ASSUME NEW p \in 1 .. Len(s) - 1 PROVE Borders(ex, s[p], s[p + 1])
  <2>0. p \in 1 .. Len(s) /\ p + 1 \in 1 .. Len(s) /\ p < p + 1 /\ p \in Int
    BY <1>6
  <2>1. k[p] < k[p + 1] \/ (k[p] = k[p + 1] /\ m[p] < m[p + 1])
    BY <1>9, <2>0
  <2>2. CASE k[p] = k[p + 1]
    <3>1. /\ s[p].disk - s[p].frs = place[k[p]] - FirstFrs(ex[k[p]])
          /\ s[p + 1].disk - s[p + 1].frs = place[k[p]] - FirstFrs(ex[k[p]])
      BY <1>11, <2>0, <2>2
    <3>2. s[p].disk \in Int /\ s[p].frs \in Int
      BY <1>7, <2>0 DEF Chunk
    <3>3. s[p + 1].disk \in Int /\ s[p + 1].frs \in Int
      BY <1>7, <2>0 DEF Chunk
    <3>5. FirstFrs(ex[k[p]]) \in Int
      BY SMTT(20), <1>11, <2>0
    <3>6. place[k[p]] \in Int
      BY <1>11, <2>0
    <3>4. s[p + 1].disk - s[p].disk = s[p + 1].frs - s[p].frs
      <4> DEFINE cd == s[p].disk
                 cf == s[p].frs
                 dd == s[p + 1].disk
                 df == s[p + 1].frs
                 pl == place[k[p]]
                 a == FirstFrs(ex[k[p]])
      <4>1. /\ cd \in Int /\ cf \in Int /\ dd \in Int /\ df \in Int /\ pl \in Int /\ a \in Int
            /\ cd - cf = pl - a /\ dd - df = pl - a
        BY <3>1, <3>2, <3>3, <3>5, <3>6
      <4> HIDE DEF cd, cf, dd, df, pl, a
      <4>2. dd - cd = df - cf
        BY <4>1
      <4> QED
        BY <4>2 DEF cd, cf, dd, df
    <3> QED
      BY <3>4 DEF Borders
  <2>3. CASE k[p] # k[p + 1]
    <3>0. /\ k[p] \in 1 .. n /\ k[p + 1] \in 1 .. n /\ k[p] < k[p + 1]
          /\ m[p] \in 1 .. Len(ss[k[p]]) /\ m[p + 1] \in 1 .. Len(ss[k[p + 1]])
          /\ Len(ss[k[p]]) \in Nat /\ Len(ss[k[p + 1]]) \in Nat
      <4>1. ss[k[p]] \in Seq(Chunk) /\ ss[k[p + 1]] \in Seq(Chunk)
        BY <1>3, <1>7, <2>0
      <4>2. k[p] \in 1 .. n /\ k[p + 1] \in 1 .. n
        BY <1>7, <2>0
      <4>3. k[p] < k[p + 1]
        BY <2>1, <2>3
      <4>4. m[p] \in 1 .. Len(ss[k[p]]) /\ m[p + 1] \in 1 .. Len(ss[k[p + 1]])
        BY <1>7, <2>0
      <4>5. Len(ss[k[p]]) \in Nat /\ Len(ss[k[p + 1]]) \in Nat
        BY <4>1
      <4> QED
        BY <4>2, <4>3, <4>4, <4>5
    <3>1. ASSUME NEW q \in 1 .. Len(s) PROVE ~ (p < q /\ q < p + 1) /\ (q <= p \/ p + 1 <= q)
      BY <2>0
    <3>2. m[p] = Len(ss[k[p]])
      <4> SUFFICES ASSUME m[p] # Len(ss[k[p]]) PROVE FALSE
        OBVIOUS
      <4>1. m[p] + 1 \in 1 .. Len(ss[k[p]]) /\ m[p] \in Int
        BY <3>0
      <4>2. PICK q \in 1 .. Len(s) : k[q] = k[p] /\ m[q] = m[p] + 1
        BY <1>8, <3>0, <4>1
      <4>3. CASE q < p
        <5>1. k[q] < k[p] \/ (k[q] = k[p] /\ m[q] < m[p])
          BY <1>9, <2>0, <4>3
        <5> QED
          BY <3>0, <4>1, <4>2, <5>1
      <4>4. CASE q = p
        BY <4>1, <4>2, <4>4
      <4>5. CASE q = p + 1
        BY <2>3, <4>2, <4>5
      <4>6. CASE p + 1 < q
        <5>1. k[p + 1] < k[q] \/ (k[p + 1] = k[q] /\ m[p + 1] < m[q])
          BY <1>9, <2>0, <4>6
        <5> QED
          BY <3>0, <4>2, <5>1
      <4> QED
        BY <2>0, <3>1, <4>3, <4>4, <4>5, <4>6
    <3>3. m[p + 1] = 1
      <4> SUFFICES ASSUME m[p + 1] # 1 PROVE FALSE
        OBVIOUS
      <4>1. 1 \in 1 .. Len(ss[k[p + 1]]) /\ m[p + 1] \in Int /\ 1 < m[p + 1]
        BY <3>0
      <4>2. PICK q \in 1 .. Len(s) : k[q] = k[p + 1] /\ m[q] = 1
        BY <1>8, <3>0, <4>1
      <4>3. CASE q < p
        <5>1. k[q] < k[p] \/ (k[q] = k[p] /\ m[q] < m[p])
          BY <1>9, <2>0, <4>3
        <5> QED
          BY <3>0, <4>2, <5>1
      <4>4. CASE q = p
        BY <2>3, <4>2, <4>4
      <4>5. CASE q = p + 1
        BY <4>1, <4>2, <4>5
      <4>6. CASE p + 1 < q
        <5>1. k[p + 1] < k[q] \/ (k[p + 1] = k[q] /\ m[p + 1] < m[q])
          BY <1>9, <2>0, <4>6
        <5> QED
          BY <3>0, <4>1, <4>2, <5>1
      <4> QED
        BY <2>0, <3>1, <4>3, <4>4, <4>5, <4>6
    <3>4. ASSUME NEW a \in 1 .. n, k[p] < a, a < k[p + 1] PROVE ex[a].lcn = Hole
      <4> SUFFICES ASSUME ex[a].lcn # Hole PROVE FALSE
        OBVIOUS
      <4>1. CutsUp(ss[a], place[a], FirstFrs(ex[a]), size(a)) /\ size(a) > 0 /\ ss[a] \in Seq(Chunk)
        BY <1>2
      <4>2. 1 \in 1 .. Len(ss[a])
        BY <4>1 DEF CutsUp
      <4>3. PICK q \in 1 .. Len(s) : k[q] = a
        BY <1>8, <4>2
      <4>4. CASE q < p
        <5>1. k[q] < k[p] \/ (k[q] = k[p] /\ m[q] < m[p])
          BY <1>9, <2>0, <4>4
        <5> QED
          BY <3>0, <3>4, <4>3, <5>1
      <4>5. CASE q = p \/ q = p + 1
        BY <3>0, <3>4, <4>3, <4>5
      <4>6. CASE p + 1 < q
        <5>1. k[p + 1] < k[q] \/ (k[p + 1] = k[q] /\ m[p + 1] < m[q])
          BY <1>9, <2>0, <4>6
        <5> QED
          BY <3>0, <3>4, <4>3, <5>1
      <4> QED
        BY <2>0, <3>1, <4>4, <4>5, <4>6
    <3>5. Next2(ex, k[p], k[p + 1])
      BY <1>1, <1>10, <2>0, <3>0, <3>4 DEF Next2
    <3>6. FrsEnd(s[p]) = EndFrs(ex[k[p]])
      <4>1. CutsUp(ss[k[p]], place[k[p]], FirstFrs(ex[k[p]]), size(k[p])) /\ size(k[p]) > 0
        BY <1>2, <1>10, <2>0, <3>0
      <4>2. FrsEnd(ss[k[p]][Len(ss[k[p]])]) = FirstFrs(ex[k[p]]) + size(k[p])
        BY <4>1 DEF CutsUp
      <4>3. FirstFrs(ex[k[p]]) + size(k[p]) = EndFrs(ex[k[p]])
        BY <1>11, <2>0 DEF size
      <4> QED
        BY <1>7, <2>0, <3>2, <4>2, <4>3
    <3>7. s[p + 1].frs = FirstFrs(ex[k[p + 1]])
      <4>1. CutsUp(ss[k[p + 1]], place[k[p + 1]], FirstFrs(ex[k[p + 1]]), size(k[p + 1]))
            /\ size(k[p + 1]) > 0
        BY <1>2, <1>10, <2>0, <3>0
      <4>2. ss[k[p + 1]][1].frs = FirstFrs(ex[k[p + 1]])
        BY <4>1 DEF CutsUp
      <4> QED
        BY <1>7, <2>0, <3>3, <4>2
    <3>8. s[p + 1].disk = place[k[p + 1]]
      <4>1. s[p + 1].disk - s[p + 1].frs = place[k[p + 1]] - FirstFrs(ex[k[p + 1]])
        BY <1>11, <2>0
      <4>2. s[p + 1].disk \in Int /\ s[p + 1].frs \in Int
        BY SMTT(20), <1>11, <2>0
      <4>3. place[k[p + 1]] \in Int
        BY <1>11, <2>0
      <4> QED
        BY <3>7, <4>1, <4>2, <4>3
    <3>9. ChunkEnd(s[p]) = (ex[k[p]].lcn + ex[k[p]].count) * w
      <4>1. s[p].disk - s[p].frs = place[k[p]] - FirstFrs(ex[k[p]])
        BY <1>11, <2>0
      <4>2. EndFrs(ex[k[p]]) - FirstFrs(ex[k[p]]) = ex[k[p]].count * w
            /\ ex[k[p]].lcn \in Int /\ ex[k[p]].count \in Int /\ ex[k[p]].count * w \in Int
        <5>1. k[p] \in DOMAIN ex
          BY <1>1, <3>0
        <5>2. /\ ex[k[p]].count \in Nat \ {0} /\ ex[k[p]].lcn \in Nat \union {Hole}
              /\ ex[k[p]].count * RecordsPerCluster \in Nat
              /\ EndFrs(ex[k[p]]) - FirstFrs(ex[k[p]]) = ex[k[p]].count * RecordsPerCluster
          BY <5>1, ExtentIs
        <5> HIDE DEF w
        <5>3. ex[k[p]].lcn \in Int /\ ex[k[p]].count \in Int
              /\ ex[k[p]].count * RecordsPerCluster \in Int
          BY <5>2 DEF Hole
        <5> QED
          BY <5>2, <5>3 DEF w
      <4>3. (ex[k[p]].lcn + ex[k[p]].count) * w = place[k[p]] + ex[k[p]].count * w
        <5>1. w \in Int
          BY PlanAssumption DEF w
        <5>2. (ex[k[p]].lcn + ex[k[p]].count) * w = ex[k[p]].lcn * w + ex[k[p]].count * w
          <6> DEFINE x == ex[k[p]].lcn
                     y == ex[k[p]].count
          <6>1. x \in Int /\ y \in Int
            BY <4>2
          <6> HIDE DEF w, x, y
          <6>2. (x + y) * w = x * w + y * w
            BY <5>1, <6>1, WidthsAdd
          <6> QED
            BY <6>2 DEF x, y
        <5>3. place[k[p]] = ex[k[p]].lcn * w
          <6>1. k[p] \in 1 .. n
            BY <3>0
          <6> HIDE DEF w, n
          <6> QED
            BY Zenon, <6>1 DEF place
        <5> QED
          BY <5>2, <5>3
      <4>4. FrsEnd(s[p]) = s[p].frs + s[p].count /\ ChunkEnd(s[p]) = s[p].disk + s[p].count
        BY DEF FrsEnd, ChunkEnd
      <4>5. /\ s[p].disk \in Int /\ s[p].frs \in Int /\ s[p].count \in Int
            /\ FirstFrs(ex[k[p]]) \in Int /\ EndFrs(ex[k[p]]) \in Int /\ place[k[p]] \in Int
        BY SMTT(20), <1>11, <2>0
      <4> DEFINE wide == ex[k[p]].count * w
                 end == (ex[k[p]].lcn + ex[k[p]].count) * w
      <4> HIDE DEF wide, end
      <4>6. EndFrs(ex[k[p]]) - FirstFrs(ex[k[p]]) = wide /\ wide \in Int /\ end = place[k[p]] + wide
        BY <4>2, <4>3 DEF wide, end
      <4>7. ChunkEnd(s[p]) = end
        <5> DEFINE sd == s[p].disk
                   sf == s[p].frs
                   sc == s[p].count
                   pl == place[k[p]]
                   a == FirstFrs(ex[k[p]])
                   b == EndFrs(ex[k[p]])
        <5>1. /\ sd \in Int /\ sf \in Int /\ sc \in Int /\ pl \in Int /\ a \in Int /\ b \in Int
              /\ wide \in Int /\ sd - sf = pl - a /\ b - a = wide /\ end = pl + wide /\ sf + sc = b
              /\ ChunkEnd(s[p]) = sd + sc
          BY <3>6, <4>1, <4>4, <4>5, <4>6
        <5> HIDE DEF sd, sf, sc, pl, a, b
        <5> QED
          BY <5>1
      <4> QED
        BY <4>7 DEF end
    <3>10. place[k[p + 1]] = ex[k[p + 1]].lcn * w
      BY <3>0 DEF place
    <3> QED
      BY <3>5, <3>6, <3>7, <3>8, <3>9, <3>10 DEF Borders, w
  <2> QED
    BY <2>2, <2>3
<1>16. \A p \in DOMAIN s : s[p].count > 0
  BY <1>6, <1>11
<1> QED
  BY <1>6, <1>12, <1>13, <1>14, <1>15, <1>16 DEF s, W

(* What a merge has kept of the first k chunks of s.                        *)
Merged(kept, s, k, ex, W) ==
  /\ kept \in Seq(Chunk) /\ Len(kept) > 0 /\ Ascending(kept)
  /\ FrsEnd(kept[Len(kept)]) = FrsEnd(s[k])
  /\ kept[Len(kept)].disk - kept[Len(kept)].frs = s[k].disk - s[k].frs
  /\ kept[Len(kept)].count > 0
  /\ \A f \in W : (\E i \in 1 .. k : Covers(s[i], f)) => \E i \in DOMAIN kept : Covers(kept[i], f)
  /\ Finds(kept, ex, W)

ToMerge(s, ex, W) ==
  /\ s \in Seq(Chunk) /\ Ascending(s) /\ Reaches(s, W) /\ Finds(s, ex, W)
  /\ \A p \in DOMAIN s : s[p].count > 0

LEMMA FirstMerged ==
    ASSUME NEW ex, NEW W, NEW s, ToMerge(s, ex, W), Len(s) > 0
    PROVE  Merged(<<s[1]>>, s, 1, ex, W)
<1> DEFINE t == <<s[1]>>
<1>1. s[1] \in Chunk /\ 1 \in DOMAIN s /\ s[1].count > 0
  BY DEF ToMerge
<1>2. t \in Seq(Chunk) /\ Len(t) = 1 /\ DOMAIN t = {1} /\ t[1] = s[1]
  BY <1>1
<1> HIDE DEF t
<1>3. Ascending(t)
  BY <1>2 DEF Ascending
<1>4. Finds(t, ex, W)
  BY <1>1, <1>2 DEF Finds, ToMerge
<1>5. ASSUME NEW f \in W, NEW i \in 1 .. 1, Covers(s[i], f) PROVE Covers(t[1], f)
  <2>1. i = 1
    OBVIOUS
  <2> QED
    BY <1>2, <1>5, <2>1
<1>6. Merged(t, s, 1, ex, W)
  <2>1. Len(t) > 0 /\ t[Len(t)] = s[1]
    BY <1>2
  <2>2. \A f \in W : (\E i \in 1 .. 1 : Covers(s[i], f)) => \E i \in DOMAIN t : Covers(t[i], f)
    BY <1>2, <1>5
  <2> QED
    BY <1>1, <1>2, <1>3, <1>4, <2>1, <2>2 DEF Merged
<1> QED
  BY <1>6 DEF t

(* Where a record of W is that the next chunk is joined for.                *)
LEMMA BehindIsNext ==
    ASSUME NEW ex, NEW W \in SUBSET Nat, NEW s, ToMerge(s, ex, W),
           NEW k \in 1 .. Len(s) - 1, NEW f \in W, FrsEnd(s[k]) <= f, f < FrsEnd(s[k + 1])
    PROVE  Covers(s[k + 1], f)
<1>1. /\ s \in Seq(Chunk) /\ f \in Int /\ DOMAIN s = 1 .. Len(s) /\ Len(s) \in Nat
      /\ k \in DOMAIN s /\ k + 1 \in DOMAIN s
  BY DEF ToMerge
<1>2. PICK i \in DOMAIN s : Covers(s[i], f)
  BY DEF ToMerge, Reaches
<1>3. s[i] \in Chunk /\ s[k] \in Chunk /\ s[k + 1] \in Chunk
  BY <1>1
<1>4. s[i].frs <= f /\ f < FrsEnd(s[i])
  BY <1>1, <1>2, <1>3, CoversIs
<1>5. /\ FrsEnd(s[i]) \in Int /\ s[i].frs \in Int /\ FrsEnd(s[k]) \in Int /\ s[k].frs \in Int
      /\ FrsEnd(s[k + 1]) \in Int /\ s[k].frs <= FrsEnd(s[k])
  BY <1>3, ChunkIs
<1>6. ~ (i < k)
  <2> SUFFICES ASSUME i < k PROVE FALSE
    OBVIOUS
  <2>1. FrsEnd(s[i]) <= s[k].frs
    BY <1>1 DEF ToMerge, Ascending
  <2> QED
    BY <1>1, <1>4, <1>5, <2>1
<1>7. i # k
  BY <1>1, <1>4, <1>5
<1>8. ~ (k + 1 < i)
  <2> SUFFICES ASSUME k + 1 < i PROVE FALSE
    OBVIOUS
  <2>1. FrsEnd(s[k + 1]) <= s[i].frs
    BY <1>1 DEF ToMerge, Ascending
  <2> QED
    BY <1>1, <1>4, <1>5, <2>1
<1>9. i = k + 1
  <2>1. i \in Int /\ k \in Int
    BY <1>1
  <2> QED
    BY <1>6, <1>7, <1>8, <2>1
<1> QED
  BY <1>2, <1>9

LEMMA KeptOnceMore ==
    ASSUME NEW ex, NEW W \in SUBSET Nat, NEW s, ToMerge(s, ex, W),
           NEW k \in 1 .. Len(s) - 1, NEW kept, Merged(kept, s, k, ex, W)
    PROVE  Merged(Append(kept, s[k + 1]), s, k + 1, ex, W)
<1> DEFINE n == s[k + 1]
           l == Len(kept)
           t == Append(kept, n)
<1>1. /\ s \in Seq(Chunk) /\ DOMAIN s = 1 .. Len(s) /\ k \in DOMAIN s /\ k + 1 \in DOMAIN s
      /\ n \in Chunk /\ n.count > 0 /\ k < k + 1 /\ k \in Nat
  BY DEF ToMerge
<1>2. kept \in Seq(Chunk) /\ l \in Nat /\ l > 0 /\ DOMAIN kept = 1 .. l
  BY DEF Merged
<1>3. t \in Seq(Chunk) /\ Len(t) = l + 1 /\ DOMAIN t = 1 .. l + 1
      /\ t[l + 1] = n /\ \A i \in 1 .. l : t[i] = kept[i]
  BY <1>1, <1>2
<1> HIDE DEF t, l
<1>4. FrsEnd(kept[l]) = FrsEnd(s[k]) /\ FrsEnd(s[k]) <= n.frs
  <2>1. FrsEnd(s[k]) <= s[k + 1].frs
    BY <1>1 DEF ToMerge, Ascending
  <2> QED
    BY <2>1 DEF Merged, l
<1>5. Ascending(t)
  <2> SUFFICES ASSUME NEW i \in 1 .. l + 1, NEW j \in 1 .. l + 1, i < j
               PROVE  FrsEnd(t[i]) <= t[j].frs
    BY <1>3 DEF Ascending
  <2>1. i \in 1 .. l
    BY <1>2
  <2>2. CASE j \in 1 .. l
    BY <1>2, <1>3, <2>1, <2>2 DEF Merged, Ascending
  <2>3. CASE j = l + 1
    <3>1. FrsEnd(kept[i]) <= FrsEnd(kept[l])
      <4>1. CASE i = l
        <5>1. kept[l] \in Chunk
          BY <1>2
        <5>2. FrsEnd(kept[l]) \in Int
          BY <5>1, ChunkIs
        <5> QED
          BY <4>1, <5>2
      <4>2. CASE i # l
        <5>1. i < l /\ l \in DOMAIN kept /\ i \in DOMAIN kept
          BY <1>2, <2>1, <4>2
        <5>2. FrsEnd(kept[i]) <= kept[l].frs
          BY <5>1 DEF Merged, Ascending
        <5>3. kept[i] \in Chunk /\ kept[l] \in Chunk
          BY <1>2, <5>1
        <5>4. kept[l].frs <= FrsEnd(kept[l]) /\ FrsEnd(kept[i]) \in Int /\ FrsEnd(kept[l]) \in Int
              /\ kept[l].frs \in Int
          BY <5>3, ChunkIs
        <5> QED
          BY <5>2, <5>4
      <4> QED
        BY <4>1, <4>2
    <3>2. kept[i] \in Chunk /\ kept[l] \in Chunk
      BY <1>2, <2>1
    <3>3. FrsEnd(kept[i]) \in Int /\ FrsEnd(kept[l]) \in Int /\ n.frs \in Int
      BY <1>1, <3>2, ChunkIs
    <3>4. FrsEnd(kept[i]) <= n.frs
      BY <1>4, <3>1, <3>3
    <3> QED
      BY <1>3, <2>1, <2>3, <3>4
  <2>4. j \in 1 .. l \/ j = l + 1
    BY <1>2
  <2> QED
    BY <2>2, <2>3, <2>4
<1>6. ASSUME NEW f \in W, NEW i \in 1 .. k + 1, Covers(s[i], f)
      PROVE  \E j \in DOMAIN t : Covers(t[j], f)
  <2>1. CASE i = k + 1
    <3>1. l + 1 \in DOMAIN t
      BY <1>2, <1>3
    <3> QED
      BY <1>3, <1>6, <2>1, <3>1
  <2>2. CASE i # k + 1
    <3>1. i \in 1 .. k
      BY <1>1, <2>2
    <3>2. PICK j \in DOMAIN kept : Covers(kept[j], f)
      BY <1>6, <3>1 DEF Merged
    <3>3. j \in DOMAIN t /\ t[j] = kept[j]
      BY <1>2, <1>3
    <3> QED
      BY <3>2, <3>3
  <2> QED
    BY <2>1, <2>2
<1>7. Finds(t, ex, W)
  <2> SUFFICES ASSUME NEW i \in 1 .. l + 1, NEW f \in W, Covers(t[i], f)
               PROVE  t[i].disk + f - t[i].frs = PhysicalOffset(ex, f)
    BY <1>3 DEF Finds
  <2>1. CASE i = l + 1
    <3>1. t[i] = s[k + 1]
      BY <1>3, <2>1
    <3> QED
      BY <1>1, <3>1 DEF ToMerge, Finds
  <2>2. CASE i # l + 1
    <3>1. i \in DOMAIN kept /\ t[i] = kept[i]
      BY <1>2, <1>3, <2>2
    <3> QED
      BY <3>1 DEF Merged, Finds
  <2> QED
    BY <2>1, <2>2
<1>8. Len(t) > 0 /\ t[Len(t)] = n
  BY <1>2, <1>3
<1>9. n.disk - n.frs = s[k + 1].disk - s[k + 1].frs /\ FrsEnd(n) = FrsEnd(s[k + 1])
  OBVIOUS
<1>10. Merged(t, s, k + 1, ex, W)
  <2> HIDE DEF n
  <2> QED
    BY <1>1, <1>3, <1>5, <1>6, <1>7, <1>8, <1>9 DEF Merged
<1> QED
  BY <1>10 DEF t

LEMMA StretchedOnce ==
    ASSUME NEW ex, NEW W \in SUBSET Nat, NEW s, ToMerge(s, ex, W),
           NEW k \in 1 .. Len(s) - 1, NEW kept, Merged(kept, s, k, ex, W),
           NEW count, count = FrsEnd(s[k + 1]) - kept[Len(kept)].frs,
           s[k + 1].disk - s[k + 1].frs = s[k].disk - s[k].frs
    PROVE  Merged(Append(Front(kept), [Last(kept) EXCEPT !.count = count]), s, k + 1, ex, W)
<1> DEFINE l == Len(kept)
           c == kept[l]
           n == s[k + 1]
           d == [c EXCEPT !.count = count]
           t == [i \in 1 .. l |-> IF i = l THEN d ELSE kept[i]]
<1>1. /\ s \in Seq(Chunk) /\ DOMAIN s = 1 .. Len(s) /\ k \in DOMAIN s /\ k + 1 \in DOMAIN s
      /\ s[k] \in Chunk /\ n \in Chunk /\ n.count > 0 /\ k < k + 1 /\ k \in Nat
  BY DEF ToMerge
<1>2. kept \in Seq(Chunk) /\ l \in Nat /\ l > 0 /\ DOMAIN kept = 1 .. l /\ l \in DOMAIN kept /\ c \in Chunk
  BY DEF Merged
<1>3. Append(Front(kept), [Last(kept) EXCEPT !.count = count]) = t
  <2>1. Last(kept) = c
    BY DEF Last
  <2>2. Front(kept) = [i \in 1 .. l - 1 |-> kept[i]]
    BY <1>2 DEF Front
  <2>3. Front(kept) \in Seq(Chunk) /\ Len(Front(kept)) = l - 1
    <3>1. \A i \in 1 .. l - 1 : kept[i] \in Chunk
      BY <1>2
    <3>2. l - 1 \in Nat
      BY <1>2
    <3> DEFINE h == l - 1
               g == [i \in 1 .. h |-> kept[i]]
    <3> HIDE DEF l
    <3>3. g \in [1 .. h -> Chunk]
      BY <3>1
    <3>4. Front(kept) = g
      BY <2>2
    <3>5. h \in Nat
      BY <3>2
    <3> HIDE DEF g, h
    <3>6. g \in Seq(Chunk) /\ Len(g) = h
      BY <3>3, <3>5, ListedIs
    <3> QED
      BY <3>4, <3>6 DEF h
  <2> HIDE DEF c, d
  <2> DEFINE r == Front(kept)
             a == Append(r, d)
             b == [i \in 1 .. l |-> IF i = l THEN d ELSE kept[i]]
  <2>4. r \in Seq(Chunk) /\ Len(r) = l - 1 /\ \A i \in 1 .. l - 1 : r[i] = kept[i]
    BY <2>2, <2>3
  <2> HIDE DEF l, r
  <2>5. DOMAIN a = 1 .. l /\ a[l] = d
    BY <1>2, <2>4
  <2>6. \A i \in 1 .. l : i # l => a[i] = kept[i]
    <3> SUFFICES ASSUME NEW i \in 1 .. l, i # l PROVE a[i] = kept[i]
      OBVIOUS
    <3>1. i \in 1 .. l - 1
      BY <1>2
    <3>2. a[i] = r[i]
      BY <1>2, <2>4, <3>1
    <3> QED
      BY <2>4, <3>1, <3>2
  <2>7. \A i \in 1 .. l : a[i] = b[i]
    BY <2>5, <2>6
  <2>8. a = [i \in 1 .. l |-> a[i]]
    <3> DEFINE A == Chunk \union {d}
    <3>1. r \in Seq(A) /\ d \in A
      BY <2>4
    <3> HIDE DEF A
    <3>2. a \in Seq(A)
      BY <3>1
    <3>3. a = [i \in DOMAIN a |-> a[i]]
      <4> HIDE DEF a
      <4> QED
        BY <3>2
    <3> QED
      BY <2>5, <3>3
  <2> HIDE DEF a
  <2>9. a = b
    BY <2>7, <2>8
  <2> QED
    BY <2>1, <2>9 DEF a, r, d
<1>4. FrsEnd(c) = FrsEnd(s[k]) /\ FrsEnd(s[k]) <= n.frs
  <2>1. FrsEnd(s[k]) <= s[k + 1].frs
    BY <1>1 DEF ToMerge, Ascending
  <2> QED
    BY <2>1 DEF Merged
<1>5. count = FrsEnd(n) - c.frs
  OBVIOUS
<1>6. c.disk - c.frs = n.disk - n.frs /\ c.count > 0
  BY DEF Merged
<1>7. d.disk = c.disk /\ d.frs = c.frs /\ d.count = count
      /\ d = [disk |-> c.disk, frs |-> c.frs, count |-> count]
  <2>1. c = [disk |-> c.disk, frs |-> c.frs, count |-> c.count]
    BY <1>2, ChunkIs
  <2> HIDE DEF c
  <2> QED
    BY <2>1
<1> HIDE DEF c, n, d
<1>8. /\ c.disk \in Int /\ c.frs \in Nat /\ c.count \in Nat /\ FrsEnd(c) = c.frs + c.count
      /\ n.disk \in Int /\ n.frs \in Nat /\ n.count \in Nat /\ FrsEnd(n) = n.frs + n.count
  BY <1>1, <1>2, ChunkIs
<1>9. count \in Nat /\ count > 0 /\ FrsEnd(c) < FrsEnd(n)
  <2> DEFINE u == c.frs
             v == c.count
             x == n.frs
             y == n.count
  <2>1. u \in Nat /\ v \in Nat /\ x \in Nat /\ y \in Nat /\ u + v <= x /\ y > 0 /\ v > 0
    BY <1>1, <1>4, <1>6, <1>8 DEF n
  <2>2. count = (x + y) - u /\ FrsEnd(c) = u + v /\ FrsEnd(n) = x + y
    BY <1>5, <1>8
  <2> HIDE DEF u, v, x, y
  <2> QED
    BY SMTT(20), <2>1, <2>2
<1>10. d \in Chunk /\ FrsEnd(d) = FrsEnd(n) /\ d.count > 0
  <2>1. d \in Chunk
    BY <1>7, <1>8, <1>9 DEF Chunk
  <2>2. FrsEnd(d) = d.frs + d.count
    BY DEF FrsEnd
  <2>3. c.frs + ((n.frs + n.count) - c.frs) = n.frs + n.count
    BY SMTT(20), <1>8
  <2> QED
    BY <1>5, <1>7, <1>8, <1>9, <2>1, <2>2, <2>3
<1>11. /\ t \in Seq(Chunk) /\ Len(t) = l /\ DOMAIN t = 1 .. l /\ t[l] = d
       /\ \A i \in 1 .. l : i # l => t[i] = kept[i]
  <2>1. \A i \in 1 .. l : (IF i = l THEN d ELSE kept[i]) \in Chunk
    <3>1. \A i \in 1 .. l : kept[i] \in Chunk
      BY <1>2
    <3> QED
      BY <1>10, <3>1
  <2> HIDE DEF l
  <2>2. t \in [1 .. l -> Chunk]
    BY <2>1
  <2>3. l \in 1 .. l
    BY SMTT(20), <1>2
  <2> QED
    BY <1>2, <2>2, <2>3
<1> HIDE DEF t
<1>12. Ascending(t)
  <2> SUFFICES ASSUME NEW i \in 1 .. l, NEW j \in 1 .. l, i < j
               PROVE  FrsEnd(t[i]) <= t[j].frs
    BY <1>11 DEF Ascending
  <2>1. i # l
    BY <1>2
  <2>2. FrsEnd(kept[i]) <= kept[j].frs
    BY SMTT(20), <1>2 DEF Merged, Ascending
  <2>3. t[j].frs = kept[j].frs
    BY <1>7, <1>11 DEF c
  <2> QED
    BY ZenonT(40), <1>11, <2>1, <2>2, <2>3
<1>13. ASSUME NEW f \in W, NEW i \in 1 .. k + 1, Covers(s[i], f)
       PROVE  \E j \in DOMAIN t : Covers(t[j], f)
  <2>0. f \in Int
    BY SMTT(20)
  <2>1. CASE i = k + 1
    <3>1. n.frs <= f /\ f < FrsEnd(n)
      BY <1>1, <1>13, <2>0, <2>1, CoversIs DEF n
    <3>2. d.frs <= f /\ f < FrsEnd(d)
      BY SMTT(20), <1>4, <1>7, <1>8, <1>10, <2>0, <3>1
    <3>3. Covers(d, f)
      BY <1>10, <2>0, <3>2, CoversIs
    <3> QED
      BY <1>2, <1>11, <3>3
  <2>2. CASE i # k + 1
    <3>1. i \in 1 .. k
      BY <1>1, <2>2
    <3>2. PICK j \in DOMAIN kept : Covers(kept[j], f)
      BY SMTT(20), <1>13, <3>1 DEF Merged
    <3>3. CASE j # l
      BY ZenonT(40), <1>2, <1>11, <3>2, <3>3
    <3>4. CASE j = l
      <4>1. c.frs <= f /\ f < FrsEnd(c)
        BY <1>2, <2>0, <3>2, <3>4, CoversIs DEF c
      <4>2. d.frs <= f /\ f < FrsEnd(d)
        BY SMTT(20), <1>7, <1>8, <1>9, <1>10, <2>0, <4>1
      <4>3. Covers(d, f)
        BY <1>10, <2>0, <4>2, CoversIs
      <4> QED
        BY <1>2, <1>11, <4>3
    <3> QED
      BY <3>3, <3>4
  <2> QED
    BY SMTT(20), <2>1, <2>2
<1>14. Finds(t, ex, W)
  <2> SUFFICES ASSUME NEW i \in 1 .. l, NEW f \in W, Covers(t[i], f)
               PROVE  t[i].disk + f - t[i].frs = PhysicalOffset(ex, f)
    BY <1>11 DEF Finds
  <2>0. f \in Int
    BY SMTT(20)
  <2>1. CASE i # l
    BY <1>2, <1>11, <2>1 DEF Merged, Finds
  <2>2. CASE i = l
    <3>1. Covers(d, f) /\ t[i] = d
      BY <1>11, <2>2
    <3>2. c.frs <= f /\ f < FrsEnd(n)
      BY <1>7, <1>10, <2>0, <3>1, CoversIs
    <3>3. CASE f < FrsEnd(c)
      <4>1. Covers(c, f)
        BY <1>2, <2>0, <3>2, <3>3, CoversIs
      <4>2. c.disk + f - c.frs = PhysicalOffset(ex, f)
        BY <1>2, <4>1 DEF Merged, Finds, c
      <4> QED
        BY <1>7, <3>1, <4>2
    <3>4. CASE ~ (f < FrsEnd(c))
      <4>1. FrsEnd(s[k]) <= f /\ f < FrsEnd(s[k + 1])
        <5>1. FrsEnd(c) \in Int
          BY <1>8
        <5> QED
          BY <1>4, <2>0, <3>2, <3>4, <5>1 DEF n
      <4>2. Covers(s[k + 1], f)
        BY <4>1, BehindIsNext
      <4>3. n.disk + f - n.frs = PhysicalOffset(ex, f)
        BY <1>1, <4>2 DEF ToMerge, Finds, n
      <4>4. c.disk + f - c.frs = n.disk + f - n.frs
        <5> DEFINE u == c.frs
                   v == c.disk
                   x == n.frs
                   y == n.disk
        <5>1. u \in Int /\ v \in Int /\ x \in Int /\ y \in Int /\ v - u = y - x
          BY SMTT(20), <1>6, <1>8
        <5> HIDE DEF u, v, x, y
        <5>2. v + f - u = y + f - x
          BY <2>0, <5>1
        <5> QED
          BY <5>2 DEF u, v, x, y
      <4> QED
        BY <1>7, <3>1, <4>3, <4>4
    <3> QED
      BY SMTT(20), <3>3, <3>4
  <2> QED
    BY <2>1, <2>2
<1>15. Len(t) > 0 /\ t[Len(t)] = d
  BY <1>2, <1>11
<1>16. d.disk - d.frs = s[k + 1].disk - s[k + 1].frs /\ FrsEnd(d) = FrsEnd(s[k + 1])
  BY SMTT(20), <1>6, <1>7, <1>10 DEF n
<1>17. Merged(t, s, k + 1, ex, W)
  BY <1>10, <1>11, <1>12, <1>13, <1>14, <1>15, <1>16 DEF Merged
<1> QED
  BY <1>3, <1>17

LEMMA JoinedOrKept ==
    ASSUME NEW ex, NEW W \in SUBSET Nat, NEW s, ToMerge(s, ex, W),
           NEW k \in 1 .. Len(s) - 1, NEW kept, Merged(kept, s, k, ex, W),
           NEW joins, NEW count,
           joins => /\ count = FrsEnd(s[k + 1]) - kept[Len(kept)].frs
                    /\ s[k + 1].disk - s[k + 1].frs = s[k].disk - s[k].frs
    PROVE  Merged(StretchOrKeep(kept, s[k + 1], joins, count), s, k + 1, ex, W)
<1>1. CASE joins
  <2>1. StretchOrKeep(kept, s[k + 1], joins, count)
          = Append(Front(kept), [Last(kept) EXCEPT !.count = count])
    BY <1>1 DEF StretchOrKeep
  <2>2. count = FrsEnd(s[k + 1]) - kept[Len(kept)].frs
    BY <1>1
  <2>3. s[k + 1].disk - s[k + 1].frs = s[k].disk - s[k].frs
    BY <1>1
  <2> QED
    BY <2>1, <2>2, <2>3, StretchedOnce
<1>2. CASE ~joins
  <2>1. StretchOrKeep(kept, s[k + 1], joins, count) = Append(kept, s[k + 1])
    BY <1>2 DEF StretchOrKeep
  <2> QED
    BY <2>1, KeptOnceMore
<1> QED
  BY <1>1, <1>2

LEMMA AllMerged ==
    ASSUME NEW ex, NEW W \in SUBSET Nat, NEW s, ToMerge(s, ex, W), Len(s) > 0,
           NEW kept, Merged(kept, s, Len(s), ex, W)
    PROVE  Plans(kept, ex, W)
<1>1. kept \in Seq(Chunk) /\ Apart(kept)
  BY AscendingApart DEF Merged
<1>2. DOMAIN s = 1 .. Len(s)
  BY DEF ToMerge
<1>3. Reaches(kept, W)
  BY <1>2 DEF Merged, Reaches, ToMerge
<1> QED
  BY <1>1, <1>3 DEF Plans, Merged

LEMMA FirstAndRest ==
    ASSUME NEW s \in Seq(Chunk), s # << >>
    PROVE  /\ Len(s) \in Nat /\ Len(s) > 0 /\ Head(s) = s[1]
           /\ DOMAIN Tail(s) = 1 .. Len(s) - 1
           /\ \A k \in 1 .. Len(s) - 1 : Tail(s)[k] = s[k + 1]
  OBVIOUS

LEMMA FoldAdjacent ==
    ASSUME NEW base, NEW seq
    PROVE  FoldLeft(JoinAdjacent, base, seq) = ByAdjacent!FoldOf(base, seq)
  BY DEF FoldLeft, MapThenFoldSet, Max, ByAdjacent!FoldOf, ByAdjacent!Largest

LEMMA FoldPrecise ==
    ASSUME NEW base, NEW seq
    PROVE  FoldLeft(JoinPrecise, base, seq) = ByPrecise!FoldOf(base, seq)
  BY DEF FoldLeft, MapThenFoldSet, Max, ByPrecise!FoldOf, ByPrecise!Largest

LEMMA AdjacentJoins ==
    ASSUME NEW v, IsExtentMap(v.extents), ~Misnumbered(v),
           NEW s, s = ChunksOf(v.extents), NEW k \in 1 .. Len(s) - 1,
           NEW kept, Merged(kept, s, k, v.extents, MappedBy(v.extents))
    PROVE  Merged(JoinAdjacent(kept, s[k + 1]), s, k + 1, v.extents, MappedBy(v.extents))
<1> DEFINE ex == v.extents
           W == MappedBy(ex)
           c == kept[Len(kept)]
           b == s[k]
           n == s[k + 1]
           joins == /\ n.disk \in ChunkEnd(c) .. (ChunkEnd(c) + MergeThreshold)
                    /\ n.frs - (c.frs + c.count) <= MergeThreshold
                    /\ n.frs + n.count - c.frs <= MaxMergedRecords
           wide == n.frs + n.count - c.frs
<1>1. ToMerge(s, ex, W) /\ W \in SUBSET Nat
  <2>1. W \in SUBSET Nat
    BY DEF MappedBy
  <2> QED
    BY <2>1, ChunksAre DEF ToMerge
<1>2. b \in Chunk /\ n \in Chunk
  <2>1. s \in Seq(Chunk)
    BY ChunksAre
  <2> QED
    BY <2>1
<1>3. c \in Chunk /\ FrsEnd(c) = FrsEnd(b) /\ c.disk - c.frs = b.disk - b.frs
  <2>1. kept \in Seq(Chunk) /\ Len(kept) > 0
    BY DEF Merged
  <2> QED
    BY <2>1 DEF Merged
<1>4. JoinAdjacent(kept, n) = StretchOrKeep(kept, n, joins, wide)
  BY DEF JoinAdjacent, Last
<1>5. Borders(ex, b, n)
  BY ChunksAre
<1>7. wide = FrsEnd(n) - c.frs
  <2>1. FrsEnd(n) = n.frs + n.count
    BY DEF FrsEnd
  <2> HIDE DEF c, n
  <2>2. n.frs \in Int /\ n.count \in Int
    BY <1>2, ChunkIs
  <2>3. c.frs \in Int
    BY <1>3, ChunkIs
  <2> QED
    BY <2>1, <2>2, <2>3
<1> HIDE DEF c, b, n, W
<1>6. ASSUME joins PROVE n.disk - n.frs = b.disk - b.frs
  <2> DEFINE cd == c.disk
             cf == c.frs
             cc == c.count
             bd == b.disk
             bf == b.frs
             bc == b.count
             nd == n.disk
             nf == n.frs
  <2>1. /\ cd \in Int /\ cf \in Int /\ cc \in Int /\ bd \in Int /\ bf \in Int /\ bc \in Int
        /\ nd \in Int /\ nf \in Int
    BY <1>2, <1>3, ChunkIs
  <2>2. ChunkEnd(c) = cd + cc /\ ChunkEnd(b) = bd + bc /\ FrsEnd(b) = bf + bc /\ FrsEnd(c) = cf + cc
    BY DEF ChunkEnd, FrsEnd
  <2>3. cf + cc = bf + bc /\ cd - cf = bd - bf
    BY <1>3, <2>2
  <2>4. nd \in cd + cc .. (cd + cc) + MergeThreshold
    BY <1>6, <2>2
  <2>5. MergeThreshold \in Nat
    BY PlanAssumption
  <2>6. CASE nd - bd = nf - bf
    <3> HIDE DEF nd, bd, nf, bf
    <3>1. nd - nf = bd - bf
      BY <2>1, <2>6
    <3> QED
      BY <3>1 DEF nd, bd, nf, bf
  <2>7. CASE ~(nd - bd = nf - bf)
    <3>1. PICK i, j : /\ Next2(ex, i, j)
                      /\ ChunkEnd(b) = (ex[i].lcn + ex[i].count) * RecordsPerCluster
                      /\ FrsEnd(b) = EndFrs(ex[i])
                      /\ nd = ex[j].lcn * RecordsPerCluster
                      /\ nf = FirstFrs(ex[j])
      BY <1>5, <2>7 DEF Borders
    <3> DEFINE gap == (ex[j].lcn - ex[i].lcn - ex[i].count) * RecordsPerCluster
               li == ex[i].lcn
               ci == ex[i].count
               lj == ex[j].lcn
               w == RecordsPerCluster
    <3>2. gap = nd - (bd + bc)
      <4>1. li \in Int /\ ci \in Int /\ lj \in Int /\ w \in Int
        <5>1. i \in DOMAIN ex /\ j \in DOMAIN ex
          BY <3>1 DEF Next2
        <5>2. li \in Nat \union {Hole} /\ ci \in Nat \ {0} /\ lj \in Nat \union {Hole}
          BY <5>1, ExtentIs
        <5>3. w \in Nat
          BY PlanAssumption
        <5> HIDE DEF li, ci, lj, w
        <5> QED
          BY <5>2, <5>3 DEF Hole
      <4>2. (li + ci) * w = bd + bc /\ nd = lj * w /\ gap = (lj - li - ci) * w
        BY <2>2, <3>1
      <4> HIDE DEF li, ci, lj, w, bd, bc, nd, gap
      <4>3. lj - li - ci = lj - (li + ci)
        BY <4>1
      <4>4. (lj - (li + ci)) * w = lj * w - (li + ci) * w
        BY <4>1, WidthsAdd
      <4> QED
        BY <4>2, <4>3, <4>4
    <3>3. bd + bc = cd + cc
      <4> HIDE DEF bd, bc, cd, cc, bf, cf
      <4> QED
        BY <2>1, <2>3
    <3>4. gap \in 0 .. MergeThreshold
      <4> HIDE DEF gap, nd, bd, bc, cd, cc
      <4> QED
        BY <2>1, <2>4, <2>5, <3>2, <3>3
    <3>5. gap = FirstFrs(ex[j]) - EndFrs(ex[i])
      <4> DEFINE real == {a \in DOMAIN ex : ex[a].lcn # Hole}
      <4>1. i \in real /\ j \in real /\ i < j
        BY <3>1 DEF Next2
      <4>2. real \intersect (i + 1 .. j - 1) = {}
        <5> SUFFICES ASSUME NEW a \in real, a \in i + 1 .. j - 1 PROVE FALSE
          OBVIOUS
        <5>1. DOMAIN ex = 1 .. Len(ex)
          BY DEF IsExtentMap
        <5>2. i \in Int /\ j \in Int
          BY <4>1, <5>1
        <5>3. i < a /\ a < j
          BY <5>2
        <5> QED
          BY <3>1, <5>3 DEF Next2
      <4> QED
        BY <3>4, <4>1, <4>2 DEF Misnumbered
    <3>6. nf = FirstFrs(ex[j]) /\ bf + bc = EndFrs(ex[i])
      BY <2>2, <3>1
    <3>7. nd - (bd + bc) = nf - (bf + bc)
      BY <3>2, <3>5, <3>6
    <3> HIDE DEF nd, bd, bc, nf, bf
    <3>8. nd - nf = bd - bf
      BY <2>1, <3>7
    <3> QED
      BY <3>8 DEF nd, nf, bd, bf
  <2> QED
    BY <2>6, <2>7
<1>8. joins => /\ wide = FrsEnd(s[k + 1]) - kept[Len(kept)].frs
               /\ s[k + 1].disk - s[k + 1].frs = s[k].disk - s[k].frs
  BY <1>6, <1>7 DEF n, c, b
<1> HIDE DEF joins, wide
<1>9. Merged(StretchOrKeep(kept, s[k + 1], joins, wide), s, k + 1, ex, W)
  BY <1>1, <1>8, JoinedOrKept DEF W
<1> QED
  BY <1>4, <1>9 DEF n, W

LEMMA AdjacentPlans ==
    ASSUME NEW v, IsExtentMap(v.extents), ~Misnumbered(v)
    PROVE  Plans(MergeAdjacentChunks(ChunksOf(v.extents)), v.extents, MappedBy(v.extents))
<1> DEFINE ex == v.extents
           W == MappedBy(ex)
           s == ChunksOf(ex)
           n == Len(s)
<1>1. ToMerge(s, ex, W) /\ s \in Seq(Chunk)
  BY ChunksAre DEF ToMerge
<1>2. CASE s = << >>
  <2>1. MergeAdjacentChunks(s) = s
    BY <1>2 DEF MergeAdjacentChunks
  <2> QED
    BY <1>1, <2>1, AscendingApart DEF Plans, ToMerge
<1>3. CASE s # << >>
  <2> DEFINE base == <<s[1]>>
             rest == Tail(s)
  <2>1. /\ n \in Nat /\ n > 0 /\ Head(s) = s[1] /\ DOMAIN rest = 1 .. n - 1
        /\ \A k \in 1 .. n - 1 : rest[k] = s[k + 1]
    BY <1>1, <1>3, FirstAndRest
  <2>2. n - 1 \in Nat
    BY <2>1
  <2> HIDE DEF n
  <2>3. PICK f : ByAdjacent!Steps(f, base, rest, n - 1) /\ ByAdjacent!FoldOf(base, rest) = f[n - 1]
    <3> HIDE DEF base, rest, s
    <3> QED
      BY <2>1, <2>2, ByAdjacent!FoldSteps
  <2> DEFINE S == {k \in 0 .. n - 1 : Merged(f[k], s, k + 1, ex, W)}
  <2>4. 0 \in S
    <3>1. Merged(base, s, 1, ex, W)
      BY <1>1, <2>1, FirstMerged DEF n
    <3>2. f[0] = base /\ 0 + 1 = 1 /\ 0 \in 0 .. n - 1
      BY <2>2, <2>3 DEF ByAdjacent!Steps
    <3> QED
      BY <3>1, <3>2
  <2>5. ASSUME NEW k \in 1 .. n - 1, k - 1 \in S PROVE k \in S
    <3>1. Merged(f[k - 1], s, k, ex, W)
      <4>1. (k - 1) + 1 = k
        OBVIOUS
      <4> QED
        BY <2>5, <4>1
    <3>2. f[k] = JoinAdjacent(f[k - 1], s[k + 1])
      BY <2>1, <2>3 DEF ByAdjacent!Steps
    <3>3. Merged(JoinAdjacent(f[k - 1], s[k + 1]), s, k + 1, ex, W)
      <4> HIDE DEF S
      <4> QED
        BY <3>1, AdjacentJoins DEF n
    <3>4. k \in 0 .. n - 1
      BY <2>2
    <3> QED
      BY <3>2, <3>3, <3>4
  <2>6. n - 1 \in S
    <3>1. \A k \in 0 .. n - 1 : k \in S
      <4> HIDE DEF S
      <4> QED
        BY <2>2, <2>4, <2>5, ByAdjacent!UpTo
    <3> QED
      BY <2>2, <3>1
  <2>7. Merged(f[n - 1], s, n, ex, W)
    <3>1. (n - 1) + 1 = n
      BY <2>1
    <3> QED
      BY <2>6, <3>1
  <2>8. MergeAdjacentChunks(s) = f[n - 1]
    <3>1. MergeAdjacentChunks(s) = FoldLeft(JoinAdjacent, base, rest)
      BY <1>3, <2>1 DEF MergeAdjacentChunks
    <3> QED
      BY <2>3, <3>1, FoldAdjacent
  <2>9. Plans(f[n - 1], ex, W)
    <3>1. Len(s) > 0 /\ Merged(f[n - 1], s, Len(s), ex, W)
      BY <2>1, <2>7 DEF n
    <3>2. W \in SUBSET Nat
      BY DEF MappedBy
    <3> HIDE DEF s, W, ex
    <3> QED
      BY <1>1, <3>1, <3>2, AllMerged
  <2> QED
    BY <2>8, <2>9
<1> QED
  BY <1>2, <1>3

LEMMA PlansForFewer ==
    ASSUME NEW s, NEW ex, NEW W, NEW V \in SUBSET W, Plans(s, ex, W)
    PROVE  Plans(s, ex, V)
  BY DEF Plans, Reaches, Finds

LEMMA MappedIsBy ==
    ASSUME NEW v, TotalRecords(v.extents) \in Nat
    PROVE  Mapped(v) \in SUBSET Nat /\ Mapped(v) \in SUBSET MappedBy(v.extents)
  BY DEF Mapped, MappedBy

LEMMA ChunksPlanned ==
    ASSUME NEW v \in Volumes, v.extentsKnown, v.bitmapKnown \/ ~Misnumbered(v)
    PROVE  PlanReads(InlinePlan(v), v.extents, Mapped(v))
<1> DEFINE ex == v.extents
           W == MappedBy(ex)
           chunks == GenerateReadChunks(ex, v.bitmapKnown)
<1>1. IsExtentMap(ex) /\ TotalRecords(ex) \in Nat
  BY ReaderAssumption
<1>2. Extents(v) = ex
  BY DEF Extents
<1>3. Plans(chunks, ex, W)
  <2>1. CASE v.bitmapKnown
    <3>1. chunks = ChunksOf(ex)
      BY <2>1 DEF GenerateReadChunks, ChunksOf
    <3>2. Plans(ChunksOf(ex), ex, W)
      BY <1>1, ChunksAre, AscendingApart DEF Plans
    <3> QED
      BY <3>1, <3>2
  <2>2. CASE ~v.bitmapKnown
    <3>1. chunks = MergeAdjacentChunks(ChunksOf(ex))
      BY <2>2 DEF GenerateReadChunks, ChunksOf
    <3>2. Plans(MergeAdjacentChunks(ChunksOf(ex)), ex, W)
      BY <1>1, <2>2, AdjacentPlans
    <3> QED
      BY <3>1, <3>2
  <2> QED
    BY <2>1, <2>2
<1>4. W \in SUBSET Nat
  BY DEF MappedBy
<1> HIDE DEF chunks
<1>5. Plans(IoOps(chunks, v.direct), ex, W)
  <2> HIDE DEF ex, W
  <2> QED
    BY <1>3, <1>4, ReadsPlanned
<1>6. Mapped(v) \in SUBSET Nat /\ Mapped(v) \in SUBSET W
  BY <1>1, MappedIsBy
<1>7. Plans(IoOps(chunks, v.direct), ex, Mapped(v))
  <2> HIDE DEF ex, W
  <2> QED
    BY <1>5, <1>6, PlansForFewer
<1>8. PlanReads(IoOps(chunks, v.direct), ex, Mapped(v))
  BY <1>6, <1>7, PlansReadEach
<1> QED
  BY <1>2, <1>8 DEF InlinePlan, chunks

-----------------------------------------------------------------------------
(* Pieces that follow each other, all as far from their record numbers on   *)
(* the disk: what the precise plan is made of.                              *)
Level(s, D) == \A i \in DOMAIN s : s[i].disk - s[i].frs = D /\ s[i].count > 0

LEMMA PiecesAre ==
    ASSUME NEW n \in Nat, NEW ss \in [1 .. n -> Seq(Chunk)], NEW D \in Int,
           NEW from \in [1 .. n -> Nat], NEW size \in [1 .. n -> Nat],
           \A i \in 1 .. n : CutsUp(ss[i], D + from[i], from[i], size[i]),
           \A i, j \in 1 .. n : i < j /\ size[i] > 0 => from[i] + size[i] <= from[j]
    PROVE  /\ FlattenSeq(ss) \in Seq(Chunk) /\ Ascending(FlattenSeq(ss)) /\ Level(FlattenSeq(ss), D)
           /\ \A i \in 1 .. n : \A f \in from[i] .. from[i] + size[i] - 1 :
                \E p \in DOMAIN FlattenSeq(ss) : Covers(FlattenSeq(ss)[p], f)
<1> DEFINE s == FlattenSeq(ss)
<1>1. PICK k, m : Unjoined(Chunk, s, ss, n, k, m)
  BY JoinedKeepPlaces
<1> HIDE DEF s
<1>2. s \in Seq(Chunk) /\ DOMAIN s = 1 .. Len(s) /\ Len(s) \in Nat
  BY <1>1 DEF Unjoined
<1>9. \A i \in 1 .. n : \A j \in 1 .. Len(ss[i]) : \E p \in 1 .. Len(s) : k[p] = i /\ m[p] = j
  BY <1>1 DEF Unjoined
<1>10. \A i \in 1 .. n : ss[i] \in Seq(Chunk) /\ DOMAIN ss[i] = 1 .. Len(ss[i])
  OBVIOUS
<1>11. \A p \in 1 .. Len(s) : s[p] \in Chunk
  BY <1>2
<1>3. ASSUME NEW p \in 1 .. Len(s)
      PROVE  /\ k[p] \in 1 .. n /\ m[p] \in 1 .. Len(ss[k[p]]) /\ s[p] = ss[k[p]][m[p]]
             /\ m[p] \in DOMAIN ss[k[p]] /\ s[p] \in Chunk
  <2>1. k[p] \in 1 .. n /\ m[p] \in 1 .. Len(ss[k[p]]) /\ s[p] = ss[k[p]][m[p]]
    BY <1>1 DEF Unjoined
  <2> QED
    BY <1>10, <1>11, <2>1
<1>4. ASSUME NEW p \in 1 .. Len(s)
      PROVE  /\ s[p].disk - s[p].frs = D /\ s[p].count > 0
             /\ from[k[p]] <= s[p].frs /\ FrsEnd(s[p]) <= from[k[p]] + size[k[p]]
             /\ s[p].frs \in Nat /\ FrsEnd(s[p]) \in Nat /\ s[p].frs < FrsEnd(s[p])
             /\ from[k[p]] \in Nat /\ size[k[p]] \in Nat
  <2> DEFINE i == k[p]
             c == s[p]
             a == from[i]
             z == size[i]
  <2>1. CutsUp(ss[i], D + a, a, z)
    BY <1>3
  <2>2. c.disk - c.frs = (D + a) - a /\ c.count > 0 /\ a <= c.frs /\ FrsEnd(c) <= a + z
    <3>1. c = ss[i][m[p]] /\ m[p] \in DOMAIN ss[i]
      BY <1>3
    <3> HIDE DEF a, z, c, i
    <3> QED
      BY <2>1, <3>1 DEF CutsUp
  <2>3. a \in Nat /\ z \in Nat
    BY <1>3
  <2>4. c.disk \in Int /\ c.frs \in Nat /\ c.count \in Nat /\ FrsEnd(c) \in Nat /\ FrsEnd(c) = c.frs + c.count
    BY <1>3, ChunkIs
  <2>5. (D + a) - a = D
    BY <2>3
  <2>6. c.frs < FrsEnd(c)
    <3> DEFINE u == c.frs
               w == c.count
    <3>1. u \in Nat /\ w \in Nat /\ w > 0 /\ FrsEnd(c) = u + w
      BY <2>2, <2>4
    <3> HIDE DEF u, w
    <3>2. u < FrsEnd(c)
      BY <3>1
    <3> QED
      BY <3>2 DEF u
  <2> QED
    BY <2>2, <2>3, <2>4, <2>5, <2>6
<1>5. Ascending(s)
  <2> SUFFICES ASSUME NEW p \in 1 .. Len(s), NEW q \in 1 .. Len(s), p < q
               PROVE  FrsEnd(s[p]) <= s[q].frs
    BY <1>2 DEF Ascending
  <2>1. k[p] < k[q] \/ (k[p] = k[q] /\ m[p] < m[q])
    BY <1>1 DEF Unjoined
  <2>2. CASE k[p] < k[q]
    <3> DEFINE a == from[k[p]]
               z == size[k[p]]
               u == s[p].frs
               e == FrsEnd(s[p])
    <3>0. a \in Nat /\ z \in Nat /\ u \in Nat /\ e \in Nat /\ a <= u /\ u < e /\ e <= a + z
      BY <1>4
    <3>1. size[k[p]] > 0
      <4> HIDE DEF a, z, u, e
      <4>1. z > 0
        BY <3>0
      <4> QED
        BY <4>1 DEF z
    <3>2. from[k[p]] + size[k[p]] <= from[k[q]]
      BY <1>3, <2>2, <3>1
    <3> DEFINE b == from[k[q]]
               v == s[q].frs
    <3>3. b <= v /\ b \in Nat /\ v \in Nat
      BY <1>4
    <3>4. a + z <= b
      BY <3>2
    <3>5. e <= v
      <4> HIDE DEF a, z, u, e, b, v
      <4> QED
        BY <3>0, <3>3, <3>4
    <3> QED
      BY <3>5
  <2>3. CASE k[p] = k[q] /\ m[p] < m[q]
    <3>1. Ascending(ss[k[p]])
      BY <1>3 DEF CutsUp
    <3> QED
      BY ZenonT(40), <1>3, <2>3, <3>1 DEF Ascending
  <2> QED
    BY <2>1, <2>2, <2>3
<1>6. Level(s, D)
  BY <1>2, <1>4 DEF Level
<1>7. ASSUME NEW i \in 1 .. n, NEW f \in from[i] .. from[i] + size[i] - 1
      PROVE  \E p \in DOMAIN s : Covers(s[p], f)
  <2>1. PICK j \in DOMAIN ss[i] : Covers(ss[i][j], f)
    BY DEF CutsUp
  <2>2. j \in 1 .. Len(ss[i])
    <3>1. ss[i] \in Seq(Chunk)
      OBVIOUS
    <3> QED
      BY <3>1
  <2>3. PICK p \in 1 .. Len(s) : k[p] = i /\ m[p] = j
    BY <1>9, <2>2
  <2> QED
    BY <1>2, <1>3, <2>1, <2>3
<1> QED
  BY <1>2, <1>5, <1>6, <1>7 DEF s

LEMMA LevelSorts ==
    ASSUME NEW s \in Seq(Chunk), NEW D \in Int, Level(s, D), NEW ex, NEW W, Plans(s, ex, W)
    PROVE  /\ ToMerge(ByDiskOffset(s), ex, W) /\ Level(ByDiskOffset(s), D)
           /\ Len(ByDiskOffset(s)) = Len(s)
<1> DEFINE t == ByDiskOffset(s)
<1>1. PICK p : Reordered(t, s, p)
  BY SortIs
<1>2. \A i, j \in 1 .. Len(s) : i < j => t[i].disk <= t[j].disk
  BY SortIs
<1>3. Plans(t, ex, W)
  BY SortedPlans
<1> HIDE DEF t
<1>4. t \in Seq(Chunk) /\ Len(t) = Len(s) /\ DOMAIN t = 1 .. Len(s)
  BY <1>1 DEF Reordered
<1>5. \A i \in DOMAIN t : p[i] \in DOMAIN s /\ t[i] = s[p[i]]
  BY <1>1, <1>4 DEF Reordered
<1>6. Level(t, D)
  BY <1>5 DEF Level
<1>7. Ascending(t)
  <2> SUFFICES ASSUME NEW i \in DOMAIN t, NEW j \in DOMAIN t, i < j
               PROVE  FrsEnd(t[i]) <= t[j].frs
    BY DEF Ascending
  <2>1. i # j
    <3>1. i \in Int /\ j \in Int
      BY <1>4
    <3> QED
      BY <3>1
  <2>2. FrsEnd(t[i]) <= t[j].frs \/ FrsEnd(t[j]) <= t[i].frs
    BY <1>3, <2>1 DEF Plans, Apart
  <2> DEFINE a == t[i]
             b == t[j]
  <2>3. a \in Chunk /\ b \in Chunk
    BY <1>4
  <2>4. a.disk <= b.disk
    BY <1>2, <1>4
  <2>5. a.disk - a.frs = D /\ b.disk - b.frs = D /\ b.count > 0
    BY <1>6 DEF Level
  <2>6. /\ a.disk \in Int /\ a.frs \in Nat /\ b.disk \in Int /\ b.frs \in Nat /\ b.count \in Nat
        /\ FrsEnd(b) = b.frs + b.count
    BY <2>3, ChunkIs
  <2>7. a.frs <= b.frs
    <3> DEFINE x == a.disk
               y == a.frs
               u == b.disk
               z == b.frs
    <3>1. x \in Int /\ y \in Int /\ u \in Int /\ z \in Int /\ x <= u /\ x - y = D /\ u - z = D
      BY <2>4, <2>5, <2>6
    <3> HIDE DEF x, y, u, z
    <3>2. y <= z
      BY <3>1
    <3> QED
      BY <3>2 DEF y, z
  <2>8. ~ (FrsEnd(b) <= a.frs)
    BY <2>5, <2>6, <2>7
  <2> QED
    BY <2>2, <2>8
<1> QED
  BY <1>3, <1>4, <1>6, <1>7 DEF ToMerge, Plans, Level, t

LEMMA PreciseJoins ==
    ASSUME NEW ex, NEW W \in SUBSET Nat, NEW D \in Int, NEW s, ToMerge(s, ex, W), Level(s, D),
           NEW k \in 1 .. Len(s) - 1, NEW kept, Merged(kept, s, k, ex, W)
    PROVE  Merged(JoinPrecise(kept, s[k + 1]), s, k + 1, ex, W)
<1> DEFINE c == kept[Len(kept)]
           b == s[k]
           n == s[k + 1]
           joins == /\ n.disk - ChunkEnd(c) <= MergeThreshold
                    /\ ChunkEnd(n) - c.disk <= MaxIoRecords
           wide == ChunkEnd(n) - c.disk
<1>1. s \in Seq(Chunk) /\ k \in DOMAIN s /\ k + 1 \in DOMAIN s
  BY DEF ToMerge
<1>2. kept \in Seq(Chunk) /\ Len(kept) > 0 /\ c.disk - c.frs = b.disk - b.frs
  BY DEF Merged
<1>3. b.disk - b.frs = D /\ n.disk - n.frs = D
  BY <1>1 DEF Level
<1>4. c \in Chunk /\ n \in Chunk
  BY <1>1, <1>2
<1>5. JoinPrecise(kept, n) = StretchOrKeep(kept, n, joins, wide)
  BY DEF JoinPrecise, Last
<1>6. wide = FrsEnd(n) - c.frs
  <2> DEFINE x == c.disk
             y == c.frs
             u == n.disk
             z == n.frs
             q == n.count
  <2>1. x \in Int /\ y \in Int /\ u \in Int /\ z \in Int /\ q \in Int
    BY <1>4, ChunkIs
  <2>2. x - y = D /\ u - z = D /\ FrsEnd(n) = z + q /\ wide = (u + q) - x
    BY <1>2, <1>3 DEF FrsEnd, ChunkEnd
  <2> HIDE DEF x, y, u, z, q, wide
  <2>3. wide = (z + q) - y
    BY <2>1, <2>2
  <2> QED
    BY <2>2, <2>3 DEF y
<1>7. wide = FrsEnd(s[k + 1]) - kept[Len(kept)].frs /\ s[k + 1].disk - s[k + 1].frs = s[k].disk - s[k].frs
  BY <1>3, <1>6
<1> HIDE DEF joins, wide
<1>8. Merged(StretchOrKeep(kept, s[k + 1], joins, wide), s, k + 1, ex, W)
  BY <1>7, JoinedOrKept
<1> QED
  BY <1>5, <1>8

LEMMA PrecisePlans ==
    ASSUME NEW ex, NEW W \in SUBSET Nat, NEW D \in Int, NEW s \in Seq(Chunk), Level(s, D),
           Plans(s, ex, W)
    PROVE  Plans(MergePreciseChunks(s), ex, W)
<1> DEFINE t == ByDiskOffset(s)
           n == Len(t)
<1>1. ToMerge(t, ex, W) /\ Level(t, D) /\ Len(t) = Len(s)
  BY LevelSorts
<1>2. CASE s = << >>
  <2>1. MergePreciseChunks(s) = s
    BY <1>2 DEF MergePreciseChunks
  <2> QED
    BY <2>1
<1>3. CASE s # << >>
  <2> DEFINE base == <<t[1]>>
             rest == Tail(t)
  <2>1. t \in Seq(Chunk) /\ t # << >>
    <3>1. t \in Seq(Chunk)
      BY <1>1 DEF ToMerge
    <3>2. Len(s) > 0
      BY <1>3
    <3> HIDE DEF t
    <3>3. t # << >>
      BY <1>1, <3>2
    <3> QED
      BY <3>1, <3>3
  <2>2. /\ n \in Nat /\ n > 0 /\ Head(t) = t[1] /\ DOMAIN rest = 1 .. n - 1
        /\ \A k \in 1 .. n - 1 : rest[k] = t[k + 1]
    <3> HIDE DEF t
    <3> QED
      BY <2>1, FirstAndRest
  <2>3. MergePreciseChunks(s) = FoldLeft(JoinPrecise, base, rest)
    BY <1>3, <2>2 DEF MergePreciseChunks
  <2> HIDE DEF t, n
  <2>4. n - 1 \in Nat
    BY <2>2
  <2>5. PICK f : ByPrecise!Steps(f, base, rest, n - 1) /\ ByPrecise!FoldOf(base, rest) = f[n - 1]
    <3> HIDE DEF base, rest
    <3> QED
      BY <2>2, <2>4, ByPrecise!FoldSteps
  <2> DEFINE S == {k \in 0 .. n - 1 : Merged(f[k], t, k + 1, ex, W)}
  <2>6. 0 \in S
    <3>1. Merged(base, t, 1, ex, W)
      BY <1>1, <2>2, FirstMerged DEF n
    <3>2. f[0] = base /\ 0 + 1 = 1 /\ 0 \in 0 .. n - 1
      BY <2>4, <2>5 DEF ByPrecise!Steps
    <3> QED
      BY <3>1, <3>2
  <2>7. ASSUME NEW k \in 1 .. n - 1, k - 1 \in S PROVE k \in S
    <3>1. Merged(f[k - 1], t, k, ex, W)
      <4>1. (k - 1) + 1 = k
        OBVIOUS
      <4> QED
        BY <2>7, <4>1
    <3>2. f[k] = JoinPrecise(f[k - 1], t[k + 1])
      BY <2>2, <2>5 DEF ByPrecise!Steps
    <3>3. Merged(JoinPrecise(f[k - 1], t[k + 1]), t, k + 1, ex, W)
      <4> HIDE DEF S
      <4> QED
        BY <1>1, <3>1, PreciseJoins DEF n
    <3>4. k \in 0 .. n - 1
      BY <2>4
    <3> QED
      BY <3>2, <3>3, <3>4
  <2>8. n - 1 \in S
    <3>1. \A k \in 0 .. n - 1 : k \in S
      <4> HIDE DEF S
      <4> QED
        BY <2>4, <2>6, <2>7, ByPrecise!UpTo
    <3> QED
      BY <2>4, <3>1
  <2>9. Merged(f[n - 1], t, n, ex, W)
    <3>1. (n - 1) + 1 = n
      BY <2>2
    <3> QED
      BY <2>8, <3>1
  <2>10. Plans(f[n - 1], ex, W)
    <3>1. Len(t) > 0 /\ Merged(f[n - 1], t, Len(t), ex, W)
      BY <2>2, <2>9 DEF n
    <3> QED
      BY <1>1, <3>1, AllMerged
  <2> QED
    BY <2>3, <2>5, <2>10, FoldPrecise
<1> QED
  BY <1>2, <1>3

(* The runs of consecutive numbers that a finite set falls into.            *)
RunEnd(B, c) ==
  CHOOSE d \in c + 1 .. c + Cardinality(B) : d \notin B /\ c .. d - 1 \subseteq B

Starts(B) == {c \in B : c - 1 \notin B}

LEMMA RunEnds ==
    ASSUME NEW B \in SUBSET Nat, IsFiniteSet(B), NEW c \in B
    PROVE  /\ RunEnd(B, c) \in Nat /\ c < RunEnd(B, c) /\ RunEnd(B, c) \notin B
           /\ c .. RunEnd(B, c) - 1 \subseteq B
<1> DEFINE n == Cardinality(B)
           e == RunEnd(B, c)
<1>1. n \in Nat /\ c \in Nat
  BY FS_CardinalityType
<1>2. PICK x \in c .. c + n : x \notin B
  <2> SUFFICES ASSUME c .. c + n \subseteq B PROVE FALSE
    OBVIOUS
  <2>1. Cardinality(c .. c + n) = n + 1
    <3>1. c \in Int /\ c + n \in Int /\ ~(c > c + n) /\ (c + n) - c + 1 = n + 1
      BY <1>1
    <3> HIDE DEF n
    <3> QED
      BY <3>1, FS_Interval
  <2>2. Cardinality(c .. c + n) <= n
    BY FS_Subset
  <2> QED
    BY <1>1, <2>1, <2>2
<1> HIDE DEF n
<1> DEFINE S == {d \in c + 1 .. c + n : d \notin B}
<1>3. x \in S
  <2>1. x # c
    BY <1>2
  <2> QED
    BY <1>1, <1>2, <2>1
<1>4. PICK m \in S : \A d \in S : m <= d
  <2>1. S \in SUBSET Nat /\ S # {}
    BY <1>1, <1>3
  <2> HIDE DEF S
  <2> QED
    BY <2>1, ByRecord!SmallestExists
<1>5. m \in c + 1 .. c + n /\ m \notin B /\ c .. m - 1 \subseteq B
  <2>1. ASSUME NEW y \in c .. m - 1 PROVE y \in B
    <3>1. CASE y = c
      BY <3>1
    <3>2. CASE y # c
      <4>1. y \in c + 1 .. c + n /\ ~(m <= y)
        BY <1>1, <1>4, <3>2
      <4> QED
        BY <1>4, <4>1
    <3> QED
      BY <3>1, <3>2
  <2> QED
    BY <1>4, <2>1
<1>6. e \in c + 1 .. c + n /\ e \notin B /\ c .. e - 1 \subseteq B
  BY <1>5 DEF RunEnd, n
<1> HIDE DEF e
<1>7. e \in Nat /\ c < e
  BY <1>1, <1>6
<1> QED
  BY <1>6, <1>7 DEF e

LEMMA RunsStart ==
    ASSUME NEW B \in SUBSET Nat, IsFiniteSet(B), NEW c \in B
    PROVE  \E s \in Starts(B) : s <= c /\ c < RunEnd(B, s)
<1> DEFINE S == {s \in 0 .. c : s .. c \subseteq B}
<1>1. c \in Nat
  OBVIOUS
<1>2. c \in S
  <2>1. c .. c \subseteq B
    BY <1>1
  <2> QED
    BY <1>1, <2>1
<1>3. PICK s \in S : \A d \in S : s <= d
  <2>1. S \in SUBSET Nat /\ S # {}
    BY <1>2
  <2> HIDE DEF S
  <2> QED
    BY <2>1, ByRecord!SmallestExists
<1>4. s \in 0 .. c /\ s .. c \subseteq B /\ s \in B
  BY <1>1, <1>3
<1>5. s - 1 \notin B
  <2> SUFFICES ASSUME s - 1 \in B PROVE FALSE
    OBVIOUS
  <2>1. s - 1 \in 0 .. c
    BY <1>1, <1>4
  <2>2. s - 1 .. c \subseteq B
    <3> SUFFICES ASSUME NEW y \in s - 1 .. c PROVE y \in B
      OBVIOUS
    <3>1. y = s - 1 \/ y \in s .. c
      BY <1>1, <1>4
    <3> QED
      BY <1>4, <3>1
  <2>3. s <= s - 1
    BY <1>3, <2>1, <2>2
  <2> QED
    BY <1>4, <2>3
<1>6. s \in Starts(B)
  BY <1>4, <1>5 DEF Starts
<1> DEFINE e == RunEnd(B, s)
<1>7. e \in Nat /\ s < e /\ e \notin B
  BY <1>4, RunEnds
<1> HIDE DEF e
<1>8. c < e
  <2> SUFFICES ASSUME ~(c < e) PROVE FALSE
    OBVIOUS
  <2>1. e \in s .. c
    BY <1>1, <1>4, <1>7
  <2> QED
    BY <1>4, <1>7, <2>1
<1> QED
  BY <1>4, <1>6, <1>8 DEF e

LEMMA RunsApart ==
    ASSUME NEW B \in SUBSET Nat, IsFiniteSet(B), NEW s \in Starts(B), NEW t \in Starts(B), s < t
    PROVE  RunEnd(B, s) <= t
<1> DEFINE e == RunEnd(B, s)
<1>1. s \in B /\ t \in Nat /\ s \in Nat /\ t - 1 \notin B
  BY DEF Starts
<1>2. e \in Nat /\ s .. e - 1 \subseteq B
  BY <1>1, RunEnds
<1> HIDE DEF e
<1>3. e <= t
  <2> SUFFICES ASSUME ~(e <= t) PROVE FALSE
    OBVIOUS
  <2>1. t - 1 \in s .. e - 1
    BY <1>1, <1>2
  <2> QED
    BY <1>1, <1>2, <2>1
<1> QED
  BY <1>3 DEF e

LEMMA DividedKeepOrder ==
    ASSUME NEW a \in Nat, NEW b \in Nat, NEW w \in Nat \ {0}, a <= b
    PROVE  a \div w \in Nat /\ a \div w <= b \div w /\ b \div w \in Nat
<1> DEFINE p == a \div w
           q == b \div w
           x == a % w
           y == b % w
<1>1. p \in Int /\ x \in 0 .. w - 1 /\ a = w * p + x
  BY DividedIs
<1>2. q \in Int /\ y \in 0 .. w - 1 /\ b = w * q + y
  BY DividedIs
<1> HIDE DEF p, q, x, y
<1>3. w * p = p * w /\ w * q = q * w /\ p * w \in Int /\ q * w \in Int
  BY <1>1, <1>2, WidthsAdd
<1>4. p * w < (q + 1) * w /\ (p + 1) * w > 0 * w /\ (q + 1) * w > 0 * w
  <2>1. (q + 1) * w = q * w + w /\ (p + 1) * w = p * w + w
    BY <1>1, <1>2, WidthsAdd
  <2>2. 0 * w = 0
    OBVIOUS
  <2> DEFINE pw == p * w
             qw == q * w
  <2>3. /\ pw \in Int /\ qw \in Int /\ a = pw + x /\ b = qw + y
        /\ (q + 1) * w = qw + w /\ (p + 1) * w = pw + w
    BY <1>1, <1>2, <1>3, <2>1
  <2> HIDE DEF pw, qw
  <2>4. pw < qw + w /\ pw + w > 0 /\ qw + w > 0
    BY <1>1, <1>2, <2>3
  <2> QED
    BY <2>2, <2>3, <2>4 DEF pw
<1>5. p < q + 1
  BY <1>1, <1>2, <1>4, WidthsOrdered
<1>6. 0 < p + 1 /\ 0 < q + 1
  BY <1>1, <1>2, <1>4, WidthsOrdered
<1>7. p \in Nat /\ p <= q /\ q \in Nat
  BY <1>1, <1>2, <1>5, <1>6
<1> QED
  BY <1>7 DEF p, q

(* The ranges of clusters in use: they ascend, and each record in use is in *)
(* one of them.                                                             *)
LEMMA RangesAre ==
    ASSUME NEW records \in Nat, NEW U \in SUBSET (0 .. records - 1)
    PROVE  LET rs == InUseClusterRanges(U, records)
           IN /\ Len(rs) \in Nat /\ DOMAIN rs = 1 .. Len(rs)
              /\ \A i \in DOMAIN rs : rs[i].vcn \in Nat /\ rs[i].count \in Nat \ {0}
              /\ \A i, j \in DOMAIN rs : i < j => rs[i].vcn + rs[i].count <= rs[j].vcn
              /\ \A f \in U : \E i \in DOMAIN rs :
                   /\ rs[i].vcn <= f \div RecordsPerCluster
                   /\ f \div RecordsPerCluster < rs[i].vcn + rs[i].count
<1> DEFINE w == RecordsPerCluster
           rs == InUseClusterRanges(U, records)
           B == {c \in 0 .. (records - 1) \div w : ClusterHasInUse(U, c)}
           S == Starts(B)
           n == Cardinality(S)
           R == {a \in S \X S : a[1] < a[2]}
           nth == [i \in 1 .. n |-> CHOOSE c \in S : Cardinality({d \in S : d < c}) = i - 1]
<1>1. w \in Nat \ {0}
  BY PlanAssumption
<1>2. B \in SUBSET Nat /\ IsFiniteSet(B)
  <2>1. (records - 1) \div w \in Int
    BY <1>1, DividedIs
  <2>2. IsFiniteSet(0 .. (records - 1) \div w)
    BY <2>1, FS_Interval
  <2> HIDE DEF w
  <2>3. B \in SUBSET (0 .. (records - 1) \div w)
    OBVIOUS
  <2>4. 0 .. (records - 1) \div w \subseteq Nat
    BY <2>1
  <2> HIDE DEF B
  <2> QED
    BY <2>2, <2>3, <2>4, FS_Subset
<1>3. \A f \in U : f \div w \in B
  <2> SUFFICES ASSUME NEW f \in U PROVE f \div w \in B
    OBVIOUS
  <2>1. f \in Nat /\ records - 1 \in Nat /\ f <= records - 1
    OBVIOUS
  <2>2. f \div w \in Nat /\ f \div w <= (records - 1) \div w /\ (records - 1) \div w \in Nat
    BY <1>1, <2>1, DividedKeepOrder
  <2>3. ClusterHasInUse(U, f \div w)
    BY DEF ClusterHasInUse
  <2> HIDE DEF w
  <2> QED
    BY <2>2, <2>3
<1>4. rs = [i \in 1 .. n |-> [vcn |-> nth[i], count |-> RunEnd(B, nth[i]) - nth[i]]]
  <2> DEFINE N(i) == CHOOSE c \in S : Cardinality({d \in S : d < c}) = i - 1
  <2>1. rs = [i \in 1 .. n |-> [vcn |-> N(i), count |-> RunEnd(B, N(i)) - N(i)]]
    BY DEF InUseClusterRanges, RunEnd, Starts
  <2>2. \A i \in 1 .. n : nth[i] = N(i)
    OBVIOUS
  <2> HIDE DEF N, rs, nth, B, n
  <2> QED
    BY <2>1, <2>2
<1> HIDE DEF B, rs
<1>5. S \in SUBSET Nat /\ IsFiniteSet(S) /\ n \in Nat
  <2>1. S \in SUBSET B
    BY DEF Starts
  <2>2. IsFiniteSet(S)
    BY <1>2, <2>1, FS_Subset
  <2> HIDE DEF S
  <2> QED
    BY <1>2, <2>1, <2>2, FS_CardinalityType
<1>6. \A c \in S : Rank(S, R, c) = Cardinality({d \in S : d < c})
  <2> SUFFICES ASSUME NEW c \in S PROVE Rank(S, R, c) = Cardinality({d \in S : d < c})
    OBVIOUS
  <2> HIDE DEF S
  <2>1. {d \in S : <<d, c>> \in R} = {d \in S : d < c}
    OBVIOUS
  <2> QED
    BY <2>1 DEF Rank
<1>7. Ranks(S, R)
  <2> HIDE DEF S
  <2>1. \A i, j \in S : <<i, j>> \in R <=> i < j
    OBVIOUS
  <2> HIDE DEF R
  <2>2. \A i \in S : i \in Nat
    BY <1>5
  <2>3. \A i \in S : <<i, i>> \notin R
    BY <2>1, <2>2
  <2>4. \A i, j, l \in S : <<i, j>> \in R /\ <<j, l>> \in R => <<i, l>> \in R
    BY <2>1, <2>2
  <2>5. \A i, j \in S : i # j => <<i, j>> \in R \/ <<j, i>> \in R
    BY <2>1, <2>2
  <2> QED
    BY <1>5, <2>3, <2>4, <2>5 DEF Ranks
<1>8. \A i, j \in S : <<i, j>> \in R => i < j
  OBVIOUS
<1> HIDE DEF S, R
<1>9. /\ \A c \in S : Rank(S, R, c) \in 0 .. n - 1
      /\ \A i, j \in S : Rank(S, R, i) < Rank(S, R, j) => <<i, j>> \in R
      /\ \A i, j \in S : Rank(S, R, i) = Rank(S, R, j) => i = j
      /\ \A r \in 0 .. n - 1 : \E c \in S : Rank(S, R, c) = r
  BY <1>7, RanksAre
<1> HIDE DEF n
<1>10. ASSUME NEW i \in 1 .. n PROVE nth[i] \in S /\ Rank(S, R, nth[i]) = i - 1
  <2>1. i - 1 \in 0 .. n - 1
    BY <1>5
  <2>2. \E c \in S : Cardinality({d \in S : d < c}) = i - 1
    BY <1>6, <1>9, <2>1
  <2>3. nth[i] = CHOOSE c \in S : Cardinality({d \in S : d < c}) = i - 1
    OBVIOUS
  <2> HIDE DEF nth
  <2>4. nth[i] \in S /\ Cardinality({d \in S : d < nth[i]}) = i - 1
    BY <2>2, <2>3
  <2> QED
    BY <1>6, <2>4
<1> HIDE DEF nth
<1>11. ASSUME NEW i \in 1 .. n
       PROVE  /\ rs[i].vcn = nth[i] /\ rs[i].vcn + rs[i].count = RunEnd(B, nth[i])
              /\ rs[i].vcn \in Nat /\ rs[i].count \in Nat \ {0}
  <2>1. rs[i].vcn = nth[i] /\ rs[i].count = RunEnd(B, nth[i]) - nth[i]
    BY <1>4
  <2>2. nth[i] \in B
    BY <1>10 DEF S, Starts
  <2> DEFINE e == RunEnd(B, nth[i])
             a == nth[i]
  <2>3. a \in Nat /\ e \in Nat /\ a < e
    BY <1>2, <2>2, RunEnds
  <2> HIDE DEF e, a
  <2>4. a + (e - a) = e /\ e - a \in Nat \ {0}
    BY <2>3
  <2> QED
    BY <2>1, <2>3, <2>4 DEF e, a
<1>12. DOMAIN rs = 1 .. n /\ Len(rs) = n
  BY <1>4, <1>5
<1>13. ASSUME NEW i \in 1 .. n, NEW j \in 1 .. n, i < j
       PROVE  rs[i].vcn + rs[i].count <= rs[j].vcn
  <2>1. i - 1 < j - 1
    BY <1>13
  <2>2. nth[i] < nth[j]
    BY ZenonT(40), <1>8, <1>9, <1>10, <2>1
  <2>3. RunEnd(B, nth[i]) <= nth[j]
    BY <1>2, <1>10, <2>2, RunsApart DEF S
  <2> QED
    BY <1>11, <2>3
<1>14. ASSUME NEW f \in U
       PROVE  \E i \in 1 .. n : rs[i].vcn <= f \div w /\ f \div w < rs[i].vcn + rs[i].count
  <2>1. PICK s \in S : s <= f \div w /\ f \div w < RunEnd(B, s)
    BY <1>2, <1>3, RunsStart DEF S
  <2> DEFINE i == Rank(S, R, s) + 1
  <2>2. i \in 1 .. n /\ i - 1 = Rank(S, R, s)
    <3>1. Rank(S, R, s) \in 0 .. n - 1
      BY <1>9
    <3> QED
      BY <1>5, <3>1
  <2>3. nth[i] = s
    <3> HIDE DEF i
    <3> QED
      BY <1>9, <1>10, <2>2
  <2> HIDE DEF i
  <2> QED
    BY <1>11, <2>1, <2>2, <2>3
<1> QED
  BY <1>5, <1>11, <1>12, <1>13, <1>14 DEF rs, w

LEMMA FlattenedOne ==
    ASSUME NEW A, NEW ss, DOMAIN ss = 1 .. 1, Len(ss) = 1
    PROVE  FlattenSeq(ss) = ss[1]
<1>1. PICK fl : /\ ByRecord!Flat(fl, ss, 1)
                /\ FlattenSeq(ss) = IF 1 = 0 THEN ss ELSE fl[1]
  <2>1. ByRecord!Flattened(ss) = FlattenSeq(ss)
    BY DEF ByRecord!Flattened, FlattenSeq
  <2>2. \E fl : /\ ByRecord!Flat(fl, ss, 1)
                /\ ByRecord!Flattened(ss) = IF 1 = 0 THEN ss ELSE fl[1]
    <3>1. 1 \in Nat
      OBVIOUS
    <3> QED
      BY <3>1, ByRecord!FlattenSteps
  <2> QED
    BY <2>1, <2>2
<1>2. fl[1] = ss[1]
  BY <1>1 DEF ByRecord!Flat
<1> QED
  BY <1>1, <1>2

LEMMA CutsNothing ==
    ASSUME NEW disk, NEW frs \in Nat
    PROVE  CutsUp(<< >>, disk, frs, 0)
<1>1. << >> \in Seq(Chunk) /\ DOMAIN << >> = {} /\ Len(<< >>) = 0
  OBVIOUS
<1>2. frs .. frs + 0 - 1 = {} /\ 1 .. 0 - 1 = {}
  OBVIOUS
<1> QED
  BY <1>1, <1>2 DEF CutsUp, Ascending

(* The precise plan of one extent, for any records U that it maps.          *)
LEMMA PreciselyPlanned ==
    ASSUME NEW ex, IsExtentMap(ex), Len(ex) = 1,
           NEW records \in Nat, NEW U \in SUBSET (0 .. records - 1),
           \A f \in U : PhysicalOffset(ex, f) # Hole
    PROVE  PlanReads(GeneratePreciseReadChunks(ex, U, records), ex, U)
<1> DEFINE w == RecordsPerCluster
           e == ex[1]
           rs == InUseClusterRanges(U, records)
           n == Len(rs)
           s == SplitExtentIntoPreciseChunks(e, rs)
           first == FirstFrs(e)
           place == e.lcn * w
           D == place - first
<1>1. U \in SUBSET Nat
  OBVIOUS
<1>2. SUFFICES ASSUME U # {} PROVE PlanReads(GeneratePreciseReadChunks(ex, U, records), ex, U)
  BY DEF PlanReads
<1>3. DOMAIN ex = 1 .. 1 /\ 1 \in DOMAIN ex
  BY DEF IsExtentMap
<1>4. \A f \in U : first <= f /\ f < EndFrs(e) /\ e.lcn # Hole
  <2> SUFFICES ASSUME NEW f \in U PROVE first <= f /\ f < EndFrs(e) /\ e.lcn # Hole
    OBVIOUS
  <2>1. PICK i \in DOMAIN ex : ex[i].lcn # Hole /\ FirstFrs(ex[i]) <= f /\ f < EndFrs(ex[i])
    BY <1>1, OffsetMapped
  <2>2. i = 1
    BY <1>3
  <2> QED
    BY <2>1, <2>2
<1>5. e.lcn # Hole
  BY <1>2, <1>4
<1>6. first \in Nat /\ EndFrs(e) \in Nat /\ place \in Int /\ D \in Int
  <2>1. first \in Nat /\ EndFrs(e) \in Nat /\ place \in Int
    BY <1>3, ExtentIs
  <2> QED
    BY <2>1
<1>7. GeneratePreciseReadChunks(ex, U, records) = MergePreciseChunks(s)
  <2> DEFINE all == [i \in DOMAIN ex |-> SplitExtentIntoPreciseChunks(ex[i], rs)]
  <2>1. DOMAIN all = 1 .. 1 /\ Len(all) = 1 /\ all[1] = s
    BY <1>3
  <2> HIDE DEF all
  <2>2. FlattenSeq(all) = s
    BY <2>1, FlattenedOne
  <2> QED
    BY <2>2 DEF GeneratePreciseReadChunks, all
<1>8. /\ n \in Nat /\ DOMAIN rs = 1 .. n
      /\ \A i \in 1 .. n : rs[i].vcn \in Nat /\ rs[i].count \in Nat \ {0}
      /\ \A i, j \in 1 .. n : i < j => rs[i].vcn + rs[i].count <= rs[j].vcn
      /\ \A f \in U : \E i \in 1 .. n : rs[i].vcn <= f \div w /\ f \div w < rs[i].vcn + rs[i].count
  BY RangesAre
<1> DEFINE from == [i \in 1 .. n |-> Most(FirstFrs(rs[i]), first)]
           to == [i \in 1 .. n |-> Least(EndFrs(rs[i]), EndFrs(e))]
           size == [i \in 1 .. n |-> IF to[i] <= from[i] THEN 0 ELSE to[i] - from[i]]
           ss == [i \in 1 .. n |->
                    IF to[i] <= from[i] THEN << >>
                    ELSE Cut(place + from[i] - first, from[i], to[i] - from[i], MaxIoRecords)]
<1>9. s = FlattenSeq(ss)
  <2> DEFINE piece(r) ==
               LET a == Most(FirstFrs(r), FirstFrs(e))
                   b == Least(EndFrs(r), EndFrs(e))
               IN IF b <= a THEN << >>
                  ELSE Cut(e.lcn * RecordsPerCluster + a - FirstFrs(e), a, b - a, MaxIoRecords)
             ps == [i \in DOMAIN rs |-> piece(rs[i])]
  <2>1. s = FlattenSeq(ps)
    BY <1>5 DEF SplitExtentIntoPreciseChunks
  <2>2. \A i \in 1 .. n : ps[i] = ss[i]
    BY <1>8
  <2>3. ps = [i \in 1 .. n |-> ps[i]] /\ ss = [i \in 1 .. n |-> ss[i]]
    BY <1>8
  <2> HIDE DEF ps, ss
  <2>4. ps = ss
    BY <2>2, <2>3
  <2> QED
    BY <2>1, <2>4
<1> HIDE DEF rs, n, s, first, place
(* The ranges as extents without a place: they ascend as extents do.        *)
<1> DEFINE ex2 == [i \in 1 .. n |-> [vcn |-> rs[i].vcn, count |-> rs[i].count, lcn |-> Hole]]
<1>10. IsExtentMap(ex2) /\ DOMAIN ex2 = 1 .. n
  <2> DEFINE E == [vcn : Nat, count : Nat \ {0}, lcn : Nat \union {Hole}]
  <2>1. \A i \in 1 .. n : ex2[i] \in E
    BY <1>8
  <2>2. ex2 \in [1 .. n -> E] /\ DOMAIN ex2 = 1 .. n
    BY <2>1
  <2>3. \A i, j \in DOMAIN ex2 : i < j => ex2[i].vcn + ex2[i].count <= ex2[j].vcn
    BY <1>8
  <2>4. ex2 \in Seq(E)
    <3> HIDE DEF ex2, E
    <3> QED
      BY <1>8, <2>2
  <2> QED
    BY <2>2, <2>3, <2>4 DEF IsExtentMap
<1>11. \A i \in 1 .. n : FirstFrs(ex2[i]) = FirstFrs(rs[i]) /\ EndFrs(ex2[i]) = EndFrs(rs[i])
  BY DEF FirstFrs, EndFrs
<1> HIDE DEF ex2
<1>12. ASSUME NEW i \in 1 .. n
       PROVE  FirstFrs(rs[i]) \in Nat /\ EndFrs(rs[i]) \in Nat
  BY <1>10, <1>11, ExtentIs
<1>13. ASSUME NEW i \in 1 .. n, NEW j \in 1 .. n, i < j
       PROVE  EndFrs(rs[i]) <= FirstFrs(rs[j])
  BY <1>10, <1>11, <1>13, ExtentsAscend
<1>14. ASSUME NEW i \in 1 .. n
       PROVE  /\ from[i] \in Nat /\ to[i] \in Nat /\ size[i] \in Nat
              /\ FirstFrs(rs[i]) <= from[i] /\ to[i] <= EndFrs(rs[i])
              /\ size[i] > 0 => from[i] + size[i] = to[i]
              /\ \A f \in Nat : FirstFrs(rs[i]) <= f /\ f < EndFrs(rs[i]) /\ first <= f /\ f < EndFrs(e)
                   => f \in from[i] .. from[i] + size[i] - 1
  <2> DEFINE a == FirstFrs(rs[i])
             b == EndFrs(rs[i])
             z == EndFrs(e)
             p == from[i]
             q == to[i]
             m == size[i]
  <2>1. a \in Nat /\ b \in Nat /\ z \in Nat /\ first \in Nat
    BY <1>6, <1>12
  <2>2. /\ p = IF a > first THEN a ELSE first
        /\ q = IF b < z THEN b ELSE z
        /\ m = IF q <= p THEN 0 ELSE q - p
    BY DEF Most, Least
  <2> HIDE DEF a, b, z, p, q, m
  <2>3. p \in Nat /\ q \in Nat /\ a <= p /\ q <= b
    BY <2>1, <2>2
  <2>4. m \in Nat /\ (m > 0 => p + m = q) /\ (p < q => p + m = q)
    <3>1. CASE q <= p
      <4>1. m = 0
        BY <2>2, <3>1
      <4> QED
        BY <2>3, <3>1, <4>1
    <3>2. CASE ~(q <= p)
      <4>1. m = q - p
        BY <2>2, <3>2
      <4>2. q \in Nat
        BY <2>1, <2>2
      <4> QED
        BY <2>3, <3>2, <4>1, <4>2
    <3> QED
      BY <3>1, <3>2
  <2>5. ASSUME NEW f \in Nat, a <= f, f < b, first <= f, f < z PROVE f \in p .. p + m - 1
    <3>1. p <= f /\ f < q
      BY <2>1, <2>2, <2>5
    <3>2. q \in Nat /\ p < q
      BY <2>1, <2>2, <2>3, <3>1
    <3>3. p + m = q
      BY <2>4, <3>2
    <3> QED
      BY <2>3, <2>4, <3>1, <3>3
  <2> QED
    BY <2>3, <2>4, <2>5 DEF a, b, z, p, q, m
<1>15. from \in [1 .. n -> Nat] /\ size \in [1 .. n -> Nat]
  <2>1. from = [i \in 1 .. n |-> from[i]] /\ size = [i \in 1 .. n |-> size[i]]
    OBVIOUS
  <2> HIDE DEF from, size
  <2> QED
    BY <1>14, <2>1
<1>16. ASSUME NEW i \in 1 .. n PROVE CutsUp(ss[i], D + from[i], from[i], size[i])
  <2> DEFINE p == from[i]
             q == to[i]
  <2>1. p \in Nat /\ q \in Nat
    BY <1>14
  <2>2. CASE q <= p
    <3>1. ss[i] = << >> /\ size[i] = 0
      BY <2>2
    <3>2. CutsUp(<< >>, D + p, p, 0)
      <4> HIDE DEF p, D
      <4> QED
        BY <2>1, CutsNothing
    <3> QED
      BY <3>1, <3>2
  <2>3. CASE ~(q <= p)
    <3>1. ss[i] = Cut(place + p - first, p, q - p, MaxIoRecords) /\ size[i] = q - p
      BY <2>3
    <3> HIDE DEF p, q, ss, size, from, to
    <3>2. D + p = place + p - first
      BY <1>6, <2>1
    <3>3. q - p \in Nat /\ D + p \in Int
      BY <1>6, <2>1, <2>3
    <3>4. MaxIoRecords \in Nat \ {0}
      BY PlanAssumption
    <3>5. CutsUp(Cut(D + p, p, q - p, MaxIoRecords), D + p, p, q - p)
      <4> HIDE DEF D
      <4> QED
        BY <2>1, <3>3, <3>4, CutIs
    <3>6. CutsUp(ss[i], D + p, p, size[i])
      BY <3>1, <3>2, <3>5
    <3> QED
      BY <3>6 DEF p
  <2> QED
    BY <2>2, <2>3
<1>17. ss \in [1 .. n -> Seq(Chunk)]
  <2>1. ss = [i \in 1 .. n |-> ss[i]]
    OBVIOUS
  <2>2. \A i \in 1 .. n : ss[i] \in Seq(Chunk)
    <3> HIDE DEF ss
    <3> QED
      BY <1>16 DEF CutsUp
  <2> HIDE DEF ss
  <2> QED
    BY <2>1, <2>2
<1> HIDE DEF from, to, size, ss, D
<1>18. \A i, j \in 1 .. n : i < j /\ size[i] > 0 => from[i] + size[i] <= from[j]
  <2> SUFFICES ASSUME NEW i \in 1 .. n, NEW j \in 1 .. n, i < j, size[i] > 0
               PROVE  from[i] + size[i] <= from[j]
    OBVIOUS
  <2>1. from[i] + size[i] = to[i] /\ to[i] <= EndFrs(rs[i]) /\ to[i] \in Nat
    BY <1>14
  <2>2. EndFrs(rs[i]) <= FirstFrs(rs[j])
    BY <1>13
  <2>3. FirstFrs(rs[j]) <= from[j] /\ from[j] \in Nat
    BY <1>14
  <2>4. EndFrs(rs[i]) \in Nat /\ FirstFrs(rs[j]) \in Nat
    BY <1>12
  <2>5. to[i] <= from[j]
    BY <2>1, <2>2, <2>3, <2>4
  <2> QED
    BY <2>1, <2>5
<1>19. /\ s \in Seq(Chunk) /\ Ascending(s) /\ Level(s, D)
       /\ \A i \in 1 .. n : \A f \in from[i] .. from[i] + size[i] - 1 :
            \E p \in DOMAIN s : Covers(s[p], f)
  <2>1. D \in Int
    BY <1>6
  <2> QED
    BY <1>8, <1>9, <1>15, <1>16, <1>17, <1>18, <2>1, PiecesAre
<1>20. Reaches(s, U)
  <2> SUFFICES ASSUME NEW f \in U PROVE \E p \in DOMAIN s : Covers(s[p], f)
    BY DEF Reaches
  <2>1. f \in Nat
    BY <1>1
  <2>2. PICK i \in 1 .. n : rs[i].vcn <= f \div w /\ f \div w < rs[i].vcn + rs[i].count
    BY <1>8
  <2>3. i \in FindExtent(ex2, f \div w)
    <3>1. \A j \in 1 .. n : ex2[j].vcn = rs[j].vcn /\ ex2[j].count = rs[j].count
      BY DEF ex2
    <3>2. f \div w \in Int
      <4>1. w \in Nat \ {0}
        BY PlanAssumption
      <4> HIDE DEF w
      <4> QED
        BY <2>1, <4>1, DividedIs
    <3>3. f \div w >= ex2[i].vcn /\ f \div w < ex2[i].vcn + ex2[i].count
      <4> HIDE DEF w
      <4> QED
        BY <1>8, <2>2, <3>1, <3>2
    <3> QED
      BY <1>10, <3>3 DEF FindExtent
  <2>4. FirstFrs(rs[i]) <= f /\ f < EndFrs(rs[i])
    BY <1>10, <1>11, <2>1, <2>3, ClusterOf
  <2>5. f \in from[i] .. from[i] + size[i] - 1
    BY <1>4, <1>14, <2>1, <2>4
  <2> QED
    BY <1>19, <2>5
<1>21. Finds(s, ex, U)
  <2> SUFFICES ASSUME NEW i \in DOMAIN s, NEW f \in U
               PROVE  s[i].disk + f - s[i].frs = PhysicalOffset(ex, f)
    BY DEF Finds
  <2>1. PhysicalOffset(ex, f) = place + f - first
    BY <1>1, <1>3, <1>4, <1>5, OffsetIn DEF place, first
  <2> DEFINE x == s[i].disk
             y == s[i].frs
  <2>2. s[i] \in Chunk
    BY <1>19
  <2>3. x \in Int /\ y \in Int
    BY <2>2, ChunkIs
  <2>4. x - y = place - first
    BY <1>19 DEF Level, D
  <2> HIDE DEF x, y
  <2>5. x + f - y = place + f - first
    <3>1. f \in Int /\ place \in Int /\ first \in Int
      BY <1>1, <1>6
    <3> QED
      BY <2>3, <2>4, <3>1
  <2> QED
    BY <2>1, <2>5 DEF x, y
<1>22. Plans(s, ex, U)
  BY <1>19, <1>20, <1>21, AscendingApart DEF Plans
<1>23. D \in Int
  BY <1>6 DEF D
<1>24. Plans(MergePreciseChunks(s), ex, U)
  BY <1>1, <1>19, <1>22, <1>23, PrecisePlans
<1> QED
  BY <1>1, <1>7, <1>24, PlansReadEach

(* The plan stays the one of the volume until a fallback is tried.          *)
PlanInv ==
  /\ volume \in Volumes
  /\ source \in {"none", "inline"} => ops = InlinePlan(volume)

LEMMA PlanInvariant == Spec => []PlanInv
<1>1. Init => PlanInv
  BY DEF Init, WindowInit, PlanInv
<1>2. PlanInv /\ [Next]_vars => PlanInv'
  <2> SUFFICES ASSUME PlanInv, [Next]_vars PROVE PlanInv'
    OBVIOUS
  <2>1. volume' = volume
    BY DEF Next, WindowOnly, CompleteRead, ReturnIndex, Abandon, FallBackStep, ReadMftFile,
           ReadUnbuffered, FallBackFails, FallBack, vars
  <2>2. source' \in {"none", "inline"} => source \in {"none", "inline"} /\ ops' = ops
    <3>1. CASE WindowOnly
      BY <3>1 DEF WindowOnly, ReaderStep, QueueInitialRead, StartWaiting, AllCompleted,
                  WaitFails, DeadlineExceeded
    <3>2. ASSUME NEW s \in Slots, CompleteRead(s) PROVE source' = source /\ ops' = ops
      BY <3>2 DEF CompleteRead, Complete
    <3>3. CASE ReturnIndex
      BY <3>3 DEF ReturnIndex, winVars
    <3>4. CASE Abandon
      BY <3>4 DEF Abandon
    <3>5. CASE FallBackStep
      BY <3>5 DEF FallBackStep, ReadMftFile, ReadUnbuffered, FallBackFails, FallBack
    <3>6. CASE UNCHANGED vars
      BY <3>6 DEF vars, winVars
    <3> QED
      BY <3>1, <3>2, <3>3, <3>4, <3>5, <3>6 DEF Next
  <2>3. InlinePlan(volume)' = InlinePlan(volume)
    BY <2>1 DEF InlinePlan
  <2> QED
    BY <2>1, <2>2, <2>3 DEF PlanInv
<1> QED
  BY <1>1, <1>2, PTL DEF Spec

(***************************************************************************)
(* chunking.rs: every plan reads each record it is made for once and from  *)
(* where the extents put it: the chunks of an extent map of any length and *)
(* size, merged, sorted and cut into reads, and the precise plan from any  *)
(* set of records in use, whatever the sizes of chunks and reads are.      *)
(***************************************************************************)
THEOREM PlansAlwaysSound == Spec => []PlansAreSound
<1>1. PlanInv => PlansAreSound
  <2> SUFFICES ASSUME PlanInv PROVE PlansAreSound
    OBVIOUS
  <2>1. ChunkPlanIsSound
    BY ChunksPlanned DEF ChunkPlanIsSound, PlanInv
  <2>2. PrecisePlanIsSound
    <3> DEFINE ex == volume.extents
               records == TotalRecords(ex)
               U == {frs \in Mapped(volume) : frs \in Live(volume)}
    <3>1. IsExtentMap(ex) /\ records \in Nat
      BY ReaderAssumption DEF PlanInv
    <3>2. U \in SUBSET (0 .. records - 1) /\ \A f \in U : PhysicalOffset(ex, f) # Hole
      BY DEF Mapped
    <3> HIDE DEF ex, records, U
    <3>3. Len(ex) = 1 => PlanReads(GeneratePreciseReadChunks(ex, U, records), ex, U)
      BY <3>1, <3>2, PreciselyPlanned
    <3> QED
      BY <3>3 DEF PrecisePlanIsSound, ex, records, U
  <2> QED
    BY <2>1, <2>2 DEF PlansAreSound
<1> QED
  BY <1>1, PlanInvariant, PTL

(***************************************************************************)
(* to_index.rs with chunking.rs: where the extents are known, and with     *)
(* them the bitmap or that no two of them are misnumbered, the index that  *)
(* the sliding window delivers shows each record of the volume as the disk *)
(* has it.  Nothing is taken of the plan but that what it reads along      *)
(* holds no segment.                                                       *)
(***************************************************************************)
THEOREM InlineIndexAlwaysTheVolume ==
  Spec => [](/\ source = "inline" /\ volume.extentsKnown
             /\ volume.bitmapKnown \/ ~Misnumbered(volume)
             /\ FindsNoMore(volume, ops)
             => /\ DOMAIN index = Owners(volume) \union
                     UNION {{n.parent : n \in NamesOf(volume, b)} : b \in Owners(volume)}
                /\ \A b \in DOMAIN index : RecordIs(volume, index[b], b))
<1> DEFINE Shown ==
      /\ DOMAIN index = Owners(volume) \union
           UNION {{n.parent : n \in NamesOf(volume, b)} : b \in Owners(volume)}
      /\ \A b \in DOMAIN index : RecordIs(volume, index[b], b)
    Asked == /\ source = "inline" /\ volume.extentsKnown
             /\ volume.bitmapKnown \/ ~Misnumbered(volume)
             /\ FindsNoMore(volume, ops)
<1>1. PlanInv /\ IndexIsTheVolume => (Asked => Shown)
  <2> SUFFICES ASSUME PlanInv, IndexIsTheVolume, Asked PROVE Shown
    OBVIOUS
  <2>1. ops = InlinePlan(volume) /\ volume \in Volumes
    BY DEF PlanInv
  <2>2. PlanReads(ops, volume.extents, Mapped(volume))
    BY <2>1, ChunksPlanned
  <2>3. source = "inline" /\ FindsNoMore(volume, ops)
    OBVIOUS
  <2>4. source = "inline" /\ PlanReads(ops, volume.extents, Mapped(volume)) /\ FindsNoMore(volume, ops)
        => Shown
    BY Zenon DEF IndexIsTheVolume
  <2> HIDE DEF Shown, Asked
  <2> QED
    BY <2>2, <2>3, <2>4
<1> QED
  BY <1>1, PlanInvariant, IndexAlwaysTheVolume, PTL

=============================================================================
