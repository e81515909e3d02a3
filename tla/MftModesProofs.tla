---------------------------- MODULE MftModesProofs ----------------------------
(***************************************************************************)
(* The other ways to read the $MFT, for every plan, window, channel and    *)
(* number of threads: each read that was taken off the plan is in one      *)
(* place, once, and a reader that reports success has parsed all of them.  *)
(***************************************************************************)
EXTENDS MftModes, FiniteSetTheorems, SequenceTheorems, TLAPS

-----------------------------------------------------------------------------
(* The reads before the next one are in one place each: with the kernel,   *)
(* lost, in hand, in the channel or with one thread.  No other read is.    *)
Apart(all, before, ker, lo, ha, ch, gt) ==
  /\ ker \subseteq all /\ lo \subseteq all
  /\ \A k \in all :
       k \in before <=> \/ k \in ker \/ k \in lo \/ k \in ha \/ k \in ch
                       \/ \E t \in Threads : k \in gt[t]
  /\ \A k \in all :
       /\ k \in ker => k \notin lo /\ k \notin ha /\ k \notin ch
                        /\ \A t \in Threads : k \notin gt[t]
       /\ k \in lo  => k \notin ha /\ k \notin ch /\ \A t \in Threads : k \notin gt[t]
       /\ k \in ha  => k \notin ch /\ \A t \in Threads : k \notin gt[t]
       /\ k \in ch  => \A t \in Threads : k \notin gt[t]
       /\ \A s, t \in Threads : k \in gt[s] /\ k \in gt[t] => s = t

NoneTwice(n, s) == \A i, j \in DOMAIN s : s[i] = s[j] /\ s[i] \in 1 .. n => i = j

SetsOf(gt) == [t \in Threads |-> ToSet(gt[t])]

Gets(gt, t, k) == [gt EXCEPT ![t] = Append(@, k)]

(* What the threads got, of the reads in S, and none of them twice.        *)
Lists(n, S, gt) ==
  gt \in [Threads -> Seq(S)] /\ \A t \in Threads : NoneTwice(n, gt[t])

(* n reads in the plan, the next one is x.                                 *)
Placed(n, x, ker, lo, ha, ch, gt) ==
  /\ n \in Nat /\ x \in 1 .. n + 1
  /\ ha = << >> \/ \E k \in (1 .. n) \union {Failed} : ha = <<k>>
  /\ ch \in Seq((1 .. n) \union {Failed, Stop})
  /\ gt \in [Threads -> Seq(1 .. n)]
  /\ Apart(1 .. n, 1 .. x - 1, ker, lo, ToSet(ha), ToSet(ch), SetsOf(gt))
  /\ NoneTwice(n, ch) /\ \A t \in Threads : NoneTwice(n, gt[t])

(* The reads that were taken and are no longer the reader's: the count that *)
(* ends its loop is of these.                                               *)
Settled(x, ker, lo, ha) == (1 .. x - 1) \ (ker \union lo \union ToSet(ha))

Tracked(n, x, ker, lo, ha, ch, gt, c) ==
  /\ Placed(n, x, ker, lo, ha, ch, gt)
  /\ c = Cardinality(Settled(x, ker, lo, ha))

StopsLast(s) == \A i, j \in DOMAIN s : i < j /\ s[i] = Stop => s[j] = Stop

-----------------------------------------------------------------------------
(***************************************************************************)
(* The inductive invariant: where the reads are, and for each kind of mode *)
(* how far its reader, its caller and its workers can have got with them.  *)
(***************************************************************************)
Place == Placed(Len(ops), next, kernel, lost, hand, channel, got)

Counting == completed = Cardinality(Settled(next, kernel, lost, hand))

NoWorkers == worker = [w \in Workers |-> "end"]
NoMessage == hand = << >> /\ channel = << >>

Underway(phases) ==
  \/ reader \in phases /\ outcome = "none"
  \/ reader = "end" /\ outcome \in {"ok", "error"}

TurnInv ==
  /\ NoWorkers /\ NoMessage /\ kernel = {}
  /\ Underway({"read"})
  /\ outcome = "ok" => next = Len(ops) + 1
  /\ mode # "parallel" /\ lost # {} => outcome = "error"

(* A failure is lost, and is on its way to the caller until he has it.     *)
PipeInv ==
  /\ NoWorkers /\ kernel = {}
  /\ reader \in {"read", "send", "end"}
  /\ reader = "send" \/ hand = << >>
  /\ Stop \notin ToSet(channel)
  /\ lost # {} <=> hand = <<Failed>> \/ Failed \in ToSet(channel) \/ outcome = "error"
  /\ reader = "end" => lost # {} \/ next = Len(ops) + 1
  /\ outcome = "ok" => reader = "end" /\ channel = << >>

WindowInv ==
  /\ NoWorkers /\ NoMessage /\ Counting
  /\ Underway({"read", "wait"})
  /\ outcome = "ok" => completed = Len(ops)

(* Stops follow the last read, so that a worker that has ended leaves none *)
(* behind.                                                                 *)
WorkersInv ==
  /\ Counting
  /\ Underway({"read", "wait", "send", "stop", "join"})
  /\ reader = "send" \/ hand = << >>
  /\ hand # <<Failed>> /\ Failed \notin ToSet(channel)
  /\ reader = "send" => hand # << >>
  /\ worker \in [Workers -> {"recv", "end"}]
  /\ reader \in {"read", "wait", "send"} =>
       (\A w \in Workers : worker[w] = "recv") /\ Stop \notin ToSet(channel)
  /\ reader \in {"stop", "join"} \/ outcome = "ok" => completed = Len(ops)
  /\ StopsLast(channel)
  /\ (\E w \in Workers : worker[w] = "end") => ToSet(channel) \subseteq {Stop}
  /\ outcome = "ok" => \A w \in Workers : worker[w] = "end"

PoolInv ==
  /\ NoMessage /\ Counting
  /\ Underway({"read", "join"})
  /\ worker \in [Workers -> {"check", "wait", "end"}]
  /\ reader # "join" => NoWorkers
  /\ reader = "join" =>
       \A w \in Workers : worker[w] = "end" => completed >= Len(ops) \/ lost # {}
  /\ outcome = "ok" => completed >= Len(ops)

ModesInv ==
  /\ mode \in Modes
  /\ Place
  /\ mode \in InTurn => TurnInv
  /\ mode \in Piped  => PipeInv
  /\ mode \in Windowed \ {"workers"} => WindowInv
  /\ mode = "workers" => WorkersInv
  /\ mode \in Pooled => PoolInv

-----------------------------------------------------------------------------
LEMMA ToSetAppend ==
  ASSUME NEW S, NEW s \in Seq(S), NEW k \in S
  PROVE  /\ Append(s, k) \in Seq(S)
         /\ ToSet(Append(s, k)) = ToSet(s) \union {k}
<1>1. /\ Append(s, k) \in Seq(S) /\ Len(Append(s, k)) = Len(s) + 1 /\ Len(s) \in Nat
      /\ DOMAIN s = 1 .. Len(s)
      /\ DOMAIN Append(s, k) = 1 .. Len(s) + 1
      /\ Append(s, k)[Len(s) + 1] = k
      /\ \A i \in 1 .. Len(s) : Append(s, k)[i] = s[i]
  OBVIOUS
<1> QED BY <1>1 DEF ToSet

LEMMA AppendOnce ==
  ASSUME NEW n, NEW S, NEW s \in Seq(S), NEW k \in S, NoneTwice(n, s),
         k \in 1 .. n => k \notin ToSet(s)
  PROVE  NoneTwice(n, Append(s, k))
<1> DEFINE t == Append(s, k)
           l == Len(s)
<1>1. /\ l \in Nat /\ DOMAIN s = 1 .. l /\ DOMAIN t = 1 .. l + 1
      /\ t[l + 1] = k
      /\ \A i \in 1 .. l : t[i] = s[i]
  OBVIOUS
<1>2. \A i \in 1 .. l : k \in 1 .. n => s[i] # k
  BY <1>1 DEF ToSet
<1> HIDE DEF t, l
<1>3. NoneTwice(n, t)
  <2> SUFFICES ASSUME NEW i \in 1 .. l + 1, NEW j \in 1 .. l + 1, t[i] = t[j], t[i] \in 1 .. n
               PROVE  i = j
    BY <1>1 DEF NoneTwice
  <2>1. CASE i \in 1 .. l /\ j \in 1 .. l
    BY <1>1, <2>1 DEF NoneTwice
  <2>2. CASE i \in 1 .. l /\ j = l + 1
    BY <1>1, <1>2, <2>2
  <2>3. CASE i = l + 1 /\ j \in 1 .. l
    BY <1>1, <1>2, <2>3
  <2>4. i \in 1 .. l \/ i = l + 1
    BY <1>1
  <2>5. j \in 1 .. l \/ j = l + 1
    BY <1>1
  <2> QED BY <2>1, <2>2, <2>3, <2>4, <2>5
<1> QED BY <1>3 DEF t

LEMMA TailFacts ==
  ASSUME NEW n, NEW S, NEW s \in Seq(S), s # << >>
  PROVE  /\ Head(s) \in S /\ Tail(s) \in Seq(S)
         /\ ToSet(s) = ToSet(Tail(s)) \union {Head(s)}
         /\ NoneTwice(n, s) => /\ NoneTwice(n, Tail(s))
                               /\ Head(s) \in 1 .. n => Head(s) \notin ToSet(Tail(s))
<1> DEFINE t == Tail(s)
           l == Len(s)
           h == Head(s)
<1>1. /\ h \in S /\ t \in Seq(S) /\ h = s[1]
      /\ l \in Nat /\ l # 0 /\ DOMAIN s = 1 .. l /\ DOMAIN t = 1 .. l - 1
      /\ \A i \in 1 .. l - 1 : t[i] = s[i + 1]
  OBVIOUS
<1>2. ToSet(s) = {s[i] : i \in DOMAIN s} /\ ToSet(t) = {t[i] : i \in DOMAIN t}
  BY DEF ToSet
<1> HIDE DEF t, l, h
<1>3. \A i \in 1 .. l - 1 : i + 1 \in 1 .. l
  BY <1>1
<1>4. \A i \in 1 .. l : i = 1 \/ (i - 1 \in 1 .. l - 1 /\ (i - 1) + 1 = i)
  BY <1>1
<1>5. 1 \in 1 .. l
  BY <1>1
<1>6. \A i \in 1 .. l : i = 1 \/ s[i] = t[i - 1]
  BY <1>1, <1>4
<1>7. ToSet(s) = ToSet(t) \union {h}
  <2>1. ASSUME NEW k \in ToSet(s) PROVE k \in ToSet(t) \union {h}
    <3>1. PICK i \in 1 .. l : k = s[i]
      BY <1>1, <1>2
    <3> QED BY <1>1, <1>2, <1>4, <1>6, <3>1
  <2>2. ASSUME NEW k \in ToSet(t) PROVE k \in ToSet(s)
    <3>1. PICK i \in 1 .. l - 1 : k = t[i]
      BY <1>1, <1>2, <2>2
    <3> QED BY <1>1, <1>2, <1>3, <3>1
  <2>3. h \in ToSet(s)
    BY <1>1, <1>2, <1>5
  <2> QED BY <2>1, <2>2, <2>3
<1>8. ASSUME NoneTwice(n, s) PROVE NoneTwice(n, t)
  <2>1. \A i, j \in 1 .. l : s[i] = s[j] /\ s[i] \in 1 .. n => i = j
    BY <1>1, <1>8 DEF NoneTwice
  <2>2. DOMAIN t = 1 .. l - 1 /\ \A i \in 1 .. l - 1 : t[i] = s[i + 1]
    BY <1>1
  <2>3. ASSUME NEW i \in 1 .. l - 1, NEW j \in 1 .. l - 1, t[i] = t[j], t[i] \in 1 .. n
        PROVE  i = j
    <3>1. s[i + 1] = s[j + 1] /\ s[i + 1] \in 1 .. n
      BY <2>2, <2>3
    <3>2. i + 1 = j + 1
      BY <1>3, <2>1, <3>1
    <3> QED BY <3>2
  <2> QED BY <2>2, <2>3 DEF NoneTwice
<1>9. ASSUME NoneTwice(n, s), h \in 1 .. n, h \in ToSet(t) PROVE FALSE
  <2>1. PICK i \in 1 .. l - 1 : t[i] = h
    BY <1>1, <1>2, <1>9
  <2>2. s[i + 1] = s[1] /\ i + 1 \in 1 .. l
    BY <1>1, <1>3, <2>1
  <2>3. i + 1 = 1
    BY <1>1, <1>5, <1>9, <2>2 DEF NoneTwice
  <2> QED BY <1>1, <2>1, <2>3
<1> QED BY <1>1, <1>7, <1>8, <1>9 DEF t, h

LEMMA ToSetOfOne ==
  ASSUME NEW k PROVE ToSet(<<k>>) = {k}
BY DEF ToSet

LEMMA ToSetOfNone == ToSet(<< >>) = {}
BY DEF ToSet

-----------------------------------------------------------------------------
(* A read goes from the plan to a place, or from one place to another.     *)
LEMMA NextOne ==
  ASSUME NEW n \in Nat, NEW x \in 1 .. n + 1
  PROVE  /\ x \notin 1 .. x - 1
         /\ x <= n => /\ x + 1 \in 1 .. n + 1 /\ x \in 1 .. n
                      /\ 1 .. (x + 1) - 1 = (1 .. x - 1) \union {x}
OBVIOUS

LEMMA PlacedFacts ==
  ASSUME NEW n, NEW x, NEW ker, NEW lo, NEW ha, NEW ch, NEW gt,
         Placed(n, x, ker, lo, ha, ch, gt)
  PROVE  /\ n \in Nat /\ x \in 1 .. n + 1
         /\ ch \in Seq((1 .. n) \union {Failed, Stop}) /\ NoneTwice(n, ch)
         /\ gt \in [Threads -> Seq(1 .. n)] /\ \A t \in Threads : NoneTwice(n, gt[t])
         /\ Apart(1 .. n, 1 .. x - 1, ker, lo, ToSet(ha), ToSet(ch), SetsOf(gt))
BY DEF Placed

LEMMA TakenByKernel ==
  ASSUME NEW n, NEW x, NEW ker, NEW lo, NEW ha, NEW ch, NEW gt,
         Placed(n, x, ker, lo, ha, ch, gt), x <= n
  PROVE  Placed(n, x + 1, ker \union {x}, lo, ha, ch, gt)
<1> DEFINE all == 1 .. n
           before == 1 .. x - 1
           upto == 1 .. (x + 1) - 1
           H == ToSet(ha)
           C == ToSet(ch)
           G == SetsOf(gt)
<1>1. x \in all /\ x + 1 \in 1 .. n + 1 /\ x \notin before /\ upto = before \union {x}
  BY PlacedFacts, NextOne
<1>2. Apart(all, before, ker, lo, H, C, G)
  BY PlacedFacts
<1> HIDE DEF all, before, upto, H, C, G
<1>3. Apart(all, upto, ker \union {x}, lo, H, C, G)
  BY <1>1, <1>2 DEF Apart
<1> QED BY <1>1, <1>3 DEF Placed, all, upto, H, C, G

LEMMA TakenAndLost ==
  ASSUME NEW n, NEW x, NEW ker, NEW lo, NEW ha, NEW ch, NEW gt,
         Placed(n, x, ker, lo, ha, ch, gt), x <= n
  PROVE  Placed(n, x + 1, ker, lo \union {x}, ha, ch, gt)
<1> DEFINE all == 1 .. n
           before == 1 .. x - 1
           upto == 1 .. (x + 1) - 1
           H == ToSet(ha)
           C == ToSet(ch)
           G == SetsOf(gt)
<1>1. x \in all /\ x + 1 \in 1 .. n + 1 /\ x \notin before /\ upto = before \union {x}
  BY PlacedFacts, NextOne
<1>2. Apart(all, before, ker, lo, H, C, G)
  BY PlacedFacts
<1> HIDE DEF all, before, upto, H, C, G
<1>3. Apart(all, upto, ker, lo \union {x}, H, C, G)
  BY <1>1, <1>2 DEF Apart
<1> QED BY <1>1, <1>3 DEF Placed, all, upto, H, C, G

LEMMA TakenInHand ==
  ASSUME NEW n, NEW x, NEW ker, NEW lo, NEW ch, NEW gt,
         Placed(n, x, ker, lo, << >>, ch, gt), x <= n
  PROVE  Placed(n, x + 1, ker, lo, <<x>>, ch, gt)
<1> DEFINE all == 1 .. n
           before == 1 .. x - 1
           upto == 1 .. (x + 1) - 1
           C == ToSet(ch)
           G == SetsOf(gt)
<1>1. x \in all /\ x + 1 \in 1 .. n + 1 /\ x \notin before /\ upto = before \union {x}
  BY PlacedFacts, NextOne
<1>2. Apart(all, before, ker, lo, {}, C, G)
  <2>1. Apart(all, before, ker, lo, ToSet(<< >>), C, G)
    BY PlacedFacts
  <2> QED BY <2>1, ToSetOfNone
<1> HIDE DEF all, before, upto, C, G
<1>3. Apart(all, upto, ker, lo, {x}, C, G)
  BY <1>1, <1>2 DEF Apart
<1>4. Apart(all, upto, ker, lo, ToSet(<<x>>), C, G)
  BY <1>3, ToSetOfOne
<1> QED BY <1>1, <1>4 DEF Placed, all, upto, C, G

(* Of a read that failed only an error is in hand.                         *)
LEMMA FailureInHand ==
  ASSUME NEW n, NEW x, NEW ker, NEW lo, NEW ch, NEW gt,
         Placed(n, x, ker, lo, << >>, ch, gt)
  PROVE  Placed(n, x, ker, lo, <<Failed>>, ch, gt)
<1> DEFINE all == 1 .. n
           before == 1 .. x - 1
           C == ToSet(ch)
           G == SetsOf(gt)
<1>1. Failed \notin all
  BY PlacedFacts DEF Failed
<1>2. Apart(all, before, ker, lo, {}, C, G)
  <2>1. Apart(all, before, ker, lo, ToSet(<< >>), C, G)
    BY PlacedFacts
  <2> QED BY <2>1, ToSetOfNone
<1> HIDE DEF all, before, C, G
<1>3. Apart(all, before, ker, lo, {Failed}, C, G)
  BY <1>1, <1>2 DEF Apart
<1>4. Apart(all, before, ker, lo, ToSet(<<Failed>>), C, G)
  BY <1>3, ToSetOfOne
<1> QED BY <1>4 DEF Placed, all, before, C, G

(* A thread that gets a read: from the plan, or from another place.        *)
LEMMA GotOf ==
  ASSUME NEW n, NEW S, NEW gt, Lists(n, S, gt), NEW t \in Threads, NEW k \in S,
         k \notin SetsOf(gt)[t]
  PROVE  /\ Lists(n, S, Gets(gt, t, k))
         /\ SetsOf(Gets(gt, t, k))[t] = SetsOf(gt)[t] \union {k}
         /\ \A s \in Threads : s # t => SetsOf(Gets(gt, t, k))[s] = SetsOf(gt)[s]
<1> DEFINE g == Gets(gt, t, k)
<1>1. gt[t] \in Seq(S) /\ g[t] = Append(gt[t], k) /\ NoneTwice(n, gt[t])
  BY DEF Gets, Lists
<1>2. \A s \in Threads : s # t => g[s] = gt[s]
  BY DEF Gets, Lists
<1>3. k \notin ToSet(gt[t])
  BY DEF SetsOf
<1>4. g = [s \in Threads |-> g[s]]
  BY DEF Gets, Lists
<1> HIDE DEF g
<1>5. g[t] \in Seq(S) /\ ToSet(g[t]) = ToSet(gt[t]) \union {k}
  BY <1>1, ToSetAppend
<1>6. NoneTwice(n, g[t])
  <2> DEFINE q == gt[t]
  <2>1. q \in Seq(S) /\ NoneTwice(n, q) /\ g[t] = Append(q, k) /\ k \notin ToSet(q)
    BY <1>1, <1>3
  <2> HIDE DEF q
  <2> QED BY <2>1, AppendOnce
<1>7. \A s \in Threads : g[s] \in Seq(S) /\ NoneTwice(n, g[s])
  BY <1>2, <1>5, <1>6 DEF Lists
<1>8. Lists(n, S, g)
  BY <1>4, <1>7 DEF Lists
<1>9. \A s \in Threads : SetsOf(g)[s] = ToSet(g[s]) /\ SetsOf(gt)[s] = ToSet(gt[s])
  BY DEF SetsOf
<1>10. SetsOf(g)[t] = SetsOf(gt)[t] \union {k}
  BY <1>5, <1>9
<1>11. \A s \in Threads : s # t => SetsOf(g)[s] = SetsOf(gt)[s]
  BY <1>2, <1>9
<1> QED BY <1>8, <1>10, <1>11 DEF g

LEMMA TakenByThread ==
  ASSUME NEW n, NEW x, NEW ker, NEW lo, NEW ha, NEW ch, NEW gt, NEW t \in Threads,
         Placed(n, x, ker, lo, ha, ch, gt), x <= n
  PROVE  Placed(n, x + 1, ker, lo, ha, ch, Gets(gt, t, x))
<1> DEFINE g == Gets(gt, t, x)
           all == 1 .. n
           before == 1 .. x - 1
           upto == 1 .. (x + 1) - 1
           H == ToSet(ha)
           C == ToSet(ch)
           G == SetsOf(gt)
           G1 == SetsOf(g)
<1>1. x \in all /\ x + 1 \in 1 .. n + 1 /\ x \notin before /\ upto = before \union {x}
  BY PlacedFacts, NextOne
<1>2. /\ Apart(all, before, ker, lo, H, C, G)
      /\ gt \in [Threads -> Seq(1 .. n)] /\ \A s \in Threads : NoneTwice(n, gt[s])
  BY PlacedFacts
<1>3. x \in 1 .. n
  BY <1>1
<1> HIDE DEF all, before, upto, H, C, G
<1>4. x \notin G[t]
  BY <1>1, <1>2 DEF Apart
<1>5. /\ g \in [Threads -> Seq(1 .. n)]
      /\ \A s \in Threads : NoneTwice(n, g[s])
      /\ G1[t] = G[t] \union {x}
      /\ \A s \in Threads : s # t => G1[s] = G[s]
  <2>1. x \in 1 .. n
    BY <1>2, <1>3, <1>4
  <2>2. x \notin SetsOf(gt)[t]
    BY <1>2, <1>3, <1>4 DEF G
  <2>3. gt \in [Threads -> Seq(1 .. n)] /\ \A s \in Threads : NoneTwice(n, gt[s])
    BY PlacedFacts
  <2> DEFINE S1 == 1 .. n
  <2>4. x \in S1 /\ Lists(n, S1, gt)
    BY <2>1, <2>3 DEF Lists
  <2> HIDE DEF S1
  <2>5. /\ Lists(n, S1, g)
        /\ SetsOf(g)[t] = SetsOf(gt)[t] \union {x}
        /\ \A s \in Threads : s # t => SetsOf(g)[s] = SetsOf(gt)[s]
    BY <2>2, <2>4, GotOf DEF g
  <2> QED BY <2>5 DEF G, Lists, S1
<1> HIDE DEF g, G1
<1>6. Apart(all, upto, ker, lo, H, C, G1)
  BY <1>1, <1>2, <1>5 DEF Apart
<1> QED BY <1>1, <1>5, <1>6 DEF Placed, all, upto, H, C, G1, g

LEMMA KernelLoses ==
  ASSUME NEW n, NEW x, NEW ker, NEW lo, NEW ha, NEW ch, NEW gt, NEW k \in ker,
         Placed(n, x, ker, lo, ha, ch, gt)
  PROVE  Placed(n, x, ker \ {k}, lo \union {k}, ha, ch, gt)
<1> DEFINE all == 1 .. n
           before == 1 .. x - 1
           H == ToSet(ha)
           C == ToSet(ch)
           G == SetsOf(gt)
<1>1. Apart(all, before, ker, lo, H, C, G)
  BY PlacedFacts
<1> HIDE DEF all, before, H, C, G
<1>2. Apart(all, before, ker \ {k}, lo \union {k}, H, C, G)
  BY <1>1 DEF Apart
<1> QED BY <1>2 DEF Placed, all, before, H, C, G

LEMMA KernelHands ==
  ASSUME NEW n, NEW x, NEW ker, NEW lo, NEW ch, NEW gt, NEW k \in ker,
         Placed(n, x, ker, lo, << >>, ch, gt)
  PROVE  Placed(n, x, ker \ {k}, lo, <<k>>, ch, gt) /\ k \in 1 .. n
<1> DEFINE all == 1 .. n
           before == 1 .. x - 1
           C == ToSet(ch)
           G == SetsOf(gt)
<1>1. Apart(all, before, ker, lo, {}, C, G)
  <2>1. Apart(all, before, ker, lo, ToSet(<< >>), C, G)
    BY PlacedFacts
  <2> QED BY <2>1, ToSetOfNone
<1> HIDE DEF all, before, C, G
<1>2. Apart(all, before, ker \ {k}, lo, {k}, C, G) /\ k \in all
  BY <1>1 DEF Apart
<1>3. Apart(all, before, ker \ {k}, lo, ToSet(<<k>>), C, G)
  BY <1>2, ToSetOfOne
<1> QED BY <1>2, <1>3 DEF Placed, all, before, C, G

LEMMA KernelToThread ==
  ASSUME NEW n, NEW x, NEW ker, NEW lo, NEW ha, NEW ch, NEW gt, NEW k \in ker,
         NEW t \in Threads, Placed(n, x, ker, lo, ha, ch, gt)
  PROVE  Placed(n, x, ker \ {k}, lo, ha, ch, Gets(gt, t, k))
<1> DEFINE g == Gets(gt, t, k)
           all == 1 .. n
           before == 1 .. x - 1
           H == ToSet(ha)
           C == ToSet(ch)
           G == SetsOf(gt)
           G1 == SetsOf(g)
<1>1. /\ Apart(all, before, ker, lo, H, C, G)
      /\ gt \in [Threads -> Seq(1 .. n)] /\ \A s \in Threads : NoneTwice(n, gt[s])
  BY PlacedFacts
<1> HIDE DEF all, before, H, C, G
<1>2. k \in all /\ k \notin G[t]
  BY <1>1 DEF Apart
<1>3. /\ g \in [Threads -> Seq(1 .. n)]
      /\ \A s \in Threads : NoneTwice(n, g[s])
      /\ G1[t] = G[t] \union {k}
      /\ \A s \in Threads : s # t => G1[s] = G[s]
  <2>1. k \in 1 .. n
    BY <1>1, <1>2 DEF all
  <2>2. k \notin SetsOf(gt)[t]
    BY <1>1, <1>2 DEF G
  <2>3. gt \in [Threads -> Seq(1 .. n)] /\ \A s \in Threads : NoneTwice(n, gt[s])
    BY PlacedFacts
  <2> DEFINE S1 == 1 .. n
  <2>4. k \in S1 /\ Lists(n, S1, gt)
    BY <2>1, <2>3 DEF Lists
  <2> HIDE DEF S1
  <2>5. /\ Lists(n, S1, g)
        /\ SetsOf(g)[t] = SetsOf(gt)[t] \union {k}
        /\ \A s \in Threads : s # t => SetsOf(g)[s] = SetsOf(gt)[s]
    BY <2>2, <2>4, GotOf DEF g
  <2> QED BY <2>5 DEF G, Lists, S1
<1> HIDE DEF g, G1
<1>4. Apart(all, before, ker \ {k}, lo, H, C, G1)
  BY <1>1, <1>2, <1>3 DEF Apart
<1> QED BY <1>3, <1>4 DEF Placed, all, before, H, C, G1, g

(* A message is sent, or received.                                         *)
LEMMA HandToChannel ==
  ASSUME NEW n, NEW x, NEW ker, NEW lo, NEW ha, NEW ch, NEW gt,
         Placed(n, x, ker, lo, ha, ch, gt)
  PROVE  Placed(n, x, ker, lo, << >>, ch \o ha, gt)
<1> DEFINE S == (1 .. n) \union {Failed, Stop}
           all == 1 .. n
           before == 1 .. x - 1
           C == ToSet(ch)
           G == SetsOf(gt)
<1>1. /\ ch \in Seq(S) /\ NoneTwice(n, ch)
      /\ Apart(all, before, ker, lo, ToSet(ha), C, G)
  BY PlacedFacts
<1>2. CASE ha = << >>
  <2>1. ch \o << >> = ch
    BY <1>1
  <2> QED BY <1>2, <2>1
<1>3. ASSUME NEW k \in (1 .. n) \union {Failed}, ha = <<k>>
      PROVE  Placed(n, x, ker, lo, << >>, ch \o ha, gt)
  <2>1. ch \o ha = Append(ch, k) /\ k \in S
    BY <1>1, <1>3
  <2>2. Apart(all, before, ker, lo, {k}, C, G)
    BY <1>1, <1>3, ToSetOfOne
  <2> HIDE DEF S, before, G
  <2>3. k \in 1 .. n => k \notin ToSet(ch)
    BY <2>2 DEF Apart
  <2>4. ch \o ha \in Seq(S) /\ ToSet(ch \o ha) = C \union {k}
    BY <1>1, <2>1, ToSetAppend
  <2>5. NoneTwice(n, ch \o ha)
    BY <1>1, <2>1, <2>3, AppendOnce
  <2> HIDE DEF all, C
  <2>6. Apart(all, before, ker, lo, {}, C \union {k}, G)
    BY <2>2 DEF Apart
  <2>7. Apart(all, before, ker, lo, ToSet(<< >>), ToSet(ch \o ha), G)
    BY <2>4, <2>6, ToSetOfNone
  <2> QED BY <2>4, <2>5, <2>7 DEF Placed, S, all, before, G
<1>4. ha = << >> \/ \E k \in (1 .. n) \union {Failed} : ha = <<k>>
  BY DEF Placed
<1> QED BY <1>2, <1>3, <1>4

LEMMA StopToChannel ==
  ASSUME NEW n, NEW x, NEW ker, NEW lo, NEW ha, NEW ch, NEW gt,
         Placed(n, x, ker, lo, ha, ch, gt)
  PROVE  Placed(n, x, ker, lo, ha, Append(ch, Stop), gt)
<1> DEFINE S == (1 .. n) \union {Failed, Stop}
           all == 1 .. n
           before == 1 .. x - 1
           H == ToSet(ha)
           C == ToSet(ch)
           G == SetsOf(gt)
<1>1. /\ ch \in Seq(S) /\ NoneTwice(n, ch) /\ n \in Nat
      /\ Apart(all, before, ker, lo, H, C, G)
  BY PlacedFacts
<1>2. Stop \in S /\ Stop \notin all
  BY <1>1 DEF Stop
<1> HIDE DEF S, before, G, H
<1>3. Append(ch, Stop) \in Seq(S) /\ ToSet(Append(ch, Stop)) = C \union {Stop}
  BY <1>1, <1>2, ToSetAppend
<1>4. NoneTwice(n, Append(ch, Stop))
  BY <1>1, <1>2, AppendOnce
<1> HIDE DEF all, C
<1>5. Apart(all, before, ker, lo, H, C \union {Stop}, G)
  BY <1>1, <1>2 DEF Apart
<1>6. Apart(all, before, ker, lo, H, ToSet(Append(ch, Stop)), G)
  BY <1>3, <1>5
<1> QED BY <1>3, <1>4, <1>6 DEF Placed, S, all, before, H, G

LEMMA MessageDropped ==
  ASSUME NEW n, NEW x, NEW ker, NEW lo, NEW ha, NEW ch, NEW gt,
         Placed(n, x, ker, lo, ha, ch, gt), ch # << >>, Head(ch) \in {Failed, Stop}
  PROVE  Placed(n, x, ker, lo, ha, Tail(ch), gt)
<1> DEFINE S == (1 .. n) \union {Failed, Stop}
           all == 1 .. n
           before == 1 .. x - 1
           H == ToSet(ha)
           C == ToSet(ch)
           G == SetsOf(gt)
           k == Head(ch)
<1>1. /\ ch \in Seq(S) /\ NoneTwice(n, ch) /\ n \in Nat
      /\ Apart(all, before, ker, lo, H, C, G)
  BY PlacedFacts
<1>2. /\ Tail(ch) \in Seq(S) /\ C = ToSet(Tail(ch)) \union {k}
      /\ NoneTwice(n, Tail(ch))
  <2> HIDE DEF S
  <2> QED BY <1>1, TailFacts
<1>3. k \notin all
  BY <1>1 DEF Failed, Stop
<1> HIDE DEF S, all, before, H, C, G, k
<1>4. Apart(all, before, ker, lo, H, ToSet(Tail(ch)), G)
  BY <1>1, <1>2, <1>3 DEF Apart
<1> QED BY <1>2, <1>4 DEF Placed, S, all, before, H, G

LEMMA ChannelToThread ==
  ASSUME NEW n, NEW x, NEW ker, NEW lo, NEW ha, NEW ch, NEW gt, NEW t \in Threads,
         Placed(n, x, ker, lo, ha, ch, gt), ch # << >>, Head(ch) \notin {Failed, Stop}
  PROVE  Placed(n, x, ker, lo, ha, Tail(ch), Gets(gt, t, Head(ch)))
<1> DEFINE k == Head(ch)
           g == Gets(gt, t, k)
           S == (1 .. n) \union {Failed, Stop}
           all == 1 .. n
           before == 1 .. x - 1
           H == ToSet(ha)
           C == ToSet(ch)
           D == ToSet(Tail(ch))
           G == SetsOf(gt)
           G1 == SetsOf(g)
<1>1. /\ ch \in Seq(S) /\ NoneTwice(n, ch)
      /\ Apart(all, before, ker, lo, H, C, G)
      /\ gt \in [Threads -> Seq(1 .. n)] /\ \A s \in Threads : NoneTwice(n, gt[s])
  BY PlacedFacts
<1>2. /\ Tail(ch) \in Seq(S) /\ C = D \union {k}
      /\ NoneTwice(n, Tail(ch)) /\ k \in S
      /\ k \in 1 .. n => k \notin D
  <2> HIDE DEF S
  <2> QED BY <1>1, TailFacts
<1>3. k \in 1 .. n
  BY <1>2
<1> HIDE DEF k, all, before, H, C, D, G
<1>4. k \in all /\ k \notin D /\ k \notin G[t]
  BY <1>1, <1>2, <1>3 DEF Apart, all
<1>5. /\ g \in [Threads -> Seq(1 .. n)]
      /\ \A s \in Threads : NoneTwice(n, g[s])
      /\ G1[t] = G[t] \union {k}
      /\ \A s \in Threads : s # t => G1[s] = G[s]
  <2>1. k \in 1 .. n
    BY <1>1, <1>3, <1>4
  <2>2. k \notin SetsOf(gt)[t]
    BY <1>1, <1>3, <1>4 DEF G
  <2>3. gt \in [Threads -> Seq(1 .. n)] /\ \A s \in Threads : NoneTwice(n, gt[s])
    BY PlacedFacts
  <2> DEFINE S1 == 1 .. n
  <2>4. k \in S1 /\ Lists(n, S1, gt)
    BY <2>1, <2>3 DEF Lists
  <2> HIDE DEF S1
  <2>5. /\ Lists(n, S1, g)
        /\ SetsOf(g)[t] = SetsOf(gt)[t] \union {k}
        /\ \A s \in Threads : s # t => SetsOf(g)[s] = SetsOf(gt)[s]
    BY <2>2, <2>4, GotOf DEF g
  <2> QED BY <2>5 DEF G, Lists, S1
<1> HIDE DEF g, G1, S
<1>6. Apart(all, before, ker, lo, H, D, G1)
  BY <1>1, <1>2, <1>4, <1>5 DEF Apart
<1> QED BY <1>2, <1>5, <1>6 DEF Placed, all, before, H, D, G1, g, k, S

-----------------------------------------------------------------------------
(* What is settled when a read changes its place.                          *)
LEMMA CountOf ==
  ASSUME NEW n \in Nat, NEW S, S \subseteq 1 .. n
  PROVE  /\ IsFiniteSet(S) /\ Cardinality(S) \in Nat
         /\ Cardinality(S) >= n => S = 1 .. n
         /\ \A k \in 1 .. n : k \notin S => Cardinality(S \union {k}) = Cardinality(S) + 1
<1> DEFINE all == 1 .. n
<1>1. IsFiniteSet(all) /\ Cardinality(all) = n
  BY FS_Interval
<1>2. S \in SUBSET all
  OBVIOUS
<1> HIDE DEF all
<1>3. IsFiniteSet(S) /\ Cardinality(S) <= n /\ (Cardinality(S) = n => S = all)
  BY <1>1, <1>2, FS_Subset
<1>4. Cardinality(S) \in Nat
  BY <1>3, FS_CardinalityType
<1>5. \A k : k \notin S => Cardinality(S \union {k}) = Cardinality(S) + 1
  BY <1>3, FS_AddElement
<1>6. Cardinality(S) >= n => S = all
  BY <1>3, <1>4
<1> QED BY <1>3, <1>4, <1>5, <1>6 DEF all

LEMMA TrackedFacts ==
  ASSUME NEW n, NEW x, NEW ker, NEW lo, NEW ha, NEW ch, NEW gt, NEW c,
         Tracked(n, x, ker, lo, ha, ch, gt, c)
  PROVE  /\ n \in Nat /\ x \in 1 .. n + 1 /\ c \in Nat
         /\ ker \subseteq 1 .. x - 1 /\ lo \subseteq 1 .. x - 1 /\ ker \intersect lo = {}
         /\ Settled(x, ker, lo, ha) \subseteq 1 .. n
<1>1. n \in Nat /\ x \in 1 .. n + 1
  BY PlacedFacts DEF Tracked
<1>2. Settled(x, ker, lo, ha) \subseteq 1 .. n
  BY <1>1 DEF Settled
<1>3. c \in Nat
  BY <1>1, <1>2, CountOf DEF Tracked
<1>4. Apart(1 .. n, 1 .. x - 1, ker, lo, ToSet(ha), ToSet(ch), SetsOf(gt))
  BY PlacedFacts DEF Tracked
<1>5. ker \subseteq 1 .. x - 1 /\ lo \subseteq 1 .. x - 1 /\ ker \intersect lo = {}
  <2> DEFINE all == 1 .. n
             before == 1 .. x - 1
             H == ToSet(ha)
             C == ToSet(ch)
             G == SetsOf(gt)
  <2>1. Apart(all, before, ker, lo, H, C, G)
    BY <1>4
  <2> HIDE DEF all, before, H, C, G
  <2>2. ker \subseteq before /\ lo \subseteq before /\ ker \intersect lo = {}
    BY <2>1 DEF Apart
  <2> QED BY <2>2 DEF before
<1> QED BY <1>1, <1>2, <1>3, <1>5

LEMMA Queued ==
  ASSUME NEW n, NEW x, NEW ker, NEW lo, NEW ha, NEW ch, NEW gt, NEW c,
         Tracked(n, x, ker, lo, ha, ch, gt, c), x <= n
  PROVE  Tracked(n, x + 1, ker \union {x}, lo, ha, ch, gt, c)
<1>1. n \in Nat /\ x \in 1 .. n + 1 /\ ker \subseteq 1 .. x - 1
  BY TrackedFacts
<1>2. Settled(x + 1, ker \union {x}, lo, ha) = Settled(x, ker, lo, ha)
  <2> DEFINE H == ToSet(ha)
             before == 1 .. x - 1
  <2>1. 1 .. (x + 1) - 1 = before \union {x} /\ x \notin before
    BY <1>1, NextOne
  <2> HIDE DEF H, before
  <2>2. (before \union {x}) \ ((ker \union {x}) \union lo \union H) = before \ (ker \union lo \union H)
    BY <2>1
  <2> QED BY <2>1, <2>2 DEF Settled, H, before
<1> QED BY <1>2, TakenByKernel DEF Tracked

LEMMA Refused ==
  ASSUME NEW n, NEW x, NEW ker, NEW lo, NEW ha, NEW ch, NEW gt, NEW c,
         Tracked(n, x, ker, lo, ha, ch, gt, c), x <= n
  PROVE  Tracked(n, x + 1, ker, lo \union {x}, ha, ch, gt, c)
<1>1. n \in Nat /\ x \in 1 .. n + 1 /\ ker \subseteq 1 .. x - 1
  BY TrackedFacts
<1>2. Settled(x + 1, ker, lo \union {x}, ha) = Settled(x, ker, lo, ha)
  <2> DEFINE H == ToSet(ha)
             before == 1 .. x - 1
  <2>1. 1 .. (x + 1) - 1 = before \union {x} /\ x \notin before
    BY <1>1, NextOne
  <2> HIDE DEF H, before
  <2>2. (before \union {x}) \ (ker \union (lo \union {x}) \union H) = before \ (ker \union lo \union H)
    BY <2>1
  <2> QED BY <2>1, <2>2 DEF Settled, H, before
<1> QED BY <1>2, TakenAndLost DEF Tracked

LEMMA LostByKernel ==
  ASSUME NEW n, NEW x, NEW ker, NEW lo, NEW ha, NEW ch, NEW gt, NEW c, NEW k \in ker,
         Tracked(n, x, ker, lo, ha, ch, gt, c)
  PROVE  Tracked(n, x, ker \ {k}, lo \union {k}, ha, ch, gt, c)
<1>1. Settled(x, ker \ {k}, lo \union {k}, ha) = Settled(x, ker, lo, ha)
  BY DEF Settled
<1> QED BY <1>1, KernelLoses DEF Tracked

LEMMA TakenFromKernel ==
  ASSUME NEW n, NEW x, NEW ker, NEW lo, NEW ch, NEW gt, NEW c, NEW k \in ker,
         Tracked(n, x, ker, lo, << >>, ch, gt, c)
  PROVE  Tracked(n, x, ker \ {k}, lo, <<k>>, ch, gt, c) /\ k \in 1 .. n
<1>1. Settled(x, ker \ {k}, lo, <<k>>) = Settled(x, ker, lo, << >>)
  <2>1. ToSet(<<k>>) = {k} /\ ToSet(<< >>) = {}
    BY ToSetOfOne, ToSetOfNone
  <2> QED BY <2>1 DEF Settled
<1> QED BY <1>1, KernelHands DEF Tracked

LEMMA Completed ==
  ASSUME NEW n, NEW x, NEW ker, NEW lo, NEW ha, NEW ch, NEW gt, NEW c, NEW k \in ker,
         NEW t \in Threads, Tracked(n, x, ker, lo, ha, ch, gt, c), ha = << >>
  PROVE  Tracked(n, x, ker \ {k}, lo, ha, ch, Gets(gt, t, k), c + 1)
<1>1. /\ n \in Nat /\ Settled(x, ker, lo, ha) \subseteq 1 .. n
      /\ ker \subseteq 1 .. x - 1 /\ ker \intersect lo = {} /\ x \in 1 .. n + 1
  BY TrackedFacts
<1>2. k \in 1 .. n /\ k \notin Settled(x, ker, lo, ha)
  BY <1>1 DEF Settled
<1>3. Settled(x, ker \ {k}, lo, ha) = Settled(x, ker, lo, ha) \union {k}
  <2>1. ToSet(ha) = {}
    BY ToSetOfNone
  <2> DEFINE before == 1 .. x - 1
  <2>2. k \in before /\ k \notin lo
    BY <1>1
  <2> HIDE DEF before
  <2> DEFINE H == ToSet(ha)
  <2>3. H = {}
    BY <2>1
  <2> HIDE DEF H
  <2>4. before \ ((ker \ {k}) \union lo \union H) = (before \ (ker \union lo \union H)) \union {k}
    BY <2>2, <2>3
  <2> QED BY <2>4 DEF Settled, before, H
<1>4. Cardinality(Settled(x, ker \ {k}, lo, ha)) = c + 1
  <2> DEFINE S == Settled(x, ker, lo, ha)
  <2>1. c = Cardinality(S) /\ S \subseteq 1 .. n /\ k \notin S
    BY <1>1, <1>2 DEF Tracked
  <2> HIDE DEF S
  <2>2. Cardinality(S \union {k}) = Cardinality(S) + 1
    BY <1>1, <1>2, <2>1, CountOf
  <2> QED BY <1>3, <2>1, <2>2 DEF S
<1> QED BY <1>4, KernelToThread DEF Tracked

LEMMA Sent ==
  ASSUME NEW n, NEW x, NEW ker, NEW lo, NEW ha, NEW ch, NEW gt, NEW c,
         Tracked(n, x, ker, lo, ha, ch, gt, c), ha # << >>, ha # <<Failed>>
  PROVE  Tracked(n, x, ker, lo, << >>, ch \o ha, gt, c + 1)
<1>1. /\ n \in Nat /\ Settled(x, ker, lo, ha) \subseteq 1 .. n
      /\ x \in 1 .. n + 1
  BY TrackedFacts
<1>2. PICK k \in 1 .. n : ha = <<k>>
  BY DEF Tracked, Placed
<1>3. k \in 1 .. x - 1 /\ k \notin ker /\ k \notin lo
  <2> DEFINE all == 1 .. n
             before == 1 .. x - 1
             C == ToSet(ch)
             G == SetsOf(gt)
  <2>1. Apart(all, before, ker, lo, ToSet(ha), C, G)
    BY PlacedFacts DEF Tracked
  <2>2. ToSet(ha) = {k} /\ k \in all
    BY <1>2, ToSetOfOne
  <2> HIDE DEF all, before, C, G
  <2>3. k \in before /\ k \notin ker /\ k \notin lo
    BY <2>1, <2>2 DEF Apart
  <2> QED BY <2>3 DEF before
<1>4. ToSet(ha) = {k} /\ ToSet(<< >>) = {}
  BY <1>2, ToSetOfOne, ToSetOfNone
<1>5. /\ Settled(x, ker, lo, << >>) = Settled(x, ker, lo, ha) \union {k}
      /\ k \notin Settled(x, ker, lo, ha)
  BY <1>3, <1>4 DEF Settled
<1>6. Cardinality(Settled(x, ker, lo, << >>)) = c + 1
  BY <1>1, <1>5, CountOf DEF Tracked
<1> QED BY <1>6, HandToChannel DEF Tracked

(* When as many are settled as the plan has, all are.                      *)
LEMMA AllSettled ==
  ASSUME NEW n, NEW x, NEW ker, NEW lo, NEW ha, NEW ch, NEW gt, NEW c,
         Tracked(n, x, ker, lo, ha, ch, gt, c), c >= n
  PROVE  /\ x = n + 1 /\ ker = {} /\ lo = {} /\ c = n
         /\ \A k \in 1 .. n : k \notin ToSet(ha)
<1>1. /\ n \in Nat /\ x \in 1 .. n + 1 /\ c \in Nat
      /\ ker \subseteq 1 .. x - 1 /\ lo \subseteq 1 .. x - 1
      /\ Settled(x, ker, lo, ha) \subseteq 1 .. n
  BY TrackedFacts
<1>2. Settled(x, ker, lo, ha) = 1 .. n
  BY <1>1, CountOf DEF Tracked
<1>3. \A k \in 1 .. n : k \in 1 .. x - 1 /\ k \notin ker /\ k \notin lo /\ k \notin ToSet(ha)
  BY <1>2 DEF Settled
<1>4. x = n + 1
  <2>1. ASSUME x # n + 1 PROVE FALSE
    <3>1. x \in 1 .. n /\ x \notin 1 .. x - 1
      BY <1>1, <2>1
    <3> QED BY <1>3, <3>1
  <2> QED BY <2>1
<1>5. ker = {} /\ lo = {}
  <2>1. x - 1 = n
    BY <1>1, <1>4
  <2>2. ker \subseteq 1 .. n /\ lo \subseteq 1 .. n
    BY <1>1, <2>1
  <2>3. \A k \in 1 .. n : k \notin ker /\ k \notin lo
    BY <1>3
  <2> DEFINE all == 1 .. n
  <2>4. ker \subseteq all /\ lo \subseteq all /\ \A k \in all : k \notin ker /\ k \notin lo
    BY <2>2, <2>3
  <2> HIDE DEF all
  <2> QED BY <2>4
<1>6. c = n
  BY <1>1, <1>2, FS_Interval DEF Tracked
<1> QED BY <1>3, <1>4, <1>5, <1>6

-----------------------------------------------------------------------------
(* Each mode is of one kind, and takes the steps of its kind.              *)
LEMMA Kinds ==
  /\ Reached \subseteq Modes
  /\ Modes = InTurn \union Piped \union (Windowed \ {"workers"}) \union {"workers"} \union Pooled
  /\ \A m \in InTurn : m \notin Piped /\ m \notin Windowed /\ m \notin Pooled /\ m # "workers"
  /\ \A m \in Piped  : m \notin InTurn /\ m \notin Windowed /\ m \notin Pooled /\ m # "workers"
  /\ \A m \in Windowed : m \notin InTurn /\ m \notin Piped /\ m \notin Pooled
  /\ \A m \in Pooled : m \notin InTurn /\ m \notin Piped /\ m \notin Windowed /\ m # "workers"
  /\ "workers" \in Windowed
<1>1. Asked \subseteq Modes \union {"auto", Inline}
  BY DEF Asked, Modes
<1>2. \A a \in Asked : FrameMode(a) \in Modes /\ IndexMode(a) \in Modes \union {Inline}
  BY <1>1 DEF FrameMode, IndexMode, Modes, InTurn, Windowed
<1>3. Reached \subseteq Modes
  BY <1>2 DEF Reached, Modes, Windowed
<1>4. Modes = InTurn \union Piped \union (Windowed \ {"workers"}) \union {"workers"} \union Pooled
  BY DEF Modes, Windowed
<1> QED BY <1>3, <1>4 DEF InTurn, Piped, Windowed, Pooled

TurnStep  == ReadInTurn \/ AllRead
PipeStep  == FillBuffer \/ Send \/ CloseChannel \/ Receive \/ ReceiveEnd
WindowStep == Prime \/ Primed \/ TakePacket \/ FailedPacket \/ AllCompleted
PoolWorkerStep(w) == DrainCheck(w) \/ DrainPacket(w) \/ DrainTimeout(w)

LEMMA StepOfKind ==
  ASSUME Next
  PROVE  \/ mode \in InTurn /\ TurnStep
         \/ mode \in Piped /\ PipeStep
         \/ mode \in Windowed /\ WindowStep
         \/ mode = "workers" /\ (SendBuffer \/ SendStop \/ DropSender)
         \/ mode = "workers" /\ \E w \in Workers : WorkerReceive(w) \/ WorkerHangUp(w)
         \/ mode \in Pooled /\ (QueueRead \/ StartPool)
         \/ \E w \in Workers : worker[w] \in {"check", "wait"} /\ PoolWorkerStep(w)
         \/ reader = "join" /\ JoinWorkers
<1>1. CASE TurnStep
  BY <1>1 DEF TurnStep, ReadInTurn, AllRead
<1>2. CASE PipeStep
  BY <1>2 DEF PipeStep, FillBuffer, Send, CloseChannel, Receive, ReceiveEnd
<1>3. CASE WindowStep
  BY <1>3 DEF WindowStep, Prime, Primed, TakePacket, FailedPacket, AllCompleted, Waiting
<1>4. CASE SendBuffer \/ SendStop \/ DropSender
  BY <1>4 DEF SendBuffer, SendStop, DropSender
<1>5. CASE QueueRead \/ StartPool
  BY <1>5 DEF QueueRead, StartPool
<1>6. CASE JoinWorkers
  BY <1>6 DEF JoinWorkers
<1>7. ASSUME NEW w \in Workers, WorkerReceive(w) \/ WorkerHangUp(w)
      PROVE  mode = "workers" /\ \E v \in Workers : WorkerReceive(v) \/ WorkerHangUp(v)
  BY <1>7 DEF WorkerReceive, WorkerHangUp
<1>8. ASSUME NEW w \in Workers, PoolWorkerStep(w)
      PROVE  worker[w] \in {"check", "wait"}
  BY <1>8 DEF PoolWorkerStep, DrainCheck, DrainPacket, DrainTimeout
<1> QED BY <1>1, <1>2, <1>3, <1>4, <1>5, <1>6, <1>7, <1>8
     DEF Next, ReaderStep, CallerStep, PacketStep, WorkerStep, TurnStep, PipeStep, WindowStep,
         PoolWorkerStep

LEMMA PlanStays ==
  ASSUME Next PROVE mode' = mode /\ ops' = ops
<1>1. CASE TurnStep
  BY <1>1 DEF TurnStep, ReadInTurn, AllRead
<1>2. CASE PipeStep
  BY <1>2 DEF PipeStep, FillBuffer, Send, CloseChannel, Receive, ReceiveEnd
<1>3. CASE WindowStep
  BY <1>3 DEF WindowStep, Prime, Primed, TakePacket, FailedPacket, AllCompleted
<1>4. CASE SendBuffer \/ SendStop \/ DropSender
  BY <1>4 DEF SendBuffer, SendStop, DropSender
<1>5. CASE QueueRead \/ StartPool
  BY <1>5 DEF QueueRead, StartPool
<1>6. CASE JoinWorkers
  BY <1>6 DEF JoinWorkers
<1>7. ASSUME NEW w \in Workers, WorkerReceive(w) \/ WorkerHangUp(w)
      PROVE  mode' = mode /\ ops' = ops
  BY <1>7 DEF WorkerReceive, WorkerHangUp
<1>8. ASSUME NEW w \in Workers, PoolWorkerStep(w)
      PROVE  mode' = mode /\ ops' = ops
  BY <1>8 DEF PoolWorkerStep, DrainCheck, DrainPacket, DrainTimeout
<1> QED BY <1>1, <1>2, <1>3, <1>4, <1>5, <1>6, <1>7, <1>8, StepOfKind

-----------------------------------------------------------------------------
(* One read after the other.                                               *)
LEMMA TurnStays ==
  ASSUME ModesInv, mode \in InTurn, Next
  PROVE  Place' /\ TurnInv'
<1>1. Place /\ TurnInv /\ mode' = mode /\ ops' = ops
  BY PlanStays DEF ModesInv
<1>2. TurnStep
  BY <1>1, StepOfKind, Kinds DEF TurnInv, NoWorkers, Underway
<1>3. Len(ops) \in Nat /\ next \in 1 .. Len(ops) + 1
  BY <1>1, PlacedFacts DEF Place
<1>4. ASSUME ReadInTurn, Get(Main, next), UNCHANGED <<lost, reader, outcome>>
      PROVE  Place' /\ TurnInv'
  <2>1. Placed(Len(ops), next + 1, kernel, lost, hand, channel, Gets(got, Main, next))
    BY <1>1, <1>3, <1>4, TakenByThread DEF Place, ReadInTurn, MoreToRead, Threads
  <2>2. Place'
    BY <1>1, <1>4, <2>1 DEF Place, ReadInTurn, Get, Gets
  <2>3. TurnInv'
    BY <1>1, <1>4 DEF TurnInv, ReadInTurn, MoreToRead, NoWorkers, NoMessage, Underway
  <2> QED BY <2>2, <2>3
<1>5. ASSUME ReadInTurn, Lose(next), UNCHANGED got,
             (IF mode = "parallel" /\ failures + 1 < AbortAfter
              THEN UNCHANGED <<reader, outcome>> ELSE End("error"))
      PROVE  Place' /\ TurnInv'
  <2>1. Placed(Len(ops), next + 1, kernel, lost \union {next}, hand, channel, got)
    BY <1>1, <1>3, <1>5, TakenAndLost DEF Place, ReadInTurn, MoreToRead
  <2>2. Place'
    BY <1>1, <1>5, <2>1 DEF Place, ReadInTurn, Lose
  <2>3. TurnInv'
    BY <1>1, <1>5 DEF TurnInv, ReadInTurn, MoreToRead, NoWorkers, NoMessage, Underway, End
  <2> QED BY <2>2, <2>3
<1>6. ASSUME AllRead PROVE Place' /\ TurnInv'
  <2>1. Place'
    BY <1>1, <1>6 DEF Place, AllRead
  <2>2. next = Len(ops) + 1
    BY <1>3, <1>6 DEF AllRead, AllTaken
  <2>3. TurnInv'
    BY <1>1, <1>6, <2>2 DEF TurnInv, AllRead, AllTaken, NoWorkers, NoMessage, Underway, End
  <2> QED BY <2>1, <2>3
<1> QED BY <1>2, <1>4, <1>5, <1>6 DEF TurnStep, ReadInTurn

-----------------------------------------------------------------------------
(* What is in the channel after a message is sent, or received.            *)
LEMMA ChannelFacts ==
  ASSUME NEW n, NEW x, NEW ker, NEW lo, NEW ha, NEW ch, NEW gt,
         Placed(n, x, ker, lo, ha, ch, gt)
  PROVE  /\ ToSet(ch \o ha) = ToSet(ch) \union ToSet(ha)
         /\ Stop \notin ToSet(ha)
         /\ Failed \in ToSet(ha) <=> ha = <<Failed>>
         /\ ch # << >> => /\ ToSet(ch) = ToSet(Tail(ch)) \union {Head(ch)}
                          /\ Head(ch) \in (1 .. n) \union {Failed, Stop}
<1> DEFINE S == (1 .. n) \union {Failed, Stop}
<1>1. ch \in Seq(S) /\ n \in Nat
  BY PlacedFacts
<1>2. ha = << >> \/ \E k \in (1 .. n) \union {Failed} : ha = <<k>>
  BY DEF Placed
<1>3. Stop \notin (1 .. n) \union {Failed}
  BY <1>1 DEF Stop, Failed
<1>4. CASE ha = << >>
  <2>1. ch \o ha = ch /\ ToSet(ha) = {} /\ ha # <<Failed>>
    BY <1>1, <1>4, ToSetOfNone
  <2>2. ToSet(ch \o ha) = ToSet(ch) \union ToSet(ha)
    BY <2>1
  <2> QED BY <1>1, <2>1, <2>2, TailFacts
<1>5. ASSUME NEW k \in (1 .. n) \union {Failed}, ha = <<k>>
      PROVE  /\ ToSet(ch \o ha) = ToSet(ch) \union ToSet(ha)
             /\ Stop \notin ToSet(ha)
             /\ Failed \in ToSet(ha) <=> ha = <<Failed>>
  <2>1. ch \o ha = Append(ch, k) /\ k \in S
    BY <1>1, <1>5
  <2>2. ToSet(ha) = {k} /\ (ha = <<Failed>> <=> k = Failed)
    BY <1>5, ToSetOfOne
  <2>3. k # Stop
    BY <1>3
  <2> HIDE DEF S
  <2>4. ToSet(ch \o ha) = ToSet(ch) \union {k}
    BY <1>1, <2>1, ToSetAppend
  <2> QED BY <2>2, <2>3, <2>4
<1>6. ch # << >> => /\ ToSet(ch) = ToSet(Tail(ch)) \union {Head(ch)}
                    /\ Head(ch) \in S
  <2> HIDE DEF S
  <2> QED BY <1>1, TailFacts
<1> QED BY <1>2, <1>4, <1>5, <1>6

(* Through the pipe.                                                       *)
LEMMA PipeStays ==
  ASSUME ModesInv, mode \in Piped, Next
  PROVE  Place' /\ PipeInv'
<1>1. Place /\ PipeInv /\ mode' = mode /\ ops' = ops
  BY PlanStays DEF ModesInv
<1>2. PipeStep
  BY <1>1, StepOfKind, Kinds DEF PipeInv, NoWorkers
<1>3. Len(ops) \in Nat /\ next \in 1 .. Len(ops) + 1
  BY <1>1, PlacedFacts DEF Place
<1>4. /\ ToSet(channel \o hand) = ToSet(channel) \union ToSet(hand)
      /\ Stop \notin ToSet(hand)
      /\ Failed \in ToSet(hand) <=> hand = <<Failed>>
      /\ channel # << >> => /\ ToSet(channel) = ToSet(Tail(channel)) \union {Head(channel)}
                            /\ Head(channel) \in (1 .. Len(ops)) \union {Failed, Stop}
  BY <1>1, ChannelFacts DEF Place
<1>5. ASSUME FillBuffer, hand' = <<next>>, UNCHANGED lost PROVE Place' /\ PipeInv'
  <2>1. hand = << >> /\ next <= Len(ops)
    BY <1>1, <1>5 DEF PipeInv, FillBuffer, MoreToRead
  <2>2. Placed(Len(ops), next + 1, kernel, lost, <<next>>, channel, got)
    BY <1>1, <1>3, <2>1, TakenInHand DEF Place
  <2>3. Place'
    BY <1>1, <1>5, <2>2 DEF Place, FillBuffer
  <2>4. next # Failed
    BY <1>3 DEF Failed
  <2>5. <<next>> # <<Failed>>
    BY <2>4
  <2>6. PipeInv'
    BY <1>1, <1>5, <2>1, <2>5 DEF PipeInv, FillBuffer, MoreToRead, NoWorkers
  <2> QED BY <2>3, <2>6
<1>6. ASSUME FillBuffer, hand' = <<Failed>>, Lose(next) PROVE Place' /\ PipeInv'
  <2>1. hand = << >> /\ next <= Len(ops)
    BY <1>1, <1>6 DEF PipeInv, FillBuffer, MoreToRead
  <2>2. Placed(Len(ops), next + 1, kernel, lost \union {next}, << >>, channel, got)
    BY <1>1, <1>3, <2>1, TakenAndLost DEF Place
  <2>3. Placed(Len(ops), next + 1, kernel, lost \union {next}, <<Failed>>, channel, got)
    BY <2>2, FailureInHand
  <2>4. Place'
    BY <1>1, <1>6, <2>3 DEF Place, FillBuffer, Lose
  <2>5. PipeInv'
    BY <1>1, <1>6 DEF PipeInv, FillBuffer, MoreToRead, NoWorkers, Lose
  <2> QED BY <2>4, <2>5
<1>7. ASSUME Send PROVE Place' /\ PipeInv'
  <2>1. Placed(Len(ops), next, kernel, lost, << >>, channel \o hand, got)
    BY <1>1, HandToChannel DEF Place
  <2>2. Place'
    BY <1>1, <1>7, <2>1 DEF Place, Send
  <2>3. << >> # <<Failed>>
    OBVIOUS
  <2>4. channel' = channel \o hand /\ hand' = << >> /\ ToSet(channel') = ToSet(channel) \union ToSet(hand)
    BY <1>4, <1>7 DEF Send
  <2>5. (outcome = "ok") => FALSE
    BY <1>1, <1>7 DEF PipeInv, Send
  <2>6. PipeInv'
    BY <1>1, <1>4, <1>7, <2>3, <2>4, <2>5 DEF PipeInv, Send, NoWorkers
  <2> QED BY <2>2, <2>6
<1>8. ASSUME CloseChannel PROVE Place' /\ PipeInv'
  <2>1. Place'
    BY <1>1, <1>8 DEF Place, CloseChannel
  <2>2. next = Len(ops) + 1 /\ reader = "read"
    BY <1>3, <1>8 DEF CloseChannel, AllTaken
  <2>3. PipeInv'
    BY <1>1, <1>8, <2>2 DEF PipeInv, CloseChannel, NoWorkers
  <2> QED BY <2>1, <2>3
<1>9. ASSUME Receive, Head(channel) = Failed PROVE Place' /\ PipeInv'
  <2>1. Placed(Len(ops), next, kernel, lost, hand, Tail(channel), got)
    BY <1>1, <1>9, MessageDropped DEF Place, Receive, Receivable
  <2>2. Place'
    BY <1>1, <1>9, <2>1 DEF Place, Receive
  <2>3. channel' = Tail(channel) /\ ToSet(channel) = ToSet(channel') \union {Failed} /\ outcome' = "error"
    BY <1>4, <1>9 DEF Receive, Receivable
  <2>4. PipeInv'
    BY <1>1, <1>9, <2>3 DEF PipeInv, Receive, NoWorkers
  <2> QED BY <2>2, <2>4
<1>10. ASSUME Receive, Head(channel) # Failed PROVE Place' /\ PipeInv'
  <2>1. /\ channel # << >> /\ channel' = Tail(channel)
        /\ ToSet(channel) = ToSet(channel') \union {Head(channel)} /\ outcome' = "none"
        /\ outcome = "none"
    BY <1>4, <1>10 DEF Receive, Receivable
  <2>2. Head(channel) # Stop
    BY <1>1, <2>1 DEF PipeInv
  <2>3. Placed(Len(ops), next, kernel, lost, hand, Tail(channel), Gets(got, Main, Head(channel)))
    BY <1>1, <1>10, <2>1, <2>2, ChannelToThread DEF Place, Threads
  <2>4. Place'
    BY <1>1, <1>10, <2>3 DEF Place, Receive, Get, Gets
  <2>5. PipeInv'
    BY <1>1, <1>10, <2>1 DEF PipeInv, Receive, NoWorkers
  <2> QED BY <2>4, <2>5
<1>11. ASSUME ReceiveEnd PROVE Place' /\ PipeInv'
  <2>1. Place'
    BY <1>1, <1>11 DEF Place, ReceiveEnd
  <2>2. ToSet(channel) = {} /\ hand = << >> /\ << >> # <<Failed>>
    BY <1>1, <1>11, ToSetOfNone DEF PipeInv, ReceiveEnd
  <2>3. PipeInv'
    BY <1>1, <1>11, <2>2 DEF PipeInv, ReceiveEnd, NoWorkers
  <2> QED BY <2>1, <2>3
<1>12. FillBuffer => (hand' = <<next>> /\ UNCHANGED lost) \/ (hand' = <<Failed>> /\ Lose(next))
  BY DEF FillBuffer
<1> QED BY <1>2, <1>5, <1>6, <1>7, <1>8, <1>9, <1>10, <1>11, <1>12 DEF PipeStep

-----------------------------------------------------------------------------
(* The windowed modes: where the reads are, and the count.                 *)
Now == Tracked(Len(ops), next, kernel, lost, hand, channel, got, completed)

LEMMA NowIs == Now <=> Place /\ Counting
BY DEF Now, Tracked, Place, Counting

LEMMA NextQueued ==
  ASSUME NEW flying, NEW ha, NEW ch, NEW gt, NEW c,
         Tracked(Len(ops), next, flying, lost, ha, ch, gt, c), SubmitNext(flying)
  PROVE  Tracked(Len(ops), next', kernel', lost', ha, ch, gt, c)
<1>1. Len(ops) \in Nat /\ next \in 1 .. Len(ops) + 1
  BY TrackedFacts
<1>2. CASE next > Len(ops)
  BY <1>2 DEF SubmitNext
<1>3. CASE next <= Len(ops)
  <2>1. Tracked(Len(ops), next + 1, flying \union {next}, lost, ha, ch, gt, c)
    BY <1>3, Queued
  <2>2. Tracked(Len(ops), next + 1, flying, lost \union {next}, ha, ch, gt, c)
    BY <1>3, Refused
  <2>3. ~(next > Len(ops))
    BY <1>1, <1>3
  <2> QED BY <2>1, <2>2, <2>3 DEF SubmitNext, Lose
<1> QED BY <1>1, <1>2, <1>3

LEMMA WindowTracks ==
  ASSUME Now, mode \in Windowed, WindowStep, reader = "send" \/ hand = << >>, ops' = ops
  PROVE  Now'
<1>1. ASSUME Prime PROVE Now'
  <2>1. next <= Len(ops)
    BY <1>1 DEF Prime, MoreToRead
  <2>2. /\ Tracked(Len(ops), next + 1, kernel \union {next}, lost, hand, channel, got, completed)
        /\ Tracked(Len(ops), next + 1, kernel, lost \union {next}, hand, channel, got, completed)
    BY <2>1, Queued, Refused DEF Now
  <2> QED BY <1>1, <2>2 DEF Prime, Lose, Now
<1>2. ASSUME Primed \/ AllCompleted PROVE Now'
  BY <1>2 DEF Primed, AllCompleted, Now
<1>3. ASSUME TakePacket PROVE Now'
  <2>1. hand = << >>
    BY <1>3 DEF TakePacket, Waiting
  <2>2. PICK k \in kernel :
          IF mode = "workers"
          THEN /\ hand' = <<k>> /\ reader' = "send" /\ kernel' = kernel \ {k}
               /\ UNCHANGED <<next, lost, got, completed>>
          ELSE /\ Get(Main, k) /\ completed' = completed + 1
               /\ SubmitNext(kernel \ {k})
               /\ UNCHANGED <<hand, reader>>
    BY <1>3 DEF TakePacket
  <2>3. channel' = channel
    BY <1>3 DEF TakePacket
  <2>4. CASE mode = "workers"
    <3>1. Tracked(Len(ops), next, kernel \ {k}, lost, <<k>>, channel, got, completed)
      BY <2>1, TakenFromKernel DEF Now
    <3> QED BY <2>2, <2>3, <2>4, <3>1 DEF Now
  <2>5. CASE mode # "workers"
    <3>1. Main \in Threads
      BY DEF Threads
    <3>2. Tracked(Len(ops), next, kernel \ {k}, lost, hand, channel, Gets(got, Main, k), completed + 1)
      BY <2>1, <3>1, Completed DEF Now
    <3>3. Tracked(Len(ops), next', kernel', lost', hand, channel, Gets(got, Main, k), completed + 1)
      BY <2>2, <2>5, <3>2, NextQueued
    <3> QED BY <2>2, <2>3, <2>5, <3>3 DEF Now, Get, Gets
  <2> QED BY <2>4, <2>5
<1>4. ASSUME FailedPacket PROVE Now'
  <2>1. PICK k \in kernel : Lose(k) /\ kernel' = kernel \ {k}
    BY <1>4 DEF FailedPacket
  <2>2. Tracked(Len(ops), next, kernel \ {k}, lost \union {k}, hand, channel, got, completed)
    BY LostByKernel DEF Now
  <2> QED BY <1>4, <2>1, <2>2 DEF FailedPacket, Lose, Now
<1> QED BY <1>1, <1>2, <1>3, <1>4 DEF WindowStep

LEMMA WindowStays ==
  ASSUME ModesInv, mode \in Windowed \ {"workers"}, Next
  PROVE  Place' /\ WindowInv'
<1>1. Place /\ WindowInv /\ mode' = mode /\ ops' = ops
  BY PlanStays DEF ModesInv
<1>2. WindowStep
  BY <1>1, StepOfKind, Kinds DEF WindowInv, NoWorkers, Underway
<1>3. Now'
  BY <1>1, <1>2, NowIs, WindowTracks DEF WindowInv, NoMessage
<1>4. Place' /\ Counting'
  BY <1>3 DEF Now, Tracked, Place, Counting
<1>5. NoWorkers' /\ NoMessage' /\ Underway({"read", "wait"})'
      /\ (outcome' = "ok" => completed' = Len(ops'))
  <2>1. CASE Prime
    BY <1>1, <2>1 DEF WindowInv, Prime, MoreToRead, NoWorkers, NoMessage, Underway, End
  <2>2. CASE Primed
    BY <1>1, <2>2 DEF WindowInv, Primed, NoWorkers, NoMessage, Underway
  <2>3. CASE TakePacket
    BY <1>1, <2>3 DEF WindowInv, TakePacket, Waiting, NoWorkers, NoMessage, Underway
  <2>4. CASE FailedPacket
    BY <1>1, <2>4 DEF WindowInv, FailedPacket, Waiting, NoWorkers, NoMessage, Underway
  <2>5. CASE AllCompleted
    BY <1>1, <2>5 DEF WindowInv, AllCompleted, LoopEnds, NoWorkers, NoMessage, Underway, End
  <2> QED BY <1>2, <2>1, <2>2, <2>3, <2>4, <2>5 DEF WindowStep
<1> QED BY <1>4, <1>5 DEF WindowInv

-----------------------------------------------------------------------------
(* A Stop at the end, or taken from the front.                             *)
LEMMA StopsLastFacts ==
  ASSUME NEW S, NEW s \in Seq(S), Stop \in S, StopsLast(s)
  PROVE  /\ StopsLast(Append(s, Stop))
         /\ s # << >> => /\ StopsLast(Tail(s))
                         /\ Head(s) = Stop => ToSet(Tail(s)) \subseteq {Stop}
<1> DEFINE t == Append(s, Stop)
           u == Tail(s)
           l == Len(s)
           h == Head(s)
<1>1. /\ l \in Nat /\ DOMAIN s = 1 .. l /\ DOMAIN t = 1 .. l + 1
      /\ t[l + 1] = Stop
      /\ \A i \in 1 .. l : t[i] = s[i]
  OBVIOUS
<1>2. s # << >> => /\ l # 0 /\ DOMAIN u = 1 .. l - 1 /\ h = s[1]
                   /\ \A i \in 1 .. l - 1 : u[i] = s[i + 1]
  OBVIOUS
<1>3. ToSet(u) = {u[i] : i \in DOMAIN u}
  BY DEF ToSet
<1> HIDE DEF t, u, l, h
<1>4. \A i \in 1 .. l - 1 : i + 1 \in 1 .. l
  BY <1>1
<1>5. \A i, j \in 1 .. l : i < j /\ s[i] = Stop => s[j] = Stop
  BY <1>1 DEF StopsLast
<1>6. StopsLast(t)
  <2> SUFFICES ASSUME NEW i \in 1 .. l + 1, NEW j \in 1 .. l + 1, i < j, t[i] = Stop
               PROVE  t[j] = Stop
    BY <1>1 DEF StopsLast
  <2>1. j = l + 1 \/ (i \in 1 .. l /\ j \in 1 .. l)
    BY <1>1
  <2> QED BY <1>1, <2>1 DEF StopsLast
<1>7. ASSUME s # << >> PROVE StopsLast(u)
  <2> SUFFICES ASSUME NEW i \in 1 .. l - 1, NEW j \in 1 .. l - 1, i < j, u[i] = Stop
               PROVE  u[j] = Stop
    BY <1>2, <1>7 DEF StopsLast
  <2>1. i + 1 \in 1 .. l /\ j + 1 \in 1 .. l /\ i + 1 < j + 1
    BY <1>1
  <2>2. u[i] = s[i + 1] /\ u[j] = s[j + 1]
    BY <1>2, <1>7
  <2> QED BY <1>5, <2>1, <2>2
<1>8. ASSUME s # << >>, h = Stop, NEW k \in ToSet(u) PROVE k = Stop
  <2>1. PICK j \in 1 .. l - 1 : k = u[j]
    BY <1>2, <1>3, <1>8
  <2>2. 1 \in 1 .. l /\ j + 1 \in 1 .. l /\ 1 < j + 1
    BY <1>1
  <2>3. s[1] = Stop /\ k = s[j + 1]
    BY <1>2, <1>8, <2>1
  <2> QED BY <1>5, <2>2, <2>3
<1> QED BY <1>6, <1>7, <1>8 DEF t, u, h

LEMMA NoStopsLast ==
  ASSUME NEW s, Stop \notin ToSet(s)
  PROVE  StopsLast(s)
BY DEF StopsLast, ToSet

(* What the mode's reader does.                                            *)
LEMMA WorkersWindow ==
  ASSUME ModesInv, mode = "workers", WindowStep, mode' = mode, ops' = ops
  PROVE  Place' /\ WorkersInv'
<1>1. Place /\ WorkersInv /\ mode \in Windowed
  BY Kinds DEF ModesInv
<1>2. Now'
  BY <1>1, NowIs, WindowTracks DEF WorkersInv
<1>3. Place' /\ Counting'
  BY <1>2 DEF Now, Tracked, Place, Counting
<1>4. ASSUME Prime PROVE WorkersInv'
  BY <1>1, <1>3, <1>4 DEF WorkersInv, Prime, MoreToRead, Underway, End
<1>5. ASSUME Primed PROVE WorkersInv'
  BY <1>1, <1>3, <1>5 DEF WorkersInv, Primed, Underway
<1>6. ASSUME TakePacket PROVE WorkersInv'
  <2>1. PICK k \in kernel : hand' = <<k>> /\ reader' = "send" /\ UNCHANGED <<got, completed>>
    BY <1>6 DEF TakePacket
  <2>2. k # Failed
    BY <1>1, NowIs, TrackedFacts DEF Now, Failed, WorkersInv
  <2>3. hand' # <<Failed>> /\ hand' # << >>
    BY <2>1, <2>2
  <2> QED BY <1>1, <1>3, <1>6, <2>1, <2>3 DEF WorkersInv, TakePacket, Waiting, Underway
<1>7. ASSUME FailedPacket PROVE WorkersInv'
  BY <1>1, <1>3, <1>7 DEF WorkersInv, FailedPacket, Waiting, Underway
<1>8. ASSUME AllCompleted PROVE WorkersInv'
  BY <1>1, <1>3, <1>8 DEF WorkersInv, AllCompleted, LoopEnds, Underway
<1> QED BY <1>3, <1>4, <1>5, <1>6, <1>7, <1>8 DEF WindowStep

LEMMA WorkersSend ==
  ASSUME ModesInv, mode = "workers", SendBuffer \/ SendStop \/ DropSender \/ JoinWorkers,
         mode' = mode, ops' = ops
  PROVE  Place' /\ WorkersInv'
<1>1. Place /\ WorkersInv /\ Now /\ mode \notin Pooled
  BY NowIs, Kinds DEF ModesInv, WorkersInv
<1>2. /\ ToSet(channel \o hand) = ToSet(channel) \union ToSet(hand)
      /\ Stop \notin ToSet(hand)
      /\ Failed \in ToSet(hand) <=> hand = <<Failed>>
  BY <1>1, ChannelFacts DEF Place
<1>3. ASSUME SendBuffer PROVE Place' /\ WorkersInv'
  <2>1. hand # << >> /\ hand # <<Failed>>
    BY <1>1, <1>3 DEF SendBuffer, WorkersInv
  <2>2. Tracked(Len(ops), next, kernel, lost, << >>, channel \o hand, got, completed + 1)
    BY <1>1, <2>1, Sent DEF Now
  <2>3. Tracked(Len(ops), next', kernel', lost', << >>, channel \o hand, got, completed + 1)
    BY <1>3, <2>2, NextQueued DEF SendBuffer
  <2>4. Now'
    BY <1>3, <2>3 DEF SendBuffer, Now
  <2>5. Place' /\ Counting'
    BY <2>4 DEF Now, Tracked, Place, Counting
  <2>6. /\ hand' = << >> /\ channel' = channel \o hand
        /\ Stop \notin ToSet(channel') /\ Failed \notin ToSet(channel')
    BY <1>1, <1>2, <1>3 DEF SendBuffer, WorkersInv
  <2>7. StopsLast(channel') /\ << >> # <<Failed>>
    BY <2>6, NoStopsLast
  <2> QED BY <1>1, <1>3, <2>5, <2>6, <2>7 DEF WorkersInv, SendBuffer, Underway
<1>4. ASSUME SendStop PROVE Place' /\ WorkersInv'
  <2> DEFINE S == (1 .. Len(ops)) \union {Failed, Stop}
  <2>1. Placed(Len(ops), next, kernel, lost, hand, Append(channel, Stop), got)
    BY <1>1, StopToChannel DEF Place
  <2>2. Place'
    BY <1>4, <2>1 DEF Place, SendStop
  <2>3. channel \in Seq(S) /\ Stop \in S
    BY <1>1, PlacedFacts DEF Place
  <2> HIDE DEF S
  <2>4. ToSet(channel') = ToSet(channel) \union {Stop} /\ Stop # Failed
    BY <1>4, <2>3, ToSetAppend DEF SendStop, Stop, Failed
  <2>5. StopsLast(channel')
    BY <1>1, <1>4, <2>3, StopsLastFacts DEF SendStop, WorkersInv
  <2>6. Counting'
    BY <1>1, <1>4 DEF WorkersInv, SendStop, Counting
  <2> QED BY <1>1, <1>4, <2>2, <2>4, <2>5, <2>6 DEF WorkersInv, SendStop, Underway
<1>5. ASSUME DropSender PROVE Place' /\ WorkersInv'
  <2>1. Place' /\ Counting'
    BY <1>1, <1>5 DEF WorkersInv, DropSender, Counting, Place
  <2> QED BY <1>1, <1>5, <2>1 DEF WorkersInv, DropSender, Underway
<1>6. ASSUME JoinWorkers PROVE Place' /\ WorkersInv'
  <2>1. Place' /\ Counting'
    BY <1>1, <1>6 DEF WorkersInv, JoinWorkers, Counting, Place
  <2> QED BY <1>1, <1>6, <2>1 DEF WorkersInv, JoinWorkers, Underway, End
<1> QED BY <1>3, <1>4, <1>5, <1>6

(* What a worker does.                                                     *)
LEMMA WorkersReceive ==
  ASSUME ModesInv, mode = "workers", NEW w \in Workers, WorkerReceive(w) \/ WorkerHangUp(w),
         mode' = mode, ops' = ops
  PROVE  Place' /\ WorkersInv'
<1> DEFINE S == (1 .. Len(ops)) \union {Failed, Stop}
<1>1. Place /\ WorkersInv
  BY DEF ModesInv
<1>2. channel \in Seq(S) /\ Stop \in S
  BY <1>1, PlacedFacts DEF Place
<1>3. channel # << >> => /\ ToSet(channel) = ToSet(Tail(channel)) \union {Head(channel)}
                         /\ Head(channel) \in S
  BY <1>1, ChannelFacts DEF Place
<1> HIDE DEF S
<1>4. channel # << >> => /\ StopsLast(Tail(channel))
                         /\ Head(channel) = Stop => ToSet(Tail(channel)) \subseteq {Stop}
  BY <1>1, <1>2, StopsLastFacts DEF WorkersInv
<1>5. ASSUME WorkerReceive(w), Head(channel) = Stop PROVE Place' /\ WorkersInv'
  <2>1. /\ channel # << >> /\ channel' = Tail(channel) /\ Head(channel) = Stop
        /\ worker' = [worker EXCEPT ![w] = "end"] /\ UNCHANGED got
    BY <1>5 DEF WorkerReceive
  <2>2. Placed(Len(ops), next, kernel, lost, hand, Tail(channel), got)
    BY <1>1, <2>1, MessageDropped DEF Place
  <2>3. Place'
    BY <1>5, <2>1, <2>2 DEF Place, WorkerReceive
  <2>4. Counting'
    BY <1>1, <1>5 DEF WorkersInv, WorkerReceive, Counting
  <2>5. Stop \in ToSet(channel)
    BY <1>3, <2>1
  <2>6. \A v \in Workers : worker[v] = "end" => worker'[v] = "end"
    BY <1>1, <2>1 DEF WorkersInv
  <2>7. worker' \in [Workers -> {"recv", "end"}]
    BY <1>1, <2>1 DEF WorkersInv
  <2> QED BY <1>1, <1>3, <1>4, <1>5, <2>1, <2>3, <2>4, <2>5, <2>6, <2>7
       DEF WorkersInv, WorkerReceive, Underway
<1>6. ASSUME WorkerReceive(w), Head(channel) # Stop PROVE Place' /\ WorkersInv'
  <2>1. /\ channel # << >> /\ channel' = Tail(channel) /\ Head(channel) # Stop
        /\ Get(w, Head(channel)) /\ UNCHANGED worker
    BY <1>6 DEF WorkerReceive
  <2>2. Head(channel) # Failed /\ w \in Threads
    BY <1>1, <1>3, <2>1 DEF WorkersInv, Threads
  <2>3. Placed(Len(ops), next, kernel, lost, hand, Tail(channel), Gets(got, w, Head(channel)))
    BY <1>1, <2>1, <2>2, ChannelToThread DEF Place
  <2>4. Place'
    BY <1>6, <2>1, <2>3 DEF Place, WorkerReceive, Get, Gets
  <2>5. Counting'
    BY <1>1, <1>6 DEF WorkersInv, WorkerReceive, Counting
  <2> QED BY <1>1, <1>3, <1>4, <1>6, <2>1, <2>4, <2>5 DEF WorkersInv, WorkerReceive, Underway
<1>7. ASSUME WorkerHangUp(w) PROVE Place' /\ WorkersInv'
  <2>1. Place' /\ Counting'
    BY <1>1, <1>7 DEF WorkersInv, WorkerHangUp, Counting, Place
  <2>2. ToSet(channel) = {}
    BY <1>7, ToSetOfNone DEF WorkerHangUp
  <2>3. \A v \in Workers : worker[v] = "end" => worker'[v] = "end"
    BY <1>1, <1>7 DEF WorkersInv, WorkerHangUp
  <2>4. worker' \in [Workers -> {"recv", "end"}]
    BY <1>1, <1>7 DEF WorkersInv, WorkerHangUp
  <2> QED BY <1>1, <1>7, <2>1, <2>2, <2>3, <2>4 DEF WorkersInv, WorkerHangUp, Underway
<1> QED BY <1>5, <1>6, <1>7

LEMMA WorkersStay ==
  ASSUME ModesInv, mode = "workers", Next
  PROVE  Place' /\ WorkersInv'
<1>1. mode' = mode /\ ops' = ops /\ WorkersInv
  BY PlanStays DEF ModesInv
<1>2. \A w \in Workers : worker[w] \notin {"check", "wait"}
  BY <1>1 DEF WorkersInv
<1>3. CASE WindowStep
  BY <1>1, <1>3, WorkersWindow
<1>4. CASE SendBuffer \/ SendStop \/ DropSender \/ JoinWorkers
  BY <1>1, <1>4, WorkersSend
<1>5. CASE \E w \in Workers : WorkerReceive(w) \/ WorkerHangUp(w)
  BY <1>1, <1>5, WorkersReceive
<1> QED BY <1>2, <1>3, <1>4, <1>5, StepOfKind, Kinds

-----------------------------------------------------------------------------
(* The pool that drains the completion port.                               *)
LEMMA PoolQueues ==
  ASSUME ModesInv, mode \in Pooled, QueueRead \/ StartPool \/ JoinWorkers,
         mode' = mode, ops' = ops
  PROVE  Place' /\ PoolInv'
<1>1. Place /\ PoolInv /\ Now
  BY NowIs DEF ModesInv, PoolInv
<1>2. ASSUME QueueRead PROVE Place' /\ PoolInv'
  <2>1. next <= Len(ops)
    BY <1>2 DEF QueueRead, MoreToRead
  <2>2. /\ Tracked(Len(ops), next + 1, kernel \union {next}, lost, hand, channel, got, completed)
        /\ Tracked(Len(ops), next + 1, kernel, lost \union {next}, hand, channel, got, completed)
    BY <1>1, <2>1, Queued, Refused DEF Now
  <2>3. Now'
    BY <1>2, <2>2 DEF QueueRead, Lose, Now
  <2>4. Place' /\ Counting'
    BY <2>3 DEF Now, Tracked, Place, Counting
  <2> QED BY <1>1, <1>2, <2>4
       DEF PoolInv, QueueRead, MoreToRead, NoMessage, NoWorkers, Underway, End
<1>3. ASSUME StartPool PROVE Place' /\ PoolInv'
  <2>1. Place' /\ Counting'
    BY <1>1, <1>3 DEF PoolInv, StartPool, Counting, Place
  <2>2. worker' = [w \in Workers |-> "check"]
    BY <1>3 DEF StartPool
  <2>3. worker' \in [Workers -> {"check", "wait", "end"}] /\ \A w \in Workers : worker'[w] # "end"
    BY <2>2
  <2> QED BY <1>1, <1>3, <2>1, <2>3 DEF PoolInv, StartPool, AllTaken, NoMessage, Underway
<1>4. ASSUME JoinWorkers PROVE Place' /\ PoolInv'
  <2>1. Place' /\ Counting'
    BY <1>1, <1>4 DEF PoolInv, JoinWorkers, Counting, Place
  <2>2. NoWorkers'
    BY <1>1, <1>4 DEF PoolInv, JoinWorkers, NoWorkers
  <2>3. 1 \in Workers
    BY ModesAssumption DEF Workers
  <2>4. completed >= Len(ops) \/ lost # {}
    BY <1>1, <1>4, <2>3 DEF PoolInv, JoinWorkers
  <2> QED BY <1>1, <1>4, <2>1, <2>2, <2>4
       DEF PoolInv, JoinWorkers, ErrorFlag, NoMessage, Underway, End
<1> QED BY <1>2, <1>3, <1>4

LEMMA PoolDrains ==
  ASSUME ModesInv, mode \in Pooled, NEW w \in Workers, worker[w] \in {"check", "wait"},
         PoolWorkerStep(w), mode' = mode, ops' = ops
  PROVE  Place' /\ PoolInv'
<1>1. Place /\ PoolInv /\ Now
  BY NowIs DEF ModesInv, PoolInv
<1>2. reader = "join" /\ outcome = "none"
  BY <1>1 DEF PoolInv, NoWorkers, Underway
<1>3. ASSUME DrainCheck(w) PROVE Place' /\ PoolInv'
  <2>1. Place' /\ Counting'
    BY <1>1, <1>3 DEF PoolInv, DrainCheck, Counting, Place
  <2>2. \A v \in Workers : v # w => worker'[v] = worker[v]
    BY <1>1, <1>3 DEF PoolInv, DrainCheck
  <2>3. worker'[w] = IF completed >= Len(ops) \/ ErrorFlag THEN "end" ELSE "wait"
    BY <1>1, <1>3 DEF PoolInv, DrainCheck
  <2>4. worker' \in [Workers -> {"check", "wait", "end"}]
    BY <1>1, <1>3 DEF PoolInv, DrainCheck
  <2> QED BY <1>1, <1>2, <1>3, <2>1, <2>2, <2>3, <2>4
       DEF PoolInv, DrainCheck, ErrorFlag, NoMessage, Underway
<1>4. ASSUME DrainTimeout(w) PROVE Place' /\ PoolInv'
  <2>1. Place' /\ Counting'
    BY <1>1, <1>4 DEF PoolInv, DrainTimeout, Counting, Place
  <2>2. \A v \in Workers : worker'[v] = "end" => worker[v] = "end"
    BY <1>1, <1>4 DEF PoolInv, DrainTimeout
  <2>3. worker' \in [Workers -> {"check", "wait", "end"}]
    BY <1>1, <1>4 DEF PoolInv, DrainTimeout
  <2> QED BY <1>1, <1>2, <1>4, <2>1, <2>2, <2>3 DEF PoolInv, DrainTimeout, NoMessage, Underway
<1>5. ASSUME NEW k \in kernel, DrainPacket(w), kernel' = kernel \ {k},
             Get(Main, k), completed' = completed + 1, UNCHANGED lost,
             worker' = [worker EXCEPT ![w] =
                          IF completed + 1 >= Len(ops) THEN "end" ELSE "check"]
      PROVE  Place' /\ PoolInv'
  <2>1. Main \in Threads /\ hand = << >>
    BY <1>1 DEF Threads, PoolInv, NoMessage
  <2>2. Tracked(Len(ops), next, kernel \ {k}, lost, hand, channel, Gets(got, Main, k), completed + 1)
    BY <1>1, <2>1, Completed DEF Now
  <2>3. Now'
    BY <1>5, <2>2 DEF DrainPacket, Now, Get, Gets
  <2>4. Place' /\ Counting'
    BY <2>3 DEF Now, Tracked, Place, Counting
  <2>5. \A v \in Workers : v # w => worker'[v] = worker[v]
    BY <1>1, <1>5 DEF PoolInv
  <2>6. worker'[w] = IF completed' >= Len(ops) THEN "end" ELSE "check"
    BY <1>1, <1>5 DEF PoolInv
  <2>7. worker' \in [Workers -> {"check", "wait", "end"}]
    BY <1>1, <1>5 DEF PoolInv
  <2>8. completed >= Len(ops) => completed' >= Len(ops)
    BY <1>1, <1>5, TrackedFacts DEF Now
  <2> QED BY <1>1, <1>2, <1>5, <2>4, <2>5, <2>6, <2>7, <2>8
       DEF PoolInv, DrainPacket, NoMessage, Underway
<1>6. ASSUME NEW k \in kernel, DrainPacket(w), kernel' = kernel \ {k}, Lose(k),
             worker' = [worker EXCEPT ![w] = "end"], UNCHANGED <<got, completed>>
      PROVE  Place' /\ PoolInv'
  <2>1. Tracked(Len(ops), next, kernel \ {k}, lost \union {k}, hand, channel, got, completed)
    BY <1>1, LostByKernel DEF Now
  <2>2. Now'
    BY <1>6, <2>1 DEF DrainPacket, Now, Lose
  <2>3. Place' /\ Counting'
    BY <2>2 DEF Now, Tracked, Place, Counting
  <2>4. worker' \in [Workers -> {"check", "wait", "end"}]
    BY <1>1, <1>6 DEF PoolInv
  <2>5. lost' # {}
    BY <1>6 DEF Lose
  <2> QED BY <1>1, <1>2, <1>6, <2>3, <2>4, <2>5 DEF PoolInv, DrainPacket, NoMessage, Underway
<1>7. ASSUME DrainPacket(w) PROVE Place' /\ PoolInv'
  BY <1>5, <1>6, <1>7 DEF DrainPacket
<1> QED BY <1>3, <1>4, <1>7 DEF PoolWorkerStep

LEMMA PoolStays ==
  ASSUME ModesInv, mode \in Pooled, Next
  PROVE  Place' /\ PoolInv'
<1>1. mode' = mode /\ ops' = ops
  BY PlanStays
<1>2. CASE QueueRead \/ StartPool \/ JoinWorkers
  BY <1>1, <1>2, PoolQueues
<1>3. CASE \E w \in Workers : worker[w] \in {"check", "wait"} /\ PoolWorkerStep(w)
  BY <1>1, <1>3, PoolDrains
<1> QED BY <1>2, <1>3, StepOfKind, Kinds

-----------------------------------------------------------------------------
LEMMA ModesInit ==
  ASSUME Init PROVE ModesInv
<1>1. mode \in Modes /\ Len(ops) \in Nat
  BY Kinds, PlansAreLists DEF Init
<1>2. Placed(Len(ops), 1, {}, {}, << >>, << >>, [t \in Threads |-> << >>])
  <2> DEFINE n == Len(ops)
             G == SetsOf([t \in Threads |-> << >>])
             all == 1 .. n
  <2>1. \A t \in Threads : G[t] = {}
    BY ToSetOfNone DEF SetsOf
  <2>2. 1 .. 1 - 1 = {}
    OBVIOUS
  <2>3. << >> \in Seq((1 .. n) \union {Failed, Stop}) /\ \A t \in Threads : << >> \in Seq(1 .. n)
    OBVIOUS
  <2>4. NoneTwice(n, << >>)
    BY DEF NoneTwice
  <2> HIDE DEF G, all
  <2>5. Apart(all, {}, {}, {}, {}, {}, G)
    BY <2>1 DEF Apart
  <2>6. Apart(1 .. n, 1 .. 1 - 1, {}, {}, ToSet(<< >>), ToSet(<< >>), G)
    BY <2>2, <2>5, ToSetOfNone DEF all
  <2> QED BY <1>1, <2>3, <2>4, <2>6 DEF Placed, G
<1>3. Place
  BY <1>2 DEF Init, Place
<1>4. Counting
  <2>1. Settled(next, kernel, lost, hand) = {}
    BY DEF Init, Settled
  <2> QED BY <2>1, FS_EmptySet DEF Init, Counting
<1>5. mode # "workers" => NoWorkers
  BY DEF Init, NoWorkers
<1>6. mode = "workers" => worker = [w \in Workers |-> "recv"]
  BY DEF Init
<1>7. NoMessage /\ ToSet(channel) = {} /\ hand # <<Failed>>
  BY ToSetOfNone DEF Init, NoMessage
<1>8. mode \in InTurn => TurnInv
  BY <1>5, <1>7, Kinds DEF TurnInv, Init, Underway
<1>9. mode \in Piped => PipeInv
  BY <1>5, <1>7, Kinds DEF PipeInv, Init
<1>10. mode \in Windowed \ {"workers"} => WindowInv
  BY <1>4, <1>5, <1>7, Kinds DEF WindowInv, Init, Underway
<1>11. mode = "workers" => WorkersInv
  BY <1>4, <1>6, <1>7, NoStopsLast DEF WorkersInv, Init, Underway
<1>12. mode \in Pooled => PoolInv
  <2>1. NoWorkers => worker \in [Workers -> {"check", "wait", "end"}]
    BY DEF NoWorkers
  <2> QED BY <1>4, <1>5, <1>7, <2>1, Kinds DEF PoolInv, Init, Underway
<1> QED BY <1>1, <1>3, <1>8, <1>9, <1>10, <1>11, <1>12 DEF ModesInv

LEMMA ModesNext ==
  ASSUME ModesInv, [Next]_vars PROVE ModesInv'
<1>1. ASSUME Next PROVE ModesInv'
  <2>1. mode' = mode /\ mode \in Modes
    BY <1>1, PlanStays DEF ModesInv
  <2>2. CASE mode \in InTurn
    BY <1>1, <2>1, <2>2, TurnStays, Kinds DEF ModesInv
  <2>3. CASE mode \in Piped
    BY <1>1, <2>1, <2>3, PipeStays, Kinds DEF ModesInv
  <2>4. CASE mode \in Windowed \ {"workers"}
    BY <1>1, <2>1, <2>4, WindowStays, Kinds DEF ModesInv
  <2>5. CASE mode = "workers"
    BY <1>1, <2>1, <2>5, WorkersStay, Kinds DEF ModesInv
  <2>6. CASE mode \in Pooled
    BY <1>1, <2>1, <2>6, PoolStays, Kinds DEF ModesInv
  <2> QED BY <2>1, <2>2, <2>3, <2>4, <2>5, <2>6, Kinds
<1>2. ASSUME UNCHANGED vars PROVE ModesInv'
  BY <1>2 DEF vars, ModesInv, Place, TurnInv, PipeInv, WindowInv, WorkersInv, PoolInv,
              NoWorkers, NoMessage, Counting, Underway
<1> QED BY <1>1, <1>2

-----------------------------------------------------------------------------
(* The places of EachReadOnce.                                             *)
LEMMA Places ==
  /\ DOMAIN Held = 1 .. NumWorkers + 5
  /\ Held[1] = kernel /\ Held[2] = lost
  /\ Held[3] = ToSet(hand) \intersect Reads /\ Held[4] = ToSet(channel) \intersect Reads
  /\ {1, 2, 3, 4} \subseteq DOMAIN Held
  /\ \A t \in Threads : t + 5 \in DOMAIN Held /\ Held[t + 5] = ToSet(got[t])
  /\ \A p \in DOMAIN Held : p \notin {1, 2, 3, 4} => p - 5 \in Threads /\ Held[p] = ToSet(got[p - 5])
<1>1. NumWorkers \in Nat
  BY ModesAssumption
<1>2. DOMAIN Held = 1 .. NumWorkers + 5
  BY DEF Held
<1>3. {1, 2, 3, 4} \subseteq DOMAIN Held
  BY <1>1, <1>2
<1>4. /\ Held[1] = kernel /\ Held[2] = lost
      /\ Held[3] = ToSet(hand) \intersect Reads /\ Held[4] = ToSet(channel) \intersect Reads
  BY <1>2, <1>3 DEF Held
<1>5. ASSUME NEW p \in DOMAIN Held, p \notin {1, 2, 3, 4}
      PROVE  p - 5 \in Threads /\ Held[p] = ToSet(got[p - 5])
  <2>1. p - 5 \in 0 .. NumWorkers
    BY <1>1, <1>2, <1>5
  <2> DEFINE t == p - 5
  <2>2. t \in 0 .. NumWorkers
    BY <2>1
  <2> HIDE DEF t
  <2>3. t \in Threads
    BY <1>1, <2>2 DEF Threads, Workers, Main
  <2>4. Held[p] = ToSet(got[p - 5])
    BY <1>2, <1>5 DEF Held
  <2> QED BY <2>3, <2>4 DEF t
<1>6. ASSUME NEW t \in Threads
      PROVE  t + 5 \in DOMAIN Held /\ Held[t + 5] = ToSet(got[t])
  <2>1. t \in Nat /\ t <= NumWorkers
    BY <1>1 DEF Threads, Workers, Main
  <2>2. t + 5 \in 1 .. NumWorkers + 5 /\ t + 5 \notin {1, 2, 3, 4} /\ (t + 5) - 5 = t
    BY <1>1, <2>1
  <2> QED BY <1>2, <1>5, <2>2
<1> QED BY <1>2, <1>3, <1>4, <1>5, <1>6

LEMMA ThreadHas ==
  ASSUME Place, NEW t \in Threads
  PROVE  /\ ToSet(got[t]) = SetsOf(got)[t]
         /\ ToSet(got[t]) \subseteq Reads
<1>1. got[t] \in Seq(1 .. Len(ops))
  BY PlacedFacts DEF Place
<1> QED BY <1>1 DEF SetsOf, ToSet, Reads

LEMMA OncePlaced ==
  ASSUME Place
  PROVE  /\ UNION ToSet(Held) = 1 .. next - 1
         /\ \A p, q \in DOMAIN Held : p # q => Held[p] \intersect Held[q] = {}
         /\ NoReadTwice(channel) /\ \A t \in Threads : NoReadTwice(got[t])
<1> DEFINE all == Reads
           before == 1 .. next - 1
           H == ToSet(hand)
           C == ToSet(channel)
           G == SetsOf(got)
<1>1. Apart(all, before, kernel, lost, H, C, G)
  BY PlacedFacts DEF Place, Reads
<1>2. \A t \in Threads : ToSet(got[t]) = G[t] /\ G[t] \subseteq all
  BY ThreadHas
<1>3. before \subseteq all
  <2>1. Len(ops) \in Nat /\ next \in 1 .. Len(ops) + 1
    BY PlacedFacts DEF Place
  <2> QED BY <2>1 DEF Reads
<1> HIDE DEF all, before, H, C, G
<1>4. /\ Held[1] = kernel /\ Held[2] = lost /\ Held[3] = H \intersect all /\ Held[4] = C \intersect all
      /\ {1, 2, 3, 4} \subseteq DOMAIN Held
  BY Places DEF H, C, all
<1>5. \A t \in Threads : t + 5 \in DOMAIN Held /\ Held[t + 5] = G[t]
  BY <1>2, Places
<1>6. \A p \in DOMAIN Held : p \notin {1, 2, 3, 4} => p - 5 \in Threads /\ Held[p] = G[p - 5]
  BY <1>2, Places
<1>7. \A p \in DOMAIN Held : Held[p] \subseteq all
  BY <1>1, <1>2, <1>4, <1>6 DEF Apart
<1>8. ASSUME NEW k \in all PROVE k \in before <=> \E p \in DOMAIN Held : k \in Held[p]
  <2>1. k \in before <=> \/ k \in kernel \/ k \in lost \/ k \in H \/ k \in C
                         \/ \E t \in Threads : k \in G[t]
    BY <1>1 DEF Apart
  <2>2. ASSUME k \in before PROVE \E p \in DOMAIN Held : k \in Held[p]
    BY <1>4, <1>5, <2>1, <2>2
  <2>3. ASSUME NEW p \in DOMAIN Held, k \in Held[p] PROVE k \in before
    BY <1>4, <1>6, <2>1, <2>3
  <2> QED BY <2>2, <2>3
<1>9. UNION ToSet(Held) = before
  <2>1. \A k : k \in UNION ToSet(Held) <=> \E p \in DOMAIN Held : k \in Held[p]
    BY DEF ToSet
  <2> QED BY <1>3, <1>7, <1>8, <2>1
<1>10. ASSUME NEW p \in DOMAIN Held, NEW q \in DOMAIN Held, NEW k \in all, p # q,
              k \in Held[p], k \in Held[q]
       PROVE  FALSE
  <2>1. /\ k \in kernel => k \notin lost /\ k \notin H /\ k \notin C /\ \A t \in Threads : k \notin G[t]
        /\ k \in lost => k \notin H /\ k \notin C /\ \A t \in Threads : k \notin G[t]
        /\ k \in H => k \notin C /\ \A t \in Threads : k \notin G[t]
        /\ k \in C => \A t \in Threads : k \notin G[t]
        /\ \A s, t \in Threads : k \in G[s] /\ k \in G[t] => s = t
    BY <1>1 DEF Apart
  <2>2. CASE p \in {1, 2, 3, 4} /\ q \in {1, 2, 3, 4}
    BY <1>4, <1>10, <2>1, <2>2
  <2>3. CASE p \in {1, 2, 3, 4} /\ q \notin {1, 2, 3, 4}
    BY <1>4, <1>6, <1>10, <2>1, <2>3
  <2>4. CASE p \notin {1, 2, 3, 4} /\ q \in {1, 2, 3, 4}
    BY <1>4, <1>6, <1>10, <2>1, <2>4
  <2>5. CASE p \notin {1, 2, 3, 4} /\ q \notin {1, 2, 3, 4}
    <3>1. p - 5 = q - 5
      BY <1>6, <1>10, <2>1, <2>5
    <3>2. p \in Int /\ q \in Int
      BY Places
    <3> QED BY <1>10, <3>1, <3>2
  <2> QED BY <2>2, <2>3, <2>4, <2>5
<1>11. NoReadTwice(channel) /\ \A t \in Threads : NoReadTwice(got[t])
  <2>1. NoneTwice(Len(ops), channel) /\ \A t \in Threads : NoneTwice(Len(ops), got[t])
    BY PlacedFacts DEF Place
  <2> QED BY <2>1 DEF NoneTwice, NoReadTwice, Reads
<1> QED BY <1>7, <1>9, <1>10, <1>11 DEF before

(* With nothing under way, what no thread has parsed is lost.              *)
LEMMA NothingUnderWay ==
  ASSUME Place, next = Len(ops) + 1, kernel = {},
         \A k \in Reads : k \notin ToSet(hand) /\ k \notin ToSet(channel)
  PROVE  Reads \ Parsed = lost
<1> DEFINE all == Reads
           before == 1 .. next - 1
           H == ToSet(hand)
           C == ToSet(channel)
           G == SetsOf(got)
<1>1. Apart(all, before, kernel, lost, H, C, G)
  BY PlacedFacts DEF Place, Reads
<1>2. \A t \in Threads : ToSet(got[t]) = G[t]
  BY ThreadHas
<1>3. before = all
  <2>1. Len(ops) \in Nat
    BY PlacedFacts DEF Place
  <2>2. next - 1 = Len(ops)
    BY <2>1
  <2> QED BY <2>2 DEF Reads
<1>4. \A k \in all : k \notin H /\ k \notin C
  OBVIOUS
<1>5. Parsed = {k \in all : \E t \in Threads : k \in G[t]}
  BY <1>2 DEF Parsed
<1> HIDE DEF all, before, H, C, G
<1>6. all \ Parsed = lost
  BY <1>1, <1>3, <1>4, <1>5 DEF Apart
<1> QED BY <1>6 DEF all

LEMMA AllParsed ==
  ASSUME ModesInv, outcome = "ok"
  PROVE  Reads \ Parsed = (IF mode = "parallel" THEN lost ELSE {})
<1>1. Place /\ mode \in Modes
  BY DEF ModesInv
<1>2. ASSUME hand = << >>, channel = << >>
      PROVE  \A k \in Reads : k \notin ToSet(hand) /\ k \notin ToSet(channel)
  BY <1>2, ToSetOfNone
<1>3. CASE mode \in InTurn
  BY <1>1, <1>2, <1>3, NothingUnderWay DEF ModesInv, TurnInv, NoMessage
<1>4. CASE mode \in Piped
  <2>1. PipeInv /\ mode # "parallel"
    BY <1>4, Kinds DEF ModesInv, InTurn
  <2>2. hand = << >> /\ channel = << >> /\ lost = {} /\ next = Len(ops) + 1 /\ kernel = {}
    <3>1. hand = << >> /\ channel = << >> /\ reader = "end"
      BY <2>1 DEF PipeInv
    <3>2. hand # <<Failed>> /\ ToSet(channel) = {}
      BY <3>1, ToSetOfNone
    <3> QED BY <2>1, <3>1, <3>2 DEF PipeInv
  <2> QED BY <1>1, <1>2, <2>1, <2>2, NothingUnderWay
<1>5. ASSUME Counting, completed >= Len(ops), channel = << >> \/ ToSet(channel) \subseteq {Stop},
             mode # "parallel"
      PROVE  Reads \ Parsed = (IF mode = "parallel" THEN lost ELSE {})
  <2>1. next = Len(ops) + 1 /\ kernel = {} /\ lost = {} /\ \A k \in Reads : k \notin ToSet(hand)
    BY <1>1, <1>5, NowIs, AllSettled DEF Now, Reads
  <2>2. \A k \in Reads : k \notin ToSet(channel)
    BY <1>5, ToSetOfNone DEF Reads, Stop
  <2> QED BY <1>1, <1>5, <2>1, <2>2, NothingUnderWay
<1>6. Len(ops) \in Nat
  BY <1>1, PlacedFacts DEF Place
<1>7. CASE mode \in Windowed \ {"workers"}
  BY <1>5, <1>6, <1>7, Kinds DEF ModesInv, WindowInv, NoMessage, InTurn
<1>8. CASE mode = "workers"
  <2>1. 1 \in Workers
    BY ModesAssumption DEF Workers
  <2> QED BY <1>5, <1>6, <1>8, <2>1 DEF ModesInv, WorkersInv
<1>9. CASE mode \in Pooled
  BY <1>5, <1>6, <1>9, Kinds DEF ModesInv, PoolInv, NoMessage, InTurn
<1> QED BY <1>1, <1>3, <1>4, <1>7, <1>8, <1>9, Kinds

(***************************************************************************)
(* Whatever the mode, and whatever the order in which reads complete,      *)
(* messages are received and threads come and go: a read that was taken    *)
(* off the plan is in one place, once, and a reader that reports success   *)
(* has parsed all of them, but for the chunks that "parallel" left out.    *)
(***************************************************************************)
THEOREM ReadsAlwaysOnce == Spec => []EachReadOnce
<1>1. Init => ModesInv
  BY ModesInit
<1>2. ModesInv /\ [Next]_vars => ModesInv'
  BY ModesNext
<1>3. ModesInv => EachReadOnce
  <2> SUFFICES ASSUME ModesInv PROVE EachReadOnce
    OBVIOUS
  <2>1. Place
    BY DEF ModesInv
  <2> QED BY <2>1, OncePlaced, AllParsed DEF EachReadOnce
<1> QED BY <1>1, <1>2, <1>3, PTL DEF Spec
=============================================================================
