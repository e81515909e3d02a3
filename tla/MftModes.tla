------------------------------ MODULE MftModes ------------------------------
(***************************************************************************)
(* The other ways to read the $MFT: in turn, through a pipe from a reader  *)
(* thread, with overlapped reads that one thread waits for and parses      *)
(* itself or hands to workers, and with all reads queued at once and a     *)
(* pool of threads that drains the completion port.  All of them collect   *)
(* records first; what then becomes of the records is in MftParse.         *)
(***************************************************************************)
EXTENDS MftVolume, FiniteSets

CONSTANTS
  Volumes,        \* the volumes of the run
  Window,         \* reads in flight of the windowed modes
  PipelineDepth,  \* buffers that the pipe of "pipelined" holds
  NumWorkers,     \* threads that parse, or drain the completion port
  AbortAfter,     \* EARLY_ABORT_THRESHOLD
  MaxLost         \* bound: reads that are refused or fail

ASSUME ModesAssumption ==
  /\ {Window, PipelineDepth, NumWorkers, AbortAfter} \subseteq Nat \ {0}
  /\ MaxLost \in Nat

VARIABLES
  mode, volume,
  ops,        \* the plan, as the mode orders it
  next,       \* the next read of the plan
  kernel,     \* overlapped reads that will complete
  lost,       \* reads that were refused or failed
  hand,       \* the message the reader holds for the channel, if any
  channel,    \* messages on their way: read numbers, Failed, Stop
  reader,     \* where the thread is that reads
  worker,     \* where each worker is
  got,        \* the reads each thread has the data of, in the order it got them
  completed,  \* completed_count
  failures,   \* consecutive_failures
  outcome     \* "none", "ok" or "error"

vars == <<mode, volume, ops, next, kernel, lost, hand, channel, reader,
          worker, got, completed, failures, outcome>>

Reads   == 1 .. Len(ops)
Failed  == 0
Stop    == -1
Main    == 0
Workers == 1 .. NumWorkers
Threads == Workers \union {Main}

InTurn   == {"parallel", "streaming", "prefetch", "bulk"}
Piped    == {"pipelined", "pipelined-parallel"}
Windowed == {"iocp-parallel", "sliding-iocp", "workers"}
Pooled   == {"bulk-iocp"}
Modes    == InTurn \union Piped \union Windowed \union Pooled
Inline   == "sliding-iocp-inline"

(***************************************************************************)
(* What a mode asked for comes to, for rows of a frame and for an index.   *)
(* The inline reader makes an index and is MftReader; asked for in a frame *)
(* it is the sliding window.                                               *)
(***************************************************************************)
Asked == (Modes \ {"workers"}) \union {"auto", Inline}

FrameMode(asked) == IF asked \in {"auto", Inline} THEN "sliding-iocp" ELSE asked

IndexMode(asked) ==
  IF asked = "auto" THEN Inline
  ELSE IF asked \in {"streaming", "prefetch"} THEN "parallel" ELSE asked

Reached ==
  ({FrameMode(a) : a \in Asked} \union {IndexMode(a) : a \in Asked}
     \union {"workers"}) \ {Inline}

-----------------------------------------------------------------------------
RecordsOf(v) == 0 .. TotalRecords(v.extents) - 1

InUse(v) ==
  {frs \in RecordsOf(v) : \E seg \in ToSet(Segment(v, PhysicalOffset(v.extents, frs))) : seg.used}

Plan(m, v) ==
  LET chunks  == GenerateReadChunks(v.extents, v.bitmapKnown)
      precise == GeneratePreciseReadChunks(v.extents, InUse(v), TotalRecords(v.extents))
  IN CASE m \in Piped \union (InTurn \ {"bulk"}) -> chunks
       [] m \in {"bulk", "iocp-parallel"}        -> ByDiskOffset(chunks)
       [] m \in {"bulk-iocp", "sliding-iocp"}    -> IoOps(chunks, FALSE)
       [] m = "workers" -> IoOps(IF v.direct /\ v.bitmapKnown THEN precise ELSE chunks, v.direct)

(* A plan is a list of reads, whatever extents and bitmap it is made from.  *)
ASSUME PlansAreLists ==
  \A m \in Reached, v \in Volumes : Len(Plan(m, v)) \in Nat

Init ==
  /\ mode \in Reached
  /\ volume \in Volumes
  /\ ops = Plan(mode, volume)
  /\ next = 1 /\ kernel = {} /\ lost = {}
  /\ hand = << >> /\ channel = << >>
  /\ reader = "read"
  /\ worker = [w \in Workers |-> IF mode = "workers" THEN "recv" ELSE "end"]
  /\ got = [t \in Threads |-> << >>]
  /\ completed = 0 /\ failures = 0
  /\ outcome = "none"

-----------------------------------------------------------------------------
MayLose == Cardinality(lost) < MaxLost

MoreToRead == reader = "read" /\ next <= Len(ops)
AllTaken   == reader = "read" /\ next > Len(ops)

Get(t, k) == got' = [got EXCEPT ![t] = Append(@, k)]
Lose(k)   == MayLose /\ lost' = lost \union {k}
End(how)  == reader' = "end" /\ outcome' = how

(***************************************************************************)
(* One read after the other.  "parallel" leaves out a chunk that cannot be *)
(* read and gives up after AbortAfter of them in a row.                    *)
(***************************************************************************)
ReadInTurn ==
  /\ mode \in InTurn /\ MoreToRead
  /\ next' = next + 1
  /\ \/ /\ Get(Main, next) /\ failures' = 0
        /\ UNCHANGED <<lost, reader, outcome>>
     \/ /\ Lose(next) /\ failures' = failures + 1
        /\ IF mode = "parallel" /\ failures + 1 < AbortAfter
           THEN UNCHANGED <<reader, outcome>> ELSE End("error")
        /\ UNCHANGED got
  /\ UNCHANGED <<mode, volume, ops, kernel, hand, channel, worker, completed>>

AllRead ==
  /\ mode \in InTurn /\ AllTaken
  /\ End("ok")
  /\ UNCHANGED <<mode, volume, ops, next, kernel, lost, hand, channel, worker,
                 got, completed, failures>>

-----------------------------------------------------------------------------
(***************************************************************************)
(* The reader thread fills a buffer and sends it, or its error, into the   *)
(* pipe; the caller receives until the pipe is closed or brings an error.  *)
(***************************************************************************)
Capacity ==
  CASE mode = "pipelined"          -> PipelineDepth
    [] mode = "pipelined-parallel" -> PipelineDepth * 2
    [] mode = "workers"            -> NumWorkers * 2

RoomInChannel == Len(channel) < Capacity

FillBuffer ==
  /\ mode \in Piped /\ MoreToRead
  /\ next' = next + 1
  /\ \/ hand' = <<next>> /\ UNCHANGED lost
     \/ hand' = <<Failed>> /\ Lose(next)
  /\ reader' = "send"
  /\ UNCHANGED <<mode, volume, ops, kernel, channel, worker, got, completed, failures, outcome>>

Send ==
  /\ mode \in Piped /\ reader = "send"
  /\ RoomInChannel
  /\ channel' = channel \o hand /\ hand' = << >>
  /\ reader' = IF hand = <<Failed>> THEN "end" ELSE "read"
  /\ UNCHANGED <<mode, volume, ops, next, kernel, lost, worker, got, completed, failures, outcome>>

CloseChannel ==
  /\ mode \in Piped /\ AllTaken
  /\ reader' = "end"
  /\ UNCHANGED <<mode, volume, ops, next, kernel, lost, hand, channel, worker,
                 got, completed, failures, outcome>>

(* Mutant: nothing is received before the reader thread has ended. *)
ReceivableAtTheEnd == channel # << >> /\ reader = "end"

Receivable == channel # << >>

Receive ==
  /\ mode \in Piped /\ outcome = "none" /\ Receivable
  /\ channel' = Tail(channel)
  /\ IF Head(channel) = Failed
     THEN outcome' = "error" /\ UNCHANGED got
     ELSE Get(Main, Head(channel)) /\ UNCHANGED outcome
  /\ UNCHANGED <<mode, volume, ops, next, kernel, lost, hand, reader, worker, completed, failures>>

ReceiveEnd ==
  /\ mode \in Piped /\ outcome = "none" /\ channel = << >> /\ reader = "end"
  /\ outcome' = "ok"
  /\ UNCHANGED <<mode, volume, ops, next, kernel, lost, hand, channel, reader,
                 worker, got, completed, failures>>

-----------------------------------------------------------------------------
(***************************************************************************)
(* A window of overlapped reads.  While it is filled, "iocp-parallel" goes *)
(* on without a read that is refused; for the others that is an error, and *)
(* dropping the sender sends the workers home.                             *)
(***************************************************************************)
Prime ==
  /\ mode \in Windowed /\ MoreToRead /\ next <= Window
  /\ next' = next + 1
  /\ \/ kernel' = kernel \union {next} /\ UNCHANGED <<lost, reader, outcome>>
     \/ /\ Lose(next)
        /\ IF mode = "iocp-parallel" THEN UNCHANGED <<reader, outcome>> ELSE End("error")
        /\ UNCHANGED kernel
  /\ UNCHANGED <<mode, volume, ops, hand, channel, worker, got, completed, failures>>

Primed ==
  /\ mode \in Windowed /\ reader = "read" /\ (next > Window \/ next > Len(ops))
  /\ reader' = "wait"
  /\ UNCHANGED <<mode, volume, ops, next, kernel, lost, hand, channel, worker,
                 got, completed, failures, outcome>>

(* Mutant: the loop ends when every read has been submitted. *)
Submitted == next > Len(ops)

LoopEnds == completed = Len(ops)

Waiting == mode \in Windowed /\ reader = "wait" /\ ~LoopEnds

(* The slot goes to the next read; that this one was refused is only logged. *)
SubmitNext(flying) ==
  IF next > Len(ops) THEN kernel' = flying /\ UNCHANGED <<next, lost>>
  ELSE /\ next' = next + 1
       /\ \/ kernel' = flying \union {next} /\ UNCHANGED lost
          \/ kernel' = flying /\ Lose(next)

TakePacket ==
  /\ Waiting
  /\ \E k \in kernel :
       IF mode = "workers"
       THEN /\ hand' = <<k>> /\ reader' = "send" /\ kernel' = kernel \ {k}
            /\ UNCHANGED <<next, lost, got, completed>>
       ELSE /\ Get(Main, k) /\ completed' = completed + 1
            /\ SubmitNext(kernel \ {k})
            /\ UNCHANGED <<hand, reader>>
  /\ UNCHANGED <<mode, volume, ops, channel, worker, failures, outcome>>

(* A read that failed brings its packet too, but the loop only goes round. *)
FailedPacket ==
  /\ Waiting
  /\ \E k \in kernel : Lose(k) /\ kernel' = kernel \ {k}
  /\ UNCHANGED <<mode, volume, ops, next, hand, channel, reader, worker, got,
                 completed, failures, outcome>>

SendBuffer ==
  /\ mode = "workers" /\ reader = "send"
  /\ RoomInChannel
  /\ channel' = channel \o hand /\ hand' = << >>
  /\ completed' = completed + 1
  /\ SubmitNext(kernel)
  /\ reader' = "wait"
  /\ UNCHANGED <<mode, volume, ops, worker, got, failures, outcome>>

AllCompleted ==
  /\ mode \in Windowed /\ reader = "wait" /\ LoopEnds
  /\ IF mode = "workers" THEN reader' = "stop" /\ UNCHANGED outcome ELSE End("ok")
  /\ UNCHANGED <<mode, volume, ops, next, kernel, lost, hand, channel, worker,
                 got, completed, failures>>

(***************************************************************************)
(* One Stop is sent for each worker; each that is received ends one.  Then *)
(* the sender is dropped and the workers are joined.                       *)
(***************************************************************************)
StopsSent ==
  Cardinality({i \in DOMAIN channel : channel[i] = Stop})
    + Cardinality({w \in Workers : worker[w] = "end"})

SendStop ==
  /\ mode = "workers" /\ reader = "stop" /\ StopsSent < NumWorkers
  /\ RoomInChannel
  /\ channel' = Append(channel, Stop)
  /\ UNCHANGED <<mode, volume, ops, next, kernel, lost, hand, reader, worker,
                 got, completed, failures, outcome>>

DropSender ==
  /\ mode = "workers" /\ reader = "stop" /\ StopsSent = NumWorkers
  /\ reader' = "join"
  /\ UNCHANGED <<mode, volume, ops, next, kernel, lost, hand, channel, worker,
                 got, completed, failures, outcome>>

WorkerReceive(w) ==
  /\ mode = "workers" /\ worker[w] = "recv" /\ channel # << >>
  /\ channel' = Tail(channel)
  /\ IF Head(channel) = Stop
     THEN worker' = [worker EXCEPT ![w] = "end"] /\ UNCHANGED got
     ELSE Get(w, Head(channel)) /\ UNCHANGED worker
  /\ UNCHANGED <<mode, volume, ops, next, kernel, lost, hand, reader, completed, failures, outcome>>

WorkerHangUp(w) ==
  /\ mode = "workers" /\ worker[w] = "recv"
  /\ channel = << >> /\ reader \in {"join", "end"}
  /\ worker' = [worker EXCEPT ![w] = "end"]
  /\ UNCHANGED <<mode, volume, ops, next, kernel, lost, hand, channel, reader,
                 got, completed, failures, outcome>>

-----------------------------------------------------------------------------
(***************************************************************************)
(* All reads are queued into one buffer for the whole $MFT; a refusal is   *)
(* an error.  Then a pool of workers drains the completion port: each one  *)
(* checks the shared count and the shared error, then waits for at most a  *)
(* tenth of a second.                                                      *)
(***************************************************************************)
QueueRead ==
  /\ mode \in Pooled /\ MoreToRead
  /\ next' = next + 1
  /\ \/ kernel' = kernel \union {next} /\ UNCHANGED <<lost, reader, outcome>>
     \/ Lose(next) /\ End("error") /\ UNCHANGED kernel
  /\ UNCHANGED <<mode, volume, ops, hand, channel, worker, got, completed, failures>>

StartPool ==
  /\ mode \in Pooled /\ AllTaken
  /\ reader' = "join"
  /\ worker' = [w \in Workers |-> "check"]
  /\ UNCHANGED <<mode, volume, ops, next, kernel, lost, hand, channel, got,
                 completed, failures, outcome>>

ErrorFlag == lost # {}

DrainCheck(w) ==
  /\ worker[w] = "check"
  /\ worker' = [worker EXCEPT ![w] =
                  IF completed >= Len(ops) \/ ErrorFlag THEN "end" ELSE "wait"]
  /\ UNCHANGED <<mode, volume, ops, next, kernel, lost, hand, channel, reader,
                 got, completed, failures, outcome>>

DrainPacket(w) ==
  /\ worker[w] = "wait"
  /\ \E k \in kernel :
       /\ kernel' = kernel \ {k}
       /\ \/ /\ Get(Main, k) /\ completed' = completed + 1
             /\ worker' = [worker EXCEPT ![w] =
                             IF completed + 1 >= Len(ops) THEN "end" ELSE "check"]
             /\ UNCHANGED lost
          \/ /\ Lose(k)
             /\ worker' = [worker EXCEPT ![w] = "end"]
             /\ UNCHANGED <<got, completed>>
  /\ UNCHANGED <<mode, volume, ops, next, hand, channel, reader, failures, outcome>>

DrainTimeout(w) ==
  /\ worker[w] = "wait"
  /\ worker' = [worker EXCEPT ![w] = "check"]
  /\ UNCHANGED <<mode, volume, ops, next, kernel, lost, hand, channel, reader,
                 got, completed, failures, outcome>>

(* The threads that were started are joined, whatever the error. *)
JoinWorkers ==
  /\ reader = "join" /\ \A w \in Workers : worker[w] = "end"
  /\ End(IF mode \in Pooled /\ ErrorFlag THEN "error" ELSE "ok")
  /\ UNCHANGED <<mode, volume, ops, next, kernel, lost, hand, channel, worker,
                 got, completed, failures>>

-----------------------------------------------------------------------------
ReaderStep ==
  \/ ReadInTurn \/ AllRead
  \/ FillBuffer \/ Send \/ CloseChannel
  \/ Prime \/ Primed \/ SendBuffer \/ AllCompleted \/ SendStop \/ DropSender
  \/ QueueRead \/ StartPool \/ JoinWorkers

CallerStep == Receive \/ ReceiveEnd
PacketStep == TakePacket \/ FailedPacket

WorkerStep(w) == WorkerReceive(w) \/ WorkerHangUp(w) \/ DrainCheck(w) \/ DrainTimeout(w)

Next ==
  \/ ReaderStep \/ CallerStep \/ PacketStep
  \/ \E w \in Workers : WorkerStep(w) \/ DrainPacket(w)

Spec == Init /\ [][Next]_vars

(***************************************************************************)
(* Every thread runs; the kernel completes each read it accepted, and some *)
(* worker that waits again and again gets the packet.                      *)
(***************************************************************************)
FairSpec ==
  /\ Spec
  /\ WF_vars(ReaderStep) /\ WF_vars(CallerStep) /\ WF_vars(PacketStep)
  /\ \A w \in Workers : WF_vars(WorkerStep(w))
  /\ SF_vars(\E w \in Workers : DrainPacket(w))

-----------------------------------------------------------------------------
(***************************************************************************)
(* What the reads deliver.  The two bulk modes put each read where its     *)
(* record numbers say, the sliding window packs the reads one after the    *)
(* other in disk order; all three take the position in the buffer for the  *)
(* record number, and like the workers leave out records whose bit is      *)
(* clear in the bitmap.                                                    *)
(***************************************************************************)
Buffered == {"bulk", "bulk-iocp", "sliding-iocp"}

Packed(k) == FoldLeft(LAMBDA n, op : n + op.count, 0, SubSeq(ops, 1, k - 1))

(* Mutant: the bulk buffer is filled read after read. *)
PackedPosition(k) == IF mode \in Buffered THEN Packed(k) ELSE ops[k].frs

BufferPosition(k) == IF mode = "sliding-iocp" THEN Packed(k) ELSE ops[k].frs

RecordsIn(k) == Found(volume, [ops[k] EXCEPT !.frs = BufferPosition(k)], {})

Filtered(records) ==
  IF volume.bitmapKnown /\ mode \in Buffered \union {"workers"}
  THEN SelectSeq(records, LAMBDA r : r.frs \in InUse(volume))
  ELSE records

Delivered ==
  LET of(t)  == FlattenSeq([i \in DOMAIN got[t] |-> RecordsIn(got[t][i])])
      all    == FlattenSeq([n \in 1 .. NumWorkers + 1 |-> of(n - 1)])
  IN Filtered(IF mode \in Buffered THEN SortSeq(all, LAMBDA a, b : a.frs < b.frs) ELSE all)

-----------------------------------------------------------------------------
(***************************************************************************)
(* Whatever the mode, a read that was taken off the plan is in one place:  *)
(* with the kernel, lost, held by the reader, in the channel, or with one  *)
(* thread, once.  A reader that reports success has all of them, but for   *)
(* the chunks that "parallel" left out.                                    *)
(***************************************************************************)
Parsed == {k \in Reads : \E t \in Threads : k \in ToSet(got[t])}

Held ==
  [p \in 1 .. NumWorkers + 5 |->
     CASE p = 1 -> kernel
       [] p = 2 -> lost
       [] p = 3 -> ToSet(hand) \intersect Reads
       [] p = 4 -> ToSet(channel) \intersect Reads
       [] OTHER -> ToSet(got[p - 5])]

NoReadTwice(s) == \A i, j \in DOMAIN s : s[i] = s[j] /\ s[i] \in Reads => i = j

EachReadOnce ==
  /\ UNION ToSet(Held) = 1 .. next - 1
  /\ \A p, q \in DOMAIN Held : p # q => Held[p] \intersect Held[q] = {}
  /\ NoReadTwice(channel) /\ \A t \in Threads : NoReadTwice(got[t])
  /\ outcome = "ok" => Reads \ Parsed = (IF mode = "parallel" THEN lost ELSE {})

(***************************************************************************)
(* All modes deliver the same records as reading the $MFT from first to    *)
(* last: neither the order of the reads, nor that of their completions,    *)
(* nor which worker parsed what shows in a record, its names or the name   *)
(* it goes by.  The sliding window does so only where the extents of the   *)
(* $MFT ascend on the disk without a hole.                                 *)
(***************************************************************************)
PlanFinds ==
  LET found == FlattenSeq([k \in Reads |-> Found(volume, ops[k], {})])
  IN /\ PlanReads(ops, volume.extents, InUse(volume))
     /\ \A r \in ToSet(found) : r.seg[1].used => r.frs \in InUse(volume)

InRecordOrder == \A k \in Reads : Packed(k) = ops[k].frs

Content(records) == {[r EXCEPT !.ads = ToSet(@)] : r \in Collected(records)}

FromFirstToLast ==
  FlattenSeq([i \in DOMAIN FilePlan(volume) |-> Found(volume, FilePlan(volume)[i], {})])

ModesAgree ==
  (/\ outcome = "ok" /\ lost = {} /\ PlanFinds
   /\ mode = "sliding-iocp" => InRecordOrder)
  => Content(Delivered) = Content(FromFirstToLast)

(***************************************************************************)
(* Reading ends, and the threads it started end too, however small the     *)
(* channel, unless a windowed mode waits for a read that it lost.          *)
(***************************************************************************)
AllEnded ==
  outcome # "none" /\ reader = "end" /\ \A w \in Workers : worker[w] = "end"

ReadersEnd == <>(AllEnded \/ (mode \in Windowed /\ lost # {}))
=============================================================================
