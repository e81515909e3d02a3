----------------------------- MODULE MftWindow -----------------------------
(***************************************************************************)
(* The sliding window of overlapped reads over the read plan: at most one  *)
(* read per slot is with the kernel, completions arrive in any order, and  *)
(* each one hands its buffer and its slot to the next read of the plan.    *)
(* The reader is one thread; what happens to a read is the kernel's.       *)
(***************************************************************************)
EXTENDS Integers, Sequences, FiniteSets

CONSTANTS Concurrency  \* slots, and buffers, of the window

ASSUME WindowAssumption == Concurrency \in Nat \ {0}

VARIABLES
  ops,     \* io_ops as built from the plan
  next,    \* io_ops.front(): the number of the next read to submit
  slot,    \* in_flight: the number of the read in each slot, 0 for None
  pool,    \* buffer_pool.len()
  lost,    \* reads that ReadFile refused after the window was filled
  done,    \* reads whose completion was parsed
  reader   \* where the reader is: "fill", "loop", "ok" or why it gave up

winVars == <<ops, next, slot, pool, lost, done, reader>>

Slots   == 1 .. Concurrency
Reads   == 1 .. Len(ops)
Free    == 0
Working == {"fill", "loop"}
GaveUp  == {"refused", "failed", "stalled", "exhausted"}

(* Reads that are with the kernel, and so will complete. *)
Accepted == {s \in Slots : slot[s] \notin {Free} \union lost}

WindowInit(plan) ==
  /\ ops = plan
  /\ next = 1
  /\ slot = [s \in Slots |-> Free]
  /\ pool = Concurrency
  /\ lost = {}
  /\ done = {}
  /\ reader = "fill"

-----------------------------------------------------------------------------
(***************************************************************************)
(* The window is filled slot by slot.  A refusal here ends the reader.     *)
(***************************************************************************)
QueueInitialRead ==
  /\ reader = "fill" /\ next <= Len(ops) /\ next <= Concurrency
  /\ \/ /\ pool' = IF pool = 0 THEN pool ELSE pool - 1
        /\ reader' = IF pool = 0 THEN "exhausted" ELSE reader
        /\ slot' = [slot EXCEPT ![next] = next]
        /\ next' = next + 1
     \/ /\ reader' = "refused"
        /\ UNCHANGED <<next, slot, pool>>
  /\ UNCHANGED <<ops, lost, done>>

StartWaiting ==
  /\ reader = "fill" /\ (next > Len(ops) \/ next > Concurrency)
  /\ reader' = "loop"
  /\ UNCHANGED <<ops, next, slot, pool, lost, done>>

(***************************************************************************)
(* A completed read: its records are parsed, its buffer goes back to the   *)
(* pool and the next read takes both.  That read may be refused: this is   *)
(* only logged, and the slot waits for a completion that never comes.      *)
(***************************************************************************)
Recycled == pool + 1

(* Mutant: the queue of reads is looked at, not popped. *)
SubmitFront(s) ==
  \/ /\ next > Len(ops)
     /\ slot' = [slot EXCEPT ![s] = Free]
     /\ pool' = Recycled
     /\ UNCHANGED <<next, lost, reader>>
  \/ /\ next <= Len(ops)
     /\ slot' = [slot EXCEPT ![s] = next]
     /\ next' \in {next, next + 1}
     /\ pool' = Recycled - 1
     /\ UNCHANGED <<lost, reader>>

SubmitNext(s) ==
  \/ /\ next > Len(ops)
     /\ slot' = [slot EXCEPT ![s] = Free]
     /\ pool' = Recycled
     /\ UNCHANGED <<next, lost, reader>>
  \/ /\ next <= Len(ops)
     /\ slot' = [slot EXCEPT ![s] = next]
     /\ next' = next + 1
     /\ lost' \in {lost, lost \union {next}}
     /\ pool' = IF Recycled = 0 THEN Recycled ELSE Recycled - 1
     /\ reader' = IF Recycled = 0 THEN "exhausted" ELSE reader

Complete(s) ==
  /\ reader = "loop" /\ Cardinality(done) < Len(ops)
  /\ s \in Accepted
  /\ done' = done \union {slot[s]}
  /\ SubmitNext(s)
  /\ UNCHANGED ops

(* GetQueuedCompletionStatus fails, or returns no OVERLAPPED pointer. *)
WaitFails ==
  /\ reader = "loop" /\ Cardinality(done) < Len(ops)
  /\ reader' = "failed"
  /\ UNCHANGED <<ops, next, slot, pool, lost, done>>

(* Mutant: the deadline counts only while a read is with the kernel. *)
DeadlineWhilePending ==
  /\ reader = "loop" /\ Accepted # {}
  /\ reader' = "stalled"
  /\ UNCHANGED <<ops, next, slot, pool, lost, done>>

(* Nothing has completed for IOCP_WAIT_COMPLETION_DEADLINE. *)
DeadlineExceeded ==
  /\ reader = "loop" /\ Cardinality(done) < Len(ops)
  /\ reader' = "stalled"
  /\ UNCHANGED <<ops, next, slot, pool, lost, done>>

(* Mutant: the loop ends when every read has been submitted. *)
AllSubmitted ==
  /\ reader = "loop" /\ next > Len(ops)
  /\ reader' = "ok"
  /\ UNCHANGED <<ops, next, slot, pool, lost, done>>

AllCompleted ==
  /\ reader = "loop" /\ Cardinality(done) = Len(ops)
  /\ reader' = "ok"
  /\ UNCHANGED <<ops, next, slot, pool, lost, done>>

ReaderStep == QueueInitialRead \/ StartWaiting \/ AllCompleted

WindowNext ==
  \/ ReaderStep \/ WaitFails \/ DeadlineExceeded
  \/ \E s \in Slots : Complete(s)

-----------------------------------------------------------------------------
WindowTypeOK ==
  /\ next \in 1 .. Len(ops) + 1
  /\ slot \in [Slots -> Reads \union {Free}]
  /\ pool \in 0 .. Concurrency
  /\ lost \subseteq Reads
  /\ done \subseteq Reads
  /\ reader \in Working \union GaveUp \union {"ok"}

(* Each submitted read is in one slot or parsed, never both, never twice. *)
ReadsAccountedFor ==
  /\ {slot[s] : s \in Slots} \ {Free} = (1 .. next - 1) \ done
  /\ done \subseteq 1 .. next - 1
  /\ \A s, t \in Slots : slot[s] = slot[t] /\ slot[s] # Free => s = t
  /\ lost \intersect done = {}

(***************************************************************************)
(* to_index.rs returns the index only after every read of the plan was     *)
(* parsed, whatever was refused on the way.                                *)
(***************************************************************************)
OkMeansAll == reader = "ok" => done = Reads

(***************************************************************************)
(* The buffers recycled by completions always suffice for the next read:   *)
(* the two "buffer pool exhausted" errors of the code cannot be met.       *)
(***************************************************************************)
PoolSuffices == reader # "exhausted"
=============================================================================
