----------------------------- MODULE MftReader -----------------------------
(***************************************************************************)
(* Reading one volume: the plan, the sliding window that parses each read  *)
(* into the index as it completes, the two fallbacks that collect records  *)
(* first, and the rows of the search index that either way ends in.        *)
(***************************************************************************)
EXTENDS MftWindow, MftVolume

CONSTANTS
  Volumes,  \* the volumes of the run
  MaxGone   \* bound: records torn by a write, or past the end of a short read

VARIABLES
  volume,   \* the volume being read
  gone,     \* record numbers that were read but could not be used
  index,    \* the MftIndex
  source    \* "none" or "fallback" while reading, then what delivered, or "error"

vars == <<winVars, volume, gone, index, source>>

Sources == {"none", "inline", "fallback", "file", "unbuffered", "error"}

-----------------------------------------------------------------------------
InlinePlan(v) == IoOps(GenerateReadChunks(Extents(v), v.bitmapKnown), v.direct)

(* A plan is a list of reads; what lies at a position is a list of attributes,    *)
(* and the record numbers in it are numbers.                                      *)
IsList(s) == Len(s) \in Nat /\ DOMAIN s = 1 .. Len(s)

IsPlan(plan) ==
  /\ IsList(plan)
  /\ \A i \in DOMAIN plan : {plan[i].count, plan[i].frs} \subseteq Nat /\ plan[i].disk \in Int

IsSegment(seg) ==
  /\ {seg.used, seg.dir} \subseteq BOOLEAN
  /\ seg.base \in Nat \union {Self}
  /\ IsList(seg.attrs)
  /\ \A i \in DOMAIN seg.attrs :
       LET a == seg.attrs[i]
       IN /\ a.kind \in {"si", "name", "data", "i30", "ads", "other"}
          /\ a.kind = "name" => a.parent \in Nat
          /\ a.kind \in {"data", "i30"} => a.size \in Nat

ASSUME ReaderAssumption ==
  /\ MaxGone \in Nat
  /\ NoParent \notin Nat
  /\ \A v \in Volumes :
       /\ IsExtentMap(v.extents) /\ TotalRecords(v.extents) \in Nat
       /\ IsPlan(InlinePlan(v)) /\ IsPlan(FilePlan(v))
       /\ \A known \in BOOLEAN : IsPlan(GenerateReadChunks(v.extents, known))
       /\ \A p \in DOMAIN v.disk : IsSegment(v.disk[p])

MayTear(v, op) ==
  LET here == {r.frs : r \in ToSet(Found(v, op, gone))}
  IN {torn \in SUBSET here : Cardinality(gone \union torn) <= MaxGone}

Init ==
  /\ volume \in Volumes
  /\ WindowInit(InlinePlan(volume))
  /\ gone = {}
  /\ index = << >>
  /\ source = "none"

-----------------------------------------------------------------------------
ProcessFound(i, r) == ProcessRecord(i, r.frs, r.seg[1])

CompleteRead(s) ==
  /\ Complete(s)
  /\ \E torn \in MayTear(volume, ops[slot[s]]) :
       /\ gone' = gone \union torn
       /\ index' = FoldLeft(ProcessFound, index, Found(volume, ops[slot[s]], torn))
  /\ UNCHANGED <<volume, source>>

ReturnIndex ==
  /\ reader = "ok" /\ source = "none"
  /\ source' = "inline"
  /\ UNCHANGED <<winVars, volume, gone, index>>

(* The error leaves the reader with everything it had: the fallbacks start over. *)
Abandon ==
  /\ reader \in GaveUp /\ source = "none"
  /\ source' = "fallback"
  /\ index' = << >> /\ gone' = {}
  /\ ops' = << >> /\ next' = 1 /\ slot' = [s \in Slots |-> Free]
  /\ pool' = Concurrency /\ lost' = {} /\ done' = {}
  /\ UNCHANGED <<reader, volume>>

(***************************************************************************)
(* A fallback reads a plan in order and collects what it finds; the rest   *)
(* is the same for both.                                                   *)
(***************************************************************************)
FallBack(plan, how) ==
  \E torn \in SUBSET {r.frs : r \in UNION {ToSet(Found(volume, plan[i], {})) : i \in DOMAIN plan}} :
    /\ Cardinality(torn) <= MaxGone
    /\ gone' = torn
    /\ index' = FromParsedRecords(InsertMissingParents(Collected(
                  FlattenSeq([i \in DOMAIN plan |-> Found(volume, plan[i], torn)]))))
    /\ source' = how
    /\ UNCHANGED <<winVars, volume>>

ReadMftFile ==
  /\ source = "fallback"
  /\ FallBack(FilePlan(volume), "file")

(* The file could not be opened: the volume again, without buffering. *)
ReadUnbuffered ==
  /\ source = "fallback"
  /\ volume.extentsKnown
  /\ \E bitmapKnown \in BOOLEAN :
       FallBack(GenerateReadChunks(volume.extents, bitmapKnown), "unbuffered")

(* An error of the file read is final, and so is one of the last resort. *)
FallBackFails ==
  /\ source = "fallback"
  /\ source' = "error"
  /\ UNCHANGED <<winVars, volume, gone, index>>

-----------------------------------------------------------------------------
WindowOnly ==
  /\ ReaderStep \/ WaitFails \/ DeadlineExceeded
  /\ UNCHANGED <<volume, gone, index, source>>

FallBackStep == ReadMftFile \/ ReadUnbuffered \/ FallBackFails

Next ==
  \/ WindowOnly
  \/ \E s \in Slots : CompleteRead(s)
  \/ ReturnIndex \/ Abandon
  \/ FallBackStep

(***************************************************************************)
(* The kernel completes every read it accepted; the loop polls, so once    *)
(* nothing more can complete the deadline is met.  The rest is one thread  *)
(* that runs.                                                              *)
(***************************************************************************)
Spec == Init /\ [][Next]_vars

FairSpec ==
  /\ Spec
  /\ WF_winVars(ReaderStep)
  /\ WF_winVars(\E s \in Slots : Complete(s))
  /\ WF_winVars(Accepted = {} /\ DeadlineExceeded)
  /\ WF_vars(ReturnIndex \/ Abandon)
  /\ WF_source(source = "fallback" /\ source' \in {"file", "unbuffered", "error"})
=============================================================================
