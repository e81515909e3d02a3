---------------------------- MODULE DriveManager ----------------------------
(***************************************************************************)
(* The DriveManager of crates/engine/src/drive_manager.rs: one index per   *)
(* loaded drive, a revision per drive, one generation for all of them.     *)
(* Every operator here runs under the engine's RwLock, so each is one      *)
(* step; the threads that call them are in module Engine.                  *)
(*                                                                         *)
(* What an index holds is abstracted to the set of journal positions       *)
(* (USNs, 1, 2, ...) whose change it shows: base for the immutable         *)
(* snapshot, delta for the overlay.  Module EsIndex opens that box.        *)
(***************************************************************************)
EXTENDS Integers, FiniteSets

CONSTANTS
    Drives,      \* drive letters
    CompactMin   \* overlay size that triggers compaction for these bases

ASSUME ManagerAssumption == Drives # {} /\ CompactMin \in Nat \ {0}

VARIABLES
    index,       \* drive -> the loaded image (EmptyImage when not loaded)
    revision,    \* drive -> DriveIndex::revision
    place,       \* drive -> generation at which it was installed, 0: not loaded
    generation   \* DriveManager::generation

managerVars == <<index, revision, place, generation>>

(* An EsIndex with its status.  `lost' is a history variable: the positions *)
(* below the cursor that some step of the engine gave up on.                *)
Image == [base : SUBSET Nat, delta : SUBSET Nat, cursor : Nat, jid : Nat,
          lost : SUBSET Nat]

EmptyImage == [base |-> {}, delta |-> {}, cursor |-> 0, jid |-> 0, lost |-> {}]

Reflects(i) == i.base \cup i.delta

Loaded(d) == place[d] # 0

ManagerTypeOK ==
    /\ index \in [Drives -> Image]
    /\ revision \in [Drives -> Nat]
    /\ place \in [Drives -> Nat]
    /\ generation \in Nat

ManagerInit ==
    /\ index = [d \in Drives |-> EmptyImage]
    /\ revision = [d \in Drives |-> 0]
    /\ place = [d \in Drives |-> 0]
    /\ generation = 0

-----------------------------------------------------------------------------
BumpGeneration == generation' = generation + 1

(* Vec::retain then push: the drive moves to the end of the vector, which   *)
(* `place' orders because the generation only grows.                        *)
Install(d, i) ==
    /\ BumpGeneration
    /\ index' = [index EXCEPT ![d] = i]
    /\ revision' = [revision EXCEPT ![d] = 0]
    /\ place' = [place EXCEPT ![d] = generation + 1]

(* Mutant: remove forgets bump_generation.                                  *)
RemoveSilently(d) ==
    IF Loaded(d)
    THEN /\ index' = [index EXCEPT ![d] = EmptyImage]
         /\ revision' = [revision EXCEPT ![d] = 0]
         /\ place' = [place EXCEPT ![d] = 0]
         /\ generation' = generation
    ELSE UNCHANGED managerVars

Remove(d) ==
    IF Loaded(d)
    THEN /\ BumpGeneration
         /\ index' = [index EXCEPT ![d] = EmptyImage]
         /\ revision' = [revision EXCEPT ![d] = 0]
         /\ place' = [place EXCEPT ![d] = 0]
    ELSE UNCHANGED managerVars

(* apply_events, then status.last_usn and status.journal_id.                *)
AfterBatch(i, events, next, jid, skipped) ==
    [i EXCEPT !.delta = i.delta \cup events, !.cursor = next, !.jid = jid,
              !.lost = i.lost \cup skipped]

(* Mutant: the batch is applied but the revision stays.                     *)
ApplySameRevision(d, events, next, jid, skipped) ==
    IF Loaded(d)
    THEN /\ index' = [index EXCEPT ![d] =
                        AfterBatch(index[d], events, next, jid, skipped)]
         /\ UNCHANGED <<place, revision>>
         /\ BumpGeneration
    ELSE UNCHANGED managerVars

(* DriveManager::apply.  An empty batch only moves the cursor and leaves    *)
(* revision and generation alone.  skipped: see `lost'.                     *)
Apply(d, events, next, jid, skipped) ==
    IF Loaded(d)
    THEN /\ index' = [index EXCEPT ![d] =
                        AfterBatch(index[d], events, next, jid, skipped)]
         /\ place' = place
         /\ IF events = {}
            THEN UNCHANGED <<revision, generation>>
            ELSE /\ revision' = [revision EXCEPT ![d] = @ + 1]
                 /\ BumpGeneration
    ELSE UNCHANGED managerVars

-----------------------------------------------------------------------------
ShouldCompact(d) == Loaded(d) /\ Cardinality(index[d].delta) >= CompactMin

(* The first drive, in vector order, whose overlay is big enough.           *)
IsCompactCandidate(d) ==
    /\ ShouldCompact(d)
    /\ \A e \in Drives : ShouldCompact(e) => place[d] <= place[e]

(* Mutant: the overlay is dropped instead of folded.                        *)
FoldedWithoutDelta(i) == [i EXCEPT !.delta = {}]

(* EsIndex::compact_snapshot then EsCompactSnapshot::rebuild: the overlay   *)
(* is folded into a fresh base.                                             *)
Folded(i) == [i EXCEPT !.base = Reflects(i), !.delta = {}]

(* Mutant: a loaded drive is enough.                                        *)
AnyRevisionMatches(d, r) == Loaded(d)

RevisionMatches(d, r) == Loaded(d) /\ revision[d] = r

CommitCompact(d, i) ==
    /\ BumpGeneration
    /\ index' = [index EXCEPT ![d] = i]
    /\ revision' = [revision EXCEPT ![d] = @ + 1]
    /\ place' = place
=============================================================================
