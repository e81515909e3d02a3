# Easy-Search: verification

Easy-Search is a Windows launcher that finds files by name. It reads the NTFS
master file table (MFT) of every configured drive into an in-memory index, keeps
the index current from the USN change journal, and answers the queries a user
types through plugins. This directory holds TLA+ modules translated from the
Rust sources under `src/crates`, TLC runs on small instances, and proofs.

## 1. Inventory

| part | state it keeps | operations | what is hard |
|---|---|---|---|
| drive manager (`engine/src/drive_manager.rs`) | a vector of (letter, index, revision), a generation | install, remove, apply, compact_candidate, commit_compact, build_index | every operation runs under one RwLock, but the callers' sequences of operations do not |
| engine threads (`engine/src/lib.rs`, `usn_source.rs`) | ready, shutdown, compact_in_flight flags; one engine-index thread, one thread per hot add or rebuild, one compaction thread | start-up builds, poll loop, schedule_compact, add / remove / rebuild drive, clear cache, shutdown | batches and snapshots captured under one lock acquisition and used under another; a process that ends at any point and restarts from a cache |
| logical index (`core/src/index.rs`, `delta.rs`) | immutable base records, an overlay of inserted, renamed, moved, deleted records and file-reference overrides | apply_events, search, enumerate, path lookup, compact_snapshot / rebuild | views that combine base and overlay must agree; events arrive aggregated and unordered |
| name search (`core/src/search`, `index.rs`) | buckets of base names by their first letters | score a name, collect the best entries, candidates for a session | three sources of entries (buckets or the whole base, renamed, inserted) that must not overlap or leave a gap |
| USN aggregation (`mft/src/usn`, `engine/src/usn_source.rs`) | none | fold journal records to one change per file record, convert to events | which of several changes of one record wins; file records are reused |
| flow cache (`core/src/cache.rs`) | one encrypted file per volume and its `.tmp` | write to tmp and rename, read and validate | crash between the steps, two writers |
| cache of a volume (`mft/src/cache.rs`, `cache_dataframe.rs`, `cache_compress.rs`, `reader/index_cache.rs`, `usn_apply.rs`, `commands/windows/incremental.rs`) | one `.uffs` file per volume, a lock file, temporary files per process | load, bring up to date from the journal, rebuild, save, clear, purge | several processes on one directory; a checkpoint the journal no longer reaches; removal that writes zeros first |
| security (`security/src`) | key file, lock file, ACLs, pipe handles | atomic_write, secure_remove, FileLock, encrypt, decrypt, store key, create pipe | two processes making the key; a crash in the middle of a removal |
| search session (`engine/src/search_session.rs`) | a few candidate snapshots and the generation they were taken at | narrow, extend, reset, cancel | reuse of candidates after the index changed |
| plugins (`core/src/plugin.rs`, `plugins/*`) | router with one background query worker; a session in the file-search plugin | query, cancel, reset, provide actions | answers of an older query |
| search window (`app/src`) | query text, sequence number, cancel token, deferred query, result list, context menu, preview, visibility | Win32 messages | late results, re-entrancy, hide and show during a query; positions kept in lists that others replace |
| history and quick launch (`app/src/search/history.rs`, `quick-launch-store`) | counts of uses, recent items, files pinned; one JSON file each | record, save, toggle, load | a crash or a failure between the steps of a save |
| MFT access (`mft/src/io`, `reader`, `platform`) | extents, a plan of reads, buffers and overlapped reads in flight | plan reads with or without the bitmap, read in one of ten modes, fall back to other ways | completion order, refused and failed reads, gaps between extents, channels that fill up |
| MFT parsing and index (`mft/src/io/parser`, `parse`, `index`) | an index by record number: names, streams, children | fix up, parse base and extension records in any order, merge, placeholders, rows | an extension before its base, a directory after its children, orphans and cycles |
| daemon (`daemon/src`) | deprecated service around an older engine, not a workspace member | | |

The user's queries reach `SearchEngine::search*` under the read lock; the
threads above take the write lock. Only the flags are atomics outside the lock,
and the cache files outlive the process. `build_index` reads the flow cache, or
the MFT through `read_all_index`; the cache of a volume belongs to the library
and its tool, and shares with the engine the key and the directory.

### What makes each part correct

* engine: no recorded change is lost unless a step that says so gave it up; a
  compaction never undoes a batch; one compaction at a time; the gate is always
  released; polled drives catch up; what is visible changes only with the
  generation.
* logical index: after a batch the effective records are those of the volume;
  compaction does not change them; children, parents, paths and searches agree.
* name search: a query finds each matching entry once, with its score, wherever
  the entry is kept; the limit keeps the best.
* search session: a cached candidate set yields the result of a full search.
* window: the list shown at rest belongs to the text shown; a menu, its preview and
  what using it records belong to one item; a restart finds what was saved.
* MFT reading: a plan reads each record once at its place; every read is parsed
  once or the reader fails; all ways of reading give the same volume; it ends.
* caches: a file that reads back was written completely by one writer; what is
  served is the volume at a known point of the journal; no failure of a cache
  keeps an index from the caller.

## 2. Modules

| module | models |
|---|---|
| `DriveManager` | `DriveManager` as one step per locked operation |
| `Engine` | the threads around it, the cache files, crashes; NTFS as environment |
| `EngineProperties` | types, invariants, action properties and liveness of the engine |
| `EngineProofs` | theorems about the engine |
| `EsIndex` | base, overlay, events, children, paths and compaction of one index, as operators |
| `IndexSearch` | searching one index and listing its directories, as operators |
| `IndexFeed` | one volume, the aggregation of its journal, and the index that follows it |
| `Mirror` | what the index of a volume promises (the abstract specification of `IndexFeed`) |
| `IndexProofs` | theorems about the index and its feed |
| `Folding` | lemmas about folds over sequences of any length, instantiated with the operator folded, and about sequences joined |
| `SearchSession` | the candidate cache of one input session |
| `SearchFlow` | window, router worker and file-search plugin around one session |
| `FlowProofs` | theorems about the session and about the search flow, and that the flow implements the session |
| `ResultList` | the window's list, menu and preview, and using an item: history and quick launch, in memory and on disk |
| `ResultListProofs` | theorems about them |
| `MftVolume` | a volume as the disk has it: extents, segments, attributes |
| `MftPlan` | extents, chunks, their merging and cutting into reads; the precise plan from the bitmap |
| `MftParse` | parsing records into an index, the merger and placeholders of the fallback, the rows of the engine |
| `MftWindow` | the sliding window of overlapped reads |
| `MftReader` | reading one volume into an index: window, then the file, then unbuffered reads |
| `MftProperties`, `MftProofs` | what reading promises; theorems about the window, the index, the rows and the read plans |
| `MftModes`, `MftModesProofs` | the other ways of reading, and the choice between them; theorems about them |
| `FileStore` | cache directory, handles, atomic_write, secure_remove, the lock and the key |
| `CacheImage` | what a cache file holds, the journal, and updating an image from it |
| `CacheJobs` | the requests of several processes on the caches of one volume |
| `CacheProperties` | what the caches promise |
| `CacheProofs` | theorems about the files and the jobs, and about what is handed out |
| `MCEngine`, `MCIndexFeed`, `MCSession`, `MCFlow`, `MCResultList`, `MCMft`, `MCMftModes`, `MCCache` | constants of the TLC instances |

`Engine` extends `DriveManager`; `IndexSearch` extends `IndexFeed` and that
`EsIndex`; `SearchFlow` extends `SearchSession`; `MftVolume` extends `MftPlan` and
`MftParse`, `MftReader` joins it with `MftWindow`, and `MftModes` extends it too;
`CacheJobs` extends `CacheImage` and that `FileStore`.
The families meet at abstractions: `Engine` treats an index as a set of journal
positions, and `IndexFeed` shows, for one volume, what applying a batch does to
the records themselves; `MftParse` ends at the rows from which the base of
`EsIndex` is built; the session takes from the engine that what is visible
changes only with the generation; `Engine` keeps one cache image per drive, and
`CacheJobs` shows what the files behind it go through; the answers that `SearchFlow`
lets into the list are constants of `ResultList`, which takes it from there.

### Engine

A USN is a natural number counted from 1 (0 stands for `Usn::ZERO`, "read from
the oldest record"). An index is abstracted to the set of journal positions whose
change it shows: `base` for the immutable records, `delta` for the overlay;
`lost` is a history variable that collects the positions below the cursor that
a step gave up on, so that the properties can tell a loss that the code accepts
from one nobody noticed. `place` is the generation at which a drive was
installed; since the generation only grows it orders the vector of drives, and
it identifies an installation (0: not loaded).

Program counters split a function where it releases a lock or asks the
operating system: `build_index` is ReadCache, CheckCache, BeginScan, EndScan,
QueryHead, PersistBuilt and InstallBuilt (or BuildFails); one turn of the poll
loop is ReadCursor, QueryJournal, ReadJournal, ApplyPoll and, after a batch with
events, TakeGate and Capture; the compaction thread is CompactRebuild,
CompactCommit or CompactDiscard, CompactPersist. `Env` switches on what the
surroundings may do: fail an I/O call, trim or recreate the journal, change
files during an MFT read, crash, call the API.

### Logical index

An index is a record: `base`, a sequence of (record number, name, parent), `map`,
the `FileRefMap` made of it, and
the overlay `inserted`, `renamed`, `moved`, `deleted`, `overrides`. A logical
index is a position in base followed by inserted, as in `core/src/index.rs`.
`ApplyEvents` is `apply_events` with its three handlers; `Children` is the
three passes of `logical_children_inner`; `ParentOf`, `NameOf`, `RefLookup`,
`PathOf`, `PathToIdx` are the queries; `RebuiltBase` is `compact_snapshot`, and
`FromBase` the empty overlay that `rebuild` starts with. `RefMaps` is the set of maps that
`FileRefMap::from_pairs` may give: where the record numbers are close (`IsDense`,
with `MinSpan` for the 1,024 of the code) it has one slot per record and the last
entry wins; where they are spread out the pairs are sorted by an unstable sort and
searched by bisection, so that of a record with several entries any may be found.

`IndexFeed` has one action per change of the volume (Create, Close, Rename,
Delete), which both changes `volume` and folds the journal records into
`pending` with `aggregate_changes`. The fold is done record by record instead of
once per poll; it is the same left fold. `Poll` converts `pending` to events and
applies them in every order a HashMap may give; `Compact` folds the overlay into
the base once `should_compact` says so. `ambiguous` is a history variable: the
records that had several entries when a sorted map was built, until they are
created again, which gives them an override. What NTFS allows (unique names, empty
directories only, no cycles) is the guard of the volume's actions and is
external. `FeedAssumption` says the same of the volume that the MFT read found:
finite, a tree of directories under its root, no name twice in a directory. `Env`
admits what makes two polls not independent: a record number
reused, a file open across a poll, a move into a directory just created.

### Searching the index

`Search` is `search_indexed` with its three sources of entries and the bounded
set of best ones; `SearchCandidates` is the variant that keeps every candidate
for the session; both give the set of the lists they may return, because
`sort_unstable_by` leaves equal scores in any order. `Enumerate` finds a directory
by its path and walks over it with filter and depth.
`Match` gives the score of a name for a query (0: none), so folding letters and
comparing characters is a constant; `Short` are the queries of one or two
letters, which go through the prefix buckets; `Unlimited` is a limit that no
result reaches. The empty query, cancellation in the middle of a scan, the
overflow of candidates (in `SearchSession`) and the final sorting of a listing
are left out.

### Search session

`generation` is the drive manager's; `Contents` says what the loaded indexes hold
at each generation; `session` is the `SearchSession`: its snapshots, oldest
first, and the count of candidates; `answers` keeps the last result. `Search` is
`SearchSession::search` with `search_candidates` under one read lock, composed of
`Fresh` (drop everything if the oldest snapshot is of another generation),
`Prepare` (empty it for a short query or an unrelated edit), `SourceOf` (the
exact snapshot or that of the longest prefix), `Scan` and `Push` (evict the
oldest until the new one fits). `CancelledSearch` is the same up to the scan.
Names and queries are abstract values with the relations `Matches` and `Extends`;
results are sets of (drive, id), because both kinds of search visit the entries in
index order and rank and cut them the same way.

### Search flow

| state | code |
|---|---|
| `text`, `visible`, `seq`, `active`, `items` | fields of the search window (`app/src/search`) |
| `timers`, `posted` | `SetTimer` / `KillTimer`; WM_TIMER messages that are already in the queue |
| `deferred` | `deferred_query`; dropping it cancels its job |
| `jobs`, `queue` | the background requests of `core/src/plugin.rs`, its channel |
| `worker` | the `plugin-background` thread inside `query_inner` |
| `lock`, `flag` | the session mutex and `reset_requested` of the file-search plugin |
| `ui` | how far the UI thread is in `reset_search_session` |
| `ready` | `SearchEngine::is_ready` |

The window's handlers are Type (`on_input_changed`), Hide, Show, DebounceTick
(`run_debounced_search`) and PollTick (`poll_deferred_results`); a handler runs
to its end on the UI thread, except that the reset at the end of Type and Hide is
split into UIReset steps because the worker runs meanwhile. TimerExpires posts a
message, which `KillTimer` does not take back. The worker receives a job, resets
for a directory query (PathReset) or locks the session, looks at the flag,
searches, looks again, unlocks, looks a third time (Finish) and answers (Send).
EngineReady and IndexChanges are the engine. `resets` and `stale` are history
variables: the number of resets the window asked for, and whether the session
keeps candidates from before the latest one.

### Result list

`app` is the part of `AppState` that the list needs: both views with a list and a
selection each, what is shown, the item that a menu is of (`source`, a position in
the results), the preview with its number. `loads` are the threads that load one.
`history` counts uses and keeps recent items, `quick` is the quick launch list,
`disk` the two files and the `.tmp`. Two fields are history variables: `replaced`
(late results came while a menu was open) and `unsaved` (a store's last save failed).

The window's handlers run one after the other on the UI thread, so each is an
operator from `app` to the next `app` (`SyncActiveItems`, `SetActiveSelection`,
`OpenContext`, `CloseContext`, `InputChanged`, `Cleared`) in an action of its own:
Show, Hide, Type, RunDebounced, PollDeferredResults, the keys and the mouse,
PreviewReady. Using an item (Enter, Click, ExecuteIndex, OpenFolder) is cut into
steps, because the process may end between two of them: the history is changed, then
written in place (TruncateHistory, WriteHistory, or HistoryFails), then the item acts
(Act); a toggle of quick launch changes the list (Toggle), writes a `.tmp`, removes the
old file and renames (WriteTmp, RemoveOld, RenameTmp, or QuickFails), and opens the
menu again (Reopen). Restart may come at any point.

An item is a file, an entry of a menu, a folder, or a hint; one hint stands for the
hints of all plugins and for whatever has no action. Of a menu's entries four are
kept, one for each thing that can happen: open (hides), toggle, copy (hides, and its
key cannot be read back), search (fills the input). Scrolling, window sizes and the
system's own menu are left out.

### MFT reading

`volume` is the disk: its extents (with holes), the segments with their
attributes, what the caller may know of extents and bitmap; `gone` the segments
that a torn write or an I/O error makes unreadable. `ops` is the plan of reads,
`next` the first not yet submitted, `slot` what each buffer of the window waits
for, `pool` the free buffers, `lost` the reads that were refused and that no
packet will complete, `done` the parsed ones, `reader` how the window ended,
`source` where the index came from.

QueueInitialRead, StartWaiting, Complete (with SubmitNext: one dequeued packet is
parsed and its buffer recycled for the next read), WaitFails, DeadlineExceeded and
AllCompleted are `read_all_sliding_window_iocp_to_index`. ReturnIndex, Abandon,
ReadMftFile, ReadUnbuffered and FallBackFails are `read_all_index` and its
fallbacks, which use another parser, the merger of base and extension records
and placeholders for missing directories.

The plan (`GenerateReadChunks`, `GeneratePreciseReadChunks`, `IoOps`), the parsers
(`ProcessRecord`, `ParseRecordFull`), the merger (`MergeResults`), the placeholders
(`InsertMissingParents`, `FromParsedRecords`) and `BuildRows`, the placement of
records by `build_index_from_mft_index`, are operators. The bytes
of an attribute are abstract: a kind, a name or size, a parent. Update-sequence
fix-up is the choice of what is in `gone`.

Both merges are folds with one join each (`JoinAdjacent`, `JoinPrecise`);
`MaxMergedRecords` stands for `MAX_CHUNK_BYTES`, the size a joined chunk may reach. The
sort by disk offset is the stable one of the library.

### Read modes

`MftModes` has the ways of reading that go through whole reads, in four families:
in turn (streaming, prefetch, bulk, parallel over chunks), piped (a reader thread,
a channel of buffers, a parser), windowed (overlapped reads with a pool, alone or
with parsing workers behind a channel), and pooled (all reads queued and drained
by several workers). `mode` is chosen as the caller asks or by `Auto`, with the
fall-back of the inline mode; `workers`
(`read_all_sliding_window_iocp_to_index_parallel`) has no caller in the workspace
and is modelled because it is exported. Receiving a message and parsing it is one
step of a worker; records torn on the disk are `MftReader`'s; a worker that
panics, which the join only logs, is not modelled.

### Caches

`files` is the directory, each file a record of two halves, so that a file half
written or made of two writers' halves can be told from a whole one; `handle` the
open files, `lock` the lock file, `dir` the temporary files that a clean-up saw.
`vol` is the volume's content, `journal` its range and identity, `hist` the
history by which an image can be judged. `proc` is where each process is in its
job and what it has in hand, `plan` who does what, `spent` the faults that have
happened.

The jobs are `cached` (`read_index_cached`: look, read, validate, query the
journal, apply the changes or rebuild, save), `update` (the incremental command),
`get` and `frame` (the data frame's cache), `clear`, `purge` (secure_remove),
`flow` and `persist` (the engine's cache in `build_index` and in a compaction).
Each write is a temporary file, two halves, a rename; each removal is zeros in
place, then the deletion; a crash may come between any two. The fields `upto`,
`gaps`, `asIs` of an image and `began` of a process are history only: no guard
reads them.

## 3. Runs

| run | asks | bounds |
|---|---|---|
| engine_storm | does a cursor run ahead of the content when I/O fails, the journal is trimmed or recreated, and the process restarts? is a change given up on without a reason? is the compaction gate released whichever way a compaction ends? | 1 drive, quiet while it is read, 4 positions, 2 journals, 1 crash, a compaction from 2 events on; 719,586 states |
| engine_hot | do cursors, compaction commits and the generation survive add, remove, rebuild, clear and shutdown? | 1 drive that changes while it is read, 1 hot thread, 3 positions; 1.58 million states |
| engine_live | is the compaction gate held by one, and do configured drives reach the journal head? | 2 drives sharing the gate, 2 positions each; 94,058 states |
| index_mirror | does the index show the volume as of the last poll, for every order of the events? do searches and listings? | 4 records (3 of them directories), 2 names, 5 changes, 3 queries; 81,389 states |
| index_hard | what still holds when numbers are reused, files stay open and files move into new directories? | 4 records (2 of them directories) with numbers close or spread out, so dense and sorted maps; 4 changes; 132,290 states |
| session | does the candidate cache ever change a result? | 7 queries, 2 drives, 3 names, 2 changes of the index, 2 snapshots, 3 candidates |
| flow | does the list belong to the text, is every reset honoured, does the search settle? | 4 user inputs, 1 change of the index, 2 queries and a directory query |
| window | does Enter take what is seen, is a menu with its preview of one file, does a restart find the stores? | 2 files, 2 texts, 6 inputs, 1 failing write or crash, 2 recent items; 469,235 states |
| mft_read | is the index the volume, whatever way the reading takes? does it end? | 7 layouts of 14 records, 2 to a cluster, with and without a bitmap, one drive read in pieces, one without extents; 3 reads in flight, 1 record torn; 17,659 states |
| mft_modes | does every mode parse each read once and agree with the others, and do its threads end? | 10 modes on 12 volumes, 2 workers, 2 refused or failed reads; 69,391 states |
| cache | is what the caches hand out current, whole and always there? | 12 plans of up to three requests, 2 faults of different kinds per behaviour, 2 files of which one has an extension record; 1.27 million states |
| engine_v_busyscan | refutes one statement of the source (section 6) | the smallest instance that shows it |

Why the bounds are enough. In the engine two positions make a batch that ends
below the head, a third makes one arrive during a compaction and a fourth one
after it, so every window between two lock acquisitions can hold a change. One
drive is enough where drives share nothing; they share the gate and the order of
the poll loop, which engine_live has two for. engine_storm compacts from two events
on: a batch of one leaves nothing to compact, a batch that arrives
during the compaction makes the commit a discard, and a failing call ends it at the
snapshot, at the start of the thread or at the rebuild, which with the commit are all
ways out that the gate has; each is taken, since keeping the gate on any one of them
violates `GateReleased`. One crash is enough there: `LostForAReason` says nothing once a
process has ended, and for `CursorNeverAheadOfContent` with any number of crashes there
is the theorem `CursorNeverAhead`. In index_hard the record numbers are 5, 16, 17 and 90, with 16
for `MinSpan`: the map of a base is dense without record 90 and sorted with it. In the index five changes are a create, a move and a
delete of one record interleaved with two of another, over polls and compactions
in between; four records give a directory two levels deep with a file in it. In
the session, the chains of prefixes are longer than the two snapshots kept, one
query finds more candidates than the whole budget and one none, so eviction by
count, eviction by number of candidates and overflow all happen. In the flow, four
inputs are enough to show, type, hide or clear, and type again while the worker
is still in its first search.

In the window six inputs reach the longest history that the handlers can tell apart:
show, type, use an item, show again, open the menu of a recent item, toggle it; late
results and previews come on top of the inputs, at any moment. Two files are enough for
one to take the place of the other, and two recent items for the older to be dropped.

In mft_read the fourteen records hold hard links over base and extension records
on both sides of the base, two directories that contain each other, an orphan
with a child, and a cluster not in use; the layouts are one extent, extents in
another order on the disk than in the file, a gap just small enough and just too
large to be joined, and a hole that is read along, one that misnumbers what follows
and one too wide to be joined. Three reads in flight with more than three reads
in the plan reach every order of completion between neighbours. In mft_modes a
channel is full with one or two buffers, two workers can be idle while the reader ends,
and the second failure comes while the first is being handled. In cache the plans
are the pairs and triples of requests that share a file, a lock or the key;
two faults are a failure and another one while the first is dealt with.

`CHECK_DEADLOCK FALSE` where the bounds on inputs or journal positions end the
behaviour, where the engine stops by shutdown, and where all readers or processes
have ended.

### Fairness

`Engine!FairSpec`: the engine-index thread, the compaction thread and every build
thread go on (each is a loop of calls that return). Nothing the environment does
is fair: no change of the volume, no failure, no crash, no API call need happen.

`SearchFlow!FairSpec`: the UI thread handles its messages and its reset, an armed
timer expires, the worker goes on. The user need not type, the engine need not
become ready, the index need not change. `Work` is one weakly fair action because
the worker is one thread that is enabled except while it waits for the mutex,
which the UI thread only ever tries and holds for one more step.

`MftReader!FairSpec`: the kernel completes the reads it accepted and the one
thread runs. A refused read is never completed; the deadline of the wait is what
ends the window then, and it is a step of the thread.

`MftModes!FairSpec`: every thread runs and the kernel completes each accepted
read. Strong fairness is asked of a worker's draining of a packet: each worker
waits with a time-out of 100 ms and asks again, so its turn is not continuously
enabled while others take the packets.

## 4. What the checks show

Engine: `GateExclusive` (the gate is held exactly while a compaction is being
captured or runs); `CursorNeverAheadOfContent` (every image, loaded, cached,
being built or being compacted, shows each change below its own cursor unless a
named step gave it up); `CommitKeepsContent`; `GenerationTracksContent`;
`LostForAReason` (while a process lives, a change is given up on only where the journal
dropped records or was made anew; failing I/O never costs one); under fairness `GateReleased`
(after a commit, a discard, a missing candidate, a failed snapshot, thread or
rebuild, the gate is free again) and `PolledDrivesCatchUp`.

Index: `MirrorsVolume` is the refinement `IndexFeed` => `Mirror`: the records shown
change only at a poll, and then to exactly the volume. It holds where two polls
are independent; `LookupIsCurrent` and `ChildrenAgreeWithParents` hold without
that restriction. `LookupIsCurrent`: after a poll a file is found as one of its visible
entries, one of these has its name, and that is the one found unless the record is
`ambiguous` (section 6). `SearchFindsTheVolume`: a query of three letters or more gives
each file of the volume that matches, once, with its score and its path, and a
limit keeps the best ones, wherever the overlay holds it; a short one does so up
to what section 6 says. `EnumerationIsTheSubtree`: listing a directory, found by
its path, gives what lies below it; an entry is there twice for each directory on
its way that two passes over the children come upon (section 6), and once otherwise.

Session: `SearchIsWhole`, `WithinBudget`.

Flow: `ShownBelongsToText`, `RepliesAreWhole`, `NoStaleSession`, `SearchSettles`, and
`SessionUsedWhole`, the refinement to `SearchSession`.

Window: `ItemsFollowTheView` (what Enter takes is what is seen, in either view);
`MenuIsOfItsSource` (a preview is of the file whose menu is open, however late it
arrives, and what using an entry records is that file, but for lists replaced behind
the menu, see section 6); `RestartKeepsTheStores` (a restart finds both stores, unless
it falls into a save or the last save failed, and the next save makes up for that).

MFT reading: `ReadsAccountedFor` (each submitted read is in one slot, lost, or
parsed once); `OkMeansAll` (success only after every read of the plan was
parsed);
`PlansAreSound` (each record is read once from where the extents put it, but for
the plans section 6 names); `IndexIsTheVolume` (names, sizes, streams and
children as on the disk, whatever order the reads completed in, where the plan reads
each mapped record once, in place, and finds no segment elsewhere);
`ChildEntriesNameTheirLink`; `RowsReachTheTop` (no row without a way up, orphans
and cycles included); `FallbackNamesSameFiles` (a fallback gives the records, names and
sizes that the inline way gives, but for the reparse point's size, which only the
fallback counts, section 6); `ReadEnds` under fairness.

Read modes: `EachReadOnce`, `ModesAgree` (all modes deliver the records of the
plan, but for those that number by buffer position, see section 6) and
`ReadersEnd` (all threads end, but for windowed modes after a lost read, section
6).

Caches: `TypeOK` (which includes that a process that has ended holds neither lock
nor open file); `ServedIsCurrent` (an index handed out is the volume at a moment
since the request began, unless it was served as it was by a documented way out,
and but for gaps that section 6 names); `EveryRequestServed` (a loader fails only when the volume cannot be
read); `IndexFileWhole`; `LoadedIsWhole` (no reader accepts halves of two
writers); `NoLitter` (without a crash no private temporary file is left).

Every property is broken by at least one plausible bug: the operators commented
"Mutant" next to a definition are those bugs, and `PROJECT.json` pairs them.

## 5. Proofs

All theorems hold for every value of the constants that the named assumptions
admit. `PROJECT.json` lists the results; this is the argument behind them.

* **Engine** (`EngineProofs`). `TypeCorrect`: `TypeOK` is inductive once the poll
  loop's position is known to stay within the configured drives, so the invariant
  adds that bound (`PollsConfigured`). `GateCorrect`: `GateExclusive` is inductive together with
  `TypeOK`, action by action: only TakeGate sets the gate, from an engine thread
  that has seen it free, and each way out of a compaction clears it.
  `CursorNeverAhead`: `CoveredInv` adds to the property that a build has no cursor
  before it asked for the journal's head, and that a poll about to be applied has read
  everything up to its new cursor.
  `CommitAlwaysKeeps`: `CaptureInv` says that while an image is being compacted its drive
  holds what was captured, or was installed anew (a later `place`), or took a batch (a
  later `revision`); `place` is needed because an installation restarts the revision.
  `GenerationAlwaysTracks` needs the types only. `LostAlwaysForAReason` assumes
  `Undriven`, that there are no API threads and no changes under a scan, as in
  engine_storm; without it the property is false (section 6). Its invariant
  `SteadyInv` says of a drive whose journal was never cut and of a first process: no
  image of it gave up anything, and until the first poll its cache has no overlay, which
  holds because the builds come before the compactions.
* **Session** (`FlowProofs`, first part). The inductive invariant `Whole` says that all
  snapshots are of one generation and each is the full result of its query at that
  generation. Neither half is inductive alone: the search looks only at the
  oldest snapshot's generation, so completeness of the reused one needs the single
  generation, and a snapshot is pushed at the current generation only because
  `Fresh` emptied the others (`SnapshotsAlwaysWhole`, `AlwaysOneGeneration`). The reuse lemma is where `SessionAssumption` enters:
  an entry that matches a query matches every prefix of it, so filtering a prefix's
  full result gives the query's full result.
  `AlwaysWithinBudget`: `BudgetInv` says that the generation stays within its bound,
  that the snapshots are results of a scan, and that the counter is the number of their
  candidates, each tagged with the position of its snapshot so that the sets are
  disjoint and no sum is needed; evicting the oldest `k` takes `k` tags away and renumbers
  the others, which is a bijection. `SessionAssumption` says that what a drive lists is
  finite, without which the counter would not be a number.
* **Flow** (`FlowProofs`, second part). Four invariants, each resting on the ones before it.
  `JobsInv`: the worker's job, the queue and the deferred query are jobs.
  `DeferredInv`: a job that is not deferred is cancelled (`AbandonedIsCancelled`). `ResetInv`: if stale
  candidates are kept then somebody is about to clear them, the UI thread on its way
  into its reset, the worker with the flag still to be seen, or the worker in
  relock; and the session is empty while a reset is being finished, so clearing the
  flag then loses nothing. `ReplyInv`: what the worker has found, and every reply,
  is the content at a generation between the request and now. `FlowUsesSessionWhole`
  is the refinement, proved step by step: each action of the flow is a session
  action or leaves the session, the generation and the answers alone. `ShownInv` adds
  to `ShownBelongsToText` that a job is answered with its own query, and that the
  deferred query is the text in the box whose (empty) list is already shown; the
  second is why a late answer cannot be another text's (`ShownAlwaysBelongs`).
* **Index** (`IndexProofs`). `Typed` says what an index can be (renames are of base records,
  moves and deletions of records there are), which is all that `ChildrenAlwaysAgree` needs.
  `LookupInv` relates the overrides to the entries: an override is a visible entry of its
  record or a tombstone, and of a record without one nothing was deleted or inserted, so
  the map's entry is a visible one. `RefMapIs` says what a map of either kind gives: one of
  the record's base entries, and the last one if the map is dense or there is no other.
  `Certain` is that outside `ambiguous` the lookup gives the last visible entry. `FeedInv` adds that what is pending of a record is
  how it is now (`PendingTrue`: gone, or its last name and directory, which is what
  `aggregate_changes` has to achieve), and that a file with nothing pending has an entry under
  its name, the one found where the lookup is certain (`KnownAs`). There is one lemma for each kind of event, from which `EventEffect` says what an
  event leaves of its own record and that it leaves the others alone. A poll is a fold over
  events of different records: `Folding` has the induction, with the operator as its
  constant, and `F == INSTANCE Folding WITH Op <- ApplyEvent` brings it here, where a
  lemma with an operator parameter could not be used; `PollEffect` is the result, for
  every order. `RebuildEffect` numbers the visible entries anew in their order, so each keeps its
  name (`RebuildKeepsEntries`), the last one of a record stays the last, and the lookup stays where
  it was except for records with several entries under a sorted map (`RebuildKeepsLookup`). `AlwaysMirrors` is the
  refinement of `Mirror`, for `Env = {}` as in index_mirror (with the rest of `Env` it is
  false, section 6). `MirrorInv` keeps the volume `v` of the last poll: `Faithful(index, v)`
  says that each file of `v` has one entry, under its name and linked to the entry of its
  directory, and `Behind` what the changes since then can be: a record told as created was not in `v`,
  one told as renamed was, and so was the directory it is in now. The last is what
  makes the order of the events irrelevant: that directory keeps its entry at every moment of the
  poll (`StaysFound`), while one that was just created is found only after its event.
  The root is told apart because an inserted record without a parent would look up
  nothing.
* **Searching and listing** (`IndexProofs`, second part). `SearchAlwaysFinds` and
  `EnumerationAlwaysTheSubtree`, for `Env = {}`, rest on `MirrorInv /\ TreeInv`; the second
  says that the volume stays a tree: every entry has a depth, one more than its
  directory's, parents are directories, and no name is twice in a directory. Depths make
  the recursive functions of the model solvable: `Chain` and `VolumePath` climb as many
  steps as the depth says, which is less than the number of entries, and as the index
  is `Faithful`, the chain of an entry and that of its file stay `Abreast`, so that their
  paths are the same. For searching, `KeptSoFar` is the invariant of `TopN`: what it keeps are scanned
  entries, as many as fit, and none given up is better than one kept. Sorting and
  cutting leaves nothing out that is better (`Outdone`), whatever order equal scores
  take; the candidates of a broader query lose no match; and different entries have
  different paths, so that no result is there twice. Short queries need only that
  scanning the buckets and the insertions comes upon each of those entries.
  For listing, `path_to_idx` leads to the entry of a file because names are unique
  in a directory (`Way`, `PathLeads`). The rest is counting. `Children` has an
  entry once, or twice if two passes come upon it (`InBoth`); `Adds` and `OnlyAt` count in what
  `FlattenSeq` joins; `Counted` says of each level of the walk that an entry of that depth below
  the start is there 2^n times, n entries on the way being doubled, and no other is;
  the levels are then joined, each entry being in one, and none is deeper than there are entries.
* **Result list** (`ResultListProofs`). `WindowInv` has two parts. `Sound` says of `app`
  that the items shown and the selection are those of the view, and that a menu has a
  preview of its own file or none; `Loading` says of each preview under way that its
  number is not ahead, and that the one with the present number is of the present menu.
  The second part is what makes the first inductive when a preview arrives. A step
  then either leaves the menu and its number alone, or closes the menu under a new
  number, or opens one under a new number, and there is one lemma for each
  (`StaysSound`, `LeavesMenu`, `OpensMenu`) and one for each handler. `SaveInv` adds to
  `RestartKeepsTheStores` that the `.tmp` holds the list between its writing and its
  renaming. `MenuInv` adds that an open menu is the one built from the item at `source`
  unless the list was replaced, that a hidden window shows the results, and that an
  item is in use only in a visible window; what using an entry records is then the
  source's item (`MenuAlwaysOfItsSource`).
  `ResultsAssumption` says of the texts that the empty one and none are not among them.
* **MFT window** (`MftProofs`). `WindowInv` adds to the types that each slot and
  `lost` hold submitted reads only, no read twice, and that slots, free buffers
  and lost reads add up to the window; then `ReadsAccountedFor`, `OkMeansAll` and
  `PoolSuffices` (a completion frees the buffer that the next read takes) follow (`ReadsAlwaysAccountedFor`, `OkAlwaysMeansAll`,
  `PoolAlwaysSuffices`), for every plan and every window size.
* **MFT index and rows** (`MftProofs`, second part). `Chained` is what parsing keeps
  of the index: its name chains are sequences, it has finitely many records, and the
  entry of a child in a directory names a record of the index and a place in its
  chain, counted from the oldest name, where that directory's name is. A name put in front moves every older one
  down by one, so the count from the end stays true. There is a lemma for each kind of
  attribute, then the folds over the attributes of a segment, the segments of a read
  and the reads. `IndexInv` adds that nothing is parsed once the window has ended and
  that what a fallback collects is finite; `EntriesAlwaysNameTheirLink` follows.
  `RowsAlwaysReachTheTop` needs nothing of the names: rows are added in rounds, each
  new one below one of the round before (`RoundsGrow`); as many rounds as there are
  rows cannot all add something, so before the last one nothing is left to add
  (`RoundsEnd`), and a climb loses a round with each step; what no round reached is
  directly below the root. Used are `WindowAssumption` and `ReaderAssumption`: a plan is a list of
  reads, and what lies at a position of the disk is a list of attributes of known kinds.
* **Content of the MFT index** (`MftProofs`, third part). Parsing is seen as a set of
  places: the making sure of a record, each attribute of a segment, its directory flag.
  `Shows(v, A, x)` says that the index `x` has the records that the places `A` own or
  name, and that each shows their names, sizes, streams, counts and children, each as a
  set and as a count; it says nothing of an order. A new place changes the records it
  concerns in the one respect it is about and keeps the rest: a lemma for each field
  (`LinksGrow` and `LinksKept`, and so on), then one for each kind of attribute
  (`AttributeShows`), then the folds over the attributes of a segment (`RecordsShow`)
  and over the positions of a read (`ReadShows`). The sum of the sizes is the library's,
  which takes the elements in an order of its own; that any order gives the same is
  `SummingAnyOrder`. `ContentInv` is that the index shows what the completed reads cover
  and no torn record hides; when all are completed, that is the volume
  (`IndexAlwaysTheVolume`). Used besides is `DirectoryAssumption`, a rule of the file
  system: the segment with the standard information, whose flag overwrites what was
  known of the record, has the directory flag if any segment of the record says so.
* **Read plans** (`MftProofs`, fourth part). What cutting, joining and sorting do to
  chunks is said once each: `Cut` leaves pieces that follow each other and reach from end
  to end (`CutIs`); the chunks of all extents ascend in the record numbers, and between
  two neighbours the numbers go on as the disk does, or one extent ends and the next
  with a place begins (`ChunksAre`, `Borders`). `Merged` is what the fold of a merge
  keeps true of the chunks seen so far: the last one kept ends where the last one seen
  ends, at the same distance of disk and number, and nothing covered got lost. A join
  across `Borders` keeps it where the extents are not misnumbered (`AdjacentJoins`), and
  within one extent always (`PreciseJoins`). The sort puts each chunk at its rank, and
  ranks are a bijection (`RanksAre`, `SortIs`). The clusters in use fall into runs with
  gaps between them (`RunEnds`, `RunsApart`, `RangesAre`). `PlanInv`, that the reads are
  the volume's plan until a fallback is tried, makes it `PlansAlwaysSound`, and with
  `IndexAlwaysTheVolume` it gives `InlineIndexAlwaysTheVolume`, which assumes nothing of
  the plan but that it reads no segment along. Used is, in `ReaderAssumption`,
  `IsExtentMap`: the extents are not empty and ascend, as `parse_retrieval_pointers`
  computes them from the ends that the file system reports.
* **Read modes** (`MftModesProofs`). `ModesInv` is one invariant with a part for each
  kind of mode. Common to all is `Place`: every read before `next` is with the kernel,
  lost, in hand, in the channel or with one thread, in one of them only and nowhere
  twice. It does not say that success means all; that takes the phases. In turn, all
  is taken when the loop ends. In the pipe, a failure is in hand, in the channel or
  with the caller as soon as a read is lost (`PipeInv`). In the windowed and pooled
  modes the count is that of the reads which are no longer the reader's (`Counting`),
  so it reaches the length of the plan only with nothing in flight and nothing lost;
  with workers, stops follow the last read in the channel, so that a worker which has
  ended leaves no read behind (`WorkersInv`); and a pool thread ends by itself only when
  all are counted or one is lost (`PoolInv`). There is one lemma for each move of a read
  from place to place and one for each kind of mode. Used are `ModesAssumption` and
  `PlansAreLists` (a plan is a list, whatever its extents; TLC evaluates it for the
  volumes of the run).
* **Caches** (`CacheProofs`). `CacheInv == Typed /\ OwnInv /\ FilesInv`: types; what
  a process owns (a private temporary file only in the steps between making and
  renaming it, the lock and a handle only in the jobs' steps that hold them, an
  image in hand that is whole); and what the files can be (the index file whole or
  zeros of a removal, the engine's shared temporary file made of halves). There is
  one lemma per action, and four kinds of steps (quiet, closing a file, removing,
  writing a shared or a private file) that do the work for most of them. Used are
  `NamesAssumption`, `ImageAssumption`, `PlansAssumption` and `HalvesAssumption`,
  which says that halves of different writers do not decrypt. From it:
  `NothingHeldAtTheEnd`, `RequestsAlwaysServed`, `IndexFileAlwaysWhole`,
  `LoadedAlwaysWhole`, `NeverLitter`, for any number of processes and plans.
* **What the caches hand out** (`CacheProofs`, second part). `ServedAlwaysCurrent` rests on
  `CacheInv` and on `CurrentInv`: every image, in a file, in a buffer or in hand, is the
  volume as of its own `upto`, but for its gaps; the entries of the journal, the last one
  of each file, tell what the file is now; and for each process what it has seen of the
  journal belongs to what it has read, in particular the batch about to be applied
  covers every change between the image's checkpoint and the head seen. Without the
  last one applying a batch would not keep the image true, and without the journal's
  identity in it a checkpoint could be compared with the numbers of another journal.

Only model-checked: liveness (`GateReleased`, `PolledDrivesCatchUp`, `SearchSettles`,
`ReadEnds`, `ReadersEnd`; the prover does not handle fairness); and, not proved, the
fallback's records (`FallbackNamesSameFiles`) and `ModesAgree`. Both compare what two
ways of parsing deliver after sorting and filtering, for which the prover has no
definition (`SortSeq`, `SelectSeq`); the first would also need more of the volume than
the code asks for (that the base of an extension is a base record, for one).
`LostForAReason` is proved under `Undriven` only, and `MirrorsVolume`, `SearchFindsTheVolume` and
`EnumerationIsTheSubtree` under `Env = {}`, as index_mirror checks them. The theorems do not assume the bounds
of the runs; the bounds are constants.

## 6. Where the code and its comments disagree

With a run that expects the violation, and a finding in `PROJECT.json`:

* A change made while the MFT is read may be in no batch: the cursor is taken after
  the read (`drive_manager.rs:490`; engine_v_busyscan).

Met while modelling, in the models, without a run of their own. Engine and index:

* A drive installed again starts at revision 0, so a compaction of the previous
  installation passes the revision check (`drive_manager.rs:110`).
* A drive added at run time is reported ready but never polled (`lib.rs:234`), and
  one removed while it is being built is installed again (`lib.rs:613`).
* The compactor persists the base snapshot with the cursor of the overlay, and reads
  the index to persist under a second lock acquisition (`lib.rs:811`); a restart
  skips the batches in between.
* A cached cursor that fell off the journal continues at next_usn although the
  comment says the first one (`drive_manager.rs:445`); applying a batch may move the
  cursor backwards (`drive_manager.rs:136`).
* `ready` becomes true although builds failed (`lib.rs:208`).
* Clearing the cache gives up at the first file it cannot delete and rebuilds nothing
  (`lib.rs:689`).
* A file open across a poll is created twice in the index and only one of the two
  entries is ever deleted; a record number reused within one poll leaves the old
  entry behind (`index.rs:1150`).
* The map from record numbers to entries is made of all entries, several of one record
  included (`builder.rs:145`). Dense, it finds the last, which is the current one;
  sorted, it finds any (`index.rs:151-160`, `180-183`). So after a compaction that
  kept an entry left behind, the lookup may find that one, and later renames, moves and
  deletions go to it while the current entry stays as it was.
* An inserted record that is renamed or moved is listed twice by
  `logical_children_inner` until the next compaction (`index.rs:547-577`); a file moved
  into a directory created in the same poll may keep its old parent (`index.rs:1185`).
* Queries of one or two letters go through buckets made at the last compaction: they
  miss base entries renamed since, and find insertions anywhere in the name but base
  entries only at its start, so their results change at a compaction
  (`index.rs:833`).

Window:

* A poll tick that was posted before the text changed clears `search_active` while the
  debounce is pending (`search_flow.rs`), and a text typed before the engine is ready
  is not queried again when it becomes ready.
* Late results replace the list while a menu is open, and the position of the menu's
  source is kept (`search_flow.rs:211`): using an entry may record another file than the
  one it acts on, although `execution.rs:35-36` says "Context actions operate on the
  result item that opened the menu. Record that source object". `replaced` marks it.
* Toggling quick launch from the menu of a recent item has first recorded that item, so
  the home screen is rebuilt in another order and the menu opens again at the old
  position (`execution.rs:190-198`), on another item.
* Recent items whose key is not that of something to open are decoded to no action, and
  behave like hints (`plugin_bridge.rs:338-352`); running a hint with Alt and a digit
  records an empty key.
* The history is written in place, so a crash in the middle loads as an empty one; the
  quick launch list removes its file before the rename, and when the rename fails or the
  process ends there it is gone although the `.tmp` is whole: nothing reads that.
* Answers that come at once get the boost of the history twice, in the window's poll
  and in the plugin bridge.

MFT reading:

* The sliding-iocp mode, the default of the data frame, numbers records by their
  position in a buffer filled in the order of the disk; `parse/full.rs:35` calls that
  number "The File Record Segment number". With extents out of order or a hole the
  two differ.
* The windowed modes wait for ever after a refused or failed read, although
  `iocp/reader.rs:84-86` and `sliding_window.rs:28-30` promise an error; the parallel
  mode skips chunks it could not read although its doc says that it fails.
* `read_mode.rs:22-28` says what Auto picks for SSD and HDD; the code picks
  SlidingIocp and SlidingIocpInline.
* Without a bitmap, two extents with a gap of at most 64 records are joined to one
  chunk and the second is misnumbered; the precise plan may join chunks of different
  extents (`chunking.rs:501`). A hole between two extents that are joined is read along:
  a segment that lies there, of another extent, would be taken for the hole's record
  (`FindsNoMore` is the condition under which none does).
* Reading a record again after a change appends its new name; the old one stays
  primary, and child entries are doubled (`direct_index.rs:642`,
  `direct_index_extension.rs:598-640`), although `usn.rs:68` says "the read will
  overwrite or create the full record with correct data".
* Without a default stream, the collected parser and the builder take the size of the
  reparse point for the record's size (`full.rs:640-657`, `builder.rs:194-198`); the inline
  one does not, so a file has another size after a fallback (`ReparseInstead`).
* Buffers of the bulk IOCP mode are dropped by `queue_bulk_iocp_reads` although a
  comment says that they are kept over the wait; the benchmark of several volumes
  applies no fix-up and drops refused reads.

Caches:

* Changes made during a scan, and those whose targeted re-read failed, are below the
  saved checkpoint and in no image (`gaps` in `CacheImage`). Of the second
  `usn_apply.rs:201-204` says "Failures are logged but do not abort the wider USN-update
  flow — the next refresh will pick up the missed entries": the next refresh starts at
  the checkpoint, above them.
* A file is read in one step, while `std::fs::read` may see a half already zeroed in
  place by `secure_remove` (`security/src/fs.rs:488`). What is encrypted is then
  refused by its tag; a plaintext index of an old version has none, and this case is left out.
* `remove_cached_index` deletes the lock file another process holds; the clean-up of
  temporary files runs on every look into the directory and removes those of other
  processes, although its doc says the first call of a process.
* A checkpoint of (0, 0) skips the comparison of journal identities; a temporary file
  of the flow cache stays after an error.
* An unreadable key is dropped and made anew: what was sealed with it is rebuilt.

Met in code that the models abstract from:

* A prefix that ends in a capital sigma folds to another letter than inside a longer
  word, the one exception to the assumption that a match of a query is a match of its
  prefixes.
* `settings_sync.rs` applies an empty `index_drives`, also what an unparsable settings
  file loads as, by removing every drive; `settings_store.rs:56-57` says "Empty means
  scan all fixed drives".
* The key of a copied text is cut at byte 50, which may be inside a character
  (`plugin_bridge.rs:151`).

## 7. Not modelled

* Formatting, drawing, icons, layout, themes, translations, the content of previews and
  shell menus: no state that a property could be about.
* Settings of the window; the plugins other than file search are lookups in lists read
  from disk.
* The engine's event channel and counters: data formats without control.
* Bytes: attributes, run lists, USN record buffers, encryption, compression and the
  letters' folding are constants or abstract values.
* Reads that deliver fewer bytes than were asked for: a read completes whole or fails.
* System calls: ACLs, named pipes, run-time directories, signatures, `platform/volume.rs`
  and `platform/system.rs` (queries of one ioctl each); the models have their outcomes.
* The forensic and fragment parsers, `merge_fragments`, `path_resolver`, columns, tree
  metrics (whose calls are commented out in the live paths), raw captures and the
  benchmarks have no caller in the program or belong to the tool. The trigram and
  posting modules are placeholders that nothing fills.
* The deprecated daemon, outside the workspace's members.

## 8. Plan

1. The event channel and life cycle of the engine; API calls against shutdown; the
   settings poll.
2. Proofs: the fallback's records and `ModesAgree`, once sorting and filtering have
   definitions that the prover can use.
3. Short reads, and reading a file of the cache in two steps.
