----------------------------- MODULE SearchFlow -----------------------------
(***************************************************************************)
(* From the input box to the result list: the window's message handlers    *)
(* (app/src/search/search_flow.rs, visibility.rs, window.rs), the router's *)
(* one background worker (core/src/plugin.rs) and the file-search plugin,  *)
(* whose session the worker searches with and the window resets            *)
(* (plugins/plugin-file-search/src/lib.rs).                                *)
(***************************************************************************)
EXTENDS SearchSession

CONSTANTS
    Paths,     \* query texts that name a directory
    Blank,     \* the empty text
    MaxInputs  \* bound on what the user does

ASSUME FlowAssumption ==
    /\ Paths \cap Queries = {} /\ Blank \notin Queries \cup Paths
    /\ MaxInputs \in Nat

VARIABLES
    text, visible, seq,  \* input, visible, current_search_seq
    timers, posted,      \* armed timers, WM_TIMER messages not handled yet
    deferred,            \* the job of deferred_query, if any
    active,              \* search_active
    items,               \* result_items: whose they are, what was merged
    ui,                  \* where reset_search_session is on the UI thread
    jobs, queue,         \* background requests, those not received yet
    worker,              \* the plugin-background thread
    lock, flag,          \* session mutex, reset_requested
    ready,               \* SearchEngine::is_ready
    inputs,
    resets, stale        \* history: reset requests of the window; candidates
                         \* of an earlier input session are still kept

window == <<text, visible, seq, timers, posted, deferred, active, items, inputs>>
plugin == <<session, lock, flag, stale>>
vars == <<window, ui, jobs, queue, worker, plugin, ready, resets,
          generation, answers>>

Waiting(t) == t \in timers \cup posted

NoItems == [query |-> Blank, asked |-> FALSE, replies |-> {}]

Kept == session.snapshots # <<>>

-----------------------------------------------------------------------------
(* reset_search_session: request first, then reset if nobody is searching.  *)

Requested == flag' = TRUE /\ stale' = Kept /\ UNCHANGED <<session, lock>>

(* Mutant: the counter of the candidates stays.                             *)
ResetKeepsCount == session' = [session EXCEPT !.snapshots = <<>>] /\ stale' = FALSE

ResetUnderLock == session' = EmptySession /\ stale' = FALSE

TryReset(thread) ==
    IF lock = "free"
    THEN lock' = thread /\ ResetUnderLock /\ UNCHANGED flag
    ELSE UNCHANGED plugin

ResetDone == flag' = FALSE /\ lock' = "free" /\ UNCHANGED <<session, stale>>

-----------------------------------------------------------------------------
(* The window.  A handler is one step except for the reset at its end;      *)
(* dropping a DeferredQuery cancels its job.                                *)

Dropped == [n \in DOMAIN jobs |->
              IF n \in deferred THEN [jobs[n] EXCEPT !.cancelled = TRUE] ELSE jobs[n]]

Input == ui = "idle" /\ inputs < MaxInputs /\ inputs' = inputs + 1

RequestReset == ui' = "try" /\ resets' = resets + 1 /\ Requested

(* on_input_changed                                                         *)
Type(q) ==
    /\ Input /\ visible
    /\ text' = q /\ seq' = seq + 1
    /\ deferred' = {} /\ jobs' = Dropped
    /\ IF q = Blank
       THEN items' = NoItems /\ timers' = {} /\ active' = FALSE /\ RequestReset
       ELSE /\ timers' = {"debounce"} /\ active' = TRUE
            /\ UNCHANGED <<items, ui, resets, plugin>>
    /\ UNCHANGED <<visible, posted, queue, worker, ready, generation, answers>>

(* hide_window, clear_hidden_state                                          *)
Hide ==
    /\ Input /\ visible
    /\ visible' = FALSE /\ text' = Blank /\ items' = NoItems
    /\ timers' = {} /\ active' = FALSE
    /\ deferred' = {} /\ jobs' = Dropped
    /\ RequestReset
    /\ UNCHANGED <<seq, posted, queue, worker, ready, generation, answers>>

(* show_window_safe                                                         *)
Show ==
    /\ Input /\ ~visible
    /\ visible' = TRUE
    /\ items' = IF text = Blank THEN NoItems ELSE items
    /\ UNCHANGED <<text, seq, timers, posted, deferred, active, ui, jobs, queue,
                   worker, plugin, ready, resets, generation, answers>>

UIReset ==
    /\ \/ ui = "try" /\ TryReset("ui")
          /\ ui' = IF lock = "free" THEN "release" ELSE "idle"
       \/ ui = "release" /\ ResetDone /\ ui' = "idle"
    /\ UNCHANGED <<window, jobs, queue, worker, ready, resets, generation, answers>>

(* KillTimer leaves a message that is already posted in the queue.          *)
TimerExpires(t) ==
    /\ t \in timers
    /\ posted' = posted \cup {t}
    /\ UNCHANGED <<text, visible, seq, timers, deferred, active, items, inputs, ui,
                   jobs, queue, worker, plugin, ready, resets, generation, answers>>

Tick(t) == ui = "idle" /\ t \in posted /\ posted' = posted \ {t}

NewJob == [query |-> text, seq |-> seq, since |-> generation, resets |-> resets,
           cancelled |-> FALSE, over |-> FALSE, replies |-> {}]

(* Mutant: the list of the previous text stays until the worker answers.    *)
DebounceKeepsItems ==
    /\ Tick("debounce")
    /\ IF text = Blank \/ ~ready
       THEN /\ items' = IF text = Blank THEN items
                        ELSE [query |-> text, asked |-> FALSE, replies |-> {}]
            /\ active' = FALSE /\ timers' = timers \ {"debounce"}
            /\ UNCHANGED <<deferred, jobs, queue>>
       ELSE /\ items' = [items EXCEPT !.asked = TRUE]
            /\ jobs' = Append(Dropped, NewJob)
            /\ queue' = Append(queue, Len(jobs) + 1)
            /\ deferred' = {Len(jobs) + 1}
            /\ timers' = (timers \ {"debounce"}) \cup {"poll"}
            /\ UNCHANGED active
    /\ UNCHANGED <<text, visible, seq, inputs, ui, worker, plugin, ready, resets,
                   generation, answers>>

(* run_debounced_search: the results of immediate plugins, and a job for    *)
(* the file search if the plugin takes part, which it does once the engine  *)
(* is ready.                                                                *)
DebounceTick ==
    /\ Tick("debounce")
    /\ IF text = Blank \/ ~ready
       THEN /\ items' = IF text = Blank THEN items
                        ELSE [query |-> text, asked |-> FALSE, replies |-> {}]
            /\ active' = FALSE /\ timers' = timers \ {"debounce"}
            /\ UNCHANGED <<deferred, jobs, queue>>
       ELSE /\ items' = [query |-> text, asked |-> TRUE, replies |-> {}]
            /\ jobs' = Append(Dropped, NewJob)
            /\ queue' = Append(queue, Len(jobs) + 1)
            /\ deferred' = {Len(jobs) + 1}
            /\ timers' = (timers \ {"debounce"}) \cup {"poll"}
            /\ UNCHANGED active
    /\ UNCHANGED <<text, visible, seq, inputs, ui, worker, plugin, ready, resets,
                   generation, answers>>

Arrived == \E n \in deferred : jobs[n].replies # {} \/ jobs[n].over

(* Mutant: polling stops at the first empty channel.                        *)
StopsAtOnce == TRUE

(* poll_deferred_results returns true.                                      *)
PollStops == deferred = {} \/ Arrived

(* A reply is merged only if its sequence number is still the current one.  *)
Merged == UNION {jobs[n].replies : n \in {n \in deferred : jobs[n].seq = seq}}

PollTick ==
    /\ Tick("poll")
    /\ IF PollStops
       THEN /\ items' = IF Merged = {} THEN items ELSE [items EXCEPT !.replies = Merged]
            /\ deferred' = {} /\ jobs' = Dropped
            /\ active' = FALSE /\ timers' = timers \ {"poll"}
       ELSE UNCHANGED <<items, deferred, jobs, active, timers>>
    /\ UNCHANGED <<text, visible, seq, inputs, ui, queue, worker, plugin, ready,
                   resets, generation, answers>>

-----------------------------------------------------------------------------
(* The worker: query_inner between receiving a request and answering it.    *)

At(pc) == worker.pc = pc
Goto(pc) == worker' = [worker EXCEPT !.pc = pc]
Job == jobs[worker.job]

WorkerFrame == UNCHANGED <<window, ui, ready, resets, generation, answers>>

Receive ==
    /\ At("idle") /\ queue # <<>>
    /\ queue' = Tail(queue)
    /\ LET n == Head(queue) IN
       IF jobs[n].cancelled
       THEN jobs' = [jobs EXCEPT ![n].over = TRUE] /\ UNCHANGED worker
       ELSE /\ worker' = [pc |-> IF jobs[n].query \in Paths THEN "request" ELSE "lock",
                          job |-> n, found |-> {}]
            /\ UNCHANGED jobs
    /\ WorkerFrame /\ UNCHANGED plugin

(* A path query resets the session and enumerates the directory without it. *)
PathReset ==
    /\ \/ At("request") /\ Requested /\ Goto("try")
       \/ At("try") /\ TryReset("worker")
          /\ Goto(IF lock = "free" THEN "release" ELSE "send")
       \/ At("release") /\ ResetDone /\ Goto("send")
    /\ WorkerFrame /\ UNCHANGED <<jobs, queue>>

Lock ==
    /\ At("lock") /\ lock = "free"
    /\ lock' = "worker" /\ Goto("swap")
    /\ WorkerFrame /\ UNCHANGED <<jobs, queue, session, flag, stale>>

(* reset_requested.swap with the mutex held, before and after the search.   *)
SwapUnderLock(from, to) ==
    /\ At(from) /\ Goto(to)
    /\ flag' = FALSE
    /\ IF flag THEN ResetUnderLock ELSE UNCHANGED <<session, stale>>
    /\ WorkerFrame /\ UNCHANGED <<jobs, queue, lock>>

(* search_with_session_and_cancel                                           *)
SearchStep ==
    /\ At("search")
    /\ IF Job.cancelled
       THEN CancelledSearch(Job.query) /\ Goto("swapAfter")
       ELSE /\ Search(Job.query)
            /\ worker' = [worker EXCEPT !.pc = "swapAfter",
                 !.found = Entries(Searched(session, Job.query, generation))]
    /\ stale' = (session'.snapshots # <<>> /\ (stale \/ Job.resets < resets))
    /\ UNCHANGED <<window, ui, ready, resets, jobs, queue, lock, flag>>

Unlock ==
    /\ At("unlock")
    /\ lock' = "free" /\ Goto("finish")
    /\ WorkerFrame /\ UNCHANGED <<jobs, queue, session, flag, stale>>

(* Mutant: no third look at the flag.                                       *)
FinishWithout ==
    /\ At("finish") /\ Goto("send")
    /\ WorkerFrame /\ UNCHANGED <<jobs, queue, plugin>>

(* finish_pending_reset                                                     *)
Finish ==
    /\ \/ At("finish") /\ flag' = FALSE /\ Goto(IF flag THEN "relock" ELSE "send")
          /\ UNCHANGED <<session, lock, stale>>
       \/ At("relock") /\ lock = "free" /\ ResetUnderLock /\ Goto("send")
          /\ UNCHANGED <<lock, flag>>
    /\ WorkerFrame /\ UNCHANGED <<jobs, queue>>

Send ==
    /\ At("send") /\ Goto("idle")
    /\ jobs' = [jobs EXCEPT ![worker.job].over = TRUE,
         ![worker.job].replies =
            IF Job.cancelled THEN {}
            ELSE {[query |-> Job.query, since |-> Job.since, found |-> worker.found]}]
    /\ WorkerFrame /\ UNCHANGED <<queue, plugin>>

Work ==
    \/ Receive \/ PathReset \/ Lock \/ SearchStep \/ Unlock \/ Finish \/ Send
    \/ SwapUnderLock("swap", "search") \/ SwapUnderLock("swapAfter", "unlock")

-----------------------------------------------------------------------------
EngineReady ==
    /\ ~ready /\ ready' = TRUE
    /\ UNCHANGED <<window, ui, jobs, queue, worker, plugin, resets, generation, answers>>

(* The index changes between searches.                                      *)
IndexChanges ==
    /\ Change
    /\ UNCHANGED <<window, ui, jobs, queue, worker, lock, flag, stale, ready, resets>>

Init ==
    /\ SessionInit
    /\ text = Blank /\ visible = FALSE /\ seq = 0
    /\ timers = {} /\ posted = {} /\ deferred = {} /\ active = FALSE
    /\ items = NoItems /\ inputs = 0
    /\ ui = "idle" /\ jobs = <<>> /\ queue = <<>>
    /\ worker = [pc |-> "idle", job |-> 0, found |-> {}]
    /\ lock = "free" /\ flag = FALSE /\ stale = FALSE /\ resets = 0
    /\ ready = FALSE

UserActs == (\E q \in Queries \cup Paths \cup {Blank} : Type(q)) \/ Hide \/ Show

Next ==
    \/ UserActs
    \/ UIReset \/ DebounceTick \/ PollTick
    \/ \E t \in timers : TimerExpires(t)
    \/ Work
    \/ EngineReady \/ IndexChanges

Spec == Init /\ [][Next]_vars

(* Both threads and the timers go on; the user, the engine and the index    *)
(* need not.                                                                *)
FairSpec ==
    /\ Spec
    /\ WF_vars(UIReset) /\ WF_vars(DebounceTick) /\ WF_vars(PollTick)
    /\ WF_vars(TimerExpires("debounce")) /\ WF_vars(TimerExpires("poll"))
    /\ WF_vars(Work)

-----------------------------------------------------------------------------
(* Whatever the window and the worker do at the same time, the session goes *)
(* only through whole searches, cancelled searches and resets.              *)
SessionUsedWhole == SessionSpec

Texts == Queries \cup Paths \cup {Blank}

(* The list belongs to the text in the box as soon as the debounce is over, *)
(* and a box that was emptied or hidden shows no results: an answer of an   *)
(* older query never gets into it, whenever it arrives.                     *)
ShownBelongsToText ==
    /\ text = Blank => items = NoItems
    /\ text # Blank /\ ~Waiting("debounce") =>
          items.query = text /\ \A r \in items.replies : r.query = text

(* A query whose answer the window does not wait for any more is cancelled, *)
(* so the one worker is never kept busy by an abandoned search.             *)
OnlyDeferredRuns ==
    \A n \in DOMAIN jobs : n \in deferred \/ jobs[n].cancelled

(* What the window merged is all that the index held for that query at some *)
(* moment since it was asked, with candidates reused or not.                *)
RepliesAreWhole ==
    \A r \in items.replies : r.query \in Queries =>
        \E g \in r.since .. generation : r.found = Found(r.query, g)

(* No request to reset the session gets lost: a query of the new session    *)
(* finds no candidates of an earlier one, and once both threads rest none   *)
(* are kept in memory.                                                      *)
NoStaleSession ==
    /\ At("search") /\ Job.resets = resets => ~stale
    /\ ui = "idle" /\ At("idle") => ~stale

(* Once the user stops, the busy state ends and a query that was passed to  *)
(* the worker has its answer in the list.                                   *)
SearchSettles ==
    <>[](/\ ~active
         /\ visible /\ items.asked => items.replies # {})
=============================================================================
