----------------------------- MODULE ResultList -----------------------------
(***************************************************************************)
(* The list of the search window: results and the menu of one of them, the *)
(* preview that a thread loads for that menu, and what using an item does  *)
(* to the history and the quick launch list, in memory and on disk.        *)
(*                                                                         *)
(* The window's handlers run one after the other on the UI thread, each to *)
(* its end, so most are operators from the window's state to its next one. *)
(* Only using an item is cut into steps, where the process may end between *)
(* two writes.  The session behind the answers is SearchFlow's.            *)
(***************************************************************************)
EXTENDS Integers, SequencesExt, FiniteSetsExt

CONSTANTS
  Files,      \* what results are about
  NoFile,
  Texts,      \* texts of the input that are not blank
  PathText,   \* the one that searches in a folder
  Immediate,  \* text -> what the plugins answer at once: items with scores
  Answers,    \* text -> what the background worker may answer
  Title,      \* file -> its place in the order of titles
  Boost,      \* uses -> score added for them
  MaxHome,    \* MAX_HISTORY: recent items on the home screen
  MaxRecent,  \* MAX_RECENT: recent items kept
  MaxInputs,  \* bound: inputs of the user
  MaxFaults   \* bound: failing writes and crashes

Empty   == "empty"    \* a blank input
NoText  == "none"

Item(what, f) == [what |-> what, of |-> f]
File(f)       == Item("file", f)
Hint          == Item("hint", NoFile)   \* an entry without an action

Entries == {"open", "toggle", "copy", "search"}
Items   == {Hint} \union [what : Entries \union {"file", "folder"}, of : Files]
Scored  == [item : Items, score : Nat]

ASSUME ResultsAssumption ==
  /\ MaxHome \in Nat /\ MaxRecent \in Nat
  /\ {Empty, NoText} \cap Texts = {} /\ PathText \in Texts
  /\ \A text \in Texts :
       /\ Immediate[text] \in Seq(Scored)
       /\ Answers[text] \subseteq Seq(Scored)

VARIABLES
  app,      \* the AppState
  loads,    \* previews under way: for which file, and under which number
  history,  \* how often each key was used, and the recent ones, oldest first
  quick,    \* the files in the quick launch list
  disk,     \* history.json, quick-launch.json and its .tmp: what is in them
  ui,       \* where the UI thread is in using an item, and which
  unsaved,  \* the stores whose last save failed (not kept by any code)
  inputs, faults

vars == <<app, loads, history, quick, disk, ui, unsaved, inputs, faults>>

Unread  == << >>      \* a file that is not there, or does not parse

(***************************************************************************)
(* The menu of an item, with the item's own path in each entry.            *)
(***************************************************************************)
BuildContextItems(item) ==
  IF item.what # "file" THEN << >>
  ELSE <<Item("open", item.of), Item("toggle", item.of),
         Item("copy", item.of), Item("search", item.of)>>

-----------------------------------------------------------------------------
(* The history.  A key is the item that it opens; of the menu's entries    *)
(* only that of "open" can be opened again.                                *)
KeyOf(item) == IF item.what \in {"open", "folder"} THEN File(item.of) ELSE item

Decoded(key) == IF key.what = "file" THEN key ELSE Hint

NoHistory == [count |-> [i \in Items |-> 0], recent |-> << >>]

Newest(s, n) == IF Len(s) > n THEN SubSeq(s, Len(s) - n + 1, Len(s)) ELSE s

(* What is left of a list without an element.                              *)
Others(s, x) ==
  LET kept   == {n \in DOMAIN s : s[n] # x}
      nth(k) == CHOOSE n \in kept : Cardinality({m \in kept : m < n}) = k - 1
  IN [k \in 1 .. Cardinality(kept) |-> s[nth(k)]]

RecordFull(h, item) ==
  LET key == KeyOf(item)
  IN [count  |-> [h.count EXCEPT ![key] = @ + 1],
      recent |-> Newest(Append(Others(h.recent, key), key), MaxRecent)]

(* One hint stands for those of all plugins.                               *)
HomeScreen(h) ==
  LET recent == [n \in 1 .. Len(Newest(h.recent, MaxHome)) |->
                   Decoded(h.recent[Len(h.recent) - n + 1])]
  IN SubSeq(recent, 1, IF recent = << >> THEN 0 ELSE 1)
       \o <<Hint>> \o SubSeq(recent, 2, Len(recent))

-----------------------------------------------------------------------------
(* The list shown.                                                         *)
(* The i-th, or the last.                                                  *)
Clamp(i, list) ==
  IF i \in DOMAIN list THEN i ELSE IF list = << >> THEN 1 ELSE Len(list)

SyncActiveItems(w) ==
  IF w.view = "results"
  THEN [w EXCEPT !.items = w.results, !.selected = Clamp(w.resultSelected, w.results)]
  ELSE [w EXCEPT !.items = w.context, !.selected = Clamp(w.contextSelected, w.context)]

SetActiveSelection(w, i) ==
  LET to == Clamp(i, w.items)
  IN IF w.view = "results" THEN [w EXCEPT !.selected = to, !.resultSelected = to]
     ELSE [w EXCEPT !.selected = to, !.contextSelected = to]

SelectedItem(w) == w.items[Clamp(w.selected, w.items)]

SourceIndex(w) == Clamp(w.resultSelected, w.results)

MayOpenContext(w) ==
  /\ w.view = "results" /\ w.results # << >>
  /\ BuildContextItems(w.results[SourceIndex(w)]) # << >>

OpenContext(w) ==
  IF ~MayOpenContext(w) THEN w
  ELSE SyncActiveItems(
         [w EXCEPT !.source = SourceIndex(w),
                   !.context = BuildContextItems(w.results[SourceIndex(w)]),
                   !.contextSelected = 1, !.view = "context", !.replaced = FALSE,
                   !.preview = NoFile, !.previewSeq = @ + 1])

(* The thread that open_context_actions starts for the preview.            *)
LoadsAfter(w, opened) ==
  IF MayOpenContext(w)
  THEN loads \union {[seq |-> opened.previewSeq, file |-> opened.context[1].of]}
  ELSE loads

CloseContext(w) ==
  SyncActiveItems(
    [w EXCEPT !.view = "results", !.context = << >>, !.contextSelected = 1, !.source = 0,
              !.preview = NoFile, !.previewSeq = @ + 1])

InputChanged(w, text) ==
  LET reset == [w EXCEPT !.text = text, !.view = "results", !.selected = 1,
                         !.resultSelected = 1, !.context = << >>, !.contextSelected = 1,
                         !.source = 0, !.focused = TRUE,
                         !.preview = NoFile, !.previewSeq = @ + 1, !.deferred = NoText]
  IN IF text = Empty
     THEN SyncActiveItems([reset EXCEPT !.plugin = << >>, !.results = HomeScreen(history),
                                        !.debounce = FALSE])
     ELSE SyncActiveItems([reset EXCEPT !.debounce = TRUE])

Cleared(w) ==
  [w EXCEPT !.visible = FALSE, !.text = Empty, !.items = << >>, !.results = << >>,
            !.context = << >>, !.plugin = << >>, !.deferred = NoText, !.debounce = FALSE,
            !.preview = NoFile, !.previewSeq = @ + 1, !.selected = 1,
            !.resultSelected = 1, !.contextSelected = 1, !.source = 0,
            !.view = "results", !.focused = TRUE]

-----------------------------------------------------------------------------
(* Results.                                                                *)
Boosted(found) ==
  [n \in DOMAIN found |->
     [found[n] EXCEPT !.score = @ + Boost[history.count[KeyOf(found[n].item)]]]]

ItemsOf(found) == [n \in DOMAIN found |-> found[n].item]

(* Of items with one title the best is kept; the answers that came at once *)
(* are boosted a second time.                                              *)
Merged(plugin, answer) ==
  LET all      == Boosted(plugin) \o Boosted(answer)
      items    == ToSet(ItemsOf(all))
      best(i)  == Max({all[n].score : n \in {m \in DOMAIN all : all[m].item = i}})
      above(i) == {j \in items : \/ best(j) > best(i)
                                 \/ best(j) = best(i) /\ Title[j.of] < Title[i.of]}
  IN [n \in 1 .. Cardinality(items) |-> CHOOSE i \in items : Cardinality(above(i)) = n - 1]

Replace(w, results) ==
  SyncActiveItems([w EXCEPT !.results = results, !.replaced = (w.view = "context")])

(* Behind an open menu the results change, but not what is shown.          *)
ReplaceBehind(w, results) ==
  [w EXCEPT !.results = results, !.replaced = (w.view = "context")]

-----------------------------------------------------------------------------
Closed ==
  [visible |-> FALSE, text |-> Empty, view |-> "results", focused |-> TRUE,
   items |-> << >>, selected |-> 1, results |-> << >>, resultSelected |-> 1,
   context |-> << >>, contextSelected |-> 1, source |-> 0, replaced |-> FALSE,
   plugin |-> << >>, deferred |-> NoText, debounce |-> FALSE,
   preview |-> NoFile, previewSeq |-> 0]

AtRest == [pc |-> "idle", item |-> Hint]

Init ==
  /\ app = Closed /\ loads = {} /\ ui = AtRest
  /\ history = NoHistory /\ quick = {}
  /\ disk = [history |-> Unread, quick |-> Unread, tmp |-> Unread]
  /\ unsaved = {}
  /\ inputs = 0 /\ faults = 0

stores == <<history, quick, disk, unsaved>>

(* A message is handled when the thread is not in the middle of another.   *)
Handle == ui.pc = "idle" /\ UNCHANGED <<ui, stores, faults>>

Message == Handle /\ UNCHANGED inputs

UserInput == inputs < MaxInputs /\ inputs' = inputs + 1

Press == Handle /\ UserInput /\ app.visible

Become(w) == app' = w /\ UNCHANGED loads

Open(w) == app' = OpenContext(w) /\ loads' = LoadsAfter(w, app')

-----------------------------------------------------------------------------
Show ==
  /\ Handle /\ UserInput /\ ~app.visible
  /\ LET home == SyncActiveItems([app EXCEPT !.results = HomeScreen(history),
                                             !.plugin = << >>, !.resultSelected = 1])
     IN Become([(IF app.text = Empty THEN home ELSE app) EXCEPT !.visible = TRUE])

Hide == Press /\ Become(Cleared(app))

Type(text) == Press /\ Become(InputChanged(app, text))

(* The timer has run out: ask the plugins, some of which answer at once.   *)
RunDebounced ==
  /\ Message /\ app.debounce
  /\ LET once == [app EXCEPT !.debounce = FALSE]
         now  == Boosted(Immediate[app.text])
     IN \E deferred \in {NoText, app.text} :
          Become(Replace([once EXCEPT !.plugin = now, !.deferred = deferred], ItemsOf(now)))

(* Mutant: late results do not reach the list on the screen.               *)
PollUnseen ==
  /\ Message /\ app.deferred # NoText
  /\ \/ \E answer \in Answers[app.text] :
          Become(ReplaceBehind([app EXCEPT !.deferred = NoText], Merged(app.plugin, answer)))
     \/ Become([app EXCEPT !.deferred = NoText])

(* The answer has come, or its sender is gone.                             *)
PollDeferredResults ==
  /\ Message /\ app.deferred # NoText
  /\ \/ \E answer \in Answers[app.text] :
          LET done    == [app EXCEPT !.deferred = NoText]
              results == Merged(app.plugin, answer)
          IN Become(IF app.view = "results" THEN Replace(done, results)
                    ELSE ReplaceBehind(done, results))
     \/ Become([app EXCEPT !.deferred = NoText])

-----------------------------------------------------------------------------
SelectUp ==
  /\ Press /\ ~app.focused
  /\ Become(IF app.items # << >> /\ app.selected > 1
            THEN SetActiveSelection(app, app.selected - 1)
            ELSE [SetActiveSelection(app, app.selected) EXCEPT !.focused = (app.items # << >>)])

PointAt(w, i) == [SetActiveSelection(w, i) EXCEPT !.focused = FALSE]

SelectDown ==
  /\ Press
  /\ \/ app.focused /\ Become(PointAt(app, 1))
     \/ /\ ~app.focused
        /\ Become(IF app.items = << >> THEN app
                  ELSE SetActiveSelection(app, IF app.selected < Len(app.items)
                                               THEN app.selected + 1 ELSE 1))

MouseMove ==
  /\ Press
  /\ \E i \in DOMAIN app.items :
       (i # app.selected \/ app.focused) /\ Become(PointAt(app, i))

OpenMenu == Press /\ app.view = "results" /\ Open(app)

RightClick ==
  /\ Press /\ app.view = "results"
  /\ \E i \in DOMAIN app.items : Open(PointAt(app, i))

CloseMenu == Press /\ app.view = "context" /\ Become(CloseContext(app))

(* Mutant: whatever preview arrives is shown.                              *)
AcceptPreview ==
  /\ Message
  /\ \E l \in loads :
       /\ loads' = loads \ {l}
       /\ \/ app' = IF app.view = "context" THEN [app EXCEPT !.preview = l.file] ELSE app
          \/ UNCHANGED app

(* A preview arrives, or its thread found none.                            *)
PreviewReady ==
  /\ Message
  /\ \E l \in loads :
       /\ loads' = loads \ {l}
       /\ \/ app' = IF l.seq = app.previewSeq /\ app.view = "context"
                    THEN [app EXCEPT !.preview = l.file] ELSE app
          \/ UNCHANGED app

-----------------------------------------------------------------------------
(***************************************************************************)
(* Using an item: the history is kept and saved first, then the item acts. *)
(* From a menu it is the source that is recorded.                          *)
(***************************************************************************)
Recorded(w, item) ==
  IF w.view = "context" /\ w.source \in DOMAIN w.results THEN w.results[w.source] ELSE item

Use(w, item) ==
  /\ ui.pc = "idle" /\ UserInput /\ app.visible
  /\ Become(w)
  /\ history' = RecordFull(history, Recorded(w, item))
  /\ ui' = [pc |-> "history", item |-> item]
  /\ UNCHANGED <<quick, disk, unsaved, faults>>

IsHint(w) == w.view = "results" /\ w.text = Empty /\ SelectedItem(w) = Hint

(* Enter or a click on a hint of the home screen fills the input.          *)
FillHint ==
  /\ Press
  /\ \E i \in DOMAIN app.items :
       /\ IsHint(PointAt(app, i))
       /\ \E text \in Texts : Become(InputChanged(PointAt(app, i), text))

Enter ==
  /\ app.items # << >> /\ ~IsHint(app)
  /\ Use(app, SelectedItem(app))

Click ==
  \E i \in DOMAIN app.items :
    LET there == PointAt(app, i)
    IN ~IsHint(there) /\ Use(there, SelectedItem(there))

ExecuteIndex ==
  /\ app.view = "results"
  /\ \E i \in DOMAIN app.items : Use(PointAt(app, i), app.items[i])

(* Ctrl+Enter: show the item in its folder.                                *)
OpenFolder ==
  /\ app.view = "results" /\ app.items # << >>
  /\ LET item == SelectedItem(app)
     IN Use(app, IF item = Hint THEN Hint ELSE Item("folder", item.of))

-----------------------------------------------------------------------------
(* The steps of using an item.                                             *)
Goto(pc) == ui' = [ui EXCEPT !.pc = pc]

Fault == faults < MaxFaults /\ faults' = faults + 1

(* fs::write empties the file and then writes it.                          *)
TruncateHistory ==
  /\ ui.pc = "history" /\ Goto("write")
  /\ disk' = [disk EXCEPT !.history = Unread]
  /\ UNCHANGED <<app, loads, history, quick, unsaved, inputs, faults>>

WriteHistory ==
  /\ ui.pc = "write" /\ Goto("act")
  /\ disk' = [disk EXCEPT !.history = <<history>>]
  /\ unsaved' = unsaved \ {"history"}
  /\ UNCHANGED <<app, loads, history, quick, inputs, faults>>

HistoryFails ==
  /\ ui.pc \in {"history", "write"} /\ Goto("act") /\ Fault
  /\ unsaved' = unsaved \union {"history"}
  /\ UNCHANGED <<app, loads, history, quick, disk, inputs>>

Act ==
  /\ ui.pc = "act" /\ ui.item.what # "toggle"
  /\ ui' = AtRest
  /\ Become(CASE ui.item = Hint           -> app
              [] ui.item.what = "search"  -> InputChanged(app, PathText)
              [] OTHER                    -> Cleared(app))
  /\ UNCHANGED <<stores, inputs, faults>>

(* Mutant: the list is changed and not saved.                              *)
ToggleUnsaved ==
  /\ ui.pc = "act" /\ ui.item.what = "toggle"
  /\ Goto("reopen")
  /\ quick' = SymDiff(quick, {ui.item.of})
  /\ UNCHANGED <<app, loads, history, disk, unsaved, inputs, faults>>

Toggle ==
  /\ ui.pc = "act" /\ ui.item.what = "toggle"
  /\ Goto("tmp")
  /\ quick' = SymDiff(quick, {ui.item.of})
  /\ UNCHANGED <<app, loads, history, disk, unsaved, inputs, faults>>

WriteTmp ==
  /\ ui.pc = "tmp" /\ Goto("remove")
  /\ disk' = [disk EXCEPT !.tmp = <<quick>>]
  /\ UNCHANGED <<app, loads, history, quick, unsaved, inputs, faults>>

(* If the old file cannot be removed the rename replaces it.               *)
RemoveOld ==
  /\ ui.pc = "remove" /\ Goto("rename")
  /\ disk' \in {disk, [disk EXCEPT !.quick = Unread]}
  /\ UNCHANGED <<app, loads, history, quick, unsaved, inputs, faults>>

RenameTmp ==
  /\ ui.pc = "rename" /\ Goto("reopen")
  /\ disk' = [disk EXCEPT !.quick = disk.tmp, !.tmp = Unread]
  /\ unsaved' = unsaved \ {"quick"}
  /\ UNCHANGED <<app, loads, history, quick, inputs, faults>>

QuickFails ==
  /\ ui.pc \in {"tmp", "rename"} /\ Goto("reopen") /\ Fault
  /\ unsaved' = unsaved \union {"quick"}
  /\ UNCHANGED <<app, loads, history, quick, disk, inputs>>

(* The menu is opened again, on what is now at the place of its source.    *)
Reopen ==
  /\ ui.pc = "reopen" /\ ui' = AtRest
  /\ LET changed == InputChanged(app, app.text)
         there   == SyncActiveItems([changed EXCEPT
                      !.resultSelected = Clamp(app.source, changed.results)])
     IN IF app.view = "context" /\ app.source # 0 THEN Open(there) ELSE Become(changed)
  /\ UNCHANGED <<stores, inputs, faults>>

(***************************************************************************)
(* The process ends and is started again: what does not parse counts as    *)
(* nothing, and the .tmp file is never looked at.                          *)
(***************************************************************************)
LoadedHistory == IF disk.history = Unread THEN NoHistory ELSE disk.history[1]
LoadedQuick   == IF disk.quick = Unread THEN {} ELSE disk.quick[1]

Restart ==
  /\ Fault
  /\ app' = Closed /\ loads' = {} /\ ui' = AtRest
  /\ history' = LoadedHistory /\ quick' = LoadedQuick
  /\ unsaved' = {}
  /\ UNCHANGED <<disk, inputs>>

-----------------------------------------------------------------------------
UserStep ==
  \/ Show \/ Hide \/ \E text \in Texts \union {Empty} : Type(text)
  \/ SelectUp \/ SelectDown \/ MouseMove
  \/ OpenMenu \/ RightClick \/ CloseMenu
  \/ FillHint \/ Enter \/ Click \/ ExecuteIndex \/ OpenFolder

SaveStep ==
  \/ TruncateHistory \/ WriteHistory \/ HistoryFails
  \/ WriteTmp \/ RemoveOld \/ RenameTmp \/ QuickFails

Next ==
  \/ UserStep
  \/ RunDebounced \/ PollDeferredResults \/ PreviewReady
  \/ SaveStep \/ Act \/ Toggle \/ Reopen
  \/ Restart

Spec == Init /\ [][Next]_vars

-----------------------------------------------------------------------------
(***************************************************************************)
(* What is on the screen is the list of the present view, with the view's  *)
(* own selection as far as the list goes: what Enter takes is what is seen.*)
(* A view of its own keeps its list and its selection, and twelve handlers *)
(* change one or the other. (sync_active_items and its callers.)           *)
(***************************************************************************)
ItemsFollowTheView ==
  LET list == IF app.view = "results" THEN app.results ELSE app.context
      at   == IF app.view = "results" THEN app.resultSelected ELSE app.contextSelected
  IN app.items = list /\ app.selected = Clamp(at, list)

(***************************************************************************)
(* The preview is of the file whose menu is open, however many menus were  *)
(* opened and closed while it loaded; without a menu there is none.        *)
(* (open_context_actions, close_context_actions, WM_PREVIEW_READY.)        *)
(***************************************************************************)
PreviewIsOfTheMenu ==
  IF app.view = "results" THEN app.preview = NoFile /\ app.source = 0
  ELSE app.context # << >> /\ app.preview \in {NoFile, app.context[1].of}

(***************************************************************************)
(* And the source that is recorded when an entry is used is the item that  *)
(* opened the menu, unless late results have replaced the list behind it.  *)
(* (execute_selected_safe, poll_deferred_results.)                         *)
(***************************************************************************)
MenuIsOfItsSource ==
  /\ PreviewIsOfTheMenu
  /\ app.view = "context" /\ ~app.replaced
       => /\ app.source \in DOMAIN app.results
          /\ app.context = BuildContextItems(app.results[app.source])

(***************************************************************************)
(* A restart finds both stores as they were, unless it falls between the   *)
(* change in memory and the end of its save, or that save failed; the next *)
(* save makes up for a failed one. (History::save, save_items, load_from.) *)
(***************************************************************************)
RestartKeepsTheStores ==
  /\ ui.pc \notin {"history", "write"} /\ "history" \notin unsaved
       => LoadedHistory = history
  /\ ui.pc \notin {"tmp", "remove", "rename"} /\ "quick" \notin unsaved
       => LoadedQuick = quick
=============================================================================
