-------------------------- MODULE ResultListProofs --------------------------
(***************************************************************************)
(* The list on the screen, the menu and its preview, and the stores on     *)
(* disk, for every plugin, history and number of inputs and failures.      *)
(***************************************************************************)
EXTENDS ResultList, FiniteSetTheorems, SequenceTheorems, TLAPS

-----------------------------------------------------------------------------
(* The window's state by itself.  Only its fields matter, not their types, *)
(* but for the number of the preview.                                      *)

Fields ==
  {"visible", "text", "view", "focused", "items", "selected", "results",
   "resultSelected", "context", "contextSelected", "source", "replaced",
   "plugin", "deferred", "debounce", "preview", "previewSeq"}

Shaped(w) ==
  /\ DOMAIN w = Fields
  /\ w.previewSeq \in Nat
  /\ w.view \in {"results", "context"}

Follows(w) ==
  LET list == IF w.view = "results" THEN w.results ELSE w.context
      at   == IF w.view = "results" THEN w.resultSelected ELSE w.contextSelected
  IN w.items = list /\ w.selected = Clamp(at, list)

Previewed(w) ==
  IF w.view = "results" THEN w.preview = NoFile /\ w.source = 0
  ELSE w.context # << >> /\ w.preview \in {NoFile, w.context[1].of}

Sound(w) == Shaped(w) /\ Follows(w) /\ Previewed(w)

(* What a preview that is still loading may find.                          *)
Loading(w, ls) ==
  \A l \in ls :
    /\ l.seq \in Nat /\ l.seq <= w.previewSeq
    /\ l.seq = w.previewSeq /\ w.view = "context" => l.file = w.context[1].of

(* A step that leaves the menu alone, or closes it under a new number.     *)
SameMenu(w, v) ==
  v.view = w.view /\ v.context = w.context /\ v.previewSeq = w.previewSeq

NoMenu(w, v) == v.view = "results" /\ v.previewSeq = w.previewSeq + 1

LEMMA ClampTwice ==
  ASSUME NEW i, NEW list PROVE Clamp(Clamp(i, list), list) = Clamp(i, list)
BY DEF Clamp

LEMMA SyncKeeps ==
  ASSUME NEW w, Shaped(w)
  PROVE  /\ Shaped(SyncActiveItems(w)) /\ Follows(SyncActiveItems(w))
         /\ SameMenu(w, SyncActiveItems(w))
         /\ SyncActiveItems(w).preview = w.preview
         /\ SyncActiveItems(w).source = w.source
BY DEF Shaped, Fields, SyncActiveItems, Follows, SameMenu

LEMMA SelectKeeps ==
  ASSUME NEW w, Sound(w), NEW i
  PROVE  Sound(SetActiveSelection(w, i)) /\ SameMenu(w, SetActiveSelection(w, i))
<1> DEFINE v == SetActiveSelection(w, i)
<1>1. Shaped(v) /\ SameMenu(w, v) /\ v.preview = w.preview /\ v.source = w.source
  BY DEF Sound, Shaped, Fields, SetActiveSelection, SameMenu
<1>2. Follows(v)
  <2>1. CASE w.view = "results"
    <3>1. v.items = w.results /\ v.results = w.results /\ v.view = "results"
          /\ v.selected = Clamp(i, w.results) /\ v.resultSelected = Clamp(i, w.results)
      BY <2>1 DEF Sound, Shaped, Fields, SetActiveSelection, Follows
    <3> QED
      BY <3>1, ClampTwice DEF Follows
  <2>2. CASE w.view = "context"
    <3>1. v.items = w.context /\ v.context = w.context /\ v.view = "context"
          /\ v.selected = Clamp(i, w.context) /\ v.contextSelected = Clamp(i, w.context)
      BY <2>2 DEF Sound, Shaped, Fields, SetActiveSelection, Follows
    <3> QED
      BY <3>1, ClampTwice DEF Follows
  <2> QED
    BY <2>1, <2>2 DEF Sound, Shaped
<1> QED
  BY <1>1, <1>2 DEF Sound, Previewed, SameMenu

LEMMA PointKeeps ==
  ASSUME NEW w, Sound(w), NEW i
  PROVE  Sound(PointAt(w, i)) /\ SameMenu(w, PointAt(w, i))
<1> DEFINE v == SetActiveSelection(w, i)
<1>1. Sound(v) /\ SameMenu(w, v)
  BY SelectKeeps
<1> HIDE DEF v
<1>2. Sound([v EXCEPT !.focused = FALSE]) /\ SameMenu(v, [v EXCEPT !.focused = FALSE])
  BY <1>1 DEF Sound, Shaped, Fields, Follows, Previewed, SameMenu
<1> QED
  BY <1>1, <1>2 DEF PointAt, SameMenu, v

LEMMA OpenMakes ==
  ASSUME NEW w, Sound(w), MayOpenContext(w)
  PROVE  /\ Sound(OpenContext(w))
         /\ OpenContext(w).previewSeq = w.previewSeq + 1
         /\ OpenContext(w).view = "context"
<1> DEFINE menu == BuildContextItems(w.results[SourceIndex(w)])
           v == [w EXCEPT !.source = SourceIndex(w), !.context = menu,
                          !.contextSelected = 1, !.view = "context", !.replaced = FALSE,
                          !.preview = NoFile, !.previewSeq = @ + 1]
<1>1. OpenContext(w) = SyncActiveItems(v)
  BY DEF OpenContext
<1>2. menu # << >>
  BY DEF MayOpenContext
<1> HIDE DEF menu
<1>3. Shaped(v) /\ v.context = menu /\ v.view = "context" /\ v.preview = NoFile
      /\ v.previewSeq = w.previewSeq + 1
  BY DEF Sound, Shaped, Fields
<1> HIDE DEF v
<1>4. /\ Shaped(SyncActiveItems(v)) /\ Follows(SyncActiveItems(v))
      /\ SameMenu(v, SyncActiveItems(v)) /\ SyncActiveItems(v).preview = v.preview
  BY <1>3, SyncKeeps
<1> QED
  BY <1>1, <1>2, <1>3, <1>4 DEF Sound, Previewed, SameMenu

LEMMA CloseMakes ==
  ASSUME NEW w, Sound(w)
  PROVE  Sound(CloseContext(w)) /\ NoMenu(w, CloseContext(w))
<1> DEFINE v == [w EXCEPT !.view = "results", !.context = << >>, !.contextSelected = 1,
                          !.source = 0, !.preview = NoFile, !.previewSeq = @ + 1]
<1>1. Shaped(v) /\ NoMenu(w, v) /\ v.preview = NoFile /\ v.source = 0
  BY DEF Sound, Shaped, Fields, NoMenu
<1>2. CloseContext(w) = SyncActiveItems(v)
  BY DEF CloseContext
<1> HIDE DEF v
<1> QED
  BY <1>1, <1>2, SyncKeeps DEF Sound, Previewed, NoMenu, SameMenu

LEMMA InputMakes ==
  ASSUME NEW w, Sound(w), NEW text
  PROVE  Sound(InputChanged(w, text)) /\ NoMenu(w, InputChanged(w, text))
<1> DEFINE reset == [w EXCEPT !.text = text, !.view = "results", !.selected = 1,
                         !.resultSelected = 1, !.context = << >>, !.contextSelected = 1,
                         !.source = 0, !.focused = TRUE,
                         !.preview = NoFile, !.previewSeq = @ + 1, !.deferred = NoText]
           home == [reset EXCEPT !.plugin = << >>, !.results = HomeScreen(history),
                                 !.debounce = FALSE]
           armed == [reset EXCEPT !.debounce = TRUE]
           Fine(v) == Shaped(v) /\ NoMenu(w, v) /\ v.preview = NoFile /\ v.source = 0
<1>1. Fine(reset)
  <2>1. DOMAIN w = Fields /\ w.previewSeq \in Nat
    BY DEF Sound, Shaped
  <2>2. DOMAIN reset = Fields
    BY <2>1
  <2>3. reset.view = "results"
    BY <2>1 DEF Fields
  <2>4. reset.preview = NoFile
    BY <2>1 DEF Fields
  <2>5. reset.source = 0
    BY <2>1 DEF Fields
  <2>6. reset.previewSeq = w.previewSeq + 1
    BY <2>1 DEF Fields
  <2> HIDE DEF reset
  <2> QED
    BY <2>1, <2>2, <2>3, <2>4, <2>5, <2>6 DEF Shaped, NoMenu
<1>2. InputChanged(w, text) = SyncActiveItems(IF text = Empty THEN home ELSE armed)
  BY DEF InputChanged
<1> HIDE DEF reset
<1>3. Fine(home) /\ Fine(armed)
  BY <1>1 DEF Shaped, Fields, NoMenu
<1> HIDE DEF home, armed
<1>4. ASSUME NEW v, Fine(v) PROVE Sound(SyncActiveItems(v)) /\ NoMenu(w, SyncActiveItems(v))
  BY <1>4, SyncKeeps DEF Sound, Previewed, NoMenu, SameMenu
<1> QED
  BY <1>2, <1>3, <1>4

LEMMA ClearMakes ==
  ASSUME NEW w, Sound(w)
  PROVE  Sound(Cleared(w)) /\ NoMenu(w, Cleared(w))
<1> DEFINE v == Cleared(w)
<1>1. DOMAIN w = Fields /\ w.previewSeq \in Nat
  BY DEF Sound, Shaped
<1>2. DOMAIN v = Fields
  BY <1>1 DEF Cleared
<1>3. v.view = "results"
  BY <1>1 DEF Cleared, Fields
<1>4. v.items = << >> /\ v.results = << >>
  BY <1>1 DEF Cleared, Fields
<1>5. v.selected = 1 /\ v.resultSelected = 1
  BY <1>1 DEF Cleared, Fields
<1>6. v.preview = NoFile /\ v.source = 0
  BY <1>1 DEF Cleared, Fields
<1>7. v.previewSeq = w.previewSeq + 1
  BY <1>1 DEF Cleared, Fields
<1> HIDE DEF v
<1>8. Sound(v) /\ NoMenu(w, v)
  BY <1>1, <1>2, <1>3, <1>4, <1>5, <1>6, <1>7
     DEF Sound, Shaped, Follows, Previewed, NoMenu, Clamp
<1> QED
  BY <1>8 DEF v

LEMMA ReplaceKeeps ==
  ASSUME NEW w, Sound(w), NEW results
  PROVE  Sound(Replace(w, results)) /\ SameMenu(w, Replace(w, results))
<1> DEFINE v == [w EXCEPT !.results = results, !.replaced = (w.view = "context")]
<1>1. Shaped(v) /\ SameMenu(w, v) /\ v.preview = w.preview /\ v.source = w.source
  BY DEF Sound, Shaped, Fields, SameMenu
<1>2. Replace(w, results) = SyncActiveItems(v)
  BY DEF Replace
<1> HIDE DEF v
<1> QED
  BY <1>1, <1>2, SyncKeeps DEF Sound, Previewed, SameMenu

LEMMA BehindKeeps ==
  ASSUME NEW w, Sound(w), w.view = "context", NEW results
  PROVE  Sound(ReplaceBehind(w, results)) /\ SameMenu(w, ReplaceBehind(w, results))
BY DEF ReplaceBehind, Sound, Shaped, Fields, Follows, Previewed, SameMenu

(* Fields that none of this is about.                                      *)
LEMMA VisibleKeeps ==
  ASSUME NEW w, Sound(w), NEW x
  PROVE  Sound([w EXCEPT !.visible = x]) /\ SameMenu(w, [w EXCEPT !.visible = x])
BY DEF Sound, Shaped, Fields, Follows, Previewed, SameMenu

LEMMA FocusKeeps ==
  ASSUME NEW w, Sound(w), NEW x
  PROVE  Sound([w EXCEPT !.focused = x]) /\ SameMenu(w, [w EXCEPT !.focused = x])
BY DEF Sound, Shaped, Fields, Follows, Previewed, SameMenu

LEMMA DebounceKeeps ==
  ASSUME NEW w, Sound(w), NEW x
  PROVE  Sound([w EXCEPT !.debounce = x]) /\ SameMenu(w, [w EXCEPT !.debounce = x])
BY DEF Sound, Shaped, Fields, Follows, Previewed, SameMenu

LEMMA DeferredKeeps ==
  ASSUME NEW w, Sound(w), NEW x
  PROVE  Sound([w EXCEPT !.deferred = x]) /\ SameMenu(w, [w EXCEPT !.deferred = x])
BY DEF Sound, Shaped, Fields, Follows, Previewed, SameMenu

(* The list is replaced and another of its items selected.                 *)
LEMMA PlaceKeeps ==
  ASSUME NEW w, Sound(w), NEW at
  PROVE  /\ Sound(SyncActiveItems([w EXCEPT !.resultSelected = at]))
         /\ SameMenu(w, SyncActiveItems([w EXCEPT !.resultSelected = at]))
<1> DEFINE v == [w EXCEPT !.resultSelected = at]
<1>1. Shaped(v) /\ SameMenu(w, v) /\ v.preview = w.preview /\ v.source = w.source
  BY DEF Sound, Shaped, Fields, SameMenu
<1> HIDE DEF v
<1>2. Sound(SyncActiveItems(v)) /\ SameMenu(w, SyncActiveItems(v))
  BY <1>1, SyncKeeps DEF Sound, Previewed, SameMenu
<1> QED
  BY <1>2 DEF v

LEMMA HomeKeeps ==
  ASSUME NEW w, Sound(w), NEW results
  PROVE  LET v == SyncActiveItems([w EXCEPT !.results = results, !.plugin = << >>,
                                            !.resultSelected = 1])
         IN Sound(v) /\ SameMenu(w, v)
<1> DEFINE v == [w EXCEPT !.results = results, !.plugin = << >>, !.resultSelected = 1]
<1>1. Shaped(v) /\ SameMenu(w, v) /\ v.preview = w.preview /\ v.source = w.source
  BY DEF Sound, Shaped, Fields, SameMenu
<1> HIDE DEF v
<1>2. Sound(SyncActiveItems(v)) /\ SameMenu(w, SyncActiveItems(v))
  BY <1>1, SyncKeeps DEF Sound, Previewed, SameMenu
<1> QED
  BY <1>2 DEF v

-----------------------------------------------------------------------------
(* The invariant, and the three ways in which a step keeps it.             *)
WindowInv == Sound(app) /\ Loading(app, loads)

LEMMA LoadingStays ==
  ASSUME NEW w, NEW v, NEW ls, Loading(w, ls), SameMenu(w, v) PROVE Loading(v, ls)
BY DEF Loading, SameMenu

LEMMA LoadingPasses ==
  ASSUME NEW w, NEW v, NEW ls, Sound(w), Loading(w, ls), NoMenu(w, v) PROVE Loading(v, ls)
BY DEF Loading, NoMenu, Sound, Shaped

LEMMA StaysSound ==
  ASSUME WindowInv, NEW w, Sound(w), SameMenu(app, w), Become(w) PROVE WindowInv'
BY LoadingStays DEF WindowInv, Become

LEMMA LeavesMenu ==
  ASSUME WindowInv, NEW w, Sound(w), NoMenu(app, w), Become(w) PROVE WindowInv'
BY LoadingPasses DEF WindowInv, Become

LEMMA OpensMenu ==
  ASSUME NEW w, Sound(w), Loading(w, loads), Open(w) PROVE WindowInv'
<1>1. CASE MayOpenContext(w)
  <2> DEFINE v == OpenContext(w)
  <2>1. /\ Sound(v) /\ v.previewSeq = w.previewSeq + 1
        /\ app' = v
        /\ loads' = loads \union {[seq |-> v.previewSeq, file |-> v.context[1].of]}
    BY <1>1, OpenMakes DEF Open, LoadsAfter
  <2> HIDE DEF v
  <2>2. Loading(v, loads')
    BY <2>1 DEF Loading, Sound, Shaped
  <2> QED
    BY <2>1, <2>2 DEF WindowInv
<1>2. CASE ~MayOpenContext(w)
  BY <1>2 DEF Open, OpenContext, LoadsAfter, WindowInv
<1> QED
  BY <1>1, <1>2

LEMMA UsesSound ==
  ASSUME WindowInv, NEW w, Sound(w), SameMenu(app, w), NEW item, Use(w, item)
  PROVE  WindowInv'
BY StaysSound DEF Use

LEMMA WindowInit == Init => WindowInv
BY DEF Init, WindowInv, Closed, Sound, Shaped, Fields, Follows, Previewed, Loading, Clamp

LEMMA ListSteps ==
  ASSUME WindowInv,
         \/ Show \/ Hide \/ \E text \in Texts \union {Empty} : Type(text)
         \/ RunDebounced \/ PollDeferredResults \/ CloseMenu
  PROVE  WindowInv'
<1> USE DEF WindowInv
<1>1. CASE Show
  <2> DEFINE home == SyncActiveItems([app EXCEPT !.results = HomeScreen(history),
                                                 !.plugin = << >>, !.resultSelected = 1])
             at == IF app.text = Empty THEN home ELSE app
  <2>1. Sound(at) /\ SameMenu(app, at)
    BY HomeKeeps DEF SameMenu
  <2>2. Become([at EXCEPT !.visible = TRUE])
    BY <1>1 DEF Show
  <2> HIDE DEF at
  <2>3. Sound([at EXCEPT !.visible = TRUE]) /\ SameMenu(app, [at EXCEPT !.visible = TRUE])
    BY <2>1, VisibleKeeps DEF SameMenu
  <2> QED
    BY <2>2, <2>3, StaysSound
<1>2. CASE Hide
  BY <1>2, ClearMakes, LeavesMenu DEF Hide
<1>3. ASSUME NEW text, Type(text) PROVE WindowInv'
  BY <1>3, InputMakes, LeavesMenu DEF Type
<1>4. CASE RunDebounced
  <2> DEFINE once == [app EXCEPT !.debounce = FALSE]
             now == Boosted(Immediate[app.text])
             at(deferred) == [once EXCEPT !.plugin = now, !.deferred = deferred]
  <2>1. PICK deferred : Become(Replace(at(deferred), ItemsOf(now)))
    BY <1>4 DEF RunDebounced
  <2>2. Sound(once) /\ SameMenu(app, once)
    BY DebounceKeeps
  <2> HIDE DEF once, now
  <2>3. Sound(at(deferred)) /\ SameMenu(app, at(deferred))
    BY <2>2 DEF Sound, Shaped, Fields, Follows, Previewed, SameMenu
  <2> HIDE DEF at
  <2>4. /\ Sound(Replace(at(deferred), ItemsOf(now)))
        /\ SameMenu(app, Replace(at(deferred), ItemsOf(now)))
    BY <2>3, ReplaceKeeps DEF SameMenu
  <2> QED
    BY <2>1, <2>4, StaysSound
<1>5. CASE PollDeferredResults
  <2> DEFINE done == [app EXCEPT !.deferred = NoText]
  <2>1. Sound(done) /\ SameMenu(app, done)
    BY DeferredKeeps
  <2>2. PICK results :
          \/ Become(IF app.view = "results" THEN Replace(done, results)
                    ELSE ReplaceBehind(done, results))
          \/ Become(done)
    BY <1>5 DEF PollDeferredResults
  <2> HIDE DEF done
  <2>3. app.view = "results" \/ done.view = "context"
    BY <2>1 DEF Sound, Shaped, SameMenu
  <2>4. CASE app.view = "results" /\ Become(Replace(done, results))
    BY <2>1, <2>4, ReplaceKeeps, StaysSound DEF SameMenu
  <2>5. CASE done.view = "context" /\ Become(ReplaceBehind(done, results))
    BY <2>1, <2>5, BehindKeeps, StaysSound DEF SameMenu
  <2>6. CASE Become(done)
    BY <2>1, <2>6, StaysSound
  <2> QED
    BY <2>2, <2>3, <2>4, <2>5, <2>6
<1>6. CASE CloseMenu
  BY <1>6, CloseMakes, LeavesMenu DEF CloseMenu
<1> QED
  BY <1>1, <1>2, <1>3, <1>4, <1>5, <1>6

LEMMA SelectionSteps ==
  ASSUME WindowInv,
         \/ SelectUp \/ SelectDown \/ MouseMove \/ OpenMenu \/ RightClick
         \/ PreviewReady \/ FillHint
  PROVE  WindowInv'
<1> USE DEF WindowInv
<1>1. CASE SelectUp
  <2> DEFINE v == SetActiveSelection(app, app.selected)
             focused == (app.items # << >>)
  <2>1. Sound(v) /\ SameMenu(app, v)
    BY SelectKeeps
  <2>2. \/ Become(SetActiveSelection(app, app.selected - 1))
        \/ Become([v EXCEPT !.focused = focused])
    BY <1>1 DEF SelectUp
  <2> HIDE DEF v, focused
  <2>3. Sound([v EXCEPT !.focused = focused]) /\ SameMenu(app, [v EXCEPT !.focused = focused])
    BY <2>1, FocusKeeps DEF SameMenu
  <2> QED
    BY <2>2, <2>3, SelectKeeps, StaysSound
<1>2. CASE SelectDown
  <2>1. \/ \E i : Become(SetActiveSelection(app, i))
        \/ Become(PointAt(app, 1)) \/ Become(app)
    BY <1>2 DEF SelectDown
  <2>2. SameMenu(app, app)
    BY DEF SameMenu
  <2> QED
    BY <2>1, <2>2, SelectKeeps, PointKeeps, StaysSound
<1>3. CASE MouseMove
  BY <1>3, PointKeeps, StaysSound DEF MouseMove
<1>4. CASE OpenMenu
  BY <1>4, OpensMenu DEF OpenMenu
<1>5. CASE RightClick
  <2>1. PICK i : Open(PointAt(app, i))
    BY <1>5 DEF RightClick
  <2>2. Sound(PointAt(app, i)) /\ Loading(PointAt(app, i), loads)
    BY PointKeeps, LoadingStays
  <2> QED
    BY <2>1, <2>2, OpensMenu
<1>6. CASE PreviewReady
  <2>1. PICK l \in loads :
          /\ loads' = loads \ {l}
          /\ \/ app' = IF l.seq = app.previewSeq /\ app.view = "context"
                       THEN [app EXCEPT !.preview = l.file] ELSE app
             \/ app' = app
    BY <1>6 DEF PreviewReady
  <2>2. Loading(app, loads')
    BY <2>1 DEF Loading
  <2>3. CASE /\ l.seq = app.previewSeq /\ app.view = "context"
             /\ app' = [app EXCEPT !.preview = l.file]
    <3>1. l.file = app.context[1].of
      BY <2>1, <2>3 DEF Loading
    <3>2. Sound(app') /\ SameMenu(app, app')
      BY <2>3, <3>1 DEF Sound, Shaped, Fields, Follows, Previewed, SameMenu
    <3> QED
      BY <2>2, <3>2, LoadingStays DEF Loading, SameMenu
  <2>4. CASE app' = app
    BY <2>2, <2>4
  <2> QED
    BY <2>1, <2>3, <2>4
<1>7. CASE FillHint
  <2>1. PICK i, text : Become(InputChanged(PointAt(app, i), text))
    BY <1>7 DEF FillHint
  <2>2. Sound(PointAt(app, i)) /\ SameMenu(app, PointAt(app, i))
    BY PointKeeps
  <2>3. Sound(InputChanged(PointAt(app, i), text)) /\ NoMenu(app, InputChanged(PointAt(app, i), text))
    BY <2>2, InputMakes DEF SameMenu, NoMenu
  <2> QED
    BY <2>1, <2>3, LeavesMenu
<1> QED
  BY <1>1, <1>2, <1>3, <1>4, <1>5, <1>6, <1>7

LEMMA UseSteps ==
  ASSUME WindowInv, Enter \/ Click \/ ExecuteIndex \/ OpenFolder \/ Act \/ Reopen
  PROVE  WindowInv'
<1>0. Sound(app)
  BY DEF WindowInv
<1>1. CASE Enter \/ OpenFolder
  <2>1. SameMenu(app, app)
    BY DEF SameMenu
  <2> QED
    BY <1>0, <1>1, <2>1, UsesSound DEF Enter, OpenFolder
<1>2. CASE Click \/ ExecuteIndex
  <2>1. PICK i, item : Use(PointAt(app, i), item)
    BY <1>2 DEF Click, ExecuteIndex
  <2> QED
    BY <1>0, <2>1, PointKeeps, UsesSound
<1>3. CASE Act
  <2>1. Become(app) \/ Become(InputChanged(app, PathText)) \/ Become(Cleared(app))
    BY <1>3 DEF Act
  <2>2. SameMenu(app, app)
    BY DEF SameMenu
  <2> QED
    BY <1>0, <2>1, <2>2, StaysSound, InputMakes, ClearMakes, LeavesMenu
<1>4. CASE Reopen
  <2> DEFINE changed == InputChanged(app, app.text)
             at == Clamp(app.source, changed.results)
             there == SyncActiveItems([changed EXCEPT !.resultSelected = at])
  <2>1. Sound(changed) /\ NoMenu(app, changed)
    BY <1>0, InputMakes
  <2>2. Open(there) \/ Become(changed)
    BY <1>4 DEF Reopen
  <2> HIDE DEF changed, at
  <2>3. Sound(there) /\ SameMenu(changed, there)
    BY <2>1, PlaceKeeps
  <2> HIDE DEF there
  <2>4. Loading(there, loads)
    BY <1>0, <2>1, <2>3, LoadingPasses, LoadingStays DEF WindowInv
  <2> QED
    BY <2>1, <2>2, <2>3, <2>4, OpensMenu, LeavesMenu
<1> QED
  BY <1>1, <1>2, <1>3, <1>4

LEMMA WindowStep == WindowInv /\ [Next]_vars => WindowInv'
<1> SUFFICES ASSUME WindowInv, [Next]_vars PROVE WindowInv'
  OBVIOUS
<1>1. CASE SaveStep \/ Toggle \/ UNCHANGED vars
  <2>1. UNCHANGED <<app, loads>>
    BY <1>1 DEF SaveStep, TruncateHistory, WriteHistory, HistoryFails, WriteTmp, RemoveOld,
                RenameTmp, QuickFails, Toggle, vars
  <2> QED
    BY <2>1 DEF WindowInv
<1>2. CASE Restart
  <2>1. app' = Closed /\ loads' = {}
    BY <1>2 DEF Restart
  <2> QED
    BY <2>1 DEF WindowInv, Closed, Sound, Shaped, Fields, Follows, Previewed, Loading, Clamp
<1> QED
  BY <1>1, <1>2, ListSteps, SelectionSteps, UseSteps DEF Next, UserStep

(* What Enter takes is what is seen: the items shown are those of the      *)
(* view, with its selection, after any inputs and late results             *)
(* (sync_active_items and its callers).                                    *)
THEOREM ListAlwaysFollows == Spec => []ItemsFollowTheView
<1>1. WindowInv => ItemsFollowTheView
  BY DEF WindowInv, Sound, Follows, ItemsFollowTheView
<1> QED
  BY <1>1, WindowInit, WindowStep, PTL DEF Spec

(* A preview is only ever shown beside the menu of its own file, however   *)
(* late it arrives (open_context_actions, WM_PREVIEW_READY).               *)
THEOREM PreviewAlwaysOfTheMenu == Spec => []PreviewIsOfTheMenu
<1>1. WindowInv => PreviewIsOfTheMenu
  BY DEF WindowInv, Sound, Previewed, PreviewIsOfTheMenu
<1> QED
  BY <1>1, WindowInit, WindowStep, PTL DEF Spec

-----------------------------------------------------------------------------
(* The stores: between its two steps the .tmp file holds the list.         *)
SaveInv ==
  /\ DOMAIN ui = {"pc", "item"} /\ DOMAIN disk = {"history", "quick", "tmp"}
  /\ ui.pc \in {"remove", "rename"} => disk.tmp = <<quick>>
  /\ RestartKeepsTheStores

LEMMA SaveInit == Init => SaveInv
BY DEF Init, SaveInv, AtRest, RestartKeepsTheStores, LoadedHistory, LoadedQuick

LEMMA SavesKeep ==
  ASSUME SaveInv, SaveStep PROVE SaveInv'
<1> USE DEF SaveInv, RestartKeepsTheStores, LoadedHistory, LoadedQuick, Unread, Goto
<1>1. CASE TruncateHistory
  BY <1>1 DEF TruncateHistory
<1>2. CASE WriteHistory
  BY <1>2 DEF WriteHistory
<1>3. CASE HistoryFails
  BY <1>3 DEF HistoryFails
<1>4. CASE WriteTmp
  BY <1>4 DEF WriteTmp
<1>5. CASE RemoveOld
  BY <1>5 DEF RemoveOld
<1>6. CASE RenameTmp
  BY <1>6 DEF RenameTmp
<1>7. CASE QuickFails
  BY <1>7 DEF QuickFails
<1> QED
  BY <1>1, <1>2, <1>3, <1>4, <1>5, <1>6, <1>7 DEF SaveStep

LEMMA SaveStepKeeps == SaveInv /\ [Next]_vars => SaveInv'
<1> SUFFICES ASSUME SaveInv, [Next]_vars PROVE SaveInv'
  OBVIOUS
<1> USE DEF SaveInv, RestartKeepsTheStores, LoadedHistory, LoadedQuick
<1>1. CASE \E w, item : Use(w, item)
  BY <1>1 DEF Use
<1>2. CASE Act
  BY <1>2 DEF Act, AtRest, stores
<1>3. CASE Toggle
  BY <1>3 DEF Toggle, Goto
<1>4. CASE Reopen
  BY <1>4 DEF Reopen, AtRest, stores
<1>5. CASE Restart
  BY <1>5 DEF Restart, AtRest
<1>6. CASE UNCHANGED <<ui, stores>>
  BY <1>6 DEF stores
<1>7. ASSUME UserStep PROVE (\E w, item : Use(w, item)) \/ UNCHANGED <<ui, stores>>
  BY <1>7 DEF UserStep, Show, Hide, Type, SelectUp, SelectDown, MouseMove, OpenMenu,
              RightClick, CloseMenu, FillHint, Press, Handle, Enter, Click, ExecuteIndex,
              OpenFolder
<1>8. ASSUME RunDebounced \/ PollDeferredResults \/ PreviewReady
      PROVE  UNCHANGED <<ui, stores>>
  BY <1>8 DEF RunDebounced, PollDeferredResults, PreviewReady, Message, Handle
<1>9. ASSUME UNCHANGED vars PROVE UNCHANGED <<ui, stores>>
  BY <1>9 DEF vars, stores
<1> QED
  BY <1>1, <1>2, <1>3, <1>4, <1>5, <1>6, <1>7, <1>8, <1>9, SavesKeep DEF Next

(* Outside a save, and after one that succeeded, a restart finds what was  *)
(* in memory, wherever the process ended before (History::save, save_items *)
(* and the functions that load).                                           *)
THEOREM StoresAlwaysKept == Spec => []RestartKeepsTheStores
<1>1. SaveInv => RestartKeepsTheStores
  BY DEF SaveInv
<1> QED
  BY <1>1, SaveInit, SaveStepKeeps, PTL DEF Spec

-----------------------------------------------------------------------------
(***************************************************************************)
(* The menu and its source.  A list is a sequence of anything: the source  *)
(* is a position in the results, so a position that Clamp gives must be    *)
(* one of theirs, wherever they come from: the history, what plugins       *)
(* answer, or both merged.                                                 *)
(***************************************************************************)
IsList(s) == \E S : s \in Seq(S)

LEMMA ListPlaces ==
  ASSUME NEW s, IsList(s)
  PROVE  DOMAIN s = 1 .. Len(s) /\ Len(s) \in Nat
BY DEF IsList

LEMMA ListOf ==
  ASSUME NEW n \in Nat, NEW s, DOMAIN s = 1 .. n, s = [i \in DOMAIN s |-> s[i]]
  PROVE  IsList(s)
<1> DEFINE S == {s[i] : i \in 1 .. n}
<1>1. s \in [1 .. n -> S]
  OBVIOUS
<1> HIDE DEF S
<1>2. s \in Seq(S)
  BY <1>1
<1> QED BY <1>2 DEF IsList

LEMMA ListJoined ==
  ASSUME NEW s, NEW t, IsList(s), IsList(t)
  PROVE  IsList(s \o t)
<1>1. PICK S, T : s \in Seq(S) /\ t \in Seq(T)
  BY DEF IsList
<1> DEFINE U == S \union T
<1>2. S \subseteq U /\ T \subseteq U
  OBVIOUS
<1> HIDE DEF U
<1>3. s \in Seq(U) /\ t \in Seq(U)
  BY <1>1, <1>2
<1>4. s \o t \in Seq(U)
  BY <1>3
<1> QED BY <1>4 DEF IsList

LEMMA ListPart ==
  ASSUME NEW s, NEW m \in Int, NEW n \in Int
  PROVE  IsList(SubSeq(s, m, n))
<1> DEFINE S == {s[i] : i \in m .. n}
<1>1. \A i \in m .. n : s[i] \in S
  OBVIOUS
<1> HIDE DEF S
<1>2. SubSeq(s, m, n) \in Seq(S)
  BY <1>1, SubSeqProperties
<1> QED BY <1>2 DEF IsList

LEMMA ListOfOne == ASSUME NEW x PROVE IsList(<<x>>)
<1>1. <<x>> \in Seq({x})
  OBVIOUS
<1> QED BY <1>1 DEF IsList

LEMMA ListOfNone == IsList(<< >>)
<1>1. << >> \in Seq({})
  OBVIOUS
<1> QED BY <1>1 DEF IsList

LEMMA NewestIsList ==
  ASSUME NEW s, IsList(s), NEW n \in Nat
  PROVE  IsList(Newest(s, n))
<1>1. Len(s) \in Nat
  BY ListPlaces
<1> DEFINE l == Len(s)
<1>2. Newest(s, n) = s \/ Newest(s, n) = SubSeq(s, l - n + 1, l)
  BY DEF Newest
<1>3. l \in Int /\ l - n + 1 \in Int
  BY <1>1
<1> HIDE DEF l
<1> QED BY <1>2, <1>3, ListPart

(* What retain leaves: as many as there are others.                        *)
LEMMA OthersIsList ==
  ASSUME NEW s, IsList(s), NEW x
  PROVE  IsList(Others(s, x))
<1> DEFINE kept == {n \in DOMAIN s : s[n] # x}
           many == Cardinality(kept)
<1>1. IsFiniteSet(1 .. Len(s))
  BY ListPlaces, FS_Interval
<1>2. kept \in SUBSET (1 .. Len(s))
  BY ListPlaces
<1>3. many \in Nat
  BY <1>1, <1>2, FS_Subset, FS_CardinalityType
<1>4. /\ DOMAIN Others(s, x) = 1 .. many
      /\ Others(s, x) = [n \in DOMAIN Others(s, x) |-> Others(s, x)[n]]
  BY DEF Others
<1> HIDE DEF many
<1> QED BY <1>3, <1>4, ListOf

LEMMA RecordedIsList ==
  ASSUME NEW h, IsList(h.recent), NEW item
  PROVE  IsList(RecordFull(h, item).recent)
<1> DEFINE key == KeyOf(item)
           rest == Others(h.recent, key)
<1>1. RecordFull(h, item).recent = Newest(Append(rest, key), MaxRecent)
  BY DEF RecordFull
<1>2. IsList(rest)
  BY OthersIsList
<1> HIDE DEF key, rest
<1>3. PICK S : rest \in Seq(S)
  BY <1>2 DEF IsList
<1> DEFINE U == S \union {key}
<1>4. S \subseteq U /\ key \in U
  OBVIOUS
<1> HIDE DEF U
<1>5. rest \in Seq(U)
  BY <1>3, <1>4
<1>6. Append(rest, key) \in Seq(U)
  BY <1>4, <1>5
<1>7. IsList(Append(rest, key))
  BY <1>6 DEF IsList
<1>8. MaxRecent \in Nat
  BY ResultsAssumption
<1> QED BY <1>1, <1>7, <1>8, NewestIsList

LEMMA HomeIsList ==
  ASSUME NEW h, IsList(h.recent)
  PROVE  IsList(HomeScreen(h))
<1> DEFINE k == Len(Newest(h.recent, MaxHome))
           recent == [n \in 1 .. k |-> Decoded(h.recent[Len(h.recent) - n + 1])]
           one == IF recent = << >> THEN 0 ELSE 1
           first == SubSeq(recent, 1, one)
           others == SubSeq(recent, 2, Len(recent))
<1>1. HomeScreen(h) = first \o <<Hint>> \o others
  BY DEF HomeScreen
<1>2. k \in Nat
  BY ResultsAssumption, NewestIsList, ListPlaces
<1>3. DOMAIN recent = 1 .. k /\ recent = [n \in DOMAIN recent |-> recent[n]]
  OBVIOUS
<1> HIDE DEF k, recent
<1>4. IsList(recent)
  BY <1>2, <1>3, ListOf
<1>5. Len(recent) \in Int /\ one \in Int
  BY <1>4, ListPlaces
<1> HIDE DEF one
<1>6. IsList(first) /\ IsList(others)
  BY <1>5, ListPart
<1> HIDE DEF first, others
<1>7. IsList(first \o <<Hint>>)
  BY <1>6, ListOfOne, ListJoined
<1> QED BY <1>1, <1>6, <1>7, ListJoined

LEMMA BoostedIsList ==
  ASSUME NEW found, IsList(found)
  PROVE  IsList(Boosted(found)) /\ IsList(ItemsOf(found))
<1>1. DOMAIN found = 1 .. Len(found) /\ Len(found) \in Nat
  BY ListPlaces
<1>2. /\ DOMAIN Boosted(found) = DOMAIN found
      /\ Boosted(found) = [n \in DOMAIN Boosted(found) |-> Boosted(found)[n]]
  BY DEF Boosted
<1>3. /\ DOMAIN ItemsOf(found) = DOMAIN found
      /\ ItemsOf(found) = [n \in DOMAIN ItemsOf(found) |-> ItemsOf(found)[n]]
  BY DEF ItemsOf
<1>4. IsList(Boosted(found))
  BY <1>1, <1>2, ListOf
<1> QED BY <1>1, <1>3, <1>4, ListOf

LEMMA MergedIsList ==
  ASSUME NEW plugin, NEW answer, IsList(plugin), IsList(answer)
  PROVE  IsList(Merged(plugin, answer))
<1> DEFINE all == Boosted(plugin) \o Boosted(answer)
           shown == ItemsOf(all)
           items == ToSet(shown)
           many == Cardinality(items)
           best(i) == Max({all[n].score : n \in {m \in DOMAIN all : all[m].item = i}})
           above(i) == {j \in items : \/ best(j) > best(i)
                                      \/ best(j) = best(i) /\ Title[j.of] < Title[i.of]}
           nth(n) == CHOOSE i \in items : Cardinality(above(i)) = n - 1
<1>1. IsList(shown)
  BY BoostedIsList, ListJoined
<1>2. DOMAIN shown = 1 .. Len(shown) /\ Len(shown) \in Nat
  BY <1>1, ListPlaces
<1>3. Merged(plugin, answer) = [n \in 1 .. many |-> nth(n)]
  BY DEF Merged
<1>4. items = {shown[n] : n \in DOMAIN shown}
  BY DEF ToSet
<1> HIDE DEF nth
<1> HIDE DEF items
<1> HIDE DEF shown
<1>5. IsFiniteSet(DOMAIN shown)
  BY <1>2, FS_Interval
<1>6. IsFiniteSet(items)
  <2>1. shown \in [DOMAIN shown -> items]
    BY <1>1, <1>4 DEF IsList
  <2>2. shown \in Surjection(DOMAIN shown, items)
    BY <1>4, <2>1 DEF Surjection
  <2> QED BY <1>5, <2>2, FS_Surjection
<1>7. many \in Nat
  BY <1>6, FS_CardinalityType
<1> HIDE DEF many
<1>8. /\ DOMAIN Merged(plugin, answer) = 1 .. many
      /\ Merged(plugin, answer)
           = [n \in DOMAIN Merged(plugin, answer) |-> Merged(plugin, answer)[n]]
  BY <1>3
<1> QED BY <1>7, <1>8, ListOf
-----------------------------------------------------------------------------
(* Of the window: a menu whose results were not replaced is of its source. *)
(* That a query is only under way for a text makes its answers lists; that *)
(* a hidden window shows results lets Show replace them.                   *)
OfItsSource(w) ==
  w.view = "context" /\ ~w.replaced
    => /\ w.source \in DOMAIN w.results
       /\ w.context = BuildContextItems(w.results[w.source])

Menued(w) ==
  /\ OfItsSource(w)
  /\ IsList(w.results) /\ IsList(w.plugin)
  /\ ~w.visible => w.view = "results"
  /\ w.text \in Texts \union {Empty}
  /\ w.debounce \/ w.deferred # NoText => w.text # Empty

(* A step that moves the selection at most.                                *)
Same(w, v) ==
  /\ v.results = w.results /\ v.plugin = w.plugin
  /\ v.context = w.context /\ v.source = w.source
  /\ v.view = w.view /\ v.replaced = w.replaced /\ v.visible = w.visible
  /\ v.text = w.text /\ v.debounce = w.debounce /\ v.deferred = w.deferred

LEMMA SameMenued ==
  ASSUME NEW w, NEW v, Menued(w), Same(w, v)
  PROVE  Menued(v) /\ v.visible = w.visible
BY DEF Menued, Same, OfItsSource

LEMMA SyncIsSame ==
  ASSUME NEW w, Shaped(w) PROVE Same(w, SyncActiveItems(w))
BY DEF Shaped, Fields, SyncActiveItems, Same

LEMMA SelectIsSame ==
  ASSUME NEW w, Shaped(w), NEW i PROVE Same(w, SetActiveSelection(w, i))
BY DEF Shaped, Fields, SetActiveSelection, Same

LEMMA PointIsSame ==
  ASSUME NEW w, Sound(w), NEW i PROVE Same(w, PointAt(w, i))
<1> DEFINE v == SetActiveSelection(w, i)
<1>1. Shaped(v) /\ Same(w, v)
  BY SelectKeeps, SelectIsSame DEF Sound
<1> HIDE DEF v
<1>2. Same(v, [v EXCEPT !.focused = FALSE])
  BY <1>1 DEF Shaped, Fields, Same
<1> QED BY <1>1, <1>2 DEF Same, PointAt, v

LEMMA OpenIsOfItsSource ==
  ASSUME NEW w, Sound(w), Menued(w), w.visible
  PROVE  Menued(OpenContext(w)) /\ OpenContext(w).visible = w.visible
<1>1. CASE ~MayOpenContext(w)
  BY <1>1 DEF OpenContext
<1>2. CASE MayOpenContext(w)
  <2> DEFINE at == SourceIndex(w)
             menu == BuildContextItems(w.results[at])
             v == [w EXCEPT !.source = at, !.context = menu,
                            !.contextSelected = 1, !.view = "context", !.replaced = FALSE,
                            !.preview = NoFile, !.previewSeq = @ + 1]
  <2>1. OpenContext(w) = SyncActiveItems(v)
    BY <1>2 DEF OpenContext
  <2>2. at \in DOMAIN w.results
    <3>1. IsList(w.results) /\ w.results # << >>
      BY <1>2 DEF Menued, MayOpenContext
    <3>2. DOMAIN w.results = 1 .. Len(w.results) /\ Len(w.results) \in Nat
      BY <3>1, ListPlaces
    <3>3. Len(w.results) # 0
      BY <3>1 DEF IsList
    <3> DEFINE l == Len(w.results)
               rs == w.results
    <3>4. at = IF w.resultSelected \in DOMAIN rs THEN w.resultSelected ELSE l
      BY <3>1 DEF SourceIndex, Clamp
    <3>5. l \in Nat /\ l # 0 /\ DOMAIN rs = 1 .. l
      BY <3>2, <3>3
    <3> HIDE DEF l, at, rs
    <3>6. at \in DOMAIN rs
      BY <3>4, <3>5
    <3> QED BY <3>6 DEF rs
  <2> HIDE DEF at, menu
  <2>3. DOMAIN w = Fields /\ w.previewSeq \in Nat
    BY DEF Sound, Shaped
  <2>4. DOMAIN v = Fields
    BY <2>3
  <2>5. v.source = at /\ v.context = menu /\ v.view = "context" /\ v.replaced = FALSE
    BY <2>3 DEF Fields
  <2>6. v.results = w.results /\ v.plugin = w.plugin /\ v.visible = w.visible
    BY <2>3 DEF Fields
  <2>7. v.text = w.text /\ v.debounce = w.debounce /\ v.deferred = w.deferred
    BY <2>3 DEF Fields
  <2>8. v.previewSeq = w.previewSeq + 1
    BY <2>3 DEF Fields
  <2> HIDE DEF v
  <2>9. Shaped(v)
    BY <2>3, <2>4, <2>5, <2>8 DEF Shaped
  <2>10. Menued(v)
    BY <2>2, <2>5, <2>6, <2>7 DEF Menued, OfItsSource, menu
  <2> QED BY <2>1, <2>6, <2>9, <2>10, SyncIsSame, SameMenued
<1> QED BY <1>1, <1>2

LEMMA CloseMenued ==
  ASSUME NEW w, Sound(w), Menued(w)
  PROVE  Menued(CloseContext(w)) /\ CloseContext(w).visible = w.visible
<1> DEFINE v == [w EXCEPT !.view = "results", !.context = << >>, !.contextSelected = 1,
                          !.source = 0, !.preview = NoFile, !.previewSeq = @ + 1]
<1>1. DOMAIN w = Fields /\ w.previewSeq \in Nat
  BY DEF Sound, Shaped
<1>2. DOMAIN v = Fields /\ v.view = "results" /\ v.previewSeq = w.previewSeq + 1
  BY <1>1 DEF Fields
<1>3. v.results = w.results /\ v.plugin = w.plugin /\ v.visible = w.visible
  BY <1>1 DEF Fields
<1>4. v.text = w.text /\ v.debounce = w.debounce /\ v.deferred = w.deferred
  BY <1>1 DEF Fields
<1>5. CloseContext(w) = SyncActiveItems(v)
  BY DEF CloseContext
<1> HIDE DEF v
<1>6. Shaped(v) /\ Menued(v)
  BY <1>1, <1>2, <1>3, <1>4 DEF Shaped, Menued, OfItsSource
<1> QED BY <1>3, <1>5, <1>6, SyncIsSame, SameMenued

LEMMA InputMenued ==
  ASSUME NEW w, Sound(w), Menued(w), IsList(history.recent),
         NEW text \in Texts \union {Empty}
  PROVE  /\ Menued(InputChanged(w, text))
         /\ InputChanged(w, text).visible = w.visible
         /\ InputChanged(w, text).view = "results"
<1> DEFINE reset == [w EXCEPT !.text = text, !.view = "results", !.selected = 1,
                         !.resultSelected = 1, !.context = << >>, !.contextSelected = 1,
                         !.source = 0, !.focused = TRUE,
                         !.preview = NoFile, !.previewSeq = @ + 1, !.deferred = NoText]
           home == [reset EXCEPT !.plugin = << >>, !.results = HomeScreen(history),
                                 !.debounce = FALSE]
           armed == [reset EXCEPT !.debounce = TRUE]
<1>1. DOMAIN w = Fields /\ w.previewSeq \in Nat
  BY DEF Sound, Shaped
<1>2. DOMAIN reset = Fields /\ reset.view = "results" /\ reset.text = text
  BY <1>1 DEF Fields
<1>3. reset.results = w.results /\ reset.plugin = w.plugin /\ reset.visible = w.visible
  BY <1>1 DEF Fields
<1>4. reset.deferred = NoText /\ reset.previewSeq = w.previewSeq + 1
  BY <1>1 DEF Fields
<1>5. InputChanged(w, text) = SyncActiveItems(IF text = Empty THEN home ELSE armed)
  BY DEF InputChanged
<1> HIDE DEF reset
<1>6. CASE text = Empty
  <2>1. Shaped(home)
    BY <1>1, <1>2, <1>4 DEF Shaped, Fields
  <2>2. home.results = HomeScreen(history) /\ home.plugin = << >> /\ home.debounce = FALSE
    BY <1>2 DEF Fields
  <2>3. home.view = "results" /\ home.text = text /\ home.visible = w.visible
        /\ home.deferred = NoText
    BY <1>2, <1>3, <1>4 DEF Fields
  <2> HIDE DEF home
  <2>4. Menued(home)
    BY <2>2, <2>3, HomeIsList, ListOfNone DEF Menued, OfItsSource
  <2>5. InputChanged(w, text) = SyncActiveItems(home)
    BY <1>5, <1>6
  <2> QED BY <2>1, <2>3, <2>4, <2>5, SyncIsSame, SameMenued DEF Same
<1>7. CASE text # Empty
  <2>1. Shaped(armed)
    BY <1>1, <1>2, <1>4 DEF Shaped, Fields
  <2>2. armed.results = w.results /\ armed.plugin = w.plugin
    BY <1>2, <1>3 DEF Fields
  <2>3. armed.view = "results" /\ armed.text = text /\ armed.visible = w.visible
        /\ armed.deferred = NoText
    BY <1>2, <1>3, <1>4 DEF Fields
  <2> HIDE DEF armed
  <2>4. Menued(armed)
    BY <1>7, <2>2, <2>3 DEF Menued, OfItsSource
  <2>5. InputChanged(w, text) = SyncActiveItems(armed)
    BY <1>5, <1>7
  <2> QED BY <2>1, <2>3, <2>4, <2>5, SyncIsSame, SameMenued DEF Same
<1> QED BY <1>6, <1>7

LEMMA ClearMenued ==
  ASSUME NEW w, Sound(w)
  PROVE  Menued(Cleared(w))
<1> DEFINE v == Cleared(w)
<1>1. DOMAIN w = Fields
  BY DEF Sound, Shaped
<1>2. v.results = << >> /\ v.plugin = << >> /\ v.view = "results"
  BY <1>1 DEF Cleared, Fields
<1>3. v.text = Empty /\ v.debounce = FALSE /\ v.deferred = NoText
  BY <1>1 DEF Cleared, Fields
<1> HIDE DEF v
<1>4. Menued(v)
  BY <1>2, <1>3, ListOfNone DEF Menued, OfItsSource
<1> QED BY <1>4 DEF v

LEMMA ReplaceMenued ==
  ASSUME NEW w, Sound(w), Menued(w), NEW results, IsList(results)
  PROVE  /\ Menued(Replace(w, results)) /\ Menued(ReplaceBehind(w, results))
         /\ Replace(w, results).visible = w.visible
         /\ ReplaceBehind(w, results).visible = w.visible
<1> DEFINE v == [w EXCEPT !.results = results, !.replaced = (w.view = "context")]
<1>1. Shaped(v)
  BY DEF Sound, Shaped, Fields
<1>2. DOMAIN w = Fields
  BY DEF Sound, Shaped
<1>3. v.results = results /\ v.replaced = (w.view = "context") /\ v.view = w.view
  BY <1>2 DEF Fields
<1>4. v.plugin = w.plugin /\ v.visible = w.visible /\ v.text = w.text
      /\ v.debounce = w.debounce /\ v.deferred = w.deferred
  BY <1>2 DEF Fields
<1>5. Replace(w, results) = SyncActiveItems(v) /\ ReplaceBehind(w, results) = v
  BY DEF Replace, ReplaceBehind
<1> HIDE DEF v
<1>6. Menued(v)
  BY <1>3, <1>4 DEF Menued, OfItsSource
<1> QED BY <1>1, <1>4, <1>5, <1>6, SyncIsSame, SameMenued

-----------------------------------------------------------------------------
(* The invariant: both invariants above, what the menu needs, lists in the *)
(* history and in its file, and an item is only used in a visible window.  *)
Kept ==
  /\ IsList(history.recent)
  /\ disk.history # Unread => IsList(disk.history[1].recent)
  /\ ui.pc # "idle" => app.visible

MenuInv == WindowInv /\ SaveInv /\ Menued(app) /\ Kept

LEMMA MenuInit == Init => Menued(app) /\ Kept
BY ListOfNone DEF Init, Closed, AtRest, NoHistory, Menued, OfItsSource, Kept

(* A message changes the window only; what it makes of it is all that      *)
(* counts.                                                                 *)
LEMMA HandledMenu ==
  ASSUME MenuInv, Handle, NEW w, Menued(w), app' = w
  PROVE  Menued(app)' /\ Kept'
BY DEF MenuInv, Handle, stores, Kept

LEMMA ListMenu ==
  ASSUME MenuInv,
         \/ Show \/ Hide \/ \E text \in Texts \union {Empty} : Type(text)
         \/ RunDebounced \/ PollDeferredResults \/ CloseMenu
  PROVE  Menued(app)' /\ Kept'
<1>0. Sound(app) /\ Menued(app) /\ IsList(history.recent) /\ Shaped(app)
  BY DEF MenuInv, WindowInv, Kept, Sound
<1>1. CASE Show
  <2> DEFINE u == [app EXCEPT !.results = HomeScreen(history), !.plugin = << >>,
                              !.resultSelected = 1]
             at == IF app.text = Empty THEN SyncActiveItems(u) ELSE app
             v == [at EXCEPT !.visible = TRUE]
  <2>1. DOMAIN app = Fields
    BY <1>0 DEF Shaped
  <2>2. Shaped(u)
    BY <1>0 DEF Shaped, Fields
  <2>3. u.results = HomeScreen(history) /\ u.plugin = << >> /\ u.view = app.view
        /\ u.visible = app.visible /\ u.text = app.text
        /\ u.debounce = app.debounce /\ u.deferred = app.deferred
    BY <2>1 DEF Fields
  <2>4. Handle /\ ~app.visible /\ app' = v
    BY <1>1 DEF Show, Become
  <2> HIDE DEF u
  <2>5. Menued(u)
    BY <1>0, <2>3, <2>4, HomeIsList, ListOfNone DEF Menued, OfItsSource
  <2>6. Menued(SyncActiveItems(u)) /\ Shaped(SyncActiveItems(u))
    BY <2>2, <2>5, SyncIsSame, SyncKeeps, SameMenued
  <2>7. Menued(at) /\ Shaped(at)
    BY <1>0, <2>6
  <2> HIDE DEF at
  <2>8. v.results = at.results /\ v.plugin = at.plugin /\ v.view = at.view
        /\ v.source = at.source /\ v.context = at.context /\ v.replaced = at.replaced
    BY <2>7 DEF Shaped, Fields
  <2>9. v.visible = TRUE /\ v.text = at.text /\ v.debounce = at.debounce
        /\ v.deferred = at.deferred
    BY <2>7 DEF Shaped, Fields
  <2> HIDE DEF v
  <2>10. Menued(v)
    BY <2>7, <2>8, <2>9 DEF Menued, OfItsSource
  <2> QED BY <2>4, <2>10, HandledMenu
<1>2. CASE Hide
  BY <1>0, <1>2, ClearMenued, HandledMenu DEF Hide, Press, Become
<1>3. ASSUME NEW text \in Texts \union {Empty}, Type(text) PROVE Menued(app)' /\ Kept'
  BY <1>0, <1>3, InputMenued, HandledMenu DEF Type, Press, Become
<1>4. CASE RunDebounced
  <2> DEFINE once == [app EXCEPT !.debounce = FALSE]
             now == Boosted(Immediate[app.text])
  <2>1. PICK deferred \in {NoText, app.text} :
          Become(Replace([once EXCEPT !.plugin = now, !.deferred = deferred], ItemsOf(now)))
    BY <1>4 DEF RunDebounced
  <2>2. app.text \in Texts
    BY <1>0, <1>4 DEF RunDebounced, Menued
  <2>3. IsList(Immediate[app.text])
    BY <2>2, ResultsAssumption DEF IsList
  <2>4. IsList(now) /\ IsList(ItemsOf(now))
    BY <2>3, BoostedIsList
  <2> DEFINE found == ItemsOf(now)
  <2> HIDE DEF now
  <2>5. Sound(once) /\ DOMAIN once = Fields
    BY <1>0, DebounceKeeps DEF Sound, Shaped
  <2>6. once.results = app.results /\ once.context = app.context /\ once.source = app.source
        /\ once.view = app.view /\ once.replaced = app.replaced
        /\ once.visible = app.visible /\ once.text = app.text /\ once.debounce = FALSE
    BY <1>0 DEF Shaped, Fields
  <2> HIDE DEF once
  <2> DEFINE v == [once EXCEPT !.plugin = now, !.deferred = deferred]
  <2>7. Sound(v)
    BY <2>5 DEF Sound, Shaped, Fields, Follows, Previewed
  <2>8. v.results = once.results /\ v.context = once.context /\ v.source = once.source
        /\ v.view = once.view /\ v.replaced = once.replaced
        /\ v.visible = once.visible /\ v.text = once.text /\ v.debounce = once.debounce
    BY <2>5 DEF Fields
  <2>9. v.plugin = now
    BY <2>5 DEF Fields
  <2>10. Become(Replace(v, found))
    BY <2>1
  <2> HIDE DEF v, found
  <2>11. app.text # Empty
    BY <1>0, <1>4 DEF RunDebounced, Menued
  <2>12. Menued(v)
    BY <1>0, <2>4, <2>6, <2>8, <2>9, <2>11 DEF Menued, OfItsSource
  <2>13. Menued(Replace(v, found))
    BY <2>4, <2>7, <2>12, ReplaceMenued DEF found
  <2> QED BY <1>4, <2>10, <2>13, HandledMenu DEF RunDebounced, Message, Become
<1>5. CASE PollDeferredResults
  <2> DEFINE done == [app EXCEPT !.deferred = NoText]
  <2>1. \/ \E answer \in Answers[app.text] :
             Become(IF app.view = "results" THEN Replace(done, Merged(app.plugin, answer))
                    ELSE ReplaceBehind(done, Merged(app.plugin, answer)))
        \/ Become(done)
    BY <1>5 DEF PollDeferredResults
  <2>2. app.text \in Texts
    BY <1>0, <1>5 DEF PollDeferredResults, Menued
  <2>3. Sound(done)
    BY <1>0, DeferredKeeps
  <2>4. done.results = app.results /\ done.context = app.context /\ done.source = app.source
        /\ done.view = app.view /\ done.replaced = app.replaced /\ done.plugin = app.plugin
    BY <1>0 DEF Shaped, Fields
  <2>5. done.visible = app.visible /\ done.text = app.text /\ done.debounce = app.debounce
    BY <1>0 DEF Shaped, Fields
  <2>6. done.deferred = NoText
    BY <1>0 DEF Shaped, Fields
  <2> HIDE DEF done
  <2>7. Menued(done)
    BY <1>0, <2>4, <2>5, <2>6 DEF Menued, OfItsSource
  <2>8. ASSUME NEW answer \in Answers[app.text] PROVE IsList(Merged(app.plugin, answer))
    <3>1. answer \in Seq(Scored)
      BY <2>2, <2>8, ResultsAssumption
    <3>2. IsList(answer) /\ IsList(app.plugin)
      BY <1>0, <3>1 DEF IsList, Menued
    <3> QED BY <3>2, MergedIsList
  <2>9. Handle
    BY <1>5 DEF PollDeferredResults, Message
  <2>10. ASSUME NEW answer \in Answers[app.text]
         PROVE  /\ Menued(Replace(done, Merged(app.plugin, answer)))
                /\ Menued(ReplaceBehind(done, Merged(app.plugin, answer)))
    BY <2>3, <2>7, <2>8, <2>10, ReplaceMenued
  <2>11. CASE Become(done)
    BY <2>7, <2>9, <2>11, HandledMenu DEF Become
  <2>12. CASE \E answer \in Answers[app.text] :
                \/ Become(Replace(done, Merged(app.plugin, answer)))
                \/ Become(ReplaceBehind(done, Merged(app.plugin, answer)))
    BY <2>9, <2>10, <2>12, HandledMenu DEF Become
  <2> QED BY <2>1, <2>11, <2>12
<1>6. CASE CloseMenu
  BY <1>0, <1>6, CloseMenued, HandledMenu DEF CloseMenu, Press, Become
<1> QED BY <1>1, <1>2, <1>3, <1>4, <1>5, <1>6

LEMMA SelectionMenu ==
  ASSUME MenuInv,
         \/ SelectUp \/ SelectDown \/ MouseMove \/ OpenMenu \/ RightClick
         \/ PreviewReady \/ FillHint
  PROVE  Menued(app)' /\ Kept'
<1>0. Sound(app) /\ Menued(app) /\ IsList(history.recent) /\ Shaped(app)
  BY DEF MenuInv, WindowInv, Kept, Sound
<1>00. ASSUME NEW i PROVE Menued(SetActiveSelection(app, i)) /\ Menued(PointAt(app, i))
                          /\ PointAt(app, i).visible = app.visible
  BY <1>0, SelectIsSame, PointIsSame, SameMenued
<1>1. CASE SelectUp
  <2> DEFINE v == SetActiveSelection(app, app.selected)
             focused == (app.items # << >>)
  <2>1. Menued(v) /\ Shaped(v)
    BY <1>0, <1>00, SelectKeeps DEF Sound
  <2>2. \/ Become(SetActiveSelection(app, app.selected - 1))
        \/ Become([v EXCEPT !.focused = focused])
    BY <1>1 DEF SelectUp
  <2> HIDE DEF v, focused
  <2>3. Same(v, [v EXCEPT !.focused = focused])
    BY <2>1 DEF Shaped, Fields, Same
  <2>4. Menued([v EXCEPT !.focused = focused])
    BY <2>1, <2>3, SameMenued
  <2> QED BY <1>1, <1>00, <2>2, <2>4, HandledMenu DEF SelectUp, Press, Become
<1>2. CASE SelectDown
  <2>1. \/ \E i : Become(SetActiveSelection(app, i))
        \/ Become(PointAt(app, 1)) \/ Become(app)
    BY <1>2 DEF SelectDown
  <2> QED BY <1>0, <1>00, <1>2, <2>1, HandledMenu DEF SelectDown, Press, Become
<1>3. CASE MouseMove
  BY <1>00, <1>3, HandledMenu DEF MouseMove, Press, Become
<1>4. CASE OpenMenu
  BY <1>0, <1>4, OpenIsOfItsSource, HandledMenu DEF OpenMenu, Press, Open
<1>5. CASE RightClick
  <2>1. PICK i : Open(PointAt(app, i))
    BY <1>5 DEF RightClick
  <2>2. Sound(PointAt(app, i)) /\ PointAt(app, i).visible
    BY <1>0, <1>00, <1>5, PointKeeps DEF RightClick, Press
  <2>3. Menued(OpenContext(PointAt(app, i)))
    BY <1>00, <2>2, OpenIsOfItsSource
  <2> QED BY <1>5, <2>1, <2>3, HandledMenu DEF RightClick, Press, Open
<1>6. CASE PreviewReady
  <2>1. PICK l : app' = app \/ app' = [app EXCEPT !.preview = l.file]
    BY <1>6 DEF PreviewReady
  <2> DEFINE v == [app EXCEPT !.preview = l.file]
  <2>2. Same(app, v)
    BY <1>0 DEF Shaped, Fields, Same
  <2>3. Menued(v)
    BY <1>0, <2>2, SameMenued
  <2> QED BY <1>0, <1>6, <2>1, <2>3, HandledMenu DEF PreviewReady, Message
<1>7. CASE FillHint
  <2>1. PICK i : \E text \in Texts : Become(InputChanged(PointAt(app, i), text))
    BY <1>7 DEF FillHint
  <2>2. PICK text \in Texts : Become(InputChanged(PointAt(app, i), text))
    BY <2>1
  <2>3. Menued(InputChanged(PointAt(app, i), text))
    BY <1>0, <1>00, PointKeeps, InputMenued
  <2> QED BY <1>7, <2>2, <2>3, HandledMenu DEF FillHint, Press, Become
<1> QED BY <1>1, <1>2, <1>3, <1>4, <1>5, <1>6, <1>7

LEMMA UseMenu ==
  ASSUME MenuInv, Enter \/ Click \/ ExecuteIndex \/ OpenFolder
  PROVE  Menued(app)' /\ Kept'
<1>0. Sound(app) /\ Menued(app)
  BY DEF MenuInv, WindowInv
<1>1. PICK w, item : Use(w, item) /\ (w = app \/ \E i : w = PointAt(app, i))
  BY DEF Enter, Click, ExecuteIndex, OpenFolder
<1>2. Menued(w) /\ w.visible = app.visible
  BY <1>0, <1>1, PointIsSame, SameMenued
<1>3. /\ app' = w /\ app.visible
      /\ history' = RecordFull(history, Recorded(w, item)) /\ UNCHANGED disk
  BY <1>1 DEF Use, Become
<1>4. IsList(history'.recent)
  BY <1>3, RecordedIsList DEF MenuInv, Kept
<1> QED BY <1>2, <1>3, <1>4 DEF MenuInv, Kept

LEMMA ActMenu ==
  ASSUME MenuInv, SaveStep \/ Act \/ Toggle \/ Reopen
  PROVE  Menued(app)' /\ Kept'
<1>0. Sound(app) /\ Menued(app) /\ IsList(history.recent) /\ SaveInv
  BY DEF MenuInv, WindowInv, Kept
<1>00. DOMAIN ui = {"pc", "item"} /\ DOMAIN disk = {"history", "quick", "tmp"}
  BY <1>0 DEF SaveInv
<1>1. CASE SaveStep \/ Toggle
  <2>1. UNCHANGED <<app, history>> /\ ui.pc # "idle"
    BY <1>1 DEF SaveStep, TruncateHistory, WriteHistory, HistoryFails, WriteTmp, RemoveOld,
                RenameTmp, QuickFails, Toggle
  <2>2. disk'.history \in {disk.history, Unread, <<history>>}
    BY <1>1, <1>00 DEF SaveStep, TruncateHistory, WriteHistory, HistoryFails, WriteTmp,
                RemoveOld, RenameTmp, QuickFails, Toggle
  <2>3. disk'.history = <<history>> => disk'.history[1] = history
    OBVIOUS
  <2> QED BY <2>1, <2>2, <2>3 DEF MenuInv, Kept
<1>2. CASE Act
  <2>1. ui' = AtRest /\ UNCHANGED <<history, disk>>
    BY <1>2 DEF Act, stores
  <2>2. app' = app \/ app' = InputChanged(app, PathText) \/ app' = Cleared(app)
    BY <1>2 DEF Act, Become
  <2>3. PathText \in Texts
    BY ResultsAssumption
  <2>4. Menued(app)'
    BY <1>0, <2>2, <2>3, InputMenued, ClearMenued
  <2> QED BY <2>1, <2>4 DEF MenuInv, Kept, AtRest
<1>3. CASE Reopen
  <2> DEFINE changed == InputChanged(app, app.text)
             at == Clamp(app.source, changed.results)
             u == [changed EXCEPT !.resultSelected = at]
             there == SyncActiveItems(u)
  <2>1. ui' = AtRest /\ UNCHANGED <<history, disk>> /\ app.visible
    BY <1>3 DEF Reopen, stores, MenuInv, Kept
  <2>2. app' = changed \/ app' = OpenContext(there)
    BY <1>3 DEF Reopen, Become, Open
  <2>3. app.text \in Texts \union {Empty}
    BY <1>0 DEF Menued
  <2>4. Sound(changed) /\ Menued(changed) /\ changed.visible
    BY <1>0, <2>1, <2>3, InputMakes, InputMenued
  <2> HIDE DEF changed, at
  <2>5. Sound(there)
    BY <2>4, PlaceKeeps
  <2>6. Shaped(u) /\ Same(changed, u)
    BY <2>4 DEF Sound, Shaped, Fields, Same
  <2> HIDE DEF u
  <2>7. Menued(there) /\ there.visible
    BY <2>4, <2>6, SyncIsSame, SameMenued
  <2> HIDE DEF there
  <2>8. Menued(OpenContext(there))
    BY <2>5, <2>7, OpenIsOfItsSource
  <2> QED BY <2>1, <2>2, <2>4, <2>8 DEF MenuInv, Kept, AtRest
<1> QED BY <1>1, <1>2, <1>3

LEMMA MenuStep == MenuInv /\ [Next]_vars => MenuInv'
<1> SUFFICES ASSUME MenuInv, [Next]_vars PROVE MenuInv'
  OBVIOUS
<1>1. WindowInv' /\ SaveInv'
  BY WindowStep, SaveStepKeeps DEF MenuInv
<1>2. CASE Restart
  <2>1. app' = Closed /\ ui' = AtRest /\ history' = LoadedHistory /\ UNCHANGED disk
    BY <1>2 DEF Restart
  <2>2. Menued(app)'
    BY <2>1, ListOfNone DEF Menued, OfItsSource, Closed
  <2>3. IsList(LoadedHistory.recent)
    BY ListOfNone DEF MenuInv, Kept, LoadedHistory, NoHistory
  <2> QED BY <1>1, <2>1, <2>2, <2>3 DEF MenuInv, Kept, AtRest
<1>3. CASE UNCHANGED vars
  <2>1. UNCHANGED <<app, history, disk, ui>>
    BY <1>3 DEF vars
  <2>2. Menued(app)' /\ Kept'
    BY <2>1 DEF MenuInv, Kept
  <2> QED BY <1>1, <2>2 DEF MenuInv
<1>4. CASE UserStep \/ RunDebounced \/ PollDeferredResults \/ PreviewReady
           \/ SaveStep \/ Act \/ Toggle \/ Reopen
  <2>1. Menued(app)' /\ Kept'
    BY <1>4, ListMenu, SelectionMenu, UseMenu, ActMenu DEF UserStep
  <2> QED BY <1>1, <2>1 DEF MenuInv
<1> QED BY <1>2, <1>3, <1>4 DEF Next

(* A menu on the screen was opened for the item at its source, and its     *)
(* preview is of that item, through late results, restarts and the opening *)
(* again after a toggle, unless late results replaced the list behind it   *)
(* (open_context_actions, execute_selected_safe, poll_deferred_results).   *)
THEOREM MenuAlwaysOfItsSource == Spec => []MenuIsOfItsSource
<1>1. Init => MenuInv
  BY WindowInit, SaveInit, MenuInit DEF MenuInv
<1>2. MenuInv => MenuIsOfItsSource
  BY DEF MenuInv, WindowInv, Sound, Previewed, Menued, OfItsSource, PreviewIsOfTheMenu,
         MenuIsOfItsSource
<1> QED BY <1>1, <1>2, MenuStep, PTL DEF Spec
=============================================================================
