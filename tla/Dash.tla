--------------------------------- MODULE Dash ---------------------------------
(***************************************************************************)
(* The third column and the replay face (components/dash/DashTabs.tsx,     *)
(* FilePane.tsx, FilePreviewTab.tsx, TraceTab.tsx, lib/dashTabs.ts and the *)
(* state TaskView.tsx keeps for them): one list of files, one preview per  *)
(* opened file and one replay, each of which asks the server on its own    *)
(* and for the task that is selected then.  A change commits at once; its  *)
(* effects run later, those of the panes before TaskView's own, and before *)
(* the next change.                                                        *)
(***************************************************************************)
EXTENDS Naturals, Sequences, SequencesExt, FiniteSets

CONSTANTS
  Tasks, Paths,
  None,
  MaxRuns,   \* rounds a task runs
  MaxCalls   \* calls under way at once

Assumption ==
  /\ None \notin Tasks \cup Paths /\ Tasks \cap Paths = {}
  /\ Paths \cap {"files", "plan", "events"} = {} /\ {MaxRuns, MaxCalls} \subseteq Nat

VARIABLES
  server, runs,   \* task -> whether it runs and which files it has; rounds run
  told, cached,   \* task -> whether the page thinks it runs; tasks with a snapshot
  news,           \* what the selected task's stream has yet to tell: its runs and parks
  selected, seen, \* currentTaskId, and the one TaskView's effect has seen
  visible,        \* the column is not a closed drawer
  tab, opened,    \* dash.tab, a pane's name or a path; dash.files
  replay,         \* traceOpen
  pane,           \* FilePane: what its effect last ran for, and its state
  previews,       \* path -> FilePreviewTab's state, or None
  face,           \* TraceTab's state, or None
  calls, due

serverVars == <<server, runs>>
storeVars  == <<told, cached, news, selected>>
viewVars   == <<seen, visible, tab, opened, replay>>
paneVars   == <<pane, previews, face>>
vars == <<serverVars, storeVars, viewVars, paneVars, calls, due>>

Fixed == {"files", "plan", "events"}
Kinds == {"files", "preview", "trace"}

\* The task the column is drawn for.
Current == IF selected \in cached THEN selected ELSE None

\* A pane before it is mounted.
NoPane == [for |-> None, running |-> FALSE, asks |-> FALSE, again |-> FALSE,
           of |-> None, list |-> {}, loading |-> TRUE, note |-> FALSE]

TypeOK ==
  /\ server \in [Tasks -> [running : BOOLEAN, files : SUBSET Paths]]
  /\ told \in [Tasks -> BOOLEAN] /\ cached \subseteq Tasks /\ ToSet(news) \subseteq BOOLEAN
  /\ {selected, seen} \subseteq Tasks \cup {None}
  /\ tab \in Fixed \cup Paths /\ ToSet(opened) \subseteq Paths /\ IsInjective(opened)
  /\ pane.for \in Tasks \cup {None} /\ pane.of \in Tasks \cup {None} /\ pane.list \subseteq Paths
  /\ \A p \in Paths : previews[p] # None => previews[p].for \in Tasks
  /\ \A c \in calls : c.kind \in Kinds /\ c.task \in Tasks /\ c.stage \in {"out", "ok", "failed"}
  /\ Cardinality(calls) <= MaxCalls + Cardinality(Paths) + 2

Init ==
  /\ \E fs \in {{}, Paths} : server = [t \in Tasks |-> [running |-> FALSE, files |-> fs]]
  /\ runs = [t \in Tasks |-> 0]
  /\ told = [t \in Tasks |-> FALSE] /\ cached = {} /\ news = <<>>
  /\ selected = None /\ seen = None /\ visible \in BOOLEAN
  /\ tab = "files" /\ opened = <<>> /\ replay = FALSE
  /\ pane = NoPane /\ previews = [p \in Paths |-> None] /\ face = None
  /\ calls = {} /\ due = FALSE

-----------------------------------------------------------------------------
(* The tabs                                                                *)

\* (mutant) a file that is open is opened once more.
OpenAgain(list, p) == Append(list, p)

OpenFileTab(list, p) == IF p \in ToSet(list) THEN list ELSE Append(list, p)
CloseFileTab(list, p) == SelectSeq(list, LAMBDA q : q # p)

\* (mutant) the neighbour is looked up among the tabs as they were.
TabAfterOld(list, p, active) ==
  IF p \notin ToSet(list) \/ active # p THEN active
  ELSE LET at == CHOOSE i \in DOMAIN list : list[i] = p
       IN  IF at > 1 THEN list[at - 1] ELSE list[at]

\* tabAfterClosing: the left neighbour, else the right one, else the list.
TabAfterClosing(list, p, active) ==
  IF p \notin ToSet(list) \/ active # p THEN active
  ELSE LET at   == CHOOSE i \in DOMAIN list : list[i] = p
           left == CloseFileTab(list, p)
       IN  IF left = <<>> THEN "files" ELSE left[IF at > 1 THEN at - 1 ELSE 1]

-----------------------------------------------------------------------------
(* The effects of a commit                                                 *)

Call(kind, t, p, items) == [kind |-> kind, task |-> t, path |-> p, stage |-> "out", files |-> items, two |-> FALSE]

\* shouldPollFiles, and the first load: neither while the list is not seen.
Asks == visible /\ tab = "files"

\* (mutant) the load effect does not depend on the status.
KeyOfTask(t) == [NoPane EXCEPT !.for = t, !.running = pane.running, !.asks = Asks, !.again = pane.again]

\* What the load effect depends on: the task, its status, whether it is seen.
PaneKey(t) == [NoPane EXCEPT !.for = t, !.running = told[t], !.asks = Asks, !.again = pane.again]

SameKey(a, b) == a.for = b.for /\ a.running = b.running /\ a.asks = b.asks

\* FilePane's effects: another task clears the list, and another key cancels
\* what was asked and asks again.
PaneAfter(t) ==
  IF t = None THEN NoPane
  ELSE LET key == PaneKey(t) IN
       IF SameKey(pane, key) /\ ~pane.again THEN pane
       ELSE [key EXCEPT !.again = FALSE,
                        !.of   = IF pane.for = t THEN pane.of ELSE None,
                        !.list = IF pane.for = t THEN pane.list ELSE {},
                        !.note = pane.for = t /\ pane.note]

\* (mutant) the answers to another task's calls are taken, too.
PaneCallsKept(t) ==
  {c \in calls : c.kind = "files"} \cup (IF t # None /\ Asks THEN {Call("files", t, None, {})} ELSE {})

PaneCalls(t) ==
  IF t = None THEN {}
  ELSE IF SameKey(pane, PaneKey(t)) /\ ~pane.again THEN {c \in calls : c.kind = "files"}
  ELSE IF Asks THEN {Call("files", t, None, {})} ELSE {}

\* FilePreviewTab's effects: it loads from its first activation on, and again
\* for another task.
Loads(p) == (previews[p] # None /\ previews[p].load) \/ (tab = p /\ visible)

Fresh(t, p) == previews[p] = None \/ previews[p].for # t \/ previews[p].load # Loads(p)

PreviewAfter(t, p) ==
  IF t = None \/ p \notin ToSet(opened) THEN None
  ELSE IF Fresh(t, p) THEN [for |-> t, load |-> Loads(p), of |-> None, phase |-> "loading"]
  ELSE previews[p]

PreviewCalls(t, p) ==
  IF t = None \/ p \notin ToSet(opened) THEN {}
  ELSE IF ~Fresh(t, p) THEN {c \in calls : c.kind = "preview" /\ c.path = p}
  ELSE IF Loads(p) THEN {Call("preview", t, p, {})} ELSE {}

\* TraceTab's effect: a replay of this task, read once.
FaceAfter(t) ==
  IF t = None \/ ~replay THEN None
  ELSE IF face # None /\ face.for = t THEN face
  ELSE [for |-> t, of |-> None, phase |-> "loading"]

FaceCalls(t) ==
  IF t = None \/ ~replay THEN {}
  ELSE IF face # None /\ face.for = t THEN {c \in calls : c.kind = "trace"}
  ELSE {Call("trace", t, None, {})}

\* All effects of a commit; TaskView's own comes last, and closes the previews
\* and the replay of the task before.
Effects ==
  LET t == Current IN
  /\ due
  /\ pane' = PaneAfter(t) /\ face' = FaceAfter(t)
  /\ previews' = [p \in Paths |-> PreviewAfter(t, p)]
  /\ calls' = PaneCalls(t) \cup FaceCalls(t) \cup UNION {PreviewCalls(t, p) : p \in Paths}
  /\ seen' = selected /\ due' = (seen # selected)
  /\ IF seen = selected THEN UNCHANGED <<tab, opened, replay>>
     ELSE opened' = <<>> /\ replay' = FALSE /\ tab' = (IF tab \in Paths THEN "files" ELSE tab)
  /\ UNCHANGED <<serverVars, storeVars, visible>>

-----------------------------------------------------------------------------
(* What the user does                                                      *)

\* (mutant) a failed read shows what an empty one shows.
PaneFaceOfCount(f) ==
  IF f.list # {} THEN "rows" ELSE IF f.loading THEN "loading" ELSE "empty"

\* filesPaneState
PaneFace(f) ==
  IF f.list # {} THEN "rows" ELSE IF f.note THEN "error" ELSE IF f.loading THEN "loading" ELSE "empty"

\* What can be pressed in the column.
DashButtons ==
  {<<"tab", x>> : x \in (Fixed \cup ToSet(opened)) \ {tab}}
    \cup {<<"close", p>> : p \in ToSet(opened)}
    \cup (IF Current # None THEN {<<"replay", None>>} ELSE {})
    \cup (IF Current # None /\ tab = "files" THEN {<<"file", p>> : p \in pane.list} ELSE {})
    \cup (IF Current # None /\ tab = "files" /\ pane.note /\ ~pane.loading THEN {<<"retry", None>>} ELSE {})

\* A press in a column that is seen, once the effects of what came before ran.
Press(name, arg) ==
  /\ ~due /\ visible /\ <<name, arg>> \in DashButtons /\ due' = TRUE
  /\ UNCHANGED <<serverVars, storeVars, seen, visible, previews, face, calls>>

ChangeTab ==
  \E x \in Fixed \cup Paths : Press("tab", x) /\ tab' = x /\ UNCHANGED <<opened, replay, pane>>

OpenFile ==
  \E p \in Paths :
    Press("file", p) /\ opened' = OpenFileTab(opened, p) /\ tab' = p /\ UNCHANGED <<replay, pane>>

CloseFile ==
  \E p \in Paths :
    /\ Press("close", p)
    /\ opened' = CloseFileTab(opened, p) /\ tab' = TabAfterClosing(opened, p, tab)
    /\ UNCHANGED <<replay, pane>>

OpenReplay == Press("replay", None) /\ replay' = TRUE /\ UNCHANGED <<tab, opened, pane>>

\* The retry of the list: reloadToken moves on.
Retry ==
  Press("retry", None) /\ pane' = [pane EXCEPT !.again = TRUE] /\ UNCHANGED <<tab, opened, replay>>

CloseReplay ==
  /\ ~due /\ replay /\ replay' = FALSE /\ due' = TRUE
  /\ UNCHANGED <<serverVars, storeVars, seen, visible, tab, opened, paneVars, calls>>

\* The drawer opens or closes.
Drawer ==
  /\ ~due /\ visible' = ~visible /\ due' = TRUE
  /\ UNCHANGED <<serverVars, storeVars, seen, tab, opened, replay, paneVars, calls>>

Select ==
  \E t \in Tasks \cup {None} :
    /\ ~due /\ t # selected /\ selected' = t /\ due' = TRUE
    /\ news' = IF t \in cached /\ told[t] # server[t].running THEN <<server[t].running>> ELSE <<>>
    /\ UNCHANGED <<serverVars, told, cached, viewVars, paneVars, calls>>

\* The timer of a list that is seen, of a task that runs.
Poll ==
  /\ ~due /\ pane.for # None /\ pane.running /\ pane.asks
  /\ LET mine == {c \in calls : c.kind = "files"} IN
     /\ Cardinality(mine) < MaxCalls
     /\ calls' = calls \cup {[Call("files", pane.for, None, {}) EXCEPT !.two = TRUE]}
     /\ calls' # calls
  /\ UNCHANGED <<serverVars, storeVars, viewVars, paneVars, due>>

-----------------------------------------------------------------------------
(* The server and its answers                                              *)

Streamed(t, r) == news' = IF t = Current THEN Append(news, r) ELSE news

Runs ==
  \E t \in Tasks :
    /\ ~server[t].running /\ runs[t] < MaxRuns
    /\ server' = [server EXCEPT ![t].running = TRUE] /\ runs' = [runs EXCEPT ![t] = @ + 1]
    /\ Streamed(t, TRUE) /\ UNCHANGED <<told, cached, selected, viewVars, paneVars, calls, due>>

\* A tool of the round writes a file.
Writes ==
  \E t \in Tasks, p \in Paths :
    /\ server[t].running /\ p \notin server[t].files
    /\ server' = [server EXCEPT ![t].files = @ \cup {p}]
    /\ UNCHANGED <<runs, storeVars, viewVars, paneVars, calls, due>>

Parks ==
  \E t \in Tasks :
    /\ server[t].running /\ server' = [server EXCEPT ![t].running = FALSE]
    /\ Streamed(t, FALSE) /\ UNCHANGED <<runs, told, cached, selected, viewVars, paneVars, calls, due>>

\* The first snapshot of the selected task comes.
SnapArrives ==
  /\ ~due /\ selected # None /\ selected \notin cached
  /\ told' = [told EXCEPT ![selected] = server[selected].running]
  /\ cached' = cached \cup {selected} /\ news' = <<>> /\ due' = TRUE
  /\ UNCHANGED <<serverVars, selected, viewVars, paneVars, calls>>

\* An event of the stream changes the status; each change is drawn.
Told ==
  /\ ~due /\ news # <<>>
  /\ told' = [told EXCEPT ![selected] = Head(news)] /\ news' = Tail(news) /\ due' = TRUE
  /\ UNCHANGED <<serverVars, cached, selected, viewVars, paneVars, calls>>

\* list_files, preview and the trace route answer, or do not.
Handle(c) ==
  /\ c.stage = "out"
  /\ \E s \in {"ok", "failed"} :
       calls' = (calls \ {c})
         \cup {[c EXCEPT !.stage = s, !.files = IF s = "ok" /\ c.kind = "files" THEN server[c.task].files ELSE {}]}
  /\ UNCHANGED <<serverVars, storeVars, viewVars, paneVars, due>>

\* (mutant) only an answer ends the loading.
LoadedIfOk(f, c) ==
  IF c.stage = "ok" THEN [f EXCEPT !.loading = FALSE, !.note = FALSE, !.of = c.task, !.list = c.files]
  ELSE [f EXCEPT !.note = TRUE]

\* A failed read keeps the list that is there.
Loaded(f, c) ==
  IF c.stage = "ok" THEN [f EXCEPT !.loading = FALSE, !.note = FALSE, !.of = c.task, !.list = c.files]
  ELSE [f EXCEPT !.loading = FALSE, !.note = TRUE]

FilesArrive(c) ==
  /\ c.kind = "files" /\ c.stage # "out" /\ calls' = calls \ {c} /\ pane' = Loaded(pane, c)
  /\ UNCHANGED <<serverVars, storeVars, viewVars, previews, face, due>>

PreviewArrives(c) ==
  /\ c.kind = "preview" /\ c.stage # "out" /\ calls' = calls \ {c}
  /\ previews' = [previews EXCEPT ![c.path].phase = (IF c.stage = "ok" THEN "ready" ELSE "failed"),
                                  ![c.path].of = c.task]
  /\ UNCHANGED <<serverVars, storeVars, viewVars, pane, face, due>>

TraceArrives(c) ==
  /\ c.kind = "trace" /\ c.stage # "out" /\ calls' = calls \ {c}
  /\ face' = [face EXCEPT !.phase = (IF c.stage = "ok" THEN "rows" ELSE "error"), !.of = c.task]
  /\ UNCHANGED <<serverVars, storeVars, viewVars, pane, previews, due>>

Next ==
  \/ Effects
  \/ ChangeTab \/ OpenFile \/ CloseFile \/ OpenReplay \/ CloseReplay \/ Retry \/ Drawer \/ Select
  \/ Poll \/ Runs \/ Writes \/ Parks \/ SnapArrives \/ Told
  \/ \E c \in calls : Handle(c) \/ FilesArrive(c) \/ PreviewArrives(c) \/ TraceArrives(c)

Spec == Init /\ [][Next]_vars

\* The effects run, and what is asked comes to an answer on the page.
FairSpec ==
  /\ Spec /\ WF_vars(Effects)
  /\ \A k \in Kinds : WF_vars(\E c \in calls : c.kind = k /\ Handle(c))
  /\ WF_vars(\E c \in calls : FilesArrive(c))
  /\ WF_vars(\E c \in calls : PreviewArrives(c)) /\ WF_vars(\E c \in calls : TraceArrives(c))

-----------------------------------------------------------------------------
(* Properties                                                              *)

\* The active tab is there, whatever was opened, closed or left behind by a
\* switch of the task (lib/dashTabs.ts and TaskView's switch effect).
ActiveTabExists == ~due => tab \in Fixed \cup ToSet(opened)

\* The list of a task that is at rest is the server's, though the polls of its
\* round may have been answered out of order: the change of its status cancels
\* them and asks once more.
FilesCatchUp ==
  (~due /\ Asks /\ Current # None /\ ~pane.note /\ ~server[Current].running /\ news = <<>>
     /\ {c \in calls : c.kind = "files"} = {}) => pane.list = server[Current].files

\* What the column and the replay show belongs to the selected task.
ShownIsItsOwn ==
  (~due /\ Current # None) =>
    /\ pane.of \in {None, Current}
    /\ \A p \in ToSet(opened) : previews[p].of \in {None, Current}
    /\ face # None => face.of \in {None, Current}

\* The pane says that there are no files only when the server said so (D-31).
EmptyIsAnswered ==
  (~due /\ Current # None /\ PaneFace(pane) = "empty") => pane.of = Current

\* A closed drawer asks for no list, and drops what it had asked (#230).
HiddenIsQuiet == (~due /\ ~visible) => {c \in calls : c.kind = "files"} = {}

\* The list, a preview and the replay each stop loading while they are shown.
LoadingEnds ==
  /\ \A t \in Tasks : (Current = t /\ Asks /\ pane.loading) ~> ~(Current = t /\ Asks /\ pane.loading)
  /\ \A t \in Tasks, p \in Paths :
       (Current = t /\ tab = p /\ visible /\ previews[p] # None /\ previews[p].phase = "loading")
         ~> ~(Current = t /\ tab = p /\ visible /\ previews[p] # None /\ previews[p].phase = "loading")
  /\ \A t \in Tasks : (face # None /\ face.for = t /\ face.phase = "loading")
         ~> ~(face # None /\ face.for = t /\ face.phase = "loading")

\* (claim of docs/frontend-design.md:87) a tab that is not seen sends nothing.
HiddenTabsAskNothing ==
  [][\A c \in calls' \ calls : (c.kind = "preview" /\ c.stage = "out") => (tab = c.path /\ visible)]_vars
=============================================================================
