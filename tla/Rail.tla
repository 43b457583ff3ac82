--------------------------------- MODULE Rail ---------------------------------
(***************************************************************************)
(* The rail of the page (components/rail/TaskRail.tsx, TaskRow.tsx) with   *)
(* the two reads it depends on: the list effect and the snapshot effect of *)
(* pages/TaskView.tsx, and the parts of store/taskStore.ts they write.  An *)
(* effect runs some time after the change that calls for it, and an answer *)
(* may arrive in between; the user acts on a page whose effects have run.  *)
(* The search box and the texts are left out, the stream is LiveView's and *)
(* the directory dialog WorkspaceDialog's.                                 *)
(***************************************************************************)
EXTENDS Naturals, FiniteSets

CONSTANTS
  Tasks,      \* ids, the larger the newer
  Dirs,
  Home,       \* the directory of each task
  Begin,      \* the tasks there are at first
  Limit,      \* rows a list answer holds
  None,
  MaxReads,   \* list and snapshot requests
  MaxDeletes, \* deletions asked for
  MaxParks    \* rounds of the selected task seen to park

Assumption ==
  /\ Tasks \subseteq Nat /\ IsFiniteSet(Tasks) /\ Begin \subseteq Tasks
  /\ Home \in [Tasks -> Dirs] /\ "all" \notin Dirs
  /\ None \notin Tasks /\ None \notin Dirs
  /\ {Limit, MaxReads, MaxDeletes, MaxParks} \subseteq Nat

VARIABLES
  exists, born,              \* the records of the server, the ids it has given
  filter, dir, selected,     \* what the page is asked to show
  listDue, snapDue,          \* changes whose effect has not run yet
  rows, listError, loading,  \* the list: rows, "" or why it failed, in flight
  detail, detailError,       \* snapshots held, snapshots that failed
  dialog,                    \* the confirm dialog: pending, deleting
  row,                       \* each row's armed and busy
  calls,                     \* requests under way
  reads, deletes, parks,     \* how many were made
  answered, gone             \* history: the last good list, the tasks known deleted

serverVars == <<exists, born>>
pageVars == <<filter, dir, selected, listDue, snapDue>>
listVars == <<rows, listError, loading>>
detailVars == <<detail, detailError>>
countVars == <<reads, deletes, parks>>
vars == <<serverVars, pageVars, listVars, detailVars, dialog, row, calls, countVars, answered, gone>>

Keys == Dirs \cup {"all"}
Quiet == [armed |-> FALSE, busy |-> FALSE]

TypeOK ==
  /\ exists \subseteq born /\ gone \subseteq born \ exists /\ born \subseteq Tasks
  /\ filter \in {"current", "all"} /\ dir \in Dirs /\ selected \in Tasks \cup {None}
  /\ listDue \in BOOLEAN /\ snapDue \in BOOLEAN /\ loading \in BOOLEAN
  /\ rows \subseteq Tasks /\ Cardinality(rows) <= Limit
  /\ listError \in {"", "auth", "failed"}
  /\ detail \subseteq Tasks /\ detailError \subseteq Tasks
  /\ dialog \in [pending : Dirs \cup {None}, deleting : BOOLEAN]
  /\ row \in [Tasks -> [armed : BOOLEAN, busy : BOOLEAN]]
  /\ \A t \in Tasks : row[t] # Quiet => t \in rows
  /\ \A c \in calls : /\ c.kind \in {"list", "snap", "park", "dir", "task"}
                      /\ c.stage \in {"out", "ok", "refused", "auth"}
  /\ Cardinality({c \in calls : c.kind = "list"}) <= 1
  /\ dialog.deleting <=> \E c \in calls : c.kind = "dir"

Init ==
  /\ exists = Begin /\ born = Begin
  /\ filter = "current" /\ dir \in Dirs /\ selected = None
  /\ listDue = TRUE /\ snapDue = FALSE
  /\ rows = {} /\ listError = "" /\ loading = TRUE
  /\ detail = {} /\ detailError = {}
  /\ dialog = [pending |-> None, deleting |-> FALSE]
  /\ row = [t \in Tasks |-> Quiet]
  /\ calls = {} /\ reads = 0 /\ deletes = 0 /\ parks = 0
  /\ answered = [key |-> None, rows |-> {}] /\ gone = {}

-----------------------------------------------------------------------------
(* What is shown                                                           *)

Key == IF filter = "all" THEN "all" ELSE dir

\* (mutant) a list that failed before the one in flight is not told.
FaceOfRows == IF rows # {} THEN "rows" ELSE IF loading THEN "loading" ELSE "empty"

\* historyListState, with no search text.
Face == IF rows # {} THEN "rows"
        ELSE IF listError # "" THEN "error"
        ELSE IF loading THEN "loading" ELSE "empty"

\* The buttons a render offers; the rows have those of their state.
RailButtons ==
  {"new", "filter", "workspace"}
  \cup (IF listError \in {"", "auth"} THEN {} ELSE {"retry"})
  \cup (IF filter = "all" /\ Face = "rows" THEN {"arm_dir"} ELSE {})

DialogButtons ==
  IF dialog.pending = None THEN {}
  ELSE {"cancel"} \cup (IF dialog.deleting THEN {} ELSE {"delete"})

RowButtons(t) ==
  IF t \notin rows THEN {}
  ELSE {"select", "arm"} \cup (IF row[t].armed THEN {"cancel"} ELSE {})
       \cup (IF row[t].armed /\ ~row[t].busy THEN {"delete"} ELSE {})

\* A click needs a page whose effects have run; a modal dialog takes the clicks.
Clicks == ~listDue /\ ~snapDue
Rail(b) == Clicks /\ dialog.pending = None /\ b \in RailButtons
Row(t, b) == Clicks /\ dialog.pending = None /\ b \in RowButtons(t)
Dialog(b) == Clicks /\ b \in DialogButtons

\* A row that leaves, or moves to another group, is mounted afresh.
Remount(out) ==
  row' = [t \in Tasks |-> IF t \in out THEN Quiet ELSE row[t]]
Orphans(cs, out) ==
  {IF c.kind = "task" /\ c.task \in out THEN [c EXCEPT !.live = FALSE] ELSE c : c \in cs}

-----------------------------------------------------------------------------
(* The server's side of a request                                          *)

\* The newest of a directory, or of all.
ListTasks(key) ==
  LET of == {t \in exists : key = "all" \/ Home[t] = key}
  IN  {t \in of : Cardinality({u \in of : u > t}) < Limit}

Answer(c, stage, found) == calls' = (calls \ {c}) \cup {[c EXCEPT !.stage = stage, !.found = found]}

HandleList(c) ==
  /\ c.kind = "list" /\ Answer(c, "ok", ListTasks(c.key))
  /\ UNCHANGED <<serverVars, pageVars, listVars, detailVars, dialog, row, countVars, answered, gone>>

\* get_task: a snapshot, or 404, or no answer.
HandleSnap(c) ==
  /\ c.kind \in {"snap", "park"}
  /\ \E s \in {"refused"} \cup {x \in {"ok"} : c.task \in exists} : Answer(c, s, {})
  /\ UNCHANGED <<serverVars, pageVars, listVars, detailVars, dialog, row, countVars, answered, gone>>

\* delete_task, delete_workspace_tasks: refused while one of them is live, and
\* rolled back when the dump fails; the page treats a lost answer alike.
HandleDelete(c) ==
  /\ c.kind \in {"task", "dir"}
  /\ LET victims == IF c.kind = "task" THEN {c.task} \cap exists
                    ELSE {t \in exists : Home[t] = c.key}
     IN  \/ /\ c.kind = "dir" \/ victims # {}
            /\ exists' = exists \ victims
            /\ Answer(c, "ok", victims) \/ Answer(c, "refused", {})
         \/ Answer(c, "refused", {}) /\ UNCHANGED exists
  /\ UNCHANGED <<born, pageVars, listVars, detailVars, dialog, row, countVars, answered, gone>>

Handle == \E c \in calls : c.stage = "out" /\ (HandleList(c) \/ HandleSnap(c) \/ HandleDelete(c))

\* A list refused for its expired token, or that no answer comes to.
Fail == \E c \in calls : \E s \in {"auth", "refused"} :
  /\ c.kind = "list" /\ c.stage = "out" /\ Answer(c, s, {})
  /\ UNCHANGED <<serverVars, pageVars, listVars, detailVars, dialog, row, countVars, answered, gone>>

\* Another page, or another client, creates a task.
Elsewhere(t) ==
  /\ \A u \in born : u < t
  /\ exists' = exists \cup {t} /\ born' = born \cup {t}
  /\ UNCHANGED <<pageVars, listVars, detailVars, dialog, row, calls, countVars, answered, gone>>

-----------------------------------------------------------------------------
(* Effects                                                                 *)

\* The clean-up of an effect: its request, a read, is not heard any more.
Cancelled(cs, kind) == {c \in cs : c.kind # kind}

\* Least free number: a call is told from another by it.
Free(cs) == CHOOSE n \in 1..(Cardinality(cs) + 1) : \A c \in cs : c.n # n
Call(cs, kind, task, key) ==
  [n |-> Free(cs), kind |-> kind, task |-> task, key |-> key, live |-> TRUE,
   stage |-> "out", found |-> {}]

ListEffect ==
  /\ listDue /\ reads < MaxReads /\ reads' = reads + 1
  /\ listDue' = FALSE /\ loading' = TRUE
  /\ LET cs == Cancelled(calls, "list") IN calls' = cs \cup {Call(cs, "list", None, Key)}
  /\ UNCHANGED <<serverVars, filter, dir, selected, snapDue, rows, listError, detailVars, dialog, row,
                 deletes, parks, answered, gone>>

SnapEffect ==
  /\ snapDue /\ snapDue' = FALSE
  /\ LET cs == Cancelled(calls, "snap")
     IN  calls' = IF selected = None THEN cs ELSE cs \cup {Call(cs, "snap", selected, None)}
  /\ UNCHANGED <<serverVars, filter, dir, selected, listDue, listVars, detailVars, dialog, row,
                 countVars, answered, gone>>

\* A round of the selected task parks: its record is read, and nothing cancels that.
Park ==
  /\ selected \in detail /\ ~snapDue
  /\ parks < MaxParks /\ parks' = parks + 1
  /\ calls' = calls \cup {Call(calls, "park", selected, None)}
  /\ UNCHANGED <<serverVars, pageVars, listVars, detailVars, dialog, row, reads, deletes, answered, gone>>

-----------------------------------------------------------------------------
(* The user                                                                *)

SetFilter ==
  /\ Rail("filter") /\ filter' = IF filter = "all" THEN "current" ELSE "all"
  /\ listDue' = TRUE
  /\ Remount(Tasks) /\ calls' = Orphans(calls, Tasks)
  /\ UNCHANGED <<serverVars, dir, selected, snapDue, listVars, detailVars, dialog, countVars, answered, gone>>

SetCurrentTask(t) ==
  /\ IF t = None THEN Rail("new") ELSE Row(t, "select")
  /\ t # selected /\ selected' = t
  /\ listDue' = TRUE /\ snapDue' = TRUE
  /\ UNCHANGED <<serverVars, filter, dir, listVars, detailVars, dialog, row, calls, countVars, answered, gone>>

SwitchWorkspace(d) ==
  /\ Rail("workspace") /\ dir' = d /\ selected' = None
  /\ listDue' = TRUE /\ snapDue' = (selected # None)
  /\ UNCHANGED <<serverVars, filter, listVars, detailVars, dialog, row, calls, countVars, answered, gone>>

RetryList ==
  /\ Rail("retry") /\ listDue' = TRUE
  /\ UNCHANGED <<serverVars, filter, dir, selected, snapDue, listVars, detailVars, dialog, row, calls,
                 countVars, answered, gone>>

ArmDirectoryDelete(d) ==
  /\ Rail("arm_dir") /\ \E t \in rows : Home[t] = d
  /\ dialog' = [dialog EXCEPT !.pending = d]
  /\ UNCHANGED <<serverVars, pageVars, listVars, detailVars, row, calls, countVars, answered, gone>>

CancelDirectoryDelete ==
  /\ Dialog("cancel") /\ dialog' = [dialog EXCEPT !.pending = None]
  /\ UNCHANGED <<serverVars, pageVars, listVars, detailVars, row, calls, countVars, answered, gone>>

ConfirmDelete ==
  /\ Dialog("delete") /\ deletes < MaxDeletes /\ deletes' = deletes + 1
  /\ dialog' = [dialog EXCEPT !.deleting = TRUE]
  /\ calls' = calls \cup {Call(calls, "dir", None, dialog.pending)}
  /\ UNCHANGED <<serverVars, pageVars, listVars, detailVars, row, reads, parks, answered, gone>>

Arm(t, b) ==
  /\ b \in {"arm", "cancel"} /\ Row(t, b) /\ row[t].armed # (b = "arm")
  /\ row' = [row EXCEPT ![t].armed = (b = "arm")]
  /\ UNCHANGED <<serverVars, pageVars, listVars, detailVars, dialog, calls, countVars, answered, gone>>

Remove(t) ==
  /\ Row(t, "delete") /\ deletes < MaxDeletes /\ deletes' = deletes + 1
  /\ row' = [row EXCEPT ![t].busy = TRUE]
  /\ calls' = calls \cup {Call(calls, "task", t, None)}
  /\ UNCHANGED <<serverVars, pageVars, listVars, detailVars, dialog, reads, parks, answered, gone>>

-----------------------------------------------------------------------------
(* Answers                                                                 *)

\* (mutant) the rows are dropped and the list is not asked for again.
DropRows(ids) ==
  /\ rows' = rows \ ids /\ UNCHANGED listDue
  /\ detail' = detail \ ids /\ detailError' = detailError \ ids
  /\ selected' = IF selected \in ids THEN None ELSE selected
  /\ snapDue' = (snapDue \/ selected \in ids)

DropTasks(ids) ==
  /\ rows' = rows \ ids /\ listDue' = TRUE
  /\ detail' = detail \ ids /\ detailError' = detailError \ ids
  /\ selected' = IF selected \in ids THEN None ELSE selected
  /\ snapDue' = (snapDue \/ selected \in ids)

\* The finally of the list effect.
LoadingAfter(c) == FALSE

GotList(c) ==
  /\ c.kind = "list" /\ c.stage # "out"
  /\ loading' = LoadingAfter(c)
  /\ IF c.stage = "ok"
     THEN /\ rows' = c.found /\ listError' = ""
          /\ Remount(Tasks \ c.found) /\ calls' = Orphans(calls \ {c}, Tasks \ c.found)
          /\ answered' = [key |-> c.key, rows |-> c.found]
     ELSE /\ listError' = IF c.stage = "auth" THEN "auth" ELSE "failed"
          /\ calls' = calls \ {c} /\ UNCHANGED <<rows, row, answered>>
  /\ UNCHANGED <<serverVars, pageVars, detailVars, dialog, countVars, gone>>

GotSnap(c) ==
  /\ c.kind \in {"snap", "park"} /\ c.stage # "out" /\ calls' = calls \ {c}
  /\ detail' = IF c.stage = "ok" THEN detail \cup {c.task} ELSE detail
  /\ detailError' = IF c.kind = "park" THEN detailError
                    ELSE IF c.stage = "ok" THEN detailError \ {c.task} ELSE detailError \cup {c.task}
  /\ UNCHANGED <<serverVars, pageVars, listVars, dialog, row, countVars, answered, gone>>

\* removeWorkspaceTasks.
Victims(d) == {t \in rows \cup detail : Home[t] = d}

\* (mutant) deleting is over only when the answer is good.
DeletingIfRefused(c) == c.stage # "ok"

\* confirmDelete, the finally included.
Deleting(c) == FALSE

GotDirDelete(c) ==
  /\ c.kind = "dir" /\ c.stage # "out"
  /\ IF c.stage = "ok"
     THEN /\ DropTasks(Victims(c.key))
          /\ Remount(Victims(c.key)) /\ calls' = Orphans(calls \ {c}, Victims(c.key))
          /\ dialog' = [dialog EXCEPT !.pending = None, !.deleting = Deleting(c)]
          /\ gone' = gone \cup c.found
     ELSE /\ dialog' = [dialog EXCEPT !.deleting = Deleting(c)]
          /\ calls' = calls \ {c}
          /\ UNCHANGED <<selected, listDue, snapDue, rows, detailVars, row, gone>>
  /\ UNCHANGED <<serverVars, filter, dir, listError, loading, countVars, answered>>

\* `remove': a row mounted since has not armed or disabled anything.
GotTaskDelete(c) ==
  /\ c.kind = "task" /\ c.stage # "out"
  /\ IF c.stage = "ok"
     THEN /\ DropTasks({c.task}) /\ gone' = gone \cup c.found
          /\ Remount({c.task}) /\ calls' = Orphans(calls \ {c}, {c.task})
     ELSE /\ row' = IF c.live THEN [row EXCEPT ![c.task].busy = FALSE] ELSE row
          /\ calls' = calls \ {c}
          /\ UNCHANGED <<selected, listDue, snapDue, rows, detailVars, gone>>
  /\ UNCHANGED <<serverVars, filter, dir, listError, loading, dialog, countVars, answered>>

Got == \E c \in calls : GotList(c) \/ GotSnap(c) \/ GotDirDelete(c) \/ GotTaskDelete(c)

-----------------------------------------------------------------------------
Next ==
  \/ Handle \/ Fail \/ Got
  \/ ListEffect \/ SnapEffect \/ Park
  \/ SetFilter \/ RetryList
  \/ \E t \in Tasks : SetCurrentTask(t) \/ Remove(t) \/ Elsewhere(t)
  \/ SetCurrentTask(None)
  \/ \E t \in Tasks : \E b \in {"arm", "cancel"} : Arm(t, b)
  \/ \E d \in Dirs : SwitchWorkspace(d) \/ ArmDirectoryDelete(d)
  \/ CancelDirectoryDelete \/ ConfirmDelete

Spec == Init /\ [][Next]_vars

\* React runs the effects, the server handles or the browser gives up, and an
\* answer is delivered; the user is owed nothing.
FairSpec ==
  /\ Spec /\ WF_vars(ListEffect) /\ WF_vars(SnapEffect)
  /\ \A k \in {"list", "dir", "task"} :
       /\ WF_vars(\E c \in calls : c.kind = k /\ c.stage = "out" /\ (HandleList(c) \/ HandleDelete(c)))
       /\ WF_vars(\E c \in calls : c.kind = k /\ (GotList(c) \/ GotDirDelete(c) \/ GotTaskDelete(c)))

-----------------------------------------------------------------------------
(* Properties                                                              *)

Settled == ~listDue /\ ~loading

\* A list at rest that has not failed is what the server answered for the
\* filter and the directory the page shows now, and holds no task this page
\* knows to be deleted, however the reads, the deletions and the changes of
\* the selection overtook each other (TaskView's list effect, dropTasks).
RowsAreTheAnswer ==
  Settled /\ listError = "" =>
    answered.key = Key /\ rows = answered.rows /\ rows \cap gone = {}

\* "A failed load is never an empty list" (lib/failureStates.ts): with no
\* effect waiting, the empty face is shown only when the last list that
\* arrived was for this directory and had nothing.
EmptyIsAnswered == ~listDue /\ Face = "empty" => answered = [key |-> Key, rows |-> {}]

\* A task is not left selected by the deletion of its directory.  The code
\* says so of a task that slid out of the list (store/taskStore.ts,
\* removeWorkspaceTasks).
SelectionGoesToo == [][gone' # gone => selected' \notin gone']_vars

\* A deletion that was confirmed gives its button back.
DeletingEnds == dialog.deleting ~> ~dialog.deleting
=============================================================================
