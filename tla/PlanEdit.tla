------------------------------ MODULE PlanEdit ------------------------------
(***************************************************************************)
(* The plan of a task as the web page shows and edits it                   *)
(* (components/dash/PlanPane.tsx, lib/planVersion.ts) beside the service   *)
(* that keeps it, the rounds that rewrite it and other pages that save it. *)
(* One PlanPane is mounted and shows the selected task; its effects run    *)
(* after every render that changes what they depend on, so every action    *)
(* ends in Render.  A text is a number, 0 the empty one.                   *)
(***************************************************************************)
EXTENDS Naturals, FiniteSets

CONSTANTS
  Tasks,
  None,
  Uses,       \* what is used: "edit", "elsewhere" (another page saves), "round", "fail"
  MaxTexts,   \* texts written, in the editor and elsewhere
  MaxSaves    \* saves, overwrites and reads by hand

Assumption ==
  /\ Uses \subseteq {"edit", "elsewhere", "round", "fail"}
  /\ MaxTexts \in Nat /\ MaxSaves \in Nat

VARIABLES
  server,    \* the plan file, its version and whether the task is parked
  view,      \* the store's record of each task: plan_version, parked
  pane,      \* the state of the pane, and the refs lastSyncedVersion and loadInFlight
  calls,     \* the requests under way
  texts, saves

vars == <<server, view, pane, calls, texts, saves>>

Fresh(t) == [task |-> t, text |-> 0, version |-> 0, loaded |-> 0, editing |-> FALSE,
             busy |-> FALSE, loading |-> TRUE, error |-> FALSE, conflict |-> None, synced |-> 0]

Loads(cs) == {c \in cs : c.kind = "load"}

TypeOK ==
  /\ \A t \in Tasks : server[t].text \in 0..texts /\ server[t].version \in 0..texts + saves
  /\ \A t \in Tasks : view[t].version \in 0..texts + saves
  /\ pane.task \in Tasks /\ pane.text \in 0..texts /\ pane.loaded \in 0..texts
  /\ Cardinality(Loads(calls)) <= 1
  /\ pane.busy <=> \E c \in calls : c.kind # "load"
  /\ \A c \in calls : c.kind \in {"load", "check", "put", "over"} /\ c.task \in Tasks
  /\ texts \in 0..MaxTexts + Cardinality(Tasks) /\ saves \in 0..MaxSaves

-----------------------------------------------------------------------------
(* Rendering                                                               *)

Load(p) == [kind |-> "load", task |-> p.task, text |-> 0, loaded |-> 0, since |-> {},
            stage |-> "out", found |-> None, chosen |-> TRUE]

\* (mutant) a read goes on when the pane has turned to something else.
Kept(cs) == cs

Cancelled(cs) == cs \ Loads(cs)

ResetOnSwitch(p) == IF p.task = pane.task THEN p ELSE [Fresh(p.task) EXCEPT !.busy = p.busy]

\* shouldReloadOnPlanVersion(synced, current), as it is declared.
ShouldReload(synced, current) == current > synced

\* The pane turns to p and the store to v with cs under way: a changed task, status, editing
\* flag or reload token cancels the read and starts one unless editing; a changed version
\* of the store asks whether to.
Render(p, v, cs, again) ==
  LET q == ResetOnSwitch(p)
      turned == \/ again \/ q.task # pane.task \/ q.editing # pane.editing
                \/ v[q.task].parked # view[pane.task].parked
      kept == IF turned THEN Cancelled(cs) ELSE cs
      versioned == \/ v[q.task].version # view[pane.task].version \/ q.editing # pane.editing
                   \/ q.task # pane.task
      reload == \/ turned /\ ~q.editing
                \/ /\ versioned /\ ~q.editing /\ Loads(kept) = {}
                   /\ ShouldReload(v[q.task].version, q.synced)
  IN  /\ view' = v
      /\ pane' = IF reload THEN [q EXCEPT !.loading = TRUE] ELSE q
      /\ calls' = IF reload THEN kept \cup {Load(q)} ELSE kept

Init ==
  /\ server = [t \in Tasks |-> [text |-> 0, version |-> 0, parked |-> TRUE]]
  /\ view = [t \in Tasks |-> [version |-> 0, parked |-> TRUE]]
  /\ \E t \in Tasks : pane = Fresh(t) /\ calls = {Load(Fresh(t))}
  /\ texts = 0 /\ saves = 0

-----------------------------------------------------------------------------
(* The page around the pane                                                *)

Select(t) ==
  /\ t # pane.task /\ Render([pane EXCEPT !.task = t], view, calls, FALSE)
  /\ UNCHANGED <<server, texts, saves>>

\* A snapshot of the selected task: its plan version only grows (mergeSnapshotUnlessStale).
NextVersion(current, incoming) == IF current > incoming THEN current ELSE incoming

Snapshot ==
  LET t == pane.task IN
  /\ Render(pane, [view EXCEPT ![t] = [version |-> NextVersion(@.version, server[t].version),
                                       parked |-> server[t].parked]], calls, FALSE)
  /\ UNCHANGED <<server, texts, saves>>

-----------------------------------------------------------------------------
(* The pane's controls                                                     *)

\* What can be used: the head, the failure with its retry, the conflict, the text.
Buttons ==
  (IF pane.editing THEN (IF pane.busy THEN {} ELSE {"save", "cancel"})
   ELSE IF view[pane.task].parked /\ ~pane.error THEN {"edit"} ELSE {})
  \cup (IF pane.error /\ ~pane.loading THEN {"retry"} ELSE {})
  \cup (IF pane.conflict = None THEN {} ELSE {"fresh"})
  \cup (IF pane.conflict = None \/ pane.busy THEN {} ELSE {"over"})

Stays == UNCHANGED <<server, texts, saves>>

StartEdit ==
  /\ "edit" \in Uses /\ "edit" \in Buttons
  /\ Render([pane EXCEPT !.loaded = pane.text, !.editing = TRUE, !.conflict = None],
            view, calls, FALSE)
  /\ Stays

CancelEdit ==
  /\ "cancel" \in Buttons
  /\ Render([pane EXCEPT !.text = pane.loaded, !.editing = FALSE, !.conflict = None],
            view, calls, FALSE)
  /\ Stays

\* The text area stays usable during a save.
Type ==
  /\ pane.editing /\ texts < MaxTexts /\ texts' = texts + 1
  /\ Render([pane EXCEPT !.text = texts + 1], view, calls, FALSE)
  /\ UNCHANGED <<server, saves>>

Retry ==
  /\ "retry" \in Buttons /\ saves < MaxSaves /\ saves' = saves + 1
  /\ Render(pane, view, calls, TRUE) /\ UNCHANGED <<server, texts>>

Ask(kind) ==
  /\ saves < MaxSaves /\ saves' = saves + 1
  /\ Render([pane EXCEPT !.busy = TRUE], view,
            calls \cup {[kind |-> kind, task |-> pane.task, text |-> pane.text,
                         loaded |-> pane.loaded, since |-> {}, stage |-> "out", found |-> None,
                         chosen |-> kind = "check" \/ pane.conflict.task = pane.task]}, FALSE)
  /\ UNCHANGED <<server, texts>>

Save == "save" \in Buttons /\ Ask("check")
Overwrite == "over" \in Buttons /\ Ask("over")

-----------------------------------------------------------------------------
(* The service                                                             *)

\* The file is written: what was asked before now knows of it.
Written(t, x) == {IF c.task = t THEN [c EXCEPT !.since = @ \cup {x}] ELSE c : c \in calls}

\* set_plan: a changed text that is not empty is a new version.
Saved(s, x) == [s EXCEPT !.text = x, !.version = IF x # 0 /\ x # s.text THEN @ + 1 ELSE @]

\* get_plan: an empty plan has no version.
Got(s) == [text |-> s.text, version |-> IF s.text = 0 THEN 0 ELSE s.version]

\* Another page saves, or empties, the plan.
Elsewhere(t) ==
  /\ "elsewhere" \in Uses /\ server[t].parked
  /\ \E x \in {0, texts + 1} \ {server[t].text} :
       /\ x <= MaxTexts /\ texts' = IF x = 0 THEN texts ELSE x
       /\ server' = [server EXCEPT ![t] = Saved(@, x)] /\ calls' = Written(t, x)
  /\ UNCHANGED <<view, pane, saves>>

\* A round starts, and ends with a new plan or without one.
Round(t) ==
  /\ "round" \in Uses
  /\ \/ /\ server' = [server EXCEPT ![t].parked = ~@] /\ UNCHANGED <<calls, texts>>
     \/ /\ ~server[t].parked /\ texts < MaxTexts /\ texts' = texts + 1
        /\ server' = [server EXCEPT ![t] = [text |-> texts + 1, version |-> @.version + 1,
                                            parked |-> TRUE]]
        /\ calls' = Written(t, texts + 1)
  /\ UNCHANGED <<view, pane, saves>>

Become(c, d) == (calls \ {c}) \cup {d}

Handle(c) ==
  /\ c \in calls /\ c.stage = "out"
  /\ IF c.kind \in {"load", "check"}
     THEN /\ calls' = Become(c, [c EXCEPT !.stage = "ok", !.found = Got(server[c.task])])
          /\ UNCHANGED server
     ELSE IF ~server[c.task].parked
     THEN calls' = Become(c, [c EXCEPT !.stage = "failed"]) /\ UNCHANGED server
     ELSE LET s == Saved(server[c.task], c.text) IN
          /\ server' = [server EXCEPT ![c.task] = s]
          /\ calls' = Become(c, [c EXCEPT !.stage = "ok", !.found = [text |-> c.text,
                                                                    version |-> s.version]])
  /\ UNCHANGED <<view, pane, texts, saves>>

Fail(c) ==
  /\ "fail" \in Uses /\ c \in calls /\ c.stage # "failed"
  /\ calls' = Become(c, [c EXCEPT !.stage = "failed"])
  /\ UNCHANGED <<server, view, pane, texts, saves>>

-----------------------------------------------------------------------------
(* What the pane does with an answer                                       *)

\* (mutant) the version of the answer is taken as it is.
VersionAsRead(current, incoming) == incoming

Merged(current, incoming) == NextVersion(current, incoming)

\* applyVersion in a handler of task t: merged with the version of the task shown now.
Version(incoming) == Merged(view[pane.task].version, incoming)
Synced(p, incoming) == [p EXCEPT !.version = Version(incoming), !.synced = Version(incoming)]
Stored(t, incoming) == [view EXCEPT ![t].version = Version(incoming)]

LoadingAfter(c) == FALSE

Loaded(c) ==
  /\ c \in calls /\ c.kind = "load" /\ c.stage # "out"
  /\ LET p == [pane EXCEPT !.loading = LoadingAfter(c), !.error = c.stage = "failed"] IN
     IF c.stage = "failed" THEN Render(p, view, calls \ {c}, FALSE)
     ELSE Render(Synced([p EXCEPT !.text = c.found.text, !.loaded = c.found.text],
                        c.found.version),
                 Stored(c.task, c.found.version), calls \ {c}, FALSE)
  /\ Stays

\* (mutant) a failed read before the save is no reason to stop it.
ReadOrNot(c) == IF c.stage = "ok" /\ c.found.text # c.loaded THEN "conflict" ELSE "put"

Verdict(c) ==
  IF c.stage = "failed" THEN "stop" ELSE IF c.found.text # c.loaded THEN "conflict" ELSE "put"

\* (mutant) a save that stops at a conflict is not over.
BusyAtConflict(c) == Verdict(c) = "conflict"

BusyAfter(c) == FALSE

\* The read before the save: the save goes on only if the file is what was loaded.
Checked(c) ==
  /\ c \in calls /\ c.kind = "check" /\ c.stage # "out"
  /\ CASE Verdict(c) = "stop" -> Render([pane EXCEPT !.busy = FALSE], view, calls \ {c}, FALSE)
       [] Verdict(c) = "conflict" ->
            Render([pane EXCEPT !.busy = BusyAfter(c),
                      !.conflict = [task |-> c.task, text |-> c.found.text,
                                    version |-> c.found.version]], view, calls \ {c}, FALSE)
       [] OTHER ->
            Render(pane, view,
                   Become(c, [c EXCEPT !.kind = "put", !.stage = "out", !.found = None]), FALSE)
  /\ Stays

\* The end of a save or of an overwrite.
Put(c) ==
  /\ c \in calls /\ c.kind \in {"put", "over"} /\ c.stage # "out"
  /\ IF c.stage = "failed" THEN Render([pane EXCEPT !.busy = FALSE], view, calls \ {c}, FALSE)
     ELSE Render(Synced([pane EXCEPT !.busy = FALSE, !.loaded = c.text, !.editing = FALSE,
                                     !.conflict = None], c.found.version),
                 Stored(c.task, c.found.version), calls \ {c}, FALSE)
  /\ Stays

LoadFresh ==
  /\ "fresh" \in Buttons
  /\ Render(Synced([pane EXCEPT !.text = pane.conflict.text, !.loaded = pane.conflict.text,
                                !.conflict = None], pane.conflict.version),
            Stored(pane.task, pane.conflict.version), calls, FALSE)
  /\ Stays

Next ==
  \/ \E t \in Tasks : Select(t) \/ Elsewhere(t) \/ Round(t)
  \/ Snapshot \/ StartEdit \/ CancelEdit \/ Type \/ Retry \/ Save \/ Overwrite \/ LoadFresh
  \/ \E c \in calls : Handle(c) \/ Fail(c) \/ Loaded(c) \/ Checked(c) \/ Put(c)

Spec == Init /\ [][Next]_vars

\* Every request ends: the one read and the one save there may be at a time.
Reads == Loads(calls)
Saving == calls \ Reads

FairSpec ==
  /\ Spec
  /\ WF_vars(\E c \in Reads : Handle(c)) /\ WF_vars(\E c \in Reads : Loaded(c))
  /\ WF_vars(\E c \in Saving : Handle(c)) /\ WF_vars(\E c \in Saving : Checked(c) \/ Put(c))
-----------------------------------------------------------------------------
\* A save does not replace a plan that somebody wrote while it was being edited: the text
\* in the file when the save was asked for is the one the editor was opened on, read or
\* not (PlanPane.tsx 198-231; a write between the read and the save itself is not seen).
PlanNotEaten ==
  [][\A c \in calls : c.kind = "put" /\ c.stage = "out" /\ Handle(c) /\ server' # server
       => server[c.task].text \in {c.loaded} \cup c.since]_vars

\* "Plan versions only ever grow, and the one non-monotonic read is the empty plan file,
\* which must not walk a real version back" (PlanPane.tsx 82-95, planVersion.ts) -- but the
\* answer to a save that comes when another task is shown is merged with that one's version.
AnsweredElsewhere(t) ==
  t # pane.task /\ \E c \in calls \ calls' : c.task = t /\ c.kind \in {"put", "over"}

VersionKept == \A t \in Tasks : view'[t].version >= view[t].version \/ AnsweredElsewhere(t)

VersionNeverBack == [][VersionKept]_vars

\* That versions only ever grow, as the comment has it.
VersionsOnlyGrow == [][\A t \in Tasks : view'[t].version >= view[t].version]_vars

\* What the pane shows is the plan of its task, at some time: no read that was overtaken by
\* another selection ends in it (PlanPane.tsx 97-147).
ShownIsItsOwn == ~pane.editing /\ pane.text # 0 => pane.text \in {server[pane.task].text} \cup
                   {x \in 1..texts : \A t \in Tasks \ {pane.task} : server[t].text # x}

\* A save ends, whatever is selected meanwhile (PlanPane.tsx 193-196, 233-235).
SaveEnds == pane.busy ~> ~pane.busy

\* "A store-side version ahead of it means an external change needs one refetch."
PaneCatchesUp ==
  ~pane.editing /\ ~pane.error /\ Loads(calls) = {} => pane.synced >= view[pane.task].version

\* "A saved plan version must reach the store", and no other: the version shown for a task
\* is one its plan has had.
VersionIsItsOwn == \A t \in Tasks : view[t].version <= server[t].version

\* "A failed re-read blocks the save: ... an empty editor must never reach the disk"; a text
\* that goes over the file unread was chosen for the conflict of that very task.
OverwriteIsChosen == \A c \in calls : c.kind = "over" => c.chosen
=============================================================================
