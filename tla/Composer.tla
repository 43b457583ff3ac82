------------------------------ MODULE Composer ------------------------------
(***************************************************************************)
(* The composer of the web page (components/center/Composer.tsx, hooks/    *)
(* useComposerSend.ts, hooks/useComposerControls.ts, lib/composerState.ts) *)
(* beside the calls it makes.  A call leaves with what the render that     *)
(* made it had captured, the server handles it some time later, and its    *)
(* answer goes on in a page that may show another task by then.  The       *)
(* stream and the snapshots of the selected task are LiveView's; here they *)
(* only bring the view up to the server's record.                          *)
(***************************************************************************)
EXTENDS Naturals, FiniteSets

CONSTANTS
  Old,       \* tasks the server has from the start
  New,       \* ids it may give to created ones
  Texts, Models,
  None,
  Uses,      \* what is used: "send", "mode", "model", "custom", "trace", "fail"
  MaxCalls   \* calls the composer makes

Assumption ==
  /\ Old \cap New = {} /\ None \notin Old \cup New \cup Texts \cup Models
  /\ Uses \subseteq {"send", "mode", "model", "custom", "trace", "fail"} /\ MaxCalls \in Nat

VARIABLES
  server,     \* the records the server holds
  heard,      \* the texts it has accepted
  made,       \* the task that was selected when a created task was asked for
  selected, view, failed,  \* the store: currentTaskId, detail, detailError
  text, busy,              \* the composer
  sendError, switchNote,   \* what they are about: a task, None (a new task), or "none"
  draft,                   \* draftMode and draftModel
  row,                     \* the row for a model outside the catalog: customOpen, applyingCustom
  mount,                   \* how often the composer has been mounted
  calls, count             \* the calls under way; the calls made so far

serverVars == <<server, heard, made>>
storeVars  == <<selected, view, failed>>
sendVars   == <<text, busy, sendError>>
switchVars == <<switchNote, draft, row>>
callVars   == <<calls, count>>
vars == <<serverVars, storeVars, sendVars, switchVars, mount, callVars>>

Tasks == Old \cup New
Modes == {"plan", "build"}
Record == [status : {"PENDING", "RUNNING", "INTERRUPTED"}, mode : Modes, model : Models \cup {None}]
Notes == Tasks \cup {None, "none"}
Kinds == {"create", "send", "mode", "model", "custom", "add"}

TypeOK ==
  /\ server \in [Tasks -> Record \cup {None}] /\ heard \subseteq Texts
  /\ made \in [New -> Tasks \cup {None}]
  /\ selected \in Tasks \cup {None}
  /\ view \in [Tasks -> Record \cup {None}] /\ failed \subseteq Tasks
  /\ text \in Texts \cup {""} /\ busy \in BOOLEAN
  /\ sendError \in Notes /\ switchNote \in Notes
  /\ draft \in [mode : Modes, model : Models \cup {None}]
  /\ row \in [open : BOOLEAN, applying : BOOLEAN]
  /\ count \in 0..MaxCalls
  /\ \A c \in calls : c.kind \in Kinds /\ c.stage \in {"out", "ok", "refused", "lost"}
  /\ busy <=> \E c \in calls : c.kind \in {"create", "send"} /\ c.mount = mount

Init ==
  /\ server = [t \in Tasks |-> IF t \in Old
       THEN [status |-> "INTERRUPTED", mode |-> "build", model |-> None] ELSE None]
  /\ heard = {} /\ made = [t \in New |-> None]
  /\ selected = None /\ view = [t \in Tasks |-> None] /\ failed = {}
  /\ text = "" /\ busy = FALSE /\ sendError = "none" /\ switchNote = "none"
  /\ draft = [mode |-> "build", model |-> None]
  /\ row = [open |-> FALSE, applying |-> FALSE]
  /\ mount = 0 /\ calls = {} /\ count = 0

-----------------------------------------------------------------------------
(* What the page shows                                                     *)

\* `task': what the render has in hand.
Shown == IF selected = None THEN None ELSE view[selected]
Running == Shown # None /\ Shown.status \in {"PENDING", "RUNNING"}
Parked == Shown # None /\ Shown.status = "INTERRUPTED"
DetailError == selected # None /\ selected \in failed

\* (mutant) a snapshot under way reads as a new task.
NeverLoading == FALSE

Loading == selected # None /\ Shown = None /\ ~DetailError
InputDisabled == DetailError \/ Loading \/ (Shown # None /\ ~Parked)
Mode == IF Shown # None THEN Shown.mode ELSE draft.mode

\* A selection that changes takes the notes and the row with it, not the text.
Switch(t) ==
  /\ selected' = t
  /\ IF t = selected THEN UNCHANGED <<sendError, switchNote, row>>
     ELSE /\ sendError' = "none" /\ switchNote' = "none"
          /\ row' = [open |-> FALSE, applying |-> FALSE]

-----------------------------------------------------------------------------
(* The page without the composer                                           *)

Select(t) ==
  /\ t \in {None} \cup {x \in Tasks : server[x] # None}
  /\ t # selected /\ Switch(t)
  /\ UNCHANGED <<serverVars, view, failed, text, busy, draft, mount, callVars>>

\* The snapshot of the selected task, or the failure to load it.
Load ==
  /\ selected # None
  /\ \/ /\ view' = [view EXCEPT ![selected] = server[selected]]
        /\ failed' = failed \ {selected}
     \/ "fail" \in Uses /\ failed' = failed \cup {selected} /\ UNCHANGED view
  /\ UNCHANGED <<serverVars, selected, sendVars, switchVars, mount, callVars>>

\* Opening the trace and coming back mounts a new composer.
Trace ==
  /\ "trace" \in Uses /\ Shown # None
  /\ mount' = mount + 1 /\ mount < 1
  /\ text' = "" /\ busy' = FALSE /\ sendError' = "none" /\ switchNote' = "none"
  /\ draft' = [mode |-> "build", model |-> None]
  /\ row' = [open |-> FALSE, applying |-> FALSE]
  /\ UNCHANGED <<serverVars, storeVars, callVars>>

\* A round starts or ends on the server.
Round(t) ==
  /\ server[t] # None /\ server[t].status # "INTERRUPTED"
  /\ server' = [server EXCEPT ![t].status = IF @ = "PENDING" THEN "RUNNING" ELSE "INTERRUPTED"]
  /\ UNCHANGED <<heard, made, storeVars, sendVars, switchVars, mount, callVars>>

-----------------------------------------------------------------------------
(* The composer's calls                                                    *)

Ask(kind, value) ==
  /\ count < MaxCalls /\ count' = count + 1
  /\ calls' = calls \cup {[n |-> count + 1, kind |-> kind, task |-> selected, value |-> value,
                           draft |-> draft, live |-> Running, mount |-> mount,
                           stage |-> "out", found |-> None]}

Type(x) ==
  /\ "send" \in Uses /\ ~InputDisabled /\ text # x
  /\ text' = x
  /\ UNCHANGED <<serverVars, storeVars, busy, sendError, switchVars, mount, callVars>>

Submit ==
  /\ text # "" /\ ~busy /\ ~InputDisabled
  /\ busy' = TRUE /\ sendError' = "none"
  /\ Ask(IF Shown = None THEN "create" ELSE "send", text)
  /\ UNCHANGED <<serverVars, storeVars, text, switchVars, mount>>

\* onMode: the switch is not disabled while one is under way.
PickMode(m) ==
  /\ "mode" \in Uses /\ m # Mode
  /\ switchNote' = "none"
  /\ IF Shown = None THEN draft' = [draft EXCEPT !.mode = m] /\ UNCHANGED callVars
     ELSE Ask("mode", m) /\ UNCHANGED draft
  /\ UNCHANGED <<serverVars, storeVars, sendVars, row, mount>>

PickModel(m) ==
  /\ "model" \in Uses /\ ~Loading /\ ~busy
  /\ switchNote' = "none" /\ row' = [row EXCEPT !.open = FALSE]
  /\ IF Shown = None THEN draft' = [draft EXCEPT !.model = m] /\ UNCHANGED callVars
     ELSE /\ UNCHANGED draft
          /\ IF m = Shown.model THEN UNCHANGED callVars ELSE Ask("model", m)
  /\ UNCHANGED <<serverVars, storeVars, sendVars, mount>>

OpenRow ==
  /\ "custom" \in Uses /\ ~Loading /\ ~busy /\ ~row.open
  /\ row' = [row EXCEPT !.open = TRUE]
  /\ UNCHANGED <<serverVars, storeVars, sendVars, switchNote, draft, mount, callVars>>

CancelRow ==
  /\ row.open /\ row' = [row EXCEPT !.open = FALSE]
  /\ UNCHANGED <<serverVars, storeVars, sendVars, switchNote, draft, mount, callVars>>

\* applyCustom: with a task the model is switched; without one an entry that the catalog
\* has becomes the draft, and any other is added first.
Apply(m) ==
  /\ row.open /\ ~row.applying
  /\ \/ /\ Ask(IF Shown = None THEN "add" ELSE "custom", m) /\ UNCHANGED draft
        /\ row' = [row EXCEPT !.applying = TRUE] /\ switchNote' = "none"
     \/ /\ Shown = None /\ draft' = [draft EXCEPT !.model = m] /\ UNCHANGED callVars
        /\ row' = [row EXCEPT !.open = FALSE] /\ switchNote' = selected
  /\ UNCHANGED <<serverVars, storeVars, sendVars, mount>>

-----------------------------------------------------------------------------
(* The server                                                              *)

Stage(c, s) == calls' = (calls \ {c}) \cup {[c EXCEPT !.stage = s]}
Found(c, t) == calls' = (calls \ {c}) \cup {[c EXCEPT !.stage = "ok", !.found = t]}

\* What a handled call changes; a create finds its task, a send is refused to a
\* running task, a switch finds the record the page reads afterwards.
Handle(c) ==
  /\ c \in calls /\ c.stage = "out"
  /\ CASE c.kind = "create" ->
            \E t \in {x \in New : server[x] = None} :
              /\ server' = [server EXCEPT ![t] = [status |-> "PENDING", mode |-> c.draft.mode,
                                                  model |-> c.draft.model]]
              /\ made' = [made EXCEPT ![t] = c.task]
              /\ heard' = heard \cup {c.value} /\ Found(c, t)
       [] c.kind = "send" ->
            /\ UNCHANGED made
            /\ IF server[c.task].status = "INTERRUPTED"
               THEN /\ server' = [server EXCEPT ![c.task].status = "RUNNING"]
                    /\ heard' = heard \cup {c.value} /\ Found(c, c.task)
               ELSE Stage(c, "refused") /\ UNCHANGED <<server, heard>>
       [] c.kind \in {"mode", "model", "custom"} ->
            /\ server' = IF c.kind = "mode" THEN [server EXCEPT ![c.task].mode = c.value]
                         ELSE [server EXCEPT ![c.task].model = c.value]
            /\ Found(c, c.task) /\ UNCHANGED <<heard, made>>
       [] OTHER -> Found(c, None) /\ UNCHANGED serverVars
  /\ UNCHANGED <<storeVars, sendVars, switchVars, mount, count>>

\* The server refuses, or the call or its answer is lost.
Fail(c) ==
  /\ "fail" \in Uses /\ c \in calls
  /\ \/ c.stage = "out" /\ \E s \in {"refused", "lost"} : Stage(c, s)
     \/ c.stage = "ok" /\ Stage(c, "lost")
  /\ UNCHANGED <<serverVars, storeVars, sendVars, switchVars, mount, count>>

-----------------------------------------------------------------------------
(* What the page does with an answer                                       *)

Here(c) == c.mount = mount
Done(c) == calls' = calls \ {c} /\ UNCHANGED <<serverVars, mount, count>>

\* (mutant) the composer is emptied.
Emptied(prev, sent) == ""

ClearedDraft(prev, sent) == IF prev = sent THEN "" ELSE prev

\* (mutant) the flag is reset on success only.
BusyStays(c) == IF Here(c) /\ c.stage # "ok" THEN busy ELSE FALSE

BusyAfter(c) == IF Here(c) THEN FALSE ELSE busy

\* A create selects its task, a send takes the record of the answer.
Sent(c) ==
  /\ c \in calls /\ c.kind \in {"create", "send"} /\ c.stage = "ok"
  /\ IF c.kind = "create" THEN Switch(c.found) /\ UNCHANGED view
     ELSE /\ view' = [view EXCEPT ![c.task] = server[c.task]]
          /\ UNCHANGED <<selected, sendError, switchNote, row>>
  /\ text' = IF Here(c) THEN ClearedDraft(text, c.value) ELSE text
  /\ busy' = BusyAfter(c)
  /\ Done(c) /\ UNCHANGED <<failed, draft>>

SendFailed(c) ==
  /\ c \in calls /\ c.kind \in {"create", "send"} /\ c.stage \in {"refused", "lost"}
  /\ sendError' = IF Here(c) THEN c.task ELSE sendError
  /\ busy' = BusyAfter(c)
  /\ Done(c) /\ UNCHANGED <<storeVars, text, switchVars>>

\* onMode, onModel and onCustomModel with a task: the page has read it again.
Switched(c) ==
  /\ c \in calls /\ c.kind \in {"mode", "model", "custom"} /\ c.stage = "ok"
  /\ view' = [view EXCEPT ![c.task] = server[c.task]]
  /\ switchNote' = IF Here(c) /\ (c.kind # "mode" \/ c.live) THEN c.task ELSE switchNote
  /\ row' = IF Here(c) /\ c.kind = "custom" THEN [open |-> FALSE, applying |-> FALSE] ELSE row
  /\ Done(c) /\ UNCHANGED <<selected, failed, sendVars, draft>>

\* onCustomModel without a task: the new entry becomes the draft.
Added(c) ==
  /\ c \in calls /\ c.kind = "add" /\ c.stage = "ok"
  /\ IF Here(c) THEN /\ draft' = [draft EXCEPT !.model = c.value] /\ switchNote' = c.task
                     /\ row' = [open |-> FALSE, applying |-> FALSE]
     ELSE UNCHANGED switchVars
  /\ Done(c) /\ UNCHANGED <<storeVars, sendVars>>

SwitchFailed(c) ==
  /\ c \in calls /\ c.kind \notin {"create", "send"} /\ c.stage \in {"refused", "lost"}
  /\ switchNote' = IF Here(c) THEN c.task ELSE switchNote
  /\ row' = IF Here(c) /\ c.kind \in {"custom", "add"} THEN [row EXCEPT !.applying = FALSE]
            ELSE row
  /\ Done(c) /\ UNCHANGED <<storeVars, sendVars, draft>>

Answer(c) == Sent(c) \/ SendFailed(c) \/ Switched(c) \/ Added(c) \/ SwitchFailed(c)

Next ==
  \/ \E t \in Tasks \cup {None} : Select(t)
  \/ Load \/ Trace
  \/ \E t \in Tasks : Round(t)
  \/ \E x \in Texts \cup {""} : Type(x)
  \/ Submit
  \/ \E m \in Modes : PickMode(m)
  \/ \E m \in Models : PickModel(m) \/ Apply(m)
  \/ OpenRow \/ CancelRow
  \/ \E c \in calls : Handle(c) \/ Fail(c) \/ Answer(c)

Spec == Init /\ [][Next]_vars

\* Every request ends: the server handles it, and fetch settles.
FairSpec ==
  /\ Spec
  /\ WF_vars(\E c \in calls : Handle(c))
  /\ WF_vars(\E c \in calls : Answer(c))
-----------------------------------------------------------------------------
\* "A selected task whose snapshot has not arrived yet must not be treated as
\* `new task': sending would silently create a second task": whatever is
\* selected, loaded, lost or remounted, a created task was asked for by a
\* composer that showed no task (composerState.ts 39-42).
NoSecondTask == \A t \in New : made[t] = None

\* A draft that disappears by itself is one the server has accepted: a refusal, a
\* lost answer or an answer to an earlier message does not eat it (useComposerSend.ts
\* 67-69, 74-77).
DraftIsKept ==
  [][text # "" /\ text' = "" /\ mount' = mount /\ calls' # calls => text \in heard]_vars

\* A send that is under way ends, and the composer can send again (useComposerSend.ts
\* 86-90).
SendEnds == busy ~> ~busy

\* "A server reason belongs to the task that produced it; switching tasks must not
\* carry `操作失败' into the next conversation."
NotesBelong ==
  /\ sendError \in {"none", selected}
  /\ switchNote \in {"none", selected}

\* "One in-flight switch at a time".
OneSwitch ==
  \A c, d \in calls : c.kind \in {"custom", "add"} /\ d.kind = c.kind /\ d.task = c.task => c = d
=============================================================================
