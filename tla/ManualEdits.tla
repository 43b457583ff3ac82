---------------------------- MODULE ManualEdits ----------------------------
(* Staging and applying copy edits and removals in live-browser.js.  The     *)
(* user edits the text of a picked element, or removes it; a save stages the *)
(* edit at the helper; the dock's Apply asks the helper to have the staged   *)
(* edits written into the source, locks the tab meanwhile, and learns the    *)
(* end from server-sent events.  What the dock shows is a copy of the        *)
(* helper's state, kept by answers and events that come in any order.        *)
(*                                                                           *)
(* The helper is outside the repository: it is modelled from the requests    *)
(* the tab sends, the answers it expects and the events it handles.          *)
EXTENDS Integers, FiniteSets

CONSTANTS
    Els,         \* elements of the page that can be picked
    None,
    MaxPresses,  \* bound: edits, removals and clicks on the dock
    MaxGos,      \* bound: presses of Go
    MaxDrops,    \* bound: times the event stream drops
    MaxLoads,    \* bound: reloads of the page
    Mishaps      \* which of these happen: requests "refused", an apply that
                 \* needs a "decision", an apply answered in place ("sync")

Assumption ==
    /\ IsFiniteSet(Els) /\ None \notin Els
    /\ MaxPresses \in Nat /\ MaxGos \in Nat /\ MaxDrops \in Nat /\ MaxLoads \in Nat
    /\ Mishaps \subseteq {"refused", "decision", "sync"}

VARIABLES
    tab,     \* the tab: mode, picked element, draft, badge, dock, page (record below)
    staged,  \* the helper: edits staged for this page: [el, op]
    phase,   \* the helper: "idle", "applying" or "decision"
    batch,   \* the helper: the edits its apply works on
    wire,    \* requests on their way: [k, el, op, at, ok, n, gone, orphan]
    open,    \* the event stream is open
    spent    \* presses, drops and loads used of their bounds

vars == <<tab, staged, phase, batch, wire, open, spent>>

Fresh == [ mode |-> "PICKING", sel |-> None, draft |-> FALSE, base |-> "old",
           badge |-> "hidden", count |-> 0, applying |-> FALSE, stored |-> FALSE,
           shown |-> {}, off |-> {}, text |-> [e \in Els |-> "old"], removed |-> {},
           undo |-> None, session |-> FALSE ]

-----------------------------------------------------------------------------
(* The dock: what its functions do to the tab.                               *)

\* refreshLiveControlsForManualApply: the badge follows the lock.
Refresh(t) ==
    [t EXCEPT !.badge =
        IF @ = "hidden" THEN @
        ELSE IF t.applying THEN "idle-disabled"
        ELSE IF t.mode = "CONFIGURING" /\ t.sel # None THEN "idle"
        ELSE @]

HideDock(t) ==
    Refresh([t EXCEPT !.applying = FALSE, !.stored = FALSE, !.count = 0, !.shown = {}, !.off = {}])

SetLoading(t) ==
    Refresh([t EXCEPT !.applying = TRUE, !.stored = @ \/ t.count > 0, !.off = {"apply", "discard"},
                      !.shown = (@ \ {"keep", "rollback"}) \cup {"discard"}])

EndLoading(t) == Refresh([t EXCEPT !.applying = FALSE, !.stored = FALSE, !.off = {}])

\* updatePendingCounter: a stored apply is taken up again.
Counted(t, n) ==
    LET u == [t EXCEPT !.count = n, !.shown = @ \cup {"apply", "discard"}] IN
    IF n = 0 THEN HideDock(t)
    ELSE IF t.applying \/ t.stored THEN SetLoading(u)
    ELSE u

Repairing(t) == IF t.count > 0 \/ t.stored THEN SetLoading([t EXCEPT !.stored = TRUE]) ELSE t

\* showManualApplyDecision: Keep fixing or Rollback.
Decision(t) ==
    Refresh([t EXCEPT !.applying = FALSE, !.stored = @ \/ t.count > 0,
                      !.shown = {"apply", "keep", "rollback"}, !.off = @ \cup {"apply"}])

Started(t, n) == SetLoading([Counted(t, n) EXCEPT !.stored = TRUE])

Repaired(t, n) == SetLoading(Repairing(Counted(t, n)))

\* (mutant) the counter is updated before the flag is cleared
DoneCounterFirst(t, n) == IF n = 0 THEN HideDock(t) ELSE Counted(t, n)

\* manual_edit_commit_done: "Clear the in-flight flag BEFORE updating the counter."
Done(t, n) == Counted(EndLoading(t), n)

Usable(t) == t.shown \ t.off

\* renderEditBadge: the buttons of the badge at the picked element.
BadgeButtons(t) ==
    IF t.badge = "editing" THEN {"cancel", "save"}
    ELSE IF t.badge = "idle" THEN {"edit", "remove"}
    ELSE {}

\* In a shadow root a proxy over each enabled button passes the press on.
Pressable(b) == b \in BadgeButtons(tab)

\* buildConfigureRow and updateGlobalBarState: locked while an apply runs.
RowControls(t) == IF t.mode = "CONFIGURING" /\ ~t.applying THEN {"prompt", "action", "count", "go"} ELSE {}

BarControls(t) == IF t.applying THEN {} ELSE {"pick", "insert", "detect", "design"}

-----------------------------------------------------------------------------
(* Inline editing.                                                           *)

Enabled(t) == [t EXCEPT !.draft = FALSE, !.base = t.text[t.sel]]

\* The drafts of the session of editing are put back (restoreInlineEditDrafts).
Restored(t) ==
    IF t.draft THEN [t EXCEPT !.text[t.sel] = t.base] ELSE t

Disabled(t) == [t EXCEPT !.draft = FALSE]

\* hideBar with the rest of the configure chrome.
Unconfigured(t) ==
    [Disabled(IF t.mode = "EDITING" THEN Restored(t) ELSE t)
        EXCEPT !.badge = "hidden", !.mode = "PICKING"]

Configured(t) == [Disabled(t) EXCEPT !.mode = "CONFIGURING", !.badge = "idle"]

Removable(t) == t.sel # None /\ t.sel \notin t.removed

\* The edits given up: their text is put back, their elements are shown again.
GivenUp(t, edits) ==
    [t EXCEPT !.text = [e \in Els |-> IF [el |-> e, op |-> "text"] \in edits /\ ~(t.draft /\ t.sel = e)
                                      THEN "old" ELSE @[e]],
              !.removed = @ \ {x.el : x \in {y \in edits : y.op = "remove"}}]

-----------------------------------------------------------------------------
(* Requests and events.                                                      *)

Request(k, el, op) == [k |-> k, el |-> el, op |-> op, at |-> "sent", ok |-> TRUE, n |-> 0,
                      gone |-> {}, orphan |-> FALSE]

Ask(k) == Request(k, None, "none")

Edit(el, op) == [el |-> el, op |-> op]

Pressed == spent.presses < MaxPresses /\ spent' = [spent EXCEPT !.presses = @ + 1]

Counting(on) == IF on THEN {Ask("count")} ELSE {}

\* The helper tells an event: heard at once by an open stream, lost otherwise.
Tell(t, fetches) ==
    /\ tab' = IF open THEN t ELSE tab
    /\ wire' = wire \cup Counting(open /\ fetches)

Init ==
    /\ tab = Fresh /\ staged = {} /\ phase = "idle" /\ batch = {} /\ wire = {Ask("count")} /\ open = TRUE
    /\ spent = [presses |-> 0, gos |-> 0, drops |-> 0, loads |-> 0]

-----------------------------------------------------------------------------
(* The user.                                                                 *)

Pick(el) ==
    /\ "pick" \in BarControls(tab) /\ tab.mode = "PICKING" /\ el \notin tab.removed
    /\ tab' = [tab EXCEPT !.mode = "CONFIGURING", !.sel = el, !.badge = "idle"]
    /\ UNCHANGED <<staged, phase, batch, wire, open, spent>>

\* Escape, or a click outside, while configuring.
Unpick ==
    /\ ~tab.applying /\ tab.mode = "CONFIGURING"
    /\ tab' = Unconfigured(tab)
    /\ UNCHANGED <<staged, phase, batch, wire, open, spent>>

EnterEditing ==
    /\ ~tab.applying /\ Pressable("edit") /\ tab.mode = "CONFIGURING" /\ tab.sel # None
    /\ Pressed
    /\ tab' = Enabled([tab EXCEPT !.mode = "EDITING", !.badge = "editing"])
    /\ UNCHANGED <<staged, phase, batch, wire, open>>

Type ==
    /\ tab.mode = "EDITING" /\ ~tab.draft
    /\ tab' = [tab EXCEPT !.draft = TRUE, !.text[tab.sel] = "new"]
    /\ UNCHANGED <<staged, phase, batch, wire, open, spent>>

\* Cancel of the badge, or Escape.
Cancel ==
    /\ tab.mode = "EDITING" /\ ~tab.applying
    /\ tab' = Configured(Restored(tab))
    /\ UNCHANGED <<staged, phase, batch, wire, open, spent>>

\* A click outside the element.
Leave ==
    /\ tab.mode = "EDITING" /\ ~tab.applying
    /\ tab' = Unconfigured(tab)
    /\ UNCHANGED <<staged, phase, batch, wire, open, spent>>

Save ==
    /\ ~tab.applying /\ tab.mode = "EDITING" /\ Pressable("save") /\ tab.draft
    /\ Pressed
    /\ wire' = wire \cup {Request("stash", tab.sel, "text")}
    /\ UNCHANGED <<tab, staged, phase, batch, open>>

Remove ==
    /\ ~tab.applying /\ tab.mode = "CONFIGURING" /\ Removable(tab)
    /\ Pressed
    /\ wire' = wire \cup {Request("stash", tab.sel, "remove")}
    /\ UNCHANGED <<tab, staged, phase, batch, open>>

Undo ==
    /\ ~tab.applying /\ tab.undo # None
    /\ wire' = wire \cup {Request("undo", tab.undo, "remove")}
    /\ tab' = [tab EXCEPT !.undo = None]
    /\ UNCHANGED <<staged, phase, batch, open, spent>>

Apply ==
    /\ "apply" \in Usable(tab) /\ tab.count > 0 /\ ~tab.applying
    /\ Pressed
    /\ tab' = SetLoading([tab EXCEPT !.stored = TRUE])
    /\ wire' = wire \cup {Ask("commit")}
    /\ UNCHANGED <<staged, phase, batch, open>>

Discard ==
    /\ "discard" \in Usable(tab) /\ tab.count > 0 /\ ~tab.applying
    /\ Pressed
    /\ wire' = wire \cup {Ask("discard")}
    /\ UNCHANGED <<tab, staged, phase, batch, open>>

KeepFixing ==
    /\ "keep" \in Usable(tab) /\ (tab.count > 0 \/ tab.stored)
    /\ Pressed
    /\ tab' = Repairing(tab)
    /\ wire' = wire \cup {Ask("repair")}
    /\ UNCHANGED <<staged, phase, batch, open>>

Rollback ==
    /\ "rollback" \in Usable(tab)
    /\ Pressed
    /\ wire' = wire \cup {Ask("rollback")}
    /\ UNCHANGED <<tab, staged, phase, batch, open>>

\* The bar's controls are locked while an apply runs.
Go ==
    /\ "go" \in RowControls(tab) /\ tab.sel # None /\ spent.gos < MaxGos
    /\ tab' = [Disabled(tab) EXCEPT !.mode = "GENERATING", !.session = TRUE,
                                    !.badge = IF @ = "hidden" THEN @ ELSE "idle-disabled"]
    /\ spent' = [spent EXCEPT !.gos = @ + 1]
    /\ UNCHANGED <<staged, phase, batch, wire, open>>

\* The session of the Go ends (accepted or discarded).
Finish ==
    /\ tab.session
    /\ tab' = [Unconfigured(tab) EXCEPT !.session = FALSE, !.sel = None]
    /\ UNCHANGED <<staged, phase, batch, wire, open, spent>>

-----------------------------------------------------------------------------
(* The helper.                                                               *)

\* The helper's answer: the count it now has and the edits it gave up, or a refusal.
Answer(r, n, gone) == (wire \ {r}) \cup {[r EXCEPT !.at = "answered", !.n = n, !.gone = gone]}

Refused(r) == (wire \ {r}) \cup {[r EXCEPT !.at = "answered", !.ok = FALSE]}

\* A request the helper does not grant: an apply owns the page's edits, or the
\* request fails on its way.
Refuse(r) ==
    /\ r.at = "sent"
    /\ \/ "refused" \in Mishaps
       \/ r.k \in {"discard", "undo"} /\ phase # "idle"
       \/ r.k = "commit" /\ (phase # "idle" \/ staged = {})
       \/ r.k \in {"repair", "rollback"} /\ phase # "decision"
    /\ wire' = Refused(r)
    /\ UNCHANGED <<tab, staged, phase, batch, open, spent>>

\* Grants r with the answer's count n and tells the event: tab becomes t.
Grant(r, n, gone, t, fetches) ==
    /\ wire' = Answer(r, n, gone) \cup Counting(open /\ fetches)
    /\ tab' = IF open THEN t ELSE tab

Serve(r) ==
    /\ r.at = "sent"
    /\ \/ /\ r.k = "count"
          /\ wire' = Answer(r, Cardinality(staged), {})
          /\ UNCHANGED <<tab, staged, phase, batch>>
       \/ /\ r.k = "stash"
          /\ staged' = {x \in staged : x.el # r.el} \cup {Edit(r.el, r.op)}
          /\ Grant(r, Cardinality(staged'), {}, Counted(tab, Cardinality(staged')), FALSE)
          /\ UNCHANGED <<phase, batch>>
       \/ /\ r.k \in {"discard", "undo"} /\ phase = "idle"
          /\ staged' = IF r.k = "discard" THEN {} ELSE {x \in staged : x.el # r.el}
          /\ Grant(r, Cardinality(staged'), staged \ staged', tab, TRUE)
          /\ UNCHANGED <<phase, batch>>
       \/ /\ r.k = "commit" /\ phase = "idle" /\ staged # {}
          /\ phase' = "applying" /\ batch' = staged
          /\ Grant(r, 0, {}, Started(tab, Cardinality(staged)), FALSE)
          /\ UNCHANGED staged
       \/ /\ r.k = "repair" /\ phase = "decision"
          /\ phase' = "applying"
          /\ Grant(r, 0, {}, Repaired(tab, Cardinality(staged)), FALSE)
          /\ UNCHANGED <<staged, batch>>
       \/ /\ r.k = "rollback" /\ phase = "decision"
          /\ phase' = "idle" /\ batch' = {}
          /\ Grant(r, Cardinality(staged), {}, [tab EXCEPT !.stored = FALSE], TRUE)
          /\ UNCHANGED staged
    /\ UNCHANGED <<open, spent>>

\* A commit answered in place: some of the edits are written at once.
ServeSync(r, done) ==
    /\ "sync" \in Mishaps /\ r.at = "sent" /\ r.k = "commit" /\ phase = "idle" /\ staged # {}
    /\ done \subseteq staged
    /\ staged' = staged \ done
    /\ wire' = (wire \ {r}) \cup {[r EXCEPT !.at = "answered", !.op = "sync", !.n = Cardinality(staged')]}
    /\ UNCHANGED <<tab, phase, batch, open, spent>>

\* The agent has written the edits it could.
ApplyDone(done) ==
    /\ phase = "applying" /\ done \subseteq batch
    /\ phase' = "idle" /\ batch' = {} /\ staged' = staged \ done
    /\ Tell(Done(tab, Cardinality(staged')), FALSE)
    /\ UNCHANGED <<open, spent>>

ApplyFails ==
    /\ phase = "applying" /\ phase' = "idle" /\ batch' = {}
    /\ Tell(EndLoading(tab), TRUE)
    /\ UNCHANGED <<staged, open, spent>>

\* The agent repairs what its checks found.
ApplyRepairs ==
    /\ phase = "applying" /\ "decision" \in Mishaps
    /\ Tell(Repairing(tab), FALSE)
    /\ UNCHANGED <<staged, phase, batch, open, spent>>

ApplyStuck ==
    /\ phase = "applying" /\ "decision" \in Mishaps
    /\ phase' = "decision"
    /\ Tell(Decision(tab), FALSE)
    /\ UNCHANGED <<staged, batch, open, spent>>

-----------------------------------------------------------------------------
(* Answers.                                                                  *)

Arrive(r) == r.at = "answered" /\ UNCHANGED <<staged, phase, batch, open, spent>>

CountAnswered(r) ==
    /\ r.k = "count" /\ Arrive(r)
    /\ wire' = wire \ {r}
    /\ tab' = IF r.ok THEN Counted(tab, r.n) ELSE tab

SaveAnswered(r) ==
    /\ r.k = "stash" /\ r.op = "text" /\ Arrive(r)
    /\ wire' = wire \ {r}
    /\ tab' = IF r.ok THEN Configured(Counted(tab, r.n)) ELSE tab

\* (mutant) the element is hidden but stays picked, whatever the answer says
RemovedAnyway(r) ==
    /\ r.k = "stash" /\ r.op = "remove" /\ Arrive(r)
    /\ wire' = wire \ {r}
    /\ tab' = [tab EXCEPT !.removed = @ \cup {r.el}, !.undo = r.el]

RemoveAnswered(r) ==
    /\ r.k = "stash" /\ r.op = "remove" /\ Arrive(r)
    /\ wire' = wire \ {r}
    /\ tab' = IF r.ok
              THEN Counted([Unconfigured(tab) EXCEPT !.removed = @ \cup {r.el}, !.undo = r.el, !.sel = None], r.n)
              ELSE tab

UndoAnswered(r) ==
    /\ r.k = "undo" /\ Arrive(r)
    /\ wire' = (wire \ {r}) \cup Counting(~r.ok)
    /\ tab' = IF r.ok THEN Counted([tab EXCEPT !.removed = @ \ {r.el}], r.n) ELSE tab

DiscardAnswered(r) ==
    /\ r.k = "discard" /\ Arrive(r)
    /\ wire' = wire \ {r}
    /\ tab' = IF r.ok THEN Counted(GivenUp(tab, r.gone), 0) ELSE tab

\* (mutant) the lock is not taken back when the commit is refused
RefusedStaysLocked(r) ==
    /\ r.k = "commit" /\ Arrive(r)
    /\ wire' = wire \ {r}
    /\ tab' = IF r.ok /\ r.op = "sync" THEN EndLoading(Counted(tab, r.n)) ELSE tab

\* A started apply ends by an event; every other answer takes the lock back.
CommitAnswered(r) ==
    /\ r.k = "commit" /\ Arrive(r)
    /\ wire' = wire \ {r}
    /\ LET u == IF r.ok /\ r.op = "sync" THEN Counted(tab, r.n) ELSE tab IN
       tab' = IF r.ok /\ r.op # "sync" THEN tab
              ELSE IF u.count > 0 THEN EndLoading(u)
              ELSE HideDock(u)

RepairAnswered(r) ==
    /\ r.k = "repair" /\ Arrive(r)
    /\ wire' = wire \ {r}
    /\ tab' = IF r.ok THEN [tab EXCEPT !.shown = (@ \ {"keep", "rollback"}) \cup {"discard"}]
              ELSE Decision(tab)

RollbackAnswered(r) ==
    /\ r.k = "rollback" /\ Arrive(r)
    /\ wire' = wire \ {r}
    /\ tab' = IF r.ok THEN Counted([tab EXCEPT !.stored = FALSE], r.n) ELSE tab

-----------------------------------------------------------------------------
(* The stream and the page.                                                  *)

Drop ==
    /\ open /\ spent.drops < MaxDrops
    /\ open' = FALSE /\ spent' = [spent EXCEPT !.drops = @ + 1]
    /\ UNCHANGED <<tab, staged, phase, batch, wire>>

\* Nothing is asked anew when the stream is back.
Connect ==
    /\ ~open /\ open' = TRUE
    /\ UNCHANGED <<tab, staged, phase, batch, wire, spent>>

\* Only what is in sessionStorage survives; keepalive requests still reach the
\* helper, whose answer nobody reads.
Reload ==
    /\ spent.loads < MaxLoads /\ spent' = [spent EXCEPT !.loads = @ + 1]
    /\ tab' = [Fresh EXCEPT !.stored = tab.stored]
    /\ wire' = {[r EXCEPT !.orphan = TRUE] : r \in {x \in wire : x.k \in {"commit", "repair"} /\ x.at = "sent"}}
               \cup {Ask("count")}
    /\ open' = TRUE
    /\ UNCHANGED <<staged, phase, batch>>

\* The answer to a request of a page that is gone.
Unheard(r) ==
    /\ r.orphan /\ r.at = "answered"
    /\ wire' = wire \ {r}
    /\ UNCHANGED <<tab, staged, phase, batch, open, spent>>

Heard(r) ==
    /\ ~r.orphan
    /\ \/ CountAnswered(r) \/ SaveAnswered(r) \/ RemoveAnswered(r) \/ UndoAnswered(r)
       \/ DiscardAnswered(r) \/ CommitAnswered(r) \/ RepairAnswered(r) \/ RollbackAnswered(r)

User ==
    \/ \E el \in Els : Pick(el)
    \/ Unpick \/ EnterEditing \/ Type \/ Cancel \/ Leave \/ Save \/ Remove \/ Undo
    \/ Apply \/ Discard \/ KeepFixing \/ Rollback \/ Go \/ Finish

Agent == ApplyFails \/ ApplyStuck \/ \E done \in SUBSET batch : ApplyDone(done)

Helper == \E r \in wire : Serve(r) \/ Refuse(r) \/ \E done \in SUBSET staged : ServeSync(r, done)

Answers == \E r \in wire : Heard(r) \/ Unheard(r)

Next == User \/ Agent \/ ApplyRepairs \/ Helper \/ Answers \/ Drop \/ Connect \/ Reload

Spec == Init /\ [][Next]_vars

\* The helper serves every request, the agent ends what it applies (LOOP of the
\* agent's polling), and a closed EventSource is opened again.
FairSpec == Spec /\ WF_vars(Helper) /\ WF_vars(Agent) /\ WF_vars(Answers) /\ WF_vars(Connect)

-----------------------------------------------------------------------------
(* Properties.                                                               *)

Buttons == {"apply", "discard", "keep", "rollback"}

\* Every variable keeps its type.
TypeOK ==
    /\ tab.mode \in {"PICKING", "CONFIGURING", "EDITING", "GENERATING"}
    /\ tab.badge \in {"hidden", "idle", "idle-disabled", "editing"}
    /\ {tab.sel, tab.undo} \subseteq Els \cup {None} /\ tab.removed \subseteq Els
    /\ tab.count \in 0..Cardinality(Els) /\ tab.shown \subseteq Buttons /\ tab.off \subseteq {"apply", "discard"}
    /\ tab.text \in [Els -> {"old", "new"}]
    /\ tab.draft => tab.mode = "EDITING"
    /\ staged \subseteq [el : Els, op : {"text", "remove"}] /\ batch \subseteq [el : Els, op : {"text", "remove"}]
    /\ phase \in {"idle", "applying", "decision"}

Quiet == wire = {}

\* The tab is locked only while the helper applies, once every answer is in:
\* setPendingApplyLoading says of the other order "would otherwise leave the
\* picker frozen forever after a partial/failed apply".
LockedIsApplying == tab.applying /\ Quiet => phase = "applying"

\* Every apply the tab waits for ends, for the tab too: by the event, or by an
\* answer that takes the lock back (onPendingPillClick's finally).
ApplyingEnds == tab.applying ~> ~tab.applying

\* A hidden element is never the picked one.
HiddenIsNotPicked == tab.mode # "PICKING" => tab.sel \notin tab.removed

-----------------------------------------------------------------------------
(* Claims of the code's comments that the model refutes (README, Disagreements). *)

\* While the helper waits for a decision, the dock offers it.
DecisionIsOffered == phase = "decision" /\ Quiet => {"keep", "rollback"} \subseteq Usable(tab)

\* What the dock counts can be applied when nothing runs (the toast of a
\* rollback: "Rolled back source; edits are still staged.").
StagedCanBeApplied == phase = "idle" /\ Quiet /\ tab.count > 0 => "apply" \in Usable(tab)

\* Who is editing is offered Save.
EditingCanBeSaved == tab.mode = "EDITING" /\ ~tab.applying => "save" \in BadgeButtons(tab)

\* A text edit that is staged is the text the page shows.
StagedIsShown == Quiet => \A e \in Els : Edit(e, "text") \in staged => tab.text[e] = "new"

\* While variants are being generated the tab says so.
GeneratingIsShown == tab.session => tab.mode = "GENERATING"
=============================================================================
