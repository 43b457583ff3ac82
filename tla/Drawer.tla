-------------------------------- MODULE Drawer --------------------------------
(***************************************************************************)
(* The side columns of the page when it is narrow: the rail and the dash   *)
(* become drawers (pages/TaskView.tsx, lib/drawer.ts), one effect moves    *)
(* the focus and traps it, a second one writes `inert' on every region     *)
(* through a ledger (hooks/useDrawerFocus.ts, lib/inertLedger.ts,          *)
(* lib/focus.ts), and a third one closes a drawer that has no reason to be *)
(* open.  A change of state commits at once; its effects run later, in     *)
(* their order, and before the next change.                                *)
(***************************************************************************)
EXTENDS Naturals, Sequences, SequencesExt

CONSTANT None

VARIABLES
  width,        \* the window: "wide", "mid" (860..1179) or "narrow"
  left, right,  \* what the two media hooks hold: leftNarrow, rightNarrow
  open, trace,  \* TaskView's open and traceOpen
  task,         \* the selected task has a snapshot
  focus,        \* document.activeElement: an element's name, or "body"
  inert,        \* the regions marked inert
  ledger,       \* touched region -> the mark it had before
  trap,         \* the side effect 1 is installed for, or None
  trigger,      \* triggerRef
  due, seen,    \* effects have to run; what the closing effect last saw
  was           \* history: the focus as the last change found it

media == <<width, left, right>>
state == <<open, trace, task>>
marks == <<inert, ledger>>
hook  == <<trap, trigger, seen>>
vars  == <<media, state, focus, marks, hook, due, was>>

Sides   == {"left", "right"}
Regions == {"main", "rail", "dash", "skip"}

\* Where an element is; the body and the scrim are in no region.
Region(e) ==
  CASE e \in {"toggleLeft", "toggleRight", "plan", "back"} -> "main"
    [] e \in {"railClose", "railRow"} -> "rail"
    [] e \in {"dashClose", "fileRow", "replay"} -> "dash"
    [] e = "skipLink" -> "skip"
    [] OTHER -> None

Elements == {"toggleLeft", "toggleRight", "plan", "back", "railClose", "railRow", "dashClose",
             "fileRow", "replay", "skipLink"}

TypeOK ==
  /\ width \in {"wide", "mid", "narrow"} /\ {left, right, trace, task, due} \subseteq BOOLEAN
  /\ open \in Sides \cup {None} /\ focus \in Elements \cup {"body"}
  /\ inert \subseteq Regions /\ DOMAIN ledger \subseteq Regions
  /\ trap \in Sides \cup {None} /\ trigger \in Elements \cup {"body", None}

-----------------------------------------------------------------------------
(* What is drawn                                                           *)

\* drawerView
OpenNarrow   == (open = "left" /\ left) \/ (open = "right" /\ right)
CloseOnWiden == open # None /\ ~OpenNarrow

\* (mutant) Trace leaves the drawer as it is.
NeverForTrace == FALSE

CloseForTrace == trace /\ open # None

\* justify: the side that is drawn as the drawer.
Justify == IF OpenNarrow /\ ~trace THEN open ELSE None

\* The elements there are.
Connected ==
  {"railRow"}
    \cup (IF left /\ ~trace THEN {"toggleLeft"} ELSE {})
    \cup (IF task /\ right /\ ~trace THEN {"toggleRight"} ELSE {})
    \cup (IF task /\ ~trace THEN {"plan", "skipLink"} ELSE {})
    \cup (IF task /\ trace THEN {"back"} ELSE {})
    \cup (IF task THEN {"fileRow", "replay"} ELSE {})
    \cup (IF Justify = "left" THEN {"railClose"} ELSE {})
    \cup (IF Justify = "right" THEN {"dashClose"} ELSE {})
    \cup (IF Justify # None THEN {"scrim"} ELSE {})

\* The regions there are; the skip link comes and goes with its task.
Mounted == {"main", "rail", "dash"} \cup (IF task /\ ~trace THEN {"skip"} ELSE {})

Panel(side) == IF side = "left" THEN "rail" ELSE "dash"

\* focusablesIn: every button of the panel in its order, marked inert or not.
Focusables(side) ==
  SelectSeq(IF side = "left" THEN <<"railClose", "railRow">> ELSE <<"dashClose", "fileRow", "replay">>,
            LAMBDA e : e \in Connected)

Init ==
  /\ width \in {"wide", "mid", "narrow"} /\ left = (width = "narrow") /\ right = (width # "wide")
  /\ open = None /\ trace = FALSE /\ task \in BOOLEAN
  /\ focus = "body" /\ inert = {} /\ ledger = <<>>
  /\ trap = None /\ trigger = None /\ due = TRUE /\ seen = <<FALSE, FALSE>> /\ was = "body"

-----------------------------------------------------------------------------
(* The effects of a commit                                                 *)

\* Focusing an element that is gone or inert does nothing.
Focused(e, marked, now) ==
  IF e \in Connected \cup {"body"} /\ Region(e) \notin marked /\ e # "body" THEN e ELSE now

\* A region that is marked, or gone, drops the focus it holds.
Dropped(e, marked) ==
  IF e \in Connected \cup {"body"} /\ Region(e) \notin marked THEN e ELSE "body"

\* inertTargets of this render.
Targets ==
  CASE Justify = "left" -> {"main", "dash", "skip"}
    [] Justify = "right" -> {"main", "rail", "skip"}
    [] OTHER -> {}

RailInert == left /\ Justify # "left"
DashInert == right /\ Justify # "right"

\* (mutant) what this render's targets were before is put back.
RestoredTargets(m, l) == m \ {r \in DOMAIN l \cap Targets : ~l[r]}

\* restoreAll: every touched region gets back the mark it had.
Restored(m, l) == (m \ DOMAIN l) \cup {r \in DOMAIN l : l[r]}

\* apply: the mark a region has when it is first touched is remembered.
Touched(l, m) ==
  [r \in DOMAIN l \cup (Mounted \cap (Targets \cup {"rail", "dash"})) |->
     IF r \in DOMAIN l THEN l[r] ELSE r \in m]

\* Effect 2, after every render: the targets first, then the edges.
Applied(m) ==
  ((m \cup (Targets \cap Mounted)) \ {"rail", "dash"})
    \cup (IF RailInert THEN {"rail"} ELSE {}) \cup (IF DashInert THEN {"dash"} ELSE {})

\* (mutant) the focus goes back while the marks are still there.
FocusFirst(before, after, now) == Focused(trigger, before, now)

\* Effect 1's cleanup gives the focus back, once the marks are withdrawn.
GivenBack(before, after, now) == Focused(trigger, after, now)

\* Effect 1 is cleaned up and installed when `active' or the container change,
\* effect 2 writes the marks, and the last effect closes the drawer.
Effects ==
  LET move    == trap # Justify
      cleanup == move /\ trap # None
      m1 == IF cleanup THEN Restored(inert, ledger) ELSE inert
      l1 == IF cleanup THEN <<>> ELSE ledger
      f1 == IF cleanup THEN GivenBack(inert, m1, focus) ELSE focus
      enter == move /\ Justify # None
      f2 == IF enter THEN Focused(Head(Focusables(Justify)), m1, f1) ELSE f1
      flags == <<CloseOnWiden, CloseForTrace>>
      close == flags # seen /\ (CloseOnWiden \/ CloseForTrace)
  IN  /\ due
      /\ trap' = Justify
      /\ trigger' = IF enter THEN f1 ELSE IF cleanup THEN None ELSE trigger
      /\ inert' = Applied(m1) /\ ledger' = Touched(l1, m1)
      /\ focus' = Dropped(f2, inert')
      /\ seen' = flags
      /\ open' = (IF close THEN None ELSE open) /\ due' = close
      /\ UNCHANGED <<media, trace, task, was>>

-----------------------------------------------------------------------------
(* What the user and the window do                                         *)

\* What can be used: it is there, not inert, and not under the scrim.
Usable(e) ==
  /\ ~due /\ e \in Connected /\ Region(e) \notin inert
  /\ Justify = None \/ Region(e) = Panel(Justify) \/ e = "scrim"

\* TaskView's state changes and commits, with the focus on e: an element that
\* goes takes the focus with it.
Commit(e, o, tr, tk) ==
  /\ open' = o /\ trace' = tr /\ task' = tk
  /\ was' = e /\ focus' = (IF e \in Connected' \cup {"body"} THEN e ELSE "body")
  /\ due' = TRUE /\ UNCHANGED <<marks, hook>>

\* A button is pressed, which has the focus from then on.
Press(e, o, tr, tk) == Usable(e) /\ UNCHANGED media /\ Commit(e, o, tr, tk)

ToggleLeft  == Press("toggleLeft", IF open = "left" THEN None ELSE "left", trace, task)
ToggleRight == Press("toggleRight", IF open = "right" THEN None ELSE "right", trace, task)

\* onOpenPlan, and openFile on a row of the list.
OpenDash == \E e \in {"plan", "fileRow"} : Press(e, "right", trace, task)

CloseButton == \E e \in {"railClose", "dashClose"} : Press(e, None, trace, task)

\* The press takes the focus to the scrim, and the focusin listener pulls it
\* to the first button of the panel.
Scrim ==
  Usable("scrim") /\ UNCHANGED media /\ Commit(Head(Focusables(Justify)), None, trace, task)

OpenTrace  == ~trace /\ Press("replay", open, TRUE, task)
CloseTrace == Press("back", open, FALSE, task)

\* A row of the rail selects a task; the replay face closes with the old one.
PickTask == \E tk \in BOOLEAN : Press("railRow", open, FALSE, tk)

\* The snapshot of the selected task comes, or another tab deletes the task.
TaskComes == ~due /\ UNCHANGED media /\ Commit(focus, open, trace /\ ~task, ~task)

\* drawerKeyAction: Escape in the trap.
Escape == ~due /\ trap # None /\ UNCHANGED media /\ Commit(focus, None, trace, task)

\* (mutant) the last one stays the last.
NoWrap(count, current, back) ==
  IF back THEN (IF current > 0 THEN current - 1 ELSE 0)
  ELSE IF current + 1 < count THEN current + 1 ELSE current

\* nextFocusIndex, -1 standing for a focus that is not in the list.
NextFocusIndex(count, current, back) ==
  IF count = 0 THEN 0 - 1
  ELSE IF current < 0 THEN (IF back THEN count - 1 ELSE 0)
  ELSE IF back THEN (current + count - 1) % count
  ELSE (current + 1) % count

\* Tab, and Shift+Tab: in the trap they cycle, without it they go anywhere.
Tab ==
  /\ ~due /\ UNCHANGED <<media, state, marks, hook, due, was>>
  /\ IF trap = None
     THEN \E e \in Connected : Region(e) \notin inert /\ focus' = e
     ELSE LET items == Focusables(trap)
              at == IF \E i \in DOMAIN items : items[i] = focus
                    THEN (CHOOSE i \in DOMAIN items : items[i] = focus) - 1 ELSE 0 - 1
          IN  \E back \in BOOLEAN :
                focus' = Focused(items[NextFocusIndex(Len(items), at, back) + 1], inert, focus)

\* The window gets another width; each hook hears of it on its own.
Resize ==
  /\ width' \in {"wide", "mid", "narrow"} \ {width}
  /\ UNCHANGED <<left, right, state, focus, marks, hook, due, was>>

MediaLeft ==
  /\ ~due /\ left # (width = "narrow") /\ left' = ~left
  /\ UNCHANGED <<width, right>> /\ Commit(focus, open, trace, task)

MediaRight ==
  /\ ~due /\ right # (width # "wide") /\ right' = ~right
  /\ UNCHANGED <<width, left>> /\ Commit(focus, open, trace, task)

Next ==
  \/ Effects
  \/ ToggleLeft \/ ToggleRight
  \/ OpenDash \/ CloseButton \/ Scrim \/ Escape \/ OpenTrace \/ CloseTrace
  \/ PickTask \/ TaskComes \/ Tab \/ Resize \/ MediaLeft \/ MediaRight

Spec == Init /\ [][Next]_vars
FairSpec == Spec /\ WF_vars(Effects)

-----------------------------------------------------------------------------
(* Properties                                                              *)

\* Both hooks have heard of the width, and the effects have run.
AtRest == ~due /\ left = (width = "narrow") /\ right = (width # "wide")

\* Once a drawer is closed nothing of what it made inert stays so: only the
\* closed drawers themselves are out of reach.  An open drawer is within reach
\* and the conversation behind it is not (the ledger of lib/inertLedger.ts, the
\* review fix of PR #293 the hook's comment names).
MarksAreRight ==
  AtRest =>
    IF Justify = None
    THEN inert = (IF left THEN {"rail"} ELSE {}) \cup (IF right THEN {"dash"} ELSE {})
    ELSE "main" \in inert /\ Panel(Justify) \notin inert

\* A drawer that closes gives the focus back to what opened it, whenever that
\* is still there and can be reached (D-27's order: marks first, focus second).
BackOnClose ==
  [][(trap # None /\ trap' = None /\ trigger \in Connected /\ Region(trigger) \notin inert')
       => focus' = trigger]_vars

\* What is open is drawn as the drawer: none is left open behind a wide
\* layout or the replay face, to come out by itself later.
OpenIsShown == ~due => open \in {None, Justify}

\* In the open drawer Tab reaches every button and Shift+Tab undoes it: from
\* the last one to the first and back, and into the drawer from outside.
TabCycles ==
  (~due /\ trap # None) =>
    LET n == Len(Focusables(trap)) IN
    \A back \in BOOLEAN :
      /\ NextFocusIndex(n, 0 - 1, back) \in 0..(n - 1)
      /\ \A i \in 0..(n - 1) : NextFocusIndex(n, NextFocusIndex(n, i, back), ~back) = i

\* A drawer that has no reason to be open gets closed.
DrawerCloses == (open # None /\ open # Justify) ~> (open = None \/ open = Justify)

\* (claim of docs/frontend-design.md:152) an opened drawer has the focus.
FocusEnters == [][(trap = None /\ trap' # None) => Region(focus') = Panel(trap')]_vars

\* (claim of docs/frontend-design.md:161) a drawer that was used and closes
\* does not lose the focus.
FocusKept ==
  [][(trap # None /\ trap' = None /\ Region(was) = Panel(trap)) => focus' # "body"]_vars

\* (claim of docs/frontend-design.md:155) behind an open drawer the
\* conversation, the other column and the skip link are inert.
BackgroundIsInert == (AtRest /\ Justify # None) => Mounted \ {Panel(Justify)} \subseteq inert
=============================================================================
