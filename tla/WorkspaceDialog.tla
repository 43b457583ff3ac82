---------------------------- MODULE WorkspaceDialog ----------------------------
(***************************************************************************)
(* The dialog that changes the page's directory (components/rail/          *)
(* WorkspaceDialog.tsx behind RailFooter.tsx), the request gate it uses    *)
(* (lib/requestGate.ts), the directories it remembers (lib/workspaces.ts)  *)
(* and the address it keeps (workspace.ts).  The browser's dialog element  *)
(* reports that it was closed some time after it was.                      *)
(***************************************************************************)
EXTENDS Naturals, Sequences, SequencesExt, FiniteSets

CONSTANTS
  Dirs,       \* directories there are, under their canonical names
  Odd,        \* other things that can be typed: spellings and paths of nothing
  Canon,      \* what normalize_workspace makes of each: a directory, or None
  None,
  MaxRecent,  \* MAX_RECENT
  MaxTries    \* validations asked for

Assumption ==
  /\ Canon \in [Dirs \cup Odd -> Dirs \cup {None}] /\ \A d \in Dirs : Canon[d] = d
  /\ None \notin Dirs \cup Odd /\ Dirs \cap Odd = {}
  /\ MaxRecent \in Nat \ {0} /\ MaxTries \in Nat

VARIABLES
  dir, url,       \* the store's workspaceDir, and `?dir='
  stored,         \* the remembered directories in the browser's storage
  wanted, shown,  \* RailFooter's workspaceOpen, and the dialog element's open
  closing,        \* the element has been closed and has not said so yet
  draft, recent, note, busy,
  due,            \* the effect on [open, workspaceDir] has to run
  calls, tries,   \* validations under way, and asked for so far
  cause           \* history: what last changed the directory

storeVars == <<dir, url, stored>>
dialogVars == <<wanted, shown, closing>>
formVars == <<draft, recent, note, busy>>
vars == <<storeVars, dialogVars, formVars, due, calls, tries, cause>>

Spellings == Dirs \cup Odd
Lists == {s \in SeqOf(Dirs, MaxRecent) : IsInjective(s)}

TypeOK ==
  /\ dir \in Dirs /\ url \in Dirs /\ stored \in Lists
  /\ {wanted, shown, closing, due, busy, note} \subseteq BOOLEAN
  /\ draft \in Spellings \cup {""} /\ recent \in Lists
  /\ tries \in 0..MaxTries
  /\ \A c \in calls : c.current \in BOOLEAN /\ c.stage \in {"out", "ok", "refused", "lost"}
  /\ cause \in [current : BOOLEAN, shown : BOOLEAN]

Init ==
  /\ dir \in Dirs /\ url = dir /\ stored = <<>>
  /\ wanted = FALSE /\ shown = FALSE /\ closing = FALSE
  /\ draft = dir /\ recent = <<>> /\ note = FALSE /\ busy = FALSE
  /\ due = FALSE /\ calls = {} /\ tries = 0
  /\ cause = [current |-> TRUE, shown |-> TRUE]

-----------------------------------------------------------------------------
(* The gate and the remembered directories                                 *)

\* (mutant) the tokens that are out stay current.
StillCurrent(cs) == cs

\* The gate moves on: a token is current when no newer one was given and
\* nothing was invalidated since.
Invalidated(cs) == {[c EXCEPT !.current = FALSE] : c \in cs}

\* addRecentWorkspace: newest first, once each, and no more than MaxRecent.
Added(list, d) ==
  LET all == <<d>> \o SelectSeq(list, LAMBDA x : x # d)
  IN  SubSeq(all, 1, IF Len(all) < MaxRecent THEN Len(all) ELSE MaxRecent)

\* close: the gate moves on, and the element is closed.
Close(cs) ==
  /\ calls' = Invalidated(cs)
  /\ shown' = FALSE /\ closing' = (closing \/ shown)

-----------------------------------------------------------------------------
(* The page                                                                *)

Open ==
  /\ ~wanted /\ ~due /\ wanted' = TRUE /\ shown' = TRUE /\ due' = TRUE
  /\ UNCHANGED <<storeVars, closing, formVars, calls, tries, cause>>

\* The effect on [open, workspaceDir]: a fresh form while it is open.
Fresh ==
  /\ due /\ due' = FALSE
  /\ IF wanted THEN draft' = dir /\ note' = FALSE /\ busy' = FALSE /\ recent' = stored
     ELSE UNCHANGED formVars
  /\ UNCHANGED <<storeVars, dialogVars, calls, tries, cause>>

\* Cancel, the cross, the backdrop and Escape.
Cancel ==
  /\ shown /\ ~due /\ Close(calls)
  /\ UNCHANGED <<storeVars, wanted, formVars, due, tries, cause>>

\* The element's close event, and the render of open = FALSE.
OnClose ==
  /\ closing /\ closing' = FALSE
  /\ wanted' = FALSE /\ due' = (due \/ wanted)
  /\ calls' = Invalidated(calls) /\ shown' = FALSE
  /\ UNCHANGED <<storeVars, formVars, tries, cause>>

Edit(x) ==
  /\ shown /\ ~due /\ x # draft
  /\ x \in Spellings \cup {""} \/ \E i \in DOMAIN recent : recent[i] = x
  /\ draft' = x
  /\ UNCHANGED <<storeVars, dialogVars, recent, note, busy, due, calls, tries, cause>>

\* Least free number: a call is told from another by it.
Free == CHOOSE n \in 1..(Cardinality(calls) + 1) : \A c \in calls : c.n # n

Submit ==
  /\ shown /\ ~due /\ draft # "" /\ ~busy
  /\ tries < MaxTries /\ tries' = tries + 1
  /\ busy' = TRUE /\ note' = FALSE
  /\ calls' = Invalidated(calls)
       \cup {[n |-> Free, current |-> TRUE, target |-> draft, stage |-> "out"]}
  /\ UNCHANGED <<storeVars, dialogVars, draft, recent, due, cause>>

\* validate_workspace_path, or no answer at all.
Validate == \E c \in calls : \E s \in {"ok", "refused", "lost"} :
  /\ c.stage = "out"
  /\ s # "lost" => (s = "ok") = (Canon[c.target] # None)
  /\ calls' = (calls \ {c}) \cup {[c EXCEPT !.stage = s]}
  /\ UNCHANGED <<storeVars, dialogVars, formVars, due, tries, cause>>

\* A good answer that is still wanted: the directory is remembered (or the
\* storage refuses it), the page switches, and the dialog closes.
Switched(c) ==
  LET d == Canon[c.target]
  IN /\ recent' = Added(stored, d)
     /\ stored' \in {stored, Added(stored, d)}
     /\ dir' = d /\ url' = d /\ due' = (due \/ d # dir)
     /\ cause' = [current |-> c.current, shown |-> shown]
     /\ Close(calls \ {c}) /\ UNCHANGED <<wanted, draft, note, busy>>

\* The finally of a request that is current.
BusyAfter == FALSE

\* (mutant) the finally of any request frees the button.
BusyAfterAny == FALSE

\* A request that is not current leaves the button to the newer one.
BusyAfterStale == busy

Answered == \E c \in calls :
  /\ c.stage # "out"
  /\ IF ~c.current
     THEN /\ busy' = BusyAfterStale /\ calls' = calls \ {c}
          /\ UNCHANGED <<storeVars, dialogVars, draft, recent, note, due, cause>>
     ELSE IF c.stage = "ok" THEN Switched(c)
     ELSE /\ calls' = calls \ {c}
          /\ note' = TRUE /\ busy' = BusyAfter
          /\ UNCHANGED <<storeVars, dialogVars, draft, recent, due, cause>>
  /\ UNCHANGED tries

Next ==
  \/ Open \/ Fresh \/ Cancel \/ OnClose \/ Submit \/ Validate \/ Answered
  \/ \E x \in Spellings \cup {""} : Edit(x)

Spec == Init /\ [][Next]_vars

\* The browser reports a closed dialog, React runs the effect, the server
\* answers or the browser gives up.
FairSpec ==
  Spec /\ WF_vars(OnClose) /\ WF_vars(Fresh) /\ WF_vars(Validate) /\ WF_vars(Answered)

-----------------------------------------------------------------------------
(* Properties                                                              *)

\* "a validation answer that arrives after the dialog closed must be dropped
\* instead of switching the workspace behind the user's cancel"
\* (WorkspaceDialog.tsx): the directory changes only by the newest request of
\* a dialog that is on the screen.
NoSwitchBehind == cause.shown /\ cause.current

\* "A stale request must not clear the busy flag of a newer one"
\* (WorkspaceDialog.tsx): while the request the gate is at is under way and
\* the form is as it was sent, its button is disabled, so no two validations
\* of one dialog run at a time.
OneValidation ==
  /\ \A c \in calls : c.current => busy /\ shown
  /\ \A c, d \in calls : c.current /\ d.current => c = d

=============================================================================
