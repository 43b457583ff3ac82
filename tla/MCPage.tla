------------------------------- MODULE MCPage -------------------------------
(***************************************************************************)
(* The components of the page, each on small instances of its own.  They   *)
(* share no state at the grain of these modules, so a behaviour is one of  *)
(* a single part, chosen at the start: the others stay at their initial    *)
(* states, and a run has the sum of the parts' states.  A part is a        *)
(* component with the values of its constants; `Parts' are those of a run. *)
(***************************************************************************)
EXTENDS Naturals, Sequences

CONSTANTS Parts, None, t1, t2, n1, n2, modelA, pathA, pathB, a, b, other, nothing

VARIABLES
  part,
  cServer, cHeard, cMade, cSelected, cView, cFailed, cText, cBusy, cSendError, cSwitchNote,
  cDraft, cRow, cMount, cCalls, cCount,                                        \* Composer
  sServer, sStore, sOpen, sCard, sEditor, sCalls, sCount,                      \* Settings
  pServer, pView, pPane, pCalls, pTexts, pSaves,                               \* PlanEdit
  rExists, rBorn, rFilter, rDir, rSelected, rListDue, rSnapDue, rRows, rListError, rLoading,
  rDetail, rDetailError, rDialog, rRow, rCalls, rReads, rDeletes, rParks, rAnswered, rGone,  \* Rail
  wDir, wUrl, wStored, wWanted, wShown, wClosing, wDraft, wRecent, wNote, wBusy, wDue,
  wCalls, wTries, wCause,                                                      \* WorkspaceDialog
  fWidth, fLeft, fRight, fOpen, fTrace, fTask, fFocus, fInert, fLedger, fTrap, fTrigger,
  fDue, fSeen, fWas,                                                           \* Drawer
  dServer, dRuns, dTold, dCached, dNews, dSelected, dSeen, dVisible, dTab, dOpened, dReplay,
  dPane, dPreviews, dFace, dCalls, dDue                                        \* Dash

composerVars == <<cServer, cHeard, cMade, cSelected, cView, cFailed, cText, cBusy, cSendError,
                  cSwitchNote, cDraft, cRow, cMount, cCalls, cCount>>
settingsVars == <<sServer, sStore, sOpen, sCard, sEditor, sCalls, sCount>>
planVars     == <<pServer, pView, pPane, pCalls, pTexts, pSaves>>
railVars     == <<rExists, rBorn, rFilter, rDir, rSelected, rListDue, rSnapDue, rRows, rListError,
                  rLoading, rDetail, rDetailError, rDialog, rRow, rCalls, rReads, rDeletes, rParks,
                  rAnswered, rGone>>
dialogVars   == <<wDir, wUrl, wStored, wWanted, wShown, wClosing, wDraft, wRecent, wNote, wBusy,
                  wDue, wCalls, wTries, wCause>>
drawerVars   == <<fWidth, fLeft, fRight, fOpen, fTrace, fTask, fFocus, fInert, fLedger, fTrap,
                  fTrigger, fDue, fSeen, fWas>>
dashVars     == <<dServer, dRuns, dTold, dCached, dNews, dSelected, dSeen, dVisible, dTab, dOpened,
                  dReplay, dPane, dPreviews, dFace, dCalls, dDue>>
vars == <<part, composerVars, settingsVars, planVars, railVars, dialogVars, drawerVars, dashVars>>
-----------------------------------------------------------------------------
(* The parts.                                                              *)

\* Two texts, a task there is and one to come, remounts and lost calls.
Sends == INSTANCE Composer WITH
  Old <- {t1}, New <- {n1}, Texts <- {"a", "b"}, Models <- {modelA}, Uses <- {"send", "trace", "fail"}, MaxCalls <- 2,
  server <- cServer, heard <- cHeard, made <- cMade, selected <- cSelected, view <- cView, failed <- cFailed,
  text <- cText, busy <- cBusy, sendError <- cSendError, switchNote <- cSwitchNote, draft <- cDraft, row <- cRow,
  mount <- cMount, calls <- cCalls, count <- cCount

\* Every control, one call.
Controls == INSTANCE Composer WITH
  Old <- {t1}, New <- {n1}, Texts <- {"a"}, Models <- {modelA},
  Uses <- {"send", "mode", "model", "custom", "trace", "fail"}, MaxCalls <- 1,
  server <- cServer, heard <- cHeard, made <- cMade, selected <- cSelected, view <- cView, failed <- cFailed,
  text <- cText, busy <- cBusy, sendError <- cSendError, switchNote <- cSwitchNote, draft <- cDraft, row <- cRow,
  mount <- cMount, calls <- cCalls, count <- cCount

\* Two sends from an empty list.
News == INSTANCE Composer WITH
  Old <- {}, New <- {n1, n2}, Texts <- {"a"}, Models <- {modelA}, Uses <- {"send", "fail"}, MaxCalls <- 2,
  server <- cServer, heard <- cHeard, made <- cMade, selected <- cSelected, view <- cView, failed <- cFailed,
  text <- cText, busy <- cBusy, sendError <- cSendError, switchNote <- cSwitchNote, draft <- cDraft, row <- cRow,
  mount <- cMount, calls <- cCalls, count <- cCount

\* Every write of the card and of the dialog, with no answer lost.
Cards == INSTANCE Settings WITH
  Models <- {modelA}, MaxCalls <- 3,
  Uses <- {"default", "delete", "drop", "test", "add", "discover", "pick", "save", "create", "clear"},
  server <- sServer, store <- sStore, open <- sOpen, card <- sCard, editor <- sEditor, calls <- sCalls,
  count <- sCount

\* Calls that are lost too.
LostCards == INSTANCE Settings WITH
  Models <- {modelA}, MaxCalls <- 2, Uses <- {"delete", "discover", "pick", "save", "add", "fail"},
  server <- sServer, store <- sStore, open <- sOpen, card <- sCard, editor <- sEditor, calls <- sCalls,
  count <- sCount

\* One plan: edits, saves elsewhere, rounds and lost calls.
Plan == INSTANCE PlanEdit WITH
  Tasks <- {t1}, Uses <- {"edit", "elsewhere", "round", "fail"}, MaxTexts <- 3, MaxSaves <- 2,
  server <- pServer, view <- pView, pane <- pPane, calls <- pCalls, texts <- pTexts, saves <- pSaves

\* Two plans selected in turn, saved elsewhere.
Plans == INSTANCE PlanEdit WITH
  Tasks <- {t1, t2}, Uses <- {"elsewhere", "fail"}, MaxTexts <- 3, MaxSaves <- 1,
  server <- pServer, view <- pView, pane <- pPane, calls <- pCalls, texts <- pTexts, saves <- pSaves

\* Two plans selected in turn, edited here.
Edits == INSTANCE PlanEdit WITH
  Tasks <- {t1, t2}, Uses <- {"edit", "elsewhere", "fail"}, MaxTexts <- 1, MaxSaves <- 1,
  server <- pServer, view <- pView, pane <- pPane, calls <- pCalls, texts <- pTexts, saves <- pSaves

\* ... and so that a version shown moves on while a save is under way.
Saves == INSTANCE PlanEdit WITH
  Tasks <- {t1, t2}, Uses <- {"edit", "elsewhere", "fail"}, MaxTexts <- 2, MaxSaves <- 1,
  server <- pServer, view <- pView, pane <- pPane, calls <- pCalls, texts <- pTexts, saves <- pSaves

\* Two directories, a task that is there and one that comes.
TwoDirs == INSTANCE Rail WITH
  Tasks <- {2, 3}, Dirs <- {a, b}, Home <- [t \in {2, 3} |-> IF t = 3 THEN b ELSE a], Begin <- {2}, Limit <- 2,
  MaxReads <- 2, MaxDeletes <- 1, MaxParks <- 0,
  exists <- rExists, born <- rBorn, filter <- rFilter, dir <- rDir, selected <- rSelected, listDue <- rListDue,
  snapDue <- rSnapDue, rows <- rRows, listError <- rListError, loading <- rLoading, detail <- rDetail,
  detailError <- rDetailError, dialog <- rDialog, row <- rRow, calls <- rCalls, reads <- rReads,
  deletes <- rDeletes, parks <- rParks, answered <- rAnswered, gone <- rGone

\* Two tasks of one directory, one of which may be parked.
OneDir == INSTANCE Rail WITH
  Tasks <- {1, 2}, Dirs <- {a}, Home <- [t \in {1, 2} |-> a], Begin <- {1, 2}, Limit <- 2,
  MaxReads <- 2, MaxDeletes <- 1, MaxParks <- 1,
  exists <- rExists, born <- rBorn, filter <- rFilter, dir <- rDir, selected <- rSelected, listDue <- rListDue,
  snapDue <- rSnapDue, rows <- rRows, listError <- rListError, loading <- rLoading, detail <- rDetail,
  detailError <- rDetailError, dialog <- rDialog, row <- rRow, calls <- rCalls, reads <- rReads,
  deletes <- rDeletes, parks <- rParks, answered <- rAnswered, gone <- rGone

\* A task, deleted by its row or with its directory.
OneRow == INSTANCE Rail WITH
  Tasks <- {1}, Dirs <- {a}, Home <- [t \in {1} |-> a], Begin <- {1}, Limit <- 2,
  MaxReads <- 2, MaxDeletes <- 2, MaxParks <- 0,
  exists <- rExists, born <- rBorn, filter <- rFilter, dir <- rDir, selected <- rSelected, listDue <- rListDue,
  snapDue <- rSnapDue, rows <- rRows, listError <- rListError, loading <- rLoading, detail <- rDetail,
  detailError <- rDetailError, dialog <- rDialog, row <- rRow, calls <- rCalls, reads <- rReads,
  deletes <- rDeletes, parks <- rParks, answered <- rAnswered, gone <- rGone

\* Two directories, another spelling of one and a path of nothing.
Dialog == INSTANCE WorkspaceDialog WITH
  Dirs <- {a, b}, Odd <- {other, nothing}, MaxRecent <- 2, MaxTries <- 2,
  Canon <- [x \in {a, b, other, nothing} |-> IF x = other THEN a ELSE IF x = nothing THEN None ELSE x],
  dir <- wDir, url <- wUrl, stored <- wStored, wanted <- wWanted, shown <- wShown, closing <- wClosing,
  draft <- wDraft, recent <- wRecent, note <- wNote, busy <- wBusy, due <- wDue, calls <- wCalls,
  tries <- wTries, cause <- wCause

\* Every width, a task that comes and goes, both drawers, the replay face.
Drawers == INSTANCE Drawer WITH
  width <- fWidth, left <- fLeft, right <- fRight, open <- fOpen, trace <- fTrace, task <- fTask, focus <- fFocus,
  inert <- fInert, ledger <- fLedger, trap <- fTrap, trigger <- fTrigger, due <- fDue, seen <- fSeen, was <- fWas

\* One task that runs and writes, polls answered out of order.
Polls == INSTANCE Dash WITH
  Tasks <- {t1}, Paths <- {pathA}, MaxRuns <- 1, MaxCalls <- 2,
  server <- dServer, runs <- dRuns, told <- dTold, cached <- dCached, news <- dNews, selected <- dSelected,
  seen <- dSeen, visible <- dVisible, tab <- dTab, opened <- dOpened, replay <- dReplay, pane <- dPane,
  previews <- dPreviews, face <- dFace, calls <- dCalls, due <- dDue

\* Two tasks at rest.
Switches == INSTANCE Dash WITH
  Tasks <- {t1, t2}, Paths <- {pathA}, MaxRuns <- 0, MaxCalls <- 1,
  server <- dServer, runs <- dRuns, told <- dTold, cached <- dCached, news <- dNews, selected <- dSelected,
  seen <- dSeen, visible <- dVisible, tab <- dTab, opened <- dOpened, replay <- dReplay, pane <- dPane,
  previews <- dPreviews, face <- dFace, calls <- dCalls, due <- dDue

\* Two files.
Files == INSTANCE Dash WITH
  Tasks <- {t1}, Paths <- {pathA, pathB}, MaxRuns <- 0, MaxCalls <- 1,
  server <- dServer, runs <- dRuns, told <- dTold, cached <- dCached, news <- dNews, selected <- dSelected,
  seen <- dSeen, visible <- dVisible, tab <- dTab, opened <- dOpened, replay <- dReplay, pane <- dPane,
  previews <- dPreviews, face <- dFace, calls <- dCalls, due <- dDue
-----------------------------------------------------------------------------
(* One part at a time.                                                     *)

ASSUME ConstantsAreSound ==
  /\ Sends!Assumption /\ Controls!Assumption /\ News!Assumption
  /\ Cards!Assumption /\ LostCards!Assumption /\ Plan!Assumption /\ Plans!Assumption /\ Edits!Assumption
  /\ Saves!Assumption
  /\ TwoDirs!Assumption /\ OneDir!Assumption /\ OneRow!Assumption /\ Dialog!Assumption
  /\ Polls!Assumption /\ Switches!Assumption /\ Files!Assumption

RailParts == {"two dirs", "one dir", "one row"}
DashParts == {"polls", "switches", "files"}

\* A part that is not the chosen one has one initial state.
Init ==
  /\ part \in Parts
  /\ IF part = "news" THEN News!Init ELSE Sends!Init
  /\ Cards!Init
  /\ IF part = "plans" THEN Plans!Init ELSE IF part \in {"edits", "saves"} THEN Edits!Init ELSE Plan!Init
  /\ CASE part = "one dir" -> OneDir!Init
       [] part = "one row" -> OneRow!Init
       [] OTHER -> TwoDirs!Init
  /\ Dialog!Init
  /\ Drawers!Init
  /\ IF part = "switches" THEN Switches!Init ELSE IF part = "files" THEN Files!Init ELSE Polls!Init
  /\ part \in RailParts \/ rDir = a
  /\ part = "dialog" \/ wDir = a
  /\ part = "drawers" \/ (fWidth = "wide" /\ ~fTask)
  /\ part \in DashParts \/ (dServer[t1].files = {} /\ dVisible)

\* The other components stay as they are.
Only(c) ==
  /\ UNCHANGED part
  /\ IF c = "composer" THEN TRUE ELSE UNCHANGED composerVars
  /\ IF c = "settings" THEN TRUE ELSE UNCHANGED settingsVars
  /\ IF c = "plan"     THEN TRUE ELSE UNCHANGED planVars
  /\ IF c = "rail"     THEN TRUE ELSE UNCHANGED railVars
  /\ IF c = "dialog"   THEN TRUE ELSE UNCHANGED dialogVars
  /\ IF c = "drawer"   THEN TRUE ELSE UNCHANGED drawerVars
  /\ IF c = "dash"     THEN TRUE ELSE UNCHANGED dashVars

Next ==
  \/ part = "sends" /\ Sends!Next /\ Only("composer")
  \/ part = "controls" /\ Controls!Next /\ Only("composer")
  \/ part = "news" /\ News!Next /\ Only("composer")
  \/ part = "cards" /\ Cards!Next /\ Only("settings")
  \/ part = "lost cards" /\ LostCards!Next /\ Only("settings")
  \/ part = "plan" /\ Plan!Next /\ Only("plan")
  \/ part = "plans" /\ Plans!Next /\ Only("plan")
  \/ part = "edits" /\ Edits!Next /\ Only("plan")
  \/ part = "saves" /\ Saves!Next /\ Only("plan")
  \/ part = "two dirs" /\ TwoDirs!Next /\ Only("rail")
  \/ part = "one dir" /\ OneDir!Next /\ Only("rail")
  \/ part = "one row" /\ OneRow!Next /\ Only("rail")
  \/ part = "dialog" /\ Dialog!Next /\ Only("dialog")
  \/ part = "drawers" /\ Drawers!Next /\ Only("drawer")
  \/ part = "polls" /\ Polls!Next /\ Only("dash")
  \/ part = "switches" /\ Switches!Next /\ Only("dash")
  \/ part = "files" /\ Files!Next /\ Only("dash")

Spec == Init /\ [][Next]_vars

\* The fairness of each component, while it is the chosen one.
FairSpec ==
  /\ Spec
  /\ WF_composerVars(part = "news" /\ \E c \in cCalls : News!Handle(c))
  /\ WF_composerVars(part = "news" /\ \E c \in cCalls : News!Answer(c))
  /\ WF_settingsVars(part = "lost cards" /\ \E c \in sCalls :
        LostCards!Handle(c) \/ LostCards!HandlePick(c) \/ LostCards!ReadCards(c) \/ LostCards!ReadEntries(c))
  /\ WF_settingsVars(part = "lost cards" /\ \E c \in sCalls : LostCards!Answer(c))
  /\ WF_planVars(part = "edits" /\ \E c \in Edits!Saving : Edits!Handle(c))
  /\ WF_planVars(part = "edits" /\ \E c \in Edits!Saving : Edits!Checked(c) \/ Edits!Put(c))
  /\ \A k \in {"dir", "task"} :
       /\ WF_railVars(part = "one row" /\ \E c \in rCalls : c.kind = k /\ c.stage = "out" /\ OneRow!HandleDelete(c))
       /\ WF_railVars(part = "one row" /\ \E c \in rCalls : c.kind = k /\ (OneRow!GotDirDelete(c) \/ OneRow!GotTaskDelete(c)))
  /\ WF_drawerVars(part = "drawers" /\ Drawers!Effects)
  /\ WF_dashVars(part = "switches" /\ Switches!Effects)
  /\ \A k \in Switches!Kinds : WF_dashVars(part = "switches" /\ \E c \in dCalls : c.kind = k /\ Switches!Handle(c))
  /\ WF_dashVars(part = "switches" /\ \E c \in dCalls : Switches!FilesArrive(c))
  /\ WF_dashVars(part = "switches" /\ \E c \in dCalls : Switches!PreviewArrives(c))
  /\ WF_dashVars(part = "switches" /\ \E c \in dCalls : Switches!TraceArrives(c))
-----------------------------------------------------------------------------
(* The properties, stated and explained in the components' modules.        *)

\* Every variable keeps its type.
TypeOK ==
  /\ part \in Parts
  /\ part = "sends" => Sends!TypeOK
  /\ part = "controls" => Controls!TypeOK
  /\ part = "news" => News!TypeOK
  /\ part = "cards" => Cards!TypeOK
  /\ part = "lost cards" => LostCards!TypeOK
  /\ part = "plan" => Plan!TypeOK
  /\ part = "plans" => Plans!TypeOK
  /\ part = "edits" => Edits!TypeOK
  /\ part = "saves" => Saves!TypeOK
  /\ part = "two dirs" => TwoDirs!TypeOK
  /\ part = "one dir" => OneDir!TypeOK
  /\ part = "one row" => OneRow!TypeOK
  /\ part = "dialog" => Dialog!TypeOK
  /\ part = "drawers" => Drawers!TypeOK
  /\ part = "polls" => Polls!TypeOK
  /\ part = "switches" => Switches!TypeOK
  /\ part = "files" => Files!TypeOK

\* Composer: no message meant for a task creates another task (composerState.ts 39-42).
NoSecondTask == IF part = "news" THEN News!NoSecondTask ELSE Sends!NoSecondTask

\* Composer: only an accepted message disappears by itself (useComposerSend.ts 67-77).
DraftIsKept == Sends!DraftIsKept

\* Settings: a preview belongs to the host the card shows (ProviderCard.tsx 71-97, 183-210).
PreviewBelongs == Cards!PreviewBelongs

\* Settings: nothing spins when no call is under way (ProviderCard.tsx, ProviderDialog.tsx).
SpinnersEnd == Cards!SpinnersEnd

\* Settings: what the page knows never goes back (modelStore.ts 32-48).
NeverBack == Cards!NeverBack

\* Settings: at rest the page shows what the service holds, unless an answer was
\* lost (modelStore.ts 16-17).
PageAgrees == part # "lost cards" => Cards!PageAgrees

\* Plan pane: a save does not eat a plan written meanwhile (PlanPane.tsx 198-231).
PlanNotEaten == Plan!PlanNotEaten

\* Plan pane: the version a task is known by never goes back (PlanPane.tsx 82-95),
\* for one plan and for two that are selected in turn and edited.
VersionNeverBack == Plan!VersionNeverBack /\ [][part = "saves" => Saves!VersionKept]_planVars

\* Plan pane: no overtaken read is shown for another task (PlanPane.tsx 97-147).
PlanIsItsOwn == part = "plans" => Plans!ShownIsItsOwn

\* Rail: a settled list is the answer for what the page shows (TaskView.tsx 138-170).
RowsAreTheAnswer == IF part = "one dir" THEN OneDir!RowsAreTheAnswer ELSE TwoDirs!RowsAreTheAnswer

\* Rail: the list is said to be empty only after the server said so (failureStates.ts 27).
RailEmptyIsAnswered == IF part = "one dir" THEN OneDir!EmptyIsAnswered ELSE TwoDirs!EmptyIsAnswered

\* Workspace dialog: no late answer switches the directory (WorkspaceDialog.tsx 60-95).
NoSwitchBehind == Dialog!NoSwitchBehind

\* Workspace dialog: one validation at a time (WorkspaceDialog.tsx 66-95).
OneValidation == Dialog!OneValidation

\* Drawers: a closed drawer leaves nothing inert behind (inertLedger.ts 30-60).
MarksAreRight == Drawers!MarksAreRight

\* Drawers: closing gives the focus back to what opened it (useDrawerFocus.ts 100-130).
BackOnClose == Drawers!BackOnClose

\* Drawers: what is open is drawn as the drawer (TaskView.tsx 95-110).
OpenIsShown == Drawers!OpenIsShown

\* Drawers: Tab and Shift+Tab undo each other (useDrawerFocus.ts nextFocusIndex).
TabCycles == Drawers!TabCycles

\* Dash: the active tab is there (lib/dashTabs.ts 39-54).
ActiveTabExists == Switches!ActiveTabExists

\* Dash: the list of a task at rest is the server's (FilePane.tsx 65-76).
FilesCatchUp == Switches!FilesCatchUp

\* Dash: lists, previews and replays belong to the selected task (FilePane.tsx 33-63).
DashIsItsOwn == IF part = "files" THEN Files!ShownIsItsOwn ELSE Switches!ShownIsItsOwn

\* Dash: the pane says there are no files only after the server said so (failureStates.ts 218).
FilesEmptyIsAnswered == Switches!EmptyIsAnswered

\* Dash: a closed drawer asks for no list (FilePane.tsx 67).
HiddenIsQuiet == Switches!HiddenIsQuiet

\* An answer acts only on what it was asked for, and a request on what the page
\* shows: no preview, plan, list or replay of another task or configuration, no
\* directory that was not confirmed, no second validation, no second task.
AnswersKeepToTheirOwn ==
  /\ NoSecondTask /\ PreviewBelongs /\ PlanIsItsOwn /\ DashIsItsOwn /\ NoSwitchBehind /\ OneValidation

\* What the page shows at rest is true: the newest catalog, list and files, no
\* spinner without a call, "empty" only when the server said so, a tab that exists.
RestIsTrue ==
  /\ PageAgrees /\ SpinnersEnd /\ RowsAreTheAnswer /\ RailEmptyIsAnswered
  /\ FilesCatchUp /\ FilesEmptyIsAnswered /\ HiddenIsQuiet /\ ActiveTabExists

\* Drawers, replay and resizes, in any order, leave no region dead, hide no drawer
\* that is open, and let Tab go round.
OverlaysAreSound == MarksAreRight /\ OpenIsShown /\ TabCycles

\* The page at rest and the page under its overlays.
PageIsTrue == RestIsTrue /\ OverlaysAreSound

\* No step undoes what the user, or a newer answer, has done: a draft typed on, a plan
\* written meanwhile, a newer catalog or version, the place of the focus.
WorkIsKept == DraftIsKept /\ PlanNotEaten /\ NeverBack /\ VersionNeverBack /\ BackOnClose

\* Composer: a send ends (useComposerSend.ts 86-90).
SendEnds == News!SendEnds

\* Settings: a refresh ends (modelStore.ts 52).
RefreshEnds == LostCards!LoadingEnds

\* Plan pane: a save ends (PlanPane.tsx 193-235).
SaveEnds == Edits!SaveEnds

\* Rail: a confirmed deletion gives its button back (TaskRail.tsx 80-100).
DeletingEnds == OneRow!DeletingEnds

\* Drawers: a drawer without a reason gets closed (TaskView.tsx 95-110).
DrawerCloses == Drawers!DrawerCloses

\* Dash: the list, a preview and the replay stop loading (FilePane.tsx 44-63).
DashLoadingEnds == Switches!LoadingEnds

\* Whatever the page waits for ends, also when calls fail or the task was changed.
PageSettles == SendEnds /\ RefreshEnds /\ SaveEnds /\ DeletingEnds /\ DrawerCloses /\ DashLoadingEnds
=============================================================================
