------------------------------- MODULE MCLive -------------------------------
(***************************************************************************)
(* The components of the live browser script, each on small instances of   *)
(* its own.  What they share is abstracted away in each of them, so a      *)
(* behaviour is one of a single part, chosen at the start: the others stay *)
(* at their initial states, and a run has the sum of the parts' states.  A *)
(* part is a component with the values of its constants; `Parts' are those *)
(* of a run.  x1 and x2 are sessions, elements, messages or tabs.          *)
(***************************************************************************)
EXTENDS Integers, FiniteSets, TLC

CONSTANTS Parts, None, x1, x2, t1, t2, m1

Symmetry == Permutations({x1, x2}) \cup Permutations({t1, t2})

VARIABLES
  part,
  lTab, lMaking, lPosts, lSse, lSrv, lFile, lDom, lSpent,                   \* LiveSession
  mTab, mStaged, mPhase, mBatch, mWire, mOpen, mSpent,                      \* ManualEdits
  sChat, sPage, sGuard, sPosts, sQueue, sAgent, sPolling, sOpen, sSaid, sSpent,   \* Steer
  aTab, aChains, aReq, aInbox, aResults, aGens, aGoes, aFaults              \* AgentTarget

sessionVars == <<lTab, lMaking, lPosts, lSse, lSrv, lFile, lDom, lSpent>>
manualVars  == <<mTab, mStaged, mPhase, mBatch, mWire, mOpen, mSpent>>
steerVars   == <<sChat, sPage, sGuard, sPosts, sQueue, sAgent, sPolling, sOpen, sSaid, sSpent>>
targetVars  == <<aTab, aChains, aReq, aInbox, aResults, aGens, aGoes, aFaults>>
vars == <<part, sessionVars, manualVars, steerVars, targetVars>>
-----------------------------------------------------------------------------
(* The parts.                                                              *)

\* A framework page: a reload, and a part of the page that is unmounted.
Framework == INSTANCE LiveSession WITH
  Sessions <- {x1, x2}, Count <- 1, Hmr <- TRUE, MaxLoads <- 1, MaxDrops <- 0, MaxHides <- 1, MaxPresses <- 1,
  Mishaps <- {},
  tab <- lTab, making <- lMaking, posts <- lPosts, sse <- lSse, srv <- lSrv, file <- lFile, dom <- lDom,
  spent <- lSpent

\* A static page: a lost stream, requests that fail, discards from outside.
Static == INSTANCE LiveSession WITH
  Sessions <- {x1, x2}, Count <- 1, Hmr <- FALSE, MaxLoads <- 1, MaxDrops <- 1, MaxHides <- 0, MaxPresses <- 1,
  Mishaps <- {"refused", "forced"},
  tab <- lTab, making <- lMaking, posts <- lPosts, sse <- lSse, srv <- lSrv, file <- lFile, dom <- lDom,
  spent <- lSpent

\* One session on a framework page, with a lost stream and a reload.
OneFramework == INSTANCE LiveSession WITH
  Sessions <- {x1}, Count <- 1, Hmr <- TRUE, MaxLoads <- 1, MaxDrops <- 1, MaxHides <- 0, MaxPresses <- 1,
  Mishaps <- {},
  tab <- lTab, making <- lMaking, posts <- lPosts, sse <- lSse, srv <- lSrv, file <- lFile, dom <- lDom,
  spent <- lSpent

\* One session of two variants on a static page, with annotations and its agent's accept.
OneStatic == INSTANCE LiveSession WITH
  Sessions <- {x1}, Count <- 2, Hmr <- FALSE, MaxLoads <- 1, MaxDrops <- 1, MaxHides <- 0, MaxPresses <- 1,
  Mishaps <- {"annotated", "agent"},
  tab <- lTab, making <- lMaking, posts <- lPosts, sse <- lSse, srv <- lSrv, file <- lFile, dom <- lDom,
  spent <- lSpent

\* One element, with a reload, a lost stream and an apply that needs a decision.
Staging == INSTANCE ManualEdits WITH
  Els <- {x1}, MaxPresses <- 2, MaxGos <- 1, MaxDrops <- 1, MaxLoads <- 1, Mishaps <- {"refused", "decision"},
  tab <- mTab, staged <- mStaged, phase <- mPhase, batch <- mBatch, wire <- mWire, open <- mOpen, spent <- mSpent

\* No lost event.
Applying == INSTANCE ManualEdits WITH
  Els <- {x1}, MaxPresses <- 3, MaxGos <- 0, MaxDrops <- 0, MaxLoads <- 0, Mishaps <- {"refused", "sync"},
  tab <- mTab, staged <- mStaged, phase <- mPhase, batch <- mBatch, wire <- mWire, open <- mOpen, spent <- mSpent

\* Two elements, fewer clicks.
TwoClicks == INSTANCE ManualEdits WITH
  Els <- {x1, x2}, MaxPresses <- 2, MaxGos <- 0, MaxDrops <- 0, MaxLoads <- 0, Mishaps <- {"refused", "sync"},
  tab <- mTab, staged <- mStaged, phase <- mPhase, batch <- mBatch, wire <- mWire, open <- mOpen, spent <- mSpent

\* Two messages, a page with fields, the microphone, lost requests.
Chat == INSTANCE Steer WITH
  Ids <- {x1, x2}, Msgs <- {m1}, MaxDrops <- 0, MaxMoves <- 2, Mishaps <- {"fail", "page", "voice"},
  chat <- sChat, page <- sPage, guard <- sGuard, posts <- sPosts, queue <- sQueue, agent <- sAgent,
  polling <- sPolling, open <- sOpen, said <- sSaid, spent <- sSpent

\* Two messages whose replies are lost or never come.
Silent == INSTANCE Steer WITH
  Ids <- {x1, x2}, Msgs <- {m1}, MaxDrops <- 1, MaxMoves <- 0, Mishaps <- {"fail", "generation"},
  chat <- sChat, page <- sPage, guard <- sGuard, posts <- sPosts, queue <- sQueue, agent <- sAgent,
  polling <- sPolling, open <- sOpen, said <- sSaid, spent <- sSpent

\* Two tabs and two targets: reloads, torn down pages, elements that come and go.
TwoTargets == INSTANCE AgentTarget WITH
  Tabs <- {x1, x2}, Targets <- {t1, t2}, Copies <- {0}, MaxFaults <- 1, Mishaps <- {"reload", "leave", "absent"},
  tab <- aTab, chains <- aChains, req <- aReq, inbox <- aInbox, results <- aResults, gens <- aGens, goes <- aGoes,
  faults <- aFaults

\* Two tabs that race for a target, and lose the lease while the page scrolls.
Lapses == INSTANCE AgentTarget WITH
  Tabs <- {x1, x2}, Targets <- {t1}, Copies <- {0}, MaxFaults <- 3,
  Mishaps <- {"slow", "reload", "leave", "absent", "apply"},
  tab <- aTab, chains <- aChains, req <- aReq, inbox <- aInbox, results <- aResults, gens <- aGens, goes <- aGoes,
  faults <- aFaults

\* Requests and holders that go away.
Holders == INSTANCE AgentTarget WITH
  Tabs <- {x1, x2}, Targets <- {t1}, Copies <- {0}, MaxFaults <- 2,
  Mishaps <- {"reload", "drop", "absent", "apply", "user", "dry"},
  tab <- aTab, chains <- aChains, req <- aReq, inbox <- aInbox, results <- aResults, gens <- aGens, goes <- aGoes,
  faults <- aFaults

\* Leases that lapse while their tab is frozen, and requests that time out.
Frozen == INSTANCE AgentTarget WITH
  Tabs <- {x1, x2}, Targets <- {t1}, Copies <- {0}, MaxFaults <- 2, Mishaps <- {"frozen", "timeout", "user"},
  tab <- aTab, chains <- aChains, req <- aReq, inbox <- aInbox, results <- aResults, gens <- aGens, goes <- aGoes,
  faults <- aFaults

ASSUME ConstantsAreSound ==
  /\ Framework!Assumption /\ Static!Assumption /\ OneFramework!Assumption /\ OneStatic!Assumption
  /\ Staging!Assumption /\ Applying!Assumption /\ TwoClicks!Assumption
  /\ Chat!Assumption /\ Silent!Assumption
  /\ TwoTargets!Assumption /\ Lapses!Assumption /\ Holders!Assumption /\ Frozen!Assumption
-----------------------------------------------------------------------------
(* One part at a time.                                                     *)

\* A part that is not the chosen one has one initial state, the same for x1 and x2.
Init ==
  /\ part \in Parts
  /\ IF part \in {"one framework", "one static"} THEN OneFramework!Init ELSE Framework!Init
  /\ IF part = "staging" THEN Staging!Init ELSE IF part = "applying" THEN Applying!Init ELSE TwoClicks!Init
  /\ Chat!Init
  /\ IF part = "two targets" THEN TwoTargets!Init ELSE Lapses!Init

Session == UNCHANGED <<part, manualVars, steerVars, targetVars>>
Manual  == UNCHANGED <<part, sessionVars, steerVars, targetVars>>
Steers  == UNCHANGED <<part, sessionVars, manualVars, targetVars>>
Target  == UNCHANGED <<part, sessionVars, manualVars, steerVars>>

Next ==
  \/ part = "framework" /\ Framework!Next /\ Session
  \/ part = "static" /\ Static!Next /\ Session
  \/ part = "one framework" /\ OneFramework!Next /\ Session
  \/ part = "one static" /\ OneStatic!Next /\ Session
  \/ part = "staging" /\ Staging!Next /\ Manual
  \/ part = "applying" /\ Applying!Next /\ Manual
  \/ part = "two clicks" /\ TwoClicks!Next /\ Manual
  \/ part = "chat" /\ Chat!Next /\ Steers
  \/ part = "silent" /\ Silent!Next /\ Steers
  \/ part = "two targets" /\ TwoTargets!Next /\ Target
  \/ part = "lapses" /\ Lapses!Next /\ Target
  \/ part = "holders" /\ Holders!Next /\ Target
  \/ part = "frozen" /\ Frozen!Next /\ Target

Spec == Init /\ [][Next]_vars

\* The fairness of each component, while it is the chosen one.
FairSpec ==
  /\ Spec
  /\ WF_sessionVars(part = "one framework" /\ OneFramework!Answers)
  /\ WF_sessionVars(part = "one framework" /\ OneFramework!AcceptAnswered(x1))
  /\ WF_sessionVars(part = "one framework" /\ \E x \in lPosts : x.kind = "accept" /\ OneFramework!PostArrives(x))
  /\ WF_sessionVars(part = "one framework" /\ OneFramework!Connect)
  /\ WF_sessionVars(part = "one framework" /\ OneFramework!Mutate(x1))
  /\ WF_sessionVars(part = "one framework" /\ \E x \in lTab.reads : OneFramework!ReadAnswered(x))
  /\ \A f \in BOOLEAN :
       WF_sessionVars(part = "one framework" /\ OneFramework!Expire([kind |-> "done", s |-> x1, fresh |-> f]))
  /\ WF_sessionVars(part = "one static" /\ OneStatic!Answers)
  /\ WF_sessionVars(part = "one static" /\ OneStatic!AcceptAnswered(x1))
  /\ WF_sessionVars(part = "one static" /\ \E x \in lPosts : x.kind = "accept" /\ OneStatic!PostArrives(x))
  /\ WF_sessionVars(part = "one static" /\ OneStatic!Connect)
  /\ WF_sessionVars(part = "one static" /\ \E x \in lTab.reads : OneStatic!ReadAnswered(x))
  /\ \A f \in BOOLEAN :
       WF_sessionVars(part = "one static" /\ OneStatic!Expire([kind |-> "done", s |-> x1, fresh |-> f]))
  /\ WF_manualVars(part = "two clicks" /\ TwoClicks!Helper)
  /\ WF_manualVars(part = "two clicks" /\ TwoClicks!Agent)
  /\ WF_manualVars(part = "two clicks" /\ TwoClicks!Answers)
  /\ WF_manualVars(part = "two clicks" /\ TwoClicks!Connect)
  /\ WF_steerVars(part = "silent" /\ \E i \in {x1, x2} : Silent!Timeout(i))
  /\ \A x \in {x1, x2} :
       /\ WF_targetVars(part = "holders" /\ \E c \in aChains : c.tab = x /\ Holders!Step(c))
       /\ WF_targetVars(part = "holders" /\ Holders!Connect(x))
       /\ WF_targetVars(part = "holders" /\ Holders!Applied(x))
       /\ WF_targetVars(part = "holders" /\ Holders!Hear(x, t1))
       /\ WF_targetVars(part = "frozen" /\ \E c \in aChains : c.tab = x /\ Frozen!Step(c))
       /\ WF_targetVars(part = "frozen" /\ Frozen!Hear(x, t1))
  /\ WF_targetVars(part = "holders" /\ Holders!Lapse(t1) /\ UNCHANGED aFaults)
  /\ WF_targetVars(part = "holders" /\ Holders!NoMatch(t1))
  /\ WF_targetVars(part = "holders" /\ \E m \in aResults : Holders!ResultArrives(m))
  /\ WF_targetVars(part = "holders" /\ \E g \in aGens : Holders!Captured(g) \/ Holders!GenerateArrives(g) \/ Holders!Refused(g))
  /\ WF_targetVars(part = "frozen" /\ Frozen!Lapse(t1) /\ UNCHANGED aFaults)
  /\ WF_targetVars(part = "frozen" /\ Frozen!NoMatch(t1))
  /\ WF_targetVars(part = "frozen" /\ \E m \in aResults : Frozen!ResultArrives(m))
  /\ WF_targetVars(part = "frozen" /\ \E g \in aGens : Frozen!Captured(g) \/ Frozen!GenerateArrives(g) \/ Frozen!Refused(g))
-----------------------------------------------------------------------------
(* The properties, stated and explained in the components' modules.        *)

\* Every variable keeps its type.
TypeOK ==
  /\ part \in Parts
  /\ part = "framework" => Framework!TypeOK
  /\ part = "static" => Static!TypeOK
  /\ part = "one framework" => OneFramework!TypeOK
  /\ part = "one static" => OneStatic!TypeOK
  /\ part = "staging" => Staging!TypeOK
  /\ part = "applying" => Applying!TypeOK
  /\ part = "two clicks" => TwoClicks!TypeOK
  /\ part = "chat" => Chat!TypeOK
  /\ part = "silent" => Silent!TypeOK
  /\ part = "two targets" => TwoTargets!TypeOK
  /\ part = "lapses" => Lapses!TypeOK
  /\ part = "holders" => Holders!TypeOK
  /\ part = "frozen" => Frozen!TypeOK

\* LiveSession: an ended session is never current again (live-browser.js 10024).
EndedStaysEnded == Static!EndedStaysEnded

\* LiveSession: no recovery of an ended session reloads over new work (live-browser.js 2109).
NoReloadOverNewWork == Static!NoReloadOverNewWork

\* LiveSession: the failure of an accept is told in its own words (live-browser.js 9520).
AcceptFailureIsTold ==
  [][IF part = "static" THEN Static!FailureIsTold ELSE Framework!FailureIsTold]_sessionVars

\* ManualEdits: a hidden element is never the picked one (live-browser.js 3968).
HiddenIsNotPicked == Staging!HiddenIsNotPicked

\* ManualEdits: the tab is locked only while the helper applies, as long as no event
\* is lost (live-browser.js 4590-4595).
LockedIsApplying == part = "applying" => Applying!LockedIsApplying

\* Steer: a lock has its own message and timer (live-browser.js 11180).
LockHasTimer == Chat!LockHasTimer

\* Steer: an open microphone has its input (live-browser.js 1246).
VoiceHasItsInput == Chat!VoiceHasItsInput

\* Steer: the chat steals no focus from a field of the page (live-browser.js 10912).
FocusNotStolen == Chat!FocusNotStolen

\* AgentTarget: a session is never replaced by the Go of a target, as long as the user
\* presses none meanwhile (live-browser.js 7763).
SessionIsKept == [][part = "two targets" => TwoTargets!KeepsSession]_targetVars

\* AgentTarget: a busy verdict is built on tabs that are busy (live-browser.js 7575-7579).
VerdictIsFresh == [][part = "two targets" => TwoTargets!FreshVerdict]_targetVars

\* AgentTarget: one request never gets two Go presses, though the lease lapses under a
\* slow page (live-browser.js 7755-7757).
OneGo == Lapses!OneGo

\* What locks the tab has its cause: an apply at the helper, a message with its timer,
\* an input under the microphone.
LocksAreOwned == LockedIsApplying /\ LockHasTimer /\ VoiceHasItsInput

\* What is over is not taken up again: an accepted or discarded session, a removed
\* element, a target that has been acted on.
DoneStaysDone == EndedStaysEnded /\ HiddenIsNotPicked /\ OneGo

\* No step takes new work, a session or the focus from the user, swallows the failure
\* of an accept, or answers busy for tabs that are not.
StepsAreHonest ==
  NoReloadOverNewWork /\ SessionIsKept /\ FocusNotStolen /\ AcceptFailureIsTold /\ VerdictIsFresh

\* LiveSession: a finished generation is shown (live-browser.js 9957).
FinishedIsShown == OneStatic!FinishedIsShown

\* LiveSession: SAVING ends (live-browser.js 9525).
SavingEnds == OneStatic!SavingEnds

\* ManualEdits: an apply ends for the tab too (live-browser.js 4595).
ApplyingEnds == TwoClicks!ApplyingEnds

\* Steer: a locked chat is unlocked in the end (live-browser.js 11180).
SteerEnds == Silent!SteerEnds

\* AgentTarget: a request is answered in the end (live-browser.js 7599-7619).
RequestEnds == (part = "holders" /\ Holders!Pending(t1)) ~> ~Holders!Pending(t1)

\* AgentTarget: a session the helper refused is dropped (live-browser.js 8086).
LoserIsCleared ==
  \A x \in {x1, x2} : (part = "frozen" /\ Frozen!Lost(x, t1, 0)) ~> ~Frozen!Holds(x, t1, 0)

\* Whatever the live browser waits for ends, though streams, tabs and calls are lost.
LiveSettles ==
  FinishedIsShown /\ SavingEnds /\ ApplyingEnds /\ SteerEnds /\ RequestEnds /\ LoserIsCleared
=============================================================================
