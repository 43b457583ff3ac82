---------------------------- MODULE LiveSession ----------------------------
(* One tab of live-browser.js, the overlay in which a user picks an element, *)
(* presses Go, compares the variants an agent writes into the source and     *)
(* accepts or discards them.  A session lives in four places that drift      *)
(* apart: the tab's memory, its localStorage, the helper's journal and the   *)
(* wrapper in the page's DOM.  POSTs, server-sent events, timers, source     *)
(* reads, DOM mutations and reloads come in any order.                       *)
(*                                                                           *)
(* The helper and the agent are outside the repository: they are modelled    *)
(* from the requests the tab sends and the events it handles.                *)
EXTENDS Integers, FiniteSets

CONSTANTS
    Sessions,    \* ids of the sessions a Go may open
    None,
    Count,       \* variants asked for (expectedVariants)
    Hmr,         \* TRUE: the framework owns the page's DOM (HMR); FALSE: a static page
    MaxLoads,    \* bound: page loads after the first
    MaxDrops,    \* bound: times the event stream drops
    MaxHides,    \* bound: times the picked element's part of the page is unmounted
    MaxPresses,  \* bound: presses of Accept and Discard
    Mishaps      \* which of these happen: "annotated" Gos, an "agent" that gives
                 \* up, a discard "forced" from outside, requests "refused" or lost

Assumption ==
    /\ None \notin Sessions
    /\ Count \in Nat \ {0} /\ MaxPresses \in Nat
    /\ Hmr \in BOOLEAN /\ Mishaps \subseteq {"annotated", "agent", "forced", "refused"}
    /\ MaxLoads \in Nat /\ MaxDrops \in Nat /\ MaxHides \in Nat

Absent == -1      \* no wrapper of the session in the source, or in the DOM
Tries  == 2       \* reloads one stale wrapper may cost (sessionStorage stamp)

Modes == {"IDLE", "PICKING", "CONFIGURING", "GENERATING", "CYCLING", "SAVING"}
ReloadKinds == {"acceptHmr", "wrapper", "discardHmr"}
TimerKinds  == ReloadKinds \cup {"accept", "watch", "discard", "done"}

VARIABLES
    tab,     \* the tab: its memory, its timers and its localStorage (record below)
    making,  \* generate requests of this page: [s, at], from capture to answer
    posts,   \* accept and discard requests of this page: [kind, s, n, at]
    sse,     \* the event stream: "down", "open" or "gone" (given up)
    srv,     \* the helper's journal: phase of each session
    file,    \* variants in the source's wrapper of each session, or Absent
    dom,     \* variants in the DOM's wrapper of each session, or Absent
    spent    \* loads, drops, hides and presses used of their bounds

server == <<srv, file>>
vars == <<tab, making, posts, sse, srv, file, dom, spent>>

Nothing == [s |-> None, at |-> "IDLE", arrived |-> 0]

Blank == [ mode |-> "IDLE", cur |-> None, arrived |-> 0,
           pend |-> None, awaiting |-> None, obs |-> None, ckpt |-> None,
           timers |-> {}, reads |-> {}, scout |-> "off",
           kept |-> Nothing, handled |-> {}, tries |-> [s \in Sessions |-> 0],
           told |-> None, mine |-> None ]

-----------------------------------------------------------------------------
(* What the functions of the tab do to its state.                            *)

\* saveSession, loadSession/clearSession and markSessionHandled.
Save(t) == IF t.cur = None THEN t
           ELSE [t EXCEPT !.kept = [s |-> t.cur, at |-> t.mode, arrived |-> t.arrived]]
Forget(t) == [t EXCEPT !.kept = Nothing]
Handle(t) == IF t.cur = None THEN t ELSE [t EXCEPT !.handled = @ \cup {t.cur}]

\* (mutant) only the current session is looked at, not the revision
SupersededByIdOnly(t, s, fresh) == t.cur \notin {None, s}

\* liveInteractionRevision moved on, or another session is current.
Superseded(t, s, fresh) == ~fresh \/ t.cur \notin {None, s}

\* queueCheckpoint.  Progress of a session the helper knows changes nothing, so
\* only the one it may refuse is kept.
Queue(t, s) == [t EXCEPT !.ckpt = IF srv[s] = "unknown" THEN s ELSE @]

\* A new configuration: every timer armed before it is now behind.
Outdate(t) == [t EXCEPT !.timers = {[x EXCEPT !.fresh = FALSE] : x \in @}, !.told = None,
                        !.scout = IF @ = "off" THEN "off" ELSE "stale"]

\* cleanup(): the session goes, a timer stays behind to tidy its wrapper.
Cleanup(t) ==
    [t EXCEPT !.timers = @ \cup (IF t.cur = None THEN {}
                                 ELSE {[kind |-> "discard", s |-> t.cur, fresh |-> TRUE]}),
              !.mode = "PICKING", !.cur = None, !.obs = None, !.kept = Nothing]

\* scheduleHandledRuntimeWrapperReload: at most Tries reloads for one wrapper.
ScheduleReload(t, s, fresh) ==
    IF \/ s \notin t.handled \/ Superseded(t, s, fresh) \/ t.tries[s] >= Tries
       \/ \E x \in t.timers : x.kind = "wrapper" /\ x.s = s
    THEN t
    ELSE [t EXCEPT !.timers = @ \cup {[kind |-> "wrapper", s |-> s, fresh |-> TRUE]},
                   !.tries[s] = @ + 1]

\* cleanupAcceptedSession, with the timers scheduleAcceptCleanup leaves.
CleanupAccepted(t, s, d) ==
    LET freed == [Handle(t) EXCEPT
                    !.mode = "PICKING", !.cur = None, !.obs = None, !.pend = None,
                    !.kept = Nothing, !.mine = s,
                    !.timers = @ \cup {[kind |-> k, s |-> s, fresh |-> TRUE] : k \in {"accept", "watch"}}]
    IN  IF d[s] = Absent THEN freed ELSE ScheduleReload(freed, s, TRUE)

\* What restoreSessionWithoutWrapper may take up: the cached session, else one
\* the helper reports (act) that this browser has not already ended.
Candidates(t, act) ==
    IF t.kept.s # None THEN {t.kept}
    ELSE {[s |-> x, at |-> "GENERATING", arrived |-> 0] :
            x \in {y \in act \ t.handled : file[y] # Absent}}

Restored(t, c, known) ==
    Save([Queue(t, c.s) EXCEPT
                   !.cur = c.s, !.mode = "GENERATING", !.arrived = c.arrived, !.obs = c.s,
                   !.reads = @ \cup (IF known
                                     THEN {[s |-> c.s, kind |-> IF c.at = "CYCLING" THEN "orphan" ELSE "plain"]}
                                     ELSE {})])

\* The empty set stands for "nothing restored" (return false).
Restores(t, act) ==
    {Restored(t, c, known) :
        c \in {x \in Candidates(t, act) :
                 /\ x.s \notin t.handled
                 /\ x.at \in {"GENERATING", "CYCLING"}
                 /\ act = {} \/ x.s \in act},
        known \in BOOLEAN}

\* (mutant) the original is counted as one of the variants
ResumedWithOriginal(t, w, n) ==
    Save([Queue(t, w) EXCEPT !.cur = w, !.arrived = n + 1, !.obs = w,
                   !.mode = IF n > 0 THEN "CYCLING" ELSE "GENERATING"])

\* A wrapper that was never ended: count its variants and go on from there.
Resumed(t, w, n) ==
    Save([Queue(t, w) EXCEPT !.cur = w, !.arrived = n, !.obs = w,
                   !.mode = IF n > 0 THEN "CYCLING" ELSE "GENERATING"])

Wrappers(d) == {s \in Sessions : d[s] # Absent}

\* (mutant) the wrapper of an ended session is resumed like any other
ResumeAtAny(t, d, w, fresh) ==
    IF w # None THEN {Resumed(t, w, d[w])}
    ELSE IF Restores(t, {}) # {} THEN Restores(t, {})
    ELSE {Forget(t)}

\* resumeSession, for the wrapper w it has found.
ResumeAt(t, d, w, fresh) ==
    LET newer == IF w \in t.handled /\ t.kept.s \notin {None, w} \cup t.handled
                 THEN IF t.cur = t.kept.s THEN {t} ELSE Restores(t, {})
                 ELSE {}
    IN  IF newer # {} THEN newer
        ELSE IF w \in t.handled THEN {ScheduleReload(t, w, fresh)}
        ELSE IF w # None THEN {Resumed(t, w, d[w])}
        ELSE IF Restores(t, {}) # {} THEN Restores(t, {})
        ELSE {Forget(t)}

\* pickPopulatedVariantsWrapper: one with variants, else any, else none.
Found(d) ==
    LET populated == {s \in Sessions : d[s] > 0}
    IN  IF populated # {} THEN populated ELSE IF Wrappers(d) # {} THEN Wrappers(d) ELSE {None}

Resume(t, d, fresh) == UNION {ResumeAt(t, d, w, fresh) : w \in Found(d)}

\* init() on a fresh page: memory is gone, the browser's storage is not.
Loads(t, d) ==
    LET blank == [Blank EXCEPT !.kept = t.kept, !.handled = t.handled, !.tries = t.tries]
    IN  {[r EXCEPT !.scout = IF r.cur = None \/ Wrappers(d) = {} THEN "fresh" ELSE "off",
                   !.mode = IF @ = "IDLE" THEN "PICKING" ELSE @] : r \in Resume(blank, d, TRUE)}

\* The variant observer, the deferred-wrapper scout and the handled-wrapper
\* watchers see the DOM change from dom to d.
Watched(t, d) ==
    LET late == {x \in t.timers : x.kind = "watch" /\ d[x.s] # Absent}
        told == IF late = {} THEN t
                ELSE LET x == CHOOSE x \in late : TRUE IN ScheduleReload(t, x.s, x.fresh)
    IN  IF t.scout # "off" /\ Wrappers(d) # {}
        THEN Resume([told EXCEPT !.scout = "off"], d, t.scout = "fresh")
        ELSE IF told.obs # None /\ d[told.obs] > told.arrived
        THEN {Save([told EXCEPT !.arrived = d[told.obs], !.mode = "CYCLING"])}
        ELSE {told}

\* recoverEmptyCycling outside a component preview; discardOrphanedSession.
RecoverEmpty(t) == Cleanup(t)
DiscardOrphan(t) == Cleanup(Handle(t))

-----------------------------------------------------------------------------
Init ==
    /\ tab = [Blank EXCEPT !.mode = "PICKING", !.scout = "fresh"]
    /\ making = {} /\ posts = {} /\ sse = "open"
    /\ srv = [s \in Sessions |-> "unknown"]
    /\ file = [s \in Sessions |-> Absent]
    /\ dom = [s \in Sessions |-> Absent]
    /\ spent = [loads |-> 0, drops |-> 0, hides |-> 0, presses |-> 0]

(* The user.                                                                 *)

\* A click or Enter on a hovered element: beginNewLiveConfiguration.
Pick ==
    /\ tab.mode = "PICKING"
    /\ tab' = [Outdate(tab) EXCEPT !.mode = "CONFIGURING"]
    /\ UNCHANGED <<making, posts, sse, srv, file, dom, spent>>

\* Escape or a click outside.
Unpick ==
    /\ tab.mode = "CONFIGURING"
    /\ tab' = [tab EXCEPT !.mode = "PICKING"]
    /\ UNCHANGED <<making, posts, sse, srv, file, dom, spent>>

Fresh(s) == srv[s] = "unknown" /\ s \notin {x.s : x \in making} \cup tab.handled
                /\ s \notin {tab.cur, tab.kept.s}

\* handleGo.  A plain request is posted at once; an annotated one only after
\* its screenshot is captured and uploaded.
Go(s, annotated) ==
    /\ tab.mode = "CONFIGURING" /\ Fresh(s) /\ (annotated => "annotated" \in Mishaps)
    /\ tab' = Save([tab EXCEPT !.mode = "GENERATING", !.cur = s, !.arrived = 0,
                               !.pend = None, !.awaiting = None, !.mine = None, !.obs = s])
    /\ making' = making \cup {[s |-> s, at |-> IF annotated THEN "capture" ELSE "flying"]}
    /\ UNCHANGED <<posts, sse, srv, file, dom, spent>>

Press == spent.presses < MaxPresses /\ spent' = [spent EXCEPT !.presses = @ + 1]

\* handleAccept: from the first variant on.
Accept ==
    /\ tab.mode = "CYCLING" /\ tab.pend = None /\ tab.cur # None /\ tab.arrived > 0
    /\ Press
    /\ tab' = Save([tab EXCEPT !.mode = "SAVING", !.pend = tab.cur])
    /\ posts' = posts \cup {[kind |-> "accept", s |-> tab.cur, n |-> 1, at |-> "flying"]}
    /\ UNCHANGED <<making, sse, srv, file, dom>>

\* handleDiscard, by the bar's button or Escape: the mode does not change
\* before the answer, so it can be pressed twice.
Discard ==
    /\ tab.mode = "CYCLING" /\ tab.cur # None
    /\ Press
    /\ LET n == 1 + Cardinality({x \in posts : x.kind = "discard" /\ x.s = tab.cur})
       IN  posts' = posts \cup {[kind |-> "discard", s |-> tab.cur, n |-> n, at |-> "flying"]}
    /\ UNCHANGED <<tab, making, sse, srv, file, dom>>

\* The part of the page that holds the wrapper is unmounted (a closed modal, a
\* hidden tab) on a framework page; it mounts again through Mutate.
Unmount(s) ==
    /\ Hmr /\ spent.hides < MaxHides /\ dom[s] # Absent
    /\ dom' = [dom EXCEPT ![s] = Absent]
    /\ spent' = [spent EXCEPT !.hides = @ + 1]
    /\ tab' \in Watched(tab, dom')
    /\ UNCHANGED <<making, posts, sse, srv, file>>

-----------------------------------------------------------------------------
(* Requests and their answers.                                               *)

\* captureAndEmit: capture and upload are over, the generate goes out.
CaptureEnds(s) ==
    /\ [s |-> s, at |-> "capture"] \in making
    /\ making' = (making \ {[s |-> s, at |-> "capture"]}) \cup {[s |-> s, at |-> "flying"]}
    /\ UNCHANGED <<tab, posts, sse, srv, file, dom, spent>>

\* The helper opens the session, or the request fails, which is only logged;
\* either way the answer opens the gate for the session's progress.
GenerateAnswered(s) ==
    /\ [s |-> s, at |-> "flying"] \in making
    /\ \/ srv' = [srv EXCEPT ![s] = "live"]
       \/ "refused" \in Mishaps /\ UNCHANGED srv
    /\ making' = making \ {[s |-> s, at |-> "flying"]}
    /\ UNCHANGED <<tab, posts, sse, file, dom, spent>>

GateOpen == \A x \in making : x.at = "capture"

\* A checkpoint is posted and answered: the helper refuses progress of a
\* session it has never seen, and the tab drops what it takes for a leftover.
Checkpoint ==
    /\ tab.ckpt # None /\ GateOpen
    /\ LET t == [tab EXCEPT !.ckpt = None]
       IN  tab' = IF srv[tab.ckpt] = "unknown" /\ tab.ckpt = tab.cur THEN Cleanup(Handle(t)) ELSE t
    /\ UNCHANGED <<making, posts, sse, srv, file, dom, spent>>

\* The helper takes an accept or a discard of a live session and refuses one
\* of a session that is already over.
PostArrives(x) ==
    /\ x \in posts /\ x.at = "flying"
    /\ \/ /\ srv[x.s] \in {"live", "ready"}
          /\ srv' = [srv EXCEPT ![x.s] = IF x.kind = "accept" THEN "taken" ELSE "discarded"]
          /\ posts' = (posts \ {x}) \cup {[x EXCEPT !.at = "ok"]}
       \/ /\ x.kind = "discard" /\ srv[x.s] = "discarded"
          /\ posts' = (posts \ {x}) \cup {[x EXCEPT !.at = "ok"]}
          /\ UNCHANGED srv
       \/ /\ "refused" \in Mishaps \/ srv[x.s] \notin {"live", "ready"}
          /\ posts' = (posts \ {x}) \cup {[x EXCEPT !.at = "no"]}
          /\ UNCHANGED srv
    /\ UNCHANGED <<tab, making, sse, file, dom, spent>>

\* (mutant) the failure of an accept is not awaited once the picker is free
AcceptOkForgets(t, s, d) ==
    IF t.pend # s THEN t ELSE CleanupAccepted(t, s, d)

\* An accept the helper has journalled frees the picker; its failure, told by
\* a server event, is awaited from here on.
AcceptOk(t, s, d) ==
    IF t.pend # s THEN t ELSE [CleanupAccepted(t, s, d) EXCEPT !.awaiting = s]

\* (mutant) a refused accept leaves the tab in SAVING
AcceptRefusedSilently(t, s) == [t EXCEPT !.pend = IF @ = s THEN None ELSE @]

\* The catch of handleAccept: back to comparing, whatever is current by now.
AcceptRefused(t, s) ==
    LET back == [t EXCEPT !.pend = IF @ = s THEN None ELSE @, !.mode = "CYCLING"]
    IN  IF t.arrived > 0 THEN back ELSE RecoverEmpty(back)

AcceptAnswered(s) ==
    /\ \E x \in posts :
          /\ x.kind = "accept" /\ x.s = s /\ x.at \in {"ok", "no"}
          /\ posts' = posts \ {x}
          /\ tab' = IF x.at = "ok" THEN AcceptOk(tab, s, dom) ELSE AcceptRefused(tab, s)
    /\ UNCHANGED <<making, sse, srv, file, dom, spent>>

\* The answer to a discard ends what is current by then.
DiscardAnswered(s) ==
    /\ \E x \in posts :
          /\ x.kind = "discard" /\ x.s = s /\ x.at \in {"ok", "no"}
          /\ posts' = posts \ {x}
          /\ tab' = IF x.at = "ok" THEN Cleanup(Handle(tab)) ELSE tab
    /\ UNCHANGED <<making, sse, srv, file, dom, spent>>

-----------------------------------------------------------------------------
(* The agent, the helper and their events.  An event reaches the tab with    *)
(* the step that sends it when the stream is open, and is lost otherwise.    *)

\* The agent wraps the element and writes variants, at once or one by one.
AgentWrites(s) ==
    /\ srv[s] = "live" /\ file[s] < Count
    /\ \E n \in 0..Count : n > file[s] /\ file' = [file EXCEPT ![s] = n]
    /\ UNCHANGED <<tab, making, posts, sse, srv, dom, spent>>

\* "done": every variant is mounted already, or the source is read in a while.
OnDone(t, s) ==
    IF t.arrived >= Count
    THEN IF t.mode = "GENERATING" THEN [t EXCEPT !.mode = "CYCLING"] ELSE t
    ELSE IF t.mode = "GENERATING" /\ t.cur = s
    THEN [t EXCEPT !.timers = @ \cup {[kind |-> "done", s |-> s, fresh |-> TRUE]}]
    ELSE t

AgentDone(s) ==
    /\ srv[s] = "live" /\ file[s] = Count
    /\ srv' = [srv EXCEPT ![s] = "ready"]
    /\ tab' = IF sse = "open" THEN OnDone(tab, s) ELSE tab
    /\ UNCHANGED <<making, posts, sse, file, dom, spent>>

\* "error": of an accept on its way, of an accept already let go, of the
\* current session, or of any other: the last case puts the tab back to PICKING.
OnError(t, s) ==
    IF t.pend = s THEN [t EXCEPT !.pend = None, !.awaiting = None, !.mode = "CYCLING"]
    ELSE IF t.awaiting = s THEN [t EXCEPT !.awaiting = None, !.told = s]
    ELSE IF t.cur = s THEN Cleanup(Handle(t))
    ELSE [t EXCEPT !.kept = IF t.kept.s = s THEN Nothing ELSE @, !.mode = "PICKING"]

AgentFails(s) ==
    /\ srv[s] = "live" /\ "agent" \in Mishaps
    /\ srv' = [srv EXCEPT ![s] = "over"]
    /\ tab' = IF sse = "open" THEN OnError(tab, s) ELSE tab
    /\ UNCHANGED <<making, posts, sse, file, dom, spent>>

\* "complete", "accept" and the carbonize "agent_done": the source is final.
OnComplete(t, s, d) ==
    LET u == [t EXCEPT !.awaiting = IF @ = s THEN None ELSE @]
    IN  IF u.pend # s THEN u
        ELSE IF u.cur \notin {None, s} THEN [u EXCEPT !.pend = None]
        ELSE CleanupAccepted(u, s, d)

AcceptDone(s) ==
    /\ srv[s] = "taken"
    /\ srv' = [srv EXCEPT ![s] = "over"]
    /\ file' = [file EXCEPT ![s] = Absent]
    /\ tab' = IF sse = "open" THEN OnComplete(tab, s, dom) ELSE tab
    /\ UNCHANGED <<making, posts, sse, dom, spent>>

AcceptFails(s) ==
    /\ srv[s] = "taken"
    /\ srv' = [srv EXCEPT ![s] = "over"]
    /\ tab' = IF sse = "open" THEN OnError(tab, s) ELSE tab
    /\ UNCHANGED <<making, posts, sse, file, dom, spent>>

\* A late "agent_done" of the generation that Accept has fenced: no carbonize
\* flag, so the awaited failure window stays open.
OnAgentDone(t, s) == t

LateAgentDone(s) ==
    /\ srv[s] = "taken" /\ sse = "open"
    /\ tab' = OnAgentDone(tab, s)
    /\ UNCHANGED <<making, posts, sse, srv, file, dom, spent>>

\* The discard is carried out (or forced from the command line): the source is
\* restored and "discarded" is sent.
DiscardDone(s) ==
    /\ srv[s] = "discarded" \/ ("forced" \in Mishaps /\ srv[s] \in {"live", "ready"})
    /\ srv' = [srv EXCEPT ![s] = "over"]
    /\ file' = [file EXCEPT ![s] = Absent]
    /\ tab' = IF sse = "open" /\ tab.cur = s THEN Cleanup(Handle(tab)) ELSE tab
    /\ UNCHANGED <<making, posts, sse, dom, spent>>

Active == {s \in Sessions : srv[s] \in {"live", "ready"}}

\* (mutant) a missed completion is left to the next event
RecoverNothing(t) == t

\* recoverMissedGenerationCompletion: a "done" lost with the stream.
RecoverMissed(t) ==
    IF t.cur # None /\ t.mode = "GENERATING" /\ srv[t.cur] = "ready" /\ t.arrived < Count
    THEN [t EXCEPT !.timers = @ \cup {[kind |-> "done", s |-> t.cur, fresh |-> TRUE]}]
    ELSE t

\* "connected": the helper lists its sessions; a wrapper in the DOM goes first.
Connect ==
    /\ sse = "down" /\ sse' = "open"
    /\ \E t \in IF Wrappers(dom) = {} /\ Restores(tab, Active) # {} THEN Restores(tab, Active) ELSE {tab} :
          tab' = LET r == RecoverMissed(t)
                 IN  IF r.mode = "IDLE" THEN [r EXCEPT !.mode = "PICKING"] ELSE r
    /\ UNCHANGED <<making, posts, srv, file, dom, spent>>

Drop ==
    /\ sse = "open" /\ spent.drops < MaxDrops
    /\ sse' = "down"
    /\ spent' = [spent EXCEPT !.drops = @ + 1]
    /\ UNCHANGED <<tab, making, posts, srv, file, dom>>

\* handleServerLost, when the retries are used up: local state is kept.
ServerLost ==
    /\ sse = "down" /\ spent.drops = MaxDrops /\ MaxDrops > 1
    /\ sse' = "gone"
    /\ tab' = Save([tab EXCEPT !.mode = IF tab.cur = None THEN "IDLE" ELSE @, !.obs = None])
    /\ UNCHANGED <<making, posts, srv, file, dom, spent>>

-----------------------------------------------------------------------------
(* The DOM, the source and the timers.                                       *)

\* HMR brings the DOM to what the source says (or a hidden part is mounted).
Mutate(s) ==
    /\ Hmr /\ dom[s] # file[s]
    /\ dom' = [dom EXCEPT ![s] = file[s]]
    /\ tab' \in Watched(tab, dom')
    /\ UNCHANGED <<making, posts, sse, srv, file, spent>>

\* completeSourceInjection once the wrapper holds n variants.  An empty wrapper
\* of a finished generation is read again a few times, then given up.
Injected(t, s, kind, n) ==
    IF n > 0 THEN {Save([t EXCEPT !.arrived = n, !.mode = "CYCLING"])}
    ELSE IF t.mode # "GENERATING" THEN {RecoverEmpty([t EXCEPT !.arrived = 0])}
    ELSE IF kind = "done"
    THEN {[t EXCEPT !.arrived = 0, !.reads = @ \cup {[s |-> s, kind |-> kind]}],
          RecoverEmpty([t EXCEPT !.arrived = 0])}
    ELSE {[t EXCEPT !.arrived = 0]}

\* An answered read of a static page's source: parse it and inject the wrapper.
\* Without one, only the reader that looks for an orphan acts.
ReadStatic(x) ==
    LET t == [tab EXCEPT !.reads = @ \ {x}]
        d == [dom EXCEPT ![x.s] = file[x.s]]
    IN  IF file[x.s] # Absent
        THEN /\ dom' = d
             /\ \E r \in Injected(t, x.s, x.kind, file[x.s]) : tab' \in Watched(r, d)
        ELSE /\ tab' \in IF x.kind = "orphan" /\ x.s = t.cur THEN {tab, DiscardOrphan(t)} ELSE {t}
             /\ UNCHANGED dom

\* A framework page never has its source injected: the wrapper it has mounted
\* is taken, a finished generation without one is waited for, and an orphan is
\* discarded when the source no longer names it.  All of it is for a session
\* that is still the current one (stillActive).
ReadHmr(x) ==
    LET t == [tab EXCEPT !.reads = @ \ {x}]
    IN  /\ UNCHANGED dom
        /\ tab' \in IF x.s # t.cur \/ t.mode \notin {"GENERATING", "CYCLING"} THEN {t}
                    ELSE IF dom[x.s] > 0 THEN Injected(t, x.s, x.kind, dom[x.s])
                    ELSE IF x.kind = "done" /\ dom[x.s] = 0 THEN {tab, RecoverEmpty(t)}
                    ELSE IF x.kind = "orphan" /\ dom[x.s] = Absent /\ file[x.s] = Absent
                    THEN {tab, DiscardOrphan(t)}
                    ELSE {t}

\* injectVariantsFromSource is answered; a read that fails is told in a toast.
ReadAnswered(x) ==
    /\ x \in tab.reads
    /\ IF Hmr THEN ReadHmr(x) ELSE ReadStatic(x)
    /\ UNCHANGED <<making, posts, sse, srv, file, spent>>

ReadFails(x) ==
    /\ "refused" \in Mishaps /\ x \in tab.reads
    /\ tab' = [tab EXCEPT !.reads = @ \ {x}]
    /\ UNCHANGED <<making, posts, sse, srv, file, dom, spent>>

\* The page is loaded anew from the source: by the user, the dev server or one
\* of the recovery timers.  Requests without an answer are forgotten.
LoadPage ==
    /\ spent.loads < MaxLoads
    /\ spent' = [spent EXCEPT !.loads = @ + 1]
    /\ dom' = file /\ sse' = "down" /\ making' = {} /\ posts' = {}
    /\ tab' \in Loads(tab, file)
    /\ UNCHANGED server

Reload == LoadPage

\* A recovery timer finds the wrapper of an ended session still mounted.
ReloadTimer(x) ==
    /\ x \in tab.timers /\ x.kind \in ReloadKinds
    /\ ~Superseded(tab, x.s, x.fresh) /\ dom[x.s] # Absent
    /\ LoadPage

\* The other outcomes of a timer.
Expire(x) ==
    LET t == [tab EXCEPT !.timers = @ \ {x}]
        behind == Superseded(tab, x.s, x.fresh)
        next(k) == [t EXCEPT !.timers = @ \cup {[kind |-> k, s |-> x.s, fresh |-> x.fresh]}]
    IN
    /\ x \in tab.timers
    /\ \/ /\ x.kind = "watch" /\ tab' = t /\ UNCHANGED dom
       \/ /\ x.kind \in ReloadKinds /\ (behind \/ dom[x.s] = Absent)
          /\ tab' = IF x.kind = "wrapper" THEN [t EXCEPT !.tries[x.s] = 0] ELSE t
          /\ UNCHANGED dom
       \/ /\ x.kind = "done"
          /\ tab' = IF t.arrived < Count /\ t.mode = "GENERATING" /\ t.cur = x.s
                    THEN [t EXCEPT !.reads = @ \cup {[s |-> x.s, kind |-> "done"]}] ELSE t
          /\ UNCHANGED dom
       \/ /\ x.kind = "accept" /\ (behind \/ dom[x.s] = Absent)
          /\ tab' = t /\ UNCHANGED dom
       \/ /\ x.kind = "accept" /\ ~behind /\ dom[x.s] # Absent
          /\ IF Hmr THEN tab' = next("acceptHmr") /\ UNCHANGED dom
                    ELSE tab' = t /\ dom' = [dom EXCEPT ![x.s] = Absent]
       \/ /\ x.kind = "discard" /\ dom[x.s] = Absent
          /\ tab' = t /\ UNCHANGED dom
       \/ /\ x.kind = "discard" /\ dom[x.s] # Absent
          /\ IF Hmr THEN tab' = (IF behind THEN t ELSE next("discardHmr")) /\ UNCHANGED dom
                    ELSE tab' = t /\ dom' = [dom EXCEPT ![x.s] = Absent]
    /\ UNCHANGED <<making, posts, sse, srv, file, spent>>

-----------------------------------------------------------------------------
User == Pick \/ Unpick \/ Accept \/ Discard \/ Reload
        \/ \E s \in Sessions : Unmount(s) \/ \E a \in BOOLEAN : Go(s, a)

Answers == \/ \E s \in Sessions : \/ CaptureEnds(s) \/ GenerateAnswered(s)
                                  \/ AcceptAnswered(s) \/ DiscardAnswered(s)
           \/ Checkpoint
           \/ \E x \in posts : PostArrives(x)

Agent == \E s \in Sessions : \/ AgentWrites(s) \/ AgentDone(s) \/ AgentFails(s)
                             \/ AcceptDone(s) \/ AcceptFails(s) \/ LateAgentDone(s) \/ DiscardDone(s)

Stream == Connect \/ Drop \/ ServerLost

Page == \/ \E s \in Sessions : Mutate(s)
        \/ \E x \in tab.reads : ReadAnswered(x) \/ ReadFails(x)
        \/ \E x \in tab.timers : ReloadTimer(x) \/ Expire(x)

Next == User \/ Answers \/ Agent \/ Stream \/ Page

Spec == Init /\ [][Next]_vars

\* Requests are answered, timers fire, the stream reconnects, HMR catches up
\* and reads return.  The user and the agent owe nothing.
FairSpec ==
    /\ Spec
    /\ WF_vars(Answers)
    /\ WF_vars(\E s \in Sessions : AcceptAnswered(s))
    /\ WF_vars(\E x \in posts : x.kind = "accept" /\ PostArrives(x))
    /\ WF_vars(Connect)
    /\ WF_vars(\E s \in Sessions : Mutate(s))
    /\ WF_vars(\E x \in tab.reads : ReadAnswered(x))
    /\ \A s \in Sessions, f \in BOOLEAN :
          WF_vars(Expire([kind |-> "done", s |-> s, fresh |-> f]))

-----------------------------------------------------------------------------
(* Properties.                                                               *)

SomeSession == Sessions \cup {None}

\* Every variable keeps its type.
TypeOK ==
    /\ tab.mode \in Modes /\ tab.arrived \in 0..Count
    /\ {tab.cur, tab.pend, tab.awaiting, tab.obs, tab.ckpt, tab.mine, tab.told, tab.kept.s} \subseteq SomeSession
    /\ \A x \in tab.timers : x.kind \in TimerKinds /\ x.s \in Sessions /\ x.fresh \in BOOLEAN
    /\ \A x \in tab.reads : x.s \in Sessions /\ x.kind \in {"done", "orphan", "plain"}
    /\ tab.handled \subseteq Sessions
    /\ tab.tries \in [Sessions -> 0..Tries]
    /\ \A x \in making : x.s \in Sessions /\ x.at \in {"capture", "flying"}
    /\ \A x \in posts : x.s \in Sessions /\ x.kind \in {"accept", "discard"} /\ x.n \in 1..MaxPresses
    /\ sse \in {"down", "open", "gone"}
    /\ file \in [Sessions -> Absent..Count] /\ dom \in [Sessions -> Absent..Count]

\* A recovery timer of an ended session never reloads the page over a new
\* configuration, or over another session that is current by then
\* (deferredRecoverySuperseded at every deferred location.reload()).
NoReloadOverNewWork ==
    [][\A x \in tab.timers : ReloadTimer(x) => tab.mode # "CONFIGURING" /\ tab.cur \in {None, x.s}]_vars

\* A session this browser has marked as ended is never current again, through
\* reloads, reconnects and late wrappers (isSessionHandled on every way back).
EndedStaysEnded == tab.cur \notin tab.handled

\* The failure of an accept whose session was let go is told in its own words,
\* unless another Go or a reload came first (awaitingAcceptResult).
FailureIsTold == \A s \in Sessions : AcceptFails(s) /\ sse = "open" /\ tab.mine = s => tab'.told = s

\* The same of every step.
AcceptFailureIsTold == [][FailureIsTold]_vars

\* An accept does not hold the bar in SAVING for ever.
SavingEnds == (tab.mode = "SAVING") ~> (tab.mode # "SAVING")

\* A generation that has finished is shown, whatever was missed on the way,
\* unless the helper is gone for good.
FinishedIsShown ==
    (tab.mode = "GENERATING" /\ tab.cur # None /\ srv[tab.cur] = "ready")
        ~> (tab.mode # "GENERATING" \/ sse = "gone")

-----------------------------------------------------------------------------
(* Claims of the code's comments that the model refutes (README, Disagreements). *)

\* While variants of the current session are mounted, the bar does not go on
\* generating (the done handler: "The variant MutationObserver stays armed and
\* auto-transitions to CYCLING the moment the wrapper actually mounts").
MountedIsCycling ==
    ~(tab.mode = "GENERATING" /\ tab.cur # None /\ sse # "gone" /\ dom[tab.cur] > 0)

\* Progress is refused as foreign only when it is: a session this page has just
\* opened by Go is not cleared before its own request was sent (the comment at
\* sessionCreationGate: "not 'you raced your own Go click'").
OwnGoIsKept ==
    [][\A s \in Sessions : Checkpoint /\ tab.cur = s /\ (\E x \in making : x.s = s) => tab'.cur = s]_vars

\* A late failure of an earlier session does not disturb the current one
\* (handleGo: "a late failure toast for the previous session would only
\* mislead here").
LateErrorIsHarmless ==
    [][\A s \in Sessions : AcceptFails(s) /\ tab.cur \notin {None, s} => tab'.mode = tab.mode]_vars

\* Only what was accepted, discarded or has ended is marked as handled
\* (markSessionHandled: "accepted/discarded").
HandledWasEnded ==
    \A s \in tab.handled : srv[s] \notin {"live", "ready"}

\* Comparing variants needs a session: a bar that says "Session kept for
\* recovery" has one to accept or discard.
CyclingHasSession == tab.mode = "CYCLING" => tab.cur # None
=============================================================================
