---------------------------- MODULE AgentTarget ----------------------------
(* The agent targets of live-browser.js: the agent names an element, every   *)
(* tab that can resolve it races for the helper's lease, and the holder      *)
(* presses Go for it.  Tabs that are busy or lack the element say so, and    *)
(* the helper answers the request once every connected tab has spoken.       *)
(*                                                                           *)
(* The helper is outside the repository: it does what the comments of the    *)
(* tab's side expect of it.  A tab works on a target in chains of timers and *)
(* requests, one per time it heard of the target.                            *)
EXTENDS Naturals, FiniteSets

CONSTANTS
    Tabs, Targets, None,
    Copies,     \* bound: chains a tab has on one target at a time
    MaxFaults,  \* bound: reloads, lost connections, lapses and what users do
    Mishaps     \* which of these happen: a "user" at the tabs, "apply", "reload", "drop",
                \* "slow" or "frozen" tabs, "absent" elements, "dry" runs, "leave", "timeout"

Assumption ==
    /\ None \notin Tabs /\ None \notin Targets /\ "gone" \notin Tabs \cup {None}
    /\ IsFiniteSet(Copies) /\ Copies \subseteq Nat /\ MaxFaults \in Nat
    /\ Mishaps \subseteq {"user", "apply", "reload", "drop", "slow", "frozen", "absent", "dry", "leave", "timeout"}

VARIABLES
    tab,      \* the tabs (record below)
    chains,   \* [tab, t, n, at, what]: the timers and requests under way
    req,      \* the helper's requests: [status, lease, words, by]
    inbox,    \* targets sent to a tab and not heard yet
    results,  \* results on their way: [t, kind, by]
    gens,     \* generate events: [t, by, at]
    goes,     \* how often Go was pressed for a target
    faults    \* used of MaxFaults

vars == <<tab, chains, req, inbox, results, gens, goes, faults>>

Fresh == [conn |-> TRUE, alive |-> TRUE, mode |-> "PICKING", session |-> None, applying |-> FALSE,
          el |-> TRUE, seen |-> [t \in Targets |-> "none"], busied |-> {}]

Init ==
    /\ tab = [x \in Tabs |-> Fresh]
    /\ chains = {} /\ results = {} /\ gens = {} /\ faults = 0
    /\ req = [t \in Targets |-> [status |-> "none", lease |-> None, words |-> [x \in Tabs |-> None], by |-> None]]
    /\ inbox = [x \in Tabs |-> {}]
    /\ goes = [t \in Targets |-> 0]

Fault(kind) == kind \in Mishaps /\ faults < MaxFaults /\ faults' = faults + 1

-----------------------------------------------------------------------------
(* The helper.                                                               *)

Pending(t) == req[t].status = "pending"

Connected == {x \in Tabs : tab[x].conn}

\* A request nobody holds is answered as busy once every tab of conns has spoken.
Settled(r, conns) ==
    IF /\ r.status = "pending" /\ r.lease = None /\ conns # {}
       /\ \A x \in conns : r.words[x] # None
       /\ \E x \in conns : r.words[x] = "busy"
    THEN [r EXCEPT !.status = "busy"] ELSE r

\* Tab x asks for the lease, or renews its own.
Claimed(r, x) ==
    IF r.status = "pending" /\ r.lease \in {None, x} THEN [r EXCEPT !.lease = x, !.words[x] = None] ELSE r

\* Tab x says that it cannot serve the target; its lease is handed back.
Reported(r, x, word) ==
    IF r.status # "pending" THEN r
    ELSE Settled([r EXCEPT !.words[x] = word, !.lease = IF @ = x THEN None ELSE @], Connected)

Answer(r, x) ==
    IF r.status # "pending" THEN "over" ELSE IF r.lease = x THEN "granted" ELSE "pending"

-----------------------------------------------------------------------------
(* What a tab does.                                                          *)

\* (mutant) a tab that acts on another target is not busy
BusySessionOnly(T, t) == T.applying \/ T.mode = "GENERATING"

\* agentTargetBusyReason: busy for target t, or for any with None.
Busy(T, t) ==
    \/ T.applying
    \/ T.mode = "GENERATING"
    \/ \E u \in Targets \ {t} : T.seen[u] = "acting"

Note(T, t, s) == [T EXCEPT !.seen[t] = s]

Chain(x, t, n, at, what) == [tab |-> x, t |-> t, n |-> n, at |-> at, what |-> what]

\* A copy of (x, t) not in use, if the bound leaves one; a busy report takes none.
Started(x, t, at, what) ==
    LET free == {n \in Copies : ~\E c \in chains : c.tab = x /\ c.t = t /\ c.n = n /\ c.what # "busy"} IN
    IF free = {} THEN {} ELSE {Chain(x, t, CHOOSE n \in free : \A m \in free : n <= m, at, what)}

DeclineBusy(T, t) == [Note(T, t, "declined") EXCEPT !.busied = @ \cup {t}]

\* claimAndActOnAgentTarget up to its request: the tab afterwards, and the
\* request it makes ("none" on a page that was torn down).
ClaimTab(T, t) ==
    IF ~T.alive THEN T
    ELSE IF Busy(T, t) THEN DeclineBusy(T, t)
    ELSE IF ~T.el THEN Note(T, t, "declined")
    ELSE T

ClaimAsks(T, t) ==
    IF ~T.alive THEN "none" ELSE IF Busy(T, t) THEN "busy" ELSE IF ~T.el THEN "miss" ELSE "claim"

\* (mutant) the declined targets are forgotten
LiveForgets(x, T) == [tab |-> [T EXCEPT !.busied = {}], asks |-> {}]

\* setLiveState's retryDeclinedAgentTargets: a tab that is free claims what it declined.
Live(x, T) ==
    IF T.busied = {} \/ Busy(T, None) THEN [tab |-> T, asks |-> {}]
    ELSE [tab |-> [T EXCEPT !.busied = {},
                            !.seen = [t \in Targets |-> IF t \in T.busied /\ ~T.el /\ T.alive THEN "declined" ELSE @[t]]],
          asks |-> UNION {LET a == ClaimAsks(T, t) IN IF a = "none" THEN {} ELSE Started(x, t, "asked", a)
                          : t \in T.busied}]

Become(x, L) == tab' = [tab EXCEPT ![x] = L.tab] /\ chains' = chains \cup L.asks

\* Chain c goes on as at/what, or ends with "none".
Onward(c, at, what) == (chains \ {c}) \cup IF what = "none" THEN {} ELSE {[c EXCEPT !.at = at, !.what = what]}

Claims(c) ==
    /\ tab' = [tab EXCEPT ![c.tab] = ClaimTab(@, c.t)]
    /\ chains' = Onward(c, "asked", ClaimAsks(tab[c.tab], c.t))

-----------------------------------------------------------------------------
(* Hearing of a target, and the lease.                                       *)

Request(t) ==
    /\ req[t].status = "none"
    /\ req' = [req EXCEPT ![t].status = "pending"]
    /\ inbox' = [x \in Tabs |-> IF tab[x].conn THEN inbox[x] \cup {t} ELSE inbox[x]]
    /\ UNCHANGED <<tab, chains, results, gens, goes, faults>>

\* handleAgentTarget: a target the tab took a lease on is left alone.
Hear(x, t) ==
    /\ t \in inbox[x] /\ inbox' = [inbox EXCEPT ![x] = @ \ {t}]
    /\ LET T == tab[x]
           H == Note(T, t, "heard") IN
       IF T.seen[t] \in {"acting", "done"} THEN UNCHANGED <<tab, chains>>
       ELSE /\ Started(x, t, "start", "claim") # {}
            /\ IF Busy(T, t)
               THEN tab' = [tab EXCEPT ![x] = DeclineBusy(H, t)] /\ chains' = chains \cup Started(x, t, "asked", "busy")
               ELSE IF ~T.el
               THEN tab' = [tab EXCEPT ![x] = Note(H, t, "declined")] /\ chains' = chains \cup Started(x, t, "asked", "miss")
               ELSE tab' = [tab EXCEPT ![x] = H] /\ chains' = chains \cup Started(x, t, "start", "claim")
    /\ UNCHANGED <<req, results, gens, goes, faults>>

\* The first claim's timer, and that of a claim denied before.
Claim(c) ==
    /\ c.at \in {"start", "retry"} /\ Claims(c)
    /\ UNCHANGED <<req, inbox, results, gens, goes, faults>>

\* A request reaches the helper; a busy report waits for no answer, and
\* what the tab sends after it on the target does not overtake it.
Asked(c) ==
    /\ c.at = "asked"
    /\ c.what # "busy" => [c EXCEPT !.what = "busy"] \notin chains
    /\ LET r == CASE c.what \in {"claim", "renew"} -> Claimed(req[c.t], c.tab)
                  [] c.what = "busy" -> Reported(req[c.t], c.tab, "busy")
                  [] c.what = "miss" -> Reported(req[c.t], c.tab, "no_match")
           a == IF c.what \in {"claim", "renew"} THEN Answer(r, c.tab)
                ELSE IF r.status = "pending" THEN "pending" ELSE "over" IN
       /\ req' = [req EXCEPT ![c.t] = r]
       /\ chains' = IF c.what = "busy" THEN chains \ {c}
                    ELSE Onward(c, [claim |-> "claimed", renew |-> "renewed", miss |-> "missed"][c.what], a)
    /\ UNCHANGED <<tab, inbox, results, gens, goes, faults>>

\* (mutant) a tab that was denied does not ask again
DeniedGivesUp(c) ==
    /\ c.at = "claimed" /\ c.what # "granted"
    /\ tab' = [tab EXCEPT ![c.tab] = Note(@, c.t, "denied")] /\ chains' = chains \ {c}
    /\ UNCHANGED <<req, inbox, results, gens, goes, faults>>

\* A denied tab asks again while the request is pending.
Denied(c) ==
    /\ c.at = "claimed" /\ c.what # "granted"
    /\ tab' = [tab EXCEPT ![c.tab] = Note(@, c.t, "denied")]
    /\ chains' = Onward(c, "retry", IF c.what = "pending" THEN "claim" ELSE "none")
    /\ UNCHANGED <<req, inbox, results, gens, goes, faults>>

\* actOnAgentTarget up to the scroll.  A dry run is answered at once.
Granted(c) ==
    /\ c.at = "claimed" /\ c.what = "granted"
    /\ LET T == Note(tab[c.tab], c.t, "acting")
           To(N, at, what) == tab' = [tab EXCEPT ![c.tab] = N] /\ chains' = Onward(c, at, what) IN
       \/ ~T.alive /\ To(T, "scroll", "none") /\ UNCHANGED results
       \/ T.alive /\ Busy(T, c.t) /\ To(DeclineBusy(T, c.t), "asked", "busy") /\ UNCHANGED results
       \/ T.alive /\ ~Busy(T, c.t) /\ ~T.el /\ To(Note(T, c.t, "declined"), "asked", "miss") /\ UNCHANGED results
       \/ T.alive /\ ~Busy(T, c.t) /\ T.el /\ To(T, "scroll", "claim") /\ UNCHANGED results
       \/ /\ T.alive /\ ~Busy(T, c.t) /\ T.el /\ "dry" \in Mishaps
          /\ To(Note(T, c.t, "done"), "scroll", "none")
          /\ results' = results \cup {[t |-> c.t, kind |-> "dry", by |-> None]}
    /\ UNCHANGED <<req, inbox, gens, goes, faults>>

\* (mutant) Go is pressed on the first claim
ScrolledToGo(c) ==
    /\ c.at = "scroll" /\ chains' = Onward(c, "renewed", IF tab[c.tab].alive THEN "granted" ELSE "none")
    /\ UNCHANGED <<tab, req, inbox, results, gens, goes, faults>>

\* The element is in view: the lease is renewed before Go.
Scrolled(c) ==
    /\ c.at = "scroll" /\ chains' = Onward(c, "asked", IF tab[c.tab].alive THEN "renew" ELSE "none")
    /\ UNCHANGED <<tab, req, inbox, results, gens, goes, faults>>

\* The lease lapsed meanwhile: the tab stands down.
StandsDown(c) ==
    /\ c.at = "renewed" /\ c.what # "granted"
    /\ tab' = [tab EXCEPT ![c.tab] = Note(@, c.t, "done")] /\ chains' = chains \ {c}
    /\ UNCHANGED <<req, inbox, results, gens, goes, faults>>

\* The overlay was torn down meanwhile: showBar finds no bar and throws.
Throws(c) ==
    /\ c.at = "renewed" /\ c.what = "granted" /\ ~tab[c.tab].alive
    /\ tab' = [tab EXCEPT ![c.tab].mode = "CONFIGURING"] /\ chains' = chains \ {c}
    /\ UNCHANGED <<req, inbox, results, gens, goes, faults>>

\* The element is picked and Go pressed, whatever the tab does by now.
Go(c) ==
    /\ c.at = "renewed" /\ c.what = "granted" /\ tab[c.tab].alive
    /\ LET x == c.tab
           L == Live(x, [tab[x] EXCEPT !.mode = "CONFIGURING"])
           id == <<x, c.t, c.n>>
           ok == ~L.tab.applying
           N == IF ok THEN [L.tab EXCEPT !.mode = "GENERATING", !.session = id] ELSE L.tab IN
       /\ tab' = [tab EXCEPT ![x] = Note(N, c.t, "done")]
       /\ chains' = (chains \ {c}) \cup L.asks
       /\ goes' = [goes EXCEPT ![c.t] = IF ok THEN @ + 1 ELSE @]
       /\ gens' = IF ok THEN gens \cup {[t |-> c.t, by |-> id, at |-> "capturing"]} ELSE gens
       /\ results' = results \cup {[t |-> c.t, kind |-> IF ok THEN "served" ELSE "failed", by |-> IF ok THEN id ELSE None]}
    /\ UNCHANGED <<req, inbox, faults>>

\* A miss was reported: the element is looked for again while the request is pending.
Missed(c) ==
    /\ c.at = "missed" /\ chains' = Onward(c, "watch", IF c.what = "pending" THEN "miss" ELSE "none")
    /\ UNCHANGED <<tab, req, inbox, results, gens, goes, faults>>

Watch(c) ==
    /\ c.at = "watch"
    /\ IF ~tab[c.tab].alive \/ tab[c.tab].seen[c.t] \in {"acting", "done"}
       THEN chains' = chains \ {c} /\ UNCHANGED tab
       ELSE Claims(c)
    /\ UNCHANGED <<req, inbox, results, gens, goes, faults>>

-----------------------------------------------------------------------------
(* What reaches the helper, and what it gives up.                            *)

\* An all-missing roll call is held open for a short grace.
NoMatch(t) ==
    /\ Pending(t) /\ req[t].lease = None /\ Connected # {}
    /\ \A x \in Connected : req[t].words[x] = "no_match"
    /\ req' = [req EXCEPT ![t].status = "no_match"]
    /\ UNCHANGED <<tab, chains, inbox, results, gens, goes, faults>>

ResultArrives(m) ==
    /\ results' = results \ {m}
    /\ req' = IF Pending(m.t) THEN [req EXCEPT ![m.t].status = m.kind, ![m.t].by = m.by] ELSE req
    /\ UNCHANGED <<tab, chains, inbox, gens, goes, faults>>

\* The page is captured and the generate event sent.
Captured(g) ==
    /\ g.at = "capturing" /\ gens' = (gens \ {g}) \cup {[g EXCEPT !.at = "sent"]}
    /\ UNCHANGED <<tab, chains, req, inbox, results, goes, faults>>

\* The helper opens the session, or refuses it when the target is answered already.
GenerateArrives(g) ==
    /\ g.at = "sent"
    /\ IF Pending(g.t) \/ req[g.t].by = g.by
       THEN /\ req' = [req EXCEPT ![g.t].status = "served", ![g.t].by = g.by]
            /\ gens' = gens \ {g}
       ELSE req' = req /\ gens' = (gens \ {g}) \cup {[g EXCEPT !.at = "refused"]}
    /\ UNCHANGED <<tab, chains, inbox, results, goes, faults>>

\* (mutant) the refused session stays
RefusalIgnored(g) ==
    /\ g.at = "refused" /\ gens' = gens \ {g}
    /\ UNCHANGED <<tab, chains, req, inbox, results, goes, faults>>

\* abandonSupersededGo: the tab drops the session it still shows.
Refused(g) ==
    /\ g.at = "refused" /\ gens' = gens \ {g}
    /\ LET x == g.by[1] IN
       IF tab[x].session = g.by
       THEN Become(x, Live(x, [tab[x] EXCEPT !.mode = "PICKING", !.session = None]))
       ELSE UNCHANGED <<tab, chains>>
    /\ UNCHANGED <<req, inbox, results, goes, faults>>

\* A renewed lease is about to be used, or its result is sent.
OnTheWay(t) == (\E c \in chains : c.t = t /\ c.at = "renewed") \/ (\E m \in results : m.t = t)

\* The lease of a page that is gone lapses once all it sent has arrived; that
\* of a slow page lapses while it scrolls, and that of a frozen one at any time.
Lapse(t) ==
    /\ Pending(t) /\ req[t].lease # None
    /\ \/ /\ req[t].lease \notin {x \in Tabs : tab[x].alive} /\ ~\E m \in results : m.t = t
          /\ UNCHANGED faults
       \/ req[t].lease \in Connected /\ ~OnTheWay(t) /\ Fault("slow")
       \/ req[t].lease \in Connected /\ Fault("frozen")
    /\ req' = [req EXCEPT ![t] = Settled([@ EXCEPT !.lease = None], Connected)]
    /\ UNCHANGED <<tab, chains, inbox, results, gens, goes>>

TimesOut(t) ==
    /\ Pending(t) /\ "timeout" \in Mishaps
    /\ req' = [req EXCEPT ![t].status = "timeout"]
    /\ UNCHANGED <<tab, chains, inbox, results, gens, goes, faults>>

-----------------------------------------------------------------------------
(* The tabs' users and the weather.                                          *)

\* The connection closes: the helper drops the words given over it.
Closed(x, holder) ==
    req' = [t \in Targets |-> Settled([req[t] EXCEPT !.words[x] = None,
                                                    !.lease = IF @ = x THEN holder ELSE @], Connected \ {x})]

Drop(x) ==
    /\ tab[x].conn /\ Fault("drop")
    /\ tab' = [tab EXCEPT ![x].conn = FALSE] /\ Closed(x, x)
    /\ inbox' = [inbox EXCEPT ![x] = {}]
    /\ UNCHANGED <<chains, results, gens, goes>>

\* Every connection that opens is sent the pending targets.
Connect(x) ==
    /\ ~tab[x].conn /\ tab[x].alive
    /\ tab' = [tab EXCEPT ![x].conn = TRUE]
    /\ inbox' = [inbox EXCEPT ![x] = {t \in Targets : Pending(t)}]
    /\ UNCHANGED <<chains, req, results, gens, goes, faults>>

\* The page is loaded anew, with another client id; a session is resumed, and
\* a generate event not yet sent is lost.
Reload(x) ==
    /\ tab[x].alive /\ Fault("reload")
    /\ tab' = [tab EXCEPT ![x] = [Fresh EXCEPT !.conn = FALSE, !.el = tab[x].el, !.session = tab[x].session,
                                               !.mode = IF tab[x].session = None THEN "PICKING" ELSE "GENERATING"]]
    /\ chains' = {c \in chains : c.tab # x}
    /\ gens' = {g \in gens : g.by[1] # x \/ g.at = "sent"}
    /\ inbox' = [inbox EXCEPT ![x] = {}] /\ Closed(x, "gone")
    /\ UNCHANGED <<results, goes>>

\* The overlay is torn down; its timers and answers still come.
Leave(x) ==
    /\ tab[x].alive /\ Fault("leave")
    /\ tab' = [tab EXCEPT ![x] = [Fresh EXCEPT !.alive = FALSE, !.conn = FALSE, !.el = tab[x].el]]
    /\ inbox' = [inbox EXCEPT ![x] = {}] /\ Closed(x, x)
    /\ UNCHANGED <<chains, results, gens, goes>>

UserSession(x) == <<x, None>>

\* The user picks an element and presses Go.
UserGo(x) ==
    /\ tab[x].alive /\ tab[x].mode # "GENERATING" /\ ~tab[x].applying /\ Fault("user")
    /\ Become(x, [Live(x, [tab[x] EXCEPT !.mode = "CONFIGURING"]) EXCEPT !.tab.mode = "GENERATING",
                                                                         !.tab.session = UserSession(x)])
    /\ UNCHANGED <<req, inbox, results, gens, goes>>

\* A session ends: accepted or discarded.
SessionEnds(x) ==
    /\ tab[x].mode = "GENERATING" /\ ~\E g \in gens : g.by = tab[x].session
    /\ Become(x, Live(x, [tab[x] EXCEPT !.mode = "PICKING", !.session = None]))
    /\ UNCHANGED <<req, inbox, results, gens, goes, faults>>

Apply(x) ==
    /\ tab[x].alive /\ ~tab[x].applying /\ tab[x].mode # "GENERATING" /\ Fault("apply")
    /\ tab' = [tab EXCEPT ![x].applying = TRUE]
    /\ UNCHANGED <<chains, req, inbox, results, gens, goes>>

Applied(x) ==
    /\ tab[x].applying
    /\ Become(x, Live(x, [tab[x] EXCEPT !.applying = FALSE]))
    /\ UNCHANGED <<req, inbox, results, gens, goes, faults>>

\* The element mounts or goes away.
Render(x) ==
    /\ Fault("absent") /\ tab' = [tab EXCEPT ![x].el = ~@]
    /\ UNCHANGED <<chains, req, inbox, results, gens, goes>>

-----------------------------------------------------------------------------

Step(c) ==
    \/ Claim(c) \/ Asked(c) \/ Denied(c) \/ Granted(c) \/ Scrolled(c) \/ StandsDown(c) \/ Throws(c) \/ Go(c)
    \/ Missed(c) \/ Watch(c)

Helper ==
    \/ \E t \in Targets : Request(t) \/ NoMatch(t) \/ Lapse(t) \/ TimesOut(t)
    \/ \E m \in results : ResultArrives(m)
    \/ \E g \in gens : Captured(g) \/ GenerateArrives(g) \/ Refused(g)

Page(x) ==
    \/ Drop(x) \/ Connect(x) \/ Reload(x) \/ Leave(x) \/ UserGo(x) \/ SessionEnds(x)
    \/ Apply(x) \/ Applied(x) \/ Render(x)

Next ==
    \/ \E c \in chains : Step(c)
    \/ Helper
    \/ \E x \in Tabs : Page(x) \/ \E t \in Targets : Hear(x, t)

Spec == Init /\ [][Next]_vars

Possible == [tab : Tabs, t : Targets, n : Copies,
             at : {"start", "retry", "asked", "claimed", "scroll", "renewed", "missed", "watch"},
             what : {"claim", "renew", "busy", "miss", "granted", "pending", "over"}]

\* Timers go off and requests are answered; connections open again, an apply
\* ends and the lease of a page that is gone lapses.  Users owe nothing.
FairSpec ==
    /\ Spec
    /\ \A x \in Tabs, t \in Targets, n \in Copies :
          WF_vars(\E c \in chains : c.tab = x /\ c.t = t /\ c.n = n /\ Step(c))
    /\ \A x \in Tabs :
          /\ WF_vars(Connect(x)) /\ WF_vars(Applied(x))
          /\ \A t \in Targets : WF_vars(Hear(x, t))
    /\ \A t \in Targets :
          /\ WF_vars(Lapse(t) /\ UNCHANGED faults) /\ WF_vars(NoMatch(t))
          /\ WF_vars(\E m \in results : m.t = t /\ ResultArrives(m))
          /\ WF_vars(\E g \in gens : g.t = t /\ (Captured(g) \/ GenerateArrives(g) \/ Refused(g)))

-----------------------------------------------------------------------------
(* Properties.                                                               *)

SessionIds == Tabs \X Targets \X Copies

\* Every variable keeps its type.
TypeOK ==
    /\ DOMAIN tab = Tabs
    /\ \A x \in Tabs : tab[x] \in [conn : BOOLEAN, alive : BOOLEAN,
                          mode : {"PICKING", "CONFIGURING", "GENERATING"},
                          session : SessionIds \cup {None, UserSession(x)}, applying : BOOLEAN, el : BOOLEAN,
                          seen : [Targets -> {"none", "heard", "declined", "denied", "acting", "done"}],
                          busied : SUBSET Targets]
    /\ chains \subseteq Possible
    /\ \A t \in Targets :
          /\ req[t].status \in {"none", "pending", "busy", "no_match", "served", "failed", "dry", "timeout"}
          /\ req[t].lease \in Tabs \cup {None, "gone"}
          /\ req[t].words \in [Tabs -> {None, "busy", "no_match"}]
          /\ req[t].by \in SessionIds \cup {None}
    /\ inbox \in [Tabs -> SUBSET Targets]
    /\ goes \in [Targets -> Nat]

\* One request never gets two Go presses, though tabs race for it, reload and
\* take over from each other (the renewal before Go in actOnAgentTarget).
OneGo == \A t \in Targets : goes[t] <= 1

\* The session a tab shows is never replaced by another one: it ends first
\* (agentTargetBusyReason against the Go of a target).
KeepsSession ==
    \A x \in Tabs : tab[x].session # None => tab'[x].session \in {tab[x].session, None}

\* The same of every step.
SessionIsKept == [][KeepsSession]_vars

\* When a request is answered as busy, no connected tab that said so has gone idle:
\* it is busy still, or its claim is on the way (retryDeclinedAgentTargets).
FreshVerdict ==
    \A t \in Targets, x \in Tabs :
      Pending(t) /\ req'[t].status = "busy" /\ req'[t].words[x] = "busy" /\ tab'[x].conn
      => Busy(tab[x], t) \/ \E c \in chains : c.tab = x /\ c.t = t

\* The same of every step.
VerdictIsFresh == [][FreshVerdict]_vars

\* A request is answered in the end, also when the tab that took it is gone.
RequestEnds == \A t \in Targets : Pending(t) ~> ~Pending(t)

\* The tab shows the session of its n-th chain for a target; the target was answered without it.
Holds(x, t, n) == tab[x].session = <<x, t, n>>
Lost(x, t, n) == Holds(x, t, n) /\ ~Pending(t) /\ req[t].by # <<x, t, n>>

\* A session the helper refused does not stay: when a target was answered
\* without it, the tab drops it (abandonSupersededGo).
LoserIsCleared == \A x \in Tabs, t \in Targets, n \in Copies : Lost(x, t, n) ~> ~Holds(x, t, n)
=============================================================================
