-------------------------------- MODULE Trace --------------------------------
(***************************************************************************)
(* The trace file of ONE task (backend/services/trace.py) and the threads  *)
(* that use it: the request that opens a round attaches the recorder and   *)
(* publishes the first event, the worker publishes and closes the trace in *)
(* its finally clause, stop publishes beside it, delete closes and unlinks *)
(* (backend/services/task_manager.py).  The recorder's lock and the bus's  *)
(* lock each cover one step; between two steps anything may happen.        *)
(* A callback is named by the round whose attach has made it; a round     *)
(* whose record could not be saved is refused.                             *)
(***************************************************************************)
EXTENDS Naturals

CONSTANTS
  MaxRounds,    \* rounds of the task, the refused ones included
  SaveMayFail   \* may the save that opens a round fail?

Assumption == MaxRounds \in Nat \ {0} /\ SaveMayFail \in BOOLEAN

VARIABLES
  round,    \* rounds opened so far
  parked,   \* the record is INTERRUPTED or FAILED
  gone,     \* the record is deleted
  cpc,      \* the request that opens a round
  wpc,      \* the worker of each round
  dpc,      \* the delete
  told,     \* the rounds whose interruption stop has announced
  reg,      \* _files, _cbs and _buses: the callback they hold, or 0
  subs,     \* EventBus._subs
  taken,    \* what each close has popped
  handing,  \* publish: the event and the callbacks still to be called
  lines     \* the file: how often it has each event

threads == <<round, parked, gone, cpc, wpc, dpc, told>>
vars == <<threads, reg, subs, taken, handing, lines>>

Rounds == 1..MaxRounds
Events == Rounds \X {"open", "work", "stop"}
Idle == [event |-> <<1, "open">>, to |-> {}]

\* A worker is its round; the other threads come after.
opener == MaxRounds + 1
stopper == MaxRounds + 2
deleter == MaxRounds + 3
Procs == 1..deleter

TypeOK ==
  /\ round \in 0..MaxRounds /\ parked \in BOOLEAN /\ gone \in BOOLEAN
  /\ cpc \in {"idle", "attach", "subscribe", "check", "unsub", "flip", "tell", "start",
              "close", "forget"}
  /\ wpc \in [Rounds -> {"none", "made", "run", "end", "pop", "close", "forget", "done",
                         "skipped", "refused"}]
  /\ dpc \in {"idle", "close", "forget", "drop", "done"}
  /\ told \subseteq 1..round
  /\ reg \in 0..round
  /\ reg # 0 => wpc[reg] # "refused"
  /\ subs \subseteq Rounds
  /\ taken \in [Procs -> 0..MaxRounds]
  /\ handing \in [Procs -> [event : Events, to : SUBSET Rounds]]
  /\ lines \in [Events -> Nat]

Init ==
  /\ round = 0 /\ parked = FALSE /\ gone = FALSE
  /\ cpc = "idle" /\ wpc = [r \in Rounds |-> "none"] /\ dpc = "idle" /\ told = {}
  /\ reg = 0 /\ subs = {} /\ taken = [p \in Procs |-> 0]
  /\ handing = [p \in Procs |-> Idle] /\ lines = [e \in Events |-> 0]

-----------------------------------------------------------------------------
(* The bus and the recorder, for whichever thread calls them               *)

Free(p) == handing[p].to = {}

\* publish, under the bus's lock: the callbacks are copied.
Publish(p, e) == Free(p) /\ handing' = [handing EXCEPT ![p] = [event |-> e, to |-> subs]]

\* One callback: _on_event writes to the file that is open now.
Hand(p) ==
  /\ \E c \in handing[p].to : handing' = [handing EXCEPT ![p].to = @ \ {c}]
  /\ lines' = IF reg = 0 THEN lines ELSE [lines EXCEPT ![handing[p].event] = @ + 1]
  /\ UNCHANGED <<threads, reg, subs, taken>>

\* close, under the recorder's lock.
CloseFile(p) ==
  /\ taken' = [taken EXCEPT ![p] = reg]
  /\ reg' = 0
  /\ UNCHANGED <<subs, handing, lines>>

\* (mutant) whatever the task has on the bus is taken off it.
ForgetAll(p) == subs' = {} /\ UNCHANGED <<reg, taken, handing, lines>>

\* The rest of close, without the lock.
Forget(p) == subs' = subs \ {taken[p]} /\ UNCHANGED <<reg, taken, handing, lines>>

-----------------------------------------------------------------------------
(* create_task, resume and send_message                                    *)

Caller(from, to) == cpc = from /\ cpc' = to

\* A round is accepted when the last one's worker has left _threads.
Accept ==
  /\ Caller("idle", "attach")
  /\ ~gone /\ round < MaxRounds
  /\ round > 0 => parked
  /\ \A r \in 1..round : wpc[r] \in {"close", "forget", "done", "refused"}
  /\ round' = round + 1
  /\ UNCHANGED <<parked, gone, wpc, dpc, told, reg, subs, taken, handing, lines>>

Attach ==
  /\ \/ reg # 0 /\ Caller("attach", "flip") /\ UNCHANGED reg
     \/ reg = 0 /\ Caller("attach", "subscribe") /\ reg' = round
  /\ UNCHANGED <<round, parked, gone, wpc, dpc, told, subs, taken, handing, lines>>

Subscribe ==
  /\ Caller("subscribe", "check")
  /\ subs' = subs \cup {round}
  /\ UNCHANGED <<round, parked, gone, wpc, dpc, told, reg, taken, handing, lines>>

\* (mutant) the callback stays on the bus.
CheckNothing ==
  /\ Caller("check", "flip")
  /\ UNCHANGED <<round, parked, gone, wpc, dpc, told, reg, subs, taken, handing, lines>>

\* Has a close taken the registration meanwhile?
Check ==
  /\ Caller("check", IF reg = round THEN "flip" ELSE "unsub")
  /\ UNCHANGED <<round, parked, gone, wpc, dpc, told, reg, subs, taken, handing, lines>>

Unsubscribe ==
  /\ Caller("unsub", "flip")
  /\ subs' = subs \ {round}
  /\ UNCHANGED <<round, parked, gone, wpc, dpc, told, reg, taken, handing, lines>>

\* A created record was stored before; an accepted one is stored now, or not.
Flip ==
  /\ \/ Caller("flip", "tell") /\ parked' = IF round = 1 THEN parked ELSE FALSE
     \/ SaveMayFail /\ round > 1 /\ Caller("flip", "close") /\ UNCHANGED parked
  /\ UNCHANGED <<round, gone, wpc, dpc, told, reg, subs, taken, handing, lines>>

\* (mutant) the trace stays open.
CloseNothing ==
  /\ Caller("close", "forget")
  /\ UNCHANGED <<round, parked, gone, wpc, dpc, told, reg, subs, taken, handing, lines>>

CloseQuietly ==
  /\ Caller("close", "forget")
  /\ CloseFile(opener) /\ UNCHANGED <<round, parked, gone, wpc, dpc, told>>

GiveUp ==
  /\ Caller("forget", "idle") /\ wpc' = [wpc EXCEPT ![round] = "refused"]
  /\ Forget(opener) /\ UNCHANGED <<round, parked, gone, dpc, told>>

\* task_created or task_resumed.
Tell ==
  /\ Caller("tell", "start") /\ Publish(opener, <<round, "open">>)
  /\ UNCHANGED <<round, parked, gone, wpc, dpc, told, reg, subs, taken, lines>>

Start ==
  /\ Free(opener) /\ Caller("start", "idle")
  /\ wpc' = [wpc EXCEPT ![round] = "made"]
  /\ UNCHANGED <<round, parked, gone, dpc, told, reg, subs, taken, handing, lines>>

-----------------------------------------------------------------------------
(* run, _resume_run and _continue_run                                      *)

Worker(r, from, to) ==
  wpc[r] = from /\ wpc' = [wpc EXCEPT ![r] = to] /\ UNCHANGED <<round, gone, cpc, dpc, told>>

\* No record: the worker returns at once.
Begin(r) ==
  /\ Worker(r, "made", IF gone THEN "skipped" ELSE "run")
  /\ UNCHANGED <<parked, reg, subs, taken, handing, lines>>

Work(r) ==
  /\ Worker(r, "run", "end") /\ Publish(r, <<r, "work">>)
  /\ UNCHANGED <<parked, reg, subs, taken, lines>>

Park(r) ==
  /\ Free(r) /\ Worker(r, "end", "pop")
  /\ parked' = TRUE /\ UNCHANGED <<reg, subs, taken, handing, lines>>

PopThread(r) ==
  /\ Worker(r, "pop", "close") /\ UNCHANGED <<parked, reg, subs, taken, handing, lines>>

CloseTrace(r) == Worker(r, "close", "forget") /\ CloseFile(r) /\ UNCHANGED parked

Finish(r) == Worker(r, "forget", "done") /\ Forget(r) /\ UNCHANGED parked

-----------------------------------------------------------------------------
(* stop and delete_task                                                    *)

Stop ==
  /\ ~parked /\ ~gone /\ round > 0 /\ round \notin told
  /\ cpc \in {"idle", "start"} \/ round = 1
  /\ parked' = TRUE /\ told' = told \cup {round}
  /\ Publish(stopper, <<round, "stop">>)
  /\ UNCHANGED <<round, gone, cpc, wpc, dpc, reg, subs, taken, lines>>

\* Resume and continue hold the manager's lock until the event is out; create
\* does not.
Delete ==
  /\ dpc = "idle" /\ parked
  /\ cpc \in {"idle", "start"} \/ round = 1
  /\ \A r \in 1..round : wpc[r] \notin {"made", "run", "end", "pop"}
  /\ gone' = TRUE /\ dpc' = "close"
  /\ UNCHANGED <<round, parked, cpc, wpc, told, reg, subs, taken, handing, lines>>

Deleter(from, to) ==
  dpc = from /\ dpc' = to /\ UNCHANGED <<round, parked, gone, cpc, wpc, told>>

DeleteCloses == Deleter("close", "forget") /\ CloseFile(deleter)
DeleteForgets == Deleter("forget", "drop") /\ Forget(deleter)

\* The file is unlinked, the bus forgets the task.
DeleteDrops ==
  /\ Deleter("drop", "done")
  /\ subs' = {} /\ lines' = [e \in Events |-> 0] /\ UNCHANGED <<reg, taken, handing>>

Next ==
  \/ Accept \/ Attach \/ Subscribe \/ Check \/ Unsubscribe \/ Flip \/ CloseQuietly \/ GiveUp
  \/ Tell \/ Start
  \/ \E r \in Rounds :
       Begin(r) \/ Work(r) \/ Park(r) \/ PopThread(r) \/ CloseTrace(r) \/ Finish(r)
  \/ Stop \/ Delete \/ DeleteCloses \/ DeleteForgets \/ DeleteDrops
  \/ \E p \in Procs : Hand(p)

Spec == Init /\ [][Next]_vars
-----------------------------------------------------------------------------
\* Nobody is inside attach or close.
AtRest ==
  /\ cpc = "idle" /\ dpc \in {"idle", "done"}
  /\ \A r \in Rounds : wpc[r] \notin {"close", "forget"}

\* "no callback outlives the closed era": whatever closes and attaches pass each
\* other, the callbacks on the bus are the one the recorder holds (trace.py 70-99,
\* 165-169).
NoStaleCallback == AtRest /\ ~gone => subs = {reg} \ {0}

\* A round that has opened the file itself, and whose record is not deleted, is
\* in the file with its first event and its worker's, although the round before
\* may be closing its own era at the same time (trace.py 1-24).
FreshEraIsWhole ==
  \A r \in Rounds :
    wpc[r] = "done" /\ taken[r] = r /\ ~gone
      => lines[<<r, "open">>] > 0 /\ lines[<<r, "work">>] > 0

\* "a leaked callback would double-write into the next era's trace (#213)".
NoLineTwice ==
  \A e \in Events : lines[e] <= 1

\* "resume/continue reattach before task_resumed is published (so the boundary
\* event is captured)".
BoundaryCaptured ==
  \A r \in Rounds :
    wpc[r] \notin {"none", "refused"} /\ ~gone => lines[<<r, "open">>] > 0

\* "always close the trace (success / failure / interrupt)".
EraCloses ==
  AtRest /\ (\A r \in Rounds : wpc[r] \in {"none", "done", "skipped", "refused"})
    => reg = 0
=============================================================================
