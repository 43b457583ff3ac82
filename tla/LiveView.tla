------------------------------ MODULE LiveView ------------------------------
(***************************************************************************)
(* How a browser tab follows ONE task: the worker and a request thread     *)
(* publish events on the bus (services/event_bus.py), a stream replays the *)
(* bus's buffer and goes on with a bounded outbox (api/sse.py), and the tab*)
(* (frontend/src/store, hooks/useSSE.ts, pages/TaskView.tsx) reduces events*)
(* into its view and fetches the record itself when a round parks.         *)
(* Of the record only what the view can disagree about is kept: status,    *)
(* the number of steps, and `said', a stamp of everything else: odd while  *)
(* a round is open, even once its worker has settled the record.  The      *)
(* locks and maps of the task manager are the matter of module TaskRuns.   *)
(***************************************************************************)
EXTENDS Naturals, FiniteSets, SequencesExt

CONSTANTS
  BufferSize,   \* EventBus(buffer_size)
  QueueMax,     \* SSE_QUEUE_MAX
  MaxSteps,     \* bound: steps of the task
  MaxCalls,     \* bound: stops and continuations that find something to do
  MaxConnects,  \* bound: times the stream is opened
  MaxGets       \* bound: answers a tab waits for at the same time

ASSUME ViewAssumption ==
  /\ BufferSize \in Nat \ {0} /\ QueueMax \in Nat \ {0}
  /\ {MaxSteps, MaxCalls, MaxConnects, MaxGets} \subseteq Nat

VARIABLES
  rec,      \* the record: status, steps, said
  worker,   \* where the round's worker is
  made,     \* len(state["steps"]) of the graph
  caller,   \* where the request thread is (one request at a time)
  flags,    \* "stop" (self._stop_flags), "announced" (self._interrupt_announced)
  rounds,   \* history: rounds so far
  calls,    \* bound: stops and continuations so far
  excuse,   \* history: what befell the last round ("stop", "raise", "late",
            \* "missed")
  buffer,   \* self._buffers[id]
  count,    \* history: the number of events published so far
  handing,  \* per publisher: the event it has yet to hand to the stream's callback
  stream,   \* the stream: is it on, its history left to send, its outbox, and as
            \* history its first event, what it has sent and what it has dropped
  seen,     \* history: the last event the tab has received
  connects, \* bound: times the stream was opened
  view,     \* the tab's snapshot: status ("none" when there is none), steps, said
  mark,     \* prevStatusRef
  asked,    \* statusRefetched: the status was refetched once
  gets      \* requests on their way, with the record they found when served

serverVars == <<rec, worker, made, caller, flags, rounds, calls, excuse>>
busVars    == <<buffer, count, handing>>
streamVars == <<stream, seen, connects>>
tabVars    == <<view, mark, asked, gets>>
vars == <<serverVars, busVars, streamVars, tabVars>>

Publishers == {"worker", "caller"}
Live   == {"PENDING", "RUNNING"}
Parked == {"INTERRUPTED", "FAILED"}

Event(n, p, t, k) == [n |-> n, by |-> p, type |-> t, index |-> k]
Snapshot(s, k, t) == [status |-> s, steps |-> 1..k, said |-> t]
NoView == Snapshot("none", 0, 0)
Record == Snapshot(rec.status, rec.steps, rec.said)

Closed == [on |-> FALSE, history |-> <<>>, queue |-> <<>>, first |-> 0,
           sent |-> {}, dropped |-> {}]

\* create_task has stored the record and published task_created.
Init ==
  /\ rec = [status |-> "PENDING", steps |-> 0, said |-> 1]
  /\ worker = "start" /\ made = 0 /\ caller = "idle" /\ flags = {}
  /\ rounds = 1 /\ calls = 0 /\ excuse = {}
  /\ buffer = <<Event(1, "caller", "task_created", 0)>> /\ count = 1
  /\ handing = [p \in Publishers |-> <<>>]
  /\ stream = Closed /\ seen = 0 /\ connects = 0
  /\ view = NoView /\ mark = "none" /\ asked = FALSE
  /\ gets = <<[kind |-> "first", found |-> NoView]>>

-----------------------------------------------------------------------------
(* The bus *)

\* (mutant) the callback is registered when the history has been sent.
RegisteredAfterReplay == stream.on /\ stream.history = <<>>

Registered == stream.on

\* (mutant) the length is compared before the event is appended.
KeptLate(all) == IF Len(all) > BufferSize + 1 THEN Tail(all) ELSE all

\* The oldest event leaves a full buffer.
Kept(all) == IF Len(all) > BufferSize THEN Tail(all) ELSE all

\* publish, up to the end of its locked part: append, and copy the callbacks.
Publish(p, type, k) ==
  LET e == Event(count + 1, p, type, k)
  IN  /\ handing[p] = <<>>
      /\ count' = count + 1
      /\ buffer' = Kept(Append(buffer, e))
      /\ handing' = [handing EXCEPT ![p] = IF Registered THEN <<e>> ELSE <<>>]

\* The rest of publish, without the lock: the callback enqueues on the loop, which
\* drops the oldest event of a full outbox.
Hand(p) ==
  /\ handing[p] # <<>>
  /\ handing' = [handing EXCEPT ![p] = <<>>]
  /\ LET e == Head(handing[p])
         fits == Len(stream.queue) < QueueMax
     IN  /\ stream' = IF fits
              THEN [stream EXCEPT !.queue = Append(@, e)]
              ELSE [stream EXCEPT !.queue = Append(Tail(@), e),
                                  !.dropped = @ \cup {Head(stream.queue)}]
         /\ excuse' = IF fits THEN excuse ELSE excuse \cup {"missed"}
  /\ UNCHANGED <<rec, worker, made, caller, flags, rounds, calls, buffer, count, seen, connects,
                 tabVars>>

-----------------------------------------------------------------------------
(* The stream *)

\* Register and take the buffer under one lock.  (The browser reconnects by itself.)
Connect ==
  /\ ~stream.on /\ connects < MaxConnects
  /\ connects' = connects + 1
  /\ stream' = [Closed EXCEPT !.on = TRUE, !.history = buffer, !.first = Head(buffer).n]
  /\ excuse' = IF Head(buffer).n > seen + 1 THEN excuse \cup {"missed"} ELSE excuse
  /\ UNCHANGED <<rec, worker, made, caller, flags, rounds, calls, seen, busVars, tabVars>>

\* The connection is lost, and with it what was on the way.
Disconnect ==
  /\ stream.on /\ connects < MaxConnects
  /\ stream' = Closed
  /\ handing' = [p \in Publishers |-> <<>>]
  /\ UNCHANGED <<serverVars, buffer, count, seen, connects, tabVars>>

\* (mutant) live events first.
FramesLiveFirst == stream.queue \o stream.history

\* What the generator has yet to send: the history, then the outbox.
Frames == stream.history \o stream.queue

\* The first of them is on its way to the tab.
Sent ==
  LET e == Head(Frames) IN
  IF stream.history # <<>>
    THEN [stream EXCEPT !.history = Tail(@), !.sent = @ \cup {e}]
    ELSE [stream EXCEPT !.queue = Tail(@), !.sent = @ \cup {e}]

-----------------------------------------------------------------------------
(* The tab *)

\* applyToTask.  What the other events change lies inside a step.
Applied(v, e) ==
  LET t == IF v = NoView THEN [v EXCEPT !.status = "PENDING"] ELSE v
  IN  CASE e.type = "step_start"       -> [t EXCEPT !.steps = @ \cup {e.index}]
        [] e.type = "task_interrupted" -> [t EXCEPT !.status = "INTERRUPTED"]
        [] e.type = "task_failed"      -> [t EXCEPT !.status = "FAILED"]
        [] e.type = "task_resumed"     -> [t EXCEPT !.status = "RUNNING"]
        [] OTHER                       -> t

\* (mutant) a snapshot always replaces what is there.
MergedWholesale(v, s) == s

\* upsertTask: a snapshot with fewer steps than the view is older than the view.
Merged(v, s) ==
  IF v # NoView /\ Cardinality(v.steps) > Cardinality(s.steps) THEN v ELSE s

\* mergeTaskStatus
StatusMerged(v, s) == IF v = NoView THEN s ELSE [v EXCEPT !.status = s.status]

\* shouldRefetchParked
TurnsParked(from, to) == from \in Live /\ to \in Parked

\* The view becomes v; when its status changes, the effect runs, with m in the ref.
\* `more' are the requests made besides, `left' those still on their way.
Show(v, m, left, more) ==
  /\ view' = v
  /\ mark' = IF v.status # view.status THEN v.status ELSE m
  /\ gets' = left \o more \o
       IF v.status # view.status /\ TurnsParked(m, v.status)
         THEN <<[kind |-> "pull", found |-> NoView]>> ELSE <<>>
  /\ Len(gets') <= MaxGets

\* onEvent: reduce, and refetch the status once when a step meets a PENDING task.
Receive ==
  /\ stream.on /\ Frames # <<>>
  /\ LET e == Head(Frames)
         v == Applied(view, e)
         refetch == e.type = "step_start" /\ v.status = "PENDING" /\ ~asked
     IN  /\ stream' = Sent /\ seen' = e.n
         /\ asked' = (asked \/ refetch)
         /\ Show(v, mark, gets, IF refetch THEN <<[kind |-> "status", found |-> NoView]>>
                                           ELSE <<>>)
  /\ UNCHANGED <<serverVars, busVars, connects>>

\* A request is served: it reads the live record.
Serve ==
  /\ \E k \in DOMAIN gets :
       /\ gets[k].found = NoView
       /\ \A j \in 1..k - 1 : gets[j].found # NoView
       /\ gets' = [gets EXCEPT ![k].found = Record]
  /\ UNCHANGED <<serverVars, busVars, streamVars, view, mark, asked>>

\* Answers arrive in the order in which they were asked for; only the first fetch
\* leaves the status it found in the ref.
Answer ==
  /\ gets # <<>> /\ Head(gets).found # NoView
  /\ LET s == Head(gets).found
         first == Head(gets).kind = "first"
     IN  /\ IF Head(gets).kind = "status"
              THEN Show(StatusMerged(view, s), mark, Tail(gets), <<>>)
              ELSE Show(Merged(view, s), IF first THEN s.status ELSE mark, Tail(gets), <<>>)
         /\ excuse' = IF s.said < 2 * rounds - 1 THEN excuse \cup {"late"} ELSE excuse
  /\ UNCHANGED <<rec, worker, made, caller, flags, rounds, calls, busVars, streamVars, asked>>

-----------------------------------------------------------------------------
(* The worker *)

Free(p) == handing[p] = <<>>

\* run marks the record RUNNING; a continuation was marked when it was claimed, and ends
\* at once when a stop has undone that.
Start ==
  /\ worker = "start"
  /\ IF rounds = 1 \/ rec.status = "RUNNING"
       THEN worker' = "begun" /\ rec' = [rec EXCEPT !.status = "RUNNING"]
       ELSE worker' = "teardown" /\ UNCHANGED rec
  /\ UNCHANGED <<made, caller, flags, rounds, calls, excuse, busVars, streamVars, tabVars>>

\* The agent node has seen no stop and is about to open its step.
Enter ==
  /\ worker \in {"begun", "run"} /\ Free("worker")
  /\ "stop" \notin flags /\ made < MaxSteps
  /\ worker' = "step"
  /\ UNCHANGED <<rec, made, caller, flags, rounds, calls, excuse, busVars, streamVars, tabVars>>

StepStart ==
  /\ worker = "step"
  /\ made' = made + 1
  /\ Publish("worker", "step_start", made + 1)
  /\ worker' = "run"
  /\ UNCHANGED <<rec, caller, flags, rounds, calls, excuse, streamVars, tabVars>>

\* The graph raises: the record's status is set and the steps stay where they are; a
\* step whose node raised, the round's last, is not in the checkpoint.
Raises ==
  /\ worker \in {"begun", "run"} /\ Free("worker")
  /\ rec' = [rec EXCEPT !.status = "FAILED"]
  /\ made' \in {made} \cup (IF worker = "run" THEN {made - 1} ELSE {})
  /\ excuse' = excuse \cup {"raise"}
  /\ Publish("worker", "task_failed", 0)
  /\ worker' = "teardown"
  /\ UNCHANGED <<caller, flags, rounds, calls, streamVars, tabVars>>

\* (mutant) the status is assigned before the contents.
FirstAssignedStatus(s) == [rec EXCEPT !.status = s]

FirstAssigned(s) == [rec EXCEPT !.steps = made, !.said = 2 * rounds]

\* The graph ends with status s, after a step unless it was stopped before its first;
\* _finalize_terminal assigns the contents ...
Settle(s) ==
  /\ Free("worker")
  /\ worker = "run" \/ (worker = "begun" /\ "stop" \in flags)
  /\ rec' = FirstAssigned(s)
  /\ worker' = s
  /\ UNCHANGED <<made, caller, flags, rounds, calls, excuse, busVars, streamVars, tabVars>>

\* ... and the status last.
Conclude ==
  /\ worker \in Parked
  /\ rec' = [status |-> worker, steps |-> made, said |-> 2 * rounds]
  /\ worker' = IF worker = "FAILED" THEN "failed" ELSE "claim"
  /\ UNCHANGED <<made, caller, flags, rounds, calls, excuse, busVars, streamVars, tabVars>>

TellFailed ==
  /\ worker = "failed"
  /\ Publish("worker", "task_failed", 0)
  /\ worker' = "teardown"
  /\ UNCHANGED <<rec, made, caller, flags, rounds, calls, excuse, streamVars, tabVars>>

\* A park is announced once: by the worker, or by the stop that caused it.
TellInterrupted ==
  /\ worker = "claim"
  /\ flags' = flags \cup {"announced"}
  /\ IF "announced" \in flags
       THEN UNCHANGED busVars
       ELSE Publish("worker", "task_interrupted", 0)
  /\ worker' = "teardown"
  /\ UNCHANGED <<rec, made, caller, rounds, calls, excuse, streamVars, tabVars>>

Teardown ==
  /\ worker = "teardown" /\ Free("worker")
  /\ flags' = {}
  /\ worker' = "idle"
  /\ UNCHANGED <<rec, made, caller, rounds, calls, excuse, busVars, streamVars, tabVars>>

-----------------------------------------------------------------------------
(* The requests *)

\* stop raises its flag and parks the live record ...
Stop ==
  /\ caller = "idle" /\ Free("caller")
  /\ rec.status \in Live /\ calls < MaxCalls
  /\ calls' = calls + 1
  /\ flags' = flags \cup {"stop"}
  /\ rec' = [rec EXCEPT !.status = "INTERRUPTED"]
  /\ caller' = "claim" /\ excuse' = excuse \cup {"stop"}
  /\ UNCHANGED <<worker, made, rounds, busVars, streamVars, tabVars>>

\* ... and announces it, while the worker may still be at work.
StopTell ==
  /\ caller = "claim"
  /\ flags' = flags \cup {"announced"}
  /\ IF "announced" \in flags
       THEN UNCHANGED busVars
       ELSE Publish("caller", "task_interrupted", 0)
  /\ caller' = "idle"
  /\ UNCHANGED <<rec, worker, made, rounds, calls, excuse, streamVars, tabVars>>

\* resume or send_message, once the old worker is gone.  A flag or a claim that a stop
\* has left behind is the new round's, and so is a ref that a late first answer has set.
Continue ==
  /\ caller = "idle" /\ Free("caller")
  /\ worker = "idle" /\ rec.status \in Parked
  /\ calls < MaxCalls
  /\ calls' = calls + 1 /\ rounds' = rounds + 1
  /\ rec' = [rec EXCEPT !.status = "RUNNING", !.said = 2 * rounds + 1]
  /\ caller' = "resumed"
  /\ excuse' = (IF flags = {} THEN {} ELSE {"stop"})
                 \cup (IF mark = view.status THEN {} ELSE {"late"})
  /\ UNCHANGED <<worker, made, flags, busVars, streamVars, tabVars>>

TellResumed ==
  /\ caller = "resumed"
  /\ Publish("caller", "task_resumed", 0)
  /\ caller' = "spawn"
  /\ UNCHANGED <<rec, worker, made, flags, rounds, calls, excuse, streamVars, tabVars>>

\* The worker starts and the request returns the record, to this tab or another one.
Spawn ==
  /\ caller = "spawn" /\ Free("caller")
  /\ caller' = "idle" /\ worker' = "start"
  /\ \/ UNCHANGED gets
     \/ Len(gets) < MaxGets /\ gets' = Append(gets, [kind |-> "pull", found |-> Record])
  /\ UNCHANGED <<rec, made, flags, rounds, calls, excuse, busVars, streamVars, view, mark, asked>>

-----------------------------------------------------------------------------
Next ==
  \/ \E p \in Publishers : Hand(p)
  \/ Connect \/ Disconnect
  \/ Receive \/ Serve \/ Answer
  \/ Start \/ Enter \/ StepStart \/ Raises
  \/ \E s \in Parked : Settle(s)
  \/ Conclude \/ TellFailed \/ TellInterrupted \/ Teardown
  \/ Stop \/ StopTell \/ Continue \/ TellResumed \/ Spawn

Spec == Init /\ [][Next]_vars

-----------------------------------------------------------------------------
(* Properties *)

Events == [n : 1..count, by : Publishers, index : Nat,
           type : {"task_created", "step_start", "task_interrupted", "task_failed",
                   "task_resumed"}]
Statuses == Live \cup Parked
Snapshots == [status : Statuses \cup {"none"}, steps : SUBSET (1..MaxSteps), said : Nat]

\* Every variable keeps the range the code gives it.
TypeOK ==
  /\ rec \in [status : Statuses, steps : 0..MaxSteps, said : Nat]
  /\ worker \in {"start", "begun", "run", "step", "failed", "claim", "teardown", "idle"} \cup Parked
  /\ made \in 0..MaxSteps
  /\ caller \in {"idle", "claim", "resumed", "spawn"}
  /\ flags \subseteq {"stop", "announced"}
  /\ excuse \subseteq {"stop", "raise", "late", "missed"}
  /\ buffer \in Seq(Events) /\ Len(buffer) <= BufferSize
  /\ \A p \in Publishers : handing[p] \in Seq(Events) /\ Len(handing[p]) <= 1
  /\ stream.on \in BOOLEAN /\ Len(stream.queue) <= QueueMax
  /\ Frames \in Seq(Events)
  /\ view \in Snapshots /\ mark \in Statuses \cup {"none"} /\ asked \in BOOLEAN
  /\ gets \in Seq([kind : {"first", "pull", "status"}, found : Snapshots])

\* On their way to the tab: what the generator has yet to send, what was handed out.
InFlight == Frames \o handing["worker"] \o handing["caller"]

\* Every event is either replayed or delivered live: from the first event a stream
\* starts with, each one is exactly once in what it has sent, has had to drop, or is
\* on its way.
StreamIsExact ==
  LET over == {e.n : e \in stream.sent \cup stream.dropped}
      coming == {InFlight[k].n : k \in DOMAIN InFlight}
  IN  stream.on =>
        /\ stream.first..count = over \cup coming
        /\ Cardinality(over) + Len(InFlight) = count + 1 - stream.first

\* What one thread publishes reaches the tab in the order in which it was published.
PublisherOrder ==
  \A k \in DOMAIN InFlight :
    \A e \in stream.sent \cup {InFlight[j] : j \in 1..k - 1} :
      e.by = InFlight[k].by => e.n < InFlight[k].n

\* A stream is its publishers' events: each once, each thread's in its order.
StreamIsSound == StreamIsExact /\ PublisherOrder

\* A late snapshot does not wipe steps that the stream has delivered without a gap (#256).
StepsStay ==
  [][view.steps = 1..Cardinality(view.steps) => view.steps \subseteq view'.steps]_view

AtRest ==
  /\ worker = "idle" /\ caller = "idle"
  /\ \A p \in Publishers : Free(p)
  /\ stream.on /\ Frames = <<>>
  /\ gets = <<>>

\* The persisted snapshot is what the tab trusts: when a round that no stop has
\* touched was settled by its worker, no event was lost for good and no answer came from
\* an earlier round, the view at rest is the record, whatever streams were lost and replayed.
ViewSettles == AtRest /\ excuse = {} => view = Record

\* The same for a round that a stop has parked.
StoppedViewSettles == AtRest /\ excuse = {"stop"} => view = Record
=============================================================================
