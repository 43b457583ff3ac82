--------------------------- MODULE LiveViewProofs ---------------------------
(***************************************************************************)
(* Theorems about module LiveView, for every size of the bus's buffer and  *)
(* of the outbox and every number of steps, calls, connections and         *)
(* requests: every variable keeps its range (TypeOK), a stream carries     *)
(* each event once and each publisher's in its order (StreamIsSound), a    *)
(* late snapshot wipes no step (StepsStay), and a tab at rest shows the    *)
(* record of a round that nothing has befallen (ViewSettles).              *)
(***************************************************************************)
EXTENDS LiveView, SequenceTheorems, FiniteSetTheorems, TLAPS

-----------------------------------------------------------------------------
(* Types.  What TypeOK says is not inductive: an event must name a step    *)
(* that exists, a record must have its steps from the first on.            *)

Types == {"task_created", "step_start", "task_interrupted", "task_failed", "task_resumed"}

\* The events that may have been published: a step_start names one of the task's steps.
Told == {e \in Events : e.type = "step_start" => e.index \in 1..MaxSteps}

\* What a request may have found: nothing yet, or a record with its steps from 1 on.
Shown == {s \in Snapshots : \E j \in 0..MaxSteps : s.steps = 1..j}

Requests == [kind : {"first", "pull", "status"}, found : Shown]

Streams == [on : BOOLEAN, history : Seq(Told), queue : Seq(Told), first : Nat,
            sent : SUBSET Told, dropped : SUBSET Told]

ServerTyped ==
  /\ rec \in [status : Statuses, steps : 0..MaxSteps, said : Nat]
  /\ worker \in {"start", "begun", "run", "step", "failed", "claim", "teardown", "idle"} \cup Parked
  /\ made \in 0..MaxSteps /\ (worker = "step" => made < MaxSteps)
  /\ worker = "run" => made > 0
  /\ caller \in {"idle", "claim", "resumed", "spawn"}
  /\ flags \subseteq {"stop", "announced"}
  /\ rounds \in Nat \ {0}
  /\ excuse \subseteq {"stop", "raise", "late", "missed"}

\* The buffer holds the last events published, without a gap.
BusTyped ==
  /\ count \in Nat \ {0}
  /\ buffer \in Seq(Told) /\ Len(buffer) \in 1..BufferSize
  /\ \A i \in 1..Len(buffer) : buffer[i].n = count - Len(buffer) + i
  /\ handing \in [Publishers -> Seq(Told)]
  /\ \A p \in Publishers : Len(handing[p]) <= 1
  /\ \A p \in Publishers : handing[p] # <<>> => handing[p][1].by = p

StreamTyped ==
  /\ stream \in Streams /\ Len(stream.queue) <= QueueMax
  /\ ~stream.on => stream = Closed /\ \A p \in Publishers : handing[p] = <<>>

TabTyped ==
  /\ view \in Snapshots /\ mark \in Statuses \cup {"none"} /\ asked \in BOOLEAN
  /\ gets \in Seq(Requests)

TypeInv == ServerTyped /\ BusTyped /\ StreamTyped /\ TabTyped

LEMMA ViewIsTyped ==
  /\ NoView \in Snapshots /\ NoView \in Shown
  /\ ServerTyped => Record \in Shown
<1>1. NoView \in Snapshots /\ NoView \in Shown
  <2>1. NoView = [status |-> "none", steps |-> 1..0, said |-> 0]
    BY DEF NoView, Snapshot
  <2>2. 1..0 \in SUBSET (1..MaxSteps) /\ 0 \in 0..MaxSteps
    BY ViewAssumption
  <2>3. NoView \in Snapshots
    BY <2>1, <2>2 DEF Snapshots
  <2> QED
    BY <2>1, <2>2, <2>3 DEF Shown
<1>2. ASSUME ServerTyped PROVE Record \in Shown
  BY <1>2, ViewAssumption DEF ServerTyped, Record, Snapshot, Snapshots, Shown, Statuses
<1> QED
  BY <1>1, <1>2

LEMMA TypeStarts == Init => TypeInv
<1> SUFFICES ASSUME Init PROVE TypeInv
  OBVIOUS
<1>1. ServerTyped
  BY ViewAssumption DEF Init, ServerTyped, Statuses, Live, Parked
<1>2. Event(1, "caller", "task_created", 0) \in Told
  BY DEF Init, Event, Told, Events, Publishers
<1>3. BusTyped
  BY <1>2, ViewAssumption DEF Init, BusTyped, Event
<1>4. StreamTyped
  BY ViewAssumption DEF Init, StreamTyped, Streams, Closed
<1>5. TabTyped
  <2>1. gets = <<[kind |-> "first", found |-> NoView]>>
    BY DEF Init
  <2>2. [kind |-> "first", found |-> NoView] \in Requests
    BY ViewIsTyped DEF Requests
  <2>3. gets \in Seq(Requests)
    BY <2>1, <2>2
  <2>4. view \in Snapshots /\ mark \in Statuses \cup {"none"} /\ asked \in BOOLEAN
    BY ViewIsTyped DEF Init
  <2> QED
    BY <2>3, <2>4 DEF TabTyped
<1> QED
  BY <1>1, <1>3, <1>4, <1>5 DEF TypeInv

\* publish appends the next event and keeps the last BufferSize of them.
LEMMA PublishTypes ==
  ASSUME TypeInv, NEW p \in Publishers, NEW type \in Types, NEW k \in Nat,
         type = "step_start" => k \in 1..MaxSteps, Publish(p, type, k)
  PROVE  /\ BusTyped'
         /\ Event(count + 1, p, type, k) \in Told'
         /\ Told \subseteq Told'
<1> DEFINE e == Event(count + 1, p, type, k)
           all == Append(buffer, e)
<1>1. count \in Nat \ {0} /\ count' = count + 1
  BY DEF TypeInv, BusTyped, Publish
<1>2. e \in Told' /\ Told \subseteq Told' /\ e.n = count + 1 /\ e.by = p
  BY <1>1 DEF Event, Told, Events, Types
<1>3. /\ buffer \in Seq(Told') /\ Len(buffer) \in 1..BufferSize
      /\ \A i \in 1..Len(buffer) : buffer[i].n = count - Len(buffer) + i
  BY <1>2, SeqMonotonic DEF TypeInv, BusTyped
<1>4. /\ all \in Seq(Told') /\ Len(all) = Len(buffer) + 1
      /\ \A i \in 1..Len(all) : all[i].n = count' - Len(all) + i
  BY <1>1, <1>2, <1>3, AppendProperties
<1>5. /\ buffer' \in Seq(Told') /\ Len(buffer') \in 1..BufferSize
      /\ \A i \in 1..Len(buffer') : buffer'[i].n = count' - Len(buffer') + i
  <2> HIDE DEF all
  <2>1. buffer' = Kept(all)
    BY DEF Publish, all
  <2>2. CASE Len(all) > BufferSize
    <3>1. buffer' = Tail(all) /\ all # <<>>
      BY <1>3, <1>4, <2>1, <2>2 DEF Kept
    <3>2. /\ Tail(all) \in Seq(Told') /\ Len(Tail(all)) = Len(all) - 1
          /\ \A i \in 1..Len(Tail(all)) : Tail(all)[i] = all[i + 1]
      BY <1>4, <3>1, HeadTailProperties
    <3>3. buffer' \in Seq(Told') /\ Len(buffer') = Len(all) - 1
      BY <3>1, <3>2
    <3>4. ASSUME NEW i \in 1..Len(buffer') PROVE buffer'[i].n = count' - Len(buffer') + i
      <4>1. i + 1 \in 1..Len(all) /\ buffer'[i] = all[i + 1] /\ Len(all) \in Nat
        BY <1>3, <1>4, <3>1, <3>2, <3>3
      <4>2. all[i + 1].n = count' - Len(all) + (i + 1)
        BY <1>4, <4>1
      <4> QED
        BY <1>1, <3>3, <4>1, <4>2
    <3>5. Len(buffer') \in 1..BufferSize
      BY <1>3, <1>4, <2>2, <3>3, ViewAssumption
    <3> QED
      BY <3>3, <3>4, <3>5
  <2>3. CASE Len(all) <= BufferSize
    BY <1>3, <1>4, <2>1, <2>3, ViewAssumption DEF Kept
  <2> QED
    BY <1>3, <1>4, <2>2, <2>3, ViewAssumption
<1>6. /\ handing' \in [Publishers -> Seq(Told')]
      /\ \A q \in Publishers : Len(handing'[q]) <= 1
      /\ \A q \in Publishers : handing'[q] # <<>> => handing'[q][1].by = q
  <2>1. /\ handing \in [Publishers -> Seq(Told')]
        /\ \A q \in Publishers : Len(handing[q]) <= 1
        /\ \A q \in Publishers : handing[q] # <<>> => handing[q][1].by = q
    BY <1>2, SeqMonotonic DEF TypeInv, BusTyped
  <2>2. /\ <<>> \in Seq(Told') /\ <<e>> \in Seq(Told')
        /\ Len(<<>>) <= 1 /\ Len(<<e>>) <= 1 /\ <<e>>[1].by = p
    BY <1>2
  <2>3. handing' = [handing EXCEPT ![p] = IF Registered THEN <<e>> ELSE <<>>]
    BY DEF Publish
  <2> QED
    BY <2>1, <2>2, <2>3
<1> QED
  BY <1>1, <1>2, <1>5, <1>6 DEF BusTyped

\* Nothing is lost of the types of what was told before.
LEMMA StillTold ==
  ASSUME TypeInv, UNCHANGED <<buffer, count>>, NEW p \in Publishers,
         handing' = handing \/ handing' = [handing EXCEPT ![p] = <<>>]
                    \/ handing' = [q \in Publishers |-> <<>>]
  PROVE  BusTyped' /\ Told' = Told
<1>1. Told' = Told
  BY DEF Told, Events
<1>2. <<>> \in Seq(Told) /\ Len(<<>>) <= 1
  OBVIOUS
<1>3. /\ handing' \in [Publishers -> Seq(Told)]
      /\ \A q \in Publishers : Len(handing'[q]) <= 1
      /\ \A q \in Publishers : handing'[q] # <<>> => handing'[q][1].by = q
  BY <1>2 DEF TypeInv, BusTyped
<1> QED
  BY <1>1, <1>3 DEF TypeInv, BusTyped

\* The server's own steps.
LEMMA ServerTypes ==
  ASSUME TypeInv, Next
  PROVE  ServerTyped'
<1> USE ViewAssumption
<1>0. ServerTyped
  BY DEF TypeInv
<1>1. ASSUME NEW p \in Publishers, Hand(p) PROVE ServerTyped'
  BY <1>0, <1>1 DEF Hand, ServerTyped
<1>2. CASE Connect \/ Disconnect \/ Receive \/ Serve \/ Answer
  <2>1. /\ UNCHANGED <<rec, worker, made, caller, flags, rounds>>
        /\ excuse' \subseteq excuse \cup {"missed", "late"}
    BY <1>2 DEF Connect, Disconnect, Receive, Serve, Answer, serverVars
  <2> QED
    BY <1>0, <2>1 DEF ServerTyped
<1>3. CASE Start \/ Enter \/ StepStart \/ Conclude \/ TellFailed \/ TellInterrupted \/ Teardown
  BY <1>0, <1>3 DEF Start, Enter, StepStart, Conclude, TellFailed, TellInterrupted, Teardown,
     ServerTyped, Statuses, Live, Parked
<1>4. CASE Raises
  BY <1>0, <1>4 DEF Raises, ServerTyped, Statuses, Live, Parked
<1>5. ASSUME NEW s \in Parked, Settle(s) PROVE ServerTyped'
  <2>1. rec' = [rec EXCEPT !.steps = made, !.said = 2 * rounds] /\ worker' = s
    BY <1>5 DEF Settle, FirstAssigned
  <2>3. made \in 0..MaxSteps /\ 2 * rounds \in Nat
    BY <1>0 DEF ServerTyped
  <2>2. rec' \in [status : Statuses, steps : 0..MaxSteps, said : Nat] /\ s # "step"
    <3> HIDE ViewAssumption
    <3> DEFINE m == 2 * rounds
               R == 0..MaxSteps
    <3>1. m \in Nat /\ made \in R /\ rec \in [status : Statuses, steps : R, said : Nat]
      BY <1>0, <2>3 DEF ServerTyped
    <3>2. rec' = [rec EXCEPT !.steps = made, !.said = m]
      BY <2>1
    <3> HIDE DEF m, R
    <3>3. rec' \in [status : Statuses, steps : R, said : Nat]
      BY <3>1, <3>2
    <3> QED
      BY <3>3 DEF R, Parked
  <2>4. worker' # "run"
    BY <2>1 DEF Parked
  <2> QED
    BY <1>0, <1>5, <2>1, <2>2, <2>4 DEF Settle, ServerTyped
<1>6. CASE Stop
  BY <1>0, <1>6 DEF Stop, ServerTyped, Statuses, Live, Parked
<1>7. CASE Continue
  <2>1. /\ rec' = [rec EXCEPT !.status = "RUNNING", !.said = 2 * rounds + 1]
        /\ rounds' = rounds + 1 /\ caller' = "resumed" /\ excuse' \subseteq {"stop", "late"}
        /\ UNCHANGED <<worker, made, flags>>
    BY <1>7 DEF Continue
  <2>2. rec' \in [status : Statuses, steps : 0..MaxSteps, said : Nat]
    <3> DEFINE m == 2 * rounds + 1
    <3>1. m \in Nat /\ rec \in [status : Statuses, steps : 0..MaxSteps, said : Nat]
      BY <1>0 DEF ServerTyped
    <3>2. rec' = [rec EXCEPT !.status = "RUNNING", !.said = m]
      BY <2>1
    <3> HIDE DEF m
    <3> QED
      BY <3>1, <3>2 DEF Statuses, Live
  <2> QED
    BY <1>0, <2>1, <2>2 DEF ServerTyped
<1>8. CASE StopTell \/ TellResumed \/ Spawn
  BY <1>0, <1>8 DEF StopTell, TellResumed, Spawn, ServerTyped
<1> QED
  BY <1>1, <1>2, <1>3, <1>4, <1>5, <1>6, <1>7, <1>8 DEF Next

-----------------------------------------------------------------------------
(* The kinds of steps, as the bus, the stream and the tab see them.        *)

Publishes ==
  \E p \in Publishers, type \in Types, k \in Nat :
    /\ type = "step_start" => k \in 1..MaxSteps
    /\ Publish(p, type, k)

Asks == gets' = Append(gets, [kind |-> "pull", found |-> Record])

\* A step of the server leaves the stream alone, publishes at most one event and may
\* answer the tab's own continuation.
ServerStep ==
  /\ UNCHANGED <<streamVars, view, mark, asked>>
  /\ \/ UNCHANGED <<busVars, gets>>
     \/ UNCHANGED busVars /\ Asks
     \/ UNCHANGED gets /\ Publishes

LEMMA KindsOfSteps ==
  ASSUME TypeInv, [Next]_vars
  PROVE  \/ ServerStep
         \/ \E p \in Publishers : Hand(p)
         \/ Connect \/ Disconnect \/ Receive \/ Serve \/ Answer
<1>1. CASE UNCHANGED vars
  BY <1>1 DEF vars, ServerStep, streamVars, busVars, tabVars
<1>2. CASE Start \/ Enter \/ Conclude \/ Teardown \/ Stop \/ Continue
  BY <1>2 DEF Start, Enter, Conclude, Teardown, Stop, Continue, ServerStep, tabVars
<1>3. ASSUME NEW s \in Parked, Settle(s) PROVE ServerStep
  BY <1>3 DEF Settle, ServerStep, tabVars
<1>4. CASE Spawn
  BY <1>4 DEF Spawn, ServerStep, Asks
<1>5. CASE StepStart
  <2>1. Publish("worker", "step_start", made + 1) /\ UNCHANGED <<streamVars, tabVars>>
    BY <1>5 DEF StepStart
  <2>2. made + 1 \in Nat /\ made + 1 \in 1..MaxSteps
    BY <1>5, ViewAssumption DEF StepStart, TypeInv, ServerTyped
  <2>3. "worker" \in Publishers /\ "step_start" \in Types
    BY DEF Publishers, Types
  <2>4. Publishes
    BY <2>1, <2>2, <2>3 DEF Publishes
  <2> QED
    BY <2>1, <2>4 DEF ServerStep, tabVars
<1>6. CASE Raises \/ TellFailed \/ TellInterrupted \/ StopTell \/ TellResumed
  <2>1. /\ UNCHANGED <<streamVars, tabVars>>
        /\ \/ UNCHANGED busVars
           \/ Publish("worker", "task_failed", 0)
           \/ Publish("worker", "task_interrupted", 0)
           \/ Publish("caller", "task_interrupted", 0)
           \/ Publish("caller", "task_resumed", 0)
    BY <1>6 DEF Raises, TellFailed, TellInterrupted, StopTell, TellResumed
  <2>2. /\ {"worker", "caller"} \subseteq Publishers /\ 0 \in Nat
        /\ {"task_failed", "task_interrupted", "task_resumed"} \subseteq Types
        /\ "step_start" \notin {"task_failed", "task_interrupted", "task_resumed"}
    BY DEF Publishers, Types
  <2>3. UNCHANGED busVars \/ Publishes
    BY <2>1, <2>2 DEF Publishes
  <2> QED
    BY <2>1, <2>3 DEF ServerStep, tabVars
<1> QED
  BY <1>1, <1>2, <1>3, <1>4, <1>5, <1>6 DEF Next

\* A stream hands on and forgets what is a told event; it is closed with its callback.
LEMMA StreamTypes ==
  ASSUME TypeInv, [Next]_vars
  PROVE  BusTyped' /\ StreamTyped' /\ Told \subseteq Told'
<1>0. TypeInv /\ BusTyped /\ StreamTyped /\ QueueMax \in Nat \ {0}
  BY ViewAssumption DEF TypeInv
<1>1. CASE ServerStep /\ UNCHANGED busVars
  BY <1>0, <1>1 DEF ServerStep, busVars, streamVars, BusTyped, StreamTyped, Told, Events, Streams
<1>2. CASE ServerStep /\ Publishes
  <2>1. PICK p \in Publishers, type \in Types, k \in Nat :
          (type = "step_start" => k \in 1..MaxSteps) /\ Publish(p, type, k)
    BY <1>2 DEF Publishes
  <2>2. BusTyped' /\ Told \subseteq Told'
    BY <1>0, <2>1, PublishTypes
  <2>3. Seq(Told) \subseteq Seq(Told')
    BY <2>2, SeqMonotonic
  <2>4. stream' = stream /\ stream \in Streams /\ Len(stream.queue) <= QueueMax
    BY <1>0, <1>2 DEF ServerStep, streamVars, StreamTyped
  <2>5. stream' \in Streams'
    BY <2>2, <2>3, <2>4 DEF Streams
  <2>6. ~stream.on => stream = Closed /\ \A q \in Publishers : handing'[q] = <<>>
    BY <1>0, <2>1 DEF StreamTyped, BusTyped, Publish, Registered
  <2> QED
    BY <2>2, <2>4, <2>5, <2>6 DEF StreamTyped
<1>3. ASSUME NEW p \in Publishers, Hand(p) PROVE BusTyped' /\ StreamTyped' /\ Told \subseteq Told'
  <2> DEFINE e == Head(handing[p])
  <2>1. BusTyped' /\ Told' = Told
    BY <1>0, <1>3, StillTold DEF Hand
  <2>2. e \in Told /\ handing[p] # <<>> /\ stream.on /\ stream \in Streams
    BY <1>0, <1>3, HeadTailProperties DEF Hand, BusTyped, StreamTyped
  <2> HIDE DEF e
  <2>3. CASE Len(stream.queue) < QueueMax
    <3>1. stream' = [stream EXCEPT !.queue = Append(@, e)]
      BY <1>3, <2>3 DEF Hand, e
    <3>2. Append(stream.queue, e) \in Seq(Told)
          /\ Len(Append(stream.queue, e)) = Len(stream.queue) + 1
      BY <2>2, AppendProperties DEF Streams
    <3>3. stream' \in Streams /\ stream'.on /\ stream'.queue = Append(stream.queue, e)
      BY <2>2, <3>1, <3>2 DEF Streams
    <3>4. Len(stream.queue) \in Nat
      BY <2>2 DEF Streams
    <3>5. Len(stream'.queue) <= QueueMax
      BY <1>0, <2>3, <3>2, <3>3, <3>4
    <3> QED
      BY <2>1, <3>3, <3>5 DEF StreamTyped, Streams
  <2>4. CASE ~(Len(stream.queue) < QueueMax)
    <3>1. stream' = [stream EXCEPT !.queue = Append(Tail(@), e),
                                   !.dropped = @ \cup {Head(stream.queue)}]
      BY <1>3, <2>4 DEF Hand, e
    <3>2. /\ stream.queue \in Seq(Told) /\ stream.queue # <<>> /\ Len(stream.queue) = QueueMax
      BY <1>0, <2>2, <2>4 DEF StreamTyped, Streams
    <3>3. /\ Head(stream.queue) \in Told /\ Tail(stream.queue) \in Seq(Told)
          /\ Len(Tail(stream.queue)) = QueueMax - 1
      BY <3>2, HeadTailProperties
    <3>4. /\ Append(Tail(stream.queue), e) \in Seq(Told)
          /\ Len(Append(Tail(stream.queue), e)) = QueueMax
      BY <1>0, <2>2, <3>3, AppendProperties
    <3> DEFINE q == Append(Tail(stream.queue), e)
               d == Head(stream.queue)
    <3>5. q \in Seq(Told) /\ d \in Told
      BY <3>3, <3>4
    <3>6. stream' = [stream EXCEPT !.queue = q, !.dropped = @ \cup {d}]
      BY <3>1
    <3> HIDE DEF q, d
    <3>7. stream' \in Streams /\ stream'.on /\ stream'.queue = q
      BY <2>2, <3>5, <3>6 DEF Streams
    <3>8. Len(stream'.queue) <= QueueMax
      BY <1>0, <3>4, <3>7 DEF q
    <3> QED
      BY <2>1, <3>7, <3>8 DEF StreamTyped, Streams
  <2> QED
    BY <2>1, <2>3, <2>4
<1>4. CASE Connect
  <2>1. BusTyped' /\ Told' = Told
    <3>1. "worker" \in Publishers
      BY DEF Publishers
    <3> QED
      BY <1>0, <1>4, <3>1, StillTold DEF Connect, busVars
  <2>2. /\ stream' = [on |-> TRUE, history |-> buffer, queue |-> <<>>, first |-> Head(buffer).n,
                      sent |-> {}, dropped |-> {}]
    BY <1>4 DEF Connect, Closed
  <2>3. buffer \in Seq(Told) /\ buffer # <<>> /\ Head(buffer) \in Told
    BY <1>0, HeadTailProperties DEF BusTyped
  <2>4. Head(buffer).n \in Nat /\ <<>> \in Seq(Told) /\ Len(<<>>) <= QueueMax
    BY <1>0, <2>3 DEF Told, Events, BusTyped
  <2>5. stream' \in Streams /\ Len(stream'.queue) <= QueueMax /\ stream'.on
    BY <2>2, <2>3, <2>4 DEF Streams
  <2> QED
    BY <2>1, <2>5 DEF StreamTyped, Streams
<1>5. CASE Disconnect
  <2>1. BusTyped' /\ Told' = Told
    <3>1. "worker" \in Publishers
      BY DEF Publishers
    <3> QED
      BY <1>0, <1>5, <3>1, StillTold DEF Disconnect
  <2>2. stream' = Closed /\ \A p \in Publishers : handing'[p] = <<>>
    BY <1>5 DEF Disconnect
  <2>3. Closed \in Streams /\ Len(Closed.queue) <= QueueMax
    BY <1>0 DEF Closed, Streams
  <2> QED
    BY <2>1, <2>2, <2>3 DEF StreamTyped, Streams
<1>6. CASE Receive
  <2>1. BusTyped' /\ Told' = Told /\ handing' = handing
    <3>1. "worker" \in Publishers
      BY DEF Publishers
    <3> QED
      BY <1>0, <1>6, <3>1, StillTold DEF Receive, busVars
  <2>2. stream' = Sent /\ stream.on /\ stream \in Streams /\ Frames # <<>>
    BY <1>0, <1>6 DEF Receive, StreamTyped
  <2>3. stream.history \in Seq(Told) /\ stream.queue \in Seq(Told) /\ Frames \in Seq(Told)
    BY <2>2, ConcatProperties DEF Streams, Frames
  <2>4. Head(Frames) \in Told
    BY <2>2, <2>3, HeadTailProperties
  <2>5. CASE stream.history # <<>>
    <3>1. stream' = [stream EXCEPT !.history = Tail(@), !.sent = @ \cup {Head(Frames)}]
      BY <2>2, <2>5 DEF Sent
    <3>2. Tail(stream.history) \in Seq(Told)
      BY <2>3, <2>5, HeadTailProperties
    <3>3. stream' \in Streams /\ stream'.on /\ stream'.queue = stream.queue
      BY <2>2, <2>4, <3>1, <3>2 DEF Streams
    <3> QED
      BY <1>0, <2>1, <3>3 DEF StreamTyped, Streams
  <2>6. CASE stream.history = <<>>
    <3>1. stream' = [stream EXCEPT !.queue = Tail(@), !.sent = @ \cup {Head(Frames)}]
      BY <2>2, <2>6 DEF Sent
    <3>2. stream.queue # <<>>
      BY <2>2, <2>6 DEF Frames
    <3>3. Tail(stream.queue) \in Seq(Told) /\ Len(Tail(stream.queue)) = Len(stream.queue) - 1
          /\ Len(stream.queue) \in Nat
      BY <2>3, <3>2, HeadTailProperties
    <3>4. stream' \in Streams /\ stream'.on /\ stream'.queue = Tail(stream.queue)
      BY <2>2, <2>4, <3>1, <3>3 DEF Streams
    <3> QED
      BY <1>0, <2>1, <3>3, <3>4 DEF StreamTyped, Streams
  <2> QED
    BY <2>5, <2>6
<1>7. CASE Serve \/ Answer
  BY <1>0, <1>7 DEF Serve, Answer, busVars, streamVars, BusTyped, StreamTyped, Told, Events,
     Streams
<1> QED
  BY <1>1, <1>2, <1>3, <1>4, <1>5, <1>6, <1>7, KindsOfSteps DEF ServerStep

-----------------------------------------------------------------------------
(* The tab.                                                                *)

LEMMA AppliedTypes ==
  ASSUME NEW v \in Snapshots, NEW e \in Told
  PROVE  Applied(v, e) \in Snapshots /\ v.steps \subseteq Applied(v, e).steps
<1> DEFINE t == IF v = NoView THEN [v EXCEPT !.status = "PENDING"] ELSE v
<1>1. t \in Snapshots /\ t.steps = v.steps
  BY DEF Snapshots, Statuses, Live
<1> HIDE DEF t
<1>2. CASE e.type = "step_start"
  <2>1. Applied(v, e) = [t EXCEPT !.steps = @ \cup {e.index}]
    BY <1>2 DEF Applied, t
  <2>2. e.index \in 1..MaxSteps
    BY <1>2 DEF Told
  <2> QED
    BY <1>1, <2>1, <2>2 DEF Snapshots
<1>3. CASE e.type # "step_start"
  <2>1. \/ Applied(v, e) = t
        \/ \E s \in {"INTERRUPTED", "FAILED", "RUNNING"} : Applied(v, e) = [t EXCEPT !.status = s]
    BY <1>3 DEF Applied, t
  <2> QED
    BY <1>1, <2>1 DEF Snapshots, Statuses, Live, Parked
<1> QED
  BY <1>2, <1>3

LEMMA ShowTypes ==
  ASSUME NEW v \in Snapshots, NEW m \in Statuses \cup {"none"},
         NEW left \in Seq(Requests), NEW more \in Seq(Requests), Show(v, m, left, more)
  PROVE  /\ view' = v /\ mark' \in Statuses \cup {"none"} /\ gets' \in Seq(Requests)
<1> DEFINE pull == [kind |-> "pull", found |-> NoView]
           last == IF v.status # view.status /\ TurnsParked(m, v.status) THEN <<pull>> ELSE <<>>
<1>1. pull \in Requests
  BY ViewIsTyped DEF Requests
<1>2. last \in Seq(Requests)
  BY <1>1
<1>3. gets' = left \o more \o last
  BY DEF Show
<1> HIDE DEF last
<1>4. gets' \in Seq(Requests)
  BY <1>2, <1>3, ConcatProperties
<1>5. view' = v /\ mark' \in {v.status, m} /\ v.status \in Statuses \cup {"none"}
  BY DEF Show, Snapshots
<1> QED
  BY <1>4, <1>5

\* What an answer finds: a record, which is nobody's empty view.
LEMMA FoundIsShown ==
  ASSUME TabTyped, gets # <<>>
  PROVE  Head(gets).found \in Shown /\ Head(gets).found \in Snapshots
<1>1. Head(gets) \in Requests
  BY HeadTailProperties DEF TabTyped
<1> QED
  BY <1>1 DEF Requests, Shown

LEMMA TabTypes ==
  ASSUME TypeInv, [Next]_vars
  PROVE  TabTyped'
<1>0. TypeInv /\ ServerTyped /\ BusTyped /\ StreamTyped /\ TabTyped
  BY DEF TypeInv
<1>1. CASE ServerStep
  <2>1. CASE gets' = gets
    BY <1>0, <1>1, <2>1 DEF ServerStep, TabTyped
  <2>2. CASE Asks
    <3>1. [kind |-> "pull", found |-> Record] \in Requests
      BY <1>0, ViewIsTyped DEF Requests
    <3>2. gets' \in Seq(Requests)
      BY <1>0, <2>2, <3>1, AppendProperties DEF Asks, TabTyped
    <3> QED
      BY <1>0, <1>1, <3>2 DEF ServerStep, TabTyped
  <2> QED
    BY <1>1, <2>1, <2>2 DEF ServerStep
<1>2. ASSUME NEW p \in Publishers, Hand(p) PROVE TabTyped'
  BY <1>0, <1>2 DEF Hand, tabVars, TabTyped
<1>3. CASE Connect \/ Disconnect
  BY <1>0, <1>3 DEF Connect, Disconnect, tabVars, TabTyped
<1>4. CASE Receive
  <2> DEFINE e == Head(Frames)
             v == Applied(view, e)
             refetch == e.type = "step_start" /\ v.status = "PENDING" /\ ~asked
             more == IF refetch THEN <<[kind |-> "status", found |-> NoView]>> ELSE <<>>
  <2>1. Frames \in Seq(Told) /\ Frames # <<>>
    BY <1>0, <1>4, ConcatProperties DEF Receive, Frames, StreamTyped, Streams
  <2>2. e \in Told
    BY <2>1, HeadTailProperties
  <2>3. v \in Snapshots
    BY <1>0, <2>2, AppliedTypes DEF TabTyped
  <2>4. [kind |-> "status", found |-> NoView] \in Requests
    BY ViewIsTyped DEF Requests
  <2>5. more \in Seq(Requests)
    BY <2>4
  <2>6. Show(v, mark, gets, more) /\ asked' = (asked \/ refetch)
    BY <1>4 DEF Receive
  <2>7. asked' \in BOOLEAN
    BY <2>6
  <2> HIDE DEF v, more
  <2>8. view' = v /\ mark' \in Statuses \cup {"none"} /\ gets' \in Seq(Requests)
    BY <1>0, <2>3, <2>5, <2>6, ShowTypes DEF TabTyped
  <2> QED
    BY <2>3, <2>7, <2>8 DEF TabTyped
<1>5. CASE Serve
  <2>1. PICK k \in DOMAIN gets : gets' = [gets EXCEPT ![k].found = Record]
    BY <1>5 DEF Serve
  <2>2. gets \in Seq(Requests) /\ k \in 1..Len(gets)
    BY <1>0, <2>1, LenProperties DEF TabTyped
  <2>3. gets[k] \in Requests
    BY <2>2, ElementOfSeq
  <2>4. [gets[k] EXCEPT !.found = Record] \in Requests
    BY <1>0, <2>3, ViewIsTyped DEF Requests
  <2>5. gets' = [gets EXCEPT ![k] = [gets[k] EXCEPT !.found = Record]]
    BY <2>1, <2>2
  <2>6. gets' \in Seq(Requests)
    BY <2>2, <2>4, <2>5, ExceptSeq
  <2> QED
    BY <1>0, <1>5, <2>6 DEF Serve, TabTyped
<1>6. CASE Answer
  <2> DEFINE s == Head(gets).found
  <2>1. gets \in Seq(Requests) /\ gets # <<>> /\ view \in Snapshots
        /\ mark \in Statuses \cup {"none"} /\ asked' = asked /\ asked \in BOOLEAN
    BY <1>0, <1>6 DEF Answer, TabTyped
  <2>2. s \in Snapshots /\ s.status \in Statuses \cup {"none"}
    BY <1>0, <2>1, FoundIsShown DEF Snapshots
  <2>3. Tail(gets) \in Seq(Requests) /\ <<>> \in Seq(Requests)
    BY <2>1, HeadTailProperties
  <2>4. StatusMerged(view, s) \in Snapshots /\ Merged(view, s) \in Snapshots
    BY <2>1, <2>2 DEF StatusMerged, Merged, Snapshots
  <2>5. \/ Show(StatusMerged(view, s), mark, Tail(gets), <<>>)
        \/ Show(Merged(view, s), s.status, Tail(gets), <<>>)
        \/ Show(Merged(view, s), mark, Tail(gets), <<>>)
    BY <1>6 DEF Answer
  <2> HIDE DEF s
  <2>6. view' \in Snapshots /\ mark' \in Statuses \cup {"none"} /\ gets' \in Seq(Requests)
    BY <2>1, <2>2, <2>3, <2>4, <2>5, ShowTypes
  <2> QED
    BY <2>1, <2>6 DEF TabTyped
<1> QED
  BY <1>1, <1>2, <1>3, <1>4, <1>5, <1>6, KindsOfSteps

LEMMA TypeNext == TypeInv /\ [Next]_vars => TypeInv'
<1> SUFFICES ASSUME TypeInv, [Next]_vars PROVE TypeInv'
  OBVIOUS
<1>1. ServerTyped'
  <2>1. CASE UNCHANGED vars
    BY <2>1 DEF TypeInv, ServerTyped, vars, serverVars
  <2> QED
    BY <2>1, ServerTypes
<1> QED
  BY <1>1, StreamTypes, TabTypes DEF TypeInv

\* What the invariant says covers what a run checks.
LEMMA TypesAreOK == TypeInv => TypeOK
<1> SUFFICES ASSUME TypeInv PROVE TypeOK
  OBVIOUS
<1>1. Told \subseteq Events
  BY DEF Told
<1>2. Seq(Told) \subseteq Seq(Events)
  BY <1>1, SeqMonotonic
<1>3. buffer \in Seq(Events) /\ Len(buffer) <= BufferSize
  BY <1>2, ViewAssumption DEF TypeInv, BusTyped
<1>4. \A p \in Publishers : handing[p] \in Seq(Events) /\ Len(handing[p]) <= 1
  BY <1>2 DEF TypeInv, BusTyped
<1>5. stream.on \in BOOLEAN /\ Len(stream.queue) <= QueueMax /\ Frames \in Seq(Events)
  BY <1>2, ConcatProperties DEF TypeInv, StreamTyped, Streams, Frames
<1>6. gets \in Seq([kind : {"first", "pull", "status"}, found : Snapshots])
  <2>1. Requests \subseteq [kind : {"first", "pull", "status"}, found : Snapshots]
    BY DEF Requests, Shown
  <2> QED
    BY <2>1, SeqMonotonic DEF TypeInv, TabTyped
<1> QED
  BY <1>3, <1>4, <1>5, <1>6 DEF TypeOK, TypeInv, ServerTyped, TabTyped

\* The view has its steps without a gap.
Gapless(v) == v.steps = 1..Cardinality(v.steps)

LEMMA MergeKeepsSteps ==
  ASSUME NEW v \in Snapshots, NEW s \in Shown, Gapless(v)
  PROVE  v.steps \subseteq Merged(v, s).steps
<1>1. PICK j \in 0..MaxSteps : s.steps = 1..j
  BY DEF Shown
<1>2. j \in Nat /\ Cardinality(s.steps) = j
  BY <1>1, FS_Interval, ViewAssumption
<1>3. IsFiniteSet(v.steps)
  <2>1. v.steps \subseteq 1..MaxSteps
    BY DEF Snapshots
  <2>2. IsFiniteSet(1..MaxSteps)
    BY FS_Interval, ViewAssumption
  <2> QED
    BY <2>1, <2>2, FS_Subset
<1>4. Cardinality(v.steps) \in Nat
  BY <1>3, FS_CardinalityType
<1>5. CASE v = NoView
  <2>1. v.steps = 1..0
    BY <1>5 DEF NoView, Snapshot
  <2> QED
    BY <2>1
<1>6. CASE v # NoView /\ Cardinality(v.steps) > Cardinality(s.steps)
  BY <1>6 DEF Merged
<1>7. CASE v # NoView /\ ~(Cardinality(v.steps) > Cardinality(s.steps))
  <2>1. Merged(v, s) = s
    BY <1>7 DEF Merged
  <2>2. Cardinality(v.steps) <= j
    BY <1>2, <1>4, <1>7
  <2>3. 1..Cardinality(v.steps) \subseteq 1..j
    BY <1>2, <1>4, <2>2
  <2> QED
    BY <1>1, <2>1, <2>3 DEF Gapless
<1> QED
  BY <1>5, <1>6, <1>7

LEMMA StepsStayNext ==
  ASSUME TypeInv, [Next]_vars, Gapless(view)
  PROVE  view.steps \subseteq view'.steps
<1>0. TypeInv /\ ServerTyped /\ BusTyped /\ StreamTyped /\ TabTyped /\ view \in Snapshots
  BY DEF TypeInv, TabTyped
<1>1. CASE ServerStep \/ Connect \/ Disconnect \/ Serve \/ \E p \in Publishers : Hand(p)
  BY <1>1 DEF ServerStep, Connect, Disconnect, Serve, Hand, tabVars
<1>2. CASE Receive
  <2>1. Frames \in Seq(Told) /\ Frames # <<>>
    BY <1>0, <1>2, ConcatProperties DEF Receive, Frames, StreamTyped, Streams
  <2>2. Head(Frames) \in Told /\ view' = Applied(view, Head(Frames))
    BY <1>2, <2>1, HeadTailProperties DEF Receive, Show
  <2> QED
    BY <1>0, <2>2, AppliedTypes
<1>3. CASE Answer
  <2> DEFINE s == Head(gets).found
  <2>1. s \in Shown /\ s # NoView
    BY <1>0, <1>3, FoundIsShown DEF Answer
  <2>2. view' = StatusMerged(view, s) \/ view' = Merged(view, s)
    BY <1>3 DEF Answer, Show
  <2> HIDE DEF s
  <2>3. view.steps \subseteq Merged(view, s).steps
    BY <1>0, <2>1, MergeKeepsSteps
  <2>4. view.steps \subseteq StatusMerged(view, s).steps
    <3>1. CASE view = NoView
      <4>1. view.steps = 1..0
        BY <3>1 DEF NoView, Snapshot
      <4> QED
        BY <4>1
    <3>2. CASE view # NoView
      BY <1>0, <3>2 DEF StatusMerged, Snapshots
    <3> QED
      BY <3>1, <3>2
  <2> QED
    BY <2>2, <2>3, <2>4
<1> QED
  BY <1>1, <1>2, <1>3, KindsOfSteps

-----------------------------------------------------------------------------
(* The stream.  Frames is one sequence for the invariant, whichever part of*)
(* it an event is in; beside it stands what the publishers still hold.     *)

\* What is on its way, as a set.
Coming ==
  {Frames[k] : k \in 1..Len(Frames)} \cup
  {handing[p][1] : p \in {q \in Publishers : handing[q] # <<>>}}

Held(p) == IF handing[p] = <<>> THEN 0 ELSE 1

Waiting == Len(Frames) + Held("worker") + Held("caller")

Over == stream.sent \cup stream.dropped

Numbers(S) == {e.n : e \in S}

\* An event's number names it, as far as anybody can tell.
NumbersNameEvents ==
  \A e, f \in Over \cup Coming : e.n = f.n => e.by = f.by

\* A publisher's events leave in the order of their numbers: those sent before those the
\* stream has, those before the one it still holds.
FramesInOrder ==
  \A j, k \in 1..Len(Frames) : j < k /\ Frames[j].by = Frames[k].by => Frames[j].n < Frames[k].n

SentBeforeFrames ==
  \A e \in stream.sent : \A k \in 1..Len(Frames) : e.by = Frames[k].by => e.n < Frames[k].n

HeldLast ==
  \A p \in Publishers : handing[p] # <<>> =>
    /\ \A e \in stream.sent : e.by = p => e.n < handing[p][1].n
    /\ \A k \in 1..Len(Frames) : Frames[k].by = p => Frames[k].n < handing[p][1].n

\* What was dropped does not come again.
DroppedIsGone == \A e \in stream.dropped : \A f \in Coming : e.n # f.n

\* Nothing is lost beside what is known to be dropped, and nothing comes twice.
Accounted ==
  stream.on =>
    /\ stream.first \in 1..count
    /\ stream.first..count = Numbers(Over) \cup Numbers(Coming)
    /\ Cardinality(Numbers(Over)) + Waiting = count + 1 - stream.first

StreamInv ==
  /\ NumbersNameEvents /\ FramesInOrder /\ SentBeforeFrames /\ HeldLast /\ DroppedIsGone
  /\ Accounted

\* While the stream is off there is nothing to tell apart.
LEMMA OffIsSound ==
  ASSUME ~stream.on, stream = Closed, \A p \in Publishers : handing[p] = <<>>
  PROVE  StreamInv
<1>1. Frames = <<>> /\ Len(Frames) = 0 /\ stream.sent = {} /\ stream.dropped = {}
  BY DEF Frames, Closed
<1>2. Over = {} /\ Coming = {}
  BY <1>1 DEF Over, Coming
<1> QED
  BY <1>1, <1>2 DEF StreamInv, NumbersNameEvents, FramesInOrder, SentBeforeFrames, HeldLast,
     DroppedIsGone, Accounted

LEMMA OffStaysSound ==
  ASSUME StreamTyped', ~stream'.on
  PROVE  StreamInv'
<1>1. stream' = Closed /\ \A p \in Publishers : handing'[p] = <<>>
  BY DEF StreamTyped, Closed
<1>2. /\ Frames' = <<>> /\ Len(Frames') = 0 /\ stream'.sent = {} /\ stream'.dropped = {}
  BY <1>1 DEF Frames, Closed
<1>3. Over' = {} /\ Coming' = {}
  BY <1>1, <1>2 DEF Over, Coming
<1> QED
  BY <1>1, <1>2, <1>3 DEF StreamInv, NumbersNameEvents, FramesInOrder, SentBeforeFrames, HeldLast,
     DroppedIsGone, Accounted

LEMMA FramesAreTold ==
  ASSUME TypeInv
  PROVE  /\ Frames \in Seq(Told) /\ Len(Frames) \in Nat
         /\ \A k \in 1..Len(Frames) : Frames[k] \in Told
         /\ Over \subseteq Told /\ Coming \subseteq Told
         /\ Len(Frames) = Len(stream.history) + Len(stream.queue)
         /\ \A k \in 1..Len(Frames) : Frames[k] =
              IF k <= Len(stream.history) THEN stream.history[k]
                                          ELSE stream.queue[k - Len(stream.history)]
<1>1. stream.history \in Seq(Told) /\ stream.queue \in Seq(Told)
      /\ stream.sent \subseteq Told /\ stream.dropped \subseteq Told
  BY DEF TypeInv, StreamTyped, Streams
<1>2. /\ Frames \in Seq(Told) /\ Len(Frames) \in Nat
      /\ Len(Frames) = Len(stream.history) + Len(stream.queue)
      /\ \A k \in 1..Len(Frames) : Frames[k] =
           IF k <= Len(stream.history) THEN stream.history[k]
                                       ELSE stream.queue[k - Len(stream.history)]
  BY <1>1, ConcatProperties, LenProperties DEF Frames
<1>3. \A k \in 1..Len(Frames) : Frames[k] \in Told
  BY <1>2, ElementOfSeq
<1>4. \A p \in Publishers : handing[p] # <<>> => handing[p][1] \in Told
  <2> SUFFICES ASSUME NEW p \in Publishers, handing[p] # <<>> PROVE handing[p][1] \in Told
    OBVIOUS
  <2>1. handing[p] \in Seq(Told) /\ 1 \in 1..Len(handing[p])
    BY LenProperties DEF TypeInv, BusTyped
  <2> QED
    BY <2>1, ElementOfSeq
<1>5. Coming \subseteq Told
  BY <1>3, <1>4 DEF Coming
<1> QED
  BY <1>1, <1>2, <1>3, <1>5 DEF Over

\* One more number among those sent or dropped.
LEMMA OneMore ==
  ASSUME TypeInv, StreamInv, stream.on, NEW x \in Nat, x \notin Numbers(Over)
  PROVE  Cardinality(Numbers(Over) \cup {x}) = Cardinality(Numbers(Over)) + 1
         /\ Cardinality(Numbers(Over)) \in Nat
<1>1. stream.first \in Nat /\ count \in Nat /\ Numbers(Over) \subseteq stream.first..count
  BY DEF TypeInv, BusTyped, StreamInv, Accounted
<1>2. IsFiniteSet(stream.first..count)
  BY <1>1, FS_Interval
<1>3. IsFiniteSet(Numbers(Over))
  BY <1>1, <1>2, FS_Subset
<1> QED
  BY <1>3, FS_AddElement, FS_CardinalityType

LEMMA HeldTypes ==
  ASSUME TypeInv, NEW p \in Publishers, handing[p] # <<>>
  PROVE  /\ stream.on /\ Head(handing[p]) = handing[p][1]
         /\ handing[p][1] \in Told /\ handing[p][1] \in Coming /\ handing[p][1].by = p
<1>1. handing[p] \in Seq(Told) /\ 1 \in 1..Len(handing[p])
  BY LenProperties DEF TypeInv, BusTyped
<1>2. handing[p][1] \in Told
  BY <1>1, ElementOfSeq
<1> QED
  BY <1>1, <1>2 DEF TypeInv, BusTyped, StreamTyped, Coming

LEMMA WaitingIsNat ==
  ASSUME TypeInv
  PROVE  Waiting \in Nat
<1>1. Len(Frames) \in Nat
  BY FramesAreTold
<1>2. Held("worker") \in Nat /\ Held("caller") \in Nat
  BY DEF Held
<1> QED
  BY <1>1, <1>2 DEF Waiting

\* publish, while a stream is on: the new event is one more that is on its way.
LEMMA PublishIsSound ==
  ASSUME TypeInv, StreamInv, stream.on, UNCHANGED stream,
         NEW p \in Publishers, NEW type \in Types, NEW k \in Nat,
         type = "step_start" => k \in 1..MaxSteps, Publish(p, type, k)
  PROVE  StreamInv'
<1> DEFINE e == Event(count + 1, p, type, k)
<1>1. /\ count \in Nat /\ count' = count + 1 /\ e.n = count + 1 /\ e.by = p
      /\ handing \in [Publishers -> Seq(Told)] /\ handing[p] = <<>>
      /\ handing' = [handing EXCEPT ![p] = <<e>>]
  BY DEF TypeInv, BusTyped, Publish, Registered, Event
<1> HIDE DEF e
<1>2. /\ handing'[p] # <<>> /\ handing'[p][1] = e
      /\ \A q \in Publishers \ {p} : handing'[q] = handing[q]
  BY <1>1
<1>3. Frames' = Frames /\ Over' = Over /\ stream'.on /\ stream'.sent = stream.sent
      /\ stream'.dropped = stream.dropped /\ stream'.first = stream.first
  BY DEF Frames, Over
<1>4. Coming' = Coming \cup {e}
  <2>1. {q \in Publishers : handing'[q] # <<>>} = {q \in Publishers : handing[q] # <<>>} \cup {p}
    BY <1>1, <1>2
  <2> QED
    BY <1>1, <1>2, <1>3, <2>1 DEF Coming
<1>5. \A f \in Over \cup Coming : f.n <= count /\ f.n \in Nat
  BY <1>1, FramesAreTold DEF Told, Events
<1>6. NumbersNameEvents'
  BY <1>1, <1>3, <1>4, <1>5 DEF StreamInv, NumbersNameEvents
<1>7. FramesInOrder' /\ SentBeforeFrames'
  BY <1>3 DEF StreamInv, FramesInOrder, SentBeforeFrames
<1>8. HeldLast'
  <2>1. \A f \in stream.sent : f.n < e.n
    BY <1>1, <1>5 DEF Over
  <2>2. \A j \in 1..Len(Frames) : Frames[j].n < e.n
    <3>1. \A j \in 1..Len(Frames) : Frames[j] \in Coming
      BY DEF Coming
    <3> QED
      BY <1>1, <1>5, <3>1
  <2> QED
    BY <1>2, <1>3, <2>1, <2>2 DEF StreamInv, HeldLast
<1>9. DroppedIsGone'
  BY <1>1, <1>3, <1>4, <1>5 DEF StreamInv, DroppedIsGone, Over
<1>10. Waiting' = Waiting + 1
  <2>1. p \in {"worker", "caller"}
    BY DEF Publishers
  <2>2. Len(Frames) \in Nat /\ Len(Frames') = Len(Frames)
    BY <1>3, FramesAreTold
  <2>3. /\ Held(p) = 0 /\ Held(p)' = 1
        /\ \A q \in {"worker", "caller"} \ {p} : Held(q)' = Held(q) /\ Held(q) \in Nat
    BY <1>1, <1>2 DEF Held, Publishers
  <2>4. CASE p = "worker"
    BY <2>2, <2>3, <2>4 DEF Waiting
  <2>5. CASE p = "caller"
    BY <2>2, <2>3, <2>5 DEF Waiting
  <2> QED
    BY <2>1, <2>4, <2>5
<1>11. Accounted'
  <2>1. /\ stream.first \in 1..count /\ stream.first..count = Numbers(Over) \cup Numbers(Coming)
        /\ Cardinality(Numbers(Over)) + Waiting = count + 1 - stream.first
    BY DEF StreamInv, Accounted
  <2>2. Numbers(Coming)' = Numbers(Coming) \cup {count + 1}
    BY <1>1, <1>4 DEF Numbers
  <2>3. stream.first..(count + 1) = (stream.first..count) \cup {count + 1}
    BY <1>1, <2>1
  <2>4. Numbers(Over)' = Numbers(Over)
    BY <1>3 DEF Numbers
  <2>5. count + 1 \notin Numbers(Over)
    BY <1>1, <1>5 DEF Numbers
  <2>6. Cardinality(Numbers(Over)) \in Nat
    <3>1. count + 1 \in Nat
      BY <1>1
    <3> QED
      BY <2>5, <3>1, OneMore
  <2>7. Waiting \in Nat
    BY WaitingIsNat
  <2>8. Cardinality(Numbers(Over)) + Waiting' = count' + 1 - stream'.first
    BY <1>1, <1>3, <1>10, <2>1, <2>6, <2>7
  <2>9. stream'.first..count' = Numbers(Over)' \cup Numbers(Coming)'
    BY <1>1, <1>3, <2>1, <2>2, <2>3, <2>4
  <2>10. stream'.first \in 1..count'
    BY <1>1, <1>3, <2>1
  <2> QED
    BY <2>4, <2>8, <2>9, <2>10 DEF Accounted
<1> QED
  BY <1>6, <1>7, <1>8, <1>9, <1>11 DEF StreamInv

LEMMA NumbersAreTold ==
  ASSUME TypeInv
  PROVE  count \in Nat /\ \A e \in Over \cup Coming : e.n \in 1..count /\ e.n \in Nat
<1>1. count \in Nat
  BY DEF TypeInv, BusTyped
<1>2. Over \cup Coming \subseteq Told
  BY FramesAreTold
<1>3. \A e \in Told : e.n \in 1..count
  BY DEF Told, Events
<1> QED
  BY <1>1, <1>2, <1>3

\* An event that waits in the stream has a number of its own.
LEMMA FramesDiffer ==
  ASSUME TypeInv, StreamInv, NEW k \in 1..Len(Frames)
  PROVE  /\ Frames[k] \in Coming /\ Frames[k].n \in Nat /\ Frames[k].n \notin Numbers(Over)
         /\ \A j \in 1..Len(Frames) : j # k => Frames[j].n # Frames[k].n
         /\ \A p \in Publishers : handing[p] # <<>> => handing[p][1].n # Frames[k].n
<1>1. Frames[k] \in Coming
  BY DEF Coming
<1>2. \A e \in Over \cup Coming : e.n \in Nat
  BY NumbersAreTold
<1>3. \A e \in stream.sent : e.n # Frames[k].n
  BY <1>1, <1>2 DEF StreamInv, NumbersNameEvents, SentBeforeFrames, Over
<1>4. \A e \in stream.dropped : e.n # Frames[k].n
  BY <1>1 DEF StreamInv, DroppedIsGone
<1>5. \A j \in 1..Len(Frames) : j # k => Frames[j].n # Frames[k].n
  <2> SUFFICES ASSUME NEW j \in 1..Len(Frames), j # k PROVE Frames[j].n # Frames[k].n
    OBVIOUS
  <2>1. Frames[j] \in Coming
    BY DEF Coming
  <2>2. Frames[j].n = Frames[k].n => Frames[j].by = Frames[k].by
    BY <1>1, <2>1 DEF StreamInv, NumbersNameEvents
  <2>3. j < k \/ k < j
    BY FramesAreTold
  <2>4. Frames[j].by = Frames[k].by => Frames[j].n < Frames[k].n \/ Frames[k].n < Frames[j].n
    BY <2>3 DEF StreamInv, FramesInOrder
  <2> QED
    BY <1>1, <1>2, <2>1, <2>2, <2>4
<1>6. \A p \in Publishers : handing[p] # <<>> => handing[p][1].n # Frames[k].n
  <2> SUFFICES ASSUME NEW p \in Publishers, handing[p] # <<>>
               PROVE  handing[p][1].n # Frames[k].n
    OBVIOUS
  <2>1. handing[p][1] \in Coming /\ handing[p][1].by = p
    BY HeldTypes
  <2>2. handing[p][1].n = Frames[k].n => handing[p][1].by = Frames[k].by
    BY <1>1, <2>1 DEF StreamInv, NumbersNameEvents
  <2>3. Frames[k].by = p => Frames[k].n < handing[p][1].n
    BY DEF StreamInv, HeldLast
  <2> QED
    BY <1>1, <1>2, <2>1, <2>2, <2>3
<1> QED
  BY <1>1, <1>2, <1>3, <1>4, <1>5, <1>6 DEF Over, Numbers

\* One event leaves those on their way, to be sent or to be dropped.
LEMMA MoveIsAccounted ==
  ASSUME TypeInv, StreamInv, stream.on, stream'.on, stream'.first = stream.first, count' = count,
         NEW d \in Coming, d.n \notin Numbers(Over), Over' = Over \cup {d},
         Coming' \subseteq Coming, Coming \subseteq Coming' \cup {d}, Waiting' = Waiting - 1
  PROVE  Accounted' /\ NumbersNameEvents'
<1>1. NumbersNameEvents'
  BY DEF StreamInv, NumbersNameEvents
<1>2. d.n \in Nat /\ count \in Nat
  BY NumbersAreTold
<1>3. Numbers(Over)' = Numbers(Over) \cup {d.n}
  BY DEF Numbers
<1>4. Numbers(Over)' \cup Numbers(Coming)' = Numbers(Over) \cup Numbers(Coming)
  BY <1>3 DEF Numbers
<1>5. Cardinality(Numbers(Over) \cup {d.n}) = Cardinality(Numbers(Over)) + 1
      /\ Cardinality(Numbers(Over)) \in Nat
  BY <1>2, OneMore
<1>6. Waiting \in Nat
  BY WaitingIsNat
<1>7. /\ stream.first \in 1..count /\ stream.first..count = Numbers(Over) \cup Numbers(Coming)
      /\ Cardinality(Numbers(Over)) + Waiting = count + 1 - stream.first
  BY DEF StreamInv, Accounted
<1>8. Cardinality(Numbers(Over)') + Waiting' = count' + 1 - stream'.first
  <2>1. Cardinality(Numbers(Over)') = Cardinality(Numbers(Over)) + 1
    BY <1>3, <1>5
  <2>2. stream.first \in Nat
    BY <1>2, <1>7
  <2> QED
    BY <1>2, <1>5, <1>6, <1>7, <2>1, <2>2
<1>9. stream'.first..count' = Numbers(Over)' \cup Numbers(Coming)'
  BY <1>4, <1>7
<1>10. stream'.first \in 1..count'
  BY <1>7
<1> QED
  BY <1>1, <1>8, <1>9, <1>10 DEF Accounted

\* The first of what waits is sent, from the history or from the outbox.
LEMMA SentFrames ==
  ASSUME TypeInv, stream.on, Frames # <<>>, stream' = Sent
  PROVE  /\ 1 \in 1..Len(Frames) /\ Len(Frames') = Len(Frames) - 1
         /\ \A k \in 1..Len(Frames') : Frames'[k] = Frames[k + 1]
         /\ stream'.sent = stream.sent \cup {Frames[1]} /\ stream'.dropped = stream.dropped
         /\ stream'.first = stream.first /\ stream'.on
<1>1. /\ stream \in Streams /\ stream.history \in Seq(Told) /\ stream.queue \in Seq(Told)
      /\ Frames \in Seq(Told) /\ Len(Frames) \in Nat /\ Len(Frames) # 0
      /\ Len(Frames) = Len(stream.history) + Len(stream.queue)
      /\ Len(stream.history) \in Nat /\ Len(stream.queue) \in Nat
  BY FramesAreTold, LenProperties, EmptySeq DEF TypeInv, StreamTyped, Streams
<1>2. \A k \in 1..Len(Frames) : Frames[k] =
        IF k <= Len(stream.history) THEN stream.history[k]
                                    ELSE stream.queue[k - Len(stream.history)]
  BY FramesAreTold
<1>3. Head(Frames) = Frames[1] /\ 1 \in 1..Len(Frames)
  <2>1. Frames \in Seq(Told) /\ Len(Frames) \in Nat /\ Len(Frames) # 0
    BY <1>1
  <2> QED
    BY <2>1
<1>4. ASSUME NEW h \in Seq(Told), NEW q \in Seq(Told), Frames' = h \o q,
             Len(h) + Len(q) = Len(Frames) - 1,
             \A k \in 1..Len(Frames) - 1 :
               (IF k <= Len(h) THEN h[k] ELSE q[k - Len(h)]) = Frames[k + 1]
      PROVE  Len(Frames') = Len(Frames) - 1
             /\ \A k \in 1..Len(Frames') : Frames'[k] = Frames[k + 1]
  <2>1. Len(Frames') = Len(h) + Len(q)
    BY <1>4, ConcatProperties
  <2>2. Len(Frames') = Len(Frames) - 1
    BY <1>4, <2>1
  <2>3. \A k \in 1..Len(h) + Len(q) : Frames'[k] = IF k <= Len(h) THEN h[k] ELSE q[k - Len(h)]
    BY <1>4, ConcatProperties
  <2> QED
    BY <1>4, <2>1, <2>2, <2>3
<1>5. CASE stream.history # <<>>
  <2> DEFINE h == Tail(stream.history)
  <2>1. stream' = [stream EXCEPT !.history = Tail(@), !.sent = @ \cup {Frames[1]}]
    BY <1>3, <1>5 DEF Sent
  <2>2. h \in Seq(Told) /\ Len(h) = Len(stream.history) - 1
        /\ \A k \in 1..Len(h) : h[k] = stream.history[k + 1]
    BY <1>1, <1>5, HeadTailProperties
  <2>3. stream'.history = h /\ stream'.queue = stream.queue
        /\ stream'.sent = stream.sent \cup {Frames[1]} /\ stream'.dropped = stream.dropped
        /\ stream'.first = stream.first /\ stream'.on = stream.on
    BY <1>1, <2>1 DEF Streams
  <2>4. Frames' = h \o stream.queue
    BY <2>3 DEF Frames
  <2> HIDE DEF h
  <2>5. Len(h) + Len(stream.queue) = Len(Frames) - 1
    BY <1>1, <2>2
  <2>6. ASSUME NEW k \in 1..Len(Frames) - 1
        PROVE  (IF k <= Len(h) THEN h[k] ELSE stream.queue[k - Len(h)]) = Frames[k + 1]
    <3>0. Len(Frames) \in Nat /\ Len(stream.history) \in Nat
      BY <1>1
    <3>1. k \in Nat /\ k + 1 \in 1..Len(Frames) /\ Len(h) \in Nat
      BY <2>2, <3>0, LenProperties
    <3>2. CASE k <= Len(h)
      <4>1. k + 1 <= Len(stream.history) /\ k \in 1..Len(h)
        BY <2>2, <3>0, <3>1, <3>2
      <4>2. h[k] = stream.history[k + 1]
        BY <2>2, <4>1
      <4> QED
        BY <1>2, <3>1, <3>2, <4>1, <4>2
    <3>3. CASE ~(k <= Len(h))
      <4>1. ~(k + 1 <= Len(stream.history))
            /\ k - Len(h) = (k + 1) - Len(stream.history)
        BY <1>1, <2>2, <3>1, <3>3
      <4> QED
        BY <1>2, <3>1, <3>3, <4>1
    <3> QED
      BY <3>2, <3>3
  <2> QED
    BY <1>1, <1>3, <1>4, <2>2, <2>3, <2>4, <2>5, <2>6
<1>6. CASE stream.history = <<>>
  <2> DEFINE q == Tail(stream.queue)
  <2>1. stream' = [stream EXCEPT !.queue = Tail(@), !.sent = @ \cup {Frames[1]}]
    BY <1>3, <1>6 DEF Sent
  <2>2. Len(stream.history) = 0 /\ stream.queue # <<>>
    BY <1>1, <1>6
  <2>3. q \in Seq(Told) /\ Len(q) = Len(stream.queue) - 1
        /\ \A k \in 1..Len(q) : q[k] = stream.queue[k + 1]
    BY <1>1, <2>2, HeadTailProperties
  <2>4. stream'.history = stream.history /\ stream'.queue = q
        /\ stream'.sent = stream.sent \cup {Frames[1]} /\ stream'.dropped = stream.dropped
        /\ stream'.first = stream.first /\ stream'.on = stream.on
    BY <1>1, <2>1 DEF Streams
  <2>5. Frames' = stream.history \o q
    BY <2>4 DEF Frames
  <2> HIDE DEF q
  <2>6. Len(stream.history) + Len(q) = Len(Frames) - 1
    BY <1>1, <2>2, <2>3
  <2>7. ASSUME NEW k \in 1..Len(Frames) - 1
        PROVE  (IF k <= Len(stream.history) THEN stream.history[k]
                  ELSE q[k - Len(stream.history)]) = Frames[k + 1]
    BY <1>1, <1>2, <2>2, <2>3
  <2> QED
    BY <1>1, <1>3, <1>4, <2>3, <2>4, <2>5, <2>6, <2>7
<1> QED
  BY <1>5, <1>6

LEMMA ReceiveIsSound ==
  ASSUME TypeInv, StreamInv, Receive
  PROVE  StreamInv'
<1>1. /\ stream.on /\ Frames # <<>> /\ stream' = Sent /\ handing' = handing /\ count' = count
  BY DEF Receive, busVars
<1>2. /\ 1 \in 1..Len(Frames) /\ Len(Frames') = Len(Frames) - 1
      /\ \A k \in 1..Len(Frames') : Frames'[k] = Frames[k + 1]
      /\ stream'.sent = stream.sent \cup {Frames[1]} /\ stream'.dropped = stream.dropped
      /\ stream'.first = stream.first /\ stream'.on
  BY <1>1, SentFrames
<1>3. Len(Frames) \in Nat
  BY FramesAreTold
<1> DEFINE d == Frames[1]
<1>4. /\ d \in Coming /\ d.n \in Nat /\ d.n \notin Numbers(Over)
      /\ \A k \in 1..Len(Frames) : k # 1 => Frames[k].n # d.n
  BY <1>2, FramesDiffer
<1>5. \A k \in 1..Len(Frames') : k + 1 \in 1..Len(Frames) /\ k + 1 # 1
  BY <1>2, <1>3
<1>6. Over' = Over \cup {d}
  BY <1>2 DEF Over
<1>7. Coming' \subseteq Coming
  BY <1>1, <1>2, <1>5 DEF Coming
<1>8. Coming \subseteq Coming' \cup {d}
  <2> SUFFICES ASSUME NEW k \in 1..Len(Frames), k # 1 PROVE Frames[k] \in Coming'
    BY <1>1 DEF Coming
  <2>1. k - 1 \in 1..Len(Frames') /\ Frames'[k - 1] = Frames[k]
    BY <1>2, <1>3
  <2> QED
    BY <2>1 DEF Coming
<1>9. Waiting' = Waiting - 1
  <2>1. Held("worker")' = Held("worker") /\ Held("caller")' = Held("caller")
        /\ Held("worker") \in Nat /\ Held("caller") \in Nat
    BY <1>1 DEF Held
  <2> QED
    BY <1>2, <1>3, <2>1 DEF Waiting
<1>10. Accounted' /\ NumbersNameEvents'
  <2> HIDE DEF d
  <2> QED
    BY <1>1, <1>2, <1>4, <1>6, <1>7, <1>8, <1>9, MoveIsAccounted
<1>11. FramesInOrder'
  <2> SUFFICES ASSUME NEW j \in 1..Len(Frames'), NEW k \in 1..Len(Frames'), j < k,
                      Frames'[j].by = Frames'[k].by
               PROVE  Frames'[j].n < Frames'[k].n
    BY DEF FramesInOrder
  <2>1. j + 1 \in 1..Len(Frames) /\ k + 1 \in 1..Len(Frames) /\ j + 1 < k + 1
    BY <1>3, <1>5
  <2> QED
    BY <1>2, <2>1 DEF StreamInv, FramesInOrder
<1>12. SentBeforeFrames'
  <2> SUFFICES ASSUME NEW k \in 1..Len(Frames'), NEW e \in stream'.sent, e.by = Frames'[k].by
               PROVE  e.n < Frames'[k].n
    BY DEF SentBeforeFrames
  <2>1. k + 1 \in 1..Len(Frames) /\ 1 < k + 1 /\ Frames'[k] = Frames[k + 1]
    BY <1>2, <1>3, <1>5
  <2>2. CASE e \in stream.sent
    BY <2>1, <2>2 DEF StreamInv, SentBeforeFrames
  <2>3. CASE e = Frames[1]
    BY <1>2, <2>1, <2>3 DEF StreamInv, FramesInOrder
  <2> QED
    BY <1>2, <2>2, <2>3
<1>13. HeldLast'
  BY <1>1, <1>2, <1>5 DEF StreamInv, HeldLast
<1>14. DroppedIsGone'
  BY <1>2, <1>7 DEF StreamInv, DroppedIsGone
<1> QED
  BY <1>10, <1>11, <1>12, <1>13, <1>14 DEF StreamInv

Fits == Len(stream.queue) < QueueMax

\* The place of the oldest event of the outbox.
Oldest == Len(stream.history) + 1

\* Without the event at place i the ones behind it move up.
Without(i, k) == IF k < i THEN k ELSE k + 1

\* The callback: the event goes behind all others, in a full outbox the oldest goes.
LEMMA HandedFrames ==
  ASSUME TypeInv, NEW p \in Publishers, Hand(p)
  PROVE  /\ handing[p] # <<>> /\ handing' = [handing EXCEPT ![p] = <<>>]
         /\ count' = count /\ stream.on /\ stream'.on
         /\ stream'.first = stream.first /\ stream'.sent = stream.sent
         /\ Frames'[Len(Frames')] = handing[p][1]
         /\ Fits => /\ Len(Frames') = Len(Frames) + 1
                    /\ \A k \in 1..Len(Frames) : Frames'[k] = Frames[k]
                    /\ stream'.dropped = stream.dropped
         /\ ~Fits => /\ Len(Frames') = Len(Frames) /\ Oldest \in 1..Len(Frames)
                     /\ \A k \in 1..Len(Frames) - 1 : Frames'[k] = Frames[Without(Oldest, k)]
                     /\ stream'.dropped = stream.dropped \cup {Frames[Oldest]}
<1> DEFINE e == handing[p][1]
           h == stream.history
           q == stream.queue
<1>1. /\ handing[p] # <<>> /\ handing' = [handing EXCEPT ![p] = <<>>] /\ count' = count
      /\ stream.on /\ e \in Told /\ Head(handing[p]) = e
  BY HeldTypes DEF Hand
<1>2. /\ stream \in Streams /\ h \in Seq(Told) /\ q \in Seq(Told)
      /\ Len(h) \in Nat /\ Len(q) \in Nat /\ Len(q) <= QueueMax /\ QueueMax \in Nat \ {0}
  BY LenProperties, ViewAssumption DEF TypeInv, StreamTyped, Streams
<1>3. /\ Len(Frames) = Len(h) + Len(q)
      /\ \A k \in 1..Len(Frames) : Frames[k] = IF k <= Len(h) THEN h[k] ELSE q[k - Len(h)]
  BY FramesAreTold
<1>4. stream' = IF Len(q) < QueueMax
                  THEN [stream EXCEPT !.queue = Append(q, e)]
                  ELSE [stream EXCEPT !.queue = Append(Tail(q), e), !.dropped = @ \cup {Head(q)}]
  BY <1>1 DEF Hand
<1> HIDE DEF e, h, q
<1>5. Len(h) \in Nat /\ Len(q) \in Nat /\ Len(Frames) = Len(h) + Len(q)
  BY <1>2, <1>3
<1>6. ASSUME NEW r \in Seq(Told), stream'.history = h, stream'.queue = r
      PROVE  /\ Len(Frames') = Len(h) + Len(r) /\ Len(r) \in Nat
             /\ \A k \in 1..Len(Frames') : Frames'[k] = IF k <= Len(h) THEN h[k] ELSE r[k - Len(h)]
  <2>1. Frames' = h \o r
    BY <1>6 DEF Frames
  <2>2. Len(Frames') = Len(h) + Len(r) /\ Len(r) \in Nat
    BY <1>2, <2>1, ConcatProperties, LenProperties
  <2>3. \A k \in 1..Len(h) + Len(r) : Frames'[k] = IF k <= Len(h) THEN h[k] ELSE r[k - Len(h)]
    BY <1>2, <2>1, ConcatProperties
  <2> QED
    BY <2>2, <2>3
<1>7. CASE Fits
  <2> DEFINE r == Append(q, e)
  <2>1. /\ stream'.queue = r /\ stream'.history = h /\ stream'.on = stream.on
        /\ stream'.first = stream.first /\ stream'.sent = stream.sent
        /\ stream'.dropped = stream.dropped
    BY <1>2, <1>4, <1>7 DEF Fits, Streams, h, q
  <2>2. /\ r \in Seq(Told) /\ Len(r) = Len(q) + 1
        /\ \A k \in 1..Len(q) : r[k] = q[k]
        /\ r[Len(q) + 1] = e
    BY <1>1, <1>2, AppendProperties
  <2> HIDE DEF r
  <2>3. /\ Len(Frames') = Len(h) + Len(r)
        /\ \A k \in 1..Len(Frames') : Frames'[k] = IF k <= Len(h) THEN h[k] ELSE r[k - Len(h)]
    BY <1>6, <2>1, <2>2
  <2>4. Len(Frames') = Len(Frames) + 1
    <3>1. Len(Frames') = Len(h) + Len(r) /\ Len(r) = Len(q) + 1
      BY <2>2, <2>3
    <3> QED
      BY <1>5, <3>1
  <2>5. Frames'[Len(Frames')] = e
    <3>1. /\ Len(Frames') \in 1..Len(Frames') /\ ~(Len(Frames') <= Len(h))
          /\ Len(Frames') - Len(h) = Len(q) + 1
      BY <1>5, <2>4
    <3> QED
      BY <2>2, <2>3, <3>1
  <2>6. ASSUME NEW k \in 1..Len(Frames) PROVE Frames'[k] = Frames[k]
    <3>1. k \in 1..Len(Frames') /\ k \in Nat
      BY <1>5, <2>4
    <3>2. CASE k <= Len(h)
      BY <1>3, <2>3, <3>1, <3>2
    <3>3. CASE ~(k <= Len(h))
      <4>1. k - Len(h) \in 1..Len(q)
        BY <1>5, <3>3
      <4> QED
        BY <1>3, <2>2, <2>3, <3>1, <3>3, <4>1
    <3> QED
      BY <3>2, <3>3
  <2> QED
    BY <1>1, <1>7, <2>1, <2>4, <2>5, <2>6 DEF e
<1>8. CASE ~Fits
  <2> DEFINE r == Append(Tail(q), e)
  <2>1. Len(q) = QueueMax /\ q # <<>> /\ Len(q) # 0
    BY <1>2, <1>8 DEF Fits, h, q
  <2>2. /\ Tail(q) \in Seq(Told) /\ Len(Tail(q)) = Len(q) - 1 /\ Head(q) = q[1]
        /\ \A k \in 1..Len(q) - 1 : Tail(q)[k] = q[k + 1]
    BY <1>2, <2>1, HeadTailProperties
  <2>3. /\ stream'.queue = r /\ stream'.history = h /\ stream'.on = stream.on
        /\ stream'.first = stream.first /\ stream'.sent = stream.sent
        /\ stream'.dropped = stream.dropped \cup {q[1]}
    BY <1>2, <1>4, <1>8, <2>2 DEF Fits, Streams, h, q
  <2>4. /\ r \in Seq(Told) /\ Len(r) = Len(Tail(q)) + 1
        /\ \A k \in 1..Len(Tail(q)) : r[k] = Tail(q)[k]
        /\ r[Len(Tail(q)) + 1] = e
    BY <1>1, <2>2, AppendProperties
  <2>5. /\ Len(r) = Len(q) /\ r[Len(q)] = e
        /\ \A k \in 1..Len(q) - 1 : r[k] = q[k + 1]
    <3>1. Len(q) - 1 \in Nat /\ (Len(q) - 1) + 1 = Len(q)
      BY <1>2, <2>1
    <3> QED
      BY <2>2, <2>4, <3>1
  <2> HIDE DEF r
  <2>6. /\ Len(Frames') = Len(h) + Len(r)
        /\ \A k \in 1..Len(Frames') : Frames'[k] = IF k <= Len(h) THEN h[k] ELSE r[k - Len(h)]
    BY <1>6, <2>3, <2>4
  <2>7. Len(Frames') = Len(Frames)
    BY <1>3, <2>5, <2>6
  <2>8. Frames'[Len(Frames')] = e
    <3>1. /\ Len(Frames') \in 1..Len(Frames') /\ ~(Len(Frames') <= Len(h))
          /\ Len(Frames') - Len(h) = Len(q)
      BY <1>5, <2>1, <2>7
    <3> QED
      BY <2>5, <2>6, <3>1
  <2>9. Oldest \in 1..Len(Frames) /\ Frames[Oldest] = q[1]
    <3>1. Oldest \in 1..Len(Frames) /\ ~(Oldest <= Len(h)) /\ Oldest - Len(h) = 1
      BY <1>5, <2>1 DEF Oldest, h
    <3> QED
      BY <1>3, <3>1
  <2>10. ASSUME NEW k \in 1..Len(Frames) - 1 PROVE Frames'[k] = Frames[Without(Oldest, k)]
    <3>1. k \in 1..Len(Frames') /\ k \in 1..Len(Frames) /\ k + 1 \in 1..Len(Frames) /\ k \in Nat
      BY <1>5, <2>7
    <3>2. CASE k <= Len(h)
      <4>1. Without(Oldest, k) = k
        BY <1>5, <3>1, <3>2 DEF Without, Oldest, h
      <4> QED
        BY <1>3, <2>6, <3>1, <3>2, <4>1
    <3>3. CASE ~(k <= Len(h))
      <4>1. /\ Without(Oldest, k) = k + 1 /\ k - Len(h) \in 1..Len(q) - 1
            /\ ~(k + 1 <= Len(h)) /\ (k + 1) - Len(h) = (k - Len(h)) + 1
        BY <1>5, <3>1, <3>3 DEF Without, Oldest, h
      <4>2. Frames'[k] = r[k - Len(h)]
        BY <2>6, <3>1, <3>3
      <4>3. Frames[k + 1] = q[(k + 1) - Len(h)]
        BY <1>3, <3>1, <4>1
      <4> QED
        BY <2>5, <4>1, <4>2, <4>3
    <3> QED
      BY <3>2, <3>3
  <2> QED
    BY <1>1, <1>8, <2>3, <2>7, <2>8, <2>9, <2>10 DEF e
<1> QED
  BY <1>7, <1>8

LEMMA HandIsSound ==
  ASSUME TypeInv, StreamInv, NEW p \in Publishers, Hand(p)
  PROVE  StreamInv'
<1> DEFINE e == handing[p][1]
<1>1. /\ handing[p] # <<>> /\ handing' = [handing EXCEPT ![p] = <<>>]
      /\ count' = count /\ stream.on /\ stream'.on
      /\ stream'.first = stream.first /\ stream'.sent = stream.sent
      /\ Frames'[Len(Frames')] = e
  BY HandedFrames
<1>2. Fits => /\ Len(Frames') = Len(Frames) + 1
              /\ \A k \in 1..Len(Frames) : Frames'[k] = Frames[k]
              /\ stream'.dropped = stream.dropped
  BY HandedFrames
<1>3. ~Fits => /\ Len(Frames') = Len(Frames) /\ Oldest \in 1..Len(Frames)
               /\ \A k \in 1..Len(Frames) - 1 : Frames'[k] = Frames[Without(Oldest, k)]
               /\ stream'.dropped = stream.dropped \cup {Frames[Oldest]}
  BY HandedFrames
<1>4. e \in Coming /\ e.by = p
  BY <1>1, HeldTypes
<1>5. Len(Frames) \in Nat /\ Oldest \in Nat /\ handing \in [Publishers -> Seq(Told)]
  BY FramesAreTold, LenProperties DEF TypeInv, BusTyped, StreamTyped, Streams, Oldest
<1>6. /\ handing'[p] = <<>> /\ \A q \in Publishers \ {p} : handing'[q] = handing[q]
      /\ {q \in Publishers : handing[q] # <<>>} = {q \in Publishers : handing'[q] # <<>>} \cup {p}
  BY <1>1, <1>5
<1> HIDE DEF e
<1> DEFINE Place(k) == IF Fits THEN k ELSE Without(Oldest, k)
           last == Len(Frames')
\* All but the last frame were frames before, in the same order.
<1>7. last \in Nat \ {0}
  BY <1>2, <1>3, <1>5
<1>8. ASSUME NEW k \in 1..last, k # last
      PROVE  /\ k \in Nat /\ Place(k) \in 1..Len(Frames) /\ Frames'[k] = Frames[Place(k)]
             /\ ~Fits => Place(k) # Oldest
  <2>1. CASE Fits
    BY <1>2, <1>5, <1>8, <2>1
  <2>2. CASE ~Fits
    <3>1. k \in 1..Len(Frames) - 1
      BY <1>3, <1>5, <1>8, <2>2
    <3>2. Without(Oldest, k) \in 1..Len(Frames) /\ Without(Oldest, k) # Oldest
      BY <1>5, <3>1 DEF Without
    <3> QED
      BY <1>3, <2>2, <3>1, <3>2
  <2> QED
    BY <2>1, <2>2
<1>9. ASSUME NEW j \in 1..last, NEW k \in 1..last, j < k PROVE Place(j) < Place(k)
  BY <1>5, <1>7, <1>9 DEF Without
<1> HIDE DEF Place
<1>10. last \in 1..last
  BY <1>7
<1>11. FramesInOrder'
  <2> SUFFICES ASSUME NEW j \in 1..last, NEW k \in 1..last, j < k,
                      Frames'[j].by = Frames'[k].by
               PROVE  Frames'[j].n < Frames'[k].n
    BY DEF FramesInOrder
  <2>1. j # last
    BY <1>7
  <2>2. Place(j) \in 1..Len(Frames) /\ Frames'[j] = Frames[Place(j)]
    BY <1>8, <2>1
  <2>3. CASE k = last
    BY <1>1, <1>4, <2>2, <2>3 DEF StreamInv, HeldLast, e
  <2>4. CASE k # last
    <3>1. Place(k) \in 1..Len(Frames) /\ Frames'[k] = Frames[Place(k)] /\ Place(j) < Place(k)
      BY <1>8, <1>9, <2>4
    <3> QED
      BY <2>2, <3>1 DEF StreamInv, FramesInOrder
  <2> QED
    BY <2>3, <2>4
<1>12. SentBeforeFrames'
  <2> SUFFICES ASSUME NEW f \in stream'.sent, NEW k \in 1..last, f.by = Frames'[k].by
               PROVE  f.n < Frames'[k].n
    BY DEF SentBeforeFrames
  <2>1. CASE k = last
    BY <1>1, <1>4, <2>1 DEF StreamInv, HeldLast, e
  <2>2. CASE k # last
    <3>1. Place(k) \in 1..Len(Frames) /\ Frames'[k] = Frames[Place(k)]
      BY <1>8, <2>2
    <3> QED
      BY <1>1, <3>1 DEF StreamInv, SentBeforeFrames
  <2> QED
    BY <2>1, <2>2
<1>13. HeldLast'
  <2> SUFFICES ASSUME NEW q \in Publishers, handing'[q] # <<>>
               PROVE  /\ \A f \in stream'.sent : f.by = q => f.n < handing'[q][1].n
                      /\ \A k \in 1..last : Frames'[k].by = q => Frames'[k].n < handing'[q][1].n
    BY DEF HeldLast
  <2>1. q # p /\ handing'[q] = handing[q] /\ handing[q] # <<>>
    BY <1>6
  <2>2. ASSUME NEW k \in 1..last, Frames'[k].by = q PROVE Frames'[k].n < handing'[q][1].n
    <3>1. k # last
      BY <1>1, <1>4, <2>1, <2>2
    <3>2. Place(k) \in 1..Len(Frames) /\ Frames'[k] = Frames[Place(k)]
      BY <1>8, <3>1
    <3> QED
      BY <2>1, <2>2, <3>2 DEF StreamInv, HeldLast
  <2> QED
    BY <1>1, <2>1, <2>2 DEF StreamInv, HeldLast
<1>14. Coming' \subseteq Coming
  <2>1. ASSUME NEW k \in 1..last PROVE Frames'[k] \in Coming
    <3>1. CASE k = last
      BY <1>1, <1>4, <3>1
    <3>2. CASE k # last
      <4>1. Place(k) \in 1..Len(Frames) /\ Frames'[k] = Frames[Place(k)]
        BY <1>8, <3>2
      <4> QED
        BY <4>1 DEF Coming
    <3> QED
      BY <3>1, <3>2
  <2>2. ASSUME NEW q \in Publishers, handing'[q] # <<>> PROVE handing'[q][1] \in Coming
    BY <1>6, <2>2 DEF Coming
  <2> QED
    BY <2>1, <2>2 DEF Coming
<1>15. e \in Coming'
  BY <1>1, <1>10 DEF Coming
<1>16. ASSUME NEW q \in Publishers, handing[q] # <<>> PROVE handing[q][1] \in Coming'
  <2>1. CASE q = p
    BY <1>15, <2>1 DEF e
  <2>2. CASE q # p
    BY <1>6, <1>16, <2>2 DEF Coming
  <2> QED
    BY <2>1, <2>2
<1>17. Held(p) = 1 /\ Held(p)' = 0 /\ \A q \in Publishers \ {p} : Held(q)' = Held(q)
  BY <1>1, <1>6 DEF Held
<1>18. Held("worker")' + Held("caller")' = Held("worker") + Held("caller") - 1
       /\ Held("worker") \in Nat /\ Held("caller") \in Nat
       /\ Held("worker")' \in Nat /\ Held("caller")' \in Nat
  <2>1. p = "worker" \/ p = "caller"
    BY DEF Publishers
  <2>2. Held("worker") \in Nat /\ Held("caller") \in Nat
        /\ Held("worker")' \in Nat /\ Held("caller")' \in Nat
    BY DEF Held
  <2>3. CASE p = "worker"
    <3>1. Held("caller")' = Held("caller")
      BY <1>17, <2>3 DEF Publishers
    <3> QED
      BY <1>17, <2>2, <2>3, <3>1
  <2>4. CASE p = "caller"
    <3>1. Held("worker")' = Held("worker")
      BY <1>17, <2>4 DEF Publishers
    <3> QED
      BY <1>17, <2>2, <2>4, <3>1
  <2> QED
    BY <2>1, <2>3, <2>4
<1>19. CASE Fits
  <2>1. Over' = Over
    BY <1>1, <1>2, <1>19 DEF Over
  <2>2. Coming \subseteq Coming'
    <3>1. ASSUME NEW k \in 1..Len(Frames) PROVE Frames[k] \in Coming'
      <4>1. k \in 1..last /\ Frames'[k] = Frames[k]
        BY <1>2, <1>5, <1>19
      <4> QED
        BY <4>1 DEF Coming
    <3> QED
      BY <1>16, <3>1 DEF Coming
  <2>3. Coming' = Coming
    BY <1>14, <2>2
  <2>4. Waiting' = Waiting
    <3>1. Len(Frames') = Len(Frames) + 1 /\ Len(Frames) \in Nat
      BY <1>2, <1>5, <1>19
    <3>2. Waiting' = Len(Frames') + Held("worker")' + Held("caller")'
      BY DEF Waiting
    <3> QED
      BY <1>18, <3>1, <3>2 DEF Waiting
  <2>5. NumbersNameEvents' /\ DroppedIsGone' /\ Accounted'
    BY <1>1, <1>2, <1>19, <2>1, <2>3, <2>4 DEF StreamInv, NumbersNameEvents, DroppedIsGone,
       Accounted
  <2> QED
    BY <1>11, <1>12, <1>13, <2>5 DEF StreamInv
<1>20. CASE ~Fits
  <2> DEFINE d == Frames[Oldest]
  <2>1. Oldest \in 1..Len(Frames)
    BY <1>3, <1>20
  <2>2. /\ d \in Coming /\ d.n \notin Numbers(Over)
        /\ \A k \in 1..Len(Frames) : k # Oldest => Frames[k].n # d.n
        /\ \A q \in Publishers : handing[q] # <<>> => handing[q][1].n # d.n
    BY <2>1, FramesDiffer
  <2>3. Over' = Over \cup {d} /\ stream'.dropped = stream.dropped \cup {d}
    BY <1>1, <1>3, <1>20 DEF Over
  <2>4. Coming \subseteq Coming' \cup {d}
    <3>1. ASSUME NEW k \in 1..Len(Frames), k # Oldest PROVE Frames[k] \in Coming'
      <4> DEFINE j == IF k < Oldest THEN k ELSE k - 1
      <4>1. j \in 1..Len(Frames) - 1 /\ Without(Oldest, j) = k
        BY <1>5, <2>1, <3>1 DEF Without
      <4>2. Frames'[j] = Frames[k] /\ j \in 1..last
        BY <1>3, <1>5, <1>20, <4>1
      <4> QED
        BY <4>2 DEF Coming
    <3> QED
      BY <1>16, <3>1 DEF Coming
  <2>5. Waiting' = Waiting - 1
    <3>1. Len(Frames') = Len(Frames) /\ Len(Frames) \in Nat
      BY <1>3, <1>5, <1>20
    <3>2. Waiting' = Len(Frames') + Held("worker")' + Held("caller")'
      BY DEF Waiting
    <3> QED
      BY <1>18, <3>1, <3>2 DEF Waiting
  <2> HIDE DEF d
  <2>6. Accounted' /\ NumbersNameEvents'
    BY <1>1, <1>14, <2>2, <2>3, <2>4, <2>5, MoveIsAccounted
  <2>7. \A f \in Coming' : d.n # f.n
    <3>1. ASSUME NEW k \in 1..last PROVE d.n # Frames'[k].n
      <4>1. CASE k = last
        BY <1>1, <2>2, <4>1 DEF e
      <4>2. CASE k # last
        BY <1>8, <1>20, <2>2, <4>2
      <4> QED
        BY <4>1, <4>2
    <3>2. ASSUME NEW q \in Publishers, handing'[q] # <<>> PROVE d.n # handing'[q][1].n
      BY <1>6, <2>2, <3>2
    <3> QED
      BY <3>1, <3>2 DEF Coming
  <2>8. DroppedIsGone'
    BY <1>14, <2>3, <2>7 DEF StreamInv, DroppedIsGone
  <2> QED
    BY <1>11, <1>12, <1>13, <2>6, <2>8 DEF StreamInv
<1> QED
  BY <1>19, <1>20

\* A stream starts with the buffer: what it holds is what was published last.
LEMMA ConnectIsSound ==
  ASSUME TypeInv, Connect
  PROVE  StreamInv'
<1>1. /\ stream' = [on |-> TRUE, history |-> buffer, queue |-> <<>>, first |-> Head(buffer).n,
                    sent |-> {}, dropped |-> {}]
      /\ count' = count /\ handing' = handing /\ ~stream.on
  BY DEF Connect, Closed, busVars
<1>2. \A p \in Publishers : handing'[p] = <<>>
  BY <1>1 DEF TypeInv, StreamTyped
<1>3. /\ count \in Nat \ {0} /\ buffer \in Seq(Told) /\ Len(buffer) \in Nat \ {0}
      /\ \A k \in 1..Len(buffer) : buffer[k].n = count - Len(buffer) + k
  BY LenProperties, ViewAssumption DEF TypeInv, BusTyped
<1>4. Frames' = buffer
  <2>1. Frames' = buffer \o <<>>
    BY <1>1 DEF Frames
  <2> QED
    BY <1>3, <2>1, ConcatEmptySeq
<1>5. /\ Head(buffer).n = count - Len(buffer) + 1 /\ Head(buffer).n \in 1..count
  <2>1. 1 \in 1..Len(buffer) /\ Head(buffer) = buffer[1]
    BY <1>3
  <2>2. buffer[1] \in Told
    BY <1>3, <2>1, ElementOfSeq
  <2>3. buffer[1].n \in 1..count
    BY <2>2 DEF Told, Events
  <2> QED
    BY <1>3, <2>1, <2>3
<1>6. Over' = {} /\ stream'.sent = {} /\ stream'.dropped = {}
  BY <1>1 DEF Over
<1>7. Coming' = {buffer[k] : k \in 1..Len(buffer)}
  BY <1>2, <1>4 DEF Coming
<1>8. NumbersNameEvents' /\ FramesInOrder'
  BY <1>3, <1>4, <1>6, <1>7 DEF NumbersNameEvents, FramesInOrder
<1>9. SentBeforeFrames' /\ HeldLast' /\ DroppedIsGone'
  BY <1>2, <1>6 DEF SentBeforeFrames, HeldLast, DroppedIsGone
<1>10. Accounted'
  <2>1. Numbers(Over)' = {} /\ Cardinality(Numbers(Over)') = 0
    BY <1>6, FS_EmptySet DEF Numbers
  <2>2. Waiting' = Len(buffer)
    <3>1. Waiting' = Len(Frames') + Held("worker")' + Held("caller")'
      BY DEF Waiting
    <3>2. Held("worker")' = 0 /\ Held("caller")' = 0
      BY <1>2 DEF Held, Publishers
    <3>3. Len(buffer) + 0 + 0 = Len(buffer)
      BY <1>3
    <3> QED
      BY <1>4, <3>1, <3>2, <3>3
  <2>3. Numbers(Coming)' = {buffer[k].n : k \in 1..Len(buffer)}
    BY <1>7 DEF Numbers
  <2>4. (count - Len(buffer) + 1)..count \subseteq Numbers(Coming)'
    <3> SUFFICES ASSUME NEW m \in (count - Len(buffer) + 1)..count
                 PROVE  m \in Numbers(Coming)'
      OBVIOUS
    <3>1. m - (count - Len(buffer)) \in 1..Len(buffer)
      BY <1>3
    <3>2. buffer[m - (count - Len(buffer))].n = m
      BY <1>3, <3>1
    <3> QED
      BY <2>3, <3>1, <3>2
  <2>5. Numbers(Coming)' \subseteq (count - Len(buffer) + 1)..count
    <3> SUFFICES ASSUME NEW k \in 1..Len(buffer)
                 PROVE  buffer[k].n \in (count - Len(buffer) + 1)..count
      BY <2>3
    <3> QED
      BY <1>3
  <2>6. stream'.first = count - Len(buffer) + 1 /\ stream'.first \in 1..count
    BY <1>1, <1>5
  <2>7. 0 + Len(buffer) = count + 1 - (count - Len(buffer) + 1)
    BY <1>3
  <2>8. stream'.first..count' = Numbers(Over)' \cup Numbers(Coming)'
    BY <1>1, <2>1, <2>4, <2>5, <2>6
  <2>9. Cardinality(Numbers(Over)') + Waiting' = count' + 1 - stream'.first
    BY <1>1, <2>1, <2>2, <2>6, <2>7
  <2> QED
    BY <1>1, <2>6, <2>8, <2>9 DEF Accounted
<1> QED
  BY <1>8, <1>9, <1>10 DEF StreamInv

LEMMA StreamStands ==
  ASSUME TypeInv, StreamInv, UNCHANGED <<stream, handing, count>>
  PROVE  StreamInv'
<1>1. /\ Frames' = Frames /\ Over' = Over /\ Coming' = Coming /\ Waiting' = Waiting
  BY DEF Frames, Over, Coming, Waiting, Held
<1> QED
  BY <1>1 DEF StreamInv, NumbersNameEvents, FramesInOrder, SentBeforeFrames, HeldLast,
     DroppedIsGone, Accounted

LEMMA StreamNext == TypeInv /\ StreamInv /\ [Next]_vars => StreamInv'
<1> SUFFICES ASSUME TypeInv, StreamInv, [Next]_vars PROVE StreamInv'
  OBVIOUS
<1>1. CASE ServerStep /\ UNCHANGED busVars
  BY <1>1, StreamStands DEF ServerStep, streamVars, busVars
<1>2. CASE ServerStep /\ Publishes
  <2>1. PICK p \in Publishers, type \in Types, k \in Nat :
          (type = "step_start" => k \in 1..MaxSteps) /\ Publish(p, type, k)
    BY <1>2 DEF Publishes
  <2>2. stream' = stream
    BY <1>2 DEF ServerStep, streamVars
  <2>3. CASE stream.on
    BY <2>1, <2>2, <2>3, PublishIsSound
  <2>4. CASE ~stream.on
    <3>1. StreamTyped'
      BY StreamTypes
    <3>2. ~stream'.on
      BY <2>2, <2>4
    <3> QED
      BY <3>1, <3>2, OffStaysSound
  <2> QED
    BY <2>3, <2>4
<1>3. ASSUME NEW p \in Publishers, Hand(p) PROVE StreamInv'
  BY <1>3, HandIsSound
<1>4. CASE Connect
  BY <1>4, ConnectIsSound
<1>5. CASE Disconnect
  <2>1. StreamTyped'
    BY StreamTypes
  <2>2. ~stream'.on
    BY <1>5 DEF Disconnect, Closed
  <2> QED
    BY <2>1, <2>2, OffStaysSound
<1>6. CASE Receive
  BY <1>6, ReceiveIsSound
<1>7. CASE Serve \/ Answer
  BY <1>7, StreamStands DEF Serve, Answer, streamVars, busVars
<1> QED
  BY <1>1, <1>2, <1>3, <1>4, <1>5, <1>6, <1>7, KindsOfSteps DEF ServerStep

-----------------------------------------------------------------------------
(* The theorems.                                                           *)

LEMMA OneOrNone ==
  ASSUME NEW S, NEW s \in Seq(S), Len(s) <= 1
  PROVE  Len(s) \in {0, 1} /\ (s = <<>> <=> Len(s) = 0)
<1>1. Len(s) \in Nat
  BY LenProperties
<1>2. \A n \in Nat : n <= 1 => n = 0 \/ n = 1
  OBVIOUS
<1>3. Len(s) \in {0, 1}
  BY <1>1, <1>2
<1>4. s # <<>> => Len(s) # 0
  BY EmptySeq
<1>5. Len(<<>>) = 0
  OBVIOUS
<1> QED
  BY <1>3, <1>4, <1>5

\* Behind the frames comes what the publishers hold, the worker's first.
LEMMA FlightIs ==
  ASSUME TypeInv
  PROVE  /\ Len(InFlight) = Waiting /\ DOMAIN InFlight = 1..Waiting /\ Waiting \in Nat
         /\ Len(Frames) \in Nat /\ Waiting \in Len(Frames)..(Len(Frames) + 2)
         /\ \A k \in 1..Len(Frames) : k \in 1..Waiting /\ InFlight[k] = Frames[k]
         /\ handing["worker"] # <<>> =>
              /\ Len(Frames) + 1 \in 1..Waiting
              /\ InFlight[Len(Frames) + 1] = handing["worker"][1]
         /\ handing["caller"] # <<>> =>
              Waiting # Len(Frames) /\ InFlight[Waiting] = handing["caller"][1]
         /\ Waiting = Len(Frames) + 2 => handing["worker"] # <<>> /\ handing["caller"] # <<>>
         /\ Waiting = Len(Frames) + 1 => handing["worker"] = <<>> \/ handing["caller"] = <<>>
         /\ Waiting # Len(Frames) => handing["worker"] # <<>> \/ handing["caller"] # <<>>
<1> DEFINE w == handing["worker"]
           c == handing["caller"]
<1>1. /\ w \in Seq(Told) /\ Len(w) \in Nat /\ Len(w) <= 1
      /\ c \in Seq(Told) /\ Len(c) \in Nat /\ Len(c) <= 1
  BY LenProperties DEF TypeInv, BusTyped, Publishers
<1>2. Frames \in Seq(Told) /\ Len(Frames) \in Nat
  BY FramesAreTold
<1> HIDE DEF w, c
<1>3. Held("worker") = Len(w) /\ Held("caller") = Len(c)
      /\ (w # <<>> <=> Len(w) = 1) /\ (c # <<>> <=> Len(c) = 1)
  <2>1. /\ Len(w) \in {0, 1} /\ (w = <<>> <=> Len(w) = 0)
        /\ Len(c) \in {0, 1} /\ (c = <<>> <=> Len(c) = 0)
    BY <1>1, OneOrNone
  <2>2. (w # <<>> <=> Len(w) = 1) /\ (c # <<>> <=> Len(c) = 1)
    BY <2>1
  <2>3. /\ Held("worker") = IF w = <<>> THEN 0 ELSE 1
        /\ Held("caller") = IF c = <<>> THEN 0 ELSE 1
    BY DEF Held, w, c
  <2>4. Held("worker") = Len(w)
    BY <2>1, <2>3
  <2>5. Held("caller") = Len(c)
    BY <2>1, <2>3
  <2> QED
    BY <2>2, <2>4, <2>5
<1>4. Waiting = Len(Frames) + Len(w) + Len(c)
  BY <1>3 DEF Waiting
<1>5. /\ Frames \o w \in Seq(Told) /\ Len(Frames \o w) = Len(Frames) + Len(w)
      /\ \A k \in 1..Len(Frames) + Len(w) : (Frames \o w)[k] =
           IF k <= Len(Frames) THEN Frames[k] ELSE w[k - Len(Frames)]
  BY <1>1, <1>2, ConcatProperties
<1>6. InFlight = (Frames \o w) \o c
  BY DEF InFlight, w, c
<1> DEFINE f == Frames \o w
<1> HIDE DEF f
<1>7. /\ InFlight \in Seq(Told) /\ Len(InFlight) = Len(f) + Len(c)
      /\ \A k \in 1..Len(f) + Len(c) : InFlight[k] = IF k <= Len(f) THEN f[k] ELSE c[k - Len(f)]
  <2>1. f \in Seq(Told) /\ InFlight = f \o c
    BY <1>5, <1>6 DEF f
  <2> QED
    BY <1>1, <2>1, ConcatProperties
<1>8. /\ Len(f) = Len(Frames) + Len(w)
      /\ \A k \in 1..Len(Frames) + Len(w) :
           f[k] = IF k <= Len(Frames) THEN Frames[k] ELSE w[k - Len(Frames)]
  BY <1>5 DEF f
<1>9. Len(InFlight) = Waiting /\ Waiting \in Nat /\ DOMAIN InFlight = 1..Waiting
  <2>1. Len(InFlight) = Waiting /\ Waiting \in Nat
    BY <1>1, <1>2, <1>4, <1>7, <1>8
  <2> QED
    BY <1>7, <2>1, LenProperties
<1>10. \A k \in 1..Len(Frames) : k \in 1..Waiting /\ InFlight[k] = Frames[k]
  <2> SUFFICES ASSUME NEW k \in 1..Len(Frames)
               PROVE  k \in 1..Waiting /\ InFlight[k] = Frames[k]
    OBVIOUS
  <2>1. /\ k \in 1..Waiting /\ k \in 1..Len(f) + Len(c) /\ k <= Len(f) /\ k <= Len(Frames)
        /\ k \in 1..Len(Frames) + Len(w)
    BY <1>1, <1>2, <1>4, <1>8
  <2> QED
    BY <1>7, <1>8, <2>1
<1>11. w # <<>> => Len(Frames) + 1 \in 1..Waiting /\ InFlight[Len(Frames) + 1] = w[1]
  <2> SUFFICES ASSUME w # <<>>
               PROVE  Len(Frames) + 1 \in 1..Waiting /\ InFlight[Len(Frames) + 1] = w[1]
    OBVIOUS
  <2> DEFINE k == Len(Frames) + 1
  <2>1. /\ k \in 1..Waiting /\ k \in 1..Len(f) + Len(c) /\ k <= Len(f) /\ ~(k <= Len(Frames))
        /\ k \in 1..Len(Frames) + Len(w) /\ k - Len(Frames) = 1
    BY <1>1, <1>2, <1>3, <1>4, <1>8
  <2> HIDE DEF k
  <2>2. InFlight[k] = w[1]
    BY <1>7, <1>8, <2>1
  <2> QED
    BY <2>1, <2>2 DEF k
<1>12. c # <<>> => Waiting # Len(Frames) /\ InFlight[Waiting] = c[1]
  <2> SUFFICES ASSUME c # <<>> PROVE Waiting # Len(Frames) /\ InFlight[Waiting] = c[1]
    OBVIOUS
  <2>1. /\ Waiting # Len(Frames) /\ Waiting \in 1..Len(f) + Len(c)
        /\ ~(Waiting <= Len(f)) /\ Waiting - Len(f) = 1
    BY <1>1, <1>2, <1>3, <1>4, <1>8
  <2> QED
    BY <1>7, <2>1
<1>13. /\ Waiting \in Len(Frames)..(Len(Frames) + 2)
       /\ Waiting = Len(Frames) + 2 => w # <<>> /\ c # <<>>
       /\ Waiting = Len(Frames) + 1 => w = <<>> \/ c = <<>>
       /\ Waiting # Len(Frames) => w # <<>> \/ c # <<>>
  BY <1>1, <1>2, <1>3, <1>4
<1> QED
  BY <1>2, <1>9, <1>10, <1>11, <1>12, <1>13 DEF w, c

\* Whose event it is that stands behind the frames.
LEMMA BehindFrames ==
  ASSUME TypeInv, NEW k \in 1..Waiting, ~(k <= Len(Frames))
  PROVE  \E p \in Publishers :
           /\ handing[p] # <<>> /\ InFlight[k] = handing[p][1]
           /\ \/ p = "worker" /\ k = Len(Frames) + 1
              \/ p = "caller" /\ k = Waiting
<1>1. {"worker", "caller"} \subseteq Publishers
  BY DEF Publishers
<1>2. k = Len(Frames) + 1 \/ k = Len(Frames) + 2
  BY FlightIs
<1>3. CASE k = Len(Frames) + 1 /\ handing["worker"] # <<>>
  BY <1>1, <1>3, FlightIs
<1>4. CASE k = Len(Frames) + 1 /\ handing["worker"] = <<>>
  <2>1. Waiting = Len(Frames) + 1
    BY <1>4, FlightIs
  <2> QED
    BY <1>1, <1>4, <2>1, FlightIs
<1>5. CASE k = Len(Frames) + 2
  <2>1. Waiting = Len(Frames) + 2
    BY <1>5, FlightIs
  <2> QED
    BY <1>1, <1>5, <2>1, FlightIs
<1> QED
  BY <1>2, <1>3, <1>4, <1>5

LEMMA StreamIsEnough ==
  ASSUME TypeInv, StreamInv
  PROVE  StreamIsSound
<1>1. /\ DOMAIN InFlight = 1..Waiting /\ Len(InFlight) = Waiting /\ Len(Frames) \in Nat
      /\ Waiting \in Nat
      /\ \A k \in 1..Len(Frames) : k \in 1..Waiting /\ InFlight[k] = Frames[k]
  BY FlightIs
<1>2. {InFlight[k] : k \in DOMAIN InFlight} = Coming
  <2>1. ASSUME NEW k \in 1..Waiting PROVE InFlight[k] \in Coming
    <3>1. CASE k <= Len(Frames)
      BY <1>1, <3>1 DEF Coming
    <3>2. CASE ~(k <= Len(Frames))
      BY <3>2, BehindFrames DEF Coming
    <3> QED
      BY <3>1, <3>2
  <2>2. ASSUME NEW k \in 1..Len(Frames) PROVE \E j \in 1..Waiting : InFlight[j] = Frames[k]
    BY <1>1
  <2>3. ASSUME NEW p \in Publishers, handing[p] # <<>>
        PROVE  \E j \in 1..Waiting : InFlight[j] = handing[p][1]
    <3>1. CASE p = "worker"
      BY <2>3, <3>1, FlightIs
    <3>2. CASE p = "caller"
      <4>1. Waiting \in 1..Waiting
        BY <2>3, <3>2, FlightIs
      <4> QED
        BY <2>3, <3>2, <4>1, FlightIs
    <3> QED
      BY <3>1, <3>2 DEF Publishers
  <2> DEFINE I == {InFlight[k] : k \in 1..Waiting}
  <2>4. I \subseteq Coming
    BY <2>1
  <2>5. Coming \subseteq I
    <3>1. \A k \in 1..Len(Frames) : Frames[k] \in I
      BY <2>2
    <3>2. \A p \in Publishers : handing[p] # <<>> => handing[p][1] \in I
      BY <2>3
    <3> HIDE DEF I
    <3> QED
      BY <3>1, <3>2 DEF Coming
  <2> QED
    BY <1>1, <2>4, <2>5
<1>3. StreamIsExact
  <2>1. {InFlight[k].n : k \in DOMAIN InFlight} = Numbers(Coming)
    BY <1>2 DEF Numbers
  <2> QED
    BY <1>1, <2>1 DEF StreamInv, Accounted, StreamIsExact, Numbers, Over
<1>4. PublisherOrder
  <2> SUFFICES ASSUME NEW k \in 1..Waiting,
                      NEW e \in stream.sent \cup {InFlight[j] : j \in 1..k - 1},
                      e.by = InFlight[k].by
               PROVE  e.n < InFlight[k].n
    BY <1>1 DEF PublisherOrder
  <2>1. CASE k <= Len(Frames)
    <3>1. k \in 1..Len(Frames) /\ InFlight[k] = Frames[k]
      BY <1>1, <2>1
    <3>2. CASE e \in stream.sent
      BY <3>1, <3>2 DEF StreamInv, SentBeforeFrames
    <3>3. ASSUME NEW j \in 1..k - 1, e = InFlight[j] PROVE e.n < InFlight[k].n
      <4>1. j \in 1..Len(Frames) /\ j < k
        BY <1>1, <3>1
      <4> QED
        BY <1>1, <3>1, <3>3, <4>1 DEF StreamInv, FramesInOrder
    <3> QED
      BY <3>2, <3>3
  <2>2. CASE ~(k <= Len(Frames))
    <3>1. PICK p \in Publishers :
            /\ handing[p] # <<>> /\ InFlight[k] = handing[p][1]
            /\ \/ p = "worker" /\ k = Len(Frames) + 1
               \/ p = "caller" /\ k = Waiting
      BY <2>2, BehindFrames
    <3>2. InFlight[k].by = p
      BY <3>1, HeldTypes
    <3>3. CASE e \in stream.sent
      BY <3>1, <3>2, <3>3 DEF StreamInv, HeldLast
    <3>4. ASSUME NEW j \in 1..k - 1, e = InFlight[j] PROVE e.n < InFlight[k].n
      <4>1. j \in 1..Waiting /\ j < k
        BY <1>1
      <4>2. CASE j <= Len(Frames)
        <5>1. j \in 1..Len(Frames) /\ e = Frames[j]
          BY <1>1, <3>4, <4>2
        <5> QED
          BY <3>1, <3>2, <5>1 DEF StreamInv, HeldLast
      <4>3. CASE ~(j <= Len(Frames))
        <5>1. PICK q \in Publishers :
                /\ handing[q] # <<>> /\ InFlight[j] = handing[q][1]
                /\ \/ q = "worker" /\ j = Len(Frames) + 1
                   \/ q = "caller" /\ j = Waiting
          BY <4>1, <4>3, BehindFrames
        <5>2. InFlight[j].by = q
          BY <5>1, HeldTypes
        <5>3. q # p
          BY <1>1, <3>1, <4>1, <5>1
        <5> QED
          BY <3>2, <3>4, <5>2, <5>3
      <4> QED
        BY <4>2, <4>3
    <3> QED
      BY <3>3, <3>4
  <2> QED
    BY <2>1, <2>2
<1> QED
  BY <1>3, <1>4 DEF StreamIsSound

ViewInv == TypeInv /\ StreamInv

LEMMA ViewStarts == Init => ViewInv
<1> SUFFICES ASSUME Init PROVE ViewInv
  OBVIOUS
<1>1. ~stream.on /\ stream = Closed /\ \A p \in Publishers : handing[p] = <<>>
  BY DEF Init, Closed
<1> QED
  BY <1>1, TypeStarts, OffIsSound DEF ViewInv

\* Whatever the server, the bus, the stream and the tab do, every variable keeps the range
\* the code gives it (LiveView's TypeOK).
THEOREM ViewIsTypeCorrect == Spec => []TypeOK
<1>1. TypeInv /\ [Next]_vars => TypeInv'
  BY TypeNext
<1> QED
  BY <1>1, TypeStarts, TypesAreOK, PTL DEF Spec

\* A stream carries every event from its first on exactly once, unless it had to drop it,
\* and each publisher's in its order (event_bus.py 40-65, sse.py 55-106), however often
\* it is lost and opened anew and whatever is published meanwhile.
THEOREM StreamCarriesAll == Spec => []StreamIsSound
<1>1. ViewInv /\ [Next]_vars => ViewInv'
  BY TypeNext, StreamNext DEF ViewInv
<1>2. ViewInv => StreamIsSound
  BY StreamIsEnough DEF ViewInv
<1> QED
  BY <1>1, <1>2, ViewStarts, PTL DEF Spec

\* No snapshot that comes late wipes steps that the stream has shown without a gap
\* (reduceTask.ts 206-222, #256).
THEOREM StepsAreKept == Spec => StepsStay
<1>1. TypeInv /\ [Next]_vars => TypeInv'
  BY TypeNext
<1>2. TypeInv /\ [Next]_vars =>
        [view.steps = 1..Cardinality(view.steps) => view.steps \subseteq view'.steps]_view
  BY StepsStayNext DEF Gapless
<1> QED
  BY <1>1, <1>2, TypeStarts, PTL DEF Spec, StepsStay

-----------------------------------------------------------------------------
(* The view settles.  The rounds: where the worker and the request thread  *)
(* are, and what the record is then.                                       *)

\* The round is open until its worker has settled the record ...
RoundOpen == worker \in {"start", "begun", "run", "step"} \/ caller \in {"resumed", "spawn"}

\* ... it has ended once the record's status is the last one ...
RoundEnded == caller = "idle" /\ worker \in {"failed", "claim", "teardown", "idle"}

\* ... and the worker has told so before it tears down.
RoundTold == caller = "idle" /\ worker \in {"teardown", "idle"}

\* Of every round: the stamp, the steps of the record, and that a worker that is gone
\* holds no event.
RecordKept ==
  /\ rec.said \in {2 * rounds - 1, 2 * rounds}
  /\ rec.steps <= made /\ (worker = "run" => rec.steps < made)
  /\ worker \in {"idle", "start"} => handing["worker"] = <<>>
  /\ caller \in {"resumed", "spawn"} => worker = "idle"

\* Of a round that nothing has befallen.
RoundKept ==
  /\ caller # "claim" /\ "stop" \notin flags
  /\ "announced" \in flags => worker = "teardown"
  /\ caller \in {"resumed", "idle"} => handing["caller"] = <<>>
  /\ ~RoundEnded => rec.status \in Live
  /\ RoundOpen /\ rounds > 1 => rec.status = "RUNNING"
  /\ RoundEnded => rec.status \in Parked
  /\ worker = "failed" => rec.status = "FAILED"
  /\ worker = "claim" => rec.status = "INTERRUPTED"
  /\ RoundOpen => rec.said = 2 * rounds - 1
  /\ ~RoundOpen => rec.said = 2 * rounds /\ rec.steps = made

\* Nothing but a continuation begins a round that nothing has befallen.
LEMMA ExcusesStay ==
  ASSUME [Next]_vars, excuse' = {}
  PROVE  excuse = {} \/ Continue
BY DEF Next, vars, serverVars, Hand, Connect, Disconnect, Receive, Serve, Answer, Start, Enter,
   StepStart, Raises, Settle, Conclude, TellFailed, TellInterrupted, Teardown, Stop, StopTell,
   TellResumed, Spawn

LEMMA RecordStarts == Init => RecordKept /\ RoundKept
BY DEF Init, RecordKept, RoundKept, RoundOpen, RoundEnded, Live, Publishers

LEMMA RecordNext ==
  ASSUME TypeInv, RecordKept, [Next]_vars
  PROVE  RecordKept'
<1>0. /\ rec \in [status : Statuses, steps : 0..MaxSteps, said : Nat] /\ made \in Nat
      /\ rounds \in Nat \ {0} /\ handing \in [Publishers -> Seq(Told)]
      /\ {"worker", "caller"} = Publishers
  BY ViewAssumption DEF TypeInv, ServerTyped, BusTyped, Publishers
<1>1. CASE UNCHANGED <<rec, worker, made, caller, rounds, handing>>
  BY <1>1 DEF RecordKept
<1>2. ASSUME NEW p \in Publishers, Hand(p) PROVE RecordKept'
  BY <1>0, <1>2 DEF Hand, RecordKept
<1>3. CASE Disconnect
  BY <1>0, <1>3 DEF Disconnect, serverVars, RecordKept
<1>4. CASE Start \/ Enter \/ Teardown
  BY <1>0, <1>4 DEF Start, Enter, Teardown, busVars, Free, RecordKept
<1>5. CASE StepStart \/ TellFailed \/ TellInterrupted
  BY <1>0, <1>5 DEF StepStart, TellFailed, TellInterrupted, busVars, Publish, RecordKept
<1>6. CASE Raises
  BY <1>0, <1>6 DEF Raises, busVars, Publish, RecordKept
<1>7. ASSUME NEW s \in Parked, Settle(s) PROVE RecordKept'
  BY <1>0, <1>7 DEF Settle, FirstAssigned, busVars, Parked, RecordKept
<1>8. CASE Conclude
  BY <1>0, <1>8 DEF Conclude, busVars, Parked, RecordKept
<1>9. CASE Stop \/ Spawn
  BY <1>0, <1>9 DEF Stop, Spawn, busVars, RecordKept
<1>10. CASE StopTell \/ TellResumed
  BY <1>0, <1>10 DEF StopTell, TellResumed, busVars, Publish, RecordKept
<1>11. CASE Continue
  BY <1>0, <1>11 DEF Continue, busVars, RecordKept
<1>12. CASE Connect \/ Receive \/ Serve \/ Answer
  BY <1>1, <1>12 DEF Connect, Receive, Serve, Answer, serverVars, busVars
<1> QED
  BY <1>1, <1>2, <1>3, <1>4, <1>5, <1>6, <1>7, <1>8, <1>9, <1>10, <1>11, <1>12
     DEF Next, vars, serverVars, busVars

LEMMA RoundNext ==
  ASSUME TypeInv, RecordKept, excuse = {} => RoundKept, [Next]_vars
  PROVE  excuse' = {} => RoundKept'
<1> SUFFICES ASSUME excuse' = {} PROVE RoundKept'
  OBVIOUS
<1>0. /\ rec \in [status : Statuses, steps : 0..MaxSteps, said : Nat] /\ made \in Nat
      /\ rounds \in Nat \ {0} /\ handing \in [Publishers -> Seq(Told)]
      /\ {"worker", "caller"} = Publishers
      /\ worker \in {"start", "begun", "run", "step", "failed", "claim", "teardown", "idle",
                     "INTERRUPTED", "FAILED"}
      /\ caller \in {"idle", "claim", "resumed", "spawn"}
      /\ flags \subseteq {"stop", "announced"}
  BY ViewAssumption DEF TypeInv, ServerTyped, BusTyped, Publishers, Parked
<1> USE DEF RoundOpen, RoundEnded
<1>1. CASE Continue
  <2>1. flags = {}
    BY <1>1 DEF Continue
  <2> QED
    BY <1>0, <1>1, <2>1 DEF Continue, Free, busVars, RecordKept, RoundKept, Live
<1>2. CASE ~Continue
  <2>0. /\ excuse = {} /\ RoundKept
        /\ caller \in {"resumed", "spawn"} => worker = "idle"
    BY <1>2, ExcusesStay DEF RecordKept
  <2>1. CASE UNCHANGED <<rec, worker, made, caller, flags, rounds, handing>>
    BY <2>0, <2>1 DEF RoundKept
  <2>2. ASSUME NEW p \in Publishers, Hand(p) PROVE RoundKept'
    BY <1>0, <2>0, <2>2 DEF Hand, RoundKept
  <2>3. CASE Disconnect
    BY <1>0, <2>0, <2>3 DEF Disconnect, serverVars, RoundKept
  <2>4. CASE Start
    BY <1>0, <2>0, <2>4 DEF Start, busVars, RoundKept, Live, Statuses
  <2>5. CASE Enter
    BY <1>0, <2>0, <2>5 DEF Enter, busVars, RoundKept
  <2>6. CASE StepStart
    BY <1>0, <2>0, <2>6 DEF StepStart, Publish, RoundKept
  <2>7. CASE Raises \/ Stop \/ StopTell
    BY <2>0, <2>7 DEF Raises, Stop, StopTell, RoundKept
  <2>8. ASSUME NEW s \in Parked, Settle(s) PROVE RoundKept'
    BY <1>0, <2>0, <2>8 DEF Settle, FirstAssigned, busVars, RoundKept, Parked
  <2>9. CASE Conclude
    BY <1>0, <2>0, <2>9 DEF Conclude, busVars, RoundKept, Parked
  <2>10. CASE TellFailed
    BY <1>0, <2>0, <2>10 DEF TellFailed, Publish, RoundKept
  <2>11. CASE TellInterrupted
    BY <1>0, <2>0, <2>11 DEF TellInterrupted, Publish, busVars, RoundKept
  <2>12. CASE Teardown
    BY <1>0, <2>0, <2>12 DEF Teardown, busVars, RoundKept
  <2>13. CASE TellResumed
    BY <1>0, <2>0, <2>13 DEF TellResumed, Publish, RoundKept
  <2>14. CASE Spawn
    BY <1>0, <2>0, <2>14 DEF Spawn, Free, busVars, RoundKept
  <2>15. CASE Connect \/ Receive \/ Serve \/ Answer
    BY <2>1, <2>15 DEF Connect, Receive, Serve, Answer, serverVars, busVars
  <2> QED
    BY <1>2, <2>1, <2>2, <2>3, <2>4, <2>5, <2>6, <2>7, <2>8, <2>9, <2>10, <2>11, <2>12, <2>13,
       <2>14, <2>15 DEF Next, vars, serverVars, busVars
<1> QED
  BY <1>1, <1>2

-----------------------------------------------------------------------------
(* What is on its way to the tab: events and answers.                      *)

\* The events that may still reach the tab: those kept for a replay, and those coming.
Around == {buffer[i] : i \in 1..Len(buffer)} \cup Coming

LEMMA AroundIsTold ==
  ASSUME TypeInv
  PROVE  \A e \in Around : e \in Told /\ e.n \in 1..count /\ e.n \in Nat
<1>1. buffer \in Seq(Told) /\ count \in Nat
  BY DEF TypeInv, BusTyped
<1>2. \A i \in 1..Len(buffer) : buffer[i] \in Told
  BY <1>1, ElementOfSeq
<1>3. Coming \subseteq Told
  BY FramesAreTold
<1> QED
  BY <1>1, <1>2, <1>3 DEF Around, Told, Events

\* publish adds its event and nothing else.
LEMMA AroundGrows ==
  ASSUME TypeInv, NEW p \in Publishers, NEW type, NEW k, Publish(p, type, k), UNCHANGED stream
  PROVE  Around' \subseteq Around \cup {Event(count + 1, p, type, k)}
<1> DEFINE e == Event(count + 1, p, type, k)
           all == Append(buffer, e)
<1>1. /\ buffer' = Kept(all) /\ handing \in [Publishers -> Seq(Told)]
      /\ handing' = [handing EXCEPT ![p] = IF Registered THEN <<e>> ELSE <<>>]
      /\ buffer \in Seq(Told) /\ buffer \in Seq(Told \cup {e})
  BY SeqMonotonic DEF Publish, TypeInv, BusTyped
<1> HIDE DEF e
<1>2. /\ all \in Seq(Told \cup {e}) /\ Len(all) = Len(buffer) + 1 /\ Len(buffer) \in Nat
      /\ \A i \in 1..Len(buffer) : all[i] = buffer[i]
      /\ all[Len(buffer) + 1] = e
  BY <1>1, AppendProperties, LenProperties
<1>3. \A i \in 1..Len(all) : all[i] \in Around \cup {e}
  <2> SUFFICES ASSUME NEW i \in 1..Len(all) PROVE all[i] \in Around \cup {e}
    OBVIOUS
  <2>1. i \in 1..Len(buffer) \/ i = Len(buffer) + 1
    BY <1>2
  <2> QED
    BY <1>2, <2>1 DEF Around
<1> HIDE DEF all
<1>4. \A i \in 1..Len(buffer') : buffer'[i] \in Around \cup {e}
  <2>1. CASE Len(all) > BufferSize
    <3>1. buffer' = Tail(all) /\ Len(all) \in Nat /\ Len(all) # 0
      BY <1>1, <1>2, <2>1 DEF Kept
    <3>2. all # <<>>
      BY <3>1
    <3>3. /\ Len(Tail(all)) = Len(all) - 1
          /\ \A i \in 1..Len(Tail(all)) : Tail(all)[i] = all[i + 1]
      BY <1>2, <3>2, HeadTailProperties
    <3>4. \A i \in 1..Len(buffer') : i + 1 \in 1..Len(all)
      BY <3>1, <3>3
    <3> QED
      BY <1>3, <3>1, <3>3, <3>4
  <2>2. CASE ~(Len(all) > BufferSize)
    BY <1>1, <1>3, <2>2 DEF Kept
  <2> QED
    BY <2>1, <2>2
<1>5. \A q \in Publishers : handing'[q] # <<>> =>
        handing'[q] = handing[q] \/ handing'[q] = <<e>>
  BY <1>1
<1>6. Frames' = Frames
  BY DEF Frames
<1>7. Coming' \subseteq Around \cup {e}
  <2> SUFFICES ASSUME NEW x \in Coming' PROVE x \in Around \cup {e}
    OBVIOUS
  <2>1. CASE \E j \in 1..Len(Frames) : x = Frames[j]
    BY <2>1 DEF Coming, Around
  <2>2. ASSUME NEW q \in Publishers, handing'[q] # <<>>, x = handing'[q][1]
        PROVE  x \in Around \cup {e}
    BY <1>5, <2>2 DEF Coming, Around
  <2> QED
    BY <1>6, <2>1, <2>2 DEF Coming
<1>8. Around' \subseteq Around \cup {e}
  BY <1>4, <1>7 DEF Around
<1> QED
  BY <1>8 DEF e

\* The stream moves events and forgets them.
LEMMA AroundShrinks ==
  ASSUME TypeInv,
         \/ \E p \in Publishers : Hand(p)
         \/ Connect \/ Disconnect \/ Receive
         \/ UNCHANGED <<busVars, stream>>
  PROVE  Around' \subseteq Around
<1>1. CASE UNCHANGED <<busVars, stream>>
  BY <1>1 DEF Around, Coming, Frames, busVars
<1>2. ASSUME NEW p \in Publishers, Hand(p) PROVE Around' \subseteq Around
  <2>1. /\ handing[p] # <<>> /\ handing' = [handing EXCEPT ![p] = <<>>]
        /\ Frames'[Len(Frames')] = handing[p][1]
        /\ Fits => /\ Len(Frames') = Len(Frames) + 1
                   /\ \A k \in 1..Len(Frames) : Frames'[k] = Frames[k]
        /\ ~Fits => /\ Len(Frames') = Len(Frames) /\ Oldest \in 1..Len(Frames)
                    /\ \A k \in 1..Len(Frames) - 1 : Frames'[k] = Frames[Without(Oldest, k)]
    BY <1>2, HandedFrames
  <2>2. buffer' = buffer /\ handing \in [Publishers -> Seq(Told)]
    BY <1>2 DEF Hand, TypeInv, BusTyped
  <2>3. Len(Frames) \in Nat /\ handing[p][1] \in Coming
    BY <2>1, FramesAreTold, HeldTypes
  <2>4. \A k \in 1..Len(Frames') : Frames'[k] \in Coming
    <3> SUFFICES ASSUME NEW k \in 1..Len(Frames') PROVE Frames'[k] \in Coming
      OBVIOUS
    <3>1. CASE k = Len(Frames')
      BY <2>1, <2>3, <3>1
    <3>2. CASE Fits /\ k # Len(Frames')
      <4>1. k \in 1..Len(Frames)
        BY <2>1, <2>3, <3>2
      <4> QED
        BY <2>1, <3>2, <4>1 DEF Coming
    <3>3. CASE ~Fits /\ k # Len(Frames')
      <4>1. k \in 1..Len(Frames) - 1 /\ Without(Oldest, k) \in 1..Len(Frames)
        BY <2>1, <2>3, <3>3 DEF Without
      <4> QED
        BY <2>1, <3>3, <4>1 DEF Coming
    <3> QED
      BY <3>1, <3>2, <3>3
  <2>5. \A q \in Publishers : handing'[q] # <<>> => handing'[q][1] \in Coming
    BY <2>1, <2>2 DEF Coming
  <2>6. Coming' \subseteq Coming
    BY <2>4, <2>5 DEF Coming
  <2> QED
    BY <2>2, <2>6 DEF Around
<1>3. CASE Connect
  <2>1. /\ buffer' = buffer /\ ~stream.on /\ handing' = handing
        /\ stream' = [Closed EXCEPT !.on = TRUE, !.history = buffer, !.first = Head(buffer).n]
    BY <1>3 DEF Connect, busVars
  <2>2. \A q \in Publishers : handing'[q] = <<>>
    BY <2>1 DEF TypeInv, StreamTyped
  <2>3. stream'.history = buffer /\ stream'.queue = <<>>
    BY <2>1 DEF Closed
  <2>4. Frames' = buffer
    BY <2>3, ConcatEmptySeq DEF Frames, TypeInv, BusTyped
  <2> QED
    BY <2>1, <2>2, <2>4 DEF Around, Coming
<1>4. CASE Disconnect
  <2>1. buffer' = buffer /\ handing' = [p \in Publishers |-> <<>>] /\ stream' = Closed
    BY <1>4 DEF Disconnect
  <2>2. Frames' = <<>> /\ Len(Frames') = 0
    BY <2>1 DEF Frames, Closed
  <2> QED
    BY <2>1, <2>2 DEF Around, Coming
<1>5. CASE Receive
  <2>1. /\ stream.on /\ Frames # <<>> /\ stream' = Sent /\ handing' = handing
        /\ buffer' = buffer
    BY <1>5 DEF Receive, busVars
  <2>2. /\ Len(Frames') = Len(Frames) - 1 /\ \A k \in 1..Len(Frames') : Frames'[k] = Frames[k + 1]
    BY <2>1, SentFrames
  <2>3. \A k \in 1..Len(Frames') : k + 1 \in 1..Len(Frames)
    BY <2>2, FramesAreTold
  <2>4. Coming' \subseteq Coming
    BY <2>1, <2>2, <2>3 DEF Coming
  <2> QED
    BY <2>1, <2>4 DEF Around
<1> QED
  BY <1>1, <1>2, <1>3, <1>4, <1>5

\* Who publishes, and what.
LEMMA NewEvents ==
  ASSUME TypeInv, [Next]_vars, NEW e \in Around', e \notin Around
  PROVE  /\ e.n = count + 1 /\ count' = count + 1 /\ UNCHANGED <<streamVars, tabVars>>
         /\ \/ StepStart /\ e.type = "step_start" /\ e.index = made + 1
            \/ (Raises \/ TellFailed) /\ e.type = "task_failed"
            \/ (TellInterrupted \/ StopTell) /\ e.type = "task_interrupted"
            \/ TellResumed /\ e.type = "task_resumed"
<1>1. {"worker", "caller"} = Publishers
  BY DEF Publishers
<1>2. ASSUME NEW p \in Publishers, NEW type, NEW k, Publish(p, type, k),
             UNCHANGED <<streamVars, tabVars>>
      PROVE  /\ e.n = count + 1 /\ count' = count + 1 /\ e.type = type /\ e.index = k
  <2>1. e = Event(count + 1, p, type, k)
    BY <1>2, AroundGrows DEF streamVars
  <2> QED
    BY <1>2, <2>1 DEF Event, Publish
<1>3. CASE StepStart
  BY <1>1, <1>2, <1>3 DEF StepStart
<1>4. CASE Raises \/ TellFailed
  BY <1>1, <1>2, <1>4 DEF Raises, TellFailed
<1>5. CASE TellInterrupted \/ StopTell
  <2>1. UNCHANGED busVars => UNCHANGED <<busVars, stream>>
    BY <1>5 DEF TellInterrupted, StopTell, streamVars
  <2>2. ~UNCHANGED busVars
    BY <2>1, AroundShrinks
  <2> QED
    BY <1>1, <1>2, <1>5, <2>2 DEF TellInterrupted, StopTell
<1>6. CASE TellResumed
  BY <1>1, <1>2, <1>6 DEF TellResumed
<1>7. CASE \/ \E p \in Publishers : Hand(p)
           \/ Connect \/ Disconnect \/ Receive
  BY <1>7, AroundShrinks
<1>8. CASE \/ Serve \/ Answer \/ Start \/ Enter \/ Conclude \/ Teardown \/ Stop \/ Continue
           \/ Spawn \/ UNCHANGED vars
           \/ \E s \in Parked : Settle(s)
  <2>1. UNCHANGED <<busVars, stream>>
    BY <1>8 DEF Serve, Answer, Start, Enter, Conclude, Teardown, Stop, Continue, Spawn, Settle,
       vars, streamVars
  <2> QED
    BY <2>1, AroundShrinks
<1> QED
  BY <1>3, <1>4, <1>5, <1>6, <1>7, <1>8 DEF Next

\* What is asked for when the tab shows something stands behind what is on its way.
LEMMA ShowAsks ==
  ASSUME NEW v, NEW m, NEW left \in Seq(Requests), NEW more \in Seq(Requests),
         \A k \in 1..Len(more) : more[k].found = NoView, Show(v, m, left, more)
  PROVE  /\ view' = v /\ Len(left) \in Nat /\ Len(gets') \in Nat /\ Len(left) <= Len(gets')
         /\ mark' = IF v.status # view.status THEN v.status ELSE m
         /\ \A k \in 1..Len(left) : gets'[k] = left[k]
         /\ \A k \in 1..Len(gets') : k > Len(left) => gets'[k].found = NoView
         /\ v.status # view.status /\ TurnsParked(m, v.status) =>
              Len(gets') > Len(left) /\ gets'[Len(gets')].kind = "pull"
<1> DEFINE pull == [kind |-> "pull", found |-> NoView]
           last == IF v.status # view.status /\ TurnsParked(m, v.status) THEN <<pull>> ELSE <<>>
           new == more \o last
<1>1. pull \in Requests
  BY ViewIsTyped DEF Requests
<1>2. last \in Seq(Requests) /\ last \in {<<>>, <<pull>>}
  BY <1>1
<1>3. gets' = left \o more \o last
  BY DEF Show
<1>4. v.status # view.status /\ TurnsParked(m, v.status) => last = <<pull>>
  OBVIOUS
<1> HIDE DEF last
<1>5. /\ new \in Seq(Requests) /\ Len(new) \in Nat /\ Len(new) = Len(more) + Len(last)
      /\ \A k \in 1..Len(more) + Len(last) :
           new[k] = IF k <= Len(more) THEN more[k] ELSE last[k - Len(more)]
  BY <1>2, ConcatProperties, LenProperties
<1>6. gets' = left \o new
  BY <1>2, <1>3, ConcatAssociative
<1>7. Len(more) \in Nat /\ Len(last) \in Nat /\ \A k \in 1..Len(last) : last[k] = pull
  <2>1. Len(more) \in Nat /\ Len(last) \in Nat
    BY <1>2, LenProperties
  <2>2. CASE last = <<>>
    BY <2>1, <2>2
  <2>3. CASE last = <<pull>>
    <3>1. Len(last) = 1 /\ last[1] = pull
      BY <2>3
    <3> QED
      BY <2>1, <3>1
  <2> QED
    BY <1>2, <2>1, <2>2, <2>3
<1>8. \A k \in 1..Len(new) : new[k].found = NoView
  <2> SUFFICES ASSUME NEW k \in 1..Len(new) PROVE new[k].found = NoView
    OBVIOUS
  <2>1. CASE k <= Len(more)
    <3>1. k \in 1..Len(more) /\ new[k] = more[k]
      BY <1>5, <1>7, <2>1
    <3> QED
      BY <3>1
  <2>2. CASE ~(k <= Len(more))
    <3>1. k - Len(more) \in 1..Len(last) /\ new[k] = last[k - Len(more)]
      BY <1>5, <1>7, <2>2
    <3>2. new[k] = pull
      BY <1>7, <3>1
    <3> QED
      BY <3>2
  <2> QED
    BY <2>1, <2>2
<1>9. last = <<pull>> => Len(new) > 0 /\ new[Len(new)].kind = "pull"
  <2> SUFFICES ASSUME last = <<pull>> PROVE Len(new) > 0 /\ new[Len(new)].kind = "pull"
    OBVIOUS
  <2>1. Len(last) = 1 /\ last[1] = pull
    OBVIOUS
  <2>2. Len(new) = Len(more) + 1 /\ ~(Len(new) <= Len(more)) /\ Len(new) - Len(more) = 1
    BY <1>5, <1>7, <2>1
  <2>3. new[Len(new)] = last[1]
    BY <1>5, <1>7, <2>1, <2>2
  <2> QED
    BY <1>7, <2>1, <2>2, <2>3
<1> HIDE DEF new
<1>10. /\ Len(gets') = Len(left) + Len(new) /\ Len(left) \in Nat
       /\ \A k \in 1..Len(left) + Len(new) :
            gets'[k] = IF k <= Len(left) THEN left[k] ELSE new[k - Len(left)]
  <2>1. new \in Seq(Requests) /\ Len(left) \in Nat
    BY <1>5, LenProperties
  <2> QED
    BY <1>6, <2>1, ConcatProperties
<1>11. \A k \in 1..Len(left) : gets'[k] = left[k]
  BY <1>5, <1>10
<1>12. ASSUME NEW k \in 1..Len(gets'), k > Len(left) PROVE gets'[k].found = NoView
  <2>1. k - Len(left) \in 1..Len(new) /\ gets'[k] = new[k - Len(left)]
    BY <1>5, <1>10, <1>12
  <2> QED
    BY <1>8, <2>1
<1>13. last = <<pull>> => Len(gets') > Len(left) /\ gets'[Len(gets')].kind = "pull"
  <2> SUFFICES ASSUME last = <<pull>>
               PROVE  Len(gets') > Len(left) /\ gets'[Len(gets')].kind = "pull"
    OBVIOUS
  <2>1. Len(gets') > Len(left) /\ Len(gets') - Len(left) = Len(new)
        /\ Len(gets') \in 1..Len(left) + Len(new)
    BY <1>5, <1>9, <1>10
  <2>2. gets'[Len(gets')] = new[Len(new)]
    BY <1>10, <2>1
  <2> QED
    BY <1>9, <2>1, <2>2
<1>14. view' = v /\ mark' = IF v.status # view.status THEN v.status ELSE m
  BY DEF Show
<1> QED
  BY <1>4, <1>5, <1>10, <1>11, <1>12, <1>13, <1>14

\* What the tab makes of an event.
LEMMA ReceiveShows ==
  ASSUME TypeInv, Receive
  PROVE  /\ Frames[1] \in Coming /\ Frames[1] \in Told
         /\ view' = Applied(view, Frames[1]) /\ seen' = Frames[1].n
         /\ mark' = IF view'.status # view.status THEN view'.status ELSE mark
         /\ Len(gets) \in Nat /\ Len(gets') \in Nat /\ Len(gets) <= Len(gets')
         /\ \A k \in 1..Len(gets) : gets'[k] = gets[k]
         /\ \A k \in 1..Len(gets') : k > Len(gets) => gets'[k].found = NoView
         /\ view'.status # view.status /\ TurnsParked(mark, view'.status) =>
              Len(gets') > Len(gets) /\ gets'[Len(gets')].kind = "pull"
<1> DEFINE e == Head(Frames)
           v == Applied(view, e)
           refetch == e.type = "step_start" /\ v.status = "PENDING" /\ ~asked
           status == [kind |-> "status", found |-> NoView]
           more == IF refetch THEN <<status>> ELSE <<>>
<1>1. Frames # <<>> /\ seen' = e.n /\ Show(v, mark, gets, more)
  BY DEF Receive
<1>2. Frames \in Seq(Told) /\ Len(Frames) \in Nat /\ \A k \in 1..Len(Frames) : Frames[k] \in Told
  BY FramesAreTold
<1>3. e = Frames[1] /\ 1 \in 1..Len(Frames)
  BY <1>1, <1>2, HeadTailProperties, EmptySeq
<1>4. status \in Requests
  BY ViewIsTyped DEF Requests
<1>5. more \in Seq(Requests) /\ more \in {<<>>, <<status>>}
  BY <1>4
<1>6. \A k \in 1..Len(more) : more[k].found = NoView
  BY <1>5
<1>7. gets \in Seq(Requests)
  BY DEF TypeInv, TabTyped
<1>8. Frames[1] \in Coming /\ Frames[1] \in Told
  BY <1>2, <1>3 DEF Coming
<1> HIDE DEF more, v, e
<1>9. v = Applied(view, Frames[1]) /\ seen' = Frames[1].n
  BY <1>1, <1>3 DEF v
<1> QED
  BY <1>1, <1>5, <1>6, <1>7, <1>8, <1>9, ShowAsks

\* What the tab makes of an answer.
LEMMA AnswerShows ==
  ASSUME TypeInv, Answer
  PROVE  /\ gets # <<>> /\ 1 \in 1..Len(gets) /\ gets[1] \in Requests /\ gets[1].found # NoView
         /\ view' = IF gets[1].kind = "status" THEN StatusMerged(view, gets[1].found)
                                               ELSE Merged(view, gets[1].found)
         /\ mark' = IF view'.status # view.status THEN view'.status
                    ELSE IF gets[1].kind = "first" THEN gets[1].found.status ELSE mark
         /\ Len(gets) \in Nat /\ Len(gets') \in Nat /\ Len(gets) - 1 <= Len(gets')
         /\ \A k \in 1..Len(gets) - 1 : gets'[k] = gets[k + 1]
         /\ \A k \in 1..Len(gets') : k > Len(gets) - 1 => gets'[k].found = NoView
         /\ view'.status # view.status /\ gets[1].kind # "first"
              /\ TurnsParked(mark, view'.status) =>
              Len(gets') > Len(gets) - 1 /\ gets'[Len(gets')].kind = "pull"
         /\ excuse' = {} => gets[1].found.said >= 2 * rounds - 1
<1>1. gets # <<>> /\ gets \in Seq(Requests)
  BY DEF Answer, TypeInv, TabTyped
<1>2. Head(gets) = gets[1] /\ 1 \in 1..Len(gets) /\ Len(gets) \in Nat /\ gets[1] \in Requests
  BY <1>1, HeadTailProperties, EmptySeq, LenProperties, ElementOfSeq
<1>3. /\ Tail(gets) \in Seq(Requests) /\ Len(Tail(gets)) = Len(gets) - 1
      /\ \A k \in 1..Len(gets) - 1 : Tail(gets)[k] = gets[k + 1]
  BY <1>1, HeadTailProperties
<1> DEFINE none == <<>>
<1>4. none \in Seq(Requests) /\ \A k \in 1..Len(none) : none[k].found = NoView
  OBVIOUS
<1>5. /\ gets[1].found # NoView
      /\ \E v, m : /\ Show(v, m, Tail(gets), none)
                   /\ v = IF gets[1].kind = "status" THEN StatusMerged(view, gets[1].found)
                                                     ELSE Merged(view, gets[1].found)
                   /\ m = IF gets[1].kind = "first" THEN gets[1].found.status ELSE mark
      /\ excuse' = IF gets[1].found.said < 2 * rounds - 1 THEN excuse \cup {"late"} ELSE excuse
  BY <1>2 DEF Answer
<1> HIDE DEF none
<1>6. PICK v, m : /\ Show(v, m, Tail(gets), none)
                  /\ v = IF gets[1].kind = "status" THEN StatusMerged(view, gets[1].found)
                                                    ELSE Merged(view, gets[1].found)
                  /\ m = IF gets[1].kind = "first" THEN gets[1].found.status ELSE mark
  BY <1>5
<1>7. /\ view' = v /\ Len(Tail(gets)) \in Nat /\ Len(gets') \in Nat /\ Len(Tail(gets)) <= Len(gets')
      /\ mark' = IF v.status # view.status THEN v.status ELSE m
      /\ \A k \in 1..Len(Tail(gets)) : gets'[k] = Tail(gets)[k]
      /\ \A k \in 1..Len(gets') : k > Len(Tail(gets)) => gets'[k].found = NoView
      /\ v.status # view.status /\ TurnsParked(m, v.status) =>
           Len(gets') > Len(Tail(gets)) /\ gets'[Len(gets')].kind = "pull"
  <2> DEFINE left == Tail(gets)
  <2>1. left \in Seq(Requests) /\ Show(v, m, left, none)
    BY <1>3, <1>6
  <2> HIDE DEF left
  <2>2. /\ view' = v /\ Len(left) \in Nat /\ Len(gets') \in Nat /\ Len(left) <= Len(gets')
        /\ mark' = IF v.status # view.status THEN v.status ELSE m
        /\ \A k \in 1..Len(left) : gets'[k] = left[k]
        /\ \A k \in 1..Len(gets') : k > Len(left) => gets'[k].found = NoView
        /\ v.status # view.status /\ TurnsParked(m, v.status) =>
             Len(gets') > Len(left) /\ gets'[Len(gets')].kind = "pull"
    BY <1>4, <2>1, ShowAsks
  <2> QED
    BY <2>2 DEF left
<1>8. \A k \in 1..Len(gets) - 1 : gets'[k] = gets[k + 1]
  BY <1>3, <1>7
<1>9. excuse' = {} => gets[1].found.said >= 2 * rounds - 1
  <2>1. gets[1].found.said \in Nat /\ rounds \in Nat
    BY <1>2 DEF Requests, Shown, Snapshots, TypeInv, ServerTyped
  <2>2. excuse' = {} => ~(gets[1].found.said < 2 * rounds - 1)
    BY <1>5
  <2> QED
    BY <2>1, <2>2
<1> QED
  BY <1>1, <1>2, <1>3, <1>5, <1>6, <1>7, <1>8, <1>9

\* What Serve and Spawn find, and what the other steps leave.
LEMMA GetsNext ==
  ASSUME TypeInv, [Next]_vars
  PROVE  \A k \in 1..Len(gets') :
           \/ gets'[k].found \in {NoView, Record}
           \/ \E j \in 1..Len(gets) : gets'[k].found = gets[j].found
<1>0. gets \in Seq(Requests) /\ Len(gets) \in Nat
  BY LenProperties DEF TypeInv, TabTyped
<1> DEFINE Known(g) == \/ g.found \in {NoView, Record}
                       \/ \E j \in 1..Len(gets) : g.found = gets[j].found
<1> SUFFICES ASSUME NEW k \in 1..Len(gets') PROVE Known(gets'[k])
  OBVIOUS
<1>1. CASE gets' = gets
  BY <1>1
<1>2. CASE Asks
  <2>1. /\ Len(gets') = Len(gets) + 1 /\ \A j \in 1..Len(gets) : gets'[j] = gets[j]
        /\ gets'[Len(gets) + 1] = [kind |-> "pull", found |-> Record]
    BY <1>0, <1>2, AppendProperties, ViewIsTyped DEF Asks, Requests
  <2>2. k \in 1..Len(gets) \/ k = Len(gets) + 1
    BY <1>0, <2>1
  <2> QED
    BY <2>1, <2>2
<1>3. CASE Serve
  <2>1. PICK i \in DOMAIN gets : gets' = [gets EXCEPT ![i].found = Record]
    BY <1>3 DEF Serve
  <2>2. DOMAIN gets = 1..Len(gets) /\ DOMAIN gets' = DOMAIN gets /\ Len(gets') = Len(gets)
    BY <1>0, <2>1
  <2>3. k \in 1..Len(gets) /\ gets[k] \in Requests
    BY <1>0, <2>2, ElementOfSeq
  <2>4. gets'[k] = IF k = i THEN [gets[k] EXCEPT !.found = Record] ELSE gets[k]
    BY <2>1, <2>2, <2>3
  <2> QED
    BY <2>3, <2>4 DEF Requests
<1>4. CASE Receive
  BY <1>0, <1>4, ReceiveShows
<1>5. CASE Answer
  <2>1. CASE k \in 1..Len(gets) - 1
    BY <1>0, <1>5, <2>1, AnswerShows
  <2>2. CASE k > Len(gets) - 1
    BY <1>0, <1>5, <2>2, AnswerShows
  <2>3. k \in Nat /\ k >= 1
    BY <1>0
  <2> QED
    BY <1>0, <2>1, <2>2, <2>3
<1> QED
  BY <1>1, <1>2, <1>3, <1>4, <1>5, KindsOfSteps DEF ServerStep, Hand, Connect, Disconnect, tabVars

LEMMA AppliedSteps ==
  ASSUME NEW v \in Snapshots, NEW e
  PROVE  /\ Applied(v, e).steps \subseteq v.steps \cup {e.index}
         /\ e.type # "step_start" => Applied(v, e).steps = v.steps
         /\ Applied(v, e).said = v.said
<1> DEFINE t == IF v = NoView THEN [v EXCEPT !.status = "PENDING"] ELSE v
<1>1. t \in Snapshots /\ t.steps = v.steps /\ t.said = v.said
  BY DEF Snapshots, Statuses, Live
<1> HIDE DEF t
<1>2. Applied(v, e) = CASE e.type = "step_start"       -> [t EXCEPT !.steps = @ \cup {e.index}]
                        [] e.type = "task_interrupted" -> [t EXCEPT !.status = "INTERRUPTED"]
                        [] e.type = "task_failed"      -> [t EXCEPT !.status = "FAILED"]
                        [] e.type = "task_resumed"     -> [t EXCEPT !.status = "RUNNING"]
                        [] OTHER                       -> t
  BY DEF Applied, t
<1>3. CASE e.type = "step_start"
  BY <1>1, <1>2, <1>3 DEF Snapshots
<1>4. CASE e.type # "step_start"
  BY <1>1, <1>2, <1>4 DEF Snapshots
<1> QED
  BY <1>3, <1>4

\* Nothing that is shown, kept or on its way names a step after the n-th.
Upto(n) ==
  /\ view.steps \subseteq 1..n
  /\ \A e \in Around : e.type = "step_start" => e.index \in 1..n
  /\ \A k \in 1..Len(gets) : gets[k].found.steps \subseteq 1..n

LEMMA UptoStarts == Init => Upto(0)
<1> SUFFICES ASSUME Init PROVE Upto(0)
  OBVIOUS
<1>1. NoView.steps = {}
  BY DEF NoView, Snapshot
<1>2. Frames = <<>> /\ Len(Frames) = 0 /\ \A p \in Publishers : handing[p] = <<>>
  BY DEF Init, Closed, Frames
<1>3. \A e \in Around : e = Event(1, "caller", "task_created", 0)
  BY <1>2 DEF Init, Around, Coming
<1>4. \A k \in 1..Len(gets) : gets[k].found = NoView
  BY DEF Init
<1> QED
  BY <1>1, <1>3, <1>4 DEF Init, Upto, Event

LEMMA UptoStays ==
  ASSUME TypeInv, [Next]_vars, NEW n \in Nat, Upto(n), rec.steps <= n, StepStart => made < n
  PROVE  Upto(n)'
<1>0. /\ rec.steps \in Nat /\ made \in Nat /\ view \in Snapshots
      /\ gets \in Seq(Requests) /\ Len(gets) \in Nat
  BY LenProperties, ViewAssumption DEF TypeInv, ServerTyped, TabTyped
<1>1. \A e \in Around' : e.type = "step_start" => e.index \in 1..n
  <2> SUFFICES ASSUME NEW e \in Around', e.type = "step_start" PROVE e.index \in 1..n
    OBVIOUS
  <2>1. CASE e \in Around
    BY <2>1 DEF Upto
  <2>2. CASE e \notin Around
    <3>1. StepStart /\ e.index = made + 1
      BY <2>2, NewEvents
    <3> QED
      BY <1>0, <3>1
  <2> QED
    BY <2>1, <2>2
<1>2. Record.steps \subseteq 1..n /\ NoView.steps \subseteq 1..n
  BY <1>0 DEF Record, NoView, Snapshot
<1>3. \A k \in 1..Len(gets') : gets'[k].found.steps \subseteq 1..n
  BY <1>2, GetsNext DEF Upto
<1>4. view'.steps \subseteq 1..n
  <2>1. CASE view' = view
    BY <2>1 DEF Upto
  <2>2. CASE Receive
    <3>1. view' = Applied(view, Frames[1]) /\ Frames[1] \in Around
      BY <2>2, ReceiveShows DEF Around
    <3> QED
      BY <1>0, <3>1, AppliedSteps DEF Upto
  <2>3. CASE Answer
    <3>1. /\ 1 \in 1..Len(gets)
          /\ view' = IF gets[1].kind = "status" THEN StatusMerged(view, gets[1].found)
                                                ELSE Merged(view, gets[1].found)
      BY <2>3, AnswerShows
    <3>2. view'.steps \in {view.steps, gets[1].found.steps}
      BY <1>0, <3>1 DEF StatusMerged, Merged, Snapshots
    <3> QED
      BY <3>1, <3>2 DEF Upto
  <2> QED
    BY <2>1, <2>2, <2>3, KindsOfSteps DEF ServerStep, Hand, Connect, Disconnect, Serve, tabVars
<1> QED
  BY <1>1, <1>3, <1>4 DEF Upto

LEMMA UptoGrows ==
  ASSUME NEW m \in Nat, NEW n \in Nat, m <= n, Upto(m)
  PROVE  Upto(n)
<1>1. 1..m \subseteq 1..n
  OBVIOUS
<1> QED
  BY <1>1 DEF Upto

\* A step that was lost may still be named; the next one takes its number.
StepsKept ==
  /\ Upto(made + 1)
  /\ worker = "run" => Upto(made)
  /\ excuse = {} /\ ~RoundOpen => Upto(made)

LEMMA StepsNext ==
  ASSUME TypeInv, RecordKept, excuse = {} => RoundKept, StepsKept, [Next]_vars
  PROVE  StepsKept'
<1>0. made \in Nat /\ made' \in Nat /\ rec.steps \in Nat /\ rec.steps <= made
  BY TypeNext, ViewAssumption DEF TypeInv, ServerTyped, RecordKept
<1>1. PICK m \in Nat : m = made
  BY <1>0
<1>2. /\ Upto(m + 1) /\ rec.steps <= m /\ rec.steps <= m + 1 /\ rec.steps <= m + 2
      /\ worker = "run" => Upto(m)
      /\ excuse = {} /\ ~RoundOpen => Upto(m)
  BY <1>0, <1>1 DEF StepsKept
<1>3. m + 1 \in Nat /\ m + 2 \in Nat /\ m + 1 <= m + 2 /\ (m + 1) + 1 = m + 2
  OBVIOUS
<1>4. CASE StepStart
  <2>1. made' = m + 1 /\ worker' = "run" /\ made < m + 1 /\ made < m + 2
    BY <1>1, <1>4 DEF StepStart
  <2>2. Upto(m + 1)'
    BY <1>2, <1>3, <2>1, UptoStays
  <2>3. Upto(m + 2)
    BY <1>2, <1>3, UptoGrows
  <2>4. Upto(m + 2)'
    BY <1>2, <1>3, <2>1, <2>3, UptoStays
  <2>5. Upto(made)' /\ Upto(made + 1)'
    BY <1>3, <2>1, <2>2, <2>4
  <2>6. RoundOpen'
    BY <2>1 DEF RoundOpen
  <2> QED
    BY <2>5, <2>6 DEF StepsKept
<1>5. CASE ~StepStart
  <2>1. Upto(m + 1)' /\ (Upto(m) => Upto(m)')
    BY <1>2, <1>3, <1>5, UptoStays
  <2>2. CASE Raises
    <3>1. /\ worker' = "teardown" /\ excuse' # {}
          /\ made' = m \/ (worker = "run" /\ made' = m - 1)
      BY <1>1, <2>2 DEF Raises
    <3>2. Upto(made + 1)'
      <4>1. CASE made' = m
        BY <2>1, <4>1
      <4>2. CASE worker = "run" /\ made' = m - 1
        <5>1. made' + 1 = m /\ Upto(m)'
          BY <1>2, <2>1, <4>2
        <5> QED
          BY <5>1
      <4> QED
        BY <3>1, <4>1, <4>2
    <3> QED
      BY <3>1, <3>2 DEF StepsKept
  <2>3. CASE ~Raises
    <3>1. made' = m /\ (worker' = "run" => worker = "run")
      BY <1>1, <1>5, <2>3 DEF Next, vars, serverVars, Hand, Connect, Disconnect, Receive, Serve,
         Answer, Start, Enter, Settle, Conclude, TellFailed, TellInterrupted, Teardown, Stop,
         StopTell, Continue, TellResumed, Spawn, Parked
    <3>2. Upto(made + 1)' /\ (worker' = "run" => Upto(made)')
      BY <1>2, <2>1, <3>1
    <3>3. ASSUME excuse' = {}, ~RoundOpen' PROVE Upto(made)'
      <4>1. ~Continue
        BY <3>3 DEF Continue, RoundOpen
      <4>2. excuse = {} /\ RoundKept
        BY <3>3, <4>1, ExcusesStay
      <4>3. rounds \in Nat \ {0}
        BY DEF TypeInv, ServerTyped
      <4>4. worker = "run" \/ ~RoundOpen
        <5>1. Start => RoundOpen'
          BY <4>2, <4>3 DEF Start, RoundKept, RoundOpen
        <5>2. Enter \/ TellResumed \/ Spawn => RoundOpen'
          BY DEF Enter, TellResumed, Spawn, RoundOpen
        <5>3. ASSUME NEW s \in Parked, Settle(s) PROVE worker = "run"
          BY <4>2, <5>3 DEF Settle, RoundKept
        <5>4. CASE UNCHANGED <<worker, caller>>
          BY <3>3, <5>4 DEF RoundOpen
        <5>5. CASE Conclude \/ TellFailed \/ TellInterrupted \/ Teardown \/ Stop \/ StopTell
          BY <3>3, <5>5 DEF Conclude, TellFailed, TellInterrupted, Teardown, Stop, StopTell,
             Parked, RoundOpen
        <5>6. CASE (\E p \in Publishers : Hand(p)) \/ Connect \/ Disconnect \/ Receive \/ Serve
                   \/ Answer \/ UNCHANGED vars
          BY <5>4, <5>6 DEF Hand, Connect, Disconnect, Receive, Serve, Answer, serverVars, vars
        <5> QED
          BY <1>5, <2>3, <3>3, <4>1, <5>1, <5>2, <5>3, <5>5, <5>6 DEF Next
      <4> QED
        BY <1>2, <2>1, <3>1, <4>2, <4>4
    <3> QED
      BY <3>2, <3>3 DEF StepsKept
  <2> QED
    BY <2>2, <2>3
<1> QED
  BY <1>4, <1>5

-----------------------------------------------------------------------------
(* How a round goes on that nothing befalls.                               *)

LEMMA RoundMoves ==
  ASSUME TypeInv, RecordKept, RoundKept, [Next]_vars, excuse' = {}, ~Continue
  PROVE  /\ rounds' = rounds /\ made' >= made
         /\ RoundEnded => RoundEnded' /\ UNCHANGED <<rec, made>>
         /\ ~RoundEnded /\ RoundEnded' => Conclude
         /\ RoundTold => RoundTold'
         /\ ~RoundTold /\ RoundTold' =>
              \/ TellFailed
              \/ TellInterrupted /\ Publish("worker", "task_interrupted", 0)
         /\ ~RoundOpen => ~RoundOpen' /\ made' = made
         /\ RoundOpen /\ ~RoundOpen' => worker = "run" /\ made' = made
         /\ worker' = "run" => StepStart \/ (worker = "run" /\ made' = made)
<1>0. /\ made \in Nat /\ rounds \in Nat \ {0} /\ rec \in [status : Statuses, steps : 0..MaxSteps, said : Nat]
      /\ worker \in {"start", "begun", "run", "step", "failed", "claim", "teardown", "idle",
                     "INTERRUPTED", "FAILED"}
      /\ caller \in {"idle", "resumed", "spawn"}
  BY ViewAssumption DEF TypeInv, ServerTyped, Parked, RoundKept
<1> DEFINE Goal == /\ rounds' = rounds /\ made' >= made
                   /\ RoundEnded => RoundEnded' /\ UNCHANGED <<rec, made>>
                   /\ ~RoundEnded /\ RoundEnded' => Conclude
                   /\ RoundTold => RoundTold'
                   /\ ~RoundTold /\ RoundTold' =>
                        \/ TellFailed
                        \/ TellInterrupted /\ Publish("worker", "task_interrupted", 0)
                   /\ ~RoundOpen => ~RoundOpen' /\ made' = made
                   /\ RoundOpen /\ ~RoundOpen' => worker = "run" /\ made' = made
                   /\ worker' = "run" => StepStart \/ (worker = "run" /\ made' = made)
<1> SUFFICES Goal
  OBVIOUS
<1> USE DEF RoundEnded, RoundTold, RoundOpen
<1>1. CASE UNCHANGED <<rec, worker, made, caller, rounds>>
  BY <1>0, <1>1
<1>2. CASE Start \/ Enter
  BY <1>0, <1>2 DEF Start, Enter, RoundKept
<1>3. CASE StepStart
  BY <1>0, <1>3 DEF StepStart
<1>4. CASE Raises \/ Stop \/ StopTell
  BY <1>4 DEF Raises, Stop, StopTell, RoundKept
<1>5. ASSUME NEW s \in Parked, Settle(s) PROVE Goal
  BY <1>0, <1>5 DEF Settle, Parked, RoundKept
<1>6. CASE Conclude
  BY <1>0, <1>6 DEF Conclude, Parked
<1>7. CASE TellFailed
  BY <1>0, <1>7 DEF TellFailed
<1>8. CASE TellInterrupted
  BY <1>0, <1>8 DEF TellInterrupted, RoundKept
<1>9. CASE Teardown \/ TellResumed \/ Spawn
  BY <1>0, <1>9 DEF Teardown, TellResumed, Spawn, RecordKept
<1>10. CASE (\E p \in Publishers : Hand(p)) \/ Connect \/ Disconnect \/ Receive \/ Serve \/ Answer
            \/ UNCHANGED vars
  BY <1>1, <1>10 DEF Hand, Connect, Disconnect, Receive, Serve, Answer, serverVars, vars
<1> QED
  BY <1>2, <1>3, <1>4, <1>5, <1>6, <1>7, <1>8, <1>9, <1>10 DEF Next

-----------------------------------------------------------------------------
(* The answers.                                                            *)

\* An answer that is no excuse is of this round: from while it was open, with fewer steps
\* than it ends with, or from after it was settled, with all of them.
FoundNow(f) ==
  /\ f.said = 2 * rounds - 1 =>
       /\ f.status \in Live /\ Cardinality(f.steps) <= made
       /\ ~RoundOpen \/ worker = "run" => Cardinality(f.steps) < made
  /\ f.said = 2 * rounds =>
       /\ ~RoundOpen /\ f.steps = 1..made
       /\ f.status \in Live \/ (RoundEnded /\ f.status = rec.status)

FoundRound == \A k \in 1..Len(gets) : FoundNow(gets[k].found)

FoundKept ==
  \A k \in 1..Len(gets) :
    /\ gets[k].found.said <= 2 * rounds
    /\ gets[k].found.status = "none" => gets[k].found = NoView

\* A view that is the record once stays so, whatever this answer still brings.
Harmless(g) ==
  \/ g.found.said < 2 * rounds - 1
  \/ RoundEnded /\ g.found = Record
  \/ g.kind # "status" /\ g.found.said = 2 * rounds - 1

\* It has yet to be served, or brings the record as it ended.
Brings(g) == g.found = NoView \/ (RoundEnded /\ g.found = Record)

AnswersInOrder ==
  \A k \in 1..Len(gets) : \A j \in 1..Len(gets) :
    j < k /\ Brings(gets[j]) => Harmless(gets[k])

LEMMA ShownSteps ==
  ASSUME NEW f \in Shown
  PROVE  /\ Cardinality(f.steps) \in Nat /\ f.steps = 1..Cardinality(f.steps)
         /\ f.said \in Nat /\ f.status \in Statuses \cup {"none"} /\ f \in Snapshots
<1>1. PICK j \in 0..MaxSteps : f.steps = 1..j
  BY DEF Shown
<1>2. Cardinality(f.steps) = j /\ j \in Nat
  BY <1>1, FS_Interval, ViewAssumption
<1> QED
  BY <1>1, <1>2 DEF Shown, Snapshots

LEMMA GetsTyped ==
  ASSUME TypeInv
  PROVE  /\ gets \in Seq(Requests) /\ Len(gets) \in Nat
         /\ \A k \in 1..Len(gets) : gets[k] \in Requests /\ gets[k].found \in Shown
                                    /\ gets[k].found.said \in Nat
<1>1. gets \in Seq(Requests) /\ Len(gets) \in Nat
  BY LenProperties DEF TypeInv, TabTyped
<1>2. ASSUME NEW k \in 1..Len(gets)
      PROVE  gets[k] \in Requests /\ gets[k].found \in Shown /\ gets[k].found.said \in Nat
  <2>1. gets[k] \in Requests
    BY <1>1, ElementOfSeq
  <2>2. gets[k].found \in Shown
    BY <2>1 DEF Requests
  <2> QED
    BY <2>1, <2>2, ShownSteps
<1> QED
  BY <1>1, <1>2

LEMMA RecordIs ==
  ASSUME TypeInv
  PROVE  /\ Record = [status |-> rec.status, steps |-> 1..rec.steps, said |-> rec.said]
         /\ Record \in Shown /\ rec.steps \in Nat /\ Cardinality(1..rec.steps) = rec.steps
         /\ rec.status \in Statuses /\ Record # NoView /\ NoView.said = 0 /\ NoView.status = "none"
         /\ NoView \in Shown
<1>1. rec \in [status : Statuses, steps : 0..MaxSteps, said : Nat] /\ rec.steps \in Nat
  BY ViewAssumption DEF TypeInv, ServerTyped
<1>2. Cardinality(1..rec.steps) = rec.steps
  BY <1>1, FS_Interval
<1>3. Record.status = rec.status /\ NoView.status = "none" /\ rec.status # "none"
  BY <1>1 DEF Record, Snapshot, NoView, Statuses, Live, Parked
<1>4. Record # NoView
  BY <1>3
<1> QED
  BY <1>1, <1>2, <1>3, <1>4, ViewIsTyped DEF Record, Snapshot, NoView, TypeInv

LEMMA FoundKeptNext ==
  ASSUME TypeInv, RecordKept, FoundKept, [Next]_vars
  PROVE  FoundKept'
<1>1. rounds \in Nat /\ rounds' \in Nat /\ rounds' >= rounds
  <2>1. rounds \in Nat
    BY DEF TypeInv, ServerTyped
  <2>2. rounds' \in {rounds, rounds + 1}
    BY DEF Next, vars, serverVars, Hand, Connect, Disconnect, Receive, Serve,
       Answer, Start, Enter, StepStart, Raises, Settle, Conclude, TellFailed, TellInterrupted,
       Teardown, Stop, StopTell, Continue, TellResumed, Spawn
  <2> QED
    BY <2>1, <2>2
<1>2. /\ Record.said <= 2 * rounds /\ NoView.said <= 2 * rounds /\ Record.status # "none"
      /\ Record.said \in Nat /\ NoView.said \in Nat
  <2>1. Record.said = rec.said /\ Record.status = rec.status /\ rec.status \in Statuses
        /\ Record.said \in Nat /\ NoView.said = 0
    BY RecordIs, ShownSteps
  <2>2. rec.said <= 2 * rounds
    BY <1>1 DEF RecordKept
  <2> QED
    BY <1>1, <2>1, <2>2 DEF Statuses, Live, Parked
<1> SUFFICES ASSUME NEW k \in 1..Len(gets')
             PROVE  /\ gets'[k].found.said <= 2 * rounds'
                    /\ gets'[k].found.status = "none" => gets'[k].found = NoView
  BY DEF FoundKept, NoView, Snapshot
<1> DEFINE f == gets'[k].found
<1>3. \/ f \in {NoView, Record}
      \/ \E j \in 1..Len(gets) : f = gets[j].found
  BY GetsNext
<1> HIDE DEF f
<1>4. f.said <= 2 * rounds /\ f.said \in Nat /\ (f.status = "none" => f = NoView)
  BY <1>2, <1>3, GetsTyped DEF FoundKept
<1>5. f.said <= 2 * rounds'
  BY <1>1, <1>4
<1> QED
  BY <1>4, <1>5 DEF f

LEMMA RecordIsFound ==
  ASSUME TypeInv, RecordKept, RoundKept
  PROVE  FoundNow(Record) /\ FoundNow(NoView)
<1>1. /\ Record = [status |-> rec.status, steps |-> 1..rec.steps, said |-> rec.said]
      /\ rec.steps \in Nat /\ Cardinality(1..rec.steps) = rec.steps /\ NoView.said = 0
      /\ rounds \in Nat \ {0}
  BY RecordIs DEF TypeInv, ServerTyped
<1>2. RoundOpen => ~RoundEnded
  BY DEF RoundOpen, RoundEnded
<1>3. FoundNow(NoView)
  BY <1>1 DEF FoundNow
<1>4. FoundNow(Record)
  BY <1>1, <1>2 DEF FoundNow, RecordKept, RoundKept
<1> QED
  BY <1>3, <1>4

LEMMA FoundStays ==
  ASSUME TypeInv, RecordKept, RoundKept, [Next]_vars, excuse' = {}, ~Continue,
         NEW f \in Shown, FoundNow(f)
  PROVE  FoundNow(f)'
<1>1. Cardinality(f.steps) \in Nat /\ made \in Nat /\ made' \in Nat /\ rounds \in Nat \ {0}
  BY ShownSteps, TypeNext, ViewAssumption DEF TypeInv, ServerTyped
<1>2. /\ rounds' = rounds /\ made' >= made
      /\ RoundEnded => RoundEnded' /\ UNCHANGED <<rec, made>>
      /\ ~RoundOpen => ~RoundOpen' /\ made' = made
      /\ RoundOpen /\ ~RoundOpen' => worker = "run" /\ made' = made
      /\ worker' = "run" => StepStart \/ (worker = "run" /\ made' = made)
  BY RoundMoves
<1>3. StepStart => made' = made + 1
  BY DEF StepStart
<1>4. f.said = 2 * rounds - 1 =>
        /\ f.status \in Live /\ Cardinality(f.steps) <= made'
        /\ ~RoundOpen' \/ worker' = "run" => Cardinality(f.steps) < made'
  BY <1>1, <1>2, <1>3 DEF FoundNow
<1>5. f.said = 2 * rounds =>
        /\ ~RoundOpen' /\ f.steps = 1..made'
        /\ f.status \in Live \/ (RoundEnded' /\ f.status = rec'.status)
  BY <1>2 DEF FoundNow
<1> QED
  BY <1>2, <1>4, <1>5 DEF FoundNow

\* A continuation leaves only answers of earlier rounds.
LEMMA ContinueIsFresh ==
  ASSUME TypeInv, FoundKept, Continue
  PROVE  /\ gets' = gets /\ rounds' = rounds + 1
         /\ \A k \in 1..Len(gets) : gets[k].found.said < 2 * rounds' - 1
<1>1. gets' = gets /\ rounds' = rounds + 1 /\ rounds \in Nat
  BY DEF Continue, tabVars, TypeInv, ServerTyped
<1>2. \A k \in 1..Len(gets) : gets[k].found.said <= 2 * rounds /\ gets[k].found.said \in Nat
  BY GetsTyped DEF FoundKept
<1> QED
  BY <1>1, <1>2

LEMMA FoundNext ==
  ASSUME TypeInv, RecordKept, FoundKept, excuse = {} => RoundKept /\ FoundRound,
         [Next]_vars, excuse' = {}
  PROVE  FoundRound'
<1>1. CASE Continue
  <2>1. rounds \in Nat
    BY DEF TypeInv, ServerTyped
  <2>2. ASSUME NEW k \in 1..Len(gets') PROVE FoundNow(gets[k].found)'
    <3>1. gets'[k].found.said < 2 * rounds' - 1 /\ gets'[k].found.said \in Nat /\ rounds' \in Nat
      BY <1>1, <2>1, <2>2, ContinueIsFresh, GetsTyped
    <3> QED
      BY <3>1 DEF FoundNow
  <2> QED
    BY <2>2 DEF FoundRound
<1>2. CASE ~Continue
  <2>1. RoundKept /\ FoundRound
    BY <1>2, ExcusesStay
  <2>2. ASSUME NEW k \in 1..Len(gets') PROVE FoundNow(gets[k].found)'
    <3>1. PICK f : f = gets'[k].found
      OBVIOUS
    <3>2. f \in {NoView, Record} \/ \E j \in 1..Len(gets) : f = gets[j].found
      BY <3>1, GetsNext
    <3>3. f \in Shown /\ FoundNow(f)
      BY <2>1, <3>2, RecordIsFound, RecordIs, GetsTyped DEF FoundRound
    <3>4. FoundNow(f)'
      BY <1>2, <2>1, <3>3, FoundStays
    <3> QED
      BY <3>1, <3>4
  <2> QED
    BY <2>2 DEF FoundRound
<1> QED
  BY <1>1, <1>2

\* What no answer can spoil stays so, and what an answer brings, it brought before.
LEMMA HarmlessStays ==
  ASSUME TypeInv, RecordKept, RoundKept, [Next]_vars, excuse' = {}, ~Continue,
         NEW g \in Requests, FoundNow(g.found)
  PROVE  /\ Harmless(g) => Harmless(g)'
         /\ Brings(g)' => Brings(g)
         /\ RoundEnded /\ Brings(g) => Brings(g)'
<1>1. /\ rounds' = rounds
      /\ RoundEnded => RoundEnded' /\ rec' = rec
      /\ ~RoundEnded /\ RoundEnded' => Conclude
  BY RoundMoves
<1>2. rec' = rec => Record' = Record
  BY DEF Record
<1>3. Harmless(g) => Harmless(g)'
  BY <1>1, <1>2 DEF Harmless
<1>4. RoundEnded /\ Brings(g) => Brings(g)'
  BY <1>1, <1>2 DEF Brings, NoView, Snapshot
<1>5. Brings(g)' => Brings(g)
  <2>1. CASE RoundEnded
    BY <1>1, <1>2, <2>1 DEF Brings, NoView, Snapshot
  <2>2. ASSUME ~RoundEnded, RoundEnded', g.found = Record' PROVE FALSE
    <3>1. Conclude /\ worker \in Parked
      BY <1>1, <2>2 DEF Conclude
    <3>2. rec' = [status |-> worker, steps |-> made, said |-> 2 * rounds]
      BY <3>1 DEF Conclude
    <3>3. g.found.said = 2 * rounds /\ g.found.status \in Parked
      BY <2>2, <3>1, <3>2 DEF Record, Snapshot
    <3> QED
      BY <2>2, <3>3 DEF FoundNow, Live, Parked
  <2> QED
    BY <2>1, <2>2 DEF Brings, NoView, Snapshot
<1> QED
  BY <1>3, <1>4, <1>5

LEMMA NothingIsHarmless ==
  ASSUME TypeInv, NEW g, g.found = NoView
  PROVE  Harmless(g)
BY RecordIs DEF Harmless, TypeInv, ServerTyped

\* How the requests on their way change.
LEMMA GetsMove ==
  ASSUME TypeInv, [Next]_vars
  PROVE  \/ gets' = gets
         \/ /\ Spawn /\ Len(gets') = Len(gets) + 1 /\ \A k \in 1..Len(gets) : gets'[k] = gets[k]
            /\ gets'[Len(gets) + 1] = [kind |-> "pull", found |-> Record]
         \/ /\ Serve /\ Len(gets') = Len(gets)
            /\ \E i \in 1..Len(gets) :
                 /\ gets[i].found = NoView /\ gets'[i].found = Record
                 /\ gets'[i].kind = gets[i].kind
                 /\ \A j \in 1..Len(gets) : j < i => gets[j].found # NoView
                 /\ \A j \in 1..Len(gets) : j # i => gets'[j] = gets[j]
         \/ Receive
         \/ Answer
<1>0. gets \in Seq(Requests) /\ Len(gets) \in Nat
  BY LenProperties DEF TypeInv, TabTyped
<1>1. CASE Spawn
  <2>1. CASE gets' = Append(gets, [kind |-> "pull", found |-> Record])
    <3>1. [kind |-> "pull", found |-> Record] \in Requests
      BY RecordIs DEF Requests
    <3> QED
      BY <1>0, <1>1, <2>1, <3>1, AppendProperties
  <2> QED
    BY <1>1, <2>1 DEF Spawn
<1>2. CASE Serve
  <2>1. PICK i \in DOMAIN gets : /\ gets[i].found = NoView
                                 /\ \A j \in 1..i - 1 : gets[j].found # NoView
                                 /\ gets' = [gets EXCEPT ![i].found = Record]
    BY <1>2 DEF Serve
  <2>2. DOMAIN gets = 1..Len(gets) /\ i \in 1..Len(gets) /\ gets[i] \in Requests
    BY <1>0, <2>1, ElementOfSeq
  <2>3. Len(gets') = Len(gets)
    BY <1>0, <2>1
  <2>4. gets'[i] = [gets[i] EXCEPT !.found = Record]
    BY <2>1, <2>2
  <2>5. gets'[i].found = Record /\ gets'[i].kind = gets[i].kind
    BY <2>2, <2>4 DEF Requests
  <2>6. \A j \in 1..Len(gets) : j # i => gets'[j] = gets[j]
    BY <2>1, <2>2
  <2>7. \A j \in 1..Len(gets) : j < i => gets[j].found # NoView
    BY <1>0, <2>1, <2>2
  <2> QED
    BY <1>2, <2>1, <2>2, <2>3, <2>5, <2>6, <2>7
<1>3. CASE gets' = gets
  BY <1>3
<1>4. ASSUME ~Spawn, ~Serve, ~Receive, ~Answer PROVE gets' = gets
  BY <1>4 DEF Next, vars, tabVars, serverVars, busVars, streamVars, Hand, Connect, Disconnect,
     Start, Enter, StepStart, Raises, Settle, Conclude, TellFailed, TellInterrupted, Teardown,
     Stop, StopTell, Continue, TellResumed
<1> QED
  BY <1>1, <1>2, <1>4

\* While nothing befalls the round, what is asked for after the round has ended never
\* brings an older answer than what was asked for before.
LEMMA OrderNext ==
  ASSUME TypeInv, RecordKept, FoundKept, excuse = {} => RoundKept /\ FoundRound /\ AnswersInOrder,
         [Next]_vars, excuse' = {}
  PROVE  AnswersInOrder'
<1>0. Len(gets) \in Nat /\ Len(gets') \in Nat
  BY GetsTyped, TypeNext DEF TypeInv, TabTyped
<1>1. CASE Continue
  <2>1. \A k \in 1..Len(gets') : Harmless(gets[k])'
    BY <1>1, ContinueIsFresh DEF Harmless
  <2> QED
    BY <2>1 DEF AnswersInOrder
<1>2. CASE ~Continue
  <2>0. RoundKept /\ FoundRound /\ AnswersInOrder
    BY <1>2, ExcusesStay
  <2>1. ASSUME NEW k \in 1..Len(gets)
        PROVE  \A g : g = gets[k] => /\ Harmless(g) => Harmless(g)'
                                     /\ Brings(g)' => Brings(g)
    BY <1>2, <2>0, HarmlessStays, GetsTyped DEF FoundRound
  <2>2. ASSUME NEW g, g.found = NoView PROVE Harmless(g)'
    <3>1. Harmless(g) /\ rounds' = rounds /\ rounds \in Nat \ {0} /\ g.found.said = 0
      BY <1>2, <2>0, <2>2, NothingIsHarmless, RoundMoves, RecordIs DEF TypeInv, ServerTyped
    <3> QED
      BY <3>1 DEF Harmless
  <2> SUFFICES ASSUME NEW k \in 1..Len(gets'), NEW j \in 1..Len(gets'), j < k,
                      NEW g, g = gets'[k], NEW h, h = gets'[j], Brings(h)'
               PROVE  Harmless(g)'
    BY DEF AnswersInOrder
  <2>3. CASE gets' = gets
    BY <2>0, <2>1, <2>3 DEF AnswersInOrder
  <2>4. CASE /\ Spawn /\ Len(gets') = Len(gets) + 1 /\ \A i \in 1..Len(gets) : gets'[i] = gets[i]
             /\ gets'[Len(gets) + 1] = [kind |-> "pull", found |-> Record]
    <3>1. CASE k \in 1..Len(gets)
      <4>1. j \in 1..Len(gets) /\ g = gets[k] /\ h = gets[j]
        BY <1>0, <2>4, <3>1
      <4> QED
        BY <2>0, <2>1, <3>1, <4>1 DEF AnswersInOrder
    <3>2. CASE k = Len(gets) + 1
      <4>1. g.kind # "status" /\ g.found = Record
        BY <2>4, <3>2
      <4>2. Record.said = 2 * rounds - 1 /\ rounds' = rounds
        BY <2>0, <2>4, RecordIs DEF Spawn, RoundKept, RoundOpen
      <4> QED
        BY <4>1, <4>2 DEF Harmless
    <3> QED
      BY <1>0, <2>4, <3>1, <3>2
  <2>5. CASE /\ Serve /\ Len(gets') = Len(gets)
             /\ \E i \in 1..Len(gets) :
                  /\ gets[i].found = NoView /\ gets'[i].found = Record
                  /\ gets'[i].kind = gets[i].kind
                  /\ \A l \in 1..Len(gets) : l < i => gets[l].found # NoView
                  /\ \A l \in 1..Len(gets) : l # i => gets'[l] = gets[l]
    <3>1. PICK i \in 1..Len(gets) :
                  /\ gets[i].found = NoView /\ gets'[i].found = Record
                  /\ \A l \in 1..Len(gets) : l < i => gets[l].found # NoView
                  /\ \A l \in 1..Len(gets) : l # i => gets'[l] = gets[l]
      BY <2>5
    <3>2. k \in 1..Len(gets) /\ j \in 1..Len(gets)
      BY <2>5
    <3>3. CASE k = i
      <4>1. h = gets[j] /\ h.found # NoView
        BY <3>1, <3>2, <3>3
      <4>2. Brings(h)
        BY <2>1, <3>2, <4>1
      <4>3. RoundEnded /\ g.found = Record
        BY <3>1, <3>3, <4>1, <4>2 DEF Brings
      <4>4. RoundEnded' /\ Record' = Record
        BY <1>2, <2>0, <4>3, RoundMoves DEF Record
      <4> QED
        BY <4>3, <4>4 DEF Harmless
    <3>4. CASE k # i
      <4>1. g = gets[k] /\ Brings(gets[j])
        <5>1. CASE j = i
          BY <3>1, <3>4, <3>2, <5>1 DEF Brings
        <5>2. CASE j # i
          <6>1. h = gets[j]
            BY <3>1, <3>2, <5>2
          <6> QED
            BY <2>1, <3>1, <3>2, <3>4, <6>1
        <5> QED
          BY <5>1, <5>2
      <4> QED
        BY <2>0, <2>1, <3>2, <4>1 DEF AnswersInOrder
    <3> QED
      BY <3>3, <3>4
  <2>6. CASE Receive
    <3>1. /\ Len(gets) <= Len(gets')
          /\ \A i \in 1..Len(gets) : gets'[i] = gets[i]
          /\ \A i \in 1..Len(gets') : i > Len(gets) => gets'[i].found = NoView
      BY <2>6, ReceiveShows
    <3>2. CASE k > Len(gets)
      BY <2>2, <3>1, <3>2
    <3>3. CASE ~(k > Len(gets))
      <4>1. k \in 1..Len(gets) /\ j \in 1..Len(gets)
        BY <1>0, <3>3
      <4>2. g = gets[k] /\ h = gets[j]
        BY <3>1, <4>1
      <4> QED
        BY <2>0, <2>1, <4>1, <4>2 DEF AnswersInOrder
    <3> QED
      BY <3>2, <3>3
  <2>7. CASE Answer
    <3>1. /\ Len(gets) - 1 <= Len(gets') /\ 1 \in 1..Len(gets)
          /\ \A i \in 1..Len(gets) - 1 : gets'[i] = gets[i + 1]
          /\ \A i \in 1..Len(gets') : i > Len(gets) - 1 => gets'[i].found = NoView
      BY <2>7, AnswerShows
    <3>2. CASE k > Len(gets) - 1
      BY <2>2, <3>1, <3>2
    <3>3. CASE ~(k > Len(gets) - 1)
      <4>1. /\ k \in 1..Len(gets) - 1 /\ j \in 1..Len(gets) - 1
            /\ k + 1 \in 1..Len(gets) /\ j + 1 \in 1..Len(gets) /\ j + 1 < k + 1
        BY <1>0, <3>3
      <4>2. g = gets[k + 1] /\ h = gets[j + 1]
        BY <3>1, <4>1
      <4>3. Brings(h)
        BY <2>1, <4>1, <4>2
      <4>4. Harmless(g)
        BY <2>0, <4>1, <4>2, <4>3 DEF AnswersInOrder
      <4> QED
        BY <2>1, <4>1, <4>2, <4>4
    <3> QED
      BY <3>2, <3>3
  <2> QED
    BY <2>3, <2>4, <2>5, <2>6, <2>7, GetsMove
<1> QED
  BY <1>1, <1>2

-----------------------------------------------------------------------------
(* The view.                                                               *)

ViewKnown ==
  /\ view.status = "none" => view = NoView /\ mark = "none" /\ seen = 0
  /\ seen \in 0..count

LEMMA ViewKnownNext ==
  ASSUME TypeInv, FoundKept, ViewKnown, [Next]_vars
  PROVE  ViewKnown'
<1>0. count \in Nat /\ view \in Snapshots
  BY DEF TypeInv, BusTyped, TabTyped
<1>1. count' \in {count, count + 1}
  BY DEF Next, vars, tabVars, serverVars, busVars, streamVars, Hand, Connect, Disconnect,
     Receive, Serve, Answer, Start, Enter, StepStart, Raises, Settle, Conclude, TellFailed,
     TellInterrupted, Teardown, Stop, StopTell, Continue, TellResumed, Spawn, Publish
<1>2. CASE UNCHANGED <<view, mark, seen>>
  BY <1>0, <1>1, <1>2 DEF ViewKnown, NoView, Snapshot
<1>3. CASE Receive
  <2>1. view' = Applied(view, Frames[1]) /\ seen' = Frames[1].n /\ Frames[1] \in Around
    BY <1>3, ReceiveShows DEF Around
  <2>2. seen' \in 1..count /\ count' = count
    BY <1>3, <2>1, AroundIsTold DEF Receive, busVars
  <2>3. view'.status # "none"
    <3> DEFINE e == Frames[1]
               t == IF view = NoView THEN [view EXCEPT !.status = "PENDING"] ELSE view
    <3>1. t \in Snapshots /\ t.status # "none"
      BY <1>0 DEF ViewKnown, Snapshots, Statuses, Live
    <3> HIDE DEF t, e
    <3>2. view' = CASE e.type = "step_start"       -> [t EXCEPT !.steps = @ \cup {e.index}]
                    [] e.type = "task_interrupted" -> [t EXCEPT !.status = "INTERRUPTED"]
                    [] e.type = "task_failed"      -> [t EXCEPT !.status = "FAILED"]
                    [] e.type = "task_resumed"     -> [t EXCEPT !.status = "RUNNING"]
                    [] OTHER                       -> t
      BY <2>1 DEF Applied, t, e
    <3> QED
      BY <3>1, <3>2 DEF Snapshots
  <2> QED
    BY <2>2, <2>3 DEF ViewKnown
<1>4. CASE Answer
  <2>1. /\ 1 \in 1..Len(gets) /\ gets[1].found # NoView
        /\ view' = IF gets[1].kind = "status" THEN StatusMerged(view, gets[1].found)
                                              ELSE Merged(view, gets[1].found)
    BY <1>4, AnswerShows
  <2>2. gets[1].found.status # "none"
    BY <2>1 DEF FoundKept
  <2>3. view'.status # "none"
    BY <1>0, <2>1, <2>2 DEF StatusMerged, Merged, ViewKnown, Snapshots
  <2>4. seen' = seen /\ count' = count
    BY <1>4 DEF Answer, streamVars, busVars
  <2> QED
    BY <2>3, <2>4 DEF ViewKnown
<1> QED
  BY <1>2, <1>3, <1>4 DEF Next, vars, tabVars, serverVars, busVars, streamVars, Hand, Connect,
     Disconnect, Serve, Start, Enter, StepStart, Raises, Settle, Conclude, TellFailed,
     TellInterrupted, Teardown, Stop, StopTell, Continue, TellResumed, Spawn

\* An answer from after the round was settled has all steps: the view becomes it.
LEMMA MergesAll ==
  ASSUME TypeInv, StepsKept, excuse = {}, NEW f \in Shown, FoundNow(f), f.said = 2 * rounds
  PROVE  Merged(view, f) = f
<1>1. ~RoundOpen /\ f.steps = 1..made /\ made \in Nat
  BY ViewAssumption DEF FoundNow, TypeInv, ServerTyped
<1>2. view.steps \subseteq 1..made
  BY <1>1 DEF StepsKept, Upto
<1>3. IsFiniteSet(1..made) /\ Cardinality(1..made) = made
  BY <1>1, FS_Interval
<1>4. /\ Cardinality(view.steps) <= made /\ Cardinality(view.steps) \in Nat
      /\ Cardinality(f.steps) = made
  BY <1>1, <1>2, <1>3, FS_Subset, FS_CardinalityType
<1> QED
  BY <1>1, <1>4 DEF Merged

\* What an answer is that is no excuse.
LEMMA AnswerIs ==
  ASSUME TypeInv, RecordKept, RoundKept, FoundRound, FoundKept, Answer, excuse' = {}
  PROVE  /\ 1 \in 1..Len(gets) /\ gets[1] \in Requests /\ gets[1].found \in Shown
         /\ FoundNow(gets[1].found) /\ gets[1].found # NoView
         /\ \/ gets[1].found.said = 2 * rounds - 1 /\ gets[1].found.status \in Live
            \/ gets[1].found.said = 2 * rounds /\ gets[1].found.status \in Live
            \/ /\ gets[1].found.said = 2 * rounds /\ RoundEnded /\ gets[1].found = Record
               /\ gets[1].found.status = rec.status
<1> DEFINE f == gets[1].found
<1>1. /\ 1 \in 1..Len(gets) /\ gets[1] \in Requests /\ f \in Shown /\ f.said \in Nat
      /\ f # NoView /\ f.said >= 2 * rounds - 1 /\ rounds \in Nat \ {0}
  BY AnswerShows, GetsTyped DEF TypeInv, ServerTyped
<1>2. FoundNow(f) /\ f.said <= 2 * rounds
  BY <1>1 DEF FoundRound, FoundKept
<1> HIDE DEF f
<1>3. f.said = 2 * rounds - 1 \/ f.said = 2 * rounds
  BY <1>1, <1>2
<1>4. CASE f.said = 2 * rounds - 1
  BY <1>1, <1>2, <1>4 DEF FoundNow, f
<1>5. CASE f.said = 2 * rounds /\ f.status \notin Live
  <2>1. RoundEnded /\ ~RoundOpen /\ f.status = rec.status /\ f.steps = 1..made
    BY <1>2, <1>5 DEF FoundNow
  <2>2. rec.said = 2 * rounds /\ rec.steps = made
    BY <2>1 DEF RoundKept
  <2>3. f = [status |-> f.status, steps |-> f.steps, said |-> f.said]
    BY <1>1 DEF Shown, Snapshots
  <2>4. f = Record
    BY <1>5, <2>1, <2>2, <2>3, RecordIs
  <2> QED
    BY <1>1, <1>2, <1>5, <2>1, <2>4 DEF f
<1> QED
  BY <1>1, <1>2, <1>3, <1>4, <1>5 DEF f

\* The ref agrees that the round runs while the view shows it running.
MarkRound == view.status \in Live => mark \in Live

LEMMA MarkNext ==
  ASSUME TypeInv, RecordKept, FoundKept, StepsKept,
         excuse = {} => RoundKept /\ FoundRound /\ MarkRound,
         [Next]_vars, excuse' = {}
  PROVE  MarkRound'
<1>1. CASE Continue
  BY <1>1 DEF Continue, tabVars, MarkRound
<1>2. CASE ~Continue
  <2>0. excuse = {} /\ RoundKept /\ FoundRound /\ MarkRound
    BY <1>2, ExcusesStay
  <2>1. CASE UNCHANGED <<view, mark>>
    BY <2>0, <2>1 DEF MarkRound
  <2>2. CASE Receive
    BY <2>0, <2>2, ReceiveShows DEF MarkRound
  <2>3. CASE Answer
    <3>1. /\ gets[1].found \in Shown /\ FoundNow(gets[1].found)
          /\ \/ gets[1].found.said = 2 * rounds - 1 /\ gets[1].found.status \in Live
             \/ gets[1].found.said = 2 * rounds /\ gets[1].found.status \in Live
             \/ /\ gets[1].found.said = 2 * rounds /\ RoundEnded /\ gets[1].found = Record
                /\ gets[1].found.status = rec.status
      BY <2>0, <2>3, AnswerIs
    <3>2. /\ view' = IF gets[1].kind = "status" THEN StatusMerged(view, gets[1].found)
                                                ELSE Merged(view, gets[1].found)
          /\ mark' = IF view'.status # view.status THEN view'.status
                     ELSE IF gets[1].kind = "first" THEN gets[1].found.status ELSE mark
      BY <2>3, AnswerShows
    <3>3. CASE view'.status # view.status \/ gets[1].kind # "first"
      BY <2>0, <3>2, <3>3 DEF MarkRound
    <3>4. CASE view'.status = view.status /\ gets[1].kind = "first"
      <4>1. mark' = gets[1].found.status /\ view' = Merged(view, gets[1].found)
        BY <3>2, <3>4
      <4>2. CASE gets[1].found.status \in Live
        BY <4>1, <4>2 DEF MarkRound
      <4>3. CASE gets[1].found.status \notin Live
        <5>1. view' = gets[1].found
          BY <2>0, <3>1, <4>1, <4>3, MergesAll
        <5> QED
          BY <4>3, <5>1 DEF MarkRound
      <4> QED
        BY <4>2, <4>3
    <3> QED
      BY <3>3, <3>4
  <2> QED
    BY <1>2, <2>1, <2>2, <2>3 DEF Next, vars, tabVars, serverVars, busVars, streamVars, Hand,
       Connect, Disconnect, Serve, Start, Enter, StepStart, Raises, Settle, Conclude, TellFailed,
       TellInterrupted, Teardown, Stop, StopTell, TellResumed, Spawn
<1> QED
  BY <1>1, <1>2

-----------------------------------------------------------------------------
(* How the events of a round flow to the tab.                              *)

\* The view is the record and nothing on its way takes that back; or a request will bring it.
Healed == view = Record /\ \A k \in 1..Len(gets) : Harmless(gets[k])
Healing == \E k \in 1..Len(gets) : gets[k].kind # "status" /\ Brings(gets[k])
Settled == Healed \/ Healing

\* Event y may come after x, where the round's events begin behind d: there is no gap.
Follows(d, x, y) == y <= x + 1 \/ y <= d

Place(j) == IF j = 0 THEN seen ELSE Frames[j].n

\* Event d has begun the round, 0 for the first; the round's end is the last event.
EndIsTold(d) ==
  /\ caller = "spawn" => d = count
  /\ RoundTold => d < count /\ count > 1

EventsFit(d) ==
  \A e \in Around :
    /\ e.n = d => e.type = "task_resumed"
    /\ e.n > d => e.type \in {"step_start", "task_created"} \/ (RoundTold /\ e.n = count)
    /\ RoundTold /\ e.n = count =>
         e.type = IF rec.status = "FAILED" THEN "task_failed" ELSE "task_interrupted"

NothingIsMissed(d) ==
  stream.on =>
    /\ \A j \in 0..Len(Frames) : j < Len(Frames) => Follows(d, Place(j), Place(j + 1))
    /\ (\A p \in Publishers : handing[p] = <<>>) => Place(Len(Frames)) = count
    /\ \A p \in Publishers : handing[p] # <<>> =>
         handing[p][1].n = count /\ Follows(d, Place(Len(Frames)), count)

ViewFollows(d) ==
  seen >= d =>
    /\ \/ view.status \in Live \cup {"none"}
       \/ RoundEnded /\ view.status = rec.status /\ Settled
    /\ RoundTold /\ seen = count => Settled

Flow(d) == EndIsTold(d) /\ EventsFit(d) /\ NothingIsMissed(d) /\ ViewFollows(d)

\* A publisher hands on at a time.
LEMMA OneHands ==
  ASSUME RecordKept, RoundKept, caller \in {"idle", "claim", "resumed", "spawn"}
  PROVE  handing["worker"] = <<>> \/ handing["caller"] = <<>>
BY DEF RecordKept, RoundKept

\* The first round begins with the event of the task's creation.
LEMMA FlowStarts == Init => Flow(0)
<1> SUFFICES ASSUME Init PROVE Flow(0)
  OBVIOUS
<1>1. Frames = <<>> /\ Len(Frames) = 0 /\ \A p \in Publishers : handing[p] = <<>>
  BY DEF Init, Closed, Frames
<1>2. \A e \in Around : e = Event(1, "caller", "task_created", 0)
  BY <1>1 DEF Init, Around, Coming
<1>3. ~RoundTold /\ caller = "idle" /\ ~stream.on /\ view.status = "none"
  BY DEF Init, RoundTold, Closed, NoView, Snapshot
<1> QED
  BY <1>2, <1>3 DEF Flow, EndIsTold, EventsFit, NothingIsMissed, ViewFollows, Event

\* Who publishes in a round that nothing befalls.
LEMMA RoundPublishes ==
  ASSUME TypeInv, RecordKept, RoundKept, [Next]_vars, excuse' = {}, ~Continue
  PROVE  \/ count' = count /\ Around' \subseteq Around
         \/ /\ \/ StepStart /\ Publish("worker", "step_start", made + 1)
               \/ TellFailed /\ Publish("worker", "task_failed", 0) /\ rec.status = "FAILED"
               \/ /\ TellInterrupted /\ Publish("worker", "task_interrupted", 0)
                  /\ rec.status = "INTERRUPTED"
            /\ caller = "idle" /\ caller' = "idle"
         \/ TellResumed
<1>1. CASE Raises \/ Stop \/ StopTell
  BY <1>1 DEF Raises, Stop, StopTell, RoundKept
<1>2. CASE StepStart \/ TellFailed \/ TellInterrupted
  BY <1>2 DEF StepStart, TellFailed, TellInterrupted, RecordKept, RoundKept, TypeInv, ServerTyped
<1>3. CASE (\E p \in Publishers : Hand(p)) \/ Connect \/ Disconnect \/ Receive
  BY <1>3, AroundShrinks DEF Hand, Connect, Disconnect, Receive, busVars
<1>4. CASE \/ Serve \/ Answer \/ Start \/ Enter \/ Conclude \/ Teardown
           \/ Spawn \/ UNCHANGED vars
           \/ \E s \in Parked : Settle(s)
  <2>1. UNCHANGED <<busVars, stream>>
    BY <1>4 DEF Serve, Answer, Start, Enter, Conclude, Teardown, Spawn, Settle,
       vars, streamVars
  <2> QED
    BY <2>1, AroundShrinks DEF busVars
<1> QED
  BY <1>1, <1>2, <1>3, <1>4 DEF Next

\* A publication in the middle of a round, or at its end.
LEMMA FlowPublish ==
  ASSUME TypeInv, RecordKept, RoundKept, ViewKnown, [Next]_vars, excuse' = {},
         NEW d \in 0..count, Flow(d), caller = "idle", caller' = "idle",
         NEW t, NEW k,
         \/ StepStart /\ t = "step_start"
         \/ TellFailed /\ t = "task_failed" /\ rec.status = "FAILED"
         \/ TellInterrupted /\ t = "task_interrupted" /\ rec.status = "INTERRUPTED",
         Publish("worker", t, k)
  PROVE  Flow(d)'
<1> DEFINE e == Event(count + 1, "worker", t, k)
<1>0. /\ count \in Nat \ {0} /\ count' = count + 1 /\ seen \in 0..count
      /\ handing \in [Publishers -> Seq(Told)] /\ Publishers = {"worker", "caller"}
      /\ "worker" \in Publishers
      /\ UNCHANGED <<rec, stream, seen, tabVars>>
  BY DEF TypeInv, BusTyped, ViewKnown, Publish, StepStart, TellFailed, TellInterrupted, streamVars,
     Publishers
<1>1. Around' \subseteq Around \cup {e} /\ e.n = count + 1 /\ e.type = t
  BY <1>0, AroundGrows DEF Event
<1>2. /\ ~RoundTold /\ worker \in {"step", "failed", "claim"}
      /\ t = "step_start" => ~RoundTold' /\ ~RoundEnded /\ ~RoundEnded'
      /\ t # "step_start" => RoundTold' /\ RoundEnded /\ RoundEnded'
  BY DEF StepStart, TellFailed, TellInterrupted, RoundTold, RoundEnded
<1>3. \A x \in Around : x.n \in 1..count
  BY AroundIsTold
<1>4. EndIsTold(d)'
  BY <1>0 DEF EndIsTold
<1>5. EventsFit(d)'
  <2> SUFFICES ASSUME NEW x \in Around'
               PROVE  /\ x.n = d => x.type = "task_resumed"
                      /\ x.n > d => \/ x.type \in {"step_start", "task_created"}
                                    \/ RoundTold' /\ x.n = count'
                      /\ RoundTold' /\ x.n = count' =>
                           x.type = IF rec'.status = "FAILED" THEN "task_failed" ELSE "task_interrupted"
    BY DEF EventsFit
  <2>1. CASE x \in Around
    BY <1>0, <1>2, <1>3, <2>1 DEF Flow, EventsFit
  <2>2. CASE x = e
    <3>1. x.n = count + 1 /\ x.type = t
      BY <1>1, <2>2
    <3> QED
      BY <1>0, <1>2, <3>1
  <2> QED
    BY <1>1, <2>1, <2>2
<1>6. NothingIsMissed(d)'
  <2> SUFFICES ASSUME stream.on PROVE NothingIsMissed(d)'
    BY <1>0 DEF NothingIsMissed
  <2>1. /\ handing["caller"] = <<>> /\ handing["worker"] = <<>>
        /\ handing' = [handing EXCEPT !["worker"] = <<e>>]
    BY <1>0 DEF Publish, Registered, RoundKept
  <2>2. handing'["worker"][1] = e /\ handing'["worker"] # <<>> /\ handing'["caller"] = <<>>
    BY <1>0, <2>1
  <2>3. Frames' = Frames /\ \A j : Place(j)' = Place(j)
    BY <1>0 DEF Frames, Place
  <2>4. Place(Len(Frames)) = count
    BY <1>0, <2>1 DEF Flow, NothingIsMissed
  <2> QED
    BY <1>0, <1>1, <2>2, <2>3, <2>4 DEF Flow, NothingIsMissed, Follows
<1>7. ViewFollows(d)'
  <2>1. CASE t = "step_start"
    BY <1>0, <1>2, <2>1 DEF Flow, ViewFollows, tabVars
  <2>2. CASE t # "step_start"
    <3>1. Record' = Record /\ rounds' = rounds
      BY <1>0 DEF Record, TellFailed, TellInterrupted, StepStart
    <3>2. Settled => Settled'
      BY <1>0, <1>2, <2>2, <3>1 DEF Settled, Healed, Healing, Harmless, Brings, tabVars, NoView,
         Snapshot
    <3> QED
      BY <1>0, <1>2, <2>2, <3>2 DEF Flow, ViewFollows, tabVars
  <2> QED
    BY <2>1, <2>2
<1> QED
  BY <1>4, <1>5, <1>6, <1>7 DEF Flow

\* A continuation begins a round with its event.
LEMMA FlowResumes ==
  ASSUME TypeInv, RecordKept, ViewKnown, TellResumed, NEW d \in Nat, d = count + 1
  PROVE  Flow(d)'
<1> DEFINE e == Event(count + 1, "caller", "task_resumed", 0)
<1>0. /\ count \in Nat \ {0} /\ count' = count + 1 /\ seen \in 0..count
      /\ handing \in [Publishers -> Seq(Told)] /\ Publishers = {"worker", "caller"}
      /\ "caller" \in Publishers /\ caller' = "spawn" /\ handing["worker"] = <<>>
      /\ UNCHANGED <<rec, stream, seen, tabVars>> /\ Publish("caller", "task_resumed", 0)
  BY DEF TypeInv, BusTyped, ViewKnown, Publish, TellResumed, streamVars, Publishers, RecordKept
<1>1. Around' \subseteq Around \cup {e} /\ e.n = count + 1 /\ e.type = "task_resumed"
  BY <1>0, AroundGrows DEF Event
<1>2. \A x \in Around : x.n \in 1..count
  BY AroundIsTold
<1>3. ~RoundTold'
  BY <1>0 DEF RoundTold
<1>4. \A x \in Around' : x.n <= d /\ (x.n = d => x.type = "task_resumed")
  <2> SUFFICES ASSUME NEW x \in Around'
               PROVE  x.n <= d /\ (x.n = d => x.type = "task_resumed")
    OBVIOUS
  <2>1. CASE x \in Around
    BY <1>0, <1>2, <2>1
  <2>2. CASE x = e
    BY <1>0, <1>1, <2>2
  <2> QED
    BY <1>1, <2>1, <2>2
<1>5. \A x \in Around' : x.n \in Nat
  <2> SUFFICES ASSUME NEW x \in Around' PROVE x.n \in Nat
    OBVIOUS
  <2>1. CASE x \in Around
    BY <1>0, <1>2, <2>1
  <2>2. CASE x = e
    BY <1>0, <1>1, <2>2
  <2> QED
    BY <1>1, <2>1, <2>2
<1>6. EndIsTold(d)' /\ EventsFit(d)'
  BY <1>0, <1>3, <1>4, <1>5 DEF EndIsTold, EventsFit
<1>7. NothingIsMissed(d)'
  <2> SUFFICES ASSUME stream.on PROVE NothingIsMissed(d)'
    BY <1>0 DEF NothingIsMissed
  <2>1. /\ handing'["worker"] = <<>> /\ handing'["caller"] = <<e>>
    BY <1>0 DEF Publish, Registered
  <2>2. handing'["caller"][1] = e /\ handing'["caller"] # <<>>
    BY <2>1
  <2>3. Frames' = Frames /\ Len(Frames) \in Nat /\ \A j \in 1..Len(Frames) : Frames[j].n \in 1..count
    <3>1. Frames' = Frames /\ Len(Frames) \in Nat
      BY <1>0, FramesAreTold DEF Frames
    <3>2. \A j \in 1..Len(Frames) : Frames[j] \in Around
      BY DEF Around, Coming
    <3> QED
      BY <1>2, <3>1, <3>2
  <2>4. \A j \in 0..Len(Frames) : j < Len(Frames) => Place(j + 1)' <= d
    BY <1>0, <2>3 DEF Place
  <2> QED
    BY <1>0, <1>1, <2>1, <2>2, <2>3, <2>4 DEF NothingIsMissed, Follows
<1>8. ViewFollows(d)'
  BY <1>0 DEF ViewFollows
<1> QED
  BY <1>6, <1>7, <1>8 DEF Flow

-----------------------------------------------------------------------------
(* A settled view stays settled.                                           *)

\* Once the round has ended, no answer takes a settled view back, and none is lost.
LEMMA SettledStays ==
  ASSUME TypeInv, RecordKept, RoundKept, FoundRound, FoundKept, AnswersInOrder, StepsKept,
         [Next]_vars, excuse = {}, excuse' = {}, ~Continue, ~Receive, RoundEnded, Settled
  PROVE  Settled'
<1>0. /\ RoundEnded' /\ rec' = rec /\ Record' = Record /\ ~RoundOpen
      /\ Len(gets) \in Nat /\ Len(gets') \in Nat
  BY RoundMoves, TypeNext, GetsTyped DEF Record, RoundEnded, RoundOpen, TypeInv, TabTyped
<1>1. ASSUME NEW k \in 1..Len(gets)
      PROVE  \A g : g = gets[k] => /\ Harmless(g) => Harmless(g)'
                                   /\ Brings(g) => Brings(g)'
  BY HarmlessStays, GetsTyped DEF FoundRound
<1>2. ASSUME NEW g, g.found = NoView PROVE Harmless(g)'
  <2>1. Harmless(g) /\ rounds' = rounds /\ rounds \in Nat \ {0} /\ g.found.said = 0
    BY <1>2, NothingIsHarmless, RoundMoves, RecordIs DEF TypeInv, ServerTyped
  <2> QED
    BY <2>1 DEF Harmless
<1>3. ASSUME NEW g, g.found = Record PROVE Harmless(g)' /\ Brings(g)'
  BY <1>0, <1>3 DEF Harmless, Brings
<1>4. ASSUME view' = Record,
             \A k \in 1..Len(gets') : \A g : g = gets'[k] => Harmless(g)'
      PROVE  Settled'
  BY <1>0, <1>4 DEF Settled, Healed
<1>5. ASSUME NEW k \in 1..Len(gets'), NEW g, g = gets'[k], g.kind # "status", Brings(g)'
      PROVE  Settled'
  BY <1>5 DEF Settled, Healing
<1>6. CASE gets' = gets /\ ~Answer
  <2>1. view' = view
    BY <1>6 DEF Next, vars, tabVars, Hand, Connect, Disconnect, Serve, Start, Enter, StepStart,
       Raises, Settle, Conclude, TellFailed, TellInterrupted, Teardown, Stop, StopTell, Continue,
       TellResumed, Spawn
  <2>2. CASE Healed
    BY <1>1, <1>4, <1>6, <2>1, <2>2 DEF Healed
  <2>3. CASE Healing
    <3>1. PICK k \in 1..Len(gets) : gets[k].kind # "status" /\ Brings(gets[k])
      BY <2>3 DEF Healing
    <3> QED
      BY <1>1, <1>5, <1>6, <3>1
  <2> QED
    BY <2>2, <2>3 DEF Settled
<1>7. CASE Spawn
  BY <1>7 DEF Spawn, RoundEnded
<1>8. CASE /\ Serve /\ Len(gets') = Len(gets)
           /\ \E i \in 1..Len(gets) :
                /\ gets[i].found = NoView /\ gets'[i].found = Record
                /\ gets'[i].kind = gets[i].kind
                /\ \A j \in 1..Len(gets) : j < i => gets[j].found # NoView
                /\ \A j \in 1..Len(gets) : j # i => gets'[j] = gets[j]
  <2>1. PICK i \in 1..Len(gets) : /\ gets'[i].found = Record /\ gets'[i].kind = gets[i].kind
                                  /\ \A j \in 1..Len(gets) : j # i => gets'[j] = gets[j]
    BY <1>8
  <2>2. view' = view
    BY <1>8 DEF Serve
  <2>3. CASE Healed
    <3>1. ASSUME NEW k \in 1..Len(gets'), NEW g, g = gets'[k] PROVE Harmless(g)'
      <4>1. CASE k = i
        BY <1>3, <2>1, <3>1, <4>1
      <4>2. CASE k # i
        BY <1>1, <1>8, <2>1, <2>3, <3>1, <4>2 DEF Healed
      <4> QED
        BY <4>1, <4>2
    <3> QED
      BY <1>4, <2>2, <2>3, <3>1 DEF Healed
  <2>4. CASE Healing
    <3>1. PICK k \in 1..Len(gets) : gets[k].kind # "status" /\ Brings(gets[k])
      BY <2>4 DEF Healing
    <3>2. CASE k = i
      <4>1. \A g : g = gets'[k] => g.kind # "status" /\ Brings(g)'
        BY <1>3, <2>1, <3>1, <3>2
      <4> QED
        BY <1>5, <1>8, <4>1
    <3>3. CASE k # i
      <4>1. \A g : g = gets'[k] => g.kind # "status" /\ Brings(g)'
        BY <1>1, <2>1, <3>1, <3>3
      <4> QED
        BY <1>5, <1>8, <4>1
    <3> QED
      BY <3>2, <3>3
  <2> QED
    BY <2>3, <2>4 DEF Settled
<1>9. CASE Answer
  <2>1. /\ gets[1] \in Requests /\ gets[1].found \in Shown /\ 1 \in 1..Len(gets)
        /\ FoundNow(gets[1].found) /\ gets[1].found # NoView
        /\ gets[1].found.said \in {2 * rounds - 1, 2 * rounds}
    BY <1>9, AnswerIs
  <2>2. /\ view' = IF gets[1].kind = "status" THEN StatusMerged(view, gets[1].found)
                                              ELSE Merged(view, gets[1].found)
        /\ Len(gets) - 1 <= Len(gets')
        /\ \A k \in 1..Len(gets) - 1 : gets'[k] = gets[k + 1]
        /\ \A k \in 1..Len(gets') : k > Len(gets) - 1 => gets'[k].found = NoView
    BY <1>9, AnswerShows
  <2>3. ASSUME \A k \in 1..Len(gets) : k > 1 => Harmless(gets[k])
        PROVE  \A k \in 1..Len(gets') : \A g : g = gets'[k] => Harmless(g)'
    <3> SUFFICES ASSUME NEW k \in 1..Len(gets'), NEW g, g = gets'[k] PROVE Harmless(g)'
      OBVIOUS
    <3>1. CASE k > Len(gets) - 1
      BY <1>2, <2>2, <3>1
    <3>2. CASE ~(k > Len(gets) - 1)
      <4>1. k \in 1..Len(gets) - 1 /\ k + 1 \in 1..Len(gets) /\ k + 1 > 1
        BY <1>0, <3>2
      <4> QED
        BY <1>1, <2>2, <2>3, <4>1
    <3> QED
      BY <3>1, <3>2
  <2>4. CASE Healed
    <3>1. view = Record /\ Harmless(gets[1]) /\ view # NoView
      BY <2>1, <2>4, RecordIs DEF Healed, TypeInv, ServerTyped
    <3>2. view' = Record
      <4>1. CASE gets[1].found = Record
        <5>1. [view EXCEPT !.status = Record.status] = view
          BY <3>1, RecordIs
        <5> QED
          BY <2>2, <3>1, <4>1, <5>1 DEF StatusMerged, Merged
      <4>2. CASE gets[1].found.said < 2 * rounds - 1
        BY <2>1, <4>2 DEF TypeInv, ServerTyped
      <4>3. CASE gets[1].kind # "status" /\ gets[1].found.said = 2 * rounds - 1
        <5>1. Cardinality(gets[1].found.steps) < made
          BY <1>0, <2>1, <4>3 DEF FoundNow
        <5>2. Cardinality(view.steps) = made /\ made \in Nat
          BY <1>0, <3>1, RecordIs DEF RoundKept
        <5>3. Cardinality(gets[1].found.steps) \in Nat
          BY <2>1, ShownSteps
        <5> QED
          BY <2>2, <3>1, <4>3, <5>1, <5>2, <5>3 DEF Merged
      <4> QED
        BY <3>1, <4>1, <4>2, <4>3 DEF Harmless
    <3> QED
      BY <1>4, <2>3, <2>4, <3>2 DEF Healed
  <2>5. CASE Healing
    <3>1. PICK k \in 1..Len(gets) : gets[k].kind # "status" /\ Brings(gets[k])
      BY <2>5 DEF Healing
    <3>2. CASE k = 1
      <4>1. gets[1].found = Record /\ gets[1].kind # "status" /\ Brings(gets[1])
        BY <2>1, <3>1, <3>2 DEF Brings
      <4>2. Record.said = 2 * rounds
        BY <1>0, RecordIs DEF RoundKept
      <4>3. view' = Record
        BY <2>1, <2>2, <4>1, <4>2, MergesAll
      <4>4. \A j \in 1..Len(gets) : j > 1 => Harmless(gets[j])
        BY <2>1, <4>1 DEF AnswersInOrder
      <4> QED
        BY <1>4, <2>3, <4>3, <4>4
    <3>3. CASE k # 1
      <4>1. k - 1 \in 1..Len(gets) - 1 /\ k - 1 \in 1..Len(gets') /\ (k - 1) + 1 = k
        BY <1>0, <2>2, <3>3
      <4>2. \A g : g = gets'[k - 1] => g.kind # "status" /\ Brings(g)'
        BY <1>1, <2>2, <3>1, <4>1
      <4> QED
        BY <1>5, <4>1, <4>2
    <3> QED
      BY <3>2, <3>3
  <2> QED
    BY <2>4, <2>5 DEF Settled
<1> QED
  BY <1>6, <1>7, <1>8, <1>9, GetsMove

\* The record's status alone, brought to a view that shows the round running, heals it too.
LEMMA AnswerSettles ==
  ASSUME TypeInv, RecordKept, RoundKept, FoundRound, FoundKept, AnswersInOrder, StepsKept,
         MarkRound, ViewKnown, Answer, excuse = {}, excuse' = {}, RoundEnded,
         gets[1].found = Record, view.status \in Live \cup {"none"}
  PROVE  Settled'
<1>0. /\ [Next]_vars /\ ~Continue /\ rounds \in Nat \ {0} /\ Len(gets) \in Nat /\ Len(gets') \in Nat
      /\ gets[1] \in Requests /\ 1 \in 1..Len(gets) /\ mark \in Statuses \cup {"none"}
  <2>1. [Next]_vars /\ rounds \in Nat \ {0}
    BY DEF Next, TypeInv, ServerTyped
  <2>2. ~Continue
    BY <2>1 DEF Answer, Continue
  <2> QED
    BY <2>1, <2>2, TypeNext, GetsTyped, AnswerShows DEF TypeInv, TabTyped
<1>1. /\ RoundEnded' /\ Record' = Record /\ rounds' = rounds /\ ~RoundOpen
      /\ Record.status = rec.status /\ rec.status \in Parked /\ Record.said = 2 * rounds
  BY <1>0, RoundMoves, RecordIs DEF Record, RoundEnded, RoundOpen, RoundKept
<1>2. /\ view' = IF gets[1].kind = "status" THEN StatusMerged(view, Record)
                                            ELSE Merged(view, Record)
      /\ Len(gets) - 1 <= Len(gets')
      /\ \A k \in 1..Len(gets) - 1 : gets'[k] = gets[k + 1]
      /\ \A k \in 1..Len(gets') : k > Len(gets) - 1 => gets'[k].found = NoView
      /\ view'.status # view.status /\ gets[1].kind # "first" /\ TurnsParked(mark, view'.status) =>
           Len(gets') > Len(gets) - 1 /\ gets'[Len(gets')].kind = "pull"
  BY AnswerShows
<1>3. ASSUME view' = Record PROVE Settled'
  <2>1. ASSUME NEW g, g.found = NoView PROVE Harmless(g)'
    <3>1. Harmless(g) /\ g.found.said = 0
      BY <2>1, NothingIsHarmless, RecordIs
    <3> QED
      BY <1>0, <1>1, <3>1 DEF Harmless
  <2>2. \A k \in 1..Len(gets) : k > 1 => Harmless(gets[k])
    BY <1>0 DEF AnswersInOrder, Brings
  <2>3. ASSUME NEW k \in 1..Len(gets') PROVE \A g : g = gets'[k] => Harmless(g)'
    <3>1. CASE k > Len(gets) - 1
      BY <1>2, <2>1, <3>1
    <3>2. CASE ~(k > Len(gets) - 1)
      <4>1. k \in 1..Len(gets) - 1 /\ k + 1 \in 1..Len(gets) /\ k + 1 > 1
        BY <1>0, <3>2
      <4>2. gets[k + 1] \in Requests /\ FoundNow(gets[k + 1].found) /\ Harmless(gets[k + 1])
        BY <2>2, <4>1, GetsTyped DEF FoundRound
      <4> QED
        BY <1>0, <1>2, <4>1, <4>2, HarmlessStays
    <3> QED
      BY <3>1, <3>2
  <2> QED
    BY <1>1, <1>3, <2>3 DEF Settled, Healed
<1>4. CASE gets[1].kind # "status"
  <2>1. Merged(view, Record) = Record
    BY <1>1, MergesAll, RecordIs, RecordIsFound DEF TypeInv, ServerTyped
  <2> QED
    BY <1>2, <1>3, <1>4, <2>1
<1>5. CASE gets[1].kind = "status" /\ view = NoView
  BY <1>2, <1>3, <1>5 DEF StatusMerged
<1>6. CASE gets[1].kind = "status" /\ view # NoView
  <2>1. view.status \in Live /\ mark \in Live
    BY <1>6 DEF ViewKnown, MarkRound
  <2>2. view'.status = rec.status
    BY <1>1, <1>2, <1>6 DEF StatusMerged, TypeInv, TabTyped, Snapshots
  <2>3. view'.status # view.status /\ TurnsParked(mark, view'.status)
    BY <1>1, <2>1, <2>2 DEF TurnsParked, Live, Parked
  <2>4. /\ Len(gets') \in 1..Len(gets') /\ gets'[Len(gets')].kind = "pull"
        /\ gets'[Len(gets')].found = NoView
    BY <1>0, <1>2, <1>6, <2>3
  <2>5. \A k \in 1..Len(gets') : \A g : g = gets'[k] =>
          (g.kind # "status" /\ g.found = NoView => Settled')
    BY DEF Settled, Healing, Brings, NoView, Snapshot
  <2> QED
    BY <2>4, <2>5
<1> QED
  BY <1>4, <1>5, <1>6

-----------------------------------------------------------------------------
(* The flow of a round's events, step by step.                             *)

\* A step that publishes nothing keeps what is known of the round's events.
LEMMA FlowQuiet ==
  ASSUME TypeInv, RecordKept, RoundKept, [Next]_vars, excuse' = {}, ~Continue,
         count' = count, Around' \subseteq Around, NEW d \in 0..count, Flow(d)
  PROVE  EndIsTold(d)' /\ EventsFit(d)'
<1>0. count \in Nat
  BY DEF TypeInv, BusTyped
<1>1. /\ RoundEnded => RoundEnded' /\ rec' = rec
      /\ RoundTold => RoundTold'
      /\ ~RoundTold /\ RoundTold' => TellFailed \/ (TellInterrupted /\ Publish("worker", "task_interrupted", 0))
  BY RoundMoves
<1>2. RoundTold' => RoundTold
  BY <1>0, <1>1 DEF TellFailed, Publish
<1>3. caller' = "spawn" => caller = "spawn"
  <2>1. ~TellResumed
    BY <1>0 DEF TellResumed, Publish
  <2> QED
    BY <2>1 DEF Next, vars, serverVars, Hand, Connect, Disconnect, Receive, Serve, Answer, Start,
       Enter, StepStart, Raises, Settle, Conclude, TellFailed, TellInterrupted, Teardown, Stop,
       StopTell, Continue, Spawn
<1>4. RoundTold => RoundEnded
  BY DEF RoundTold, RoundEnded
<1> QED
  BY <1>1, <1>2, <1>3, <1>4 DEF Flow, EndIsTold, EventsFit

\* Where the stream's events stand once nobody holds one.
LEMMA PlacesNext ==
  ASSUME NEW d, NEW n, n = Len(Frames'), \A p \in Publishers : handing'[p] = <<>>,
         \A j \in 0..n : j < n => Follows(d, Place(j)', Place(j + 1)'),
         Place(n)' = count'
  PROVE  NothingIsMissed(d)'
BY DEF NothingIsMissed, Place, Follows

\* What a publisher hands on comes behind the stream's events.
LEMMA FlowHand ==
  ASSUME TypeInv, RecordKept, RoundKept, NEW p \in Publishers, Hand(p), excuse' = {},
         NEW d \in 0..count, Flow(d)
  PROVE  NothingIsMissed(d)'
<1>0. /\ Fits /\ handing[p] # <<>> /\ handing' = [handing EXCEPT ![p] = <<>>] /\ count' = count
      /\ stream.on /\ stream'.on /\ Len(Frames') = Len(Frames) + 1 /\ seen' = seen
      /\ \A k \in 1..Len(Frames) : Frames'[k] = Frames[k]
      /\ Frames'[Len(Frames')] = handing[p][1] /\ Len(Frames) \in Nat
      /\ handing \in [Publishers -> Seq(Told)]
  <2>1. Fits
    BY DEF Hand, Fits
  <2> QED
    BY <2>1, HandedFrames, FramesAreTold DEF Hand, TypeInv, BusTyped
<1>1. \A q \in Publishers : handing'[q] = <<>>
  BY <1>0, OneHands DEF Publishers, TypeInv, ServerTyped
<1>2. handing[p][1].n = count /\ Follows(d, Place(Len(Frames)), count)
  BY <1>0 DEF Flow, NothingIsMissed
<1> SUFFICES ASSUME NEW n \in Nat, n = Len(Frames) PROVE NothingIsMissed(d)'
  BY <1>0
<1>3. \A j \in 0..n : Place(j)' = Place(j)
  BY <1>0 DEF Place
<1>4. Place(n + 1)' = count
  BY <1>0, <1>2 DEF Place
<1>5. ASSUME NEW j \in 0..n + 1, j < n + 1
      PROVE  Follows(d, Place(j)', Place(j + 1)')
  <2>1. CASE j < n
    <3>1. j \in 0..n /\ j + 1 \in 0..n /\ Follows(d, Place(j), Place(j + 1))
      BY <1>0, <2>1 DEF Flow, NothingIsMissed
    <3> QED
      BY <1>3, <3>1
  <2>2. CASE j = n
    BY <1>2, <1>3, <1>4, <2>2 DEF Follows
  <2> QED
    BY <1>5, <2>1, <2>2
<1> QED
  BY <1>0, <1>1, <1>4, <1>5, PlacesNext

\* A stream begins with the buffer, which ends with the last event.
LEMMA FlowConnect ==
  ASSUME TypeInv, ViewKnown, Connect, excuse' = {}, NEW d \in 0..count
  PROVE  NothingIsMissed(d)'
<1>0. /\ count \in Nat /\ count' = count /\ seen' = seen /\ seen \in 0..count
      /\ buffer \in Seq(Told) /\ Len(buffer) \in Nat /\ Len(buffer) >= 1
      /\ \A i \in 1..Len(buffer) : buffer[i].n = count - Len(buffer) + i
      /\ \A p \in Publishers : handing'[p] = <<>>
  BY ViewAssumption DEF TypeInv, BusTyped, StreamTyped, Connect, busVars, ViewKnown
<1>1. Frames' = buffer
  <2>1. stream'.history = buffer /\ stream'.queue = <<>>
    BY DEF Connect, Closed
  <2> QED
    BY <1>0, <2>1 DEF Frames
<1>2. buffer[1].n <= seen + 1
  <2>1. Head(buffer) = buffer[1]
    BY <1>0
  <2>2. ~(Head(buffer).n > seen + 1)
    BY DEF Connect
  <2> QED
    BY <1>0, <2>1, <2>2
<1> SUFFICES ASSUME NEW n \in Nat, n = Len(buffer) PROVE NothingIsMissed(d)'
  BY <1>0
<1>3. \A j \in 1..n : Place(j)' = count - n + j
  BY <1>0, <1>1 DEF Place
<1>4. Place(0)' = seen
  BY <1>0 DEF Place
<1>5. ASSUME NEW j \in 0..n, j < n
      PROVE  Follows(d, Place(j)', Place(j + 1)')
  <2>1. CASE j = 0
    <3>1. Place(1)' = buffer[1].n
      BY <1>0, <1>1 DEF Place
    <3> QED
      BY <1>2, <1>4, <2>1, <3>1 DEF Follows
  <2>2. CASE j # 0
    <3>1. j \in 1..n /\ j + 1 \in 1..n
      BY <1>5, <2>2
    <3>2. Place(j)' = count - n + j /\ Place(j + 1)' = count - n + (j + 1)
      BY <1>3, <3>1
    <3> QED
      BY <1>0, <3>1, <3>2 DEF Follows
  <2> QED
    BY <2>1, <2>2
<1>6. Place(n)' = count
  <2>1. n \in 1..n
    BY <1>0
  <2>2. Place(n)' = count - n + n
    BY <1>3, <2>1
  <2> QED
    BY <1>0, <2>2
<1> QED
  BY <1>0, <1>1, <1>5, <1>6, PlacesNext

\* What the tab receives is the first of them.
LEMMA FlowShift ==
  ASSUME TypeInv, Receive, NEW d \in 0..count, Flow(d)
  PROVE  NothingIsMissed(d)'
<1>0. /\ stream.on /\ UNCHANGED <<handing, count>> /\ Len(Frames) \in Nat
      /\ 1 \in 1..Len(Frames) /\ Len(Frames') = Len(Frames) - 1
      /\ \A k \in 1..Len(Frames') : Frames'[k] = Frames[k + 1]
      /\ seen' = Frames[1].n
  BY SentFrames, FramesAreTold, ReceiveShows DEF Receive, busVars
<1>1. \A j \in 0..Len(Frames') : Place(j)' = Place(j + 1)
  BY <1>0 DEF Place
<1>2. ASSUME NEW j \in 0..Len(Frames'), j < Len(Frames')
      PROVE  Follows(d, Place(j)', Place(j + 1)')
  <2>1. j + 1 \in 0..Len(Frames) /\ j + 1 < Len(Frames) /\ j + 1 \in 0..Len(Frames')
    BY <1>0, <1>2
  <2> QED
    BY <1>0, <1>1, <2>1 DEF Flow, NothingIsMissed
<1>3. ASSUME NEW l, l = Len(Frames') PROVE Place(l)' = Place(Len(Frames))
  BY <1>0, <1>1, <1>3
<1> QED
  BY <1>0, <1>2, <1>3 DEF Flow, NothingIsMissed, Follows

-----------------------------------------------------------------------------
(* The view along the flow.                                                *)

\* What an event of the round does to the view's status.
LEMMA AppliedStatus ==
  ASSUME NEW v \in Snapshots, NEW e,
         v.status = "none" => v = NoView
  PROVE  /\ e.type = "task_resumed" => Applied(v, e).status = "RUNNING"
         /\ e.type = "task_failed" => Applied(v, e).status = "FAILED"
         /\ e.type = "task_interrupted" => Applied(v, e).status = "INTERRUPTED"
         /\ e.type \in {"step_start", "task_created"} =>
              Applied(v, e).status = IF v = NoView THEN "PENDING" ELSE v.status
         /\ v # NoView /\ (e.type = "step_start" => e.index \in v.steps)
              /\ (e.type = "task_failed" => v.status = "FAILED")
              /\ (e.type = "task_interrupted" => v.status = "INTERRUPTED")
              /\ e.type # "task_resumed" => Applied(v, e) = v
<1> DEFINE t == IF v = NoView THEN [v EXCEPT !.status = "PENDING"] ELSE v
<1>1. Applied(v, e) = CASE e.type = "step_start"       -> [t EXCEPT !.steps = @ \cup {e.index}]
                        [] e.type = "task_interrupted" -> [t EXCEPT !.status = "INTERRUPTED"]
                        [] e.type = "task_failed"      -> [t EXCEPT !.status = "FAILED"]
                        [] e.type = "task_resumed"     -> [t EXCEPT !.status = "RUNNING"]
                        [] OTHER                       -> t
  BY DEF Applied
<1>2. /\ v = [status |-> v.status, steps |-> v.steps, said |-> v.said]
      /\ t = [status |-> t.status, steps |-> t.steps, said |-> t.said]
      /\ t.status = IF v = NoView THEN "PENDING" ELSE v.status
      /\ v # NoView => t = v
  BY DEF Snapshots
<1> HIDE DEF t
<1>3. ASSUME NEW w, w = Applied(v, e)
      PROVE  /\ e.type = "task_resumed" => w.status = "RUNNING"
             /\ e.type = "task_failed" => w.status = "FAILED"
             /\ e.type = "task_interrupted" => w.status = "INTERRUPTED"
             /\ e.type \in {"step_start", "task_created"} => w.status = t.status
  BY <1>1, <1>2, <1>3
<1>4. ASSUME v # NoView, e.type = "step_start" => e.index \in v.steps,
             e.type = "task_failed" => v.status = "FAILED",
             e.type = "task_interrupted" => v.status = "INTERRUPTED",
             e.type # "task_resumed"
      PROVE  Applied(v, e) = v
  <2>0. t = v
    BY <1>2, <1>4
  <2>1. CASE e.type = "step_start"
    <3>1. v.steps \cup {e.index} = v.steps
      BY <1>4, <2>1
    <3> QED
      BY <1>1, <1>2, <2>0, <2>1, <3>1
  <2>2. CASE e.type # "step_start"
    BY <1>1, <1>2, <1>4, <2>0, <2>2
  <2> QED
    BY <2>1, <2>2
<1> QED
  BY <1>2, <1>3, <1>4

\* What the tab receives does not lead its view astray, and a parking event makes it ask.
LEMMA FlowReceive ==
  ASSUME TypeInv, RecordKept, RoundKept, StepsKept, ViewKnown, MarkRound,
         Receive, excuse = {}, NEW d \in 0..count, Flow(d)
  PROVE  ViewFollows(d)'
<1> DEFINE e == Frames[1]
<1>0. /\ count \in Nat \ {0} /\ count' = count /\ seen \in 0..count /\ view \in Snapshots
      /\ view.status = "none" => view = NoView
      /\ UNCHANGED <<rec, made, rounds, worker, caller>>
      /\ mark \in Statuses \cup {"none"} /\ view.status \in Statuses \cup {"none"}
  BY DEF TypeInv, BusTyped, TabTyped, ViewKnown, Receive, busVars, serverVars, Snapshots
<1>1. /\ view' = Applied(view, e) /\ seen' = e.n
      /\ Len(gets) \in Nat /\ Len(gets') \in Nat /\ Len(gets) <= Len(gets')
      /\ \A k \in 1..Len(gets) : gets'[k] = gets[k]
      /\ \A k \in 1..Len(gets') : k > Len(gets) => gets'[k].found = NoView
      /\ view'.status # view.status /\ TurnsParked(mark, view'.status) =>
           Len(gets') > Len(gets) /\ gets'[Len(gets')].kind = "pull"
  BY ReceiveShows
<1>2. e \in Around /\ e.n \in 1..count
  BY ReceiveShows, AroundIsTold DEF Around
<1>3. e.n <= seen + 1 \/ e.n <= d
  <2>1. Len(Frames) \in Nat /\ 1 \in 1..Len(Frames) /\ stream.on
    BY SentFrames, FramesAreTold DEF Receive
  <2>2. Follows(d, Place(0), Place(1))
    <3>1. 0 \in 0..Len(Frames) /\ 0 < Len(Frames) /\ 0 + 1 = 1
      BY <2>1
    <3> QED
      BY <2>1, <3>1 DEF Flow, NothingIsMissed
  <2> QED
    BY <2>2 DEF Follows, Place
<1> HIDE DEF e
<1>4. /\ e.n = d => e.type = "task_resumed"
      /\ e.n > d => e.type \in {"step_start", "task_created"} \/ (RoundTold /\ e.n = count)
      /\ RoundTold /\ e.n = count =>
           e.type = IF rec.status = "FAILED" THEN "task_failed" ELSE "task_interrupted"
      /\ RoundTold => d < count /\ count > 1
  BY <1>2 DEF Flow, EventsFit, EndIsTold
<1>5. RoundEnded' = RoundEnded /\ RoundTold' = RoundTold /\ Record' = Record /\ rec'.status = rec.status
  BY <1>0 DEF RoundEnded, RoundTold, Record
<1>6. RoundTold => RoundEnded
  BY DEF RoundTold, RoundEnded
<1>7. ASSUME Settled, RoundEnded, view' = view \/ ~Healed PROVE Settled'
  <2>1. CASE Healed
    <3>1. ASSUME NEW k \in 1..Len(gets'), NEW g, g = gets'[k] PROVE Harmless(g)'
      <4>1. CASE k > Len(gets)
        <5>1. Harmless(g)
          BY <1>1, <3>1, <4>1, NothingIsHarmless
        <5> QED
          BY <1>0, <1>5, <5>1 DEF Harmless
      <4>2. CASE ~(k > Len(gets))
        <5>1. k \in 1..Len(gets) /\ g = gets[k]
          BY <1>1, <3>1, <4>2
        <5>2. Harmless(g)
          BY <2>1, <5>1 DEF Healed
        <5> QED
          BY <1>0, <1>5, <5>2 DEF Harmless
      <4> QED
        BY <4>1, <4>2
    <3> QED
      BY <1>5, <1>7, <2>1, <3>1 DEF Settled, Healed
  <2>2. CASE Healing
    <3>1. PICK k \in 1..Len(gets) : gets[k].kind # "status" /\ Brings(gets[k])
      BY <2>2 DEF Healing
    <3>2. k \in 1..Len(gets') /\ gets'[k] = gets[k]
      BY <1>1
    <3>3. \A g : Brings(g) => Brings(g)'
      BY <1>5 DEF Brings, NoView, Snapshot
    <3> QED
      BY <3>1, <3>2, <3>3 DEF Settled, Healing
  <2> QED
    BY <1>7, <2>1, <2>2 DEF Settled
<1>8. ASSUME view.status \in Live, view'.status \in Parked PROVE Settled'
  <2>1. view'.status # view.status /\ TurnsParked(mark, view'.status)
    BY <1>8 DEF MarkRound, TurnsParked, Live, Parked
  <2>2. /\ Len(gets') \in 1..Len(gets') /\ gets'[Len(gets')].kind = "pull"
        /\ gets'[Len(gets')].found = NoView
    BY <1>1, <2>1
  <2>3. \A k \in 1..Len(gets') : \A g : g = gets'[k] =>
          (g.kind # "status" /\ g.found = NoView => Settled')
    BY DEF Settled, Healing, Brings, NoView, Snapshot
  <2> QED
    BY <2>2, <2>3
<1> SUFFICES ASSUME e.n >= d
             PROVE  /\ \/ view'.status \in Live \cup {"none"}
                       \/ RoundEnded /\ view'.status = rec.status /\ Settled'
                    /\ RoundTold /\ e.n = count => Settled'
  <2>1. ASSUME seen' >= d =>
                 /\ \/ view'.status \in Live \cup {"none"}
                    \/ RoundEnded' /\ view'.status = rec'.status /\ Settled'
                 /\ RoundTold' /\ seen' = count' => Settled'
        PROVE  ViewFollows(d)'
    BY <2>1 DEF ViewFollows
  <2> QED
    BY <1>0, <1>1, <1>5, <2>1
<1>9. CASE e.n = d
  <2>1. view'.status = "RUNNING"
    BY <1>0, <1>1, <1>4, <1>9, AppliedStatus
  <2> QED
    BY <1>4, <1>9, <2>1 DEF Live
<1>10. CASE e.n > d
  <2>0. seen >= d
    BY <1>0, <1>2, <1>3, <1>10
  <2>1. \/ view.status \in Live \cup {"none"}
        \/ RoundEnded /\ view.status = rec.status /\ Settled
    BY <2>0 DEF Flow, ViewFollows
  <2>2. ASSUME RoundEnded, view.status = rec.status, Settled, Healed
        PROVE  view = Record /\ view # NoView /\ view.steps = 1..made /\ rec.status \in Parked
    <3>1. rec.steps = made /\ rec.status \in Parked
      BY <2>2 DEF RoundKept, RoundEnded, RoundOpen
    <3> QED
      BY <2>2, <3>1, RecordIs DEF Healed
  <2>3. CASE ~(RoundTold /\ e.n = count)
    <3>1. e.type \in {"step_start", "task_created"}
      BY <1>4, <1>10, <2>3
    <3>2. view'.status = IF view = NoView THEN "PENDING" ELSE view.status
      BY <1>0, <1>1, <3>1, AppliedStatus
    <3>3. CASE view.status \in Live \cup {"none"}
      BY <1>0, <2>3, <3>2, <3>3 DEF Live
    <3>4. CASE RoundEnded /\ view.status = rec.status /\ Settled
      <4>1. Healed => view' = view
        <5> SUFFICES ASSUME Healed PROVE view' = view
          OBVIOUS
        <5>1. Upto(made)
          BY <3>4 DEF StepsKept, RoundEnded, RoundOpen
        <5>2. e.type = "step_start" => e.index \in 1..made
          BY <1>2, <5>1 DEF Upto
        <5> QED
          BY <1>0, <1>1, <2>2, <3>1, <3>4, <5>2, AppliedStatus
      <4>2. Settled'
        BY <1>7, <3>4, <4>1
      <4>3. view # NoView
        BY <3>4 DEF RoundKept, NoView, Snapshot, Parked
      <4> QED
        BY <2>3, <3>2, <3>4, <4>2, <4>3
    <3> QED
      BY <2>1, <3>3, <3>4
  <2>4. CASE RoundTold /\ e.n = count
    <3>1. /\ e.type = IF rec.status = "FAILED" THEN "task_failed" ELSE "task_interrupted"
          /\ RoundEnded /\ rec.status \in Parked
      BY <1>4, <1>6, <2>4 DEF RoundKept
    <3>2. view'.status = rec.status
      BY <1>0, <1>1, <3>1, AppliedStatus DEF Parked
    <3>3. CASE view.status = "none"
      <4>1. seen = 0
        BY <3>3 DEF ViewKnown
      <4> QED
        BY <1>2, <1>3, <1>4, <1>10, <2>4, <4>1
    <3>4. CASE view.status \in Live
      BY <1>8, <2>4, <3>1, <3>2, <3>4
    <3>5. CASE RoundEnded /\ view.status = rec.status /\ Settled
      <4>1. Healed => view' = view
        BY <1>0, <1>1, <2>2, <3>1, <3>5, AppliedStatus DEF Parked
      <4>2. Settled'
        BY <1>7, <3>5, <4>1
      <4> QED
        BY <2>4, <3>1, <3>2, <4>2
    <3> QED
      BY <2>1, <3>3, <3>4, <3>5
  <2> QED
    BY <2>3, <2>4
<1> QED
  BY <1>0, <1>2, <1>9, <1>10

\* Nor does an answer.
LEMMA FlowAnswer ==
  ASSUME TypeInv, RecordKept, RoundKept, FoundRound, FoundKept, AnswersInOrder, StepsKept,
         MarkRound, ViewKnown, Answer, excuse = {}, excuse' = {}, NEW d \in 0..count, Flow(d)
  PROVE  ViewFollows(d)'
<1>0. /\ [Next]_vars /\ ~Continue /\ ~Receive
      /\ UNCHANGED <<rec, made, rounds, worker, caller, count, seen, stream>>
      /\ count \in Nat \ {0} /\ view \in Snapshots
  <2>1. /\ [Next]_vars /\ UNCHANGED <<rec, made, rounds, worker, caller, count, seen, stream>>
        /\ rounds \in Nat \ {0} /\ count \in Nat \ {0} /\ view \in Snapshots
    BY DEF Next, Answer, busVars, streamVars, TypeInv, ServerTyped, BusTyped, TabTyped
  <2>2. ~Continue
    BY <2>1 DEF Continue
  <2>3. ASSUME Receive PROVE FALSE
    <3>1. Len(Frames') = Len(Frames) - 1 /\ Len(Frames) \in Nat
      BY <2>3, SentFrames, FramesAreTold DEF Receive
    <3>2. Frames' = Frames
      BY <2>1 DEF Frames
    <3> QED
      BY <3>1, <3>2
  <2> QED
    BY <2>1, <2>2, <2>3
<1>1. RoundEnded' = RoundEnded /\ RoundTold' = RoundTold
  BY <1>0 DEF RoundEnded, RoundTold
<1>2. RoundTold => RoundEnded
  BY DEF RoundTold, RoundEnded
<1>3. RoundEnded /\ Settled => Settled'
  BY <1>0, SettledStays
<1>4. /\ gets[1].found \in Shown /\ gets[1].found # NoView
      /\ \/ gets[1].found.status \in Live
         \/ RoundEnded /\ gets[1].found = Record /\ gets[1].found.status = rec.status
      /\ view' = IF gets[1].kind = "status" THEN StatusMerged(view, gets[1].found)
                                            ELSE Merged(view, gets[1].found)
  BY AnswerIs, AnswerShows
<1>5. view'.status \in {view.status, gets[1].found.status}
  BY <1>0, <1>4 DEF StatusMerged, Merged, Snapshots
<1>6. ASSUME seen >= d
      PROVE  \/ view'.status \in Live \cup {"none"}
             \/ RoundEnded /\ view'.status = rec.status /\ Settled'
  <2>1. \/ view.status \in Live \cup {"none"}
        \/ RoundEnded /\ view.status = rec.status /\ Settled
    BY <1>6 DEF Flow, ViewFollows
  <2>2. CASE gets[1].found.status \in Live
    BY <1>3, <1>5, <2>1, <2>2
  <2>3. CASE RoundEnded /\ gets[1].found = Record /\ gets[1].found.status = rec.status
    <3>1. Settled'
      BY <1>3, <2>1, <2>3, AnswerSettles
    <3> QED
      BY <1>5, <2>1, <2>3, <3>1
  <2> QED
    BY <1>4, <2>2, <2>3
<1>7. seen >= d /\ RoundTold /\ seen = count => Settled'
  BY <1>2, <1>3 DEF Flow, ViewFollows
<1>8. ASSUME seen' >= d =>
               /\ \/ view'.status \in Live \cup {"none"}
                  \/ RoundEnded' /\ view'.status = rec'.status /\ Settled'
               /\ RoundTold' /\ seen' = count' => Settled'
      PROVE  ViewFollows(d)'
  BY <1>8 DEF ViewFollows
<1> QED
  BY <1>0, <1>1, <1>6, <1>7, <1>8

\* A step that neither publishes nor reaches the view.
LEMMA FlowStands ==
  ASSUME TypeInv, RecordKept, RoundKept, FoundRound, FoundKept, AnswersInOrder, StepsKept,
         [Next]_vars, excuse = {}, excuse' = {}, ~Continue, ~Receive,
         UNCHANGED <<view, seen, count>>, Around' \subseteq Around,
         NEW d \in 0..count, Flow(d)
  PROVE  ViewFollows(d)'
<1>1. /\ RoundEnded => RoundEnded' /\ rec' = rec
      /\ RoundTold => RoundTold'
      /\ ~RoundTold /\ RoundTold' =>
           TellFailed \/ (TellInterrupted /\ Publish("worker", "task_interrupted", 0))
  BY RoundMoves
<1>2. RoundTold' => RoundTold
  <2>1. count \in Nat
    BY DEF TypeInv, BusTyped
  <2> QED
    BY <1>1, <2>1 DEF TellFailed, Publish
<1>3. RoundEnded /\ Settled => Settled'
  BY SettledStays
<1>4. RoundTold => RoundEnded
  BY DEF RoundTold, RoundEnded
<1>5. seen >= d =>
        /\ \/ view.status \in Live \cup {"none"}
           \/ RoundEnded /\ view.status = rec.status /\ Settled
        /\ RoundTold /\ seen = count => Settled
  BY DEF Flow, ViewFollows
<1>6. ASSUME seen' >= d =>
               /\ \/ view'.status \in Live \cup {"none"}
                  \/ RoundEnded' /\ view'.status = rec'.status /\ Settled'
               /\ RoundTold' /\ seen' = count' => Settled'
      PROVE  ViewFollows(d)'
  BY <1>6 DEF ViewFollows
<1> QED
  BY <1>1, <1>2, <1>3, <1>4, <1>5, <1>6

-----------------------------------------------------------------------------
(* The invariant.                                                          *)

RoundInv ==
  /\ excuse = {} => RoundKept /\ FoundRound /\ AnswersInOrder /\ MarkRound
  /\ excuse = {} /\ caller # "resumed" => \E d \in 0..count : Flow(d)

TabInv == TypeInv /\ RecordKept /\ FoundKept /\ StepsKept /\ ViewKnown /\ RoundInv

\* Every step of a round keeps the flow.
LEMMA FlowNext ==
  ASSUME TabInv, [Next]_vars, excuse' = {}, caller' # "resumed"
  PROVE  \E d \in 0..count' : Flow(d)'
<1>1. /\ TypeInv /\ RecordKept /\ FoundKept /\ StepsKept /\ ViewKnown /\ RoundInv
      /\ count \in Nat \ {0}
  BY DEF TabInv, TypeInv, BusTyped
<1>2. ~Continue /\ excuse = {}
  BY ExcusesStay DEF Continue
<1>3. RoundKept /\ FoundRound /\ AnswersInOrder /\ MarkRound
  BY <1>1, <1>2 DEF RoundInv
<1>4. CASE TellResumed
  <2>1. count + 1 \in Nat /\ count' = count + 1
    BY <1>1, <1>4 DEF TellResumed, Publish
  <2>2. ASSUME NEW d \in Nat, d = count + 1 PROVE \E c \in 0..count' : Flow(c)'
    <3>1. Flow(d)' /\ d \in 0..count'
      BY <1>1, <1>4, <2>1, <2>2, FlowResumes
    <3> QED
      BY <3>1
  <2> QED
    BY <2>1, <2>2
<1>5. CASE ~TellResumed
  <2>1. caller # "resumed"
    BY <1>2, <1>5 DEF Next, vars, serverVars, Hand, Connect, Disconnect, Receive, Serve, Answer,
       Start, Enter, StepStart, Raises, Settle, Conclude, TellFailed, TellInterrupted, Teardown,
       Stop, StopTell, Spawn
  <2>2. PICK d \in 0..count : Flow(d)
    BY <1>1, <1>2, <2>1 DEF RoundInv
  <2>3. CASE \/ StepStart /\ Publish("worker", "step_start", made + 1)
             \/ TellFailed /\ Publish("worker", "task_failed", 0) /\ rec.status = "FAILED"
             \/ /\ TellInterrupted /\ Publish("worker", "task_interrupted", 0)
                /\ rec.status = "INTERRUPTED"
    <3>1. caller = "idle" /\ caller' = "idle"
      BY <1>1, <1>2, <1>3, <1>5, <2>3, RoundPublishes DEF Publish
    <3>2. Flow(d)'
      BY <1>1, <1>2, <1>3, <2>2, <2>3, <3>1, FlowPublish
    <3>3. d \in 0..count'
      BY <1>1, <2>2, <2>3 DEF Publish
    <3> QED
      BY <3>2, <3>3
  <2>4. CASE count' = count /\ Around' \subseteq Around
    <3>1. EndIsTold(d)' /\ EventsFit(d)'
      BY <1>1, <1>2, <1>3, <2>2, <2>4, FlowQuiet
    <3>2. ASSUME NothingIsMissed(d)', ViewFollows(d)' PROVE \E c \in 0..count' : Flow(c)'
      BY <2>2, <2>4, <3>1, <3>2 DEF Flow
    <3>3. CASE Receive
      BY <1>1, <1>2, <1>3, <2>2, <3>2, <3>3, FlowShift, FlowReceive
    <3>4. CASE Answer
      <4>1. NothingIsMissed(d)'
        BY <2>2, <3>4 DEF Answer, busVars, streamVars, Flow, NothingIsMissed, Place, Frames
      <4> QED
        BY <1>1, <1>2, <1>3, <2>2, <3>2, <3>4, <4>1, FlowAnswer
    <3>5. CASE ~Receive /\ ~Answer
      <4>1. view' = view /\ seen' = seen
        BY <1>2, <3>5 DEF Next, vars, tabVars, streamVars, Hand, Connect, Disconnect, Serve, Start,
           Enter, StepStart, Raises, Settle, Conclude, TellFailed, TellInterrupted, Teardown, Stop,
           StopTell, TellResumed, Spawn
      <4>2. ViewFollows(d)'
        BY <1>1, <1>2, <1>3, <2>2, <2>4, <3>5, <4>1, FlowStands
      <4>3. CASE \E p \in Publishers : Hand(p)
        BY <1>1, <1>2, <1>3, <2>2, <3>2, <4>2, <4>3, FlowHand
      <4>4. CASE Connect
        BY <1>1, <2>2, <3>2, <4>2, <4>4, FlowConnect
      <4>5. CASE Disconnect
        <5>1. NothingIsMissed(d)'
          BY <4>5 DEF Disconnect, Closed, NothingIsMissed
        <5> QED
          BY <3>2, <4>2, <5>1
      <4>6. CASE UNCHANGED <<handing, count, stream, seen>>
        <5>1. NothingIsMissed(d)'
          BY <2>2, <4>6 DEF Flow, NothingIsMissed, Place, Frames
        <5> QED
          BY <3>2, <4>2, <5>1
      <4>7. CASE \/ Serve \/ Start \/ Enter \/ Conclude \/ Teardown \/ Spawn
                 \/ UNCHANGED vars \/ \E s \in Parked : Settle(s)
        BY <4>6, <4>7 DEF Serve, Start, Enter, Conclude, Teardown, Spawn, Settle, vars, busVars,
           streamVars
      <4>8. ~(StepStart \/ Raises \/ TellFailed)
        BY <1>1, <2>4 DEF StepStart, Raises, TellFailed, Publish
      <4>9. ~(Stop \/ StopTell)
        BY <1>2, <1>3 DEF Stop, StopTell, RoundKept
      <4>10. ~TellInterrupted
        BY <1>1, <1>3, <2>4 DEF TellInterrupted, Publish, RoundKept
      <4> QED
        BY <1>2, <1>5, <3>5, <4>3, <4>4, <4>5, <4>7, <4>8, <4>9, <4>10 DEF Next
    <3> QED
      BY <3>3, <3>4, <3>5
  <2> QED
    BY <1>1, <1>2, <1>3, <1>5, <2>3, <2>4, RoundPublishes
<1> QED
  BY <1>4, <1>5

LEMMA TabStarts == Init => TabInv
<1> SUFFICES ASSUME Init PROVE TabInv
  OBVIOUS
<1>1. TypeInv /\ RecordKept /\ RoundKept /\ Flow(0)
  BY TypeStarts, RecordStarts, FlowStarts
<1>2. /\ gets = <<[kind |-> "first", found |-> NoView]>> /\ Len(gets) = 1
      /\ NoView.said = 0 /\ view = NoView /\ mark = "none" /\ seen = 0 /\ count = 1
      /\ rounds = 1 /\ NoView.status = "none" /\ gets[1].found = NoView
  BY DEF Init, NoView, Snapshot
<1>3. FoundKept /\ FoundRound /\ AnswersInOrder /\ MarkRound /\ ViewKnown
  <2>1. \A k \in 1..Len(gets) : gets[k].found = NoView
    BY <1>2
  <2> QED
    BY <1>1, <1>2, <2>1, RecordIsFound DEF FoundKept, FoundRound, AnswersInOrder, MarkRound,
       ViewKnown, Live
<1>4. StepsKept
  BY UptoStarts, UptoGrows DEF StepsKept, Init
<1> QED
  BY <1>1, <1>2, <1>3, <1>4 DEF TabInv, RoundInv

LEMMA TabNext == TabInv /\ [Next]_vars => TabInv'
<1> SUFFICES ASSUME TabInv, [Next]_vars PROVE TabInv'
  OBVIOUS
<1>1. /\ TypeInv /\ RecordKept /\ FoundKept /\ StepsKept /\ ViewKnown
      /\ excuse = {} => RoundKept /\ FoundRound /\ AnswersInOrder /\ MarkRound
  BY DEF TabInv, RoundInv
<1>2. TypeInv' /\ RecordKept' /\ FoundKept' /\ StepsKept' /\ ViewKnown'
  BY <1>1, TypeNext, RecordNext, FoundKeptNext, StepsNext, ViewKnownNext
<1>3. excuse' = {} => RoundKept' /\ FoundRound' /\ AnswersInOrder' /\ MarkRound'
  BY <1>1, RoundNext, FoundNext, OrderNext, MarkNext
<1>4. excuse' = {} /\ caller' # "resumed" => \E d \in 0..count' : Flow(d)'
  BY FlowNext
<1> QED
  BY <1>2, <1>3, <1>4 DEF TabInv, RoundInv

\* At rest all events were seen, and no request is left to bring the record.
LEMMA RestIsSettled == TabInv => ViewSettles
<1> SUFFICES ASSUME TabInv, AtRest, excuse = {} PROVE view = Record
  BY DEF ViewSettles
<1>1. PICK d \in 0..count : Flow(d)
  BY DEF TabInv, RoundInv, AtRest
<1>2. stream.on /\ Frames = <<>> /\ (\A p \in Publishers : handing[p] = <<>>) /\ gets = <<>>
  BY DEF AtRest, Free
<1>3. seen = count
  BY <1>1, <1>2 DEF Flow, NothingIsMissed, Place
<1>4. RoundTold /\ count \in Nat
  BY DEF AtRest, RoundTold, TabInv, TypeInv, BusTyped
<1>5. d < count
  BY <1>1, <1>4 DEF Flow, EndIsTold
<1>6. Settled
  BY <1>1, <1>3, <1>4, <1>5 DEF Flow, ViewFollows
<1> QED
  BY <1>2, <1>6 DEF Settled, Healing, Healed

\* When nothing is on its way any more, the tab shows the record as the worker has settled
\* it (useSSE.ts, TaskView.tsx, task_manager.py's _finalize_terminal), however often the stream
\* was lost and replayed and whatever order the answers came in: for rounds without a stop, a
\* raise, a lost event or an answer from an earlier round.
THEOREM ViewIsTheRecord == Spec => []ViewSettles
<1>1. Init => TabInv
  BY TabStarts
<1>2. TabInv /\ [Next]_vars => TabInv'
  BY TabNext
<1>3. TabInv => ViewSettles
  BY RestIsSettled
<1> QED
  BY <1>1, <1>2, <1>3, PTL DEF Spec
=============================================================================
