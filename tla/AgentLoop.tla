----------------------------- MODULE AgentLoop ------------------------------
(***************************************************************************)
(* The agent's graph (core/agent/graph.py, nodes.py) over the rounds of one*)
(* task: agent -> (finish | tool) -> (agent | finish).  A node is one step:*)
(* durability "sync" commits its whole effect or, when the process dies in *)
(* it, none of it -- but tools that had already run stay run.  So the      *)
(* variables are the checkpoint; `flag' is the manager's stop flag, and    *)
(* `ran' and `lost' in a step record are history.                          *)
(***************************************************************************)
EXTENDS Context

CONSTANTS
  Ids,         \* the tool-call ids a provider may choose, numbered
  MayReuse,    \* may a provider use an id again in a later turn?
  MayCrash,    \* may the process die inside a node?
  MaxSteps,    \* settings.max_steps
  KeepRecents, \* the values of settings.context_keep_recent
  MaxCalls,    \* bound: the tool calls of one turn
  MaxInvokes   \* bound: how often the graph is invoked

ASSUME LoopAssumption ==
  /\ Ids \subseteq Nat
  /\ MayReuse \in BOOLEAN /\ MayCrash \in BOOLEAN
  /\ MaxSteps \in Nat \ {0} /\ MaxCalls \in Nat /\ MaxInvokes \in Nat
  /\ KeepRecents \subseteq Nat

VARIABLES
  msgs,       \* state["messages"]
  steps,      \* state["steps"], with each step's call records
  node,       \* the next node; "end" when parked, "down" after a crash
  roundNo,    \* state["round_no"]: the user turns of the record
  roundSteps, \* state["round_steps"]
  stopReq,    \* state["stop_requested"]
  error,      \* state["error"] is not empty
  answered,   \* state["final_answer"] is not empty
  flag,       \* self._stop_flags[id]
  status,     \* the task's status
  invokes     \* bound: invocations so far

vars == <<msgs, steps, node, roundNo, roundSteps, stopReq, error, answered, flag,
          status, invokes>>

\* "skipped" is told apart: refused by the danger policy, or swept.
Verdicts == {"none", "pending", "blocked", "success", "failed", "swept"}
Terminal == Verdicts \ {"none", "pending"}

Used == UNION {{i \in Ids : steps[k].verdict[i] # "none"} : k \in DOMAIN steps}

\* A provider's ids are opaque: of those it has not used it takes the first ones.
Fresh == {S \in SUBSET (Ids \ Used) : \A i \in S, j \in (Ids \ Used) \ S : i < j}
IdChoices ==
  {S \in IF MayReuse THEN SUBSET Ids ELSE Fresh :
     IsFiniteSet(S) /\ Cardinality(S) \in 1..MaxCalls}

Pending == {i \in Ids : steps # <<>> /\ Last(steps).verdict[i] = "pending"}

NewStep(S, blocked) ==
  [round   |-> roundNo,
   status  |-> "running",
   verdict |-> [i \in Ids |-> IF i \in blocked THEN "blocked"
                              ELSE IF i \in S THEN "pending" ELSE "none"],
   ran     |-> [i \in Ids |-> 0],
   lost    |-> FALSE]

Init ==
  /\ msgs = <<Text("user")>> /\ steps = <<>>
  /\ node = "agent" /\ roundNo = 1 /\ roundSteps = 0
  /\ stopReq = FALSE /\ error = FALSE /\ answered = FALSE
  /\ flag = FALSE /\ status = "RUNNING" /\ invokes = 1

-----------------------------------------------------------------------------
(* The sweep at the loop's entry, on both faces                             *)

\* by_id: the last record that has the id.
RecordOf(i) == Max({k \in DOMAIN steps : steps[k].verdict[i] # "none"})

\* (mutant) the records are left as they are.
SweptStepsUnchanged == steps

\* Only pending records are reclassified ...
SweptSteps ==
  [k \in DOMAIN steps |->
    [steps[k] EXCEPT !.verdict =
       [i \in Ids |-> IF /\ i \in Orphans(msgs)
                         /\ RecordOf(i) = k
                         /\ steps[k].verdict[i] = "pending"
                      THEN "swept" ELSE steps[k].verdict[i]]]]

\* ... and a record with a verdict of its own keeps its words.
SweepWord ==
  [i \in Orphans(msgs) |->
    LET own == steps[RecordOf(i)].verdict[i]
    IN  IF own \in {"blocked", "failed"} THEN own ELSE "swept"]

\* What the next request may carry.
Requests == UNION {Compressed(Sweep(msgs, SweepWord), n) : n \in KeepRecents}

-----------------------------------------------------------------------------
(* The agent node *)

Stopped == stopReq \/ flag

\* The stop is written into the state, and both routers go to finish.
StoppedAt(n) ==
  /\ node = n /\ Stopped
  /\ stopReq' = TRUE /\ node' = "finish"
  /\ UNCHANGED <<msgs, steps, roundNo, roundSteps, error, answered, flag, status, invokes>>

\* Every call of the model is a step of its own.
Turn(S, blocked) ==
  /\ node = "agent" /\ ~Stopped
  /\ roundSteps' = roundSteps + 1
  /\ steps' = Append(SweptSteps, NewStep(S, blocked))

\* _handle_tool_calls: a call the danger policy refuses is answered right here.
Asks(S, blocked) ==
  /\ Turn(S, blocked)
  /\ \E req \in Requests :
       msgs' = Append(req, Call(S)) \o Replies(blocked, [i \in blocked |-> "blocked"])
  /\ node' = "tool"
  /\ UNCHANGED <<roundNo, stopReq, error, answered, flag, status, invokes>>

\* No tool call: the round is over.
Answers ==
  /\ Turn({}, {})
  /\ \E req \in Requests : msgs' = Append(req, Text("answer"))
  /\ answered' = TRUE
  /\ node' = "finish"
  /\ UNCHANGED <<roundNo, stopReq, error, flag, status, invokes>>

\* The model's error becomes the round's error, and its text the final answer.
ModelFails ==
  /\ Turn({}, {})
  /\ msgs' \in Requests
  /\ error' = TRUE /\ answered' = TRUE
  /\ node' = "finish"
  /\ UNCHANGED <<roundNo, stopReq, flag, status, invokes>>

\* A plan round raises (the plan file): the node is not committed, the task fails.
NodeRaises ==
  /\ node = "agent" /\ ~Stopped
  /\ node' = "end" /\ status' = "FAILED" /\ flag' = FALSE
  /\ UNCHANGED <<msgs, steps, roundNo, roundSteps, stopReq, error, answered, invokes>>

-----------------------------------------------------------------------------
(* The tool node *)

Dispatchable == Pending

\* (mutant) one step too many.
NextNodeLate(n) == IF n > MaxSteps THEN "finish" ELSE "agent"

NextNode(n) == IF n >= MaxSteps THEN "finish" ELSE "agent"

\* Each pending call, in turn: outside the mode's face it fails unrun; otherwise the
\* tool runs once and succeeds or fails.  Every verdict goes to record and message.
RunsTools(absent, bad) ==
  /\ node = "tool" /\ ~Stopped
  /\ LET word == [i \in Dispatchable |-> IF i \in absent \cup bad THEN "failed" ELSE "success"]
         last == Last(steps)
     IN  /\ steps' = [steps EXCEPT ![Len(steps)] =
              [last EXCEPT !.status = "done",
                 !.verdict = [i \in Ids |-> IF i \in Dispatchable THEN word[i] ELSE @[i]],
                 !.ran = [i \in Ids |-> IF i \in Dispatchable \ absent /\ @[i] < 2
                                        THEN @[i] + 1 ELSE @[i]]]]
         /\ msgs' = msgs \o Replies(Dispatchable, word)
  /\ node' = NextNode(roundSteps)
  /\ UNCHANGED <<roundNo, roundSteps, stopReq, error, answered, flag, status, invokes>>

-----------------------------------------------------------------------------
(* finish, and the end of the invocation *)

\* (mutant) an answered round completes its task, as it did before #139.
OutcomeCompletes == IF error THEN "FAILED" ELSE IF answered THEN "COMPLETED" ELSE "INTERRUPTED"

Outcome == IF stopReq \/ ~error THEN "INTERRUPTED" ELSE "FAILED"

\* (mutant) whatever the last step is, it is settled.
SettledAlways ==
  IF steps = <<>> THEN steps
  ELSE [steps EXCEPT ![Len(steps)].status = IF answered /\ ~error THEN "done" ELSE "failed"]

\* (mutant) a running step is left as it is.
SettledNever == steps

\* The last step, if this round left it running, gets a verdict.
Settled ==
  IF steps # <<>> /\ Last(steps).round = roundNo /\ Last(steps).status = "running"
    THEN [steps EXCEPT ![Len(steps)].status = IF answered /\ ~error THEN "done" ELSE "failed"]
    ELSE steps

\* finish, then _finalize_terminal and the teardown of the worker.
Finish ==
  /\ node = "finish"
  /\ steps' = Settled
  /\ status' = Outcome
  /\ node' = "end" /\ flag' = FALSE
  /\ UNCHANGED <<msgs, roundNo, roundSteps, stopReq, error, answered, invokes>>

-----------------------------------------------------------------------------
(* What the task manager does to the loop *)

Stop ==
  /\ node \in {"agent", "tool", "finish"} /\ ~flag
  /\ flag' = TRUE
  /\ UNCHANGED <<msgs, steps, node, roundNo, roundSteps, stopReq, error, answered, status,
                 invokes>>

\* (mutant) the graph goes on where it was.
EntryAtPending == IF Pending # {} THEN "tool" ELSE "agent"

\* An invocation with an input starts over at START, whatever node was next.
Entry == "agent"

\* The control fields start afresh; messages and steps survive.
Invoke ==
  /\ node \in {"end", "down"} /\ invokes < MaxInvokes
  /\ invokes' = invokes + 1
  /\ status' = "RUNNING" /\ stopReq' = FALSE
  /\ error' = FALSE /\ answered' = FALSE
  /\ roundSteps' = 0
  /\ node' = Entry
  /\ UNCHANGED <<steps, flag>>

\* send_message: one more user turn, one more round.
Continue ==
  /\ Invoke
  /\ msgs' = Append(msgs, Text("user"))
  /\ roundNo' = roundNo + 1

\* resume goes on with the round that was interrupted.
Resume ==
  /\ Invoke
  /\ status = "INTERRUPTED"
  /\ UNCHANGED <<msgs, roundNo>>

\* The process dies in a node; any of its tools may have run.  The record comes back
\* INTERRUPTED (_reconcile_orphans).
Crash ==
  /\ MayCrash
  /\ node \in {"agent", "tool", "finish"}
  /\ \E ranNow \in SUBSET (IF node = "tool" /\ ~Stopped THEN Dispatchable ELSE {}) :
       steps' = [k \in DOMAIN steps |->
                   IF k < Len(steps) THEN steps[k]
                   ELSE [steps[k] EXCEPT
                          !.lost = @ \/ steps[k].status = "running",
                          !.ran = [i \in Ids |-> IF i \in ranNow /\ @[i] < 2
                                                 THEN @[i] + 1 ELSE @[i]]]]
  /\ node' = "down" /\ status' = "INTERRUPTED" /\ flag' = FALSE
  /\ UNCHANGED <<msgs, roundNo, roundSteps, stopReq, error, answered, invokes>>

-----------------------------------------------------------------------------
Next ==
  \/ StoppedAt("agent") \/ StoppedAt("tool")
  \/ \E S \in IdChoices : \E blocked \in SUBSET S : Asks(S, blocked)
  \/ Answers \/ ModelFails \/ NodeRaises
  \/ \E absent \in SUBSET Dispatchable : \E bad \in SUBSET (Dispatchable \ absent) :
       RunsTools(absent, bad)
  \/ Finish
  \/ Stop \/ Continue \/ Resume \/ Crash

Spec == Init /\ [][Next]_vars

-----------------------------------------------------------------------------
(* Properties *)

Nodes == {"agent", "tool", "finish", "end", "down"}

StepRecords ==
  [round : Nat, status : {"running", "done", "failed"}, verdict : [Ids -> Verdicts],
   ran : [Ids -> 0..2], lost : BOOLEAN]

\* Every variable keeps the range the code gives it.
TypeOK ==
  /\ msgs \in Seq([role : {"user", "call", "reply", "answer", "system"},
                   ids : SUBSET Ids, word : Verdicts])
  /\ steps \in Seq(StepRecords)
  /\ node \in Nodes
  /\ roundNo \in Nat /\ roundSteps \in Nat /\ invokes \in Nat
  /\ stopReq \in BOOLEAN /\ error \in BOOLEAN /\ answered \in BOOLEAN
  /\ flag \in BOOLEAN /\ status \in {"RUNNING", "INTERRUPTED", "FAILED"}

\* However rounds were stopped, crashed, refused and compressed, the next request is
\* one the tool-calling protocol accepts (#46, #255).
RequestsWellPaired == node = "agent" => \A req \in Requests : WellPaired(req)

\* The record of a call and the reply the model reads say the same (#95).
OneText ==
  node = "agent" => \A req \in Requests : \A k \in DOMAIN req :
    IsReply(req[k]) => \A i \in req[k].ids :
      req[k].word = SweptSteps[RecordOf(i)].verdict[i]

\* Whatever request the model gets next is well paired, and its replies are the record's.
RequestsAreSound == RequestsWellPaired /\ OneText

\* A tool call is dispatched at most once, and never when the policy refused it: no
\* stop, crash, resume or next round runs it again.
DispatchedOnce ==
  \A k \in DOMAIN steps : \A i \in Ids :
    steps[k].ran[i] <= IF steps[k].verdict[i] = "blocked" THEN 0 ELSE 1

\* A call's verdict is final, and so is a step's.
VerdictsAreFinal ==
  [][\A k \in DOMAIN steps :
       /\ k \in DOMAIN steps'
       /\ \A i \in Ids : steps[k].verdict[i] # "pending"
                            => steps'[k].verdict[i] = steps[k].verdict[i]
       /\ steps[k].status # "running" => steps'[k].status = steps[k].status]_vars

\* A round makes at most max_steps model calls per invocation.
BudgetHolds == roundSteps <= MaxSteps

\* A parked task shows no step at work, but for one a crash cut off.
StepsSettle ==
  node = "end" => \A k \in DOMAIN steps : steps[k].status = "running" => steps[k].lost
=============================================================================
