-------------------------- MODULE AgentLoopProofs ---------------------------
(***************************************************************************)
(* Theorems about AgentLoop for every set of ids, every budget and any     *)
(* number of rounds.  First what happens to tool calls and steps: only     *)
(* `steps', the counters and the control matter there, not the             *)
(* conversation.  Then the conversation: the types, and that a provider is *)
(* only sent requests that are well paired and tell the records' verdicts. *)
(***************************************************************************)
EXTENDS AgentLoop, SequenceTheorems, FiniteSetTheorems, WellFoundedInduction, TLAPS

USE LoopAssumption

-----------------------------------------------------------------------------
(* The inductive invariant *)

\* The tool node finds the step its calls were put into: running, none run yet.
ToolStepIsFresh ==
  node = "tool" =>
    /\ steps # <<>>
    /\ steps[Len(steps)].status = "running"
    /\ \A i \in Ids : steps[Len(steps)].ran[i] = 0

\* A running step that no crash has cut off is the last one, of this round, and the
\* round has yet to settle it.
OpenStepIsLast ==
  \A k \in DOMAIN steps :
    steps[k].status = "running" /\ ~steps[k].lost =>
      k = Len(steps) /\ node \in {"tool", "finish"} /\ steps[k].round = roundNo

\* The agent node is entered with a call left in the budget.
BudgetIsLeft ==
  /\ roundSteps \in 0..MaxSteps
  /\ node = "agent" => roundSteps < MaxSteps

LoopInv ==
  /\ steps \in Seq(StepRecords) /\ roundNo \in Nat
  /\ ToolStepIsFresh /\ OpenStepIsLast /\ BudgetIsLeft
  /\ DispatchedOnce

-----------------------------------------------------------------------------
(* What the operators make of the steps *)

\* A function on 1..n is a sequence of length n.
LEMMA FunctionIsSeq ==
  ASSUME NEW S, NEW n \in Nat, NEW f \in [1..n -> S]
  PROVE  f \in Seq(S) /\ Len(f) = n
  BY SeqDef, LenProperties

\* The last of the indices up to m is m.
LEMMA LastIndex ==
  ASSUME NEW m \in Nat, NEW k \in 1..m, ~(k < m)
  PROVE  k = m
  OBVIOUS

\* A sweep keeps every step but for verdicts that were pending.
LEMMA SweepKeeps ==
  ASSUME steps \in Seq(StepRecords)
  PROVE  /\ SweptSteps \in Seq(StepRecords)
         /\ Len(SweptSteps) = Len(steps)
         /\ \A k \in DOMAIN steps :
              /\ SweptSteps[k].round = steps[k].round
              /\ SweptSteps[k].status = steps[k].status
              /\ SweptSteps[k].ran = steps[k].ran
              /\ SweptSteps[k].lost = steps[k].lost
              /\ \A i \in Ids : \/ SweptSteps[k].verdict[i] = steps[k].verdict[i]
                                \/ /\ steps[k].verdict[i] = "pending"
                                   /\ SweptSteps[k].verdict[i] = "swept"
<1> DEFINE word(k) == [i \in Ids |-> IF /\ i \in Orphans(msgs)
                                        /\ RecordOf(i) = k
                                        /\ steps[k].verdict[i] = "pending"
                                     THEN "swept" ELSE steps[k].verdict[i]]
           n == Len(steps)
<1>1. n \in Nat /\ DOMAIN steps = 1..n /\ \A k \in 1..n : steps[k] \in StepRecords
  BY LenProperties, ElementOfSeq
<1>2. SweptSteps = [k \in 1..n |-> [steps[k] EXCEPT !.verdict = word(k)]]
  BY <1>1 DEF SweptSteps
<1>3. ASSUME NEW k \in 1..n
      PROVE  word(k) \in [Ids -> Verdicts]
  BY <1>1 DEF StepRecords, Verdicts
<1> HIDE DEF word
<1>4. ASSUME NEW k \in 1..n
      PROVE  [steps[k] EXCEPT !.verdict = word(k)] \in StepRecords
  BY <1>1, <1>3 DEF StepRecords
<1>5. SweptSteps \in [1..n -> StepRecords]
  BY <1>2, <1>4
<1>6. SweptSteps \in Seq(StepRecords) /\ Len(SweptSteps) = n
  BY <1>1, <1>5, FunctionIsSeq
<1>7. ASSUME NEW k \in 1..n
      PROVE  /\ SweptSteps[k].round = steps[k].round
             /\ SweptSteps[k].status = steps[k].status
             /\ SweptSteps[k].ran = steps[k].ran
             /\ SweptSteps[k].lost = steps[k].lost
             /\ SweptSteps[k].verdict = word(k)
  BY <1>1, <1>2 DEF StepRecords
<1>8. ASSUME NEW k \in 1..n, NEW i \in Ids
      PROVE  \/ word(k)[i] = steps[k].verdict[i]
             \/ steps[k].verdict[i] = "pending" /\ word(k)[i] = "swept"
  BY DEF word
<1> QED
  BY <1>1, <1>6, <1>7, <1>8

\* The step a turn opens: running, and nothing has run.
LEMMA NewStepIsFresh ==
  ASSUME NEW S, NEW blocked, roundNo \in Nat
  PROVE  /\ NewStep(S, blocked) \in StepRecords
         /\ NewStep(S, blocked).status = "running"
         /\ NewStep(S, blocked).round = roundNo
         /\ \A i \in Ids : NewStep(S, blocked).ran[i] = 0
  BY DEF NewStep, StepRecords, Verdicts

\* What a sequence of steps is made of, in the form the proofs below use.
LEMMA StepsAreRecords ==
  ASSUME steps \in Seq(StepRecords)
  PROVE  /\ Len(steps) \in Nat /\ DOMAIN steps = 1..Len(steps)
         /\ \A k \in DOMAIN steps :
              /\ steps[k] \in StepRecords
              /\ steps[k].round \in Nat /\ steps[k].lost \in BOOLEAN
              /\ steps[k].status \in {"running", "done", "failed"}
              /\ steps[k].verdict \in [Ids -> Verdicts]
              /\ steps[k].ran \in [Ids -> 0..2]
<1>1. Len(steps) \in Nat /\ DOMAIN steps = 1..Len(steps)
  BY LenProperties
<1>2. ASSUME NEW k \in DOMAIN steps PROVE steps[k] \in StepRecords
  BY <1>1, ElementOfSeq
<1>3. ASSUME NEW r \in StepRecords
      PROVE  /\ r.round \in Nat /\ r.lost \in BOOLEAN
             /\ r.status \in {"running", "done", "failed"}
             /\ r.verdict \in [Ids -> Verdicts]
             /\ r.ran \in [Ids -> 0..2]
  BY DEF StepRecords
<1> QED
  BY <1>1, <1>2, <1>3

\* In an agent node, and when the graph is at rest, every running step was cut off.
LEMMA NothingOpen ==
  ASSUME LoopInv, node \notin {"tool", "finish"}
  PROVE  \A k \in DOMAIN steps : steps[k].status = "running" => steps[k].lost
  BY StepsAreRecords DEF LoopInv, OpenStepIsLast

-----------------------------------------------------------------------------
(* The steps that change the steps *)

\* A call of the model opens a step behind the swept ones.
LEMMA TurnKeeps ==
  ASSUME LoopInv, NEW S, NEW blocked, Turn(S, blocked),
         node' \in {"tool", "finish"}, roundNo' = roundNo
  PROVE  LoopInv'
<1> DEFINE n == Len(steps)
           new == NewStep(S, blocked)
<1>1. /\ steps \in Seq(StepRecords) /\ roundNo \in Nat
      /\ n \in Nat /\ DOMAIN steps = 1..n
  BY StepsAreRecords DEF LoopInv
<1>2. /\ new \in StepRecords /\ new.status = "running" /\ new.round = roundNo
      /\ \A i \in Ids : new.ran[i] = 0
  BY <1>1, NewStepIsFresh
<1>3. node = "agent" /\ steps' = Append(SweptSteps, new) /\ roundSteps' = roundSteps + 1
  BY DEF Turn
<1> HIDE DEF new
<1>4. /\ SweptSteps \in Seq(StepRecords) /\ Len(SweptSteps) = n
  BY <1>1, SweepKeeps
<1>5. /\ steps' \in Seq(StepRecords) /\ steps' # <<>> /\ Len(steps') = n + 1
      /\ DOMAIN steps' = 1..n + 1
      /\ steps'[n + 1] = new
      /\ \A k \in 1..n : steps'[k] = SweptSteps[k]
  BY <1>1, <1>2, <1>3, <1>4, AppendProperties, LenProperties
<1>6. ToolStepIsFresh'
  BY <1>1, <1>2, <1>5 DEF ToolStepIsFresh
<1>7. OpenStepIsLast'
  <2> SUFFICES ASSUME NEW k \in 1..n + 1,
                      steps'[k].status = "running", ~steps'[k].lost
               PROVE  k = n + 1
    BY <1>1, <1>2, <1>5 DEF OpenStepIsLast
  <2> SUFFICES ASSUME k \in 1..n PROVE FALSE
    BY <1>1
  <2>1. steps[k].status = "running" /\ ~steps[k].lost
    BY <1>1, <1>5, SweepKeeps
  <2> QED
    BY <2>1, <1>1, <1>3, NothingOpen
<1>8. BudgetIsLeft'
  BY <1>3 DEF LoopInv, BudgetIsLeft
<1>9. DispatchedOnce'
  <2> SUFFICES ASSUME NEW k \in 1..n + 1, NEW i \in Ids
               PROVE  steps'[k].ran[i] <= IF steps'[k].verdict[i] = "blocked" THEN 0 ELSE 1
    BY <1>5 DEF DispatchedOnce
  <2>1. CASE k = n + 1
    BY <2>1, <1>2, <1>5
  <2>2. CASE k \in 1..n
    <3>1. /\ steps'[k].ran = steps[k].ran
          /\ \/ steps'[k].verdict[i] = steps[k].verdict[i]
             \/ /\ steps[k].verdict[i] = "pending"
                /\ steps'[k].verdict[i] = "swept"
      BY <2>2, <1>1, <1>5, SweepKeeps
    <3>2. steps[k].ran[i] <= IF steps[k].verdict[i] = "blocked" THEN 0 ELSE 1
      BY <2>2, <1>1 DEF LoopInv, DispatchedOnce
    <3> QED
      BY <3>1, <3>2
  <2> QED
    BY <2>1, <2>2, <1>1
<1> QED
  BY <1>1, <1>5, <1>6, <1>7, <1>8, <1>9 DEF LoopInv

\* The tool node settles its step, whose calls had not run.
LEMMA ToolsKeep ==
  ASSUME LoopInv, NEW absent, NEW bad, RunsTools(absent, bad)
  PROVE  LoopInv'
<1> DEFINE n == Len(steps)
           last == steps[n]
           word == [i \in Dispatchable |-> IF i \in absent \cup bad THEN "failed" ELSE "success"]
           verdict == [i \in Ids |-> IF i \in Dispatchable THEN word[i] ELSE last.verdict[i]]
           ran == [i \in Ids |-> IF i \in Dispatchable \ absent /\ last.ran[i] < 2
                                 THEN last.ran[i] + 1 ELSE last.ran[i]]
           new == [last EXCEPT !.status = "done", !.verdict = verdict, !.ran = ran]
<1>1. /\ steps \in Seq(StepRecords) /\ roundNo \in Nat
      /\ n \in Nat /\ DOMAIN steps = 1..n
      /\ n \in 1..n /\ last \in StepRecords
      /\ \A i \in Ids : last.ran[i] = 0
  <2>1. node = "tool" /\ steps # <<>>
    BY DEF RunsTools, LoopInv, ToolStepIsFresh
  <2> QED
    BY <2>1, StepsAreRecords, EmptySeq DEF LoopInv, ToolStepIsFresh
<1>2. /\ steps' = [steps EXCEPT ![n] = new]
      /\ node' = NextNode(roundSteps) /\ roundSteps' = roundSteps /\ roundNo' = roundNo
  BY DEF RunsTools, Last
<1>3. /\ verdict \in [Ids -> Verdicts] /\ ran \in [Ids -> 0..2]
      /\ \A i \in Ids : ran[i] <= IF verdict[i] = "blocked" THEN 0 ELSE 1
  <2>1. \A i \in Ids : i \in Dispatchable => word[i] \in {"failed", "success"}
    OBVIOUS
  <2>2. \A i \in Ids : last.verdict[i] \in Verdicts /\ last.ran[i] = 0
    BY <1>1 DEF StepRecords
  <2> HIDE DEF word, last
  <2>3. \A i \in Ids : /\ verdict[i] \in Verdicts /\ ran[i] \in 0..2
                      /\ ran[i] <= IF verdict[i] = "blocked" THEN 0 ELSE 1
    BY <2>1, <2>2 DEF Verdicts
  <2>4. verdict = [i \in Ids |-> verdict[i]] /\ ran = [i \in Ids |-> ran[i]]
    OBVIOUS
  <2> HIDE DEF verdict, ran
  <2>5. verdict \in [Ids -> Verdicts]
    BY <2>3, <2>4
  <2>6. ran \in [Ids -> 0..2]
    BY <2>3, <2>4
  <2> QED
    BY <2>3, <2>5, <2>6
<1> HIDE DEF verdict, ran
<1>4. new \in StepRecords /\ new.status = "done" /\ new.verdict = verdict /\ new.ran = ran
  BY <1>1, <1>3 DEF StepRecords
<1> HIDE DEF new
<1>5. /\ steps' \in Seq(StepRecords) /\ Len(steps') = n /\ DOMAIN steps' = 1..n
      /\ \A k \in 1..n : steps'[k] = IF k = n THEN new ELSE steps[k]
  BY <1>1, <1>2, <1>4, ExceptSeq, LenProperties
<1>6. node' \in {"agent", "finish"} /\ (node' = "agent" => roundSteps < MaxSteps)
  BY <1>2 DEF NextNode, LoopInv, BudgetIsLeft
<1>7. ToolStepIsFresh' /\ BudgetIsLeft'
  BY <1>2, <1>6 DEF ToolStepIsFresh, LoopInv, BudgetIsLeft
<1>8. OpenStepIsLast'
  BY <1>1, <1>4, <1>5 DEF LoopInv, OpenStepIsLast
<1>9. DispatchedOnce'
  <2> SUFFICES ASSUME NEW k \in 1..n, NEW i \in Ids
               PROVE  steps'[k].ran[i] <= IF steps'[k].verdict[i] = "blocked" THEN 0 ELSE 1
    BY <1>5 DEF DispatchedOnce
  <2>1. CASE k = n
    <3>1. steps'[k].ran = ran /\ steps'[k].verdict = verdict
      BY <2>1, <1>4, <1>5
    <3> QED
      BY <3>1, <1>3
  <2>2. CASE k # n
    BY <2>2, <1>1, <1>5 DEF LoopInv, DispatchedOnce
  <2> QED
    BY <2>1, <2>2
<1> QED
  BY <1>1, <1>2, <1>5, <1>7, <1>8, <1>9 DEF LoopInv

\* finish settles the step its round left running.
LEMMA FinishKeeps ==
  ASSUME LoopInv, Finish
  PROVE  LoopInv'
<1> DEFINE n == Len(steps)
           verdict == IF answered /\ ~error THEN "done" ELSE "failed"
           new == [steps[n] EXCEPT !.status = verdict]
<1>1. /\ steps \in Seq(StepRecords) /\ roundNo \in Nat
      /\ n \in Nat /\ DOMAIN steps = 1..n
      /\ \A k \in 1..n : steps[k] \in StepRecords
  BY StepsAreRecords DEF LoopInv
<1>2. node' = "end" /\ roundNo' = roundNo /\ roundSteps' = roundSteps /\ steps' = Settled
  BY DEF Finish
<1>3. ToolStepIsFresh' /\ BudgetIsLeft'
  BY <1>2 DEF ToolStepIsFresh, LoopInv, BudgetIsLeft
<1>4. CASE steps # <<>> /\ steps[n].round = roundNo /\ steps[n].status = "running"
  <2>1. steps' = [steps EXCEPT ![n] = new] /\ n \in 1..n
    BY <1>1, <1>2, <1>4, EmptySeq DEF Settled, Last
  <2>2. /\ new \in StepRecords /\ new.status = verdict
        /\ new.verdict = steps[n].verdict /\ new.ran = steps[n].ran
    BY <1>1, <2>1 DEF StepRecords
  <2>3. verdict # "running"
    OBVIOUS
  <2> HIDE DEF new, verdict
  <2>4. /\ steps' \in Seq(StepRecords) /\ Len(steps') = n /\ DOMAIN steps' = 1..n
        /\ \A k \in 1..n : steps'[k] = IF k = n THEN new ELSE steps[k]
    BY <1>1, <2>1, <2>2, ExceptSeq, LenProperties
  <2>5. OpenStepIsLast'
    BY <1>1, <2>2, <2>3, <2>4 DEF LoopInv, OpenStepIsLast
  <2>6. DispatchedOnce'
    BY <1>1, <2>2, <2>4 DEF LoopInv, DispatchedOnce
  <2> QED
    BY <1>1, <1>2, <1>3, <2>4, <2>5, <2>6 DEF LoopInv
<1>5. CASE ~(steps # <<>> /\ steps[n].round = roundNo /\ steps[n].status = "running")
  <2>1. steps' = steps
    BY <1>2, <1>5 DEF Settled, Last
  <2>2. OpenStepIsLast'
    BY <1>1, <1>2, <1>5, <2>1, EmptySeq DEF LoopInv, OpenStepIsLast
  <2> QED
    BY <1>2, <1>3, <2>1, <2>2 DEF LoopInv, DispatchedOnce
<1> QED
  BY <1>4, <1>5

\* A crash cuts the running step off; what its tools did stays done.
LEMMA CrashKeeps ==
  ASSUME LoopInv, Crash
  PROVE  LoopInv'
<1> DEFINE n == Len(steps)
<1>1. /\ steps \in Seq(StepRecords) /\ roundNo \in Nat
      /\ n \in Nat /\ DOMAIN steps = 1..n
      /\ \A k \in 1..n : steps[k] \in StepRecords
  BY StepsAreRecords DEF LoopInv
<1>2. PICK ranNow \in SUBSET (IF node = "tool" /\ ~Stopped THEN Dispatchable ELSE {}) :
        steps' = [k \in DOMAIN steps |->
                   IF k < Len(steps) THEN steps[k]
                   ELSE [steps[k] EXCEPT
                          !.lost = @ \/ steps[k].status = "running",
                          !.ran = [i \in Ids |-> IF i \in ranNow /\ @[i] < 2
                                                 THEN @[i] + 1 ELSE @[i]]]]
  BY DEF Crash
<1>3. node' = "down" /\ roundNo' = roundNo /\ roundSteps' = roundSteps
  BY DEF Crash
<1> DEFINE ran == [i \in Ids |-> IF i \in ranNow /\ steps[n].ran[i] < 2
                                 THEN steps[n].ran[i] + 1 ELSE steps[n].ran[i]]
           lost == steps[n].lost \/ steps[n].status = "running"
           new == [steps[n] EXCEPT !.lost = lost, !.ran = ran]
<1>4. /\ DOMAIN steps' = 1..n
      /\ \A k \in 1..n : steps'[k] = IF k < n THEN steps[k] ELSE new
  <2>1. DOMAIN steps' = 1..n
    BY <1>1, <1>2
  <2>2. ASSUME NEW k \in 1..n, k < n PROVE steps'[k] = steps[k]
    BY <2>2, <1>1, <1>2
  <2>3. ASSUME n \in 1..n PROVE steps'[n] = new
    <3>1. ~(n < n) /\ n \in DOMAIN steps
      BY <2>3, <1>1
    <3>2. steps'[n] = [steps[n] EXCEPT
                         !.lost = @ \/ steps[n].status = "running",
                         !.ran = [i \in Ids |-> IF i \in ranNow /\ @[i] < 2
                                                THEN @[i] + 1 ELSE @[i]]]
      BY <3>1, <1>2, Zenon
    <3> QED
      BY <3>2
  <2>4. ASSUME NEW k \in 1..n, ~(k < n) PROVE k = n
    BY <2>4, <1>1, LastIndex
  <2> QED
    BY <2>1, <2>2, <2>3, <2>4
<1>5. ASSUME n \in 1..n
      PROVE  /\ ran \in [Ids -> 0..2]
             /\ \A i \in Ids : ran[i] <= IF steps[n].verdict[i] = "blocked" THEN 0 ELSE 1
  <2>1. \A i \in Ids : /\ steps[n].ran[i] \in 0..2
                      /\ steps[n].ran[i] <= IF steps[n].verdict[i] = "blocked" THEN 0 ELSE 1
    BY <1>1, <1>5 DEF StepRecords, LoopInv, DispatchedOnce
  <2>2. \A i \in ranNow : steps[n].verdict[i] = "pending" /\ (i \in Ids => steps[n].ran[i] = 0)
    BY <1>2 DEF Dispatchable, Pending, Last, LoopInv, ToolStepIsFresh
  <2> QED
    BY <2>1, <2>2
<1> HIDE DEF ran
<1>6. lost \in BOOLEAN
  OBVIOUS
<1>7. ASSUME n \in 1..n
      PROVE  /\ new \in StepRecords /\ new.ran = ran
             /\ new.lost = lost
             /\ new.status = steps[n].status
             /\ new.verdict = steps[n].verdict
  BY <1>1, <1>5, <1>6, <1>7 DEF StepRecords
<1> HIDE DEF new
<1>8. steps' \in [1..n -> StepRecords]
  <2>1. ASSUME NEW k \in 1..n PROVE steps'[k] \in StepRecords
    BY <1>1, <1>4, <1>7
  <2>2. steps' = [k \in 1..n |-> steps'[k]]
    BY <1>1, <1>2
  <2> QED
    BY <2>1, <2>2
<1>9. steps' \in Seq(StepRecords) /\ Len(steps') = n /\ DOMAIN steps' = 1..n
  BY <1>1, <1>8, FunctionIsSeq, LenProperties
<1>10. ToolStepIsFresh' /\ BudgetIsLeft'
  BY <1>3 DEF ToolStepIsFresh, LoopInv, BudgetIsLeft
<1>11. OpenStepIsLast'
  <2> SUFFICES ASSUME NEW k \in 1..n, steps'[k].status = "running", ~steps'[k].lost
               PROVE  FALSE
    BY <1>9 DEF OpenStepIsLast
  <2>1. CASE k < n
    BY <2>1, <1>1, <1>4 DEF LoopInv, OpenStepIsLast
  <2>2. CASE ~(k < n)
    <3>1. k = n /\ steps'[n] = new
      BY <2>2, <1>1, <1>4, LastIndex
    <3> QED
      BY <3>1, <1>7
  <2> QED
    BY <2>1, <2>2
<1>12. DispatchedOnce'
  BY <1>1, <1>4, <1>5, <1>7, <1>9 DEF LoopInv, DispatchedOnce
<1> QED
  BY <1>1, <1>3, <1>9, <1>10, <1>11, <1>12 DEF LoopInv

-----------------------------------------------------------------------------
(* The invariant, and what follows from it *)

\* A new task has no step and its whole budget.
LEMMA LoopInit == Init => LoopInv
  BY EmptySeq DEF Init, LoopInv, ToolStepIsFresh, OpenStepIsLast, BudgetIsLeft, DispatchedOnce

\* Every step of the graph, of the task manager and of fate keeps the invariant.
LEMMA LoopNext == LoopInv /\ [Next]_vars => LoopInv'
<1> SUFFICES ASSUME LoopInv, [Next]_vars PROVE LoopInv'
  OBVIOUS
<1> USE DEF LoopInv, ToolStepIsFresh, OpenStepIsLast, BudgetIsLeft, DispatchedOnce
<1>1. CASE StoppedAt("agent") \/ StoppedAt("tool")
  BY <1>1 DEF StoppedAt
<1>2. ASSUME NEW S \in IdChoices, NEW blocked \in SUBSET S, Asks(S, blocked) PROVE LoopInv'
  <2>1. Turn(S, blocked) /\ node' = "tool" /\ roundNo' = roundNo
    BY <1>2 DEF Asks
  <2> QED
    BY <2>1, TurnKeeps
<1>3. CASE Answers
  <2>1. Turn({}, {}) /\ node' = "finish" /\ roundNo' = roundNo
    BY <1>3 DEF Answers
  <2> QED
    BY <2>1, TurnKeeps
<1>4. CASE ModelFails
  <2>1. Turn({}, {}) /\ node' = "finish" /\ roundNo' = roundNo
    BY <1>4 DEF ModelFails
  <2> QED
    BY <2>1, TurnKeeps
<1>5. CASE NodeRaises
  BY <1>5 DEF NodeRaises
<1>6. ASSUME NEW absent, NEW bad, RunsTools(absent, bad) PROVE LoopInv'
  BY <1>6, ToolsKeep
<1>7. CASE Finish
  BY <1>7, FinishKeeps
<1>8. CASE Stop
  BY <1>8 DEF Stop
<1>9. CASE Continue
  BY <1>9 DEF Continue, Invoke, Entry
<1>10. CASE Resume
  BY <1>10 DEF Resume, Invoke, Entry
<1>11. CASE Crash
  BY <1>11, CrashKeeps
<1>12. CASE UNCHANGED vars
  BY <1>12 DEF vars
<1> QED
  BY <1>1, <1>2, <1>3, <1>4, <1>5, <1>6, <1>7, <1>8, <1>9, <1>10, <1>11, <1>12 DEF Next

\* The invariant holds in every behaviour.
THEOREM LoopInvariant == Spec => []LoopInv
  BY LoopInit, LoopNext, PTL DEF Spec

\* No stop, crash, refusal, resume or later round ever runs a tool call a second
\* time, or one that the danger policy refused.
THEOREM CallsRunOnce == Spec => []DispatchedOnce
<1>1. LoopInv => DispatchedOnce
  BY DEF LoopInv
<1> QED
  BY LoopInvariant, <1>1, PTL

\* No round makes more model calls than settings.max_steps.
THEOREM BudgetIsKept == Spec => []BudgetHolds
<1>1. LoopInv => BudgetHolds
  BY DEF LoopInv, BudgetIsLeft, BudgetHolds
<1> QED
  BY LoopInvariant, <1>1, PTL

\* A parked task shows no running step but one that a crash has cut off.
THEOREM ParkedStepsAreSettled == Spec => []StepsSettle
<1>1. LoopInv => StepsSettle
  BY NothingOpen DEF StepsSettle
<1> QED
  BY LoopInvariant, <1>1, PTL

-----------------------------------------------------------------------------
(* What no step may do *)

\* The action VerdictsAreFinal allows.
VerdictsKept ==
  \A k \in DOMAIN steps :
    /\ k \in DOMAIN steps'
    /\ \A i \in Ids : steps[k].verdict[i] # "pending"
                         => steps'[k].verdict[i] = steps[k].verdict[i]
    /\ steps[k].status # "running" => steps'[k].status = steps[k].status

\* A sweep only touches what is pending.
LEMMA TurnKeepsVerdicts ==
  ASSUME LoopInv, NEW S, NEW blocked, Turn(S, blocked)
  PROVE  VerdictsKept
<1> DEFINE n == Len(steps)
           new == NewStep(S, blocked)
<1>1. /\ steps \in Seq(StepRecords) /\ roundNo \in Nat
      /\ n \in Nat /\ DOMAIN steps = 1..n
  BY StepsAreRecords DEF LoopInv
<1>2. new \in StepRecords /\ steps' = Append(SweptSteps, new)
  BY <1>1, NewStepIsFresh DEF Turn
<1> HIDE DEF new
<1>3. SweptSteps \in Seq(StepRecords) /\ Len(SweptSteps) = n
  BY <1>1, SweepKeeps
<1>4. DOMAIN steps' = 1..n + 1 /\ \A k \in 1..n : steps'[k] = SweptSteps[k]
  BY <1>1, <1>2, <1>3, AppendProperties, LenProperties
<1>5. ASSUME NEW k \in 1..n
      PROVE  /\ SweptSteps[k].status = steps[k].status
             /\ \A i \in Ids : steps[k].verdict[i] # "pending"
                                  => SweptSteps[k].verdict[i] = steps[k].verdict[i]
  BY <1>1, SweepKeeps
<1> QED
  BY <1>1, <1>4, <1>5 DEF VerdictsKept

\* The tool node decides pending calls of a running step.
LEMMA ToolsKeepVerdicts ==
  ASSUME LoopInv, NEW absent, NEW bad, RunsTools(absent, bad)
  PROVE  VerdictsKept
<1> DEFINE n == Len(steps)
<1>1. /\ n \in Nat /\ DOMAIN steps = 1..n
      /\ n \in 1..n /\ steps[n].status = "running"
      /\ \A k \in 1..n : steps[k] \in StepRecords
  <2>1. node = "tool" /\ steps # <<>>
    BY DEF RunsTools, LoopInv, ToolStepIsFresh
  <2> QED
    BY <2>1, StepsAreRecords, EmptySeq DEF LoopInv, ToolStepIsFresh
<1>2. PICK new :
        /\ steps' = [steps EXCEPT ![n] = new]
        /\ \A i \in Ids : i \notin Dispatchable => new.verdict[i] = steps[n].verdict[i]
  <2> DEFINE word == [i \in Dispatchable |-> IF i \in absent \cup bad THEN "failed" ELSE "success"]
             verdict == [i \in Ids |-> IF i \in Dispatchable THEN word[i] ELSE steps[n].verdict[i]]
             ran == [i \in Ids |-> IF i \in Dispatchable \ absent /\ steps[n].ran[i] < 2
                                   THEN steps[n].ran[i] + 1 ELSE steps[n].ran[i]]
             new == [steps[n] EXCEPT !.status = "done", !.verdict = verdict, !.ran = ran]
  <2>1. steps' = [steps EXCEPT ![n] = new]
    BY DEF RunsTools, Last
  <2>2. \A i \in Ids : i \notin Dispatchable => verdict[i] = steps[n].verdict[i]
    OBVIOUS
  <2> HIDE DEF verdict, ran
  <2>3. new.verdict = verdict
    BY <1>1 DEF StepRecords
  <2> QED
    BY <2>1, <2>2, <2>3
<1>3. \A i \in Ids : steps[n].verdict[i] # "pending" => i \notin Dispatchable
  BY DEF Dispatchable, Pending, Last
<1>4. DOMAIN steps' = 1..n /\ \A k \in 1..n : steps'[k] = IF k = n THEN new ELSE steps[k]
  BY <1>1, <1>2
<1> QED
  BY <1>1, <1>2, <1>3, <1>4 DEF VerdictsKept

\* finish gives a verdict to a running step only.
LEMMA FinishKeepsVerdicts ==
  ASSUME LoopInv, Finish
  PROVE  VerdictsKept
<1> DEFINE n == Len(steps)
           verdict == IF answered /\ ~error THEN "done" ELSE "failed"
           new == [steps[n] EXCEPT !.status = verdict]
<1>1. /\ n \in Nat /\ DOMAIN steps = 1..n
      /\ \A k \in 1..n : steps[k] \in StepRecords
  BY StepsAreRecords DEF LoopInv
<1>2. CASE steps' = steps
  BY <1>2 DEF VerdictsKept
<1>3. CASE steps' = [steps EXCEPT ![n] = new] /\ steps[n].status = "running"
  <2> HIDE DEF verdict
  <2>1. DOMAIN steps' = 1..n /\ \A k \in 1..n : steps'[k] = IF k = n THEN new ELSE steps[k]
    BY <1>1, <1>3
  <2>2. n \in 1..n => new.verdict = steps[n].verdict
    BY <1>1 DEF StepRecords
  <2> QED
    BY <1>1, <1>3, <2>1, <2>2 DEF VerdictsKept
<1>4. \/ steps' = steps
      \/ steps' = [steps EXCEPT ![n] = new] /\ steps[n].status = "running"
  BY DEF Finish, Settled, Last
<1> QED
  BY <1>2, <1>3, <1>4

\* A crash decides nothing.
LEMMA CrashKeepsVerdicts ==
  ASSUME LoopInv, Crash
  PROVE  VerdictsKept
<1> DEFINE n == Len(steps)
<1>1. /\ n \in Nat /\ DOMAIN steps = 1..n
      /\ \A k \in 1..n : steps[k] \in StepRecords
  BY StepsAreRecords DEF LoopInv
<1>2. PICK ranNow :
        steps' = [k \in DOMAIN steps |->
                   IF k < Len(steps) THEN steps[k]
                   ELSE [steps[k] EXCEPT
                          !.lost = @ \/ steps[k].status = "running",
                          !.ran = [i \in Ids |-> IF i \in ranNow /\ @[i] < 2
                                                 THEN @[i] + 1 ELSE @[i]]]]
  BY DEF Crash
<1>3. DOMAIN steps' = 1..n
  BY <1>1, <1>2
<1>4. ASSUME NEW k \in 1..n
      PROVE  steps'[k].verdict = steps[k].verdict /\ steps'[k].status = steps[k].status
  <2> DEFINE ran == [i \in Ids |-> IF i \in ranNow /\ steps[k].ran[i] < 2
                                   THEN steps[k].ran[i] + 1 ELSE steps[k].ran[i]]
             lost == steps[k].lost \/ steps[k].status = "running"
             new == [steps[k] EXCEPT !.lost = lost, !.ran = ran]
  <2>1. steps'[k] = IF k < n THEN steps[k] ELSE new
    BY <1>1, <1>2
  <2> HIDE DEF ran, lost
  <2>2. new.verdict = steps[k].verdict /\ new.status = steps[k].status
    BY <1>1 DEF StepRecords
  <2> QED
    BY <2>1, <2>2
<1> QED
  BY <1>1, <1>3, <1>4 DEF VerdictsKept

\* Every step keeps the verdicts of calls and steps.
LEMMA VerdictsNext == LoopInv /\ [Next]_vars => VerdictsKept
<1> SUFFICES ASSUME LoopInv, [Next]_vars PROVE VerdictsKept
  OBVIOUS
<1>1. CASE UNCHANGED steps
  BY <1>1 DEF VerdictsKept
<1>2. CASE \/ StoppedAt("agent") \/ StoppedAt("tool") \/ NodeRaises \/ Stop
           \/ Continue \/ Resume \/ UNCHANGED vars
  <2>1. UNCHANGED steps
    BY <1>2 DEF StoppedAt, NodeRaises, Stop, Continue, Resume, Invoke, vars
  <2> QED
    BY <2>1, <1>1
<1>3. ASSUME NEW S, NEW blocked, Asks(S, blocked) PROVE VerdictsKept
  BY <1>3, TurnKeepsVerdicts DEF Asks
<1>4. CASE Answers \/ ModelFails
  BY <1>4, TurnKeepsVerdicts DEF Answers, ModelFails
<1>5. ASSUME NEW absent, NEW bad, RunsTools(absent, bad) PROVE VerdictsKept
  BY <1>5, ToolsKeepVerdicts
<1>6. CASE Finish
  BY <1>6, FinishKeepsVerdicts
<1>7. CASE Crash
  BY <1>7, CrashKeepsVerdicts
<1> QED
  BY <1>2, <1>3, <1>4, <1>5, <1>6, <1>7 DEF Next

\* Once a call is refused, swept or decided, and once a step is settled, nothing that
\* happens later says otherwise.
THEOREM VerdictsNeverChange == Spec => VerdictsAreFinal
<1>1. LoopInv /\ [Next]_vars => [VerdictsKept]_vars
  BY VerdictsNext
<1>2. VerdictsAreFinal <=> [][VerdictsKept]_vars
  BY DEF VerdictsAreFinal, VerdictsKept
<1> QED
  BY LoopInvariant, <1>1, <1>2, PTL DEF Spec

-----------------------------------------------------------------------------
(* From here on the assumption is cited where it is needed. *)

HIDE LoopAssumption

-----------------------------------------------------------------------------
(* The shape of a conversation                                             *)

Message ==
  [role : {"user", "call", "reply", "answer", "system"}, ids : SUBSET Ids, word : Verdicts]

\* The messages that may occur once the ids of U have been used.
Said(U) ==
  {m \in Message : /\ m.role = "call" => m.ids \subseteq U /\ IsFiniteSet(m.ids)
                   /\ m.role = "reply" => \E i \in U : m.ids = {i}}

\* The n messages after message i are replies to it.
RepliesTo(ms, i, n) ==
  /\ i + n <= Len(ms)
  /\ \A k \in i + 1..i + n : IsReply(ms[k]) /\ ms[k].ids \subseteq ms[i].ids

\* Call i has its replies right after it, one for each of its ids.
Full(ms, i) ==
  /\ RepliesTo(ms, i, Cardinality(ms[i].ids))
  /\ \A x \in ms[i].ids : \E k \in i + 1..i + Cardinality(ms[i].ids) : x \in ms[k].ids

\* Message k is a reply to a call that is full.
Owned(ms, o, k) ==
  \E i \in Calls(ms) \ {o} : i < k /\ k <= i + Cardinality(ms[i].ids)

\* Every call but o is full, and every reply is to a full call or among those after o.
PairedBut(ms, o, b) ==
  /\ \A i \in Calls(ms) \ {o} : Full(ms, i)
  /\ \A k \in 1..Len(ms) : IsReply(ms[k]) => Owned(ms, o, k) \/ (o < k /\ k <= b)
  /\ \A i, j \in Calls(ms) : i # j => ms[i].ids \cap ms[j].ids = {}

\* Call o has replies up to message b, and its ids in M, some at least, wait for theirs.
OpenAt(ms, o, b, M) ==
  /\ o \in Calls(ms) /\ b \in o..Len(ms)
  /\ RepliesTo(ms, o, b - o)
  /\ M # {} /\ M \subseteq ms[o].ids
  /\ b - o + Cardinality(M) = Cardinality(ms[o].ids)
  /\ \A k \in o + 1..b : ms[k].ids \cap M = {}
  /\ \A x \in ms[o].ids \ M : \E k \in o + 1..b : x \in ms[k].ids

\* At most one call is open.
Shape(ms, o, b, M) ==
  /\ PairedBut(ms, o, b)
  /\ \/ o = 0 /\ b = 0 /\ M = {}
     \/ OpenAt(ms, o, b, M)

-----------------------------------------------------------------------------
(* The inductive invariant                                                 *)

VerdictOf(i) == steps[RecordOf(i)].verdict[i]

\* What waits for a reply waits for its tool, and the tool node finds it at the end.
WaitsAt(o, b, M) ==
  /\ \A i \in M : VerdictOf(i) = "pending"
  /\ node = "tool" => M = Pending /\ (o # 0 => b = Len(msgs))

\* A reply tells the verdict its call has, which is final.
RepliesTell ==
  \A k \in DOMAIN msgs : IsReply(msgs[k]) =>
    \A i \in msgs[k].ids : msgs[k].word = VerdictOf(i) /\ msgs[k].word \in Terminal

-----------------------------------------------------------------------------
(* Induction over the natural numbers, as the existence of a smallest      *)
(* counterexample, and the largest member of a bounded set.                *)

LEMMA SmallestOf == \A T \in SUBSET Nat : T # {} => \E m \in T : \A n \in T : m <= n
<1> SUFFICES ASSUME NEW T \in SUBSET Nat, T # {} PROVE \E m \in T : \A n \in T : m <= n
  OBVIOUS
<1>1. PICK m \in T : \A n \in T : ~ (<<n, m>> \in OpToRel(<, Nat))
  <2>1. IsWellFoundedOn(OpToRel(<, Nat), Nat)
    BY NatLessThanWellFounded
  <2> QED
    BY <2>1, WFMin
<1>2. \A n \in Nat : n < m => <<n, m>> \in OpToRel(<, Nat)
  BY DEF OpToRel
<1>3. \A n \in T : ~ (n < m)
  BY <1>1, <1>2, Zenon
<1> QED
  BY <1>3

LEMMA LargestOf ==
  ASSUME NEW n \in Nat, NEW I \in SUBSET (1..n), I # {}
  PROVE  Max(I) \in I /\ \A i \in I : Max(I) >= i
<1> DEFINE T == {n - i : i \in I}
<1>1. T \in SUBSET Nat /\ T # {}
  <2>1. \A i \in I : n - i \in Nat
    OBVIOUS
  <2> QED
    BY <2>1
<1> HIDE DEF T
<1>2. PICK t \in T : \A u \in T : t <= u
  BY <1>1, SmallestOf
<1>3. PICK i \in I : t = n - i
  BY <1>2 DEF T
<1>4. \A j \in I : n - j \in T
  BY DEF T
<1>5. \A j \in I : i >= j
  <2> SUFFICES ASSUME NEW j \in I PROVE i >= j
    OBVIOUS
  <2>1. n - i <= n - j /\ i \in Nat /\ j \in Nat
    BY <1>2, <1>3, <1>4
  <2> QED
    BY <2>1
<1> QED
  BY <1>5 DEF Max

\* f flattens the first sequences of seqs, the first i of them at i.
Flattens(f, seqs, n) ==
  f = [i \in 1..n |-> IF i = 1 THEN seqs[i] ELSE f[i - 1] \o seqs[i]]

\* What FlattenSeq returns is the last value of the function it defines.
LEMMA FlattenIsDefined ==
  ASSUME NEW seqs, NEW n \in Nat \ {0}, Len(seqs) = n
  PROVE  \E f : Flattens(f, seqs, n) /\ FlattenSeq(seqs) = f[n]
<1> DEFINE Body(f, m) == [i \in 1..m |-> IF i = 1 THEN seqs[i] ELSE f[i - 1] \o seqs[i]]
           Undefined == {m \in Nat : m # 0 /\ ~ \E f : f = Body(f, m)}
<1>1. Undefined = {}
  <2> SUFFICES ASSUME Undefined # {} PROVE FALSE
    OBVIOUS
  <2>1. PICK m \in Undefined : \A k \in Undefined : m <= k
    BY SmallestOf
  <2>2. m # 1
    <3>1. [i \in 1..1 |-> seqs[1]] = Body([i \in 1..1 |-> seqs[1]], 1)
      OBVIOUS
    <3> QED
      BY <2>1, <3>1
  <2>3. PICK f : f = Body(f, m - 1)
    <3> HIDE DEF Body
    <3>1. m - 1 \in Nat /\ m - 1 # 0 /\ ~ (m <= m - 1)
      BY <2>1, <2>2
    <3> QED
      BY <2>1, <3>1
  <2> DEFINE g == [i \in 1..m |-> IF i = m THEN f[m - 1] \o seqs[m] ELSE f[i]]
  <2>4. g = Body(g, m)
    <3>1. ASSUME NEW i \in 1..m PROVE g[i] = Body(g, m)[i]
      <4>1. CASE i = m
        <5>1. m - 1 \in 1..m /\ m - 1 # m /\ m \in 1..m
          BY <2>1, <2>2
        <5>2. g[m] = f[m - 1] \o seqs[m] /\ g[m - 1] = f[m - 1]
          BY <5>1
        <5> HIDE DEF g
        <5>3. Body(g, m)[m] = g[m - 1] \o seqs[m]
          BY <5>1, <2>2
        <5> QED
          BY <4>1, <5>2, <5>3
      <4>2. CASE i < m
        <5>1. i \in 1..(m - 1) /\ g[i] = f[i] /\ (i # 1 => i - 1 \in 1..m /\ g[i - 1] = f[i - 1])
          BY <4>2, <2>1
        <5>2. f[i] = Body(f, m - 1)[i]
          BY <2>3
        <5> QED
          BY <5>1, <5>2
      <4> QED
        BY <4>1, <4>2, <2>1
    <3>2. g = [i \in 1..m |-> g[i]] /\ Body(g, m) = [i \in 1..m |-> Body(g, m)[i]]
      OBVIOUS
    <3> HIDE DEF g
    <3> QED
      BY <3>1, <3>2
  <2> QED
    BY <2>1, <2>4
<1>2. \E f : f = Body(f, n)
  <2> HIDE DEF Body
  <2> QED
    BY <1>1
<1> DEFINE F == CHOOSE f : f = Body(f, n)
<1>3. FlattenSeq(seqs) = F[n]
  BY DEF FlattenSeq
<1> HIDE DEF Body
<1>4. F = Body(F, n)
  BY <1>2
<1> HIDE DEF F
<1> QED
  BY <1>3, <1>4 DEF Body, Flattens

\* Flattening sequences over S gives a sequence over S.
LEMMA FlattenTypes ==
  ASSUME NEW S, NEW seqs, Len(seqs) \in Nat \ {0}, \A k \in 1..Len(seqs) : seqs[k] \in Seq(S)
  PROVE  FlattenSeq(seqs) \in Seq(S)
<1> DEFINE n == Len(seqs)
<1>1. PICK f : Flattens(f, seqs, n) /\ FlattenSeq(seqs) = f[n]
  BY FlattenIsDefined
<1> HIDE DEF n
<1>2. \A i \in 1..n : f[i] = IF i = 1 THEN seqs[i] ELSE f[i - 1] \o seqs[i]
  BY <1>1 DEF Flattens
<1> DEFINE Bad == {i \in Nat : i \in 1..n /\ f[i] \notin Seq(S)}
<1>3. Bad = {}
  <2> SUFFICES ASSUME Bad # {} PROVE FALSE
    OBVIOUS
  <2>1. PICK i \in Bad : \A k \in Bad : i <= k
    BY SmallestOf
  <2>2. i # 1
    BY <2>1, <1>2 DEF n
  <2>3. i - 1 \in Nat /\ i - 1 \in 1..n /\ ~ (i <= i - 1)
    BY <2>1, <2>2 DEF n
  <2>4. f[i - 1] \in Seq(S) /\ seqs[i] \in Seq(S) /\ f[i] = f[i - 1] \o seqs[i]
    BY <2>1, <2>2, <2>3, <1>2 DEF n
  <2>5. f[i - 1] \o seqs[i] \in Seq(S)
    BY <2>4, ConcatProperties
  <2> QED
    BY <2>1, <2>4, <2>5
<1>4. n \in Nat /\ n \in 1..n
  BY DEF n
<1> QED
  BY <1>1, <1>3, <1>4

\* t is the first n messages of ms with R put in behind message b.
Filled(t, ms, n, b, R) ==
  /\ Len(t) = IF n < b THEN n ELSE n + Len(R)
  /\ \A j \in 1..Len(t) :
       t[j] = IF j <= b THEN ms[j] ELSE IF j <= b + Len(R) THEN R[j - b] ELSE ms[j - Len(R)]

\* One more message behind messages that are filled.
LEMMA FilledGrows ==
  ASSUME NEW S, NEW ms \in Seq(S), NEW R \in Seq(S), NEW t \in Seq(S),
         NEW n \in Nat, NEW b \in Nat, n + 1 <= Len(ms), b # 0,
         Filled(t, ms, n, b, R)
  PROVE  Filled(t \o (<<ms[n + 1]>> \o (IF n + 1 = b THEN R ELSE <<>>)), ms, n + 1, b, R)
<1> DEFINE q == <<ms[n + 1]>> \o (IF n + 1 = b THEN R ELSE <<>>)
           u == t \o q
<1>1. Len(R) \in Nat /\ Len(t) \in Nat /\ Len(ms) \in Nat /\ ms[n + 1] \in S
  OBVIOUS
<1>2. /\ q \in Seq(S) /\ Len(q) = IF n + 1 = b THEN 1 + Len(R) ELSE 1
      /\ q[1] = ms[n + 1]
      /\ n + 1 = b => \A j \in 2..Len(q) : q[j] = R[j - 1]
  BY <1>1
<1> HIDE DEF q
<1>20. Len(q) \in Nat
  BY <1>2
<1>21. /\ u \in Seq(S) /\ Len(u) = Len(t) + Len(q)
       /\ \A j \in 1..Len(t) + Len(q) : u[j] = IF j <= Len(t) THEN t[j] ELSE q[j - Len(t)]
  <2>1. q \in Seq(S)
    BY <1>2
  <2> QED
    BY <2>1, ConcatProperties, Zenon
<1>22. \A j \in 1..Len(t) : j \in 1..Len(t) + Len(q) /\ j <= Len(t)
  BY <1>1, <1>20
<1>23. \A j \in Len(t) + 1..Len(t) + Len(q) : j \in 1..Len(t) + Len(q) /\ ~(j <= Len(t))
  BY <1>1, <1>20
<1>3. /\ u \in Seq(S) /\ Len(u) = Len(t) + Len(q)
      /\ \A j \in 1..Len(t) : u[j] = t[j]
      /\ \A j \in Len(t) + 1..Len(t) + Len(q) : u[j] = q[j - Len(t)]
  BY <1>21, <1>22, <1>23
<1> HIDE DEF u
<1>30. Len(u) = Len(t) + Len(q) /\ Len(q) = IF n + 1 = b THEN 1 + Len(R) ELSE 1
  BY <1>2, <1>3
<1>4. Len(t) = IF n < b THEN n ELSE n + Len(R)
  BY DEF Filled
<1>5. Len(u) = IF n + 1 < b THEN n + 1 ELSE n + 1 + Len(R)
  <2>1. CASE n + 1 < b
    <3>1. n < b /\ n + 1 # b
      BY <2>1
    <3> QED
      BY <3>1, <2>1, <1>30, <1>4
  <2>2. CASE n + 1 = b
    <3>1. n < b /\ ~(n + 1 < b)
      BY <2>2
    <3>2. Len(t) = n /\ Len(q) = 1 + Len(R)
      BY <3>1, <2>2, <1>30, <1>4
    <3> QED
      BY <3>1, <3>2, <1>30, <1>1
  <2>3. CASE n + 1 > b
    <3>1. ~(n < b) /\ n + 1 # b /\ ~(n + 1 < b)
      BY <2>3
    <3>2. Len(t) = n + Len(R) /\ Len(q) = 1
      BY <3>1, <1>30, <1>4
    <3> QED
      BY <3>1, <3>2, <1>30, <1>1
  <2> QED
    BY <2>1, <2>2, <2>3
<1>6. ASSUME NEW j \in 1..Len(u)
      PROVE  u[j] = IF j <= b THEN ms[j] ELSE IF j <= b + Len(R) THEN R[j - b] ELSE ms[j - Len(R)]
  <2>1. CASE j \in 1..Len(t)
    BY <2>1, <1>3 DEF Filled
  <2>2. CASE j = Len(t) + 1
    <3>1. u[j] = ms[n + 1]
      <4>1. 1 \in 1..Len(q) /\ j \in Len(t) + 1..Len(t) + Len(q) /\ j - Len(t) = 1
        BY <2>2, <1>1, <1>2
      <4> QED
        BY <4>1, <1>2, <1>3
    <3>2. CASE n < b
      BY <3>1, <3>2, <2>2, <1>4
    <3>3. CASE ~(n < b)
      <4>1. j = n + Len(R) + 1 /\ ~(j <= b + Len(R)) /\ ~(j <= b) /\ j - Len(R) = n + 1
        BY <3>3, <2>2, <1>1, <1>4
      <4> QED
        BY <4>1, <3>1
    <3> QED
      BY <3>2, <3>3
  <2>3. CASE j > Len(t) + 1
    <3>1. n + 1 = b
      BY <2>3, <1>1, <1>2, <1>3
    <3>20. Len(q) = 1 + Len(R) /\ Len(t) = n /\ j \in 1..Len(t) + Len(q) /\ j \in Nat
      <4>1. n < b
        BY <3>1
      <4>2. Len(q) = 1 + Len(R) /\ Len(t) = n
        BY <3>1, <4>1, <1>30, <1>4
      <4> QED
        BY <4>2, <1>30
    <3>2. /\ Len(t) = n /\ j > b /\ j <= b + Len(R) /\ j - n \in 2..Len(q)
          /\ j \in Len(t) + 1..Len(t) + Len(q) /\ (j - n) - 1 = j - b
      BY <3>1, <3>20, <2>3, <1>1
    <3>3. u[j] = q[j - n] /\ q[j - n] = R[(j - n) - 1]
      BY <3>1, <3>2, <1>2, <1>3
    <3> QED
      BY SMTT(30), <3>2, <3>3
  <2> QED
    BY <2>1, <2>2, <2>3, <1>1, <1>3
<1> QED
  BY <1>5, <1>6 DEF Filled, u, q

\* Flattening messages of which one is followed by R puts R in behind it.
LEMMA FlattenFills ==
  ASSUME NEW S, NEW ms \in Seq(S), NEW R \in Seq(S), NEW b \in 1..Len(ms), NEW seqs,
         seqs = [k \in 1..Len(ms) |-> <<ms[k]>> \o (IF k = b THEN R ELSE <<>>)]
  PROVE  FlattenSeq(seqs) \in Seq(S) /\ Filled(FlattenSeq(seqs), ms, Len(ms), b, R)
<1> DEFINE n == Len(ms)
<1>1. n \in Nat \ {0} /\ b \in Nat /\ b # 0 /\ Len(R) \in Nat
  OBVIOUS
<1>2. \A k \in 1..n : seqs[k] \in Seq(S) /\ seqs[k] = <<ms[k]>> \o (IF k = b THEN R ELSE <<>>)
  OBVIOUS
<1>3. Len(seqs) = n
  <2>1. seqs \in [1..n -> Seq(S)]
    BY <1>2
  <2> QED
    BY <2>1, <1>1, FunctionIsSeq
<1> HIDE DEF n
<1>4. PICK f : Flattens(f, seqs, n) /\ FlattenSeq(seqs) = f[n]
  <2>1. n \in Nat \ {0}
    BY <1>1 DEF n
  <2> QED
    BY <2>1, <1>3, FlattenIsDefined
<1>5. \A i \in 1..n : f[i] = IF i = 1 THEN seqs[i] ELSE f[i - 1] \o seqs[i]
  BY <1>4 DEF Flattens
<1> DEFINE Good(i) == f[i] \in Seq(S) /\ Filled(f[i], ms, i, b, R)
           Bad == {i \in Nat : i \in 1..n /\ ~Good(i)}
<1>6. Good(1)
  <2>10. 1 \in 1..n
    BY <1>1
  <2>1. f[1] = seqs[1] /\ 1 \in 1..n
    BY <2>10, <1>5
  <2>2. Filled(<<>>, ms, 0, b, R)
    <3>1. Len(<<>>) = 0 /\ 1..0 = {} /\ 0 < b
      BY <1>1
    <3> QED
      BY <3>1 DEF Filled
  <2>3. Filled(<<>> \o (<<ms[1]>> \o (IF 1 = b THEN R ELSE <<>>)), ms, 1, b, R)
    <3>1. <<>> \in Seq(S) /\ 0 \in Nat /\ 0 + 1 = 1 /\ 1 <= Len(ms)
      BY <1>1 DEF n
    <3> QED
      BY <3>1, <2>2, <1>1, FilledGrows
  <2>4. <<>> \o seqs[1] = seqs[1] /\ seqs[1] \in Seq(S)
    BY <2>1, <1>2
  <2> QED
    BY <2>1, <2>3, <2>4, <1>2
<1>7. ASSUME NEW i \in Nat, i # 0, i + 1 \in 1..n, Good(i) PROVE Good(i + 1)
  <2>1. f[i + 1] = f[i] \o seqs[i + 1]
    <3>1. i + 1 # 1 /\ (i + 1) - 1 = i
      BY <1>7
    <3> QED
      BY <3>1, <1>5, <1>7
  <2>2. seqs[i + 1] = <<ms[i + 1]>> \o (IF i + 1 = b THEN R ELSE <<>>) /\ seqs[i + 1] \in Seq(S)
    BY <1>2, <1>7
  <2>3. Filled(f[i] \o seqs[i + 1], ms, i + 1, b, R)
    <3>1. i + 1 <= Len(ms)
      BY <1>7 DEF n
    <3> QED
      BY <3>1, <2>2, <1>1, <1>7, FilledGrows
  <2>4. f[i] \o seqs[i + 1] \in Seq(S)
    BY <2>2, <1>7, ConcatProperties
  <2> QED
    BY <2>1, <2>3, <2>4
<1> HIDE DEF Good
<1>8. Bad = {}
  <2> SUFFICES ASSUME Bad # {} PROVE FALSE
    OBVIOUS
  <2>1. PICK i \in Bad : \A k \in Bad : i <= k
    BY SmallestOf
  <2>2. i # 1 /\ i \in Nat /\ i \in 1..n
    BY <2>1, <1>6
  <2>3. i - 1 \in Nat /\ i - 1 # 0 /\ i - 1 \in 1..n /\ ~ (i <= i - 1) /\ (i - 1) + 1 = i
    BY <2>2, <1>1
  <2>4. Good(i - 1)
    BY <2>1, <2>3
  <2>5. Good((i - 1) + 1)
    BY <2>2, <2>3, <2>4, <1>7
  <2> QED
    BY <2>1, <2>3, <2>5
<1>9. n \in 1..n /\ n \in Nat
  BY <1>1
<1>10. Good(n)
  BY <1>8, <1>9
<1> QED
  BY <1>4, <1>10 DEF Good, n

-----------------------------------------------------------------------------
(* The replies that are made for a set of ids                              *)

LEMMA SetIsListed ==
  ASSUME NEW S, IsFiniteSet(S)
  PROVE  /\ Cardinality(S) \in Nat
         /\ SetToSeq(S) \in [1..Cardinality(S) -> S]
         /\ \A i \in S : \E k \in 1..Cardinality(S) : SetToSeq(S)[k] = i
<1> DEFINE n == Cardinality(S)
           D == 1..n
           f == SetToSeq(S)
<1>1. n \in Nat /\ ExistsBijection(D, S)
  BY FS_CardinalityType
<1>2. \E g \in [D -> S] : IsInjective(g)
  BY <1>1, Zenon DEF ExistsBijection, Bijection, Injection
<1>3. f \in [D -> S] /\ IsInjective(f)
  BY <1>2 DEF SetToSeq
<1>4. IsFiniteSet(D) /\ Cardinality(D) = n
  <2>1. n \in Int /\ (n < 1 => n = 0) /\ 1 \in Int
    BY <1>1
  <2>2. IsFiniteSet(D) /\ Cardinality(D) = IF 1 > n THEN 0 ELSE n - 1 + 1
    BY <2>1, FS_Interval
  <2> HIDE DEF n, D
  <2> QED
    BY <2>1, <2>2, <1>1
<1> HIDE DEF f
<1>5. f \in Injection(D, S)
  BY <1>3, Zenon DEF Injection
<1>6. f \in Surjection(D, S)
  BY <1>4, <1>5, FS_Injection
<1>7. \A i \in S : \E k \in D : f[k] = i
  BY <1>6, Zenon DEF Surjection
<1> QED
  BY <1>1, <1>3, <1>7 DEF f

\* There is one reply for each id of the set, and it tells the id's word.
LEMMA RepliesOf ==
  ASSUME NEW S, IsFiniteSet(S), NEW word
  PROVE  /\ Cardinality(S) \in Nat
         /\ DOMAIN Replies(S, word) = 1..Cardinality(S)
         /\ Replies(S, word) \in [1..Cardinality(S) -> {Reply(i, word[i]) : i \in S}]
         /\ \A k \in 1..Cardinality(S) : \E i \in S : Replies(S, word)[k] = Reply(i, word[i])
         /\ \A i \in S : \E k \in 1..Cardinality(S) : Replies(S, word)[k] = Reply(i, word[i])
<1> DEFINE n == Cardinality(S)
           f == SetToSeq(S)
           R == Replies(S, word)
<1>1. n \in Nat /\ f \in [1..n -> S] /\ \A i \in S : \E k \in 1..n : f[k] = i
  BY SetIsListed
<1>2. R = [k \in 1..n |-> Reply(f[k], word[f[k]])]
  BY DEF Replies
<1> HIDE DEF n, f, R
<1>3. \A k \in 1..n : R[k] = Reply(f[k], word[f[k]]) /\ f[k] \in S
  BY <1>1, <1>2
<1>4. DOMAIN R = 1..n /\ R \in [1..n -> {Reply(i, word[i]) : i \in S}]
  BY <1>1, <1>2
<1>5. \A i \in S : \E k \in 1..n : R[k] = Reply(i, word[i])
  BY <1>1, <1>3
<1> QED
  BY <1>1, <1>3, <1>4, <1>5 DEF n, R

LEMMA ReplyIs ==
  ASSUME NEW S, IsFiniteSet(S), NEW word, NEW k \in 1..Cardinality(S)
  PROVE  \E i \in S : Replies(S, word)[k] = Reply(i, word[i])
  BY RepliesOf

LEMMA RepliesAreSaid ==
  ASSUME NEW U \in SUBSET Ids, NEW S \in SUBSET U, IsFiniteSet(S), NEW word,
         \A i \in S : word[i] \in Verdicts
  PROVE  Replies(S, word) \in Seq(Said(U)) /\ Len(Replies(S, word)) = Cardinality(S)
<1> DEFINE n == Cardinality(S)
           R == Replies(S, word)
<1>1. n \in Nat /\ R \in [1..n -> {Reply(i, word[i]) : i \in S}]
  BY RepliesOf
<1>2. ASSUME NEW i \in S PROVE Reply(i, word[i]) \in Said(U)
  <2>1. i \in Ids /\ i \in U /\ word[i] \in Verdicts
    OBVIOUS
  <2> QED
    BY <2>1 DEF Reply, Said, Message
<1> HIDE DEF n, R
<1>3. {Reply(i, word[i]) : i \in S} \subseteq Said(U)
  BY <1>2
<1>4. R \in [1..n -> Said(U)]
  BY <1>1, <1>3
<1> QED
  BY <1>1, <1>4, FunctionIsSeq DEF n, R

LEMMA NoReplies == ASSUME NEW word PROVE Replies({}, word) = <<>>
<1>1. Cardinality({}) = 0 /\ 1..0 = {}
  BY FS_EmptySet
<1> QED
  BY <1>1 DEF Replies

\* What is said with fewer ids is said with more.
LEMMA SaidGrows ==
  ASSUME NEW U, NEW V, U \subseteq V, NEW ms \in Seq(Said(U))
  PROVE  ms \in Seq(Said(V))
<1>1. Said(U) \subseteq Said(V)
  BY DEF Said
<1> QED
  BY <1>1

\* What messages are made of, in the form the proofs below use.
LEMMA SaidIs ==
  ASSUME NEW U \in SUBSET Ids, NEW ms \in Seq(Said(U))
  PROVE  /\ Len(ms) \in Nat /\ DOMAIN ms = 1..Len(ms)
         /\ \A k \in 1..Len(ms) :
              /\ ms[k] \in Said(U) /\ ms[k].ids \subseteq Ids
              /\ ms[k].role = "call" => ms[k].ids \subseteq U /\ IsFiniteSet(ms[k].ids)
                                        /\ Cardinality(ms[k].ids) \in Nat
              /\ ms[k].role = "reply" => \E i \in U : ms[k].ids = {i}
<1>1. Len(ms) \in Nat /\ DOMAIN ms = 1..Len(ms)
  BY LenProperties
<1>2. ASSUME NEW k \in 1..Len(ms) PROVE ms[k] \in Said(U)
  BY <1>1, ElementOfSeq
<1>3. ASSUME NEW m \in Said(U)
      PROVE  /\ m.ids \subseteq Ids
             /\ m.role = "call" => m.ids \subseteq U /\ IsFiniteSet(m.ids)
             /\ m.role = "reply" => \E i \in U : m.ids = {i}
  BY DEF Said, Message
<1>4. ASSUME NEW k \in 1..Len(ms), ms[k].role = "call" PROVE Cardinality(ms[k].ids) \in Nat
  <2>1. IsFiniteSet(ms[k].ids)
    BY <1>2, <1>3, <1>4
  <2> QED
    BY <2>1, FS_CardinalityType
<1> QED
  BY <1>1, <1>2, <1>3, <1>4

-----------------------------------------------------------------------------
(* Types                                                                   *)

MissingOf(ms, C) == UNION {Missing(ms, i) : i \in C}

\* What is missing is finite, message by message.
LEMMA MissingIsFinite ==
  ASSUME NEW U \in SUBSET Ids, NEW ms \in Seq(Said(U)), NEW C \in SUBSET Calls(ms)
  PROVE  /\ IsFiniteSet(MissingOf(ms, C))
         /\ MissingOf(ms, C) \subseteq U /\ MissingOf(ms, C) \subseteq Orphans(ms)
<1> DEFINE f == [i \in C |-> Missing(ms, i)]
           T == {Missing(ms, i) : i \in C}
<1>1. \A i \in C : i \in 1..Len(ms) /\ ms[i].role = "call"
  BY SaidIs DEF Calls
<1>2. IsFiniteSet(C)
  <2>1. IsFiniteSet(1..Len(ms))
    <3>1. Len(ms) \in Int /\ 1 \in Int
      BY SaidIs
    <3> QED
      BY <3>1, FS_Interval
  <2>2. C \in SUBSET (1..Len(ms))
    BY <1>1
  <2> QED
    BY <2>1, <2>2, FS_Subset
<1>3. ASSUME NEW i \in C
      PROVE  IsFiniteSet(Missing(ms, i)) /\ Missing(ms, i) \subseteq U /\ Missing(ms, i) \subseteq Orphans(ms)
  <2>1. IsFiniteSet(ms[i].ids) /\ ms[i].ids \subseteq U
    BY <1>1, SaidIs
  <2>2. Missing(ms, i) \in SUBSET ms[i].ids
    BY DEF Missing
  <2>3. Missing(ms, i) \subseteq Orphans(ms)
    BY DEF Orphans
  <2> QED
    BY <2>1, <2>2, <2>3, FS_Subset
<1>4. f \in Surjection(C, T)
  <2> HIDE DEF T
  <2>1. \A i \in C : Missing(ms, i) \in T
    BY DEF T
  <2>2. f \in [C -> T]
    BY <2>1
  <2>3. \A x \in T : \E i \in C : f[i] = x
    BY DEF T
  <2> QED
    BY <2>2, <2>3, Zenon DEF Surjection
<1> HIDE DEF f
<1>5. IsFiniteSet(T)
  BY <1>2, <1>4, FS_Surjection
<1>6. \A x \in T : IsFiniteSet(x) /\ x \subseteq U /\ x \subseteq Orphans(ms)
  BY <1>3
<1> HIDE DEF T
<1>7. IsFiniteSet(UNION T) /\ UNION T \subseteq U /\ UNION T \subseteq Orphans(ms)
  BY <1>5, <1>6, FS_UNION
<1> QED
  BY <1>7 DEF T, MissingOf

\* A swept conversation is a conversation.
LEMMA SweepIsSaid ==
  ASSUME NEW U \in SUBSET Ids, NEW ms \in Seq(Said(U)), NEW word,
         \A i \in Orphans(ms) : word[i] \in Verdicts
  PROVE  Sweep(ms, word) \in Seq(Said(U))
<1> DEFINE ends(k) == {i \in Calls(ms) : BlockEnd(ms, i) = k}
           fill(k) == MissingOf(ms, ends(k))
           part(k) == <<ms[k]>> \o Replies(fill(k), word)
           seqs == [k \in DOMAIN ms |-> part(k)]
<1>1. CASE Orphans(ms) = {}
  BY <1>1 DEF Sweep
<1>2. CASE Orphans(ms) # {}
  <2>1. Sweep(ms, word) = FlattenSeq(seqs)
    BY <1>2 DEF Sweep, MissingOf
  <2>2. ASSUME NEW k \in 1..Len(ms) PROVE part(k) \in Seq(Said(U))
    <3>1. fill(k) \in SUBSET U /\ IsFiniteSet(fill(k)) /\ fill(k) \subseteq Orphans(ms)
      <4>1. ends(k) \in SUBSET Calls(ms)
        OBVIOUS
      <4> HIDE DEF ends
      <4> QED
        BY <4>1, MissingIsFinite
    <3> HIDE DEF fill
    <3>2. Replies(fill(k), word) \in Seq(Said(U))
      BY <3>1, RepliesAreSaid
    <3>3. <<ms[k]>> \in Seq(Said(U))
      BY SaidIs
    <3> HIDE DEF part
    <3>4. part(k) = <<ms[k]>> \o Replies(fill(k), word)
      BY DEF part
    <3> QED
      BY <3>2, <3>3, <3>4, ConcatProperties
  <2> HIDE DEF part
  <2>3. Len(ms) \in Nat /\ DOMAIN ms = 1..Len(ms)
    BY SaidIs
  <2>4. Len(ms) # 0
    <3>1. Calls(ms) # {}
      BY <1>2 DEF Orphans
    <3> QED
      BY <3>1, <2>3 DEF Calls
  <2>5. seqs \in [1..Len(ms) -> Seq(Said(U))]
    BY <2>2, <2>3
  <2>6. Len(seqs) = Len(ms) /\ \A k \in 1..Len(ms) : seqs[k] \in Seq(Said(U))
    BY <2>3, <2>5, FunctionIsSeq
  <2> HIDE DEF seqs
  <2>7. FlattenSeq(seqs) \in Seq(Said(U))
    <3>1. Len(seqs) \in Nat \ {0} /\ \A k \in 1..Len(seqs) : seqs[k] \in Seq(Said(U))
      BY <2>3, <2>4, <2>6
    <3> QED
      BY <3>1, FlattenTypes
  <2> QED
    BY <2>1, <2>7
<1> QED
  BY <1>1, <1>2

\* What a compression drops, and where it cuts.
LEMMA DropIsSafe ==
  ASSUME NEW ms, Len(ms) \in Nat, NEW n \in Nat, NEW d, d = PairSafeDrop(ms, DroppableCount(ms, n))
  PROVE  d = 0 \/ (d \in 1..Len(ms) - 1 /\ ~IsReply(ms[d + 1]))
<1> DEFINE c == DroppableCount(ms, n)
           keep == Max({MinKeepRecent, Min({n, Len(ms)})})
           safe == {e \in 1..c : OpenCalls(ms)[e] = 0 /\ ~IsReply(ms[e + 1])}
<1>1. keep \in Nat /\ keep >= 2
  <2>1. Min({n, Len(ms)}) \in Nat
    <3>1. \E x \in {n, Len(ms)} : \A y \in {n, Len(ms)} : x <= y
      <4>1. n <= Len(ms) \/ Len(ms) <= n
        OBVIOUS
      <4> QED
        BY <4>1
    <3>2. Min({n, Len(ms)}) \in {n, Len(ms)}
      BY <3>1 DEF Min
    <3> QED
      BY <3>2
  <2> DEFINE m == Min({n, Len(ms)})
  <2> HIDE DEF m
  <2>2. m \in Nat
    BY <2>1 DEF m
  <2>3. \E x \in {2, m} : \A y \in {2, m} : x >= y
    <3>1. m >= 2 \/ 2 >= m
      BY <2>2
    <3> QED
      BY <3>1, <2>2
  <2>4. Max({2, m}) \in {2, m} /\ Max({2, m}) >= 2
    BY <2>3 DEF Max
  <2> QED
    BY <2>2, <2>4 DEF m, MinKeepRecent
<1>2. c = IF Len(ms) > keep THEN Len(ms) - keep ELSE 0
  BY DEF DroppableCount
<1> HIDE DEF keep, c
<1>3. c \in Nat /\ (c = 0 \/ c <= Len(ms) - 2)
  BY <1>1, <1>2
<1>4. d = IF safe = {} THEN 0 ELSE Max(safe)
  BY DEF PairSafeDrop, c
<1>5. CASE safe # {}
  <2>1. safe \in SUBSET (1..c)
    OBVIOUS
  <2>2. Max(safe) \in safe
    <3> HIDE DEF safe
    <3> QED
      BY <2>1, <1>3, <1>5, LargestOf
  <2>3. d \in 1..c /\ ~IsReply(ms[d + 1])
    BY <1>4, <1>5, <2>2
  <2> QED
    BY <2>3, <1>3
<1> QED
  BY <1>4, <1>5

\* Either nothing is cut, or a placeholder stands for the first d messages.
LEMMA CutIs ==
  ASSUME NEW S, NEW ms \in Seq(S), Text("system") \in S, NEW n \in Nat
  PROVE  \/ Candidate(ms, n) = ms
         \/ \E d \in 1..Len(ms) - 1 :
              /\ ~IsReply(ms[d + 1])
              /\ Candidate(ms, n) \in Seq(S)
              /\ Len(Candidate(ms, n)) = Len(ms) - d + 1
              /\ Candidate(ms, n)[1] = Text("system")
              /\ \A k \in 2..Len(ms) - d + 1 : Candidate(ms, n)[k] = ms[k + d - 1]
<1> DEFINE d == PairSafeDrop(ms, DroppableCount(ms, n))
           tail == SubSeq(ms, d + 1, Len(ms))
           t == <<Text("system")>> \o tail
<1>1. Len(ms) \in Nat /\ \A k \in 1..Len(ms) : ms[k] \in S
  BY LenProperties, ElementOfSeq
<1>2. d = 0 \/ (d \in 1..Len(ms) - 1 /\ ~IsReply(ms[d + 1]))
  BY <1>1, DropIsSafe
<1>3. Candidate(ms, n) = IF d = 0 THEN ms ELSE t
  BY DEF Candidate
<1> HIDE DEF d
<1>4. CASE d = 0
  BY <1>3, <1>4
<1>5. CASE d # 0
  <2>1. d \in Nat /\ d >= 1 /\ d <= Len(ms) - 1 /\ d + 1 \in Int /\ Len(ms) \in Int
    BY <1>1, <1>2, <1>5
  <2>2. \A i \in d + 1..Len(ms) : ms[i] \in S
    BY <1>1, <2>1
  <2>3. /\ tail \in Seq(S)
        /\ Len(tail) = IF d + 1 <= Len(ms) THEN Len(ms) - (d + 1) + 1 ELSE 0
        /\ \A i \in 1..Len(ms) - (d + 1) + 1 : tail[i] = ms[d + 1 + i - 1]
    BY <2>1, <2>2, SubSeqProperties
  <2> HIDE DEF tail
  <2>4. Len(tail) = Len(ms) - d
    BY <2>1, <2>3, <1>1
  <2>5. \A i \in 1..Len(ms) - d : tail[i] = ms[d + i]
    <3>1. \A i \in 1..Len(ms) - d : i \in 1..Len(ms) - (d + 1) + 1 /\ d + 1 + i - 1 = d + i
      BY <2>1, <1>1
    <3> QED
      BY <3>1, <2>3
  <2>6. <<Text("system")>> \in Seq(S) /\ Len(<<Text("system")>>) = 1 /\ <<Text("system")>>[1] = Text("system")
    OBVIOUS
  <2> DEFINE one == <<Text("system")>>
  <2> HIDE DEF one
  <2>7. /\ one \o tail \in Seq(S) /\ Len(one \o tail) = 1 + Len(tail)
        /\ \A i \in 1..1 + Len(tail) : (one \o tail)[i] = IF i <= 1 THEN one[i] ELSE tail[i - 1]
    <3>1. one \in Seq(S) /\ Len(one) = 1
      BY <2>6 DEF one
    <3>2. /\ one \o tail \in Seq(S) /\ Len(one \o tail) = Len(one) + Len(tail)
          /\ \A i \in 1..Len(one) + Len(tail) :
               (one \o tail)[i] = IF i <= Len(one) THEN one[i] ELSE tail[i - Len(one)]
      BY <3>1, <2>3, ConcatProperties, Zenon
    <3> QED
      BY <3>1, <3>2
  <2>8. t = one \o tail /\ one[1] = Text("system")
    BY <2>6 DEF one
  <2> HIDE DEF t
  <2>9. t \in Seq(S) /\ Len(t) = Len(ms) - d + 1
    BY <2>4, <2>7, <2>8, <2>1, <1>1
  <2>10. t[1] = Text("system")
    <3>1. 1 \in 1..1 + Len(tail)
      BY <2>4, <2>1, <1>1
    <3> QED
      BY <3>1, <2>7, <2>8
  <2>11. ASSUME NEW k \in 2..Len(ms) - d + 1 PROVE t[k] = ms[k + d - 1]
    <3>1. k \in 1..1 + Len(tail) /\ ~(k <= 1) /\ k - 1 \in 1..Len(ms) - d /\ d + (k - 1) = k + d - 1
      BY <2>4, <2>1, <1>1
    <3>2. t[k] = tail[k - 1]
      BY <3>1, <2>7, <2>8
    <3>3. tail[k - 1] = ms[d + (k - 1)]
      BY <3>1, <2>5
    <3> QED
      BY <3>1, <3>2, <3>3
  <2>12. Candidate(ms, n) = t /\ d \in 1..Len(ms) - 1 /\ ~IsReply(ms[d + 1])
    BY <1>2, <1>3, <1>5
  <2> QED
    BY <2>9, <2>10, <2>11, <2>12
<1> QED
  BY <1>4, <1>5

\* What the next request carries is a conversation, too.
LEMMA RequestsAreSaid ==
  ASSUME NEW U \in SUBSET Ids, msgs \in Seq(Said(U)), NEW req \in Requests
  PROVE  req \in Seq(Said(U))
<1>1. PICK n \in KeepRecents : req \in Compressed(Sweep(msgs, SweepWord), n)
  BY DEF Requests
<1>2. \A i \in Orphans(msgs) : SweepWord[i] \in Verdicts
  BY DEF SweepWord, Verdicts
<1>3. Sweep(msgs, SweepWord) \in Seq(Said(U))
  BY <1>2, SweepIsSaid
<1>4. Text("system") \in Said(U)
  BY DEF Text, Said, Message, Verdicts
<1>5. req = Sweep(msgs, SweepWord) \/ req = Candidate(Sweep(msgs, SweepWord), n)
  BY <1>1 DEF Compressed
<1>6. n \in Nat
  BY LoopAssumption
<1>7. Candidate(Sweep(msgs, SweepWord), n) \in Seq(Said(U))
  BY <1>3, <1>4, <1>6, CutIs
<1> QED
  BY <1>3, <1>5, <1>7

-----------------------------------------------------------------------------
(* What the steps of the graph do to the records of calls                  *)

\* The records that a call id has.
RecordsOf(i) == {k \in DOMAIN steps : steps[k].verdict[i] # "none"}

LEMMA UsedHasRecord ==
  ASSUME steps \in Seq(StepRecords), NEW i \in Used
  PROVE  /\ i \in Ids
         /\ RecordOf(i) \in 1..Len(steps) /\ steps[RecordOf(i)].verdict[i] # "none"
         /\ \A k \in 1..Len(steps) : k > RecordOf(i) => steps[k].verdict[i] = "none"
<1>1. Len(steps) \in Nat /\ DOMAIN steps = 1..Len(steps)
  BY StepsAreRecords
<1>2. i \in Ids /\ RecordsOf(i) \in SUBSET (1..Len(steps)) /\ RecordsOf(i) # {}
  BY <1>1 DEF Used, RecordsOf
<1>3. RecordOf(i) = Max(RecordsOf(i))
  BY DEF RecordOf, RecordsOf
<1>4. Max(RecordsOf(i)) \in RecordsOf(i) /\ \A k \in RecordsOf(i) : Max(RecordsOf(i)) >= k
  BY <1>1, <1>2, LargestOf
<1>5. RecordOf(i) \in 1..Len(steps) /\ steps[RecordOf(i)].verdict[i] # "none"
  BY <1>1, <1>3, <1>4 DEF RecordsOf
<1>6. ASSUME NEW k \in 1..Len(steps), k > RecordOf(i) PROVE steps[k].verdict[i] = "none"
  <2>1. k \notin RecordsOf(i)
    <3>1. k \in RecordsOf(i) => RecordOf(i) >= k
      BY <1>3, <1>4
    <3> QED
      BY <3>1, <1>5, <1>6
  <2> QED
    BY <2>1, <1>1 DEF RecordsOf
<1> QED
  BY <1>2, <1>5, <1>6

\* The verdict of a call with a record is one that was given.
LEMMA UsedHasVerdict ==
  ASSUME steps \in Seq(StepRecords), NEW i \in Used
  PROVE  VerdictOf(i) \in Verdicts \ {"none"}
<1>1. i \in Ids /\ RecordOf(i) \in DOMAIN steps /\ steps[RecordOf(i)].verdict[i] # "none"
  BY UsedHasRecord, StepsAreRecords
<1>2. steps[RecordOf(i)].verdict \in [Ids -> Verdicts]
  BY <1>1, StepsAreRecords
<1> QED
  BY <1>1, <1>2 DEF VerdictOf

\* The last record that has an id is the record of the id.
LEMMA LastRecord ==
  ASSUME steps \in Seq(StepRecords), NEW i \in Ids, NEW k \in 1..Len(steps),
         steps[k].verdict[i] # "none",
         \A j \in 1..Len(steps) : j > k => steps[j].verdict[i] = "none"
  PROVE  i \in Used /\ RecordOf(i) = k
<1>1. Len(steps) \in Nat /\ DOMAIN steps = 1..Len(steps)
  BY StepsAreRecords
<1>2. i \in Used
  BY <1>1 DEF Used
<1>3. /\ RecordOf(i) \in 1..Len(steps) /\ steps[RecordOf(i)].verdict[i] # "none"
      /\ \A j \in 1..Len(steps) : j > RecordOf(i) => steps[j].verdict[i] = "none"
  BY <1>2, UsedHasRecord
<1>4. ~(RecordOf(i) > k) /\ ~(k > RecordOf(i))
  BY <1>3
<1> QED
  BY <1>1, <1>2, <1>3, <1>4

LEMMA UsedAreIds == Used \in SUBSET Ids
  BY DEF Used

\* No verdict of a call is touched.
SameVerdicts ==
  /\ Len(steps') = Len(steps)
  /\ \A k \in 1..Len(steps) : steps'[k].verdict = steps[k].verdict

\* The last step's pending calls are decided.
LastDecided ==
  /\ Len(steps') = Len(steps) /\ Len(steps) # 0
  /\ \A k \in 1..Len(steps) : k # Len(steps) => steps'[k].verdict = steps[k].verdict
  /\ \A i \in Ids : IF i \in Pending THEN steps'[Len(steps)].verdict[i] \in {"failed", "success"}
                    ELSE steps'[Len(steps)].verdict[i] = steps[Len(steps)].verdict[i]

\* Pending calls without a reply are swept, and a step is opened.
Opened(S, blocked) ==
  /\ Len(steps') = Len(steps) + 1
  /\ \A k \in 1..Len(steps) : \A i \in Ids :
       steps'[k].verdict[i] = SweptSteps[k].verdict[i]
  /\ \A i \in Ids : steps'[Len(steps) + 1].verdict[i] =
       IF i \in blocked THEN "blocked" ELSE IF i \in S THEN "pending" ELSE "none"

LEMMA FinishSame == LoopInv /\ Finish => SameVerdicts
<1> SUFFICES ASSUME LoopInv, Finish PROVE SameVerdicts
  OBVIOUS
<1> DEFINE n == Len(steps)
           verdict == IF answered /\ ~error THEN "done" ELSE "failed"
           new == [steps[n] EXCEPT !.status = verdict]
<1>1. /\ n \in Nat /\ DOMAIN steps = 1..n /\ steps \in Seq(StepRecords)
      /\ \A k \in 1..n : steps[k] \in StepRecords
  BY StepsAreRecords DEF LoopInv
<1>2. steps' = steps \/ steps' = [steps EXCEPT ![n] = new]
  BY DEF Finish, Settled, Last
<1>3. CASE steps' = steps
  BY <1>3 DEF SameVerdicts
<1>4. CASE steps' = [steps EXCEPT ![n] = new]
  <2> HIDE DEF verdict
  <2>1. n \in 1..n => new.verdict = steps[n].verdict
    BY <1>1 DEF StepRecords
  <2> HIDE DEF new
  <2>2. DOMAIN steps' = 1..n /\ \A k \in 1..n : steps'[k] = IF k = n THEN new ELSE steps[k]
    BY <1>1, <1>4
  <2>3. Len(steps') = n
    BY <1>1, <1>4, LoopNext, StepsAreRecords, <2>2
  <2> QED
    BY <2>1, <2>2, <2>3 DEF SameVerdicts
<1> QED
  BY <1>2, <1>3, <1>4

LEMMA CrashSame == LoopInv /\ Crash => SameVerdicts
<1> SUFFICES ASSUME LoopInv, Crash PROVE SameVerdicts
  OBVIOUS
<1> DEFINE n == Len(steps)
<1>1. /\ n \in Nat /\ DOMAIN steps = 1..n
      /\ \A k \in 1..n : steps[k] \in StepRecords
  BY StepsAreRecords DEF LoopInv
<1>2. PICK ranNow :
        steps' = [k \in DOMAIN steps |->
                   IF k < Len(steps) THEN steps[k]
                   ELSE [steps[k] EXCEPT
                          !.lost = @ \/ steps[k].status = "running",
                          !.ran = [i \in Ids |-> IF i \in ranNow /\ @[i] < 2
                                                 THEN @[i] + 1 ELSE @[i]]]]
  BY DEF Crash
<1>3. DOMAIN steps' = 1..n
  BY <1>1, <1>2
<1>4. ASSUME NEW k \in 1..n PROVE steps'[k].verdict = steps[k].verdict
  <2> DEFINE ran == [i \in Ids |-> IF i \in ranNow /\ steps[k].ran[i] < 2
                                   THEN steps[k].ran[i] + 1 ELSE steps[k].ran[i]]
             lost == steps[k].lost \/ steps[k].status = "running"
             new == [steps[k] EXCEPT !.lost = lost, !.ran = ran]
  <2>1. steps'[k] = IF k < n THEN steps[k] ELSE new
    BY <1>1, <1>2
  <2> HIDE DEF ran, lost
  <2>2. new.verdict = steps[k].verdict
    BY <1>1 DEF StepRecords
  <2> QED
    BY <2>1, <2>2
<1>5. Len(steps') = n
  <2>1. steps' \in Seq(StepRecords)
    BY CrashKeeps DEF LoopInv
  <2>2. Len(steps') \in Nat /\ DOMAIN steps' = 1..Len(steps')
    BY <2>1, LenProperties
  <2>3. ASSUME NEW a \in Nat, NEW c \in Nat, 1..a = 1..c PROVE a = c
    <3>1. a \in 1..a <=> a \in 1..c
      BY <2>3
    <3>2. c \in 1..a <=> c \in 1..c
      BY <2>3
    <3> QED
      BY <3>1, <3>2
  <2> HIDE DEF n
  <2> QED
    BY <2>2, <2>3, <1>1, <1>3
<1> QED
  BY <1>4, <1>5 DEF SameVerdicts

LEMMA TurnOpens ==
  ASSUME LoopInv, NEW S, NEW blocked, Turn(S, blocked)
  PROVE  Opened(S, blocked)
<1> DEFINE n == Len(steps)
           new == NewStep(S, blocked)
<1>1. /\ steps \in Seq(StepRecords) /\ roundNo \in Nat
      /\ n \in Nat /\ DOMAIN steps = 1..n
  BY StepsAreRecords DEF LoopInv
<1>2. new \in StepRecords /\ steps' = Append(SweptSteps, new)
  BY <1>1, NewStepIsFresh DEF Turn
<1>3. \A i \in Ids : new.verdict[i] =
        IF i \in blocked THEN "blocked" ELSE IF i \in S THEN "pending" ELSE "none"
  BY DEF NewStep
<1> HIDE DEF new
<1>4. SweptSteps \in Seq(StepRecords) /\ Len(SweptSteps) = n
  BY <1>1, SweepKeeps
<1>5. Len(steps') = n + 1 /\ steps'[n + 1] = new /\ \A k \in 1..n : steps'[k] = SweptSteps[k]
  BY <1>1, <1>2, <1>4, AppendProperties
<1> QED
  BY <1>3, <1>5 DEF Opened

LEMMA ToolsDecide ==
  ASSUME LoopInv, NEW absent, NEW bad, RunsTools(absent, bad)
  PROVE  /\ LastDecided
         /\ \A i \in Pending : Last(steps').verdict[i] =
              IF i \in absent \cup bad THEN "failed" ELSE "success"
<1> DEFINE n == Len(steps)
           word == [i \in Dispatchable |-> IF i \in absent \cup bad THEN "failed" ELSE "success"]
           verdict == [i \in Ids |-> IF i \in Dispatchable THEN word[i] ELSE steps[n].verdict[i]]
           ran == [i \in Ids |-> IF i \in Dispatchable \ absent /\ steps[n].ran[i] < 2
                                 THEN steps[n].ran[i] + 1 ELSE steps[n].ran[i]]
           new == [steps[n] EXCEPT !.status = "done", !.verdict = verdict, !.ran = ran]
<1>1. /\ n \in Nat /\ DOMAIN steps = 1..n
      /\ n \in 1..n /\ steps[n].status = "running"
      /\ \A k \in 1..n : steps[k] \in StepRecords
  <2>1. node = "tool" /\ steps # <<>>
    BY DEF RunsTools, LoopInv, ToolStepIsFresh
  <2> QED
    BY <2>1, StepsAreRecords, EmptySeq DEF LoopInv, ToolStepIsFresh
<1>2. steps' = [steps EXCEPT ![n] = new]
  BY DEF RunsTools, Last
<1>3. \A i \in Ids : IF i \in Pending THEN verdict[i] \in {"failed", "success"}
                     ELSE verdict[i] = steps[n].verdict[i]
  BY DEF Dispatchable
<1>11. \A i \in Pending : verdict[i] = IF i \in absent \cup bad THEN "failed" ELSE "success"
  BY DEF Dispatchable, Pending
<1> HIDE DEF verdict, ran
<1>4. new.verdict = verdict
  BY <1>1 DEF StepRecords
<1> HIDE DEF new
<1>5. \A k \in 1..n : steps'[k] = IF k = n THEN new ELSE steps[k]
  BY <1>1, <1>2
<1>6. Len(steps') = n
  BY <1>1, <1>2
<1>7. n \in 1..n
  BY <1>1
<1>8. n # 0
  BY <1>7
<1> HIDE DEF n
<1>9. steps'[n].verdict = verdict
  BY <1>4, <1>5, <1>7
<1>10. \A k \in 1..n : k # n => steps'[k] = steps[k]
  BY <1>5
<1>12. Last(steps') = steps'[n]
  BY <1>6 DEF Last
<1>13. LastDecided
  BY <1>3, <1>6, <1>8, <1>9, <1>10 DEF LastDecided, n
<1> QED
  BY <1>9, <1>11, <1>12, <1>13

\* Where no verdict is touched nothing about the calls changes.
LEMMA SameCalls ==
  ASSUME steps \in Seq(StepRecords), steps' \in Seq(StepRecords), SameVerdicts
  PROVE  /\ Used' = Used /\ Pending' = Pending
         /\ \A i \in Used : VerdictOf(i)' = VerdictOf(i)
<1>1. /\ Len(steps) \in Nat /\ DOMAIN steps = 1..Len(steps) /\ DOMAIN steps' = 1..Len(steps)
      /\ \A k \in 1..Len(steps) : steps'[k].verdict = steps[k].verdict
  BY LenProperties DEF SameVerdicts
<1>2. Used' = Used
  BY <1>1 DEF Used
<1>3. Pending' = Pending
  <2>1. steps # <<>> <=> steps' # <<>>
    BY <1>1, EmptySeq DEF SameVerdicts
  <2>2. steps # <<>> => Len(steps) \in 1..Len(steps)
    BY <1>1, EmptySeq
  <2>3. steps # <<>> => Last(steps').verdict = Last(steps).verdict
    BY <2>2, <1>1 DEF SameVerdicts, Last
  <2> QED
    BY <2>1, <2>3 DEF Pending
<1>4. ASSUME NEW i \in Used PROVE VerdictOf(i)' = VerdictOf(i)
  <2>1. RecordsOf(i)' = RecordsOf(i)
    BY <1>1 DEF RecordsOf
  <2>2. RecordOf(i)' = RecordOf(i)
    BY <2>1 DEF RecordOf, RecordsOf
  <2>3. RecordOf(i) \in 1..Len(steps)
    BY UsedHasRecord
  <2> QED
    BY <2>2, <2>3, <1>1 DEF VerdictOf
<1> QED
  BY <1>2, <1>3, <1>4

\* The tool node decides what is pending and nothing else.
LEMMA DecidedCalls ==
  ASSUME steps \in Seq(StepRecords), steps' \in Seq(StepRecords), LastDecided
  PROVE  /\ Used' = Used /\ Pending' = {}
         /\ \A i \in Used \ Pending : VerdictOf(i)' = VerdictOf(i)
         /\ Pending \subseteq Used
         /\ \A i \in Pending : VerdictOf(i)' = Last(steps').verdict[i]
<1> DEFINE n == Len(steps)
<1>0. n \in Nat /\ n # 0
  BY LenProperties DEF LastDecided
<1>1. /\ n \in Nat /\ n # 0 /\ DOMAIN steps = 1..n /\ DOMAIN steps' = 1..n /\ Len(steps') = n
      /\ \A k \in 1..n : k # n => steps'[k].verdict = steps[k].verdict
      /\ steps # <<>> /\ steps' # <<>>
  BY LenProperties, EmptySeq DEF LastDecided
<1>2. n \in 1..n /\ Last(steps) = steps[n] /\ Last(steps') = steps'[n]
  <2>1. n \in 1..n
    BY <1>0
  <2>2. Last(steps) = steps[n] /\ Last(steps') = steps'[Len(steps')]
    BY DEF Last
  <2> QED
    BY <2>1, <2>2, <1>1
<1>3. Pending = {i \in Ids : steps[n].verdict[i] = "pending"}
  BY <1>1, <1>2 DEF Pending
<1>4. \A i \in Ids : IF i \in Pending THEN steps'[n].verdict[i] \in {"failed", "success"}
                     ELSE steps'[n].verdict[i] = steps[n].verdict[i]
  BY DEF LastDecided
<1> HIDE DEF n
<1>5. \A i \in Ids : \A k \in 1..n :
        (steps'[k].verdict[i] # "none") <=> (steps[k].verdict[i] # "none")
  <2> SUFFICES ASSUME NEW i \in Ids, NEW k \in 1..n
               PROVE  (steps'[k].verdict[i] # "none") <=> (steps[k].verdict[i] # "none")
    OBVIOUS
  <2>1. CASE k # n
    BY <2>1, <1>1
  <2>2. CASE k = n
    BY <2>2, <1>3, <1>4
  <2> QED
    BY <2>1, <2>2
<1>6. Used' = Used
  BY <1>1, <1>5 DEF Used
<1>7. Pending' = {i \in Ids : steps'[n].verdict[i] = "pending"}
  BY <1>1, <1>2 DEF Pending
<1>8. Pending' = {}
  BY <1>3, <1>4, <1>7
<1>9. ASSUME NEW i \in Used
      PROVE  RecordOf(i)' = RecordOf(i) /\ RecordOf(i) \in 1..n /\ i \in Ids
  <2>1. i \in Ids /\ RecordOf(i) \in 1..n
    BY UsedHasRecord DEF n
  <2>2. RecordsOf(i)' = RecordsOf(i)
    BY <2>1, <1>1, <1>5 DEF RecordsOf
  <2> QED
    BY <2>1, <2>2 DEF RecordOf, RecordsOf
<1>10. ASSUME NEW i \in Used \ Pending PROVE VerdictOf(i)' = VerdictOf(i)
  <2>1. steps'[RecordOf(i)].verdict[i] = steps[RecordOf(i)].verdict[i]
    BY <1>1, <1>4, <1>9
  <2> QED
    BY <2>1, <1>9 DEF VerdictOf
<1>11. Pending \subseteq Used
  BY <1>1, <1>2, <1>3 DEF Used
<1>12. ASSUME NEW i \in Pending PROVE VerdictOf(i)' = Last(steps').verdict[i]
  <2>1. i \in Ids /\ i \in Used /\ steps[n].verdict[i] = "pending"
    BY <1>3, <1>11
  <2>2. \A j \in 1..n : ~(j > n)
    BY <1>1
  <2>3. RecordOf(i) = n
    BY <2>1, <2>2, <1>2, LastRecord DEF n
  <2> QED
    BY <2>3, <2>1, <1>2, <1>9 DEF VerdictOf
<1> QED
  BY <1>6, <1>8, <1>10, <1>11, <1>12

\* A turn uses the ids of its calls; what was swept is swept, and no older call's verdict
\* changes otherwise, if the ids are new ones.
LEMMA OpenedCalls ==
  ASSUME steps \in Seq(StepRecords), steps' \in Seq(StepRecords),
         NEW S \in SUBSET Ids, NEW blocked \in SUBSET S, Opened(S, blocked)
  PROVE  /\ Used' = Used \cup S /\ Pending' = S \ blocked
         /\ \A i \in S : VerdictOf(i)' = IF i \in blocked THEN "blocked" ELSE "pending"
         /\ \A i \in Used \ S : VerdictOf(i)' =
              IF i \in Orphans(msgs) /\ VerdictOf(i) = "pending" THEN "swept" ELSE VerdictOf(i)
<1> DEFINE n == Len(steps)
<1>1. /\ n \in Nat /\ DOMAIN steps = 1..n /\ DOMAIN steps' = 1..n + 1 /\ Len(steps') = n + 1
      /\ steps' # <<>>
  BY LenProperties, EmptySeq DEF Opened
<1>2. \A k \in 1..n : \A i \in Ids : steps'[k].verdict[i] =
        IF i \in Orphans(msgs) /\ RecordOf(i) = k /\ steps[k].verdict[i] = "pending"
        THEN "swept" ELSE steps[k].verdict[i]
  <2> SUFFICES ASSUME NEW k \in 1..n, NEW i \in Ids
               PROVE  SweptSteps[k].verdict[i] =
                 IF i \in Orphans(msgs) /\ RecordOf(i) = k /\ steps[k].verdict[i] = "pending"
                 THEN "swept" ELSE steps[k].verdict[i]
    BY DEF Opened
  <2> DEFINE word == [j \in Ids |-> IF /\ j \in Orphans(msgs)
                                       /\ RecordOf(j) = k
                                       /\ steps[k].verdict[j] = "pending"
                                    THEN "swept" ELSE steps[k].verdict[j]]
  <2>1. SweptSteps[k] = [steps[k] EXCEPT !.verdict = word]
    BY <1>1 DEF SweptSteps
  <2>2. word[i] = IF i \in Orphans(msgs) /\ RecordOf(i) = k /\ steps[k].verdict[i] = "pending"
                  THEN "swept" ELSE steps[k].verdict[i]
    OBVIOUS
  <2>3. steps[k] \in StepRecords
    BY <1>1, StepsAreRecords
  <2> HIDE DEF word
  <2>4. SweptSteps[k].verdict = word
    BY <2>1, <2>3 DEF StepRecords
  <2> QED
    BY <2>2, <2>4
<1>3. \A i \in Ids : steps'[n + 1].verdict[i] =
        IF i \in blocked THEN "blocked" ELSE IF i \in S THEN "pending" ELSE "none"
  BY DEF Opened
<1> HIDE DEF n
<1>4. \A k \in 1..n + 1 : k \in 1..n \/ k = n + 1
  BY <1>1
<1>5. n + 1 \in 1..n + 1 /\ 1..n \subseteq 1..n + 1
  BY <1>1
<1>6. Used' = Used \cup S
  <2>1. ASSUME NEW i \in Ids PROVE i \in Used' <=> i \in Used \/ i \in S
    <3>1. i \in Used' <=> \E k \in 1..n + 1 : steps'[k].verdict[i] # "none"
      BY <1>1 DEF Used
    <3>2. i \in Used <=> \E k \in 1..n : steps[k].verdict[i] # "none"
      BY <1>1 DEF Used
    <3>3. \A k \in 1..n : (steps'[k].verdict[i] # "none") <=> (steps[k].verdict[i] # "none")
      BY <1>2
    <3>4. steps'[n + 1].verdict[i] # "none" <=> i \in S
      BY <1>3
    <3> QED
      BY <3>1, <3>2, <3>3, <3>4, <1>4, <1>5
  <2>2. Used' \subseteq Ids /\ Used \subseteq Ids
    BY DEF Used
  <2> QED
    BY <2>1, <2>2
<1>7. Pending' = S \ blocked
  <2>1. Pending' = {i \in Ids : steps'[n + 1].verdict[i] = "pending"}
    BY <1>1 DEF Pending, Last
  <2> QED
    BY <2>1, <1>3
<1>8. ASSUME NEW i \in S PROVE VerdictOf(i)' = IF i \in blocked THEN "blocked" ELSE "pending"
  <2>1. steps'[n + 1].verdict[i] # "none" /\ i \in Ids
    BY <1>3
  <2>2. \A j \in 1..n + 1 : ~(j > n + 1)
    BY <1>1
  <2>3. RecordOf(i)' = n + 1
    <3>1. \A k \in (DOMAIN steps)' : k \in 1..n + 1
      BY <1>1
    <3>2. RecordsOf(i)' \in SUBSET (1..n + 1) /\ n + 1 \in RecordsOf(i)'
      BY <2>1, <1>1, <1>5 DEF RecordsOf
    <3> DEFINE T == RecordsOf(i)'
    <3>3. T \in SUBSET (1..n + 1) /\ n + 1 \in T /\ n + 1 \in Nat /\ T # {}
      BY <3>2, <1>1
    <3>4. RecordOf(i)' = Max(T)
      BY DEF RecordOf, RecordsOf
    <3> HIDE DEF T
    <3>5. Max(T) \in T /\ Max(T) >= n + 1
      BY <3>3, LargestOf
    <3>6. Max(T) \in 1..n + 1
      BY <3>3, <3>5
    <3> QED
      BY <3>4, <3>5, <3>6, <1>1
  <2> QED
    BY <2>1, <2>3, <1>3 DEF VerdictOf
<1>9. ASSUME NEW i \in Used \ S
      PROVE  VerdictOf(i)' =
               IF i \in Orphans(msgs) /\ VerdictOf(i) = "pending" THEN "swept" ELSE VerdictOf(i)
  <2>1. i \in Ids /\ RecordOf(i) \in 1..n
    BY UsedHasRecord DEF n
  <2>2. steps'[n + 1].verdict[i] = "none"
    BY <2>1, <1>3
  <2>3. RecordsOf(i)' = RecordsOf(i)
    <3>1. \A k \in 1..n : (steps'[k].verdict[i] # "none") <=> (steps[k].verdict[i] # "none")
      BY <2>1, <1>2
    <3>2. RecordsOf(i)' = {k \in 1..n + 1 : steps'[k].verdict[i] # "none"}
      BY <1>1 DEF RecordsOf
    <3>3. RecordsOf(i) = {k \in 1..n : steps[k].verdict[i] # "none"}
      BY <1>1 DEF RecordsOf
    <3> QED
      BY <3>1, <3>2, <3>3, <2>2, <1>4, <1>5
  <2>4. RecordOf(i)' = RecordOf(i)
    BY <2>3 DEF RecordOf, RecordsOf
  <2>5. steps'[RecordOf(i)].verdict[i] =
          IF i \in Orphans(msgs) /\ steps[RecordOf(i)].verdict[i] = "pending"
          THEN "swept" ELSE steps[RecordOf(i)].verdict[i]
    BY <2>1, <1>2
  <2> QED
    BY <2>4, <2>5 DEF VerdictOf
<1> QED
  BY <1>6, <1>7, <1>8, <1>9

-----------------------------------------------------------------------------
(* Types: what is said is made of ids that the records know                *)

TalkInv ==
  /\ LoopInv
  /\ msgs \in Seq(Said(Used)) /\ IsFiniteSet(Pending)
  /\ node \in Nodes /\ invokes \in Nat
  /\ stopReq \in BOOLEAN /\ error \in BOOLEAN /\ answered \in BOOLEAN
  /\ flag \in BOOLEAN /\ status \in {"RUNNING", "INTERRUPTED", "FAILED"}

\* The calls of a turn.
LEMMA ChoiceIs ==
  ASSUME NEW S \in IdChoices
  PROVE  S \in SUBSET Ids /\ IsFiniteSet(S) /\ S # {} /\ (~MayReuse => S \cap Used = {})
<1>1. S \in SUBSET Ids /\ IsFiniteSet(S) /\ (~MayReuse => S \cap Used = {})
  BY DEF IdChoices, Fresh
<1>2. Cardinality(S) \in 1..MaxCalls
  BY DEF IdChoices
<1>3. Cardinality(S) # 0
  <2>1. MaxCalls \in Nat
    BY LoopAssumption
  <2> QED
    BY <2>1, <1>2
<1>4. S # {}
  BY <1>3, FS_EmptySet
<1> QED
  BY <1>1, <1>4

\* A turn without calls uses no ids.
LEMMA TextIsSaid ==
  ASSUME NEW U, NEW r \in {"user", "answer", "system"}
  PROVE  Text(r) \in Said(U)
  BY DEF Text, Said, Message, Verdicts

LEMMA AskIsSaid ==
  ASSUME NEW U \in SUBSET Ids, NEW S \in SUBSET U, IsFiniteSet(S), NEW blocked \in SUBSET S,
         NEW req \in Seq(Said(U))
  PROVE  LET all == Append(req, Call(S)) \o Replies(blocked, [i \in blocked |-> "blocked"])
         IN  /\ all \in Seq(Said(U))
             /\ Append(req, Call(S)) \in Seq(Said(U))
             /\ Replies(blocked, [i \in blocked |-> "blocked"]) \in Seq(Said(U))
<1> DEFINE R == Replies(blocked, [i \in blocked |-> "blocked"])
           a == Append(req, Call(S))
<1>1. Call(S) \in Said(U)
  BY DEF Call, Said, Message, Verdicts
<1>2. a \in Seq(Said(U))
  BY <1>1, AppendProperties
<1>3. R \in Seq(Said(U))
  <2>1. IsFiniteSet(blocked) /\ blocked \in SUBSET U
    BY FS_Subset
  <2>2. \A i \in blocked : [j \in blocked |-> "blocked"][i] \in Verdicts
    BY DEF Verdicts
  <2> QED
    BY <2>1, <2>2, RepliesAreSaid
<1> HIDE DEF R, a
<1>4. a \o R \in Seq(Said(U))
  BY <1>2, <1>3, ConcatProperties
<1> QED
  BY <1>2, <1>3, <1>4 DEF R, a

LEMMA TalkStarts == Init => TalkInv
<1> SUFFICES ASSUME Init PROVE TalkInv
  OBVIOUS
<1>1. LoopInv
  BY LoopInit
<1>2. Text("user") \in Said(Used)
  BY TextIsSaid
<1>3. msgs \in Seq(Said(Used))
  BY <1>2 DEF Init
<1>4. IsFiniteSet(Pending)
  <2>1. Pending = {}
    BY DEF Init, Pending
  <2> QED
    BY <2>1, FS_EmptySet
<1> QED
  BY <1>1, <1>3, <1>4 DEF Init, TalkInv, Nodes

LEMMA TalkNext == TalkInv /\ [Next]_vars => TalkInv'
<1> SUFFICES ASSUME TalkInv, [Next]_vars PROVE TalkInv'
  OBVIOUS
<1>1. LoopInv /\ LoopInv' /\ steps \in Seq(StepRecords) /\ steps' \in Seq(StepRecords)
  BY LoopNext DEF TalkInv, LoopInv
<1>2. Used \in SUBSET Ids /\ msgs \in Seq(Said(Used)) /\ IsFiniteSet(Pending)
  BY DEF TalkInv, Used
<1> DEFINE Others ==
      /\ node' \in Nodes /\ invokes' \in Nat
      /\ stopReq' \in BOOLEAN /\ error' \in BOOLEAN /\ answered' \in BOOLEAN
      /\ flag' \in BOOLEAN /\ status' \in {"RUNNING", "INTERRUPTED", "FAILED"}
<1>3. SUFFICES Others /\ msgs' \in Seq(Said(Used')) /\ IsFiniteSet(Pending')
  BY <1>1 DEF TalkInv
<1>4. ASSUME UNCHANGED steps PROVE Used' = Used /\ Pending' = Pending
  BY <1>4 DEF Used, Pending
<1>5. ASSUME NEW S, NEW blocked, S \in SUBSET Ids, blocked \in SUBSET S, Turn(S, blocked)
      PROVE  Used' = Used \cup S /\ Used' \in SUBSET Ids /\ Pending' = S \ blocked
  <2>1. Opened(S, blocked)
    BY <1>1, <1>5, TurnOpens
  <2>2. Used' = Used \cup S /\ Pending' = S \ blocked
    BY <2>1, <1>1, <1>5, OpenedCalls
  <2> QED
    BY <2>2, <1>2, <1>5
<1>6. \A req \in Requests : req \in Seq(Said(Used))
  BY <1>2, RequestsAreSaid
<1>7. CASE StoppedAt("agent") \/ StoppedAt("tool") \/ NodeRaises \/ Stop \/ UNCHANGED vars
  <2>1. UNCHANGED <<msgs, steps>>
    BY <1>7 DEF StoppedAt, NodeRaises, Stop, vars
  <2>2. Others
    BY <1>7 DEF StoppedAt, NodeRaises, Stop, vars, TalkInv, Nodes
  <2> QED
    BY <2>1, <2>2, <1>2, <1>4
<1>8. ASSUME NEW S \in IdChoices, NEW blocked \in SUBSET S, Asks(S, blocked)
      PROVE  Others /\ msgs' \in Seq(Said(Used')) /\ IsFiniteSet(Pending')
  <2>1. S \in SUBSET Ids /\ IsFiniteSet(S)
    BY ChoiceIs
  <2>2. Used' = Used \cup S /\ Used' \in SUBSET Ids /\ IsFiniteSet(Pending')
    <3>1. Used' = Used \cup S /\ Used' \in SUBSET Ids /\ Pending' = S \ blocked
      BY <2>1, <1>5, <1>8 DEF Asks
    <3> QED
      BY <3>1, <2>1, FS_Difference
  <2>3. PICK req \in Requests :
          msgs' = Append(req, Call(S)) \o Replies(blocked, [i \in blocked |-> "blocked"])
    BY <1>8 DEF Asks
  <2>4. req \in Seq(Said(Used'))
    BY <2>2, <1>6, SaidGrows
  <2>5. msgs' \in Seq(Said(Used'))
    BY <2>1, <2>2, <2>3, <2>4, AskIsSaid
  <2>6. Others
    BY <1>8 DEF Asks, TalkInv, Nodes
  <2> QED
    BY <2>2, <2>5, <2>6
<1>9. CASE Answers
  <2>1. Used' = Used /\ IsFiniteSet(Pending')
    <3>1. Used' = Used \cup {} /\ Pending' = {} \ {}
      <4>1. Turn({}, {}) /\ {} \in SUBSET Ids /\ {} \in SUBSET {}
        BY <1>9 DEF Answers
      <4> QED
        BY <4>1, <1>5
    <3> QED
      BY <3>1, FS_EmptySet
  <2>2. PICK req \in Requests : msgs' = Append(req, Text("answer"))
    BY <1>9 DEF Answers
  <2>3. req \in Seq(Said(Used)) /\ Text("answer") \in Said(Used)
    BY <1>6, TextIsSaid
  <2>4. msgs' \in Seq(Said(Used))
    BY <2>2, <2>3, AppendProperties
  <2>5. Others
    BY <1>9 DEF Answers, TalkInv, Nodes
  <2> QED
    BY <2>1, <2>4, <2>5
<1>10. CASE ModelFails
  <2>1. Used' = Used /\ IsFiniteSet(Pending')
    <3>1. Used' = Used \cup {} /\ Pending' = {} \ {}
      <4>1. Turn({}, {}) /\ {} \in SUBSET Ids /\ {} \in SUBSET {}
        BY <1>10 DEF ModelFails
      <4> QED
        BY <4>1, <1>5
    <3> QED
      BY <3>1, FS_EmptySet
  <2>2. msgs' \in Seq(Said(Used))
    BY <1>6, <1>10 DEF ModelFails
  <2>3. Others
    BY <1>10 DEF ModelFails, TalkInv, Nodes
  <2> QED
    BY <2>1, <2>2, <2>3
<1>11. ASSUME NEW absent, NEW bad, RunsTools(absent, bad)
       PROVE  Others /\ msgs' \in Seq(Said(Used')) /\ IsFiniteSet(Pending')
  <2> DEFINE word == [i \in Dispatchable |-> IF i \in absent \cup bad THEN "failed" ELSE "success"]
  <2>1. Used' = Used /\ Pending' = {} /\ Pending \subseteq Used
    BY <1>1, <1>11, ToolsDecide, DecidedCalls
  <2>2. msgs' = msgs \o Replies(Dispatchable, word)
    BY <1>11 DEF RunsTools
  <2>3. \A i \in Pending : word[i] \in Verdicts
    BY DEF Dispatchable, Verdicts
  <2> HIDE DEF word
  <2>4. Replies(Pending, word) \in Seq(Said(Used))
    BY <2>1, <2>3, <1>2, RepliesAreSaid
  <2>5. msgs \o Replies(Pending, word) \in Seq(Said(Used))
    BY <2>4, <1>2, ConcatProperties
  <2>6. Others
    BY <1>11 DEF RunsTools, NextNode, TalkInv, Nodes
  <2> QED
    BY <2>1, <2>2, <2>5, <2>6, FS_EmptySet DEF Dispatchable
<1>12. CASE Finish
  <2>1. Used' = Used /\ Pending' = Pending
    BY <1>1, <1>12, FinishSame, SameCalls
  <2>2. Others /\ msgs' = msgs
    BY <1>12 DEF Finish, Outcome, TalkInv, Nodes
  <2> QED
    BY <2>1, <2>2, <1>2
<1>20. ASSUME Invoke PROVE Others
  <2>1. invokes' \in Nat
    BY <1>20 DEF Invoke, TalkInv
  <2>2. node' \in Nodes
    BY <1>20 DEF Invoke, Entry, Nodes
  <2>3. flag' \in BOOLEAN /\ stopReq' \in BOOLEAN /\ error' \in BOOLEAN /\ answered' \in BOOLEAN
    BY <1>20 DEF Invoke, TalkInv
  <2>4. status' \in {"RUNNING", "INTERRUPTED", "FAILED"}
    BY <1>20 DEF Invoke
  <2> QED
    BY <2>1, <2>2, <2>3, <2>4
<1>13. CASE Continue
  <2>1. msgs' = Append(msgs, Text("user")) /\ UNCHANGED steps
    BY <1>13 DEF Continue, Invoke
  <2>2. Text("user") \in Said(Used)
    BY TextIsSaid
  <2>3. msgs' \in Seq(Said(Used))
    BY <2>1, <2>2, <1>2, AppendProperties
  <2>4. Others
    BY <1>20, <1>13 DEF Continue
  <2> QED
    BY <2>1, <2>3, <2>4, <1>2, <1>4
<1>14. CASE Resume
  <2>1. Others
    BY <1>20, <1>14 DEF Resume
  <2>2. UNCHANGED <<msgs, steps>>
    BY <1>14 DEF Resume, Invoke
  <2> QED
    BY <2>1, <2>2, <1>2, <1>4
<1>15. CASE Crash
  <2>1. Used' = Used /\ Pending' = Pending
    BY <1>1, <1>15, CrashSame, SameCalls
  <2>2. Others /\ msgs' = msgs
    BY <1>15 DEF Crash, TalkInv, Nodes
  <2> QED
    BY <2>1, <2>2, <1>2
<1> QED
  BY <1>7, <1>8, <1>9, <1>10, <1>11, <1>12, <1>13, <1>14, <1>15 DEF Next

-----------------------------------------------------------------------------
(* What the shape of a conversation says about places in it                *)

\* What the proofs below use of a sequence of messages.
Placed(ms) ==
  /\ Len(ms) \in Nat /\ DOMAIN ms = 1..Len(ms)
  /\ \A i \in Calls(ms) : Cardinality(ms[i].ids) \in Nat

LEMMA SaidIsPlaced ==
  ASSUME NEW U \in SUBSET Ids, NEW ms \in Seq(Said(U)) PROVE Placed(ms)
  BY SaidIs DEF Placed, Calls

LEMMA CallsArePlaced ==
  ASSUME NEW ms, Placed(ms), NEW i \in Calls(ms)
  PROVE  /\ i \in Nat /\ i >= 1 /\ i <= Len(ms) /\ Cardinality(ms[i].ids) \in Nat
         /\ ms[i].role = "call" /\ ~IsReply(ms[i])
  BY DEF Placed, Calls, IsReply

\* A full call before the open one has its replies before it, and one after the open one
\* comes after the replies that are there.
LEMMA BlocksAreApart ==
  ASSUME NEW ms, Placed(ms), NEW o, NEW b, NEW M, Shape(ms, o, b, M), o # 0,
         NEW i \in Calls(ms), i # o
  PROVE  \/ i + Cardinality(ms[i].ids) < o
         \/ i > b
<1>1. /\ o \in Calls(ms) /\ b \in o..Len(ms)
      /\ \A k \in o + 1..b : IsReply(ms[k])
  <2>1. OpenAt(ms, o, b, M)
    BY DEF Shape
  <2>2. o \in Nat /\ b \in Nat
    BY <2>1, CallsArePlaced DEF OpenAt, Placed
  <2>3. o + (b - o) = b
    BY <2>2
  <2> QED
    BY <2>1, <2>3 DEF OpenAt, RepliesTo
<1>2. o \in Nat /\ ~IsReply(ms[o]) /\ b \in Nat
  BY SMTT(30), <1>1, CallsArePlaced DEF Placed
<1>3. i \in Nat /\ ~IsReply(ms[i]) /\ Cardinality(ms[i].ids) \in Nat
  BY CallsArePlaced
<1>4. \A k \in i + 1..i + Cardinality(ms[i].ids) : IsReply(ms[k])
  BY DEF Shape, PairedBut, Full, RepliesTo
<1>5. CASE i < o
  <2>1. o \notin i + 1..i + Cardinality(ms[i].ids)
    BY <1>2, <1>4
  <2> QED
    BY <2>1, <1>2, <1>3, <1>5
<1>6. CASE i > o
  <2>1. i \notin o + 1..b
    BY <1>1, <1>3
  <2> QED
    BY <2>1, <1>2, <1>3, <1>6
<1> QED
  BY <1>2, <1>3, <1>5, <1>6

\* What follows the replies of the open call is no reply.
LEMMA BlockEnds ==
  ASSUME NEW ms, Placed(ms), NEW o, NEW b, NEW M, Shape(ms, o, b, M), o # 0, b + 1 <= Len(ms)
  PROVE  ~IsReply(ms[b + 1])
<1>1. o \in Nat /\ b \in Nat /\ o <= b /\ o >= 1
  BY CallsArePlaced DEF Shape, OpenAt, Placed
<1> SUFFICES ASSUME IsReply(ms[b + 1]) PROVE FALSE
  OBVIOUS
<1>2. b + 1 \in 1..Len(ms) /\ ~(b + 1 <= b) /\ Len(ms) \in Nat
  BY <1>1 DEF Placed
<1>3. Owned(ms, o, b + 1)
  BY <1>2 DEF Shape, PairedBut
<1>4. PICK i \in Calls(ms) \ {o} : i < b + 1 /\ b + 1 <= i + Cardinality(ms[i].ids)
  BY <1>3 DEF Owned
<1>5. i + Cardinality(ms[i].ids) < o \/ i > b
  BY <1>4, BlocksAreApart
<1>6. i \in Nat /\ Cardinality(ms[i].ids) \in Nat
  BY <1>4, CallsArePlaced
<1> QED
  BY <1>1, <1>4, <1>5, <1>6

LEMMA BlockEndIs ==
  ASSUME NEW ms, Placed(ms), NEW o, NEW b, NEW M, Shape(ms, o, b, M), o # 0
  PROVE  BlockEnd(ms, o) = b
<1>1. /\ o \in Nat /\ b \in Nat /\ o <= b /\ b <= Len(ms) /\ Len(ms) \in Nat
      /\ \A k \in o + 1..b : IsReply(ms[k])
  <2>1. OpenAt(ms, o, b, M) /\ o \in Calls(ms)
    BY DEF Shape, OpenAt
  <2>2. o \in Nat /\ b \in Nat /\ o <= b /\ b <= Len(ms) /\ Len(ms) \in Nat
    BY <2>1, CallsArePlaced DEF OpenAt, Placed
  <2>3. o + (b - o) = b
    BY <2>2
  <2> QED
    BY <2>1, <2>2, <2>3 DEF OpenAt, RepliesTo
<1> DEFINE T == {k \in o..Len(ms) : \A j \in o + 1..k : IsReply(ms[j])}
<1>2. b \in T
  BY <1>1
<1>3. ASSUME NEW k \in T PROVE b >= k
  <2>1. k \in Nat /\ k <= Len(ms)
    BY <1>1
  <2>2. CASE k > b
    <3>1. b + 1 \in o + 1..k /\ b + 1 <= Len(ms)
      BY <2>1, <2>2, <1>1
    <3>2. IsReply(ms[b + 1])
      BY <3>1
    <3> QED
      BY <3>1, <3>2, BlockEnds
  <2> QED
    BY <2>1, <2>2, <1>1
<1>4. \A k \in T : k \in Nat
  BY <1>1
<1> HIDE DEF T
<1>5. \E x \in T : \A y \in T : x >= y
  BY <1>2, <1>3
<1>6. Max(T) \in T /\ Max(T) >= b
  BY <1>2, <1>5 DEF Max
<1>7. Max(T) = b
  BY <1>1, <1>3, <1>4, <1>6
<1> QED
  BY <1>7 DEF BlockEnd, T

\* A reply answers the call it belongs to and no other.
LEMMA ReplyIsItsCalls ==
  ASSUME NEW ms, Placed(ms), NEW o, NEW b, NEW M, Shape(ms, o, b, M),
         NEW k \in 1..Len(ms), IsReply(ms[k])
  PROVE  \/ \E i \in Calls(ms) \ {o} : ms[k].ids \subseteq ms[i].ids
         \/ o # 0 /\ ms[k].ids \subseteq ms[o].ids \ M
<1>1. Owned(ms, o, k) \/ (o < k /\ k <= b)
  BY DEF Shape, PairedBut
<1>2. CASE Owned(ms, o, k)
  <2>1. PICK i \in Calls(ms) \ {o} : i < k /\ k <= i + Cardinality(ms[i].ids)
    BY <1>2 DEF Owned
  <2>2. i \in Nat /\ Cardinality(ms[i].ids) \in Nat /\ k \in Nat
    BY CallsArePlaced DEF Placed
  <2>3. k \in i + 1..i + Cardinality(ms[i].ids)
    BY <2>1, <2>2
  <2>4. ms[k].ids \subseteq ms[i].ids
    BY <2>3 DEF Shape, PairedBut, Full, RepliesTo
  <2> QED
    BY <2>4
<1>3. CASE o < k /\ k <= b
  <2>1. o # 0 /\ OpenAt(ms, o, b, M)
    <3>1. k \in Nat /\ k >= 1
      BY DEF Placed
    <3>2. ~(o = 0 /\ b = 0)
      BY <3>1, <1>3
    <3>3. OpenAt(ms, o, b, M)
      BY <3>2 DEF Shape
    <3>4. o >= 1 /\ o \in Nat
      BY <3>3, CallsArePlaced DEF OpenAt
    <3> QED
      BY <3>3, <3>4
  <2>2. o \in Nat /\ b \in Nat /\ k \in Nat
    BY <2>1, CallsArePlaced DEF OpenAt, Placed
  <2>3. k \in o + 1..b /\ o + (b - o) = b
    BY <2>2, <1>3
  <2>4. ms[k].ids \subseteq ms[o].ids /\ ms[k].ids \cap M = {}
    BY <2>1, <2>3 DEF OpenAt, RepliesTo
  <2> QED
    BY <2>1, <2>4
<1> QED
  BY <1>1, <1>2, <1>3

\* Only the open call misses replies, and it misses those in M.
LEMMA MissingIs ==
  ASSUME NEW ms, Placed(ms), NEW o, NEW b, NEW M, Shape(ms, o, b, M)
  PROVE  /\ \A i \in Calls(ms) \ {o} : Missing(ms, i) = {}
         /\ o # 0 => o \in Calls(ms) /\ Missing(ms, o) = M
         /\ Orphans(ms) = M
<1>1. DOMAIN ms = 1..Len(ms) /\ Len(ms) \in Nat
  BY DEF Placed
<1>2. ASSUME NEW i \in Calls(ms) \ {o} PROVE Missing(ms, i) = {}
  <2>1. ASSUME NEW x \in ms[i].ids PROVE x \in Answered(ms)
    <3>1. /\ i \in Nat /\ Cardinality(ms[i].ids) \in Nat
      BY CallsArePlaced
    <3>2. PICK k \in i + 1..i + Cardinality(ms[i].ids) : x \in ms[k].ids
      BY DEF Shape, PairedBut, Full
    <3>3. i + Cardinality(ms[i].ids) <= Len(ms) /\ IsReply(ms[k])
      BY DEF Shape, PairedBut, Full, RepliesTo
    <3>4. k \in 1..Len(ms)
      BY <3>1, <3>3, <1>1
    <3> QED
      BY <3>2, <3>3, <3>4, <1>1 DEF Answered
  <2> QED
    BY <2>1 DEF Missing
<1>3. ASSUME o # 0 PROVE o \in Calls(ms) /\ Missing(ms, o) = M
  <2>1. OpenAt(ms, o, b, M)
    BY <1>3 DEF Shape
  <2>2. o \in Calls(ms) /\ M \subseteq ms[o].ids
    BY <2>1 DEF OpenAt
  <2>3. o \in Nat /\ b \in Nat /\ o <= b /\ b <= Len(ms) /\ o + (b - o) = b
    BY <2>1, <2>2, CallsArePlaced DEF OpenAt, Placed
  <2>4. \A i \in Calls(ms) : i # o => ms[i].ids \cap ms[o].ids = {}
    BY <2>2 DEF Shape, PairedBut
  <2>5. ASSUME NEW x \in M PROVE x \in Missing(ms, o)
    <3>1. x \notin Answered(ms)
      <4> SUFFICES ASSUME NEW k \in 1..Len(ms), IsReply(ms[k]), x \in ms[k].ids PROVE FALSE
        BY <1>1 DEF Answered
      <4>1. CASE \E i \in Calls(ms) \ {o} : ms[k].ids \subseteq ms[i].ids
        BY <4>1, <2>2, <2>4
      <4>2. CASE ms[k].ids \subseteq ms[o].ids \ M
        BY <4>2
      <4> QED
        BY <4>1, <4>2, ReplyIsItsCalls
    <3>2. \A j \in Calls(ms) : j > o => x \notin ms[j].ids
      <4>1. \A j \in Calls(ms) : j > o => j # o
        BY <2>3, CallsArePlaced
      <4> QED
        BY <4>1, <2>2, <2>4
    <3> QED
      BY <3>1, <3>2, <2>2 DEF Missing
  <2>6. ASSUME NEW x \in ms[o].ids, x \notin M PROVE x \in Answered(ms)
    <3>1. PICK k \in o + 1..b : x \in ms[k].ids
      BY <2>1, <2>6 DEF OpenAt
    <3>2. IsReply(ms[k])
      BY <2>1, <2>3, <3>1 DEF OpenAt, RepliesTo
    <3>3. k \in 1..Len(ms)
      BY <2>3, <1>1
    <3> QED
      BY <3>1, <3>2, <3>3, <1>1 DEF Answered
  <2>7. ASSUME NEW x \in Missing(ms, o) PROVE x \in M
    BY <2>6, <2>7 DEF Missing
  <2> QED
    BY <2>2, <2>5, <2>7
<1>4. Orphans(ms) = M
  <2>1. CASE o = 0
    <3>1. M = {} /\ 0 \notin Calls(ms)
      <4>1. M = {}
        <5>1. OpenAt(ms, o, b, M) => o # 0
          BY CallsArePlaced DEF OpenAt
        <5> QED
          BY <5>1, <2>1 DEF Shape
      <4> QED
        BY <4>1, CallsArePlaced
    <3> QED
      BY <3>1, <2>1, <1>2 DEF Orphans
  <2>2. CASE o # 0
    BY <2>2, <1>2, <1>3 DEF Orphans
  <2> QED
    BY <2>1, <2>2
<1> QED
  BY <1>2, <1>3, <1>4

-----------------------------------------------------------------------------
(* Conversations that are paired, and how they stay so                     *)

\* No call is open.
Paired(ms) ==
  /\ \A i \in Calls(ms) : Full(ms, i)
  /\ \A k \in 1..Len(ms) : IsReply(ms[k]) =>
       \E i \in Calls(ms) : i < k /\ k <= i + Cardinality(ms[i].ids)
  /\ \A i, j \in Calls(ms) : i # j => ms[i].ids \cap ms[j].ids = {}

LEMMA PairedHasShape ==
  ASSUME NEW ms, Placed(ms)
  PROVE  Shape(ms, 0, 0, {}) <=> Paired(ms)
<1>1. 0 \notin Calls(ms)
  BY CallsArePlaced
<1>2. \A k \in 1..Len(ms) : ~(0 < k /\ k <= 0)
  BY DEF Placed
<1>3. PairedBut(ms, 0, 0) <=> Paired(ms)
  BY <1>1, <1>2 DEF PairedBut, Paired, Owned
<1>4. ~OpenAt(ms, 0, 0, {})
  BY DEF OpenAt
<1> QED
  BY <1>3, <1>4 DEF Shape

\* What is paired is what the protocol accepts.
LEMMA PairedIsWell ==
  ASSUME NEW ms, Placed(ms), Paired(ms)
  PROVE  WellPaired(ms)
<1>1. DOMAIN ms = 1..Len(ms)
  BY DEF Placed
<1>2. ASSUME NEW i \in Calls(ms)
      PROVE  LET n == Cardinality(ms[i].ids)
             IN  /\ i + n <= Len(ms)
                 /\ \A k \in i + 1..i + n : IsReply(ms[k])
                 /\ UNION {ms[k].ids : k \in i + 1..i + n} = ms[i].ids
  <2> DEFINE n == Cardinality(ms[i].ids)
  <2>1. Full(ms, i)
    BY DEF Paired
  <2>2. /\ i + n <= Len(ms)
        /\ \A k \in i + 1..i + n : IsReply(ms[k]) /\ ms[k].ids \subseteq ms[i].ids
        /\ \A x \in ms[i].ids : \E k \in i + 1..i + n : x \in ms[k].ids
    BY <2>1 DEF Full, RepliesTo
  <2> HIDE DEF n
  <2>3. UNION {ms[k].ids : k \in i + 1..i + n} = ms[i].ids
    BY <2>2
  <2> QED
    BY <2>2, <2>3 DEF n
<1> QED
  BY <1>1, <1>2 DEF WellPaired, Paired

\* A full call that is found elsewhere, with what follows it, is full there.
LEMMA BlockMoves ==
  ASSUME NEW ms, NEW t, NEW i \in Nat, NEW e \in Int, Cardinality(ms[i].ids) \in Nat,
         Full(ms, i), i + Cardinality(ms[i].ids) + e <= Len(t),
         \A k \in i..i + Cardinality(ms[i].ids) : t[k + e] = ms[k]
  PROVE  Full(t, i + e)
<1> DEFINE n == Cardinality(ms[i].ids)
<1>1. /\ n \in Nat /\ i + n + e <= Len(t)
      /\ \A k \in i..i + n : t[k + e] = ms[k]
      /\ \A k \in i + 1..i + n : IsReply(ms[k]) /\ ms[k].ids \subseteq ms[i].ids
      /\ \A x \in ms[i].ids : \E k \in i + 1..i + n : x \in ms[k].ids
  BY DEF Full, RepliesTo
<1>2. t[i + e] = ms[i] /\ Cardinality(t[i + e].ids) = n
  <2>1. i \in i..i + n
    BY <1>1
  <2> QED
    BY <2>1, <1>1
<1> HIDE DEF n
<1>3. ASSUME NEW k \in (i + e) + 1..(i + e) + n
      PROVE  IsReply(t[k]) /\ t[k].ids \subseteq t[i + e].ids
  <2>1. k - e \in i + 1..i + n /\ k - e \in i..i + n /\ (k - e) + e = k
    BY <1>1
  <2>2. t[k] = ms[k - e]
    BY <2>1, <1>1
  <2> QED
    BY <2>1, <2>2, <1>1, <1>2
<1>4. ASSUME NEW x \in t[i + e].ids
      PROVE  \E k \in (i + e) + 1..(i + e) + n : x \in t[k].ids
  <2>1. PICK k \in i + 1..i + n : x \in ms[k].ids
    BY <1>1, <1>2
  <2>2. k \in i..i + n /\ k + e \in (i + e) + 1..(i + e) + n
    BY <1>1
  <2>3. x \in t[k + e].ids
    BY <2>1, <2>2, <1>1
  <2> QED
    BY <2>2, <2>3
<1>5. (i + e) + n <= Len(t)
  BY <1>1
<1> QED
  BY <1>2, <1>3, <1>4, <1>5 DEF Full, RepliesTo

\* A compression cuts between blocks.
LEMMA CutIsPaired ==
  ASSUME NEW U \in SUBSET Ids, NEW ms \in Seq(Said(U)), Paired(ms), NEW n \in Nat
  PROVE  Paired(Candidate(ms, n))
<1> DEFINE t == Candidate(ms, n)
<1>1. Text("system") \in Said(U)
  BY TextIsSaid
<1>2. \/ t = ms
      \/ \E d \in 1..Len(ms) - 1 :
           /\ ~IsReply(ms[d + 1])
           /\ t \in Seq(Said(U))
           /\ Len(t) = Len(ms) - d + 1
           /\ t[1] = Text("system")
           /\ \A k \in 2..Len(ms) - d + 1 : t[k] = ms[k + d - 1]
  BY <1>1, CutIs
<1> HIDE DEF t
<1>3. CASE t = ms
  BY <1>3 DEF t
<1>4. ASSUME NEW d \in 1..Len(ms) - 1,
             ~IsReply(ms[d + 1]),
             t \in Seq(Said(U)),
             Len(t) = Len(ms) - d + 1,
             t[1] = Text("system"),
             \A k \in 2..Len(ms) - d + 1 : t[k] = ms[k + d - 1]
      PROVE  Paired(t)
  <2>1. Placed(ms) /\ Placed(t)
    BY <1>4, SaidIsPlaced
  <2>2. /\ Len(ms) \in Nat /\ d \in Nat /\ d >= 1 /\ d + 1 <= Len(ms) /\ Len(t) \in Nat
        /\ DOMAIN ms = 1..Len(ms) /\ DOMAIN t = 1..Len(t)
    BY <2>1 DEF Placed
  <2>3. ASSUME NEW i \in Calls(t)
        PROVE  /\ i \in Nat /\ i >= 2 /\ i <= Len(t) /\ i + d - 1 \in Nat /\ i + d - 1 >= d + 1
               /\ i + d - 1 \in Calls(ms) /\ t[i] = ms[i + d - 1]
    <3>1. i \in Nat /\ i >= 1 /\ i <= Len(t) /\ t[i].role = "call"
      BY <2>1, CallsArePlaced
    <3>2. i # 1
      BY <3>1, <1>4 DEF Text
    <3>3. i \in 2..Len(ms) - d + 1 /\ i + d - 1 \in 1..Len(ms)
      BY <3>1, <3>2, <2>2, <1>4
    <3>4. t[i] = ms[i + d - 1]
      BY <3>3, <1>4
    <3> QED
      BY <3>1, <3>2, <3>3, <3>4, <2>2 DEF Calls
  <2>4. ASSUME NEW i \in Calls(ms), i >= d + 1
        PROVE  i - d + 1 \in Calls(t) /\ t[i - d + 1] = ms[i]
    <3>1. i \in Nat /\ i <= Len(ms) /\ ms[i].role = "call"
      BY <2>1, CallsArePlaced
    <3>2. i - d + 1 \in 2..Len(ms) - d + 1 /\ (i - d + 1) + d - 1 = i /\ i - d + 1 \in 1..Len(t)
      BY <3>1, <2>2, <2>4, <1>4
    <3>3. t[i - d + 1] = ms[i]
      BY <3>2, <1>4
    <3> QED
      BY <3>1, <3>2, <3>3, <2>2 DEF Calls
  <2>5. ASSUME NEW i \in Calls(t) PROVE Full(t, i)
    <3> DEFINE j == i + d - 1
               m == Cardinality(ms[j].ids)
    <3>1. j \in Nat /\ j >= d + 1 /\ j \in Calls(ms) /\ Full(ms, j) /\ m \in Nat /\ j + m <= Len(ms)
      <4>1. j \in Nat /\ j >= d + 1 /\ j \in Calls(ms)
        BY <2>3
      <4>2. Full(ms, j)
        BY <4>1 DEF Paired
      <4> HIDE DEF j
      <4>3. m \in Nat
        BY <4>1, <2>1, CallsArePlaced
      <4> QED
        BY <4>1, <4>2, <4>3 DEF Full, RepliesTo
    <3>20. i \in Nat
      BY <2>3
    <3>2. j + (1 - d) = i /\ 1 - d \in Int
      BY <3>20, <2>2
    <3> HIDE DEF j
    <3>3. j + m + (1 - d) <= Len(t)
      <4> HIDE DEF m
      <4> QED
        BY <3>1, <2>2, <1>4
    <3>4. \A k \in j..j + m : t[k + (1 - d)] = ms[k]
      <4> HIDE DEF m
      <4> SUFFICES ASSUME NEW k \in j..j + m PROVE t[k + (1 - d)] = ms[k]
        OBVIOUS
      <4>1. k + (1 - d) \in 2..Len(ms) - d + 1 /\ (k + (1 - d)) + d - 1 = k
        BY <3>1, <2>2
      <4> QED
        BY <4>1, <1>4
    <3>5. Full(t, j + (1 - d))
      BY <3>1, <3>2, <3>3, <3>4, BlockMoves
    <3> QED
      BY <3>2, <3>5
  <2>6. ASSUME NEW k \in 1..Len(t), IsReply(t[k])
        PROVE  \E i \in Calls(t) : i < k /\ k <= i + Cardinality(t[i].ids)
    <3>1. k # 1
      BY <2>6, <1>4 DEF IsReply, Text
    <3>2. k \in 2..Len(ms) - d + 1 /\ k + d - 1 \in 1..Len(ms) /\ k + d - 1 >= d + 1 /\ k \in Nat
      BY <3>1, <2>2, <1>4
    <3>3. IsReply(ms[k + d - 1])
      BY <3>2, <2>6, <1>4
    <3>4. PICK i \in Calls(ms) : i < k + d - 1 /\ k + d - 1 <= i + Cardinality(ms[i].ids)
      BY <3>2, <3>3 DEF Paired
    <3>5. i \in Nat /\ Cardinality(ms[i].ids) \in Nat
      BY <2>1, CallsArePlaced
    <3>6. i >= d + 1
      <4> SUFFICES ASSUME i <= d PROVE FALSE
        BY <3>5, <2>2
      <4>1. d + 1 \in i + 1..i + Cardinality(ms[i].ids)
        <5> DEFINE m == Cardinality(ms[i].ids)
        <5>1. m \in Nat /\ k + d - 1 <= i + m
          BY <3>4, <3>5
        <5> HIDE DEF m
        <5>2. d + 1 \in i + 1..i + m
          BY <5>1, <3>2, <3>5, <2>2
        <5> QED
          BY <5>2 DEF m
      <4>2. IsReply(ms[d + 1])
        BY <4>1 DEF Paired, Full, RepliesTo
      <4> QED
        BY <4>2, <1>4
    <3>7. i - d + 1 \in Calls(t) /\ t[i - d + 1] = ms[i]
      BY <3>6, <2>4
    <3>8. i - d + 1 < k /\ k <= (i - d + 1) + Cardinality(t[i - d + 1].ids)
      <4> DEFINE m == Cardinality(ms[i].ids)
      <4>1. m \in Nat /\ i < k + d - 1 /\ k + d - 1 <= i + m
        BY <3>4, <3>5
      <4> HIDE DEF m
      <4>2. i - d + 1 < k /\ k <= (i - d + 1) + m
        BY <4>1, <3>2, <3>5, <2>2
      <4> QED
        BY <4>2, <3>7 DEF m
    <3> QED
      BY <3>7, <3>8
  <2>7. ASSUME NEW i \in Calls(t), NEW j \in Calls(t), i # j
        PROVE  t[i].ids \cap t[j].ids = {}
    <3>1. i + d - 1 # j + d - 1
      <4>1. i \in Nat /\ j \in Nat
        BY <2>3
      <4> QED
        BY <4>1, <2>2, <2>7
    <3>2. i + d - 1 \in Calls(ms) /\ j + d - 1 \in Calls(ms)
      BY <2>3
    <3>3. ms[i + d - 1].ids \cap ms[j + d - 1].ids = {}
      BY <3>1, <3>2 DEF Paired
    <3> QED
      BY <3>3, <2>3
  <2> QED
    BY <2>5, <2>6, <2>7 DEF Paired
<1> QED
  BY <1>2, <1>3, <1>4 DEF t

-----------------------------------------------------------------------------
(* Filling the open call                                                   *)

\* A sweep puts the replies of the open call right behind those it has.
LEMMA SweepFills ==
  ASSUME NEW U \in SUBSET Ids, NEW ms \in Seq(Said(U)), NEW o, NEW b, NEW M,
         Shape(ms, o, b, M), o # 0, NEW word, \A i \in M : word[i] \in Verdicts
  PROVE  Filled(Sweep(ms, word), ms, Len(ms), b, Replies(M, word))
<1> DEFINE ends(k) == {i \in Calls(ms) : BlockEnd(ms, i) = k}
           fill(k) == UNION {Missing(ms, i) : i \in ends(k)}
           R == Replies(M, word)
           seqs == [k \in DOMAIN ms |-> <<ms[k]>> \o Replies(fill(k), word)]
           plain == [k \in 1..Len(ms) |-> <<ms[k]>> \o (IF k = b THEN R ELSE <<>>)]
<1>1. Placed(ms) /\ DOMAIN ms = 1..Len(ms)
  BY SaidIsPlaced, SaidIs
<1>2. /\ \A i \in Calls(ms) \ {o} : Missing(ms, i) = {}
      /\ o \in Calls(ms) /\ Missing(ms, o) = M /\ Orphans(ms) = M
  BY <1>1, MissingIs
<1>3. BlockEnd(ms, o) = b
  BY <1>1, BlockEndIs
<1>4. M # {} /\ b \in 1..Len(ms)
  <2>1. M # {} /\ o \in Nat /\ o >= 1 /\ b \in o..Len(ms)
    BY <1>1, CallsArePlaced DEF Shape, OpenAt
  <2> QED
    BY <2>1, <1>1 DEF Placed
<1>5. Sweep(ms, word) = FlattenSeq(seqs)
  BY <1>2, <1>4 DEF Sweep
<1>6. ASSUME NEW k \in 1..Len(ms)
      PROVE  Replies(fill(k), word) = IF k = b THEN R ELSE <<>>
  <2>1. CASE k = b
    <3>1. o \in ends(k)
      BY <2>1, <1>2, <1>3
    <3>2. \A i \in ends(k) : i # o => Missing(ms, i) = {}
      BY <1>2
    <3> HIDE DEF ends
    <3>3. fill(k) = M
      BY <3>1, <3>2, <1>2
    <3> QED
      BY <2>1, <3>3
  <2>2. CASE k # b
    <3>1. \A i \in ends(k) : Missing(ms, i) = {}
      BY <2>2, <1>2, <1>3
    <3> HIDE DEF ends
    <3>2. fill(k) = {}
      BY <3>1
    <3> QED
      BY <2>2, <3>2, NoReplies
  <2> QED
    BY <2>1, <2>2
<1> HIDE DEF fill, R
<1>7. seqs = plain
  BY <1>1, <1>6
<1>8. R \in Seq(Said(U))
  <2>1. M \in SUBSET U /\ IsFiniteSet(M)
    <3>1. MissingOf(ms, Calls(ms)) = M
      BY <1>2 DEF MissingOf, Orphans
    <3>2. Calls(ms) \in SUBSET Calls(ms)
      OBVIOUS
    <3> QED
      BY <3>1, <3>2, MissingIsFinite
  <2> QED
    BY <2>1, RepliesAreSaid DEF R
<1> HIDE DEF seqs
<1>9. Filled(FlattenSeq(seqs), ms, Len(ms), b, R)
  BY <1>4, <1>7, <1>8, FlattenFills
<1> QED
  BY <1>5, <1>9 DEF R

\* Every reply of R answers an id of M, and every id of M has one in R.
AnswersAll(R, M) ==
  /\ DOMAIN R = 1..Cardinality(M) /\ Len(R) = Cardinality(M)
  /\ \A k \in 1..Cardinality(M) : IsReply(R[k]) /\ R[k].ids \subseteq M
  /\ \A i \in M : \E k \in 1..Cardinality(M) : i \in R[k].ids

LEMMA RepliesAnswer ==
  ASSUME NEW M, IsFiniteSet(M), NEW word, Len(Replies(M, word)) = Cardinality(M)
  PROVE  AnswersAll(Replies(M, word), M)
<1> DEFINE R == Replies(M, word)
           n == Cardinality(M)
<1>1. /\ DOMAIN R = 1..n /\ Len(R) = n
      /\ \A k \in 1..n : \E i \in M : R[k] = Reply(i, word[i])
      /\ \A i \in M : \E k \in 1..n : R[k] = Reply(i, word[i])
  BY RepliesOf
<1>2. \A i \in M : IsReply(Reply(i, word[i])) /\ Reply(i, word[i]).ids = {i}
  BY DEF IsReply, Reply
<1> HIDE DEF R, n
<1>3. ASSUME NEW k \in 1..n PROVE IsReply(R[k]) /\ R[k].ids \subseteq M
  <2>1. PICK i \in M : R[k] = Reply(i, word[i])
    BY <1>1
  <2> QED
    BY <2>1, <1>2
<1>4. ASSUME NEW i \in M PROVE \E k \in 1..n : i \in R[k].ids
  <2>1. PICK k \in 1..n : R[k] = Reply(i, word[i])
    BY <1>1
  <2> QED
    BY <2>1, <1>2
<1> QED
  BY <1>1, <1>3, <1>4 DEF AnswersAll, R, n

\* Once the open call has its replies, nothing is open.
LEMMA FilledIsPaired ==
  ASSUME NEW ms, Placed(ms), NEW o, NEW b, NEW M, Shape(ms, o, b, M), o # 0,
         NEW R, Cardinality(M) \in Nat, AnswersAll(R, M),
         NEW t, Placed(t), Filled(t, ms, Len(ms), b, R)
  PROVE  Paired(t)
<1> DEFINE r == Cardinality(M)
           all == Cardinality(ms[o].ids)
<1>1. /\ Len(ms) \in Nat /\ DOMAIN ms = 1..Len(ms)
      /\ Len(t) \in Nat /\ DOMAIN t = 1..Len(t)
  BY DEF Placed
<1>2. /\ o \in Calls(ms) /\ o \in Nat /\ b \in Nat /\ o >= 1 /\ o <= b /\ b <= Len(ms)
      /\ \A k \in o + 1..b : IsReply(ms[k]) /\ ms[k].ids \subseteq ms[o].ids
      /\ M \subseteq ms[o].ids
      /\ all \in Nat /\ b - o + r = all
      /\ \A x \in ms[o].ids \ M : \E k \in o + 1..b : x \in ms[k].ids
  <2>1. OpenAt(ms, o, b, M)
    BY DEF Shape
  <2>2. o \in Nat /\ b \in Nat /\ o >= 1 /\ o <= b /\ b <= Len(ms) /\ all \in Nat
    BY <2>1, CallsArePlaced DEF OpenAt, Placed
  <2>3. o + (b - o) = b
    BY <2>2
  <2> QED
    BY <2>1, <2>2, <2>3 DEF OpenAt, RepliesTo
<1>3. /\ r \in Nat
      /\ \A k \in 1..r : IsReply(R[k]) /\ R[k].ids \subseteq M
      /\ \A i \in M : \E k \in 1..r : i \in R[k].ids
      /\ Len(R) = r
  BY DEF AnswersAll
<1>4. Len(t) = Len(ms) + r
  <2>1. ~(Len(ms) < b)
    BY <1>1, <1>2
  <2> QED
    BY <2>1, <1>3 DEF Filled
<1> HIDE DEF r
<1>5. \A j \in 1..Len(t) :
        t[j] = IF j <= b THEN ms[j] ELSE IF j <= b + r THEN R[j - b] ELSE ms[j - r]
  BY <1>3 DEF Filled
<1>6. /\ \A j \in 1..b : t[j] = ms[j]
      /\ \A j \in b + 1..b + r : t[j] = R[j - b]
      /\ \A j \in b + r + 1..Len(t) : t[j] = ms[j - r]
  <2>1. \A j \in 1..b : j \in 1..Len(t) /\ j <= b
    BY <1>1, <1>2, <1>3, <1>4
  <2>2. \A j \in b + 1..b + r : j \in 1..Len(t) /\ ~(j <= b) /\ j <= b + r
    BY <1>1, <1>2, <1>3, <1>4
  <2>3. \A j \in b + r + 1..Len(t) : j \in 1..Len(t) /\ ~(j <= b) /\ ~(j <= b + r)
    BY <1>1, <1>2, <1>3, <1>4
  <2> QED
    BY <2>1, <2>2, <2>3, <1>5
<1>7. \A j \in b + 1..b + r : IsReply(t[j]) /\ t[j].ids \subseteq M
  <2>1. \A j \in b + 1..b + r : j - b \in 1..r
    BY <1>2, <1>3
  <2> QED
    BY <2>1, <1>3, <1>6
\* The calls of t are those of ms, moved if they come after the block.
<1>8. ASSUME NEW j \in Calls(t)
      PROVE  \/ j \in 1..b /\ j \in Calls(ms) /\ t[j] = ms[j]
             \/ j \in b + r + 1..Len(t) /\ j - r \in Calls(ms) /\ t[j] = ms[j - r]
  <2>1. j \in 1..Len(t) /\ t[j].role = "call" /\ ~IsReply(t[j])
    BY <1>1 DEF Calls, IsReply
  <2>2. j \notin b + 1..b + r
    BY <2>1, <1>7
  <2>3. CASE j \in 1..b
    <3>1. t[j] = ms[j] /\ j \in 1..Len(ms)
      BY <2>3, <1>1, <1>2, <1>6
    <3> QED
      BY <2>1, <2>3, <3>1, <1>1 DEF Calls
  <2>4. CASE j \in b + r + 1..Len(t)
    <3>1. t[j] = ms[j - r] /\ j - r \in 1..Len(ms)
      BY <2>4, <1>1, <1>2, <1>3, <1>4, <1>6
    <3> QED
      BY <2>1, <2>4, <3>1, <1>1 DEF Calls
  <2> QED
    BY <2>1, <2>2, <2>3, <2>4, <1>2, <1>3
<1>9. ASSUME NEW i \in Calls(ms)
      PROVE  /\ i <= b => i \in Calls(t) /\ t[i] = ms[i]
             /\ i > b => i + r \in Calls(t) /\ t[i + r] = ms[i]
  <2>1. i \in Nat /\ i >= 1 /\ i <= Len(ms) /\ ms[i].role = "call"
    BY CallsArePlaced
  <2>2. ASSUME i <= b PROVE i \in Calls(t) /\ t[i] = ms[i]
    <3>1. i \in 1..b /\ i \in 1..Len(t)
      BY <2>1, <2>2, <1>2, <1>3, <1>4
    <3> QED
      BY <3>1, <2>1, <1>1, <1>6 DEF Calls
  <2>3. ASSUME i > b PROVE i + r \in Calls(t) /\ t[i + r] = ms[i]
    <3>1. i + r \in b + r + 1..Len(t) /\ (i + r) - r = i /\ i + r \in 1..Len(t)
      BY <2>1, <2>3, <1>1, <1>2, <1>3, <1>4
    <3>2. t[i + r] = ms[i]
      BY <3>1, <1>6
    <3> QED
      BY <3>1, <3>2, <2>1, <1>1 DEF Calls
  <2> QED
    BY <2>2, <2>3
<1>10. ASSUME NEW i \in Calls(ms), i # o
       PROVE  /\ Full(ms, i) /\ i \in Nat /\ i >= 1 /\ Cardinality(ms[i].ids) \in Nat
              /\ i + Cardinality(ms[i].ids) <= Len(ms)
              /\ i + Cardinality(ms[i].ids) < o \/ i > b
  <2>1. Full(ms, i)
    BY <1>10 DEF Shape, PairedBut
  <2>2. i \in Nat /\ i >= 1 /\ Cardinality(ms[i].ids) \in Nat
    BY CallsArePlaced
  <2>3. i + Cardinality(ms[i].ids) < o \/ i > b
    BY <1>10, BlocksAreApart
  <2> QED
    BY <2>1, <2>2, <2>3 DEF Full, RepliesTo
<1>11. ASSUME NEW j \in Calls(t) PROVE Full(t, j)
  <2>1. CASE j = o
    <3>1. t[o] = ms[o]
      BY <1>2, <1>9
    <3>2. o + all = b + r /\ b + r <= Len(t)
      BY <1>1, <1>2, <1>3, <1>4
    <3> HIDE DEF all
    <3>3. ASSUME NEW k \in o + 1..o + all
          PROVE  IsReply(t[k]) /\ t[k].ids \subseteq t[o].ids
      <4>1. CASE k <= b
        <5>1. k \in o + 1..b /\ k \in 1..b
          BY <4>1, <1>2
        <5> QED
          BY <5>1, <3>1, <1>2, <1>6
      <4>2. CASE ~(k <= b)
        <5>1. k \in b + 1..b + r
          BY <4>2, <3>2, <1>2, <1>3
        <5> QED
          BY <5>1, <3>1, <1>2, <1>7
      <4> QED
        BY <4>1, <4>2
    <3>4. ASSUME NEW x \in t[o].ids PROVE \E k \in o + 1..o + all : x \in t[k].ids
      <4>1. CASE x \in M
        <5>1. PICK k \in 1..r : x \in R[k].ids
          BY <4>1, <1>3
        <5>2. b + k \in b + 1..b + r /\ (b + k) - b = k /\ b + k \in o + 1..o + all
          BY <3>2, <1>2, <1>3
        <5>3. t[b + k] = R[k]
          BY <5>2, <1>6
        <5> QED
          BY <5>1, <5>2, <5>3
      <4>2. CASE x \notin M
        <5>1. PICK k \in o + 1..b : x \in ms[k].ids
          BY <4>2, <3>1, <1>2
        <5>2. k \in 1..b /\ k \in o + 1..o + all
          BY <3>2, <1>2, <1>3
        <5> QED
          BY <5>1, <5>2, <1>6
      <4> QED
        BY <4>1, <4>2
    <3>5. Cardinality(t[o].ids) = all
      BY <3>1 DEF all
    <3> QED
      BY <2>1, <3>2, <3>3, <3>4, <3>5 DEF Full, RepliesTo
  <2>2. CASE j # o /\ j \in 1..b /\ j \in Calls(ms)
    <3> DEFINE n == Cardinality(ms[j].ids)
    <3>1. Full(ms, j) /\ j \in Nat /\ j >= 1 /\ n \in Nat /\ (j + n < o \/ j > b)
      BY <2>2, <1>10
    <3>2. j + n + 0 <= Len(t) /\ j + 0 = j /\ 0 \in Int
      <4> HIDE DEF n
      <4> QED
        BY <2>2, <3>1, <1>1, <1>2, <1>3, <1>4
    <3>3. \A k \in j..j + n : t[k + 0] = ms[k]
      <4> HIDE DEF n
      <4> SUFFICES ASSUME NEW k \in j..j + n PROVE t[k + 0] = ms[k]
        OBVIOUS
      <4>1. k \in 1..b /\ k + 0 = k
        BY <2>2, <3>1, <1>2
      <4> QED
        BY <4>1, <1>6
    <3>4. Full(t, j + 0)
      BY <3>1, <3>2, <3>3, BlockMoves
    <3> QED
      BY <3>2, <3>4
  <2>3. CASE j \in b + r + 1..Len(t) /\ j - r \in Calls(ms)
    <3> DEFINE i == j - r
               n == Cardinality(ms[i].ids)
    <3>1. i > b /\ i # o /\ i + r = j /\ r \in Int
      BY <2>3, <1>1, <1>2, <1>3
    <3>2. Full(ms, i) /\ i \in Nat /\ n \in Nat /\ i + n <= Len(ms)
      BY <2>3, <3>1, <1>10
    <3> HIDE DEF i
    <3>3. i + n + r <= Len(t)
      <4> HIDE DEF n
      <4> QED
        BY <3>2, <1>1, <1>3, <1>4
    <3>4. \A k \in i..i + n : t[k + r] = ms[k]
      <4> HIDE DEF n
      <4> SUFFICES ASSUME NEW k \in i..i + n PROVE t[k + r] = ms[k]
        OBVIOUS
      <4>1. k + r \in b + r + 1..Len(t) /\ (k + r) - r = k
        BY <3>1, <3>2, <3>3, <1>1, <1>2, <1>3, <1>4
      <4> QED
        BY <4>1, <1>6
    <3>5. Full(t, i + r)
      BY <3>1, <3>2, <3>3, <3>4, BlockMoves
    <3> QED
      BY <3>1, <3>5
  <2> QED
    BY <2>1, <2>2, <2>3, <1>8
<1>12. ASSUME NEW k \in 1..Len(t), IsReply(t[k])
       PROVE  \E i \in Calls(t) : i < k /\ k <= i + Cardinality(t[i].ids)
  <2>1. CASE o < k /\ k <= b + r
    <3>1. o \in Calls(t) /\ t[o] = ms[o] /\ k <= o + all
      BY <2>1, <1>2, <1>3, <1>9
    <3> QED
      BY <2>1, <3>1
  <2>2. CASE k <= o
    <3>1. k \in 1..b /\ k \in 1..Len(ms) /\ ~(o < k)
      BY <2>2, <1>1, <1>2
    <3>2. IsReply(ms[k])
      BY <3>1, <1>6, <1>12
    <3>3. PICK i \in Calls(ms) \ {o} : i < k /\ k <= i + Cardinality(ms[i].ids)
      BY <3>1, <3>2 DEF Shape, PairedBut, Owned
    <3>4. i <= b
      BY <3>1, <3>3, <1>2, CallsArePlaced
    <3> QED
      BY <3>3, <3>4, <1>9
  <2>3. CASE k > b + r
    <3>1. k \in b + r + 1..Len(t) /\ k - r \in 1..Len(ms) /\ k - r > b /\ k \in Nat
      BY <2>3, <1>1, <1>2, <1>3, <1>4
    <3>2. IsReply(ms[k - r]) /\ ~(k - r <= b)
      <4>1. ~(k - r <= b)
        BY <3>1, <1>2, <1>3
      <4> QED
        BY <4>1, <3>1, <1>6, <1>12
    <3>3. PICK i \in Calls(ms) \ {o} : i < k - r /\ k - r <= i + Cardinality(ms[i].ids)
      BY <3>1, <3>2 DEF Shape, PairedBut, Owned
    <3>4. /\ i \in Nat /\ Cardinality(ms[i].ids) \in Nat
          /\ i + Cardinality(ms[i].ids) < o \/ i > b
      BY <3>3, <1>10
    <3>5. i > b
      BY <3>1, <3>3, <3>4, <1>2, <1>3
    <3>6. i + r \in Calls(t) /\ t[i + r] = ms[i]
      BY <3>3, <3>5, <1>9
    <3>7. i + r < k /\ k <= (i + r) + Cardinality(t[i + r].ids)
      <4> DEFINE n == Cardinality(ms[i].ids)
      <4>1. n \in Nat /\ i < k - r /\ k - r <= i + n
        BY <3>3, <3>4
      <4> HIDE DEF n
      <4>2. i + r < k /\ k <= (i + r) + n
        BY <4>1, <3>1, <3>4, <1>3
      <4> QED
        BY <4>2, <3>6 DEF n
    <3> QED
      BY <3>6, <3>7
  <2>4. (o < k /\ k <= b + r) \/ k <= o \/ k > b + r
    <3>1. k \in Nat /\ o \in Nat /\ b \in Nat /\ r \in Nat
      BY <1>1, <1>2, <1>3
    <3> QED
      BY <3>1
  <2> QED
    BY <2>1, <2>2, <2>3, <2>4
<1>13. ASSUME NEW i \in Calls(t), NEW j \in Calls(t), i # j
       PROVE  t[i].ids \cap t[j].ids = {}
  <2> DEFINE at(k) == IF k <= b THEN k ELSE k - r
  <2>1. /\ at(i) \in Calls(ms) /\ t[i] = ms[at(i)]
        /\ at(j) \in Calls(ms) /\ t[j] = ms[at(j)]
        /\ i \in Nat /\ j \in Nat
        /\ i \in 1..b \/ i \in b + r + 1..Len(t)
        /\ j \in 1..b \/ j \in b + r + 1..Len(t)
    <3>1. ASSUME NEW k \in Calls(t)
          PROVE  /\ at(k) \in Calls(ms) /\ t[k] = ms[at(k)] /\ k \in Nat
                 /\ k \in 1..b \/ k \in b + r + 1..Len(t)
      <4>1. CASE k \in 1..b /\ k \in Calls(ms) /\ t[k] = ms[k]
        <5>1. k <= b /\ k \in Nat
          BY <4>1, <1>2
        <5> QED
          BY <4>1, <5>1
      <4>2. CASE k \in b + r + 1..Len(t) /\ k - r \in Calls(ms) /\ t[k] = ms[k - r]
        <5>1. ~(k <= b) /\ k \in Nat
          BY <4>2, <1>1, <1>2, <1>3
        <5> QED
          BY <4>2, <5>1
      <4> QED
        BY <4>1, <4>2, <1>8
    <3> QED
      BY <3>1
  <2>2. at(i) # at(j)
    BY <2>1, <1>1, <1>2, <1>3, <1>13
  <2> HIDE DEF at
  <2>3. ms[at(i)].ids \cap ms[at(j)].ids = {}
    BY <2>1, <2>2 DEF Shape, PairedBut
  <2> QED
    BY <2>1, <2>3
<1> QED
  BY <1>11, <1>12, <1>13 DEF Paired

-----------------------------------------------------------------------------
(* What is put behind a conversation                                       *)

\* t begins with the messages of ms.
Begins(ms, t) == Len(ms) <= Len(t) /\ \A k \in 1..Len(ms) : t[k] = ms[k]

LEMMA FullStays ==
  ASSUME NEW ms, Placed(ms), NEW t, Placed(t), Begins(ms, t),
         NEW i \in Calls(ms), Full(ms, i)
  PROVE  i \in Calls(t) /\ Full(t, i)
<1> DEFINE n == Cardinality(ms[i].ids)
<1>1. /\ i \in Nat /\ i >= 1 /\ i <= Len(ms) /\ n \in Nat /\ ms[i].role = "call"
      /\ Len(ms) \in Nat /\ Len(t) \in Nat /\ DOMAIN t = 1..Len(t)
      /\ Len(ms) <= Len(t) /\ i + n <= Len(ms)
  BY CallsArePlaced DEF Placed, Begins, Full, RepliesTo
<1>2. \A k \in i..i + n : t[k + 0] = ms[k]
  <2> HIDE DEF n
  <2>1. \A k \in i..i + n : k \in 1..Len(ms) /\ k + 0 = k
    BY <1>1
  <2> QED
    BY <2>1 DEF Begins
<1>3. i + n + 0 <= Len(t) /\ i + 0 = i /\ 0 \in Int
  <2> HIDE DEF n
  <2> QED
    BY <1>1
<1>4. Full(t, i + 0)
  BY <1>1, <1>2, <1>3, BlockMoves
<1>5. i \in 1..Len(t) /\ t[i].role = "call"
  <2>1. i \in 1..Len(ms) /\ i \in 1..Len(t)
    BY <1>1
  <2> QED
    BY <2>1, <1>1 DEF Begins
<1> QED
  BY <1>1, <1>3, <1>4, <1>5 DEF Calls

\* A message that is neither a call nor a reply leaves the open call as it is.
LEMMA TextKeepsShape ==
  ASSUME NEW U \in SUBSET Ids, NEW ms \in Seq(Said(U)), NEW o, NEW b, NEW M,
         Shape(ms, o, b, M), NEW r \in {"user", "answer", "system"}
  PROVE  Shape(Append(ms, Text(r)), o, b, M)
<1> DEFINE t == Append(ms, Text(r))
           n == Len(ms)
<1>1. Text(r) \in Said(U) /\ Text(r).role \notin {"call", "reply"}
  BY TextIsSaid DEF Text
<1>2. /\ t \in Seq(Said(U)) /\ Len(t) = n + 1 /\ t[n + 1] = Text(r)
      /\ \A k \in 1..n : t[k] = ms[k]
  BY <1>1, AppendProperties
<1>3. Placed(ms) /\ Placed(t)
  BY <1>2, SaidIsPlaced
<1> HIDE DEF t
<1>4. n \in Nat /\ DOMAIN ms = 1..n /\ DOMAIN t = 1..n + 1 /\ Begins(ms, t)
  BY <1>2, <1>3 DEF Placed, Begins
<1>5. Calls(t) = Calls(ms) /\ \A i \in Calls(ms) : t[i] = ms[i]
  <2> HIDE DEF n
  <2>1. ASSUME NEW k \in 1..n + 1, k \notin 1..n PROVE k = n + 1
    BY <1>4, <2>1
  <2>2. \A k \in 1..n : k \in 1..n + 1
    BY <1>4
  <2> QED
    BY <2>1, <2>2, <1>1, <1>2, <1>4 DEF Calls
<1>6. ASSUME NEW i \in Calls(ms) \ {o} PROVE Full(t, i)
  <2>1. Full(ms, i)
    BY DEF Shape, PairedBut
  <2> QED
    BY <2>1, <1>3, <1>4, FullStays
<1>7. ASSUME NEW k \in 1..Len(t), IsReply(t[k])
      PROVE  Owned(t, o, k) \/ (o < k /\ k <= b)
  <2>1. k \in 1..n /\ IsReply(ms[k])
    <3>1. k # n + 1
      BY <1>1, <1>2, <1>7 DEF IsReply
    <3>2. k \in 1..n
      BY <3>1, <1>2, <1>4
    <3> QED
      BY <3>2, <1>2, <1>7
  <2>2. Owned(ms, o, k) \/ (o < k /\ k <= b)
    BY <2>1 DEF Shape, PairedBut
  <2> QED
    BY <2>2, <1>5 DEF Owned
<1>8. \A i, j \in Calls(t) : i # j => t[i].ids \cap t[j].ids = {}
  BY <1>5 DEF Shape, PairedBut
<1>9. PairedBut(t, o, b)
  BY <1>5, <1>6, <1>7, <1>8 DEF PairedBut
<1>10. CASE o = 0 /\ b = 0 /\ M = {}
  BY <1>9, <1>10 DEF Shape, t
<1>11. CASE OpenAt(ms, o, b, M)
  <2>1. o \in Calls(ms) /\ o \in Nat /\ o >= 1 /\ b \in Nat /\ o <= b /\ b <= n /\ o + (b - o) = b
    <3>1. o \in Calls(ms) /\ b \in o..n
      BY <1>11 DEF OpenAt
    <3>2. o \in Nat /\ o >= 1
      BY <3>1, <1>3, CallsArePlaced
    <3> HIDE DEF n
    <3> QED
      BY <3>1, <3>2, <1>4
  <2>2. b \in o..Len(t) /\ o + (b - o) <= Len(t)
    <3> HIDE DEF n
    <3> QED
      BY <2>1, <1>2, <1>4
  <2>3. t[o] = ms[o]
    BY <2>1, <1>5
  <2>4. \A k \in o + 1..b : t[k] = ms[k]
    <3>1. \A k \in o + 1..b : k \in 1..n
      <4> HIDE DEF n
      <4> QED
        BY <2>1, <1>4
    <3> QED
      BY <3>1, <1>2
  <2>5. \A k \in o + 1..b : IsReply(t[k]) /\ t[k].ids \subseteq t[o].ids
    BY <2>1, <2>3, <2>4, <1>11 DEF OpenAt, RepliesTo
  <2>6. RepliesTo(t, o, b - o)
    BY <2>1, <2>2, <2>5 DEF RepliesTo
  <2>7. OpenAt(t, o, b, M)
    BY <2>1, <2>2, <2>3, <2>4, <2>6, <1>5, <1>11 DEF OpenAt
  <2> QED
    BY <2>7, <1>9 DEF Shape, t
<1> QED
  BY <1>10, <1>11 DEF Shape

\* t is a with R behind it.
Joins(a, R, t) ==
  /\ Len(t) = Len(a) + Len(R)
  /\ \A k \in 1..Len(a) + Len(R) : t[k] = IF k <= Len(a) THEN a[k] ELSE R[k - Len(a)]

\* What is open in t is M, and t ends with the replies that are there.
EndsOpen(t, M) == \E o, b : Shape(t, o, b, M) /\ (o # 0 => b = Len(t))

\* A turn with calls leaves those of them open that were not refused.
LEMMA AskIsOpen ==
  ASSUME NEW U \in SUBSET Ids, NEW req \in Seq(Said(U)), Paired(req),
         NEW S \in SUBSET Ids, IsFiniteSet(S), NEW blocked \in SUBSET S,
         \A i \in Calls(req) : req[i].ids \cap S = {},
         NEW a, a = Append(req, Call(S)),
         NEW R, AnswersAll(R, blocked), NEW t, Placed(t), Joins(a, R, t)
  PROVE  EndsOpen(t, S \ blocked)
<1> SUFFICES \E o, b : Shape(t, o, b, S \ blocked) /\ (o # 0 => b = Len(t))
  BY DEF EndsOpen
<1> DEFINE n == Len(req)
           o == n + 1
           M == S \ blocked
           r == Cardinality(blocked)
<1>1. /\ n \in Nat /\ DOMAIN req = 1..n /\ Placed(req)
  BY SaidIs, SaidIsPlaced
<1>2. Len(a) = n + 1 /\ a[n + 1] = Call(S) /\ \A k \in 1..n : a[k] = req[k]
  BY AppendProperties
<1>3. /\ r \in Nat /\ Cardinality(M) \in Nat /\ Cardinality(S) \in Nat
      /\ r + Cardinality(M) = Cardinality(S)
      /\ IsFiniteSet(M) /\ IsFiniteSet(blocked)
  <2>1. IsFiniteSet(blocked) /\ blocked = S \cap blocked
    BY FS_Subset
  <2>2. /\ IsFiniteSet(M)
        /\ Cardinality(M) = Cardinality(S) - Cardinality(S \cap blocked)
    BY FS_Difference
  <2>3. Cardinality(M) \in Nat /\ Cardinality(S) \in Nat /\ r \in Nat
    BY <2>1, <2>2, FS_CardinalityType
  <2>4. Cardinality(M) = Cardinality(S) - r
    BY <2>1, <2>2
  <2> QED
    BY <2>1, <2>2, <2>3, <2>4
<1>4. /\ Len(R) = r
      /\ \A k \in 1..r : IsReply(R[k]) /\ R[k].ids \subseteq blocked
      /\ \A i \in blocked : \E k \in 1..r : i \in R[k].ids
  BY DEF AnswersAll
<1> HIDE DEF n, r
<1>5. /\ Len(t) = o + r /\ DOMAIN t = 1..o + r
      /\ \A k \in 1..n : t[k] = req[k]
      /\ t[o] = Call(S)
      /\ \A k \in o + 1..o + r : t[k] = R[k - o]
  <2>1. \A k \in 1..o + r : t[k] = IF k <= o THEN a[k] ELSE R[k - o]
    BY <1>2, <1>4 DEF Joins
  <2>2. \A k \in 1..n : k \in 1..o + r /\ k <= o
    BY <1>1, <1>3
  <2>3. o \in 1..o + r /\ o <= o
    BY <1>1, <1>3
  <2>4. \A k \in o + 1..o + r : k \in 1..o + r /\ ~(k <= o)
    BY <1>1, <1>3
  <2>5. Len(t) = o + r
    BY <1>2, <1>4 DEF Joins
  <2>6. DOMAIN t = 1..o + r
    BY <2>5 DEF Placed
  <2>7. \A k \in 1..n : t[k] = req[k]
    BY <2>1, <2>2, <1>2
  <2>8. t[o] = Call(S)
    BY <2>1, <2>3, <1>2
  <2>9. \A k \in o + 1..o + r : t[k] = R[k - o]
    BY <2>1, <2>4
  <2> QED
    BY <2>5, <2>6, <2>7, <2>8, <2>9
<1>6. t[o].role = "call" /\ t[o].ids = S
  BY <1>5 DEF Call
<1>7. \A k \in o + 1..o + r : IsReply(t[k]) /\ t[k].ids \subseteq blocked
  <2>1. \A k \in o + 1..o + r : k - o \in 1..r
    BY <1>1, <1>3
  <2> QED
    BY <2>1, <1>4, <1>5
<1>8. \A i \in blocked : \E k \in o + 1..o + r : i \in t[k].ids
  <2> SUFFICES ASSUME NEW i \in blocked PROVE \E k \in o + 1..o + r : i \in t[k].ids
    OBVIOUS
  <2>1. PICK k \in 1..r : i \in R[k].ids
    BY <1>4
  <2>2. o + k \in o + 1..o + r /\ (o + k) - o = k
    BY <1>1, <1>3
  <2>3. t[o + k] = R[k]
    BY <2>2, <1>5
  <2> QED
    BY <2>1, <2>2, <2>3
<1>9. o \in Nat /\ o >= 1 /\ o \in 1..o + r
  BY <1>1, <1>3
<1> HIDE DEF o
<1>10. /\ o \in Calls(t)
       /\ \A i \in Calls(req) : i \in 1..n /\ i \in Calls(t) /\ t[i] = req[i] /\ i < o
       /\ \A i \in Calls(t) : i # o => i \in Calls(req)
  <2>1. o \in Calls(t)
    BY <1>5, <1>6, <1>9 DEF Calls
  <2>2. \A k \in 1..n : k \in 1..o + r /\ k < o
    BY <1>1, <1>3 DEF o
  <2>3. \A k \in 1..o + r : k # o => k \in 1..n \/ k \in o + 1..o + r
    BY <1>1, <1>3 DEF o
  <2>4. \A k \in o + 1..o + r : t[k].role # "call"
    BY <1>7 DEF IsReply
  <2> QED
    BY <2>1, <2>2, <2>3, <2>4, <1>1, <1>5 DEF Calls
<1>11. ASSUME NEW i \in Calls(t), i # o PROVE Full(t, i)
  <2>1. i \in Calls(req) /\ Full(req, i)
    BY <1>10, <1>11 DEF Paired
  <2>2. Begins(req, t)
    <3>1. Len(req) <= Len(t)
      BY <1>1, <1>3, <1>5 DEF n, o
    <3> QED
      BY <3>1, <1>5 DEF Begins, n
  <2> QED
    BY <2>1, <2>2, <1>1, FullStays
<1>12. ASSUME NEW k \in 1..Len(t), IsReply(t[k])
       PROVE  \/ \E i \in Calls(t) \ {o} : i < k /\ k <= i + Cardinality(t[i].ids)
              \/ o < k /\ k <= o + r
  <2>1. k # o
    BY <1>6, <1>12 DEF IsReply
  <2>2. CASE k \in 1..n
    <3>1. IsReply(req[k]) /\ k \in 1..Len(req)
      BY <2>2, <1>5, <1>12 DEF n
    <3>2. PICK i \in Calls(req) : i < k /\ k <= i + Cardinality(req[i].ids)
      BY <3>1 DEF Paired
    <3>3. i \in Calls(t) /\ i # o /\ t[i] = req[i]
      <4>1. i \in 1..n /\ i \in Calls(t) /\ t[i] = req[i]
        BY <1>10
      <4>2. o \notin 1..n
        BY <1>1 DEF o
      <4> QED
        BY <4>1, <4>2
    <3> QED
      BY <3>2, <3>3
  <2>3. CASE k \notin 1..n
    <3>1. k \in 1..o + r
      BY <1>5
    <3>2. o < k /\ k <= o + r
      BY <3>1, <2>1, <2>3, <1>1, <1>3 DEF o
    <3> QED
      BY <3>2
  <2> QED
    BY <2>2, <2>3
<1>13. ASSUME NEW i \in Calls(t), NEW j \in Calls(t), i # j
       PROVE  t[i].ids \cap t[j].ids = {}
  <2>1. CASE i # o /\ j # o
    <3>1. i \in Calls(req) /\ j \in Calls(req) /\ t[i] = req[i] /\ t[j] = req[j]
      BY <2>1, <1>10
    <3> QED
      BY <3>1, <1>13 DEF Paired
  <2>2. CASE i = o
    <3>1. j \in Calls(req) /\ t[j] = req[j]
      BY <2>2, <1>10, <1>13
    <3> QED
      BY <2>2, <3>1, <1>6
  <2>3. CASE j = o
    <3>1. i \in Calls(req) /\ t[i] = req[i]
      BY <2>3, <1>10, <1>13
    <3> QED
      BY <2>3, <3>1, <1>6
  <2> QED
    BY <2>1, <2>2, <2>3
<1>14. CASE M = {}
  <2>1. blocked = S /\ r = Cardinality(S)
    <3>1. blocked = S
      BY <1>14 DEF M
    <3> QED
      BY <3>1 DEF r
  <2>2. Full(t, o)
    BY <2>1, <1>5, <1>6, <1>7, <1>8, <1>9 DEF Full, RepliesTo
  <2>3. \A k \in 1..Len(t) : IsReply(t[k]) =>
          \E i \in Calls(t) : i < k /\ k <= i + Cardinality(t[i].ids)
    BY <2>1, <1>6, <1>10, <1>12
  <2>4. Paired(t)
    BY <2>2, <2>3, <1>11, <1>13 DEF Paired
  <2>5. Shape(t, 0, 0, M)
    BY <2>4, <1>14, PairedHasShape
  <2> QED
    BY <2>5
<1>15. CASE M # {}
  <2>1. PairedBut(t, o, o + r)
    BY <1>11, <1>12, <1>13 DEF PairedBut, Owned
  <2>2. (o + r) - o = r /\ o + r \in o..Len(t) /\ o + r <= Len(t)
    BY <1>3, <1>5, <1>9
  <2>3. RepliesTo(t, o, r)
    BY <2>2, <1>6, <1>7 DEF RepliesTo
  <2>4. \A k \in o + 1..o + r : t[k].ids \cap M = {}
    BY <1>7
  <2>5. \A x \in t[o].ids \ M : \E k \in o + 1..o + r : x \in t[k].ids
    BY <1>6, <1>8
  <2>6. (o + r) - o + Cardinality(M) = Cardinality(t[o].ids) /\ M \subseteq t[o].ids
    BY <2>2, <1>3, <1>6
  <2>7. OpenAt(t, o, o + r, M)
    BY <2>2, <2>3, <2>4, <2>5, <2>6, <1>10, <1>15 DEF OpenAt
  <2> QED
    BY <2>1, <2>7, <1>5 DEF Shape
<1> QED
  BY <1>14, <1>15

-----------------------------------------------------------------------------
(* What the next request tells                                             *)

\* The verdict of a call once the sweep has been.
Told(i) == IF i \in Orphans(msgs) /\ VerdictOf(i) = "pending" THEN "swept" ELSE VerdictOf(i)

\* Every reply of ms tells what is told of its call, which is final.
TellsAll(ms) ==
  \A k \in 1..Len(ms) : IsReply(ms[k]) =>
    \A i \in ms[k].ids : ms[k].word = Told(i) /\ ms[k].word \in Terminal

\* There is a call that is open, or none, and what waits for it is known.
TalkIsShaped == \E o, b, M : Shape(msgs, o, b, M) /\ WaitsAt(o, b, M)

ReqInv == TalkInv /\ RepliesTell /\ TalkIsShaped

LEMMA FilledHas ==
  ASSUME NEW ms, Len(ms) \in Nat, NEW b \in Nat, b >= 1, b <= Len(ms),
         NEW R, Len(R) \in Nat, NEW t, Filled(t, ms, Len(ms), b, R), NEW j \in 1..Len(t)
  PROVE  (\E k \in 1..Len(ms) : t[j] = ms[k]) \/ (\E k \in 1..Len(R) : t[j] = R[k])
<1>1. Len(t) = Len(ms) + Len(R)
  BY DEF Filled
<1>2. t[j] = IF j <= b THEN ms[j] ELSE IF j <= b + Len(R) THEN R[j - b] ELSE ms[j - Len(R)]
  BY DEF Filled
<1>3. CASE j <= b
  <2>1. j \in 1..Len(ms)
    BY <1>1, <1>3
  <2> QED
    BY <2>1, <1>2, <1>3
<1>4. CASE ~(j <= b) /\ j <= b + Len(R)
  <2>1. j - b \in 1..Len(R)
    BY <1>1, <1>4
  <2> QED
    BY <2>1, <1>2, <1>4
<1>5. CASE ~(j <= b) /\ ~(j <= b + Len(R))
  <2>1. j - Len(R) \in 1..Len(ms)
    BY <1>1, <1>5
  <2> QED
    BY <2>1, <1>2, <1>5
<1> QED
  BY <1>3, <1>4, <1>5

LEMMA MissingIsUsed ==
  ASSUME NEW U \in SUBSET Ids, NEW ms \in Seq(Said(U)), NEW o, NEW b, NEW M, Shape(ms, o, b, M)
  PROVE  M \in SUBSET U /\ IsFiniteSet(M) /\ Cardinality(M) \in Nat
<1>1. Orphans(ms) = M
  BY SaidIsPlaced, MissingIs
<1>2. MissingOf(ms, Calls(ms)) = M /\ Calls(ms) \in SUBSET Calls(ms)
  BY <1>1 DEF MissingOf, Orphans
<1>3. M \in SUBSET U /\ IsFiniteSet(M)
  BY <1>2, MissingIsFinite
<1> QED
  BY <1>3, FS_CardinalityType

\* A swept conversation is paired and tells what is to be told.
LEMMA SweepIsPaired ==
  ASSUME ReqInv
  PROVE  LET t == Sweep(msgs, SweepWord)
         IN  t \in Seq(Said(Used)) /\ Paired(t) /\ TellsAll(t)
<1> DEFINE t == Sweep(msgs, SweepWord)
           R(M) == Replies(M, SweepWord)
<1>1. msgs \in Seq(Said(Used)) /\ Used \in SUBSET Ids /\ steps \in Seq(StepRecords)
  BY DEF ReqInv, TalkInv, LoopInv, Used
<1>2. Placed(msgs) /\ Len(msgs) \in Nat /\ DOMAIN msgs = 1..Len(msgs)
  BY <1>1, SaidIsPlaced DEF Placed
<1>3. PICK o, b, M : Shape(msgs, o, b, M) /\ WaitsAt(o, b, M)
  BY DEF ReqInv, TalkIsShaped
<1>4. Orphans(msgs) = M /\ M \in SUBSET Used /\ IsFiniteSet(M) /\ Cardinality(M) \in Nat
  BY <1>1, <1>2, <1>3, MissingIs, MissingIsUsed
<1>5. \A i \in M : SweepWord[i] = "swept" /\ Told(i) = "swept"
  <2> SUFFICES ASSUME NEW i \in M PROVE SweepWord[i] = "swept" /\ Told(i) = "swept"
    OBVIOUS
  <2>1. VerdictOf(i) = "pending"
    BY <1>3 DEF WaitsAt
  <2>2. steps[RecordOf(i)].verdict[i] = "pending"
    BY <2>1 DEF VerdictOf
  <2> QED
    BY <2>1, <2>2, <1>4 DEF SweepWord, Told
<1>6. t \in Seq(Said(Used))
  <2>1. \A i \in Orphans(msgs) : SweepWord[i] \in Verdicts
    BY <1>4, <1>5 DEF Verdicts
  <2> QED
    BY <2>1, <1>1, SweepIsSaid
<1>7. TellsAll(msgs)
  <2> SUFFICES ASSUME NEW k \in 1..Len(msgs), IsReply(msgs[k]), NEW i \in msgs[k].ids
               PROVE  msgs[k].word = Told(i) /\ msgs[k].word \in Terminal
    BY DEF TellsAll
  <2>1. msgs[k].word = VerdictOf(i) /\ msgs[k].word \in Terminal
    BY <1>2 DEF ReqInv, RepliesTell
  <2> QED
    BY <2>1 DEF Told, Terminal
<1>8. CASE o = 0
  <2>1. ~OpenAt(msgs, o, b, M)
    BY <1>2, <1>8, CallsArePlaced DEF OpenAt
  <2>2. M = {} /\ b = 0
    BY <2>1, <1>3 DEF Shape
  <2>3. Paired(msgs)
    BY <2>2, <1>2, <1>3, <1>8, PairedHasShape
  <2>4. t = msgs
    BY <2>2, <1>4 DEF Sweep
  <2> HIDE DEF t
  <2> QED
    BY <2>3, <2>4, <1>1, <1>7 DEF t
<1>9. CASE o # 0
  <2>1. OpenAt(msgs, o, b, M)
    BY <1>3, <1>9 DEF Shape
  <2>2. b \in Nat /\ b >= 1 /\ b <= Len(msgs)
    BY <2>1, <1>2, CallsArePlaced DEF OpenAt
  <2>3. \A i \in M : SweepWord[i] \in Verdicts
    BY <1>5 DEF Verdicts
  <2>4. Len(R(M)) = Cardinality(M)
    BY <2>3, <1>1, <1>4, RepliesAreSaid
  <2>5. Filled(t, msgs, Len(msgs), b, R(M))
    BY <2>3, <1>1, <1>3, <1>9, SweepFills
  <2>6. AnswersAll(R(M), M)
    BY <2>4, <1>4, RepliesAnswer
  <2>7. \A k \in 1..Cardinality(M) : \E i \in M : R(M)[k] = Reply(i, SweepWord[i])
    BY <1>4, RepliesOf
  <2>8. Placed(t)
    BY <1>1, <1>6, SaidIsPlaced
  <2> HIDE DEF t, R
  <2>9. Paired(t)
    BY <2>5, <2>6, <2>8, <1>2, <1>3, <1>4, <1>9, FilledIsPaired
  <2>10. TellsAll(t)
    <3> SUFFICES ASSUME NEW j \in 1..Len(t), IsReply(t[j]), NEW i \in t[j].ids
                 PROVE  t[j].word = Told(i) /\ t[j].word \in Terminal
      BY DEF TellsAll
    <3>1. (\E k \in 1..Len(msgs) : t[j] = msgs[k]) \/ (\E k \in 1..Len(R(M)) : t[j] = R(M)[k])
      <4>1. Len(R(M)) \in Nat
        BY <2>4, <1>4
      <4> QED
        BY <4>1, <2>2, <2>5, <1>2, FilledHas
    <3>2. CASE \E k \in 1..Len(msgs) : t[j] = msgs[k]
      BY <3>2, <1>7 DEF TellsAll
    <3>3. CASE \E k \in 1..Len(R(M)) : t[j] = R(M)[k]
      <4>1. PICK x \in M : t[j] = Reply(x, SweepWord[x])
        BY <3>3, <2>4, <2>7
      <4>2. i = x /\ t[j].word = SweepWord[x]
        BY <4>1 DEF Reply
      <4> QED
        BY <4>2, <1>5 DEF Terminal, Verdicts
    <3> QED
      BY <3>1, <3>2, <3>3
  <2> QED
    BY <2>9, <2>10, <1>6 DEF t
<1> QED
  BY <1>8, <1>9

\* And so is whatever the compression leaves of it.
LEMMA RequestsArePaired ==
  ASSUME ReqInv, NEW req \in Requests
  PROVE  /\ req \in Seq(Said(Used)) /\ Placed(req)
         /\ Paired(req) /\ TellsAll(req)
<1> DEFINE t == Sweep(msgs, SweepWord)
<1>1. Used \in SUBSET Ids /\ t \in Seq(Said(Used)) /\ Paired(t) /\ TellsAll(t)
  BY SweepIsPaired DEF Used
<1>2. PICK n \in KeepRecents : req \in Compressed(t, n)
  BY DEF Requests
<1>3. n \in Nat
  BY LoopAssumption
<1> HIDE DEF t
<1>4. req = t \/ req = Candidate(t, n)
  BY <1>2 DEF Compressed
<1>5. Text("system") \in Said(Used)
  BY TextIsSaid
<1>6. CASE req = t
  BY <1>1, <1>6, SaidIsPlaced
<1>7. CASE req = Candidate(t, n)
  <2>1. Paired(req)
    BY <1>1, <1>3, <1>7, CutIsPaired
  <2>20. \/ Candidate(t, n) = t
         \/ \E d \in 1..Len(t) - 1 :
              /\ ~IsReply(t[d + 1])
              /\ Candidate(t, n) \in Seq(Said(Used))
              /\ Len(Candidate(t, n)) = Len(t) - d + 1
              /\ Candidate(t, n)[1] = Text("system")
              /\ \A k \in 2..Len(t) - d + 1 : Candidate(t, n)[k] = t[k + d - 1]
    BY <1>1, <1>3, <1>5, CutIs
  <2>2. \/ req = t
        \/ /\ req \in Seq(Said(Used))
           /\ \E d \in 1..Len(t) - 1 :
                /\ Len(req) = Len(t) - d + 1
                /\ req[1] = Text("system")
                /\ \A k \in 2..Len(t) - d + 1 : req[k] = t[k + d - 1]
    BY <2>20, <1>7
  <2>3. ASSUME req \in Seq(Said(Used)),
               NEW d \in 1..Len(t) - 1,
               Len(req) = Len(t) - d + 1,
               req[1] = Text("system"),
               \A k \in 2..Len(t) - d + 1 : req[k] = t[k + d - 1]
        PROVE  TellsAll(req)
    <3> SUFFICES ASSUME NEW k \in 1..Len(req), IsReply(req[k]), NEW i \in req[k].ids
                 PROVE  req[k].word = Told(i) /\ req[k].word \in Terminal
      BY DEF TellsAll
    <3>1. k # 1
      BY <2>3 DEF IsReply, Text
    <3>2. Len(t) \in Nat /\ d \in Nat /\ d >= 1
      BY <1>1, SaidIs
    <3>3. k \in 2..Len(t) - d + 1 /\ k + d - 1 \in 1..Len(t)
      BY <3>1, <3>2, <2>3
    <3>4. req[k] = t[k + d - 1]
      BY <3>3, <2>3
    <3> QED
      BY <3>3, <3>4, <1>1 DEF TellsAll
  <2> QED
    BY <2>1, <2>2, <2>3, <1>1, SaidIsPlaced
<1> QED
  BY <1>4, <1>6, <1>7

\* The invariant gives the property.
LEMMA ReqInvIsSound == ReqInv => RequestsAreSound
<1> SUFFICES ASSUME ReqInv, NEW req \in Requests
             PROVE  /\ WellPaired(req)
                    /\ \A k \in DOMAIN req : IsReply(req[k]) => \A i \in req[k].ids :
                         req[k].word = SweptSteps[RecordOf(i)].verdict[i]
  BY DEF RequestsAreSound, RequestsWellPaired, OneText
<1>1. /\ req \in Seq(Said(Used)) /\ Placed(req) /\ Paired(req) /\ TellsAll(req)
      /\ Used \in SUBSET Ids /\ steps \in Seq(StepRecords)
  BY RequestsArePaired DEF ReqInv, TalkInv, LoopInv, Used
<1>2. WellPaired(req)
  BY <1>1, PairedIsWell
<1>3. ASSUME NEW i \in Used PROVE SweptSteps[RecordOf(i)].verdict[i] = Told(i)
  <2> DEFINE k == RecordOf(i)
             verdict == [j \in Ids |-> IF /\ j \in Orphans(msgs)
                                          /\ RecordOf(j) = k
                                          /\ steps[k].verdict[j] = "pending"
                                       THEN "swept" ELSE steps[k].verdict[j]]
  <2>1. i \in Ids /\ k \in DOMAIN steps /\ steps[k] \in StepRecords
    BY <1>1, UsedHasRecord, StepsAreRecords
  <2>2. SweptSteps[k] = [steps[k] EXCEPT !.verdict = verdict]
    BY <2>1 DEF SweptSteps
  <2>3. verdict[i] = Told(i)
    BY <2>1 DEF Told, VerdictOf
  <2> HIDE DEF verdict, k
  <2>4. SweptSteps[k].verdict = verdict
    BY <2>1, <2>2 DEF StepRecords
  <2> QED
    BY <2>3, <2>4 DEF k
<1>4. ASSUME NEW k \in 1..Len(req), IsReply(req[k]), NEW i \in req[k].ids
      PROVE  req[k].word = SweptSteps[RecordOf(i)].verdict[i]
  <2>1. i \in Used
    BY <1>1, <1>4, SaidIs DEF IsReply
  <2>2. req[k].word = Told(i)
    BY <1>1, <1>4 DEF TellsAll
  <2> QED
    BY <2>1, <2>2, <1>3
<1> QED
  BY <1>1, <1>2, <1>4 DEF Placed

-----------------------------------------------------------------------------
(* The theorems                                                            *)

LEMMA TalkIsInvariant == Spec => []TalkInv
<1>1. Init => TalkInv
  BY TalkStarts
<1>2. TalkInv /\ [Next]_vars => TalkInv'
  BY TalkNext
<1> QED
  BY <1>1, <1>2, PTL DEF Spec

\* Whatever a provider asks for, however it was refused, stopped, crashed, swept and
\* compressed: the checkpoint holds messages and steps of the kind the code writes.
THEOREM ConversationIsTypeCorrect == Spec => []TypeOK
<1>1. TalkInv => TypeOK
  <2> SUFFICES ASSUME TalkInv PROVE TypeOK
    OBVIOUS
  <2>1. Said(Used) \subseteq Message
    BY DEF Said
  <2>2. msgs \in Seq(Said(Used))
    BY DEF TalkInv
  <2>3. msgs \in Seq(Message)
    BY <2>1, <2>2
  <2>4. roundSteps \in Nat
    BY LoopAssumption DEF TalkInv, LoopInv, BudgetIsLeft
  <2> QED
    BY <2>3, <2>4 DEF TypeOK, TalkInv, LoopInv, Message
<1> QED
  BY <1>1, TalkIsInvariant, PTL

LEMMA ReqInit == Init => ReqInv
<1> SUFFICES ASSUME Init PROVE ReqInv
  OBVIOUS
<1>1. TalkInv
  BY TalkStarts
<1>2. msgs \in Seq(Said(Used)) /\ Used \in SUBSET Ids
  BY <1>1 DEF TalkInv, Used
<1>3. Placed(msgs)
  BY <1>2, SaidIsPlaced
<1>4. Len(msgs) = 1 /\ msgs[1] = Text("user")
  BY DEF Init
<1>5. DOMAIN msgs = {1} /\ 1..Len(msgs) = {1}
  BY <1>3, <1>4 DEF Placed
<1>6. msgs[1].role # "call" /\ ~IsReply(msgs[1])
  BY <1>4 DEF Text, IsReply
<1>7. Calls(msgs) = {}
  BY <1>5, <1>6 DEF Calls
<1>8. Paired(msgs)
  BY <1>5, <1>6, <1>7 DEF Paired
<1>9. Shape(msgs, 0, 0, {})
  BY <1>3, <1>8, PairedHasShape
<1>10. WaitsAt(0, 0, {})
  BY DEF WaitsAt, Init
<1>11. RepliesTell
  BY <1>5, <1>6 DEF RepliesTell
<1> QED
  BY <1>1, <1>9, <1>10, <1>11 DEF ReqInv, TalkIsShaped

\* A step that touches no verdict and adds at most a message that is no call and no
\* reply keeps the invariant.
LEMMA QuietKeeps ==
  ASSUME ReqInv, TalkInv', SameVerdicts,
         msgs' = msgs \/ msgs' = Append(msgs, Text("user")),
         node' = "tool" => node = "tool" /\ msgs' = msgs
  PROVE  ReqInv'
<1>1. /\ steps \in Seq(StepRecords) /\ steps' \in Seq(StepRecords)
      /\ msgs \in Seq(Said(Used)) /\ Used \in SUBSET Ids
  BY DEF ReqInv, TalkInv, LoopInv, Used
<1>2. /\ Used' = Used /\ Pending' = Pending
      /\ \A i \in Used : VerdictOf(i)' = VerdictOf(i)
  BY <1>1, SameCalls
<1>3. PICK o, b, M : Shape(msgs, o, b, M) /\ WaitsAt(o, b, M)
  BY DEF ReqInv, TalkIsShaped
<1>4. M \in SUBSET Used
  BY <1>1, <1>3, MissingIsUsed
<1>5. Shape(msgs', o, b, M)
  BY <1>1, <1>3, TextKeepsShape
<1>6. WaitsAt(o, b, M)'
  <2>1. \A i \in M : VerdictOf(i)' = "pending"
    BY <1>2, <1>3, <1>4 DEF WaitsAt
  <2>2. node' = "tool" => M = Pending' /\ (o # 0 => b = Len(msgs'))
    BY <1>2, <1>3 DEF WaitsAt
  <2> QED
    BY <2>1, <2>2 DEF WaitsAt
<1>7. ASSUME NEW k \in DOMAIN msgs', IsReply(msgs'[k])
      PROVE  k \in DOMAIN msgs /\ msgs'[k] = msgs[k]
  <2>1. CASE msgs' = msgs
    BY <2>1, <1>7
  <2>2. CASE msgs' = Append(msgs, Text("user"))
    <3>1. Len(msgs) \in Nat /\ DOMAIN msgs = 1..Len(msgs) /\ DOMAIN msgs' = 1..Len(msgs) + 1
          /\ msgs'[Len(msgs) + 1] = Text("user")
          /\ \A j \in 1..Len(msgs) : msgs'[j] = msgs[j]
      <4>1. Text("user") \in Said(Used)
        BY TextIsSaid
      <4>2. msgs' \in Seq(Said(Used)) /\ Len(msgs') = Len(msgs) + 1
        BY <2>2, <1>1, <4>1, AppendProperties
      <4>3. DOMAIN msgs' = 1..Len(msgs')
        BY <4>2, <1>1, SaidIs
      <4> QED
        BY <2>2, <1>1, <4>1, <4>2, <4>3, AppendProperties, SaidIs
    <3>2. k # Len(msgs) + 1
      BY <3>1, <1>7 DEF IsReply, Text
    <3>3. k \in 1..Len(msgs)
      BY <3>1, <3>2, <1>7
    <3> QED
      BY <3>1, <3>3
  <2> QED
    BY <2>1, <2>2
<1>8. RepliesTell'
  <2> SUFFICES ASSUME NEW k \in DOMAIN msgs', IsReply(msgs'[k]), NEW i \in msgs'[k].ids
               PROVE  msgs'[k].word = VerdictOf(i)' /\ msgs'[k].word \in Terminal
    BY DEF RepliesTell
  <2>1. k \in DOMAIN msgs /\ msgs'[k] = msgs[k]
    BY <1>7
  <2>2. msgs[k].word = VerdictOf(i) /\ msgs[k].word \in Terminal
    BY <2>1 DEF ReqInv, RepliesTell
  <2>3. i \in Used
    BY <2>1, <1>1, SaidIs DEF IsReply
  <2> QED
    BY <2>1, <2>2, <2>3, <1>2
<1> QED
  BY <1>5, <1>6, <1>8 DEF ReqInv, TalkIsShaped

\* A turn that asks for tools, with ids of its own.
LEMMA AsksKeeps ==
  ASSUME ReqInv, TalkInv', ~MayReuse, NEW S \in IdChoices, NEW blocked \in SUBSET S,
         Asks(S, blocked)
  PROVE  ReqInv'
<1> DEFINE R == Replies(blocked, [i \in blocked |-> "blocked"])
<1>1. /\ LoopInv /\ steps \in Seq(StepRecords) /\ steps' \in Seq(StepRecords)
      /\ msgs' \in Seq(Said(Used')) /\ Used \in SUBSET Ids /\ Used' \in SUBSET Ids
  BY DEF ReqInv, TalkInv, LoopInv, Used
<1>2. S \in SUBSET Ids /\ IsFiniteSet(S) /\ S \cap Used = {}
  BY ChoiceIs
<1>3. /\ Used' = Used \cup S /\ Pending' = S \ blocked
      /\ \A i \in S : VerdictOf(i)' = IF i \in blocked THEN "blocked" ELSE "pending"
      /\ \A i \in Used : VerdictOf(i)' = Told(i)
  <2>1. Opened(S, blocked)
    BY <1>1, TurnOpens DEF Asks
  <2>2. \A i \in Used : i \in Used \ S
    BY <1>2
  <2> QED
    BY <2>1, <2>2, <1>1, <1>2, OpenedCalls DEF Told
<1>4. PICK req \in Requests : msgs' = Append(req, Call(S)) \o R
  BY DEF Asks
<1>5. req \in Seq(Said(Used)) /\ Placed(req) /\ Paired(req) /\ TellsAll(req)
  BY RequestsArePaired
<1>6. req \in Seq(Said(Used'))
  BY <1>3, <1>5, SaidGrows
<1>7. Append(req, Call(S)) \in Seq(Said(Used')) /\ R \in Seq(Said(Used'))
  BY <1>1, <1>2, <1>3, <1>6, AskIsSaid
<1>8. IsFiniteSet(blocked) /\ Cardinality(blocked) \in Nat
  BY <1>2, FS_Subset, FS_CardinalityType
<1>9. Len(R) = Cardinality(blocked)
  <2>1. \A i \in blocked : [j \in blocked |-> "blocked"][i] \in Verdicts
    BY DEF Verdicts
  <2>2. blocked \in SUBSET Used'
    BY <1>3
  <2> QED
    BY <2>1, <2>2, <1>1, <1>8, RepliesAreSaid
<1>10. AnswersAll(R, blocked)
  BY <1>8, <1>9, RepliesAnswer
<1>11. \A k \in 1..Cardinality(blocked) : \E i \in blocked : R[k] = Reply(i, "blocked")
  BY <1>8, RepliesOf
<1> HIDE DEF R
<1> DEFINE a == Append(req, Call(S))
<1>12. /\ Len(a) = Len(req) + 1 /\ a[Len(req) + 1] = Call(S)
       /\ \A k \in 1..Len(req) : a[k] = req[k]
  BY <1>6, AppendProperties
<1>13. a = Append(req, Call(S)) /\ a \in Seq(Said(Used'))
  BY <1>7
<1> HIDE DEF a
<1>14. /\ Len(msgs') = Len(a) + Len(R)
       /\ \A k \in 1..Len(a) + Len(R) : msgs'[k] = IF k <= Len(a) THEN a[k] ELSE R[k - Len(a)]
  <2>1. msgs' = a \o R
    BY <1>4, <1>13
  <2> QED
    BY <2>1, <1>7, <1>13, ConcatProperties, Zenon
<1>15. Placed(msgs')
  BY <1>1, SaidIsPlaced
<1>16. \A i \in Calls(req) : req[i].ids \cap S = {}
  <2> SUFFICES ASSUME NEW i \in Calls(req) PROVE req[i].ids \cap S = {}
    OBVIOUS
  <2>1. i \in 1..Len(req) /\ req[i].role = "call"
    BY <1>5, CallsArePlaced
  <2>2. req[i].ids \subseteq Used
    BY <2>1, <1>1, <1>5, SaidIs
  <2> QED
    BY <2>2, <1>2
<1>17. PICK o, b : Shape(msgs', o, b, S \ blocked) /\ (o # 0 => b = Len(msgs'))
  <2> DEFINE t == msgs'
  <2>1. Joins(a, R, t) /\ Placed(t)
    BY <1>14, <1>15 DEF Joins
  <2>2. /\ Used \in SUBSET Ids /\ req \in Seq(Said(Used)) /\ Paired(req)
        /\ S \in SUBSET Ids /\ IsFiniteSet(S)
        /\ \A i \in Calls(req) : req[i].ids \cap S = {}
        /\ a = Append(req, Call(S)) /\ AnswersAll(R, blocked)
    BY <1>1, <1>2, <1>5, <1>10, <1>13, <1>16
  <2> HIDE DEF t
  <2>3. EndsOpen(t, S \ blocked)
    BY <2>1, <2>2, AskIsOpen
  <2> QED
    BY <2>3 DEF t, EndsOpen
<1>18. WaitsAt(o, b, S \ blocked)'
  <2>1. \A i \in S \ blocked : VerdictOf(i)' = "pending"
    BY <1>3
  <2> QED
    BY <2>1, <1>3, <1>17 DEF WaitsAt
<1>19. RepliesTell'
  <2> SUFFICES ASSUME NEW k \in DOMAIN msgs', IsReply(msgs'[k]), NEW i \in msgs'[k].ids
               PROVE  msgs'[k].word = VerdictOf(i)' /\ msgs'[k].word \in Terminal
    BY DEF RepliesTell
  <2>1. Len(req) \in Nat /\ Len(R) \in Nat /\ k \in 1..Len(a) + Len(R)
    BY <1>5, <1>8, <1>9, <1>14, <1>15 DEF Placed
  <2>2. CASE k \in 1..Len(req)
    <3>1. msgs'[k] = req[k]
      <4>1. k <= Len(a)
        BY <2>1, <2>2, <1>12
      <4> QED
        BY <4>1, <2>1, <2>2, <1>12, <1>14
    <3>2. i \in Used
      BY <2>2, <3>1, <1>1, <1>5, SaidIs DEF IsReply
    <3>3. req[k].word = Told(i) /\ req[k].word \in Terminal
      BY <2>2, <3>1, <1>5 DEF TellsAll
    <3> QED
      BY <3>1, <3>2, <3>3, <1>3
  <2>3. CASE k = Len(req) + 1
    <3>1. msgs'[k] = Call(S)
      <4>1. k <= Len(a)
        BY <2>1, <2>3, <1>12
      <4> QED
        BY <4>1, <2>1, <2>3, <1>12, <1>14
    <3> QED
      BY <3>1 DEF IsReply, Call
  <2>4. CASE k > Len(req) + 1
    <3>1. k - Len(a) \in 1..Cardinality(blocked) /\ ~(k <= Len(a))
      BY <2>1, <2>4, <1>9, <1>12
    <3>2. msgs'[k] = R[k - Len(a)]
      BY <3>1, <2>1, <1>14
    <3>3. PICK x \in blocked : msgs'[k] = Reply(x, "blocked")
      BY <3>1, <3>2, <1>11
    <3>4. i = x /\ msgs'[k].word = "blocked"
      BY <3>3 DEF Reply
    <3> QED
      BY <3>4, <1>3 DEF Terminal, Verdicts
  <2> QED
    BY <2>1, <2>2, <2>3, <2>4, <1>12
<1> QED
  BY <1>17, <1>18, <1>19 DEF ReqInv, TalkIsShaped

\* A turn without tools: the round is over, by an answer or by the model's error.
LEMMA EndsKeep == ReqInv /\ TalkInv' /\ (Answers \/ ModelFails) => ReqInv'
<1> SUFFICES ASSUME ReqInv, TalkInv', Answers \/ ModelFails PROVE ReqInv'
  OBVIOUS
<1>1. /\ LoopInv /\ steps \in Seq(StepRecords) /\ steps' \in Seq(StepRecords)
      /\ msgs' \in Seq(Said(Used')) /\ Used \in SUBSET Ids
  BY DEF ReqInv, TalkInv, LoopInv, Used
<1>2. Turn({}, {}) /\ node' = "finish"
  BY DEF Answers, ModelFails
<1>3. Used' = Used /\ \A i \in Used : VerdictOf(i)' = Told(i)
  <2>1. Opened({}, {})
    BY <1>1, <1>2, TurnOpens
  <2>2. {} \in SUBSET Ids /\ {} \in SUBSET {}
    OBVIOUS
  <2>3. /\ Used' = Used \cup {}
        /\ \A i \in Used \ {} : VerdictOf(i)' =
             IF i \in Orphans(msgs) /\ VerdictOf(i) = "pending" THEN "swept" ELSE VerdictOf(i)
    BY <2>1, <2>2, <1>1, OpenedCalls
  <2> QED
    BY <2>3 DEF Told
<1>4. PICK req \in Requests : msgs' = req \/ msgs' = Append(req, Text("answer"))
  BY DEF Answers, ModelFails
<1>5. req \in Seq(Said(Used)) /\ Placed(req) /\ Paired(req) /\ TellsAll(req)
  BY RequestsArePaired
<1>6. Shape(msgs', 0, 0, {})
  <2>1. Shape(req, 0, 0, {})
    BY <1>5, PairedHasShape
  <2>2. Shape(Append(req, Text("answer")), 0, 0, {})
    BY <2>1, <1>1, <1>5, TextKeepsShape
  <2> QED
    BY <2>1, <2>2, <1>4
<1>7. WaitsAt(0, 0, {})'
  BY <1>2 DEF WaitsAt
<1>8. ASSUME NEW k \in DOMAIN msgs', IsReply(msgs'[k])
      PROVE  k \in 1..Len(req) /\ msgs'[k] = req[k]
  <2>1. CASE msgs' = req
    BY <2>1, <1>5, <1>8 DEF Placed
  <2>2. CASE msgs' = Append(req, Text("answer"))
    <3>1. Text("answer") \in Said(Used)
      BY TextIsSaid
    <3>2. /\ Len(msgs') = Len(req) + 1 /\ msgs'[Len(req) + 1] = Text("answer")
          /\ \A j \in 1..Len(req) : msgs'[j] = req[j]
      BY <2>2, <3>1, <1>5, AppendProperties
    <3>3. DOMAIN msgs' = 1..Len(req) + 1 /\ Len(req) \in Nat
      <4>1. DOMAIN msgs' = 1..Len(msgs')
        BY <1>1, <1>3, SaidIs
      <4> QED
        BY <4>1, <3>2, <1>5 DEF Placed
    <3>4. k # Len(req) + 1
      BY <3>2, <1>8 DEF IsReply, Text
    <3>5. k \in 1..Len(req)
      BY <3>3, <3>4, <1>8
    <3> QED
      BY <3>2, <3>5
  <2> QED
    BY <2>1, <2>2, <1>4
<1>9. RepliesTell'
  <2> SUFFICES ASSUME NEW k \in DOMAIN msgs', IsReply(msgs'[k]), NEW i \in msgs'[k].ids
               PROVE  msgs'[k].word = VerdictOf(i)' /\ msgs'[k].word \in Terminal
    BY DEF RepliesTell
  <2>1. k \in 1..Len(req) /\ msgs'[k] = req[k]
    BY <1>8
  <2>2. i \in Used
    BY <2>1, <1>1, <1>5, SaidIs DEF IsReply
  <2>3. req[k].word = Told(i) /\ req[k].word \in Terminal
    BY <2>1, <1>5 DEF TellsAll
  <2> QED
    BY <2>1, <2>2, <2>3, <1>3
<1> QED
  BY <1>6, <1>7, <1>9 DEF ReqInv, TalkIsShaped

\* The tool node answers all that waits, at the end of the conversation.
LEMMA ToolsAnswer ==
  ASSUME NEW absent, NEW bad
  PROVE  ReqInv /\ TalkInv' /\ RunsTools(absent, bad) => ReqInv'
<1> SUFFICES ASSUME ReqInv, TalkInv', RunsTools(absent, bad) PROVE ReqInv'
  OBVIOUS
<1> DEFINE word == [i \in Dispatchable |-> IF i \in absent \cup bad THEN "failed" ELSE "success"]
           R == Replies(Pending, word)
<1>1. /\ LoopInv /\ steps \in Seq(StepRecords) /\ steps' \in Seq(StepRecords)
      /\ msgs \in Seq(Said(Used)) /\ msgs' \in Seq(Said(Used')) /\ Used \in SUBSET Ids
      /\ IsFiniteSet(Pending)
  BY DEF ReqInv, TalkInv, LoopInv, Used
<1>2. /\ node = "tool" /\ node' # "tool"
      /\ msgs' = msgs \o Replies(Dispatchable, word)
  BY DEF RunsTools, NextNode
<1>3. msgs' = msgs \o R
  BY <1>2 DEF Dispatchable
<1>4. /\ Used' = Used /\ Pending \subseteq Used
      /\ \A i \in Used \ Pending : VerdictOf(i)' = VerdictOf(i)
      /\ \A i \in Pending : VerdictOf(i)' = word[i] /\ word[i] \in {"failed", "success"}
  <2>1. LastDecided /\ \A i \in Pending : Last(steps').verdict[i] =
                          IF i \in absent \cup bad THEN "failed" ELSE "success"
    BY <1>1, ToolsDecide
  <2>2. \A i \in Pending : word[i] = IF i \in absent \cup bad THEN "failed" ELSE "success"
    BY DEF Dispatchable
  <2> HIDE DEF word
  <2> QED
    BY <2>1, <2>2, <1>1, DecidedCalls
<1> HIDE DEF word
<1>5. PICK o, b, M : Shape(msgs, o, b, M) /\ WaitsAt(o, b, M)
  BY DEF ReqInv, TalkIsShaped
<1>6. M = Pending /\ (o # 0 => b = Len(msgs)) /\ \A i \in Pending : VerdictOf(i) = "pending"
  BY <1>2, <1>5 DEF WaitsAt
<1>7. R \in Seq(Said(Used)) /\ Len(R) = Cardinality(Pending) /\ Cardinality(Pending) \in Nat
  <2>1. \A i \in Pending : word[i] \in Verdicts
    BY <1>4 DEF Verdicts
  <2> QED
    BY <2>1, <1>1, <1>4, RepliesAreSaid, FS_CardinalityType
<1>8. AnswersAll(R, Pending)
  BY <1>1, <1>7, RepliesAnswer
<1>9. \A k \in 1..Cardinality(Pending) : \E i \in Pending : R[k] = Reply(i, word[i])
  BY <1>1, ReplyIs
<1>10. Placed(msgs) /\ Placed(msgs') /\ Len(msgs) \in Nat /\ DOMAIN msgs = 1..Len(msgs)
       /\ DOMAIN msgs' = 1..Len(msgs')
  BY <1>1, <1>4, SaidIsPlaced DEF Placed
<1>11. R = <<>> => msgs' = msgs
  BY <1>1, <1>3
<1>12. Pending = {} => R = <<>>
  BY NoReplies
<1> HIDE DEF R
<1>13. /\ Len(msgs') = Len(msgs) + Len(R)
       /\ \A k \in 1..Len(msgs) + Len(R) :
            msgs'[k] = IF k <= Len(msgs) THEN msgs[k] ELSE R[k - Len(msgs)]
  BY <1>1, <1>3, <1>7, ConcatProperties, Zenon
<1>14. Shape(msgs', 0, 0, {})
  <2>1. CASE o = 0
    <3>1. ~OpenAt(msgs, o, b, M)
      BY <2>1, <1>10, CallsArePlaced DEF OpenAt
    <3>2. M = {} /\ b = 0
      BY <3>1, <1>5 DEF Shape
    <3> QED
      BY <2>1, <3>2, <1>5, <1>6, <1>11, <1>12
  <2>2. CASE o # 0
    <3>1. Filled(msgs', msgs, Len(msgs), b, R)
      <4>1. b = Len(msgs) /\ ~(Len(msgs) < b) /\ Len(R) \in Nat
        BY <2>2, <1>6, <1>7, <1>10
      <4>2. Len(msgs') = IF Len(msgs) < b THEN Len(msgs) ELSE Len(msgs) + Len(R)
        BY <4>1, <1>13
      <4>3. \A k \in 1..Len(msgs) + Len(R) : k <= b + Len(R)
        BY <4>1, <1>10
      <4> QED
        BY <4>1, <4>2, <4>3, <1>13 DEF Filled
    <3>2. Paired(msgs')
      BY <2>2, <3>1, <1>5, <1>6, <1>7, <1>8, <1>10, FilledIsPaired
    <3> QED
      BY <3>2, <1>10, PairedHasShape
  <2> QED
    BY <2>1, <2>2
<1>15. WaitsAt(0, 0, {})'
  BY <1>2 DEF WaitsAt
<1>16. RepliesTell'
  <2> SUFFICES ASSUME NEW k \in DOMAIN msgs', IsReply(msgs'[k]), NEW i \in msgs'[k].ids
               PROVE  msgs'[k].word = VerdictOf(i)' /\ msgs'[k].word \in Terminal
    BY DEF RepliesTell
  <2>1. k \in 1..Len(msgs) + Len(R) /\ Len(R) \in Nat
    BY <1>7, <1>10, <1>13
  <2>2. CASE k \in 1..Len(msgs)
    <3>1. msgs'[k] = msgs[k] /\ k \in DOMAIN msgs
      <4>1. k <= Len(msgs)
        BY <2>2, <1>10
      <4> QED
        BY <4>1, <2>1, <2>2, <1>10, <1>13
    <3>2. msgs[k].word = VerdictOf(i) /\ msgs[k].word \in Terminal
      BY <3>1 DEF ReqInv, RepliesTell
    <3>3. i \in Used
      BY <2>2, <3>1, <1>1, SaidIs DEF IsReply
    <3>4. i \notin Pending
      BY <3>2, <1>6 DEF Terminal
    <3> QED
      BY <3>1, <3>2, <3>3, <3>4, <1>4
  <2>3. CASE k \notin 1..Len(msgs)
    <3>1. k - Len(msgs) \in 1..Cardinality(Pending) /\ ~(k <= Len(msgs))
      BY <2>1, <2>3, <1>7, <1>10
    <3>2. msgs'[k] = R[k - Len(msgs)]
      BY <3>1, <2>1, <1>13
    <3>3. PICK x \in Pending : msgs'[k] = Reply(x, word[x])
      BY <3>1, <3>2, <1>9
    <3>4. i = x /\ msgs'[k].word = word[x]
      BY <3>3 DEF Reply
    <3> QED
      BY <3>4, <1>4 DEF Terminal, Verdicts
  <2> QED
    BY <2>2, <2>3
<1> QED
  BY <1>14, <1>15, <1>16 DEF ReqInv, TalkIsShaped

LEMMA ReqNext == ~MayReuse /\ ReqInv /\ [Next]_vars => ReqInv'
<1> SUFFICES ASSUME ~MayReuse, ReqInv, [Next]_vars PROVE ReqInv'
  OBVIOUS
<1>1. TalkInv' /\ LoopInv
  BY TalkNext DEF ReqInv, TalkInv
<1>2. ASSUME UNCHANGED steps PROVE SameVerdicts
  BY <1>2 DEF SameVerdicts
<1>3. CASE StoppedAt("agent") \/ StoppedAt("tool") \/ NodeRaises \/ Stop \/ UNCHANGED vars
  <2>1. UNCHANGED <<msgs, steps>>
    BY <1>3 DEF StoppedAt, NodeRaises, Stop, vars
  <2>2. node' = "tool" => node = "tool"
    BY <1>3 DEF StoppedAt, NodeRaises, Stop, vars
  <2> QED
    BY <2>1, <2>2, <1>1, <1>2, QuietKeeps
<1>4. CASE Finish
  <2>1. SameVerdicts
    BY <1>1, <1>4, FinishSame
  <2>2. msgs' = msgs /\ node' # "tool"
    BY <1>4 DEF Finish
  <2> QED
    BY <2>1, <2>2, <1>1, QuietKeeps
<1>5. CASE Crash
  <2>1. SameVerdicts
    BY <1>1, <1>5, CrashSame
  <2>2. msgs' = msgs /\ node' # "tool"
    BY <1>5 DEF Crash
  <2> QED
    BY <2>1, <2>2, <1>1, QuietKeeps
<1>6. CASE Continue \/ Resume
  <2>1. /\ UNCHANGED steps /\ node' # "tool"
        /\ msgs' = msgs \/ msgs' = Append(msgs, Text("user"))
    BY <1>6 DEF Continue, Resume, Invoke, Entry
  <2> QED
    BY <2>1, <1>1, <1>2, QuietKeeps
<1>7. ASSUME NEW S \in IdChoices, NEW blocked \in SUBSET S, Asks(S, blocked) PROVE ReqInv'
  BY <1>1, <1>7, AsksKeeps
<1>8. CASE Answers \/ ModelFails
  BY <1>1, <1>8, EndsKeep
<1>9. ASSUME NEW absent, NEW bad, RunsTools(absent, bad) PROVE ReqInv'
  BY <1>1, <1>9, ToolsAnswer
<1> QED
  BY <1>3, <1>4, <1>5, <1>6, <1>7, <1>8, <1>9 DEF Next

\* With a provider whose ids are its calls' own, every request is one the protocol
\* accepts -- each call followed by its replies, no reply without its call -- and every
\* reply says what the record of its call says: through refusals, stops in any node,
\* crashes, resumes, sweeps and compressions, in any order and number.
THEOREM RequestsStaySound == ~MayReuse => (Spec => []RequestsAreSound)
<1> SUFFICES ASSUME ~MayReuse PROVE Spec => []RequestsAreSound
  OBVIOUS
<1>1. Init => ReqInv
  BY ReqInit
<1>2. ReqInv /\ [Next]_vars => ReqInv'
  BY ReqNext
<1>3. ReqInv => RequestsAreSound
  BY ReqInvIsSound
<1> QED
  BY <1>1, <1>2, <1>3, PTL DEF Spec
=============================================================================
