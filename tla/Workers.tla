------------------------------- MODULE Workers --------------------------------
(***************************************************************************)
(* Sub-agents (backend/core/agent/subagent.py): tasks whose rounds spawn   *)
(* sub-tasks on one bounded pool of threads and wait for them, and what    *)
(* becomes of a sub-task whose time is over while its thread runs on.  A   *)
(* round waits for one sub-task at a time; a round is pinned to the model  *)
(* its task had when it began (backend/services/task_manager.py 760-770).  *)
(* The next round may begin as soon as the worker of the last one is no    *)
(* longer registered, before it has popped the task's flag and pin.        *)
(***************************************************************************)
EXTENDS Naturals, FiniteSets

CONSTANTS
  Parents,     \* tasks
  Slots,       \* subagent_max_concurrency
  MaxSubs,     \* bound: sub-tasks
  MaxSteps,    \* nodes a sub-task's graph enters
  MaxSwitches  \* bound: switches of a task's model

Assumption ==
  {Slots, MaxSubs, MaxSteps, MaxSwitches} \subseteq Nat /\ Slots > 0 /\ Parents # {}

VARIABLES
  ppc,      \* the worker of each task's round
  cur,      \* the sub-task it waits for, or the last one
  chosen,   \* Task.model, as the number of switches
  own,      \* the model of its runtime: what was chosen when it began, plus 1
  pin,      \* _round_models: the same, or 0
  left,     \* the pops that workers of earlier rounds have yet to make
  st,       \* each sub-task's future and thread
  of,       \* its parent
  due,      \* the pin of the round that spawned it
  with,     \* the model it works with, or 0
  steps,    \* nodes it has entered
  pflag,    \* _stop_flags of tasks
  sflag,    \* _stop_flags of sub-tasks
  hooked,   \* sub-tasks whose future has the callback that pops the flag
  told,     \* terminal events published for it
  robbed    \* history: rounds whose pin a worker of an earlier round has popped

rounds == <<ppc, cur, chosen, own, pin, left, robbed>>
threads == <<st, of, due, with, steps>>
flags == <<pflag, sflag, hooked, told>>
vars == <<rounds, threads, flags>>

Subs == 1..MaxSubs
Somebody == CHOOSE p \in Parents : TRUE

Init ==
  /\ ppc = [p \in Parents |-> "idle"] /\ cur = [p \in Parents |-> 0]
  /\ chosen = [p \in Parents |-> 0] /\ own = [p \in Parents |-> 0]
  /\ pin = [p \in Parents |-> 0] /\ left = [p \in Parents |-> {}] /\ robbed = {}
  /\ st = [s \in Subs |-> "none"] /\ of = [s \in Subs |-> Somebody]
  /\ due = [s \in Subs |-> 0] /\ with = [s \in Subs |-> 0] /\ steps = [s \in Subs |-> 0]
  /\ pflag = {} /\ sflag = {} /\ hooked = {} /\ told = [s \in Subs |-> 0]

Finished(s) == st[s] \in {"landed", "done"}
Spawned == {s \in Subs : st[s] # "none"}
Running == {s \in Subs : st[s] \in {"starting", "node", "busy", "landed"}}

Goes(p, from, to) == ppc[p] = from /\ ppc' = [ppc EXCEPT ![p] = to]
Comes(s, from, to) == st[s] = from /\ st' = [st EXCEPT ![s] = to]

-----------------------------------------------------------------------------
(* The round of a task                                                     *)

Begin(p) ==
  /\ Goes(p, "idle", "run")
  /\ own' = [own EXCEPT ![p] = chosen[p] + 1] /\ pin' = [pin EXCEPT ![p] = chosen[p] + 1]
  /\ robbed' = robbed \ {p}
  /\ UNCHANGED <<cur, chosen, left, threads, flags>>

\* run_subtask: the start is announced and the work handed to the pool.
Spawn(p) ==
  /\ Goes(p, "run", "wait")
  /\ \E s \in Subs :
       /\ s = 1 + Cardinality(Spawned)
       /\ st' = [st EXCEPT ![s] = "queued"] /\ of' = [of EXCEPT ![s] = p]
       /\ due' = [due EXCEPT ![s] = own[p]] /\ cur' = [cur EXCEPT ![p] = s]
  /\ UNCHANGED <<chosen, own, pin, left, robbed, with, steps, flags>>

Answered(p) ==
  /\ Goes(p, "wait", "tell") /\ Finished(cur[p])
  /\ UNCHANGED <<cur, chosen, own, pin, left, robbed, threads, flags>>

TimeOut(p) ==
  /\ Goes(p, "wait", "cancel") /\ ~Finished(cur[p])
  /\ UNCHANGED <<cur, chosen, own, pin, left, robbed, threads, flags>>

\* future.cancel() takes back what no thread has begun; what has begun is flagged.
Cancel(p) ==
  /\ \/ /\ Goes(p, "cancel", "tell") /\ Comes(cur[p], "queued", "cancelled")
        /\ UNCHANGED sflag
     \/ /\ Goes(p, "cancel", "hook") /\ st[cur[p]] # "queued"
        /\ sflag' = sflag \cup {cur[p]} /\ UNCHANGED st
  /\ UNCHANGED <<cur, chosen, own, pin, left, robbed, of, due, with, steps, pflag, hooked, told>>

\* (mutant) the callback is kept for a future that has finished.
HookKept(p) ==
  /\ Goes(p, "hook", "tell") /\ hooked' = hooked \cup {cur[p]}
  /\ UNCHANGED <<cur, chosen, own, pin, left, robbed, threads, pflag, sflag, told>>

\* add_done_callback: a finished future calls back at once.
Hook(p) ==
  /\ Goes(p, "hook", "tell")
  /\ IF Finished(cur[p]) THEN sflag' = sflag \ {cur[p]} /\ UNCHANGED hooked
                         ELSE hooked' = hooked \cup {cur[p]} /\ UNCHANGED sflag
  /\ UNCHANGED <<cur, chosen, own, pin, left, robbed, threads, pflag, told>>

\* The terminal event, by the round's own thread.
Tell(p) ==
  /\ Goes(p, "tell", "run") /\ told' = [told EXCEPT ![cur[p]] = @ + 1]
  /\ UNCHANGED <<cur, chosen, own, pin, left, robbed, threads, pflag, sflag, hooked>>

\* run's finally: the registration, then the stop flag, then the pin; of several workers
\* at the same pop, some may be left when one has made it.
Teardown(p) ==
  /\ Goes(p, "run", "idle") /\ left' = [left EXCEPT ![p] = @ \cup {"flag"}]
  /\ UNCHANGED <<cur, chosen, own, pin, robbed, threads, flags>>

Unflag(p) ==
  /\ "flag" \in left[p] /\ pflag' = pflag \ {p}
  /\ \E others \in SUBSET {"flag"} : left' = [left EXCEPT ![p] = (@ \ {"flag"}) \cup others \cup {"pin"}]
  /\ UNCHANGED <<ppc, cur, chosen, own, pin, robbed, threads, sflag, hooked, told>>

Unpin(p) ==
  /\ "pin" \in left[p] /\ pin' = [pin EXCEPT ![p] = 0]
  /\ \E others \in SUBSET {"pin"} : left' = [left EXCEPT ![p] = (@ \ {"pin"}) \cup others]
  /\ robbed' = IF ppc[p] = "idle" THEN robbed ELSE robbed \cup {p}
  /\ UNCHANGED <<ppc, cur, chosen, own, threads, flags>>

-----------------------------------------------------------------------------
(* Requests                                                                *)

Stop(p) ==
  /\ ppc[p] # "idle" /\ pflag' = pflag \cup {p}
  /\ UNCHANGED <<rounds, threads, sflag, hooked, told>>

Switch(p) ==
  /\ chosen[p] < MaxSwitches /\ chosen' = [chosen EXCEPT ![p] = @ + 1]
  /\ UNCHANGED <<ppc, cur, own, pin, left, robbed, threads, flags>>

-----------------------------------------------------------------------------
(* The pool                                                                *)

\* The oldest sub-task that waits gets the thread that is free.
Take(s) ==
  /\ Cardinality(Running) < Slots
  /\ \A x \in Subs : st[x] = "queued" => x >= s
  /\ Comes(s, "queued", "starting")
  /\ UNCHANGED <<rounds, of, due, with, steps, flags>>

\* (mutant) the task's record is read instead of the round's pin.
PickChosen(s) ==
  /\ Comes(s, "starting", "node") /\ with' = [with EXCEPT ![s] = chosen[of[s]] + 1]
  /\ UNCHANGED <<rounds, of, due, steps, flags>>

\* round_llm_for(parent), else the task's record.
Pick(s) ==
  /\ Comes(s, "starting", "node")
  /\ with' = [with EXCEPT ![s] = IF pin[of[s]] # 0 THEN pin[of[s]] ELSE chosen[of[s]] + 1]
  /\ UNCHANGED <<rounds, of, due, steps, flags>>

\* (mutant) a node looks at its parent's flag only.
StoppedByParent(s) == of[s] \in pflag

\* A node looks at the sub-task's flag and at its parent's.
Stopped(s) == s \in sflag \/ of[s] \in pflag

Enter(s) ==
  /\ ~Stopped(s) /\ steps[s] < MaxSteps /\ Comes(s, "node", "busy")
  /\ steps' = [steps EXCEPT ![s] = @ + 1]
  /\ UNCHANGED <<rounds, of, due, with, flags>>

Leave(s) ==
  /\ Stopped(s) \/ steps[s] = MaxSteps
  /\ Comes(s, "node", "landed")
  /\ UNCHANGED <<rounds, of, due, with, steps, flags>>

\* A model call or a batch of tools ends, with or without the answer.
Work(s) ==
  /\ Comes(s, "busy", "node") \/ Comes(s, "busy", "landed")
  /\ UNCHANGED <<rounds, of, due, with, steps, flags>>

\* The future has its result; its thread calls back and is free.
Free(s) ==
  /\ Comes(s, "landed", "done")
  /\ sflag' = IF s \in hooked THEN sflag \ {s} ELSE sflag
  /\ UNCHANGED <<rounds, of, due, with, steps, pflag, hooked, told>>

-----------------------------------------------------------------------------
Thread(s) == Take(s) \/ Pick(s) \/ Enter(s) \/ Leave(s) \/ Work(s) \/ Free(s)

Waiting(p) == Answered(p) \/ TimeOut(p) \/ Cancel(p) \/ Hook(p) \/ Tell(p)

Next ==
  \/ \E p \in Parents : Begin(p) \/ Spawn(p) \/ Teardown(p) \/ Unflag(p) \/ Unpin(p)
                       \/ Stop(p) \/ Switch(p)
  \/ \E p \in Parents : Waiting(p)
  \/ \E s \in Subs : Thread(s)

\* A node ends, the pool's threads go on, a wait is over at its timeout.
Fairness ==
  /\ \A s \in Subs : WF_vars(Thread(s))
  /\ \A p \in Parents : WF_vars(Waiting(p))

Spec == Init /\ [][Next]_vars /\ Fairness
-----------------------------------------------------------------------------
(* What must hold                                                          *)

\* Every variable keeps its type.
TypeOK ==
  /\ ppc \in [Parents -> {"idle", "run", "wait", "cancel", "hook", "tell"}]
  /\ cur \in [Parents -> 0..MaxSubs] /\ chosen \in [Parents -> 0..MaxSwitches]
  /\ own \in [Parents -> 0..(MaxSwitches + 1)] /\ pin \in [Parents -> 0..(MaxSwitches + 1)]
  /\ left \in [Parents -> SUBSET {"flag", "pin"}] /\ robbed \subseteq Parents
  /\ st \in [Subs -> {"none", "queued", "starting", "node", "busy", "landed", "done", "cancelled"}]
  /\ of \in [Subs -> Parents] /\ due \in [Subs -> 0..(MaxSwitches + 1)]
  /\ with \in [Subs -> 0..(MaxSwitches + 1)] /\ steps \in [Subs -> 0..MaxSteps]
  /\ pflag \subseteq Parents /\ sflag \subseteq Subs /\ hooked \subseteq Subs
  /\ told \in [Subs -> 0..1]

\* The flag of a sub-task goes with its thread, whether the timeout or the result comes
\* first: no key is left for the rest of the process (subagent.py 294-300).
FlagsDrain ==
  \A s \in sflag :
    \/ s \in Running /\ (s \in hooked \/ \E p \in Parents : cur[p] = s /\ ppc[p] = "hook")
    \/ \E p \in Parents : cur[p] = s /\ ppc[p] = "hook"

\* A switch made while the round runs does not reach the sub-task it waits for
\* (subagent.py 362-363), unless a worker of an earlier round, whose pops come late, has
\* taken this round's pin away.
RoundsModel ==
  \A p \in Parents :
    ppc[p] = "wait" /\ with[cur[p]] # 0 => with[cur[p]] = due[cur[p]] \/ p \in robbed

\* ... nor any other sub-task of that round, whoever pops what.
NoModelLeaks == \A s \in Subs : with[s] # 0 => with[s] = due[s]

\* Once its end is told, by a timeout or otherwise, a sub-task enters no node any more,
\* whatever becomes of its parent's round and flag (subagent.py 290-292).
FoldedIsQuiet == [][\A s \in Subs : told[s] > 0 => steps'[s] = steps[s]]_steps

\* A wait ends, although every thread may be busy with what nobody waits for.
WaitEnds == \A p \in Parents : ppc[p] = "wait" ~> ppc[p] = "run"

\* The slot of a sub-task comes back.
SlotsComeBack == \A s \in Subs : s \in Running ~> s \notin Running
=============================================================================
