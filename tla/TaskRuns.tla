------------------------------ MODULE TaskRuns ------------------------------
(***************************************************************************)
(* The life of ONE task inside TaskManager (backend/services/              *)
(* task_manager.py): request threads create, stop, resume, continue and    *)
(* delete it while worker threads run its rounds.  A request or a worker   *)
(* is a process whose steps are the reads and writes of shared state, in   *)
(* the order of the source; what runs under self._lock holds `lock' from   *)
(* its first step to its last.                                             *)
(*                                                                         *)
(* The record is a live object: load_task hands out the object itself, so  *)
(* `status' is the object's field, `record' says whether Persistence still *)
(* lists the object, and `disk' is what tasks.json holds.                  *)
(***************************************************************************)
EXTENDS Naturals, FiniteSets

CONSTANTS
  Clients,      \* request threads (one HTTP call each, reused)
  Workers,      \* worker threads that may exist at the same time
  None,         \* no thread / no holder
  Ops,          \* the operations the clients call
  CountEvents,  \* keep the history of published events (parks, fails)?
  SaveMayFail,  \* may Persistence._dump leave the disk untouched?
  MayRestart    \* may the process die and come back?

AllOps == {"create", "stop", "resume", "continue", "delete"}

ASSUME ConstantsAssumption ==
  /\ Clients \cap Workers = {}
  /\ None \notin Clients \cup Workers
  /\ Ops \subseteq AllOps
  /\ CountEvents \in BOOLEAN
  /\ SaveMayFail \in BOOLEAN
  /\ MayRestart \in BOOLEAN

VARIABLES
  record,    \* "absent" (never created), "stored" or "deleted" in Persistence._tasks
  status,    \* task.status of the live object
  disk,      \* the status tasks.json holds, or "none"
  ckpt,      \* "some" when the checkpointer holds a snapshot of the thread_id
  lock,      \* holder of self._lock
  thread,    \* self._threads[id]
  maps,      \* which of the other per-task maps (MapNames) hold the id
  cpc,       \* program counter of each client
  op,        \* the call a client is serving
  saw,       \* the clients whose local is true: stop's `live', a continuation's
             \* `has_checkpoint'
  prev,      \* _mutate_task's snapshot of the status, per process
  mine,      \* the thread object a client has created
  wpc,       \* program counter of each worker
  kind,      \* "run" (first round) or "cont" (_resume_run / _continue_run)
  outcome,   \* final["status"] of the graph a worker has run
  parks,     \* history: task_interrupted events since the round was opened (0..2)
  fails      \* history: task_failed events since the round was opened (0..2)

recordVars == <<record, status, disk, ckpt>>
mapVars    == <<thread, maps>>
clientVars == <<cpc, op, saw, mine>>
workerVars == <<wpc, kind, outcome>>
events     == <<parks, fails>>
vars == <<recordVars, lock, mapVars, clientVars, prev, workerVars, events>>

Procs    == Clients \cup Workers
Statuses == {"PENDING", "RUNNING", "INTERRUPTED", "FAILED"}
Live     == {"PENDING", "RUNNING"}
Parked   == {"INTERRUPTED", "FAILED"}

\* self._active_states, _stop_flags, _round_models, _interrupt_announced and the
\* open files of the TraceRecorder.
MapNames == {"state", "stop", "model", "announced", "trace"}

ClientPCs ==
  {"idle", "s_peek", "s_flag", "s_apply", "s_save", "s_claim", "s_tell",
   "k_claim", "k_apply", "k_save", "k_tell", "k_make", "k_start",
   "d_clean", "d_pop"}

\* From Thread(...) to the end of the worker's finally block.
WorkerPCs ==
  {"idle", "made", "begin", "mark", "mark_save", "setup", "loop", "end",
   "assign", "claim", "tell", "settle", "fail", "fail_save", "fail_tell",
   "pop_state", "pop_thread", "pop_flag", "pop_model", "pop_announced",
   "close_trace"}

\* (mutant) self._threads is not consulted.
NeverAlive(t) == FALSE

Alive(t) == t # None /\ wpc[t] \notin {"idle", "made"}

Bump(n) == IF CountEvents /\ n < 2 THEN n + 1 ELSE n

\* A client's next step; its locals go out of scope when the call returns.
Goto(c, l) ==
  /\ cpc' = [cpc EXCEPT ![c] = l]
  /\ IF l = "idle"
       THEN op' = [op EXCEPT ![c] = "none"] /\ saw' = saw \ {c}
       ELSE UNCHANGED <<op, saw>>

\* The first step of call o, which leaves b in the local.
Enter(c, o, b, l) ==
  /\ cpc' = [cpc EXCEPT ![c] = l]
  /\ op' = [op EXCEPT ![c] = o]
  /\ saw' = IF b THEN saw \cup {c} ELSE saw \ {c}

Put(m) == maps' = maps \cup {m}
Pop(m) == maps' = maps \ {m}

Step(w, l) ==
  /\ wpc' = [wpc EXCEPT ![w] = l]
  /\ IF l = "idle"
       THEN /\ kind' = [kind EXCEPT ![w] = "run"]
            /\ outcome' = [outcome EXCEPT ![w] = "INTERRUPTED"]
       ELSE UNCHANGED <<kind, outcome>>

Init ==
  /\ record = "absent" /\ status = "PENDING" /\ disk = "none" /\ ckpt = "none"
  /\ lock = None
  /\ thread = None /\ maps = {}
  /\ cpc = [c \in Clients |-> "idle"]
  /\ op = [c \in Clients |-> "none"]
  /\ saw = {}
  /\ mine = [c \in Clients |-> None]
  /\ prev = [p \in Procs |-> "none"]
  /\ wpc = [w \in Workers |-> "idle"]
  /\ kind = [w \in Workers |-> "run"]
  /\ outcome = [w \in Workers |-> "INTERRUPTED"]
  /\ parks = 0 /\ fails = 0

-----------------------------------------------------------------------------
(* The two halves of _mutate_task: snapshot and assign, then save.         *)

\* (mutant) the snapshot is forgotten.
ApplyBlindly(p, s) ==
  /\ status' = s
  /\ UNCHANGED <<record, disk, ckpt, prev>>

Apply(p, s) ==
  /\ prev' = [prev EXCEPT ![p] = status]
  /\ status' = s
  /\ UNCHANGED <<record, disk, ckpt>>

\* Persistence.save_task puts the object back in its table before dumping.
SaveOk(p) ==
  /\ record' = "stored"
  /\ disk' = status
  /\ prev' = [prev EXCEPT ![p] = "none"]
  /\ UNCHANGED <<status, ckpt>>

\* A failed dump leaves table and disk alone; _mutate_task restores the field.
SaveFails(p) ==
  /\ SaveMayFail
  /\ status' = prev[p]
  /\ prev' = [prev EXCEPT ![p] = "none"]
  /\ UNCHANGED <<record, disk, ckpt>>

-----------------------------------------------------------------------------
(* create_task *)

\* The PENDING record is saved strictly (a failed dump aborts the call and
\* leaves nothing), the trace is attached leniently, task_created published.
CreateSave(c) ==
  /\ "create" \in Ops
  /\ cpc[c] = "idle" /\ record = "absent"
  /\ record' = "stored" /\ status' = "PENDING" /\ disk' = "PENDING"
  /\ maps' \in {{}, {"trace"}}
  /\ Enter(c, "create", FALSE, "k_make")
  /\ UNCHANGED <<ckpt, lock, thread, mine, prev, workerVars, events>>

\* threading.Thread(...) and self._threads[id] = t: outside the lock, and the
\* thread is not alive yet.
MakeThread(c) ==
  /\ cpc[c] = "k_make"
  /\ \E w \in Workers :
       /\ wpc[w] = "idle" /\ thread # w
       /\ thread' = w
       /\ mine' = [mine EXCEPT ![c] = w]
       /\ wpc' = [wpc EXCEPT ![w] = "made"]
       /\ kind' = [kind EXCEPT ![w] = IF op[c] = "create" THEN "run" ELSE "cont"]
  /\ Goto(c, "k_start")
  /\ UNCHANGED <<recordVars, lock, maps, prev, outcome, events>>

StartThread(c) ==
  /\ cpc[c] = "k_start"
  /\ Step(mine[c], "begin")
  /\ mine' = [mine EXCEPT ![c] = None]
  /\ Goto(c, "idle")
  /\ UNCHANGED <<recordVars, lock, mapVars, prev, events>>

-----------------------------------------------------------------------------
(* stop: no step of it holds the manager lock but the claim *)

StopLoad(c) ==
  /\ "stop" \in Ops
  /\ cpc[c] = "idle" /\ record # "absent"
  /\ Enter(c, "stop", record = "stored" /\ status \in Live, "s_peek")
  /\ UNCHANGED <<recordVars, lock, mapVars, mine, prev, workerVars, events>>

\* st = self._active_states.get(task_id); neither live nor active: return.
StopPeek(c) ==
  /\ cpc[c] = "s_peek"
  /\ Goto(c, IF "state" \in maps \/ c \in saw THEN "s_flag" ELSE "idle")
  /\ UNCHANGED <<recordVars, lock, mapVars, mine, prev, workerVars, events>>

StopFlag(c) ==
  /\ cpc[c] = "s_flag"
  /\ Put("stop")
  /\ Goto(c, IF c \in saw THEN "s_apply" ELSE "idle")
  /\ UNCHANGED <<recordVars, lock, thread, mine, prev, workerVars, events>>

StopApply(c) ==
  /\ cpc[c] = "s_apply"
  /\ Apply(c, "INTERRUPTED")
  /\ Goto(c, "s_save")
  /\ UNCHANGED <<lock, mapVars, mine, workerVars, events>>

StopSave(c) ==
  /\ cpc[c] = "s_save"
  /\ \/ SaveOk(c) /\ Goto(c, "s_claim")
     \/ SaveFails(c) /\ Goto(c, "idle")
  /\ UNCHANGED <<lock, mapVars, mine, workerVars, events>>

\* (mutant) the early return leaves the lock taken.
StopClaimKeepsLock(c) ==
  /\ cpc[c] = "s_claim" /\ lock = None
  /\ Put("announced")
  /\ IF "announced" \in maps
       THEN lock' = c /\ Goto(c, "idle")
       ELSE UNCHANGED lock /\ Goto(c, "s_tell")
  /\ UNCHANGED <<recordVars, thread, mine, prev, workerVars, events>>

\* _claim_interrupt, under the lock for its whole body.
StopClaim(c) ==
  /\ cpc[c] = "s_claim" /\ lock = None
  /\ Put("announced")
  /\ Goto(c, IF "announced" \in maps THEN "idle" ELSE "s_tell")
  /\ UNCHANGED <<recordVars, lock, thread, mine, prev, workerVars, events>>

StopTell(c) ==
  /\ cpc[c] = "s_tell"
  /\ parks' = Bump(parks)
  /\ Goto(c, "idle")
  /\ UNCHANGED <<recordVars, lock, mapVars, mine, prev, workerVars, fails>>

-----------------------------------------------------------------------------
(* resume and _continue *)

\* (mutant) the probe is taken for granted.
AnyCheckpoint == TRUE

HasCheckpoint == ckpt = "some"

\* The bounded join on a registered thread only delays the probe (or ends the
\* call); whether a thread is alive is asked again under the lock.
ContProbe(c) ==
  /\ cpc[c] = "idle" /\ record # "absent"
  /\ \E o \in Ops \cap {"resume", "continue"} : Enter(c, o, HasCheckpoint, "k_claim")
  /\ UNCHANGED <<recordVars, lock, mapVars, mine, prev, workerVars, events>>

Admits(o) == IF o = "continue" THEN Parked ELSE {"INTERRUPTED"}

\* (mutant) a status read before the lock decides.
AdmissibleUnlisted(c) == status \in Admits(op[c])

Admissible(c) == record = "stored" /\ status \in Admits(op[c])

\* Check and, still holding the lock, attach the trace before the flip.
ContClaim(c) ==
  /\ cpc[c] = "k_claim" /\ lock = None
  /\ Admissible(c) /\ ~Alive(thread)
  /\ c \in saw
  /\ lock' = c
  /\ Put("trace")
  /\ Goto(c, "k_apply")
  /\ UNCHANGED <<recordVars, thread, mine, prev, workerVars, events>>

\* A check that fails, a missing workspace, an unreadable plan file or a trace
\* file that cannot be opened: a 409 that changes nothing.
ContRefuse(c) ==
  /\ cpc[c] = "k_claim" /\ lock = None
  /\ Goto(c, "idle")
  /\ UNCHANGED <<recordVars, lock, mapVars, mine, prev, workerVars, events>>

ContApply(c) ==
  /\ cpc[c] = "k_apply"
  /\ Apply(c, "RUNNING")
  /\ Goto(c, "k_save")
  /\ UNCHANGED <<lock, mapVars, mine, workerVars, events>>

ContSave(c) ==
  /\ cpc[c] = "k_save"
  /\ \/ /\ SaveOk(c)
        /\ Goto(c, "k_tell")
        /\ UNCHANGED <<lock, maps>>
     \/ /\ SaveFails(c)
        /\ Pop("trace")
        /\ lock' = None
        /\ Goto(c, "idle")
  /\ UNCHANGED <<thread, mine, workerVars, events>>

\* task_resumed opens a round; the lock is released before the thread exists.
ContTell(c) ==
  /\ cpc[c] = "k_tell"
  /\ parks' = 0 /\ fails' = 0
  /\ lock' = None
  /\ Goto(c, "k_make")
  /\ UNCHANGED <<recordVars, mapVars, mine, prev, workerVars>>

-----------------------------------------------------------------------------
(* delete_task, and delete_workspace_tasks for this task *)

DeleteRecord(c) ==
  /\ "delete" \in Ops
  /\ cpc[c] = "idle" /\ lock = None
  /\ record = "stored"
  /\ status \notin Live /\ ~Alive(thread)
  /\ record' = "deleted" /\ disk' = "none"
  /\ Enter(c, "delete", FALSE, "d_clean")
  /\ UNCHANGED <<status, ckpt, lock, mapVars, mine, prev, workerVars, events>>

\* The checkpoint removal is best effort; the trace is closed; the bus forgets.
DeleteArtifacts(c) ==
  /\ cpc[c] = "d_clean"
  /\ ckpt' \in {"none", ckpt}
  /\ Pop("trace")
  /\ parks' = 0 /\ fails' = 0
  /\ Goto(c, "d_pop")
  /\ UNCHANGED <<record, status, disk, lock, thread, mine, prev, workerVars>>

DeletePop(c) ==
  /\ cpc[c] = "d_pop" /\ lock = None
  /\ maps' = maps \cap {"trace"} /\ thread' = None
  /\ Goto(c, "idle")
  /\ UNCHANGED <<recordVars, lock, mine, prev, workerVars, events>>

-----------------------------------------------------------------------------
(* The worker: run, _resume_run and _continue_run *)

\* run of an unknown task returns at once and pops nothing; a continuation that
\* finds its flip undone (or its record gone) goes straight to its finally.
WorkerLoad(w) ==
  /\ wpc[w] = "begin"
  /\ IF kind[w] = "run"
       THEN Step(w, IF record = "stored" THEN "mark" ELSE "idle")
       ELSE Step(w, IF record = "stored" /\ status = "RUNNING"
                      THEN "setup" ELSE "pop_state")
  /\ UNCHANGED <<recordVars, lock, mapVars, clientVars, prev, events>>

RunMark(w) ==
  /\ wpc[w] = "mark"
  /\ Apply(w, "RUNNING")
  /\ Step(w, "mark_save")
  /\ UNCHANGED <<lock, mapVars, clientVars, events>>

RunMarkSave(w) ==
  /\ wpc[w] = "mark_save"
  /\ SaveOk(w) \/ SaveFails(w)
  /\ Step(w, "setup")
  /\ UNCHANGED <<lock, mapVars, clientVars, events>>

\* Everything up to graph.invoke: register the state, pin the round's model.
\* A continuation reads the checkpoint first and raises when it is empty.
Setup(w) ==
  /\ wpc[w] = "setup"
  /\ kind[w] = "cont" => ckpt = "some"
  /\ maps' = maps \cup {"state", "model"}
  /\ Step(w, "loop")
  /\ UNCHANGED <<recordVars, lock, thread, clientVars, prev, events>>

\* (mutant) raised before the try: no except clause.
SetupEscapes(w) ==
  /\ wpc[w] = "setup"
  /\ Step(w, "pop_state")
  /\ UNCHANGED <<recordVars, lock, mapVars, clientVars, prev, events>>

\* No workspace, no key for the model, an empty checkpoint: run has registered
\* its state before it pins, a continuation pins before it registers.
SetupRaises(w) ==
  /\ wpc[w] = "setup"
  /\ \/ UNCHANGED maps
     \/ kind[w] = "run"  /\ Put("state")
     \/ kind[w] = "cont" /\ Put("model")
  /\ Step(w, "fail")
  /\ UNCHANGED <<recordVars, lock, thread, clientVars, prev, events>>

\* A superstep whose node saw no stop; durability "sync" writes its checkpoint.
Superstep(w) ==
  /\ wpc[w] = "loop" /\ "stop" \notin maps
  /\ ckpt' = "some"
  /\ UNCHANGED <<record, status, disk, lock, mapVars, clientVars, prev, workerVars, events>>

\* The graph reaches END: a finished round, a spent budget, a stop or an error.
GraphEnds(w) ==
  /\ wpc[w] = "loop"
  /\ ckpt' = "some"
  /\ \E s \in Parked : outcome' = [outcome EXCEPT ![w] = s]
  /\ wpc' = [wpc EXCEPT ![w] = "end"]
  /\ UNCHANGED <<record, status, disk, lock, mapVars, clientVars, prev, kind, events>>

GraphRaises(w) ==
  /\ wpc[w] = "loop"
  /\ ckpt' \in {ckpt, "some"}
  /\ Step(w, "fail")
  /\ UNCHANGED <<record, status, disk, lock, mapVars, clientVars, prev, events>>

\* task = load_task(id), `or task' in run; a continuation raises "vanished".
Reload(w) ==
  /\ wpc[w] = "end"
  /\ Step(w, IF kind[w] = "run" \/ record = "stored" THEN "assign" ELSE "fail")
  /\ UNCHANGED <<recordVars, lock, mapVars, clientVars, prev, events>>

\* _finalize_terminal: the status is the last field assigned ...
FinalAssign(w) ==
  /\ wpc[w] = "assign"
  /\ status' = outcome[w]
  /\ Step(w, IF outcome[w] = "FAILED" THEN "tell" ELSE "claim")
  /\ UNCHANGED <<record, disk, ckpt, lock, mapVars, clientVars, prev, events>>

\* (mutant) the claim is read the wrong way round.
FinalClaimNever(w) ==
  /\ wpc[w] = "claim" /\ lock = None
  /\ Put("announced")
  /\ Step(w, "settle")
  /\ UNCHANGED <<recordVars, lock, thread, clientVars, prev, events>>

\* ... then the interrupt is claimed, unless a stop has claimed it ...
FinalClaim(w) ==
  /\ wpc[w] = "claim" /\ lock = None
  /\ Put("announced")
  /\ Step(w, IF "announced" \in maps THEN "settle" ELSE "tell")
  /\ UNCHANGED <<recordVars, lock, thread, clientVars, prev, events>>

FinalTell(w) ==
  /\ wpc[w] = "tell"
  /\ IF outcome[w] = "FAILED"
       THEN fails' = Bump(fails) /\ UNCHANGED parks
       ELSE parks' = Bump(parks) /\ UNCHANGED fails
  /\ Step(w, "settle")
  /\ UNCHANGED <<recordVars, lock, mapVars, clientVars, prev>>

\* (mutant) the terminal save is left out.
FinalUnsaved(w) ==
  /\ wpc[w] = "settle"
  /\ Step(w, "pop_state")
  /\ UNCHANGED <<recordVars, prev, lock, mapVars, clientVars, events>>

\* ... and the record is saved last; a failed save keeps the fields.
FinalSave(w) ==
  /\ wpc[w] = "settle"
  /\ SaveOk(w) \/ (SaveMayFail /\ UNCHANGED <<recordVars, prev>>)
  /\ Step(w, "pop_state")
  /\ UNCHANGED <<lock, mapVars, clientVars, events>>

\* The except clause; a continuation skips the record when it is gone.
FailApply(w) ==
  /\ wpc[w] = "fail"
  /\ IF kind[w] = "run" \/ record = "stored"
       THEN Apply(w, "FAILED") /\ Step(w, "fail_save")
       ELSE Step(w, "fail_tell") /\ UNCHANGED <<recordVars, prev>>
  /\ UNCHANGED <<lock, mapVars, clientVars, events>>

FailSave(w) ==
  /\ wpc[w] = "fail_save"
  /\ SaveOk(w) \/ SaveFails(w)
  /\ Step(w, "fail_tell")
  /\ UNCHANGED <<lock, mapVars, clientVars, events>>

FailTell(w) ==
  /\ wpc[w] = "fail_tell"
  /\ fails' = Bump(fails)
  /\ Step(w, "pop_state")
  /\ UNCHANGED <<recordVars, lock, mapVars, clientVars, prev, parks>>

-----------------------------------------------------------------------------
(* The finally block, statement by statement.  It pops by task id: what it  *)
(* pops need not be its own.                                               *)

PopState(w) ==
  /\ wpc[w] = "pop_state"
  /\ Pop("state")
  /\ Step(w, "pop_thread")
  /\ UNCHANGED <<recordVars, lock, thread, clientVars, prev, events>>

PopThread(w) ==
  /\ wpc[w] = "pop_thread"
  /\ thread' = None
  /\ Step(w, "pop_flag")
  /\ UNCHANGED <<recordVars, lock, maps, clientVars, prev, events>>

PopFlag(w) ==
  /\ wpc[w] = "pop_flag"
  /\ Pop("stop")
  /\ Step(w, "pop_model")
  /\ UNCHANGED <<recordVars, lock, thread, clientVars, prev, events>>

\* (mutant) the round's model stays pinned.
PopModelForgotten(w) ==
  /\ wpc[w] = "pop_model"
  /\ Step(w, "pop_announced")
  /\ UNCHANGED <<recordVars, lock, mapVars, clientVars, prev, events>>

PopModel(w) ==
  /\ wpc[w] = "pop_model"
  /\ Pop("model")
  /\ Step(w, "pop_announced")
  /\ UNCHANGED <<recordVars, lock, thread, clientVars, prev, events>>

PopAnnounced(w) ==
  /\ wpc[w] = "pop_announced"
  /\ Pop("announced")
  /\ Step(w, "close_trace")
  /\ UNCHANGED <<recordVars, lock, thread, clientVars, prev, events>>

CloseTrace(w) ==
  /\ wpc[w] = "close_trace"
  /\ Pop("trace")
  /\ Step(w, "idle")
  /\ UNCHANGED <<recordVars, lock, thread, clientVars, prev, events>>

-----------------------------------------------------------------------------
(* The rest of the process *)

\* A save of ANOTHER record dumps every record, this one's live fields included.
NeighbourSave ==
  /\ record = "stored"
  /\ disk' = status
  /\ UNCHANGED <<record, status, ckpt, lock, mapVars, clientVars, prev, workerVars, events>>

\* The process dies at any point and comes back: tasks.json is loaded and
\* _reconcile_orphans parks what was live (its save may fail).
Restart ==
  /\ MayRestart
  /\ record' = IF disk = "none" THEN record ELSE "stored"
  /\ IF disk \in Live
       THEN status' = "INTERRUPTED" /\ disk' \in {"INTERRUPTED"} \cup
                                         (IF SaveMayFail THEN {disk} ELSE {})
       ELSE status' = (IF disk = "none" THEN status ELSE disk) /\ UNCHANGED disk
  /\ lock' = None /\ thread' = None /\ maps' = {}
  /\ cpc' = [c \in Clients |-> "idle"]
  /\ op' = [c \in Clients |-> "none"]
  /\ saw' = {}
  /\ mine' = [c \in Clients |-> None]
  /\ prev' = [p \in Procs |-> "none"]
  /\ wpc' = [w \in Workers |-> "idle"]
  /\ kind' = [w \in Workers |-> "run"]
  /\ outcome' = [w \in Workers |-> "INTERRUPTED"]
  /\ parks' = 0 /\ fails' = 0
  /\ UNCHANGED ckpt

-----------------------------------------------------------------------------
ClientStep(c) ==
  \/ CreateSave(c) \/ MakeThread(c) \/ StartThread(c)
  \/ StopLoad(c) \/ StopPeek(c) \/ StopFlag(c) \/ StopApply(c)
  \/ StopSave(c) \/ StopClaim(c) \/ StopTell(c)
  \/ ContProbe(c) \/ ContClaim(c) \/ ContRefuse(c) \/ ContApply(c)
  \/ ContSave(c) \/ ContTell(c)
  \/ DeleteRecord(c) \/ DeleteArtifacts(c) \/ DeletePop(c)

WorkerStep(w) ==
  \/ WorkerLoad(w) \/ RunMark(w) \/ RunMarkSave(w)
  \/ Setup(w) \/ SetupRaises(w)
  \/ Superstep(w) \/ GraphEnds(w) \/ GraphRaises(w)
  \/ Reload(w) \/ FinalAssign(w) \/ FinalClaim(w) \/ FinalTell(w) \/ FinalSave(w)
  \/ FailApply(w) \/ FailSave(w) \/ FailTell(w)
  \/ PopState(w) \/ PopThread(w) \/ PopFlag(w) \/ PopModel(w)
  \/ PopAnnounced(w) \/ CloseTrace(w)

Next ==
  \/ \E c \in Clients : ClientStep(c)
  \/ \E w \in Workers : WorkerStep(w)
  \/ NeighbourSave
  \/ Restart

Spec == Init /\ [][Next]_vars

\* Threads that have begun go on: Python threads are preemptive, a waiter on
\* self._lock gets it, and a model or tool call returns (they carry timeouts), so
\* a graph whose next node entry would see a stop gets there.  Nothing is assumed
\* about how long a round runs that nobody stops.
Serving(c)  == ClientStep(c) /\ cpc[c] # "idle"
Obliged(w)  == WorkerStep(w) /\ (wpc[w] = "loop" => "stop" \in maps)
FairSpec == Spec /\ (\A c \in Clients : WF_vars(Serving(c)))
                 /\ (\A w \in Workers : WF_vars(Obliged(w)))

-----------------------------------------------------------------------------
(* Properties *)

\* Every variable keeps the range the code gives it.
TypeOK ==
  /\ record \in {"absent", "stored", "deleted"}
  /\ status \in Statuses
  /\ disk \in Statuses \cup {"none"}
  /\ ckpt \in {"none", "some"}
  /\ lock \in Clients \cup {None}
  /\ thread \in Workers \cup {None}
  /\ maps \subseteq MapNames
  /\ cpc \in [Clients -> ClientPCs]
  /\ op \in [Clients -> AllOps \cup {"none"}]
  /\ saw \subseteq Clients
  /\ mine \in [Clients -> Workers \cup {None}]
  /\ prev \in [Procs -> Statuses \cup {"none"}]
  /\ wpc \in [Workers -> WorkerPCs]
  /\ kind \in [Workers -> {"run", "cont"}]
  /\ outcome \in [Workers -> Parked]
  /\ parks \in 0..2 /\ fails \in 0..2

\* The request threads that have claimed a round and not yet started its thread,
Claiming == {c \in Clients :
               cpc[c] \in {"k_apply", "k_save", "k_tell", "k_make", "k_start"}}
\* and the workers from their start to the statement that unregisters them.
InRound == {w \in Workers :
              wpc[w] \notin {"idle", "made", "pop_flag", "pop_model",
                             "pop_announced", "close_trace"}}
Owners == Claiming \cup InRound

\* However create, resume, continue, delete and restarts interleave, the task
\* has one round at a time: no two requests claim it, no claim overlaps a worker.
OneRound == \A p, q \in Owners : p = q

\* The same for what a worker does, as resume's docstring states it: two graphs
\* never run on one thread_id.
OneGraph == \A v, w \in Workers : wpc[v] = "loop" /\ wpc[w] = "loop" => v = w

\* A record that says PENDING or RUNNING always has somebody who will settle it:
\* a claim on its way to a thread, or a worker that has not settled it yet.
Carriers ==
  {c \in Clients : cpc[c] \in {"k_save", "k_tell", "k_make", "k_start"}} \cup
  {w \in Workers : wpc[w] \in {"made", "begin", "mark", "mark_save", "setup",
                               "loop", "end", "assign", "fail"}}
RunningHasCarrier == status \in Live /\ record = "stored" => Carriers # {}

\* tasks.json lags behind the live record only while somebody is about to save.
Savers ==
  {c \in Clients : cpc[c] \in {"s_save", "k_save"}} \cup
  {w \in Workers : wpc[w] \in {"mark_save", "claim", "tell", "settle", "fail_save"}}
DiskAgrees == record = "stored" /\ disk # status => Savers # {}

\* What a round puts into the shared maps is always taken out again: every entry
\* has a thread left that will drop it (teardown pops by task id).
RoundDrains ==
  /\ "state" \in maps => \E w \in Workers : wpc[w] \in
       {"loop", "end", "assign", "claim", "tell", "settle", "fail", "fail_save",
        "fail_tell", "pop_state"}
  /\ "model" \in maps => \E w \in Workers : wpc[w] \in
       {"loop", "end", "assign", "claim", "tell", "settle", "fail", "fail_save",
        "fail_tell", "pop_state", "pop_thread", "pop_flag", "pop_model"}
  /\ "trace" \in maps => \/ Claiming # {}
                       \/ \E w \in Workers : wpc[w] # "idle"
                       \/ \E c \in Clients : cpc[c] = "d_clean"

\* The rounds of the task form a slot (module RoundSlot): one owner at a time,
\* the record removed only between owners, and never listed again once removed --
\* the continuation that loses the race to delete_task finds no task to start.
Slot == INSTANCE RoundSlot WITH Agents <- Procs, life <- record, owners <- Owners
ImplementsRoundSlot == Slot!Spec

\* A continuation that has been admitted finds the snapshot it was promised.
AdmittedHasCheckpoint ==
  \A w \in Workers : kind[w] = "cont" /\ wpc[w] = "setup" => ckpt = "some"

Quiet == /\ \A c \in Clients : cpc[c] = "idle"
         /\ \A w \in Workers : wpc[w] = "idle"

\* Every round that ends says so: a task that is parked and at rest has published
\* task_interrupted or task_failed since its last round was opened.
NoSilentPark ==
  Quiet /\ record = "stored" /\ status \in Parked => parks + fails > 0

\* stop's docstring: the flag is set only when the run is live, so a task at rest
\* carries none that would abort its next round.
NoFlagAtRest == Quiet => "stop" \notin maps

\* A stop that has raised its flag is obeyed: no worker is left running.
StopIsObeyed == "stop" \in maps ~> \A w \in Workers : wpc[w] = "idle"

=============================================================================
