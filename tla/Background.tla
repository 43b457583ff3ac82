------------------------------ MODULE Background ------------------------------
(***************************************************************************)
(* The process trees of ONE task's bash calls (backend/core/tools/bash.py  *)
(* 265-662): the worker that runs a call and hands what survives it to the *)
(* background list, the reaper thread, and the stop that kills the list    *)
(* (backend/services/task_manager.py 1227-1273; a deletion kills it in the *)
(* same way, with no round left to add to it).  The list has a lock of its *)
(* own; the stop flag has none.  A tree ends, or its shell exits and       *)
(* leaves it running, when the operating system says so.                   *)
(***************************************************************************)
EXTENDS Naturals

CONSTANTS
  MaxCalls,   \* bound: bash calls
  MaxRounds,  \* bound: rounds of the task
  MaxStops    \* bound: stops

Assumption == {MaxCalls, MaxRounds, MaxStops} \subseteq Nat /\ MaxCalls > 0 /\ MaxRounds > 0

VARIABLES
  round,    \* rounds begun
  live,     \* the round's worker has not reached its finally clause
  flag,     \* the task's stop flag
  calls,    \* calls made
  pc,       \* each call: "run", "drain", "look", "register", "over"
  killed,   \* the calls that have ended their tree, for a stop or at their time
  shell,    \* calls whose shell runs
  tree,     \* calls with a living process
  list,     \* _background
  reaper,   \* "none", "look" or "check"
  seen,     \* its snapshot, still to be checked
  ended,    \* what it will remove
  stops,    \* stops begun
  spc,      \* the stop: "idle", "kill", or "kill live" if it has seen a live record
  taken     \* what it has taken off the list

worker == <<round, live, calls, pc, killed, shell>>
reaping == <<reaper, seen, ended>>
stopping == <<stops, spc, taken>>
vars == <<worker, flag, tree, list, reaping, stopping>>

Calls == 1..MaxCalls
Made == 1..calls

Init ==
  /\ round = 1 /\ live = TRUE /\ flag = FALSE /\ calls = 0
  /\ pc = [c \in Calls |-> "none"] /\ killed = {} /\ shell = {} /\ tree = {} /\ list = {}
  /\ reaper = "none" /\ seen = {} /\ ended = {}
  /\ stops = 0 /\ spc = "idle" /\ taken = {}

-----------------------------------------------------------------------------
(* The processes                                                           *)

\* The shell ends, and everything with it or not.
ShellExits(c) ==
  /\ c \in shell /\ shell' = shell \ {c}
  /\ tree' \in {tree, tree \ {c}}
  /\ UNCHANGED <<round, live, calls, pc, killed, flag, list, reaping, stopping>>

TreeEnds(c) ==
  /\ c \in tree \ shell /\ tree' = tree \ {c}
  /\ UNCHANGED <<worker, flag, list, reaping, stopping>>

-----------------------------------------------------------------------------
(* A call, on the worker                                                   *)

Moves(c, from, to) == pc[c] = from /\ pc' = [pc EXCEPT ![c] = to]

Call ==
  /\ live /\ calls < MaxCalls /\ (calls > 0 => pc[calls] = "over")
  /\ calls' = calls + 1 /\ pc' = [pc EXCEPT ![calls + 1] = "run"]
  /\ shell' = shell \cup {calls + 1} /\ tree' = tree \cup {calls + 1}
  /\ UNCHANGED <<round, live, killed, flag, list, reaping, stopping>>

Terminate(c) == killed' = killed \cup {c} /\ shell' = shell \ {c} /\ tree' = tree \ {c}

\* The loop ends with the shell, with a stop it sees, or at its deadline.
Run(c) ==
  /\ Moves(c, "run", "drain")
  /\ \/ c \notin shell /\ UNCHANGED <<killed, shell, tree>>
     \/ c \in shell /\ Terminate(c)
  /\ UNCHANGED <<round, live, calls, flag, list, reaping, stopping>>

\* The drain ends with the pipes or at its deadline, or sees a stop.
Drain(c) ==
  /\ Moves(c, "drain", "look")
  /\ \/ UNCHANGED <<killed, shell, tree>>
     \/ flag /\ c \notin killed /\ Terminate(c)
  /\ UNCHANGED <<round, live, calls, flag, list, reaping, stopping>>

Look(c) ==
  /\ \/ c \in tree /\ Moves(c, "look", "register")
     \/ c \notin tree /\ Moves(c, "look", "over")
  /\ UNCHANGED <<round, live, calls, killed, shell, flag, tree, list, reaping, stopping>>

\* (mutant) the reaper is taken for running.
RegisterOnly(c) ==
  /\ Moves(c, "register", "over") /\ list' = list \cup {c}
  /\ UNCHANGED <<round, live, calls, killed, shell, flag, tree, reaping, stopping>>

\* Under the list's lock; a reaper that has left is started again.
Register(c) ==
  /\ Moves(c, "register", "over") /\ list' = list \cup {c}
  /\ reaper' = IF reaper = "none" THEN "look" ELSE reaper
  /\ UNCHANGED <<round, live, calls, killed, shell, flag, tree, seen, ended, stopping>>

\* A round ends for whatever reason; its teardown pops the flag.
End ==
  /\ live /\ (calls > 0 => pc[calls] = "over")
  /\ live' = FALSE /\ flag' = FALSE
  /\ UNCHANGED <<round, calls, pc, killed, shell, tree, list, reaping, stopping>>

Continue ==
  /\ ~live /\ round < MaxRounds /\ round' = round + 1 /\ live' = TRUE
  /\ UNCHANGED <<calls, pc, killed, shell, flag, tree, list, reaping, stopping>>

-----------------------------------------------------------------------------
(* The reaper                                                              *)

Snapshot ==
  /\ reaper = "look"
  /\ reaper' = IF list = {} THEN "none" ELSE "check"
  /\ seen' = list /\ ended' = {}
  /\ UNCHANGED <<worker, flag, tree, list, stopping>>

\* One entry: its checker reads the task's flag.
Check(c) ==
  /\ reaper = "check" /\ c \in seen /\ seen' = seen \ {c}
  /\ tree' = IF flag THEN tree \ {c} ELSE tree
  /\ ended' = IF flag \/ c \notin tree THEN ended \cup {c} ELSE ended
  /\ UNCHANGED <<worker, flag, list, reaper, stopping>>

\* (mutant) the entries of the snapshot are all there is.
RemoveAll ==
  /\ reaper = "check" /\ seen = {} /\ reaper' = "look"
  /\ ended' = {} /\ list' = IF ended = {} THEN list ELSE {}
  /\ UNCHANGED <<worker, flag, tree, seen, stopping>>

\* Under the list's lock; then the next round, at once or after a sleep.
Remove ==
  /\ reaper = "check" /\ seen = {} /\ reaper' = "look"
  /\ list' = list \ ended /\ ended' = {}
  /\ UNCHANGED <<worker, flag, tree, seen, stopping>>

-----------------------------------------------------------------------------
(* stop                                                                    *)

\* kill_background takes the task's entries under the list's lock.  The record, which an
\* earlier stop may have parked under a live round, is looked at before the flag is raised.
Stop ==
  /\ spc = "idle" /\ stops < MaxStops /\ stops' = stops + 1
  /\ spc' \in IF live THEN {"kill", "kill live"} ELSE {"kill"}
  /\ taken' = list /\ list' = {}
  /\ UNCHANGED <<worker, flag, tree, reaping>>

\* ... and terminates them, one after the other.
Kill(c) ==
  /\ spc # "idle" /\ c \in taken /\ taken' = taken \ {c} /\ tree' = tree \ {c}
  /\ UNCHANGED <<worker, flag, list, reaping, stops, spc>>

\* Only then does it raise the flag, if the record or the task's state says it is live.
RaiseFlag ==
  /\ spc # "idle" /\ taken = {} /\ spc' = "idle"
  /\ flag' = (flag \/ live \/ spc = "kill live")
  /\ UNCHANGED <<worker, tree, list, reaping, stops, taken>>

-----------------------------------------------------------------------------
Works(c) == Run(c) \/ Drain(c) \/ Look(c) \/ Register(c)

Reap == Snapshot \/ Remove \/ \E c \in Calls : Check(c)

Next ==
  \/ Call \/ End \/ Continue \/ Reap \/ Stop \/ RaiseFlag
  \/ \E c \in Calls : ShellExits(c) \/ TreeEnds(c) \/ Works(c) \/ Kill(c)

\* The reaper's thread runs; a call ends at its deadline and a stop goes on.
Fairness ==
  /\ WF_vars(Reap)
  /\ \A c \in Calls : WF_vars(Works(c)) /\ WF_vars(Kill(c))
  /\ WF_vars(RaiseFlag)

Spec == Init /\ [][Next]_vars /\ Fairness
-----------------------------------------------------------------------------
(* What must hold                                                          *)

\* Every variable keeps its type.
TypeOK ==
  /\ round \in 0..MaxRounds /\ live \in BOOLEAN /\ flag \in BOOLEAN /\ calls \in 0..MaxCalls
  /\ pc \in [Calls -> {"none", "run", "drain", "look", "register", "over"}]
  /\ shell \subseteq tree /\ tree \subseteq Made /\ killed \subseteq Made /\ list \subseteq Made
  /\ reaper \in {"none", "look", "check"} /\ seen \subseteq Made /\ ended \subseteq Made
  /\ stops \in 0..MaxStops /\ spc \in {"idle", "kill", "kill live"} /\ taken \subseteq Made

\* What a call has left running is on the list, or a stop that has taken it off is about
\* to kill it: no tree is forgotten, whoever removes entries beside whom (bash.py 439-498).
NoTreeIsForgotten == \A c \in tree : pc[c] = "over" => c \in list \cup taken

\* Entries have a reaper: one that has just found the list empty is replaced
\* (bash.py 465-469, 474-478).
ReaperIsThere == list # {} => reaper # "none"

\* A stop's flag that stays up ends what is on the list.
FlagEndsTrees == \A c \in Calls : []<>(c \notin list \/ ~flag)

\* stop: what the task has running is killed (task_manager.py 1246-1247).
StoppedIsDead == spc = "idle" /\ stops > 0 /\ ~live /\ round = 1 /\ reaper # "check" => tree = {}
=============================================================================
