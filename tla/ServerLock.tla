----------------------------- MODULE ServerLock -----------------------------
(***************************************************************************)
(* Launchers and the record data/server.json (backend/server_lock.py, with *)
(* its callers backend/cli.py and start.py).  A launcher looks for a       *)
(* running backend; when it finds none it claims the record and serves,    *)
(* and removes the record when it ends.  A launcher's process, its         *)
(* instance id and its record are one value; a process runs once.  A       *)
(* backend writes tasks.json from the moment its application starts, which *)
(* is before its port is bound.                                            *)
(***************************************************************************)
EXTENDS Naturals, FiniteSets

CONSTANTS
  Launchers,   \* processes of `qianfan' or `start.py'
  Dev,         \* those that are start.py
  Ports, PortOf,
  Troubles,    \* subset of {"crash", "reuse", "foreign"}
  None, Foreign

ASSUME LockAssumption ==
  /\ Dev \subseteq Launchers
  /\ None \notin Launchers /\ Foreign \notin Launchers /\ None # Foreign
  /\ PortOf \in [Launchers -> Ports]
  /\ Troubles \subseteq {"crash", "reuse", "foreign"}

VARIABLES
  pc,      \* where the launcher is
  seen,    \* find_running: the record it has read
  lost,    \* it has lost a claim and looks once more
  file,    \* data/server.json: the owner's record, or None
  bound,   \* who listens on a port
  reused,  \* dead launchers whose pid another program has now
  overtaken,  \* history: those about to remove a record that was removed since they read it
  robbed      \* history: one of them has removed a record claimed since

histories == <<overtaken, robbed>>
vars == <<pc, seen, lost, file, bound, reused, overtaken, robbed>>

Steps == {"idle", "look", "judge", "probe", "drop", "unlink", "port", "spawn", "claim",
          "serve", "serving", "leave", "remove", "done", "dead"}

TypeOK ==
  /\ pc \in [Launchers -> Steps]
  /\ seen \in [Launchers -> Launchers \cup {None}]
  /\ lost \in [Launchers -> BOOLEAN]
  /\ file \in Launchers \cup {None}
  /\ bound \in [Ports -> Launchers \cup {None, Foreign}]
  /\ reused \subseteq Launchers /\ overtaken \subseteq Launchers /\ robbed \in BOOLEAN
  /\ \A p \in Launchers : pc[p] \in {"judge", "probe", "drop", "unlink"} => seen[p] # None

Init ==
  /\ pc = [p \in Launchers |-> "idle"]
  /\ seen = [p \in Launchers |-> None]
  /\ lost = [p \in Launchers |-> FALSE]
  /\ file = None /\ bound = [o \in Ports |-> None] /\ reused = {}
  /\ overtaken = {} /\ robbed = FALSE

At(p, s) == pc[p] = s
Goto(p, s) == pc' = [pc EXCEPT ![p] = s]
Alive(p) == pc[p] \notin {"idle", "done", "dead"}
PidAlive(p) == Alive(p) \/ p \in reused

\* What find_running's None leads to: the checks before a claim, or the end
\* of a launcher that has lost one.  start.py has no port check.
NotFound(p) ==
  Goto(p, IF lost[p] THEN "done" ELSE IF p \in Dev THEN "spawn" ELSE "port")

\* The record goes, whoever's it is.
Removes(p) ==
  /\ file' = None
  /\ overtaken' = (overtaken \ {p}) \cup {q \in Launchers \ {p} : pc[q] \in {"unlink", "remove"}}
  /\ robbed' = (robbed \/ (p \in overtaken /\ file # None))

Launch(p) == At(p, "idle") /\ Goto(p, "look") /\ UNCHANGED <<seen, lost, file, bound, reused, histories>>

Look(p) ==
  /\ At(p, "look")
  /\ IF file = None THEN NotFound(p) /\ UNCHANGED seen
     ELSE Goto(p, "judge") /\ seen' = [seen EXCEPT ![p] = file]
  /\ UNCHANGED <<lost, file, bound, reused, histories>>

\* (mutant) every pid that was ever recorded passes for alive
JudgeTrusting(p) ==
  /\ At(p, "judge")
  /\ Goto(p, "probe")
  /\ UNCHANGED <<seen, lost, file, bound, reused, histories>>

Judge(p) ==
  /\ At(p, "judge")
  /\ Goto(p, IF PidAlive(seen[p]) THEN "probe" ELSE "drop")
  /\ UNCHANGED <<seen, lost, file, bound, reused, histories>>

\* GET /health on the record's port: the owner answers (hand-off, or start.py
\* refuses), another instance does, a foreign program with JSON or something else
\* (which is no answer), or nobody until the deadline.
Probe(p) ==
  /\ At(p, "probe")
  /\ LET answer == bound[PortOf[seen[p]]] IN
       \/ answer = seen[p] /\ Goto(p, "done")
       \/ answer \notin {seen[p], None} /\ Goto(p, "drop")
       \/ answer \in {None, Foreign} /\ NotFound(p)
  /\ UNCHANGED <<seen, lost, file, bound, reused, histories>>

\* (mutant) the record is removed whoever has it by now
DropBlind(p) ==
  /\ At(p, "drop")
  /\ IF file # None THEN Goto(p, "unlink") ELSE NotFound(p)
  /\ UNCHANGED <<seen, lost, file, bound, reused, histories>>

\* release_lock: one read decides, the unlink removes whatever is there then.
Drop(p) ==
  /\ At(p, "drop")
  /\ IF file = seen[p] THEN Goto(p, "unlink") ELSE NotFound(p)
  /\ UNCHANGED <<seen, lost, file, bound, reused, histories>>

Unlink(p) ==
  /\ At(p, "unlink")
  /\ Removes(p) /\ NotFound(p)
  /\ UNCHANGED <<seen, lost, bound, reused>>

Port(p) ==
  /\ At(p, "port")
  /\ Goto(p, IF bound[PortOf[p]] = None THEN "claim" ELSE "done")
  /\ UNCHANGED <<seen, lost, file, bound, reused, histories>>

\* (mutant) the claim replaces the record (os.replace for os.link)
ClaimReplacing(p) ==
  /\ At(p, "claim")
  /\ file' = p /\ Goto(p, "serve")
  /\ UNCHANGED <<seen, lost, bound, reused, histories>>

\* claim_lock: os.link fails when the record exists.
Claim(p) ==
  /\ At(p, "claim")
  /\ IF file = None THEN file' = p /\ Goto(p, "serve") /\ UNCHANGED lost
     ELSE Goto(p, "look") /\ lost' = [lost EXCEPT ![p] = TRUE] /\ UNCHANGED file
  /\ UNCHANGED <<seen, bound, reused, histories>>

\* start.py starts the backend first and claims with its pid; a loser
\* terminates the backend it has started.
Spawn(p) ==
  /\ At(p, "spawn")
  /\ IF file = None THEN file' = p /\ Goto(p, "serve")
     ELSE Goto(p, "done") /\ UNCHANGED file
  /\ UNCHANGED <<seen, lost, bound, reused, histories>>

\* uvicorn starts the application and then binds, or fails to.
Serve(p) ==
  /\ At(p, "serve")
  /\ IF bound[PortOf[p]] = None
     THEN Goto(p, "serving") /\ bound' = [bound EXCEPT ![PortOf[p]] = p]
     ELSE Goto(p, "leave") /\ UNCHANGED bound
  /\ UNCHANGED <<seen, lost, file, reused, histories>>

\* The server ends; the finally clause removes its own record.
Stop(p) ==
  /\ At(p, "serving")
  /\ Goto(p, "leave") /\ bound' = [bound EXCEPT ![PortOf[p]] = None]
  /\ UNCHANGED <<seen, lost, file, reused, histories>>

Leave(p) ==
  /\ At(p, "leave")
  /\ Goto(p, IF file = p THEN "remove" ELSE "done")
  /\ UNCHANGED <<seen, lost, file, bound, reused, histories>>

Remove(p) ==
  /\ At(p, "remove")
  /\ Removes(p) /\ Goto(p, "done")
  /\ UNCHANGED <<seen, lost, bound, reused>>

Crash(p) ==
  /\ "crash" \in Troubles /\ Alive(p)
  /\ Goto(p, "dead")
  /\ bound' = [o \in Ports |-> IF bound[o] = p THEN None ELSE bound[o]]
  /\ overtaken' = overtaken \ {p}
  /\ UNCHANGED <<seen, lost, file, reused, robbed>>

\* The system gives a dead launcher's pid to another program.
Reuse(p) ==
  /\ "reuse" \in Troubles /\ At(p, "dead") /\ p \notin reused
  /\ reused' = reused \cup {p}
  /\ UNCHANGED <<pc, seen, lost, file, bound, histories>>

\* Another program takes or frees a port.
Occupy(o) ==
  /\ "foreign" \in Troubles /\ bound[o] \in {None, Foreign}
  /\ bound' = [bound EXCEPT ![o] = IF @ = None THEN Foreign ELSE None]
  /\ UNCHANGED <<pc, seen, lost, file, reused, histories>>

Next ==
  \/ \E p \in Launchers :
       \/ Launch(p) \/ Look(p) \/ Judge(p) \/ Probe(p) \/ Drop(p) \/ Unlink(p)
       \/ Port(p) \/ Claim(p) \/ Spawn(p) \/ Serve(p) \/ Stop(p) \/ Leave(p)
       \/ Remove(p) \/ Crash(p) \/ Reuse(p)
  \/ \E o \in Ports : Occupy(o)

Spec == Init /\ [][Next]_vars
-----------------------------------------------------------------------------
(* A launcher goes on when it can; a server may serve for ever.            *)
Goes(p) ==
  \/ Look(p) \/ Judge(p) \/ Probe(p) \/ Drop(p) \/ Unlink(p) \/ Port(p) \/ Claim(p)
  \/ Spawn(p) \/ Serve(p) \/ Leave(p) \/ Remove(p)

FairSpec == Spec /\ \A p \in Launchers : WF_vars(Goes(p))
-----------------------------------------------------------------------------
\* Those whose application has loaded tasks.json and will write it.
Writers == {p \in Launchers : pc[p] \in {"serve", "serving", "spawn"}}

\* The backend is the only writer of tasks.json on the machine: launchers that look,
\* claim, serve, leave, die and take over what a dead one left never make a second one,
\* and the one that serves is the one the record names (cli.py 155-201) -- until one that
\* was overtaken in release_lock has removed a fresh record.
OneBackend ==
  ~robbed => \A p \in Writers : file = p /\ Writers = {p}

\* start.py refuses to run beside a registered backend (start.py _refuse_if_running).
OneWriter == Cardinality(Writers) <= 1

\* release_lock removes "the record only when it still belongs to `instance'": who is about
\* to remove one has read the record that is there, and it is a dead process's or its own;
\* only between that reading and the unlink can another launcher come in.
DropsItsOwn ==
  ~robbed =>
    \A p \in Launchers :
      /\ At(p, "unlink") /\ p \notin overtaken => file = seen[p] /\ At(file, "dead")
      /\ At(p, "remove") => file = p

\* That nobody comes in there, as release_lock's docstring has it.
NobodyIsRobbed == ~robbed

\* The record of a process that died does not keep later launchers out: one that
\* starts afterwards removes it, unless the pid lives again or it dies itself
\* (server_lock.py find_running; "a dead pid ... is a stale record and gets taken over").
StaleIsCleared ==
  \A p, q \in Launchers :
    (file = p /\ At(p, "dead") /\ At(q, "look"))
      ~> (file # p \/ p \in reused \/ At(q, "dead"))
=============================================================================
