---------------------------- MODULE ServicesProofs ----------------------------
(***************************************************************************)
(* Theorems about the services beside the rounds, for every number of      *)
(* launchers, tasks, sub-tasks, bash calls, rounds and tool calls: the     *)
(* launchers' lock, the sub-agents' pool, the background trees, an MCP     *)
(* session and the trace recorder, each by its own inductive invariant,    *)
(* and together as MCServices states them; the model store is that of      *)
(* StoreProofs, on the three instances that MCServices makes of it.        *)
(***************************************************************************)
EXTENDS MCServices, FiniteSetTheorems, TLAPS

-----------------------------------------------------------------------------
(* The launchers' lock: launchers that look, claim, serve, leave and die,  *)
(* with pids that come back.  Until one of them, overtaken between its     *)
(* reading of a record and the unlink, has removed a fresh one, one        *)
(* backend runs at a time, and it is the one the record names.             *)

\* The launchers are `qianfan' only, and the ports are theirs.
Orderly == Dev = {} /\ "foreign" \notin Troubles

Holding == {"serve", "serving", "leave", "remove"}

\* The record is its holder's, or left by one that died; who has read a record has read
\* one whose owner holds it still or has ended; nobody drops one that is held.
HolderIsListed ==
  \A p \in Launchers :
    /\ pc[p] \in Holding => file = p
    /\ file = p => pc[p] \in Holding \cup {"dead"}
PortsAreHeld ==
  \A o \in Ports : bound[o] # None =>
    bound[o] \in Launchers /\ pc[bound[o]] = "serving" /\ o = PortOf[bound[o]]
SeenHasHeld ==
  \A p \in Launchers : pc[p] \in {"judge", "probe", "drop", "unlink"} =>
    seen[p] \in Launchers /\ pc[seen[p]] \in Holding \cup {"done", "dead"}
DropsTheDone ==
  \A p \in Launchers : pc[p] \in {"drop", "unlink"} => pc[seen[p]] \in {"done", "dead"}
UnlinksTheSeen ==
  \A p \in Launchers : pc[p] = "unlink" /\ p \notin overtaken => file = seen[p]
NobodySpawns == \A p \in Launchers : pc[p] # "spawn"

RecordIsKept == HolderIsListed /\ SeenHasHeld /\ DropsTheDone /\ UnlinksTheSeen

LockInv == TypeOK /\ PortsAreHeld /\ NobodySpawns /\ (~robbed => RecordIsKept)

\* Nothing is held at the start.
LEMMA LockInvInit == Init => LockInv
<1> SUFFICES ASSUME Init PROVE LockInv
  OBVIOUS
<1> USE LockAssumption DEF Init
<1>1. TypeOK
  BY DEF TypeOK, Steps
<1>2. RecordIsKept /\ PortsAreHeld /\ NobodySpawns
  BY DEF RecordIsKept, HolderIsListed, PortsAreHeld, SeenHasHeld, DropsTheDone, UnlinksTheSeen,
         NobodySpawns, Holding
<1> QED
  BY <1>1, <1>2 DEF LockInv

\* Every step of the launchers keeps what does not depend on the record.
LEMMA LockTypesStep ==
  ASSUME Orderly, TypeOK, PortsAreHeld, NobodySpawns, [Next]_vars
  PROVE  TypeOK' /\ PortsAreHeld' /\ NobodySpawns'
<1> USE LockAssumption
    DEF Orderly, TypeOK, Steps, At, Goto, NotFound, PortsAreHeld, NobodySpawns, Removes, histories
<1>1. ASSUME NEW p \in Launchers, Launch(p) \/ Look(p) \/ Judge(p) \/ Probe(p)
      PROVE  TypeOK' /\ PortsAreHeld' /\ NobodySpawns'
  BY <1>1 DEF Launch, Look, Judge, Probe
<1>2. ASSUME NEW p \in Launchers, Drop(p) \/ Port(p) \/ Spawn(p)
      PROVE  TypeOK' /\ PortsAreHeld' /\ NobodySpawns'
  BY <1>2 DEF Drop, Port, Spawn
<1>8. ASSUME NEW p \in Launchers, Unlink(p)
      PROVE  TypeOK' /\ PortsAreHeld' /\ NobodySpawns'
  <2>1. robbed' \in BOOLEAN
    BY <1>8 DEF Unlink
  <2> QED
    BY <1>8, <2>1 DEF Unlink
<1>3. ASSUME NEW p \in Launchers, Claim(p)
      PROVE  TypeOK' /\ PortsAreHeld' /\ NobodySpawns'
  <2>1. lost' \in [Launchers -> BOOLEAN]
    <3>1. lost' = lost \/ lost' = [lost EXCEPT ![p] = TRUE]
      BY <1>3 DEF Claim
    <3> QED
      BY <3>1
  <2>2. /\ pc[p] = "claim" /\ UNCHANGED <<seen, bound, reused, overtaken, robbed>>
        /\ \/ pc' = [pc EXCEPT ![p] = "serve"] /\ file' = p
           \/ pc' = [pc EXCEPT ![p] = "look"] /\ file' = file
    BY <1>3 DEF Claim
  <2> QED
    BY <2>1, <2>2
<1>4. ASSUME NEW p \in Launchers, Serve(p) \/ Stop(p) \/ Leave(p)
      PROVE  TypeOK' /\ PortsAreHeld' /\ NobodySpawns'
  BY <1>4 DEF Serve, Stop, Leave
<1>9. ASSUME NEW p \in Launchers, Remove(p)
      PROVE  TypeOK' /\ PortsAreHeld' /\ NobodySpawns'
  <2>1. robbed' \in BOOLEAN
    BY <1>9 DEF Remove
  <2> QED
    BY <1>9, <2>1 DEF Remove
<1>5. ASSUME NEW p \in Launchers, Crash(p) \/ Reuse(p)
      PROVE  TypeOK' /\ PortsAreHeld' /\ NobodySpawns'
  BY <1>5 DEF Crash, Reuse, Alive
<1>6. ASSUME NEW o \in Ports, Occupy(o) PROVE FALSE
  BY <1>6 DEF Occupy
<1>7. CASE UNCHANGED vars
  BY <1>7 DEF vars
<1> QED
  BY <1>1, <1>2, <1>3, <1>4, <1>5, <1>6, <1>7, <1>8, <1>9 DEF Next

\* Every step that robs nobody keeps the record with its holder (one step of the proof
\* per action).
LEMMA RecordIsKeptStep ==
  ASSUME Orderly, TypeOK, PortsAreHeld, NobodySpawns, RecordIsKept, [Next]_vars, ~robbed'
  PROVE  RecordIsKept'
<1> USE LockAssumption
    DEF Orderly, TypeOK, Steps, At, Goto, NotFound, PortsAreHeld, NobodySpawns, histories,
        RecordIsKept, HolderIsListed, SeenHasHeld, DropsTheDone, UnlinksTheSeen, Holding
<1>1. ASSUME NEW p \in Launchers, Launch(p) PROVE RecordIsKept'
  BY <1>1 DEF Launch
<1>2. ASSUME NEW p \in Launchers, Look(p) PROVE RecordIsKept'
  BY <1>2 DEF Look
<1>3. ASSUME NEW p \in Launchers, Judge(p) PROVE RecordIsKept'
  BY <1>3 DEF Judge, PidAlive, Alive
<1>4. ASSUME NEW p \in Launchers, Probe(p) PROVE RecordIsKept'
  <2> DEFINE answer == bound[PortOf[seen[p]]]
  <2>1. seen[p] \in Launchers /\ PortOf[seen[p]] \in Ports
    BY <1>4 DEF Probe
  <2>2. CASE answer = seen[p] /\ Goto(p, "done")
    BY <1>4, <2>1, <2>2 DEF Probe
  <2>3. CASE answer \notin {seen[p], None} /\ Goto(p, "drop")
    <3>1. file = answer
      BY <2>1, <2>3
    <3>2. pc[seen[p]] \in {"done", "dead"}
      BY <1>4, <2>1, <2>3, <3>1 DEF Probe
    <3> QED
      BY <1>4, <2>1, <2>3, <3>2 DEF Probe
  <2>4. CASE NotFound(p)
    BY <1>4, <2>4 DEF Probe
  <2> QED
    BY <1>4, <2>2, <2>3, <2>4 DEF Probe
<1>5. ASSUME NEW p \in Launchers, Drop(p) PROVE RecordIsKept'
  BY <1>5 DEF Drop
<1>6. ASSUME NEW p \in Launchers, Unlink(p) PROVE RecordIsKept'
  <2>1. file = None \/ (file = seen[p] /\ pc[file] = "dead")
    BY <1>6 DEF Unlink, Removes
  <2>2. \A q \in Launchers : pc[q] \notin Holding
    BY <2>1
  <2>3. file' = None /\ UNCHANGED seen /\ pc[p] = "unlink"
        /\ \E s \in {"done", "port"} : pc' = [pc EXCEPT ![p] = s]
    BY <1>6 DEF Unlink, Removes
  <2>4. \A q \in Launchers : pc'[q] = "unlink" => q \in overtaken'
    BY <1>6, <2>3 DEF Unlink, Removes
  <2> QED
    BY <2>2, <2>3, <2>4
<1>7. ASSUME NEW p \in Launchers, Port(p) PROVE RecordIsKept'
  BY <1>7 DEF Port
<1>8. ASSUME NEW p \in Launchers, Claim(p) PROVE RecordIsKept'
  BY <1>8 DEF Claim
<1>9. ASSUME NEW p \in Launchers, Spawn(p) PROVE RecordIsKept'
  BY <1>9 DEF Spawn
<1>10. ASSUME NEW p \in Launchers, Serve(p) PROVE RecordIsKept'
  BY <1>10 DEF Serve
<1>11. ASSUME NEW p \in Launchers, Stop(p) PROVE RecordIsKept'
  BY <1>11 DEF Stop
<1>12. ASSUME NEW p \in Launchers, Leave(p) PROVE RecordIsKept'
  BY <1>12 DEF Leave
<1>13. ASSUME NEW p \in Launchers, Remove(p) PROVE RecordIsKept'
  <2>1. file' = None /\ UNCHANGED seen /\ pc[p] = "remove" /\ pc' = [pc EXCEPT ![p] = "done"]
    BY <1>13 DEF Remove, Removes
  <2>2. \A q \in Launchers : pc'[q] = "unlink" => q \in overtaken'
    BY <1>13, <2>1 DEF Remove, Removes
  <2> QED
    BY <2>1, <2>2
<1>14. ASSUME NEW p \in Launchers, Crash(p) PROVE RecordIsKept'
  BY <1>14 DEF Crash, Alive
<1>15. ASSUME NEW p \in Launchers, Reuse(p) PROVE RecordIsKept'
  BY <1>15 DEF Reuse
<1>16. ASSUME NEW o \in Ports, Occupy(o) PROVE RecordIsKept'
  BY <1>16 DEF Occupy
<1>17. CASE UNCHANGED vars
  BY <1>17 DEF vars
<1> HIDE DEF RecordIsKept, Orderly, TypeOK, PortsAreHeld, NobodySpawns
<1> QED
  BY <1>1, <1>2, <1>3, <1>4, <1>5, <1>6, <1>7, <1>8, <1>9, <1>10, <1>11, <1>12, <1>13,
     <1>14, <1>15, <1>16, <1>17 DEF Next

\* What has been robbed stays so.
LEMMA RobbedStays == ASSUME TypeOK, [Next]_vars, robbed PROVE robbed'
BY DEF Next, vars, histories, Launch, Look, Judge, Probe, Drop, Unlink, Port, Claim, Spawn, Serve,
       Stop, Leave, Remove, Removes, Crash, Reuse, Occupy, TypeOK

\* Every step keeps the invariant.
LEMMA LockInvStep ==
  ASSUME Orderly, LockInv, [Next]_vars PROVE LockInv'
<1>1. TypeOK' /\ PortsAreHeld' /\ NobodySpawns'
  BY LockTypesStep DEF LockInv
<1>2. ASSUME ~robbed' PROVE RecordIsKept'
  <2>1. ~robbed
    BY <1>2, RobbedStays DEF LockInv
  <2>2. TypeOK /\ PortsAreHeld /\ NobodySpawns /\ RecordIsKept
    BY <2>1 DEF LockInv
  <2> QED
    BY <1>2, <2>2, RecordIsKeptStep
<1> QED
  BY <1>1, <1>2 DEF LockInv

\* One backend at a time, and the record names it, for any number of launchers that look,
\* claim, serve, leave, die and take dead records over in any order (cli.py 155-201,
\* server_lock.py 113-117, 177-222), until one of them is robbed of its record.
THEOREM OneBackendAtATime == ASSUME Orderly PROVE Spec => []OneBackend
<1>1. LockInv => OneBackend
  BY DEF LockInv, OneBackend, Writers, RecordIsKept, HolderIsListed, NobodySpawns, Holding
<1>2. LockInv /\ [Next]_vars => LockInv'
  BY LockInvStep
<1> QED
  BY <1>1, <1>2, LockInvInit, PTL DEF Spec

\* Who is about to remove a record removes its own or the dead one it has judged, unless
\* another launcher has removed that one since: the gap between release_lock's reading and
\* its unlink is the only one (server_lock.py 113-117).
THEOREM RecordsAreDroppedByOwners == ASSUME Orderly PROVE Spec => []DropsItsOwn
<1>1. LockInv => DropsItsOwn
  <2> SUFFICES ASSUME LockInv, ~robbed, NEW p \in Launchers
      PROVE  /\ pc[p] = "unlink" /\ p \notin overtaken => file = seen[p] /\ pc[file] = "dead"
             /\ pc[p] = "remove" => file = p
    BY DEF DropsItsOwn, At
  <2> USE DEF LockInv, RecordIsKept, HolderIsListed, SeenHasHeld, DropsTheDone, UnlinksTheSeen, Holding
  <2>1. pc[p] = "remove" => file = p
    OBVIOUS
  <2>2. ASSUME pc[p] = "unlink", p \notin overtaken PROVE file = seen[p] /\ pc[file] = "dead"
    <3>1. file = seen[p] /\ file \in Launchers
      BY <2>2
    <3> QED
      BY <2>2, <3>1
  <2> QED
    BY <2>1, <2>2
<1>2. LockInv /\ [Next]_vars => LockInv'
  BY LockInvStep
<1> QED
  BY <1>1, <1>2, LockInvInit, PTL DEF Spec

-----------------------------------------------------------------------------
(* An MCP session.                                                         *)

\* The session's thread has a child where it needs one, and gives up only with an error.
ThreadHasChild ==
  /\ cLpc = "abort" => cError
  /\ cLpc \in {"init", "announce"} => cChild
  /\ cLpc = "decide" /\ ~cError => cChild

\* What the constructor has been told: ready without an error is a session that runs.
OpenerIsTold ==
  /\ cReady /\ cOpc = "wait" /\ ~cError => cLpc = "loop" /\ cChild
  /\ cOpc = "list" => cLpc = "loop" /\ cChild /\ ~cError
  /\ cOpc \in {"wait", "list"} => ~cClosed /\ ~cListed

\* The clean-up owns the session that it took off the list.
CleanerOwns ==
  /\ ~cClosed => cKpc = "none"
  /\ cOpc = "connected" /\ ~cClosed => cListed
  /\ cKpc \in {"close", "stop"} => cLpc = "loop" /\ cOpc = "connected" /\ ~cListed
  /\ cKpc = "stop" => ~cChild
  /\ cListed => cKpc = "none" /\ cOpc = "connected"

McpInv ==
  /\ Mcp!TypeOK /\ Mcp!FailedStartEnds /\ Mcp!RegisteredIsLive
  /\ ThreadHasChild /\ OpenerIsTold /\ CleanerOwns

\* Every step keeps the variables in range, also where exits raise and closes hang.
LEMMA McpTypeNext ==
  ASSUME Mcp!TypeOK, [Mcp!Next \/ McpHangs!Next]_mcpVars
  PROVE  Mcp!TypeOK'
<1> USE DEF Mcp!TypeOK, Mcp!Thread, Mcp!opening, Mcp!session, Mcp!closing, Mcp!calling,
        McpHangs!Thread, McpHangs!opening, McpHangs!session, McpHangs!closing, McpHangs!calling

<1>1. ASSUME Mcp!Next PROVE Mcp!TypeOK'
  <2>1. CASE Mcp!SpawnChild
    BY <2>1 DEF Mcp!SpawnChild
  <2>2. CASE Mcp!Initialize
    BY <2>2 DEF Mcp!Initialize
  <2>3. CASE Mcp!Decide
    BY <2>3 DEF Mcp!Decide
  <2>4. CASE Mcp!Abort
    BY <2>4 DEF Mcp!Abort
  <2>5. CASE Mcp!Announce
    BY <2>5 DEF Mcp!Announce
  <2>6. CASE Mcp!StartReturns
    BY <2>6 DEF Mcp!StartReturns
  <2>7. CASE Mcp!ListTools
    <3>1. cOpc' \in {"connected", "error"} /\ cListed' \in BOOLEAN
      BY <2>7 DEF Mcp!ListTools
    <3>2. UNCHANGED <<cLpc, cChild, cReady, cError, cClosed, cKpc, cPc, cCalls>>
      BY <2>7 DEF Mcp!ListTools
    <3> QED
      BY <3>1, <3>2
  <2>8. CASE Mcp!CheckCall
    BY <2>8, ConstantsAreSound DEF Mcp!Assumption, Mcp!CheckCall
  <2>9. CASE Mcp!SubmitCall
    BY <2>9 DEF Mcp!SubmitCall
  <2>10. CASE Mcp!CallReturns
    BY <2>10 DEF Mcp!CallReturns
  <2>11. CASE Mcp!Cleanup
    BY <2>11 DEF Mcp!Cleanup
  <2>12. CASE Mcp!Close
    BY <2>12 DEF Mcp!Close
  <2>13. CASE Mcp!StopLoop
    BY <2>13 DEF Mcp!StopLoop
  <2> QED
    BY <1>1, <2>1, <2>2, <2>3, <2>4, <2>5, <2>6, <2>7, <2>8, <2>9, <2>10, <2>11, <2>12,
       <2>13
       DEF Mcp!Next, Mcp!Loop, Mcp!Opener, Mcp!Calling, Mcp!Cleaner
<1>2. ASSUME McpHangs!Next PROVE Mcp!TypeOK'
  <2>1. CASE McpHangs!SpawnChild
    BY <2>1 DEF McpHangs!SpawnChild
  <2>2. CASE McpHangs!Initialize
    BY <2>2 DEF McpHangs!Initialize
  <2>3. CASE McpHangs!Decide
    BY <2>3 DEF McpHangs!Decide
  <2>4. CASE McpHangs!Abort
    BY <2>4 DEF McpHangs!Abort
  <2>5. CASE McpHangs!Announce
    BY <2>5 DEF McpHangs!Announce
  <2>6. CASE McpHangs!StartReturns
    BY <2>6 DEF McpHangs!StartReturns
  <2>7. CASE McpHangs!ListTools
    <3>1. cOpc' \in {"connected", "error"} /\ cListed' \in BOOLEAN
      BY <2>7 DEF McpHangs!ListTools
    <3>2. UNCHANGED <<cLpc, cChild, cReady, cError, cClosed, cKpc, cPc, cCalls>>
      BY <2>7 DEF McpHangs!ListTools
    <3> QED
      BY <3>1, <3>2
  <2>8. CASE McpHangs!CheckCall
    BY <2>8, ConstantsAreSound DEF Mcp!Assumption, McpHangs!CheckCall
  <2>9. CASE McpHangs!SubmitCall
    BY <2>9 DEF McpHangs!SubmitCall
  <2>10. CASE McpHangs!CallReturns
    BY <2>10 DEF McpHangs!CallReturns
  <2>11. CASE McpHangs!Cleanup
    BY <2>11 DEF McpHangs!Cleanup
  <2>12. CASE McpHangs!Close
    BY <2>12 DEF McpHangs!Close
  <2>13. CASE McpHangs!StopLoop
    BY <2>13 DEF McpHangs!StopLoop
  <2> QED
    BY <1>2, <2>1, <2>2, <2>3, <2>4, <2>5, <2>6, <2>7, <2>8, <2>9, <2>10, <2>11, <2>12,
       <2>13
       DEF McpHangs!Next, McpHangs!Loop, McpHangs!Opener, McpHangs!Calling, McpHangs!Cleaner
<1>3. ASSUME UNCHANGED mcpVars PROVE Mcp!TypeOK'
  BY <1>3 DEF mcpVars
<1> QED
  BY <1>1, <1>2, <1>3

\* With clean exits every step keeps what thread, constructor and clean-up know of each
\* other.
LEMMA McpNext ==
  ASSUME McpInv, [Mcp!Next]_mcpVars
  PROVE  McpInv'
<1> DEFINE Rest == /\ Mcp!FailedStartEnds /\ Mcp!RegisteredIsLive
                   /\ ThreadHasChild /\ OpenerIsTold /\ CleanerOwns
<1>0. Mcp!TypeOK' /\ Rest /\ Mcp!TypeOK
  BY McpTypeNext DEF McpInv
<1> USE <1>0 DEF Mcp!TypeOK, Mcp!FailedStartEnds, Mcp!RegisteredIsLive, ThreadHasChild,
        OpenerIsTold, CleanerOwns, Mcp!Thread, Mcp!opening, Mcp!session, Mcp!closing, Mcp!calling

<1>1. ASSUME Mcp!Next PROVE Rest'
  <2>1. CASE Mcp!SpawnChild
    BY <2>1 DEF Mcp!SpawnChild
  <2>2. CASE Mcp!Initialize
    BY <2>2 DEF Mcp!Initialize
  <2>3. CASE Mcp!Decide
    BY <2>3 DEF Mcp!Decide
  <2>4. CASE Mcp!Abort
    BY <2>4 DEF Mcp!Abort
  <2>5. CASE Mcp!Announce
    BY <2>5 DEF Mcp!Announce
  <2>6. CASE Mcp!StartReturns
    BY <2>6 DEF Mcp!StartReturns
  <2>7. CASE Mcp!ListTools
    BY <2>7 DEF Mcp!ListTools
  <2>8. CASE Mcp!CheckCall
    BY <2>8 DEF Mcp!CheckCall
  <2>9. CASE Mcp!SubmitCall
    BY <2>9 DEF Mcp!SubmitCall
  <2>10. CASE Mcp!CallReturns
    BY <2>10 DEF Mcp!CallReturns
  <2>11. CASE Mcp!Cleanup
    BY <2>11 DEF Mcp!Cleanup
  <2>12. CASE Mcp!Close
    BY <2>12 DEF Mcp!Close
  <2>13. CASE Mcp!StopLoop
    BY <2>13 DEF Mcp!StopLoop
  <2> QED
    BY <1>1, <2>1, <2>2, <2>3, <2>4, <2>5, <2>6, <2>7, <2>8, <2>9, <2>10, <2>11, <2>12,
       <2>13
       DEF Mcp!Next, Mcp!Loop, Mcp!Opener, Mcp!Calling, Mcp!Cleaner
<1>2. ASSUME UNCHANGED mcpVars PROVE Rest'
  BY <1>2 DEF mcpVars
<1> HIDE DEF Rest
<1>3. Rest'
  BY <1>1, <1>2
<1> QED
  BY <1>0, <1>3 DEF McpInv, Rest

-----------------------------------------------------------------------------
(* The background trees.                                                   *)

\* A shell runs only inside its call; calls that were not made are nowhere.
ShellInCall ==
  /\ \A c \in bShell : bPc[c] = "run"
  /\ \A c \in Trees!Calls : c > bCalls => bPc[c] = "none"

\* The list, the reaper and a stop deal with calls that are over.
ListedIsOver == \A c \in bList \cup bSeen \cup bEnded \cup bTaken : bPc[c] = "over"

\* What the reaper is about to remove runs no more; a stop that is over took nothing away.
EndedIsDead == bEnded \cap bTree = {} /\ (bSpc = "idle" => bTaken = {})

\* The two halves of the type: the counters, and what may range over the calls made.
CountersInRange ==
  bRound \in 0..TreeRounds /\ bCalls \in 0..TreeCalls /\ bStops \in 0..TreeStops
SetsInRange ==
  /\ bLive \in BOOLEAN /\ bFlag \in BOOLEAN
  /\ bPc \in [Trees!Calls -> {"none", "run", "drain", "look", "register", "over"}]
  /\ bShell \subseteq bTree /\ bTree \subseteq Trees!Made /\ bKilled \subseteq Trees!Made
  /\ bList \subseteq Trees!Made /\ bSeen \subseteq Trees!Made
  /\ bEnded \subseteq Trees!Made /\ bTaken \subseteq Trees!Made
  /\ bReaper \in {"none", "look", "check"} /\ bSpc \in {"idle", "kill", "kill live"}

TreesInv ==
  /\ CountersInRange /\ SetsInRange
  /\ Trees!NoTreeIsForgotten /\ Trees!ReaperIsThere
  /\ ShellInCall /\ ListedIsOver /\ EndedIsDead

\* A tree that outlives its call is put on the list, which has a reaper by then; the
\* reaper removes what it has seen dead, and a stop keeps what it takes until it is dead.
LEMMA TreesNext ==
  ASSUME TreesInv, [Trees!Next]_treeVars
  PROVE  TreesInv'
<1> DEFINE Rest == /\ Trees!NoTreeIsForgotten /\ Trees!ReaperIsThere
                   /\ ShellInCall /\ ListedIsOver /\ EndedIsDead
<1>a. /\ TreeCalls \in Nat /\ TreeRounds \in Nat /\ TreeStops \in Nat
      /\ CountersInRange /\ SetsInRange /\ Rest
  BY ConstantsAreSound DEF Trees!Assumption, TreesInv
<1>b. /\ bCalls' = bCalls => Trees!Made' = Trees!Made
      /\ Trees!Made \subseteq Trees!Calls
  BY <1>a DEF Trees!Made, Trees!Calls, CountersInRange
<1> USE <1>a, <1>b DEF Trees!worker, Trees!reaping, Trees!stopping, Trees!Moves, Trees!Terminate

<1>1. ASSUME NEW c \in Trees!Calls,
            \/ Trees!ShellExits(c) \/ Trees!TreeEnds(c) \/ Trees!Works(c)
            \/ Trees!Kill(c) \/ Trees!Check(c)
     PROVE  TreesInv'
  <2>1. CASE Trees!ShellExits(c)
    <3>1. CountersInRange'
      BY <2>1 DEF Trees!ShellExits, CountersInRange
    <3>2. SetsInRange'
      BY <2>1 DEF Trees!ShellExits, SetsInRange
    <3>3. Rest'
      BY <2>1 DEF Trees!ShellExits, SetsInRange, Trees!NoTreeIsForgotten, Trees!ReaperIsThere,
         ShellInCall, ListedIsOver, EndedIsDead
    <3> QED
      BY <3>1, <3>2, <3>3 DEF TreesInv
  <2>2. CASE Trees!TreeEnds(c)
    <3>1. CountersInRange'
      BY <2>2 DEF Trees!TreeEnds, CountersInRange
    <3>2. SetsInRange'
      BY <2>2 DEF Trees!TreeEnds, SetsInRange
    <3>3. Rest'
      BY <2>2 DEF Trees!TreeEnds, SetsInRange, Trees!NoTreeIsForgotten, Trees!ReaperIsThere,
         ShellInCall, ListedIsOver, EndedIsDead
    <3> QED
      BY <3>1, <3>2, <3>3 DEF TreesInv
  <2>3. CASE Trees!Run(c)
    <3>1. CountersInRange'
      BY <2>3 DEF Trees!Run, CountersInRange
    <3>2. SetsInRange'
      BY <2>3 DEF Trees!Run, SetsInRange
    <3>3. Rest'
      BY <2>3 DEF Trees!Run, SetsInRange, Trees!NoTreeIsForgotten, Trees!ReaperIsThere,
         ShellInCall, ListedIsOver, EndedIsDead
    <3> QED
      BY <3>1, <3>2, <3>3 DEF TreesInv
  <2>4. CASE Trees!Drain(c)
    <3>1. CountersInRange'
      BY <2>4 DEF Trees!Drain, CountersInRange
    <3>2. c \in Trees!Made
      BY <2>4 DEF Trees!Drain, ShellInCall, Trees!Made, Trees!Calls, CountersInRange
    <3>3. /\ bPc' = [bPc EXCEPT ![c] = "look"] /\ bPc[c] = "drain"
          /\ UNCHANGED <<bLive, bFlag, bCalls, bList, bReaper, bSeen, bEnded, bSpc, bTaken>>
      BY <2>4 DEF Trees!Drain
    <3>4. \/ UNCHANGED <<bKilled, bShell, bTree>>
          \/ bKilled' = bKilled \cup {c} /\ bShell' = bShell \ {c} /\ bTree' = bTree \ {c}
      BY <2>4 DEF Trees!Drain
    <3>5. SetsInRange'
      <4>1. bPc' \in [Trees!Calls -> {"none", "run", "drain", "look", "register", "over"}]
        BY <3>3 DEF SetsInRange
      <4> QED
        BY <4>1, <3>2, <3>3, <3>4 DEF SetsInRange
    <3>6. Rest'
      BY <2>4 DEF Trees!Drain, SetsInRange, Trees!NoTreeIsForgotten, Trees!ReaperIsThere,
         ShellInCall, ListedIsOver, EndedIsDead
    <3> QED
      BY <3>1, <3>5, <3>6 DEF TreesInv
  <2>5. CASE Trees!Look(c)
    <3>1. CountersInRange'
      BY <2>5 DEF Trees!Look, CountersInRange
    <3>2. SetsInRange'
      BY <2>5 DEF Trees!Look, SetsInRange
    <3>3. Rest'
      BY <2>5 DEF Trees!Look, SetsInRange, Trees!NoTreeIsForgotten, Trees!ReaperIsThere,
         ShellInCall, ListedIsOver, EndedIsDead
    <3> QED
      BY <3>1, <3>2, <3>3 DEF TreesInv
  <2>6. CASE Trees!Register(c)
    <3>1. CountersInRange'
      BY <2>6 DEF Trees!Register, CountersInRange
    <3>2. c \in Trees!Made
      BY <2>6 DEF Trees!Register, ShellInCall, Trees!Made, Trees!Calls, CountersInRange
    <3>3. /\ bPc' = [bPc EXCEPT ![c] = "over"] /\ bList' = bList \cup {c}
          /\ bReaper' = IF bReaper = "none" THEN "look" ELSE bReaper
          /\ UNCHANGED <<bLive, bFlag, bCalls, bKilled, bShell, bTree, bSeen, bEnded, bSpc, bTaken>>
      BY <2>6 DEF Trees!Register
    <3>5. SetsInRange'
      <4>1. bPc' \in [Trees!Calls -> {"none", "run", "drain", "look", "register", "over"}]
        BY <3>3 DEF SetsInRange
      <4> QED
        BY <4>1, <3>2, <3>3 DEF SetsInRange
    <3>6. Trees!NoTreeIsForgotten' /\ Trees!ReaperIsThere'
      BY <3>2, <3>3 DEF SetsInRange, Trees!NoTreeIsForgotten, Trees!ReaperIsThere
    <3>7. bPc[c] = "register" /\ bCalls' = bCalls
      BY <2>6 DEF Trees!Register
    <3>8. ShellInCall'
      BY <3>2, <3>3, <3>7 DEF SetsInRange, ShellInCall
    <3>9. ListedIsOver' /\ EndedIsDead'
      BY <3>2, <3>3, <3>7 DEF SetsInRange, ListedIsOver, EndedIsDead
    <3> QED
      BY <3>1, <3>5, <3>6, <3>8, <3>9 DEF TreesInv
  <2>7. CASE Trees!Kill(c)
    <3>1. CountersInRange'
      BY <2>7 DEF Trees!Kill, CountersInRange
    <3>2. SetsInRange'
      BY <2>7 DEF Trees!Kill, SetsInRange, ShellInCall, ListedIsOver
    <3>3. Rest'
      BY <2>7 DEF Trees!Kill, SetsInRange, Trees!NoTreeIsForgotten, Trees!ReaperIsThere,
         ShellInCall, ListedIsOver, EndedIsDead
    <3> QED
      BY <3>1, <3>2, <3>3 DEF TreesInv
  <2>8. CASE Trees!Check(c)
    <3>1. CountersInRange'
      BY <2>8 DEF Trees!Check, CountersInRange
    <3>2. SetsInRange'
      BY <2>8 DEF Trees!Check, SetsInRange, ShellInCall, ListedIsOver
    <3>3. Rest'
      BY <2>8 DEF Trees!Check, SetsInRange, Trees!NoTreeIsForgotten, Trees!ReaperIsThere,
         ShellInCall, ListedIsOver, EndedIsDead
    <3> QED
      BY <3>1, <3>2, <3>3 DEF TreesInv
  <2> QED
    BY <1>1, <2>1, <2>2, <2>3, <2>4, <2>5, <2>6, <2>7, <2>8
       DEF Trees!Works
<1>2. ASSUME \/ Trees!Call \/ Trees!End \/ Trees!Continue \/ Trees!Stop
            \/ Trees!RaiseFlag \/ Trees!Snapshot \/ Trees!Remove
     PROVE  TreesInv'
  <2>1. CASE Trees!Call
    <3> DEFINE c == bCalls + 1
    <3>1. CountersInRange' /\ c \in Trees!Calls /\ c \notin Trees!Made /\ Trees!Made' = Trees!Made \cup {c}
      BY <2>1 DEF Trees!Call, CountersInRange, Trees!Calls, Trees!Made
    <3>2. \A d \in Trees!Calls : d > bCalls' => d > bCalls /\ d # c
      BY <2>1, <3>1 DEF Trees!Call, CountersInRange, Trees!Calls
    <3> HIDE DEF c
    <3>3. /\ bPc' = [bPc EXCEPT ![c] = "run"] /\ bShell' = bShell \cup {c} /\ bTree' = bTree \cup {c}
          /\ UNCHANGED <<bLive, bKilled, bFlag, bList, bReaper, bSeen, bEnded, bSpc, bTaken>>
      BY <2>1 DEF Trees!Call, c
    <3>4. SetsInRange'
      BY <3>1, <3>3 DEF SetsInRange
    <3>5. c \notin bTree \cup bList \cup bSeen \cup bEnded \cup bTaken
      BY <3>1 DEF SetsInRange
    <3>6. Trees!NoTreeIsForgotten' /\ Trees!ReaperIsThere'
      <4>1. \A d \in bTree' : bPc'[d] = "over" => d \in bTree /\ bPc[d] = "over"
        BY <3>1, <3>3 DEF SetsInRange
      <4> QED
        BY <4>1, <3>3 DEF Trees!NoTreeIsForgotten, Trees!ReaperIsThere
    <3>7. ShellInCall' /\ ListedIsOver' /\ EndedIsDead'
      <4>1. \A d \in bShell' : bPc'[d] = "run"
        BY <3>1, <3>3, <3>5 DEF SetsInRange, ShellInCall
      <4>2. \A d \in Trees!Calls : d > bCalls' => bPc'[d] = "none"
        BY <3>1, <3>2, <3>3 DEF SetsInRange, ShellInCall
      <4>3. ListedIsOver' /\ EndedIsDead'
        BY <3>1, <3>3, <3>5 DEF SetsInRange, ListedIsOver, EndedIsDead
      <4> QED
        BY <4>1, <4>2, <4>3 DEF ShellInCall
    <3> QED
      BY <3>1, <3>4, <3>6, <3>7 DEF TreesInv
  <2>2. CASE Trees!End
    <3>1. CountersInRange'
      BY <2>2 DEF Trees!End, CountersInRange
    <3>2. SetsInRange'
      BY <2>2 DEF Trees!End, SetsInRange
    <3>3. Rest'
      BY <2>2 DEF Trees!End, SetsInRange, Trees!NoTreeIsForgotten, Trees!ReaperIsThere,
         ShellInCall, ListedIsOver, EndedIsDead
    <3> QED
      BY <3>1, <3>2, <3>3 DEF TreesInv
  <2>3. CASE Trees!Continue
    <3>1. CountersInRange'
      BY <2>3 DEF Trees!Continue, CountersInRange
    <3>2. SetsInRange'
      BY <2>3 DEF Trees!Continue, SetsInRange
    <3>3. Rest'
      BY <2>3 DEF Trees!Continue, SetsInRange, Trees!NoTreeIsForgotten, Trees!ReaperIsThere,
         ShellInCall, ListedIsOver, EndedIsDead
    <3> QED
      BY <3>1, <3>2, <3>3 DEF TreesInv
  <2>4. CASE Trees!Stop
    <3>1. CountersInRange'
      <4>1. bStops' = bStops + 1 /\ bStops < TreeStops /\ bStops \in 0..TreeStops /\ TreeStops \in Nat
        BY <2>4 DEF Trees!Stop, CountersInRange
      <4> HIDE <1>a, <1>b
      <4>2. bStops' \in 0..TreeStops
        BY <4>1
      <4> QED
        BY <2>4, <1>a, <4>2 DEF Trees!Stop, CountersInRange
    <3>2. SetsInRange'
      BY <2>4 DEF Trees!Stop, SetsInRange
    <3>3. Rest'
      BY <2>4 DEF Trees!Stop, SetsInRange, Trees!NoTreeIsForgotten, Trees!ReaperIsThere,
         ShellInCall, ListedIsOver, EndedIsDead
    <3> QED
      BY <3>1, <3>2, <3>3 DEF TreesInv
  <2>5. CASE Trees!RaiseFlag
    <3>1. CountersInRange'
      BY <2>5 DEF Trees!RaiseFlag, CountersInRange
    <3>2. SetsInRange'
      BY <2>5 DEF Trees!RaiseFlag, SetsInRange
    <3>3. Rest'
      BY <2>5 DEF Trees!RaiseFlag, SetsInRange, Trees!NoTreeIsForgotten, Trees!ReaperIsThere,
         ShellInCall, ListedIsOver, EndedIsDead
    <3> QED
      BY <3>1, <3>2, <3>3 DEF TreesInv
  <2>6. CASE Trees!Snapshot
    <3>1. CountersInRange'
      BY <2>6 DEF Trees!Snapshot, CountersInRange
    <3>2. SetsInRange'
      BY <2>6 DEF Trees!Snapshot, SetsInRange
    <3>3. Rest'
      BY <2>6 DEF Trees!Snapshot, SetsInRange, Trees!NoTreeIsForgotten, Trees!ReaperIsThere,
         ShellInCall, ListedIsOver, EndedIsDead
    <3> QED
      BY <3>1, <3>2, <3>3 DEF TreesInv
  <2>7. CASE Trees!Remove
    <3>1. CountersInRange'
      BY <2>7 DEF Trees!Remove, CountersInRange
    <3>2. SetsInRange'
      BY <2>7 DEF Trees!Remove, SetsInRange
    <3>3. Rest'
      BY <2>7 DEF Trees!Remove, SetsInRange, Trees!NoTreeIsForgotten, Trees!ReaperIsThere,
         ShellInCall, ListedIsOver, EndedIsDead
    <3> QED
      BY <3>1, <3>2, <3>3 DEF TreesInv
  <2> QED
    BY <1>2, <2>1, <2>2, <2>3, <2>4, <2>5, <2>6, <2>7
<1>3. ASSUME UNCHANGED treeVars PROVE TreesInv'
  BY <1>3 DEF treeVars, TreesInv, CountersInRange, SetsInRange, Trees!NoTreeIsForgotten,
     Trees!ReaperIsThere, ShellInCall, ListedIsOver, EndedIsDead
<1> QED
  BY <1>1, <1>2, <1>3 DEF Trees!Next, Trees!Reap

-----------------------------------------------------------------------------
(* The sub-agents' pool.                                                   *)

\* The two halves of the type: the threads, and what is counted.
PoolStates ==
  /\ wPpc \in [Parents -> {"idle", "run", "wait", "cancel", "hook", "tell"}]
  /\ wSt \in [Pool!Subs -> {"none", "queued", "starting", "node", "busy", "landed", "done", "cancelled"}]
  /\ wOf \in [Pool!Subs -> Parents]
  /\ wPflag \subseteq Parents /\ wSflag \subseteq Pool!Subs /\ wHooked \subseteq Pool!Subs
  /\ wLeft \in [Parents -> SUBSET {"flag", "pin"}] /\ wRobbed \subseteq Parents
PoolCounts ==
  /\ wCur \in [Parents -> 0..MaxSubs] /\ wChosen \in [Parents -> 0..MaxSwitches]
  /\ wOwn \in [Parents -> 0..(MaxSwitches + 1)] /\ wPin \in [Parents -> 0..(MaxSwitches + 1)]
  /\ wDue \in [Pool!Subs -> 0..(MaxSwitches + 1)]
  /\ wWith \in [Pool!Subs -> 0..(MaxSwitches + 1)] /\ wSteps \in [Pool!Subs -> 0..MaxSteps]
  /\ wTold \in [Pool!Subs -> 0..1]

\* A round that waits does so for a sub-task of its own, spawned under its model and not yet
\* told, which only the round itself takes back.
WaitedFor ==
  \A p \in Parents : wPpc[p] \in {"wait", "cancel", "hook", "tell"} =>
    /\ wCur[p] \in Pool!Subs /\ wOf[wCur[p]] = p /\ wTold[wCur[p]] = 0
    /\ wDue[wCur[p]] = wOwn[p] /\ wSt[wCur[p]] # "none"
    /\ wPpc[p] \in {"wait", "cancel", "hook"} => wSt[wCur[p]] # "cancelled"
    /\ wPpc[p] = "hook" => wSt[wCur[p]] # "queued"

\* A round is pinned to its model until a worker of an earlier one takes the pin; a sub-task
\* that was not spawned has nothing.
PinnedInRound ==
  \A p \in Parents : wPpc[p] # "idle" => wOwn[p] # 0 /\ (wPin[p] = wOwn[p] \/ p \in wRobbed)
FreshIsBlank == \A s \in Pool!Subs : wSt[s] = "none" => wTold[s] = 0 /\ wWith[s] = 0

\* Sub-tasks are numbered in the order in which they are spawned.
SpawnedInOrder == \E n \in 0..MaxSubs : \A x \in Pool!Subs : wSt[x] # "none" <=> x \in 1..n

\* An end that is told, or about to be, is a future's, a cancelled one's or a flagged one's.
EndIsReal(s) == Pool!Finished(s) \/ wSt[s] = "cancelled" \/ s \in wSflag
ToldIsOver ==
  /\ \A p \in Parents : wPpc[p] \in {"hook", "tell"} => EndIsReal(wCur[p])
  /\ \A s \in Pool!Subs : wTold[s] > 0 => EndIsReal(s)
FlagIsLate == \A s \in wSflag : wSt[s] \notin {"none", "queued"}

PoolInv ==
  /\ PoolStates /\ PoolCounts
  /\ WaitedFor /\ PinnedInRound /\ FreshIsBlank /\ Pool!RoundsModel
  /\ Pool!FlagsDrain /\ ToldIsOver /\ FlagIsLate
  /\ SpawnedInOrder

\* The pool counts with the Cardinality that the library's theorems are about.
LEMMA PoolCardinality == \A S : Pool!Cardinality(S) = Cardinality(S)
  BY DEF Pool!Cardinality, Cardinality

\* The sub-task that a round spawns is one that was not spawned before.
LEMMA SpawnIsFresh ==
  ASSUME PoolInv, NEW s \in Pool!Subs, s = 1 + Cardinality(Pool!Spawned)
  PROVE  /\ wSt[s] = "none"
         /\ \A x \in Pool!Subs : wSt[x] # "none" <=> x \in 1..(s - 1)
<1>1. PICK n \in 0..MaxSubs : \A x \in Pool!Subs : wSt[x] # "none" <=> x \in 1..n
  BY DEF PoolInv, SpawnedInOrder
<1>2. MaxSubs \in Nat /\ n \in Nat /\ 1 \in Int
  BY <1>1, ConstantsAreSound DEF Pool!Assumption
<1>3. 1..n \subseteq Pool!Subs
  BY <1>1, <1>2 DEF Pool!Subs
<1>4. Pool!Spawned = 1..n
  BY <1>1, <1>3 DEF Pool!Spawned
<1>5. Cardinality(1..n) = n
  BY <1>2, FS_Interval
<1>6. s = n + 1
  BY <1>2, <1>4, <1>5
<1>7. s \notin 1..n /\ s - 1 = n
  BY <1>2, <1>6
<1> QED
  BY <1>1, <1>7

\* A switch of the model reaches the next round, a timeout flags what has begun, and the
\* flag goes with whichever of the callback's owner and the future is last.
LEMMA PoolNext ==
  ASSUME PoolInv, [Pool!Next]_workerVars
  PROVE  PoolInv'
<1> DEFINE Rounds == WaitedFor /\ PinnedInRound /\ FreshIsBlank /\ Pool!RoundsModel
           Flags == Pool!FlagsDrain /\ ToldIsOver /\ FlagIsLate
<1>a. /\ MaxSubs \in Nat /\ MaxSteps \in Nat /\ MaxSwitches \in Nat
      /\ PoolStates /\ PoolCounts /\ Rounds /\ Flags /\ SpawnedInOrder
  BY ConstantsAreSound DEF Pool!Assumption, PoolInv
<1> USE <1>a DEF Pool!rounds, Pool!threads, Pool!flags, Pool!Goes, Pool!Comes, Pool!Finished

<1>1. ASSUME NEW p \in Parents,
            \/ Pool!Begin(p) \/ Pool!Spawn(p) \/ Pool!Teardown(p) \/ Pool!Unflag(p) \/ Pool!Unpin(p)
            \/ Pool!Stop(p) \/ Pool!Switch(p) \/ Pool!Waiting(p)
     PROVE  PoolInv'
  <2>1. CASE Pool!Begin(p)
    <3>1. PoolStates'
      BY <2>1 DEF Pool!Begin, PoolStates
    <3>2. PoolCounts'
      BY <2>1 DEF Pool!Begin, PoolCounts
    <3>3. Rounds'
      BY <2>1 DEF Pool!Begin, PoolStates, PoolCounts, WaitedFor, PinnedInRound, FreshIsBlank, Pool!RoundsModel
    <3>4. Flags'
      BY <2>1 DEF Pool!Begin, PoolStates, Pool!FlagsDrain, ToldIsOver, EndIsReal, FlagIsLate, Pool!Running, WaitedFor
    <3>5. SpawnedInOrder'
      BY <2>1 DEF Pool!Begin, PoolStates, SpawnedInOrder
    <3> QED
      BY <3>1, <3>2, <3>3, <3>4, <3>5 DEF PoolInv
  <2>2. CASE Pool!Spawn(p)
    <3>1. PICK s \in Pool!Subs :
            /\ s = 1 + Cardinality(Pool!Spawned)
            /\ wSt' = [wSt EXCEPT ![s] = "queued"] /\ wOf' = [wOf EXCEPT ![s] = p]
            /\ wDue' = [wDue EXCEPT ![s] = wOwn[p]] /\ wCur' = [wCur EXCEPT ![p] = s]
      BY <2>2, PoolCardinality DEF Pool!Spawn
    <3>2. wSt[s] = "none" /\ \A x \in Pool!Subs : wSt[x] # "none" <=> x \in 1..(s - 1)
      BY <3>1, SpawnIsFresh
    <3>3. /\ wPpc[p] = "run" /\ wPpc' = [wPpc EXCEPT ![p] = "wait"]
          /\ UNCHANGED <<wChosen, wOwn, wPin, wLeft, wRobbed, wWith, wSteps, wPflag, wSflag, wHooked, wTold>>
      BY <2>2 DEF Pool!Spawn
    <3>4. PoolStates'
      BY <3>1, <3>3 DEF PoolStates
    <3>5. PoolCounts'
      <4>1. s \in 0..MaxSubs
        BY DEF Pool!Subs
      <4>2. wOwn[p] \in 0..(MaxSwitches + 1)
        BY DEF PoolCounts
      <4>3. wCur' \in [Parents -> 0..MaxSubs]
        BY <3>1, <4>1 DEF PoolCounts
      <4>4. wDue' \in [Pool!Subs -> 0..(MaxSwitches + 1)]
        BY <3>1, <4>2 DEF PoolCounts
      <4> QED
        BY <3>3, <4>3, <4>4 DEF PoolCounts
    <3>6. WaitedFor'
      <4> SUFFICES ASSUME NEW q \in Parents, wPpc'[q] \in {"wait", "cancel", "hook", "tell"}
                   PROVE  /\ wCur'[q] \in Pool!Subs /\ wOf'[wCur'[q]] = q /\ wTold'[wCur'[q]] = 0
                          /\ wDue'[wCur'[q]] = wOwn'[q] /\ wSt'[wCur'[q]] # "none"
                          /\ wPpc'[q] \in {"wait", "cancel", "hook"} => wSt'[wCur'[q]] # "cancelled"
                          /\ wPpc'[q] = "hook" => wSt'[wCur'[q]] # "queued"
        BY DEF WaitedFor
      <4>1. CASE q = p
        BY <3>1, <3>2, <3>3, <4>1 DEF PoolStates, PoolCounts, FreshIsBlank
      <4>2. CASE q # p
        BY <3>1, <3>2, <3>3, <4>2 DEF PoolStates, PoolCounts, WaitedFor
      <4> QED
        BY <4>1, <4>2
    <3>7. PinnedInRound' /\ FreshIsBlank'
      BY <3>1, <3>3 DEF PoolStates, PinnedInRound, FreshIsBlank
    <3>8. Pool!RoundsModel'
      <4> SUFFICES ASSUME NEW q \in Parents, wPpc'[q] = "wait", wWith'[wCur'[q]] # 0
                   PROVE  wWith'[wCur'[q]] = wDue'[wCur'[q]] \/ q \in wRobbed'
        BY DEF Pool!RoundsModel
      <4>1. CASE q = p
        BY <3>1, <3>2, <3>3, <4>1 DEF PoolCounts, FreshIsBlank
      <4>2. CASE q # p
        BY <3>1, <3>2, <3>3, <4>2 DEF PoolStates, PoolCounts, WaitedFor, Pool!RoundsModel
      <4> QED
        BY <4>1, <4>2
    <3>9. Flags'
      <4>1. s \notin wSflag
        BY <3>2 DEF FlagIsLate
      <4>2. FlagIsLate'
        BY <3>1, <3>3, <4>1 DEF PoolStates, FlagIsLate
      <4>3. ToldIsOver'
        <5>1. \A q \in Parents : wPpc'[q] \in {"hook", "tell"} => wPpc[q] = wPpc'[q] /\ q # p /\ wCur'[q] = wCur[q] /\ wCur[q] \in Pool!Subs /\ wCur[q] # s
          BY <3>1, <3>2, <3>3 DEF PoolStates, PoolCounts, WaitedFor
        <5>2. \A x \in Pool!Subs : x # s => wSt'[x] = wSt[x]
          BY <3>1 DEF PoolStates
        <5>3. wTold[s] = 0
          BY <3>2 DEF FreshIsBlank
        <5> QED
          BY <3>3, <5>1, <5>2, <5>3 DEF PoolStates, ToldIsOver, EndIsReal
      <4>4. Pool!FlagsDrain'
        <5>1. \A x \in wSflag : x # s /\ wSt'[x] = wSt[x]
          BY <3>1, <4>1 DEF PoolStates
        <5>2. \A q \in Parents : wPpc[q] = "hook" => q # p /\ wCur'[q] = wCur[q] /\ wPpc'[q] = wPpc[q]
          BY <3>1, <3>3 DEF PoolStates, PoolCounts
        <5> QED
          BY <3>3, <5>1, <5>2 DEF PoolStates, Pool!FlagsDrain, Pool!Running
      <4> QED
        BY <4>2, <4>3, <4>4
    <3>10. SpawnedInOrder'
      <4>1. s \in 0..MaxSubs /\ s \in Nat /\ \A x \in Pool!Subs : x \in 1..s <=> x \in 1..(s - 1) \/ x = s
        BY DEF Pool!Subs
      <4>2. \A x \in Pool!Subs : wSt'[x] # "none" <=> x \in 1..s
        BY <3>1, <3>2, <4>1 DEF PoolStates
      <4> QED
        BY <4>1, <4>2 DEF SpawnedInOrder
    <3> QED
      BY <3>4, <3>5, <3>6, <3>7, <3>8, <3>9, <3>10 DEF PoolInv
  <2>3. CASE Pool!Teardown(p)
    <3>1. PoolStates'
      BY <2>3 DEF Pool!Teardown, PoolStates
    <3>2. PoolCounts'
      BY <2>3 DEF Pool!Teardown, PoolCounts
    <3>3. Rounds'
      BY <2>3 DEF Pool!Teardown, PoolStates, PoolCounts, WaitedFor, PinnedInRound, FreshIsBlank, Pool!RoundsModel
    <3>4. Flags'
      BY <2>3 DEF Pool!Teardown, PoolStates, Pool!FlagsDrain, ToldIsOver, EndIsReal, FlagIsLate, Pool!Running, WaitedFor
    <3>5. SpawnedInOrder'
      BY <2>3 DEF Pool!Teardown, PoolStates, SpawnedInOrder
    <3> QED
      BY <3>1, <3>2, <3>3, <3>4, <3>5 DEF PoolInv
  <2>4. CASE Pool!Unpin(p)
    <3>1. PoolStates'
      <4>1. PICK others \in SUBSET {"pin"} :
              wLeft' = [wLeft EXCEPT ![p] = (@ \ {"pin"}) \cup others]
        BY <2>4 DEF Pool!Unpin
      <4>2. wLeft' \in [Parents -> SUBSET {"flag", "pin"}]
        BY <4>1 DEF PoolStates
      <4> QED
        BY <2>4, <4>2 DEF Pool!Unpin, PoolStates
    <3>2. PoolCounts'
      BY <2>4 DEF Pool!Unpin, PoolCounts
    <3>3. Rounds'
      BY <2>4 DEF Pool!Unpin, PoolStates, PoolCounts, WaitedFor, PinnedInRound, FreshIsBlank, Pool!RoundsModel
    <3>4. Flags'
      BY <2>4 DEF Pool!Unpin, PoolStates, Pool!FlagsDrain, ToldIsOver, EndIsReal, FlagIsLate, Pool!Running, WaitedFor
    <3>5. SpawnedInOrder'
      BY <2>4 DEF Pool!Unpin, PoolStates, SpawnedInOrder
    <3> QED
      BY <3>1, <3>2, <3>3, <3>4, <3>5 DEF PoolInv
  <2>5. CASE Pool!Stop(p)
    <3>1. PoolStates'
      BY <2>5 DEF Pool!Stop, PoolStates
    <3>2. PoolCounts'
      BY <2>5 DEF Pool!Stop, PoolCounts
    <3>3. Rounds'
      BY <2>5 DEF Pool!Stop, PoolStates, PoolCounts, WaitedFor, PinnedInRound, FreshIsBlank, Pool!RoundsModel
    <3>4. Flags'
      BY <2>5 DEF Pool!Stop, PoolStates, Pool!FlagsDrain, ToldIsOver, EndIsReal, FlagIsLate, Pool!Running, WaitedFor
    <3>5. SpawnedInOrder'
      BY <2>5 DEF Pool!Stop, PoolStates, SpawnedInOrder
    <3> QED
      BY <3>1, <3>2, <3>3, <3>4, <3>5 DEF PoolInv
  <2>6. CASE Pool!Switch(p)
    <3>1. PoolStates'
      BY <2>6 DEF Pool!Switch, PoolStates
    <3>2. PoolCounts'
      BY <2>6 DEF Pool!Switch, PoolCounts
    <3>3. Rounds'
      BY <2>6 DEF Pool!Switch, PoolStates, PoolCounts, WaitedFor, PinnedInRound, FreshIsBlank, Pool!RoundsModel
    <3>4. Flags'
      BY <2>6 DEF Pool!Switch, PoolStates, Pool!FlagsDrain, ToldIsOver, EndIsReal, FlagIsLate, Pool!Running, WaitedFor
    <3>5. SpawnedInOrder'
      BY <2>6 DEF Pool!Switch, PoolStates, SpawnedInOrder
    <3> QED
      BY <3>1, <3>2, <3>3, <3>4, <3>5 DEF PoolInv
  <2>7. CASE Pool!Answered(p)
    <3>1. PoolStates'
      BY <2>7 DEF Pool!Answered, PoolStates
    <3>2. PoolCounts'
      BY <2>7 DEF Pool!Answered, PoolCounts
    <3>3. Rounds'
      BY <2>7 DEF Pool!Answered, PoolStates, PoolCounts, WaitedFor, PinnedInRound, FreshIsBlank, Pool!RoundsModel
    <3>4. Flags'
      BY <2>7 DEF Pool!Answered, PoolStates, Pool!FlagsDrain, ToldIsOver, EndIsReal, FlagIsLate, Pool!Running, WaitedFor
    <3>5. SpawnedInOrder'
      BY <2>7 DEF Pool!Answered, PoolStates, SpawnedInOrder
    <3> QED
      BY <3>1, <3>2, <3>3, <3>4, <3>5 DEF PoolInv
  <2>8. CASE Pool!TimeOut(p)
    <3>1. PoolStates'
      BY <2>8 DEF Pool!TimeOut, PoolStates
    <3>2. PoolCounts'
      BY <2>8 DEF Pool!TimeOut, PoolCounts
    <3>3. Rounds'
      BY <2>8 DEF Pool!TimeOut, PoolStates, PoolCounts, WaitedFor, PinnedInRound, FreshIsBlank, Pool!RoundsModel
    <3>4. Flags'
      BY <2>8 DEF Pool!TimeOut, PoolStates, Pool!FlagsDrain, ToldIsOver, EndIsReal, FlagIsLate, Pool!Running, WaitedFor
    <3>5. SpawnedInOrder'
      BY <2>8 DEF Pool!TimeOut, PoolStates, SpawnedInOrder
    <3> QED
      BY <3>1, <3>2, <3>3, <3>4, <3>5 DEF PoolInv
  <2>9. CASE Pool!Cancel(p)
    <3>1. PoolStates'
      BY <2>9 DEF Pool!Cancel, PoolStates, WaitedFor
    <3>2. PoolCounts'
      BY <2>9 DEF Pool!Cancel, PoolCounts
    <3>3. Rounds'
      BY <2>9 DEF Pool!Cancel, PoolStates, PoolCounts, WaitedFor, PinnedInRound, FreshIsBlank, Pool!RoundsModel
    <3>4. Flags'
      BY <2>9 DEF Pool!Cancel, PoolStates, Pool!FlagsDrain, ToldIsOver, EndIsReal, FlagIsLate, Pool!Running, WaitedFor
    <3>5. SpawnedInOrder'
      BY <2>9 DEF Pool!Cancel, PoolStates, SpawnedInOrder
    <3> QED
      BY <3>1, <3>2, <3>3, <3>4, <3>5 DEF PoolInv
  <2>10. CASE Pool!Hook(p)
    <3>1. PoolStates'
      BY <2>10 DEF Pool!Hook, PoolStates, WaitedFor
    <3>2. PoolCounts'
      BY <2>10 DEF Pool!Hook, PoolCounts
    <3>3. Rounds'
      BY <2>10 DEF Pool!Hook, PoolStates, PoolCounts, WaitedFor, PinnedInRound, FreshIsBlank, Pool!RoundsModel
    <3>4. Flags'
      <4> DEFINE s == wCur[p]
      <4>1. /\ s \in Pool!Subs /\ wOf[s] = p /\ wSt[s] \notin {"none", "queued", "cancelled"}
            /\ EndIsReal(s)
        BY <2>10 DEF Pool!Hook, WaitedFor, ToldIsOver
      <4>2. \A q \in Parents : q # p /\ wPpc[q] = "hook" => wCur[q] # s /\ wPpc'[q] = "hook"
        BY <2>10 DEF Pool!Hook, WaitedFor, PoolStates
      <4>3. /\ wPpc' = [wPpc EXCEPT ![p] = "tell"] /\ UNCHANGED <<wCur, wSt, wTold>>
            /\ \/ Pool!Finished(s) /\ wSflag' = wSflag \ {s} /\ UNCHANGED wHooked
               \/ ~Pool!Finished(s) /\ wHooked' = wHooked \cup {s} /\ UNCHANGED wSflag
        BY <2>10 DEF Pool!Hook
      <4> HIDE DEF s
      <4>4. Pool!FlagsDrain'
        BY <4>1, <4>2, <4>3 DEF PoolStates, Pool!FlagsDrain, Pool!Running, s
      <4>5. \A x \in Pool!Subs : EndIsReal(x) => EndIsReal(x)'
        BY <4>3 DEF EndIsReal
      <4>6. ToldIsOver'
        BY <4>1, <4>3, <4>5 DEF PoolStates, ToldIsOver, WaitedFor, s
      <4>7. FlagIsLate'
        BY <4>3 DEF FlagIsLate
      <4> QED
        BY <4>4, <4>6, <4>7
    <3>5. SpawnedInOrder'
      BY <2>10 DEF Pool!Hook, PoolStates, SpawnedInOrder
    <3> QED
      BY <3>1, <3>2, <3>3, <3>4, <3>5 DEF PoolInv
  <2>11. CASE Pool!Tell(p)
    <3>1. PoolStates'
      BY <2>11 DEF Pool!Tell, PoolStates
    <3>2. PoolCounts'
      BY <2>11 DEF Pool!Tell, PoolStates, PoolCounts, WaitedFor
    <3>3. Rounds'
      BY <2>11 DEF Pool!Tell, PoolStates, PoolCounts, WaitedFor, PinnedInRound, FreshIsBlank, Pool!RoundsModel
    <3>4. Flags'
      BY <2>11 DEF Pool!Tell, PoolStates, Pool!FlagsDrain, ToldIsOver, EndIsReal, FlagIsLate, Pool!Running, WaitedFor
    <3>5. SpawnedInOrder'
      BY <2>11 DEF Pool!Tell, PoolStates, SpawnedInOrder
    <3> QED
      BY <3>1, <3>2, <3>3, <3>4, <3>5 DEF PoolInv
  <2>12. CASE Pool!Unflag(p)
    <3>1. PoolStates'
      <4>1. PICK others \in SUBSET {"flag"} :
              wLeft' = [wLeft EXCEPT ![p] = (@ \ {"flag"}) \cup others \cup {"pin"}]
        BY <2>12 DEF Pool!Unflag
      <4>2. wLeft' \in [Parents -> SUBSET {"flag", "pin"}]
        BY <4>1 DEF PoolStates
      <4> QED
        BY <2>12, <4>2 DEF Pool!Unflag, PoolStates
    <3>2. PoolCounts'
      BY <2>12 DEF Pool!Unflag, PoolCounts
    <3>3. Rounds'
      BY <2>12 DEF Pool!Unflag, PoolStates, PoolCounts, WaitedFor, PinnedInRound, FreshIsBlank, Pool!RoundsModel
    <3>4. Flags'
      BY <2>12 DEF Pool!Unflag, PoolStates, Pool!FlagsDrain, ToldIsOver, EndIsReal, FlagIsLate, Pool!Running, WaitedFor
    <3>5. SpawnedInOrder'
      BY <2>12 DEF Pool!Unflag, PoolStates, SpawnedInOrder
    <3> QED
      BY <3>1, <3>2, <3>3, <3>4, <3>5 DEF PoolInv
  <2> QED
    BY <1>1, <2>1, <2>2, <2>3, <2>4, <2>5, <2>6, <2>7, <2>8, <2>9, <2>10, <2>11,
       <2>12 DEF Pool!Waiting
<1>2. ASSUME NEW s \in Pool!Subs, Pool!Thread(s) PROVE PoolInv'
  <2>1. CASE Pool!Take(s)
    <3>1. PoolStates'
      BY <2>1 DEF Pool!Take, PoolStates
    <3>2. PoolCounts'
      BY <2>1 DEF Pool!Take, PoolCounts
    <3>3. Rounds'
      BY <2>1 DEF Pool!Take, PoolStates, PoolCounts, WaitedFor, PinnedInRound, FreshIsBlank, Pool!RoundsModel
    <3>4. Flags'
      BY <2>1 DEF Pool!Take, PoolStates, Pool!FlagsDrain, ToldIsOver, EndIsReal, FlagIsLate, Pool!Running, WaitedFor
    <3>5. SpawnedInOrder'
      BY <2>1 DEF Pool!Take, PoolStates, SpawnedInOrder
    <3> QED
      BY <3>1, <3>2, <3>3, <3>4, <3>5 DEF PoolInv
  <2>2. CASE Pool!Pick(s)
    <3>1. PoolStates'
      BY <2>2 DEF Pool!Pick, PoolStates
    <3>2. PoolCounts'
      <4>1. wChosen[wOf[s]] + 1 \in 0..(MaxSwitches + 1) /\ wPin[wOf[s]] \in 0..(MaxSwitches + 1)
        BY DEF PoolStates, PoolCounts
      <4>2. wWith' \in [Pool!Subs -> 0..(MaxSwitches + 1)]
        BY <2>2, <4>1 DEF Pool!Pick, PoolCounts
      <4> QED
        BY <2>2, <4>2 DEF Pool!Pick, PoolCounts
    <3>3. Rounds'
      BY <2>2 DEF Pool!Pick, PoolStates, PoolCounts, WaitedFor, PinnedInRound, FreshIsBlank, Pool!RoundsModel
    <3>4. Flags'
      BY <2>2 DEF Pool!Pick, PoolStates, Pool!FlagsDrain, ToldIsOver, EndIsReal, FlagIsLate, Pool!Running, WaitedFor
    <3>5. SpawnedInOrder'
      BY <2>2 DEF Pool!Pick, PoolStates, SpawnedInOrder
    <3> QED
      BY <3>1, <3>2, <3>3, <3>4, <3>5 DEF PoolInv
  <2>3. CASE Pool!Enter(s)
    <3>1. PoolStates'
      BY <2>3 DEF Pool!Enter, PoolStates
    <3>2. PoolCounts'
      BY <2>3 DEF Pool!Enter, PoolCounts
    <3>3. Rounds'
      BY <2>3 DEF Pool!Enter, PoolStates, PoolCounts, WaitedFor, PinnedInRound, FreshIsBlank, Pool!RoundsModel
    <3>4. Flags'
      BY <2>3 DEF Pool!Enter, PoolStates, Pool!FlagsDrain, ToldIsOver, EndIsReal, FlagIsLate, Pool!Running, WaitedFor
    <3>5. SpawnedInOrder'
      BY <2>3 DEF Pool!Enter, PoolStates, SpawnedInOrder
    <3> QED
      BY <3>1, <3>2, <3>3, <3>4, <3>5 DEF PoolInv
  <2>4. CASE Pool!Leave(s)
    <3>1. PoolStates'
      BY <2>4 DEF Pool!Leave, PoolStates
    <3>2. PoolCounts'
      BY <2>4 DEF Pool!Leave, PoolCounts
    <3>3. Rounds'
      BY <2>4 DEF Pool!Leave, PoolStates, PoolCounts, WaitedFor, PinnedInRound, FreshIsBlank, Pool!RoundsModel
    <3>4. Flags'
      BY <2>4 DEF Pool!Leave, PoolStates, Pool!FlagsDrain, ToldIsOver, EndIsReal, FlagIsLate, Pool!Running, WaitedFor
    <3>5. SpawnedInOrder'
      BY <2>4 DEF Pool!Leave, PoolStates, SpawnedInOrder
    <3> QED
      BY <3>1, <3>2, <3>3, <3>4, <3>5 DEF PoolInv
  <2>5. CASE Pool!Work(s)
    <3>1. PoolStates'
      BY <2>5 DEF Pool!Work, PoolStates
    <3>2. PoolCounts'
      BY <2>5 DEF Pool!Work, PoolCounts
    <3>3. Rounds'
      BY <2>5 DEF Pool!Work, PoolStates, PoolCounts, WaitedFor, PinnedInRound, FreshIsBlank, Pool!RoundsModel
    <3>4. Flags'
      BY <2>5 DEF Pool!Work, PoolStates, Pool!FlagsDrain, ToldIsOver, EndIsReal, FlagIsLate, Pool!Running, WaitedFor
    <3>5. SpawnedInOrder'
      BY <2>5 DEF Pool!Work, PoolStates, SpawnedInOrder
    <3> QED
      BY <3>1, <3>2, <3>3, <3>4, <3>5 DEF PoolInv
  <2>6. CASE Pool!Free(s)
    <3>1. PoolStates'
      BY <2>6 DEF Pool!Free, PoolStates
    <3>2. PoolCounts'
      BY <2>6 DEF Pool!Free, PoolCounts
    <3>3. Rounds'
      BY <2>6 DEF Pool!Free, PoolStates, PoolCounts, WaitedFor, PinnedInRound, FreshIsBlank, Pool!RoundsModel
    <3>4. Flags'
      BY <2>6 DEF Pool!Free, PoolStates, Pool!FlagsDrain, ToldIsOver, EndIsReal, FlagIsLate, Pool!Running, WaitedFor
    <3>5. SpawnedInOrder'
      BY <2>6 DEF Pool!Free, PoolStates, SpawnedInOrder
    <3> QED
      BY <3>1, <3>2, <3>3, <3>4, <3>5 DEF PoolInv
  <2> QED
    BY <1>2, <2>1, <2>2, <2>3, <2>4, <2>5, <2>6
       DEF Pool!Thread
<1>3. ASSUME UNCHANGED workerVars PROVE PoolInv'
  BY <1>3 DEF workerVars, PoolInv, PoolStates, PoolCounts, WaitedFor, PinnedInRound, FreshIsBlank,
     Pool!RoundsModel, Pool!FlagsDrain, ToldIsOver, EndIsReal, FlagIsLate, Pool!Running, SpawnedInOrder
<1> QED
  BY <1>1, <1>2, <1>3 DEF Pool!Next

-----------------------------------------------------------------------------
(* The trace recorder.                                                     *)

\* The type in two parts: what is counted by the rounds, and the rest.
TraceCounts ==
  /\ tRound \in 0..EraRounds /\ tTold \subseteq 1..tRound /\ tReg \in 0..tRound
  /\ tTaken \in [Recorder!Procs -> 0..EraRounds]
TraceStates ==
  /\ tParked \in BOOLEAN /\ tGone \in BOOLEAN
  /\ tCpc \in {"idle", "attach", "subscribe", "check", "unsub", "flip", "tell", "start",
               "close", "forget"}
  /\ tWpc \in [Recorder!Rounds -> {"none", "made", "run", "end", "pop", "close", "forget", "done",
                                   "skipped", "refused"}]
  /\ tDpc \in {"idle", "close", "forget", "drop", "done"}
  /\ tSubs \subseteq Recorder!Rounds
  /\ tHanding \in [Recorder!Procs -> [event : Recorder!Events, to : SUBSET Recorder!Rounds]]
  /\ tLines \in [Recorder!Events -> Nat]

\* One round at most is being opened, and no worker comes before its round is.
OneRoundOpens ==
  /\ \A r \in Recorder!Rounds : r > tRound => tWpc[r] = "none"
  /\ tCpc # "idle" => tRound > 0 /\ tWpc[tRound] = "none"
  /\ \A r \in Recorder!Rounds : r < tRound \/ (r = tRound /\ tCpc = "idle") => tWpc[r] # "none"

\* A callback that a close has taken off the recorder never comes back to it.
TakenOnce ==
  /\ \A p \in Recorder!Procs : tTaken[p] <= tRound /\ (tTaken[p] # 0 => tTaken[p] # tReg)
  /\ tCpc = "attach" => tReg # tRound /\ \A p \in Recorder!Procs : tTaken[p] # tRound
  /\ tCpc = "unsub" => tReg # tRound
  /\ tCpc = "forget" => tReg = 0

\* Who is about to take a callback off the bus that the recorder does not hold any more.
Forgets(p) ==
  \/ p \in Recorder!Rounds /\ tWpc[p] = "forget"
  \/ p = Recorder!opener /\ tCpc = "forget"
  \/ p = Recorder!deleter /\ tDpc = "forget"

\* A callback on the bus is the recorder's, or somebody is about to take it off; the
\* recorder's is on the bus, or is about to be.
SubsExplained ==
  \A c \in tSubs :
    \/ c = tReg
    \/ \E p \in Recorder!Procs : Forgets(p) /\ tTaken[p] = c
    \/ tCpc \in {"check", "unsub"} /\ c = tRound
RegSubscribed == tReg # 0 /\ ~tGone => tReg \in tSubs \/ (tCpc = "subscribe" /\ tReg = tRound)

\* Whoever holds the registration has its close still to come.
RegHasWorker ==
  /\ tReg # 0 => tWpc[tReg] # "refused"
  /\ tReg # 0 /\ ~tGone => tWpc[tReg] \notin {"forget", "done", "skipped"}
  /\ tGone <=> tDpc # "idle"
  /\ \A r \in Recorder!Rounds : tWpc[r] = "skipped" => tGone

\* The event is in the file, or its publisher still has the open file's callback to call.
InFlight(p, e) == tHanding[p].event = e /\ (tLines[e] > 0 \/ tReg \in tHanding[p].to)

\* What a round that opened the file has published is in it or on its way.
EraInFile ==
  ~tGone => \A r \in Recorder!Rounds :
    /\ tReg = r /\ r = tRound /\ tCpc = "start" => InFlight(Recorder!opener, <<r, "open">>)
    /\ tReg = r \/ tTaken[r] = r =>
         /\ tWpc[r] # "none" => tLines[<<r, "open">>] > 0
         /\ tWpc[r] \in {"pop", "close", "forget", "done"} => tLines[<<r, "work">>] > 0
    /\ tReg = r /\ tWpc[r] = "end" => InFlight(r, <<r, "work">>)
    /\ tTaken[r] # 0 => tWpc[r] \in {"forget", "done"}

TraceInv ==
  /\ TraceCounts /\ TraceStates
  /\ OneRoundOpens /\ TakenOnce
  /\ SubsExplained /\ RegSubscribed /\ RegHasWorker /\ EraInFile

\* The threads that use the recorder are different ones.
LEMMA ProcsDiffer ==
  /\ EraRounds \in Nat /\ EraRounds > 0
  /\ Recorder!opener \in Recorder!Procs \ Recorder!Rounds
  /\ Recorder!stopper \in Recorder!Procs \ Recorder!Rounds
  /\ Recorder!deleter \in Recorder!Procs \ Recorder!Rounds
  /\ Recorder!opener # Recorder!stopper /\ Recorder!opener # Recorder!deleter
  /\ Recorder!Rounds \subseteq Recorder!Procs
  /\ \A r \in Recorder!Rounds : r \in Nat /\ r # 0
BY ConstantsAreSound DEF Recorder!Assumption, Recorder!Procs, Recorder!Rounds, Recorder!opener,
   Recorder!stopper, Recorder!deleter

\* A published event is in its publisher's hands, with the callbacks of that moment.
LEMMA Publishes ==
  ASSUME TraceStates, NEW p \in Recorder!Procs, NEW e \in Recorder!Events, Recorder!Publish(p, e)
  PROVE  /\ tHanding' \in [Recorder!Procs -> [event : Recorder!Events, to : SUBSET Recorder!Rounds]]
         /\ tHanding'[p].event = e /\ tHanding'[p].to = tSubs
         /\ \A q \in Recorder!Procs : q # p => tHanding'[q] = tHanding[q]
BY DEF TraceStates, Recorder!Publish

\* Each round's events are events.
LEMMA EventsOfRounds ==
  \A r \in Recorder!Rounds : /\ <<r, "open">> \in Recorder!Events
                             /\ <<r, "work">> \in Recorder!Events
                             /\ <<r, "stop">> \in Recorder!Events
BY DEF Recorder!Events

\* Whatever attaches, closes and forgets pass each other, every step keeps what the recorder,
\* the bus and the file know of each other.
LEMMA TraceNext ==
  ASSUME TraceInv, [Recorder!Next]_traceVars
  PROVE  TraceInv'
<1>a. /\ TraceCounts /\ TraceStates /\ OneRoundOpens /\ TakenOnce
      /\ SubsExplained /\ RegSubscribed /\ RegHasWorker /\ EraInFile
  BY DEF TraceInv
<1>b. /\ tRound \in Nat /\ (tRound > 0 => tRound \in Recorder!Rounds)
      /\ (tCpc # "idle" => tRound \in Recorder!Rounds /\ tWpc[tRound] = "none")
      /\ \A r \in Recorder!Rounds : r <= EraRounds /\ (r > tRound + 1 => r > tRound)
      /\ tRound < EraRounds => tRound + 1 \in Recorder!Rounds
  BY <1>a, ProcsDiffer DEF TraceCounts, OneRoundOpens, Recorder!Rounds
<1> USE <1>a, <1>b, ProcsDiffer DEF Recorder!threads, Recorder!Caller, Recorder!Worker, Recorder!Deleter,
        Recorder!Free, Recorder!Publish, Recorder!CloseFile, Recorder!Forget

<1>1. ASSUME \/ Recorder!Accept \/ Recorder!Attach \/ Recorder!Subscribe
            \/ Recorder!Check \/ Recorder!Unsubscribe \/ Recorder!Flip
            \/ Recorder!CloseQuietly \/ Recorder!GiveUp \/ Recorder!Tell
            \/ Recorder!Start \/ Recorder!Stop \/ Recorder!Delete
            \/ Recorder!DeleteCloses \/ Recorder!DeleteForgets \/ Recorder!DeleteDrops
     PROVE  TraceInv'
  <2>1. CASE Recorder!Accept
    <3>1. TraceCounts'
      BY <2>1 DEF Recorder!Accept, TraceCounts, TraceStates, Recorder!Rounds
    <3>2. TraceStates'
      BY <2>1 DEF Recorder!Accept, TraceStates
    <3>3. OneRoundOpens'
      BY <2>1 DEF Recorder!Accept, TraceStates, TraceCounts, OneRoundOpens
    <3>4. TakenOnce'
      BY <2>1 DEF Recorder!Accept, TraceCounts, TraceStates, TakenOnce, OneRoundOpens
    <3>5. (SubsExplained /\ RegSubscribed)'
      BY <2>1 DEF Recorder!Accept, TraceCounts, TraceStates, SubsExplained, Forgets, RegSubscribed, TakenOnce
    <3>6. RegHasWorker'
      BY <2>1 DEF Recorder!Accept, TraceCounts, TraceStates, RegHasWorker, OneRoundOpens
    <3>7. EraInFile'
      BY <2>1 DEF Recorder!Accept, TraceCounts, TraceStates, EraInFile, InFlight, OneRoundOpens, TakenOnce, RegSubscribed
    <3> QED
      BY <3>1, <3>2, <3>3, <3>4, <3>5, <3>6, <3>7 DEF TraceInv
  <2>2. CASE Recorder!Attach
    <3>1. TraceCounts'
      <4>1. tReg' \in {tReg, tRound}
        BY <2>2 DEF Recorder!Attach
      <4>2. tReg' \in 0..tRound
        BY <4>1 DEF TraceCounts
      <4> QED
        BY <2>2, <4>2 DEF Recorder!Attach, TraceCounts
    <3>2. TraceStates'
      BY <2>2 DEF Recorder!Attach, TraceStates
    <3>3. OneRoundOpens'
      BY <2>2 DEF Recorder!Attach, TraceStates, TraceCounts, OneRoundOpens
    <3>4. TakenOnce'
      BY <2>2 DEF Recorder!Attach, TraceCounts, TraceStates, TakenOnce, OneRoundOpens
    <3>5. (SubsExplained /\ RegSubscribed)'
      BY <2>2 DEF Recorder!Attach, TraceCounts, TraceStates, SubsExplained, Forgets, RegSubscribed, TakenOnce
    <3>6. RegHasWorker'
      BY <2>2 DEF Recorder!Attach, TraceCounts, TraceStates, RegHasWorker, OneRoundOpens
    <3>7. EraInFile'
      BY <2>2 DEF Recorder!Attach, TraceCounts, TraceStates, EraInFile, InFlight, OneRoundOpens, TakenOnce, RegSubscribed
    <3> QED
      BY <3>1, <3>2, <3>3, <3>4, <3>5, <3>6, <3>7 DEF TraceInv
  <2>3. CASE Recorder!Subscribe
    <3>1. TraceCounts'
      BY <2>3 DEF Recorder!Subscribe, TraceCounts
    <3>2. TraceStates'
      BY <2>3 DEF Recorder!Subscribe, TraceStates, TraceCounts
    <3>3. OneRoundOpens'
      BY <2>3 DEF Recorder!Subscribe, TraceStates, TraceCounts, OneRoundOpens
    <3>4. TakenOnce'
      BY <2>3 DEF Recorder!Subscribe, TraceCounts, TraceStates, TakenOnce, OneRoundOpens
    <3>5. (SubsExplained /\ RegSubscribed)'
      BY <2>3 DEF Recorder!Subscribe, TraceCounts, TraceStates, SubsExplained, Forgets, RegSubscribed, TakenOnce
    <3>6. RegHasWorker'
      BY <2>3 DEF Recorder!Subscribe, TraceCounts, TraceStates, RegHasWorker, OneRoundOpens
    <3>7. EraInFile'
      BY <2>3 DEF Recorder!Subscribe, TraceCounts, TraceStates, EraInFile, InFlight, OneRoundOpens, TakenOnce, RegSubscribed
    <3> QED
      BY <3>1, <3>2, <3>3, <3>4, <3>5, <3>6, <3>7 DEF TraceInv
  <2>4. CASE Recorder!Check
    <3>1. TraceCounts'
      BY <2>4 DEF Recorder!Check, TraceCounts
    <3>2. TraceStates'
      BY <2>4 DEF Recorder!Check, TraceStates
    <3>3. OneRoundOpens'
      BY <2>4 DEF Recorder!Check, TraceStates, TraceCounts, OneRoundOpens
    <3>4. TakenOnce'
      BY <2>4 DEF Recorder!Check, TraceCounts, TraceStates, TakenOnce, OneRoundOpens
    <3>5. (SubsExplained /\ RegSubscribed)'
      BY <2>4 DEF Recorder!Check, TraceCounts, TraceStates, SubsExplained, Forgets, RegSubscribed, TakenOnce
    <3>6. RegHasWorker'
      BY <2>4 DEF Recorder!Check, TraceCounts, TraceStates, RegHasWorker, OneRoundOpens
    <3>7. EraInFile'
      BY <2>4 DEF Recorder!Check, TraceCounts, TraceStates, EraInFile, InFlight, OneRoundOpens, TakenOnce, RegSubscribed
    <3> QED
      BY <3>1, <3>2, <3>3, <3>4, <3>5, <3>6, <3>7 DEF TraceInv
  <2>5. CASE Recorder!Unsubscribe
    <3>1. TraceCounts'
      BY <2>5 DEF Recorder!Unsubscribe, TraceCounts
    <3>2. TraceStates'
      BY <2>5 DEF Recorder!Unsubscribe, TraceStates, TraceCounts
    <3>3. OneRoundOpens'
      BY <2>5 DEF Recorder!Unsubscribe, TraceStates, TraceCounts, OneRoundOpens
    <3>4. TakenOnce'
      BY <2>5 DEF Recorder!Unsubscribe, TraceCounts, TraceStates, TakenOnce, OneRoundOpens
    <3>5. (SubsExplained /\ RegSubscribed)'
      BY <2>5 DEF Recorder!Unsubscribe, TraceCounts, TraceStates, SubsExplained, Forgets, RegSubscribed, TakenOnce
    <3>6. RegHasWorker'
      BY <2>5 DEF Recorder!Unsubscribe, TraceCounts, TraceStates, RegHasWorker, OneRoundOpens
    <3>7. EraInFile'
      BY <2>5 DEF Recorder!Unsubscribe, TraceCounts, TraceStates, EraInFile, InFlight, OneRoundOpens, TakenOnce, RegSubscribed
    <3> QED
      BY <3>1, <3>2, <3>3, <3>4, <3>5, <3>6, <3>7 DEF TraceInv
  <2>6. CASE Recorder!Flip
    <3>1. TraceCounts'
      BY <2>6 DEF Recorder!Flip, TraceCounts
    <3>2. TraceStates'
      BY <2>6 DEF Recorder!Flip, TraceStates
    <3>3. OneRoundOpens'
      BY <2>6 DEF Recorder!Flip, TraceStates, TraceCounts, OneRoundOpens
    <3>4. TakenOnce'
      BY <2>6 DEF Recorder!Flip, TraceCounts, TraceStates, TakenOnce, OneRoundOpens
    <3>5. (SubsExplained /\ RegSubscribed)'
      BY <2>6 DEF Recorder!Flip, TraceCounts, TraceStates, SubsExplained, Forgets, RegSubscribed, TakenOnce
    <3>6. RegHasWorker'
      BY <2>6 DEF Recorder!Flip, TraceCounts, TraceStates, RegHasWorker, OneRoundOpens
    <3>7. EraInFile'
      BY <2>6 DEF Recorder!Flip, TraceCounts, TraceStates, EraInFile, InFlight, OneRoundOpens, TakenOnce, RegSubscribed
    <3> QED
      BY <3>1, <3>2, <3>3, <3>4, <3>5, <3>6, <3>7 DEF TraceInv
  <2>7. CASE Recorder!CloseQuietly
    <3>1. TraceCounts'
      BY <2>7 DEF Recorder!CloseQuietly, TraceCounts
    <3>2. TraceStates'
      BY <2>7 DEF Recorder!CloseQuietly, TraceStates
    <3>3. OneRoundOpens'
      BY <2>7 DEF Recorder!CloseQuietly, TraceStates, TraceCounts, OneRoundOpens
    <3>4. TakenOnce'
      BY <2>7 DEF Recorder!CloseQuietly, TraceCounts, TraceStates, TakenOnce, OneRoundOpens
    <3>5. (SubsExplained /\ RegSubscribed)'
      BY <2>7 DEF Recorder!CloseQuietly, TraceCounts, TraceStates, SubsExplained, Forgets, RegSubscribed, TakenOnce
    <3>6. RegHasWorker'
      BY <2>7 DEF Recorder!CloseQuietly, TraceCounts, TraceStates, RegHasWorker, OneRoundOpens
    <3>7. EraInFile'
      BY <2>7 DEF Recorder!CloseQuietly, TraceCounts, TraceStates, EraInFile, InFlight, OneRoundOpens, TakenOnce, RegSubscribed
    <3> QED
      BY <3>1, <3>2, <3>3, <3>4, <3>5, <3>6, <3>7 DEF TraceInv
  <2>8. CASE Recorder!GiveUp
    <3>1. TraceCounts'
      BY <2>8 DEF Recorder!GiveUp, TraceCounts
    <3>2. TraceStates'
      BY <2>8 DEF Recorder!GiveUp, TraceStates
    <3>3. OneRoundOpens'
      BY <2>8 DEF Recorder!GiveUp, TraceStates, TraceCounts, OneRoundOpens
    <3>4. TakenOnce'
      BY <2>8 DEF Recorder!GiveUp, TraceCounts, TraceStates, TakenOnce, OneRoundOpens
    <3>5. (SubsExplained /\ RegSubscribed)'
      BY <2>8 DEF Recorder!GiveUp, TraceCounts, TraceStates, SubsExplained, Forgets, RegSubscribed, TakenOnce
    <3>6. RegHasWorker'
      BY <2>8 DEF Recorder!GiveUp, TraceCounts, TraceStates, RegHasWorker, OneRoundOpens, TakenOnce
    <3>7. EraInFile'
      <4>1. /\ tCpc = "forget" /\ tCpc' = "idle" /\ tWpc' = [tWpc EXCEPT ![tRound] = "refused"]
            /\ UNCHANGED <<tRound, tGone>>
        BY <2>8 DEF Recorder!GiveUp
      <4>2. UNCHANGED <<tReg, tTaken, tLines, tHanding>>
        BY <2>8 DEF Recorder!GiveUp, Recorder!Forget
      <4>3. ~tGone => tReg # tRound /\ tTaken[tRound] = 0
        BY <4>1 DEF TraceCounts, EraInFile, OneRoundOpens, TakenOnce
      <4>4. \A x \in Recorder!Rounds : x # tRound => tWpc'[x] = tWpc[x]
        BY <4>1 DEF TraceStates
      <4>5. SUFFICES ASSUME ~tGone, NEW x \in Recorder!Rounds
                     PROVE  /\ tReg = x \/ tTaken[x] = x =>
                                 /\ tWpc'[x] # "none" => tLines[<<x, "open">>] > 0
                                 /\ tWpc'[x] \in {"pop", "close", "forget", "done"} => tLines[<<x, "work">>] > 0
                            /\ tReg = x /\ tWpc'[x] = "end" => InFlight(x, <<x, "work">>)
                            /\ tTaken[x] # 0 => tWpc'[x] \in {"forget", "done"}
        BY <4>1, <4>2 DEF EraInFile, InFlight
      <4>6. CASE x # tRound
        BY <4>4, <4>5, <4>6 DEF EraInFile
      <4>7. CASE x = tRound
        BY <4>3, <4>5, <4>7
      <4> QED
        BY <4>6, <4>7
    <3> QED
      BY <3>1, <3>2, <3>3, <3>4, <3>5, <3>6, <3>7 DEF TraceInv
  <2>9. CASE Recorder!Tell
    <3>1. TraceCounts'
      BY <2>9 DEF Recorder!Tell, TraceCounts
    <3>2. TraceStates'
      <4>1. <<tRound, "open">> \in Recorder!Events /\ Recorder!Publish(Recorder!opener, <<tRound, "open">>)
        BY <2>9, EventsOfRounds DEF Recorder!Tell
      <4>2. tHanding' \in [Recorder!Procs -> [event : Recorder!Events, to : SUBSET Recorder!Rounds]]
        BY <4>1, Publishes
      <4> HIDE DEF Recorder!Publish
      <4> QED
        BY <2>9, <4>2 DEF Recorder!Tell, TraceStates
    <3>3. OneRoundOpens'
      BY <2>9 DEF Recorder!Tell, TraceStates, TraceCounts, OneRoundOpens
    <3>4. TakenOnce'
      BY <2>9 DEF Recorder!Tell, TraceCounts, TraceStates, TakenOnce, OneRoundOpens
    <3>5. (SubsExplained /\ RegSubscribed)'
      BY <2>9 DEF Recorder!Tell, TraceCounts, TraceStates, SubsExplained, Forgets, RegSubscribed, TakenOnce
    <3>6. RegHasWorker'
      BY <2>9 DEF Recorder!Tell, TraceCounts, TraceStates, RegHasWorker, OneRoundOpens
    <3>7. EraInFile'
      <4>1. Recorder!Publish(Recorder!opener, <<tRound, "open">>) /\ <<tRound, "open">> \in Recorder!Events
        BY <2>9, EventsOfRounds DEF Recorder!Tell
      <4>2. /\ tHanding'[Recorder!opener].event = <<tRound, "open">> /\ tHanding'[Recorder!opener].to = tSubs
            /\ \A q \in Recorder!Rounds : tHanding'[q] = tHanding[q]
        BY <4>1, Publishes
      <4>3. /\ tCpc = "tell" /\ tCpc' = "start"
            /\ UNCHANGED <<tRound, tGone, tWpc, tReg, tTaken, tLines>>
        BY <2>9 DEF Recorder!Tell
      <4>4. SUFFICES ASSUME ~tGone, NEW x \in Recorder!Rounds
                     PROVE  /\ tReg = x /\ x = tRound /\ tCpc' = "start" => InFlight(Recorder!opener, <<x, "open">>)'
                            /\ tReg = x \/ tTaken[x] = x =>
                                 /\ tWpc'[x] # "none" => tLines'[<<x, "open">>] > 0
                                 /\ tWpc'[x] \in {"pop", "close", "forget", "done"} => tLines'[<<x, "work">>] > 0
                            /\ tReg = x /\ tWpc'[x] = "end" => InFlight(x, <<x, "work">>)'
                            /\ tTaken[x] # 0 => tWpc'[x] \in {"forget", "done"}
        BY <4>3 DEF EraInFile
      <4>5. tReg = x /\ x = tRound => InFlight(Recorder!opener, <<x, "open">>)'
        BY <4>2, <4>3, <4>4 DEF InFlight, RegSubscribed
      <4>6. tReg = x /\ tWpc[x] = "end" => InFlight(x, <<x, "work">>)'
        BY <4>2, <4>3, <4>4 DEF EraInFile, InFlight
      <4> QED
        BY <4>3, <4>4, <4>5, <4>6 DEF EraInFile
    <3> QED
      BY <3>1, <3>2, <3>3, <3>4, <3>5, <3>6, <3>7 DEF TraceInv
  <2>10. CASE Recorder!Start
    <3>1. TraceCounts'
      BY <2>10 DEF Recorder!Start, TraceCounts
    <3>2. TraceStates'
      BY <2>10 DEF Recorder!Start, TraceStates
    <3>3. OneRoundOpens'
      BY <2>10 DEF Recorder!Start, TraceStates, TraceCounts, OneRoundOpens
    <3>4. TakenOnce'
      BY <2>10 DEF Recorder!Start, TraceCounts, TraceStates, TakenOnce, OneRoundOpens
    <3>5. (SubsExplained /\ RegSubscribed)'
      BY <2>10 DEF Recorder!Start, TraceCounts, TraceStates, SubsExplained, Forgets, RegSubscribed, TakenOnce
    <3>6. RegHasWorker'
      BY <2>10 DEF Recorder!Start, TraceCounts, TraceStates, RegHasWorker, OneRoundOpens
    <3>7. EraInFile'
      <4>1. /\ tCpc = "start" /\ tCpc' = "idle" /\ tWpc' = [tWpc EXCEPT ![tRound] = "made"]
            /\ UNCHANGED <<tRound, tGone, tReg, tTaken, tLines, tHanding>> /\ Recorder!Free(Recorder!opener)
        BY <2>10 DEF Recorder!Start
      <4>2. tHanding[Recorder!opener].to = {}
        BY <4>1 DEF Recorder!Free
      <4>3. SUFFICES ASSUME ~tGone, NEW x \in Recorder!Rounds
                     PROVE  /\ tReg = x \/ tTaken[x] = x =>
                                 /\ tWpc'[x] # "none" => tLines[<<x, "open">>] > 0
                                 /\ tWpc'[x] \in {"pop", "close", "forget", "done"} => tLines[<<x, "work">>] > 0
                            /\ tReg = x /\ tWpc'[x] = "end" => InFlight(x, <<x, "work">>)
                            /\ tTaken[x] # 0 => tWpc'[x] \in {"forget", "done"}
        BY <4>1 DEF EraInFile, InFlight
      <4>4. CASE x # tRound
        BY <4>1, <4>3, <4>4 DEF EraInFile, TraceStates
      <4>5. CASE x = tRound
        <5>1. tWpc'[x] = "made"
          BY <4>1, <4>5 DEF TraceStates, TraceCounts
        <5>2. tWpc[x] = "none"
          BY <4>1, <4>5 DEF OneRoundOpens
        <5>3. tTaken[x] = 0
          BY <4>3, <5>2 DEF EraInFile
        <5>4. tReg = x => tLines[<<x, "open">>] > 0
          BY <4>1, <4>2, <4>3, <4>5 DEF EraInFile, InFlight
        <5> QED
          BY <5>1, <5>3, <5>4, <4>3
      <4> QED
        BY <4>4, <4>5
    <3> QED
      BY <3>1, <3>2, <3>3, <3>4, <3>5, <3>6, <3>7 DEF TraceInv
  <2>11. CASE Recorder!Stop
    <3>1. TraceCounts'
      BY <2>11 DEF Recorder!Stop, TraceCounts
    <3>2. TraceStates'
      <4>1. <<tRound, "stop">> \in Recorder!Events /\ Recorder!Publish(Recorder!stopper, <<tRound, "stop">>)
        BY <2>11, EventsOfRounds DEF Recorder!Stop
      <4>2. tHanding' \in [Recorder!Procs -> [event : Recorder!Events, to : SUBSET Recorder!Rounds]]
        BY <4>1, Publishes
      <4> HIDE DEF Recorder!Publish
      <4> QED
        BY <2>11, <4>2 DEF Recorder!Stop, TraceStates
    <3>3. OneRoundOpens'
      BY <2>11 DEF Recorder!Stop, TraceStates, TraceCounts, OneRoundOpens
    <3>4. TakenOnce'
      BY <2>11 DEF Recorder!Stop, TraceCounts, TraceStates, TakenOnce, OneRoundOpens
    <3>5. (SubsExplained /\ RegSubscribed)'
      BY <2>11 DEF Recorder!Stop, TraceCounts, TraceStates, SubsExplained, Forgets, RegSubscribed, TakenOnce
    <3>6. RegHasWorker'
      BY <2>11 DEF Recorder!Stop, TraceCounts, TraceStates, RegHasWorker, OneRoundOpens
    <3>7. EraInFile'
      BY <2>11 DEF Recorder!Stop, TraceCounts, TraceStates, EraInFile, InFlight, OneRoundOpens, TakenOnce, RegSubscribed
    <3> QED
      BY <3>1, <3>2, <3>3, <3>4, <3>5, <3>6, <3>7 DEF TraceInv
  <2>12. CASE Recorder!Delete
    <3>1. TraceCounts'
      BY <2>12 DEF Recorder!Delete, TraceCounts
    <3>2. TraceStates'
      BY <2>12 DEF Recorder!Delete, TraceStates
    <3>3. OneRoundOpens'
      BY <2>12 DEF Recorder!Delete, TraceStates, TraceCounts, OneRoundOpens
    <3>4. TakenOnce'
      BY <2>12 DEF Recorder!Delete, TraceCounts, TraceStates, TakenOnce, OneRoundOpens
    <3>5. (SubsExplained /\ RegSubscribed)'
      BY <2>12 DEF Recorder!Delete, TraceCounts, TraceStates, SubsExplained, Forgets, RegSubscribed, TakenOnce
    <3>6. RegHasWorker'
      BY <2>12 DEF Recorder!Delete, TraceCounts, TraceStates, RegHasWorker, OneRoundOpens
    <3>7. EraInFile'
      BY <2>12 DEF Recorder!Delete, TraceCounts, TraceStates, EraInFile, InFlight, OneRoundOpens, TakenOnce, RegSubscribed
    <3> QED
      BY <3>1, <3>2, <3>3, <3>4, <3>5, <3>6, <3>7 DEF TraceInv
  <2>13. CASE Recorder!DeleteCloses
    <3>1. TraceCounts'
      BY <2>13 DEF Recorder!DeleteCloses, TraceCounts
    <3>2. TraceStates'
      BY <2>13 DEF Recorder!DeleteCloses, TraceStates
    <3>3. OneRoundOpens'
      BY <2>13 DEF Recorder!DeleteCloses, TraceStates, TraceCounts, OneRoundOpens
    <3>4. TakenOnce'
      BY <2>13 DEF Recorder!DeleteCloses, TraceCounts, TraceStates, TakenOnce, OneRoundOpens
    <3>5. (SubsExplained /\ RegSubscribed)'
      BY <2>13 DEF Recorder!DeleteCloses, TraceCounts, TraceStates, SubsExplained, Forgets, RegSubscribed, TakenOnce
    <3>6. RegHasWorker'
      BY <2>13 DEF Recorder!DeleteCloses, TraceCounts, TraceStates, RegHasWorker, OneRoundOpens
    <3>7. EraInFile'
      BY <2>13 DEF Recorder!DeleteCloses, TraceCounts, TraceStates, EraInFile, InFlight, OneRoundOpens, TakenOnce, RegSubscribed
    <3> QED
      BY <3>1, <3>2, <3>3, <3>4, <3>5, <3>6, <3>7 DEF TraceInv
  <2>14. CASE Recorder!DeleteForgets
    <3>1. TraceCounts'
      BY <2>14 DEF Recorder!DeleteForgets, TraceCounts
    <3>2. TraceStates'
      BY <2>14 DEF Recorder!DeleteForgets, TraceStates
    <3>3. OneRoundOpens'
      BY <2>14 DEF Recorder!DeleteForgets, TraceStates, TraceCounts, OneRoundOpens
    <3>4. TakenOnce'
      BY <2>14 DEF Recorder!DeleteForgets, TraceCounts, TraceStates, TakenOnce, OneRoundOpens
    <3>5. (SubsExplained /\ RegSubscribed)'
      BY <2>14 DEF Recorder!DeleteForgets, TraceCounts, TraceStates, SubsExplained, Forgets, RegSubscribed, TakenOnce
    <3>6. RegHasWorker'
      BY <2>14 DEF Recorder!DeleteForgets, TraceCounts, TraceStates, RegHasWorker, OneRoundOpens
    <3>7. EraInFile'
      BY <2>14 DEF Recorder!DeleteForgets, TraceCounts, TraceStates, EraInFile, InFlight, OneRoundOpens, TakenOnce, RegSubscribed
    <3> QED
      BY <3>1, <3>2, <3>3, <3>4, <3>5, <3>6, <3>7 DEF TraceInv
  <2>15. CASE Recorder!DeleteDrops
    <3>1. TraceCounts'
      BY <2>15 DEF Recorder!DeleteDrops, TraceCounts
    <3>2. TraceStates'
      BY <2>15 DEF Recorder!DeleteDrops, TraceStates, TraceCounts
    <3>3. OneRoundOpens'
      BY <2>15 DEF Recorder!DeleteDrops, TraceStates, TraceCounts, OneRoundOpens
    <3>4. TakenOnce'
      BY <2>15 DEF Recorder!DeleteDrops, TraceCounts, TraceStates, TakenOnce, OneRoundOpens
    <3>5. (SubsExplained /\ RegSubscribed)'
      BY <2>15 DEF Recorder!DeleteDrops, RegHasWorker, SubsExplained, Forgets, RegSubscribed, TakenOnce
    <3>6. RegHasWorker'
      BY <2>15 DEF Recorder!DeleteDrops, TraceCounts, TraceStates, RegHasWorker, OneRoundOpens
    <3>7. EraInFile'
      BY <2>15 DEF Recorder!DeleteDrops, RegHasWorker, EraInFile, InFlight, OneRoundOpens, TakenOnce, RegSubscribed
    <3> QED
      BY <3>1, <3>2, <3>3, <3>4, <3>5, <3>6, <3>7 DEF TraceInv
  <2> QED
    BY <1>1, <2>1, <2>2, <2>3, <2>4, <2>5, <2>6, <2>7, <2>8, <2>9, <2>10, <2>11, <2>12,
       <2>13, <2>14, <2>15
<1>2. ASSUME NEW r \in Recorder!Rounds,
            \/ Recorder!Begin(r) \/ Recorder!Work(r) \/ Recorder!Park(r)
            \/ Recorder!PopThread(r) \/ Recorder!CloseTrace(r) \/ Recorder!Finish(r)
     PROVE  TraceInv'
  <2>1. CASE Recorder!Begin(r)
    <3>1. TraceCounts'
      BY <2>1 DEF Recorder!Begin, TraceCounts
    <3>2. TraceStates'
      BY <2>1 DEF Recorder!Begin, TraceStates
    <3>3. OneRoundOpens'
      BY <2>1 DEF Recorder!Begin, TraceStates, TraceCounts, OneRoundOpens
    <3>4. TakenOnce'
      BY <2>1 DEF Recorder!Begin, TraceCounts, TraceStates, TakenOnce, OneRoundOpens
    <3>5. (SubsExplained /\ RegSubscribed)'
      BY <2>1 DEF Recorder!Begin, TraceCounts, TraceStates, SubsExplained, Forgets, RegSubscribed, TakenOnce
    <3>6. RegHasWorker'
      BY <2>1 DEF Recorder!Begin, TraceCounts, TraceStates, RegHasWorker, OneRoundOpens
    <3>7. EraInFile'
      BY <2>1 DEF Recorder!Begin, TraceCounts, TraceStates, EraInFile, InFlight, OneRoundOpens, TakenOnce, RegSubscribed
    <3> QED
      BY <3>1, <3>2, <3>3, <3>4, <3>5, <3>6, <3>7 DEF TraceInv
  <2>2. CASE Recorder!Work(r)
    <3>1. TraceCounts'
      BY <2>2 DEF Recorder!Work, TraceCounts
    <3>2. TraceStates'
      <4>1. <<r, "work">> \in Recorder!Events /\ Recorder!Publish(r, <<r, "work">>)
        BY <2>2, EventsOfRounds DEF Recorder!Work
      <4>2. tHanding' \in [Recorder!Procs -> [event : Recorder!Events, to : SUBSET Recorder!Rounds]]
        BY <4>1, Publishes
      <4> HIDE DEF Recorder!Publish
      <4> QED
        BY <2>2, <4>2 DEF Recorder!Work, TraceStates
    <3>3. OneRoundOpens'
      BY <2>2 DEF Recorder!Work, TraceStates, TraceCounts, OneRoundOpens
    <3>4. TakenOnce'
      BY <2>2 DEF Recorder!Work, TraceCounts, TraceStates, TakenOnce, OneRoundOpens
    <3>5. (SubsExplained /\ RegSubscribed)'
      BY <2>2 DEF Recorder!Work, TraceCounts, TraceStates, SubsExplained, Forgets, RegSubscribed, TakenOnce
    <3>6. RegHasWorker'
      BY <2>2 DEF Recorder!Work, TraceCounts, TraceStates, RegHasWorker, OneRoundOpens
    <3>7. EraInFile'
      <4>1. Recorder!Publish(r, <<r, "work">>) /\ <<r, "work">> \in Recorder!Events
        BY <2>2, EventsOfRounds DEF Recorder!Work
      <4>2. /\ tHanding'[r].event = <<r, "work">> /\ tHanding'[r].to = tSubs
            /\ \A q \in Recorder!Procs : q # r => tHanding'[q] = tHanding[q]
        BY <4>1, Publishes
      <4>3. /\ tWpc[r] = "run" /\ tWpc' = [tWpc EXCEPT ![r] = "end"]
            /\ UNCHANGED <<tRound, tGone, tCpc, tReg, tTaken, tLines>>
        BY <2>2 DEF Recorder!Work
      <4>4. SUFFICES ASSUME ~tGone, NEW x \in Recorder!Rounds
                     PROVE  /\ tReg = x /\ x = tRound /\ tCpc = "start" => InFlight(Recorder!opener, <<x, "open">>)'
                            /\ tReg = x \/ tTaken[x] = x =>
                                 /\ tWpc'[x] # "none" => tLines[<<x, "open">>] > 0
                                 /\ tWpc'[x] \in {"pop", "close", "forget", "done"} => tLines[<<x, "work">>] > 0
                            /\ tReg = x /\ tWpc'[x] = "end" => InFlight(x, <<x, "work">>)'
                            /\ tTaken[x] # 0 => tWpc'[x] \in {"forget", "done"}
        BY <4>3 DEF EraInFile
      <4>5. x # r => tWpc'[x] = tWpc[x]
        BY <4>3 DEF TraceStates
      <4>6. tReg = x /\ x = tRound /\ tCpc = "start" => InFlight(Recorder!opener, <<x, "open">>)'
        BY <4>2, <4>3, <4>4 DEF EraInFile, InFlight
      <4>7. tReg = x /\ tWpc'[x] = "end" => InFlight(x, <<x, "work">>)'
        BY <4>2, <4>3, <4>4, <4>5 DEF EraInFile, InFlight, RegSubscribed
      <4> QED
        BY <4>3, <4>4, <4>5, <4>6, <4>7 DEF EraInFile, TraceStates
    <3> QED
      BY <3>1, <3>2, <3>3, <3>4, <3>5, <3>6, <3>7 DEF TraceInv
  <2>3. CASE Recorder!Park(r)
    <3>1. TraceCounts'
      BY <2>3 DEF Recorder!Park, TraceCounts
    <3>2. TraceStates'
      BY <2>3 DEF Recorder!Park, TraceStates
    <3>3. OneRoundOpens'
      BY <2>3 DEF Recorder!Park, TraceStates, TraceCounts, OneRoundOpens
    <3>4. TakenOnce'
      BY <2>3 DEF Recorder!Park, TraceCounts, TraceStates, TakenOnce, OneRoundOpens
    <3>5. (SubsExplained /\ RegSubscribed)'
      BY <2>3 DEF Recorder!Park, TraceCounts, TraceStates, SubsExplained, Forgets, RegSubscribed, TakenOnce
    <3>6. RegHasWorker'
      BY <2>3 DEF Recorder!Park, TraceCounts, TraceStates, RegHasWorker, OneRoundOpens
    <3>7. EraInFile'
      <4>1. /\ tWpc[r] = "end" /\ tWpc' = [tWpc EXCEPT ![r] = "pop"] /\ tHanding[r].to = {}
            /\ UNCHANGED <<tRound, tGone, tCpc, tReg, tTaken, tLines, tHanding>>
        BY <2>3 DEF Recorder!Park
      <4>2. SUFFICES ASSUME ~tGone, NEW x \in Recorder!Rounds
                     PROVE  /\ tReg = x /\ x = tRound /\ tCpc' = "start" => InFlight(Recorder!opener, <<x, "open">>)'
                            /\ tReg = x \/ tTaken[x] = x =>
                                 /\ tWpc'[x] # "none" => tLines'[<<x, "open">>] > 0
                                 /\ tWpc'[x] \in {"pop", "close", "forget", "done"} => tLines'[<<x, "work">>] > 0
                            /\ tReg = x /\ tWpc'[x] = "end" => InFlight(x, <<x, "work">>)'
                            /\ tTaken[x] # 0 => tWpc'[x] \in {"forget", "done"}
        BY <4>1 DEF EraInFile
      <4>3. \A p, e : InFlight(p, e)' <=> InFlight(p, e)
        BY <4>1 DEF InFlight
      <4>4. CASE x = r
        <5>1. tReg = x => tLines[<<x, "work">>] > 0
          BY <4>1, <4>2, <4>4 DEF EraInFile, InFlight
        <5> QED
          BY <4>1, <4>2, <4>3, <4>4, <5>1 DEF EraInFile, TraceStates
      <4>5. CASE x # r
        BY <4>1, <4>2, <4>3, <4>5 DEF EraInFile, TraceStates
      <4> QED
        BY <4>4, <4>5
    <3> QED
      BY <3>1, <3>2, <3>3, <3>4, <3>5, <3>6, <3>7 DEF TraceInv
  <2>4. CASE Recorder!PopThread(r)
    <3>1. TraceCounts'
      BY <2>4 DEF Recorder!PopThread, TraceCounts
    <3>2. TraceStates'
      BY <2>4 DEF Recorder!PopThread, TraceStates
    <3>3. OneRoundOpens'
      BY <2>4 DEF Recorder!PopThread, TraceStates, TraceCounts, OneRoundOpens
    <3>4. TakenOnce'
      BY <2>4 DEF Recorder!PopThread, TraceCounts, TraceStates, TakenOnce, OneRoundOpens
    <3>5. (SubsExplained /\ RegSubscribed)'
      BY <2>4 DEF Recorder!PopThread, TraceCounts, TraceStates, SubsExplained, Forgets, RegSubscribed, TakenOnce
    <3>6. RegHasWorker'
      BY <2>4 DEF Recorder!PopThread, TraceCounts, TraceStates, RegHasWorker, OneRoundOpens
    <3>7. EraInFile'
      BY <2>4 DEF Recorder!PopThread, TraceCounts, TraceStates, EraInFile, InFlight, OneRoundOpens, TakenOnce, RegSubscribed
    <3> QED
      BY <3>1, <3>2, <3>3, <3>4, <3>5, <3>6, <3>7 DEF TraceInv
  <2>5. CASE Recorder!CloseTrace(r)
    <3>1. TraceCounts'
      BY <2>5 DEF Recorder!CloseTrace, TraceCounts
    <3>2. TraceStates'
      BY <2>5 DEF Recorder!CloseTrace, TraceStates
    <3>3. OneRoundOpens'
      BY <2>5 DEF Recorder!CloseTrace, TraceStates, TraceCounts, OneRoundOpens
    <3>4. TakenOnce'
      BY <2>5 DEF Recorder!CloseTrace, TraceCounts, TraceStates, TakenOnce, OneRoundOpens
    <3>5. (SubsExplained /\ RegSubscribed)'
      BY <2>5 DEF Recorder!CloseTrace, TraceCounts, TraceStates, SubsExplained, Forgets, RegSubscribed, TakenOnce
    <3>6. RegHasWorker'
      BY <2>5 DEF Recorder!CloseTrace, TraceCounts, TraceStates, RegHasWorker, OneRoundOpens
    <3>7. EraInFile'
      BY <2>5 DEF Recorder!CloseTrace, TraceCounts, TraceStates, EraInFile, InFlight, OneRoundOpens, TakenOnce, RegSubscribed
    <3> QED
      BY <3>1, <3>2, <3>3, <3>4, <3>5, <3>6, <3>7 DEF TraceInv
  <2>6. CASE Recorder!Finish(r)
    <3>1. TraceCounts'
      BY <2>6 DEF Recorder!Finish, TraceCounts
    <3>2. TraceStates'
      BY <2>6 DEF Recorder!Finish, TraceStates
    <3>3. OneRoundOpens'
      BY <2>6 DEF Recorder!Finish, TraceStates, TraceCounts, OneRoundOpens
    <3>4. TakenOnce'
      BY <2>6 DEF Recorder!Finish, TraceCounts, TraceStates, TakenOnce, OneRoundOpens
    <3>5. (SubsExplained /\ RegSubscribed)'
      BY <2>6 DEF Recorder!Finish, TraceCounts, TraceStates, SubsExplained, Forgets, RegSubscribed, TakenOnce
    <3>6. RegHasWorker'
      BY <2>6 DEF Recorder!Finish, TraceCounts, TraceStates, RegHasWorker, OneRoundOpens
    <3>7. EraInFile'
      BY <2>6 DEF Recorder!Finish, TraceCounts, TraceStates, EraInFile, InFlight, OneRoundOpens, TakenOnce, RegSubscribed
    <3> QED
      BY <3>1, <3>2, <3>3, <3>4, <3>5, <3>6, <3>7 DEF TraceInv
  <2> QED
    BY <1>2, <2>1, <2>2, <2>3, <2>4, <2>5, <2>6
<1>3. ASSUME NEW p \in Recorder!Procs, Recorder!Hand(p) PROVE TraceInv'
  <2>1. CASE Recorder!Hand(p)
    <3>1. TraceCounts'
      BY <2>1 DEF Recorder!Hand, TraceCounts
    <3>2. TraceStates'
      BY <2>1 DEF Recorder!Hand, TraceStates
    <3>3. OneRoundOpens'
      BY <2>1 DEF Recorder!Hand, TraceStates, TraceCounts, OneRoundOpens
    <3>4. TakenOnce'
      BY <2>1 DEF Recorder!Hand, TraceCounts, TraceStates, TakenOnce, OneRoundOpens
    <3>5. (SubsExplained /\ RegSubscribed)'
      BY <2>1 DEF Recorder!Hand, TraceCounts, TraceStates, SubsExplained, Forgets, RegSubscribed, TakenOnce
    <3>6. RegHasWorker'
      BY <2>1 DEF Recorder!Hand, TraceCounts, TraceStates, RegHasWorker, OneRoundOpens
    <3>7. EraInFile'
      <4>1. PICK c \in tHanding[p].to : tHanding' = [tHanding EXCEPT ![p].to = tHanding[p].to \ {c}]
        BY <2>1 DEF Recorder!Hand
      <4>2. /\ tLines' = IF tReg = 0 THEN tLines ELSE [tLines EXCEPT ![tHanding[p].event] = tLines[tHanding[p].event] + 1]
            /\ UNCHANGED <<tRound, tGone, tCpc, tWpc, tReg, tTaken>>
        BY <2>1 DEF Recorder!Hand, Recorder!threads
      <4>3. tHanding[p].event \in Recorder!Events
        BY DEF TraceStates
      <4>4. \A e \in Recorder!Events : /\ tLines[e] > 0 => tLines'[e] > 0
                                       /\ tReg # 0 /\ e = tHanding[p].event => tLines'[e] > 0
        BY <4>2, <4>3 DEF TraceStates
      <4>5. /\ tHanding'[p].event = tHanding[p].event
            /\ \A q \in Recorder!Procs : q # p => tHanding'[q] = tHanding[q]
        BY <4>1 DEF TraceStates
      <4>6. ASSUME NEW q \in Recorder!Procs, NEW e \in Recorder!Events, tReg # 0, InFlight(q, e)
            PROVE  InFlight(q, e)'
        BY <4>2, <4>4, <4>5, <4>6 DEF InFlight
      <4>7. SUFFICES ASSUME ~tGone, NEW x \in Recorder!Rounds
                     PROVE  /\ tReg = x /\ x = tRound /\ tCpc' = "start" => InFlight(Recorder!opener, <<x, "open">>)'
                            /\ tReg = x \/ tTaken[x] = x =>
                                 /\ tWpc'[x] # "none" => tLines'[<<x, "open">>] > 0
                                 /\ tWpc'[x] \in {"pop", "close", "forget", "done"} => tLines'[<<x, "work">>] > 0
                            /\ tReg = x /\ tWpc'[x] = "end" => InFlight(x, <<x, "work">>)'
                            /\ tTaken[x] # 0 => tWpc'[x] \in {"forget", "done"}
        BY <4>2 DEF EraInFile
      <4>8. <<x, "open">> \in Recorder!Events /\ <<x, "work">> \in Recorder!Events
        BY EventsOfRounds
      <4>9. x # 0 /\ x \in Recorder!Procs
        BY <4>7
      <4> QED
        BY <4>2, <4>4, <4>6, <4>7, <4>8, <4>9 DEF EraInFile
    <3> QED
      BY <3>1, <3>2, <3>3, <3>4, <3>5, <3>6, <3>7 DEF TraceInv
  <2> QED
    BY <1>3, <2>1
<1>4. ASSUME UNCHANGED traceVars PROVE TraceInv'
  <2>1. (TraceCounts /\ TraceStates)'
    BY <1>4 DEF traceVars, TraceCounts, TraceStates
  <2>2. (OneRoundOpens /\ TakenOnce /\ RegSubscribed /\ RegHasWorker)'
    BY <1>4 DEF traceVars, OneRoundOpens, TakenOnce, RegSubscribed, RegHasWorker
  <2>3. SubsExplained'
    BY <1>4 DEF traceVars, SubsExplained, Forgets
  <2>4. EraInFile'
    BY <1>4 DEF traceVars, EraInFile, InFlight
  <2> QED
    BY <2>1, <2>2, <2>3, <2>4 DEF TraceInv
<1> QED
  BY <1>1, <1>2, <1>3, <1>4 DEF Recorder!Next


LEMMA TraceStarts == ServicesInit => TraceInv /\ ~tGone
<1> SUFFICES ASSUME Recorder!Init PROVE TraceInv /\ ~tGone
  BY DEF ServicesInit
<1> USE ProcsDiffer DEF Recorder!Init
<1>1. /\ <<1, "open">> \in Recorder!Events /\ 1 \in Recorder!Rounds
      /\ 0 \in 0..EraRounds /\ 0 \in 0..0
  BY DEF Recorder!Events, Recorder!Rounds
<1>2. TraceCounts
  BY <1>1 DEF TraceCounts
<1>3. TraceStates
  BY <1>1 DEF TraceStates, Recorder!Idle
<1>4. OneRoundOpens /\ TakenOnce
  BY DEF OneRoundOpens, TakenOnce
<1>5. SubsExplained /\ RegSubscribed /\ RegHasWorker /\ EraInFile
  BY DEF SubsExplained, RegSubscribed, RegHasWorker, EraInFile
<1> QED
  BY <1>2, <1>3, <1>4, <1>5 DEF TraceInv

\* The invariant is as strong as what the run checks of the recorder.
LEMMA TraceIsEnough ==
  ASSUME TraceInv
  PROVE  /\ Recorder!TypeOK /\ Recorder!NoStaleCallback /\ Recorder!FreshEraIsWhole
         /\ ~tGone => Recorder!EraCloses
<1> USE ProcsDiffer DEF TraceInv
<1>1. Recorder!TypeOK
  BY DEF TraceCounts, TraceStates, RegHasWorker, Recorder!TypeOK
<1>2. ASSUME Recorder!AtRest PROVE /\ \A p \in Recorder!Procs : ~Forgets(p)
                                   /\ \A c \in tSubs : c = tReg
  BY <1>2 DEF Recorder!AtRest, Forgets, SubsExplained
<1>3. Recorder!NoStaleCallback
  <2> SUFFICES ASSUME Recorder!AtRest, ~tGone PROVE tSubs = {tReg} \ {0}
    BY DEF Recorder!NoStaleCallback
  <2>1. 0 \notin tSubs
    BY DEF TraceStates
  <2>2. tReg # 0 => tReg \in tSubs
    BY DEF RegSubscribed, Recorder!AtRest
  <2> QED
    BY <1>2, <2>1, <2>2
<1>4. Recorder!FreshEraIsWhole
  BY DEF EraInFile, Recorder!FreshEraIsWhole
<1>5. ASSUME ~tGone PROVE Recorder!EraCloses
  <2> SUFFICES ASSUME Recorder!AtRest, tReg # 0,
                      \A r \in Recorder!Rounds : tWpc[r] \in {"none", "done", "skipped", "refused"}
               PROVE  FALSE
    BY DEF Recorder!EraCloses
  <2>1. tReg \in Recorder!Rounds /\ tReg <= tRound
    BY DEF TraceCounts, Recorder!Rounds
  <2>2. tWpc[tReg] # "none"
    BY <2>1 DEF OneRoundOpens, TraceCounts, Recorder!AtRest
  <2> QED
    BY <1>5, <2>1, <2>2 DEF RegHasWorker
<1> QED
  BY <1>1, <1>3, <1>4, <1>5

-----------------------------------------------------------------------------
(* The model store: what StoreProofs proves of ModelStore, of the three    *)
(* instances of MCServices.                                                *)

StoreP == INSTANCE StoreProofs WITH
  Providers <- {main, other}, Default <- main, Models <- {p1}, Profiles <- {}, MaxStamp <- 3,
  Troubles <- {"key", "crash"},
  status <- mStatus, mem <- mMem, disk <- mDisk, bak <- mBak, pending <- mPending, keys <- mKeys,
  cache <- mCache, req <- mReq, stamp <- mStamp, model <- mModel, round <- mRound

LegacyP == INSTANCE StoreProofs WITH
  Providers <- {main, other}, Default <- main, Models <- {p1, p2}, Profiles <- {other}, MaxStamp <- 2,
  Troubles <- {"key", "backup", "crash"},
  status <- mStatus, mem <- mMem, disk <- mDisk, bak <- mBak, pending <- mPending, keys <- mKeys,
  cache <- mCache, req <- mReq, stamp <- mStamp, model <- mModel, round <- mRound

FailingP == INSTANCE StoreProofs WITH
  Providers <- {main, other}, Default <- main, Models <- {p1}, Profiles <- {other}, MaxStamp <- 2,
  Troubles <- {"save", "key", "backup", "torn", "crash"},
  status <- mStatus, mem <- mMem, disk <- mDisk, bak <- mBak, pending <- mPending, keys <- mKeys,
  cache <- mCache, req <- mReq, stamp <- mStamp, model <- mModel, round <- mRound

\* Each instance is the same specification here and there.
LEMMA StoreIsThat ==
  /\ Store!Assumption <=> StoreP!Assumption
  /\ Store!Init <=> StoreP!Init
  /\ Store!Next <=> StoreP!Next
<1>1. Store!Assumption <=> StoreP!Assumption
  BY DEF Store!Assumption, StoreP!Assumption
<1>2. Store!Init <=> StoreP!Init
  BY DEF Store!Init, StoreP!Init, Store!Nothing, StoreP!Nothing, Store!Idle,
     StoreP!Idle, Store!NoRound, StoreP!NoRound
<1>3. Store!Next <=> StoreP!Next
  BY DEF Store!Next, StoreP!Next, Store!Mutation, StoreP!Mutation, Store!Change,
     StoreP!Change, Store!WriteKeys, StoreP!WriteKeys, Store!KeysFail, StoreP!KeysFail,
     Store!Backup, StoreP!Backup, Store!Save, StoreP!Save, Store!SaveFails,
     StoreP!SaveFails, Store!Clear, StoreP!Clear, Store!Point, StoreP!Point,
     Store!Start, StoreP!Start, Store!Crash, StoreP!Crash, Store!TakeClient,
     StoreP!TakeClient, Store!PinRound, StoreP!PinRound, Store!EndRound,
     StoreP!EndRound, Store!Add, StoreP!Add, Store!AddProvider, StoreP!AddProvider,
     Store!UpdateProvider, StoreP!UpdateProvider, Store!DeleteProvider,
     StoreP!DeleteProvider, Store!Update, StoreP!Update, Store!Delete, StoreP!Delete,
     Store!SetDefault, StoreP!SetDefault, Store!SetKey, StoreP!SetKey,
     Store!DeleteModel, StoreP!DeleteModel, Store!SetModel, StoreP!SetModel,
     Store!AddModel, StoreP!AddModel, Store!SetTaskModel, StoreP!SetTaskModel,
     Store!UpdateModel, StoreP!UpdateModel, Store!Restrict, StoreP!Restrict,
     Store!Blank, StoreP!Blank, Store!Nothing, StoreP!Nothing, Store!Idle, StoreP!Idle,
     Store!NoRound, StoreP!NoRound, Store!Ids, StoreP!Ids, Store!Entry, StoreP!Entry,
     Store!Added, StoreP!Added, Store!Migrated, StoreP!Migrated, Store!Seeded,
     StoreP!Seeded, Store!EntriesOf, StoreP!EntriesOf, Store!HasModel, StoreP!HasModel,
     Store!Without, StoreP!Without, Store!WithoutProvider, StoreP!WithoutProvider,
     Store!Client, StoreP!Client, Store!Made, StoreP!Made, Store!Pasted, StoreP!Pasted,
     Store!Revoked, StoreP!Revoked, Store!Step, StoreP!Step, Store!LockFree,
     StoreP!LockFree, Store!Done, StoreP!Done, Store!Ask, StoreP!Ask, Store!WithModel,
     StoreP!WithModel, Store!BackupIs, StoreP!BackupIs
<1> QED
  BY <1>1, <1>2, <1>3

LEMMA LegacyIsThat ==
  /\ Legacy!Assumption <=> LegacyP!Assumption
  /\ Legacy!Init <=> LegacyP!Init
  /\ Legacy!Next <=> LegacyP!Next
<1>1. Legacy!Assumption <=> LegacyP!Assumption
  BY DEF Legacy!Assumption, LegacyP!Assumption
<1>2. Legacy!Init <=> LegacyP!Init
  BY DEF Legacy!Init, LegacyP!Init, Legacy!Nothing, LegacyP!Nothing, Legacy!Idle,
     LegacyP!Idle, Legacy!NoRound, LegacyP!NoRound
<1>3. Legacy!Next <=> LegacyP!Next
  BY DEF Legacy!Next, LegacyP!Next, Legacy!Mutation, LegacyP!Mutation, Legacy!Change,
     LegacyP!Change, Legacy!WriteKeys, LegacyP!WriteKeys, Legacy!KeysFail,
     LegacyP!KeysFail, Legacy!Backup, LegacyP!Backup, Legacy!Save, LegacyP!Save,
     Legacy!SaveFails, LegacyP!SaveFails, Legacy!Clear, LegacyP!Clear, Legacy!Point,
     LegacyP!Point, Legacy!Start, LegacyP!Start, Legacy!Crash, LegacyP!Crash,
     Legacy!TakeClient, LegacyP!TakeClient, Legacy!PinRound, LegacyP!PinRound,
     Legacy!EndRound, LegacyP!EndRound, Legacy!Add, LegacyP!Add, Legacy!AddProvider,
     LegacyP!AddProvider, Legacy!UpdateProvider, LegacyP!UpdateProvider,
     Legacy!DeleteProvider, LegacyP!DeleteProvider, Legacy!Update, LegacyP!Update,
     Legacy!Delete, LegacyP!Delete, Legacy!SetDefault, LegacyP!SetDefault,
     Legacy!SetKey, LegacyP!SetKey, Legacy!DeleteModel, LegacyP!DeleteModel,
     Legacy!SetModel, LegacyP!SetModel, Legacy!AddModel, LegacyP!AddModel,
     Legacy!SetTaskModel, LegacyP!SetTaskModel, Legacy!UpdateModel, LegacyP!UpdateModel,
     Legacy!Restrict, LegacyP!Restrict, Legacy!Blank, LegacyP!Blank, Legacy!Nothing,
     LegacyP!Nothing, Legacy!Idle, LegacyP!Idle, Legacy!NoRound, LegacyP!NoRound,
     Legacy!Ids, LegacyP!Ids, Legacy!Entry, LegacyP!Entry, Legacy!Added, LegacyP!Added,
     Legacy!Migrated, LegacyP!Migrated, Legacy!Seeded, LegacyP!Seeded, Legacy!EntriesOf,
     LegacyP!EntriesOf, Legacy!HasModel, LegacyP!HasModel, Legacy!Without,
     LegacyP!Without, Legacy!WithoutProvider, LegacyP!WithoutProvider, Legacy!Client,
     LegacyP!Client, Legacy!Made, LegacyP!Made, Legacy!Pasted, LegacyP!Pasted,
     Legacy!Revoked, LegacyP!Revoked, Legacy!Step, LegacyP!Step, Legacy!LockFree,
     LegacyP!LockFree, Legacy!Done, LegacyP!Done, Legacy!Ask, LegacyP!Ask,
     Legacy!WithModel, LegacyP!WithModel, Legacy!BackupIs, LegacyP!BackupIs
<1> QED
  BY <1>1, <1>2, <1>3

LEMMA FailingIsThat ==
  /\ Failing!Assumption <=> FailingP!Assumption
  /\ Failing!Init <=> FailingP!Init
  /\ Failing!Next <=> FailingP!Next
<1>1. Failing!Assumption <=> FailingP!Assumption
  BY DEF Failing!Assumption, FailingP!Assumption
<1>2. Failing!Init <=> FailingP!Init
  BY DEF Failing!Init, FailingP!Init, Failing!Nothing, FailingP!Nothing, Failing!Idle,
     FailingP!Idle, Failing!NoRound, FailingP!NoRound
<1>3. Failing!Next <=> FailingP!Next
  BY DEF Failing!Next, FailingP!Next, Failing!Mutation, FailingP!Mutation,
     Failing!Change, FailingP!Change, Failing!WriteKeys, FailingP!WriteKeys,
     Failing!KeysFail, FailingP!KeysFail, Failing!Backup, FailingP!Backup, Failing!Save,
     FailingP!Save, Failing!SaveFails, FailingP!SaveFails, Failing!Clear,
     FailingP!Clear, Failing!Point, FailingP!Point, Failing!Start, FailingP!Start,
     Failing!Crash, FailingP!Crash, Failing!TakeClient, FailingP!TakeClient,
     Failing!PinRound, FailingP!PinRound, Failing!EndRound, FailingP!EndRound,
     Failing!Add, FailingP!Add, Failing!AddProvider, FailingP!AddProvider,
     Failing!UpdateProvider, FailingP!UpdateProvider, Failing!DeleteProvider,
     FailingP!DeleteProvider, Failing!Update, FailingP!Update, Failing!Delete,
     FailingP!Delete, Failing!SetDefault, FailingP!SetDefault, Failing!SetKey,
     FailingP!SetKey, Failing!DeleteModel, FailingP!DeleteModel, Failing!SetModel,
     FailingP!SetModel, Failing!AddModel, FailingP!AddModel, Failing!SetTaskModel,
     FailingP!SetTaskModel, Failing!UpdateModel, FailingP!UpdateModel, Failing!Restrict,
     FailingP!Restrict, Failing!Blank, FailingP!Blank, Failing!Nothing,
     FailingP!Nothing, Failing!Idle, FailingP!Idle, Failing!NoRound, FailingP!NoRound,
     Failing!Ids, FailingP!Ids, Failing!Entry, FailingP!Entry, Failing!Added,
     FailingP!Added, Failing!Migrated, FailingP!Migrated, Failing!Seeded,
     FailingP!Seeded, Failing!EntriesOf, FailingP!EntriesOf, Failing!HasModel,
     FailingP!HasModel, Failing!Without, FailingP!Without, Failing!WithoutProvider,
     FailingP!WithoutProvider, Failing!Client, FailingP!Client, Failing!Made,
     FailingP!Made, Failing!Pasted, FailingP!Pasted, Failing!Revoked, FailingP!Revoked,
     Failing!Step, FailingP!Step, Failing!LockFree, FailingP!LockFree, Failing!Done,
     FailingP!Done, Failing!Ask, FailingP!Ask, Failing!WithModel, FailingP!WithModel,
     Failing!BackupIs, FailingP!BackupIs
<1> QED
  BY <1>1, <1>2, <1>3

\* The properties too.
LEMMA StoreSaysThat ==
  /\ Store!TypeOK <=> StoreP!TypeOK
  /\ Store!DefaultResolves <=> StoreP!DefaultResolves
  /\ Store!CacheIsFresh <=> StoreP!CacheIsFresh
  /\ Store!SecretsHaveOwner <=> StoreP!SecretsHaveOwner
<1>1. Store!TypeOK <=> StoreP!TypeOK
  BY DEF Store!TypeOK, StoreP!TypeOK, Store!Ids, StoreP!Ids
<1>2. Store!DefaultResolves <=> StoreP!DefaultResolves
  BY DEF Store!DefaultResolves, StoreP!DefaultResolves, Store!Resolves, StoreP!Resolves
<1>3. Store!CacheIsFresh <=> StoreP!CacheIsFresh
  BY DEF Store!CacheIsFresh, StoreP!CacheIsFresh, Store!LockFree, StoreP!LockFree,
     Store!Client, StoreP!Client, Store!Idle, StoreP!Idle, Store!Nothing,
     StoreP!Nothing, Store!Blank, StoreP!Blank
<1>4. Store!SecretsHaveOwner <=> StoreP!SecretsHaveOwner
  BY DEF Store!SecretsHaveOwner, StoreP!SecretsHaveOwner
<1> QED
  BY <1>1, <1>2, <1>3, <1>4

LEMMA LegacySaysThat ==
  /\ Legacy!TypeOK <=> LegacyP!TypeOK
  /\ Legacy!DefaultResolves <=> LegacyP!DefaultResolves
  /\ Legacy!RollbackHolds <=> LegacyP!RollbackHolds
<1>1. Legacy!TypeOK <=> LegacyP!TypeOK
  BY DEF Legacy!TypeOK, LegacyP!TypeOK, Legacy!Ids, LegacyP!Ids
<1>2. Legacy!DefaultResolves <=> LegacyP!DefaultResolves
  BY DEF Legacy!DefaultResolves, LegacyP!DefaultResolves, Legacy!Resolves,
     LegacyP!Resolves
<1>3. Legacy!RollbackHolds <=> LegacyP!RollbackHolds
  BY DEF Legacy!RollbackHolds, LegacyP!RollbackHolds
<1> QED
  BY <1>1, <1>2, <1>3

LEMMA FailingSaysThat ==
  /\ Failing!TypeOK <=> FailingP!TypeOK
  /\ Failing!DefaultResolves <=> FailingP!DefaultResolves
<1>1. Failing!TypeOK <=> FailingP!TypeOK
  BY DEF Failing!TypeOK, FailingP!TypeOK, Failing!Ids, FailingP!Ids
<1>2. Failing!DefaultResolves <=> FailingP!DefaultResolves
  BY DEF Failing!DefaultResolves, FailingP!DefaultResolves, Failing!Resolves,
     FailingP!Resolves
<1> QED
  BY <1>1, <1>2

\* The instance of each part; in the first, no save and no backup fails.
StoresInv ==
  /\ part = "store" => StoreP!StoreInv /\ StoreP!SteadyInv
  /\ part = "legacy" => LegacyP!StoreInv
  /\ part = "failing" => FailingP!StoreInv

LEMMA StoreAssumptions ==
  StoreP!Assumption /\ StoreP!Steady /\ LegacyP!Assumption /\ FailingP!Assumption
BY ConstantsAreSound, StoreIsThat, LegacyIsThat, FailingIsThat DEF StoreP!Steady

LEMMA StoresStart == ServicesInit => StoresInv
<1> SUFFICES ASSUME ServicesInit PROVE StoresInv
  OBVIOUS
<1>1. ASSUME part = "store" PROVE StoreP!StoreInv /\ StoreP!SteadyInv
  <2>1. StoreP!Init
    BY <1>1, StoreIsThat DEF ServicesInit
  <2> QED
    BY <2>1, StoreAssumptions, StoreP!StoreInvInit, StoreP!SteadyInit
<1>2. ASSUME part = "legacy" PROVE LegacyP!StoreInv
  <2>1. LegacyP!Init
    BY <1>2, LegacyIsThat DEF ServicesInit
  <2> QED
    BY <2>1, StoreAssumptions, LegacyP!StoreInvInit
<1>3. ASSUME part = "failing" PROVE FailingP!StoreInv
  <2>1. Legacy!Init
    BY <1>3 DEF ServicesInit
  <2>2. FailingP!Init
    BY <2>1 DEF Legacy!Init, Legacy!Nothing, Legacy!Idle, Legacy!NoRound,
                FailingP!Init, FailingP!Nothing, FailingP!Idle, FailingP!NoRound
  <2> QED
    BY <2>2, StoreAssumptions, FailingP!StoreInvInit
<1> QED
  BY <1>1, <1>2, <1>3 DEF StoresInv

LEMMA StoresNext ==
  ASSUME StoresInv, [ServicesNext]_<<part, vars, staleVars, traceVars, storeVars, helperVars>>
  PROVE  StoresInv'
<1>1. part' = part
  BY DEF ServicesNext
<1>2. /\ part = "store" => Store!Next \/ UNCHANGED storeVars
      /\ part = "legacy" => Legacy!Next \/ UNCHANGED storeVars
      /\ part = "failing" => Failing!Next \/ UNCHANGED storeVars
  BY DEF ServicesNext, StoreStep
<1>3. ASSUME part = "store" PROVE StoreP!StoreInv' /\ StoreP!SteadyInv'
  <2>1. StoreP!StoreInv /\ StoreP!SteadyInv /\ [StoreP!Next]_StoreP!vars
    BY <1>2, <1>3, StoreIsThat DEF StoresInv, StoreP!vars, storeVars
  <2> QED
    BY <2>1, StoreAssumptions, StoreP!StoreInvNext, StoreP!SteadyInvNext
<1>4. ASSUME part = "legacy" PROVE LegacyP!StoreInv'
  <2>1. LegacyP!StoreInv /\ [LegacyP!Next]_LegacyP!vars
    BY <1>2, <1>4, LegacyIsThat DEF StoresInv, LegacyP!vars, storeVars
  <2> QED
    BY <2>1, StoreAssumptions, LegacyP!StoreInvNext
<1>5. ASSUME part = "failing" PROVE FailingP!StoreInv'
  <2>1. FailingP!StoreInv /\ [FailingP!Next]_FailingP!vars
    BY <1>2, <1>5, FailingIsThat DEF StoresInv, FailingP!vars, storeVars
  <2> QED
    BY <2>1, StoreAssumptions, FailingP!StoreInvNext
<1> QED
  BY <1>1, <1>3, <1>4, <1>5 DEF StoresInv

LEMMA StoresAreEnough == StoresInv => StoreIsSound
<1> SUFFICES ASSUME StoresInv PROVE StoreIsSound
  OBVIOUS
<1>1. ASSUME part = "store"
      PROVE  Store!TypeOK /\ Store!DefaultResolves /\ Store!CacheIsFresh /\ Store!SecretsHaveOwner
  BY <1>1, StoreP!StoreInvSays, StoreP!SteadyInvSays, StoreSaysThat DEF StoresInv
<1>2. ASSUME part = "legacy" PROVE Legacy!TypeOK /\ Legacy!DefaultResolves /\ Legacy!RollbackHolds
  BY <1>2, LegacyP!StoreInvSays, LegacySaysThat DEF StoresInv
<1>3. ASSUME part = "failing" PROVE Failing!TypeOK /\ Failing!DefaultResolves
  BY <1>3, FailingP!StoreInvSays, FailingSaysThat DEF StoresInv
<1> QED
  BY <1>1, <1>2, <1>3 DEF StoreIsSound

\* The store as MCServices states it, of its three instances: the default resolves whatever
\* fails; without a failing save the file, the memory, the cached clients and the keys agree
\* between two mutations; v2 replaces v1 only behind a whole backup (model_store.py 428-434,
\* 842-845, 935-940, 1179-1180, task_manager.py 833-836).
THEOREM StoreStaysSound == ServicesSpec => []StoreIsSound
<1>1. ServicesInit => StoresInv
  BY StoresStart
<1>2. StoresInv /\ [ServicesNext]_<<part, vars, staleVars, traceVars, storeVars, helperVars>> => StoresInv'
  BY StoresNext
<1>3. StoresInv => StoreIsSound
  BY StoresAreEnough
<1> QED
  BY <1>1, <1>2, <1>3, PTL DEF ServicesSpec

-----------------------------------------------------------------------------
(* Together.                                                               *)

\* A clean-exit session keeps its whole invariant; one whose exits may raise or hang only
\* its type.
HelpersInv == PoolInv /\ TreesInv /\ Mcp!TypeOK /\ (part = "mcp" => McpInv)

LEMMA PoolStarts == ServicesInit => PoolInv
<1> SUFFICES ASSUME Pool!Init PROVE PoolInv
  BY DEF ServicesInit
<1> USE ConstantsAreSound DEF Pool!Assumption, Pool!Init
<1>1. Pool!Somebody \in Parents
  BY DEF Pool!Somebody
<1>2. 0 \in 0..MaxSubs /\ 0 \in 0..MaxSteps /\ 0 \in 0..MaxSwitches /\ 0 \in 0..(MaxSwitches + 1)
  OBVIOUS
<1>3. PoolStates /\ PoolCounts
  BY <1>1, <1>2 DEF PoolStates, PoolCounts
<1>4. WaitedFor /\ PinnedInRound /\ FreshIsBlank /\ Pool!RoundsModel
  BY DEF WaitedFor, PinnedInRound, FreshIsBlank, Pool!RoundsModel
<1>5. Pool!FlagsDrain /\ ToldIsOver /\ FlagIsLate
  BY DEF Pool!FlagsDrain, ToldIsOver, FlagIsLate
<1>6. SpawnedInOrder
  BY <1>2 DEF SpawnedInOrder, Pool!Subs
<1> QED
  BY <1>3, <1>4, <1>5, <1>6 DEF PoolInv

LEMMA TreesStart == ServicesInit => TreesInv
<1> SUFFICES ASSUME Trees!Init PROVE TreesInv
  BY DEF ServicesInit
<1> USE ConstantsAreSound DEF Trees!Assumption, Trees!Init
<1>1. CountersInRange
  BY DEF CountersInRange
<1>2. SetsInRange
  BY DEF SetsInRange
<1> QED
  BY <1>1, <1>2 DEF TreesInv, Trees!NoTreeIsForgotten, Trees!ReaperIsThere, ShellInCall,
     ListedIsOver, EndedIsDead, Trees!Calls

LEMMA McpStarts == ServicesInit => McpInv
<1> SUFFICES ASSUME Mcp!Init PROVE McpInv
  BY DEF ServicesInit
<1> USE ConstantsAreSound DEF Mcp!Assumption, Mcp!Init
<1>1. 0 \in 0..McpCalls
  OBVIOUS
<1>2. Mcp!TypeOK
  BY <1>1 DEF Mcp!TypeOK
<1> QED
  BY <1>2 DEF McpInv, Mcp!FailedStartEnds, Mcp!RegisteredIsLive, ThreadHasChild,
     OpenerIsTold, CleanerOwns

\* Every step of the services is one part's; the other parts stay as they are.
LEMMA HelpersNext ==
  ASSUME HelpersInv, [ServicesNext]_<<part, vars, staleVars, traceVars, storeVars, helperVars>>
  PROVE  HelpersInv'
<1>1. UNCHANGED part /\ (UNCHANGED helperVars \/ HelperStep)
  BY DEF ServicesNext
<1>2. [Pool!Next]_workerVars /\ [Trees!Next]_treeVars
  BY <1>1 DEF HelperStep, helperVars
<1>3. PoolInv' /\ TreesInv'
  BY <1>2, PoolNext, TreesNext DEF HelpersInv
<1>4. [Mcp!Next \/ McpHangs!Next]_mcpVars /\ (part = "mcp" => [Mcp!Next]_mcpVars)
  BY <1>1 DEF HelperStep, helperVars
<1>5. Mcp!TypeOK' /\ (part = "mcp" => McpInv')
  BY <1>4, McpTypeNext, McpNext DEF HelpersInv
<1> QED
  BY <1>1, <1>3, <1>5 DEF HelpersInv

LEMMA HelpersAlways == ServicesSpec => []HelpersInv
<1>1. ServicesInit => HelpersInv
  BY PoolStarts, TreesStart, McpStarts DEF HelpersInv, McpInv
<1>2. HelpersInv /\ [ServicesNext]_<<part, vars, staleVars, traceVars, storeVars, helperVars>>
        => HelpersInv'
  BY HelpersNext
<1> QED
  BY <1>1, <1>2, PTL DEF ServicesSpec

\* A sub-task's flag goes with its thread and a round waits only for a sub-task of its own
\* model, unless a worker of an earlier round has popped this one's pin (subagent.py 294-300,
\* 362-363, task_manager.py 1216-1218); no background tree is forgotten and the list has a
\* reaper (bash.py 439-498); a failed connect leaves no process, a registered session is
\* live (client.py 147-170, 457-463) - whatever the number of tasks, slots, sub-tasks,
\* switches, bash calls, rounds, stops and tool calls.
THEOREM HelpersStaySound == ServicesSpec => []HelpersAreSound
<1>1. PoolInv => Pool!TypeOK /\ Pool!FlagsDrain /\ Pool!RoundsModel
  BY DEF PoolInv, PoolStates, PoolCounts, Pool!TypeOK
<1>2. TreesInv => Trees!TypeOK /\ Trees!NoTreeIsForgotten /\ Trees!ReaperIsThere
  BY DEF TreesInv, CountersInRange, SetsInRange, Trees!TypeOK
<1>3. HelpersInv => HelpersAreSound
  BY <1>1, <1>2 DEF HelpersInv, McpInv, HelpersAreSound
<1> QED
  BY <1>3, HelpersAlways, PTL

\* Once the end of a sub-task is told it enters no node any more: what is told is a result,
\* a cancelled future or a flag that the next node sees (subagent.py 290-292).
THEOREM FoldedStaysQuiet == ServicesSpec => Pool!FoldedIsQuiet
<1>1. ASSUME HelpersInv, [ServicesNext]_<<part, vars, staleVars, traceVars, storeVars, helperVars>>
      PROVE  [\A s \in Pool!Subs : wTold[s] > 0 => wSteps'[s] = wSteps[s]]_wSteps
  <2>1. [Pool!Next]_workerVars
    BY <1>1 DEF ServicesNext, HelperStep, helperVars
  <2>2. ASSUME NEW t \in Pool!Subs, Pool!Enter(t), NEW s \in Pool!Subs, wTold[s] > 0
        PROVE  wSteps'[s] = wSteps[s]
    BY <1>1, <2>2 DEF HelpersInv, PoolInv, PoolCounts, ToldIsOver, EndIsReal, Pool!Finished,
       Pool!Enter, Pool!Stopped, Pool!Comes
  <2>3. UNCHANGED wSteps \/ \E t \in Pool!Subs : Pool!Enter(t)
    BY <2>1 DEF workerVars, Pool!Next, Pool!Waiting, Pool!Thread, Pool!Begin, Pool!Spawn,
       Pool!Teardown, Pool!Unflag, Pool!Unpin, Pool!Stop, Pool!Switch, Pool!Answered, Pool!TimeOut,
       Pool!Cancel, Pool!Hook, Pool!Tell, Pool!Take, Pool!Pick, Pool!Leave, Pool!Work,
       Pool!Free, Pool!threads
  <2> QED
    BY <2>2, <2>3
<1> QED
  BY <1>1, HelpersAlways, PTL DEF ServicesSpec, Pool!FoldedIsQuiet


\* The trace keeps its eras apart: at rest the callbacks on the bus are the one the recorder
\* holds (trace.py 70-99, 165-169), a round that opened the file is in it from its first
\* event (trace.py 1-24), and the trace is closed when the rounds are over, unless the task
\* is deleted meanwhile (task_manager.py 1221) - for every number of rounds, accepted,
\* refused and deleted ones.
THEOREM TraceStaysSound == ServicesSpec => []TraceIsSound
<1> DEFINE TraceKept == TraceInv /\ (part = "rounds" => ~tGone)
<1>1. ServicesInit => TraceKept
  BY TraceStarts
<1>2. ASSUME TraceKept, [ServicesNext]_<<part, vars, staleVars, traceVars, storeVars, helperVars>>
      PROVE  TraceKept'
  <2>1. [Recorder!Next]_traceVars /\ UNCHANGED part
    BY <1>2 DEF ServicesNext, RecordStep
  <2>2. part = "rounds" => UNCHANGED tGone \/ ~tGone'
    BY <1>2 DEF ServicesNext, RecordStep, traceVars
  <2> QED
    BY <1>2, <2>1, <2>2, TraceNext
<1>3. TraceKept => TraceIsSound
  BY TraceIsEnough DEF TraceIsSound
<1> QED
  BY <1>1, <1>2, <1>3, PTL DEF ServicesSpec

===============================================================================
