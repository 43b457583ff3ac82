--------------------------- MODULE TaskRunsProofs ---------------------------
(***************************************************************************)
(* Theorems about TaskRuns for every set of request threads and workers.   *)
(***************************************************************************)
EXTENDS TaskRuns, TLAPS

USE ConstantsAssumption

-----------------------------------------------------------------------------
(* Type correctness.  A save that fails writes the snapshot back into the  *)
(* status, so the range of `status' rests on the snapshot having been      *)
(* taken wherever a save is pending.                                       *)

SnapshotTaken ==
  /\ \A c \in Clients : cpc[c] \in {"s_save", "k_save"} => prev[c] \in Statuses
  /\ \A w \in Workers : wpc[w] \in {"mark_save", "fail_save"} => prev[w] \in Statuses

TypeInv == TypeOK /\ SnapshotTaken

\* The first state of the task is well typed.
LEMMA TypeInit == Init => TypeInv
  BY DEF Init, TypeInv, TypeOK, SnapshotTaken, Procs, ClientPCs, WorkerPCs,
     Statuses, AllOps, Parked

\* Every step of a request, of a worker, a neighbour's save and a restart keep the
\* variables in range and the snapshots taken.
LEMMA TypeNext == TypeInv /\ [Next]_vars => TypeInv'
<1> SUFFICES ASSUME TypeInv, [Next]_vars PROVE TypeInv'
  OBVIOUS
<1> USE DEF TypeInv, TypeOK, SnapshotTaken, recordVars, mapVars, clientVars,
        workerVars, events, Procs, ClientPCs, WorkerPCs, Statuses, AllOps, Parked,
        Live, Goto, Enter, Step, Apply, SaveOk, SaveFails, Put, Pop, MapNames, Bump
<1>1. ASSUME NEW c \in Clients, ClientStep(c) PROVE TypeInv'
  <2>1. CASE CreateSave(c)
    BY <2>1 DEF CreateSave
  <2>2. CASE MakeThread(c)
    <3>1. PICK w \in Workers :
              /\ mine' = [mine EXCEPT ![c] = w]
              /\ thread' = w
              /\ wpc' = [wpc EXCEPT ![w] = "made"]
              /\ kind' = [kind EXCEPT ![w] = IF op[c] = "create" THEN "run" ELSE "cont"]
      BY <2>2 DEF MakeThread
    <3> QED
      BY <2>2, <3>1 DEF MakeThread
  <2>3. CASE StartThread(c)
    <3>1. wpc' \in [Workers -> WorkerPCs]
      BY <2>3 DEF StartThread
    <3>2. SnapshotTaken'
      BY <2>3 DEF StartThread
    <3> QED
      BY <2>3, <3>1, <3>2 DEF StartThread
  <2>4. CASE StopLoad(c)
    BY <2>4 DEF StopLoad
  <2>5. CASE StopPeek(c)
    BY <2>5 DEF StopPeek
  <2>6. CASE StopFlag(c)
    BY <2>6 DEF StopFlag
  <2>7. CASE StopApply(c)
    BY <2>7 DEF StopApply
  <2>8. CASE StopSave(c)
    <3>1. CASE SaveOk(c)
      BY <2>8, <3>1 DEF StopSave
    <3>2. CASE SaveFails(c)
      <4>1. status' \in Statuses /\ lock' \in Clients \cup {None}
        BY <2>8, <3>2 DEF StopSave
      <4> QED
        BY <2>8, <3>2, <4>1 DEF StopSave
    <3> HIDE DEF TypeInv, SaveOk, SaveFails, Goto
    <3> QED
      BY <2>8, <3>1, <3>2 DEF StopSave
  <2>9. CASE StopClaim(c)
    BY <2>9 DEF StopClaim
  <2>10. CASE StopTell(c)
    BY <2>10 DEF StopTell
  <2>11. CASE ContProbe(c)
    BY <2>11 DEF ContProbe
  <2>12. CASE ContClaim(c)
    BY <2>12 DEF ContClaim
  <2>13. CASE ContRefuse(c)
    BY <2>13 DEF ContRefuse
  <2>14. CASE ContApply(c)
    BY <2>14 DEF ContApply
  <2>15. CASE ContSave(c)
    <3>1. CASE SaveOk(c) /\ Goto(c, "k_tell") /\ UNCHANGED <<lock, maps>>
      BY <2>15, <3>1 DEF ContSave
    <3>2. CASE SaveFails(c) /\ Pop("trace") /\ lock' = None /\ Goto(c, "idle")
      BY <2>15, <3>2 DEF ContSave
    <3> HIDE DEF TypeInv, SaveOk, SaveFails, Goto, Pop
    <3> QED
      BY <2>15, <3>1, <3>2 DEF ContSave
  <2>16. CASE ContTell(c)
    BY <2>16 DEF ContTell
  <2>17. CASE DeleteRecord(c)
    BY <2>17 DEF DeleteRecord
  <2>18. CASE DeleteArtifacts(c)
    BY <2>18 DEF DeleteArtifacts
  <2>19. CASE DeletePop(c)
    BY <2>19 DEF DeletePop
  <2> QED
    BY <1>1, <2>1, <2>2, <2>3, <2>4, <2>5, <2>6, <2>7, <2>8, <2>9, <2>10,
       <2>11, <2>12, <2>13, <2>14, <2>15, <2>16, <2>17, <2>18, <2>19
       DEF ClientStep
<1>2. ASSUME NEW w \in Workers, WorkerStep(w) PROVE TypeInv'
  <2>1. CASE WorkerLoad(w)
    BY <2>1 DEF WorkerLoad
  <2>2. CASE RunMark(w)
    BY <2>2 DEF RunMark
  <2>3. CASE RunMarkSave(w)
    <3>1. CASE SaveOk(w)
      BY <2>3, <3>1 DEF RunMarkSave
    <3>2. CASE SaveFails(w)
      <4>1. status' \in Statuses /\ lock' \in Clients \cup {None}
        BY <2>3, <3>2 DEF RunMarkSave
      <4> QED
        BY <2>3, <3>2, <4>1 DEF RunMarkSave
    <3> HIDE DEF TypeInv, SaveOk, SaveFails, Goto
    <3> QED
      BY <2>3, <3>1, <3>2 DEF RunMarkSave
  <2>4. CASE Setup(w)
    BY <2>4 DEF Setup
  <2>5. CASE SetupRaises(w)
    <3>1. maps' \subseteq MapNames
      BY <2>5 DEF SetupRaises
    <3> QED
      BY <2>5, <3>1 DEF SetupRaises
  <2>6. CASE Superstep(w)
    BY <2>6 DEF Superstep
  <2>7. CASE GraphEnds(w)
    BY <2>7 DEF GraphEnds
  <2>8. CASE GraphRaises(w)
    BY <2>8 DEF GraphRaises
  <2>9. CASE Reload(w)
    BY <2>9 DEF Reload
  <2>10. CASE FinalAssign(w)
    BY <2>10 DEF FinalAssign
  <2>11. CASE FinalClaim(w)
    BY <2>11 DEF FinalClaim
  <2>12. CASE FinalTell(w)
    BY <2>12 DEF FinalTell
  <2>13. CASE FinalSave(w)
    BY <2>13 DEF FinalSave
  <2>14. CASE FailApply(w)
    BY <2>14 DEF FailApply
  <2>15. CASE FailSave(w)
    <3>1. CASE SaveOk(w)
      BY <2>15, <3>1 DEF FailSave
    <3>2. CASE SaveFails(w)
      <4>1. status' \in Statuses /\ lock' \in Clients \cup {None}
        BY <2>15, <3>2 DEF FailSave
      <4> QED
        BY <2>15, <3>2, <4>1 DEF FailSave
    <3> HIDE DEF TypeInv, SaveOk, SaveFails, Goto
    <3> QED
      BY <2>15, <3>1, <3>2 DEF FailSave
  <2>16. CASE FailTell(w)
    BY <2>16 DEF FailTell
  <2>17. CASE PopState(w)
    BY <2>17 DEF PopState
  <2>18. CASE PopThread(w)
    BY <2>18 DEF PopThread
  <2>19. CASE PopFlag(w)
    BY <2>19 DEF PopFlag
  <2>20. CASE PopModel(w)
    BY <2>20 DEF PopModel
  <2>21. CASE PopAnnounced(w)
    BY <2>21 DEF PopAnnounced
  <2>22. CASE CloseTrace(w)
    BY <2>22 DEF CloseTrace
  <2> QED
    BY <1>2, <2>1, <2>2, <2>3, <2>4, <2>5, <2>6, <2>7, <2>8, <2>9, <2>10,
       <2>11, <2>12, <2>13, <2>14, <2>15, <2>16, <2>17, <2>18, <2>19, <2>20,
       <2>21, <2>22
       DEF WorkerStep
<1>3. CASE NeighbourSave
  BY <1>3 DEF NeighbourSave
<1>4. CASE Restart
  BY <1>4 DEF Restart
<1>5. CASE UNCHANGED vars
  BY <1>5 DEF vars
<1> QED
  BY <1>1, <1>2, <1>3, <1>4, <1>5 DEF Next

\* Every reachable state is well typed, with a snapshot behind each pending save.
THEOREM TypeInvariant == Spec => []TypeInv
  BY TypeInit, TypeNext, PTL DEF Spec

\* Whatever the interleaving, the record, the maps and every thread keep the values
\* the code can give them.
THEOREM TypeCorrect == Spec => []TypeOK
  BY TypeInvariant, PTL DEF TypeInv

-----------------------------------------------------------------------------
(* One round at a time, while nobody calls stop.  OneRound says nothing     *)
(* about HOW the second owner is kept out; these are the reasons.           *)

StopPCs == {"s_peek", "s_flag", "s_apply", "s_save", "s_claim", "s_tell"}

NoStopping == \A c \in Clients : cpc[c] \notin StopPCs

\* An owner's record is listed; a record that is not listed is not on disk either.
OwnedIsListed ==
  /\ Owners # {} => record = "stored"
  /\ record # "stored" => disk = "none"

\* The claim holds the lock until the record says RUNNING, and from then on the
\* record itself turns every other claim and every delete away.
ClaimIsHeld ==
  \A c \in Clients :
    /\ cpc[c] \in {"k_apply", "k_save", "k_tell"} => lock = c
    /\ cpc[c] \in {"k_save", "k_tell", "k_make", "k_start"} => status \in Live

\* The thread that a request is about to start is the registered one ...
MadeIsRegistered ==
  \A c \in Clients : cpc[c] = "k_start" =>
    /\ mine[c] \in Workers /\ thread = mine[c] /\ wpc[mine[c]] = "made"

\* ... and so is every worker until it unregisters itself.
RoundIsRegistered == \A w \in InRound : thread = w

\* A delete's clean-up runs after the record has left the table.
DeletingIsGone ==
  \A c \in Clients : cpc[c] \in {"d_clean", "d_pop"} => record = "deleted"

RoundInv ==
  /\ TypeInv /\ NoStopping /\ OneRound /\ OwnedIsListed /\ ClaimIsHeld
  /\ MadeIsRegistered /\ RoundIsRegistered /\ DeletingIsGone

\* A task that was never created has no owner, no thread and no file.
LEMMA RoundInit == Init => RoundInv
<1> SUFFICES ASSUME Init PROVE RoundInv
  OBVIOUS
<1>1. TypeInv
  BY TypeInit
<1>2. Owners = {}
  BY DEF Init, Owners, Claiming, InRound
<1> QED
  BY <1>1, <1>2 DEF Init, RoundInv, NoStopping, StopPCs, OneRound, OwnedIsListed,
     ClaimIsHeld, MadeIsRegistered, RoundIsRegistered, DeletingIsGone, Owners

\* Without stop every step keeps the one owner and the reasons that keep a second
\* one out: the lock until RUNNING is stored, the record's status, the registered
\* thread.
LEMMA RoundNext == "stop" \notin Ops /\ RoundInv /\ [Next]_vars => RoundInv'
<1> SUFFICES ASSUME "stop" \notin Ops, RoundInv, [Next]_vars PROVE RoundInv'
  OBVIOUS
<1> DEFINE Rest == /\ NoStopping /\ OneRound /\ OwnedIsListed /\ ClaimIsHeld
                   /\ MadeIsRegistered /\ RoundIsRegistered /\ DeletingIsGone
<1>0. /\ Rest /\ TypeInv /\ TypeInv'
      /\ cpc \in [Clients -> ClientPCs] /\ wpc \in [Workers -> WorkerPCs]
      /\ mine \in [Clients -> Workers \cup {None}] /\ status \in Statuses
  BY TypeNext DEF RoundInv, TypeInv, TypeOK
<1> USE <1>0 DEF NoStopping, StopPCs, OneRound, OwnedIsListed, ClaimIsHeld,
        MadeIsRegistered, RoundIsRegistered, DeletingIsGone, Owners, Claiming,
        InRound, recordVars, mapVars, clientVars, workerVars, events, Goto, Enter,
        Step, Apply, SaveOk, SaveFails, Statuses, Live
<1>1. ASSUME NEW c \in Clients, ClientStep(c) PROVE Rest'
  <2>1. CASE CreateSave(c)
    BY <2>1 DEF CreateSave
  <2>2. CASE MakeThread(c)
    BY <2>2 DEF MakeThread
  <2>3. CASE StartThread(c)
    BY <2>3 DEF StartThread
  <2>4. CASE StopLoad(c)
    BY <2>4 DEF StopLoad
  <2>5. CASE StopPeek(c)
    BY <2>5 DEF StopPeek
  <2>6. CASE StopFlag(c)
    BY <2>6 DEF StopFlag
  <2>7. CASE StopApply(c)
    BY <2>7 DEF StopApply
  <2>8. CASE StopSave(c)
    BY <2>8 DEF StopSave
  <2>9. CASE StopClaim(c)
    BY <2>9 DEF StopClaim
  <2>10. CASE StopTell(c)
    BY <2>10 DEF StopTell
  <2>11. CASE ContProbe(c)
    BY <2>11 DEF ContProbe, HasCheckpoint
  <2>12. CASE ContClaim(c)
    BY <2>12 DEF ContClaim, Admissible, Admits, Alive, Parked
  <2>13. CASE ContRefuse(c)
    BY <2>13 DEF ContRefuse
  <2>14. CASE ContApply(c)
    BY <2>14 DEF ContApply
  <2>15. CASE ContSave(c)
    BY <2>15 DEF ContSave
  <2>16. CASE ContTell(c)
    BY <2>16 DEF ContTell
  <2>17. CASE DeleteRecord(c)
    BY <2>17 DEF DeleteRecord, Alive
  <2>18. CASE DeleteArtifacts(c)
    BY <2>18 DEF DeleteArtifacts
  <2>19. CASE DeletePop(c)
    BY <2>19 DEF DeletePop
  <2> QED
    BY <1>1, <2>1, <2>2, <2>3, <2>4, <2>5, <2>6, <2>7, <2>8, <2>9, <2>10,
       <2>11, <2>12, <2>13, <2>14, <2>15, <2>16, <2>17, <2>18, <2>19
       DEF ClientStep
<1>2. ASSUME NEW w \in Workers, WorkerStep(w) PROVE Rest'
  <2>1. CASE WorkerLoad(w)
    BY <2>1 DEF WorkerLoad
  <2>2. CASE RunMark(w)
    BY <2>2 DEF RunMark
  <2>3. CASE RunMarkSave(w)
    BY <2>3 DEF RunMarkSave
  <2>4. CASE Setup(w)
    BY <2>4 DEF Setup
  <2>5. CASE SetupRaises(w)
    BY <2>5 DEF SetupRaises
  <2>6. CASE Superstep(w)
    BY <2>6 DEF Superstep
  <2>7. CASE GraphEnds(w)
    BY <2>7 DEF GraphEnds
  <2>8. CASE GraphRaises(w)
    BY <2>8 DEF GraphRaises
  <2>9. CASE Reload(w)
    BY <2>9 DEF Reload
  <2>10. CASE FinalAssign(w)
    BY <2>10 DEF FinalAssign
  <2>11. CASE FinalClaim(w)
    BY <2>11 DEF FinalClaim
  <2>12. CASE FinalTell(w)
    BY <2>12 DEF FinalTell
  <2>13. CASE FinalSave(w)
    BY <2>13 DEF FinalSave
  <2>14. CASE FailApply(w)
    BY <2>14 DEF FailApply
  <2>15. CASE FailSave(w)
    BY <2>15 DEF FailSave
  <2>16. CASE FailTell(w)
    BY <2>16 DEF FailTell
  <2>17. CASE PopState(w)
    BY <2>17 DEF PopState
  <2>18. CASE PopThread(w)
    BY <2>18 DEF PopThread
  <2>19. CASE PopFlag(w)
    BY <2>19 DEF PopFlag
  <2>20. CASE PopModel(w)
    BY <2>20 DEF PopModel
  <2>21. CASE PopAnnounced(w)
    BY <2>21 DEF PopAnnounced
  <2>22. CASE CloseTrace(w)
    BY <2>22 DEF CloseTrace
  <2> QED
    BY <1>2, <2>1, <2>2, <2>3, <2>4, <2>5, <2>6, <2>7, <2>8, <2>9, <2>10,
       <2>11, <2>12, <2>13, <2>14, <2>15, <2>16, <2>17, <2>18, <2>19, <2>20,
       <2>21, <2>22
       DEF WorkerStep
<1>3. ASSUME NeighbourSave PROVE Rest'
  <2>1. Claiming' = Claiming /\ InRound' = InRound
    BY <1>3 DEF NeighbourSave
  <2> HIDE DEF Claiming, InRound
  <2> QED
    BY <1>3, <2>1 DEF NeighbourSave
<1>4. ASSUME Restart PROVE Rest'
  <2>1. Claiming' = {} /\ InRound' = {}
    BY <1>4 DEF Restart
  <2>2. NoStopping' /\ ClaimIsHeld' /\ MadeIsRegistered' /\ DeletingIsGone'
    BY <1>4 DEF Restart
  <2>3. OwnedIsListed'
    <3> HIDE DEF Claiming, InRound
    <3> QED
      BY <1>4, <2>1 DEF Restart
  <2> HIDE DEF Claiming, InRound
  <2> QED
    BY <2>1, <2>2, <2>3
<1>5. ASSUME UNCHANGED vars PROVE Rest'
  <2>1. Claiming' = Claiming /\ InRound' = InRound
    BY <1>5 DEF vars
  <2> HIDE DEF Claiming, InRound
  <2> QED
    BY <1>5, <2>1 DEF vars
<1> HIDE DEF Rest
<1>6. Rest'
  BY <1>1, <1>2, <1>3, <1>4, <1>5 DEF Next
<1> QED
  BY <1>0, <1>6 DEF RoundInv, Rest

\* Requests that create, resume, continue and delete the task, restarts and saves
\* that fail never give the task a second round, for any number of threads.
THEOREM OneRoundWithoutStop == ASSUME "stop" \notin Ops PROVE Spec => []OneRound
<1>1. RoundInv /\ [Next]_vars => RoundInv'
  BY RoundNext
<1> QED
  BY RoundInit, <1>1, PTL DEF Spec, RoundInv

-----------------------------------------------------------------------------
(* The rounds implement RoundSlot.  The invariant fixes the owners at both  *)
(* ends of a step; what is left is how the record may move.                 *)

\* The record is created once, deleted while nobody owns the slot, and moves by no
\* other step: no save puts back what delete_task has removed.
LEMMA RecordMoves ==
  ASSUME "stop" \notin Ops, RoundInv, [Next]_vars
  PROVE  \/ record' = record
         \/ record = "absent" /\ record' = "stored" /\ Owners' # {}
         \/ record = "stored" /\ record' = "deleted" /\ Owners = {}
<1> DEFINE Moves == \/ record' = record
                    \/ record = "absent" /\ record' = "stored" /\ Owners' # {}
                    \/ record = "stored" /\ record' = "deleted" /\ Owners = {}
<1>0. /\ cpc \in [Clients -> ClientPCs] /\ wpc \in [Workers -> WorkerPCs]
      /\ NoStopping /\ OwnedIsListed
  BY DEF RoundInv, TypeInv, TypeOK
<1> USE <1>0 DEF OwnedIsListed, Owners, Claiming, InRound, recordVars, mapVars,
        clientVars, workerVars, events, Goto, Enter, Step, Apply, SaveOk, SaveFails
<1>1. ASSUME NEW c \in Clients, ClientStep(c) PROVE Moves
  <2>1. CASE CreateSave(c)
    BY <2>1 DEF CreateSave
  <2>2. CASE MakeThread(c)
    BY <2>2 DEF MakeThread
  <2>3. CASE StartThread(c)
    BY <2>3 DEF StartThread
  <2>4. CASE StopLoad(c)
    BY <2>4 DEF StopLoad, NoStopping, StopPCs
  <2>5. CASE StopPeek(c)
    BY <2>5 DEF StopPeek, NoStopping, StopPCs
  <2>6. CASE StopFlag(c)
    BY <2>6 DEF StopFlag, NoStopping, StopPCs
  <2>7. CASE StopApply(c)
    BY <2>7 DEF StopApply, NoStopping, StopPCs
  <2>8. CASE StopSave(c)
    BY <2>8 DEF StopSave, NoStopping, StopPCs
  <2>9. CASE StopClaim(c)
    BY <2>9 DEF StopClaim, NoStopping, StopPCs
  <2>10. CASE StopTell(c)
    BY <2>10 DEF StopTell, NoStopping, StopPCs
  <2>11. CASE ContProbe(c)
    BY <2>11 DEF ContProbe
  <2>12. CASE ContClaim(c)
    BY <2>12 DEF ContClaim
  <2>13. CASE ContRefuse(c)
    BY <2>13 DEF ContRefuse
  <2>14. CASE ContApply(c)
    BY <2>14 DEF ContApply
  <2>15. CASE ContSave(c)
    BY <2>15 DEF ContSave
  <2>16. CASE ContTell(c)
    BY <2>16 DEF ContTell
  <2>17. CASE DeleteRecord(c)
    <3>1. Claiming = {}
      BY <2>17 DEF DeleteRecord, RoundInv, ClaimIsHeld
    <3>2. InRound = {}
      BY <2>17 DEF DeleteRecord, RoundInv, RoundIsRegistered, Alive
    <3> HIDE DEF Claiming, InRound
    <3> QED
      BY <2>17, <3>1, <3>2 DEF DeleteRecord
  <2>18. CASE DeleteArtifacts(c)
    BY <2>18 DEF DeleteArtifacts
  <2>19. CASE DeletePop(c)
    BY <2>19 DEF DeletePop
  <2> QED
    BY <1>1, <2>1, <2>2, <2>3, <2>4, <2>5, <2>6, <2>7, <2>8, <2>9, <2>10,
       <2>11, <2>12, <2>13, <2>14, <2>15, <2>16, <2>17, <2>18, <2>19
       DEF ClientStep
<1>2. ASSUME NEW w \in Workers, WorkerStep(w) PROVE Moves
  <2>1. CASE WorkerLoad(w)
    BY <2>1 DEF WorkerLoad
  <2>2. CASE RunMark(w)
    BY <2>2 DEF RunMark
  <2>3. CASE RunMarkSave(w)
    BY <2>3 DEF RunMarkSave
  <2>4. CASE Setup(w)
    BY <2>4 DEF Setup
  <2>5. CASE SetupRaises(w)
    BY <2>5 DEF SetupRaises
  <2>6. CASE Superstep(w)
    BY <2>6 DEF Superstep
  <2>7. CASE GraphEnds(w)
    BY <2>7 DEF GraphEnds
  <2>8. CASE GraphRaises(w)
    BY <2>8 DEF GraphRaises
  <2>9. CASE Reload(w)
    BY <2>9 DEF Reload
  <2>10. CASE FinalAssign(w)
    BY <2>10 DEF FinalAssign
  <2>11. CASE FinalClaim(w)
    BY <2>11 DEF FinalClaim
  <2>12. CASE FinalTell(w)
    BY <2>12 DEF FinalTell
  <2>13. CASE FinalSave(w)
    BY <2>13 DEF FinalSave
  <2>14. CASE FailApply(w)
    BY <2>14 DEF FailApply
  <2>15. CASE FailSave(w)
    BY <2>15 DEF FailSave
  <2>16. CASE FailTell(w)
    BY <2>16 DEF FailTell
  <2>17. CASE PopState(w)
    BY <2>17 DEF PopState
  <2>18. CASE PopThread(w)
    BY <2>18 DEF PopThread
  <2>19. CASE PopFlag(w)
    BY <2>19 DEF PopFlag
  <2>20. CASE PopModel(w)
    BY <2>20 DEF PopModel
  <2>21. CASE PopAnnounced(w)
    BY <2>21 DEF PopAnnounced
  <2>22. CASE CloseTrace(w)
    BY <2>22 DEF CloseTrace
  <2> QED
    BY <1>2, <2>1, <2>2, <2>3, <2>4, <2>5, <2>6, <2>7, <2>8, <2>9, <2>10,
       <2>11, <2>12, <2>13, <2>14, <2>15, <2>16, <2>17, <2>18, <2>19, <2>20,
       <2>21, <2>22
       DEF WorkerStep
<1>3. ASSUME NeighbourSave \/ UNCHANGED vars PROVE Moves
  BY <1>3 DEF NeighbourSave, vars
<1>4. ASSUME Restart PROVE Moves
  BY <1>4 DEF Restart
<1> QED
  BY <1>1, <1>2, <1>3, <1>4 DEF Next

\* A task that was never created is an empty slot.
LEMMA SlotInit == Init => Slot!Init
  BY DEF Init, Slot!Init, Owners, Claiming, InRound

\* Every step opens, hands over, closes or removes the slot, or leaves it alone.
LEMMA SlotNext ==
  ASSUME "stop" \notin Ops, RoundInv, RoundInv', [Next]_vars
  PROVE  [Slot!Next]_Slot!vars
<1> USE DEF Slot!vars
<1>1. /\ OneRound /\ OwnedIsListed /\ OneRound' /\ OwnedIsListed'
      /\ Owners \subseteq Procs /\ Owners' \subseteq Procs
  BY DEF RoundInv, Owners, Claiming, InRound, Procs
<1>2. CASE record' = record
  <2>1. CASE Owners = {} /\ Owners' = {}
    BY <1>2, <2>1
  <2>2. CASE Owners = {} /\ Owners' # {}
    <3>1. PICK p \in Procs : Owners' = {p}
      BY <1>1, <2>2 DEF OneRound
    <3>2. Slot!Open(p)
      BY <1>1, <1>2, <2>2, <3>1 DEF Slot!Open, OwnedIsListed
    <3> QED
      BY <3>2 DEF Slot!Next
  <2>3. CASE Owners # {} /\ Owners' = {}
    <3>1. PICK p \in Procs : Owners = {p}
      BY <1>1, <2>3 DEF OneRound
    <3>2. Slot!Close(p)
      BY <1>2, <2>3, <3>1 DEF Slot!Close
    <3> QED
      BY <3>2 DEF Slot!Next
  <2>4. CASE Owners # {} /\ Owners' # {}
    <3>1. PICK p \in Procs : Owners = {p}
      BY <1>1, <2>4 DEF OneRound
    <3>2. PICK q \in Procs : Owners' = {q}
      BY <1>1, <2>4 DEF OneRound
    <3>3. Slot!HandOver(p, q)
      BY <1>2, <3>1, <3>2 DEF Slot!HandOver
    <3> QED
      BY <3>3 DEF Slot!Next
  <2> QED
    BY <2>1, <2>2, <2>3, <2>4
<1>3. CASE record = "absent" /\ record' = "stored" /\ Owners' # {}
  <2>1. Owners = {}
    BY <1>1, <1>3 DEF OwnedIsListed
  <2>2. PICK p \in Procs : Owners' = {p}
    BY <1>1, <1>3 DEF OneRound
  <2>3. Slot!Open(p)
    BY <1>3, <2>1, <2>2 DEF Slot!Open
  <2> QED
    BY <2>3 DEF Slot!Next
<1>4. CASE record = "stored" /\ record' = "deleted" /\ Owners = {}
  <2>1. Owners' = {}
    BY <1>1, <1>4 DEF OwnedIsListed
  <2>2. Slot!Remove
    BY <1>4, <2>1 DEF Slot!Remove
  <2> QED
    BY <2>2 DEF Slot!Next
<1> QED
  BY <1>2, <1>3, <1>4, RecordMoves

\* Without stop the rounds of a task form the slot of module RoundSlot, whatever the
\* number of request threads and workers.
THEOREM RoundsImplementSlot == ASSUME "stop" \notin Ops PROVE Spec => ImplementsRoundSlot
<1>1. RoundInv /\ [Next]_vars => RoundInv' /\ [Slot!Next]_Slot!vars
  BY RoundNext, SlotNext
<1> QED
  BY RoundInit, SlotInit, <1>1, PTL DEF Spec, ImplementsRoundSlot, Slot!Spec

-----------------------------------------------------------------------------
(* What has_checkpoint promises at the probe still holds when the worker    *)
(* reads the snapshot, two threads and several locks later.                 *)

CheckpointStays ==
  /\ \A c \in Clients :
       /\ cpc[c] = "k_claim" /\ c \in saw /\ record # "deleted" => ckpt = "some"
       /\ cpc[c] \in {"k_apply", "k_save", "k_tell", "k_make"} /\ op[c] # "create"
            => ckpt = "some"
       /\ cpc[c] = "k_start" /\ kind[mine[c]] = "cont" => ckpt = "some"
  /\ \A w \in Workers :
       /\ wpc[w] \in {"mark", "mark_save"} => kind[w] = "run"
       /\ kind[w] = "cont" /\ wpc[w] \in {"begin", "setup"} => ckpt = "some"

CheckpointInv == RoundInv /\ CheckpointStays

\* From the probe on, the snapshot of a continuation that can still be admitted is
\* removed by no step: delete_task takes the record away first.
LEMMA CheckpointNext ==
  ASSUME "stop" \notin Ops, CheckpointInv, RoundInv', [Next]_vars
  PROVE  CheckpointStays'
<1>0. /\ cpc \in [Clients -> ClientPCs] /\ wpc \in [Workers -> WorkerPCs]
      /\ mine \in [Clients -> Workers \cup {None}] /\ op \in [Clients -> AllOps \cup {"none"}]
      /\ kind \in [Workers -> {"run", "cont"}] /\ ckpt \in {"none", "some"}
      /\ CheckpointStays /\ OwnedIsListed /\ MadeIsRegistered /\ NoStopping
      /\ DeletingIsGone
  BY DEF CheckpointInv, RoundInv, TypeInv, TypeOK
<1> USE <1>0 DEF CheckpointStays, recordVars, mapVars, clientVars, workerVars, events,
        Goto, Enter, Step, Apply, SaveOk, SaveFails
<1>1. ASSUME NEW c \in Clients, ClientStep(c) PROVE CheckpointStays'
  <2>1. CASE CreateSave(c)
    BY <2>1 DEF CreateSave, OwnedIsListed, Owners, Claiming, InRound
  <2>2. CASE MakeThread(c)
    <3>1. PICK w \in Workers :
              /\ wpc[w] = "idle"
              /\ mine' = [mine EXCEPT ![c] = w]
              /\ wpc' = [wpc EXCEPT ![w] = "made"]
              /\ kind' = [kind EXCEPT ![w] = IF op[c] = "create" THEN "run" ELSE "cont"]
      BY <2>2 DEF MakeThread
    <3> QED
      BY <2>2, <3>1 DEF MakeThread, MadeIsRegistered
  <2>3. CASE StartThread(c)
    BY <2>3 DEF StartThread, MadeIsRegistered
  <2>4. CASE StopLoad(c)
    BY <2>4 DEF StopLoad, NoStopping, StopPCs
  <2>5. CASE StopPeek(c)
    BY <2>5 DEF StopPeek, NoStopping, StopPCs
  <2>6. CASE StopFlag(c)
    BY <2>6 DEF StopFlag, NoStopping, StopPCs
  <2>7. CASE StopApply(c)
    BY <2>7 DEF StopApply, NoStopping, StopPCs
  <2>8. CASE StopSave(c)
    BY <2>8 DEF StopSave, NoStopping, StopPCs
  <2>9. CASE StopClaim(c)
    BY <2>9 DEF StopClaim, NoStopping, StopPCs
  <2>10. CASE StopTell(c)
    BY <2>10 DEF StopTell, NoStopping, StopPCs
  <2>11. CASE ContProbe(c)
    <3>1. PICK o \in Ops \cap {"resume", "continue"} : Enter(c, o, HasCheckpoint, "k_claim")
      BY <2>11 DEF ContProbe
    <3> QED
      BY <2>11, <3>1 DEF ContProbe, HasCheckpoint
  <2>12. CASE ContClaim(c)
    BY <2>12 DEF ContClaim, Admissible
  <2>13. CASE ContRefuse(c)
    BY <2>13 DEF ContRefuse
  <2>14. CASE ContApply(c)
    BY <2>14 DEF ContApply
  <2>15. CASE ContSave(c)
    <3>1. record = "stored"
      BY <2>15 DEF ContSave, OwnedIsListed, Owners, Claiming
    <3>2. CASE SaveOk(c) /\ Goto(c, "k_tell")
      BY <2>15, <3>1, <3>2 DEF ContSave
    <3>3. CASE SaveFails(c) /\ Goto(c, "idle")
      BY <2>15, <3>1, <3>3 DEF ContSave
    <3> HIDE DEF SaveOk, SaveFails, Goto
    <3> QED
      BY <2>15, <3>2, <3>3 DEF ContSave
  <2>16. CASE ContTell(c)
    BY <2>16 DEF ContTell
  <2>17. CASE DeleteRecord(c)
    BY <2>17 DEF DeleteRecord
  <2>18. CASE DeleteArtifacts(c)
    BY <2>18 DEF DeleteArtifacts, DeletingIsGone, OwnedIsListed, Owners, Claiming, InRound
  <2>19. CASE DeletePop(c)
    BY <2>19 DEF DeletePop
  <2> QED
    BY <1>1, <2>1, <2>2, <2>3, <2>4, <2>5, <2>6, <2>7, <2>8, <2>9, <2>10,
       <2>11, <2>12, <2>13, <2>14, <2>15, <2>16, <2>17, <2>18, <2>19
       DEF ClientStep
<1>2. ASSUME NEW w \in Workers, WorkerStep(w) PROVE CheckpointStays'
  <2>1. CASE WorkerLoad(w)
    BY <2>1 DEF MadeIsRegistered, WorkerLoad
  <2>2. CASE RunMark(w)
    BY <2>2 DEF MadeIsRegistered, RunMark
  <2>3. CASE RunMarkSave(w)
    <3>1. record = "stored"
      BY <2>3 DEF MadeIsRegistered, RunMarkSave, OwnedIsListed, Owners, InRound
    <3> QED
      BY <2>3, <3>1 DEF RunMarkSave, MadeIsRegistered
  <2>4. CASE Setup(w)
    BY <2>4 DEF MadeIsRegistered, Setup
  <2>5. CASE SetupRaises(w)
    BY <2>5 DEF MadeIsRegistered, SetupRaises
  <2>6. CASE Superstep(w)
    BY <2>6 DEF MadeIsRegistered, Superstep
  <2>7. CASE GraphEnds(w)
    BY <2>7 DEF MadeIsRegistered, GraphEnds
  <2>8. CASE GraphRaises(w)
    BY <2>8 DEF MadeIsRegistered, GraphRaises
  <2>9. CASE Reload(w)
    BY <2>9 DEF MadeIsRegistered, Reload
  <2>10. CASE FinalAssign(w)
    BY <2>10 DEF MadeIsRegistered, FinalAssign
  <2>11. CASE FinalClaim(w)
    BY <2>11 DEF MadeIsRegistered, FinalClaim
  <2>12. CASE FinalTell(w)
    BY <2>12 DEF MadeIsRegistered, FinalTell
  <2>13. CASE FinalSave(w)
    BY <2>13 DEF MadeIsRegistered, FinalSave, OwnedIsListed, Owners, InRound
  <2>14. CASE FailApply(w)
    BY <2>14 DEF MadeIsRegistered, FailApply
  <2>15. CASE FailSave(w)
    BY <2>15 DEF MadeIsRegistered, FailSave, OwnedIsListed, Owners, InRound
  <2>16. CASE FailTell(w)
    BY <2>16 DEF MadeIsRegistered, FailTell
  <2>17. CASE PopState(w)
    BY <2>17 DEF MadeIsRegistered, PopState
  <2>18. CASE PopThread(w)
    BY <2>18 DEF MadeIsRegistered, PopThread
  <2>19. CASE PopFlag(w)
    BY <2>19 DEF MadeIsRegistered, PopFlag
  <2>20. CASE PopModel(w)
    BY <2>20 DEF MadeIsRegistered, PopModel
  <2>21. CASE PopAnnounced(w)
    BY <2>21 DEF MadeIsRegistered, PopAnnounced
  <2>22. CASE CloseTrace(w)
    BY <2>22 DEF MadeIsRegistered, CloseTrace
  <2> QED
    BY <1>2, <2>1, <2>2, <2>3, <2>4, <2>5, <2>6, <2>7, <2>8, <2>9, <2>10,
       <2>11, <2>12, <2>13, <2>14, <2>15, <2>16, <2>17, <2>18, <2>19, <2>20,
       <2>21, <2>22
       DEF WorkerStep
<1>3. ASSUME NeighbourSave \/ UNCHANGED vars PROVE CheckpointStays'
  BY <1>3 DEF NeighbourSave, vars
<1>4. ASSUME Restart PROVE CheckpointStays'
  BY <1>4 DEF Restart
<1> QED
  BY <1>1, <1>2, <1>3, <1>4 DEF Next

\* Without stop, a continuation that was admitted never finds the snapshot gone: a
\* delete that removes it has made the claim impossible first.
THEOREM AdmissionIsKept == ASSUME "stop" \notin Ops PROVE Spec => []AdmittedHasCheckpoint
<1>1. Init => CheckpointInv
  BY RoundInit DEF Init, CheckpointInv, CheckpointStays
<1>2. CheckpointInv /\ [Next]_vars => CheckpointInv'
  BY RoundNext, CheckpointNext DEF CheckpointInv
<1>3. CheckpointInv => AdmittedHasCheckpoint
  BY DEF CheckpointInv, CheckpointStays, AdmittedHasCheckpoint
<1> QED
  BY <1>1, <1>2, <1>3, PTL DEF Spec

-----------------------------------------------------------------------------
(* What a round leaves for somebody to do is done by somebody: the live    *)
(* status is settled, tasks.json is brought up to date, the shared maps    *)
(* are emptied and the end is announced.  Each of these promises names the *)
(* threads that can keep it, and each is proved by following the duty from *)
(* thread to thread.                                                       *)
-----------------------------------------------------------------------------
(* What every promise rests on: a request that is about to start a thread  *)
(* has one of its own, and a task that was never created has no threads.   *)

\* Two requests never hold the same unstarted thread; it is of the request's kind.
Handed ==
  /\ \A c \in Clients : cpc[c] = "k_start" =>
       /\ mine[c] \in Workers /\ wpc[mine[c]] = "made"
       /\ (kind[mine[c]] = "run" <=> op[c] = "create")
  /\ \A c, d \in Clients :
       cpc[c] = "k_start" /\ cpc[d] = "k_start" /\ mine[c] = mine[d] => c = d

\* Only the first round marks the record RUNNING itself.
FirstMarks == \A w \in Workers : wpc[w] \in {"mark", "mark_save"} => kind[w] = "run"

\* A claim is a continuation's.
ClaimsAreConts == \A c \in Clients : cpc[c] = "k_claim" => op[c] \in {"resume", "continue"}

AbsentIsIdle == record = "absent" => Quiet

ThreadInv == TypeInv /\ Handed /\ FirstMarks /\ ClaimsAreConts /\ AbsentIsIdle

\* No thread exists before the first request.
LEMMA ThreadInit == Init => ThreadInv
  BY TypeInit DEF Init, ThreadInv, Handed, FirstMarks, ClaimsAreConts, AbsentIsIdle,
     Quiet


\* A thread object is handed from the request that made it to nobody else.
LEMMA ThreadNext == ThreadInv /\ [Next]_vars => ThreadInv'
<1> SUFFICES ASSUME ThreadInv, [Next]_vars PROVE ThreadInv'
  OBVIOUS
<1> DEFINE Rest == Handed /\ FirstMarks /\ ClaimsAreConts /\ AbsentIsIdle
<1>0. /\ Rest /\ TypeInv'
      /\ cpc \in [Clients -> ClientPCs] /\ wpc \in [Workers -> WorkerPCs]
      /\ mine \in [Clients -> Workers \cup {None}] /\ op \in [Clients -> AllOps \cup {"none"}]
      /\ kind \in [Workers -> {"run", "cont"}] /\ record \in {"absent", "stored", "deleted"}
  BY TypeNext DEF ThreadInv, TypeInv, TypeOK
<1> USE <1>0 DEF Handed, FirstMarks, ClaimsAreConts, AbsentIsIdle, Quiet, recordVars, mapVars,
        clientVars, workerVars, events, Goto, Enter, Step, Apply, SaveOk, SaveFails
<1>1. ASSUME NEW c \in Clients, ClientStep(c) PROVE Rest'
  <2>1. CASE CreateSave(c)
    BY <2>1 DEF CreateSave
  <2>2. CASE MakeThread(c)
    <3>1. PICK w \in Workers :
              /\ wpc[w] = "idle"
              /\ mine' = [mine EXCEPT ![c] = w]
              /\ wpc' = [wpc EXCEPT ![w] = "made"]
              /\ kind' = [kind EXCEPT ![w] = IF op[c] = "create" THEN "run" ELSE "cont"]
      BY <2>2 DEF MakeThread
    <3> QED
      BY <2>2, <3>1 DEF MakeThread
  <2>3. CASE StartThread(c)
    BY <2>3 DEF StartThread
  <2>4. CASE StopLoad(c)
    BY <2>4 DEF StopLoad
  <2>5. CASE StopPeek(c)
    BY <2>5 DEF StopPeek
  <2>6. CASE StopFlag(c)
    BY <2>6 DEF StopFlag
  <2>7. CASE StopApply(c)
    BY <2>7 DEF StopApply
  <2>8. CASE StopSave(c)
    BY <2>8 DEF StopSave
  <2>9. CASE StopClaim(c)
    BY <2>9 DEF StopClaim
  <2>10. CASE StopTell(c)
    BY <2>10 DEF StopTell
  <2>11. CASE ContProbe(c)
    BY <2>11 DEF ContProbe
  <2>12. CASE ContClaim(c)
    BY <2>12 DEF ContClaim
  <2>13. CASE ContRefuse(c)
    BY <2>13 DEF ContRefuse
  <2>14. CASE ContApply(c)
    BY <2>14 DEF ContApply
  <2>15. CASE ContSave(c)
    BY <2>15 DEF ContSave
  <2>16. CASE ContTell(c)
    BY <2>16 DEF ContTell
  <2>17. CASE DeleteRecord(c)
    BY <2>17 DEF DeleteRecord
  <2>18. CASE DeleteArtifacts(c)
    BY <2>18 DEF DeleteArtifacts
  <2>19. CASE DeletePop(c)
    BY <2>19 DEF DeletePop
  <2> QED
    BY <1>1, <2>1, <2>2, <2>3, <2>4, <2>5, <2>6, <2>7, <2>8, <2>9, <2>10, <2>11,
       <2>12, <2>13, <2>14, <2>15, <2>16, <2>17, <2>18, <2>19
       DEF ClientStep
<1>2. ASSUME NEW w \in Workers, WorkerStep(w) PROVE Rest'
  <2>1. CASE WorkerLoad(w)
    BY <2>1 DEF WorkerLoad
  <2>2. CASE RunMark(w)
    BY <2>2 DEF RunMark
  <2>3. CASE RunMarkSave(w)
    BY <2>3 DEF RunMarkSave
  <2>4. CASE Setup(w)
    BY <2>4 DEF Setup
  <2>5. CASE SetupRaises(w)
    BY <2>5 DEF SetupRaises
  <2>6. CASE Superstep(w)
    BY <2>6 DEF Superstep
  <2>7. CASE GraphEnds(w)
    BY <2>7 DEF GraphEnds
  <2>8. CASE GraphRaises(w)
    BY <2>8 DEF GraphRaises
  <2>9. CASE Reload(w)
    BY <2>9 DEF Reload
  <2>10. CASE FinalAssign(w)
    BY <2>10 DEF FinalAssign
  <2>11. CASE FinalClaim(w)
    BY <2>11 DEF FinalClaim
  <2>12. CASE FinalTell(w)
    BY <2>12 DEF FinalTell
  <2>13. CASE FinalSave(w)
    BY <2>13 DEF FinalSave
  <2>14. CASE FailApply(w)
    BY <2>14 DEF FailApply
  <2>15. CASE FailSave(w)
    BY <2>15 DEF FailSave
  <2>16. CASE FailTell(w)
    BY <2>16 DEF FailTell
  <2>17. CASE PopState(w)
    BY <2>17 DEF PopState
  <2>18. CASE PopThread(w)
    BY <2>18 DEF PopThread
  <2>19. CASE PopFlag(w)
    BY <2>19 DEF PopFlag
  <2>20. CASE PopModel(w)
    BY <2>20 DEF PopModel
  <2>21. CASE PopAnnounced(w)
    BY <2>21 DEF PopAnnounced
  <2>22. CASE CloseTrace(w)
    BY <2>22 DEF CloseTrace
  <2> QED
    BY <1>2, <2>1, <2>2, <2>3, <2>4, <2>5, <2>6, <2>7, <2>8, <2>9, <2>10, <2>11,
       <2>12, <2>13, <2>14, <2>15, <2>16, <2>17, <2>18, <2>19, <2>20, <2>21, <2>22
       DEF WorkerStep
<1>3. ASSUME NeighbourSave PROVE Rest'
  BY <1>3 DEF NeighbourSave
<1>4. ASSUME Restart PROVE Rest'
  BY <1>4 DEF Restart
<1>5. ASSUME UNCHANGED vars PROVE Rest'
  BY <1>5 DEF vars
<1> HIDE DEF Rest
<1>6. Rest'
  BY <1>1, <1>2, <1>3, <1>4, <1>5 DEF Next
<1> QED
  BY <1>0, <1>6 DEF ThreadInv, Rest

\* In every reachable state the unstarted threads have one request each.
THEOREM ThreadsAreHanded == Spec => []ThreadInv
  BY ThreadInit, ThreadNext, PTL DEF Spec

-----------------------------------------------------------------------------
(* tasks.json, while every save succeeds.                                  *)

\* A listed record has a line in the file.
ListedOnDisk == record = "stored" => disk # "none"

DiskInv == ThreadInv /\ DiskAgrees /\ ListedOnDisk

\* A step that changes the status leaves its own thread on the way to a save, and a
\* save that is done has written the status of that moment, whoever assigned it.
LEMMA DiskNext == ~SaveMayFail /\ DiskInv /\ [Next]_vars => DiskInv'
<1> SUFFICES ASSUME ~SaveMayFail, DiskInv, [Next]_vars PROVE DiskInv'
  OBVIOUS
<1> DEFINE Rest == DiskAgrees /\ ListedOnDisk
<1>0. /\ Rest /\ ThreadInv' /\ Handed
      /\ cpc \in [Clients -> ClientPCs] /\ wpc \in [Workers -> WorkerPCs]
      /\ outcome \in [Workers -> Parked] /\ status \in Statuses
  BY ThreadNext DEF DiskInv, ThreadInv, TypeInv, TypeOK
<1> USE <1>0 DEF DiskAgrees, Savers, ListedOnDisk, recordVars, mapVars, clientVars,
        workerVars, events, Goto, Enter, Step, Apply, SaveOk, SaveFails, Statuses, Parked
<1>1. ASSUME NEW c \in Clients, ClientStep(c) PROVE Rest'
  <2>1. CASE CreateSave(c)
    BY <2>1 DEF CreateSave
  <2>2. CASE MakeThread(c)
    BY <2>2 DEF MakeThread
  <2>3. CASE StartThread(c)
    BY <2>3 DEF StartThread, Handed
  <2>4. CASE StopLoad(c)
    BY <2>4 DEF StopLoad
  <2>5. CASE StopPeek(c)
    BY <2>5 DEF StopPeek
  <2>6. CASE StopFlag(c)
    BY <2>6 DEF StopFlag
  <2>7. CASE StopApply(c)
    BY <2>7 DEF StopApply
  <2>8. CASE StopSave(c)
    BY <2>8 DEF StopSave
  <2>9. CASE StopClaim(c)
    BY <2>9 DEF StopClaim
  <2>10. CASE StopTell(c)
    BY <2>10 DEF StopTell
  <2>11. CASE ContProbe(c)
    BY <2>11 DEF ContProbe
  <2>12. CASE ContClaim(c)
    BY <2>12 DEF ContClaim
  <2>13. CASE ContRefuse(c)
    BY <2>13 DEF ContRefuse
  <2>14. CASE ContApply(c)
    BY <2>14 DEF ContApply
  <2>15. CASE ContSave(c)
    BY <2>15 DEF ContSave
  <2>16. CASE ContTell(c)
    BY <2>16 DEF ContTell
  <2>17. CASE DeleteRecord(c)
    BY <2>17 DEF DeleteRecord
  <2>18. CASE DeleteArtifacts(c)
    BY <2>18 DEF DeleteArtifacts
  <2>19. CASE DeletePop(c)
    BY <2>19 DEF DeletePop
  <2> QED
    BY <1>1, <2>1, <2>2, <2>3, <2>4, <2>5, <2>6, <2>7, <2>8, <2>9, <2>10, <2>11,
       <2>12, <2>13, <2>14, <2>15, <2>16, <2>17, <2>18, <2>19
       DEF ClientStep
<1>2. ASSUME NEW w \in Workers, WorkerStep(w) PROVE Rest'
  <2>1. CASE WorkerLoad(w)
    BY <2>1 DEF WorkerLoad
  <2>2. CASE RunMark(w)
    BY <2>2 DEF RunMark
  <2>3. CASE RunMarkSave(w)
    BY <2>3 DEF RunMarkSave
  <2>4. CASE Setup(w)
    BY <2>4 DEF Setup
  <2>5. CASE SetupRaises(w)
    BY <2>5 DEF SetupRaises
  <2>6. CASE Superstep(w)
    BY <2>6 DEF Superstep
  <2>7. CASE GraphEnds(w)
    BY <2>7 DEF GraphEnds
  <2>8. CASE GraphRaises(w)
    BY <2>8 DEF GraphRaises
  <2>9. CASE Reload(w)
    BY <2>9 DEF Reload
  <2>10. CASE FinalAssign(w)
    BY <2>10 DEF FinalAssign
  <2>11. CASE FinalClaim(w)
    BY <2>11 DEF FinalClaim
  <2>12. CASE FinalTell(w)
    BY <2>12 DEF FinalTell
  <2>13. CASE FinalSave(w)
    BY <2>13 DEF FinalSave
  <2>14. CASE FailApply(w)
    BY <2>14 DEF FailApply
  <2>15. CASE FailSave(w)
    BY <2>15 DEF FailSave
  <2>16. CASE FailTell(w)
    BY <2>16 DEF FailTell
  <2>17. CASE PopState(w)
    BY <2>17 DEF PopState
  <2>18. CASE PopThread(w)
    BY <2>18 DEF PopThread
  <2>19. CASE PopFlag(w)
    BY <2>19 DEF PopFlag
  <2>20. CASE PopModel(w)
    BY <2>20 DEF PopModel
  <2>21. CASE PopAnnounced(w)
    BY <2>21 DEF PopAnnounced
  <2>22. CASE CloseTrace(w)
    BY <2>22 DEF CloseTrace
  <2> QED
    BY <1>2, <2>1, <2>2, <2>3, <2>4, <2>5, <2>6, <2>7, <2>8, <2>9, <2>10, <2>11,
       <2>12, <2>13, <2>14, <2>15, <2>16, <2>17, <2>18, <2>19, <2>20, <2>21, <2>22
       DEF WorkerStep
<1>3. ASSUME NeighbourSave PROVE Rest'
  BY <1>3 DEF NeighbourSave
<1>4. ASSUME Restart PROVE Rest'
  BY <1>4 DEF Restart, Live
<1>5. ASSUME UNCHANGED vars PROVE Rest'
  BY <1>5 DEF vars
<1> HIDE DEF Rest
<1>6. Rest'
  BY <1>1, <1>2, <1>3, <1>4, <1>5 DEF Next
<1> QED
  BY <1>0, <1>6 DEF DiskInv, Rest

\* While saves succeed, tasks.json differs from the live record only as long as some
\* thread is on its way to save it, whatever is called and whenever the process dies.
THEOREM DiskIsBroughtUpToDate == ASSUME ~SaveMayFail PROVE Spec => []DiskAgrees
<1>1. Init => DiskInv
  BY ThreadInit DEF Init, DiskInv, DiskAgrees, ListedOnDisk
<1>2. DiskInv /\ [Next]_vars => DiskInv'
  BY DiskNext
<1> QED
  BY <1>1, <1>2, PTL DEF Spec, DiskInv


-----------------------------------------------------------------------------
(* The shared maps.                                                        *)

FirstAtStart(w) == kind[w] = "run" /\ wpc[w] \in {"made", "begin"}

\* The open trace file has a thread that closes it: delete's clean-up, a continuation,
\* a round past its first look at the record -- or a first round that has not looked
\* yet, for as long as the record is listed (it leaves at once when it is not).
TraceHasCloser ==
  "trace" \in maps =>
    \/ \E c \in Clients : cpc[c] = "d_clean"
    \/ \E c \in Claiming : op[c] # "create"
    \/ \E w \in Workers : wpc[w] # "idle" /\ ~FirstAtStart(w)
    \/ record = "stored" /\ \/ \E c \in Claiming : op[c] = "create"
                            \/ \E w \in Workers : FirstAtStart(w)

DrainInv == ThreadInv /\ RoundDrains /\ TraceHasCloser

\* A thread gives up an entry of the maps only in the statement that drops it, or hands
\* the trace to the thread it starts.
LEMMA DrainNext == DrainInv /\ [Next]_vars => DrainInv'
<1> SUFFICES ASSUME DrainInv, [Next]_vars PROVE DrainInv'
  OBVIOUS
<1> DEFINE Rest == RoundDrains /\ TraceHasCloser
<1>0. /\ Rest /\ ThreadInv' /\ Handed /\ AbsentIsIdle /\ ClaimsAreConts
      /\ cpc \in [Clients -> ClientPCs] /\ wpc \in [Workers -> WorkerPCs]
      /\ mine \in [Clients -> Workers \cup {None}] /\ op \in [Clients -> AllOps \cup {"none"}]
      /\ kind \in [Workers -> {"run", "cont"}] /\ record \in {"absent", "stored", "deleted"}
  BY ThreadNext DEF DrainInv, ThreadInv, TypeInv, TypeOK
<1> USE <1>0 DEF RoundDrains, TraceHasCloser, FirstAtStart, Claiming, recordVars, mapVars,
        clientVars, workerVars, events, Goto, Enter, Step, Apply, SaveOk, SaveFails, Put, Pop
<1>1. ASSUME NEW c \in Clients, ClientStep(c) PROVE Rest'
  <2>1. CASE CreateSave(c)
    BY <2>1 DEF CreateSave, AbsentIsIdle, Quiet
  <2>2. CASE MakeThread(c)
    <3>1. PICK w \in Workers :
              /\ wpc[w] = "idle"
              /\ wpc' = [wpc EXCEPT ![w] = "made"]
              /\ kind' = [kind EXCEPT ![w] = IF op[c] = "create" THEN "run" ELSE "cont"]
      BY <2>2 DEF MakeThread
    <3> QED
      BY <2>2, <3>1 DEF MakeThread
  <2>3. CASE StartThread(c)
    BY <2>3 DEF StartThread, Handed
  <2>4. CASE StopLoad(c)
    BY <2>4 DEF StopLoad
  <2>5. CASE StopPeek(c)
    BY <2>5 DEF StopPeek
  <2>6. CASE StopFlag(c)
    BY <2>6 DEF StopFlag
  <2>7. CASE StopApply(c)
    BY <2>7 DEF StopApply
  <2>8. CASE StopSave(c)
    BY <2>8 DEF StopSave
  <2>9. CASE StopClaim(c)
    BY <2>9 DEF StopClaim
  <2>10. CASE StopTell(c)
    BY <2>10 DEF StopTell
  <2>11. CASE ContProbe(c)
    BY <2>11 DEF ContProbe
  <2>12. CASE ContClaim(c)
    BY <2>12 DEF ContClaim, ClaimsAreConts
  <2>13. CASE ContRefuse(c)
    BY <2>13 DEF ContRefuse
  <2>14. CASE ContApply(c)
    BY <2>14 DEF ContApply
  <2>15. CASE ContSave(c)
    BY <2>15 DEF ContSave
  <2>16. CASE ContTell(c)
    BY <2>16 DEF ContTell
  <2>17. CASE DeleteRecord(c)
    BY <2>17 DEF DeleteRecord
  <2>18. CASE DeleteArtifacts(c)
    BY <2>18 DEF DeleteArtifacts
  <2>19. CASE DeletePop(c)
    BY <2>19 DEF DeletePop
  <2> QED
    BY <1>1, <2>1, <2>2, <2>3, <2>4, <2>5, <2>6, <2>7, <2>8, <2>9, <2>10, <2>11,
       <2>12, <2>13, <2>14, <2>15, <2>16, <2>17, <2>18, <2>19
       DEF ClientStep
<1>2. ASSUME NEW w \in Workers, WorkerStep(w) PROVE Rest'
  <2>1. CASE WorkerLoad(w)
    BY <2>1 DEF WorkerLoad
  <2>2. CASE RunMark(w)
    BY <2>2 DEF RunMark
  <2>3. CASE RunMarkSave(w)
    BY <2>3 DEF RunMarkSave
  <2>4. CASE Setup(w)
    BY <2>4 DEF Setup
  <2>5. CASE SetupRaises(w)
    BY <2>5 DEF SetupRaises
  <2>6. CASE Superstep(w)
    BY <2>6 DEF Superstep
  <2>7. CASE GraphEnds(w)
    BY <2>7 DEF GraphEnds
  <2>8. CASE GraphRaises(w)
    BY <2>8 DEF GraphRaises
  <2>9. CASE Reload(w)
    BY <2>9 DEF Reload
  <2>10. CASE FinalAssign(w)
    BY <2>10 DEF FinalAssign
  <2>11. CASE FinalClaim(w)
    BY <2>11 DEF FinalClaim
  <2>12. CASE FinalTell(w)
    BY <2>12 DEF FinalTell
  <2>13. CASE FinalSave(w)
    BY <2>13 DEF FinalSave
  <2>14. CASE FailApply(w)
    BY <2>14 DEF FailApply
  <2>15. CASE FailSave(w)
    BY <2>15 DEF FailSave
  <2>16. CASE FailTell(w)
    BY <2>16 DEF FailTell
  <2>17. CASE PopState(w)
    BY <2>17 DEF PopState
  <2>18. CASE PopThread(w)
    BY <2>18 DEF PopThread
  <2>19. CASE PopFlag(w)
    BY <2>19 DEF PopFlag
  <2>20. CASE PopModel(w)
    BY <2>20 DEF PopModel
  <2>21. CASE PopAnnounced(w)
    BY <2>21 DEF PopAnnounced
  <2>22. CASE CloseTrace(w)
    BY <2>22 DEF CloseTrace
  <2> QED
    BY <1>2, <2>1, <2>2, <2>3, <2>4, <2>5, <2>6, <2>7, <2>8, <2>9, <2>10, <2>11,
       <2>12, <2>13, <2>14, <2>15, <2>16, <2>17, <2>18, <2>19, <2>20, <2>21, <2>22
       DEF WorkerStep
<1>3. ASSUME NeighbourSave PROVE Rest'
  BY <1>3 DEF NeighbourSave
<1>4. ASSUME Restart PROVE Rest'
  BY <1>4 DEF Restart
<1>5. ASSUME UNCHANGED vars PROVE Rest'
  BY <1>5 DEF vars
<1> HIDE DEF Rest
<1>6. Rest'
  BY <1>1, <1>2, <1>3, <1>4, <1>5 DEF Next
<1> QED
  BY <1>0, <1>6 DEF DrainInv, Rest

\* Whatever is called, whatever fails and whenever the process dies, no entry of the
\* shared maps is left without a thread that will drop it.
THEOREM MapsAreDrained == Spec => []RoundDrains
<1>1. Init => DrainInv
  BY ThreadInit DEF Init, DrainInv, RoundDrains, TraceHasCloser
<1>2. DrainInv /\ [Next]_vars => DrainInv'
  BY DrainNext
<1> QED
  BY <1>1, <1>2, PTL DEF Spec, DrainInv


-----------------------------------------------------------------------------
(* The live status, while every save succeeds.                             *)

\* A claim keeps delete_task out until its flip is stored.
ClaimLocks ==
  \A c \in Clients : cpc[c] \in {"k_apply", "k_save", "k_tell"} =>
    lock = c /\ record = "stored"

\* PENDING belongs to the first round, before it marks the record.
PendingIsFirst ==
  status = "PENDING" =>
    /\ record # "deleted"
    /\ \A c \in Claiming : op[c] = "create"
    /\ \A w \in Workers : wpc[w] # "idle" =>
         kind[w] = "run" /\ wpc[w] \in {"made", "begin", "mark"}

\* Only a first round goes on when its record is gone, and may save it back; a live
\* status that outlives its record otherwise has nobody left who saves.
FirstCarriers == {w \in Workers : kind[w] = "run" /\
                    wpc[w] \in {"mark_save", "setup", "loop", "end", "assign", "fail"}}
Dormant ==
  /\ \A w \in Workers : wpc[w] = "idle"
  /\ \A c \in Clients : \/ cpc[c] \in {"idle", "k_claim"}
                        \/ cpc[c] \in {"s_peek", "s_flag"} /\ c \notin saw
DeletedIsDormant ==
  status \in Live /\ record = "deleted" => FirstCarriers # {} \/ Dormant

CarrierInv ==
  /\ ThreadInv /\ RunningHasCarrier /\ ListedOnDisk
  /\ ClaimLocks /\ PendingIsFirst /\ DeletedIsDormant

\* A carrier passes the live status on to the thread it starts or the step it takes
\* next, and ends it by parking the record; one that leaves has seen it parked.
LEMMA CarrierNext == ~SaveMayFail /\ CarrierInv /\ [Next]_vars => CarrierInv'
<1> SUFFICES ASSUME ~SaveMayFail, CarrierInv, [Next]_vars PROVE CarrierInv'
  OBVIOUS
<1> DEFINE Rest == /\ RunningHasCarrier /\ ListedOnDisk
                   /\ ClaimLocks /\ PendingIsFirst /\ DeletedIsDormant
<1>0. /\ Rest /\ ThreadInv' /\ Handed /\ AbsentIsIdle /\ ClaimsAreConts /\ FirstMarks
      /\ cpc \in [Clients -> ClientPCs] /\ wpc \in [Workers -> WorkerPCs]
      /\ mine \in [Clients -> Workers \cup {None}] /\ op \in [Clients -> AllOps \cup {"none"}]
      /\ kind \in [Workers -> {"run", "cont"}] /\ record \in {"absent", "stored", "deleted"}
      /\ outcome \in [Workers -> Parked] /\ status \in Statuses
  BY ThreadNext DEF CarrierInv, ThreadInv, TypeInv, TypeOK
<1> USE <1>0 DEF RunningHasCarrier, Carriers, ListedOnDisk, ClaimLocks, PendingIsFirst,
        DeletedIsDormant, FirstCarriers, Dormant, Claiming, recordVars, mapVars, clientVars,
        workerVars, events, Goto, Enter, Step, Apply, SaveOk, SaveFails, Statuses, Live, Parked
<1>1. ASSUME NEW c \in Clients, ClientStep(c) PROVE Rest'
  <2>1. CASE CreateSave(c)
    BY <2>1 DEF CreateSave, AbsentIsIdle, Quiet
  <2>2. CASE MakeThread(c)
    <3>1. PICK w \in Workers :
              /\ wpc[w] = "idle"
              /\ wpc' = [wpc EXCEPT ![w] = "made"]
              /\ kind' = [kind EXCEPT ![w] = IF op[c] = "create" THEN "run" ELSE "cont"]
      BY <2>2 DEF MakeThread
    <3> QED
      BY <2>2, <3>1 DEF MakeThread
  <2>3. CASE StartThread(c)
    BY <2>3 DEF StartThread, Handed
  <2>4. CASE StopLoad(c)
    BY <2>4 DEF StopLoad
  <2>5. CASE StopPeek(c)
    BY <2>5 DEF StopPeek
  <2>6. CASE StopFlag(c)
    BY <2>6 DEF StopFlag
  <2>7. CASE StopApply(c)
    BY <2>7 DEF StopApply
  <2>8. CASE StopSave(c)
    BY <2>8 DEF StopSave, AbsentIsIdle, Quiet
  <2>9. CASE StopClaim(c)
    BY <2>9 DEF StopClaim
  <2>10. CASE StopTell(c)
    BY <2>10 DEF StopTell
  <2>11. CASE ContProbe(c)
    BY <2>11 DEF ContProbe
  <2>12. CASE ContClaim(c)
    BY <2>12 DEF ContClaim, ClaimsAreConts, Admissible, Admits
  <2>13. CASE ContRefuse(c)
    BY <2>13 DEF ContRefuse
  <2>14. CASE ContApply(c)
    BY <2>14 DEF ContApply
  <2>15. CASE ContSave(c)
    BY <2>15 DEF ContSave
  <2>16. CASE ContTell(c)
    BY <2>16 DEF ContTell
  <2>17. CASE DeleteRecord(c)
    BY <2>17 DEF DeleteRecord
  <2>18. CASE DeleteArtifacts(c)
    BY <2>18 DEF DeleteArtifacts
  <2>19. CASE DeletePop(c)
    BY <2>19 DEF DeletePop
  <2> QED
    BY <1>1, <2>1, <2>2, <2>3, <2>4, <2>5, <2>6, <2>7, <2>8, <2>9, <2>10, <2>11,
       <2>12, <2>13, <2>14, <2>15, <2>16, <2>17, <2>18, <2>19
       DEF ClientStep
<1>2. ASSUME NEW w \in Workers, WorkerStep(w) PROVE Rest'
  <2>1. CASE WorkerLoad(w)
    BY <2>1 DEF WorkerLoad
  <2>2. CASE RunMark(w)
    BY <2>2 DEF RunMark, FirstMarks
  <2>3. CASE RunMarkSave(w)
    BY <2>3 DEF RunMarkSave, FirstMarks
  <2>4. CASE Setup(w)
    BY <2>4 DEF Setup
  <2>5. CASE SetupRaises(w)
    BY <2>5 DEF SetupRaises
  <2>6. CASE Superstep(w)
    BY <2>6 DEF Superstep
  <2>7. CASE GraphEnds(w)
    BY <2>7 DEF GraphEnds
  <2>8. CASE GraphRaises(w)
    BY <2>8 DEF GraphRaises
  <2>9. CASE Reload(w)
    BY <2>9 DEF Reload
  <2>10. CASE FinalAssign(w)
    BY <2>10 DEF FinalAssign
  <2>11. CASE FinalClaim(w)
    BY <2>11 DEF FinalClaim
  <2>12. CASE FinalTell(w)
    BY <2>12 DEF FinalTell
  <2>13. CASE FinalSave(w)
    BY <2>13 DEF FinalSave, AbsentIsIdle, Quiet
  <2>14. CASE FailApply(w)
    BY <2>14 DEF FailApply
  <2>15. CASE FailSave(w)
    BY <2>15 DEF FailSave, AbsentIsIdle, Quiet
  <2>16. CASE FailTell(w)
    BY <2>16 DEF FailTell
  <2>17. CASE PopState(w)
    BY <2>17 DEF PopState
  <2>18. CASE PopThread(w)
    BY <2>18 DEF PopThread
  <2>19. CASE PopFlag(w)
    BY <2>19 DEF PopFlag
  <2>20. CASE PopModel(w)
    BY <2>20 DEF PopModel
  <2>21. CASE PopAnnounced(w)
    BY <2>21 DEF PopAnnounced
  <2>22. CASE CloseTrace(w)
    BY <2>22 DEF CloseTrace
  <2> QED
    BY <1>2, <2>1, <2>2, <2>3, <2>4, <2>5, <2>6, <2>7, <2>8, <2>9, <2>10, <2>11,
       <2>12, <2>13, <2>14, <2>15, <2>16, <2>17, <2>18, <2>19, <2>20, <2>21, <2>22
       DEF WorkerStep
<1>3. ASSUME NeighbourSave PROVE Rest'
  BY <1>3 DEF NeighbourSave
<1>4. ASSUME Restart PROVE Rest'
  BY <1>4 DEF Restart
<1>5. ASSUME UNCHANGED vars PROVE Rest'
  BY <1>5 DEF vars
<1> HIDE DEF Rest
<1>6. Rest'
  BY <1>1, <1>2, <1>3, <1>4, <1>5 DEF Next
<1> QED
  BY <1>0, <1>6 DEF CarrierInv, Rest

\* While saves succeed, a record that says PENDING or RUNNING has a thread that will
\* settle it, whatever is called -- stops that park a round too early, continuations
\* that start a second one and deletes included -- and whenever the process dies.
THEOREM LiveRecordIsCarried == ASSUME ~SaveMayFail PROVE Spec => []RunningHasCarrier
<1>1. Init => CarrierInv
  BY ThreadInit DEF Init, CarrierInv, RunningHasCarrier, ListedOnDisk, ClaimLocks,
     PendingIsFirst, DeletedIsDormant, Claiming
<1>2. CarrierInv /\ [Next]_vars => CarrierInv'
  BY CarrierNext
<1> QED
  BY <1>1, <1>2, PTL DEF Spec, CarrierInv


-----------------------------------------------------------------------------
(* The end of the first round is announced, when nobody opens another one: *)
(* the two threads that may park it claim the announcement under the lock. *)

FirstRoundOnly == Ops \cap {"resume", "continue", "delete"} = {} /\ CountEvents /\ ~MayRestart

Heard == parks + fails > 0

\* Whoever has claimed the announcement is the one that will make it.
ClaimIsTold ==
  "announced" \in maps /\ ~Heard =>
    \/ \E c \in Clients : cpc[c] = "s_tell"
    \/ \E w \in Workers : wpc[w] = "tell"

\* A round that has not been heard of still has a thread that will speak.
Tellers ==
  {c \in Clients : cpc[c] \in {"k_make", "k_start", "s_tell"}} \cup
  {w \in Workers : wpc[w] \in
     {"made", "begin", "mark", "mark_save", "setup", "loop", "end", "assign",
      "claim", "tell", "fail", "fail_save", "fail_tell"}}
SilentHasTeller == record = "stored" /\ ~Heard => Tellers # {}

\* No call is being served but create and stop.
OnlyCreateAndStop ==
  /\ record # "deleted"
  /\ \A c \in Clients : cpc[c] \in {"idle", "k_make", "k_start", "s_peek", "s_flag",
                                    "s_apply", "s_save", "s_claim", "s_tell"}
  /\ \A c \in Clients : cpc[c] = "k_make" => op[c] = "create"
  /\ \A w \in Workers : kind[w] = "run"

TellInv == ThreadInv /\ ClaimIsTold /\ SilentHasTeller /\ OnlyCreateAndStop

\* A thread that could still speak keeps silent only because another one has claimed
\* the announcement, and that one has not forgotten it.
LEMMA TellNext == FirstRoundOnly /\ TellInv /\ [Next]_vars => TellInv'
<1> SUFFICES ASSUME FirstRoundOnly, TellInv, [Next]_vars PROVE TellInv'
  OBVIOUS
<1> DEFINE Rest == ClaimIsTold /\ SilentHasTeller /\ OnlyCreateAndStop
<1>0. /\ Rest /\ ThreadInv' /\ Handed /\ AbsentIsIdle /\ FirstMarks
      /\ cpc \in [Clients -> ClientPCs] /\ wpc \in [Workers -> WorkerPCs]
      /\ mine \in [Clients -> Workers \cup {None}] /\ op \in [Clients -> AllOps \cup {"none"}]
      /\ kind \in [Workers -> {"run", "cont"}] /\ record \in {"absent", "stored", "deleted"}
      /\ parks \in 0..2 /\ fails \in 0..2
      /\ Ops \cap {"resume", "continue", "delete"} = {} /\ CountEvents /\ ~MayRestart
  BY ThreadNext DEF TellInv, ThreadInv, TypeInv, TypeOK, FirstRoundOnly
<1> USE <1>0 DEF ClaimIsTold, SilentHasTeller, OnlyCreateAndStop, Heard, Tellers,
        recordVars, mapVars, clientVars, workerVars, events, Goto, Enter, Step, Apply,
        SaveOk, SaveFails, Put, Pop, Bump
<1>1. ASSUME NEW c \in Clients, ClientStep(c) PROVE Rest'
  <2>1. CASE CreateSave(c)
    BY <2>1 DEF CreateSave, AbsentIsIdle, Quiet
  <2>2. CASE MakeThread(c)
    <3>1. PICK w \in Workers :
              /\ wpc[w] = "idle"
              /\ wpc' = [wpc EXCEPT ![w] = "made"]
              /\ kind' = [kind EXCEPT ![w] = IF op[c] = "create" THEN "run" ELSE "cont"]
      BY <2>2 DEF MakeThread
    <3> QED
      BY <2>2, <3>1 DEF MakeThread
  <2>3. CASE StartThread(c)
    BY <2>3 DEF StartThread, Handed
  <2>4. CASE StopLoad(c)
    BY <2>4 DEF StopLoad
  <2>5. CASE StopPeek(c)
    BY <2>5 DEF StopPeek
  <2>6. CASE StopFlag(c)
    BY <2>6 DEF StopFlag
  <2>7. CASE StopApply(c)
    BY <2>7 DEF StopApply
  <2>8. CASE StopSave(c)
    BY <2>8 DEF StopSave, AbsentIsIdle, Quiet
  <2>9. CASE StopClaim(c)
    BY <2>9 DEF StopClaim
  <2>10. CASE StopTell(c)
    BY <2>10 DEF StopTell
  <2>11. CASE ContProbe(c)
    BY <2>11 DEF ContProbe
  <2>12. CASE ContClaim(c)
    BY <2>12 DEF ContClaim
  <2>13. CASE ContRefuse(c)
    BY <2>13 DEF ContRefuse
  <2>14. CASE ContApply(c)
    BY <2>14 DEF ContApply
  <2>15. CASE ContSave(c)
    BY <2>15 DEF ContSave
  <2>16. CASE ContTell(c)
    BY <2>16 DEF ContTell
  <2>17. CASE DeleteRecord(c)
    BY <2>17 DEF DeleteRecord
  <2>18. CASE DeleteArtifacts(c)
    BY <2>18 DEF DeleteArtifacts
  <2>19. CASE DeletePop(c)
    BY <2>19 DEF DeletePop
  <2> QED
    BY <1>1, <2>1, <2>2, <2>3, <2>4, <2>5, <2>6, <2>7, <2>8, <2>9, <2>10, <2>11,
       <2>12, <2>13, <2>14, <2>15, <2>16, <2>17, <2>18, <2>19
       DEF ClientStep
<1>2. ASSUME NEW w \in Workers, WorkerStep(w) PROVE Rest'
  <2>1. CASE WorkerLoad(w)
    BY <2>1 DEF WorkerLoad, AbsentIsIdle, Quiet
  <2>2. CASE RunMark(w)
    BY <2>2 DEF RunMark
  <2>3. CASE RunMarkSave(w)
    BY <2>3 DEF RunMarkSave
  <2>4. CASE Setup(w)
    BY <2>4 DEF Setup
  <2>5. CASE SetupRaises(w)
    BY <2>5 DEF SetupRaises
  <2>6. CASE Superstep(w)
    BY <2>6 DEF Superstep
  <2>7. CASE GraphEnds(w)
    BY <2>7 DEF GraphEnds
  <2>8. CASE GraphRaises(w)
    BY <2>8 DEF GraphRaises
  <2>9. CASE Reload(w)
    BY <2>9 DEF Reload
  <2>10. CASE FinalAssign(w)
    BY <2>10 DEF FinalAssign
  <2>11. CASE FinalClaim(w)
    BY <2>11 DEF FinalClaim
  <2>12. CASE FinalTell(w)
    BY <2>12 DEF FinalTell
  <2>13. CASE FinalSave(w)
    BY <2>13 DEF FinalSave, AbsentIsIdle, Quiet
  <2>14. CASE FailApply(w)
    BY <2>14 DEF FailApply
  <2>15. CASE FailSave(w)
    BY <2>15 DEF FailSave
  <2>16. CASE FailTell(w)
    BY <2>16 DEF FailTell
  <2>17. CASE PopState(w)
    BY <2>17 DEF PopState
  <2>18. CASE PopThread(w)
    BY <2>18 DEF PopThread
  <2>19. CASE PopFlag(w)
    BY <2>19 DEF PopFlag
  <2>20. CASE PopModel(w)
    BY <2>20 DEF PopModel
  <2>21. CASE PopAnnounced(w)
    BY <2>21 DEF PopAnnounced
  <2>22. CASE CloseTrace(w)
    BY <2>22 DEF CloseTrace
  <2> QED
    BY <1>2, <2>1, <2>2, <2>3, <2>4, <2>5, <2>6, <2>7, <2>8, <2>9, <2>10, <2>11,
       <2>12, <2>13, <2>14, <2>15, <2>16, <2>17, <2>18, <2>19, <2>20, <2>21, <2>22
       DEF WorkerStep
<1>3. ASSUME NeighbourSave PROVE Rest'
  BY <1>3 DEF NeighbourSave
<1>4. ASSUME Restart PROVE Rest'
  BY <1>4 DEF Restart
<1>5. ASSUME UNCHANGED vars PROVE Rest'
  BY <1>5 DEF vars
<1> HIDE DEF Rest
<1>6. Rest'
  BY <1>1, <1>2, <1>3, <1>4, <1>5 DEF Next
<1> QED
  BY <1>0, <1>6 DEF TellInv, Rest

\* Any number of stops against the first round, with saves that fail: once the task is
\* parked and at rest, task_interrupted or task_failed has been published.
THEOREM ParkIsAnnounced == ASSUME FirstRoundOnly PROVE Spec => []NoSilentPark
<1>1. Init => TellInv
  BY ThreadInit DEF Init, TellInv, ClaimIsTold, SilentHasTeller, OnlyCreateAndStop
<1>2. TellInv /\ [Next]_vars => TellInv'
  BY TellNext
<1>3. TellInv => NoSilentPark
  BY DEF TellInv, SilentHasTeller, Tellers, NoSilentPark, Quiet, Heard
<1> QED
  BY <1>1, <1>2, <1>3, PTL DEF Spec
=============================================================================
