----------------------------- MODULE MCServices -----------------------------
(***************************************************************************)
(* The services beside the rounds: the launchers' lock, the trace          *)
(* recorder, the model store, the sub-agents' pool, the background trees   *)
(* and an MCP session, each on small instances of its own.  They share no  *)
(* state, so a behaviour is one of a single part, chosen at the start, and *)
(* the others stay at their initial states.  ServerLock itself, with the   *)
(* constants of the configuration, is the part "lock": l1 and l2 want the  *)
(* same port, l3 another.                                                  *)
(***************************************************************************)
EXTENDS ServerLock

CONSTANTS
  l1, l2, l3, p1, p2,      \* launchers and ports
  main, other, NoId,       \* providers, and no id
  EraRounds, GoneRounds,   \* Trace: rounds; those of a task that is deleted
  Parents, Slots, MaxSubs, MaxSteps, MaxSwitches,  \* Workers
  TreeCalls, TreeRounds, TreeStops,                \* Background
  McpCalls                                         \* McpSession

TwoPorts == [p \in Launchers |-> IF p = l3 THEN p2 ELSE p1]

VARIABLES
  part,
  sPc, sSeen, sLost, sFile, sBound, sReused, sOvertaken, sRobbed,            \* ServerLock once more
  tRound, tParked, tGone, tCpc, tWpc, tDpc, tTold, tReg, tSubs, tTaken, tHanding, tLines,  \* Trace
  mStatus, mMem, mDisk, mBak, mPending, mKeys, mCache, mReq, mStamp, mModel, mRound,      \* ModelStore
  wPpc, wCur, wChosen, wOwn, wPin, wLeft, wSt, wOf, wDue, wWith, wSteps,
  wPflag, wSflag, wHooked, wTold, wRobbed,                                                \* Workers
  bRound, bLive, bFlag, bCalls, bPc, bKilled, bShell, bTree, bList,
  bReaper, bSeen, bEnded, bStops, bSpc, bTaken,                                           \* Background
  cOpc, cLpc, cChild, cReady, cError, cListed, cClosed, cKpc, cPc, cCalls                 \* McpSession

staleVars == <<sPc, sSeen, sLost, sFile, sBound, sReused, sOvertaken, sRobbed>>
traceVars == <<tRound, tParked, tGone, tCpc, tWpc, tDpc, tTold, tReg, tSubs, tTaken, tHanding, tLines>>
storeVars == <<mStatus, mMem, mDisk, mBak, mPending, mKeys, mCache, mReq, mStamp, mModel, mRound>>
workerVars == <<wPpc, wCur, wChosen, wOwn, wPin, wLeft, wSt, wOf, wDue, wWith, wSteps, wPflag,
                wSflag, wHooked, wTold, wRobbed>>
treeVars == <<bRound, bLive, bFlag, bCalls, bPc, bKilled, bShell, bTree, bList,
              bReaper, bSeen, bEnded, bStops, bSpc, bTaken>>
mcpVars == <<cOpc, cLpc, cChild, cReady, cError, cListed, cClosed, cKpc, cPc, cCalls>>
helperVars == <<workerVars, treeVars, mcpVars>>

\* ... and with foreign programs on the ports, and start.py.
Stale == INSTANCE ServerLock WITH
  Launchers <- {l1, l3}, Dev <- {l3}, Ports <- {p1, p2}, Troubles <- {"crash", "reuse", "foreign"},
  PortOf <- [p \in {l1, l3} |-> IF p = l3 THEN p2 ELSE p1],
  pc <- sPc, seen <- sSeen, lost <- sLost, file <- sFile, bound <- sBound, reused <- sReused,
  overtaken <- sOvertaken, robbed <- sRobbed

\* The trace of rounds whose saves may fail; in the part "deleted" the task may go.
Recorder == INSTANCE Trace WITH
  MaxRounds <- EraRounds, SaveMayFail <- TRUE,
  round <- tRound, parked <- tParked, gone <- tGone, cpc <- tCpc, wpc <- tWpc, dpc <- tDpc, told <- tTold,
  reg <- tReg, subs <- tSubs, taken <- tTaken, handing <- tHanding, lines <- tLines

\* A first start without a file; keys that cannot be written, crashes.
Store == INSTANCE ModelStore WITH
  Providers <- {main, other}, Default <- main, Models <- {p1}, Profiles <- {}, MaxStamp <- 3,
  Troubles <- {"key", "crash"},
  status <- mStatus, mem <- mMem, disk <- mDisk, bak <- mBak, pending <- mPending, keys <- mKeys,
  cache <- mCache, req <- mReq, stamp <- mStamp, model <- mModel, round <- mRound

\* A first start on a v1 file whose default is gone; its backup may fail.
Legacy == INSTANCE ModelStore WITH
  Providers <- {main, other}, Default <- main, Models <- {p1, p2}, Profiles <- {other}, MaxStamp <- 2,
  Troubles <- {"key", "backup", "crash"},
  status <- mStatus, mem <- mMem, disk <- mDisk, bak <- mBak, pending <- mPending, keys <- mKeys,
  cache <- mCache, req <- mReq, stamp <- mStamp, model <- mModel, round <- mRound

\* ... and everything that may fail.
Failing == INSTANCE ModelStore WITH
  Providers <- {main, other}, Default <- main, Models <- {p1}, Profiles <- {other}, MaxStamp <- 2,
  Troubles <- {"save", "key", "backup", "torn", "crash"},
  status <- mStatus, mem <- mMem, disk <- mDisk, bak <- mBak, pending <- mPending, keys <- mKeys,
  cache <- mCache, req <- mReq, stamp <- mStamp, model <- mModel, round <- mRound

\* The pool that the sub-tasks share (its constants have their own names here).
Pool == INSTANCE Workers WITH
  ppc <- wPpc, cur <- wCur, chosen <- wChosen, own <- wOwn, pin <- wPin, left <- wLeft, st <- wSt,
  of <- wOf, due <- wDue, with <- wWith, steps <- wSteps, pflag <- wPflag, sflag <- wSflag,
  hooked <- wHooked, told <- wTold, robbed <- wRobbed

Trees == INSTANCE Background WITH
  MaxCalls <- TreeCalls, MaxRounds <- TreeRounds, MaxStops <- TreeStops,
  round <- bRound, live <- bLive, flag <- bFlag, calls <- bCalls, pc <- bPc, killed <- bKilled,
  shell <- bShell, tree <- bTree, list <- bList, reaper <- bReaper, seen <- bSeen, ended <- bEnded,
  stops <- bStops, spc <- bSpc, taken <- bTaken

\* A session whose exits are clean, and one whose exits may raise or hang.
Mcp == INSTANCE McpSession WITH
  Troubles <- {}, MaxCalls <- McpCalls,
  opc <- cOpc, lpc <- cLpc, child <- cChild, ready <- cReady, error <- cError, listed <- cListed,
  closed <- cClosed, kpc <- cKpc, pc <- cPc, calls <- cCalls
McpHangs == INSTANCE McpSession WITH
  Troubles <- {"exit", "hang"}, MaxCalls <- McpCalls,
  opc <- cOpc, lpc <- cLpc, child <- cChild, ready <- cReady, error <- cError, listed <- cListed,
  closed <- cClosed, kpc <- cKpc, pc <- cPc, calls <- cCalls

ASSUME ConstantsAreSound ==
  /\ Recorder!Assumption /\ GoneRounds \in Nat
  /\ Store!Assumption /\ Legacy!Assumption /\ Failing!Assumption
  /\ Pool!Assumption /\ Trees!Assumption /\ Mcp!Assumption /\ McpHangs!Assumption
-----------------------------------------------------------------------------
ServicesInit ==
  /\ part \in {"lock", "stale", "rounds", "deleted", "store", "legacy", "failing",
              "pool", "trees", "mcp", "mcp hangs"}
  /\ Init /\ Stale!Init
  /\ Recorder!Init
  /\ IF part \in {"legacy", "failing"} THEN Legacy!Init ELSE Store!Init
  /\ Pool!Init /\ Trees!Init /\ Mcp!Init

LaunchStep ==
  \/ part = "lock" /\ Next /\ UNCHANGED staleVars
  \/ part = "stale" /\ Stale!Next /\ UNCHANGED vars

RecordStep ==
  /\ Recorder!Next
  /\ \/ part = "rounds" /\ ~tGone'
     \/ part = "deleted" /\ tRound' <= GoneRounds

StoreStep ==
  \/ part = "store" /\ Store!Next
  \/ part = "legacy" /\ Legacy!Next
  \/ part = "failing" /\ Failing!Next

HelperStep ==
  \/ part = "pool" /\ Pool!Next /\ UNCHANGED <<treeVars, mcpVars>>
  \/ part = "trees" /\ Trees!Next /\ UNCHANGED <<workerVars, mcpVars>>
  \/ part = "mcp" /\ Mcp!Next /\ UNCHANGED <<workerVars, treeVars>>
  \/ part = "mcp hangs" /\ McpHangs!Next /\ UNCHANGED <<workerVars, treeVars>>

ServicesNext ==
  /\ UNCHANGED part
  /\ \/ LaunchStep /\ UNCHANGED <<traceVars, storeVars, helperVars>>
     \/ RecordStep /\ UNCHANGED <<vars, staleVars, storeVars, helperVars>>
     \/ StoreStep /\ UNCHANGED <<vars, staleVars, traceVars, helperVars>>
     \/ HelperStep /\ UNCHANGED <<vars, staleVars, traceVars, storeVars>>

\* Each launcher of the part "stale" goes on when it can, and the threads of the others
\* do what their modules call fair.
ServicesSpec ==
  /\ ServicesInit /\ [][ServicesNext]_<<part, vars, staleVars, traceVars, storeVars, helperVars>>
  /\ \A p \in {l1, l3} : WF_staleVars(part = "stale" /\ Stale!Goes(p))
  /\ \A i \in Pool!Subs : WF_workerVars(part = "pool" /\ Pool!Thread(i))
  /\ \A p \in Parents : WF_workerVars(part = "pool" /\ Pool!Waiting(p))
  /\ WF_treeVars(part = "trees" /\ Trees!Reap)
  /\ \A c \in Trees!Calls : /\ WF_treeVars(part = "trees" /\ Trees!Works(c))
                           /\ WF_treeVars(part = "trees" /\ Trees!Kill(c))
  /\ WF_treeVars(part = "trees" /\ Trees!RaiseFlag)
  /\ WF_mcpVars((part = "mcp" /\ Mcp!Loop) \/ (part = "mcp hangs" /\ McpHangs!Loop))
  /\ WF_mcpVars(part \in {"mcp", "mcp hangs"} /\ Mcp!Opener)
  /\ WF_mcpVars((part = "mcp" /\ Mcp!Cleaner) \/ (part = "mcp hangs" /\ McpHangs!Cleaner))
  /\ WF_mcpVars(part \in {"mcp", "mcp hangs"} /\ Mcp!Calling)
-----------------------------------------------------------------------------
(* The properties, stated and explained in the components' modules; those  *)
(* of ServerLock for the part "lock" are ServerLock's own.                 *)

\* The trace keeps its eras apart, whatever closes and attaches pass each other: the
\* callbacks on the bus are the one the recorder holds (trace.py 70-99, 165-169), a round
\* that opened the file itself is in it from its first event (trace.py 1-24), and the trace
\* is closed when the rounds are over, unless the task is deleted meanwhile
\* (task_manager.py 1221: "always close the trace").
TraceIsSound ==
  /\ Recorder!TypeOK /\ Recorder!NoStaleCallback /\ Recorder!FreshEraIsWhole
  /\ part = "rounds" => Recorder!EraCloses

\* ModelStore: every variable keeps its type, and the default resolves whatever fails
\* (model_store.py 1179-1180); without a failing save, the file, the memory and the cached
\* clients agree and no key outlives its provider (model_store.py 842-845, 935-940,
\* task_manager.py 833-836); v2 replaces v1 only behind a whole backup (model_store.py 428-434).
StoreIsSound ==
  /\ part = "store" => Store!TypeOK /\ Store!DefaultResolves /\ Store!CacheIsFresh /\ Store!SecretsHaveOwner
  /\ part = "legacy" => Legacy!TypeOK /\ Legacy!DefaultResolves /\ Legacy!RollbackHolds
  /\ part = "failing" => Failing!TypeOK /\ Failing!DefaultResolves

\* The threads beside the rounds: a sub-task's flag goes with its thread, whichever of
\* timeout and result is first (subagent.py 294-300), and the sub-task works with its
\* round's model, unless its pin was popped by an older worker (362-363); no background tree is forgotten and the list has a reaper
\* (bash.py 439-498); a failed connect leaves no process, a registered session is live and
\* a cleaned-up one dead (client.py 147-170, 457-463, 476-489).
HelpersAreSound ==
  /\ Pool!TypeOK /\ Pool!FlagsDrain /\ Pool!RoundsModel
  /\ Trees!TypeOK /\ Trees!NoTreeIsForgotten /\ Trees!ReaperIsThere
  /\ Mcp!TypeOK /\ (part = "mcp" => Mcp!FailedStartEnds /\ Mcp!RegisteredIsLive)

\* A dead process's record does not keep launchers out (server_lock.py find_running); a
\* sub-task whose end is told enters no node, a wait for one ends, and its slot comes back
\* (subagent.py 199-209, 290-292); a stop's flag that stays up ends the background trees
\* (bash.py 471-498); a constructor and a call of a tool end, also where exits raise and
\* closes hang (client.py 115-128, 240-252).
ServicesSettle ==
  /\ Stale!StaleIsCleared
  /\ Pool!FoldedIsQuiet /\ Pool!WaitEnds /\ Pool!SlotsComeBack
  /\ Trees!FlagEndsTrees
  /\ Mcp!CallEnds /\ (part \in {"mcp", "mcp hangs"} => Mcp!ConnectEnds)
=============================================================================
