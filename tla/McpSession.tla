------------------------------ MODULE McpSession ------------------------------
(***************************************************************************)
(* One MCP server (backend/core/mcp/client.py): the thread that connects   *)
(* to its child process and then runs the session's event loop, the        *)
(* constructor that waits for it and lists its tools, a tool worker that   *)
(* calls one of them, and the clean-up at shutdown.  What the SDK and the  *)
(* server do is left open: any step of theirs may fail or take longer than *)
(* its timeout, and what a trouble names may also go wrong.                *)
(***************************************************************************)
EXTENDS Naturals

CONSTANTS
  Troubles,  \* "exit": the session's exit raises; "hang": a close outlives its timeout
  MaxCalls   \* bound: tool calls

Assumption == Troubles \subseteq {"exit", "hang"} /\ MaxCalls \in Nat

VARIABLES
  opc,     \* connect_all: "wait", "list", "connected" or "error"
  lpc,     \* the session's thread: where _run_loop is
  child,   \* does the server's process run?
  ready,   \* _ready
  error,   \* _start_error
  listed,  \* _sessions has the session
  closed,  \* the manager's _closed
  kpc,     \* cleanup: "none", "close", "stop" or "done"
  pc,      \* a tool worker: "idle", "checked" or "waiting"
  calls

vars == <<opc, lpc, child, ready, error, listed, closed, kpc, pc, calls>>
opening == <<opc, listed>>
session == <<lpc, child, ready, error>>
closing == <<closed, kpc>>
calling == <<pc, calls>>

Init ==
  /\ opc = "wait" /\ lpc = "spawn" /\ child = FALSE /\ ready = FALSE /\ error = FALSE
  /\ listed = FALSE /\ closed = FALSE /\ kpc = "none" /\ pc = "idle" /\ calls = 0

-----------------------------------------------------------------------------
(* The session's thread                                                    *)

Thread(from, to) == lpc = from /\ lpc' = to

\* The transport starts the child, or cannot.
SpawnChild ==
  /\ \/ Thread("spawn", "init") /\ child' = TRUE /\ UNCHANGED error
     \/ Thread("spawn", "decide") /\ error' = TRUE /\ UNCHANGED child
  /\ UNCHANGED <<ready, opening, closing, calling>>

\* initialize answers, or fails or times out.
Initialize ==
  /\ Thread("init", "decide") /\ error' \in {error, TRUE}
  /\ UNCHANGED <<child, ready, opening, closing, calling>>

\* A start that has given up meanwhile has left an error too.
Decide ==
  /\ Thread("decide", IF error THEN "abort" ELSE "announce")
  /\ UNCHANGED <<child, ready, error, opening, closing, calling>>

\* _abort: an exit of the session that raises leaves the transport, and its child.
Abort ==
  /\ Thread("abort", "over") /\ ready' = TRUE
  /\ child' \in IF "exit" \in Troubles THEN {child, FALSE} ELSE {FALSE}
  /\ UNCHANGED <<error, opening, closing, calling>>

\* The loop's first callback announces it.
Announce ==
  /\ Thread("announce", "loop") /\ ready' = TRUE
  /\ UNCHANGED <<child, error, opening, closing, calling>>

-----------------------------------------------------------------------------
(* The constructor: connect_all                                            *)

\* start: the event came in time, or did not.
StartReturns ==
  /\ opc = "wait"
  /\ \/ ready /\ opc' = (IF error THEN "error" ELSE "list") /\ UNCHANGED error
     \/ ~ready /\ opc' = "error" /\ error' = TRUE
  /\ UNCHANGED <<lpc, child, ready, listed, closing, calling>>

\* A list that fails or times out leaves the session to itself.
ListTools ==
  /\ opc = "list"
  /\ \/ opc' = "connected" /\ listed' = TRUE
     \/ opc' = "error" /\ UNCHANGED listed
  /\ UNCHANGED <<session, closing, calling>>

-----------------------------------------------------------------------------
(* A call of a tool                                                        *)

CheckCall ==
  /\ pc = "idle" /\ calls < MaxCalls /\ opc = "connected" /\ calls' = calls + 1
  /\ pc' = IF listed THEN "checked" ELSE "idle"
  /\ UNCHANGED <<opening, session, closing>>

\* A closed manager refuses, and so does a loop that has stopped.
SubmitCall ==
  /\ pc = "checked" /\ pc' = IF ~closed /\ lpc = "loop" THEN "waiting" ELSE "idle"
  /\ UNCHANGED <<opening, session, closing, calls>>

\* The result, an error, a cancellation by the loop's end, or the timeout.
CallReturns ==
  /\ pc = "waiting" /\ pc' = "idle"
  /\ UNCHANGED <<opening, session, closing, calls>>

-----------------------------------------------------------------------------
(* shutdown: cleanup                                                       *)

Cleanup ==
  /\ opc \in {"connected", "error"} /\ ~closed
  /\ closed' = TRUE /\ listed' = FALSE
  /\ kpc' = IF listed THEN "close" ELSE "done"
  /\ UNCHANGED <<opc, session, calling>>

\* (mutant) the loop is stopped, and with it what it had to close.
CloseNothing ==
  /\ kpc = "close" /\ kpc' = "stop"
  /\ UNCHANGED <<opening, session, closed, calling>>

\* _close, on the loop: the session and the transport, each by itself.
Close ==
  /\ kpc = "close" /\ kpc' = "stop"
  /\ child' \in IF "hang" \in Troubles THEN {child, FALSE} ELSE {FALSE}
  /\ UNCHANGED <<opening, lpc, ready, error, closed, calling>>

\* loop.stop and the join.
StopLoop ==
  /\ kpc = "stop" /\ kpc' = "done" /\ Thread("loop", "over")
  /\ UNCHANGED <<opening, child, ready, error, closed, calling>>

-----------------------------------------------------------------------------
Loop == SpawnChild \/ Initialize \/ Decide \/ Abort \/ Announce
Opener == StartReturns \/ ListTools
Cleaner == Close \/ StopLoop
Calling == SubmitCall \/ CallReturns

Next == Loop \/ Opener \/ CheckCall \/ Calling \/ Cleanup \/ Cleaner

\* The thread runs, and every wait has a timeout; nobody need shut the program down.
Fairness == WF_vars(Loop) /\ WF_vars(Opener) /\ WF_vars(Cleaner) /\ WF_vars(Calling)

Spec == Init /\ [][Next]_vars /\ Fairness
-----------------------------------------------------------------------------
(* What must hold                                                          *)

\* Every variable keeps its type.
TypeOK ==
  /\ opc \in {"wait", "list", "connected", "error"}
  /\ lpc \in {"spawn", "init", "decide", "abort", "announce", "loop", "over"}
  /\ child \in BOOLEAN /\ ready \in BOOLEAN /\ error \in BOOLEAN /\ listed \in BOOLEAN
  /\ closed \in BOOLEAN /\ kpc \in {"none", "close", "stop", "done"}
  /\ pc \in {"idle", "checked", "waiting"} /\ calls \in 0..MaxCalls

\* A connect that fails, or whose start has given up before the thread decided, takes the
\* child with it: when the thread is over no process is left (client.py 147-170).
FailedStartEnds == lpc = "over" => ~child

\* What is registered is a live session, and after the clean-up it is a dead one: a call
\* that is let through finds its loop (client.py 457-463).
RegisteredIsLive ==
  /\ listed => lpc = "loop" /\ child /\ ~error
  /\ opc = "connected" /\ kpc = "done" => ~child /\ lpc = "over"

\* No MCP child process survives the app (client.py 16-19).
NoChildSurvives == kpc = "done" /\ lpc \in {"loop", "over"} => ~child

\* A call ends, whatever closes the session under it.
CallEnds == pc = "waiting" ~> pc = "idle"

\* The constructor goes on.
ConnectEnds == <>(opc \in {"connected", "error"})
=============================================================================
