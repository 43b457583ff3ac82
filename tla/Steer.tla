------------------------------- MODULE Steer -------------------------------
(* The Steer chat of live-browser.js: a page-level message to the agent,     *)
(* typed or spoken into the global bar.  A submitted message locks the chat  *)
(* until the agent's reply, a failure of the POST, or a timer.  The chat     *)
(* also takes the keyboard focus by itself whenever nothing else on the      *)
(* page wants it, which timers, pointer and selection events decide.         *)
(*                                                                           *)
(* The helper and the agent are outside the repository; the page and its     *)
(* user are what the handlers expect of them.                                *)
EXTENDS Integers, FiniteSets

CONSTANTS
    Ids,       \* ids of the messages submitted
    Msgs,      \* texts a user may type
    None,
    MaxDrops,  \* bound: times the event stream drops
    MaxMoves,  \* bound: presses on the page, picks and uses of the microphone
    Mishaps    \* which of these happen: POSTs that "fail", the "page" and its
               \* fields, "voice", an agent busy with a "generation"

Assumption ==
    /\ None \notin Ids /\ None \notin Msgs
    /\ MaxDrops \in Nat /\ MaxMoves \in Nat
    /\ Mishaps \subseteq {"fail", "page", "voice", "generation"}

VARIABLES
    chat,    \* the chat (record below)
    page,    \* the page: [mode, focus, selecting, pressed]
    guard,   \* the focus guard: [suspended, paused, recover, blurred]
    posts,   \* POSTs of a steer on their way: [id, at]
    queue,   \* ids the helper holds for the agent
    agent,   \* what the agent works on: None while it polls, an id, or "generation"
    polling, \* the tab's copy: an agent is polling
    open,    \* the event stream is open
    said,    \* the text of each id
    spent    \* drops and moves used of their bounds

tabs == <<chat, page, guard>>
world == <<queue, agent, open, said>>
vars == <<chat, page, guard, posts, queue, agent, polling, open, said, spent>>

NoVoice == [mode |-> "off", live |-> FALSE]

Init ==
    /\ chat = [text |-> None, expanded |-> FALSE, locked |-> FALSE, req |-> None, pending |-> None,
               timer |-> None, voice |-> NoVoice, told |-> "nothing"]
    /\ page = [mode |-> "PICKING", focus |-> "body", selecting |-> FALSE, pressed |-> FALSE, prompt |-> None]
    /\ guard = [suspended |-> FALSE, paused |-> FALSE, recover |-> FALSE, blurred |-> FALSE]
    /\ posts = {} /\ queue = {} /\ agent = None /\ polling = TRUE /\ open = TRUE
    /\ said = [i \in Ids |-> None]
    /\ spent = [drops |-> 0, moves |-> 0]

Moved == spent.moves < MaxMoves /\ spent' = [spent EXCEPT !.moves = @ + 1]

-----------------------------------------------------------------------------
(* Focus.                                                                    *)

ShouldFocus(c, p) == p.mode # "CONFIGURING" /\ ~c.locked

\* (mutant) the field the user types in is not looked at
AutoFocusAnyField(c, p, g) == ShouldFocus(c, p) /\ ~g.suspended /\ ~g.paused

AutoFocus(c, p, g) == ShouldFocus(c, p) /\ ~g.suspended /\ p.focus # "field" /\ ~g.paused

\* syncPageChatFocus: where the focus goes; focusConfigureInput's 60 ms are taken at once.
Synced(c, p, g) ==
    IF p.mode = "CONFIGURING" THEN [p EXCEPT !.focus = "prompt"]
    ELSE IF AutoFocus(c, p, g) THEN [p EXCEPT !.focus = "chat"]
    ELSE p

\* Leaving the chat arms its blur timer.
Left(p, q, g) == [g EXCEPT !.blurred = @ \/ (p.focus = "chat" /\ q.focus # "chat")]

\* The tab becomes c with the page's mode, and the focus follows.
Follow(c, p, g) ==
    LET q == Synced(c, p, g) IN
    /\ chat' = c /\ page' = q /\ guard' = Left(page, q, g)

\* (mutant) the microphone is left open
StoppedNothing(c) == c

Stopped(c) == [c EXCEPT !.voice = NoVoice]

Expanded(c) == [c EXCEPT !.expanded = TRUE]

\* syncPageChatVisual: the chat is open while it holds text.
Visual(c) == IF c.locked THEN c ELSE [c EXCEPT !.expanded = c.text # None]

SendButton(c, p) == ~c.locked /\ c.text # None /\ (c.expanded \/ p.focus = "chat")

Collapsed(c) == IF c.voice.live THEN c ELSE [c EXCEPT !.expanded = FALSE]

-----------------------------------------------------------------------------
(* Submitting, locking and unlocking.                                        *)

\* (mutant) the timer of an earlier message is kept
LockedKeepsTimer(c, i) ==
    [Stopped(c) EXCEPT !.locked = TRUE, !.req = i, !.pending = c.text, !.expanded = TRUE]

Locked(c, i) ==
    [Stopped(c) EXCEPT !.locked = TRUE, !.req = i, !.pending = c.text, !.timer = i, !.expanded = TRUE]

\* unlockSteerChat: an error puts the message back and takes the focus.
Restored(c, m) ==
    [c EXCEPT !.timer = None, !.locked = FALSE, !.req = None, !.expanded = m # None,
              !.text = m, !.pending = m]

\* Unlocked with message m back in the input, or with None.
Unlock(c, m) ==
    LET u == Restored(c, m) IN
    IF m # None
    THEN /\ chat' = u /\ page' = [page EXCEPT !.focus = "chat"] /\ guard' = guard
    ELSE Follow(u, page, guard)

QueuedBehind(c) == c.locked /\ ~polling /\ page.mode = "GENERATING"

\* steerTimeoutMessage: what two minutes of silence are put down to.
Silence(c) ==
    IF QueuedBehind(c) THEN "never picked up"
    ELSE IF ~polling THEN "nobody polls"
    ELSE "never replied"

-----------------------------------------------------------------------------
(* The user.                                                                 *)

Type(m) ==
    /\ page.focus = "chat" /\ ~chat.locked /\ chat.text # m
    /\ chat' = Visual([chat EXCEPT !.text = m, !.told = "nothing"])
    /\ UNCHANGED <<page, guard, posts, world, polling, spent>>

\* Escape in the chat's input clears it, or collapses the chat.
Escape ==
    /\ page.focus = "chat" /\ ~chat.locked /\ (chat.text # None \/ chat.expanded)
    /\ chat' = IF chat.text # None THEN Visual([chat EXCEPT !.text = None]) ELSE Collapsed(chat)
    /\ UNCHANGED <<page, guard, posts, world, polling, spent>>

\* A click on the chat opens it and puts the focus there.
ClickChat ==
    /\ ~chat.locked /\ (page.focus # "chat" \/ ~chat.expanded)
    /\ chat' = Expanded(chat)
    /\ page' = [page EXCEPT !.focus = "chat"]
    /\ UNCHANGED <<guard, posts, world, polling, spent>>

Sent(c, i) ==
    /\ chat' = Locked(c, i)
    /\ page' = [page EXCEPT !.focus = IF @ = "chat" THEN "body" ELSE @]
    /\ posts' = posts \cup {[id |-> i, at |-> "sent"]}
    /\ said' = [said EXCEPT ![i] = c.text]

Submit(i) ==
    /\ SendButton(chat, page) /\ said[i] = None
    /\ Sent(chat, i)
    /\ UNCHANGED <<guard, queue, agent, polling, open, spent>>

\* A press on the page, on a field or beside it: the chat lets go of the focus.
PagePress(at) ==
    /\ "page" \in Mishaps /\ ~page.pressed /\ Moved
    /\ LET q == [page EXCEPT !.focus = at, !.pressed = TRUE, !.selecting = FALSE] IN
       /\ page' = q
       /\ guard' = IF ShouldFocus(chat, page)
                   THEN [Left(page, q, guard) EXCEPT !.suspended = TRUE, !.paused = TRUE]
                   ELSE Left(page, q, guard)
    /\ UNCHANGED <<chat, posts, world, polling>>

\* The press ends, with some of the page's text selected or without.
PageRelease(text) ==
    /\ page.pressed
    /\ page' = [page EXCEPT !.pressed = FALSE, !.selecting = text]
    /\ guard' = IF ~ShouldFocus(chat, page) THEN guard
                ELSE [guard EXCEPT !.suspended = text, !.recover = @ \/ ~text]
    /\ UNCHANGED <<chat, posts, world, polling, spent>>

SelectionCleared ==
    /\ page.selecting
    /\ page' = [page EXCEPT !.selecting = FALSE]
    /\ guard' = IF ~ShouldFocus(chat, page) THEN guard
                ELSE [guard EXCEPT !.suspended = FALSE, !.recover = @ \/ guard.suspended]
    /\ UNCHANGED <<chat, posts, world, polling, spent>>

\* An element is picked: the focus goes to the prompt of its bar.
Pick ==
    /\ page.mode = "PICKING" /\ ~page.pressed /\ Moved
    /\ Follow(chat, [page EXCEPT !.mode = "CONFIGURING", !.prompt = None], guard)
    /\ UNCHANGED <<posts, world, polling>>

\* Escape from the bar: hideBar closes the microphone.
Unpick ==
    /\ page.mode = "CONFIGURING" /\ ~page.pressed
    /\ Follow(Stopped(chat), [page EXCEPT !.mode = "PICKING", !.focus = IF @ = "prompt" THEN "body" ELSE @], guard)
    /\ UNCHANGED <<posts, world, polling, spent>>

Generating(c) ==
    /\ page.mode = "CONFIGURING" /\ queue' = queue \cup {"generation"}
    /\ Follow(Stopped(c), [page EXCEPT !.mode = "GENERATING", !.focus = IF @ = "prompt" THEN "body" ELSE @], guard)

Go ==
    /\ "generation" \in Mishaps /\ ~page.pressed
    /\ Generating(chat)
    /\ UNCHANGED <<posts, agent, polling, open, said, spent>>

-----------------------------------------------------------------------------
(* Timers of the focus.                                                      *)

PauseEnds ==
    /\ guard.paused /\ guard' = [guard EXCEPT !.paused = FALSE]
    /\ UNCHANGED <<chat, page, posts, world, polling, spent>>

\* Nothing to recover: a prompt is open, the chat is locked or has the focus already.
GivenUp == page.mode = "CONFIGURING" \/ chat.locked \/ chat.voice.live \/ page.focus = "chat"

\* scheduleSteerFocusRecover: the attempt waits for the selection and the pause.
Recover ==
    /\ guard.recover /\ (GivenUp \/ (~page.selecting /\ ~guard.paused))
    /\ LET g == [guard EXCEPT !.recover = FALSE] IN
       IF GivenUp THEN guard' = g /\ UNCHANGED <<chat, page>> ELSE Follow(Visual(chat), page, g)
    /\ UNCHANGED <<posts, world, polling, spent>>

BlurTimer ==
    /\ guard.blurred
    /\ IF GivenUp
       THEN chat' = chat /\ guard' = [guard EXCEPT !.blurred = FALSE]
       ELSE /\ chat' = IF chat.text = None THEN Collapsed(chat) ELSE chat
            /\ guard' = [guard EXCEPT !.blurred = FALSE, !.recover = TRUE]
    /\ UNCHANGED <<page, posts, world, polling, spent>>

-----------------------------------------------------------------------------
(* The microphone.                                                           *)

Listening(c, m) == [Stopped(c) EXCEPT !.voice = [mode |-> m, live |-> FALSE]]

StartVoice(m) ==
    /\ "voice" \in Mishaps /\ ~chat.voice.live /\ Moved
    /\ \/ m = "steer" /\ ~chat.locked /\ page.mode # "CONFIGURING"
          /\ chat' = Expanded(Listening(chat, m)) /\ UNCHANGED <<page, guard>>
       \/ m = "configure" /\ page.mode = "CONFIGURING"
          /\ LET q == [page EXCEPT !.focus = "prompt"] IN
             chat' = Listening(chat, m) /\ page' = q /\ guard' = Left(page, q, guard)
    /\ UNCHANGED <<posts, world, polling>>

\* Its button again, a recognition error, or the engine's start refused.
VoiceStopped ==
    /\ chat.voice.mode # "off" /\ chat' = Stopped(chat)
    /\ UNCHANGED <<page, guard, posts, world, polling, spent>>

VoiceStarts ==
    /\ chat.voice.mode # "off" /\ ~chat.voice.live
    /\ chat' = [chat EXCEPT !.voice.live = TRUE]
    /\ UNCHANGED <<page, guard, posts, world, polling, spent>>

\* What was heard goes to the input the microphone was opened for.
Heard(m) ==
    /\ chat.voice.live
    /\ IF chat.voice.mode = "steer"
       THEN chat.text # m /\ chat' = Visual([chat EXCEPT !.text = m]) /\ page' = page
       ELSE page.prompt # m /\ page' = [page EXCEPT !.prompt = m] /\ chat' = chat
    /\ UNCHANGED <<guard, posts, world, polling, spent>>

\* finishVoiceSession: the end of the speech submits what the input holds.
VoiceEnds ==
    /\ chat.voice.live
    /\ LET c == Stopped(chat) IN
       \/ /\ chat.voice.mode = "steer" /\ chat.text # None /\ ~chat.locked
          /\ \E i \in Ids : said[i] = None /\ Sent(c, i)
          /\ UNCHANGED <<guard, queue, agent, polling, open>>
       \/ /\ chat.voice.mode = "configure" /\ page.prompt # None
          /\ Generating(c) /\ UNCHANGED <<posts, agent, polling, open, said>>
       \/ /\ (IF chat.voice.mode = "steer" THEN chat.text ELSE page.prompt) = None
          /\ chat' = c /\ UNCHANGED <<page, guard, posts, world, polling>>
    /\ UNCHANGED spent

-----------------------------------------------------------------------------
(* The helper, the agent and what the tab hears of them.                     *)

PostArrives(p) ==
    /\ p.at = "sent"
    /\ posts' = (posts \ {p}) \cup {[p EXCEPT !.at = "arrived"]}
    /\ queue' = queue \cup {p.id}
    /\ UNCHANGED <<tabs, agent, polling, open, said, spent>>

PostAnswered(p) ==
    /\ p.at = "arrived" /\ posts' = posts \ {p}
    /\ UNCHANGED <<tabs, world, polling, spent>>

\* The POST fails, before or after the helper took it: whatever holds the lock, it is undone.
PostFails(p) ==
    /\ "fail" \in Mishaps /\ posts' = posts \ {p}
    /\ Unlock([chat EXCEPT !.told = "unreachable"], said[p.id])
    /\ UNCHANGED <<world, polling, spent>>

\* (mutant) the timer is left to the stream
TimeoutIfOpen(i) ==
    /\ open /\ chat.timer = i /\ chat.locked /\ chat.req = i
    /\ Unlock([chat EXCEPT !.told = Silence(chat)], chat.pending)
    /\ UNCHANGED <<posts, world, polling, spent>>

\* Two minutes after the message was sent.
Timeout(i) ==
    /\ chat.timer = i /\ chat.locked /\ chat.req = i
    /\ Unlock([chat EXCEPT !.told = Silence(chat)], chat.pending)
    /\ UNCHANGED <<posts, world, polling, spent>>

AgentTakes(x) ==
    /\ agent = None /\ x \in queue
    /\ agent' = x /\ queue' = queue \ {x}
    /\ UNCHANGED <<tabs, posts, polling, open, said, spent>>

\* steer_done or error; the tab hears it while its stream is open.
AgentReplies(kind) ==
    /\ agent \in Ids /\ agent' = None
    /\ IF open /\ chat.req = agent
       THEN Unlock([chat EXCEPT !.told = kind], IF kind = "error" THEN chat.pending ELSE None)
       ELSE UNCHANGED tabs
    /\ UNCHANGED <<posts, queue, polling, open, said, spent>>

\* The variants land, and the session they belong to ends.
GenerationEnds ==
    /\ agent = "generation" /\ page.mode = "GENERATING" /\ agent' = None
    /\ Follow(chat, [page EXCEPT !.mode = "PICKING"], guard)
    /\ UNCHANGED <<posts, queue, polling, open, said, spent>>

\* The status asked every five seconds.
Poll ==
    /\ polling # (agent = None) /\ polling' = (agent = None)
    /\ UNCHANGED <<tabs, posts, world, spent>>

Drop ==
    /\ open /\ spent.drops < MaxDrops
    /\ open' = FALSE /\ spent' = [spent EXCEPT !.drops = @ + 1]
    /\ UNCHANGED <<tabs, posts, queue, agent, polling, said>>

Connect ==
    /\ ~open /\ open' = TRUE
    /\ UNCHANGED <<tabs, posts, queue, agent, polling, said, spent>>

-----------------------------------------------------------------------------

User ==
    \/ \E m \in Msgs : Type(m) \/ Heard(m)
    \/ Escape \/ ClickChat \/ Pick \/ Unpick \/ Go
    \/ \E i \in Ids : Submit(i)
    \/ \E at \in {"field", "body"} : PagePress(at)
    \/ \E text \in BOOLEAN : PageRelease(text)
    \/ SelectionCleared
    \/ \E m \in {"steer", "configure"} : StartVoice(m)
    \/ VoiceStopped \/ VoiceStarts \/ VoiceEnds

Agent ==
    \/ \E x \in Ids \cup {"generation"} : AgentTakes(x)
    \/ \E kind \in {"done", "error"} : AgentReplies(kind)
    \/ GenerationEnds

Helper == Poll \/ Drop \/ Connect \/ \E p \in posts : PostArrives(p) \/ PostAnswered(p) \/ PostFails(p)

Timers == PauseEnds \/ Recover \/ BlurTimer \/ \E i \in Ids : Timeout(i)

Next == User \/ Agent \/ Helper \/ Timers

Spec == Init /\ [][Next]_vars

\* A timer goes off; nothing makes the agent reply or the helper answer.
FairSpec == Spec /\ WF_vars(\E i \in Ids : Timeout(i))

-----------------------------------------------------------------------------
(* Properties.                                                               *)

\* Every variable keeps its type.
TypeOK ==
    /\ chat \in [text : Msgs \cup {None}, expanded : BOOLEAN, locked : BOOLEAN, req : Ids \cup {None},
                 pending : Msgs \cup {None}, timer : Ids \cup {None},
                 voice : [mode : {"off", "steer", "configure"}, live : BOOLEAN],
                 told : {"nothing", "unreachable", "done", "error", "never picked up", "nobody polls",
                         "never replied"}]
    /\ page \in [mode : {"PICKING", "CONFIGURING", "GENERATING"}, focus : {"body", "field", "chat", "prompt"},
                 selecting : BOOLEAN, pressed : BOOLEAN, prompt : Msgs \cup {None}]
    /\ guard \in [suspended : BOOLEAN, paused : BOOLEAN, recover : BOOLEAN, blurred : BOOLEAN]
    /\ posts \subseteq [id : Ids, at : {"sent", "arrived"}]
    /\ queue \subseteq Ids \cup {"generation"} /\ agent \in Ids \cup {None, "generation"}
    /\ polling \in BOOLEAN /\ open \in BOOLEAN
    /\ said \in [Ids -> Msgs \cup {None}]

\* A locked chat waits for a message of its own, and the timer that unlocks it
\* in the end is that message's (scheduleSteerAwaitTimeout).
LockHasTimer == chat.locked => chat.req # None /\ chat.timer = chat.req /\ said[chat.req] = chat.pending

\* The chat never takes the focus by itself out of a field of the page the user
\* is in: only a click on it does, or a message put back after an error
\* (shouldSteerAutoFocus against the recover, blur and unlock paths).
FocusNotStolen ==
    [][page.focus = "field" /\ page'.focus = "chat"
       => ClickChat \/ (chat'.pending # None /\ chat'.text = chat'.pending /\ ~chat'.locked)]_vars

\* An open microphone has the input it was opened for: the prompt's only while
\* an element is configured, the chat's only while the chat is not locked
\* (stopVoice in hideBar, handleGo and lockSteerChat).
VoiceHasItsInput ==
    /\ chat.voice.mode = "configure" => page.mode = "CONFIGURING"
    /\ chat.voice.mode = "steer" => ~chat.locked

\* A locked chat is unlocked in the end, whatever is lost on the way.
SteerEnds == chat.locked ~> ~chat.locked

-----------------------------------------------------------------------------
(* Claims of the code's comments that the model refutes (README, Disagreements). *)

\* The lock ends with its own message put back or with none: the failure of
\* another message's POST does not end it (the Steer bar unlocks on steer_done or error).
LockIsItsOwn == [][chat.locked /\ ~chat'.locked => chat'.text \in {None, chat.pending}]_vars

\* When the tab says that no agent polls, or that the message was never picked
\* up, the agent is not at work on that very message (steerTimeoutMessage).
ToldIsTrue ==
    [][chat'.told # chat.told /\ chat'.told \in {"never picked up", "nobody polls"} => agent # chat.req]_vars
=============================================================================
