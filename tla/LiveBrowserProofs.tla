-------------------------- MODULE LiveBrowserProofs --------------------------
(***************************************************************************)
(* Theorems about the components of the live browser script, for any       *)
(* elements, messages, sessions, tabs, targets and bounds: what locks the  *)
(* tab has its cause, and what is over is not taken up again.              *)
(***************************************************************************)
EXTENDS Integers, FiniteSetTheorems, WellFoundedInduction, TLAPS

CONSTANTS None, Messages, Texts, ChatDrops, Moves, ChatMishaps,
          Pieces, Presses, Gos, EditDrops, EditLoads, EditMishaps,
          Sessions, Count, Hmr, SessionLoads, SessionDrops, Hides, SessionPresses, SessionMishaps,
          Tabs, Targets, Copies, Faults, TargetMishaps

VARIABLES sChat, sPage, sGuard, sPosts, sQueue, sAgent, sPolling, sOpen, sSaid, sSpent,
          mTab, mStaged, mPhase, mBatch, mWire, mOpen, mSpent,
          lTab, lMaking, lPosts, lSse, lSrv, lFile, lDom, lSpent,
          aTab, aChains, aReq, aInbox, aResults, aGens, aGoes, aFaults

-----------------------------------------------------------------------------
(* The steer chat.                                                         *)

Chat == INSTANCE Steer WITH
  Ids <- Messages, Msgs <- Texts, MaxDrops <- ChatDrops, MaxMoves <- Moves, Mishaps <- ChatMishaps,
  chat <- sChat, page <- sPage, guard <- sGuard, posts <- sPosts, queue <- sQueue, agent <- sAgent,
  polling <- sPolling, open <- sOpen, said <- sSaid, spent <- sSpent

ChatInv == Chat!TypeOK /\ Chat!LockHasTimer /\ Chat!VoiceHasItsInput

\* The chat's and the page's records.
ChatForm ==
  [text : Texts \cup {None}, expanded : BOOLEAN, locked : BOOLEAN, req : Messages \cup {None},
   pending : Texts \cup {None}, timer : Messages \cup {None},
   voice : [mode : {"off", "steer", "configure"}, live : BOOLEAN],
   told : {"nothing", "unreachable", "done", "error", "never picked up", "nobody polls", "never replied"}]
PageForm ==
  [mode : {"PICKING", "CONFIGURING", "GENERATING"}, focus : {"body", "field", "chat", "prompt"},
   selecting : BOOLEAN, pressed : BOOLEAN, prompt : Texts \cup {None}]
GuardForm == [suspended : BOOLEAN, paused : BOOLEAN, recover : BOOLEAN, blurred : BOOLEAN]

ChatTyped == sChat \in ChatForm /\ sPage \in PageForm /\ sGuard \in GuardForm

ChatWorld ==
  /\ sPosts \subseteq [id : Messages, at : {"sent", "arrived"}]
  /\ sQueue \subseteq Messages \cup {"generation"} /\ sAgent \in Messages \cup {None, "generation"}
  /\ sPolling \in BOOLEAN /\ sOpen \in BOOLEAN
  /\ sSaid \in [Messages -> Texts \cup {None}]

LEMMA ChatTypeSays == Chat!TypeOK <=> ChatTyped /\ ChatWorld
BY DEF Chat!TypeOK, ChatTyped, ChatWorld, ChatForm, PageForm, GuardForm

\* What a chat may be locked and listen for, given the page and the messages said.
Held(c, p, s) ==
  /\ c.locked => c.req # None /\ c.timer = c.req /\ s[c.req] = c.pending
  /\ c.voice.mode = "configure" => p.mode = "CONFIGURING"
  /\ c.voice.mode = "steer" => ~c.locked

LEMMA ChatInvSays == ChatInv <=> ChatTyped /\ ChatWorld /\ Held(sChat, sPage, sSaid)
BY ChatTypeSays DEF ChatInv, Chat!LockHasTimer, Chat!VoiceHasItsInput, Held

\* The page keeps its mode wherever the focus goes.
LEMMA FollowKeeps ==
  ASSUME NEW c \in ChatForm, NEW p \in PageForm, NEW g \in GuardForm, sPage \in PageForm, Chat!Follow(c, p, g)
  PROVE  sChat' = c /\ ChatTyped' /\ sPage'.mode = p.mode
<1>1. Chat!Synced(c, p, g) \in PageForm /\ Chat!Synced(c, p, g).mode = p.mode
  BY DEF PageForm, Chat!Synced
<1>2. sChat' = c /\ sPage' = Chat!Synced(c, p, g) /\ sGuard' = Chat!Left(sPage, Chat!Synced(c, p, g), g)
  BY DEF Chat!Follow
<1>3. ASSUME NEW q \in PageForm PROVE Chat!Left(sPage, q, g) \in GuardForm
  BY DEF Chat!Left, GuardForm, PageForm
<1> QED
  BY <1>1, <1>2, <1>3 DEF ChatTyped

\* A chat whose microphone is closed, and one that is unlocked.
LEMMA StoppedKeeps ==
  ASSUME NEW c \in ChatForm
  PROVE  /\ Chat!Stopped(c) \in ChatForm /\ Chat!Stopped(c).voice = [mode |-> "off", live |-> FALSE]
         /\ Chat!Stopped(c).locked = c.locked /\ Chat!Stopped(c).req = c.req
         /\ Chat!Stopped(c).timer = c.timer /\ Chat!Stopped(c).pending = c.pending
<1>1. Chat!Stopped(c) = [c EXCEPT !.voice = [mode |-> "off", live |-> FALSE]]
  BY DEF Chat!Stopped, Chat!NoVoice
<1>2. [mode |-> "off", live |-> FALSE] \in [mode : {"off", "steer", "configure"}, live : BOOLEAN]
  OBVIOUS
<1>3. ASSUME NEW v \in [mode : {"off", "steer", "configure"}, live : BOOLEAN], NEW d, d = [c EXCEPT !.voice = v]
      PROVE  /\ d \in ChatForm /\ d.voice = v
             /\ d.locked = c.locked /\ d.req = c.req /\ d.timer = c.timer /\ d.pending = c.pending
  BY <1>3 DEF ChatForm
<1> QED
  BY <1>1, <1>2, <1>3

LEMMA RestoredKeeps ==
  ASSUME NEW c \in ChatForm, NEW m \in Texts \cup {None}
  PROVE  /\ Chat!Restored(c, m) \in ChatForm /\ ~Chat!Restored(c, m).locked
         /\ Chat!Restored(c, m).voice = c.voice
BY DEF ChatForm, Chat!Restored

LEMMA UnlockKeeps ==
  ASSUME ChatTyped, NEW c \in ChatForm, NEW m \in Texts \cup {None}, Chat!Unlock(c, m)
  PROVE  ChatTyped' /\ ~sChat'.locked /\ sChat'.voice = c.voice /\ sPage'.mode = sPage.mode
<1>1. CASE m # None
  <2>1. /\ sChat' = Chat!Restored(c, m) /\ sPage' = [sPage EXCEPT !.focus = "chat"] /\ sGuard' = sGuard
    BY <1>1 DEF Chat!Unlock
  <2>2. sPage' \in PageForm /\ sPage'.mode = sPage.mode
    BY <2>1 DEF ChatTyped, PageForm
  <2> QED
    BY <2>1, <2>2, RestoredKeeps DEF ChatTyped
<1>2. CASE m = None
  <2>1. Chat!Follow(Chat!Restored(c, m), sPage, sGuard)
    BY <1>2 DEF Chat!Unlock
  <2> QED
    BY <2>1, RestoredKeeps, FollowKeeps DEF ChatTyped
<1> QED
  BY <1>1, <1>2

\* Of an unlocked chat only the microphone matters; of any chat, its lock and microphone.
LEMMA HeldUnlocked ==
  ASSUME Held(sChat, sPage, sSaid), ~sChat'.locked, sChat'.voice = sChat.voice, sPage'.mode = sPage.mode
  PROVE  Held(sChat', sPage', sSaid')
BY DEF Held

LEMMA HeldSame ==
  ASSUME Held(sChat, sPage, sSaid), sSaid' = sSaid, sPage'.mode = sPage.mode, sChat'.locked = sChat.locked,
         sChat'.req = sChat.req, sChat'.timer = sChat.timer, sChat'.pending = sChat.pending,
         sChat'.voice.mode = sChat.voice.mode
  PROVE  Held(sChat', sPage', sSaid')
BY DEF Held

\* The looks of a chat are its own; its lock and microphone stay.
SameLock(c, d) ==
  /\ d.locked = c.locked /\ d.req = c.req /\ d.timer = c.timer /\ d.pending = c.pending
  /\ d.voice = c.voice

LEMMA ExpandedKeeps ==
  ASSUME NEW c \in ChatForm, NEW b \in BOOLEAN
  PROVE  [c EXCEPT !.expanded = b] \in ChatForm /\ SameLock(c, [c EXCEPT !.expanded = b])
BY DEF ChatForm, SameLock

LEMMA VisualKeeps ==
  ASSUME NEW c \in ChatForm
  PROVE  /\ Chat!Visual(c) \in ChatForm /\ SameLock(c, Chat!Visual(c))
         /\ Chat!Collapsed(c) \in ChatForm /\ SameLock(c, Chat!Collapsed(c))
         /\ Chat!Expanded(c) \in ChatForm /\ SameLock(c, Chat!Expanded(c))
<1>1. SameLock(c, c)
  BY DEF SameLock
<1>2. Chat!Visual(c) \in {c, [c EXCEPT !.expanded = TRUE], [c EXCEPT !.expanded = FALSE]}
  BY DEF Chat!Visual
<1>3. Chat!Collapsed(c) \in {c, [c EXCEPT !.expanded = FALSE]} /\ Chat!Expanded(c) = [c EXCEPT !.expanded = TRUE]
  BY DEF Chat!Collapsed, Chat!Expanded
<1> QED
  BY <1>1, <1>2, <1>3, ExpandedKeeps

\* A message is sent: the chat is locked for it, with its timer and no microphone.
LEMMA SentKeeps ==
  ASSUME Chat!Assumption, ChatTyped, ChatWorld, NEW c \in ChatForm, NEW i \in Messages, Chat!Sent(c, i),
         UNCHANGED <<sGuard, sQueue, sAgent, sPolling, sOpen>>
  PROVE  ChatTyped' /\ ChatWorld' /\ Held(sChat', sPage', sSaid')
<1>1. i # None
  BY DEF Chat!Assumption
<1>2. /\ sChat' = [Chat!Stopped(c) EXCEPT !.locked = TRUE, !.req = i, !.pending = c.text,
                                          !.timer = i, !.expanded = TRUE]
      /\ sPage' = [sPage EXCEPT !.focus = IF @ = "chat" THEN "body" ELSE @]
      /\ sPosts' = sPosts \cup {[id |-> i, at |-> "sent"]}
      /\ sSaid' = [sSaid EXCEPT ![i] = c.text]
  BY DEF Chat!Sent, Chat!Locked
<1>3. /\ sChat' \in ChatForm /\ sChat'.locked /\ sChat'.req = i /\ sChat'.timer = i /\ sChat'.pending = c.text
      /\ sChat'.voice.mode = "off"
  <2> DEFINE d == Chat!Stopped(c)
  <2>1. d \in ChatForm /\ d.voice.mode = "off"
    BY StoppedKeeps
  <2>2. sChat' = [d EXCEPT !.locked = TRUE, !.req = i, !.pending = c.text, !.timer = i, !.expanded = TRUE]
    BY <1>2
  <2> HIDE DEF d
  <2>3. c.text \in Texts \cup {None}
    BY DEF ChatForm
  <2>4. ASSUME NEW m \in Texts \cup {None}, NEW e, e = [d EXCEPT !.locked = TRUE, !.req = i, !.pending = m, !.timer = i, !.expanded = TRUE]
        PROVE  e \in ChatForm
    BY <2>1, <2>4 DEF ChatForm
  <2>5. ASSUME NEW m \in Texts \cup {None}, NEW e, e = [d EXCEPT !.locked = TRUE, !.req = i, !.pending = m, !.timer = i, !.expanded = TRUE]
        PROVE  e.locked /\ e.req = i /\ e.timer = i /\ e.pending = m /\ e.voice = d.voice
    BY <2>1, <2>5 DEF ChatForm
  <2> QED
    BY <2>1, <2>2, <2>3, <2>4, <2>5
<1>4. sPage' \in PageForm
  BY <1>2 DEF ChatTyped, PageForm
<1>5. sSaid' \in [Messages -> Texts \cup {None}] /\ sSaid'[i] = c.text
  BY <1>2 DEF ChatWorld, ChatForm
<1> QED
  BY <1>1, <1>2, <1>3, <1>4, <1>5 DEF ChatTyped, ChatWorld, Held

\* An element's session begins: the microphone is closed, whatever it was open for.
LEMMA GeneratingKeeps ==
  ASSUME ChatTyped, ChatWorld, Held(sChat, sPage, sSaid), NEW c \in ChatForm, Chat!Generating(c),
         c.locked = sChat.locked, c.req = sChat.req, c.timer = sChat.timer, c.pending = sChat.pending,
         UNCHANGED <<sPosts, sAgent, sPolling, sOpen, sSaid>>
  PROVE  ChatTyped' /\ ChatWorld' /\ Held(sChat', sPage', sSaid')
<1> DEFINE d == Chat!Stopped(c)
           p == [sPage EXCEPT !.mode = "GENERATING", !.focus = IF @ = "prompt" THEN "body" ELSE @]
<1>1. d \in ChatForm /\ d.voice.mode = "off" /\ d.locked = c.locked /\ d.req = c.req /\ d.timer = c.timer
      /\ d.pending = c.pending
  BY StoppedKeeps
<1>2. p \in PageForm
  BY DEF ChatTyped, PageForm
<1>3. Chat!Follow(d, p, sGuard) /\ sQueue' = sQueue \cup {"generation"}
  BY DEF Chat!Generating
<1> HIDE DEF d, p
<1>4. sChat' = d /\ ChatTyped'
  BY <1>1, <1>2, <1>3, FollowKeeps DEF ChatTyped
<1> QED
  BY <1>1, <1>3, <1>4 DEF ChatWorld, Held

LEMMA ChatInit == Chat!Assumption /\ Chat!Init => ChatInv
<1> SUFFICES ASSUME Chat!Assumption, Chat!Init PROVE ChatInv
  OBVIOUS
<1>1. sChat \in ChatForm /\ ~sChat.locked /\ sChat.voice.mode = "off"
  BY DEF Chat!Init, ChatForm, Chat!NoVoice
<1>2. sPage \in PageForm /\ sGuard \in GuardForm
  BY DEF Chat!Init, PageForm, GuardForm
<1>3. ChatWorld
  BY DEF Chat!Init, ChatWorld
<1> QED
  BY <1>1, <1>2, <1>3, ChatInvSays DEF ChatTyped, Held

\* What the user does with the chat, and what the microphone hears.
LEMMA ChatOfUser ==
  ASSUME Chat!Assumption, ChatTyped, ChatWorld, Held(sChat, sPage, sSaid),
         \/ \E m \in Texts : Chat!Type(m) \/ Chat!Heard(m)
         \/ Chat!Escape \/ Chat!ClickChat
         \/ \E i \in Messages : Chat!Submit(i)
         \/ \E m \in {"steer", "configure"} : Chat!StartVoice(m)
         \/ Chat!VoiceStopped \/ Chat!VoiceStarts \/ Chat!VoiceEnds
  PROVE  ChatTyped' /\ ChatWorld' /\ Held(sChat', sPage', sSaid')
<1> USE DEF Chat!world
<1>1. ASSUME NEW m \in Texts, Chat!Type(m) PROVE ChatTyped' /\ ChatWorld' /\ Held(sChat', sPage', sSaid')
  <2> DEFINE c == [sChat EXCEPT !.text = m, !.told = "nothing"]
  <2>1. c \in ChatForm /\ SameLock(sChat, c)
    BY DEF ChatTyped, ChatForm, SameLock
  <2>2. sChat' = Chat!Visual(c) /\ UNCHANGED <<sPage, sGuard, sPosts, sQueue, sAgent, sOpen, sSaid, sPolling>>
    BY <1>1 DEF Chat!Type
  <2> HIDE DEF c
  <2>3. sChat' \in ChatForm /\ SameLock(sChat, sChat')
    BY <2>1, <2>2, VisualKeeps DEF SameLock
  <2> QED
    BY <2>2, <2>3, HeldSame DEF ChatTyped, ChatWorld, SameLock
<1>2. ASSUME NEW m \in Texts, Chat!Heard(m) PROVE ChatTyped' /\ ChatWorld' /\ Held(sChat', sPage', sSaid')
  <2>1. CASE sChat.voice.mode = "steer"
    <3> DEFINE c == [sChat EXCEPT !.text = m]
    <3>1. c \in ChatForm /\ SameLock(sChat, c)
      BY DEF ChatTyped, ChatForm, SameLock
    <3>2. sChat' = Chat!Visual(c) /\ UNCHANGED <<sPage, sGuard, sPosts, sQueue, sAgent, sOpen, sSaid, sPolling>>
      BY <1>2, <2>1 DEF Chat!Heard
    <3> HIDE DEF c
    <3>3. sChat' \in ChatForm /\ SameLock(sChat, sChat')
      BY <3>1, <3>2, VisualKeeps DEF SameLock
    <3> QED
      BY <3>2, <3>3, HeldSame DEF ChatTyped, ChatWorld, SameLock
  <2>2. CASE sChat.voice.mode # "steer"
    <3>1. /\ sPage' = [sPage EXCEPT !.prompt = m]
          /\ UNCHANGED <<sChat, sGuard, sPosts, sQueue, sAgent, sOpen, sSaid, sPolling>>
      BY <1>2, <2>2 DEF Chat!Heard
    <3>2. sPage' \in PageForm /\ sPage'.mode = sPage.mode
      BY <3>1 DEF ChatTyped, PageForm
    <3> QED
      BY <3>1, <3>2, HeldSame DEF ChatTyped, ChatWorld
  <2> QED
    BY <2>1, <2>2
<1>3. ASSUME Chat!Escape PROVE ChatTyped' /\ ChatWorld' /\ Held(sChat', sPage', sSaid')
  <2> DEFINE c == [sChat EXCEPT !.text = None]
  <2>1. c \in ChatForm /\ SameLock(sChat, c)
    BY DEF ChatTyped, ChatForm, SameLock
  <2>2. /\ sChat' = Chat!Visual(c) \/ sChat' = Chat!Collapsed(sChat)
        /\ UNCHANGED <<sPage, sGuard, sPosts, sQueue, sAgent, sOpen, sSaid, sPolling>>
    BY <1>3 DEF Chat!Escape
  <2> HIDE DEF c
  <2>3. sChat' \in ChatForm /\ SameLock(sChat, sChat')
    BY <2>1, <2>2, VisualKeeps DEF SameLock, ChatTyped
  <2> QED
    BY <2>2, <2>3, HeldSame DEF ChatTyped, ChatWorld, SameLock
<1>4. ASSUME Chat!ClickChat PROVE ChatTyped' /\ ChatWorld' /\ Held(sChat', sPage', sSaid')
  <2>1. /\ sChat' = Chat!Expanded(sChat) /\ sPage' = [sPage EXCEPT !.focus = "chat"]
        /\ UNCHANGED <<sGuard, sPosts, sQueue, sAgent, sOpen, sSaid, sPolling>>
    BY <1>4 DEF Chat!ClickChat
  <2>2. sChat' \in ChatForm /\ SameLock(sChat, sChat')
    BY <2>1, VisualKeeps DEF ChatTyped
  <2>3. sPage' \in PageForm /\ sPage'.mode = sPage.mode
    BY <2>1 DEF ChatTyped, PageForm
  <2> QED
    BY <2>1, <2>2, <2>3, HeldSame DEF ChatTyped, ChatWorld, SameLock
<1>5. ASSUME NEW i \in Messages, Chat!Submit(i) PROVE ChatTyped' /\ ChatWorld' /\ Held(sChat', sPage', sSaid')
  BY <1>5, SentKeeps DEF Chat!Submit, ChatTyped
<1>6. ASSUME NEW m \in {"steer", "configure"}, Chat!StartVoice(m)
      PROVE  ChatTyped' /\ ChatWorld' /\ Held(sChat', sPage', sSaid')
  <2> DEFINE c == Chat!Listening(sChat, m)
  <2>1. /\ c \in ChatForm /\ c.voice.mode = m /\ c.locked = sChat.locked /\ c.req = sChat.req
        /\ c.timer = sChat.timer /\ c.pending = sChat.pending
    <3> DEFINE d == Chat!Stopped(sChat)
    <3>1. /\ d \in ChatForm /\ d.locked = sChat.locked /\ d.req = sChat.req /\ d.timer = sChat.timer
          /\ d.pending = sChat.pending
      BY StoppedKeeps DEF ChatTyped
    <3>2. c = [d EXCEPT !.voice = [mode |-> m, live |-> FALSE]]
      BY DEF Chat!Listening
    <3> HIDE DEF d, c
    <3> QED
      BY <3>1, <3>2 DEF ChatForm
  <2> HIDE DEF c
  <2>2. UNCHANGED <<sPosts, sQueue, sAgent, sOpen, sSaid, sPolling>>
    BY <1>6 DEF Chat!StartVoice
  <2>3. CASE m = "steer"
    <3>1. ~sChat.locked /\ sChat' = Chat!Expanded(c) /\ UNCHANGED <<sPage, sGuard>>
      BY <1>6, <2>3 DEF Chat!StartVoice, c
    <3>2. sChat' \in ChatForm /\ SameLock(c, sChat')
      BY <2>1, <3>1, VisualKeeps
    <3> QED
      BY <2>1, <2>2, <2>3, <3>1, <3>2 DEF ChatTyped, ChatWorld, SameLock, Held
  <2>4. CASE m = "configure"
    <3> DEFINE q == [sPage EXCEPT !.focus = "prompt"]
    <3>1. sPage.mode = "CONFIGURING" /\ sChat' = c /\ sPage' = q /\ sGuard' = Chat!Left(sPage, q, sGuard)
      BY <1>6, <2>4 DEF Chat!StartVoice, c
    <3>2. q \in PageForm /\ q.mode = sPage.mode
      BY DEF ChatTyped, PageForm
    <3> HIDE DEF q
    <3>3. sGuard' \in GuardForm
      BY <3>1, <3>2 DEF ChatTyped, Chat!Left, GuardForm, PageForm
    <3> QED
      BY <2>1, <2>2, <2>4, <3>1, <3>2, <3>3 DEF ChatTyped, ChatWorld, Held
  <2> QED
    BY <2>3, <2>4
<1>7. ASSUME Chat!VoiceStopped PROVE ChatTyped' /\ ChatWorld' /\ Held(sChat', sPage', sSaid')
  <2>1. /\ sChat' = Chat!Stopped(sChat)
        /\ UNCHANGED <<sPage, sGuard, sPosts, sQueue, sAgent, sOpen, sSaid, sPolling>>
    BY <1>7 DEF Chat!VoiceStopped
  <2>2. /\ sChat' \in ChatForm /\ sChat'.voice.mode = "off" /\ sChat'.locked = sChat.locked
        /\ sChat'.req = sChat.req /\ sChat'.timer = sChat.timer /\ sChat'.pending = sChat.pending
    BY <2>1, StoppedKeeps DEF ChatTyped
  <2> QED
    BY <2>1, <2>2 DEF ChatTyped, ChatWorld, Held
<1>8. ASSUME Chat!VoiceStarts PROVE ChatTyped' /\ ChatWorld' /\ Held(sChat', sPage', sSaid')
  <2>1. /\ sChat' = [sChat EXCEPT !.voice.live = TRUE]
        /\ UNCHANGED <<sPage, sGuard, sPosts, sQueue, sAgent, sOpen, sSaid, sPolling>>
    BY <1>8 DEF Chat!VoiceStarts
  <2>2. /\ sChat' \in ChatForm /\ sChat'.voice.mode = sChat.voice.mode /\ sChat'.locked = sChat.locked
        /\ sChat'.req = sChat.req /\ sChat'.timer = sChat.timer /\ sChat'.pending = sChat.pending
    BY <2>1 DEF ChatTyped, ChatForm
  <2> QED
    BY <2>1, <2>2, HeldSame DEF ChatTyped, ChatWorld
<1>9. ASSUME Chat!VoiceEnds PROVE ChatTyped' /\ ChatWorld' /\ Held(sChat', sPage', sSaid')
  <2> DEFINE c == Chat!Stopped(sChat)
  <2>1. /\ c \in ChatForm /\ c.voice.mode = "off" /\ c.locked = sChat.locked
        /\ c.req = sChat.req /\ c.timer = sChat.timer /\ c.pending = sChat.pending
    BY StoppedKeeps DEF ChatTyped
  <2>2. ASSUME NEW i \in Messages, Chat!Sent(c, i), UNCHANGED <<sGuard, sQueue, sAgent, sPolling, sOpen>>
        PROVE  ChatTyped' /\ ChatWorld' /\ Held(sChat', sPage', sSaid')
    BY <2>1, <2>2, SentKeeps
  <2>3. ASSUME Chat!Generating(c), UNCHANGED <<sPosts, sAgent, sPolling, sOpen, sSaid>>
        PROVE  ChatTyped' /\ ChatWorld' /\ Held(sChat', sPage', sSaid')
    BY <2>1, <2>3, GeneratingKeeps
  <2>4. ASSUME sChat' = c, UNCHANGED <<sPage, sGuard, sPosts, sQueue, sAgent, sOpen, sSaid, sPolling>>
        PROVE  ChatTyped' /\ ChatWorld' /\ Held(sChat', sPage', sSaid')
    BY <2>1, <2>4 DEF ChatTyped, ChatWorld, Held
  <2> QED
    BY <1>9, <2>2, <2>3, <2>4 DEF Chat!VoiceEnds
<1> QED
  BY <1>1, <1>2, <1>3, <1>4, <1>5, <1>6, <1>7, <1>8, <1>9

\* What the page and its user do beside the chat, and the timers of the focus.
LEMMA ChatOfPage ==
  ASSUME ChatTyped, ChatWorld, Held(sChat, sPage, sSaid),
         \/ Chat!Pick \/ Chat!Unpick \/ Chat!Go \/ Chat!SelectionCleared
         \/ \E at \in {"field", "body"} : Chat!PagePress(at)
         \/ \E text \in BOOLEAN : Chat!PageRelease(text)
         \/ Chat!PauseEnds \/ Chat!Recover \/ Chat!BlurTimer
  PROVE  ChatTyped' /\ ChatWorld' /\ Held(sChat', sPage', sSaid')
<1> USE DEF Chat!world
<1>1. ASSUME NEW c \in ChatForm, NEW p \in PageForm, NEW g \in GuardForm, Chat!Follow(c, p, g),
             SameLock(sChat, c), p.mode = sPage.mode, UNCHANGED <<sPosts, sQueue, sAgent, sOpen, sSaid, sPolling>>
      PROVE  ChatTyped' /\ ChatWorld' /\ Held(sChat', sPage', sSaid')
  <2>1. sChat' = c /\ ChatTyped' /\ sPage'.mode = sPage.mode
    BY <1>1, FollowKeeps DEF ChatTyped
  <2> QED
    BY <1>1, <2>1, HeldSame DEF ChatWorld, SameLock
<1>2. CASE Chat!Pick
  <2> DEFINE p == [sPage EXCEPT !.mode = "CONFIGURING", !.prompt = None]
  <2>1. p \in PageForm /\ p.mode = "CONFIGURING"
    BY DEF ChatTyped, PageForm
  <2>2. Chat!Follow(sChat, p, sGuard) /\ UNCHANGED <<sPosts, sQueue, sAgent, sOpen, sSaid, sPolling>>
    BY <1>2 DEF Chat!Pick
  <2> HIDE DEF p
  <2>3. sChat' = sChat /\ ChatTyped' /\ sPage'.mode = "CONFIGURING"
    BY <2>1, <2>2, FollowKeeps DEF ChatTyped
  <2> QED
    BY <2>2, <2>3 DEF ChatWorld, Held
<1>3. CASE Chat!Unpick
  <2> DEFINE p == [sPage EXCEPT !.mode = "PICKING", !.focus = IF @ = "prompt" THEN "body" ELSE @]
             d == Chat!Stopped(sChat)
  <2>1. p \in PageForm
    BY DEF ChatTyped, PageForm
  <2>2. d \in ChatForm /\ d.voice.mode = "off" /\ d.locked = sChat.locked /\ d.req = sChat.req
        /\ d.timer = sChat.timer /\ d.pending = sChat.pending
    BY StoppedKeeps DEF ChatTyped
  <2>3. Chat!Follow(d, p, sGuard) /\ UNCHANGED <<sPosts, sQueue, sAgent, sOpen, sSaid, sPolling>>
    BY <1>3 DEF Chat!Unpick
  <2> HIDE DEF p, d
  <2>4. sChat' = d /\ ChatTyped'
    BY <2>1, <2>2, <2>3, FollowKeeps DEF ChatTyped
  <2> QED
    BY <2>2, <2>3, <2>4 DEF ChatWorld, Held
<1>4. CASE Chat!Go
  BY <1>4, GeneratingKeeps DEF Chat!Go, ChatTyped
<1>5. ASSUME NEW p \in PageForm, NEW g \in GuardForm, p.mode = sPage.mode, sPage' = p, sGuard' = g,
             UNCHANGED <<sChat, sPosts, sQueue, sAgent, sOpen, sSaid, sPolling>>
      PROVE  ChatTyped' /\ ChatWorld' /\ Held(sChat', sPage', sSaid')
  BY <1>5, HeldSame DEF ChatTyped, ChatWorld
<1>6. CASE Chat!SelectionCleared
  <2>1. [sPage EXCEPT !.selecting = FALSE] \in PageForm /\ [sPage EXCEPT !.selecting = FALSE].mode = sPage.mode
    BY DEF ChatTyped, PageForm
  <2>2. [sGuard EXCEPT !.suspended = FALSE, !.recover = @ \/ sGuard.suspended] \in GuardForm
    BY DEF ChatTyped, GuardForm
  <2>3. /\ sPage' = [sPage EXCEPT !.selecting = FALSE]
        /\ sGuard' \in {sGuard, [sGuard EXCEPT !.suspended = FALSE, !.recover = @ \/ sGuard.suspended]}
        /\ UNCHANGED <<sChat, sPosts, sQueue, sAgent, sOpen, sSaid, sPolling>>
    BY <1>6 DEF Chat!SelectionCleared
  <2> QED
    BY <2>1, <2>2, <2>3, <1>5 DEF ChatTyped
<1>7. ASSUME NEW at \in {"field", "body"}, Chat!PagePress(at)
      PROVE  ChatTyped' /\ ChatWorld' /\ Held(sChat', sPage', sSaid')
  <2> DEFINE q == [sPage EXCEPT !.focus = at, !.pressed = TRUE, !.selecting = FALSE]
             g == Chat!Left(sPage, q, sGuard)
  <2>1. q \in PageForm /\ q.mode = sPage.mode
    BY DEF ChatTyped, PageForm
  <2>2. /\ sPage' = q /\ sGuard' \in {g, [g EXCEPT !.suspended = TRUE, !.paused = TRUE]}
        /\ UNCHANGED <<sChat, sPosts, sQueue, sAgent, sOpen, sSaid, sPolling>>
    BY <1>7 DEF Chat!PagePress
  <2>3. g \in GuardForm
    BY DEF ChatTyped, Chat!Left, GuardForm, PageForm
  <2> HIDE DEF q, g
  <2>4. [g EXCEPT !.suspended = TRUE, !.paused = TRUE] \in GuardForm
    BY <2>3 DEF GuardForm
  <2> QED
    BY <2>1, <2>2, <2>3, <2>4, <1>5
<1>8. ASSUME NEW text \in BOOLEAN, Chat!PageRelease(text)
      PROVE  ChatTyped' /\ ChatWorld' /\ Held(sChat', sPage', sSaid')
  <2>1. /\ [sPage EXCEPT !.pressed = FALSE, !.selecting = text] \in PageForm
        /\ [sPage EXCEPT !.pressed = FALSE, !.selecting = text].mode = sPage.mode
    BY DEF ChatTyped, PageForm
  <2>2. [sGuard EXCEPT !.suspended = text, !.recover = @ \/ ~text] \in GuardForm
    BY DEF ChatTyped, GuardForm
  <2>3. /\ sPage' = [sPage EXCEPT !.pressed = FALSE, !.selecting = text]
        /\ sGuard' \in {sGuard, [sGuard EXCEPT !.suspended = text, !.recover = @ \/ ~text]}
        /\ UNCHANGED <<sChat, sPosts, sQueue, sAgent, sOpen, sSaid, sPolling>>
    BY <1>8 DEF Chat!PageRelease
  <2> QED
    BY <2>1, <2>2, <2>3, <1>5 DEF ChatTyped
<1>9. CASE Chat!PauseEnds
  <2>1. [sGuard EXCEPT !.paused = FALSE] \in GuardForm
    BY DEF ChatTyped, GuardForm
  <2> QED
    BY <1>9, <2>1, <1>5 DEF Chat!PauseEnds, ChatTyped
<1>10. CASE Chat!Recover
  <2> DEFINE g == [sGuard EXCEPT !.recover = FALSE]
  <2>1. g \in GuardForm
    BY DEF ChatTyped, GuardForm
  <2>2. /\ (sGuard' = g /\ UNCHANGED <<sChat, sPage>>) \/ Chat!Follow(Chat!Visual(sChat), sPage, g)
        /\ UNCHANGED <<sPosts, sQueue, sAgent, sOpen, sSaid, sPolling>>
    BY <1>10 DEF Chat!Recover
  <2>3. Chat!Visual(sChat) \in ChatForm /\ SameLock(sChat, Chat!Visual(sChat))
    BY VisualKeeps DEF ChatTyped
  <2> HIDE DEF g
  <2> QED
    BY <2>1, <2>2, <2>3, <1>1, <1>5 DEF ChatTyped
<1>11. CASE Chat!BlurTimer
  <2>1. /\ sChat' \in {sChat, Chat!Collapsed(sChat)}
        /\ sGuard' \in {[sGuard EXCEPT !.blurred = FALSE], [sGuard EXCEPT !.blurred = FALSE, !.recover = TRUE]}
        /\ UNCHANGED <<sPage, sPosts, sQueue, sAgent, sOpen, sSaid, sPolling>>
    BY <1>11 DEF Chat!BlurTimer
  <2>2. sGuard' \in GuardForm
    BY <2>1 DEF ChatTyped, GuardForm
  <2>3. sChat' \in ChatForm /\ SameLock(sChat, sChat')
    BY <2>1, VisualKeeps DEF ChatTyped, SameLock
  <2> QED
    BY <2>1, <2>2, <2>3, HeldSame DEF ChatTyped, ChatWorld, SameLock
<1> QED
  BY <1>2, <1>3, <1>4, <1>6, <1>7, <1>8, <1>9, <1>10, <1>11

\* What the helper, the agent and the timer of a message do.
LEMMA ChatOfOthers ==
  ASSUME ChatTyped, ChatWorld, Held(sChat, sPage, sSaid), Chat!Agent \/ Chat!Helper \/ \E i \in Messages : Chat!Timeout(i)
  PROVE  ChatTyped' /\ ChatWorld' /\ Held(sChat', sPage', sSaid')
<1> USE DEF Chat!world, Chat!tabs
\* The tab is left alone, and so is what was said.
<1>1. ASSUME UNCHANGED <<sChat, sPage, sGuard, sSaid>>
      PROVE  ChatTyped' /\ Held(sChat', sPage', sSaid')
  BY <1>1, HeldSame DEF ChatTyped
\* The lock is taken back, whatever is told.
<1>2. ASSUME NEW k \in {"unreachable", "done", "error", "never picked up", "nobody polls", "never replied"},
             NEW m \in Texts \cup {None}, Chat!Unlock([sChat EXCEPT !.told = k], m)
      PROVE  ChatTyped' /\ Held(sChat', sPage', sSaid')
  <2>1. [sChat EXCEPT !.told = k] \in ChatForm /\ [sChat EXCEPT !.told = k].voice = sChat.voice
    BY DEF ChatTyped, ChatForm
  <2> QED
    BY <1>2, <2>1, UnlockKeeps, HeldUnlocked
<1>3. sChat.pending \in Texts \cup {None}
  BY DEF ChatTyped, ChatForm
<1>4. ASSUME NEW x \in Messages \cup {"generation"}, Chat!AgentTakes(x)
      PROVE  ChatTyped' /\ ChatWorld' /\ Held(sChat', sPage', sSaid')
  BY <1>4, <1>1 DEF Chat!AgentTakes, ChatWorld
<1>5. ASSUME NEW k \in {"done", "error"}, Chat!AgentReplies(k)
      PROVE  ChatTyped' /\ ChatWorld' /\ Held(sChat', sPage', sSaid')
  <2>1. sAgent' = None /\ UNCHANGED <<sPosts, sQueue, sPolling, sOpen, sSaid>>
    BY <1>5 DEF Chat!AgentReplies
  <2>2. \/ Chat!Unlock([sChat EXCEPT !.told = k], IF k = "error" THEN sChat.pending ELSE None)
        \/ UNCHANGED <<sChat, sPage, sGuard>>
    BY <1>5 DEF Chat!AgentReplies
  <2> QED
    BY <2>1, <2>2, <1>1, <1>2, <1>3 DEF ChatWorld
<1>6. CASE Chat!GenerationEnds
  <2> DEFINE p == [sPage EXCEPT !.mode = "PICKING"]
  <2>1. p \in PageForm /\ p.mode = "PICKING"
    BY DEF ChatTyped, PageForm
  <2>2. sPage.mode = "GENERATING" /\ Chat!Follow(sChat, p, sGuard) /\ sAgent' = None
        /\ UNCHANGED <<sPosts, sQueue, sPolling, sOpen, sSaid>>
    BY <1>6 DEF Chat!GenerationEnds
  <2> HIDE DEF p
  <2>3. sChat' = sChat /\ ChatTyped'
    BY <2>1, <2>2, FollowKeeps DEF ChatTyped
  <2> QED
    BY <2>2, <2>3 DEF ChatWorld, Held
<1>7. CASE Chat!Poll \/ Chat!Drop \/ Chat!Connect
  BY <1>7, <1>1 DEF Chat!Poll, Chat!Drop, Chat!Connect, ChatWorld
<1>8. ASSUME NEW p \in sPosts, Chat!PostArrives(p)
      PROVE  ChatTyped' /\ ChatWorld' /\ Held(sChat', sPage', sSaid')
  <2>1. p \in [id : Messages, at : {"sent", "arrived"}]
    BY DEF ChatWorld
  <2>2. [p EXCEPT !.at = "arrived"] \in [id : Messages, at : {"sent", "arrived"}]
    BY <2>1
  <2> QED
    BY <1>8, <1>1, <2>1, <2>2 DEF Chat!PostArrives, ChatWorld
<1>9. ASSUME NEW p \in sPosts, Chat!PostAnswered(p)
      PROVE  ChatTyped' /\ ChatWorld' /\ Held(sChat', sPage', sSaid')
  BY <1>9, <1>1 DEF Chat!PostAnswered, ChatWorld
<1>10. ASSUME NEW p \in sPosts, Chat!PostFails(p)
       PROVE  ChatTyped' /\ ChatWorld' /\ Held(sChat', sPage', sSaid')
  <2>1. sSaid[p.id] \in Texts \cup {None}
    BY DEF ChatWorld
  <2> QED
    BY <1>10, <1>2, <2>1 DEF Chat!PostFails, ChatWorld
<1>11. ASSUME NEW i \in Messages, Chat!Timeout(i)
       PROVE  ChatTyped' /\ ChatWorld' /\ Held(sChat', sPage', sSaid')
  <2>1. Chat!Silence(sChat) \in {"never picked up", "nobody polls", "never replied"}
    BY DEF Chat!Silence
  <2> QED
    BY <1>11, <1>2, <1>3, <2>1 DEF Chat!Timeout, ChatWorld
<1> QED
  BY <1>4, <1>5, <1>6, <1>7, <1>8, <1>9, <1>10, <1>11 DEF Chat!Agent, Chat!Helper

LEMMA ChatNext == ASSUME Chat!Assumption, ChatInv, [Chat!Next]_Chat!vars PROVE ChatInv'
<1>1. ChatTyped /\ ChatWorld /\ Held(sChat, sPage, sSaid)
  BY ChatInvSays
<1>2. (ChatInv <=> ChatTyped /\ ChatWorld /\ Held(sChat, sPage, sSaid))'
  BY DEF ChatInv, Chat!TypeOK, Chat!LockHasTimer, Chat!VoiceHasItsInput, Held, ChatTyped, ChatWorld,
     ChatForm, PageForm, GuardForm
<1>3. CASE Chat!Next
  <2>1. CASE Chat!User
    BY <1>1, <1>2, <2>1, ChatOfUser, ChatOfPage DEF Chat!User
  <2>2. CASE Chat!Agent \/ Chat!Helper
    BY <1>1, <1>2, <2>2, ChatOfOthers
  <2>3. CASE Chat!Timers
    BY <1>1, <1>2, <2>3, ChatOfPage, ChatOfOthers DEF Chat!Timers
  <2> QED
    BY <1>3, <2>1, <2>2, <2>3 DEF Chat!Next
<1>4. CASE UNCHANGED Chat!vars
  BY <1>1, <1>2, <1>4, HeldSame DEF Chat!vars, Chat!tabs, Chat!world, ChatTyped, ChatWorld
<1> QED
  BY <1>3, <1>4

\* A locked chat waits for a message of its own with that message's timer, and an open
\* microphone has the input it was opened for, whatever the page, the agent and the timers
\* do in between (live-browser.js 1246, 11180).
THEOREM ChatLocksAreOwned ==
  ASSUME Chat!Assumption
  PROVE  Chat!Spec => [](Chat!TypeOK /\ Chat!LockHasTimer /\ Chat!VoiceHasItsInput)
<1>1. Chat!Init => ChatInv
  BY ChatInit
<1>2. ChatInv /\ [Chat!Next]_Chat!vars => ChatInv'
  BY ChatNext
<1> QED
  BY <1>1, <1>2, PTL DEF Chat!Spec, ChatInv

-----------------------------------------------------------------------------
(* Staged edits: what the functions of the tab do.                         *)

Edits == INSTANCE ManualEdits WITH
  Els <- Pieces, MaxPresses <- Presses, MaxGos <- Gos, MaxDrops <- EditDrops, MaxLoads <- EditLoads,
  Mishaps <- EditMishaps,
  tab <- mTab, staged <- mStaged, phase <- mPhase, batch <- mBatch, wire <- mWire, open <- mOpen, spent <- mSpent

LEMMA EditsFinite == \A S : Edits!IsFiniteSet(S) <=> IsFiniteSet(S)
  BY DEF Edits!IsFiniteSet, IsFiniteSet

LEMMA EditsCardinality == \A S : Edits!Cardinality(S) = Cardinality(S)
  BY DEF Edits!Cardinality, Cardinality

EditForm == [el : Pieces, op : {"text", "remove"}]

TabForm ==
  [mode : {"PICKING", "CONFIGURING", "EDITING", "GENERATING"}, sel : Pieces \cup {None}, draft : BOOLEAN,
   base : {"old", "new"}, badge : {"hidden", "idle", "idle-disabled", "editing"},
   count : 0..Cardinality(Pieces), applying : BOOLEAN, stored : BOOLEAN,
   shown : SUBSET {"apply", "discard", "keep", "rollback"}, off : SUBSET {"apply", "discard"},
   text : [Pieces -> {"old", "new"}], removed : SUBSET Pieces, undo : Pieces \cup {None}, session : BOOLEAN]

\* The dock's functions leave the page alone: its mode, its picked and hidden elements.
SamePage(t, u) ==
  /\ u.mode = t.mode /\ u.sel = t.sel /\ u.draft = t.draft /\ u.removed = t.removed

\* The page's functions leave the dock alone.
SameDock(t, u) ==
  /\ u.applying = t.applying /\ u.stored = t.stored /\ u.shown = t.shown /\ u.count = t.count

\* No draft outside of editing, no editing of nothing, no hidden element picked.
PageSound(t) ==
  (t.draft => t.mode = "EDITING") /\ (t.mode = "EDITING" => t.sel # None) /\ t.sel \notin t.removed

LEMMA SamePageSound == ASSUME NEW t, NEW u, SamePage(t, u), PageSound(t) PROVE PageSound(u)
BY DEF SamePage, PageSound

LEMMA SamePageChains ==
  ASSUME NEW t, NEW u, NEW v, SamePage(t, u), SamePage(u, v) PROVE SamePage(t, v)
BY DEF SamePage

LEMMA BadgeKeeps ==
  ASSUME NEW t \in TabForm, NEW b \in {"hidden", "idle", "idle-disabled", "editing"}
  PROVE  /\ [t EXCEPT !.badge = b] \in TabForm
         /\ SamePage(t, [t EXCEPT !.badge = b]) /\ SameDock(t, [t EXCEPT !.badge = b])
BY DEF TabForm, SamePage, SameDock

LEMMA RefreshKeeps ==
  ASSUME NEW t \in TabForm
  PROVE  Edits!Refresh(t) \in TabForm /\ SamePage(t, Edits!Refresh(t)) /\ SameDock(t, Edits!Refresh(t))
<1>1. t.badge \in {"hidden", "idle", "idle-disabled", "editing"}
  BY DEF TabForm
<1>2. PICK b \in {"hidden", "idle", "idle-disabled", "editing"} : Edits!Refresh(t) = [t EXCEPT !.badge = b]
  BY <1>1 DEF Edits!Refresh
<1> QED
  BY <1>2, BadgeKeeps

\* Every record is the one with its own fields.
LEMMA DockIs ==
  ASSUME NEW t \in TabForm
  PROVE  /\ t.applying \in BOOLEAN /\ t.stored \in BOOLEAN /\ t.count \in 0..Cardinality(Pieces)
         /\ t.shown \in SUBSET {"apply", "discard", "keep", "rollback"} /\ t.off \in SUBSET {"apply", "discard"}
BY DEF TabForm

Refreshed(t, u, a, s, n, w) ==
  u \in TabForm /\ SamePage(t, u) /\ u.applying = a /\ u.stored = s /\ u.count = n /\ u.shown = w

LEMMA RefreshedDock ==
  ASSUME NEW t \in TabForm, NEW a \in BOOLEAN, NEW s \in BOOLEAN, NEW n \in 0..Cardinality(Pieces),
         NEW w \in SUBSET {"apply", "discard", "keep", "rollback"}, NEW f \in SUBSET {"apply", "discard"},
         NEW u, u = [t EXCEPT !.applying = a, !.stored = s, !.count = n, !.shown = w, !.off = f]
  PROVE  Refreshed(t, Edits!Refresh(u), a, s, n, w)
<1>1. u \in TabForm /\ SamePage(t, u) /\ u.applying = a /\ u.stored = s /\ u.count = n /\ u.shown = w
  <2>1. u \in TabForm
    BY DEF TabForm
  <2> QED
    BY <2>1 DEF TabForm, SamePage
<1>2. Edits!Refresh(u) \in TabForm /\ SamePage(u, Edits!Refresh(u)) /\ SameDock(u, Edits!Refresh(u))
  BY <1>1, RefreshKeeps
<1> QED
  BY <1>1, <1>2, SamePageChains DEF SameDock, Refreshed

LEMMA HideDockKeeps ==
  ASSUME Cardinality(Pieces) \in Nat, NEW t \in TabForm
  PROVE  Refreshed(t, Edits!HideDock(t), FALSE, FALSE, 0, {})
<1> DEFINE w == {}
           u == [t EXCEPT !.applying = FALSE, !.stored = FALSE, !.count = 0, !.shown = w, !.off = w]
<1>1. w \in SUBSET {"apply", "discard", "keep", "rollback"} /\ w \in SUBSET {"apply", "discard"}
      /\ 0 \in 0..Cardinality(Pieces)
  OBVIOUS
<1>2. Edits!HideDock(t) = Edits!Refresh(u)
  BY DEF Edits!HideDock
<1> HIDE DEF w
<1>3. Refreshed(t, Edits!Refresh(u), FALSE, FALSE, 0, w)
  BY <1>1, RefreshedDock
<1> QED
  BY <1>2, <1>3 DEF w

LEMMA SetLoadingKeeps ==
  ASSUME NEW t \in TabForm
  PROVE  Refreshed(t, Edits!SetLoading(t), TRUE, t.stored \/ t.count > 0, t.count,
                   (t.shown \ {"keep", "rollback"}) \cup {"discard"})
<1> DEFINE w == (t.shown \ {"keep", "rollback"}) \cup {"discard"}
           s == t.stored \/ t.count > 0
           u == [t EXCEPT !.applying = TRUE, !.stored = s, !.count = t.count, !.shown = w, !.off = {"apply", "discard"}]
<1>1. w \in SUBSET {"apply", "discard", "keep", "rollback"} /\ s \in BOOLEAN
  BY DockIs
<1>2. Edits!SetLoading(t) = Edits!Refresh(u)
  BY DEF Edits!SetLoading, TabForm
<1> HIDE DEF w, s
<1>3. Refreshed(t, Edits!Refresh(u), TRUE, s, t.count, w)
  BY <1>1, DockIs, RefreshedDock
<1> QED
  BY <1>2, <1>3 DEF w, s

LEMMA EndLoadingKeeps ==
  ASSUME NEW t \in TabForm
  PROVE  Refreshed(t, Edits!EndLoading(t), FALSE, FALSE, t.count, t.shown)
<1> DEFINE f == {}
           u == [t EXCEPT !.applying = FALSE, !.stored = FALSE, !.count = t.count, !.shown = t.shown, !.off = f]
<1>1. f \in SUBSET {"apply", "discard"}
  OBVIOUS
<1>2. Edits!EndLoading(t) = Edits!Refresh(u)
  BY DEF Edits!EndLoading, TabForm
<1> HIDE DEF f
<1>3. Refreshed(t, Edits!Refresh(u), FALSE, FALSE, t.count, t.shown)
  BY <1>1, DockIs, RefreshedDock
<1> QED
  BY <1>2, <1>3

LEMMA DecisionKeeps ==
  ASSUME NEW t \in TabForm
  PROVE  Refreshed(t, Edits!Decision(t), FALSE, t.stored \/ t.count > 0, t.count, {"apply", "keep", "rollback"})
<1> DEFINE s == t.stored \/ t.count > 0
           u == [t EXCEPT !.applying = FALSE, !.stored = s, !.count = t.count,
                          !.shown = {"apply", "keep", "rollback"}, !.off = t.off \cup {"apply"}]
<1>1. s \in BOOLEAN /\ t.off \cup {"apply"} \in SUBSET {"apply", "discard"}
  BY DockIs
<1>2. Edits!Decision(t) = Edits!Refresh(u)
  BY DEF Edits!Decision, TabForm
<1> HIDE DEF s
<1>3. Refreshed(t, Edits!Refresh(u), FALSE, s, t.count, {"apply", "keep", "rollback"})
  BY <1>1, DockIs, RefreshedDock
<1> QED
  BY <1>2, <1>3 DEF s

\* A new count takes a stored apply up again, and takes no lock of its own.
LEMMA CountedKeeps ==
  ASSUME Cardinality(Pieces) \in Nat, NEW t \in TabForm, NEW n \in 0..Cardinality(Pieces)
  PROVE  /\ Edits!Counted(t, n) \in TabForm /\ SamePage(t, Edits!Counted(t, n))
         /\ Edits!Counted(t, n).applying \/ Edits!Counted(t, n).stored => t.applying \/ t.stored
         /\ Edits!Counted(t, n).shown \subseteq t.shown \cup {"apply", "discard"}
<1> DEFINE u == [t EXCEPT !.count = n, !.shown = @ \cup {"apply", "discard"}]
<1>1. u \in TabForm /\ SamePage(t, u) /\ u.applying = t.applying /\ u.stored = t.stored
      /\ u.shown = t.shown \cup {"apply", "discard"}
  <2>1. t.shown \cup {"apply", "discard"} \in SUBSET {"apply", "discard", "keep", "rollback"}
    BY DockIs
  <2>2. u \in TabForm
    BY <2>1 DEF TabForm
  <2> QED
    BY <2>2 DEF TabForm, SamePage
<1>2. CASE n = 0
  BY <1>2, HideDockKeeps DEF Edits!Counted, Refreshed
<1>3. CASE n # 0 /\ (t.applying \/ t.stored)
  <2>1. Edits!Counted(t, n) = Edits!SetLoading(u)
    BY <1>3 DEF Edits!Counted
  <2> HIDE DEF u
  <2>2. Refreshed(u, Edits!SetLoading(u), TRUE, u.stored \/ u.count > 0, u.count,
                  (u.shown \ {"keep", "rollback"}) \cup {"discard"})
    BY <1>1, SetLoadingKeeps
  <2> QED
    BY <1>1, <1>3, <2>1, <2>2, SamePageChains DEF Refreshed
<1>4. CASE n # 0 /\ ~(t.applying \/ t.stored)
  BY <1>1, <1>4 DEF Edits!Counted
<1> QED
  BY <1>2, <1>3, <1>4

LEMMA StoredKeeps ==
  ASSUME NEW t \in TabForm, NEW s \in BOOLEAN
  PROVE  /\ [t EXCEPT !.stored = s] \in TabForm /\ SamePage(t, [t EXCEPT !.stored = s])
         /\ [t EXCEPT !.stored = s].applying = t.applying /\ [t EXCEPT !.stored = s].shown = t.shown
         /\ [t EXCEPT !.stored = s].stored = s /\ [t EXCEPT !.stored = s].count = t.count
BY DEF TabForm, SamePage

\* An apply begins, is repaired, or ends.
LEMMA RepairingKeeps ==
  ASSUME NEW t \in TabForm
  PROVE  Edits!Repairing(t) \in TabForm /\ SamePage(t, Edits!Repairing(t))
<1> DEFINE u == [t EXCEPT !.stored = TRUE]
<1>1. u \in TabForm /\ SamePage(t, u)
  BY StoredKeeps
<1>2. Edits!Repairing(t) \in {t, Edits!SetLoading(u)}
  BY DEF Edits!Repairing
<1>3. SamePage(t, t)
  BY DEF SamePage
<1> HIDE DEF u
<1>4. Edits!SetLoading(u) \in TabForm /\ SamePage(u, Edits!SetLoading(u))
  BY <1>1, SetLoadingKeeps DEF Refreshed
<1> QED
  BY <1>1, <1>2, <1>3, <1>4, SamePageChains

LEMMA StartedKeeps ==
  ASSUME Cardinality(Pieces) \in Nat, NEW t \in TabForm, NEW n \in 0..Cardinality(Pieces)
  PROVE  /\ Edits!Started(t, n) \in TabForm /\ SamePage(t, Edits!Started(t, n))
         /\ Edits!Started(t, n).shown \subseteq t.shown \cup {"apply", "discard"}
<1> DEFINE c == Edits!Counted(t, n)
           u == [c EXCEPT !.stored = TRUE]
<1>1. c \in TabForm /\ SamePage(t, c) /\ c.shown \subseteq t.shown \cup {"apply", "discard"}
  BY CountedKeeps
<1>2. Edits!Started(t, n) = Edits!SetLoading(u)
  BY DEF Edits!Started
<1> HIDE DEF c
<1>3. u \in TabForm /\ SamePage(c, u) /\ u.shown = c.shown
  BY <1>1, StoredKeeps
<1> HIDE DEF u
<1>4. Refreshed(u, Edits!SetLoading(u), TRUE, u.stored \/ u.count > 0, u.count,
                (u.shown \ {"keep", "rollback"}) \cup {"discard"})
  BY <1>3, SetLoadingKeeps
<1> QED
  BY <1>1, <1>2, <1>3, <1>4, SamePageChains DEF Refreshed

LEMMA RepairedKeeps ==
  ASSUME Cardinality(Pieces) \in Nat, NEW t \in TabForm, NEW n \in 0..Cardinality(Pieces)
  PROVE  Edits!Repaired(t, n) \in TabForm /\ SamePage(t, Edits!Repaired(t, n))
<1> DEFINE c == Edits!Counted(t, n)
           u == Edits!Repairing(c)
<1>1. c \in TabForm /\ SamePage(t, c)
  BY CountedKeeps
<1>2. Edits!Repaired(t, n) = Edits!SetLoading(u)
  BY DEF Edits!Repaired
<1> HIDE DEF c
<1>3. u \in TabForm /\ SamePage(c, u)
  BY <1>1, RepairingKeeps
<1> HIDE DEF u
<1>4. Edits!SetLoading(u) \in TabForm /\ SamePage(u, Edits!SetLoading(u))
  BY <1>3, SetLoadingKeeps DEF Refreshed
<1> QED
  BY <1>1, <1>2, <1>3, <1>4, SamePageChains

\* The lock is gone before the count is told, and so it stays.
LEMMA DoneKeeps ==
  ASSUME Cardinality(Pieces) \in Nat, NEW t \in TabForm, NEW n \in 0..Cardinality(Pieces)
  PROVE  /\ Edits!Done(t, n) \in TabForm /\ SamePage(t, Edits!Done(t, n))
         /\ ~Edits!Done(t, n).applying /\ ~Edits!Done(t, n).stored
         /\ Edits!Done(t, n).shown \subseteq t.shown \cup {"apply", "discard"}
<1> DEFINE u == Edits!EndLoading(t)
<1>1. Refreshed(t, u, FALSE, FALSE, t.count, t.shown)
  BY EndLoadingKeeps
<1>2. Edits!Done(t, n) = Edits!Counted(u, n)
  BY DEF Edits!Done
<1> HIDE DEF u
<1>3. /\ Edits!Counted(u, n) \in TabForm /\ SamePage(u, Edits!Counted(u, n))
      /\ Edits!Counted(u, n).applying \/ Edits!Counted(u, n).stored => u.applying \/ u.stored
      /\ Edits!Counted(u, n).shown \subseteq u.shown \cup {"apply", "discard"}
  BY <1>1, CountedKeeps DEF Refreshed
<1>4. SamePage(t, Edits!Counted(u, n)) /\ ~u.applying /\ ~u.stored /\ u.shown = t.shown
  BY <1>1, <1>3, SamePageChains DEF Refreshed
<1> QED
  BY <1>2, <1>3, <1>4

\* What a function of the page does to the tab, the dock left alone.
PageTo(t, u, m, s, d, R) ==
  u \in TabForm /\ SameDock(t, u) /\ u.mode = m /\ u.sel = s /\ u.draft = d /\ u.removed = R

LEMMA PageIs ==
  ASSUME NEW t \in TabForm
  PROVE  /\ t.mode \in {"PICKING", "CONFIGURING", "EDITING", "GENERATING"} /\ t.sel \in Pieces \cup {None}
         /\ t.draft \in BOOLEAN /\ t.base \in {"old", "new"} /\ t.text \in [Pieces -> {"old", "new"}]
         /\ t.badge \in {"hidden", "idle", "idle-disabled", "editing"} /\ t.removed \in SUBSET Pieces
         /\ t.undo \in Pieces \cup {None} /\ t.session \in BOOLEAN
BY DEF TabForm

LEMMA DraftTab ==
  ASSUME NEW t \in TabForm, NEW b \in {"old", "new"}, NEW d \in BOOLEAN, NEW u, u = [t EXCEPT !.draft = d, !.base = b]
  PROVE  PageTo(t, u, t.mode, t.sel, d, t.removed)
<1>1. u \in TabForm
  BY DEF TabForm
<1> QED
  BY <1>1 DEF TabForm, SameDock, PageTo

LEMMA ModeTab ==
  ASSUME NEW t \in TabForm, NEW m \in {"PICKING", "CONFIGURING", "EDITING", "GENERATING"},
         NEW g \in {"hidden", "idle", "idle-disabled", "editing"}, NEW u, u = [t EXCEPT !.badge = g, !.mode = m]
  PROVE  PageTo(t, u, m, t.sel, t.draft, t.removed)
<1>1. u \in TabForm
  BY DEF TabForm
<1> QED
  BY <1>1 DEF TabForm, SameDock, PageTo

\* The drafts are put back, or taken as they are.
LEMMA RestoredTab ==
  ASSUME NEW t \in TabForm, PageSound(t)
  PROVE  PageTo(t, Edits!Restored(t), t.mode, t.sel, t.draft, t.removed)
<1>1. CASE t.draft
  <2>1. t.sel \in Pieces
    BY <1>1, PageIs DEF PageSound
  <2> DEFINE x == [t.text EXCEPT ![t.sel] = t.base]
  <2>2. x \in [Pieces -> {"old", "new"}]
    BY <2>1, PageIs
  <2>3. Edits!Restored(t) = [t EXCEPT !.text = x]
    BY <1>1 DEF Edits!Restored
  <2> HIDE DEF x
  <2>4. Edits!Restored(t) \in TabForm
    BY <2>2, <2>3 DEF TabForm
  <2> QED
    BY <2>3, <2>4 DEF TabForm, PageTo, SameDock
<1>2. CASE ~t.draft
  BY <1>2 DEF Edits!Restored, PageTo, SameDock
<1> QED
  BY <1>1, <1>2

LEMMA DisabledTab ==
  ASSUME NEW t \in TabForm
  PROVE  PageTo(t, Edits!Disabled(t), t.mode, t.sel, FALSE, t.removed)
<1>1. Edits!Disabled(t) \in TabForm
  BY DEF TabForm, Edits!Disabled
<1> QED
  BY <1>1 DEF TabForm, Edits!Disabled, SameDock, PageTo

\* The bar is hidden, or shown again for the element.
LEMMA UnconfiguredTab ==
  ASSUME NEW t \in TabForm, PageSound(t)
  PROVE  PageTo(t, Edits!Unconfigured(t), "PICKING", t.sel, FALSE, t.removed)
<1> DEFINE r == IF t.mode = "EDITING" THEN Edits!Restored(t) ELSE t
           d == Edits!Disabled(r)
<1>1. PageTo(t, r, t.mode, t.sel, t.draft, t.removed)
  BY RestoredTab DEF PageTo, SameDock
<1>2. Edits!Unconfigured(t) = [d EXCEPT !.badge = "hidden", !.mode = "PICKING"]
  BY DEF Edits!Unconfigured
<1> HIDE DEF r
<1>3. PageTo(r, d, r.mode, r.sel, FALSE, r.removed)
  BY <1>1, DisabledTab DEF PageTo
<1> HIDE DEF d
<1>4. PageTo(d, Edits!Unconfigured(t), "PICKING", d.sel, d.draft, d.removed)
  <2>1. Edits!Unconfigured(t) \in TabForm
    BY <1>2, <1>3 DEF TabForm, PageTo
  <2> QED
    BY <1>2, <1>3, <2>1 DEF TabForm, PageTo, SameDock
<1> QED
  BY <1>1, <1>3, <1>4 DEF PageTo, SameDock

LEMMA ConfiguredTab ==
  ASSUME NEW t \in TabForm
  PROVE  PageTo(t, Edits!Configured(t), "CONFIGURING", t.sel, FALSE, t.removed)
<1> DEFINE d == Edits!Disabled(t)
<1>1. PageTo(t, d, t.mode, t.sel, FALSE, t.removed)
  BY DisabledTab
<1>2. Edits!Configured(t) = [d EXCEPT !.badge = "idle", !.mode = "CONFIGURING"]
  BY <1>1 DEF Edits!Configured, PageTo, TabForm
<1> HIDE DEF d
<1>3. PageTo(d, Edits!Configured(t), "CONFIGURING", d.sel, d.draft, d.removed)
  <2>1. Edits!Configured(t) \in TabForm
    BY <1>1, <1>2 DEF TabForm, PageTo
  <2> QED
    BY <1>1, <1>2, <2>1 DEF TabForm, PageTo, SameDock
<1> QED
  BY <1>1, <1>3 DEF PageTo, SameDock

LEMMA EnabledTab ==
  ASSUME NEW t \in TabForm, t.sel \in Pieces
  PROVE  PageTo(t, Edits!Enabled([t EXCEPT !.mode = "EDITING", !.badge = "editing"]), "EDITING", t.sel, FALSE,
                t.removed)
<1> DEFINE u == [t EXCEPT !.badge = "editing", !.mode = "EDITING"]
           b == t.text[t.sel]
<1>1. b \in {"old", "new"}
  BY PageIs
<1>2. PageTo(t, u, "EDITING", t.sel, t.draft, t.removed)
  BY ModeTab
<1>3. Edits!Enabled([t EXCEPT !.mode = "EDITING", !.badge = "editing"]) = [u EXCEPT !.draft = FALSE, !.base = b]
  BY DEF TabForm, Edits!Enabled
<1> HIDE DEF u, b
<1>4. PageTo(u, [u EXCEPT !.draft = FALSE, !.base = b], u.mode, u.sel, FALSE, u.removed)
  <2>1. u \in TabForm
    BY <1>2 DEF PageTo
  <2>2. PageTo(u, [u EXCEPT !.draft = FALSE, !.base = b], u.mode, u.sel, FALSE, u.removed)
    BY <1>1, <2>1, DraftTab
  <2> QED
    BY <2>2
<1> QED
  BY <1>2, <1>3, <1>4 DEF PageTo, SameDock

LEMMA GivenUpTab ==
  ASSUME NEW t \in TabForm, NEW edits
  PROVE  /\ Edits!GivenUp(t, edits).removed \subseteq t.removed
         /\ PageTo(t, Edits!GivenUp(t, edits), t.mode, t.sel, t.draft, Edits!GivenUp(t, edits).removed)
<1> DEFINE x == [e \in Pieces |-> IF [el |-> e, op |-> "text"] \in edits /\ ~(t.draft /\ t.sel = e)
                                  THEN "old" ELSE t.text[e]]
           R == t.removed \ {z.el : z \in {y \in edits : y.op = "remove"}}
<1>1. x \in [Pieces -> {"old", "new"}] /\ R \in SUBSET Pieces /\ R \subseteq t.removed
  BY PageIs
<1>2. Edits!GivenUp(t, edits) = [t EXCEPT !.text = x, !.removed = R]
  BY DEF Edits!GivenUp
<1> HIDE DEF x, R
<1>3. Edits!GivenUp(t, edits) \in TabForm
  <2>1. t \in TabForm /\ x \in [Pieces -> {"old", "new"}] /\ R \in SUBSET Pieces
    BY <1>1
  <2>2. [t EXCEPT !.text = x, !.removed = R] \in TabForm
    BY <2>1 DEF TabForm
  <2> QED
    BY <1>2, <2>2
<1>4. PageTo(t, Edits!GivenUp(t, edits), t.mode, t.sel, t.draft, R)
  BY <1>2, <1>3 DEF TabForm, PageTo, SameDock
<1> QED
  BY <1>1, <1>4 DEF PageTo

-----------------------------------------------------------------------------
(* Staged edits: the invariant.                                            *)

\* One edit is staged of each element.
Stages == {S \in SUBSET EditForm : \A x, y \in S : x.el = y.el => x = y}

AskSound(r) == (r.k = "stash" => r.el \in Pieces /\ r.op \in {"text", "remove"}) /\ (r.k = "undo" => r.el \in Pieces)

Asks == {"count", "stash", "undo", "discard", "commit", "repair", "rollback"}

AskRecord ==
  [k : Asks, el : Pieces \cup {None}, op : {"none", "text", "remove", "sync"}, at : {"sent", "answered"},
   ok : BOOLEAN, n : 0..Cardinality(Pieces), gone : SUBSET EditForm, orphan : BOOLEAN]

AskForm == {r \in AskRecord : AskSound(r)}

SpentForm == [presses : Nat, gos : Nat, drops : Nat, loads : Nat]

EditsWorld ==
  /\ mStaged \in Stages /\ mBatch \in SUBSET EditForm /\ mPhase \in {"idle", "applying", "decision"}
  /\ mWire \in SUBSET AskForm /\ mOpen \in BOOLEAN /\ mSpent \in SpentForm

EditsInv == mTab \in TabForm /\ PageSound(mTab) /\ EditsWorld

\* A commit whose answer will take the lock back, or that the helper still has to take.
Owes(r) == r.k = "commit" /\ (r.at = "sent" \/ ~r.ok \/ r.op = "sync")

Owed(w) == \E r \in w : Owes(r)

\* No event is lost and no apply asks the user: the runs' part "applying".
Calm == "decision" \notin EditMishaps /\ EditDrops = 0 /\ EditLoads = 0

CalmAsk(r) == ~r.orphan /\ r.k \notin {"repair", "rollback"}

\* What locks the tab, or will when the count is next told, is an apply of the helper's
\* or a commit that ends the lock.
Owned ==
  /\ mOpen = TRUE /\ mPhase # "decision" /\ mTab.shown \subseteq {"apply", "discard"}
  /\ \A r \in mWire : CalmAsk(r)
  /\ mTab.applying \/ mTab.stored => mPhase = "applying" \/ Owed(mWire)

EditsKept == EditsInv' /\ (Calm /\ Owned => Owned')

LEMMA StagedCount ==
  ASSUME IsFiniteSet(Pieces), NEW S \in Stages
  PROVE  Cardinality(S) \in 0..Cardinality(Pieces)
<1> DEFINE f == [x \in S |-> x.el]
<1>1. f \in Injection(S, Pieces)
  <2>1. \A x \in S : x.el \in Pieces
    BY DEF Stages, EditForm
  <2>2. f \in [S -> Pieces]
    BY <2>1
  <2>3. \A x, y \in S : f[x] = f[y] => x = y
    BY DEF Stages
  <2> QED
    BY <2>2, <2>3 DEF Injection, IsInjective
<1> HIDE DEF f
<1>2. IsFiniteSet(S) /\ Cardinality(S) <= Cardinality(Pieces)
  BY <1>1, FS_Injection
<1>3. Cardinality(S) \in Nat /\ Cardinality(Pieces) \in Nat
  BY <1>2, FS_CardinalityType
<1> QED
  BY <1>2, <1>3

LEMMA FewerStaged ==
  ASSUME NEW S \in Stages, NEW T, T \subseteq S PROVE T \in Stages
BY DEF Stages

LEMMA MoreStaged ==
  ASSUME NEW S \in Stages, NEW e \in Pieces, NEW o \in {"text", "remove"}
  PROVE  {x \in S : x.el # e} \cup {Edits!Edit(e, o)} \in Stages
<1>1. Edits!Edit(e, o) \in EditForm /\ Edits!Edit(e, o).el = e
  BY DEF EditForm, Edits!Edit
<1> QED
  BY <1>1 DEF Stages

LEMMA RequestForm ==
  ASSUME Cardinality(Pieces) \in Nat, NEW k \in Asks, NEW e \in Pieces \cup {None}, NEW o \in {"none", "text", "remove"},
         k = "stash" => e \in Pieces /\ o \in {"text", "remove"}, k = "undo" => e \in Pieces
  PROVE  /\ Edits!Request(k, e, o) \in AskForm /\ Edits!Request(k, e, o).k = k
         /\ ~Edits!Request(k, e, o).orphan /\ Edits!Request(k, e, o).at = "sent"
<1>1. Edits!Request(k, e, o) \in AskRecord
  BY DEF Edits!Request, AskRecord
<1>2. AskSound(Edits!Request(k, e, o))
  BY DEF Edits!Request, AskSound
<1> QED
  BY <1>1, <1>2 DEF AskForm, Edits!Request

LEMMA AskIsForm ==
  ASSUME Cardinality(Pieces) \in Nat, NEW k \in Asks \ {"stash", "undo"}
  PROVE  Edits!Ask(k) \in AskForm /\ Edits!Ask(k).k = k /\ ~Edits!Ask(k).orphan /\ Edits!Ask(k).at = "sent"
<1>1. Edits!Ask(k) = Edits!Request(k, None, "none")
  BY DEF Edits!Ask
<1> QED
  BY <1>1, RequestForm

\* The answer to a request keeps what was asked.
Answered(r, n, g) == [r EXCEPT !.at = "answered", !.n = n, !.gone = g]

LEMMA AnswerForm ==
  ASSUME NEW r \in AskForm, NEW n \in 0..Cardinality(Pieces), NEW g \in SUBSET EditForm
  PROVE  Answered(r, n, g) \in AskForm /\ Answered(r, n, g).k = r.k /\ Answered(r, n, g).orphan = r.orphan
<1> DEFINE a == Answered(r, n, g)
<1>1. r \in AskRecord /\ AskSound(r)
  BY DEF AskForm
<1>2. a \in AskRecord
  BY <1>1 DEF AskRecord, Answered
<1>3. a.k = r.k /\ a.orphan = r.orphan /\ a.el = r.el /\ a.op = r.op
  BY <1>1 DEF AskRecord, Answered
<1> QED
  BY <1>1, <1>2, <1>3 DEF AskForm, AskSound

LEMMA RefusedForm ==
  ASSUME NEW r \in AskForm, NEW a, a = [r EXCEPT !.at = "answered", !.ok = FALSE]
  PROVE  a \in AskForm /\ a.k = r.k /\ a.orphan = r.orphan /\ ~a.ok
<1>1. r \in AskRecord /\ AskSound(r)
  BY DEF AskForm
<1>2. a \in AskRecord
  BY <1>1 DEF AskRecord
<1>3. a.k = r.k /\ a.orphan = r.orphan /\ a.el = r.el /\ a.op = r.op /\ ~a.ok
  BY <1>1 DEF AskRecord
<1> QED
  BY <1>1, <1>2, <1>3 DEF AskForm, AskSound

LEMMA SyncForm ==
  ASSUME NEW r \in AskForm, r.k = "commit", NEW n \in 0..Cardinality(Pieces),
         NEW a, a = [r EXCEPT !.at = "answered", !.op = "sync", !.n = n]
  PROVE  a \in AskForm /\ a.k = r.k /\ a.orphan = r.orphan /\ a.op = "sync"
<1>1. r \in AskRecord
  BY DEF AskForm
<1>2. a \in AskRecord
  BY <1>1 DEF AskRecord
<1>3. a.k = r.k /\ a.orphan = r.orphan /\ a.op = "sync"
  BY <1>1 DEF AskRecord
<1> QED
  BY <1>1, <1>2, <1>3 DEF AskForm, AskSound

LEMMA OrphanForm ==
  ASSUME NEW r \in AskForm, NEW a, a = [r EXCEPT !.orphan = TRUE]
  PROVE  a \in AskForm
<1>1. r \in AskRecord /\ AskSound(r)
  BY DEF AskForm
<1>2. a \in AskRecord /\ a.k = r.k /\ a.el = r.el /\ a.op = r.op
  BY <1>1 DEF AskRecord
<1> QED
  BY <1>1, <1>2 DEF AskForm, AskSound

-----------------------------------------------------------------------------
(* Staged edits: the steps.                                                *)

\* A step of the page, that may send a request: the dock and the helper stay.
LEMMA PageStep ==
  ASSUME EditsInv, mTab' \in TabForm, PageSound(mTab'), SameDock(mTab, mTab'),
         UNCHANGED <<mStaged, mPhase, mBatch, mOpen>>, mSpent' \in SpentForm,
         mWire \subseteq mWire', mWire' \in SUBSET AskForm, \A r \in mWire' \ mWire : CalmAsk(r)
  PROVE  EditsKept
<1>1. EditsInv'
  BY DEF EditsInv, EditsWorld
<1>2. ASSUME Owned PROVE Owned'
  <2>1. mTab'.shown = mTab.shown /\ mTab'.applying = mTab.applying /\ mTab'.stored = mTab.stored
    BY DEF SameDock
  <2>2. Owed(mWire) => Owed(mWire')
    BY DEF Owed
  <2> QED
    BY <1>2, <2>1, <2>2 DEF Owned
<1> QED
  BY <1>1, <1>2 DEF EditsKept

LEMMA PressedKeeps == ASSUME EditsInv, Edits!Pressed PROVE mSpent' \in SpentForm
BY DEF EditsInv, EditsWorld, SpentForm, Edits!Pressed

LEMMA SelIs ==
  ASSUME EditsInv PROVE mTab \in TabForm /\ PageSound(mTab) /\ (mTab.sel # None => mTab.sel \in Pieces)
BY PageIs DEF EditsInv

LEMMA PageSteps ==
  ASSUME Edits!Assumption, EditsInv,
         \/ \E el \in Pieces : Edits!Pick(el)
         \/ Edits!Unpick \/ Edits!EnterEditing \/ Edits!Type \/ Edits!Cancel \/ Edits!Leave
         \/ Edits!Go \/ Edits!Finish
  PROVE  EditsKept
<1> USE DEF Edits!Assumption
<1>0. mWire \in SUBSET AskForm /\ mSpent \in SpentForm /\ mTab \in TabForm /\ PageSound(mTab)
  BY DEF EditsInv, EditsWorld
<1>1. ASSUME NEW el \in Pieces, Edits!Pick(el) PROVE EditsKept
  <2>1. /\ mTab' = [mTab EXCEPT !.mode = "CONFIGURING", !.sel = el, !.badge = "idle"]
        /\ el \notin mTab.removed /\ mTab.mode = "PICKING"
        /\ UNCHANGED <<mStaged, mPhase, mBatch, mWire, mOpen, mSpent>>
    BY <1>1 DEF Edits!Pick
  <2>2. mTab' \in TabForm
    BY <1>0, <2>1 DEF TabForm
  <2>3. SameDock(mTab, mTab') /\ PageSound(mTab')
    BY <1>0, <2>1 DEF TabForm, SameDock, PageSound
  <2> QED
    BY <1>0, <2>1, <2>2, <2>3, PageStep
<1>2. CASE Edits!Unpick \/ Edits!Leave
  <2>1. mTab' = Edits!Unconfigured(mTab) /\ UNCHANGED <<mStaged, mPhase, mBatch, mWire, mOpen, mSpent>>
    BY <1>2 DEF Edits!Unpick, Edits!Leave
  <2>2. PageTo(mTab, mTab', "PICKING", mTab.sel, FALSE, mTab.removed)
    BY <1>0, <2>1, UnconfiguredTab
  <2> QED
    BY <1>0, <2>1, <2>2, PageStep DEF PageTo, PageSound
<1>3. CASE Edits!EnterEditing
  <2>1. /\ mTab' = Edits!Enabled([mTab EXCEPT !.mode = "EDITING", !.badge = "editing"]) /\ mTab.sel # None
        /\ Edits!Pressed /\ UNCHANGED <<mStaged, mPhase, mBatch, mWire, mOpen>>
    BY <1>3 DEF Edits!EnterEditing
  <2>2. PageTo(mTab, mTab', "EDITING", mTab.sel, FALSE, mTab.removed)
    BY <2>1, SelIs, EnabledTab
  <2>3. mSpent' \in SpentForm
    BY <2>1, PressedKeeps
  <2> QED
    BY <1>0, <2>1, <2>2, <2>3, PageStep DEF PageTo, PageSound
<1>4. CASE Edits!Type
  <2> DEFINE x == [mTab.text EXCEPT ![mTab.sel] = "new"]
  <2>1. /\ mTab' = [mTab EXCEPT !.draft = TRUE, !.text = x] /\ mTab.mode = "EDITING"
        /\ UNCHANGED <<mStaged, mPhase, mBatch, mWire, mOpen, mSpent>>
    BY <1>0, <1>4 DEF Edits!Type, TabForm
  <2>2. x \in [Pieces -> {"old", "new"}]
    BY <1>0, PageIs
  <2> HIDE DEF x
  <2>3. mTab' \in TabForm
    BY <1>0, <2>1, <2>2 DEF TabForm
  <2>4. SameDock(mTab, mTab') /\ PageSound(mTab')
    BY <1>0, <2>1 DEF TabForm, SameDock, PageSound
  <2> QED
    BY <1>0, <2>1, <2>3, <2>4, PageStep
<1>5. CASE Edits!Cancel
  <2> DEFINE t == Edits!Restored(mTab)
  <2>1. mTab' = Edits!Configured(t) /\ UNCHANGED <<mStaged, mPhase, mBatch, mWire, mOpen, mSpent>>
    BY <1>5 DEF Edits!Cancel
  <2>2. PageTo(mTab, t, mTab.mode, mTab.sel, mTab.draft, mTab.removed)
    BY <1>0, RestoredTab
  <2> HIDE DEF t
  <2>3. PageTo(t, mTab', "CONFIGURING", t.sel, FALSE, t.removed)
    BY <2>1, <2>2, ConfiguredTab DEF PageTo
  <2>4. mTab' \in TabForm /\ SameDock(mTab, mTab') /\ PageSound(mTab')
    BY <1>0, <2>2, <2>3 DEF PageTo, PageSound, SameDock
  <2> QED
    BY <1>0, <2>1, <2>4, PageStep
<1>6. CASE Edits!Go
  <2> DEFINE t == Edits!Disabled(mTab)
             b == IF t.badge = "hidden" THEN t.badge ELSE "idle-disabled"
  <2>1. /\ mTab' = [t EXCEPT !.mode = "GENERATING", !.session = TRUE, !.badge = b] /\ mTab.sel # None
        /\ mSpent' = [mSpent EXCEPT !.gos = @ + 1] /\ UNCHANGED <<mStaged, mPhase, mBatch, mWire, mOpen>>
    BY <1>6 DEF Edits!Go
  <2>2. PageTo(mTab, t, mTab.mode, mTab.sel, FALSE, mTab.removed)
    BY <1>0, DisabledTab
  <2> HIDE DEF t
  <2>3. b \in {"hidden", "idle", "idle-disabled", "editing"}
    BY <2>2, PageIs DEF PageTo
  <2> HIDE DEF b
  <2>4. mTab' \in TabForm
    BY <2>1, <2>2, <2>3 DEF PageTo, TabForm
  <2>5. SameDock(t, mTab') /\ mTab'.mode = "GENERATING" /\ mTab'.sel = t.sel /\ mTab'.draft = t.draft
        /\ mTab'.removed = t.removed
    BY <2>1, <2>2 DEF PageTo, TabForm, SameDock
  <2>6. mSpent' \in SpentForm
    BY <1>0, <2>1 DEF SpentForm
  <2>7. SameDock(mTab, mTab') /\ PageSound(mTab')
    BY <1>0, <2>2, <2>5 DEF PageTo, PageSound, SameDock
  <2> QED
    BY <1>0, <2>1, <2>4, <2>6, <2>7, PageStep
<1>7. CASE Edits!Finish
  <2> DEFINE t == Edits!Unconfigured(mTab)
  <2>1. mTab' = [t EXCEPT !.session = FALSE, !.sel = None]
        /\ UNCHANGED <<mStaged, mPhase, mBatch, mWire, mOpen, mSpent>>
    BY <1>7 DEF Edits!Finish
  <2>2. PageTo(mTab, t, "PICKING", mTab.sel, FALSE, mTab.removed)
    BY <1>0, UnconfiguredTab
  <2> HIDE DEF t
  <2>3. mTab' \in TabForm
    BY <2>1, <2>2 DEF PageTo, TabForm
  <2>4. SameDock(t, mTab') /\ mTab'.mode = t.mode /\ mTab'.sel = None /\ mTab'.draft = t.draft
        /\ mTab'.removed = t.removed
    BY <2>1, <2>2 DEF PageTo, TabForm, SameDock
  <2>5. None \notin mTab.removed
    BY <1>0, PageIs
  <2>6. SameDock(mTab, mTab') /\ PageSound(mTab')
    BY <1>0, <2>2, <2>4, <2>5 DEF PageTo, PageSound, SameDock
  <2> QED
    BY <1>0, <2>1, <2>3, <2>6, PageStep
<1> QED
  BY <1>1, <1>2, <1>3, <1>4, <1>5, <1>6, <1>7

LEMMA PiecesCount == ASSUME Edits!Assumption PROVE IsFiniteSet(Pieces) /\ Cardinality(Pieces) \in Nat
<1>1. IsFiniteSet(Pieces)
  BY EditsFinite DEF Edits!Assumption
<1> QED
  BY <1>1, FS_CardinalityType

\* A request is sent, the dock stays.
LEMMA RequestStep ==
  ASSUME EditsInv, mTab' \in TabForm, PageSound(mTab'), SameDock(mTab, mTab'),
         UNCHANGED <<mStaged, mPhase, mBatch, mOpen>>, mSpent' \in SpentForm,
         NEW r \in AskForm, CalmAsk(r), mWire' = mWire \cup {r}
  PROVE  EditsKept
<1>1. mWire \in SUBSET AskForm
  BY DEF EditsInv, EditsWorld
<1> QED
  BY <1>1, PageStep

\* What is in the dock of a tab that is locked, or not, as the helper has it.
LEMMA DockStep ==
  ASSUME EditsInv, mTab' \in TabForm, SamePage(mTab, mTab'), EditsWorld',
         Calm /\ Owned => Owned'
  PROVE  EditsKept
<1>1. PageSound(mTab')
  BY SamePageSound DEF EditsInv
<1> QED
  BY <1>1 DEF EditsInv, EditsKept

LEMMA SendingSteps ==
  ASSUME Edits!Assumption, EditsInv, Edits!Save \/ Edits!Remove \/ Edits!Undo \/ Edits!Discard
  PROVE  EditsKept
<1>0. /\ mTab \in TabForm /\ PageSound(mTab) /\ SameDock(mTab, mTab) /\ mSpent \in SpentForm
      /\ mTab.undo \in Pieces \cup {None} /\ Cardinality(Pieces) \in Nat
      /\ (mTab.sel # None => mTab.sel \in Pieces)
  BY PageIs, PiecesCount, SelIs DEF EditsInv, EditsWorld, SameDock
<1>1. CASE Edits!Save
  <2>1. /\ mWire' = mWire \cup {Edits!Request("stash", mTab.sel, "text")} /\ mTab.mode = "EDITING"
        /\ Edits!Pressed /\ UNCHANGED <<mTab, mStaged, mPhase, mBatch, mOpen>>
    BY <1>1 DEF Edits!Save
  <2>2. mTab.sel \in Pieces
    BY <1>0, <2>1 DEF PageSound
  <2>3. Edits!Request("stash", mTab.sel, "text") \in AskForm /\ CalmAsk(Edits!Request("stash", mTab.sel, "text"))
    BY <1>0, <2>2, RequestForm DEF CalmAsk, Asks
  <2> QED
    BY <1>0, <2>1, <2>3, PressedKeeps, RequestStep
<1>2. CASE Edits!Remove
  <2>1. /\ mWire' = mWire \cup {Edits!Request("stash", mTab.sel, "remove")} /\ mTab.sel # None
        /\ Edits!Pressed /\ UNCHANGED <<mTab, mStaged, mPhase, mBatch, mOpen>>
    BY <1>2 DEF Edits!Remove, Edits!Removable
  <2>2. mTab.sel \in Pieces
    BY <1>0, <2>1
  <2>3. Edits!Request("stash", mTab.sel, "remove") \in AskForm /\ CalmAsk(Edits!Request("stash", mTab.sel, "remove"))
    BY <1>0, <2>2, RequestForm DEF CalmAsk, Asks
  <2> QED
    BY <1>0, <2>1, <2>3, PressedKeeps, RequestStep
<1>3. CASE Edits!Undo
  <2>1. /\ mWire' = mWire \cup {Edits!Request("undo", mTab.undo, "remove")} /\ mTab.undo # None
        /\ mTab' = [mTab EXCEPT !.undo = None] /\ UNCHANGED <<mStaged, mPhase, mBatch, mOpen, mSpent>>
    BY <1>3 DEF Edits!Undo
  <2>2. mTab.undo \in Pieces
    BY <1>0, <2>1
  <2>3. Edits!Request("undo", mTab.undo, "remove") \in AskForm /\ CalmAsk(Edits!Request("undo", mTab.undo, "remove"))
    BY <1>0, <2>2, RequestForm DEF CalmAsk, Asks
  <2>4. mTab' \in TabForm
    BY <1>0, <2>1 DEF TabForm
  <2>5. SameDock(mTab, mTab') /\ PageSound(mTab')
    BY <1>0, <2>1 DEF TabForm, SameDock, PageSound
  <2> QED
    BY <1>0, <2>1, <2>3, <2>4, <2>5, RequestStep
<1>4. CASE Edits!Discard
  <2>1. /\ mWire' = mWire \cup {Edits!Ask("discard")}
        /\ Edits!Pressed /\ UNCHANGED <<mTab, mStaged, mPhase, mBatch, mOpen>>
    BY <1>4 DEF Edits!Discard
  <2>2. Edits!Ask("discard") \in AskForm /\ CalmAsk(Edits!Ask("discard"))
    BY <1>0, AskIsForm DEF CalmAsk, Asks
  <2> QED
    BY <1>0, <2>1, <2>2, PressedKeeps, RequestStep
<1> QED
  BY <1>1, <1>2, <1>3, <1>4

\* The clicks on the dock: an apply begins with a commit on its way.
LEMMA DockSteps ==
  ASSUME Edits!Assumption, EditsInv, Edits!Apply \/ Edits!KeepFixing \/ Edits!Rollback
  PROVE  EditsKept
<1>0. /\ mTab \in TabForm /\ mWire \in SUBSET AskForm /\ Cardinality(Pieces) \in Nat
      /\ mStaged \in Stages /\ mBatch \in SUBSET EditForm /\ mPhase \in {"idle", "applying", "decision"}
      /\ mOpen \in BOOLEAN
  BY PiecesCount DEF EditsInv, EditsWorld
<1>1. CASE Edits!Apply
  <2> DEFINE t == [mTab EXCEPT !.stored = TRUE]
  <2>1. /\ mTab' = Edits!SetLoading(t) /\ mWire' = mWire \cup {Edits!Ask("commit")}
        /\ Edits!Pressed /\ UNCHANGED <<mStaged, mPhase, mBatch, mOpen>>
    BY <1>1 DEF Edits!Apply
  <2>2. t \in TabForm /\ SamePage(mTab, t) /\ t.shown = mTab.shown
    BY <1>0, StoredKeeps
  <2> HIDE DEF t
  <2>3. Refreshed(t, mTab', TRUE, t.stored \/ t.count > 0, t.count, (t.shown \ {"keep", "rollback"}) \cup {"discard"})
    BY <2>1, <2>2, SetLoadingKeeps
  <2>4. mTab' \in TabForm /\ SamePage(mTab, mTab')
        /\ mTab'.shown = (mTab.shown \ {"keep", "rollback"}) \cup {"discard"}
    BY <2>2, <2>3, SamePageChains DEF Refreshed
  <2>5. Edits!Ask("commit") \in AskForm /\ CalmAsk(Edits!Ask("commit")) /\ Owes(Edits!Ask("commit"))
    BY <1>0, AskIsForm DEF CalmAsk, Owes, Asks
  <2>6. EditsWorld'
    BY <1>0, <2>1, <2>5, PressedKeeps DEF EditsWorld
  <2>7. ASSUME Owned PROVE Owned'
    <3>1. Owed(mWire')
      BY <2>1, <2>5 DEF Owed
    <3>2. mTab'.shown \subseteq {"apply", "discard"}
      BY <2>4, <2>7 DEF Owned
    <3> QED
      BY <2>1, <2>5, <2>7, <3>1, <3>2 DEF Owned
  <2> QED
    BY <2>4, <2>6, <2>7, DockStep
<1>2. CASE Edits!KeepFixing
  <2>1. /\ mTab' = Edits!Repairing(mTab) /\ mWire' = mWire \cup {Edits!Ask("repair")} /\ "keep" \in mTab.shown
        /\ Edits!Pressed /\ UNCHANGED <<mStaged, mPhase, mBatch, mOpen>>
    BY <1>2 DEF Edits!KeepFixing, Edits!Usable
  <2>2. mTab' \in TabForm /\ SamePage(mTab, mTab')
    BY <1>0, <2>1, RepairingKeeps
  <2>3. Edits!Ask("repair") \in AskForm
    BY <1>0, AskIsForm DEF Asks
  <2>4. EditsWorld'
    BY <1>0, <2>1, <2>3, PressedKeeps DEF EditsWorld
  <2>5. ~Owned
    BY <2>1 DEF Owned
  <2> QED
    BY <2>2, <2>4, <2>5, DockStep
<1>3. CASE Edits!Rollback
  <2>1. /\ mWire' = mWire \cup {Edits!Ask("rollback")} /\ "rollback" \in mTab.shown
        /\ Edits!Pressed /\ UNCHANGED <<mTab, mStaged, mPhase, mBatch, mOpen>>
    BY <1>3 DEF Edits!Rollback, Edits!Usable
  <2>2. mTab' \in TabForm /\ SamePage(mTab, mTab')
    BY <1>0, <2>1 DEF SamePage
  <2>3. Edits!Ask("rollback") \in AskForm
    BY <1>0, AskIsForm DEF Asks
  <2>4. EditsWorld'
    BY <1>0, <2>1, <2>3, PressedKeeps DEF EditsWorld
  <2>5. ~Owned
    BY <2>1 DEF Owned
  <2> QED
    BY <2>2, <2>4, <2>5, DockStep
<1> QED
  BY <1>1, <1>2, <1>3

\* The helper answers, or an event is told: what is asked meanwhile is a count.
LEMMA CountingForm ==
  ASSUME Edits!Assumption, NEW b \in BOOLEAN
  PROVE  Edits!Counting(b) \in SUBSET AskForm /\ \A r \in Edits!Counting(b) : CalmAsk(r)
<1>1. Edits!Ask("count") \in AskForm /\ CalmAsk(Edits!Ask("count"))
  BY PiecesCount, AskIsForm DEF CalmAsk, Asks
<1>2. Edits!Counting(b) \subseteq {Edits!Ask("count")}
  BY DEF Edits!Counting
<1> QED
  BY <1>1, <1>2

\* A request is replaced: the dock takes no lock, and the commits that are owed stay owed.
LEMMA ReplaceStep ==
  ASSUME EditsInv, mTab' \in TabForm, PageSound(mTab'),
         mStaged' \in Stages, UNCHANGED <<mPhase, mBatch, mOpen, mSpent>>,
         NEW r \in mWire, NEW W \in SUBSET AskForm, mWire' = (mWire \ {r}) \cup W,
         \A a \in W : Owned => CalmAsk(a),
         Owned => mTab'.shown \subseteq {"apply", "discard"},
         mTab'.applying \/ mTab'.stored => (mTab.applying \/ mTab.stored) /\ (Owes(r) => Owed(W))
  PROVE  EditsKept
<1>1. EditsInv'
  BY DEF EditsInv, EditsWorld
<1>2. ASSUME Owned PROVE Owned'
  <2>1. Owed(mWire) /\ (Owes(r) => Owed(W)) => Owed(mWire')
    BY DEF Owed
  <2>2. \A a \in mWire' : CalmAsk(a)
    BY <1>2 DEF Owned
  <2> QED
    BY <1>2, <2>1, <2>2 DEF Owned
<1> QED
  BY <1>1, <1>2 DEF EditsKept

\* An apply begins or ends at the helper.
LEMMA PhaseStep ==
  ASSUME EditsInv, mTab' \in TabForm, SamePage(mTab, mTab'), EditsWorld',
         Calm /\ Owned =>
           /\ mOpen' = TRUE /\ mPhase' # "decision" /\ mTab'.shown \subseteq {"apply", "discard"}
           /\ \A a \in mWire' : CalmAsk(a)
           /\ mPhase' = "applying" \/ ~(mTab'.applying \/ mTab'.stored)
  PROVE  EditsKept
<1>1. Calm /\ Owned => Owned'
  BY DEF Owned
<1> QED
  BY <1>1, DockStep

LEMMA RefuseSteps ==
  ASSUME EditsInv, NEW r \in mWire, Edits!Refuse(r) PROVE EditsKept
<1> DEFINE a == [r EXCEPT !.at = "answered", !.ok = FALSE]
<1>1. r \in AskForm /\ mTab \in TabForm /\ PageSound(mTab) /\ mStaged \in Stages
  BY DEF EditsInv, EditsWorld
<1>2. mWire' = (mWire \ {r}) \cup {a} /\ UNCHANGED <<mTab, mStaged, mPhase, mBatch, mOpen, mSpent>>
  BY DEF Edits!Refuse, Edits!Refused
<1>3. a \in AskForm /\ a.k = r.k /\ a.orphan = r.orphan /\ ~a.ok
  BY <1>1, RefusedForm
<1> HIDE DEF a
<1>4. Owes(r) => Owed({a})
  BY <1>3 DEF Owes, Owed
<1>5. Owned => CalmAsk(a)
  BY <1>3 DEF Owned, CalmAsk
<1>6. Owned => mTab.shown \subseteq {"apply", "discard"}
  BY DEF Owned
<1> DEFINE W == {a}
<1>7. W \in SUBSET AskForm /\ Owed(W) = Owed({a}) /\ \A c \in W : Owned => CalmAsk(c)
  BY <1>3, <1>5
<1> HIDE DEF W
<1>8. mWire' = (mWire \ {r}) \cup W
  BY <1>2 DEF W
<1> QED
  BY <1>1, <1>2, <1>4, <1>6, <1>7, <1>8, ReplaceStep

LEMMA SyncSteps ==
  ASSUME Edits!Assumption, EditsInv, NEW r \in mWire, NEW done \in SUBSET mStaged, Edits!ServeSync(r, done)
  PROVE  EditsKept
<1> DEFINE n == Cardinality(mStaged')
           a == [r EXCEPT !.at = "answered", !.op = "sync", !.n = n]
<1>1. r \in AskForm /\ mTab \in TabForm /\ PageSound(mTab) /\ mStaged \in Stages
  BY DEF EditsInv, EditsWorld
<1>2. mWire' = (mWire \ {r}) \cup {a} /\ UNCHANGED <<mTab, mPhase, mBatch, mOpen, mSpent>>
      /\ mStaged' = mStaged \ done /\ r.k = "commit"
  BY EditsCardinality DEF Edits!ServeSync
<1>3. mStaged' \in Stages
  BY <1>1, <1>2, FewerStaged
<1>4. n \in 0..Cardinality(Pieces)
  BY <1>3, StagedCount, PiecesCount
<1> HIDE DEF n
<1>5. a \in AskForm /\ a.k = r.k /\ a.orphan = r.orphan /\ a.op = "sync"
  BY <1>1, <1>2, <1>4, SyncForm
<1> HIDE DEF a
<1> DEFINE W == {a}
<1>6. Owed(W) /\ W \in SUBSET AskForm /\ \A c \in W : Owned => CalmAsk(c)
  BY <1>2, <1>5 DEF Owes, Owed, Owned, CalmAsk
<1>7. mWire' = (mWire \ {r}) \cup W
  BY <1>2
<1> HIDE DEF W
<1>8. Owned => mTab.shown \subseteq {"apply", "discard"}
  BY DEF Owned
<1> QED
  BY <1>1, <1>2, <1>3, <1>6, <1>7, <1>8, ReplaceStep

\* Which requests change the staged edits, and how.
Restaged(r, S) ==
  \/ r.k = "count" /\ S = mStaged
  \/ r.k = "stash" /\ S = {x \in mStaged : x.el # r.el} \cup {Edits!Edit(r.el, r.op)}
  \/ r.k = "discard" /\ S = {}
  \/ r.k = "undo" /\ S = {x \in mStaged : x.el # r.el}

LEMMA RestagedForm ==
  ASSUME EditsInv, NEW r \in mWire, NEW S, Restaged(r, S) PROVE S \in Stages
<1>1. mStaged \in Stages /\ r \in AskForm
  BY DEF EditsInv, EditsWorld
<1>2. CASE r.k = "stash" /\ S = {x \in mStaged : x.el # r.el} \cup {Edits!Edit(r.el, r.op)}
  <2>1. r.el \in Pieces /\ r.op \in {"text", "remove"}
    BY <1>1, <1>2 DEF AskForm, AskSound
  <2> QED
    BY <1>1, <1>2, <2>1, MoreStaged
<1>3. CASE S \subseteq mStaged
  BY <1>1, <1>3, FewerStaged
<1> QED
  BY <1>2, <1>3 DEF Restaged

LEMMA ServePlain ==
  ASSUME Edits!Assumption, EditsInv, NEW r \in mWire, Edits!Serve(r),
         r.k \in {"count", "stash", "discard", "undo"}
  PROVE  EditsKept
<1> DEFINE m == Cardinality(mStaged')
<1>1. /\ r \in AskForm /\ mTab \in TabForm /\ PageSound(mTab) /\ mStaged \in Stages /\ mStaged \subseteq EditForm
      /\ mOpen \in BOOLEAN /\ Cardinality(Pieces) \in Nat
  BY PiecesCount DEF EditsInv, EditsWorld, Stages
<1>2. UNCHANGED <<mPhase, mBatch, mOpen, mSpent>>
  BY DEF Edits!Serve
<1>3. Restaged(r, mStaged')
  BY DEF Edits!Serve, Restaged
<1>4. mStaged' \in Stages /\ m \in 0..Cardinality(Pieces)
  BY <1>3, RestagedForm, StagedCount, PiecesCount
<1>5. PICK g \in SUBSET EditForm, b \in BOOLEAN :
         mWire' = (mWire \ {r}) \cup ({Answered(r, m, g)} \cup Edits!Counting(b))
  <2>1. CASE r.k = "count"
    <3>1. mWire' = (mWire \ {r}) \cup {Answered(r, m, {})}
      BY <2>1, EditsCardinality DEF Edits!Serve, Edits!Answer, Answered
    <3>2. Edits!Counting(FALSE) = {} /\ {} \in SUBSET EditForm
      BY DEF Edits!Counting
    <3> QED
      BY <3>1, <3>2
  <2>2. CASE r.k = "stash"
    <3>1. mWire' = (mWire \ {r}) \cup {Answered(r, m, {})} \cup Edits!Counting(mOpen /\ FALSE)
      BY <2>2, EditsCardinality DEF Edits!Serve, Edits!Grant, Edits!Answer, Answered
    <3>2. (mOpen /\ FALSE) \in BOOLEAN /\ {} \in SUBSET EditForm
      BY <1>1
    <3> QED
      BY <3>1, <3>2
  <2>3. CASE r.k \in {"discard", "undo"}
    <3>1. mWire' = (mWire \ {r}) \cup {Answered(r, m, mStaged \ mStaged')}
                   \cup Edits!Counting(mOpen /\ TRUE)
      BY <2>3, EditsCardinality DEF Edits!Serve, Edits!Grant, Edits!Answer, Answered
    <3>2. (mOpen /\ TRUE) \in BOOLEAN /\ mStaged \ mStaged' \in SUBSET EditForm
      BY <1>1
    <3> QED
      BY <3>1, <3>2
  <2> QED
    BY <2>1, <2>2, <2>3
<1>6. mTab' \in {mTab, Edits!Counted(mTab, m)}
  BY EditsCardinality DEF Edits!Serve, Edits!Grant
<1> HIDE DEF m
<1> DEFINE a == Answered(r, m, g)
           W == {a} \cup Edits!Counting(b)
<1>7. W \in SUBSET AskForm /\ (CalmAsk(r) => \A c \in W : CalmAsk(c))
  <2>1. a \in AskForm /\ a.k = r.k /\ a.orphan = r.orphan
    BY <1>1, <1>4, AnswerForm
  <2> QED
    BY <2>1, CountingForm DEF CalmAsk
<1>8. mWire' = (mWire \ {r}) \cup W
  BY <1>5
<1> HIDE DEF W
<1>9. /\ mTab' \in TabForm /\ SamePage(mTab, mTab') /\ mTab'.shown \subseteq mTab.shown \cup {"apply", "discard"}
      /\ mTab'.applying \/ mTab'.stored => mTab.applying \/ mTab.stored
  <2>1. SamePage(mTab, mTab)
    BY DEF SamePage
  <2> QED
    BY <1>1, <1>4, <1>6, <2>1, CountedKeeps
<1>10. PageSound(mTab')
  BY <1>1, <1>9, SamePageSound
<1>11. Owned => CalmAsk(r) /\ mTab'.shown \subseteq {"apply", "discard"}
  BY <1>9 DEF Owned
<1>12. ~Owes(r)
  BY DEF Owes
<1> QED
  BY <1>2, <1>4, <1>7, <1>8, <1>9, <1>10, <1>11, <1>12, ReplaceStep

\* A commit is taken, by an event that tells the tab; a repair and a rollback only follow
\* a decision.
LEMMA ServeCommit ==
  ASSUME Edits!Assumption, EditsInv, NEW r \in mWire, Edits!Serve(r), r.k \in {"commit", "repair", "rollback"}
  PROVE  EditsKept
<1> DEFINE m == Cardinality(mStaged)
<1>1. /\ r \in AskForm /\ mTab \in TabForm /\ mStaged \in Stages /\ mBatch \in SUBSET EditForm
      /\ mStaged \in SUBSET EditForm /\ mOpen \in BOOLEAN /\ Cardinality(Pieces) \in Nat
      /\ mWire \in SUBSET AskForm /\ mSpent \in SpentForm
  BY PiecesCount DEF EditsInv, EditsWorld, Stages
<1>2. m \in 0..Cardinality(Pieces) /\ 0 \in 0..Cardinality(Pieces)
  BY <1>1, StagedCount, PiecesCount
<1>3. SamePage(mTab, mTab)
  BY DEF SamePage
<1>4. CASE r.k = "commit"
  <2> DEFINE a == Answered(r, 0, {})
  <2>1. /\ mWire' = (mWire \ {r}) \cup {a} \cup Edits!Counting(mOpen /\ FALSE)
        /\ mTab' = IF mOpen THEN Edits!Started(mTab, m) ELSE mTab
        /\ mPhase' = "applying" /\ mBatch' = mStaged /\ UNCHANGED <<mStaged, mOpen, mSpent>>
    BY <1>4, EditsCardinality DEF Edits!Serve, Edits!Grant, Edits!Answer, Answered
  <2>2. a \in AskForm /\ a.k = r.k /\ a.orphan = r.orphan
    <3>1. {} \in SUBSET EditForm
      OBVIOUS
    <3> QED
      BY <1>1, <1>2, <3>1, AnswerForm
  <2>3. Edits!Counting(mOpen /\ FALSE) = {}
    BY DEF Edits!Counting
  <2> HIDE DEF a, m
  <2>4. EditsWorld'
    BY <1>1, <2>1, <2>2, <2>3 DEF EditsWorld
  <2>5. mTab' \in TabForm /\ SamePage(mTab, mTab') /\ mTab'.shown \subseteq mTab.shown \cup {"apply", "discard"}
    BY <1>1, <1>2, <1>3, <2>1, StartedKeeps
  <2>6. Owned => \A c \in mWire' : CalmAsk(c)
    BY <2>1, <2>2, <2>3 DEF Owned, CalmAsk
  <2>7. Owned => mOpen' = TRUE /\ mPhase' # "decision" /\ mTab'.shown \subseteq {"apply", "discard"}
    BY <2>1, <2>5 DEF Owned
  <2> QED
    BY <2>1, <2>4, <2>5, <2>6, <2>7, PhaseStep
<1>5. CASE r.k \in {"repair", "rollback"}
  <2>1. ~Owned
    BY <1>5 DEF Owned, CalmAsk
  <2>2. PICK n \in 0..Cardinality(Pieces), b \in BOOLEAN :
          mWire' = (mWire \ {r}) \cup {Answered(r, n, {})} \cup Edits!Counting(b)
    <3>1. CASE r.k = "repair"
      <4>1. (mOpen /\ FALSE) \in BOOLEAN
        BY <1>1
      <4>2. mWire' = (mWire \ {r}) \cup {Answered(r, 0, {})} \cup Edits!Counting(mOpen /\ FALSE)
        BY <3>1 DEF Edits!Serve, Edits!Grant, Edits!Answer, Answered
      <4> QED
        BY <1>2, <4>1, <4>2
    <3>2. CASE r.k = "rollback"
      <4>1. (mOpen /\ TRUE) \in BOOLEAN
        BY <1>1
      <4>2. mWire' = (mWire \ {r}) \cup {Answered(r, m, {})} \cup Edits!Counting(mOpen /\ TRUE)
        BY <3>2, EditsCardinality DEF Edits!Serve, Edits!Grant, Edits!Answer, Answered
      <4> QED
        BY <1>2, <4>1, <4>2
    <3> QED
      BY <1>5, <3>1, <3>2
  <2> DEFINE a == Answered(r, n, {})
  <2>3. a \in AskForm
    <3>1. {} \in SUBSET EditForm
      OBVIOUS
    <3> QED
      BY <1>1, <3>1, AnswerForm
  <2>4. mWire' = (mWire \ {r}) \cup {a} \cup Edits!Counting(b)
    BY <2>2
  <2> HIDE DEF a, m
  <2>5. mWire' \in SUBSET AskForm
    BY <1>1, <2>3, <2>4, CountingForm
  <2>6. /\ mPhase' \in {"idle", "applying"} /\ mBatch' \in {{}, mBatch} /\ UNCHANGED <<mStaged, mOpen, mSpent>>
        /\ mTab' \in {mTab, Edits!Repaired(mTab, m), [mTab EXCEPT !.stored = FALSE]}
    BY <1>5, EditsCardinality DEF Edits!Serve, Edits!Grant, m
  <2>7. EditsWorld'
    BY <1>1, <2>5, <2>6 DEF EditsWorld
  <2>8. mTab' \in TabForm /\ SamePage(mTab, mTab')
    BY <1>1, <1>2, <1>3, <2>6, RepairedKeeps, StoredKeeps
  <2> QED
    BY <2>1, <2>7, <2>8, DockStep
<1> QED
  BY <1>4, <1>5

LEMMA HelperSteps ==
  ASSUME Edits!Assumption, EditsInv, Edits!Helper PROVE EditsKept
<1>1. ASSUME NEW r \in mWire, Edits!Serve(r) PROVE EditsKept
  <2>1. r.k \in Asks
    BY DEF EditsInv, EditsWorld, AskForm, AskRecord
  <2> QED
    BY <1>1, <2>1, ServePlain, ServeCommit DEF Asks
<1> QED
  BY <1>1, RefuseSteps, SyncSteps DEF Edits!Helper

\* The agent ends an apply: the lock goes with it.
LEMMA AgentSteps ==
  ASSUME Edits!Assumption, EditsInv, Edits!Agent \/ Edits!ApplyRepairs PROVE EditsKept
<1>1. /\ mTab \in TabForm /\ mStaged \in Stages /\ mBatch \in SUBSET EditForm /\ mOpen \in BOOLEAN
      /\ Cardinality(Pieces) \in Nat /\ mWire \in SUBSET AskForm /\ mSpent \in SpentForm
      /\ SamePage(mTab, mTab)
  BY PiecesCount DEF EditsInv, EditsWorld, SamePage
<1>2. ASSUME NEW done \in SUBSET mBatch, Edits!ApplyDone(done) PROVE EditsKept
  <2> DEFINE m == Cardinality(mStaged')
  <2>1. /\ mPhase' = "idle" /\ mBatch' = {} /\ mStaged' = mStaged \ done /\ UNCHANGED <<mOpen, mSpent>>
        /\ mTab' = IF mOpen THEN Edits!Done(mTab, m) ELSE mTab
        /\ mWire' = mWire \cup Edits!Counting(mOpen /\ FALSE)
    BY <1>2, EditsCardinality DEF Edits!ApplyDone, Edits!Tell
  <2>2. mStaged' \in Stages
    BY <1>1, <2>1, FewerStaged
  <2>3. m \in 0..Cardinality(Pieces)
    BY <2>2, StagedCount, PiecesCount
  <2>4. Edits!Counting(mOpen /\ FALSE) = {}
    BY DEF Edits!Counting
  <2> HIDE DEF m
  <2>5. EditsWorld'
    BY <1>1, <2>1, <2>2, <2>4 DEF EditsWorld
  <2>6. CASE mOpen
    <3>1. /\ mTab' \in TabForm /\ SamePage(mTab, mTab') /\ ~mTab'.applying /\ ~mTab'.stored
          /\ mTab'.shown \subseteq mTab.shown \cup {"apply", "discard"}
      BY <1>1, <2>1, <2>3, <2>6, DoneKeeps
    <3> QED
      BY <2>1, <2>4, <2>5, <3>1, PhaseStep DEF Owned
  <2>7. CASE ~mOpen
    BY <1>1, <2>1, <2>5, <2>7, DockStep DEF Owned
  <2> QED
    BY <2>6, <2>7
<1>3. CASE Edits!ApplyFails
  <2>1. /\ mPhase' = "idle" /\ mBatch' = {} /\ UNCHANGED <<mStaged, mOpen, mSpent>>
        /\ mTab' = IF mOpen THEN Edits!EndLoading(mTab) ELSE mTab
        /\ mWire' = mWire \cup Edits!Counting(mOpen /\ TRUE)
    BY <1>3 DEF Edits!ApplyFails, Edits!Tell
  <2>2. Edits!Counting(mOpen /\ TRUE) \in SUBSET AskForm /\ \A c \in Edits!Counting(mOpen /\ TRUE) : CalmAsk(c)
    <3>1. (mOpen /\ TRUE) \in BOOLEAN
      BY <1>1
    <3> QED
      BY <3>1, CountingForm
  <2>3. EditsWorld'
    BY <1>1, <2>1, <2>2 DEF EditsWorld
  <2>4. CASE mOpen
    <3>1. Refreshed(mTab, mTab', FALSE, FALSE, mTab.count, mTab.shown)
      BY <1>1, <2>1, <2>4, EndLoadingKeeps
    <3> QED
      BY <2>1, <2>2, <2>3, <3>1, PhaseStep DEF Owned, Refreshed
  <2>5. CASE ~mOpen
    BY <1>1, <2>1, <2>3, <2>5, DockStep DEF Owned
  <2> QED
    BY <2>4, <2>5
<1>4. CASE Edits!ApplyRepairs \/ Edits!ApplyStuck
  <2>1. /\ mPhase' \in {mPhase, "decision"} /\ UNCHANGED <<mStaged, mBatch, mOpen, mSpent>> /\ ~Calm
        /\ mTab' \in {mTab, Edits!Repairing(mTab), Edits!Decision(mTab)}
        /\ mWire' = mWire \cup Edits!Counting(mOpen /\ FALSE)
    BY <1>4 DEF Edits!ApplyRepairs, Edits!ApplyStuck, Edits!Tell, Calm
  <2>2. Edits!Counting(mOpen /\ FALSE) = {}
    BY DEF Edits!Counting
  <2>3. EditsWorld'
    BY <1>1, <2>1, <2>2 DEF EditsWorld, EditsInv
  <2>4. mTab' \in TabForm /\ SamePage(mTab, mTab')
    BY <1>1, <2>1, RepairingKeeps, DecisionKeeps DEF Refreshed
  <2> QED
    BY <2>1, <2>3, <2>4, DockStep
<1> QED
  BY <1>2, <1>3, <1>4 DEF Edits!Agent

\* An answer is heard: a count, the end of an edit, a removal or what was given up.
LEMMA HeardPlain ==
  ASSUME Edits!Assumption, EditsInv, NEW r \in mWire, Edits!Heard(r),
         r.k \in {"count", "stash", "undo", "discard"}
  PROVE  EditsKept
<1>1. /\ r \in AskForm /\ r \in AskRecord /\ mTab \in TabForm /\ PageSound(mTab) /\ mStaged \in Stages
      /\ mOpen \in BOOLEAN /\ Cardinality(Pieces) \in Nat
  BY PiecesCount DEF EditsInv, EditsWorld, AskForm
<1>2. UNCHANGED <<mStaged, mPhase, mBatch, mOpen, mSpent>>
  BY DEF Edits!Heard, Edits!CountAnswered, Edits!SaveAnswered, Edits!RemoveAnswered, Edits!UndoAnswered,
         Edits!DiscardAnswered, Edits!CommitAnswered, Edits!RepairAnswered, Edits!RollbackAnswered, Edits!Arrive
<1>3. PICK b \in BOOLEAN : mWire' = (mWire \ {r}) \cup Edits!Counting(b)
  <2>1. CASE r.k = "undo"
    <3>1. mWire' = (mWire \ {r}) \cup Edits!Counting(~r.ok)
      BY <2>1 DEF Edits!Heard, Edits!CountAnswered, Edits!SaveAnswered, Edits!RemoveAnswered, Edits!UndoAnswered,
                  Edits!DiscardAnswered, Edits!CommitAnswered, Edits!RepairAnswered, Edits!RollbackAnswered
    <3>2. (~r.ok) \in BOOLEAN
      BY <1>1 DEF AskRecord
    <3> QED
      BY <3>1, <3>2
  <2>2. CASE r.k # "undo"
    <3>1. mWire' = mWire \ {r}
      BY <2>2 DEF Edits!Heard, Edits!CountAnswered, Edits!SaveAnswered, Edits!RemoveAnswered, Edits!UndoAnswered,
                  Edits!DiscardAnswered, Edits!CommitAnswered, Edits!RepairAnswered, Edits!RollbackAnswered
    <3>2. Edits!Counting(FALSE) = {} /\ FALSE \in BOOLEAN
      BY DEF Edits!Counting
    <3> QED
      BY <3>1, <3>2
  <2> QED
    BY <2>1, <2>2
<1>4. Edits!Counting(b) \in SUBSET AskForm /\ \A c \in Edits!Counting(b) : CalmAsk(c)
  BY CountingForm
<1>5. ~Owes(r) /\ r.n \in 0..Cardinality(Pieces) /\ 0 \in 0..Cardinality(Pieces) /\ r.el \in Pieces \cup {None}
  BY <1>1 DEF Owes, AskRecord
\* It is enough that the page stays sound and the dock takes no lock.
<1> DEFINE Fine(t) ==
  /\ t \in TabForm /\ PageSound(t) /\ t.shown \subseteq mTab.shown \cup {"apply", "discard"}
  /\ t.applying \/ t.stored => mTab.applying \/ mTab.stored
<1>6. Fine(mTab)
  BY <1>1
<1>7. ASSUME NEW t, t \in TabForm, PageSound(t), SameDock(mTab, t), NEW n \in 0..Cardinality(Pieces)
      PROVE  Fine(Edits!Counted(t, n))
  <2>1. /\ Edits!Counted(t, n) \in TabForm /\ SamePage(t, Edits!Counted(t, n))
        /\ Edits!Counted(t, n).applying \/ Edits!Counted(t, n).stored => t.applying \/ t.stored
        /\ Edits!Counted(t, n).shown \subseteq t.shown \cup {"apply", "discard"}
    BY <1>1, <1>7, CountedKeeps
  <2>2. PageSound(Edits!Counted(t, n))
    BY <1>7, <2>1, SamePageSound
  <2> QED
    BY <1>7, <2>1, <2>2 DEF SameDock
<1>8. SameDock(mTab, mTab)
  BY DEF SameDock
<1>9. CASE Edits!CountAnswered(r)
  <2>1. mTab' \in {mTab, Edits!Counted(mTab, r.n)}
    BY <1>9 DEF Edits!CountAnswered
  <2>2. Fine(mTab')
    BY <1>1, <1>5, <1>6, <1>7, <1>8, <2>1
  <2> QED
    BY <1>2, <1>3, <1>4, <1>5, <2>2, <1>1, ReplaceStep DEF Owned
<1>10. CASE Edits!SaveAnswered(r)
  <2> DEFINE u == Edits!Counted(mTab, r.n)
  <2>1. mTab' \in {mTab, Edits!Configured(u)}
    BY <1>10 DEF Edits!SaveAnswered
  <2>2. Fine(u)
    BY <1>1, <1>5, <1>7, <1>8
  <2> HIDE DEF u
  <2>3. PageTo(u, Edits!Configured(u), "CONFIGURING", u.sel, FALSE, u.removed)
    BY <2>2, ConfiguredTab
  <2>4. Fine(Edits!Configured(u))
    BY <2>2, <2>3 DEF PageTo, PageSound, SameDock
  <2>5. Fine(mTab')
    BY <1>6, <2>1, <2>4
  <2> QED
    BY <1>2, <1>3, <1>4, <1>5, <2>5, <1>1, ReplaceStep DEF Owned
<1>11. CASE Edits!RemoveAnswered(r)
  <2> DEFINE t == Edits!Unconfigured(mTab)
             R == t.removed \cup {r.el}
             u == [t EXCEPT !.removed = R, !.undo = r.el, !.sel = None]
  <2>1. mTab' \in {mTab, Edits!Counted(u, r.n)} /\ r.k = "stash"
    BY <1>11 DEF Edits!RemoveAnswered
  <2>2. PageTo(mTab, t, "PICKING", mTab.sel, FALSE, mTab.removed)
    BY <1>1, UnconfiguredTab
  <2>3. r.el \in Pieces
    BY <1>1, <2>1 DEF AskForm, AskSound
  <2> HIDE DEF t
  <2>4. R \in SUBSET Pieces
    BY <2>2, <2>3, PageIs DEF PageTo
  <2> HIDE DEF R
  <2>5. u \in TabForm
    BY <2>2, <2>3, <2>4 DEF PageTo, TabForm
  <2>6. SameDock(t, u) /\ u.mode = t.mode /\ u.sel = None /\ u.draft = t.draft /\ u.removed = R
    BY <2>2 DEF PageTo, TabForm, SameDock
  <2>7. None \notin Pieces
    BY DEF Edits!Assumption
  <2>8. SameDock(mTab, u) /\ PageSound(u)
    BY <2>2, <2>4, <2>6, <2>7 DEF PageTo, PageSound, SameDock
  <2> HIDE DEF u
  <2>9. Fine(mTab')
    BY <1>5, <1>6, <1>7, <2>1, <2>5, <2>8
  <2> QED
    BY <1>2, <1>3, <1>4, <1>5, <2>9, <1>1, ReplaceStep DEF Owned
<1>12. CASE Edits!UndoAnswered(r)
  <2> DEFINE R == mTab.removed \ {r.el}
             u == [mTab EXCEPT !.removed = R]
  <2>1. mTab' \in {mTab, Edits!Counted(u, r.n)}
    BY <1>12 DEF Edits!UndoAnswered
  <2>2. R \in SUBSET Pieces /\ R \subseteq mTab.removed
    BY <1>1, PageIs
  <2> HIDE DEF R
  <2>3. u \in TabForm
    BY <1>1, <2>2 DEF TabForm
  <2>4. SameDock(mTab, u) /\ u.mode = mTab.mode /\ u.sel = mTab.sel /\ u.draft = mTab.draft /\ u.removed = R
    BY <1>1 DEF TabForm, SameDock
  <2>5. PageSound(u)
    BY <1>1, <2>2, <2>4 DEF PageSound
  <2> HIDE DEF u
  <2>6. Fine(mTab')
    BY <1>5, <1>6, <1>7, <2>1, <2>3, <2>4, <2>5
  <2> QED
    BY <1>2, <1>3, <1>4, <1>5, <2>6, <1>1, ReplaceStep DEF Owned
<1>13. CASE Edits!DiscardAnswered(r)
  <2> DEFINE u == Edits!GivenUp(mTab, r.gone)
  <2>1. mTab' \in {mTab, Edits!Counted(u, 0)}
    BY <1>13 DEF Edits!DiscardAnswered
  <2>2. u.removed \subseteq mTab.removed /\ PageTo(mTab, u, mTab.mode, mTab.sel, mTab.draft, u.removed)
    BY <1>1, GivenUpTab
  <2> HIDE DEF u
  <2>3. u \in TabForm /\ SameDock(mTab, u) /\ PageSound(u)
    BY <1>1, <2>2 DEF PageTo, PageSound
  <2>4. Fine(mTab')
    BY <1>5, <1>6, <1>7, <2>1, <2>3
  <2> QED
    BY <1>2, <1>3, <1>4, <1>5, <2>4, <1>1, ReplaceStep DEF Owned
<1> QED
  BY <1>9, <1>10, <1>11, <1>12, <1>13 DEF Edits!Heard, Edits!CommitAnswered, Edits!RepairAnswered,
     Edits!RollbackAnswered

\* The answer to a commit: the lock stays for an apply that has started only.
LEMMA HeardCommit ==
  ASSUME Edits!Assumption, EditsInv, NEW r \in mWire, Edits!Heard(r), r.k \in {"commit", "repair", "rollback"}
  PROVE  EditsKept
<1>1. /\ r \in AskForm /\ r \in AskRecord /\ mTab \in TabForm /\ PageSound(mTab) /\ mStaged \in Stages
      /\ Cardinality(Pieces) \in Nat /\ mWire \in SUBSET AskForm
  BY PiecesCount DEF EditsInv, EditsWorld, AskForm
<1>2. mWire' = mWire \ {r} /\ r.at = "answered" /\ UNCHANGED <<mStaged, mPhase, mBatch, mOpen, mSpent>>
  BY DEF Edits!Heard, Edits!CountAnswered, Edits!SaveAnswered, Edits!RemoveAnswered, Edits!UndoAnswered,
         Edits!DiscardAnswered, Edits!CommitAnswered, Edits!RepairAnswered, Edits!RollbackAnswered, Edits!Arrive
<1>3. r.n \in 0..Cardinality(Pieces)
  BY <1>1 DEF AskRecord
<1>4. EditsWorld'
  BY <1>1, <1>2 DEF EditsInv, EditsWorld
<1> DEFINE W == {}
<1>5. W \in SUBSET AskForm /\ mWire' = (mWire \ {r}) \cup W /\ \A a \in W : Owned => CalmAsk(a)
  BY <1>2
<1> HIDE DEF W
<1>6. CASE Edits!CommitAnswered(r)
  <2> DEFINE u == IF r.ok /\ r.op = "sync" THEN Edits!Counted(mTab, r.n) ELSE mTab
  <2>1. mTab' = IF r.ok /\ r.op # "sync" THEN mTab ELSE IF u.count > 0 THEN Edits!EndLoading(u) ELSE Edits!HideDock(u)
    BY <1>6 DEF Edits!CommitAnswered
  <2>2. u \in TabForm /\ SamePage(mTab, u) /\ u.shown \subseteq mTab.shown \cup {"apply", "discard"}
    BY <1>1, <1>3, CountedKeeps DEF SamePage
  <2> HIDE DEF u
  <2>3. CASE r.ok /\ r.op # "sync"
    <3>1. mTab' = mTab /\ ~Owes(r)
      BY <1>2, <2>1, <2>3 DEF Owes
    <3>2. Owned => mTab'.shown \subseteq {"apply", "discard"}
      BY <3>1 DEF Owned
    <3> QED
      BY <1>1, <1>2, <1>5, <3>1, <3>2, ReplaceStep
  <2>4. CASE ~(r.ok /\ r.op # "sync")
    <3>1. mTab' \in {Edits!EndLoading(u), Edits!HideDock(u)}
      BY <2>1, <2>4
    <3>2. /\ Refreshed(u, Edits!EndLoading(u), FALSE, FALSE, u.count, u.shown)
          /\ Refreshed(u, Edits!HideDock(u), FALSE, FALSE, 0, {})
      BY <1>1, <2>2, EndLoadingKeeps, HideDockKeeps
    <3>3. /\ mTab' \in TabForm /\ SamePage(u, mTab') /\ ~mTab'.applying /\ ~mTab'.stored
          /\ mTab'.shown \subseteq u.shown
      BY <3>1, <3>2 DEF Refreshed
    <3>4. PageSound(mTab')
      BY <1>1, <2>2, <3>3, SamePageChains, SamePageSound
    <3>5. Owned => mTab'.shown \subseteq {"apply", "discard"}
      BY <2>2, <3>3 DEF Owned
    <3> QED
      BY <1>1, <1>2, <1>5, <3>3, <3>4, <3>5, ReplaceStep
  <2> QED
    BY <2>3, <2>4
<1>7. CASE Edits!RepairAnswered(r)
  <2> DEFINE w == (mTab.shown \ {"keep", "rollback"}) \cup {"discard"}
             u == [mTab EXCEPT !.shown = w]
  <2>1. mTab' \in {u, Edits!Decision(mTab)} /\ r.k = "repair"
    BY <1>7 DEF Edits!RepairAnswered
  <2>2. w \in SUBSET {"apply", "discard", "keep", "rollback"}
    BY <1>1, DockIs
  <2> HIDE DEF w
  <2>3. u \in TabForm
    BY <1>1, <2>2 DEF TabForm
  <2>4. SamePage(mTab, u)
    BY <1>1 DEF TabForm, SamePage
  <2> HIDE DEF u
  <2>5. mTab' \in TabForm /\ SamePage(mTab, mTab')
    BY <1>1, <2>1, <2>3, <2>4, DecisionKeeps DEF Refreshed
  <2>6. ~Owned
    BY <2>1 DEF Owned, CalmAsk
  <2> QED
    BY <1>4, <2>5, <2>6, DockStep
<1>8. CASE Edits!RollbackAnswered(r)
  <2> DEFINE u == [mTab EXCEPT !.stored = FALSE]
  <2>1. mTab' \in {mTab, Edits!Counted(u, r.n)} /\ r.k = "rollback"
    BY <1>8 DEF Edits!RollbackAnswered
  <2>2. u \in TabForm /\ SamePage(mTab, u) /\ SamePage(mTab, mTab)
    BY <1>1, StoredKeeps DEF SamePage
  <2> HIDE DEF u
  <2>3. mTab' \in TabForm /\ SamePage(mTab, mTab')
    BY <1>1, <1>3, <2>1, <2>2, CountedKeeps, SamePageChains
  <2>4. ~Owned
    BY <2>1 DEF Owned, CalmAsk
  <2> QED
    BY <1>4, <2>3, <2>4, DockStep
<1> QED
  BY <1>6, <1>7, <1>8 DEF Edits!Heard, Edits!CountAnswered, Edits!SaveAnswered, Edits!RemoveAnswered,
     Edits!UndoAnswered, Edits!DiscardAnswered

LEMMA AnswerSteps ==
  ASSUME Edits!Assumption, EditsInv, Edits!Answers PROVE EditsKept
<1>1. ASSUME NEW r \in mWire, Edits!Heard(r) PROVE EditsKept
  <2>1. r.k \in Asks
    BY DEF EditsInv, EditsWorld, AskForm, AskRecord
  <2> QED
    BY <1>1, <2>1, HeardPlain, HeardCommit DEF Asks
<1>2. ASSUME NEW r \in mWire, Edits!Unheard(r) PROVE EditsKept
  <2>1. mWire' = mWire \ {r} /\ r.orphan /\ UNCHANGED <<mTab, mStaged, mPhase, mBatch, mOpen, mSpent>>
    BY <1>2 DEF Edits!Unheard
  <2>2. ~Owned
    BY <2>1 DEF Owned, CalmAsk
  <2> QED
    BY <2>1, <2>2 DEF EditsInv, EditsWorld, EditsKept
<1> QED
  BY <1>1, <1>2 DEF Edits!Answers

\* Of a stream that is never lost and a page that is never reloaded nothing is to be shown.
LEMMA StreamSteps ==
  ASSUME Edits!Assumption, EditsInv, Edits!Drop \/ Edits!Connect \/ Edits!Reload PROVE EditsKept
<1>1. mTab \in TabForm /\ mSpent \in SpentForm /\ mWire \in SUBSET AskForm /\ Cardinality(Pieces) \in Nat
  BY PiecesCount DEF EditsInv, EditsWorld
<1>2. CASE Edits!Drop
  <2>1. mSpent' \in SpentForm /\ ~Calm
    BY <1>1, <1>2 DEF Edits!Drop, SpentForm, Calm
  <2> QED
    BY <1>2, <2>1 DEF Edits!Drop, EditsInv, EditsWorld, EditsKept
<1>3. CASE Edits!Connect
  BY <1>3 DEF Edits!Connect, EditsInv, EditsWorld, EditsKept, Owned
<1>4. CASE Edits!Reload
  <2>1. mSpent' \in SpentForm /\ ~Calm
    BY <1>1, <1>4 DEF Edits!Reload, SpentForm, Calm
  <2>2. mTab' = [Edits!Fresh EXCEPT !.stored = mTab.stored] /\ mOpen' = TRUE /\ UNCHANGED <<mStaged, mPhase, mBatch>>
    BY <1>4 DEF Edits!Reload
  <2>3. Edits!Fresh \in TabForm
    BY <1>1 DEF Edits!Fresh, TabForm
  <2>4. PageSound(Edits!Fresh)
    BY DEF Edits!Fresh, PageSound
  <2>5. mTab' \in TabForm /\ PageSound(mTab')
    BY <1>1, <2>2, <2>3, <2>4, DockIs, StoredKeeps, SamePageSound
  <2>6. mWire' \in SUBSET AskForm
    <3>1. mWire' \subseteq {[r EXCEPT !.orphan = TRUE] : r \in mWire} \cup {Edits!Ask("count")}
      BY <1>4 DEF Edits!Reload
    <3>2. \A r \in mWire : [r EXCEPT !.orphan = TRUE] \in AskForm
      BY <1>1, OrphanForm
    <3>3. Edits!Ask("count") \in AskForm
      BY <1>1, AskIsForm DEF Asks
    <3> QED
      BY <3>1, <3>2, <3>3
  <2> QED
    BY <2>1, <2>2, <2>5, <2>6 DEF EditsInv, EditsWorld, EditsKept
<1> QED
  BY <1>2, <1>3, <1>4

LEMMA EditsInit == ASSUME Edits!Assumption, Edits!Init PROVE EditsInv /\ Owned
<1>1. Cardinality(Pieces) \in Nat
  BY PiecesCount
<1>2. /\ mTab = Edits!Fresh /\ mStaged = {} /\ mPhase = "idle" /\ mBatch = {} /\ mWire = {Edits!Ask("count")}
      /\ mOpen = TRUE /\ mSpent = [presses |-> 0, gos |-> 0, drops |-> 0, loads |-> 0]
  BY DEF Edits!Init
<1>3. Edits!Fresh \in TabForm
  BY <1>1 DEF Edits!Fresh, TabForm
<1>4. PageSound(Edits!Fresh) /\ Edits!Fresh.shown = {} /\ ~Edits!Fresh.applying /\ ~Edits!Fresh.stored
  BY DEF Edits!Fresh, PageSound
<1>5. Edits!Ask("count") \in AskForm /\ CalmAsk(Edits!Ask("count"))
  BY <1>1, AskIsForm DEF CalmAsk, Asks
<1>6. mSpent \in SpentForm /\ mStaged \in Stages
  BY <1>2 DEF SpentForm, Stages
<1> QED
  BY <1>2, <1>3, <1>4, <1>5, <1>6 DEF EditsInv, EditsWorld, Owned

LEMMA EditsNext == ASSUME Edits!Assumption, EditsInv, [Edits!Next]_Edits!vars PROVE EditsKept
<1>1. CASE Edits!Next
  BY <1>1, PageSteps, SendingSteps, DockSteps, HelperSteps, AgentSteps, AnswerSteps, StreamSteps
     DEF Edits!Next, Edits!User
<1>2. CASE UNCHANGED Edits!vars
  BY <1>2 DEF Edits!vars, EditsInv, EditsWorld, EditsKept, Owned
<1> QED
  BY <1>1, <1>2

LEMMA EditsShow ==
  ASSUME Edits!Assumption, EditsInv
  PROVE  Edits!TypeOK /\ Edits!HiddenIsNotPicked /\ (Owned => Edits!LockedIsApplying)
<1>1. mTab \in TabForm /\ PageSound(mTab) /\ mStaged \subseteq EditForm /\ mBatch \subseteq EditForm
      /\ mPhase \in {"idle", "applying", "decision"}
  BY DEF EditsInv, EditsWorld, Stages
<1>2. Edits!TypeOK
  BY <1>1, PageIs, DockIs, EditsCardinality DEF Edits!TypeOK, Edits!Buttons, EditForm, PageSound
<1>3. Edits!HiddenIsNotPicked
  BY <1>1 DEF Edits!HiddenIsNotPicked, PageSound
<1>4. Owned => Edits!LockedIsApplying
  BY DEF Owned, Owed, Edits!LockedIsApplying, Edits!Quiet
<1> QED
  BY <1>2, <1>3, <1>4

\* A hidden element is never the picked one, whatever is edited, removed, reloaded or
\* refused meanwhile (live-browser.js 3968).
THEOREM HiddenStaysUnpicked ==
  ASSUME Edits!Assumption
  PROVE  Edits!Spec => [](Edits!TypeOK /\ Edits!HiddenIsNotPicked)
<1>1. Edits!Init => EditsInv
  BY EditsInit
<1>2. EditsInv /\ [Edits!Next]_Edits!vars => EditsInv'
  BY EditsNext DEF EditsKept
<1>3. EditsInv => Edits!TypeOK /\ Edits!HiddenIsNotPicked
  BY EditsShow
<1> QED
  BY <1>1, <1>2, <1>3, PTL DEF Edits!Spec

\* As long as no event is lost, the tab is locked only while the helper applies: every
\* other end of a commit, refused or written in place, takes the lock back
\* (live-browser.js 4590-4595).
THEOREM LockIsTakenBack ==
  ASSUME Edits!Assumption, "decision" \notin EditMishaps, EditDrops = 0, EditLoads = 0
  PROVE  Edits!Spec => []Edits!LockedIsApplying
<1>0. Calm
  BY DEF Calm
<1>1. Edits!Init => EditsInv /\ Owned
  BY EditsInit
<1>2. (EditsInv /\ Owned) /\ [Edits!Next]_Edits!vars => (EditsInv /\ Owned)'
  BY <1>0, EditsNext DEF EditsKept
<1>3. EditsInv /\ Owned => Edits!LockedIsApplying
  BY EditsShow
<1> QED
  BY <1>1, <1>2, <1>3, PTL DEF Edits!Spec

-----------------------------------------------------------------------------
(* Sessions: the forms of the tab's state, and what its functions make of it. *)

Session == INSTANCE LiveSession WITH
  MaxLoads <- SessionLoads, MaxDrops <- SessionDrops, MaxHides <- Hides, MaxPresses <- SessionPresses,
  Mishaps <- SessionMishaps,
  tab <- lTab, making <- lMaking, posts <- lPosts, sse <- lSse, srv <- lSrv, file <- lFile, dom <- lDom,
  spent <- lSpent

TimerForm == [kind : Session!TimerKinds, s : Sessions, fresh : BOOLEAN]
ReadForm == [s : Sessions, kind : {"done", "orphan", "plain"}]
KeptForm == [s : Session!SomeSession, at : Session!Modes, arrived : 0..Count]

SessionTab ==
  [mode : Session!Modes, cur : Session!SomeSession, arrived : 0..Count,
   pend : Session!SomeSession, awaiting : Session!SomeSession, obs : Session!SomeSession, ckpt : Session!SomeSession,
   timers : SUBSET TimerForm, reads : SUBSET ReadForm, scout : {"off", "fresh", "stale"},
   kept : KeptForm, handled : SUBSET Sessions, tries : [Sessions -> 0..Session!Tries],
   told : Session!SomeSession, mine : Session!SomeSession]

\* A tab whose current session is not an ended one.
Sound(t) == t \in SessionTab /\ t.cur \notin t.handled

PostForm == [kind : {"accept", "discard"}, s : Sessions, n : 1..SessionPresses, at : {"flying", "ok", "no"}]
Counts == [Sessions -> Session!Absent..Count]

\* Each press leaves at most one request.
PostsCounted ==
  /\ lPosts \in SUBSET PostForm /\ IsFiniteSet(lPosts) /\ Cardinality(lPosts) <= lSpent.presses
  /\ lSpent \in [loads : Nat, drops : Nat, hides : Nat, presses : 0..SessionPresses]

WorldTyped ==
  /\ lMaking \in SUBSET [s : Sessions, at : {"capture", "flying"}]
  /\ lSse \in {"down", "open", "gone"} /\ lSrv \in [Sessions -> {"unknown", "live", "ready", "taken", "discarded", "over"}]
  /\ lFile \in Counts /\ lDom \in Counts

SessionInv == Sound(lTab) /\ PostsCounted /\ WorldTyped

LEMMA NoSession == ASSUME Session!Assumption PROVE \A t \in SessionTab : t.cur = None => t.cur \notin t.handled
BY DEF Session!Assumption, SessionTab

LEMMA SaveIs ==
  ASSUME NEW t \in SessionTab
  PROVE  Session!Save(t) \in SessionTab /\ Session!Save(t).cur = t.cur /\ Session!Save(t).handled = t.handled
<1>1. [s |-> t.cur, at |-> t.mode, arrived |-> t.arrived] \in KeptForm
  BY DEF SessionTab, KeptForm
<1> QED
  BY <1>1 DEF Session!Save, SessionTab

LEMMA SaveSound == ASSUME NEW t, Sound(t) PROVE Sound(Session!Save(t))
BY SaveIs DEF Sound

LEMMA HandleIs == ASSUME NEW t \in SessionTab PROVE Session!Handle(t) \in SessionTab
BY DEF Session!Handle, SessionTab, Session!SomeSession

LEMMA QueueIs ==
  ASSUME NEW t \in SessionTab, NEW s \in Sessions
  PROVE  Session!Queue(t, s) \in SessionTab /\ Session!Queue(t, s).handled = t.handled
BY DEF Session!Queue, SessionTab, Session!SomeSession

LEMMA CleanupIs == ASSUME Session!Assumption, NEW t \in SessionTab PROVE Sound(Session!Cleanup(t))
<1>1. Session!Nothing \in KeptForm
  BY DEF Session!Nothing, KeptForm, Session!SomeSession, Session!Modes, Session!Assumption
<1> DEFINE A == IF t.cur = None THEN {} ELSE {[kind |-> "discard", s |-> t.cur, fresh |-> TRUE]}
           C == [t EXCEPT !.timers = @ \cup A, !.mode = "PICKING", !.cur = None, !.obs = None, !.kept = Session!Nothing]
<1>2. A \in SUBSET TimerForm
  BY DEF TimerForm, Session!TimerKinds, SessionTab, Session!SomeSession
<1>4. Session!Cleanup(t) = C
  BY DEF Session!Cleanup
<1> HIDE DEF A
<1>5. C \in SessionTab /\ C.cur = None
  BY <1>1, <1>2 DEF SessionTab, Session!SomeSession, Session!Modes
<1> HIDE DEF C
<1>3. Session!Cleanup(t) \in SessionTab /\ Session!Cleanup(t).cur = None
  BY <1>4, <1>5
<1> QED
  BY <1>3, NoSession DEF Sound

LEMMA ForgetIs == ASSUME Session!Assumption, NEW t, Sound(t) PROVE Sound(Session!Forget(t))
<1>1. Session!Nothing \in KeptForm
  BY DEF Session!Nothing, KeptForm, Session!SomeSession, Session!Modes, Session!Assumption
<1> QED
  BY <1>1 DEF Session!Forget, Sound, SessionTab

LEMMA ScheduleIs ==
  ASSUME NEW t, Sound(t), NEW s, NEW fresh
  PROVE  Sound(Session!ScheduleReload(t, s, fresh))
<1>1. CASE s \notin t.handled \/ Session!Superseded(t, s, fresh) \/ t.tries[s] >= Session!Tries
           \/ \E x \in t.timers : x.kind = "wrapper" /\ x.s = s
  BY <1>1 DEF Session!ScheduleReload
<1>2. CASE ~(s \notin t.handled \/ Session!Superseded(t, s, fresh) \/ t.tries[s] >= Session!Tries
             \/ \E x \in t.timers : x.kind = "wrapper" /\ x.s = s)
  <2> DEFINE x == [kind |-> "wrapper", s |-> s, fresh |-> TRUE]
             n == [t.tries EXCEPT ![s] = @ + 1]
  <2>1. s \in Sessions /\ t \in SessionTab /\ t.cur \notin t.handled
    BY <1>2 DEF Sound, SessionTab
  <2>2. x \in TimerForm
    BY <2>1 DEF TimerForm, Session!TimerKinds, Session!ReloadKinds
  <2>3. t.tries \in [Sessions -> 0..2] /\ t.tries[s] < 2
    BY <1>2, <2>1 DEF SessionTab, Session!Tries
  <2>4. n \in [Sessions -> 0..Session!Tries]
    BY <2>1, <2>3 DEF Session!Tries
  <2>5. Session!ScheduleReload(t, s, fresh) = [t EXCEPT !.timers = t.timers \cup {x}, !.tries = n]
    BY <1>2, <2>1 DEF Session!ScheduleReload, SessionTab
  <2> HIDE DEF x, n
  <2> DEFINE C == [t EXCEPT !.timers = t.timers \cup {x}, !.tries = n]
  <2>6. C \in SessionTab /\ C.cur = t.cur /\ C.handled = t.handled
    BY <2>1, <2>2, <2>4 DEF SessionTab
  <2> HIDE DEF C
  <2>7. Session!ScheduleReload(t, s, fresh) = C
    BY <2>5 DEF C
  <2> QED
    BY <2>1, <2>6, <2>7 DEF Sound
<1> QED
  BY <1>1, <1>2

LEMMA CleanupAcceptedIs ==
  ASSUME Session!Assumption, NEW t \in SessionTab, NEW s \in Sessions, NEW d
  PROVE  Sound(Session!CleanupAccepted(t, s, d))
<1> DEFINE T == {[kind |-> k, s |-> s, fresh |-> TRUE] : k \in {"accept", "watch"}}
           h == Session!Handle(t)
           f == [h EXCEPT !.mode = "PICKING", !.cur = None, !.obs = None, !.pend = None,
                          !.kept = Session!Nothing, !.mine = s, !.timers = h.timers \cup T]
<1>1. T \in SUBSET TimerForm
  <2>1. \A k \in {"accept", "watch"} : [kind |-> k, s |-> s, fresh |-> TRUE] \in TimerForm
    BY DEF TimerForm, Session!TimerKinds
  <2> QED
    BY <2>1
<1>2. Session!Nothing \in KeptForm
  BY DEF Session!Nothing, KeptForm, Session!SomeSession, Session!Modes, Session!Assumption
<1>3. Session!CleanupAccepted(t, s, d) = IF d[s] = Session!Absent THEN f ELSE Session!ScheduleReload(f, s, TRUE)
  BY DEF Session!CleanupAccepted
<1>4. h \in SessionTab
  BY HandleIs
<1> HIDE DEF T, h
<1>5. f \in SessionTab /\ f.cur = None
  BY <1>1, <1>2, <1>4 DEF SessionTab, Session!SomeSession, Session!Modes
<1> HIDE DEF f
<1>6. Sound(f)
  BY <1>5, NoSession DEF Sound
<1> QED
  BY <1>3, <1>6, ScheduleIs

LEMMA CandidatesAre ==
  ASSUME Session!Assumption, NEW t \in SessionTab, NEW act \in SUBSET Sessions, NEW c \in Session!Candidates(t, act)
  PROVE  c \in KeptForm /\ c.s \in Sessions
<1>1. CASE t.kept.s # None
  BY <1>1 DEF Session!Candidates, SessionTab, KeptForm, Session!SomeSession
<1>2. CASE t.kept.s = None
  <2>1. PICK x \in act : c = [s |-> x, at |-> "GENERATING", arrived |-> 0]
    BY <1>2 DEF Session!Candidates
  <2> QED
    BY <2>1 DEF KeptForm, Session!SomeSession, Session!Modes, Session!Assumption
<1> QED
  BY <1>1, <1>2

LEMMA RestoredIs ==
  ASSUME NEW t \in SessionTab, NEW c \in KeptForm, c.s \in Sessions, c.s \notin t.handled, NEW known \in BOOLEAN
  PROVE  Sound(Session!Restored(t, c, known))
<1> DEFINE q == Session!Queue(t, c.s)
           R == IF known THEN {[s |-> c.s, kind |-> IF c.at = "CYCLING" THEN "orphan" ELSE "plain"]} ELSE {}
           u == [q EXCEPT !.cur = c.s, !.mode = "GENERATING", !.arrived = c.arrived, !.obs = c.s, !.reads = @ \cup R]
<1>1. q \in SessionTab /\ q.handled = t.handled
  BY QueueIs
<1>2. R \in SUBSET ReadForm
  BY DEF ReadForm
<1>3. Session!Restored(t, c, known) = Session!Save(u)
  BY DEF Session!Restored
<1>4. c.arrived \in 0..Count /\ c.s \in Session!SomeSession
  BY DEF KeptForm
<1> HIDE DEF q, R
<1>5. u \in SessionTab /\ u.cur = c.s /\ u.handled = q.handled
  BY <1>1, <1>2, <1>4 DEF SessionTab, Session!Modes
<1> HIDE DEF u
<1>6. Sound(u)
  BY <1>1, <1>5 DEF Sound
<1> QED
  BY <1>3, <1>6, SaveSound

LEMMA RestoresAre ==
  ASSUME Session!Assumption, NEW t \in SessionTab, NEW act \in SUBSET Sessions, NEW r \in Session!Restores(t, act)
  PROVE  Sound(r)
<1>1. PICK c \in Session!Candidates(t, act), known \in BOOLEAN : c.s \notin t.handled /\ r = Session!Restored(t, c, known)
  BY DEF Session!Restores
<1> QED
  BY <1>1, CandidatesAre, RestoredIs

LEMMA ResumedIs ==
  ASSUME NEW t \in SessionTab, NEW w \in Sessions, w \notin t.handled, NEW n \in 0..Count
  PROVE  Sound(Session!Resumed(t, w, n))
<1> DEFINE q == Session!Queue(t, w)
           m == IF n > 0 THEN "CYCLING" ELSE "GENERATING"
           u == [q EXCEPT !.cur = w, !.arrived = n, !.obs = w, !.mode = m]
<1>1. q \in SessionTab /\ q.handled = t.handled
  BY QueueIs
<1>2. m \in Session!Modes /\ w \in Session!SomeSession
  BY DEF Session!Modes, Session!SomeSession
<1>3. Session!Resumed(t, w, n) = Session!Save(u)
  BY DEF Session!Resumed
<1> HIDE DEF q, m
<1>4. u \in SessionTab /\ u.cur = w /\ u.handled = q.handled
  BY <1>1, <1>2 DEF SessionTab
<1> HIDE DEF u
<1>5. Sound(u)
  BY <1>1, <1>4 DEF Sound
<1> QED
  BY <1>3, <1>5, SaveSound

LEMMA FoundIs ==
  ASSUME NEW d \in Counts, NEW w \in Session!Found(d)
  PROVE  w = None \/ (w \in Sessions /\ d[w] \in Session!Absent..Count /\ d[w] # Session!Absent)
BY DEF Session!Found, Counts, Session!Wrappers, Session!Absent

LEMMA ResumesAre ==
  ASSUME Session!Assumption, NEW t, Sound(t), NEW d \in Counts, NEW fresh, NEW r \in Session!Resume(t, d, fresh)
  PROVE  Sound(r)
<1>1. PICK w \in Session!Found(d) : r \in Session!ResumeAt(t, d, w, fresh)
  BY DEF Session!Resume
<1>2. t \in SessionTab /\ {} \in SUBSET Sessions
  BY DEF Sound
<1>3. \/ r = t
      \/ r \in Session!Restores(t, {})
      \/ r = Session!ScheduleReload(t, w, fresh)
      \/ w # None /\ w \notin t.handled /\ r = Session!Resumed(t, w, d[w])
      \/ r = Session!Forget(t)
  BY <1>1 DEF Session!ResumeAt
<1>4. CASE w # None /\ w \notin t.handled /\ r = Session!Resumed(t, w, d[w])
  <2>1. w \in Sessions /\ d[w] \in 0..Count
    BY <1>4, FoundIs DEF Session!Absent, Counts, Session!Assumption
  <2> QED
    BY <1>2, <1>4, <2>1, ResumedIs
<1> QED
  BY <1>2, <1>3, <1>4, RestoresAre, ScheduleIs, ForgetIs

LEMMA LoadsAre ==
  ASSUME Session!Assumption, NEW t, Sound(t), NEW d \in Counts, NEW r \in Session!Loads(t, d)
  PROVE  Sound(r)
<1> DEFINE blank == [Session!Blank EXCEPT !.kept = t.kept, !.handled = t.handled, !.tries = t.tries]
<1>1. t \in SessionTab
  BY DEF Sound
<1>2. t.kept \in KeptForm /\ t.handled \in SUBSET Sessions /\ t.tries \in [Sessions -> 0..Session!Tries]
  BY <1>1 DEF SessionTab
<1>a. Session!Nothing \in KeptForm /\ 0 \in 0..Count
  BY DEF Session!Nothing, KeptForm, Session!SomeSession, Session!Modes, Session!Assumption
<1>b. [s \in Sessions |-> 0] \in [Sessions -> 0..Session!Tries]
  BY DEF Session!Tries
<1> DEFINE z == [s \in Sessions |-> 0]
<1> HIDE DEF z
<1>c. Session!Blank \in SessionTab /\ Session!Blank.cur = None
  BY <1>a, <1>b DEF Session!Blank, SessionTab, Session!SomeSession, Session!Modes, z
<1>3. blank \in SessionTab /\ blank.cur = None
  BY <1>2, <1>c DEF SessionTab
<1>4. Sound(blank)
  BY <1>3, NoSession DEF Sound
<1>5. PICK q \in Session!Resume(blank, d, TRUE) :
        r = [q EXCEPT !.scout = IF q.cur = None \/ Session!Wrappers(d) = {} THEN "fresh" ELSE "off",
                      !.mode = IF @ = "IDLE" THEN "PICKING" ELSE @]
  BY DEF Session!Loads
<1> HIDE DEF blank
<1>6. q \in SessionTab /\ q.cur \notin q.handled
  BY <1>4, <1>5, ResumesAre DEF Sound
<1>7. r \in SessionTab /\ r.cur = q.cur /\ r.handled = q.handled
  BY <1>5, <1>6 DEF SessionTab, Session!Modes
<1> QED
  BY <1>6, <1>7 DEF Sound

LEMMA WatchedIs ==
  ASSUME Session!Assumption, NEW t, Sound(t), NEW d \in Counts, NEW r \in Session!Watched(t, d)
  PROVE  Sound(r)
<1> DEFINE late == {x \in t.timers : x.kind = "watch" /\ d[x.s] # Session!Absent}
           y == CHOOSE y \in late : TRUE
           told == IF late = {} THEN t ELSE Session!ScheduleReload(t, y.s, y.fresh)
<1>1. Sound(told)
  BY ScheduleIs
<1>2. \/ r \in Session!Resume([told EXCEPT !.scout = "off"], d, t.scout = "fresh")
      \/ told.obs # None /\ d[told.obs] > told.arrived
         /\ r = Session!Save([told EXCEPT !.arrived = d[told.obs], !.mode = "CYCLING"])
      \/ r = told
  BY DEF Session!Watched
<1> HIDE DEF told
<1>3. told \in SessionTab /\ told.cur \notin told.handled
  BY <1>1 DEF Sound
<1>4. CASE r \in Session!Resume([told EXCEPT !.scout = "off"], d, t.scout = "fresh")
  <2> DEFINE u == [told EXCEPT !.scout = "off"]
  <2>1. u \in SessionTab /\ u.cur = told.cur /\ u.handled = told.handled
    BY <1>3 DEF SessionTab
  <2> HIDE DEF u
  <2>2. Sound(u)
    BY <1>3, <2>1 DEF Sound
  <2>3. r \in Session!Resume(u, d, t.scout = "fresh")
    BY <1>4 DEF u
  <2> QED
    BY <2>2, <2>3, ResumesAre
<1>5. CASE told.obs # None /\ d[told.obs] > told.arrived
           /\ r = Session!Save([told EXCEPT !.arrived = d[told.obs], !.mode = "CYCLING"])
  <2> DEFINE u == [told EXCEPT !.arrived = d[told.obs], !.mode = "CYCLING"]
  <2>1. told.obs \in Sessions /\ told.arrived \in 0..Count
    BY <1>3, <1>5 DEF SessionTab, Session!SomeSession
  <2>2. d[told.obs] \in 0..Count
    BY <1>5, <2>1 DEF Counts, Session!Absent
  <2>3. u \in SessionTab /\ u.cur = told.cur /\ u.handled = told.handled
    BY <1>3, <2>2 DEF SessionTab, Session!Modes
  <2>4. r = Session!Save(u)
    BY <1>5
  <2> HIDE DEF u
  <2>5. Sound(u)
    BY <1>3, <2>3 DEF Sound
  <2> QED
    BY <2>4, <2>5, SaveSound
<1> QED
  BY <1>1, <1>2, <1>4, <1>5

-----------------------------------------------------------------------------
(* Every step keeps the current session apart from the ended ones.         *)

LEMMA SessionIs ==
  ASSUME SessionInv
  PROVE  /\ lTab \in SessionTab /\ lTab.cur \notin lTab.handled /\ Sound(lTab)
         /\ lPosts \in SUBSET PostForm /\ IsFiniteSet(lPosts) /\ Cardinality(lPosts) <= lSpent.presses
         /\ lSpent \in [loads : Nat, drops : Nat, hides : Nat, presses : 0..SessionPresses]
         /\ lMaking \in SUBSET [s : Sessions, at : {"capture", "flying"}]
         /\ lSrv \in [Sessions -> {"unknown", "live", "ready", "taken", "discarded", "over"}]
         /\ lFile \in Counts /\ lDom \in Counts /\ lSse \in {"down", "open", "gone"}
BY DEF SessionInv, Sound, PostsCounted, WorldTyped

\* The tab changes, the requests do not.
LEMMA TabSteps ==
  ASSUME SessionInv, Sound(lTab'), UNCHANGED <<lPosts, lSpent>>,
         lMaking' \in SUBSET [s : Sessions, at : {"capture", "flying"}], lSse' \in {"down", "open", "gone"},
         lSrv' \in [Sessions -> {"unknown", "live", "ready", "taken", "discarded", "over"}],
         lFile' \in Counts, lDom' \in Counts
  PROVE  SessionInv'
<1>1. Sound(lTab)'
  BY DEF Sound, SessionTab, Session!Superseded
<1>2. PostsCounted'
  BY DEF SessionInv, PostsCounted
<1>3. WorldTyped'
  BY DEF WorldTyped
<1> QED
  BY <1>1, <1>2, <1>3 DEF SessionInv

LEMMA SessionInit == ASSUME Session!Assumption, Session!Init PROVE SessionInv
<1>1. Session!Nothing \in KeptForm /\ 0 \in 0..Count
  BY DEF Session!Nothing, KeptForm, Session!SomeSession, Session!Modes, Session!Assumption
<1> DEFINE z == [s \in Sessions |-> 0]
<1>2. z \in [Sessions -> 0..Session!Tries]
  BY DEF Session!Tries
<1> HIDE DEF z
<1>3. Session!Blank \in SessionTab /\ Session!Blank.cur = None
  BY <1>1, <1>2 DEF Session!Blank, SessionTab, Session!SomeSession, Session!Modes, z
<1>4. lTab \in SessionTab /\ lTab.cur = None
  BY <1>3 DEF Session!Init, SessionTab, Session!Modes
<1>5. Sound(lTab)
  BY <1>4, NoSession DEF Sound
<1>6. IsFiniteSet(lPosts) /\ Cardinality(lPosts) = 0 /\ lPosts = {}
  BY FS_EmptySet DEF Session!Init
<1>7. PostsCounted
  BY <1>6 DEF Session!Init, PostsCounted, Session!Assumption
<1>8. WorldTyped
  BY DEF Session!Init, WorldTyped, Counts, Session!Absent, Session!Assumption
<1> QED
  BY <1>5, <1>7, <1>8 DEF SessionInv

LEMMA PickStep == ASSUME Session!Assumption, SessionInv, Session!Pick \/ Session!Unpick PROVE SessionInv'
<1>1. CASE Session!Pick
  <2> DEFINE T == {[x EXCEPT !.fresh = FALSE] : x \in lTab.timers}
             c == IF lTab.scout = "off" THEN "off" ELSE "stale"
             o == Session!Outdate(lTab)
  <2>1. \A x \in TimerForm : [x EXCEPT !.fresh = FALSE] \in TimerForm
    BY DEF TimerForm
  <2>2. lTab.timers \in SUBSET TimerForm
    BY SessionIs DEF SessionTab
  <2>3. T \in SUBSET TimerForm
    BY <2>1, <2>2
  <2>a. lTab \in SessionTab /\ None \in Session!SomeSession /\ c \in {"off", "fresh", "stale"}
    BY SessionIs DEF Session!SomeSession
  <2>4. o = [lTab EXCEPT !.timers = T, !.told = None, !.scout = c]
    BY DEF Session!Outdate
  <2> HIDE DEF T, o, c
  <2>5. o \in SessionTab /\ o.cur = lTab.cur /\ o.handled = lTab.handled
    BY <2>3, <2>4, <2>a DEF SessionTab
  <2>6. lTab' = [o EXCEPT !.mode = "CONFIGURING"]
    BY <1>1 DEF Session!Pick, o
  <2>7. lTab' \in SessionTab /\ lTab'.cur = lTab.cur /\ lTab'.handled = lTab.handled
    BY <2>5, <2>6 DEF SessionTab, Session!Modes
  <2> QED
    BY <1>1, <2>7, SessionIs, TabSteps DEF Sound, Session!Pick
<1>2. CASE Session!Unpick
  <2>1. lTab' \in SessionTab /\ lTab'.cur = lTab.cur /\ lTab'.handled = lTab.handled
    BY <1>2, SessionIs DEF SessionTab, Session!Modes, Session!Unpick
  <2> QED
    BY <1>2, <2>1, SessionIs, TabSteps DEF Sound, Session!Unpick
<1> QED
  BY <1>1, <1>2

LEMMA GoStep == ASSUME Session!Assumption, SessionInv, NEW s \in Sessions, NEW a \in BOOLEAN, Session!Go(s, a) PROVE SessionInv'
<1> DEFINE u == [lTab EXCEPT !.mode = "GENERATING", !.cur = s, !.arrived = 0,
                            !.pend = None, !.awaiting = None, !.mine = None, !.obs = s]
<1>a. lTab \in SessionTab /\ None \in Session!SomeSession /\ s \in Session!SomeSession /\ 0 \in 0..Count
  BY SessionIs DEF Session!SomeSession, Session!Assumption
<1>1. u \in SessionTab /\ u.cur = s /\ u.handled = lTab.handled
  BY <1>a DEF SessionTab, Session!Modes
<1>2. s \notin lTab.handled /\ lTab' = Session!Save(u)
  BY DEF Session!Go, Session!Fresh
<1> HIDE DEF u
<1>3. Sound(lTab')
  BY <1>1, <1>2, SaveSound DEF Sound
<1>4. lMaking' \in SUBSET [s : Sessions, at : {"capture", "flying"}]
  BY SessionIs DEF Session!Go
<1> QED
  BY <1>3, <1>4, SessionIs, TabSteps DEF Session!Go

\* A press adds a request; the counts stay with it.
LEMMA PressStep ==
  ASSUME Session!Assumption, SessionInv, Sound(lTab'), NEW x, x \in PostForm, lPosts' = lPosts \cup {x}, Session!Press,
         UNCHANGED <<lMaking, lSse, lSrv, lFile, lDom>>
  PROVE  SessionInv'
<1>1. Sound(lTab)' /\ WorldTyped'
  BY DEF SessionInv, WorldTyped, Sound, SessionTab
<1>2. lSpent.presses \in Nat /\ SessionPresses \in Nat /\ lSpent.presses < SessionPresses
      /\ lSpent' \in [loads : Nat, drops : Nat, hides : Nat, presses : 0..SessionPresses] /\ lSpent'.presses = lSpent.presses + 1
  BY SessionIs DEF Session!Press, Session!Assumption
<1>a. IsFiniteSet(lPosts) /\ Cardinality(lPosts) \in Nat
  BY SessionIs, FS_CardinalityType
<1>b. IsFiniteSet(lPosts \cup {x}) /\ Cardinality(lPosts \cup {x}) \in {Cardinality(lPosts), Cardinality(lPosts) + 1}
  BY <1>a, FS_AddElement
<1>3. IsFiniteSet(lPosts') /\ Cardinality(lPosts') <= Cardinality(lPosts) + 1 /\ Cardinality(lPosts) \in Nat
  BY <1>a, <1>b
<1>4. Cardinality(lPosts') \in Nat
  BY <1>3, FS_CardinalityType
<1>5. Cardinality(lPosts') <= lSpent'.presses
  BY <1>2, <1>3, <1>4, SessionIs
<1>6. PostsCounted'
  BY <1>2, <1>3, <1>5, SessionIs DEF PostsCounted
<1> QED
  BY <1>1, <1>6 DEF SessionInv

LEMMA AcceptStep == ASSUME Session!Assumption, SessionInv, Session!Accept PROVE SessionInv'
<1> DEFINE x == [kind |-> "accept", s |-> lTab.cur, n |-> 1, at |-> "flying"]
           u == [lTab EXCEPT !.mode = "SAVING", !.pend = lTab.cur]
<1>1. lTab.cur \in Sessions /\ lTab' = Session!Save(u) /\ lPosts' = lPosts \cup {x} /\ Session!Press /\ UNCHANGED <<lMaking, lSse, lSrv, lFile, lDom>>
  BY SessionIs DEF Session!Accept, SessionTab, Session!SomeSession
<1>2. 1 \in 1..SessionPresses
  BY <1>1, SessionIs DEF Session!Press, Session!Assumption
<1>3. x \in PostForm
  BY <1>1, <1>2 DEF PostForm
<1>4. u \in SessionTab /\ u.cur = lTab.cur /\ u.handled = lTab.handled
  BY <1>1, SessionIs DEF SessionTab, Session!SomeSession, Session!Modes
<1> HIDE DEF x, u
<1>5. Sound(lTab')
  BY <1>1, <1>4, SaveSound, SessionIs DEF Sound
<1> QED
  BY <1>1, <1>3, <1>5, PressStep

LEMMA DiscardStep == ASSUME Session!Assumption, SessionInv, Session!Discard PROVE SessionInv'
<1> DEFINE D == {x \in lPosts : x.kind = "discard" /\ x.s = lTab.cur}
           n == 1 + Session!Cardinality(D)
           x == [kind |-> "discard", s |-> lTab.cur, n |-> n, at |-> "flying"]
<1>1. lTab.cur \in Sessions /\ lPosts' = lPosts \cup {x} /\ Session!Press /\ UNCHANGED <<lTab, lMaking, lSse, lSrv, lFile, lDom>>
  BY SessionIs DEF Session!Discard, SessionTab, Session!SomeSession
<1>2. IsFiniteSet(lPosts) /\ D \subseteq lPosts /\ Session!Cardinality(D) = Cardinality(D)
  BY SessionIs DEF Session!Cardinality, Cardinality
<1> HIDE DEF D
<1>3. IsFiniteSet(D) /\ Cardinality(D) <= Cardinality(lPosts)
  BY <1>2, FS_Subset
<1>4. Cardinality(D) \in Nat /\ Cardinality(lPosts) \in Nat
  BY <1>2, <1>3, FS_CardinalityType
<1>5. n \in 1..SessionPresses
  BY <1>1, <1>2, <1>3, <1>4, SessionIs DEF Session!Press, Session!Assumption
<1> HIDE DEF n
<1>6. x \in PostForm
  BY <1>1, <1>5 DEF PostForm
<1>7. Sound(lTab')
  BY <1>1, SessionIs
<1> HIDE DEF x
<1> QED
  BY <1>1, <1>6, <1>7, PressStep

LEMMA UnmountStep == ASSUME Session!Assumption, SessionInv, NEW s \in Sessions, Session!Unmount(s) PROVE SessionInv'
<1>1. lDom' \in Counts
  BY SessionIs DEF Session!Unmount, Counts, Session!Absent, Session!Assumption
<1>2. Sound(lTab')
  BY <1>1, SessionIs, WatchedIs DEF Session!Unmount
<1>3. Sound(lTab)' /\ WorldTyped'
  BY <1>1, <1>2 DEF SessionInv, WorldTyped, Sound, SessionTab, Session!Unmount
<1>4. lSpent' \in [loads : Nat, drops : Nat, hides : Nat, presses : 0..SessionPresses] /\ lSpent'.presses = lSpent.presses
  BY SessionIs DEF Session!Unmount
<1>5. PostsCounted'
  BY <1>4, SessionIs DEF Session!Unmount, PostsCounted
<1> QED
  BY <1>3, <1>5 DEF SessionInv

LEMMA LoadStep == ASSUME Session!Assumption, SessionInv, Session!LoadPage PROVE SessionInv'
<1>1. Sound(lTab') /\ lDom' \in Counts
  BY SessionIs, LoadsAre DEF Session!LoadPage
<1>2. Sound(lTab)' /\ WorldTyped'
  BY <1>1 DEF SessionInv, WorldTyped, Sound, SessionTab, Session!LoadPage, Session!server
<1>3. lSpent' \in [loads : Nat, drops : Nat, hides : Nat, presses : 0..SessionPresses] /\ lSpent'.presses = lSpent.presses
  BY SessionIs DEF Session!LoadPage
<1>4. lPosts' = {} /\ IsFiniteSet(lPosts') /\ Cardinality(lPosts') = 0
  BY FS_EmptySet DEF Session!LoadPage
<1>5. PostsCounted'
  BY <1>3, <1>4 DEF PostsCounted, Session!Assumption
<1> QED
  BY <1>2, <1>5 DEF SessionInv

\* Requests go, or are answered: their number does not grow.
LEMMA PostsStep ==
  ASSUME SessionInv, Sound(lTab'), UNCHANGED <<lMaking, lSse, lFile, lDom, lSpent>>,
         lSrv' \in [Sessions -> {"unknown", "live", "ready", "taken", "discarded", "over"}],
         NEW x \in lPosts, NEW y \in PostForm, lPosts' = lPosts \ {x} \/ lPosts' = (lPosts \ {x}) \cup {y}
  PROVE  SessionInv'
<1>1. Sound(lTab)' /\ WorldTyped'
  BY DEF SessionInv, WorldTyped, Sound, SessionTab
<1> DEFINE P == lPosts \ {x}
<1>2. IsFiniteSet(lPosts) /\ Cardinality(lPosts) \in Nat /\ x \in lPosts
  BY SessionIs, FS_CardinalityType
<1>3. IsFiniteSet(P) /\ Cardinality(P) = Cardinality(lPosts) - 1
  BY <1>2, FS_RemoveElement
<1> HIDE DEF P
<1>4. Cardinality(P) \in Nat
  BY <1>3, FS_CardinalityType
<1>5. IsFiniteSet(P \cup {y}) /\ Cardinality(P \cup {y}) \in {Cardinality(P), Cardinality(P) + 1}
  BY <1>3, FS_AddElement
<1>6. lPosts' = P \/ lPosts' = P \cup {y}
  BY DEF P
<1>a. Cardinality(P) <= Cardinality(lPosts) /\ Cardinality(P) + 1 <= Cardinality(lPosts) /\ Cardinality(P) + 1 \in Nat
  BY <1>2, <1>3, <1>4
<1>b. Cardinality(P \cup {y}) <= Cardinality(lPosts) /\ Cardinality(P \cup {y}) \in Nat
  BY <1>4, <1>5, <1>a
<1>7. IsFiniteSet(lPosts') /\ Cardinality(lPosts') <= Cardinality(lPosts) /\ Cardinality(lPosts') \in Nat
  BY <1>3, <1>4, <1>5, <1>6, <1>a, <1>b
<1>8. lSpent.presses \in Nat
  BY SessionIs
<1>9. Cardinality(lPosts') <= lSpent'.presses
  BY <1>2, <1>7, <1>8, SessionIs
<1>10. lPosts' \in SUBSET PostForm
  BY SessionIs
<1>11. PostsCounted'
  BY <1>7, <1>9, <1>10, SessionIs DEF PostsCounted
<1> QED
  BY <1>1, <1>11 DEF SessionInv

LEMMA GenerateStep ==
  ASSUME SessionInv, NEW s \in Sessions, Session!CaptureEnds(s) \/ Session!GenerateAnswered(s) PROVE SessionInv'
<1>1. lMaking' \in SUBSET [s : Sessions, at : {"capture", "flying"}] /\ Sound(lTab') /\ UNCHANGED <<lPosts, lSpent, lSse, lFile, lDom>>
  BY SessionIs DEF Session!CaptureEnds, Session!GenerateAnswered
<1>2. lSrv' \in [Sessions -> {"unknown", "live", "ready", "taken", "discarded", "over"}]
  BY SessionIs DEF Session!CaptureEnds, Session!GenerateAnswered
<1> QED
  BY <1>1, <1>2, SessionIs, TabSteps

\* What the tab becomes when a request is answered.
LEMMA AcceptOkIs ==
  ASSUME Session!Assumption, NEW t, Sound(t), NEW s \in Sessions, NEW d PROVE Sound(Session!AcceptOk(t, s, d))
<1> DEFINE c == Session!CleanupAccepted(t, s, d)
<1>1. Sound(c)
  BY CleanupAcceptedIs DEF Sound
<1>2. Session!AcceptOk(t, s, d) = t \/ Session!AcceptOk(t, s, d) = [c EXCEPT !.awaiting = s]
  BY DEF Session!AcceptOk
<1> HIDE DEF c
<1>3. [c EXCEPT !.awaiting = s] \in SessionTab /\ [c EXCEPT !.awaiting = s].cur = c.cur /\ [c EXCEPT !.awaiting = s].handled = c.handled
  BY <1>1 DEF Sound, SessionTab, Session!SomeSession
<1> QED
  BY <1>1, <1>2, <1>3 DEF Sound

LEMMA AcceptRefusedIs ==
  ASSUME Session!Assumption, NEW t, Sound(t), NEW s \in Sessions PROVE Sound(Session!AcceptRefused(t, s))
<1> DEFINE p == IF t.pend = s THEN None ELSE t.pend
           b == [t EXCEPT !.pend = p, !.mode = "CYCLING"]
<1>1. t \in SessionTab /\ t.cur \notin t.handled
  BY DEF Sound
<1>2. p \in Session!SomeSession
  BY <1>1 DEF SessionTab, Session!SomeSession
<1>3. Session!AcceptRefused(t, s) = b \/ Session!AcceptRefused(t, s) = Session!Cleanup(b)
  BY DEF Session!AcceptRefused, Session!RecoverEmpty
<1> HIDE DEF p
<1>4. b \in SessionTab /\ b.cur = t.cur /\ b.handled = t.handled
  BY <1>1, <1>2 DEF SessionTab, Session!Modes
<1> HIDE DEF b
<1> QED
  BY <1>1, <1>3, <1>4, CleanupIs DEF Sound

LEMMA EndedSession == ASSUME Session!Assumption, NEW t \in SessionTab PROVE Sound(Session!Cleanup(Session!Handle(t)))
BY HandleIs, CleanupIs

LEMMA AnsweredStep ==
  ASSUME Session!Assumption, SessionInv, NEW s \in Sessions, Session!AcceptAnswered(s) \/ Session!DiscardAnswered(s) PROVE SessionInv'
<1>1. PICK x \in lPosts : lPosts' = lPosts \ {x}
  BY DEF Session!AcceptAnswered, Session!DiscardAnswered
<1>2. x \in PostForm
  BY SessionIs
<1>3. Sound(lTab')
  <2>1. CASE Session!AcceptAnswered(s)
    BY <2>1, SessionIs, AcceptOkIs, AcceptRefusedIs DEF Session!AcceptAnswered
  <2>2. CASE Session!DiscardAnswered(s)
    BY <2>2, SessionIs, EndedSession DEF Session!DiscardAnswered
  <2> QED
    BY <2>1, <2>2
<1>4. UNCHANGED <<lMaking, lSse, lSrv, lFile, lDom, lSpent>>
  BY DEF Session!AcceptAnswered, Session!DiscardAnswered
<1> QED
  BY <1>1, <1>2, <1>3, <1>4, SessionIs, PostsStep

LEMMA CheckpointStep == ASSUME Session!Assumption, SessionInv, Session!Checkpoint PROVE SessionInv'
<1> DEFINE t == [lTab EXCEPT !.ckpt = None]
<1>1. lTab' = Session!Cleanup(Session!Handle(t)) \/ lTab' = t
  BY DEF Session!Checkpoint
<1>2. t \in SessionTab /\ t.cur = lTab.cur /\ t.handled = lTab.handled
  BY SessionIs DEF SessionTab, Session!SomeSession
<1> HIDE DEF t
<1>3. Sound(lTab')
  BY <1>1, <1>2, SessionIs, EndedSession DEF Sound
<1> QED
  BY <1>3, SessionIs, TabSteps DEF Session!Checkpoint

LEMMA ArrivesStep == ASSUME SessionInv, NEW x \in lPosts, Session!PostArrives(x) PROVE SessionInv'
<1>1. x \in PostForm
  BY SessionIs
<1>2. [x EXCEPT !.at = "ok"] \in PostForm /\ [x EXCEPT !.at = "no"] \in PostForm
  BY <1>1 DEF PostForm
<1>3. lSrv' \in [Sessions -> {"unknown", "live", "ready", "taken", "discarded", "over"}]
  BY SessionIs DEF Session!PostArrives
<1>4. \E y \in PostForm : lPosts' = (lPosts \ {x}) \cup {y}
  BY <1>2 DEF Session!PostArrives
<1>5. UNCHANGED <<lTab, lMaking, lSse, lFile, lDom, lSpent>>
  BY DEF Session!PostArrives
<1> QED
  BY <1>3, <1>4, <1>5, SessionIs, PostsStep

-----------------------------------------------------------------------------

LEMMA TimerAdded ==
  ASSUME NEW t \in SessionTab, NEW x \in TimerForm
  PROVE  /\ [t EXCEPT !.timers = @ \cup {x}] \in SessionTab
         /\ [t EXCEPT !.timers = @ \cup {x}].cur = t.cur /\ [t EXCEPT !.timers = @ \cup {x}].handled = t.handled
BY DEF SessionTab

LEMMA OnDoneIs == ASSUME NEW t, Sound(t), NEW s \in Sessions PROVE Sound(Session!OnDone(t, s))
<1> DEFINE x == [kind |-> "done", s |-> s, fresh |-> TRUE]
<1>1. x \in TimerForm
  BY DEF TimerForm, Session!TimerKinds
<1>2. t \in SessionTab
  BY DEF Sound
<1>3. Session!OnDone(t, s) \in {t, [t EXCEPT !.mode = "CYCLING"], [t EXCEPT !.timers = @ \cup {x}]}
  BY DEF Session!OnDone
<1> HIDE DEF x
<1>4. Sound([t EXCEPT !.mode = "CYCLING"])
  BY <1>2 DEF Sound, SessionTab, Session!Modes
<1>5. Sound([t EXCEPT !.timers = @ \cup {x}])
  BY <1>1, <1>2, TimerAdded DEF Sound
<1> QED
  BY <1>3, <1>4, <1>5

LEMMA OnErrorIs == ASSUME Session!Assumption, NEW t, Sound(t), NEW s \in Sessions PROVE Sound(Session!OnError(t, s))
<1> DEFINE k == IF t.kept.s = s THEN Session!Nothing ELSE t.kept
<1>1. t \in SessionTab /\ t.cur \notin t.handled /\ None \in Session!SomeSession /\ s \in Session!SomeSession
  BY DEF Sound, Session!SomeSession
<1>2. Session!Nothing \in KeptForm
  BY DEF Session!Nothing, KeptForm, Session!SomeSession, Session!Modes, Session!Assumption
<1>3. k \in KeptForm
  BY <1>1, <1>2 DEF SessionTab
<1>4. Session!OnError(t, s) \in {[t EXCEPT !.pend = None, !.awaiting = None, !.mode = "CYCLING"],
                         [t EXCEPT !.awaiting = None, !.told = s], Session!Cleanup(Session!Handle(t)),
                         [t EXCEPT !.kept = k, !.mode = "PICKING"]}
  BY DEF Session!OnError
<1> HIDE DEF k
<1>5. Sound([t EXCEPT !.pend = None, !.awaiting = None, !.mode = "CYCLING"])
  BY <1>1 DEF Sound, SessionTab, Session!Modes
<1>6. Sound([t EXCEPT !.awaiting = None, !.told = s])
  BY <1>1 DEF Sound, SessionTab
<1>7. Sound([t EXCEPT !.kept = k, !.mode = "PICKING"])
  BY <1>1, <1>3 DEF Sound, SessionTab, Session!Modes
<1> QED
  BY <1>1, <1>4, <1>5, <1>6, <1>7, EndedSession

LEMMA OnCompleteIs ==
  ASSUME Session!Assumption, NEW t, Sound(t), NEW s \in Sessions, NEW d PROVE Sound(Session!OnComplete(t, s, d))
<1> DEFINE a == IF t.awaiting = s THEN None ELSE t.awaiting
           u == [t EXCEPT !.awaiting = a]
<1>1. t \in SessionTab /\ t.cur \notin t.handled /\ None \in Session!SomeSession
  BY DEF Sound, Session!SomeSession
<1>2. a \in Session!SomeSession
  BY <1>1 DEF SessionTab
<1>3. Session!OnComplete(t, s, d) \in {u, [u EXCEPT !.pend = None], Session!CleanupAccepted(u, s, d)}
  BY DEF Session!OnComplete
<1> HIDE DEF a
<1>4. u \in SessionTab /\ u.cur = t.cur /\ u.handled = t.handled
  BY <1>1, <1>2 DEF SessionTab
<1> HIDE DEF u
<1>5. Sound(u) /\ Sound([u EXCEPT !.pend = None])
  BY <1>1, <1>4 DEF Sound, SessionTab
<1> QED
  BY <1>3, <1>4, <1>5, CleanupAcceptedIs

\* Every step of the agent: what it writes, and what the tab hears of it.
LEMMA AgentStep == ASSUME Session!Assumption, SessionInv, Session!Agent PROVE SessionInv'
<1>1. PICK s \in Sessions : \/ Session!AgentWrites(s) \/ Session!AgentDone(s) \/ Session!AgentFails(s)
                            \/ Session!AcceptDone(s) \/ Session!AcceptFails(s) \/ Session!LateAgentDone(s) \/ Session!DiscardDone(s)
  BY DEF Session!Agent
<1>2. lTab' \in {lTab, Session!OnDone(lTab, s), Session!OnError(lTab, s), Session!OnComplete(lTab, s, lDom), Session!OnAgentDone(lTab, s), Session!Cleanup(Session!Handle(lTab))}
  BY <1>1 DEF Session!AgentWrites, Session!AgentDone, Session!AgentFails, Session!AcceptDone, Session!AcceptFails, Session!LateAgentDone, Session!DiscardDone
<1>3. Sound(lTab')
  BY <1>2, SessionIs, OnDoneIs, OnErrorIs, OnCompleteIs, EndedSession DEF Session!OnAgentDone
<1>4. UNCHANGED <<lMaking, lPosts, lSse, lDom, lSpent>>
  BY <1>1 DEF Session!AgentWrites, Session!AgentDone, Session!AgentFails, Session!AcceptDone, Session!AcceptFails, Session!LateAgentDone, Session!DiscardDone
<1>5. lSrv' \in [Sessions -> {"unknown", "live", "ready", "taken", "discarded", "over"}]
  BY <1>1, SessionIs DEF Session!AgentWrites, Session!AgentDone, Session!AgentFails, Session!AcceptDone, Session!AcceptFails, Session!LateAgentDone, Session!DiscardDone
<1>6. lFile' \in Counts
  <2>1. Session!Absent \in Session!Absent..Count /\ 0..Count \subseteq Session!Absent..Count
    BY DEF Session!Absent, Session!Assumption
  <2>2. lFile' = lFile \/ (\E n \in Session!Absent..Count : lFile' = [lFile EXCEPT ![s] = n])
    BY <1>1, <2>1 DEF Session!AgentWrites, Session!AgentDone, Session!AgentFails, Session!AcceptDone, Session!AcceptFails, Session!LateAgentDone, Session!DiscardDone
  <2> QED
    BY <2>2, SessionIs DEF Counts
<1> QED
  BY <1>3, <1>4, <1>5, <1>6, SessionIs, TabSteps

LEMMA RecoverMissedIs == ASSUME NEW t, Sound(t) PROVE Sound(Session!RecoverMissed(t))
<1> DEFINE x == [kind |-> "done", s |-> t.cur, fresh |-> TRUE]
<1>1. t \in SessionTab /\ t.cur \notin t.handled
  BY DEF Sound
<1>2. Session!RecoverMissed(t) = t \/ (t.cur # None /\ Session!RecoverMissed(t) = [t EXCEPT !.timers = @ \cup {x}])
  BY DEF Session!RecoverMissed
<1>3. t.cur # None => x \in TimerForm
  BY <1>1 DEF TimerForm, Session!TimerKinds, SessionTab, Session!SomeSession
<1> HIDE DEF x
<1> QED
  BY <1>1, <1>2, <1>3, TimerAdded DEF Sound

LEMMA StreamStep == ASSUME Session!Assumption, SessionInv, Session!Stream PROVE SessionInv'
<1>1. CASE Session!Connect
  <2>1. PICK t \in IF Session!Wrappers(lDom) = {} /\ Session!Restores(lTab, Session!Active) # {} THEN Session!Restores(lTab, Session!Active) ELSE {lTab} :
          lTab' = LET r == Session!RecoverMissed(t) IN IF r.mode = "IDLE" THEN [r EXCEPT !.mode = "PICKING"] ELSE r
    BY <1>1 DEF Session!Connect
  <2>2. Session!Active \in SUBSET Sessions
    BY DEF Session!Active
  <2>3. Sound(t)
    BY <2>1, <2>2, SessionIs, RestoresAre
  <2> DEFINE r == Session!RecoverMissed(t)
  <2>4. Sound(r)
    BY <2>3, RecoverMissedIs
  <2>5. lTab' = r \/ lTab' = [r EXCEPT !.mode = "PICKING"]
    BY <2>1
  <2> HIDE DEF r
  <2>6. Sound(lTab')
    BY <2>4, <2>5 DEF Sound, SessionTab, Session!Modes
  <2> QED
    BY <1>1, <2>6, SessionIs, TabSteps DEF Session!Connect
<1>2. CASE Session!Drop
  <2>1. Sound(lTab)' /\ WorldTyped'
    BY <1>2 DEF SessionInv, WorldTyped, Sound, SessionTab, Session!Drop
  <2>2. lSpent' \in [loads : Nat, drops : Nat, hides : Nat, presses : 0..SessionPresses] /\ lSpent'.presses = lSpent.presses
    BY <1>2, SessionIs DEF Session!Drop
  <2>3. PostsCounted'
    BY <1>2, <2>2, SessionIs DEF Session!Drop, PostsCounted
  <2> QED
    BY <2>1, <2>3 DEF SessionInv
<1>3. CASE Session!ServerLost
  <2> DEFINE m == IF lTab.cur = None THEN "IDLE" ELSE lTab.mode
             u == [lTab EXCEPT !.mode = m, !.obs = None]
  <2>1. lTab \in SessionTab /\ None \in Session!SomeSession
    BY SessionIs DEF Session!SomeSession
  <2>2. m \in Session!Modes
    BY <2>1 DEF SessionTab, Session!Modes
  <2>3. lTab' = Session!Save(u)
    BY <1>3 DEF Session!ServerLost
  <2> HIDE DEF m
  <2>4. u \in SessionTab /\ u.cur = lTab.cur /\ u.handled = lTab.handled
    BY <2>1, <2>2 DEF SessionTab
  <2> HIDE DEF u
  <2>5. Sound(lTab')
    BY <2>3, <2>4, SaveSound, SessionIs DEF Sound
  <2> QED
    BY <1>3, <2>5, SessionIs, TabSteps DEF Session!ServerLost
<1> QED
  BY <1>1, <1>2, <1>3 DEF Session!Stream

-----------------------------------------------------------------------------
(* The page: mutations, reads and timers.                                  *)

LEMMA MutateStep == ASSUME Session!Assumption, SessionInv, NEW s \in Sessions, Session!Mutate(s) PROVE SessionInv'
<1>1. lDom' \in Counts
  BY SessionIs DEF Session!Mutate, Counts
<1>2. Sound(lTab')
  BY <1>1, SessionIs, WatchedIs DEF Session!Mutate
<1> QED
  BY <1>1, <1>2, SessionIs, TabSteps DEF Session!Mutate

\* A read is answered: the tab without it.
LEMMA ReadDone ==
  ASSUME NEW t, Sound(t), NEW x
  PROVE  Sound([t EXCEPT !.reads = @ \ {x}])
BY DEF Sound, SessionTab

LEMMA InjectedIs ==
  ASSUME Session!Assumption, NEW t, Sound(t), NEW s \in Sessions, NEW kind \in {"done", "orphan", "plain"}, NEW n \in 0..Count,
         NEW r \in Session!Injected(t, s, kind, n)
  PROVE  Sound(r)
<1> DEFINE z == [t EXCEPT !.arrived = 0]
           u == [t EXCEPT !.arrived = n, !.mode = "CYCLING"]
           w == [t EXCEPT !.arrived = 0, !.reads = @ \cup {[s |-> s, kind |-> kind]}]
<1>1. t \in SessionTab /\ t.cur \notin t.handled /\ 0 \in 0..Count
  BY DEF Sound, Session!Assumption
<1>2. r \in {Session!Save(u), z, w, Session!Cleanup(z)}
  BY DEF Session!Injected, Session!RecoverEmpty
<1>3. [s |-> s, kind |-> kind] \in ReadForm
  BY DEF ReadForm
<1>4. Sound(z)
  BY <1>1 DEF Sound, SessionTab
<1>5. Sound(u)
  BY <1>1 DEF Sound, SessionTab, Session!Modes
<1>6. Sound(w)
  BY <1>1, <1>3 DEF Sound, SessionTab
<1>7. Sound(Session!Save(u))
  BY <1>5, SaveSound
<1>8. Sound(Session!Cleanup(z))
  BY <1>4, CleanupIs DEF Sound
<1> QED
  BY <1>2, <1>4, <1>6, <1>7, <1>8

LEMMA OrphanIs == ASSUME Session!Assumption, NEW t \in SessionTab PROVE Sound(Session!DiscardOrphan(t))
BY EndedSession DEF Session!DiscardOrphan

LEMMA ReadStep ==
  ASSUME Session!Assumption, SessionInv, NEW x \in lTab.reads, Session!ReadAnswered(x) \/ Session!ReadFails(x) PROVE SessionInv'
<1> DEFINE t == [lTab EXCEPT !.reads = @ \ {x}]
           d == [lDom EXCEPT ![x.s] = lFile[x.s]]
<1>1. x \in ReadForm /\ x.s \in Sessions /\ x.kind \in {"done", "orphan", "plain"} /\ lTab \in SessionTab /\ Sound(lTab)
  BY SessionIs DEF SessionTab, ReadForm
<1>2. Sound(t) /\ t \in SessionTab
  BY <1>1, ReadDone DEF Sound
<1>3. UNCHANGED <<lMaking, lPosts, lSse, lSrv, lFile, lSpent>>
  BY DEF Session!ReadAnswered, Session!ReadFails
<1>4. d \in Counts /\ lFile[x.s] \in Session!Absent..Count /\ lDom[x.s] \in Session!Absent..Count
  BY <1>1, SessionIs DEF Counts
<1>5. CASE Session!ReadFails(x)
  BY <1>2, <1>3, <1>5, SessionIs, TabSteps DEF Session!ReadFails
<1>6. CASE Session!ReadAnswered(x) /\ ~Hmr
  <2>1. Session!ReadStatic(x)
    BY <1>6 DEF Session!ReadAnswered
  <2>2. CASE lFile[x.s] # Session!Absent
    <3>1. lFile[x.s] \in 0..Count
      BY <1>4, <2>2 DEF Session!Absent, Session!Assumption
    <3>2. PICK r \in Session!Injected(t, x.s, x.kind, lFile[x.s]) : lTab' \in Session!Watched(r, d)
      BY <2>1, <2>2 DEF Session!ReadStatic
    <3>3. lDom' = d
      BY <2>1, <2>2 DEF Session!ReadStatic
    <3> HIDE DEF t, d
    <3>4. Sound(r)
      BY <1>1, <1>2, <3>1, <3>2, InjectedIs
    <3>5. Sound(lTab')
      BY <1>4, <3>2, <3>4, WatchedIs
    <3> QED
      BY <1>3, <1>4, <3>3, <3>5, SessionIs, TabSteps
  <2>3. CASE lFile[x.s] = Session!Absent
    <3>1. lTab' \in {t, lTab, Session!DiscardOrphan(t)} /\ UNCHANGED lDom
      BY <2>1, <2>3 DEF Session!ReadStatic
    <3> HIDE DEF t
    <3>2. Sound(lTab')
      BY <1>1, <1>2, <3>1, OrphanIs
    <3> QED
      BY <1>3, <3>1, <3>2, SessionIs, TabSteps
  <2> QED
    BY <2>2, <2>3
<1>7. CASE Session!ReadAnswered(x) /\ Hmr
  <2>1. Session!ReadHmr(x)
    BY <1>7 DEF Session!ReadAnswered
  <2>2. /\ UNCHANGED lDom
        /\ \/ lTab' \in {t, lTab, Session!Cleanup(t), Session!DiscardOrphan(t)}
           \/ lDom[x.s] > 0 /\ lTab' \in Session!Injected(t, x.s, x.kind, lDom[x.s])
    BY <2>1 DEF Session!ReadHmr, Session!RecoverEmpty
  <2> HIDE DEF t
  <2>3. lDom[x.s] > 0 => lDom[x.s] \in 0..Count
    BY <1>4 DEF Session!Absent, Session!Assumption
  <2>4. Sound(lTab')
    BY <1>1, <1>2, <2>2, <2>3, InjectedIs, OrphanIs, CleanupIs
  <2> QED
    BY <1>3, <2>2, <2>4, SessionIs, TabSteps
<1> QED
  BY <1>5, <1>6, <1>7

LEMMA ExpireStep == ASSUME Session!Assumption, SessionInv, NEW x \in lTab.timers, Session!Expire(x) PROVE SessionInv'
<1> DEFINE t == [lTab EXCEPT !.timers = @ \ {x}]
           y(k) == [kind |-> k, s |-> x.s, fresh |-> x.fresh]
           next(k) == [t EXCEPT !.timers = @ \cup {y(k)}]
           u == [t EXCEPT !.reads = @ \cup {[s |-> x.s, kind |-> "done"]}]
           v == [t EXCEPT !.tries[x.s] = 0]
<1>1. x \in TimerForm /\ x.s \in Sessions /\ x.fresh \in BOOLEAN /\ lTab \in SessionTab /\ lTab.cur \notin lTab.handled
  BY SessionIs DEF SessionTab, TimerForm
<1>2. t \in SessionTab /\ t.cur \notin t.handled
  BY <1>1 DEF SessionTab
<1>3. lTab' \in {t, u, v, next("acceptHmr"), next("discardHmr")}
  BY DEF Session!Expire
<1>4. lDom' = lDom \/ lDom' = [lDom EXCEPT ![x.s] = Session!Absent]
  BY DEF Session!Expire
<1>5. UNCHANGED <<lMaking, lPosts, lSse, lSrv, lFile, lSpent>>
  BY DEF Session!Expire
<1>6. y("acceptHmr") \in TimerForm /\ y("discardHmr") \in TimerForm
  BY <1>1 DEF TimerForm, Session!TimerKinds, Session!ReloadKinds
<1>7. lDom' \in Counts
  <2>1. Session!Absent \in Session!Absent..Count
    BY DEF Session!Absent, Session!Assumption
  <2> QED
    BY <1>1, <1>4, <2>1, SessionIs DEF Counts
<1> HIDE DEF t, y
<1>8. Sound(u)
  <2>1. [s |-> x.s, kind |-> "done"] \in ReadForm
    BY <1>1 DEF ReadForm
  <2> QED
    BY <1>2, <2>1 DEF Sound, SessionTab
<1>9. Sound(v)
  <2> DEFINE n == [t.tries EXCEPT ![x.s] = 0]
  <2>1. n \in [Sessions -> 0..Session!Tries]
    BY <1>1, <1>2 DEF SessionTab, Session!Tries
  <2>2. v = [t EXCEPT !.tries = n]
    BY <1>1, <1>2 DEF SessionTab
  <2> HIDE DEF n, v
  <2>3. [t EXCEPT !.tries = n] \in SessionTab /\ [t EXCEPT !.tries = n].cur = t.cur /\ [t EXCEPT !.tries = n].handled = t.handled
    BY <1>2, <2>1 DEF SessionTab
  <2> QED
    BY <1>2, <2>2, <2>3 DEF Sound
<1>10. Sound(next("acceptHmr")) /\ Sound(next("discardHmr"))
  BY <1>2, <1>6, TimerAdded DEF Sound
<1>11. Sound(t)
  BY <1>2 DEF Sound
<1> HIDE DEF u, v, next
<1>12. Sound(lTab')
  BY <1>3, <1>8, <1>9, <1>10, <1>11
<1> QED
  BY <1>5, <1>7, <1>12, SessionIs, TabSteps

-----------------------------------------------------------------------------

LEMMA SessionKept == ASSUME Session!Assumption, SessionInv, [Session!Next]_Session!vars PROVE SessionInv'
<1>1. CASE Session!User
  BY <1>1, PickStep, AcceptStep, DiscardStep, LoadStep, UnmountStep, GoStep DEF Session!User, Session!Reload
<1>2. CASE Session!Answers
  BY <1>2, GenerateStep, AnsweredStep, CheckpointStep, ArrivesStep DEF Session!Answers
<1>3. CASE Session!Page
  <2>1. \A x : Session!ReloadTimer(x) => Session!LoadPage
    BY DEF Session!ReloadTimer
  <2> QED
    BY <1>3, <2>1, MutateStep, ReadStep, ExpireStep, LoadStep DEF Session!Page
<1>4. CASE UNCHANGED Session!vars
  BY <1>4, SessionIs, TabSteps DEF Session!vars
<1> QED
  BY <1>1, <1>2, <1>3, <1>4, AgentStep, StreamStep DEF Session!Next

LEMMA SessionSound == ASSUME SessionInv PROVE Session!TypeOK /\ Session!EndedStaysEnded
<1>1. Session!EndedStaysEnded
  BY SessionIs DEF Session!EndedStaysEnded
<1>2. /\ lTab.mode \in Session!Modes /\ lTab.arrived \in 0..Count
      /\ {lTab.cur, lTab.pend, lTab.awaiting, lTab.obs, lTab.ckpt, lTab.mine, lTab.told, lTab.kept.s} \subseteq Session!SomeSession
      /\ lTab.handled \subseteq Sessions /\ lTab.tries \in [Sessions -> 0..Session!Tries]
  BY SessionIs DEF SessionTab, KeptForm
<1>3. \A x \in lTab.timers : x.kind \in Session!TimerKinds /\ x.s \in Sessions /\ x.fresh \in BOOLEAN
  BY SessionIs DEF SessionTab, TimerForm
<1>4. \A x \in lTab.reads : x.s \in Sessions /\ x.kind \in {"done", "orphan", "plain"}
  BY SessionIs DEF SessionTab, ReadForm
<1>5. \A x \in lPosts : x.s \in Sessions /\ x.kind \in {"accept", "discard"} /\ x.n \in 1..SessionPresses
  BY SessionIs DEF PostForm
<1> QED
  BY <1>1, <1>2, <1>3, <1>4, <1>5, SessionIs DEF Session!TypeOK, Counts

\* A session that this browser has accepted, discarded or seen end is never its current
\* one again, through reloads, lost streams, late wrappers and timers of the tab
\* (live-browser.js 10024).
THEOREM EndedSessionStaysEnded ==
  ASSUME Session!Assumption
  PROVE  Session!Spec => [](Session!TypeOK /\ Session!EndedStaysEnded)
<1>1. Session!Init => SessionInv
  BY SessionInit
<1>2. SessionInv /\ [Session!Next]_Session!vars => SessionInv'
  BY SessionKept
<1>3. SessionInv => Session!TypeOK /\ Session!EndedStaysEnded
  BY SessionSound
<1> QED
  BY <1>1, <1>2, <1>3, PTL DEF Session!Spec

-----------------------------------------------------------------------------
(* Agent targets: the forms of what is on its way.                         *)

Target == INSTANCE AgentTarget WITH
  MaxFaults <- Faults, Mishaps <- TargetMishaps,
  tab <- aTab, chains <- aChains, req <- aReq, inbox <- aInbox, results <- aResults, gens <- aGens, goes <- aGoes,
  faults <- aFaults

-----------------------------------------------------------------------------
(* Induction over the natural numbers, as the existence of a smallest      *)
(* counterexample.                                                         *)

LEMMA SmallestNat == \A T \in SUBSET Nat : T # {} => \E m \in T : \A n \in T : m <= n
<1> SUFFICES ASSUME NEW T \in SUBSET Nat, T # {} PROVE \E m \in T : \A n \in T : m <= n
  OBVIOUS
<1>1. PICK m \in T : \A n \in T : ~ (<<n, m>> \in OpToRel(<, Nat))
  <2>1. IsWellFoundedOn(OpToRel(<, Nat), Nat)
    BY NatLessThanWellFounded
  <2> QED
    BY <2>1, WFMin
<1>2. \A n \in Nat : n < m => <<n, m>> \in OpToRel(<, Nat)
  BY DEF OpToRel
<1>3. \A n \in T : ~ (n < m)
  BY <1>1, <1>2, Zenon
<1> QED
  BY <1>3


TargetPage(x) ==
  [conn : BOOLEAN, alive : BOOLEAN, mode : {"PICKING", "CONFIGURING", "GENERATING"},
   session : Target!SessionIds \cup {None, Target!UserSession(x)}, applying : BOOLEAN, el : BOOLEAN,
   seen : [Targets -> {"none", "heard", "declined", "denied", "acting", "done"}], busied : SUBSET Targets]

ReqForm ==
  [status : {"none", "pending", "busy", "no_match", "served", "failed", "dry", "timeout"},
   lease : Tabs \cup {None, "gone"}, words : [Tabs -> {None, "busy", "no_match"}], by : Target!SessionIds \cup {None}]

\* What a chain waits for goes with where it is.
StageIs(at, what) ==
  /\ at \in {"start", "retry", "scroll"} => what = "claim"
  /\ at = "asked" => what \in {"claim", "renew", "busy", "miss"}
  /\ at \in {"claimed", "renewed"} => what \in {"granted", "pending", "over"}
  /\ at = "missed" => what \in {"pending", "over"}
  /\ at = "watch" => what = "miss"

ChainForm == {c \in Target!Possible : StageIs(c.at, c.what)}
ResultForm == [t : Targets, kind : {"dry", "served", "failed"}, by : Target!SessionIds \cup {None}]
GenForm == {g \in [t : Targets, by : Target!SessionIds, at : {"capturing", "sent", "refused"}] : g.by[2] = g.t}

TabsTyped == DOMAIN aTab = Tabs /\ \A x \in Tabs : aTab[x] \in TargetPage(x)
WireTyped ==
  /\ aChains \in SUBSET ChainForm /\ aResults \in SUBSET ResultForm /\ aGens \in SUBSET GenForm
  /\ aInbox \in [Tabs -> SUBSET Targets]
HelperTyped == aReq \in [Targets -> ReqForm] /\ aGoes \in [Targets -> Nat]

TargetTyped == TabsTyped /\ WireTyped /\ HelperTyped

-----------------------------------------------------------------------------
(* One Go for each target: the invariant.                                  *)

Of(c, x, t) == c.tab = x /\ c.t = t

\* A page that is gone hears nothing and holds nothing.
GoneIsQuiet ==
  \A x \in Tabs :
    /\ ~aTab[x].conn => aInbox[x] = {}
    /\ ~aTab[x].alive => ~aTab[x].conn /\ aTab[x].session = None /\ ~aTab[x].applying /\ aTab[x].mode # "GENERATING"

\* Nobody has heard of a target that was not asked for.
UnaskedIsUnheard ==
  \A t \in Targets : aReq[t].status = "none" =>
    /\ aGoes[t] = 0 /\ (\A c \in aChains : c.t # t) /\ \A g \in aGens : g.t # t
    /\ \A x \in Tabs : t \notin aInbox[x] /\ t \notin aTab[x].busied

\* A tab has one chain on a target, and its busy reports are behind it once the helper
\* has answered the chain.
OneChain ==
  \A c, d \in aChains : c.tab = d.tab /\ c.t = d.t /\ c.what # "busy" /\ d.what # "busy" => c = d

Through(c) == c.at \in {"claimed", "scroll", "renewed"} \/ c.what = "renew"
ReportsAreBehind ==
  \A c, d \in aChains : c.tab = d.tab /\ c.t = d.t /\ Through(c) => d.what # "busy"

\* A tab that has taken a lease acts on that target, and on no other.
ActsOn(c) == c.at \in {"scroll", "renewed"} \/ c.what = "renew"
ActingIsSeen == \A c \in aChains : ActsOn(c) /\ aTab[c.tab].alive => aTab[c.tab].seen[c.t] = "acting"
ActsOnOne ==
  \A x \in Tabs : \A t, u \in Targets :
    aTab[x].alive /\ aTab[x].seen[t] = "acting" /\ aTab[x].seen[u] = "acting" => t = u

\* A chain about to press Go holds the lease of a request that is still open, is the
\* only one of the target, and nobody has pressed Go for it.
MayPress(c) == c.at = "renewed" /\ c.what = "granted" /\ aTab[c.tab].alive
PressHoldsLease == \A c \in aChains : MayPress(c) /\ Target!Pending(c.t) => aReq[c.t].lease = c.tab
OnePresses == \A c, d \in aChains : MayPress(c) /\ MayPress(d) /\ c.t = d.t => c = d
PressIsFirst == \A c \in aChains : MayPress(c) => aGoes[c.t] = 0

\* What keeps tab x from a second Go for t: it has no chain on it, and shows the session
\* it opened until the helper has heard of it.
Keeps(x, t) ==
  /\ \A c \in aChains : ~Of(c, x, t)
  /\ aTab[x].alive =>
       /\ aTab[x].mode = "GENERATING" /\ aTab[x].seen[t] = "done"
       /\ \A u \in Targets : aTab[x].seen[u] # "acting"
       /\ \E g \in aGens : g.t = t /\ g.by = aTab[x].session /\ g.by[1] = x

\* After a Go the target is answered, or its result is on the way and the lease with
\* the tab that pressed, or with the page it has left.
SoldIsKept ==
  \A t \in Targets : aGoes[t] # 0 /\ Target!Pending(t) =>
    /\ \E m \in aResults : m.t = t
    /\ aReq[t].lease = "gone" \/ \E x \in Tabs : aReq[t].lease = x /\ Keeps(x, t)

RefusedIsAnswered == \A g \in aGens : g.at = "refused" => ~Target!Pending(g.t)

SaleInv ==
  /\ GoneIsQuiet /\ UnaskedIsUnheard /\ OneChain /\ ReportsAreBehind /\ ActingIsSeen /\ ActsOnOne
  /\ PressHoldsLease /\ OnePresses /\ PressIsFirst /\ SoldIsKept /\ RefusedIsAnswered /\ Target!OneGo
-----------------------------------------------------------------------------
(* What the tabs' functions return.                                        *)

LEMMA NoteIs ==
  ASSUME NEW x, NEW T \in TargetPage(x), NEW t \in Targets,
         NEW s \in {"none", "heard", "declined", "denied", "acting", "done"}
  PROVE  /\ Target!Note(T, t, s) \in TargetPage(x)
         /\ Target!Note(T, t, s) = [T EXCEPT !.seen = Target!Note(T, t, s).seen]
         /\ Target!Note(T, t, s).seen = [T.seen EXCEPT ![t] = s]
BY DEF Target!Note, TargetPage

LEMMA DeclineIs ==
  ASSUME NEW x, NEW T \in TargetPage(x), NEW t \in Targets
  PROVE  /\ Target!DeclineBusy(T, t) \in TargetPage(x)
         /\ Target!DeclineBusy(T, t).seen = [T.seen EXCEPT ![t] = "declined"]
         /\ Target!DeclineBusy(T, t).busied = T.busied \cup {t}
         /\ Target!DeclineBusy(T, t).conn = T.conn /\ Target!DeclineBusy(T, t).alive = T.alive
         /\ Target!DeclineBusy(T, t).mode = T.mode /\ Target!DeclineBusy(T, t).session = T.session
         /\ Target!DeclineBusy(T, t).applying = T.applying
BY DEF Target!DeclineBusy, Target!Note, TargetPage

LEMMA ClaimTabIs ==
  ASSUME NEW x, NEW T \in TargetPage(x), NEW t \in Targets
  PROVE  /\ Target!ClaimTab(T, t) \in TargetPage(x)
         /\ Target!ClaimTab(T, t).seen \in {T.seen, [T.seen EXCEPT ![t] = "declined"]}
         /\ Target!ClaimTab(T, t).busied \in {T.busied, T.busied \cup {t}}
         /\ Target!ClaimTab(T, t).conn = T.conn /\ Target!ClaimTab(T, t).alive = T.alive
         /\ Target!ClaimTab(T, t).mode = T.mode /\ Target!ClaimTab(T, t).session = T.session
         /\ Target!ClaimTab(T, t).applying = T.applying
         /\ ~T.alive => Target!ClaimTab(T, t) = T
         /\ Target!ClaimAsks(T, t) \in {"none", "busy", "miss", "claim"}
<1>1. Target!Note(T, t, "declined") \in TargetPage(x) /\ Target!DeclineBusy(T, t) \in TargetPage(x)
  BY NoteIs, DeclineIs
<1>2. Target!ClaimTab(T, t) \in {T, Target!Note(T, t, "declined"), Target!DeclineBusy(T, t)} /\ (~T.alive => Target!ClaimTab(T, t) = T)
  BY DEF Target!ClaimTab
<1>3. Target!ClaimAsks(T, t) \in {"none", "busy", "miss", "claim"}
  BY DEF Target!ClaimAsks
<1> QED
  BY <1>1, <1>2, <1>3 DEF Target!DeclineBusy, Target!Note, TargetPage

\* A new chain of tab x: it starts where none is under way but busy reports.
NewChain(c, x) ==
  /\ c \in ChainForm /\ c.tab = x /\ c.at \in {"start", "asked"} /\ c.what \in {"claim", "miss", "busy"}
  /\ \A d \in aChains : Of(d, x, c.t) /\ d.n = c.n => d.what = "busy"

LEMMA StartedIs ==
  ASSUME Target!Assumption, NEW x \in Tabs, NEW t \in Targets, NEW at \in {"start", "asked"},
         NEW what \in {"claim", "miss", "busy"}, at = "start" => what = "claim"
  PROVE  /\ \A c \in Target!Started(x, t, at, what) : NewChain(c, x) /\ c.t = t /\ c.at = at /\ c.what = what
         /\ \A c, d \in Target!Started(x, t, at, what) : c = d
         /\ (\A n \in Copies : \E c \in aChains : Of(c, x, t) /\ c.n = n /\ c.what # "busy")
              => Target!Started(x, t, at, what) = {}
<1> DEFINE free == {n \in Copies : ~\E c \in aChains : c.tab = x /\ c.t = t /\ c.n = n /\ c.what # "busy"}
           k == CHOOSE n \in free : \A m \in free : n <= m
<1>1. free \in SUBSET Nat
  BY DEF Target!Assumption
<1>2. free # {} => k \in free
  BY <1>1, SmallestNat
<1>3. Target!Started(x, t, at, what) = IF free = {} THEN {} ELSE {Target!Chain(x, t, k, at, what)}
  BY DEF Target!Started
<1>4. ASSUME free # {} PROVE NewChain(Target!Chain(x, t, k, at, what), x)
  <2>1. k \in Copies /\ \A d \in aChains : Of(d, x, t) /\ d.n = k => d.what = "busy"
    BY <1>2, <1>4 DEF Of
  <2> HIDE DEF k, free
  <2> QED
    BY <2>1 DEF NewChain, Target!Chain, ChainForm, Target!Possible, StageIs
<1>5. (\A n \in Copies : \E c \in aChains : Of(c, x, t) /\ c.n = n /\ c.what # "busy") => free = {}
  BY DEF Of
<1> HIDE DEF k, free
<1> QED
  BY <1>3, <1>4, <1>5 DEF Target!Chain

\* What Live gives: the tab as it was, but for what it declined, and claims of that.
Freed(x, T, L) ==
  /\ L.tab \in TargetPage(x)
  /\ L.tab.conn = T.conn /\ L.tab.alive = T.alive /\ L.tab.mode = T.mode /\ L.tab.session = T.session
  /\ L.tab.applying = T.applying /\ L.tab.busied \subseteq T.busied
  /\ \A t \in Targets : L.tab.seen[t] = T.seen[t] \/ L.tab.seen[t] = "declined"
  /\ Target!Busy(T, None) => L.tab = T /\ L.asks = {}
  /\ ~T.alive => L.asks = {}
  /\ \A c \in L.asks : NewChain(c, x) /\ c.t \in T.busied
  /\ \A c, d \in L.asks : c.t = d.t => c = d

LEMMA LiveIs ==
  ASSUME Target!Assumption, NEW x \in Tabs, NEW T \in TargetPage(x)
  PROVE  Freed(x, T, Target!Live(x, T))
<1>1. CASE T.busied = {} \/ Target!Busy(T, None)
  <2>1. Target!Live(x, T).tab = T /\ Target!Live(x, T).asks = {}
    BY <1>1 DEF Target!Live
  <2> QED
    BY <2>1 DEF Freed
<1>2. CASE ~(T.busied = {} \/ Target!Busy(T, None))
  <2> DEFINE s == [t \in Targets |-> IF t \in T.busied /\ ~T.el /\ T.alive THEN "declined" ELSE T.seen[t]]
             A(t) == LET a == Target!ClaimAsks(T, t) IN IF a = "none" THEN {} ELSE Target!Started(x, t, "asked", a)
  <2>1. /\ Target!Live(x, T).tab = [T EXCEPT !.busied = {}, !.seen = s]
        /\ Target!Live(x, T).asks = UNION {A(t) : t \in T.busied}
    BY <1>2 DEF Target!Live, TargetPage
  <2>2. /\ [T EXCEPT !.busied = {}, !.seen = s] \in TargetPage(x)
        /\ \A t \in Targets : s[t] = T.seen[t] \/ s[t] = "declined"
    BY DEF TargetPage
  <2>3. T.busied \subseteq Targets
    BY DEF TargetPage
  <2>4. \A t \in T.busied : \A c \in A(t) : NewChain(c, x) /\ c.t = t
    <3>1. SUFFICES ASSUME NEW t \in T.busied, NEW c \in A(t) PROVE NewChain(c, x) /\ c.t = t
      OBVIOUS
    <3>2. Target!ClaimAsks(T, t) \in {"claim", "miss", "busy"} /\ c \in Target!Started(x, t, "asked", Target!ClaimAsks(T, t))
      BY <3>1, <2>3, ClaimTabIs
    <3> QED
      BY <3>2, <2>3, StartedIs
  <2>5. \A t \in T.busied : \A c, d \in A(t) : c = d
    <3>1. SUFFICES ASSUME NEW t \in T.busied, NEW c \in A(t), NEW d \in A(t) PROVE c = d
      OBVIOUS
    <3>2. /\ Target!ClaimAsks(T, t) \in {"claim", "miss", "busy"} /\ c \in Target!Started(x, t, "asked", Target!ClaimAsks(T, t))
          /\ d \in Target!Started(x, t, "asked", Target!ClaimAsks(T, t))
      BY <3>1, <2>3, ClaimTabIs
    <3> QED
      BY <3>2, <2>3, StartedIs
  <2> HIDE DEF A, s
  <2>6. \A c \in Target!Live(x, T).asks : \E t \in T.busied : c \in A(t)
    BY <2>1
  <2>7. \A c \in Target!Live(x, T).asks : NewChain(c, x) /\ c.t \in T.busied /\ c \in A(c.t)
    BY <2>4, <2>6
  <2>8. \A c, d \in Target!Live(x, T).asks : c.t = d.t => c = d
    BY <2>5, <2>7
  <2>10. ~T.alive => Target!Live(x, T).asks = {}
    <3>1. ~T.alive => \A t \in T.busied : A(t) = {}
      BY DEF A, Target!ClaimAsks
    <3> QED
      BY <2>6, <3>1
  <2>9. /\ Target!Live(x, T).tab.conn = T.conn /\ Target!Live(x, T).tab.alive = T.alive /\ Target!Live(x, T).tab.mode = T.mode
        /\ Target!Live(x, T).tab.session = T.session /\ Target!Live(x, T).tab.applying = T.applying
        /\ Target!Live(x, T).tab.busied = {} /\ Target!Live(x, T).tab.seen = s
    BY <2>1 DEF TargetPage
  <2> QED
    BY <1>2, <2>1, <2>2, <2>7, <2>8, <2>9, <2>10 DEF Freed
<1> QED
  BY <1>1, <1>2
-----------------------------------------------------------------------------
(* The types.                                                              *)

LEMMA TabSet ==
  ASSUME TabsTyped, NEW x \in Tabs, NEW v \in TargetPage(x), aTab' = [aTab EXCEPT ![x] = v]
  PROVE  TabsTyped' /\ aTab'[x] = v /\ \A y \in Tabs : y # x => aTab'[y] = aTab[y]
BY DEF TabsTyped, TargetPage, Target!SessionIds, Target!UserSession

LEMMA ReqSet ==
  ASSUME aReq \in [Targets -> ReqForm], NEW t \in Targets, NEW r \in ReqForm, aReq' = [aReq EXCEPT ![t] = r]
  PROVE  aReq' \in [Targets -> ReqForm] /\ aReq'[t] = r /\ \A u \in Targets : u # t => aReq'[u] = aReq[u]
OBVIOUS

\* The chain goes on.
LEMMA OnwardIs ==
  ASSUME aChains \in SUBSET ChainForm, NEW c \in aChains, NEW at, NEW what,
         what # "none" => [c EXCEPT !.at = at, !.what = what] \in ChainForm
  PROVE  /\ Target!Onward(c, at, what) \in SUBSET ChainForm
         /\ what = "none" => Target!Onward(c, at, what) = aChains \ {c}
         /\ what # "none" => Target!Onward(c, at, what) = (aChains \ {c}) \cup {[c EXCEPT !.at = at, !.what = what]}
BY DEF Target!Onward

LEMMA StepTo ==
  ASSUME NEW c \in ChainForm,
         NEW at \in {"start", "retry", "asked", "claimed", "scroll", "renewed", "missed", "watch"},
         NEW what \in {"claim", "renew", "busy", "miss", "granted", "pending", "over"},
         StageIs(at, what)
  PROVE  [c EXCEPT !.at = at, !.what = what] \in ChainForm
BY DEF ChainForm, Target!Possible

LEMMA ReqFormed ==
  ASSUME NEW r \in ReqForm, NEW x \in Tabs
  PROVE  /\ Target!Claimed(r, x) \in ReqForm
         /\ \A word \in {"busy", "no_match"} : Target!Reported(r, x, word) \in ReqForm
         /\ \A S : Target!Settled(r, S) \in ReqForm
         /\ Target!Answer(r, x) \in {"over", "granted", "pending"}
<1>1. \A q \in ReqForm : \A S : Target!Settled(q, S) \in ReqForm
  BY DEF ReqForm, Target!Settled
<1>2. Target!Claimed(r, x) \in ReqForm
  BY DEF ReqForm, Target!Claimed
<1>3. ASSUME NEW word \in {"busy", "no_match"} PROVE Target!Reported(r, x, word) \in ReqForm
  <2> DEFINE q == [r EXCEPT !.words[x] = word, !.lease = IF @ = x THEN None ELSE @]
  <2>1. q \in ReqForm
    BY DEF ReqForm
  <2> HIDE DEF q
  <2>2. Target!Settled(q, Target!Connected) \in ReqForm
    BY <1>1, <2>1
  <2> QED
    BY <2>2 DEF Target!Reported, q
<1> QED
  BY <1>1, <1>2, <1>3 DEF Target!Answer

LEMMA ChainParts ==
  ASSUME NEW c \in ChainForm
  PROVE  c.tab \in Tabs /\ c.t \in Targets /\ c.n \in Copies /\ StageIs(c.at, c.what)
BY DEF ChainForm, Target!Possible

LEMMA ClaimsTyped ==
  ASSUME TargetTyped, NEW c \in aChains, Target!Claims(c), c.at \in {"start", "retry", "watch"}
  PROVE  TabsTyped' /\ aChains' \in SUBSET ChainForm
<1>1. c \in ChainForm /\ c.tab \in Tabs /\ c.t \in Targets /\ aTab[c.tab] \in TargetPage(c.tab)
  BY ChainParts DEF TargetTyped, WireTyped, TabsTyped
<1>2. /\ Target!ClaimTab(aTab[c.tab], c.t) \in TargetPage(c.tab)
      /\ Target!ClaimAsks(aTab[c.tab], c.t) \in {"none", "busy", "miss", "claim"}
  BY <1>1, ClaimTabIs
<1>3. aTab' = [aTab EXCEPT ![c.tab] = Target!ClaimTab(aTab[c.tab], c.t)] /\ aChains' = Target!Onward(c, "asked", Target!ClaimAsks(aTab[c.tab], c.t))
  BY DEF Target!Claims
<1>4. TabsTyped'
  BY <1>1, <1>2, <1>3, TabSet DEF TargetTyped
<1>5. ASSUME NEW w \in {"busy", "miss", "claim"} PROVE [c EXCEPT !.at = "asked", !.what = w] \in ChainForm
  BY <1>1, StepTo DEF StageIs
<1> QED
  BY <1>2, <1>3, <1>4, <1>5, OnwardIs DEF TargetTyped, WireTyped

LEMMA AskedTyped ==
  ASSUME TargetTyped, NEW c \in aChains, Target!Asked(c) PROVE TargetTyped'
<1> DEFINE r == CASE c.what \in {"claim", "renew"} -> Target!Claimed(aReq[c.t], c.tab)
                  [] c.what = "busy" -> Target!Reported(aReq[c.t], c.tab, "busy")
                  [] c.what = "miss" -> Target!Reported(aReq[c.t], c.tab, "no_match")
           a == IF c.what \in {"claim", "renew"} THEN Target!Answer(r, c.tab)
                ELSE IF r.status = "pending" THEN "pending" ELSE "over"
           at == [claim |-> "claimed", renew |-> "renewed", miss |-> "missed"][c.what]
<1>1. c \in ChainForm /\ c.tab \in Tabs /\ c.t \in Targets /\ aReq[c.t] \in ReqForm
  BY ChainParts DEF TargetTyped, WireTyped, HelperTyped
<1>2. c.at = "asked" /\ c.what \in {"claim", "renew", "busy", "miss"}
  BY <1>1 DEF Target!Asked, ChainForm, StageIs
<1>3. /\ aReq' = [aReq EXCEPT ![c.t] = r]
      /\ aChains' = IF c.what = "busy" THEN aChains \ {c} ELSE Target!Onward(c, at, a)
      /\ UNCHANGED <<aTab, aInbox, aResults, aGens, aGoes, aFaults>>
  BY DEF Target!Asked
<1>4. r \in ReqForm
  BY <1>1, <1>2, ReqFormed
<1> HIDE DEF r
<1>5. a \in {"over", "granted", "pending"} /\ (c.what = "miss" => a # "granted")
  BY <1>1, <1>4, ReqFormed
<1> HIDE DEF a
<1>6. c.what # "busy" => at \in {"claimed", "renewed", "missed"} /\ (c.what = "miss" <=> at = "missed")
  BY <1>2
<1> HIDE DEF at
<1>7. c.what # "busy" => [c EXCEPT !.at = at, !.what = a] \in ChainForm
  BY <1>1, <1>5, <1>6, StepTo DEF StageIs
<1>8. aChains' \in SUBSET ChainForm
  BY <1>3, <1>5, <1>7, OnwardIs DEF TargetTyped, WireTyped
<1> QED
  BY <1>1, <1>3, <1>4, <1>8, ReqSet DEF TargetTyped, WireTyped, HelperTyped, TabsTyped

\* What Go leaves; L is what the tab claims, now that it is free.
Gone(c, ok, L) ==
  /\ Freed(c.tab, [aTab[c.tab] EXCEPT !.mode = "CONFIGURING"], L)
  /\ aTab'[c.tab] \in TargetPage(c.tab) /\ aTab'[c.tab].seen = [L.tab.seen EXCEPT ![c.t] = "done"]
  /\ aTab'[c.tab].mode = (IF ok THEN "GENERATING" ELSE "CONFIGURING")
  /\ aTab'[c.tab].session = (IF ok THEN <<c.tab, c.t, c.n>> ELSE aTab[c.tab].session)
  /\ aTab'[c.tab].conn = aTab[c.tab].conn /\ aTab'[c.tab].alive = aTab[c.tab].alive
  /\ aTab'[c.tab].busied = L.tab.busied
  /\ \A y \in Tabs : y # c.tab => aTab'[y] = aTab[y]
  /\ aChains' = (aChains \ {c}) \cup L.asks
  /\ aGoes' = [aGoes EXCEPT ![c.t] = IF ok THEN @ + 1 ELSE @]
  /\ aGens' = (IF ok THEN aGens \cup {[t |-> c.t, by |-> <<c.tab, c.t, c.n>>, at |-> "capturing"]} ELSE aGens)
  /\ \E m \in ResultForm : m.t = c.t /\ aResults' = aResults \cup {m}
  /\ UNCHANGED <<aReq, aInbox, aFaults>> /\ TabsTyped'

LEMMA GoIs ==
  ASSUME TargetTyped, Target!Assumption, NEW c \in aChains, Target!Go(c)
  PROVE  \E ok \in BOOLEAN : \E L : Gone(c, ok, L)
<1> DEFINE x == c.tab
           id == <<x, c.t, c.n>>
           T == [aTab[x] EXCEPT !.mode = "CONFIGURING"]
           L == Target!Live(x, T)
           ok == ~L.tab.applying
           N == IF ok THEN [L.tab EXCEPT !.mode = "GENERATING", !.session = id] ELSE L.tab
           m == [t |-> c.t, kind |-> IF ok THEN "served" ELSE "failed", by |-> IF ok THEN id ELSE None]
<1>1. x \in Tabs /\ c.t \in Targets /\ c.n \in Copies /\ aTab[x] \in TargetPage(x)
  BY ChainParts DEF TargetTyped, WireTyped, TabsTyped
<1>2. T \in TargetPage(x) /\ T.conn = aTab[x].conn /\ T.alive = aTab[x].alive /\ T.session = aTab[x].session
      /\ T.mode = "CONFIGURING" /\ T.applying = aTab[x].applying
  BY <1>1 DEF TargetPage
<1>3. Freed(x, T, L)
  BY <1>1, <1>2, LiveIs
<1>4. /\ aTab' = [aTab EXCEPT ![x] = Target!Note(N, c.t, "done")]
      /\ aChains' = (aChains \ {c}) \cup L.asks
      /\ aGoes' = [aGoes EXCEPT ![c.t] = IF ok THEN @ + 1 ELSE @]
      /\ aGens' = IF ok THEN aGens \cup {[t |-> c.t, by |-> id, at |-> "capturing"]} ELSE aGens
      /\ aResults' = aResults \cup {m}
      /\ UNCHANGED <<aReq, aInbox, aFaults>>
  BY DEF Target!Go
<1> HIDE DEF L
<1>5. /\ L.tab \in TargetPage(x) /\ L.tab.conn = T.conn /\ L.tab.alive = T.alive /\ L.tab.session = T.session
      /\ L.tab.mode = T.mode /\ L.tab.applying = T.applying
  BY <1>3 DEF Freed
<1> HIDE DEF T
<1>6. id \in Target!SessionIds
  BY <1>1 DEF Target!SessionIds
<1>7. N \in TargetPage(x) /\ N.seen = L.tab.seen /\ N.busied = L.tab.busied /\ N.conn = L.tab.conn
      /\ N.alive = L.tab.alive /\ N.applying = L.tab.applying
      /\ N.mode = (IF ok THEN "GENERATING" ELSE L.tab.mode) /\ N.session = (IF ok THEN id ELSE L.tab.session)
  <2>1. CASE ok
    BY <1>5, <1>6, <2>1 DEF TargetPage
  <2>2. CASE ~ok
    BY <1>5, <2>2
  <2> QED
    BY <2>1, <2>2
<1>8. m \in ResultForm
  BY <1>1, <1>6 DEF ResultForm
<1> HIDE DEF N, m, id
<1>9. Target!Note(N, c.t, "done") \in TargetPage(x) /\ Target!Note(N, c.t, "done") = [N EXCEPT !.seen = [N.seen EXCEPT ![c.t] = "done"]]
  <2>1. N \in TargetPage(x)
    BY <1>7
  <2> QED
    BY <1>1, <2>1 DEF TargetPage, Target!Note
<1>10. TabsTyped' /\ aTab'[x] = Target!Note(N, c.t, "done") /\ \A y \in Tabs : y # x => aTab'[y] = aTab[y]
  BY <1>1, <1>4, <1>9, TabSet DEF TargetTyped
<1>11. /\ aTab'[x] \in TargetPage(x) /\ aTab'[x].seen = [L.tab.seen EXCEPT ![c.t] = "done"]
       /\ aTab'[x].mode = (IF ok THEN "GENERATING" ELSE "CONFIGURING")
       /\ aTab'[x].session = (IF ok THEN id ELSE aTab[x].session)
       /\ aTab'[x].conn = aTab[x].conn /\ aTab'[x].alive = aTab[x].alive /\ aTab'[x].applying = aTab[x].applying
       /\ aTab'[x].busied = L.tab.busied
  BY <1>2, <1>5, <1>7, <1>9, <1>10 DEF TargetPage
<1>12. ok = ~T.applying /\ ok \in BOOLEAN /\ m.t = c.t
  BY <1>2, <1>5 DEF TargetPage, m
<1>13. \E M \in ResultForm : M.t = c.t /\ aResults' = aResults \cup {M}
  BY <1>4, <1>8, <1>12
<1>14. Gone(c, ok, L)
  BY <1>3, <1>4, <1>10, <1>11, <1>13 DEF Gone, T, id
<1> QED
  BY <1>12, <1>14
-----------------------------------------------------------------------------
(* What each of the parts of SaleInv rests on.                             *)

LEMMA ThroughIsNotBusy == ASSUME NEW c \in ChainForm, Through(c) PROVE c.what # "busy"
BY DEF Through, ChainForm, StageIs

LEMMA FewerChains ==
  ASSUME OneChain, ReportsAreBehind, aChains' \subseteq aChains PROVE OneChain' /\ ReportsAreBehind'
BY DEF OneChain, ReportsAreBehind, Through

LEMMA ChainMoves ==
  ASSUME aChains \in SUBSET ChainForm, OneChain, ReportsAreBehind,
         NEW c \in aChains, c.what # "busy", NEW d \in ChainForm, Of(d, c.tab, c.t),
         aChains' \subseteq (aChains \ {c}) \cup {d},
         Through(d) => Through(c) \/ \A e \in aChains : Of(e, c.tab, c.t) => e.what # "busy"
  PROVE  OneChain' /\ ReportsAreBehind'
<1>1. \A e \in aChains : Of(e, c.tab, c.t) /\ e.what # "busy" => e = c
  BY DEF OneChain, Of
<1>2. \A e \in aChains' : e = d \/ (e \in aChains /\ e # c)
  OBVIOUS
<1>3. OneChain'
  BY <1>1, <1>2 DEF OneChain, Of
<1>4. ASSUME NEW e \in aChains', NEW f \in aChains', e.tab = f.tab, e.t = f.t, Through(e) PROVE f.what # "busy"
  <2>1. CASE e = d /\ f = d
    BY <1>4, <2>1, ThroughIsNotBusy
  <2>2. CASE e = d /\ f # d
    <3>1. f \in aChains /\ Of(f, c.tab, c.t)
      BY <1>2, <1>4, <2>2 DEF Of
    <3>2. Through(c) => f.what # "busy"
      BY <3>1 DEF ReportsAreBehind, Of
    <3> QED
      BY <1>4, <2>2, <3>1, <3>2
  <2>3. CASE e # d /\ f = d
    <3>1. e \in aChains /\ e # c /\ Of(e, c.tab, c.t)
      BY <1>2, <1>4, <2>3 DEF Of
    <3> QED
      BY <1>1, <1>4, <3>1, ThroughIsNotBusy
  <2>4. CASE e # d /\ f # d
    BY <1>2, <1>4, <2>4 DEF ReportsAreBehind
  <2> QED
    BY <2>1, <2>2, <2>3, <2>4
<1>5. ReportsAreBehind'
  BY <1>4 DEF ReportsAreBehind, Through
<1> QED
  BY <1>3, <1>5

OneCopy == \A m, n \in Copies : m = n

LEMMA ChainsBegin ==
  ASSUME OneCopy, aChains \in SUBSET ChainForm, OneChain, ReportsAreBehind, NEW x, NEW A,
         \A a \in A : NewChain(a, x), \A a, b \in A : a.t = b.t => a = b, aChains' \subseteq aChains \cup A
  PROVE  OneChain' /\ ReportsAreBehind'
<1>1. \A a \in A : \A d \in aChains : Of(d, x, a.t) => d.what = "busy"
  BY ChainParts DEF NewChain, OneCopy
<1>2. \A a \in A : a.tab = x /\ ~Through(a)
  BY DEF NewChain, Through
<1>3. OneChain'
  BY <1>1, <1>2 DEF OneChain, Of
<1>4. ASSUME NEW e \in aChains', NEW f \in aChains', e.tab = f.tab, e.t = f.t, Through(e) PROVE f.what # "busy"
  <2>1. e \in aChains
    BY <1>2, <1>4
  <2>2. CASE f \in aChains
    BY <1>4, <2>1, <2>2 DEF ReportsAreBehind
  <2>3. CASE f \in A
    <3>1. Of(e, x, f.t)
      BY <1>2, <1>4, <2>3 DEF Of
    <3> QED
      BY <1>1, <1>4, <2>1, <2>3, <3>1, ThroughIsNotBusy
  <2> QED
    BY <2>2, <2>3
<1> QED
  BY <1>3, <1>4 DEF ReportsAreBehind, Through

Heard(t) ==
  (\E g \in aGens : g.t = t) \/ (\E c \in aChains : c.t = t) \/ (\E x \in Tabs : t \in aInbox[x] \/ t \in aTab[x].busied)

LEMMA UnaskedKeeps ==
  ASSUME UnaskedIsUnheard,
         \A t \in Targets : aReq'[t].status = "none" => aReq[t].status = "none" /\ aGoes'[t] = aGoes[t] /\ (Heard(t)' => Heard(t))
  PROVE  UnaskedIsUnheard'
<1>1. ASSUME NEW t \in Targets, aReq'[t].status = "none"
      PROVE  aGoes'[t] = 0 /\ (\A c \in aChains' : c.t # t) /\ (\A g \in aGens' : g.t # t) /\ \A x \in Tabs : t \notin aInbox'[x] /\ t \notin aTab'[x].busied
  <2>1. aReq[t].status = "none" /\ aGoes'[t] = 0 /\ ~Heard(t)
    BY <1>1 DEF UnaskedIsUnheard, Heard
  <2>2. ~Heard(t)'
    BY <1>1, <2>1
  <2> QED
    BY <2>1, <2>2 DEF Heard
<1> QED
  BY <1>1 DEF UnaskedIsUnheard

Pressing == PressHoldsLease /\ OnePresses /\ PressIsFirst

LEMMA PressKeeps ==
  ASSUME Pressing,
         \A c \in aChains' : MayPress(c)' =>
           /\ c \in aChains /\ MayPress(c) /\ aGoes'[c.t] = aGoes[c.t]
           /\ Target!Pending(c.t)' => Target!Pending(c.t) /\ aReq'[c.t].lease = aReq[c.t].lease
  PROVE  Pressing'
<1>1. PressHoldsLease'
  BY DEF Pressing, PressHoldsLease
<1>2. OnePresses'
  BY DEF Pressing, OnePresses
<1>3. PressIsFirst'
  BY DEF Pressing, PressIsFirst
<1> QED
  BY <1>1, <1>2, <1>3 DEF Pressing

LEMMA SoldKeeps ==
  ASSUME SoldIsKept,
         \A t \in Targets : aGoes'[t] # 0 /\ Target!Pending(t)' =>
           /\ aGoes[t] # 0 /\ Target!Pending(t) /\ \A m \in aResults : m.t = t => m \in aResults'
           /\ aReq[t].lease = "gone" => aReq'[t].lease = "gone"
           /\ \A x \in Tabs : aReq[t].lease = x /\ Keeps(x, t) =>
                aReq'[t].lease = "gone" \/ (aReq'[t].lease = x /\ Keeps(x, t)')
  PROVE  SoldIsKept'
<1>1. ASSUME NEW t \in Targets, aGoes'[t] # 0, Target!Pending(t)'
      PROVE  /\ \E m \in aResults' : m.t = t
             /\ aReq'[t].lease = "gone" \/ \E x \in Tabs : aReq'[t].lease = x /\ Keeps(x, t)'
  <2>1. aGoes[t] # 0 /\ Target!Pending(t)
    BY <1>1
  <2>2. \E m \in aResults' : m.t = t
    BY <1>1, <2>1 DEF SoldIsKept
  <2>3. aReq[t].lease = "gone" \/ \E x \in Tabs : aReq[t].lease = x /\ Keeps(x, t)
    BY <2>1 DEF SoldIsKept
  <2>4. CASE aReq[t].lease = "gone"
    BY <1>1, <2>2, <2>4
  <2>5. CASE \E x \in Tabs : aReq[t].lease = x /\ Keeps(x, t)
    <3>1. PICK x \in Tabs : aReq[t].lease = x /\ Keeps(x, t)
      BY <2>5
    <3>2. aReq'[t].lease = "gone" \/ (aReq'[t].lease = x /\ Keeps(x, t)')
      BY <1>1, <3>1
    <3> QED
      BY <2>2, <3>2
  <2> QED
    BY <2>3, <2>4, <2>5
<1> QED
  BY <1>1 DEF SoldIsKept

LEMMA KeepsOn ==
  ASSUME NEW x \in Tabs, NEW t \in Targets, Keeps(x, t),
         \A c \in aChains' : c.tab = x /\ c.t = t => \E d \in aChains : d.tab = x /\ d.t = t,
         aTab'[x].alive => /\ aTab[x].alive /\ aTab'[x].mode = aTab[x].mode /\ aTab'[x].session = aTab[x].session
                          /\ aTab'[x].seen[t] = aTab[x].seen[t]
                          /\ \A u \in Targets : aTab'[x].seen[u] = "acting" => aTab[x].seen[u] = "acting",
         \A g \in aGens : g.t = t /\ g.by[1] = x => \E h \in aGens' : h.t = t /\ h.by = g.by
  PROVE  Keeps(x, t)'
BY DEF Keeps, Of

\* An answered request is not asked again.
ReqIsMonotone ==
  \A t \in Targets : (aReq'[t].status = "none" => aReq[t].status = "none") /\ (Target!Pending(t)' => Target!Pending(t))

LEMMA RefusedKeeps ==
  ASSUME aGens' \in SUBSET GenForm, RefusedIsAnswered, ReqIsMonotone,
         \A g \in aGens' : g.at = "refused" => g \in aGens \/ ~Target!Pending(g.t)
  PROVE  RefusedIsAnswered'
<1>1. ASSUME NEW g \in aGens', g.at = "refused" PROVE ~Target!Pending(g.t)'
  <2>1. g.t \in Targets /\ ~Target!Pending(g.t)
    BY <1>1 DEF RefusedIsAnswered, GenForm
  <2> QED
    BY <2>1 DEF ReqIsMonotone, Target!Pending
<1> QED
  BY <1>1 DEF RefusedIsAnswered
-----------------------------------------------------------------------------
(* A chain that goes on, or ends, before it comes to Go.                   *)

\* Chain c becomes d, or ends, and changes no tab but its own: marks the target there.
Steps(c, d) ==
  /\ c \in aChains /\ c.what # "busy" /\ d \in ChainForm /\ Of(d, c.tab, c.t) /\ d.at # "renewed"
  /\ aChains' \subseteq (aChains \ {c}) \cup {d}
  /\ Through(d) => Through(c)
  /\ ActsOn(d) /\ aTab'[c.tab].alive => aTab'[c.tab].seen[c.t] = "acting"
  /\ \A m \in aResults : m \in aResults'
  /\ UNCHANGED <<aReq, aInbox, aGens, aGoes>>

Marks(c) ==
  /\ \A y \in Tabs : y # c.tab => aTab'[y] = aTab[y]
  /\ aTab'[c.tab].conn = aTab[c.tab].conn /\ aTab'[c.tab].alive = aTab[c.tab].alive
  /\ aTab'[c.tab].session = aTab[c.tab].session /\ aTab'[c.tab].applying = aTab[c.tab].applying
  /\ aTab'[c.tab].mode = aTab[c.tab].mode \/ (~aTab[c.tab].alive /\ aTab'[c.tab].mode # "GENERATING")
  /\ aTab'[c.tab].busied \subseteq aTab[c.tab].busied \cup {c.t}
  /\ \A u \in Targets : u # c.t => aTab'[c.tab].seen[u] = aTab[c.tab].seen[u]
  /\ aTab[c.tab].alive /\ aTab'[c.tab].seen[c.t] = "acting" =>
       \/ aTab[c.tab].seen[c.t] = "acting"
       \/ aTab[c.tab].mode # "GENERATING" /\ \A u \in Targets : aTab[c.tab].seen[u] # "acting"

LEMMA StepsKeepTheSale ==
  ASSUME TargetTyped, SaleInv, NEW c, NEW d, Steps(c, d), Marks(c) PROVE SaleInv'
<1>1. c \in aChains /\ c \in ChainForm /\ c.tab \in Tabs /\ c.t \in Targets
  BY ChainParts DEF Steps, TargetTyped, WireTyped
<1>2. \A e \in aChains' : e = d \/ (e \in aChains /\ e # c)
  BY DEF Steps
<1>3. d.tab = c.tab /\ d.t = c.t
  BY DEF Steps, Of
<1>4. \A e \in aChains' : \E f \in aChains : f.tab = e.tab /\ f.t = e.t
  BY <1>1, <1>2, <1>3
<1>5. GoneIsQuiet'
  BY <1>1 DEF Steps, Marks, SaleInv, GoneIsQuiet
<1>6. UnaskedIsUnheard'
  <2>1. ASSUME NEW t \in Targets, Heard(t)' PROVE Heard(t)
    <3>1. CASE \E e \in aChains' : e.t = t
      BY <1>4, <3>1 DEF Heard
    <3>2. CASE \E x \in Tabs : t \in aInbox'[x]
      BY <3>2 DEF Heard, Steps
    <3>3. CASE \E x \in Tabs : t \in aTab'[x].busied
      BY <1>1, <3>3 DEF Heard, Marks
    <3>4. CASE \E g \in aGens' : g.t = t
      BY <3>4 DEF Heard, Steps
    <3> QED
      BY <2>1, <3>1, <3>2, <3>3, <3>4 DEF Heard
  <2> QED
    BY <2>1, UnaskedKeeps DEF SaleInv, Steps
<1>7. OneChain' /\ ReportsAreBehind'
  BY <1>1, ChainMoves DEF SaleInv, TargetTyped, WireTyped, Steps
<1>8. ActingIsSeen'
  <2>1. SUFFICES ASSUME NEW e \in aChains', ActsOn(e), aTab'[e.tab].alive PROVE aTab'[e.tab].seen[e.t] = "acting"
    BY DEF ActingIsSeen, ActsOn
  <2>2. CASE e = d
    BY <1>3, <2>1, <2>2 DEF Steps
  <2>3. CASE e # d
    <3>1. e \in aChains /\ e # c /\ e \in ChainForm /\ e.tab \in Tabs /\ e.t \in Targets
      BY <1>2, <2>3, ChainParts DEF TargetTyped, WireTyped
    <3>2. e.what # "busy"
      BY <2>1, <3>1 DEF ActsOn, ChainForm, StageIs
    <3>3. ~(e.tab = c.tab /\ e.t = c.t)
      BY <1>1, <3>1, <3>2 DEF Steps, SaleInv, OneChain
    <3>4. aTab'[e.tab].alive = aTab[e.tab].alive /\ aTab'[e.tab].seen[e.t] = aTab[e.tab].seen[e.t]
      BY <1>1, <3>1, <3>3 DEF Marks
    <3> QED
      BY <2>1, <3>1, <3>4 DEF SaleInv, ActingIsSeen
  <2> QED
    BY <2>2, <2>3
<1>9. ActsOnOne'
  <2>1. SUFFICES ASSUME NEW x \in Tabs, NEW t \in Targets, NEW u \in Targets, aTab'[x].alive,
                        aTab'[x].seen[t] = "acting", aTab'[x].seen[u] = "acting" PROVE t = u
    BY DEF ActsOnOne
  <2>2. CASE x # c.tab
    BY <2>1, <2>2 DEF Marks, SaleInv, ActsOnOne
  <2>3. CASE x = c.tab
    <3>1. aTab[x].alive
      BY <2>1, <2>3 DEF Marks
    <3>2. \A v, w \in Targets : aTab[x].seen[v] = "acting" /\ aTab[x].seen[w] = "acting" => v = w
      BY <3>1 DEF SaleInv, ActsOnOne
    <3>3. \A v \in Targets : v # c.t /\ aTab'[x].seen[v] = "acting" => aTab[x].seen[v] = "acting"
      BY <2>3 DEF Marks
    <3>4. aTab'[x].seen[c.t] = "acting" => aTab[x].seen[c.t] = "acting" \/ \A v \in Targets : aTab[x].seen[v] # "acting"
      BY <2>3, <3>1 DEF Marks
    <3> QED
      BY <1>1, <2>1, <3>2, <3>3, <3>4
  <2> QED
    BY <2>2, <2>3
<1>10. Pressing'
  <2>1. ASSUME NEW e \in aChains', MayPress(e)' PROVE e \in aChains /\ MayPress(e)
    <3>1. e \in aChains /\ e.tab \in Tabs /\ e.at = "renewed" /\ e.what = "granted" /\ aTab'[e.tab].alive
      BY <1>2, <2>1, ChainParts DEF MayPress, Steps, TargetTyped, WireTyped
    <3> QED
      BY <3>1 DEF Marks, MayPress
  <2>2. Pressing
    BY DEF SaleInv, Pressing
  <2> QED
    BY <2>1, <2>2, PressKeeps DEF Steps, Target!Pending
<1>11. SoldIsKept'
  <2>1. ASSUME NEW x \in Tabs, NEW t \in Targets, Keeps(x, t) PROVE Keeps(x, t)'
    <3>1. ~(c.tab = x /\ c.t = t)
      BY <1>1, <2>1 DEF Keeps, Of
    <3>2. \A e \in aChains' : e.tab = x /\ e.t = t => \E f \in aChains : f.tab = x /\ f.t = t
      BY <1>4
    <3>3. ASSUME aTab'[x].alive
          PROVE  /\ aTab[x].alive /\ aTab'[x].mode = aTab[x].mode /\ aTab'[x].session = aTab[x].session
                 /\ aTab'[x].seen[t] = aTab[x].seen[t]
                 /\ \A u \in Targets : aTab'[x].seen[u] = "acting" => aTab[x].seen[u] = "acting"
      <4>1. CASE x # c.tab
        BY <3>3, <4>1 DEF Marks
      <4>2. CASE x = c.tab
        <5>1. aTab[x].alive /\ aTab[x].mode = "GENERATING"
          BY <2>1, <3>3, <4>2 DEF Marks, Keeps
        <5> QED
          BY <3>1, <4>2, <5>1 DEF Marks
      <4> QED
        BY <4>1, <4>2
    <3> QED
      BY <2>1, <3>2, <3>3, KeepsOn DEF Steps
  <2> QED
    BY <2>1, SoldKeeps DEF SaleInv, Steps, Target!Pending
<1>12. RefusedIsAnswered' /\ Target!OneGo'
  BY DEF SaleInv, Steps, RefusedIsAnswered, Target!OneGo, Target!Pending
<1> QED
  BY <1>5, <1>6, <1>7, <1>8, <1>9, <1>10, <1>11, <1>12 DEF SaleInv, Pressing
-----------------------------------------------------------------------------
(* The chain steps before Go.                                              *)

Sale == TargetTyped /\ SaleInv

\* A chain that ends: as a chain that waits for nothing.
Ended(c) == [c EXCEPT !.at = "start", !.what = "claim"]

LEMMA EndedIs ==
  ASSUME NEW c \in ChainForm
  PROVE  /\ Ended(c) \in ChainForm /\ Of(Ended(c), c.tab, c.t) /\ Ended(c).at = "start"
         /\ ~Through(Ended(c)) /\ ~ActsOn(Ended(c))
BY DEF Ended, ChainForm, Target!Possible, StageIs, Of, Through, ActsOn

\* A chain that goes on.
On(c, at, what) == [c EXCEPT !.at = at, !.what = what]

LEMMA OnIs ==
  ASSUME NEW c \in ChainForm, NEW at, NEW what, StageIs(at, what),
         at \in {"start", "retry", "asked", "scroll", "missed", "watch"},
         what \in {"claim", "renew", "busy", "miss", "granted", "pending", "over"}
  PROVE  On(c, at, what) \in ChainForm /\ Of(On(c, at, what), c.tab, c.t) /\ On(c, at, what).at = at /\ On(c, at, what).what = what
<1>1. On(c, at, what) \in ChainForm
  BY DEF On, ChainForm, Target!Possible
<1> QED
  BY <1>1 DEF On, Of, ChainForm, Target!Possible

LEMMA ChainHas ==
  ASSUME TargetTyped, NEW c \in aChains
  PROVE  /\ c \in ChainForm /\ c.tab \in Tabs /\ c.t \in Targets /\ c.n \in Copies /\ StageIs(c.at, c.what)
         /\ aTab[c.tab] \in TargetPage(c.tab) /\ aChains \in SUBSET ChainForm
BY ChainParts DEF TargetTyped, WireTyped, TabsTyped

\* The tab's claim, and the request of its chain.
LEMMA ClaimsKeep ==
  ASSUME Sale, NEW c \in aChains, c.at \in {"start", "retry", "watch"}, Target!Claims(c),
         UNCHANGED <<aReq, aInbox, aResults, aGens, aGoes>>
  PROVE  Sale'
<1> DEFINE T == aTab[c.tab]
           a == Target!ClaimAsks(aTab[c.tab], c.t)
<1>1. TargetTyped /\ SaleInv /\ c \in ChainForm /\ c.tab \in Tabs /\ c.t \in Targets /\ T \in TargetPage(c.tab)
      /\ StageIs(c.at, c.what) /\ aChains \in SUBSET ChainForm
  BY ChainHas DEF Sale
<1>2. aTab' = [aTab EXCEPT ![c.tab] = Target!ClaimTab(T, c.t)] /\ aChains' = Target!Onward(c, "asked", a)
  BY DEF Target!Claims
<1>3. /\ Target!ClaimTab(T, c.t) \in TargetPage(c.tab)
      /\ Target!ClaimTab(T, c.t).seen \in {T.seen, [T.seen EXCEPT ![c.t] = "declined"]}
      /\ Target!ClaimTab(T, c.t).busied \in {T.busied, T.busied \cup {c.t}}
      /\ Target!ClaimTab(T, c.t).conn = T.conn /\ Target!ClaimTab(T, c.t).alive = T.alive
      /\ Target!ClaimTab(T, c.t).mode = T.mode /\ Target!ClaimTab(T, c.t).session = T.session
      /\ Target!ClaimTab(T, c.t).applying = T.applying
      /\ a \in {"none", "busy", "miss", "claim"}
  BY <1>1, ClaimTabIs
<1>4. aTab'[c.tab] = Target!ClaimTab(T, c.t) /\ \A y \in Tabs : y # c.tab => aTab'[y] = aTab[y]
  BY <1>1, <1>2, <1>3, TabSet DEF TargetTyped
<1>5. Marks(c)
  BY <1>1, <1>3, <1>4 DEF Marks, TargetPage
<1>6. c.what # "busy"
  BY <1>1 DEF StageIs
<1>7. \E d : Steps(c, d)
  <2>1. CASE a = "none"
    <3>1. aChains' = aChains \ {c}
      BY <1>2, <2>1 DEF Target!Onward
    <3> QED
      BY <1>1, <1>6, <3>1, EndedIs DEF Steps
  <2>2. CASE a # "none"
    <3> DEFINE d == On(c, "asked", a)
    <3>1. aChains' = (aChains \ {c}) \cup {d}
      BY <1>2, <2>2 DEF Target!Onward, On
    <3>2. d \in ChainForm /\ Of(d, c.tab, c.t) /\ d.at = "asked" /\ d.what = a
      <4>1. a \in {"busy", "miss", "claim"} /\ StageIs("asked", a)
        BY <1>3, <2>2 DEF StageIs
      <4> HIDE DEF a
      <4> QED
        BY <1>1, <4>1, OnIs
    <3>3. ~Through(d) /\ ~ActsOn(d)
      BY <1>3, <3>2 DEF Through, ActsOn
    <3> HIDE DEF d
    <3> QED
      BY <1>6, <3>1, <3>2, <3>3 DEF Steps
  <2> QED
    BY <2>1, <2>2
<1>8. TargetTyped'
  BY <1>1, ClaimsTyped DEF TargetTyped, WireTyped, HelperTyped
<1> QED
  BY <1>1, <1>5, <1>7, <1>8, StepsKeepTheSale DEF Sale

LEMMA ClaimKeeps == ASSUME Sale, NEW c \in aChains, Target!Claim(c) PROVE Sale'
BY ClaimsKeep DEF Target!Claim

\* A step that writes the tab's mark of the target alone, or nothing.
Marked(c) == aTab' = aTab \/ \E s \in {"heard", "declined", "denied", "done"} : aTab' = [aTab EXCEPT ![c.tab] = Target!Note(@, c.t, s)]

LEMMA MarkKeeps ==
  ASSUME Sale, NEW c \in aChains, c.what # "busy", Marked(c),
         NEW d \in ChainForm, aChains' = (aChains \ {c}) \/ aChains' = (aChains \ {c}) \cup {d},
         Of(d, c.tab, c.t), d.at # "renewed", Through(d) => Through(c), ~ActsOn(d) \/ (ActsOn(c) /\ aTab' = aTab),
         \A m \in aResults : m \in aResults', aResults' \in SUBSET ResultForm, UNCHANGED <<aReq, aInbox, aGens, aGoes>>
  PROVE  Sale'
<1>1. TargetTyped /\ SaleInv /\ c \in ChainForm /\ c.tab \in Tabs /\ c.t \in Targets /\ aTab[c.tab] \in TargetPage(c.tab)
      /\ aChains \in SUBSET ChainForm
  BY ChainHas DEF Sale
<1>2. TabsTyped' /\ Marks(c)
  <2>1. CASE aTab' = aTab
    BY <1>1, <2>1 DEF TargetTyped, TabsTyped, TargetPage, Target!SessionIds, Target!UserSession, Marks, SaleInv, ActsOnOne
  <2>2. CASE aTab' # aTab
    <3>0. PICK s \in {"heard", "declined", "denied", "done"} : aTab' = [aTab EXCEPT ![c.tab] = Target!Note(aTab[c.tab], c.t, s)]
      BY <1>1, <2>2 DEF Marked
    <3>1. Target!Note(aTab[c.tab], c.t, s) \in TargetPage(c.tab) /\ Target!Note(aTab[c.tab], c.t, s) = [aTab[c.tab] EXCEPT !.seen[c.t] = s]
      BY <1>1 DEF Target!Note, TargetPage
    <3>2. TabsTyped' /\ aTab'[c.tab] = Target!Note(aTab[c.tab], c.t, s) /\ \A y \in Tabs : y # c.tab => aTab'[y] = aTab[y]
      BY <1>1, <3>0, <3>1, TabSet DEF TargetTyped
    <3> QED
      BY <1>1, <3>1, <3>2 DEF Marks, TargetPage
  <2> QED
    BY <2>1, <2>2
<1>3. ActsOn(d) /\ aTab'[c.tab].alive => aTab'[c.tab].seen[c.t] = "acting"
  BY <1>1 DEF SaleInv, ActingIsSeen
<1>4. Steps(c, d)
  BY <1>3 DEF Steps
<1>5. TargetTyped'
  BY <1>1, <1>2 DEF TargetTyped, WireTyped, HelperTyped
<1> QED
  BY <1>1, <1>2, <1>4, <1>5, StepsKeepTheSale DEF Sale

LEMMA DeniedKeeps == ASSUME Sale, NEW c \in aChains, Target!Denied(c) PROVE Sale'
<1>1. TargetTyped /\ c \in ChainForm /\ c.at = "claimed" /\ c.what \in {"pending", "over"} /\ c.what # "busy"
  BY ChainHas DEF Sale, Target!Denied, StageIs
<1>2. Marked(c) /\ UNCHANGED <<aReq, aInbox, aResults, aGens, aGoes>>
  BY DEF Target!Denied, Marked
<1> DEFINE d == On(c, "retry", "claim")
<1>3. aChains' = (aChains \ {c}) \/ aChains' = (aChains \ {c}) \cup {d}
  BY DEF Target!Denied, Target!Onward, On
<1>4. d \in ChainForm /\ Of(d, c.tab, c.t) /\ d.at = "retry" /\ d.what = "claim"
  <2>1. StageIs("retry", "claim")
    BY DEF StageIs
  <2> QED
    BY <1>1, <2>1, OnIs
<1>5. ~Through(d) /\ ~ActsOn(d)
  BY <1>4 DEF Through, ActsOn
<1>6. aResults' \in SUBSET ResultForm
  BY <1>1, <1>2 DEF TargetTyped, WireTyped
<1> HIDE DEF d
<1>8. ~ActsOn(d) \/ (ActsOn(c) /\ aTab' = aTab)
  BY <1>5
<1>9. d.at # "renewed" /\ (Through(d) => Through(c))
  BY <1>4, <1>5
<1>10. UNCHANGED <<aReq, aInbox, aGens, aGoes>> /\ \A m \in aResults : m \in aResults'
  BY <1>2
<1> QED
  BY <1>1, <1>3, <1>4, <1>2, <1>6, <1>8, <1>9, <1>10, MarkKeeps

LEMMA ScrolledKeeps == ASSUME Sale, NEW c \in aChains, Target!Scrolled(c) PROVE Sale'
<1>1. TargetTyped /\ c \in ChainForm /\ c.at = "scroll" /\ c.what = "claim"
  BY ChainHas DEF Sale, Target!Scrolled, StageIs
<1>2. aTab' = aTab /\ UNCHANGED <<aReq, aInbox, aResults, aGens, aGoes>>
  BY DEF Target!Scrolled
<1>7. Marked(c)
  BY <1>2 DEF Marked
<1> DEFINE d == On(c, "asked", "renew")
<1>3. aChains' = (aChains \ {c}) \/ aChains' = (aChains \ {c}) \cup {d}
  BY DEF Target!Scrolled, Target!Onward, On
<1>4. d \in ChainForm /\ Of(d, c.tab, c.t) /\ d.at = "asked" /\ d.what = "renew"
  <2>1. StageIs("asked", "renew")
    BY DEF StageIs
  <2> QED
    BY <1>1, <2>1, OnIs
<1>5. Through(c) /\ ActsOn(c)
  BY <1>1 DEF Through, ActsOn
<1>6. aResults' \in SUBSET ResultForm
  BY <1>1, <1>2 DEF TargetTyped, WireTyped
<1> HIDE DEF d
<1> QED
  BY <1>1, <1>2, <1>3, <1>4, <1>5, <1>6, <1>7, MarkKeeps

LEMMA StandsDownKeeps == ASSUME Sale, NEW c \in aChains, Target!StandsDown(c) PROVE Sale'
<1>1. TargetTyped /\ c \in ChainForm /\ c.what # "busy"
  BY ChainHas DEF Sale, Target!StandsDown, StageIs
<1>2. Marked(c) /\ aChains' = aChains \ {c} /\ UNCHANGED <<aReq, aInbox, aResults, aGens, aGoes>>
  BY DEF Target!StandsDown, Marked
<1>3. aResults' \in SUBSET ResultForm
  BY <1>1, <1>2 DEF TargetTyped, WireTyped
<1>4. Ended(c) \in ChainForm /\ Of(Ended(c), c.tab, c.t) /\ Ended(c).at = "start" /\ ~Through(Ended(c)) /\ ~ActsOn(Ended(c))
  BY <1>1, EndedIs
<1> QED
  BY <1>1, <1>2, <1>3, <1>4, MarkKeeps

LEMMA MissedKeeps == ASSUME Sale, NEW c \in aChains, Target!Missed(c) PROVE Sale'
<1>1. TargetTyped /\ c \in ChainForm /\ c.what # "busy"
  BY ChainHas DEF Sale, Target!Missed, StageIs
<1>2. aTab' = aTab /\ UNCHANGED <<aReq, aInbox, aResults, aGens, aGoes>>
  BY DEF Target!Missed
<1>7. Marked(c)
  BY <1>2 DEF Marked
<1> DEFINE d == On(c, "watch", "miss")
<1>3. aChains' = (aChains \ {c}) \/ aChains' = (aChains \ {c}) \cup {d}
  BY DEF Target!Missed, Target!Onward, On
<1>4. d \in ChainForm /\ Of(d, c.tab, c.t) /\ d.at = "watch" /\ d.what = "miss"
  <2>1. StageIs("watch", "miss")
    BY DEF StageIs
  <2> QED
    BY <1>1, <2>1, OnIs
<1>5. ~Through(d) /\ ~ActsOn(d)
  BY <1>4 DEF Through, ActsOn
<1>6. aResults' \in SUBSET ResultForm
  BY <1>1, <1>2 DEF TargetTyped, WireTyped
<1> HIDE DEF d
<1> QED
  BY <1>1, <1>2, <1>3, <1>4, <1>5, <1>6, <1>7, MarkKeeps

LEMMA WatchKeeps == ASSUME Sale, NEW c \in aChains, Target!Watch(c) PROVE Sale'
<1>1. TargetTyped /\ c \in ChainForm /\ c.what # "busy" /\ c.at = "watch"
  BY ChainHas DEF Sale, Target!Watch, StageIs
<1>2. UNCHANGED <<aReq, aInbox, aResults, aGens, aGoes>>
  BY DEF Target!Watch
<1>3. CASE aChains' = aChains \ {c} /\ aTab' = aTab
  <2>1. aResults' \in SUBSET ResultForm
    BY <1>1, <1>2 DEF TargetTyped, WireTyped
  <2>2. Ended(c) \in ChainForm /\ Of(Ended(c), c.tab, c.t) /\ Ended(c).at = "start" /\ ~Through(Ended(c)) /\ ~ActsOn(Ended(c))
    BY <1>1, EndedIs
  <2>3. Marked(c)
    BY <1>3 DEF Marked
  <2> QED
    BY <1>1, <1>2, <1>3, <2>1, <2>2, <2>3, MarkKeeps
<1>4. CASE Target!Claims(c)
  BY <1>1, <1>2, <1>4, ClaimsKeep
<1> QED
  BY <1>3, <1>4 DEF Target!Watch

LEMMA ThrowsKeeps == ASSUME Sale, NEW c \in aChains, Target!Throws(c) PROVE Sale'
<1>1. TargetTyped /\ SaleInv /\ c \in ChainForm /\ c.tab \in Tabs /\ c.t \in Targets /\ aTab[c.tab] \in TargetPage(c.tab)
      /\ c.what # "busy" /\ ~aTab[c.tab].alive
  BY ChainHas DEF Sale, Target!Throws, StageIs
<1>2. /\ aTab' = [aTab EXCEPT ![c.tab].mode = "CONFIGURING"] /\ aChains' = aChains \ {c}
      /\ UNCHANGED <<aReq, aInbox, aResults, aGens, aGoes>>
  BY DEF Target!Throws
<1> DEFINE v == [aTab[c.tab] EXCEPT !.mode = "CONFIGURING"]
<1>3. v \in TargetPage(c.tab) /\ aTab' = [aTab EXCEPT ![c.tab] = v]
  BY <1>1, <1>2 DEF TargetPage
<1>4. TabsTyped' /\ aTab'[c.tab] = v /\ \A y \in Tabs : y # c.tab => aTab'[y] = aTab[y]
  BY <1>1, <1>3, TabSet DEF TargetTyped
<1>5. Marks(c)
  BY <1>1, <1>3, <1>4 DEF Marks, TargetPage
<1>6. Steps(c, Ended(c))
  BY <1>1, <1>2, EndedIs DEF Steps
<1>7. TargetTyped'
  BY <1>1, <1>2, <1>4 DEF TargetTyped, WireTyped, HelperTyped
<1> QED
  BY <1>1, <1>5, <1>6, <1>7, StepsKeepTheSale DEF Sale
\* What is left of a granted lease: the tab marks the target, and its chain goes on or ends.
Acts(c, N, s, d) ==
  /\ N \in TargetPage(c.tab) /\ s \in {"acting", "declined", "done"} /\ d \in ChainForm
  /\ aTab' = [aTab EXCEPT ![c.tab] = N]
  /\ N.seen = [aTab[c.tab].seen EXCEPT ![c.t] = s] /\ N.busied \subseteq aTab[c.tab].busied \cup {c.t}
  /\ N.conn = aTab[c.tab].conn /\ N.alive = aTab[c.tab].alive /\ N.mode = aTab[c.tab].mode
  /\ N.session = aTab[c.tab].session /\ N.applying = aTab[c.tab].applying
  /\ aChains' \subseteq (aChains \ {c}) \cup {d} /\ Of(d, c.tab, c.t) /\ d.at # "renewed"
  /\ ActsOn(d) => s = "acting"
  /\ s = "acting" => (aTab[c.tab].alive => ~Target!Busy(Target!Note(aTab[c.tab], c.t, "acting"), c.t))
  /\ \A m \in aResults : m \in aResults'
  /\ aResults' \in SUBSET ResultForm

LEMMA GrantedIs ==
  ASSUME TargetTyped, NEW c \in aChains, Target!Granted(c)
  PROVE  (\E N, s, d : Acts(c, N, s, d)) /\ UNCHANGED <<aReq, aInbox, aGens, aGoes>>
<1> DEFINE x == c.tab
           T == Target!Note(aTab[x], c.t, "acting")
<1>1. c \in ChainForm /\ x \in Tabs /\ c.t \in Targets /\ aTab[x] \in TargetPage(x)
      /\ c.what # "busy" /\ Through(c) /\ aChains \in SUBSET ChainForm
  BY ChainHas DEF Target!Granted, Through
<1>2. T \in TargetPage(x) /\ T.seen = [aTab[x].seen EXCEPT ![c.t] = "acting"] /\ T = [aTab[x] EXCEPT !.seen = T.seen]
  BY <1>1 DEF Target!Note, TargetPage
<1>3. UNCHANGED <<aReq, aInbox, aGens, aGoes>>
  BY DEF Target!Granted
<1>4. \E N, s, d : Acts(c, N, s, d)
  <2>0. aResults \in SUBSET ResultForm
    BY DEF TargetTyped, WireTyped
  <2>e. Ended(c) \in ChainForm /\ Of(Ended(c), x, c.t) /\ Ended(c).at = "start" /\ ~ActsOn(Ended(c))
    BY <1>1, EndedIs
  <2>1. CASE /\ ~aTab[x].alive /\ aTab' = [aTab EXCEPT ![x] = T] /\ aChains' = Target!Onward(c, "scroll", "none") /\ UNCHANGED aResults
    <3>1. aChains' \subseteq (aChains \ {c}) \cup {Ended(c)}
      BY <2>1 DEF Target!Onward
    <3>2. T.busied = aTab[x].busied /\ T.conn = aTab[x].conn /\ T.alive = aTab[x].alive /\ T.mode = aTab[x].mode
          /\ T.session = aTab[x].session /\ T.applying = aTab[x].applying
      BY <1>1 DEF Target!Note, TargetPage
    <3>7. Acts(c, T, "acting", Ended(c))
      BY <1>1, <1>2, <2>0, <2>e, <2>1, <3>1, <3>2 DEF Acts
    <3> QED
      BY <3>7
  <2>2. CASE /\ aTab' = [aTab EXCEPT ![x] = Target!DeclineBusy(T, c.t)]
             /\ aChains' = Target!Onward(c, "asked", "busy") /\ UNCHANGED aResults
    <3>1. StageIs("asked", "busy")
      BY DEF StageIs
    <3>2. On(c, "asked", "busy") \in ChainForm /\ Of(On(c, "asked", "busy"), x, c.t)
          /\ On(c, "asked", "busy").at = "asked" /\ On(c, "asked", "busy").what = "busy"
      BY <1>1, <3>1, OnIs
    <3>3. aChains' \subseteq (aChains \ {c}) \cup {On(c, "asked", "busy")}
      BY <2>2 DEF Target!Onward, On
    <3>4. Target!DeclineBusy(T, c.t) \in TargetPage(x)
      BY <1>1, <1>2, DeclineIs
    <3>5. Target!DeclineBusy(T, c.t).seen = [aTab[x].seen EXCEPT ![c.t] = "declined"]
          /\ Target!DeclineBusy(T, c.t).busied = aTab[x].busied \cup {c.t} /\ Target!DeclineBusy(T, c.t).conn = aTab[x].conn
          /\ Target!DeclineBusy(T, c.t).alive = aTab[x].alive /\ Target!DeclineBusy(T, c.t).mode = aTab[x].mode
          /\ Target!DeclineBusy(T, c.t).session = aTab[x].session /\ Target!DeclineBusy(T, c.t).applying = aTab[x].applying
      BY <1>1 DEF Target!Note, TargetPage, Target!DeclineBusy
    <3>6. ~ActsOn(On(c, "asked", "busy"))
      BY <3>2 DEF ActsOn
    <3>7. Acts(c, Target!DeclineBusy(T, c.t), "declined", On(c, "asked", "busy"))
      BY <1>1, <2>0, <2>2, <3>2, <3>3, <3>4, <3>5, <3>6 DEF Acts
    <3> QED
      BY <3>7
  <2>3. CASE /\ aTab' = [aTab EXCEPT ![x] = Target!Note(T, c.t, "declined")]
             /\ aChains' = Target!Onward(c, "asked", "miss") /\ UNCHANGED aResults
    <3>1. StageIs("asked", "miss")
      BY DEF StageIs
    <3>2. On(c, "asked", "miss") \in ChainForm /\ Of(On(c, "asked", "miss"), x, c.t)
          /\ On(c, "asked", "miss").at = "asked" /\ On(c, "asked", "miss").what = "miss"
      BY <1>1, <3>1, OnIs
    <3>3. aChains' \subseteq (aChains \ {c}) \cup {On(c, "asked", "miss")}
      BY <2>3 DEF Target!Onward, On
    <3>4. Target!Note(T, c.t, "declined") \in TargetPage(x)
      BY <1>1, <1>2, NoteIs
    <3>5. Target!Note(T, c.t, "declined").seen = [aTab[x].seen EXCEPT ![c.t] = "declined"]
          /\ Target!Note(T, c.t, "declined").busied = aTab[x].busied /\ Target!Note(T, c.t, "declined").conn = aTab[x].conn
          /\ Target!Note(T, c.t, "declined").alive = aTab[x].alive /\ Target!Note(T, c.t, "declined").mode = aTab[x].mode
          /\ Target!Note(T, c.t, "declined").session = aTab[x].session /\ Target!Note(T, c.t, "declined").applying = aTab[x].applying
      BY <1>1 DEF Target!Note, TargetPage
    <3>6. ~ActsOn(On(c, "asked", "miss"))
      BY <3>2 DEF ActsOn
    <3>7. Acts(c, Target!Note(T, c.t, "declined"), "declined", On(c, "asked", "miss"))
      BY <1>1, <2>0, <2>3, <3>2, <3>3, <3>4, <3>5, <3>6 DEF Acts
    <3> QED
      BY <3>7
  <2>4. CASE /\ ~Target!Busy(T, c.t) /\ aTab' = [aTab EXCEPT ![x] = T]
             /\ aChains' = Target!Onward(c, "scroll", "claim") /\ UNCHANGED aResults
    <3>1. StageIs("scroll", "claim")
      BY DEF StageIs
    <3>2. On(c, "scroll", "claim") \in ChainForm /\ Of(On(c, "scroll", "claim"), x, c.t)
          /\ On(c, "scroll", "claim").at = "scroll"
      BY <1>1, <3>1, OnIs
    <3>3. aChains' \subseteq (aChains \ {c}) \cup {On(c, "scroll", "claim")}
      BY <2>4 DEF Target!Onward, On
    <3>4. T.busied = aTab[x].busied /\ T.conn = aTab[x].conn /\ T.alive = aTab[x].alive /\ T.mode = aTab[x].mode
          /\ T.session = aTab[x].session /\ T.applying = aTab[x].applying
      BY <1>1 DEF Target!Note, TargetPage
    <3>7. Acts(c, T, "acting", On(c, "scroll", "claim"))
      BY <1>1, <1>2, <2>0, <2>4, <3>2, <3>3, <3>4 DEF Acts
    <3> QED
      BY <3>7
  <2>5. CASE /\ aTab' = [aTab EXCEPT ![x] = Target!Note(T, c.t, "done")]
             /\ aChains' = Target!Onward(c, "scroll", "none")
             /\ aResults' = aResults \cup {[t |-> c.t, kind |-> "dry", by |-> None]}
    <3>1. aChains' \subseteq (aChains \ {c}) \cup {Ended(c)}
      BY <2>5 DEF Target!Onward
    <3>2. Target!Note(T, c.t, "done") \in TargetPage(x)
      BY <1>1, <1>2, NoteIs
    <3>3. Target!Note(T, c.t, "done").seen = [aTab[x].seen EXCEPT ![c.t] = "done"]
          /\ Target!Note(T, c.t, "done").busied = aTab[x].busied /\ Target!Note(T, c.t, "done").conn = aTab[x].conn
          /\ Target!Note(T, c.t, "done").alive = aTab[x].alive /\ Target!Note(T, c.t, "done").mode = aTab[x].mode
          /\ Target!Note(T, c.t, "done").session = aTab[x].session /\ Target!Note(T, c.t, "done").applying = aTab[x].applying
      BY <1>1 DEF Target!Note, TargetPage
    <3>4. [t |-> c.t, kind |-> "dry", by |-> None] \in ResultForm
      BY <1>1 DEF ResultForm
    <3>5. (\A m \in aResults : m \in aResults') /\ aResults' \in SUBSET ResultForm
      BY <2>0, <2>5, <3>4
    <3>7. Acts(c, Target!Note(T, c.t, "done"), "done", Ended(c))
      BY <1>1, <2>5, <2>e, <3>1, <3>2, <3>3, <3>5 DEF Acts
    <3> QED
      BY <3>7
  <2>6. T.alive = aTab[x].alive
    BY <1>2 DEF TargetPage
  <2> QED
    BY <2>1, <2>2, <2>3, <2>4, <2>5, <2>6 DEF Target!Granted
<1> QED
  BY <1>3, <1>4

\* The lease was granted: the tab acts, unless it is busy by now or the element is gone.
LEMMA GrantedKeeps == ASSUME Sale, NEW c \in aChains, Target!Granted(c) PROVE Sale'
<1> DEFINE x == c.tab
           T == Target!Note(aTab[x], c.t, "acting")
<1>1. TargetTyped /\ SaleInv /\ c \in ChainForm /\ x \in Tabs /\ c.t \in Targets /\ aTab[x] \in TargetPage(x)
      /\ c.what # "busy" /\ Through(c) /\ aChains \in SUBSET ChainForm
  BY ChainHas DEF Sale, Target!Granted, Through
<1>2. T \in TargetPage(x) /\ T.seen = [aTab[x].seen EXCEPT ![c.t] = "acting"] /\ T = [aTab[x] EXCEPT !.seen = T.seen]
  BY <1>1 DEF Target!Note, TargetPage
<1>3. PICK N, s, d : Acts(c, N, s, d)
  BY <1>1, GrantedIs
<1>4. UNCHANGED <<aReq, aInbox, aGens, aGoes>>
  BY <1>1, GrantedIs
<1>5. /\ N \in TargetPage(x) /\ s \in {"acting", "declined", "done"} /\ d \in ChainForm
      /\ aTab' = [aTab EXCEPT ![x] = N]
      /\ N.seen = [aTab[x].seen EXCEPT ![c.t] = s] /\ N.busied \subseteq aTab[x].busied \cup {c.t}
      /\ N.conn = aTab[x].conn /\ N.alive = aTab[x].alive /\ N.mode = aTab[x].mode
      /\ N.session = aTab[x].session /\ N.applying = aTab[x].applying
      /\ aChains' \subseteq (aChains \ {c}) \cup {d} /\ Of(d, x, c.t) /\ d.at # "renewed"
      /\ ActsOn(d) => s = "acting"
      /\ s = "acting" => (aTab[x].alive => ~Target!Busy(T, c.t))
      /\ \A m \in aResults : m \in aResults'
      /\ aResults' \in SUBSET ResultForm
  BY <1>3 DEF Acts
<1>6. TabsTyped' /\ aTab'[x] = N /\ \A y \in Tabs : y # x => aTab'[y] = aTab[y]
  BY <1>1, <1>5, TabSet DEF TargetTyped
<1>7. aTab[x].seen \in [Targets -> {"none", "heard", "declined", "denied", "acting", "done"}]
  BY <1>1 DEF TargetPage
<1>8. s = "acting" /\ aTab[x].alive =>
        aTab[x].mode # "GENERATING" /\ \A u \in Targets : u # c.t => aTab[x].seen[u] # "acting"
  <2>1. T.mode = aTab[x].mode
    BY <1>1 DEF Target!Note, TargetPage
  <2>2. \A u \in Targets : u # c.t => T.seen[u] = aTab[x].seen[u]
    BY <1>2, <1>7
  <2> QED
    BY <1>5, <2>1, <2>2 DEF Target!Busy
<1>9. Marks(c)
  BY <1>1, <1>5, <1>6, <1>7, <1>8 DEF Marks
<1>10. Steps(c, d)
  BY <1>1, <1>4, <1>5, <1>6, <1>7 DEF Steps
<1>11. TargetTyped'
  <2>1. aChains' \in SUBSET ChainForm
    BY <1>1, <1>5
  <2> QED
    BY <1>1, <1>4, <1>5, <1>6, <2>1 DEF TargetTyped, WireTyped, HelperTyped
<1> QED
  BY <1>1, <1>9, <1>10, <1>11, StepsKeepTheSale DEF Sale
-----------------------------------------------------------------------------
(* Tabs that hear of a target, or are free again: new chains begin.        *)

\* Tab x starts chains A on targets it has heard of; what it acts on stays.
Begins(x, A) ==
  /\ \A a \in A : NewChain(a, x) /\ Heard(a.t)
  /\ \A a, b \in A : a.t = b.t => a = b
  /\ aChains' \subseteq aChains \cup A
  /\ \A y \in Tabs : aInbox'[y] \subseteq aInbox[y]
  /\ \A g \in aGens : g.by[1] # x => g \in aGens'
  /\ aGens' \subseteq aGens
  /\ UNCHANGED <<aReq, aResults, aGoes>>

StaysOn(x) ==
  /\ \A y \in Tabs : y # x => aTab'[y] = aTab[y]
  /\ aTab'[x].conn = aTab[x].conn /\ aTab'[x].alive = aTab[x].alive
  /\ ~aTab[x].alive => aTab'[x].session = None /\ ~aTab'[x].applying /\ aTab'[x].mode # "GENERATING"
  /\ \A t \in aTab'[x].busied : Heard(t)
  /\ aTab[x].alive => \A t \in Targets : aTab'[x].seen[t] = "acting" <=> aTab[x].seen[t] = "acting"
  /\ \A t \in Targets : aGoes[t] # 0 /\ Target!Pending(t) /\ Keeps(x, t) => Keeps(x, t)'

LEMMA BeginsKeepsTheSale ==
  ASSUME OneCopy, TargetTyped, SaleInv, NEW x \in Tabs, NEW A, Begins(x, A), StaysOn(x) PROVE SaleInv'
<1>1. \A e \in aChains' : e \in aChains \/ e \in A
  BY DEF Begins
<1>2. \A a \in A : a.tab = x /\ a.t \in Targets /\ ~ActsOn(a) /\ a.at # "renewed"
  BY ChainParts DEF Begins, NewChain, ActsOn
<1>3. aChains \in SUBSET ChainForm /\ \A e \in aChains : e.tab \in Tabs /\ e.t \in Targets
  BY ChainParts DEF TargetTyped, WireTyped
<1>4. GoneIsQuiet'
  <2>1. SUFFICES ASSUME NEW y \in Tabs
                 PROVE  /\ ~aTab'[y].conn => aInbox'[y] = {}
                        /\ ~aTab'[y].alive => ~aTab'[y].conn /\ aTab'[y].session = None /\ ~aTab'[y].applying /\ aTab'[y].mode # "GENERATING"
    BY DEF GoneIsQuiet
  <2>2. /\ ~aTab[y].conn => aInbox[y] = {}
        /\ ~aTab[y].alive => ~aTab[y].conn /\ aTab[y].session = None /\ ~aTab[y].applying /\ aTab[y].mode # "GENERATING"
    BY DEF SaleInv, GoneIsQuiet
  <2>3. aInbox'[y] \subseteq aInbox[y]
    BY DEF Begins
  <2>4. CASE y # x
    BY <2>2, <2>3, <2>4 DEF StaysOn
  <2>5. CASE y = x
    BY <2>2, <2>3, <2>5 DEF StaysOn
  <2> QED
    BY <2>4, <2>5
<1>5. UnaskedIsUnheard'
  <2>1. ASSUME NEW t \in Targets, Heard(t)' PROVE Heard(t)
    <3>1. CASE \E e \in aChains' : e.t = t
      BY <1>1, <3>1 DEF Heard, Begins
    <3>2. CASE \E y \in Tabs : t \in aInbox'[y]
      BY <3>2 DEF Heard, Begins
    <3>3. CASE \E y \in Tabs : t \in aTab'[y].busied
      <4>1. PICK y \in Tabs : t \in aTab'[y].busied
        BY <3>3
      <4>2. CASE y # x
        BY <4>1, <4>2 DEF Heard, StaysOn
      <4>3. CASE y = x
        BY <4>1, <4>3 DEF StaysOn
      <4> QED
        BY <4>2, <4>3
    <3>4. CASE \E g \in aGens' : g.t = t
      BY <3>4 DEF Heard, Begins
    <3> QED
      BY <2>1, <3>1, <3>2, <3>3, <3>4 DEF Heard
  <2> QED
    BY <2>1, UnaskedKeeps DEF SaleInv, Begins
<1>6. OneChain' /\ ReportsAreBehind'
  BY <1>3, ChainsBegin DEF SaleInv, Begins
<1>7. ActingIsSeen'
  <2>1. SUFFICES ASSUME NEW e \in aChains', ActsOn(e), aTab'[e.tab].alive PROVE aTab'[e.tab].seen[e.t] = "acting"
    BY DEF ActingIsSeen, ActsOn
  <2>2. e \in aChains /\ e.tab \in Tabs /\ e.t \in Targets
    BY <1>1, <1>2, <1>3, <2>1
  <2>3. aTab[e.tab].alive
    BY <2>1, <2>2 DEF StaysOn
  <2>4. aTab[e.tab].seen[e.t] = "acting"
    BY <2>1, <2>2, <2>3 DEF SaleInv, ActingIsSeen
  <2>5. CASE e.tab = x
    BY <2>2, <2>3, <2>4, <2>5 DEF StaysOn
  <2>6. CASE e.tab # x
    BY <2>2, <2>4, <2>6 DEF StaysOn
  <2> QED
    BY <2>5, <2>6
<1>8. ActsOnOne'
  <2>1. SUFFICES ASSUME NEW y \in Tabs, NEW t \in Targets, NEW u \in Targets, aTab'[y].alive,
                        aTab'[y].seen[t] = "acting", aTab'[y].seen[u] = "acting" PROVE t = u
    BY DEF ActsOnOne
  <2>2. aTab[y].alive /\ aTab[y].seen[t] = "acting" /\ aTab[y].seen[u] = "acting"
    BY <2>1 DEF StaysOn
  <2> QED
    BY <2>2 DEF SaleInv, ActsOnOne
<1>9. Pressing'
  <2>1. ASSUME NEW e \in aChains', MayPress(e)' PROVE e \in aChains /\ MayPress(e)
    <3>1. e \in aChains /\ e.tab \in Tabs /\ e.at = "renewed" /\ e.what = "granted" /\ aTab'[e.tab].alive
      BY <1>1, <1>2, <1>3, <2>1 DEF MayPress
    <3> QED
      BY <3>1 DEF StaysOn, MayPress
  <2>2. Pressing
    BY DEF SaleInv, Pressing
  <2> QED
    BY <2>1, <2>2, PressKeeps DEF Begins, Target!Pending
<1>10. SoldIsKept'
  <2>1. ASSUME NEW y \in Tabs, NEW t \in Targets, aGoes[t] # 0, Target!Pending(t), Keeps(y, t) PROVE Keeps(y, t)'
    <3>1. CASE y = x
      BY <2>1, <3>1 DEF StaysOn
    <3>2. CASE y # x
      <4>1. \A e \in aChains' : e.tab = y /\ e.t = t => \E f \in aChains : f.tab = y /\ f.t = t
        BY <1>1, <1>2, <3>2
      <4>2. aTab'[y] = aTab[y]
        BY <3>2 DEF StaysOn
      <4>3. \A g \in aGens : g.t = t /\ g.by[1] = y => \E h \in aGens' : h.t = t /\ h.by = g.by
        BY <3>2 DEF Begins
      <4> QED
        BY <2>1, <4>1, <4>2, <4>3, KeepsOn
    <3> QED
      BY <3>1, <3>2
  <2> QED
    BY <2>1, SoldKeeps DEF SaleInv, Begins, Target!Pending
<1>11. RefusedIsAnswered' /\ Target!OneGo'
  BY DEF SaleInv, Begins, RefusedIsAnswered, Target!OneGo, Target!Pending
<1> QED
  BY <1>4, <1>5, <1>6, <1>7, <1>8, <1>9, <1>10, <1>11 DEF SaleInv, Pressing

\* A page that keeps its session through a step of tab x.
LEMMA KeptIs ==
  ASSUME NEW x \in Tabs, NEW t \in Targets, Keeps(x, t), aTab'[x] = aTab[x],
         \A e \in aChains' : e.tab = x /\ e.t = t => e \in aChains,
         \A g \in aGens : g.t = t /\ g.by = aTab[x].session => g \in aGens'
  PROVE  Keeps(x, t)'
BY DEF Keeps, Of
LEMMA HearKeeps ==
  ASSUME Target!Assumption, OneCopy, Sale, NEW x \in Tabs, NEW t \in Targets, Target!Hear(x, t) PROVE Sale'
<1>1. TargetTyped /\ SaleInv /\ aTab[x] \in TargetPage(x) /\ aChains \in SUBSET ChainForm
  BY DEF Sale, TargetTyped, TabsTyped, WireTyped
<1>2. t \in aInbox[x] /\ aInbox' = [aInbox EXCEPT ![x] = @ \ {t}] /\ UNCHANGED <<aReq, aResults, aGens, aGoes>>
  BY DEF Target!Hear
<1>3. Heard(t) /\ aTab[x].conn /\ aTab[x].alive
  BY <1>1, <1>2 DEF Heard, SaleInv, GoneIsQuiet
<1>4. aInbox' \in [Tabs -> SUBSET Targets] /\ \A y \in Tabs : aInbox'[y] \subseteq aInbox[y]
  BY <1>1, <1>2 DEF TargetTyped, WireTyped
<1>5. \A u \in aTab[x].busied : Heard(u)
  BY DEF Heard
<1>6. CASE aTab[x].seen[t] \in {"acting", "done"}
  <2>1. UNCHANGED <<aTab, aChains>>
    BY <1>6 DEF Target!Hear
  <2>2. Begins(x, {})
    BY <1>2, <1>4, <2>1 DEF Begins
  <2>3. \A u \in Targets : Keeps(x, u) => Keeps(x, u)'
    BY <1>2, <2>1, KeptIs
  <2>4. StaysOn(x)
    BY <1>3, <1>5, <2>1, <2>3 DEF StaysOn
  <2>5. TargetTyped'
    BY <1>1, <1>2, <1>4, <2>1 DEF TargetTyped, TabsTyped, WireTyped, HelperTyped, TargetPage, Target!SessionIds, Target!UserSession
  <2> QED
    BY <1>1, <2>2, <2>4, <2>5, BeginsKeepsTheSale DEF Sale
<1>7. CASE aTab[x].seen[t] \notin {"acting", "done"}
  <2> DEFINE H == Target!Note(aTab[x], t, "heard")
  <2>1. H \in TargetPage(x) /\ H = [aTab[x] EXCEPT !.seen = H.seen] /\ H.seen = [aTab[x].seen EXCEPT ![t] = "heard"]
    BY <1>1 DEF Target!Note, TargetPage
  <2>2. \E v \in TargetPage(x), s \in {"heard", "declined"}, at \in {"start", "asked"}, what \in {"claim", "miss", "busy"} :
          /\ at = "start" => what = "claim"
          /\ aTab' = [aTab EXCEPT ![x] = v] /\ aChains' = aChains \cup Target!Started(x, t, at, what)
          /\ v.conn = aTab[x].conn /\ v.alive = aTab[x].alive /\ v.mode = aTab[x].mode /\ v.session = aTab[x].session
          /\ v.seen = [aTab[x].seen EXCEPT ![t] = s] /\ v.busied \subseteq aTab[x].busied \cup {t}
    <3>1. CASE aTab' = [aTab EXCEPT ![x] = Target!DeclineBusy(H, t)] /\ aChains' = aChains \cup Target!Started(x, t, "asked", "busy")
      <4>1. Target!DeclineBusy(H, t) \in TargetPage(x)
        BY <2>1, DeclineIs
      <4>2. /\ Target!DeclineBusy(H, t).conn = aTab[x].conn /\ Target!DeclineBusy(H, t).alive = aTab[x].alive
            /\ Target!DeclineBusy(H, t).mode = aTab[x].mode /\ Target!DeclineBusy(H, t).session = aTab[x].session
            /\ Target!DeclineBusy(H, t).seen = [aTab[x].seen EXCEPT ![t] = "declined"]
            /\ Target!DeclineBusy(H, t).busied \subseteq aTab[x].busied \cup {t}
        BY <1>1 DEF Target!DeclineBusy, Target!Note, TargetPage
      <4> QED
        BY <3>1, <4>1, <4>2
    <3>2. CASE aTab' = [aTab EXCEPT ![x] = Target!Note(H, t, "declined")] /\ aChains' = aChains \cup Target!Started(x, t, "asked", "miss")
      <4>1. Target!Note(H, t, "declined") \in TargetPage(x)
        BY <2>1, NoteIs
      <4>2. /\ Target!Note(H, t, "declined").conn = aTab[x].conn /\ Target!Note(H, t, "declined").alive = aTab[x].alive
            /\ Target!Note(H, t, "declined").mode = aTab[x].mode /\ Target!Note(H, t, "declined").session = aTab[x].session
            /\ Target!Note(H, t, "declined").seen = [aTab[x].seen EXCEPT ![t] = "declined"]
            /\ Target!Note(H, t, "declined").busied \subseteq aTab[x].busied \cup {t}
        BY <1>1 DEF Target!Note, TargetPage
      <4> QED
        BY <3>2, <4>1, <4>2
    <3>3. CASE aTab' = [aTab EXCEPT ![x] = H] /\ aChains' = aChains \cup Target!Started(x, t, "start", "claim")
      <4>1. /\ H.conn = aTab[x].conn /\ H.alive = aTab[x].alive /\ H.mode = aTab[x].mode
            /\ H.session = aTab[x].session /\ H.busied \subseteq aTab[x].busied \cup {t}
        BY <1>1 DEF Target!Note, TargetPage
      <4> HIDE DEF H
      <4> QED
        BY <2>1, <3>3, <4>1
    <3> QED
      BY <1>7, <3>1, <3>2, <3>3 DEF Target!Hear
  <2>3. PICK v \in TargetPage(x), s \in {"heard", "declined"}, at \in {"start", "asked"}, what \in {"claim", "miss", "busy"} :
          /\ at = "start" => what = "claim"
          /\ aTab' = [aTab EXCEPT ![x] = v] /\ aChains' = aChains \cup Target!Started(x, t, at, what)
          /\ v.conn = aTab[x].conn /\ v.alive = aTab[x].alive /\ v.mode = aTab[x].mode /\ v.session = aTab[x].session
          /\ v.seen = [aTab[x].seen EXCEPT ![t] = s] /\ v.busied \subseteq aTab[x].busied \cup {t}
    BY <2>2
  <2> DEFINE A == Target!Started(x, t, at, what)
  <2>4. (\A a \in A : NewChain(a, x) /\ a.t = t) /\ \A a, b \in A : a = b
    BY <2>3, StartedIs
  <2>5. TabsTyped' /\ aTab'[x] = v /\ \A y \in Tabs : y # x => aTab'[y] = aTab[y]
    BY <1>1, <2>3, TabSet DEF TargetTyped
  <2>6. aChains' = aChains \cup A
    BY <2>3
  <2> HIDE DEF A
  <2>7. Begins(x, A)
    BY <1>2, <1>3, <1>4, <2>4, <2>6 DEF Begins
  <2>8. aTab[x].seen \in [Targets -> {"none", "heard", "declined", "denied", "acting", "done"}]
    BY <1>1 DEF TargetPage
  <2>9. ASSUME NEW u \in Targets, Keeps(x, u) PROVE Keeps(x, u)'
    <3>1. u # t
      BY <1>3, <1>7, <2>9 DEF Keeps
    <3>2. \A e \in aChains' : e.tab = x /\ e.t = u => \E f \in aChains : f.tab = x /\ f.t = u
      BY <2>4, <2>6, <3>1
    <3>3. /\ aTab[x].alive /\ aTab'[x].mode = aTab[x].mode /\ aTab'[x].session = aTab[x].session
          /\ aTab'[x].seen[u] = aTab[x].seen[u]
          /\ \A w \in Targets : aTab'[x].seen[w] = "acting" => aTab[x].seen[w] = "acting"
      BY <1>3, <2>3, <2>5, <2>8, <3>1
    <3> QED
      BY <1>2, <2>9, <3>2, <3>3, KeepsOn
  <2>10. StaysOn(x)
    BY <1>3, <1>5, <1>7, <2>3, <2>5, <2>8, <2>9 DEF StaysOn
  <2>11. aChains' \in SUBSET ChainForm
    BY <1>1, <2>4, <2>6 DEF NewChain
  <2>12. TargetTyped'
    BY <1>1, <1>2, <1>4, <2>5, <2>11 DEF TargetTyped, WireTyped, HelperTyped
  <2> QED
    BY <1>1, <2>7, <2>10, <2>12, BeginsKeepsTheSale DEF Sale
<1> QED
  BY <1>6, <1>7

\* Tab x is T once its users or its session are done, and free to claim what it declined.
LEMMA FreedBegins ==
  ASSUME Target!Assumption, Sale, NEW x \in Tabs, NEW T \in TargetPage(x), NEW L, Freed(x, T, L),
         T.busied = aTab[x].busied, T.seen = aTab[x].seen,
         aTab'[x].busied = L.tab.busied, aTab'[x].seen = L.tab.seen, aChains' = aChains \cup L.asks,
         aInbox' = aInbox, aGens' \subseteq aGens, \A g \in aGens : g.by[1] # x => g \in aGens',
         UNCHANGED <<aReq, aResults, aGoes>>
  PROVE  /\ Begins(x, L.asks) /\ aChains' \in SUBSET ChainForm
         /\ \A t \in aTab'[x].busied : Heard(t)
         /\ \A t \in Targets : aTab'[x].seen[t] = "acting" <=> aTab[x].seen[t] = "acting"
<1>1. aChains \in SUBSET ChainForm
  BY DEF Sale, TargetTyped, WireTyped
<1>2. \A t \in T.busied : Heard(t)
  BY DEF Heard
<1>3. (\A c \in L.asks : NewChain(c, x) /\ c.t \in T.busied) /\ L.tab.busied \subseteq T.busied
      /\ \A c, d \in L.asks : c.t = d.t => c = d
  BY DEF Freed
<1>4. Begins(x, L.asks)
  BY <1>2, <1>3 DEF Begins
<1>5. aChains' \in SUBSET ChainForm
  BY <1>1, <1>3 DEF NewChain
<1>6. ASSUME NEW t \in Targets PROVE aTab'[x].seen[t] = "acting" <=> aTab[x].seen[t] = "acting"
  <2>1. CASE T.seen[t] = "acting"
    <3>1. Target!Busy(T, None)
      BY <2>1 DEF Target!Busy, Target!Assumption
    <3> QED
      BY <2>1, <3>1 DEF Freed
  <2>2. CASE T.seen[t] # "acting"
    <3>1. L.tab.seen[t] # "acting"
      BY <2>2 DEF Freed
    <3> QED
      BY <2>2, <3>1
  <2> QED
    BY <2>1, <2>2
<1> QED
  BY <1>2, <1>3, <1>4, <1>5, <1>6
LEMMA SessionEndsKeeps ==
  ASSUME Target!Assumption, OneCopy, Sale, NEW x \in Tabs, Target!SessionEnds(x) PROVE Sale'
<1> DEFINE T == [aTab[x] EXCEPT !.mode = "PICKING", !.session = None]
           L == Target!Live(x, T)
<1>1. TargetTyped /\ SaleInv /\ aTab[x] \in TargetPage(x) /\ aTab[x].mode = "GENERATING" /\ aTab[x].alive
  BY DEF Sale, TargetTyped, TabsTyped, Target!SessionEnds, SaleInv, GoneIsQuiet
<1>2. T \in TargetPage(x) /\ T.busied = aTab[x].busied /\ T.seen = aTab[x].seen /\ T.conn = aTab[x].conn /\ T.alive = aTab[x].alive
  BY <1>1 DEF TargetPage
<1>3. Freed(x, T, L)
  BY <1>2, LiveIs
<1>4. aTab' = [aTab EXCEPT ![x] = L.tab] /\ aChains' = aChains \cup L.asks
      /\ UNCHANGED <<aReq, aInbox, aResults, aGens, aGoes>> /\ ~\E g \in aGens : g.by = aTab[x].session
  BY DEF Target!SessionEnds, Target!Become
<1> HIDE DEF L, T
<1>5. L.tab \in TargetPage(x) /\ L.tab.conn = T.conn /\ L.tab.alive = T.alive
  BY <1>3 DEF Freed
<1>6. TabsTyped' /\ aTab'[x] = L.tab /\ \A y \in Tabs : y # x => aTab'[y] = aTab[y]
  BY <1>1, <1>4, <1>5, TabSet DEF TargetTyped
<1>7. /\ Begins(x, L.asks) /\ aChains' \in SUBSET ChainForm
      /\ \A t \in aTab'[x].busied : Heard(t)
      /\ \A t \in Targets : aTab'[x].seen[t] = "acting" <=> aTab[x].seen[t] = "acting"
  BY <1>2, <1>3, <1>4, <1>6, FreedBegins
<1>8. \A t \in Targets : ~Keeps(x, t)
  BY <1>1, <1>4 DEF Keeps
<1>9. StaysOn(x)
  BY <1>1, <1>2, <1>5, <1>6, <1>7, <1>8 DEF StaysOn
<1>10. TargetTyped'
  BY <1>1, <1>4, <1>6, <1>7 DEF TargetTyped, WireTyped, HelperTyped
<1> QED
  BY <1>1, <1>7, <1>9, <1>10, BeginsKeepsTheSale DEF Sale

LEMMA AppliedKeeps ==
  ASSUME Target!Assumption, OneCopy, Sale, NEW x \in Tabs, Target!Applied(x) PROVE Sale'
<1> DEFINE T == [aTab[x] EXCEPT !.applying = FALSE]
           L == Target!Live(x, T)
<1>1. TargetTyped /\ SaleInv /\ aTab[x] \in TargetPage(x) /\ aTab[x].alive
  BY DEF Sale, TargetTyped, TabsTyped, Target!Applied, SaleInv, GoneIsQuiet
<1>2. T \in TargetPage(x) /\ T.busied = aTab[x].busied /\ T.seen = aTab[x].seen /\ T.conn = aTab[x].conn /\ T.alive = aTab[x].alive
      /\ T.mode = aTab[x].mode /\ T.session = aTab[x].session
  BY <1>1 DEF TargetPage
<1>3. Freed(x, T, L)
  BY <1>2, LiveIs
<1>4. aTab' = [aTab EXCEPT ![x] = L.tab] /\ aChains' = aChains \cup L.asks
      /\ UNCHANGED <<aReq, aInbox, aResults, aGens, aGoes>>
  BY DEF Target!Applied, Target!Become
<1> HIDE DEF L, T
<1>5. L.tab \in TargetPage(x) /\ L.tab.conn = T.conn /\ L.tab.alive = T.alive
      /\ (Target!Busy(T, None) => L.tab = T /\ L.asks = {})
  BY <1>3 DEF Freed
<1>6. TabsTyped' /\ aTab'[x] = L.tab /\ \A y \in Tabs : y # x => aTab'[y] = aTab[y]
  BY <1>1, <1>4, <1>5, TabSet DEF TargetTyped
<1>7. /\ Begins(x, L.asks) /\ aChains' \in SUBSET ChainForm
      /\ \A t \in aTab'[x].busied : Heard(t)
      /\ \A t \in Targets : aTab'[x].seen[t] = "acting" <=> aTab[x].seen[t] = "acting"
  BY <1>2, <1>3, <1>4, <1>6, FreedBegins
<1>8. ASSUME NEW t \in Targets, Keeps(x, t) PROVE Keeps(x, t)'
  <2>1. Target!Busy(T, None)
    BY <1>1, <1>2, <1>8 DEF Keeps, Target!Busy
  <2>2. aChains' = aChains /\ aTab'[x] = T
    BY <1>4, <1>5, <1>6, <2>1
  <2>3. /\ aTab[x].alive /\ aTab'[x].mode = aTab[x].mode /\ aTab'[x].session = aTab[x].session
        /\ aTab'[x].seen[t] = aTab[x].seen[t]
        /\ \A w \in Targets : aTab'[x].seen[w] = "acting" => aTab[x].seen[w] = "acting"
    BY <1>1, <1>2, <2>2
  <2> QED
    BY <1>4, <1>8, <2>2, <2>3, KeepsOn
<1>9. StaysOn(x)
  BY <1>1, <1>2, <1>5, <1>6, <1>7, <1>8 DEF StaysOn
<1>10. TargetTyped'
  BY <1>1, <1>4, <1>6, <1>7 DEF TargetTyped, WireTyped, HelperTyped
<1> QED
  BY <1>1, <1>7, <1>9, <1>10, BeginsKeepsTheSale DEF Sale

LEMMA UserGoKeeps ==
  ASSUME Target!Assumption, OneCopy, Sale, NEW x \in Tabs, Target!UserGo(x) PROVE Sale'
<1> DEFINE T == [aTab[x] EXCEPT !.mode = "CONFIGURING"]
           L == Target!Live(x, T)
           v == [L.tab EXCEPT !.mode = "GENERATING", !.session = Target!UserSession(x)]
<1>1. TargetTyped /\ SaleInv /\ aTab[x] \in TargetPage(x) /\ aTab[x].alive /\ aTab[x].mode # "GENERATING"
  BY DEF Sale, TargetTyped, TabsTyped, Target!UserGo
<1>2. T \in TargetPage(x) /\ T.busied = aTab[x].busied /\ T.seen = aTab[x].seen /\ T.conn = aTab[x].conn /\ T.alive = aTab[x].alive
  BY <1>1 DEF TargetPage
<1>3. Freed(x, T, L) /\ Target!Live(x, T) = [tab |-> L.tab, asks |-> L.asks]
  BY <1>2, LiveIs DEF Target!Live
<1>4. aTab' = [aTab EXCEPT ![x] = v] /\ aChains' = aChains \cup L.asks
      /\ UNCHANGED <<aReq, aInbox, aResults, aGens, aGoes>>
  BY <1>3 DEF Target!UserGo, Target!Become
<1> HIDE DEF L, T
<1>5. L.tab \in TargetPage(x) /\ L.tab.conn = T.conn /\ L.tab.alive = T.alive
  BY <1>3 DEF Freed
<1>6. v \in TargetPage(x) /\ v.conn = T.conn /\ v.alive = T.alive /\ v.busied = L.tab.busied /\ v.seen = L.tab.seen
  BY <1>5 DEF TargetPage
<1>7. TabsTyped' /\ aTab'[x] = v /\ \A y \in Tabs : y # x => aTab'[y] = aTab[y]
  BY <1>1, <1>4, <1>6, TabSet DEF TargetTyped
<1> HIDE DEF v
<1>8. /\ Begins(x, L.asks) /\ aChains' \in SUBSET ChainForm
      /\ \A t \in aTab'[x].busied : Heard(t)
      /\ \A t \in Targets : aTab'[x].seen[t] = "acting" <=> aTab[x].seen[t] = "acting"
  BY <1>2, <1>3, <1>4, <1>6, <1>7, FreedBegins
<1>9. \A t \in Targets : ~Keeps(x, t)
  BY <1>1 DEF Keeps
<1>10. StaysOn(x)
  BY <1>1, <1>2, <1>6, <1>7, <1>8, <1>9 DEF StaysOn
<1>11. TargetTyped'
  BY <1>1, <1>4, <1>7, <1>8 DEF TargetTyped, WireTyped, HelperTyped
<1> QED
  BY <1>1, <1>8, <1>10, <1>11, BeginsKeepsTheSale DEF Sale

\* The helper refused the session g opened: the tab drops it, if it still shows it.
LEMMA RefusedKeepsTheSale ==
  ASSUME Target!Assumption, OneCopy, Sale, NEW g \in aGens, Target!Refused(g) PROVE Sale'
<1> DEFINE x == g.by[1]
           T == [aTab[x] EXCEPT !.mode = "PICKING", !.session = None]
           L == Target!Live(x, T)
<1>1. TargetTyped /\ SaleInv /\ aGens \in SUBSET GenForm /\ g \in GenForm
  BY DEF Sale, TargetTyped, WireTyped
<1>2. x \in Tabs /\ aTab[x] \in TargetPage(x) /\ g.at = "refused"
  BY <1>1 DEF GenForm, Target!SessionIds, TargetTyped, TabsTyped, Target!Refused
<1>3. aGens' = aGens \ {g} /\ UNCHANGED <<aReq, aInbox, aResults, aGoes>>
  BY DEF Target!Refused
<1>4. \A h \in aGens : h.by[1] # x => h \in aGens'
  BY <1>3
<1> HIDE DEF x
<1>5. CASE aTab[x].session # g.by
  <2>1. UNCHANGED <<aTab, aChains>>
    BY <1>5 DEF Target!Refused, x
  <2>2. Begins(x, {})
    BY <1>3, <1>4, <2>1 DEF Begins
  <2>3. \A t \in Targets : Keeps(x, t) => Keeps(x, t)'
    BY <1>2, <1>3, <1>5, <2>1, KeptIs
  <2>4. StaysOn(x)
    <3>1. \A t \in aTab[x].busied : Heard(t)
      BY <1>2 DEF Heard
    <3>2. ~aTab[x].alive => aTab[x].session = None /\ ~aTab[x].applying /\ aTab[x].mode # "GENERATING"
      BY <1>1, <1>2 DEF SaleInv, GoneIsQuiet
    <3> QED
      BY <2>1, <2>3, <3>1, <3>2 DEF StaysOn
  <2>5. TargetTyped'
    BY <1>1, <1>3, <2>1 DEF TargetTyped, TabsTyped, WireTyped, HelperTyped, TargetPage, Target!SessionIds, Target!UserSession
  <2> QED
    BY <1>1, <1>2, <2>2, <2>4, <2>5, BeginsKeepsTheSale DEF Sale
<1>6. CASE aTab[x].session = g.by
  <2>1. T \in TargetPage(x) /\ T.busied = aTab[x].busied /\ T.seen = aTab[x].seen /\ T.conn = aTab[x].conn /\ T.alive = aTab[x].alive
        /\ T.session = None /\ T.mode = "PICKING" /\ T.applying = aTab[x].applying
    BY <1>2 DEF TargetPage
  <2>2. Freed(x, T, L)
    BY <1>2, <2>1, LiveIs
  <2>3. aTab' = [aTab EXCEPT ![x] = L.tab] /\ aChains' = aChains \cup L.asks
    BY <1>6 DEF Target!Refused, Target!Become, x
  <2> HIDE DEF L, T
  <2>4. L.tab \in TargetPage(x) /\ L.tab.conn = T.conn /\ L.tab.alive = T.alive /\ L.tab.session = T.session
        /\ L.tab.mode = T.mode /\ L.tab.applying = T.applying /\ (~T.alive => L.asks = {})
    BY <2>2 DEF Freed
  <2>5. TabsTyped' /\ aTab'[x] = L.tab /\ \A y \in Tabs : y # x => aTab'[y] = aTab[y]
    BY <1>1, <1>2, <2>3, <2>4, TabSet DEF TargetTyped
  <2>6. aGens' \subseteq aGens
    BY <1>3
  <2>7. /\ Begins(x, L.asks) /\ aChains' \in SUBSET ChainForm
        /\ \A t \in aTab'[x].busied : Heard(t)
        /\ \A t \in Targets : aTab'[x].seen[t] = "acting" <=> aTab[x].seen[t] = "acting"
    BY <1>2, <1>3, <1>4, <2>1, <2>2, <2>3, <2>5, <2>6, FreedBegins
  <2>8. ASSUME NEW t \in Targets, Target!Pending(t), Keeps(x, t) PROVE Keeps(x, t)'
    <3>1. CASE aTab[x].alive
      <4>1. PICK h \in aGens : h.t = t /\ h.by = aTab[x].session
        BY <2>8, <3>1 DEF Keeps
      <4>2. g.t = t
        BY <1>1, <1>6, <4>1 DEF GenForm
      <4>3. ~Target!Pending(g.t)
        BY <1>1, <1>2 DEF SaleInv, RefusedIsAnswered
      <4> QED
        BY <2>8, <4>2, <4>3
    <3>2. CASE ~aTab[x].alive
      <4>1. aChains' = aChains /\ ~aTab'[x].alive
        BY <2>1, <2>3, <2>4, <2>5, <3>2
      <4> QED
        BY <2>8, <4>1 DEF Keeps
    <3> QED
      BY <3>1, <3>2
  <2>9. StaysOn(x)
    <3>1. ~aTab[x].alive => ~aTab[x].applying
      BY <1>1, <1>2 DEF SaleInv, GoneIsQuiet
    <3> QED
      BY <2>1, <2>4, <2>5, <2>7, <2>8, <3>1 DEF StaysOn
  <2>10. TargetTyped'
    BY <1>1, <1>3, <2>5, <2>6, <2>7 DEF TargetTyped, WireTyped, HelperTyped
  <2> QED
    BY <1>1, <1>2, <2>7, <2>9, <2>10, BeginsKeepsTheSale DEF Sale
<1> QED
  BY <1>5, <1>6
-----------------------------------------------------------------------------
(* The helper and the weather: no chain goes on.                           *)

\* Page x is as it was, or has been torn down; or it was loaded anew.
Same(x) ==
  /\ aTab'[x].busied \subseteq aTab[x].busied
  /\ aTab'[x].alive => /\ aTab[x].alive /\ aTab'[x].mode = aTab[x].mode /\ aTab'[x].session = aTab[x].session
                      /\ aTab'[x].seen = aTab[x].seen

Anew(x) ==
  /\ aTab'[x].busied = {} /\ (\A t \in Targets : aTab'[x].seen[t] # "acting") /\ \A c \in aChains' : c.tab # x
  /\ \A t \in Targets : aReq[t].lease = x /\ Target!Pending(t)' => aReq'[t].lease = "gone"

\* The lease of a request stays where it matters.
LeaseStays(t) == aReq'[t].lease = aReq[t].lease \/ \E x \in Tabs : Anew(x) /\ aReq[t].lease = x /\ aReq'[t].lease = "gone"

Pressed(t) == \E c \in aChains' : MayPress(c)' /\ c.t = t

Weather ==
  /\ \A x \in Tabs : Same(x) \/ Anew(x)
  /\ aChains' \subseteq aChains /\ aGoes' = aGoes
  /\ ReqIsMonotone
  /\ \A x \in Tabs : \A t \in aInbox'[x] : t \in aInbox[x] \/ aReq'[t].status # "none"
  /\ \A t \in Targets : Target!Pending(t)' /\ (aGoes[t] # 0 \/ Pressed(t)) => LeaseStays(t)
  /\ \A m \in aResults : m \in aResults' \/ ~Target!Pending(m.t)'
  /\ \A g \in aGens : (\E h \in aGens' : h.t = g.t /\ h.by = g.by) \/ ~Target!Pending(g.t)' \/ Anew(g.by[1])
  /\ \A g \in aGens' : \E h \in aGens : h.t = g.t
  /\ \A g \in aGens' : g.at = "refused" => g \in aGens \/ ~Target!Pending(g.t)

LEMMA WeatherKeepsTheSale ==
  ASSUME TargetTyped, SaleInv, TargetTyped', GoneIsQuiet', Weather PROVE SaleInv'
<1>1. aChains \in SUBSET ChainForm /\ (\A e \in aChains : e.tab \in Tabs /\ e.t \in Targets) /\ aChains' \subseteq aChains
  BY ChainParts DEF TargetTyped, WireTyped, Weather
<1>2. aGens' \in SUBSET GenForm /\ aGens \in SUBSET GenForm
  BY DEF TargetTyped, WireTyped
<1>3. UnaskedIsUnheard'
  <2>1. ASSUME NEW t \in Targets, aReq'[t].status = "none", Heard(t)' PROVE Heard(t)
    <3>1. CASE \E e \in aChains' : e.t = t
      BY <1>1, <3>1 DEF Heard
    <3>2. CASE \E x \in Tabs : t \in aInbox'[x]
      BY <2>1, <3>2 DEF Heard, Weather
    <3>3. CASE \E x \in Tabs : t \in aTab'[x].busied
      BY <3>3 DEF Heard, Weather, Same, Anew
    <3>4. CASE \E g \in aGens' : g.t = t
      BY <3>4 DEF Heard, Weather
    <3> QED
      BY <2>1, <3>1, <3>2, <3>3, <3>4 DEF Heard
  <2> QED
    BY <2>1, UnaskedKeeps DEF SaleInv, Weather, ReqIsMonotone
<1>4. OneChain' /\ ReportsAreBehind'
  BY <1>1, FewerChains DEF SaleInv
<1>5. \A e \in aChains' : Same(e.tab)
  BY <1>1 DEF Weather, Anew
<1>6. ActingIsSeen'
  <2>1. SUFFICES ASSUME NEW e \in aChains', ActsOn(e), aTab'[e.tab].alive PROVE aTab'[e.tab].seen[e.t] = "acting"
    BY DEF ActingIsSeen, ActsOn
  <2> QED
    BY <1>1, <1>5, <2>1 DEF Same, SaleInv, ActingIsSeen
<1>7. ActsOnOne'
  <2>1. SUFFICES ASSUME NEW y \in Tabs, NEW t \in Targets, NEW u \in Targets, aTab'[y].alive,
                        aTab'[y].seen[t] = "acting", aTab'[y].seen[u] = "acting" PROVE t = u
    BY DEF ActsOnOne
  <2>2. Same(y)
    BY <2>1 DEF Weather, Anew
  <2> QED
    BY <2>1, <2>2 DEF Same, SaleInv, ActsOnOne
<1>8. Pressing'
  <2>1. ASSUME NEW e \in aChains', MayPress(e)'
        PROVE  /\ e \in aChains /\ MayPress(e) /\ aGoes'[e.t] = aGoes[e.t]
               /\ Target!Pending(e.t)' => Target!Pending(e.t) /\ aReq'[e.t].lease = aReq[e.t].lease
    <3>1. e \in aChains /\ e.tab \in Tabs /\ e.t \in Targets /\ e.at = "renewed" /\ e.what = "granted" /\ aTab'[e.tab].alive
      BY <1>1, <2>1 DEF MayPress
    <3>2. MayPress(e)
      BY <1>5, <2>1, <3>1 DEF MayPress, Same
    <3>3. ASSUME Target!Pending(e.t)' PROVE Target!Pending(e.t) /\ aReq'[e.t].lease = aReq[e.t].lease
      <4>1. Target!Pending(e.t)
        BY <3>1, <3>3 DEF Weather, ReqIsMonotone
      <4>2. aReq[e.t].lease = e.tab
        BY <3>1, <3>2, <4>1 DEF SaleInv, PressHoldsLease
      <4>3. LeaseStays(e.t)
        BY <2>1, <3>1, <3>3 DEF Weather, Pressed
      <4>4. \A x \in Tabs : Anew(x) => x # e.tab
        BY <2>1 DEF Anew
      <4> QED
        BY <4>1, <4>2, <4>3, <4>4 DEF LeaseStays
    <3> QED
      BY <3>1, <3>2, <3>3 DEF Weather
  <2>2. Pressing
    BY DEF SaleInv, Pressing
  <2> QED
    BY <2>1, <2>2, PressKeeps
<1>9. SoldIsKept'
  <2>1. ASSUME NEW t \in Targets, aGoes'[t] # 0, Target!Pending(t)'
        PROVE  /\ aGoes[t] # 0 /\ Target!Pending(t) /\ \A m \in aResults : m.t = t => m \in aResults'
               /\ aReq[t].lease = "gone" => aReq'[t].lease = "gone"
               /\ \A x \in Tabs : aReq[t].lease = x /\ Keeps(x, t) =>
                    aReq'[t].lease = "gone" \/ (aReq'[t].lease = x /\ Keeps(x, t)')
    <3>1. aGoes[t] # 0 /\ Target!Pending(t) /\ LeaseStays(t)
      BY <2>1 DEF Weather, ReqIsMonotone
    <3>2. \A m \in aResults : m.t = t => m \in aResults'
      BY <2>1 DEF Weather
    <3>3. aReq[t].lease = "gone" => aReq'[t].lease = "gone"
      BY <3>1 DEF LeaseStays
    <3>4. ASSUME NEW x \in Tabs, aReq[t].lease = x, Keeps(x, t), aReq'[t].lease # "gone"
          PROVE  aReq'[t].lease = x /\ Keeps(x, t)'
      <4>1. aReq'[t].lease = x
        BY <3>1, <3>4 DEF LeaseStays
      <4>2. Same(x) /\ ~Anew(x)
        BY <2>1, <3>4 DEF Weather, Anew
      <4>3. \A g \in aGens : g.t = t /\ g.by[1] = x => \E h \in aGens' : h.t = t /\ h.by = g.by
        BY <2>1, <4>2 DEF Weather
      <4>4. \A c \in aChains' : c.tab = x /\ c.t = t => \E d \in aChains : d.tab = x /\ d.t = t
        BY <1>1
      <4>5. aTab'[x].alive => /\ aTab[x].alive /\ aTab'[x].mode = aTab[x].mode /\ aTab'[x].session = aTab[x].session
                             /\ aTab'[x].seen[t] = aTab[x].seen[t]
                             /\ \A u \in Targets : aTab'[x].seen[u] = "acting" => aTab[x].seen[u] = "acting"
        BY <4>2 DEF Same
      <4> QED
        BY <3>4, <4>1, <4>3, <4>4, <4>5, KeepsOn
    <3> QED
      BY <3>1, <3>2, <3>3, <3>4
  <2> QED
    BY <2>1, SoldKeeps DEF SaleInv
<1>10. RefusedIsAnswered'
  BY <1>2, RefusedKeeps DEF SaleInv, Weather
<1>11. Target!OneGo'
  BY DEF SaleInv, Weather, Target!OneGo
<1> QED
  BY <1>3, <1>4, <1>6, <1>7, <1>8, <1>9, <1>10, <1>11 DEF SaleInv, Pressing
LEMMA AllSame == ASSUME UNCHANGED aTab PROVE \A x \in Tabs : Same(x)
BY DEF Same

LEMMA TabsStay == ASSUME TabsTyped, UNCHANGED aTab PROVE TabsTyped'
BY DEF TabsTyped, TargetPage, Target!SessionIds, Target!UserSession

LEMMA QuietStays == ASSUME GoneIsQuiet, UNCHANGED <<aTab, aInbox>> PROVE GoneIsQuiet'
BY DEF GoneIsQuiet

\* One request is answered, or its lease changes hands when nothing rests on it.
LEMMA ReqChanges ==
  ASSUME Sale, NEW t \in Targets, NEW r \in ReqForm, aReq' = [aReq EXCEPT ![t] = r],
         UNCHANGED <<aTab, aChains, aInbox, aGoes>>,
         r.status = "none" => aReq[t].status = "none", r.status = "pending" => Target!Pending(t),
         r.status = "pending" /\ (aGoes[t] # 0 \/ \E c \in aChains : MayPress(c) /\ c.t = t) => r.lease = aReq[t].lease,
         aResults' \in SUBSET ResultForm, aGens' \in SUBSET GenForm,
         \A m \in aResults : m \in aResults' \/ (m.t = t /\ r.status # "pending"),
         \A g \in aGens : (\E h \in aGens' : h.t = g.t /\ h.by = g.by) \/ (g.t = t /\ r.status # "pending"),
         \A g \in aGens' : \E h \in aGens : h.t = g.t,
         \A g \in aGens' : g.at = "refused" => g \in aGens \/ ~Target!Pending(g.t)
  PROVE  Sale'
<1>1. TargetTyped /\ SaleInv
  BY DEF Sale
<1>2. aReq' \in [Targets -> ReqForm] /\ aReq'[t] = r /\ \A u \in Targets : u # t => aReq'[u] = aReq[u]
  BY <1>1, ReqSet DEF TargetTyped, HelperTyped
<1>3. \A c : MayPress(c)' <=> MayPress(c)
  BY DEF MayPress
<1>4. TargetTyped'
  BY <1>1, <1>2, TabsStay DEF TargetTyped, WireTyped, HelperTyped
<1>5. ReqIsMonotone
  BY <1>2 DEF ReqIsMonotone, Target!Pending
<1>6. ASSUME NEW u \in Targets, Target!Pending(u)', aGoes[u] # 0 \/ Pressed(u) PROVE LeaseStays(u)
  <2>1. CASE u = t
    BY <1>2, <1>3, <1>6, <2>1 DEF LeaseStays, Pressed, Target!Pending
  <2>2. CASE u # t
    BY <1>2, <2>2 DEF LeaseStays
  <2> QED
    BY <2>1, <2>2
<1>7. Weather
  <2>1. \A m \in aResults : m \in aResults' \/ ~Target!Pending(m.t)'
    BY <1>2 DEF Target!Pending
  <2>2. \A g \in aGens : (\E h \in aGens' : h.t = g.t /\ h.by = g.by) \/ ~Target!Pending(g.t)'
    BY <1>2 DEF Target!Pending
  <2>3. \A x \in Tabs : Same(x)
    BY AllSame
  <2> QED
    BY <1>5, <1>6, <2>1, <2>2, <2>3 DEF Weather
<1>8. GoneIsQuiet'
  BY <1>1, QuietStays DEF SaleInv
<1> QED
  BY <1>1, <1>4, <1>7, <1>8, WeatherKeepsTheSale DEF Sale

LEMMA ReqIs ==
  ASSUME Sale
  PROVE  /\ \A t \in Targets : aReq[t] \in ReqForm
         /\ aResults \in SUBSET ResultForm /\ aGens \in SUBSET GenForm
         /\ \A m \in aResults : m.t \in Targets /\ m.kind # "pending" /\ m.kind # "none"
         /\ \A g \in aGens : g.t \in Targets /\ g.by \in Target!SessionIds
BY DEF Sale, TargetTyped, HelperTyped, WireTyped, ResultForm, GenForm

LEMMA NoMatchKeeps == ASSUME Sale, NEW t \in Targets, Target!NoMatch(t) PROVE Sale'
<1> DEFINE r == [aReq[t] EXCEPT !.status = "no_match"]
<1>1. aReq[t] \in ReqForm /\ aResults \in SUBSET ResultForm /\ aGens \in SUBSET GenForm
  BY ReqIs
<1>2. r \in ReqForm /\ r.status = "no_match"
  BY <1>1 DEF ReqForm
<1>3. aReq' = [aReq EXCEPT ![t] = r] /\ UNCHANGED <<aTab, aChains, aInbox, aResults, aGens, aGoes>>
  BY DEF Target!NoMatch
<1> HIDE DEF r
<1> QED
  BY <1>1, <1>2, <1>3, ReqChanges

LEMMA TimesOutKeeps == ASSUME Sale, NEW t \in Targets, Target!TimesOut(t) PROVE Sale'
<1> DEFINE r == [aReq[t] EXCEPT !.status = "timeout"]
<1>1. aReq[t] \in ReqForm /\ aResults \in SUBSET ResultForm /\ aGens \in SUBSET GenForm
  BY ReqIs
<1>2. r \in ReqForm /\ r.status = "timeout"
  BY <1>1 DEF ReqForm
<1>3. aReq' = [aReq EXCEPT ![t] = r] /\ UNCHANGED <<aTab, aChains, aInbox, aResults, aGens, aGoes>>
  BY DEF Target!TimesOut
<1> HIDE DEF r
<1> QED
  BY <1>1, <1>2, <1>3, ReqChanges

\* No lease lapses under a tab that is about to press, nor under one that has pressed.
LEMMA LapseKeeps == ASSUME "frozen" \notin TargetMishaps, Sale, NEW t \in Targets, Target!Lapse(t) PROVE Sale'
<1> DEFINE q == [aReq[t] EXCEPT !.lease = None]
           r == Target!Settled(q, Target!Connected)
<1>1. aReq[t] \in ReqForm /\ aResults \in SUBSET ResultForm /\ aGens \in SUBSET GenForm
  BY ReqIs
<1>2. q \in ReqForm /\ q.status = aReq[t].status
  BY <1>1 DEF ReqForm
<1>3. aReq' = [aReq EXCEPT ![t] = r] /\ UNCHANGED <<aTab, aChains, aInbox, aResults, aGens, aGoes>> /\ Target!Pending(t)
  BY DEF Target!Lapse
<1> HIDE DEF q
<1>4. r \in ReqForm /\ (r.status = "pending" => q.status = "pending") /\ (r.status = "none" => q.status = "none")
  BY <1>2 DEF ReqForm, Target!Settled
<1> HIDE DEF r
<1>5. \/ aReq[t].lease \notin {x \in Tabs : aTab[x].alive} /\ ~\E m \in aResults : m.t = t
      \/ ~Target!OnTheWay(t)
  BY DEF Target!Lapse, Target!Fault
<1>6. aGoes[t] = 0
  BY <1>3, <1>5 DEF Sale, SaleInv, SoldIsKept, Target!OnTheWay
<1>7. ~\E c \in aChains : MayPress(c) /\ c.t = t
  <2>1. SUFFICES ASSUME NEW c \in aChains, MayPress(c), c.t = t PROVE FALSE
    OBVIOUS
  <2>2. c.tab \in Tabs /\ aReq[t].lease = c.tab /\ aTab[c.tab].alive /\ c.at = "renewed"
    BY <1>3, <2>1, ChainHas DEF Sale, SaleInv, PressHoldsLease, MayPress
  <2> QED
    BY <1>5, <2>1, <2>2 DEF Target!OnTheWay
<1>8. (r.status = "none" => aReq[t].status = "none") /\ (r.status = "pending" => Target!Pending(t))
      /\ (r.status = "pending" /\ (aGoes[t] # 0 \/ \E c \in aChains : MayPress(c) /\ c.t = t) => r.lease = aReq[t].lease)
  BY <1>2, <1>3, <1>4, <1>6, <1>7
<1>9. /\ aResults' \in SUBSET ResultForm /\ aGens' \in SUBSET GenForm
      /\ \A m \in aResults : m \in aResults' \/ (m.t = t /\ r.status # "pending")
      /\ \A g \in aGens : (\E h \in aGens' : h.t = g.t /\ h.by = g.by) \/ (g.t = t /\ r.status # "pending")
      /\ \A g \in aGens' : \E h \in aGens : h.t = g.t
      /\ \A g \in aGens' : g.at = "refused" => g \in aGens \/ ~Target!Pending(g.t)
  BY <1>1, <1>3
<1> QED
  BY <1>3, <1>4, <1>8, <1>9, ReqChanges

LEMMA ResultArrivesKeeps == ASSUME Sale, NEW m \in aResults, Target!ResultArrives(m) PROVE Sale'
<1> DEFINE r == IF Target!Pending(m.t) THEN [aReq[m.t] EXCEPT !.status = m.kind, !.by = m.by] ELSE aReq[m.t]
<1>1. aReq[m.t] \in ReqForm /\ aResults \in SUBSET ResultForm /\ aGens \in SUBSET GenForm /\ m.t \in Targets /\ m \in ResultForm
      /\ m.kind # "pending" /\ m.kind # "none" /\ aReq \in [Targets -> ReqForm]
  BY ReqIs DEF Sale, TargetTyped, HelperTyped
<1>2. r \in ReqForm /\ r.status # "pending" /\ (r.status = "none" => aReq[m.t].status = "none")
  BY <1>1 DEF ReqForm, ResultForm, Target!Pending
<1>3. aReq' = [aReq EXCEPT ![m.t] = r]
  BY <1>1 DEF Target!ResultArrives
<1>4. UNCHANGED <<aTab, aChains, aInbox, aGens, aGoes>> /\ aResults' = aResults \ {m}
  BY DEF Target!ResultArrives
<1> HIDE DEF r
<1>5. /\ aResults' \in SUBSET ResultForm /\ aGens' \in SUBSET GenForm
      /\ \A n \in aResults : n \in aResults' \/ (n.t = m.t /\ r.status # "pending")
      /\ \A g \in aGens : (\E h \in aGens' : h.t = g.t /\ h.by = g.by) \/ (g.t = m.t /\ r.status # "pending")
      /\ \A g \in aGens' : \E h \in aGens : h.t = g.t
      /\ \A g \in aGens' : g.at = "refused" => g \in aGens \/ ~Target!Pending(g.t)
  BY <1>1, <1>2, <1>4
<1>6. r.status = "pending" /\ (aGoes[m.t] # 0 \/ \E c \in aChains : MayPress(c) /\ c.t = m.t) => r.lease = aReq[m.t].lease
  BY <1>2
<1> QED
  BY <1>1, <1>2, <1>3, <1>4, <1>5, <1>6, ReqChanges

LEMMA CapturedKeeps == ASSUME Sale, NEW g \in aGens, Target!Captured(g) PROVE Sale'
<1>1. aReq[g.t] \in ReqForm /\ aResults \in SUBSET ResultForm /\ aGens \in SUBSET GenForm /\ g.t \in Targets /\ g \in GenForm
      /\ aReq \in [Targets -> ReqForm]
  BY ReqIs DEF Sale, TargetTyped, HelperTyped
<1> DEFINE h == [g EXCEPT !.at = "sent"]
<1>2. h \in GenForm /\ h.t = g.t /\ h.by = g.by /\ h.at = "sent"
  BY <1>1 DEF GenForm
<1>3. UNCHANGED <<aTab, aChains, aReq, aInbox, aResults, aGoes>> /\ aGens' = (aGens \ {g}) \cup {h}
  BY DEF Target!Captured
<1> HIDE DEF h
<1>4. aReq' = [aReq EXCEPT ![g.t] = aReq[g.t]]
  BY <1>1, <1>3
<1>5. /\ aResults' \in SUBSET ResultForm /\ aGens' \in SUBSET GenForm
      /\ \A n \in aResults : n \in aResults'
      /\ \A f \in aGens : \E e \in aGens' : e.t = f.t /\ e.by = f.by
      /\ \A f \in aGens' : \E e \in aGens : e.t = f.t
      /\ \A f \in aGens' : f.at = "refused" => f \in aGens
  BY <1>1, <1>2, <1>3
<1> DEFINE r == aReq[g.t]
<1>6. (r.status = "pending" => Target!Pending(g.t)) /\ r = aReq[g.t] /\ r \in ReqForm /\ aReq' = [aReq EXCEPT ![g.t] = r]
  BY <1>1, <1>4 DEF Target!Pending
<1> HIDE DEF r
<1>7. /\ r.status = "none" => aReq[g.t].status = "none"
      /\ r.status = "pending" /\ (aGoes[g.t] # 0 \/ \E c \in aChains : MayPress(c) /\ c.t = g.t) => r.lease = aReq[g.t].lease
  BY <1>6
<1>8. /\ aResults' \in SUBSET ResultForm /\ aGens' \in SUBSET GenForm
      /\ \A n \in aResults : n \in aResults' \/ (n.t = g.t /\ r.status # "pending")
      /\ \A f \in aGens : (\E e \in aGens' : e.t = f.t /\ e.by = f.by) \/ (f.t = g.t /\ r.status # "pending")
      /\ \A f \in aGens' : \E e \in aGens : e.t = f.t
      /\ \A f \in aGens' : f.at = "refused" => f \in aGens \/ ~Target!Pending(f.t)
  BY <1>5
<1>9. g.t \in Targets /\ UNCHANGED <<aTab, aChains, aInbox, aGoes>>
  BY <1>1, <1>3
<1> QED
  BY <1>6, <1>7, <1>8, <1>9, ReqChanges

LEMMA GenerateArrivesKeeps == ASSUME Sale, NEW g \in aGens, Target!GenerateArrives(g) PROVE Sale'
<1>1. aReq[g.t] \in ReqForm /\ aResults \in SUBSET ResultForm /\ aGens \in SUBSET GenForm /\ g.t \in Targets /\ g \in GenForm
      /\ aReq \in [Targets -> ReqForm] /\ g.by \in Target!SessionIds
  BY ReqIs DEF Sale, TargetTyped, HelperTyped
<1>2. UNCHANGED <<aTab, aChains, aInbox, aResults, aGoes>>
  BY DEF Target!GenerateArrives
<1>3. CASE Target!Pending(g.t) \/ aReq[g.t].by = g.by
  <2> DEFINE r == [aReq[g.t] EXCEPT !.status = "served", !.by = g.by]
  <2>1. r \in ReqForm /\ r.status = "served"
    BY <1>1 DEF ReqForm
  <2>2. aReq' = [aReq EXCEPT ![g.t] = r] /\ aGens' = aGens \ {g}
    BY <1>3 DEF Target!GenerateArrives
  <2> HIDE DEF r
  <2>3. /\ aResults' \in SUBSET ResultForm /\ aGens' \in SUBSET GenForm
        /\ \A n \in aResults : n \in aResults'
        /\ \A f \in aGens : (\E e \in aGens' : e.t = f.t /\ e.by = f.by) \/ (f.t = g.t /\ r.status # "pending")
        /\ \A f \in aGens' : \E e \in aGens : e.t = f.t
        /\ \A f \in aGens' : f.at = "refused" => f \in aGens
    BY <1>1, <1>2, <2>1, <2>2
  <2> QED
    BY <1>1, <1>2, <2>1, <2>2, <2>3, ReqChanges
<1>4. CASE ~(Target!Pending(g.t) \/ aReq[g.t].by = g.by)
  <2> DEFINE h == [g EXCEPT !.at = "refused"]
  <2>1. h \in GenForm /\ h.t = g.t /\ h.by = g.by
    BY <1>1 DEF GenForm
  <2>2. aReq' = [aReq EXCEPT ![g.t] = aReq[g.t]] /\ aGens' = (aGens \ {g}) \cup {h}
    BY <1>1, <1>4 DEF Target!GenerateArrives
  <2> HIDE DEF h
  <2>3. /\ aResults' \in SUBSET ResultForm /\ aGens' \in SUBSET GenForm
        /\ \A n \in aResults : n \in aResults'
        /\ \A f \in aGens : \E e \in aGens' : e.t = f.t /\ e.by = f.by
        /\ \A f \in aGens' : \E e \in aGens : e.t = f.t
        /\ \A f \in aGens' : f.at = "refused" => f \in aGens \/ ~Target!Pending(f.t)
    BY <1>1, <1>2, <1>4, <2>1, <2>2
  <2>4. aReq[g.t].status = "pending" => Target!Pending(g.t)
    BY DEF Target!Pending
  <2> QED
    BY <1>1, <1>2, <2>2, <2>3, <2>4, ReqChanges
<1> QED
  BY <1>3, <1>4
LEMMA ClosedIs ==
  ASSUME TargetTyped, NEW x \in Tabs, NEW holder \in Tabs \cup {"gone"}, Target!Closed(x, holder)
  PROVE  /\ aReq' \in [Targets -> ReqForm] /\ ReqIsMonotone
         /\ \A t \in Targets : aReq'[t].lease = IF aReq[t].lease = x THEN holder ELSE aReq[t].lease
<1> DEFINE q(t) == [aReq[t] EXCEPT !.words[x] = None, !.lease = IF @ = x THEN holder ELSE @]
<1>1. \A t \in Targets : aReq[t] \in ReqForm
  BY DEF TargetTyped, HelperTyped
<1>2. ASSUME NEW t \in Targets
      PROVE  q(t) \in ReqForm /\ q(t).status = aReq[t].status /\ q(t).lease = IF aReq[t].lease = x THEN holder ELSE aReq[t].lease
  BY <1>1 DEF ReqForm
<1>3. aReq' = [t \in Targets |-> Target!Settled(q(t), Target!Connected \ {x})]
  BY DEF Target!Closed
<1> HIDE DEF q
<1>4. ASSUME NEW t \in Targets
      PROVE  /\ Target!Settled(q(t), Target!Connected \ {x}) \in ReqForm
             /\ Target!Settled(q(t), Target!Connected \ {x}).lease = q(t).lease
             /\ Target!Settled(q(t), Target!Connected \ {x}).status = "none" => q(t).status = "none"
             /\ Target!Settled(q(t), Target!Connected \ {x}).status = "pending" => q(t).status = "pending"
  BY <1>2 DEF ReqForm, Target!Settled
<1>5. aReq' \in [Targets -> ReqForm] /\ \A t \in Targets : aReq'[t] = Target!Settled(q(t), Target!Connected \ {x})
  BY <1>3, <1>4
<1> QED
  BY <1>2, <1>4, <1>5 DEF ReqIsMonotone, Target!Pending

\* One page changes without its session, or is torn down, and sends nothing.
LEMMA PageChanges ==
  ASSUME Sale, NEW x \in Tabs, NEW v \in TargetPage(x), aTab' = [aTab EXCEPT ![x] = v],
         v.busied \subseteq aTab[x].busied,
         v.alive => /\ aTab[x].alive /\ v.mode = aTab[x].mode /\ v.session = aTab[x].session /\ v.seen = aTab[x].seen,
         ~v.alive => ~v.conn /\ v.session = None /\ ~v.applying /\ v.mode # "GENERATING",
         aInbox' \in [Tabs -> SUBSET Targets], \A y \in Tabs : y # x => aInbox'[y] = aInbox[y],
         ~v.conn => aInbox'[x] = {},
         \A t \in aInbox'[x] : t \in aInbox[x] \/ aReq'[t].status # "none",
         aReq' \in [Targets -> ReqForm], ReqIsMonotone, \A t \in Targets : aReq'[t].lease = aReq[t].lease,
         UNCHANGED <<aChains, aResults, aGens, aGoes>>
  PROVE  Sale'
<1>1. TargetTyped /\ SaleInv
  BY DEF Sale
<1>2. TabsTyped' /\ aTab'[x] = v /\ \A y \in Tabs : y # x => aTab'[y] = aTab[y]
  BY <1>1, TabSet DEF TargetTyped
<1>3. TargetTyped'
  BY <1>1, <1>2 DEF TargetTyped, WireTyped, HelperTyped
<1>4. GoneIsQuiet'
  <2>1. SUFFICES ASSUME NEW y \in Tabs
                 PROVE  /\ ~aTab'[y].conn => aInbox'[y] = {}
                        /\ ~aTab'[y].alive => ~aTab'[y].conn /\ aTab'[y].session = None /\ ~aTab'[y].applying /\ aTab'[y].mode # "GENERATING"
    BY DEF GoneIsQuiet
  <2>2. CASE y = x
    BY <1>2, <2>2
  <2>3. CASE y # x
    BY <1>1, <1>2, <2>3 DEF SaleInv, GoneIsQuiet
  <2> QED
    BY <2>2, <2>3
<1>5. \A y \in Tabs : Same(y)
  BY <1>2 DEF Same
<1>6. \A y \in Tabs : \A t \in aInbox'[y] : t \in aInbox[y] \/ aReq'[t].status # "none"
  OBVIOUS
<1>7. Weather
  BY <1>1, <1>5, <1>6 DEF Weather, LeaseStays
<1> QED
  BY <1>1, <1>3, <1>4, <1>7, WeatherKeepsTheSale DEF Sale

LEMMA ReqStays == ASSUME Sale, UNCHANGED aReq PROVE aReq' \in [Targets -> ReqForm] /\ ReqIsMonotone
BY DEF Sale, TargetTyped, HelperTyped, ReqIsMonotone, Target!Pending

LEMMA TargetIs ==
  ASSUME Sale, NEW x \in Tabs
  PROVE  /\ TargetTyped /\ SaleInv /\ aTab[x] \in TargetPage(x) /\ aInbox \in [Tabs -> SUBSET Targets]
         /\ ~aTab[x].conn => aInbox[x] = {}
         /\ ~aTab[x].alive => ~aTab[x].conn /\ aTab[x].session = None /\ ~aTab[x].applying /\ aTab[x].mode # "GENERATING"
BY DEF Sale, TargetTyped, TabsTyped, WireTyped, SaleInv, GoneIsQuiet

LEMMA DropKeeps == ASSUME Target!Assumption, Sale, NEW x \in Tabs, Target!Drop(x) PROVE Sale'
<1> DEFINE v == [aTab[x] EXCEPT !.conn = FALSE]
<1>1. aTab[x] \in TargetPage(x) /\ aInbox \in [Tabs -> SUBSET Targets]
      /\ (~aTab[x].alive => ~aTab[x].conn /\ aTab[x].session = None /\ ~aTab[x].applying /\ aTab[x].mode # "GENERATING")
  BY TargetIs
<1>2. /\ v \in TargetPage(x) /\ v.busied = aTab[x].busied /\ v.alive = aTab[x].alive /\ v.mode = aTab[x].mode
      /\ v.session = aTab[x].session /\ v.seen = aTab[x].seen /\ ~v.conn /\ v.applying = aTab[x].applying
  BY <1>1 DEF TargetPage
<1>3. aTab' = [aTab EXCEPT ![x] = v] /\ Target!Closed(x, x) /\ aInbox' = [aInbox EXCEPT ![x] = {}] /\ UNCHANGED <<aChains, aResults, aGens, aGoes>>
  BY DEF Target!Drop
<1> HIDE DEF v
<1>4. /\ aReq' \in [Targets -> ReqForm] /\ ReqIsMonotone /\ \A t \in Targets : aReq'[t].lease = aReq[t].lease
  BY <1>3, ClosedIs DEF Sale
<1>5. aInbox' \in [Tabs -> SUBSET Targets] /\ aInbox'[x] = {} /\ \A y \in Tabs : y # x => aInbox'[y] = aInbox[y]
  BY <1>1, <1>3
<1> QED
  BY <1>1, <1>2, <1>3, <1>4, <1>5, PageChanges

LEMMA LeaveKeeps == ASSUME Target!Assumption, Sale, NEW x \in Tabs, Target!Leave(x) PROVE Sale'
<1> DEFINE v == [Target!Fresh EXCEPT !.alive = FALSE, !.conn = FALSE, !.el = aTab[x].el]
<1>1. aTab[x] \in TargetPage(x) /\ aInbox \in [Tabs -> SUBSET Targets]
  BY TargetIs
<1>2. /\ v \in TargetPage(x) /\ v.busied = {} /\ ~v.alive /\ v.mode = "PICKING"
      /\ v.session = None /\ ~v.conn /\ ~v.applying
  BY <1>1 DEF TargetPage, Target!Fresh
<1>3. aTab' = [aTab EXCEPT ![x] = v] /\ Target!Closed(x, x) /\ aInbox' = [aInbox EXCEPT ![x] = {}] /\ UNCHANGED <<aChains, aResults, aGens, aGoes>>
  BY DEF Target!Leave
<1> HIDE DEF v
<1>4. /\ aReq' \in [Targets -> ReqForm] /\ ReqIsMonotone /\ \A t \in Targets : aReq'[t].lease = aReq[t].lease
  BY <1>3, ClosedIs DEF Sale
<1>5. aInbox' \in [Tabs -> SUBSET Targets] /\ aInbox'[x] = {} /\ \A y \in Tabs : y # x => aInbox'[y] = aInbox[y]
  BY <1>1, <1>3
<1> QED
  BY <1>2, <1>3, <1>4, <1>5, PageChanges

LEMMA ConnectKeeps == ASSUME Sale, NEW x \in Tabs, Target!Connect(x) PROVE Sale'
<1> DEFINE v == [aTab[x] EXCEPT !.conn = TRUE]
<1>1. aTab[x] \in TargetPage(x) /\ aInbox \in [Tabs -> SUBSET Targets] /\ aTab[x].alive
  BY TargetIs DEF Target!Connect
<1>2. /\ v \in TargetPage(x) /\ v.busied = aTab[x].busied /\ v.alive = aTab[x].alive /\ v.mode = aTab[x].mode
      /\ v.session = aTab[x].session /\ v.seen = aTab[x].seen /\ v.conn
  BY <1>1 DEF TargetPage
<1>3. aTab' = [aTab EXCEPT ![x] = v] /\ aInbox' = [aInbox EXCEPT ![x] = {t \in Targets : Target!Pending(t)}]
      /\ UNCHANGED <<aChains, aReq, aResults, aGens, aGoes>>
  BY DEF Target!Connect
<1> HIDE DEF v
<1>4. aReq' \in [Targets -> ReqForm] /\ ReqIsMonotone /\ \A t \in Targets : aReq'[t].lease = aReq[t].lease
  BY <1>3, ReqStays
<1>5. aInbox' \in [Tabs -> SUBSET Targets] /\ (\A y \in Tabs : y # x => aInbox'[y] = aInbox[y])
      /\ \A t \in aInbox'[x] : t \in aInbox[x] \/ aReq'[t].status # "none"
  BY <1>1, <1>3 DEF Target!Pending
<1> QED
  BY <1>1, <1>2, <1>3, <1>4, <1>5, PageChanges

LEMMA ApplyKeeps == ASSUME Sale, NEW x \in Tabs, Target!Apply(x) PROVE Sale'
<1> DEFINE v == [aTab[x] EXCEPT !.applying = TRUE]
<1>1. aTab[x] \in TargetPage(x) /\ aInbox \in [Tabs -> SUBSET Targets] /\ aTab[x].alive /\ (~aTab[x].conn => aInbox[x] = {})
  BY TargetIs DEF Target!Apply
<1>2. /\ v \in TargetPage(x) /\ v.busied = aTab[x].busied /\ v.alive = aTab[x].alive /\ v.mode = aTab[x].mode
      /\ v.session = aTab[x].session /\ v.seen = aTab[x].seen /\ v.conn = aTab[x].conn
  BY <1>1 DEF TargetPage
<1>3. aTab' = [aTab EXCEPT ![x] = v] /\ UNCHANGED <<aChains, aReq, aInbox, aResults, aGens, aGoes>>
  BY DEF Target!Apply
<1> HIDE DEF v
<1>4. aReq' \in [Targets -> ReqForm] /\ ReqIsMonotone /\ \A t \in Targets : aReq'[t].lease = aReq[t].lease
  BY <1>3, ReqStays
<1> QED
  BY <1>1, <1>2, <1>3, <1>4, PageChanges

LEMMA RenderKeeps == ASSUME Sale, NEW x \in Tabs, Target!Render(x) PROVE Sale'
<1> DEFINE v == [aTab[x] EXCEPT !.el = ~aTab[x].el]
<1>1. aTab[x] \in TargetPage(x) /\ aInbox \in [Tabs -> SUBSET Targets] /\ (~aTab[x].conn => aInbox[x] = {})
      /\ (~aTab[x].alive => ~aTab[x].conn /\ aTab[x].session = None /\ ~aTab[x].applying /\ aTab[x].mode # "GENERATING")
  BY TargetIs
<1>2. /\ v \in TargetPage(x) /\ v.busied = aTab[x].busied /\ v.alive = aTab[x].alive /\ v.mode = aTab[x].mode
      /\ v.session = aTab[x].session /\ v.seen = aTab[x].seen /\ v.conn = aTab[x].conn /\ v.applying = aTab[x].applying
  BY <1>1 DEF TargetPage
<1>3. aTab' = [aTab EXCEPT ![x] = v] /\ UNCHANGED <<aChains, aReq, aInbox, aResults, aGens, aGoes>>
  BY DEF Target!Render
<1> HIDE DEF v
<1>4. aReq' \in [Targets -> ReqForm] /\ ReqIsMonotone /\ \A t \in Targets : aReq'[t].lease = aReq[t].lease
  BY <1>3, ReqStays
<1> QED
  BY <1>1, <1>2, <1>3, <1>4, PageChanges

\* The page is loaded anew: its lease is nobody's, and its chains are gone.
LEMMA ReloadKeeps == ASSUME Target!Assumption, Sale, NEW x \in Tabs, Target!Reload(x) PROVE Sale'
<1> DEFINE v == [Target!Fresh EXCEPT !.conn = FALSE, !.el = aTab[x].el, !.session = aTab[x].session,
                              !.mode = IF aTab[x].session = None THEN "PICKING" ELSE "GENERATING"]
<1>1. TargetTyped /\ SaleInv /\ aTab[x] \in TargetPage(x) /\ aInbox \in [Tabs -> SUBSET Targets]
  BY TargetIs
<1>2. /\ v \in TargetPage(x) /\ v.busied = {} /\ v.alive /\ ~v.conn /\ \A t \in Targets : v.seen[t] = "none"
  BY <1>1 DEF TargetPage, Target!Fresh
<1>3. /\ aTab' = [aTab EXCEPT ![x] = v] /\ Target!Closed(x, "gone") /\ aInbox' = [aInbox EXCEPT ![x] = {}]
      /\ aChains' = {c \in aChains : c.tab # x} /\ aGens' = {g \in aGens : g.by[1] # x \/ g.at = "sent"}
      /\ UNCHANGED <<aResults, aGoes>>
  BY DEF Target!Reload
<1> HIDE DEF v
<1>4. /\ aReq' \in [Targets -> ReqForm] /\ ReqIsMonotone
      /\ \A t \in Targets : aReq'[t].lease = IF aReq[t].lease = x THEN "gone" ELSE aReq[t].lease
  BY <1>3, ClosedIs DEF Sale
<1>5. aInbox' \in [Tabs -> SUBSET Targets] /\ aInbox'[x] = {} /\ \A y \in Tabs : y # x => aInbox'[y] = aInbox[y]
  BY <1>1, <1>3
<1>6. TabsTyped' /\ aTab'[x] = v /\ \A y \in Tabs : y # x => aTab'[y] = aTab[y]
  BY <1>1, <1>2, <1>3, TabSet DEF TargetTyped
<1>7. TargetTyped'
  BY <1>1, <1>3, <1>4, <1>5, <1>6 DEF TargetTyped, WireTyped, HelperTyped
<1>8. GoneIsQuiet'
  <2>1. SUFFICES ASSUME NEW y \in Tabs
                 PROVE  /\ ~aTab'[y].conn => aInbox'[y] = {}
                        /\ ~aTab'[y].alive => ~aTab'[y].conn /\ aTab'[y].session = None /\ ~aTab'[y].applying /\ aTab'[y].mode # "GENERATING"
    BY DEF GoneIsQuiet
  <2>2. CASE y = x
    BY <1>2, <1>5, <1>6, <2>2
  <2>3. CASE y # x
    BY <1>1, <1>5, <1>6, <2>3 DEF SaleInv, GoneIsQuiet
  <2> QED
    BY <2>2, <2>3
<1>9. Anew(x)
  BY <1>2, <1>3, <1>4, <1>6 DEF Anew
<1>10. \A y \in Tabs : y # x => Same(y)
  BY <1>6 DEF Same
<1>11. \A t \in Targets : LeaseStays(t)
  BY <1>4, <1>9 DEF LeaseStays
<1>12. \A y \in Tabs : \A t \in aInbox'[y] : t \in aInbox[y]
  BY <1>5
<1>13. /\ aChains' \subseteq aChains /\ aGoes' = aGoes /\ (\A m \in aResults : m \in aResults') /\ (\A g \in aGens' : g \in aGens)
       /\ \A g \in aGens : g \in aGens' \/ Anew(g.by[1])
  BY <1>3, <1>9
<1>14. Weather
  BY <1>4, <1>9, <1>10, <1>11, <1>12, <1>13 DEF Weather
<1> QED
  BY <1>1, <1>7, <1>8, <1>14, WeatherKeepsTheSale DEF Sale

LEMMA RequestKeeps == ASSUME Target!Assumption, Sale, NEW t \in Targets, Target!Request(t) PROVE Sale'
<1> DEFINE r == [aReq[t] EXCEPT !.status = "pending"]
<1>1. TargetTyped /\ SaleInv /\ aReq[t] \in ReqForm /\ aInbox \in [Tabs -> SUBSET Targets] /\ aReq[t].status = "none"
      /\ aGens \in SUBSET GenForm
  BY ReqIs DEF Sale, TargetTyped, WireTyped, Target!Request
<1>2. r \in ReqForm /\ r.status = "pending"
  BY <1>1 DEF ReqForm
<1>3. /\ aReq' = [aReq EXCEPT ![t] = r]
      /\ aInbox' = [x \in Tabs |-> IF aTab[x].conn THEN aInbox[x] \cup {t} ELSE aInbox[x]]
      /\ UNCHANGED <<aTab, aChains, aResults, aGens, aGoes>>
  BY DEF Target!Request
<1> HIDE DEF r
<1>4. aReq' \in [Targets -> ReqForm] /\ aReq'[t] = r /\ \A u \in Targets : u # t => aReq'[u] = aReq[u]
  BY <1>1, <1>2, <1>3, ReqSet DEF TargetTyped, HelperTyped
<1>5. aInbox' \in [Tabs -> SUBSET Targets] /\ \A x \in Tabs : \A u \in aInbox'[x] : u \in aInbox[x] \/ u = t
  BY <1>1, <1>3
<1>6. TargetTyped'
  BY <1>1, <1>3, <1>4, <1>5, TabsStay DEF TargetTyped, WireTyped, HelperTyped
<1>7. aGoes[t] = 0 /\ (\A c \in aChains : c.t # t) /\ \A g \in aGens : g.t # t
  BY <1>1 DEF SaleInv, UnaskedIsUnheard
<1>8. GoneIsQuiet'
  BY <1>1, <1>3 DEF SaleInv, GoneIsQuiet
<1>9. UnaskedIsUnheard'
  <2>1. ASSUME NEW u \in Targets, aReq'[u].status = "none", Heard(u)' PROVE Heard(u)
    <3>1. u # t
      BY <1>2, <1>4, <2>1
    <3> QED
      BY <1>3, <1>5, <2>1, <3>1 DEF Heard
  <2>2. \A u \in Targets : aReq'[u].status = "none" => aReq[u].status = "none" /\ aGoes'[u] = aGoes[u]
    BY <1>2, <1>3, <1>4
  <2> QED
    BY <1>1, <2>1, <2>2, UnaskedKeeps DEF SaleInv
<1>10. OneChain' /\ ReportsAreBehind'
  BY <1>1, <1>3, FewerChains DEF SaleInv
<1>11. ActingIsSeen' /\ ActsOnOne'
  BY <1>1, <1>3 DEF SaleInv, ActingIsSeen, ActsOnOne, ActsOn
<1>12. \A u \in Targets : u # t => (Target!Pending(u)' => Target!Pending(u)) /\ aReq'[u].lease = aReq[u].lease
  BY <1>4 DEF Target!Pending
<1>13. Pressing'
  <2>1. ASSUME NEW e \in aChains', MayPress(e)'
        PROVE  /\ e \in aChains /\ MayPress(e) /\ aGoes'[e.t] = aGoes[e.t]
               /\ Target!Pending(e.t)' => Target!Pending(e.t) /\ aReq'[e.t].lease = aReq[e.t].lease
    <3>1. e \in aChains /\ MayPress(e)
      BY <1>3, <2>1 DEF MayPress
    <3>2. e.t \in Targets /\ e.t # t
      BY <1>1, <1>7, <3>1, ChainHas
    <3> QED
      BY <1>3, <1>12, <3>1, <3>2
  <2>2. Pressing
    BY <1>1 DEF SaleInv, Pressing
  <2> QED
    BY <2>1, <2>2, PressKeeps
<1>14. SoldIsKept'
  <2>1. ASSUME NEW x \in Tabs, NEW u \in Targets, Keeps(x, u) PROVE Keeps(x, u)'
    BY <1>3, <2>1, KeptIs
  <2>2. \A u \in Targets : aGoes'[u] # 0 /\ Target!Pending(u)' => u # t
    BY <1>3, <1>7
  <2> QED
    BY <1>1, <1>3, <1>12, <2>1, <2>2, SoldKeeps DEF SaleInv
<1>15. RefusedIsAnswered'
  <2>1. ASSUME NEW g \in aGens, g.at = "refused" PROVE ~Target!Pending(g.t)'
    <3>1. g.t \in Targets /\ g.t # t /\ ~Target!Pending(g.t)
      BY <1>1, <1>7, <2>1 DEF GenForm, SaleInv, RefusedIsAnswered
    <3> QED
      BY <1>12, <3>1
  <2> QED
    BY <1>3, <2>1 DEF RefusedIsAnswered
<1>16. Target!OneGo'
  BY <1>1, <1>3 DEF SaleInv, Target!OneGo
<1> QED
  BY <1>1, <1>6, <1>8, <1>9, <1>10, <1>11, <1>13, <1>14, <1>15, <1>16 DEF SaleInv, Pressing, Sale
-----------------------------------------------------------------------------
(* The lease, and Go.                                                      *)

\* A busy report hands the lease back: nothing that holds it is before the report.
LEMMA BusyReportKeeps ==
  ASSUME Target!Assumption, Sale, NEW c \in aChains, Target!Asked(c), c.what = "busy" PROVE Sale'
<1> DEFINE r == Target!Reported(aReq[c.t], c.tab, "busy")
<1>1. TargetTyped /\ SaleInv /\ c.tab \in Tabs /\ c.t \in Targets /\ aReq[c.t] \in ReqForm /\ aChains \in SUBSET ChainForm
  BY ChainHas, ReqIs DEF Sale
<1>2. aReq' = [aReq EXCEPT ![c.t] = r] /\ aChains' = aChains \ {c} /\ UNCHANGED <<aTab, aInbox, aResults, aGens, aGoes>>
  BY DEF Target!Asked
<1>3. /\ r \in ReqForm /\ (r.status = "pending" => aReq[c.t].status = "pending") /\ (r.status = "none" => aReq[c.t].status = "none")
      /\ aReq[c.t].lease # c.tab => r.lease = aReq[c.t].lease
  <2> DEFINE q == [aReq[c.t] EXCEPT !.words[c.tab] = "busy", !.lease = IF @ = c.tab THEN None ELSE @]
  <2>1. q \in ReqForm /\ q.status = aReq[c.t].status /\ (aReq[c.t].lease # c.tab => q.lease = aReq[c.t].lease)
    BY <1>1 DEF ReqForm
  <2>2. r = IF aReq[c.t].status # "pending" THEN aReq[c.t] ELSE Target!Settled(q, Target!Connected)
    BY DEF Target!Reported
  <2> HIDE DEF q
  <2> QED
    BY <1>1, <2>1, <2>2 DEF Target!Settled, ReqForm
<1> HIDE DEF r
<1>4. aReq' \in [Targets -> ReqForm] /\ aReq'[c.t] = r /\ \A u \in Targets : u # c.t => aReq'[u] = aReq[u]
  BY <1>1, <1>2, <1>3, ReqSet DEF TargetTyped, HelperTyped
<1>5. TargetTyped'
  BY <1>1, <1>2, <1>4, TabsStay DEF TargetTyped, WireTyped, HelperTyped
<1>6. GoneIsQuiet'
  BY <1>1, <1>2, QuietStays DEF SaleInv
<1>7. ReqIsMonotone
  BY <1>3, <1>4 DEF ReqIsMonotone, Target!Pending
<1>8. ASSUME Target!Pending(c.t)', aGoes[c.t] # 0 \/ Pressed(c.t) PROVE aReq[c.t].lease # c.tab
  <2>1. Target!Pending(c.t)
    BY <1>1, <1>7, <1>8 DEF ReqIsMonotone
  <2>2. CASE aGoes[c.t] # 0
    <3>1. aReq[c.t].lease = "gone" \/ \E x \in Tabs : aReq[c.t].lease = x /\ Keeps(x, c.t)
      BY <1>1, <2>1, <2>2 DEF SaleInv, SoldIsKept
    <3> QED
      BY <1>1, <3>1 DEF Keeps, Of, Target!Assumption
  <2>3. CASE Pressed(c.t)
    <3>1. PICK e \in aChains' : MayPress(e)' /\ e.t = c.t
      BY <2>3 DEF Pressed
    <3>2. e \in aChains /\ MayPress(e) /\ Through(e)
      BY <1>2, <3>1 DEF MayPress, Through
    <3>3. aReq[c.t].lease = e.tab
      BY <1>1, <2>1, <3>1, <3>2 DEF SaleInv, PressHoldsLease
    <3>4. e.tab # c.tab
      BY <1>1, <3>1, <3>2 DEF SaleInv, ReportsAreBehind
    <3> QED
      BY <3>3, <3>4
  <2> QED
    BY <1>8, <2>2, <2>3
<1>9. ASSUME NEW u \in Targets, Target!Pending(u)', aGoes[u] # 0 \/ Pressed(u) PROVE LeaseStays(u)
  <2>1. CASE u = c.t
    BY <1>3, <1>4, <1>8, <1>9, <2>1 DEF LeaseStays
  <2>2. CASE u # c.t
    BY <1>4, <2>2 DEF LeaseStays
  <2> QED
    BY <2>1, <2>2
<1>10. \A x \in Tabs : Same(x)
  BY <1>2, AllSame
<1>11. Weather
  BY <1>2, <1>7, <1>9, <1>10 DEF Weather
<1> QED
  BY <1>1, <1>5, <1>6, <1>11, WeatherKeepsTheSale DEF Sale

\* A claim, a renewal or a miss: the lease is taken from nobody, and goes with "granted".
LEMMA AskedAnswers ==
  ASSUME Target!Assumption, Sale, NEW c \in aChains, Target!Asked(c), c.what # "busy"
  PROVE  \E r \in ReqForm, d \in ChainForm :
           /\ c.what \in {"claim", "renew", "miss"}
           /\ aReq' = [aReq EXCEPT ![c.t] = r] /\ aChains' = (aChains \ {c}) \cup {d} /\ Of(d, c.tab, c.t)
           /\ d.at = [claim |-> "claimed", renew |-> "renewed", miss |-> "missed"][c.what]
           /\ d.what \in {"granted", "pending", "over"}
           /\ r.status = "pending" => aReq[c.t].status = "pending"
           /\ r.status = "none" => aReq[c.t].status = "none"
           /\ aReq[c.t].lease \notin {None, c.tab} => r.lease = aReq[c.t].lease
           /\ d.what = "granted" => r.status = "pending" /\ r.lease = c.tab
           /\ UNCHANGED <<aTab, aInbox, aResults, aGens, aGoes>>
<1> DEFINE r == CASE c.what \in {"claim", "renew"} -> Target!Claimed(aReq[c.t], c.tab)
                  [] c.what = "busy" -> Target!Reported(aReq[c.t], c.tab, "busy")
                  [] c.what = "miss" -> Target!Reported(aReq[c.t], c.tab, "no_match")
           a == IF c.what \in {"claim", "renew"} THEN Target!Answer(r, c.tab)
                ELSE IF r.status = "pending" THEN "pending" ELSE "over"
           at == [claim |-> "claimed", renew |-> "renewed", miss |-> "missed"][c.what]
           d == [c EXCEPT !.at = at, !.what = a]
<1>1. c \in ChainForm /\ c.tab \in Tabs /\ c.t \in Targets /\ aReq[c.t] \in ReqForm /\ StageIs(c.at, c.what)
  BY ChainHas, ReqIs DEF Sale
<1>2. c.at = "asked" /\ c.what \in {"claim", "renew", "miss"}
  BY <1>1 DEF Target!Asked, StageIs
<1>3. aReq' = [aReq EXCEPT ![c.t] = r] /\ aChains' = Target!Onward(c, at, a) /\ UNCHANGED <<aTab, aInbox, aResults, aGens, aGoes>>
  BY DEF Target!Asked
<1>4. /\ r \in ReqForm /\ (r.status = "pending" => aReq[c.t].status = "pending") /\ (r.status = "none" => aReq[c.t].status = "none")
      /\ aReq[c.t].lease \notin {None, c.tab} => r.lease = aReq[c.t].lease
  <2>1. CASE c.what \in {"claim", "renew"}
    <3>1. r = Target!Claimed(aReq[c.t], c.tab)
      BY <2>1
    <3> HIDE DEF r
    <3>2. r \in ReqForm
      BY <1>1, <3>1, ReqFormed
    <3> QED
      BY <1>1, <3>1, <3>2 DEF Target!Claimed, ReqForm
  <2>2. CASE c.what = "miss"
    <3> DEFINE q == [aReq[c.t] EXCEPT !.words[c.tab] = "no_match", !.lease = IF @ = c.tab THEN None ELSE @]
    <3>1. q \in ReqForm /\ q.status = aReq[c.t].status /\ (aReq[c.t].lease # c.tab => q.lease = aReq[c.t].lease)
      BY <1>1 DEF ReqForm
    <3>2. r = IF aReq[c.t].status # "pending" THEN aReq[c.t] ELSE Target!Settled(q, Target!Connected)
      BY <2>2 DEF Target!Reported
    <3> HIDE DEF q, r
    <3> QED
      BY <1>1, <3>1, <3>2 DEF Target!Settled, ReqForm
  <2> QED
    BY <1>2, <2>1, <2>2
<1> HIDE DEF r
<1>5. a \in {"over", "granted", "pending"} /\ (a = "granted" => c.what # "miss" /\ r.status = "pending" /\ r.lease = c.tab)
  BY <1>2 DEF Target!Answer
<1> HIDE DEF a
<1>6. at \in {"claimed", "renewed", "missed"} /\ (c.what = "miss" <=> at = "missed")
  BY <1>2
<1> HIDE DEF at
<1>7. StageIs(at, a)
  BY <1>5, <1>6 DEF StageIs
<1>8. d \in ChainForm
  BY <1>1, <1>5, <1>6, <1>7 DEF ChainForm, Target!Possible
<1>9. Of(d, c.tab, c.t) /\ d.at = at /\ d.what = a
  BY <1>1 DEF Of, ChainForm, Target!Possible
<1>10. aChains' = (aChains \ {c}) \cup {d}
  BY <1>3, <1>5 DEF Target!Onward
<1> HIDE DEF d
<1> QED
  BY <1>2, <1>3, <1>4, <1>5, <1>8, <1>9, <1>10 DEF at
\* The renewal that is granted is the only one of the target: the lease is the tab's own.
LEMMA AskedKeeps ==
  ASSUME Target!Assumption, OneCopy, Sale, NEW c \in aChains, Target!Asked(c) PROVE Sale'
<1>1. CASE c.what = "busy"
  BY <1>1, BusyReportKeeps
<1>2. CASE c.what # "busy"
  <2>1. PICK r \in ReqForm, d \in ChainForm :
           /\ c.what \in {"claim", "renew", "miss"}
           /\ aReq' = [aReq EXCEPT ![c.t] = r] /\ aChains' = (aChains \ {c}) \cup {d} /\ Of(d, c.tab, c.t)
           /\ d.at = [claim |-> "claimed", renew |-> "renewed", miss |-> "missed"][c.what]
           /\ d.what \in {"granted", "pending", "over"}
           /\ r.status = "pending" => aReq[c.t].status = "pending"
           /\ r.status = "none" => aReq[c.t].status = "none"
           /\ aReq[c.t].lease \notin {None, c.tab} => r.lease = aReq[c.t].lease
           /\ d.what = "granted" => r.status = "pending" /\ r.lease = c.tab
           /\ UNCHANGED <<aTab, aInbox, aResults, aGens, aGoes>>
    BY <1>2, AskedAnswers
  <2>2. /\ TargetTyped /\ SaleInv /\ c \in ChainForm /\ c.tab \in Tabs /\ c.t \in Targets /\ aChains \in SUBSET ChainForm
        /\ c.at = "asked" /\ (\A e \in aChains : e.tab \in Tabs /\ e.t \in Targets /\ e \in ChainForm)
    BY ChainHas DEF Sale, Target!Asked
  <2>3. d.tab = c.tab /\ d.t = c.t /\ d.at \in {"claimed", "renewed", "missed"} /\ (d.at = "renewed" <=> c.what = "renew")
        /\ (d.at = "claimed" <=> c.what = "claim")
    BY <2>1 DEF Of
  <2>4. aReq' \in [Targets -> ReqForm] /\ aReq'[c.t] = r /\ \A u \in Targets : u # c.t => aReq'[u] = aReq[u]
    BY <2>1, <2>2, ReqSet DEF TargetTyped, HelperTyped
  <2>5. TargetTyped'
    BY <2>1, <2>2, <2>4, TabsStay DEF TargetTyped, WireTyped, HelperTyped
  <2>6. GoneIsQuiet'
    BY <2>1, <2>2, QuietStays DEF SaleInv
  <2>7. ReqIsMonotone
    BY <2>1, <2>4 DEF ReqIsMonotone, Target!Pending
  <2>8. \A e \in aChains' : e = d \/ (e \in aChains /\ e # c)
    BY <2>1
  <2>9. \A e \in aChains' : \E f \in aChains : f.tab = e.tab /\ f.t = e.t
    BY <2>3, <2>8
  <2>10. UnaskedIsUnheard'
    <3>1. ASSUME NEW t \in Targets, Heard(t)' PROVE Heard(t)
      BY <2>1, <2>9, <3>1 DEF Heard
    <3> QED
      BY <2>1, <2>2, <2>7, <3>1, UnaskedKeeps DEF SaleInv, ReqIsMonotone
  <2>11. \A e \in aChains : Of(e, c.tab, c.t) /\ c.what # "renew" => (Through(d) => e.what # "busy")
    <3>1. SUFFICES ASSUME NEW e \in aChains, Of(e, c.tab, c.t), e.what = "busy" PROVE FALSE
      OBVIOUS
    <3>2. e.at = "asked" /\ e.n = c.n /\ e.tab = c.tab /\ e.t = c.t
      BY <2>2, <3>1 DEF ChainForm, Target!Possible, StageIs, Of, OneCopy
    <3>3. e = [c EXCEPT !.what = "busy"]
      BY <2>2, <3>1, <3>2 DEF ChainForm, Target!Possible
    <3> QED
      BY <1>2, <3>1, <3>3 DEF Target!Asked
  <2>12. OneChain' /\ ReportsAreBehind'
    <3>1. Through(d) => Through(c) \/ \A e \in aChains : Of(e, c.tab, c.t) => e.what # "busy"
      BY <2>11 DEF Through
    <3> QED
      BY <1>2, <2>1, <2>2, <3>1, ChainMoves DEF SaleInv
  <2>13. ActingIsSeen'
    <3>1. ActsOn(d) => ActsOn(c)
      BY <2>1, <2>3 DEF ActsOn
    <3> QED
      BY <2>1, <2>2, <2>3, <2>8, <3>1 DEF SaleInv, ActingIsSeen, ActsOn
  <2>14. ActsOnOne'
    BY <2>1, <2>2 DEF SaleInv, ActsOnOne
  <2>15. \A t \in Targets : Target!Pending(t)' => Target!Pending(t) /\ (aReq[t].lease \notin {None, c.tab} \/ t # c.t => aReq'[t].lease = aReq[t].lease)
    BY <2>1, <2>4, <2>7 DEF ReqIsMonotone
  <2>25. d \notin aChains /\ d.what # "busy"
    BY <1>2, <2>1, <2>2, <2>3 DEF SaleInv, OneChain
  <2>16. \A e \in aChains' : MayPress(e)' => (e = d /\ c.what = "renew" /\ r.status = "pending" /\ r.lease = c.tab) \/ (e \in aChains /\ e # c /\ MayPress(e))
    BY <2>1, <2>3, <2>8, <2>25 DEF MayPress
  <2>17. None \notin Tabs /\ "gone" \notin Tabs /\ None # "gone"
    BY DEF Target!Assumption
  <2>18. PressHoldsLease'
    <3>1. SUFFICES ASSUME NEW e \in aChains', MayPress(e)', Target!Pending(e.t)' PROVE aReq'[e.t].lease = e.tab
      BY DEF PressHoldsLease
    <3>2. CASE e = d
      BY <2>3, <2>4, <2>16, <2>25, <3>1, <3>2
    <3>3. CASE e # d
      <4>1. e \in aChains /\ MayPress(e) /\ e.tab \in Tabs /\ e.t \in Targets
        BY <2>2, <2>16, <3>1, <3>3
      <4>2. Target!Pending(e.t)
        BY <2>15, <3>1, <4>1
      <4>3. aReq[e.t].lease = e.tab
        BY <2>2, <4>1, <4>2 DEF SaleInv, PressHoldsLease
      <4>4. CASE e.t = c.t /\ e.tab = c.tab
        <5>1. e.what # "busy" /\ e # c
          BY <2>2, <4>1 DEF MayPress
        <5> QED
          BY <1>2, <2>2, <4>1, <4>4, <5>1 DEF SaleInv, OneChain
      <4>5. CASE e.t # c.t \/ e.tab # c.tab
        BY <2>15, <2>17, <3>1, <4>1, <4>3, <4>5
      <4> QED
        BY <4>4, <4>5
    <3> QED
      BY <3>2, <3>3
  <2>19. ASSUME NEW e \in aChains, MayPress(e), e.t = c.t, r.status = "pending", r.lease = c.tab PROVE FALSE
    <3>1. Target!Pending(c.t) /\ e.tab \in Tabs
      BY <2>1, <2>2, <2>19 DEF Target!Pending
    <3>2. aReq[c.t].lease = e.tab
      BY <2>2, <2>19, <3>1 DEF SaleInv, PressHoldsLease
    <3>3. e.tab = c.tab
      BY <2>1, <2>17, <2>19, <3>1, <3>2
    <3>4. e.what # "busy" /\ e # c
      BY <2>2, <2>19 DEF MayPress
    <3> QED
      BY <1>2, <2>2, <2>19, <3>3, <3>4 DEF SaleInv, OneChain
  <2>20. OnePresses'
    <3>1. SUFFICES ASSUME NEW e \in aChains', NEW f \in aChains', MayPress(e)', MayPress(f)', e.t = f.t PROVE e = f
      BY DEF OnePresses
    <3>2. CASE e = d \/ f = d
      BY <2>3, <2>16, <2>19, <2>25, <3>1, <3>2
    <3>3. CASE e # d /\ f # d
      BY <2>2, <2>16, <3>1, <3>3 DEF SaleInv, OnePresses
    <3> QED
      BY <3>2, <3>3
  <2>21. PressIsFirst'
    <3>1. SUFFICES ASSUME NEW e \in aChains', MayPress(e)' PROVE aGoes'[e.t] = 0
      BY DEF PressIsFirst
    <3>2. CASE e = d
      <4>1. c.what = "renew" /\ r.status = "pending" /\ r.lease = c.tab
        BY <2>16, <2>25, <3>2, <3>1
      <4>2. Target!Pending(c.t)
        BY <2>1, <4>1 DEF Target!Pending
      <4>3. ASSUME aGoes[c.t] # 0 PROVE FALSE
        <5>1. aReq[c.t].lease = "gone" \/ \E x \in Tabs : aReq[c.t].lease = x /\ Keeps(x, c.t)
          BY <2>2, <4>2, <4>3 DEF SaleInv, SoldIsKept
        <5>2. CASE aReq[c.t].lease = "gone"
          BY <2>1, <2>2, <2>17, <4>1, <5>2
        <5>3. CASE \E x \in Tabs : aReq[c.t].lease = x /\ Keeps(x, c.t)
          <6>1. PICK x \in Tabs : aReq[c.t].lease = x /\ Keeps(x, c.t)
            BY <5>3
          <6>2. x # c.tab
            BY <6>1 DEF Keeps, Of
          <6> QED
            BY <2>1, <2>17, <4>1, <6>1, <6>2
        <5> QED
          BY <5>1, <5>2, <5>3
      <4> QED
        BY <2>1, <2>3, <3>2, <4>3
    <3>3. CASE e # d
      BY <2>1, <2>2, <2>16, <3>1, <3>3 DEF SaleInv, PressIsFirst
    <3> QED
      BY <3>2, <3>3
  <2>22. SoldIsKept'
    <3>1. ASSUME NEW t \in Targets, aGoes'[t] # 0, Target!Pending(t)'
          PROVE  /\ aGoes[t] # 0 /\ Target!Pending(t) /\ \A m \in aResults : m.t = t => m \in aResults'
                 /\ aReq[t].lease = "gone" => aReq'[t].lease = "gone"
                 /\ \A x \in Tabs : aReq[t].lease = x /\ Keeps(x, t) =>
                      aReq'[t].lease = "gone" \/ (aReq'[t].lease = x /\ Keeps(x, t)')
      <4>1. aGoes[t] # 0 /\ Target!Pending(t)
        BY <2>1, <2>15, <3>1
      <4>2. ASSUME NEW x \in Tabs, aReq[t].lease = x, Keeps(x, t) PROVE aReq'[t].lease = x /\ Keeps(x, t)'
        <5>1. x # c.tab \/ t # c.t
          BY <4>2 DEF Keeps, Of
        <5>2. aReq'[t].lease = x
          BY <2>15, <2>17, <3>1, <4>2, <5>1
        <5>3. \A e \in aChains' : e.tab = x /\ e.t = t => \E f \in aChains : f.tab = x /\ f.t = t
          BY <2>9
        <5> QED
          BY <2>1, <4>2, <5>2, <5>3, KeepsOn
      <4>3. aReq[t].lease = "gone" => aReq'[t].lease = "gone"
        BY <2>2, <2>15, <2>17, <3>1
      <4> QED
        BY <2>1, <4>1, <4>2, <4>3
    <3> QED
      BY <2>2, <3>1, SoldKeeps DEF SaleInv
  <2>23. RefusedIsAnswered'
    <3>1. \A g \in aGens : g.t \in Targets
      BY ReqIs
    <3> QED
      BY <2>1, <2>2, <2>15, <3>1 DEF SaleInv, RefusedIsAnswered
  <2>24. Target!OneGo'
    BY <2>1, <2>2 DEF SaleInv, Target!OneGo
  <2> QED
    BY <2>5, <2>6, <2>10, <2>12, <2>13, <2>14, <2>18, <2>20, <2>21, <2>22, <2>23, <2>24 DEF SaleInv, Sale
<1> QED
  BY <1>1, <1>2
\* Go: the tab shows the session it opened, and the result is on its way.
LEMMA GoKeeps ==
  ASSUME Target!Assumption, OneCopy, Sale, NEW c \in aChains, Target!Go(c) PROVE Sale'
<1> DEFINE x == c.tab
           id == <<c.tab, c.t, c.n>>
           T == [aTab[x] EXCEPT !.mode = "CONFIGURING"]
<1>1. /\ TargetTyped /\ SaleInv /\ c \in ChainForm /\ x \in Tabs /\ c.t \in Targets /\ c.n \in Copies
      /\ aTab[x] \in TargetPage(x) /\ aChains \in SUBSET ChainForm
      /\ \A e \in aChains : e.tab \in Tabs /\ e.t \in Targets /\ e \in ChainForm
  BY ChainHas DEF Sale
<1>2. MayPress(c) /\ ActsOn(c) /\ Through(c) /\ c.what # "busy" /\ aTab[x].alive
  BY DEF Target!Go, MayPress, ActsOn, Through
<1>3. aTab[x].seen[c.t] = "acting" /\ aGoes[c.t] = 0 /\ (Target!Pending(c.t) => aReq[c.t].lease = x)
  BY <1>1, <1>2 DEF SaleInv, ActingIsSeen, PressIsFirst, PressHoldsLease
<1>4. \A u \in Targets : aTab[x].seen[u] = "acting" => u = c.t
  BY <1>1, <1>2, <1>3 DEF SaleInv, ActsOnOne
<1>5. \A e \in aChains : e.tab = x /\ e.t = c.t => e = c
  BY <1>1, <1>2 DEF SaleInv, OneChain, ReportsAreBehind
<1>0. PICK ok, L : ok \in BOOLEAN /\ Gone(c, ok, L)
  BY <1>1, GoIs
<1>6. /\ Freed(x, T, L)
      /\ aTab'[x] \in TargetPage(x) /\ aTab'[x].seen = [L.tab.seen EXCEPT ![c.t] = "done"]
      /\ aTab'[x].mode = (IF ok THEN "GENERATING" ELSE "CONFIGURING")
      /\ aTab'[x].session = (IF ok THEN id ELSE aTab[x].session)
      /\ aTab'[x].conn = aTab[x].conn /\ aTab'[x].alive = aTab[x].alive
      /\ aTab'[x].busied = L.tab.busied
      /\ \A y \in Tabs : y # x => aTab'[y] = aTab[y]
      /\ aChains' = (aChains \ {c}) \cup L.asks
      /\ aGoes' = [aGoes EXCEPT ![c.t] = IF ok THEN @ + 1 ELSE @]
      /\ aGens' = (IF ok THEN aGens \cup {[t |-> c.t, by |-> id, at |-> "capturing"]} ELSE aGens)
      /\ \E m \in ResultForm : m.t = c.t /\ aResults' = aResults \cup {m}
      /\ UNCHANGED <<aReq, aInbox, aFaults>> /\ TabsTyped'
  BY <1>0 DEF Gone
<1>7. L.tab = T /\ L.asks = {}
  <2>1. T.seen = aTab[x].seen
    BY <1>1 DEF TargetPage
  <2>2. Target!Busy(T, None)
    BY <1>1, <1>3, <2>1 DEF Target!Busy, Target!Assumption
  <2> QED
    BY <1>6, <2>2 DEF Freed
<1>8. T.seen = aTab[x].seen /\ T.busied = aTab[x].busied /\ aTab[x].seen \in [Targets -> {"none", "heard", "declined", "denied", "acting", "done"}]
  BY <1>1 DEF TargetPage
<1> HIDE DEF T
<1>9. aTab'[x].seen = [aTab[x].seen EXCEPT ![c.t] = "done"] /\ aTab'[x].busied = aTab[x].busied /\ aChains' = aChains \ {c}
  BY <1>6, <1>7, <1>8
<1>10. (\A u \in Targets : u # c.t => aTab'[x].seen[u] = aTab[x].seen[u]) /\ aTab'[x].seen[c.t] = "done"
  BY <1>1, <1>8, <1>9
<1>11. id \in Target!SessionIds /\ id[1] = x /\ id[2] = c.t
  BY <1>1 DEF Target!SessionIds
<1> DEFINE h == [t |-> c.t, by |-> id, at |-> "capturing"]
<1>12. h \in GenForm /\ h.t = c.t /\ h.by = id /\ h.at = "capturing"
  BY <1>1, <1>11 DEF GenForm
<1>13. aGens' = (IF ok THEN aGens \cup {h} ELSE aGens)
  BY <1>6
<1> HIDE DEF h, id
<1>14. /\ \A u \in Targets : u # c.t => aGoes'[u] = aGoes[u]
       /\ aGoes'[c.t] = (IF ok THEN 1 ELSE 0) /\ aGoes' \in [Targets -> Nat]
  BY <1>1, <1>3, <1>6 DEF TargetTyped, HelperTyped
<1>15. TargetTyped'
  <2>1. aResults' \in SUBSET ResultForm
    BY <1>1, <1>6 DEF TargetTyped, WireTyped
  <2>2. aGens' \in SUBSET GenForm
    BY <1>1, <1>12, <1>13 DEF TargetTyped, WireTyped
  <2> QED
    BY <1>1, <1>6, <1>9, <1>14, <2>1, <2>2 DEF TargetTyped, WireTyped, HelperTyped
<1>16. GoneIsQuiet'
  <2>1. SUFFICES ASSUME NEW y \in Tabs
                 PROVE  /\ ~aTab'[y].conn => aInbox'[y] = {}
                        /\ ~aTab'[y].alive => ~aTab'[y].conn /\ aTab'[y].session = None /\ ~aTab'[y].applying /\ aTab'[y].mode # "GENERATING"
    BY DEF GoneIsQuiet
  <2>2. CASE y = x
    BY <1>1, <1>2, <1>6, <2>2 DEF SaleInv, GoneIsQuiet
  <2>3. CASE y # x
    BY <1>1, <1>6, <2>3 DEF SaleInv, GoneIsQuiet
  <2> QED
    BY <2>2, <2>3
<1>17. UnaskedIsUnheard'
  <2>1. Heard(c.t) /\ aReq[c.t].status # "none"
    BY <1>1 DEF Heard, SaleInv, UnaskedIsUnheard
  <2>2. ASSUME NEW t \in Targets, t # c.t, Heard(t)' PROVE Heard(t)
    <3>1. CASE \E g \in aGens' : g.t = t
      BY <1>12, <1>13, <2>2, <3>1 DEF Heard
    <3>2. CASE \E e \in aChains' : e.t = t
      BY <1>9, <3>2 DEF Heard
    <3>3. CASE \E y \in Tabs : t \in aInbox'[y]
      BY <1>6, <3>3 DEF Heard
    <3>4. CASE \E y \in Tabs : t \in aTab'[y].busied
      BY <1>1, <1>6, <1>9, <3>4 DEF Heard
    <3> QED
      BY <2>2, <3>1, <3>2, <3>3, <3>4 DEF Heard
  <2> QED
    BY <1>1, <1>6, <1>14, <2>1, <2>2, UnaskedKeeps DEF SaleInv
<1>18. OneChain' /\ ReportsAreBehind'
  BY <1>1, <1>9, FewerChains DEF SaleInv
<1>19. ActingIsSeen'
  <2>1. SUFFICES ASSUME NEW e \in aChains', ActsOn(e), aTab'[e.tab].alive PROVE aTab'[e.tab].seen[e.t] = "acting"
    BY DEF ActingIsSeen, ActsOn
  <2>2. e \in aChains /\ e # c /\ e.tab \in Tabs /\ e.t \in Targets
    BY <1>1, <1>9, <2>1
  <2>3. aTab[e.tab].alive
    BY <1>6, <2>1, <2>2
  <2>4. aTab[e.tab].seen[e.t] = "acting"
    BY <1>1, <2>1, <2>2, <2>3 DEF SaleInv, ActingIsSeen
  <2>5. e.tab # x
    BY <1>4, <1>5, <2>2, <2>4
  <2> QED
    BY <1>6, <2>2, <2>4, <2>5
<1>20. ActsOnOne'
  <2>1. \A y \in Tabs : \A u \in Targets : aTab'[y].seen[u] = "acting" => aTab[y].seen[u] = "acting"
    BY <1>6, <1>10
  <2>2. \A y \in Tabs : aTab'[y].alive => aTab[y].alive
    BY <1>6
  <2> QED
    BY <1>1, <2>1, <2>2 DEF SaleInv, ActsOnOne
<1>21. Pressing'
  <2>1. ASSUME NEW e \in aChains', MayPress(e)'
        PROVE  /\ e \in aChains /\ MayPress(e) /\ aGoes'[e.t] = aGoes[e.t]
               /\ Target!Pending(e.t)' => Target!Pending(e.t) /\ aReq'[e.t].lease = aReq[e.t].lease
    <3>1. e \in aChains /\ e # c /\ e.tab \in Tabs /\ e.t \in Targets
      BY <1>1, <1>9
    <3>2. MayPress(e)
      BY <1>6, <2>1, <3>1 DEF MayPress
    <3>3. e.t # c.t
      BY <1>1, <1>2, <3>1, <3>2 DEF SaleInv, OnePresses
    <3> QED
      BY <1>6, <1>14, <3>1, <3>2, <3>3 DEF Target!Pending
  <2>2. Pressing
    BY <1>1 DEF SaleInv, Pressing
  <2> QED
    BY <2>1, <2>2, PressKeeps
<1>22. SoldIsKept'
  <2>1. ASSUME NEW t \in Targets, aGoes'[t] # 0, Target!Pending(t)'
        PROVE  /\ \E m \in aResults' : m.t = t
               /\ aReq'[t].lease = "gone" \/ \E y \in Tabs : aReq'[t].lease = y /\ Keeps(y, t)'
    <3>1. Target!Pending(t) /\ aReq' = aReq /\ \A m \in aResults : m \in aResults'
      BY <1>6, <2>1 DEF Target!Pending
    <3>2. CASE t = c.t
      <4>1. ok /\ aReq'[t].lease = x
        BY <1>3, <1>14, <2>1, <3>1, <3>2
      <4>2. h \in aGens' /\ h.by = aTab'[x].session /\ h.by[1] = x /\ h.t = t
        BY <1>6, <1>11, <1>12, <1>13, <3>2, <4>1
      <4>3. \A e \in aChains' : ~Of(e, x, t)
        BY <1>5, <1>9, <3>2 DEF Of
      <4>4. aTab'[x].mode = "GENERATING" /\ aTab'[x].seen[t] = "done" /\ \A u \in Targets : aTab'[x].seen[u] # "acting"
        BY <1>4, <1>6, <1>10, <3>2, <4>1
      <4>5. Keeps(x, t)'
        BY <4>2, <4>3, <4>4 DEF Keeps, Of
      <4> QED
        BY <1>1, <1>6, <3>2, <4>1, <4>5
    <3>3. CASE t # c.t
      <4>1. aGoes[t] # 0
        BY <1>14, <2>1, <3>3
      <4>2. \E m \in aResults' : m.t = t
        BY <1>1, <3>1, <4>1 DEF SaleInv, SoldIsKept
      <4>3. aReq[t].lease = "gone" \/ \E y \in Tabs : aReq[t].lease = y /\ Keeps(y, t)
        BY <1>1, <3>1, <4>1 DEF SaleInv, SoldIsKept
      <4>4. ASSUME NEW y \in Tabs, Keeps(y, t) PROVE Keeps(y, t)'
        <5>1. y # x
          BY <1>1, <1>2, <1>3, <4>4 DEF Keeps
        <5>2. aTab'[y] = aTab[y] /\ (\A e \in aChains' : e \in aChains) /\ \A g \in aGens : g \in aGens'
          BY <1>6, <1>9, <1>13, <5>1
        <5> QED
          BY <4>4, <5>2, KeptIs
      <4> QED
        BY <3>1, <4>2, <4>3, <4>4
    <3> QED
      BY <3>2, <3>3
  <2> QED
    BY <2>1 DEF SoldIsKept
<1>23. RefusedIsAnswered'
  <2>1. \A g \in aGens' : g.at = "refused" => g \in aGens
    BY <1>12, <1>13
  <2> QED
    BY <1>1, <1>6, <2>1 DEF SaleInv, RefusedIsAnswered, Target!Pending
<1>24. Target!OneGo'
  BY <1>1, <1>14 DEF SaleInv, Target!OneGo
<1> QED
  BY <1>15, <1>16, <1>17, <1>18, <1>19, <1>20, <1>21, <1>22, <1>23, <1>24 DEF SaleInv, Pressing, Sale

-----------------------------------------------------------------------------

LEMMA SaleInit == ASSUME Target!Assumption, Target!Init PROVE Sale
<1>1. TargetTyped
  BY DEF Target!Init, Target!Fresh, TargetTyped, TabsTyped, WireTyped, HelperTyped, TargetPage, ReqForm
<1>2. SaleInv
  BY DEF Target!Init, Target!Fresh, SaleInv, GoneIsQuiet, UnaskedIsUnheard, OneChain, ReportsAreBehind, ActingIsSeen, ActsOnOne,
     PressHoldsLease, OnePresses, PressIsFirst, SoldIsKept, RefusedIsAnswered, Target!OneGo
<1> QED
  BY <1>1, <1>2 DEF Sale

LEMMA SaleStutters == ASSUME Sale, UNCHANGED Target!vars PROVE Sale'
<1>1. TargetTyped'
  BY TabsStay DEF Sale, Target!vars, TargetTyped, WireTyped, HelperTyped
<1>2. SaleInv'
  BY DEF Sale, Target!vars, SaleInv, GoneIsQuiet, UnaskedIsUnheard, OneChain, ReportsAreBehind, ActingIsSeen, ActsOnOne,
     PressHoldsLease, OnePresses, PressIsFirst, SoldIsKept, RefusedIsAnswered, Target!OneGo, MayPress, Target!Pending, ActsOn, Through, Keeps, Of
<1> QED
  BY <1>1, <1>2 DEF Sale

LEMMA SaleKept == ASSUME Target!Assumption, OneCopy, "frozen" \notin TargetMishaps, Sale, [Target!Next]_Target!vars PROVE Sale'
<1>1. ASSUME NEW c \in aChains, Target!Step(c) PROVE Sale'
  BY <1>1, ClaimKeeps, AskedKeeps, DeniedKeeps, GrantedKeeps, ScrolledKeeps, StandsDownKeeps, ThrowsKeeps, GoKeeps,
     MissedKeeps, WatchKeeps DEF Target!Step
<1>2. ASSUME Target!Helper PROVE Sale'
  BY <1>2, RequestKeeps, NoMatchKeeps, LapseKeeps, TimesOutKeeps, ResultArrivesKeeps, CapturedKeeps, GenerateArrivesKeeps,
     RefusedKeepsTheSale DEF Target!Helper
<1>3. ASSUME NEW x \in Tabs, Target!Page(x) PROVE Sale'
  BY <1>3, DropKeeps, ConnectKeeps, ReloadKeeps, LeaveKeeps, UserGoKeeps, SessionEndsKeeps, ApplyKeeps, AppliedKeeps,
     RenderKeeps DEF Target!Page
<1>4. ASSUME NEW x \in Tabs, NEW t \in Targets, Target!Hear(x, t) PROVE Sale'
  BY <1>4, HearKeeps
<1> QED
  BY <1>1, <1>2, <1>3, <1>4, SaleStutters DEF Target!Next

LEMMA SaleTypes == ASSUME Sale PROVE Target!TypeOK /\ Target!OneGo
<1>1. Target!OneGo
  BY DEF Sale, SaleInv
<1>2. Target!TypeOK
  BY DEF Sale, TargetTyped, TabsTyped, WireTyped, HelperTyped, Target!TypeOK, TargetPage, ReqForm, ChainForm
<1> QED
  BY <1>1, <1>2
-----------------------------------------------------------------------------
(* The types alone, which need no more than the constants' assumption.     *)

LEMMA TypedPage ==
  ASSUME TargetTyped, NEW x \in Tabs, NEW v \in TargetPage(x), aTab' = [aTab EXCEPT ![x] = v],
         aChains' \in SUBSET ChainForm, aResults' \in SUBSET ResultForm, aGens' \in SUBSET GenForm,
         aInbox' \in [Tabs -> SUBSET Targets], aReq' \in [Targets -> ReqForm], aGoes' = aGoes
  PROVE  TargetTyped'
<1>1. TabsTyped'
  BY TabSet DEF TargetTyped
<1> QED
  BY <1>1 DEF TargetTyped, WireTyped, HelperTyped

LEMMA TypedReq ==
  ASSUME TargetTyped, NEW t \in Targets, NEW r \in ReqForm, aReq' = [aReq EXCEPT ![t] = r], UNCHANGED <<aTab, aChains, aGoes>>,
         aResults' \in SUBSET ResultForm, aGens' \in SUBSET GenForm, aInbox' \in [Tabs -> SUBSET Targets]
  PROVE  TargetTyped'
<1>1. TabsTyped' /\ aReq' \in [Targets -> ReqForm]
  BY ReqSet, TabsStay DEF TargetTyped, HelperTyped
<1> QED
  BY <1>1 DEF TargetTyped, WireTyped, HelperTyped

LEMMA TypedIs ==
  ASSUME TargetTyped
  PROVE  /\ \A x \in Tabs : aTab[x] \in TargetPage(x)
         /\ \A t \in Targets : aReq[t] \in ReqForm
         /\ \A c \in aChains : c \in ChainForm /\ c.tab \in Tabs /\ c.t \in Targets /\ StageIs(c.at, c.what)
         /\ aChains \in SUBSET ChainForm /\ aResults \in SUBSET ResultForm /\ aGens \in SUBSET GenForm
         /\ aInbox \in [Tabs -> SUBSET Targets] /\ aReq \in [Targets -> ReqForm]
BY ChainParts DEF TargetTyped, TabsTyped, WireTyped, HelperTyped

\* A chain that goes on, or ends; the tab marks the target, or changes nothing.
LEMMA TypedStep ==
  ASSUME TargetTyped, NEW c \in aChains, NEW d \in ChainForm, Marked(c), aChains' \subseteq (aChains \ {c}) \cup {d},
         UNCHANGED <<aReq, aInbox, aResults, aGens, aGoes>>
  PROVE  TargetTyped'
<1>1. c.tab \in Tabs /\ c.t \in Targets /\ aTab[c.tab] \in TargetPage(c.tab)
  BY TypedIs
<1>2. TabsTyped'
  <2>1. CASE aTab' = aTab
    BY <2>1, TabsStay DEF TargetTyped
  <2>2. CASE aTab' # aTab
    <3>1. PICK s \in {"heard", "declined", "denied", "done"} : aTab' = [aTab EXCEPT ![c.tab] = Target!Note(aTab[c.tab], c.t, s)]
      BY <2>2 DEF Marked
    <3>2. Target!Note(aTab[c.tab], c.t, s) \in TargetPage(c.tab)
      BY <1>1, NoteIs
    <3> QED
      BY <1>1, <3>1, <3>2, TabSet DEF TargetTyped
  <2> QED
    BY <2>1, <2>2
<1> QED
  BY <1>2 DEF TargetTyped, WireTyped, HelperTyped

LEMMA StepTyped == ASSUME Target!Assumption, TargetTyped, NEW c \in aChains, Target!Step(c) PROVE TargetTyped'
<1>1. c \in ChainForm /\ c.tab \in Tabs /\ c.t \in Targets /\ aTab[c.tab] \in TargetPage(c.tab) /\ StageIs(c.at, c.what)
  BY TypedIs
<1>2. CASE Target!Claim(c) \/ (Target!Watch(c) /\ Target!Claims(c))
  <2>1. Target!Claims(c) /\ c.at \in {"start", "retry", "watch"} /\ UNCHANGED <<aReq, aInbox, aResults, aGens, aGoes>>
    BY <1>2 DEF Target!Claim, Target!Watch
  <2>2. TabsTyped' /\ aChains' \in SUBSET ChainForm
    BY <2>1, ClaimsTyped
  <2> QED
    BY <2>1, <2>2 DEF TargetTyped, WireTyped, HelperTyped
<1>3. CASE Target!Asked(c)
  BY <1>3, AskedTyped
<1>4. CASE Target!Denied(c)
  <2>1. StageIs("retry", "claim")
    BY DEF StageIs
  <2>2. On(c, "retry", "claim") \in ChainForm
    BY <1>1, <2>1, OnIs
  <2>3. aChains' \subseteq (aChains \ {c}) \cup {On(c, "retry", "claim")}
    BY <1>4 DEF Target!Denied, Target!Onward, On
  <2>4. Marked(c) /\ UNCHANGED <<aReq, aInbox, aResults, aGens, aGoes>>
    BY <1>4 DEF Target!Denied, Marked
  <2> QED
    BY <2>2, <2>3, <2>4, TypedStep
<1>5. CASE Target!Granted(c)
  <2>1. PICK N, s, d : Acts(c, N, s, d)
    BY <1>5, GrantedIs
  <2>2. UNCHANGED <<aReq, aInbox, aGens, aGoes>>
    BY <1>5, GrantedIs
  <2>3. N \in TargetPage(c.tab) /\ aTab' = [aTab EXCEPT ![c.tab] = N] /\ d \in ChainForm
        /\ aChains' \subseteq (aChains \ {c}) \cup {d} /\ aResults' \in SUBSET ResultForm
    BY <2>1 DEF Acts
  <2>4. aChains' \in SUBSET ChainForm /\ aGens' \in SUBSET GenForm /\ aInbox' \in [Tabs -> SUBSET Targets]
        /\ aReq' \in [Targets -> ReqForm] /\ aGoes' = aGoes
    BY <2>2, <2>3, TypedIs
  <2> QED
    BY <1>1, <2>3, <2>4, TypedPage
<1>6. CASE Target!Scrolled(c)
  <2>1. c.what = "claim" /\ StageIs("asked", "renew")
    BY <1>1, <1>6 DEF Target!Scrolled, StageIs
  <2>2. On(c, "asked", "renew") \in ChainForm
    BY <1>1, <2>1, OnIs
  <2>3. aChains' \subseteq (aChains \ {c}) \cup {On(c, "asked", "renew")}
    BY <1>6 DEF Target!Scrolled, Target!Onward, On
  <2>4. Marked(c) /\ UNCHANGED <<aReq, aInbox, aResults, aGens, aGoes>>
    BY <1>6 DEF Target!Scrolled, Marked
  <2> QED
    BY <2>2, <2>3, <2>4, TypedStep
<1>7. CASE Target!StandsDown(c)
  <2>1. Marked(c) /\ aChains' \subseteq (aChains \ {c}) \cup {c} /\ UNCHANGED <<aReq, aInbox, aResults, aGens, aGoes>>
    BY <1>7 DEF Target!StandsDown, Marked
  <2> QED
    BY <1>1, <2>1, TypedStep
<1>8. CASE Target!Throws(c)
  <2> DEFINE v == [aTab[c.tab] EXCEPT !.mode = "CONFIGURING"]
  <2>1. v \in TargetPage(c.tab) /\ aTab' = [aTab EXCEPT ![c.tab] = v]
    BY <1>1, <1>8 DEF TargetPage, Target!Throws
  <2>2. aChains' \in SUBSET ChainForm /\ UNCHANGED <<aReq, aInbox, aResults, aGens, aGoes>>
    BY <1>8, TypedIs DEF Target!Throws
  <2> HIDE DEF v
  <2> QED
    BY <1>1, <2>1, <2>2, TypedIs, TypedPage
<1>9. CASE Target!Go(c)
  <2>1. PICK ok, L : ok \in BOOLEAN /\ Gone(c, ok, L)
    BY <1>9, GoIs
  <2>2. aChains' \in SUBSET ChainForm
    BY <2>1, TypedIs DEF Gone, Freed, NewChain
  <2>3. aResults' \in SUBSET ResultForm
    BY <2>1, TypedIs DEF Gone
  <2>4. aGoes' \in [Targets -> Nat]
    BY <1>1, <2>1 DEF Gone, TargetTyped, HelperTyped
  <2>5. aGens' \in SUBSET GenForm
    <3> DEFINE h == [t |-> c.t, by |-> <<c.tab, c.t, c.n>>, at |-> "capturing"]
    <3>1. h \in GenForm
      BY <1>1 DEF GenForm, Target!SessionIds, ChainForm, Target!Possible
    <3>2. aGens' \subseteq aGens \cup {h}
      BY <2>1 DEF Gone
    <3> HIDE DEF h
    <3> QED
      BY <3>1, <3>2, TypedIs
  <2>6. TabsTyped' /\ UNCHANGED <<aReq, aInbox>>
    BY <2>1 DEF Gone
  <2> QED
    BY <2>2, <2>3, <2>4, <2>5, <2>6 DEF TargetTyped, WireTyped, HelperTyped
<1>10. CASE Target!Missed(c)
  <2>1. StageIs("watch", "miss")
    BY DEF StageIs
  <2>2. On(c, "watch", "miss") \in ChainForm
    BY <1>1, <2>1, OnIs
  <2>3. aChains' \subseteq (aChains \ {c}) \cup {On(c, "watch", "miss")}
    BY <1>10 DEF Target!Missed, Target!Onward, On
  <2>4. Marked(c) /\ UNCHANGED <<aReq, aInbox, aResults, aGens, aGoes>>
    BY <1>10 DEF Target!Missed, Marked
  <2> QED
    BY <2>2, <2>3, <2>4, TypedStep
<1>11. CASE Target!Watch(c) /\ aChains' = aChains \ {c} /\ UNCHANGED aTab
  <2>1. Marked(c) /\ aChains' \subseteq (aChains \ {c}) \cup {c} /\ UNCHANGED <<aReq, aInbox, aResults, aGens, aGoes>>
    BY <1>11 DEF Target!Watch, Marked
  <2> QED
    BY <1>1, <2>1, TypedStep
<1>12. Target!Watch(c) => Target!Claims(c) \/ (aChains' = aChains \ {c} /\ UNCHANGED aTab)
  BY DEF Target!Watch
<1> QED
  BY <1>2, <1>3, <1>4, <1>5, <1>6, <1>7, <1>8, <1>9, <1>10, <1>11, <1>12 DEF Target!Step

\* A request's record changes; what is under way stays.
LEMMA TypedAnswer ==
  ASSUME TargetTyped, NEW t \in Targets, NEW r \in ReqForm, aReq' = [aReq EXCEPT ![t] = r],
         UNCHANGED <<aTab, aChains, aGoes, aInbox>>, aResults' \subseteq aResults, aGens' \in SUBSET GenForm
  PROVE  TargetTyped'
<1>1. aInbox' \in [Tabs -> SUBSET Targets] /\ aResults' \in SUBSET ResultForm
  BY TypedIs
<1> QED
  BY <1>1, TypedReq

LEMMA RequestTyped == ASSUME TargetTyped, NEW t \in Targets, Target!Request(t) PROVE TargetTyped'
<1> DEFINE r == [aReq[t] EXCEPT !.status = "pending"]
<1>1. r \in ReqForm /\ aReq' = [aReq EXCEPT ![t] = r]
  BY TypedIs DEF ReqForm, Target!Request
<1>2. aInbox' \in [Tabs -> SUBSET Targets] /\ aResults' \in SUBSET ResultForm /\ aGens' \in SUBSET GenForm
      /\ UNCHANGED <<aTab, aChains, aGoes>>
  BY TypedIs DEF Target!Request
<1> HIDE DEF r
<1> QED
  BY <1>1, <1>2, TypedReq

LEMMA VerdictTyped == ASSUME TargetTyped, NEW t \in Targets, Target!NoMatch(t) \/ Target!TimesOut(t) \/ Target!Lapse(t) PROVE TargetTyped'
<1>1. aReq[t] \in ReqForm /\ aGens' \in SUBSET GenForm /\ aResults' \subseteq aResults
      /\ UNCHANGED <<aTab, aChains, aInbox, aGoes>>
  BY TypedIs DEF Target!NoMatch, Target!TimesOut, Target!Lapse
<1>2. \E r \in ReqForm : aReq' = [aReq EXCEPT ![t] = r]
  <2>1. CASE Target!NoMatch(t)
    <3>1. [aReq[t] EXCEPT !.status = "no_match"] \in ReqForm
      BY <1>1 DEF ReqForm
    <3> QED
      BY <2>1, <3>1 DEF Target!NoMatch
  <2>2. CASE Target!TimesOut(t)
    <3>1. [aReq[t] EXCEPT !.status = "timeout"] \in ReqForm
      BY <1>1 DEF ReqForm
    <3> QED
      BY <2>2, <3>1 DEF Target!TimesOut
  <2>3. CASE Target!Lapse(t)
    <3> DEFINE q == [aReq[t] EXCEPT !.lease = None]
    <3>1. q \in ReqForm
      BY <1>1 DEF ReqForm
    <3>2. aReq' = [aReq EXCEPT ![t] = Target!Settled(q, Target!Connected)]
      BY <2>3 DEF Target!Lapse
    <3> HIDE DEF q
    <3>3. Target!Settled(q, Target!Connected) \in ReqForm
      BY <3>1 DEF ReqForm, Target!Settled
    <3> QED
      BY <3>2, <3>3
  <2> QED
    BY <2>1, <2>2, <2>3
<1> QED
  BY <1>1, <1>2, TypedAnswer

LEMMA ArrivalTyped ==
  ASSUME TargetTyped, (\E m \in aResults : Target!ResultArrives(m)) \/ \E g \in aGens : Target!Captured(g) \/ Target!GenerateArrives(g)
  PROVE  TargetTyped'
<1>1. CASE \E m \in aResults : Target!ResultArrives(m)
  <2>1. PICK m \in aResults : Target!ResultArrives(m)
    BY <1>1
  <2> DEFINE r == IF Target!Pending(m.t) THEN [aReq[m.t] EXCEPT !.status = m.kind, !.by = m.by] ELSE aReq[m.t]
  <2>2. m \in ResultForm /\ m.t \in Targets /\ aReq[m.t] \in ReqForm /\ aReq \in [Targets -> ReqForm]
    BY TypedIs DEF ResultForm
  <2>3. r \in ReqForm
    BY <2>2 DEF ReqForm, ResultForm
  <2>4. aReq' = [aReq EXCEPT ![m.t] = r] /\ UNCHANGED <<aTab, aChains, aInbox, aGens, aGoes>> /\ aResults' \subseteq aResults
    BY <2>1, <2>2 DEF Target!ResultArrives
  <2> HIDE DEF r
  <2> QED
    BY <2>2, <2>3, <2>4, TypedIs, TypedAnswer
<1>2. CASE \E g \in aGens : Target!Captured(g) \/ Target!GenerateArrives(g)
  <2>1. PICK g \in aGens : Target!Captured(g) \/ Target!GenerateArrives(g)
    BY <1>2
  <2>2. g \in GenForm /\ g.t \in Targets /\ g.by \in Target!SessionIds /\ aReq[g.t] \in ReqForm /\ aReq \in [Targets -> ReqForm]
    BY TypedIs DEF GenForm
  <2>3. [g EXCEPT !.at = "sent"] \in GenForm /\ [g EXCEPT !.at = "refused"] \in GenForm
    BY <2>2 DEF GenForm
  <2>4. aGens' \subseteq aGens \cup {[g EXCEPT !.at = "sent"], [g EXCEPT !.at = "refused"]}
    BY <2>1 DEF Target!Captured, Target!GenerateArrives
  <2>5. aGens' \in SUBSET GenForm /\ UNCHANGED <<aTab, aChains, aInbox, aResults, aGoes>>
    BY <2>1, <2>3, <2>4, TypedIs DEF Target!Captured, Target!GenerateArrives
  <2>6. \E r \in ReqForm : aReq' = [aReq EXCEPT ![g.t] = r]
    <3> DEFINE r == [aReq[g.t] EXCEPT !.status = "served", !.by = g.by]
    <3>1. r \in ReqForm
      BY <2>2 DEF ReqForm
    <3>2. aReq' = [aReq EXCEPT ![g.t] = r] \/ aReq' = aReq
      BY <2>1 DEF Target!Captured, Target!GenerateArrives
    <3> HIDE DEF r
    <3> QED
      BY <2>2, <3>1, <3>2
  <2> QED
    BY <2>2, <2>5, <2>6, TypedAnswer
<1> QED
  BY <1>1, <1>2

\* A tab is T, and what setLiveState makes of that.
LEMMA FreedTyped ==
  ASSUME Target!Assumption, TargetTyped, NEW x \in Tabs, NEW T \in TargetPage(x), NEW L, Freed(x, T, L),
         NEW v \in TargetPage(x), aTab' = [aTab EXCEPT ![x] = v], aChains' = aChains \cup L.asks,
         aGens' \subseteq aGens, UNCHANGED <<aReq, aInbox, aResults, aGoes>>
  PROVE  TargetTyped'
<1>1. L.asks \subseteq ChainForm
  BY DEF Freed, NewChain
<1> QED
  BY <1>1, TypedIs, TypedPage

LEMMA LiveTyped ==
  ASSUME Target!Assumption, TargetTyped, NEW x \in Tabs, NEW T \in TargetPage(x), Target!Become(x, Target!Live(x, T)),
         aGens' \subseteq aGens, UNCHANGED <<aReq, aInbox, aResults, aGoes>>
  PROVE  TargetTyped'
<1> DEFINE L == Target!Live(x, T)
<1>1. Freed(x, T, L)
  BY LiveIs
<1>2. aTab' = [aTab EXCEPT ![x] = L.tab] /\ aChains' = aChains \cup L.asks
  BY DEF Target!Become
<1> HIDE DEF L
<1>3. L.tab \in TargetPage(x)
  BY <1>1 DEF Freed
<1> QED
  BY <1>1, <1>2, <1>3, FreedTyped

LEMMA RefusedTyped == ASSUME Target!Assumption, TargetTyped, NEW g \in aGens, Target!Refused(g) PROVE TargetTyped'
<1> DEFINE x == g.by[1]
           T == [aTab[x] EXCEPT !.mode = "PICKING", !.session = None]
<1>1. g.by \in Target!SessionIds /\ aGens' = aGens \ {g} /\ UNCHANGED <<aReq, aInbox, aResults, aGoes>>
  BY TypedIs DEF Target!Refused, GenForm
<1>2. x \in Tabs
  BY <1>1 DEF Target!SessionIds
<1>3. CASE aTab[x].session = g.by
  <2>2. Target!Become(x, Target!Live(x, T)) /\ aGens' \subseteq aGens
    BY <1>1, <1>3 DEF Target!Refused
  <2> HIDE DEF x
  <2>3. aTab[x] \in TargetPage(x)
    BY <1>2, TypedIs
  <2>1. T \in TargetPage(x)
    BY <2>3 DEF TargetPage
  <2> HIDE DEF T
  <2> QED
    BY <1>1, <1>2, <2>1, <2>2, LiveTyped
<1>4. CASE aTab[x].session # g.by
  <2>1. UNCHANGED <<aTab, aChains>>
    BY <1>4 DEF Target!Refused
  <2>2. TabsTyped'
    BY <2>1, TabsStay DEF TargetTyped
  <2> QED
    BY <1>1, <2>1, <2>2 DEF TargetTyped, WireTyped, HelperTyped
<1> QED
  BY <1>3, <1>4

LEMMA HelperTypes == ASSUME Target!Assumption, TargetTyped, Target!Helper PROVE TargetTyped'
<1>1. CASE \E t \in Targets : Target!Request(t) \/ Target!NoMatch(t) \/ Target!Lapse(t) \/ Target!TimesOut(t)
  BY <1>1, RequestTyped, VerdictTyped
<1>2. CASE (\E m \in aResults : Target!ResultArrives(m)) \/ \E g \in aGens : Target!Captured(g) \/ Target!GenerateArrives(g)
  BY <1>2, ArrivalTyped
<1>3. CASE \E g \in aGens : Target!Refused(g)
  BY <1>3, RefusedTyped
<1> QED
  BY <1>1, <1>2, <1>3 DEF Target!Helper

-----------------------------------------------------------------------------
(* What happens at a page.                                                 *)

LEMMA ClosedTyped ==
  ASSUME TargetTyped, NEW x \in Tabs, NEW v \in TargetPage(x), aTab' = [aTab EXCEPT ![x] = v],
         NEW holder \in Tabs \cup {"gone"}, Target!Closed(x, holder), aInbox' = [aInbox EXCEPT ![x] = {}],
         aChains' \subseteq aChains, aGens' \subseteq aGens, UNCHANGED <<aResults, aGoes>>
  PROVE  TargetTyped'
<1>1. aReq' \in [Targets -> ReqForm]
  BY ClosedIs
<1>2. aInbox' \in [Tabs -> SUBSET Targets] /\ aChains' \in SUBSET ChainForm /\ aGens' \in SUBSET GenForm /\ aResults' \in SUBSET ResultForm
  BY TypedIs
<1> QED
  BY <1>1, <1>2, TypedPage

LEMMA GoneTyped == ASSUME Target!Assumption, TargetTyped, NEW x \in Tabs, Target!Drop(x) \/ Target!Leave(x) \/ Target!Reload(x) PROVE TargetTyped'
<1>1. aTab[x] \in TargetPage(x)
  BY TypedIs
<1>2. CASE Target!Drop(x)
  <2>1. [aTab[x] EXCEPT !.conn = FALSE] \in TargetPage(x)
    BY <1>1 DEF TargetPage
  <2> QED
    BY <1>2, <2>1, ClosedTyped DEF Target!Drop
<1>3. CASE Target!Leave(x)
  <2>1. [Target!Fresh EXCEPT !.alive = FALSE, !.conn = FALSE, !.el = aTab[x].el] \in TargetPage(x)
    BY <1>1 DEF TargetPage, Target!Fresh
  <2> QED
    BY <1>3, <2>1, ClosedTyped DEF Target!Leave
<1>4. CASE Target!Reload(x)
  <2> DEFINE v == [Target!Fresh EXCEPT !.conn = FALSE, !.el = aTab[x].el, !.session = aTab[x].session,
                                !.mode = IF aTab[x].session = None THEN "PICKING" ELSE "GENERATING"]
  <2>1. v \in TargetPage(x) /\ aTab' = [aTab EXCEPT ![x] = v]
    BY <1>1, <1>4 DEF TargetPage, Target!Fresh, Target!Reload
  <2>2. Target!Closed(x, "gone") /\ aInbox' = [aInbox EXCEPT ![x] = {}] /\ aChains' \subseteq aChains /\ aGens' \subseteq aGens
        /\ UNCHANGED <<aResults, aGoes>>
    BY <1>4 DEF Target!Reload
  <2> HIDE DEF v
  <2> QED
    BY <2>1, <2>2, ClosedTyped
<1> QED
  BY <1>2, <1>3, <1>4

LEMMA ShownTyped ==
  ASSUME TargetTyped, NEW x \in Tabs, Target!Connect(x) \/ Target!Apply(x) \/ Target!Render(x) PROVE TargetTyped'
<1>1. aTab[x] \in TargetPage(x) /\ aInbox \in [Tabs -> SUBSET Targets]
  BY TypedIs
<1>2. \E v \in TargetPage(x) : aTab' = [aTab EXCEPT ![x] = v]
  <2>1. /\ [aTab[x] EXCEPT !.conn = TRUE] \in TargetPage(x) /\ [aTab[x] EXCEPT !.applying = TRUE] \in TargetPage(x)
        /\ [aTab[x] EXCEPT !.el = ~aTab[x].el] \in TargetPage(x)
    BY <1>1 DEF TargetPage
  <2> QED
    BY <2>1 DEF Target!Connect, Target!Apply, Target!Render
<1>3. aInbox' \in [Tabs -> SUBSET Targets]
  BY <1>1 DEF Target!Connect, Target!Apply, Target!Render
<1>4. UNCHANGED <<aChains, aReq, aResults, aGens, aGoes>>
  BY DEF Target!Connect, Target!Apply, Target!Render
<1> QED
  BY <1>2, <1>3, <1>4, TypedIs, TypedPage

LEMMA UsedTyped ==
  ASSUME Target!Assumption, TargetTyped, NEW x \in Tabs, Target!UserGo(x) \/ Target!SessionEnds(x) \/ Target!Applied(x) PROVE TargetTyped'
<1>1. aTab[x] \in TargetPage(x) /\ UNCHANGED <<aReq, aInbox, aResults, aGens, aGoes>>
  BY TypedIs DEF Target!UserGo, Target!SessionEnds, Target!Applied
<1>2. CASE Target!SessionEnds(x)
  <2>1. [aTab[x] EXCEPT !.mode = "PICKING", !.session = None] \in TargetPage(x)
    BY <1>1 DEF TargetPage
  <2> QED
    BY <1>1, <1>2, <2>1, LiveTyped DEF Target!SessionEnds
<1>3. CASE Target!Applied(x)
  <2>1. [aTab[x] EXCEPT !.applying = FALSE] \in TargetPage(x)
    BY <1>1 DEF TargetPage
  <2> QED
    BY <1>1, <1>3, <2>1, LiveTyped DEF Target!Applied
<1>4. CASE Target!UserGo(x)
  <2> DEFINE T == [aTab[x] EXCEPT !.mode = "CONFIGURING"]
             L == Target!Live(x, T)
             v == [L.tab EXCEPT !.mode = "GENERATING", !.session = Target!UserSession(x)]
  <2>1. T \in TargetPage(x)
    BY <1>1 DEF TargetPage
  <2>2. Freed(x, T, L)
    BY <2>1, LiveIs
  <2>3. aTab' = [aTab EXCEPT ![x] = v] /\ aChains' = aChains \cup L.asks
    BY <1>4 DEF Target!UserGo, Target!Become, Target!Live
  <2>4. v \in TargetPage(x)
    BY <2>2 DEF Freed, TargetPage
  <2> HIDE DEF T, L, v
  <2> QED
    BY <1>1, <2>1, <2>2, <2>3, <2>4, FreedTyped
<1> QED
  BY <1>2, <1>3, <1>4

LEMMA HearTyped == ASSUME Target!Assumption, TargetTyped, NEW x \in Tabs, NEW t \in Targets, Target!Hear(x, t) PROVE TargetTyped'
<1> DEFINE T == aTab[x]
           H == Target!Note(T, t, "heard")
<1>1. T \in TargetPage(x) /\ aInbox' \in [Tabs -> SUBSET Targets] /\ UNCHANGED <<aReq, aResults, aGens, aGoes>>
  BY TypedIs DEF Target!Hear
<1>2. H \in TargetPage(x)
  BY <1>1, NoteIs
<1>3. Target!DeclineBusy(H, t) \in TargetPage(x)
  BY <1>2, DeclineIs
<1>4. Target!Note(H, t, "declined") \in TargetPage(x)
  BY <1>2, NoteIs
<1>5. \/ UNCHANGED <<aTab, aChains>>
      \/ aTab' = [aTab EXCEPT ![x] = Target!DeclineBusy(H, t)] /\ aChains' = aChains \cup Target!Started(x, t, "asked", "busy")
      \/ aTab' = [aTab EXCEPT ![x] = Target!Note(H, t, "declined")] /\ aChains' = aChains \cup Target!Started(x, t, "asked", "miss")
      \/ aTab' = [aTab EXCEPT ![x] = H] /\ aChains' = aChains \cup Target!Started(x, t, "start", "claim")
  BY DEF Target!Hear
<1>6. ASSUME NEW at \in {"start", "asked"}, NEW what \in {"claim", "miss", "busy"}, at = "start" => what = "claim",
             NEW v \in TargetPage(x), aTab' = [aTab EXCEPT ![x] = v], aChains' = aChains \cup Target!Started(x, t, at, what)
      PROVE  TargetTyped'
  <2>1. Target!Started(x, t, at, what) \subseteq ChainForm
    BY <1>6, StartedIs DEF NewChain
  <2> QED
    BY <1>1, <1>6, <2>1, TypedIs, TypedPage
<1>7. CASE UNCHANGED <<aTab, aChains>>
  <2>1. TabsTyped'
    BY <1>7, TabsStay DEF TargetTyped
  <2> QED
    BY <1>1, <1>7, <2>1 DEF TargetTyped, WireTyped, HelperTyped
<1> HIDE DEF T, H
<1> QED
  BY <1>2, <1>3, <1>4, <1>5, <1>6, <1>7

LEMMA TypedInit == ASSUME Target!Assumption, Target!Init PROVE TargetTyped
BY SaleInit DEF Sale

LEMMA TypedKept == ASSUME Target!Assumption, TargetTyped, [Target!Next]_Target!vars PROVE TargetTyped'
<1>1. ASSUME NEW x \in Tabs, Target!Page(x) PROVE TargetTyped'
  BY <1>1, GoneTyped, ShownTyped, UsedTyped DEF Target!Page
<1>2. CASE UNCHANGED Target!vars
  BY <1>2, TabsStay DEF Target!vars, TargetTyped, WireTyped, HelperTyped
<1> QED
  BY <1>1, <1>2, StepTyped, HelperTypes, HearTyped DEF Target!Next

LEMMA TypedIsTypeOK == ASSUME TargetTyped PROVE Target!TypeOK
BY DEF TargetTyped, TabsTyped, WireTyped, HelperTyped, Target!TypeOK, TargetPage, ReqForm, ChainForm

\* What the tabs, their calls, the helper's lease and the results hold keeps its form
\* through reloads, lapses and torn down pages (live-browser.js 7520-7760).
THEOREM TargetsKeepTheirForm ==
  ASSUME Target!Assumption
  PROVE  Target!Spec => []Target!TypeOK
<1>1. Target!Init => TargetTyped
  BY TypedInit
<1>2. TargetTyped /\ [Target!Next]_Target!vars => TargetTyped'
  BY TypedKept
<1>3. TargetTyped => Target!TypeOK
  BY TypedIsTypeOK
<1> QED
  BY <1>1, <1>2, <1>3, PTL DEF Target!Spec

\* One request of the agent never gets two Go presses, however many tabs race for it,
\* reload or take over a lapsed lease, as long as a page shows the target once and no tab
\* is frozen between the renewal of its lease and its Go (live-browser.js 7755-7757).
THEOREM OneGoForARequest ==
  ASSUME Target!Assumption, OneCopy, "frozen" \notin TargetMishaps
  PROVE  Target!Spec => []Target!OneGo
<1>1. Target!Init => Sale
  BY SaleInit
<1>2. Sale /\ [Target!Next]_Target!vars => Sale'
  BY SaleKept
<1>3. Sale => Target!OneGo
  BY SaleTypes
<1> QED
  BY <1>1, <1>2, <1>3, PTL DEF Target!Spec

=============================================================================
