------------------------------ MODULE LiveProofs ------------------------------
(***************************************************************************)
(* The theorems of the live browser script for the parts of MCLive: each   *)
(* part is an instance of a component the theorems of LiveBrowserProofs    *)
(* are about, with constants that are as they assume.                      *)
(***************************************************************************)
EXTENDS MCLive, TLAPS

\* The parts no event is lost in: the chat, the apply, a framework page, two targets.
Lossless == INSTANCE LiveBrowserProofs WITH
  Messages <- {x1, x2}, Texts <- {m1}, ChatDrops <- 0, Moves <- 2, ChatMishaps <- {"fail", "page", "voice"},
  Pieces <- {x1}, Presses <- 3, Gos <- 0, EditDrops <- 0, EditLoads <- 0, EditMishaps <- {"refused", "sync"},
  Sessions <- {x1, x2}, Count <- 1, Hmr <- TRUE, SessionLoads <- 1, SessionDrops <- 0, Hides <- 1,
  SessionPresses <- 1, SessionMishaps <- {},
  Tabs <- {x1, x2}, Targets <- {t1, t2}, Copies <- {0}, Faults <- 1, TargetMishaps <- {"reload", "leave", "absent"}

\* The parts whose stream or lease is lost: the chat without replies, the staging, a static
\* page, tabs that race for a target.
Lossy == INSTANCE LiveBrowserProofs WITH
  Messages <- {x1, x2}, Texts <- {m1}, ChatDrops <- 1, Moves <- 0, ChatMishaps <- {"fail", "generation"},
  Pieces <- {x1}, Presses <- 2, Gos <- 1, EditDrops <- 1, EditLoads <- 1, EditMishaps <- {"refused", "decision"},
  Sessions <- {x1, x2}, Count <- 1, Hmr <- FALSE, SessionLoads <- 1, SessionDrops <- 1, Hides <- 0,
  SessionPresses <- 1, SessionMishaps <- {"refused", "forced"},
  Tabs <- {x1, x2}, Targets <- {t1}, Copies <- {0}, Faults <- 3,
  TargetMishaps <- {"slow", "reload", "leave", "absent", "apply"}

\* The part with two elements, one session on a framework page, and holders that go away.
Clicks == INSTANCE LiveBrowserProofs WITH
  Messages <- {x1, x2}, Texts <- {m1}, ChatDrops <- 0, Moves <- 2, ChatMishaps <- {"fail", "page", "voice"},
  Pieces <- {x1, x2}, Presses <- 2, Gos <- 0, EditDrops <- 0, EditLoads <- 0, EditMishaps <- {"refused", "sync"},
  Sessions <- {x1}, Count <- 1, Hmr <- TRUE, SessionLoads <- 1, SessionDrops <- 1, Hides <- 0,
  SessionPresses <- 1, SessionMishaps <- {},
  Tabs <- {x1, x2}, Targets <- {t1}, Copies <- {0}, Faults <- 2,
  TargetMishaps <- {"reload", "drop", "absent", "apply", "user", "dry"}

\* One annotated session of two variants, and a tab that is frozen.
Asleep == INSTANCE LiveBrowserProofs WITH
  Messages <- {x1, x2}, Texts <- {m1}, ChatDrops <- 0, Moves <- 2, ChatMishaps <- {"fail", "page", "voice"},
  Pieces <- {x1, x2}, Presses <- 2, Gos <- 0, EditDrops <- 0, EditLoads <- 0, EditMishaps <- {"refused", "sync"},
  Sessions <- {x1}, Count <- 2, Hmr <- FALSE, SessionLoads <- 1, SessionDrops <- 1, Hides <- 0,
  SessionPresses <- 1, SessionMishaps <- {"annotated", "agent"},
  Tabs <- {x1, x2}, Targets <- {t1}, Copies <- {0}, Faults <- 2, TargetMishaps <- {"frozen", "timeout", "user"}

-----------------------------------------------------------------------------
(* A part and the component of its instance are the same specification,    *)
(* definition by definition; what the instance proves of the component is  *)
(* then an invariant of the part, and shows the part's properties.         *)

\* No apply locks the tab but its own, while no event is lost.
ApplyLock == Lossless!EditsInv /\ Lossless!Owned

LEMMA ChatKeeps ==
  /\ Chat!Init => Lossless!ChatInv
  /\ Lossless!ChatInv /\ (Chat!Next \/ UNCHANGED steerVars) => Lossless!ChatInv'
  /\ Lossless!ChatInv => Chat!TypeOK /\ LockHasTimer /\ VoiceHasItsInput
<1>1. /\ Lossless!Chat!Assumption
      /\ (UNCHANGED steerVars => UNCHANGED Lossless!Chat!vars)
      /\ (Lossless!Chat!TypeOK => Chat!TypeOK)
  BY Zenon, ConstantsAreSound
     DEF Chat!Assumption, Lossless!Chat!Assumption, steerVars, Lossless!Chat!vars,
         Lossless!Chat!tabs, Lossless!Chat!world, Chat!TypeOK, Lossless!Chat!TypeOK
<1>2. Chat!Init <=> Lossless!Chat!Init
  BY DEF Chat!Init, Lossless!Chat!Init, Chat!NoVoice, Lossless!Chat!NoVoice
<1>3. Chat!Next <=> Lossless!Chat!Next
  BY ZenonT(30) DEF Chat!Next, Lossless!Chat!Next, Chat!User, Lossless!Chat!User, Chat!Agent,
         Lossless!Chat!Agent, Chat!Helper, Lossless!Chat!Helper, Chat!Timers,
         Lossless!Chat!Timers, Chat!Type, Lossless!Chat!Type, Chat!Heard, Lossless!Chat!Heard,
         Chat!Escape, Lossless!Chat!Escape, Chat!ClickChat, Lossless!Chat!ClickChat,
         Chat!Pick, Lossless!Chat!Pick, Chat!Unpick, Lossless!Chat!Unpick, Chat!Go,
         Lossless!Chat!Go, Chat!Submit, Lossless!Chat!Submit, Chat!PagePress,
         Lossless!Chat!PagePress, Chat!PageRelease, Lossless!Chat!PageRelease,
         Chat!SelectionCleared, Lossless!Chat!SelectionCleared, Chat!StartVoice,
         Lossless!Chat!StartVoice, Chat!VoiceStopped, Lossless!Chat!VoiceStopped,
         Chat!VoiceStarts, Lossless!Chat!VoiceStarts, Chat!VoiceEnds, Lossless!Chat!VoiceEnds,
         Chat!AgentTakes, Lossless!Chat!AgentTakes, Chat!AgentReplies,
         Lossless!Chat!AgentReplies, Chat!GenerationEnds, Lossless!Chat!GenerationEnds,
         Chat!Poll, Lossless!Chat!Poll, Chat!Drop, Lossless!Chat!Drop, Chat!Connect,
         Lossless!Chat!Connect, Chat!PostArrives, Lossless!Chat!PostArrives,
         Chat!PostAnswered, Lossless!Chat!PostAnswered, Chat!PostFails,
         Lossless!Chat!PostFails, Chat!PauseEnds, Lossless!Chat!PauseEnds, Chat!Recover,
         Lossless!Chat!Recover, Chat!BlurTimer, Lossless!Chat!BlurTimer, Chat!Timeout,
         Lossless!Chat!Timeout, Chat!Visual, Lossless!Chat!Visual, Chat!world,
         Lossless!Chat!world, Chat!Collapsed, Lossless!Chat!Collapsed, Chat!Expanded,
         Lossless!Chat!Expanded, Chat!Moved, Lossless!Chat!Moved, Chat!Follow,
         Lossless!Chat!Follow, Chat!Stopped, Lossless!Chat!Stopped, Chat!Generating,
         Lossless!Chat!Generating, Chat!SendButton, Lossless!Chat!SendButton, Chat!Sent,
         Lossless!Chat!Sent, Chat!ShouldFocus, Lossless!Chat!ShouldFocus, Chat!Left,
         Lossless!Chat!Left, Chat!Listening, Lossless!Chat!Listening, Chat!tabs,
         Lossless!Chat!tabs, Chat!Unlock, Lossless!Chat!Unlock, Chat!GivenUp,
         Lossless!Chat!GivenUp, Chat!Silence, Lossless!Chat!Silence, Chat!Synced,
         Lossless!Chat!Synced, Chat!NoVoice, Lossless!Chat!NoVoice, Chat!Locked,
         Lossless!Chat!Locked, Chat!Restored, Lossless!Chat!Restored, Chat!QueuedBehind,
         Lossless!Chat!QueuedBehind, Chat!AutoFocus, Lossless!Chat!AutoFocus
<1> QED
  BY <1>1, <1>2, <1>3,
     Lossless!ChatInit, Lossless!ChatNext
     DEF Lossless!ChatInv, LockHasTimer, VoiceHasItsInput, Chat!LockHasTimer,
         Chat!VoiceHasItsInput, Lossless!Chat!LockHasTimer, Lossless!Chat!VoiceHasItsInput

LEMMA SilentKeeps ==
  /\ Silent!Init => Lossy!ChatInv
  /\ Lossy!ChatInv /\ (Silent!Next \/ UNCHANGED steerVars) => Lossy!ChatInv'
  /\ Lossy!ChatInv => Silent!TypeOK /\ LockHasTimer /\ VoiceHasItsInput
<1>1. /\ Lossy!Chat!Assumption
      /\ (UNCHANGED steerVars => UNCHANGED Lossy!Chat!vars)
      /\ (Lossy!Chat!TypeOK => Silent!TypeOK)
  BY Zenon, ConstantsAreSound DEF Silent!Assumption, Lossy!Chat!Assumption, steerVars, Lossy!Chat!vars,
         Lossy!Chat!tabs, Lossy!Chat!world, Silent!TypeOK, Lossy!Chat!TypeOK
<1>2. Silent!Init <=> Lossy!Chat!Init
  BY DEF Silent!Init, Lossy!Chat!Init, Silent!NoVoice, Lossy!Chat!NoVoice
<1>3. Silent!Next <=> Lossy!Chat!Next
  BY ZenonT(30) DEF Silent!Next, Lossy!Chat!Next, Silent!User, Lossy!Chat!User, Silent!Agent,
         Lossy!Chat!Agent, Silent!Helper, Lossy!Chat!Helper, Silent!Timers, Lossy!Chat!Timers,
         Silent!Type, Lossy!Chat!Type, Silent!Heard, Lossy!Chat!Heard, Silent!Escape,
         Lossy!Chat!Escape, Silent!ClickChat, Lossy!Chat!ClickChat, Silent!Pick,
         Lossy!Chat!Pick, Silent!Unpick, Lossy!Chat!Unpick, Silent!Go, Lossy!Chat!Go,
         Silent!Submit, Lossy!Chat!Submit, Silent!PagePress, Lossy!Chat!PagePress,
         Silent!PageRelease, Lossy!Chat!PageRelease, Silent!SelectionCleared,
         Lossy!Chat!SelectionCleared, Silent!StartVoice, Lossy!Chat!StartVoice,
         Silent!VoiceStopped, Lossy!Chat!VoiceStopped, Silent!VoiceStarts,
         Lossy!Chat!VoiceStarts, Silent!VoiceEnds, Lossy!Chat!VoiceEnds, Silent!AgentTakes,
         Lossy!Chat!AgentTakes, Silent!AgentReplies, Lossy!Chat!AgentReplies,
         Silent!GenerationEnds, Lossy!Chat!GenerationEnds, Silent!Poll, Lossy!Chat!Poll,
         Silent!Drop, Lossy!Chat!Drop, Silent!Connect, Lossy!Chat!Connect, Silent!PostArrives,
         Lossy!Chat!PostArrives, Silent!PostAnswered, Lossy!Chat!PostAnswered,
         Silent!PostFails, Lossy!Chat!PostFails, Silent!PauseEnds, Lossy!Chat!PauseEnds,
         Silent!Recover, Lossy!Chat!Recover, Silent!BlurTimer, Lossy!Chat!BlurTimer,
         Silent!Timeout, Lossy!Chat!Timeout, Silent!Visual, Lossy!Chat!Visual, Silent!world,
         Lossy!Chat!world, Silent!Collapsed, Lossy!Chat!Collapsed, Silent!Expanded,
         Lossy!Chat!Expanded, Silent!Moved, Lossy!Chat!Moved, Silent!Follow,
         Lossy!Chat!Follow, Silent!Stopped, Lossy!Chat!Stopped, Silent!Generating,
         Lossy!Chat!Generating, Silent!SendButton, Lossy!Chat!SendButton, Silent!Sent,
         Lossy!Chat!Sent, Silent!ShouldFocus, Lossy!Chat!ShouldFocus, Silent!Left,
         Lossy!Chat!Left, Silent!Listening, Lossy!Chat!Listening, Silent!tabs,
         Lossy!Chat!tabs, Silent!Unlock, Lossy!Chat!Unlock, Silent!GivenUp,
         Lossy!Chat!GivenUp, Silent!Silence, Lossy!Chat!Silence, Silent!Synced,
         Lossy!Chat!Synced, Silent!NoVoice, Lossy!Chat!NoVoice, Silent!Locked,
         Lossy!Chat!Locked, Silent!Restored, Lossy!Chat!Restored, Silent!QueuedBehind,
         Lossy!Chat!QueuedBehind, Silent!AutoFocus, Lossy!Chat!AutoFocus
<1> QED
  BY <1>1, <1>2, <1>3,
     Lossy!ChatInit, Lossy!ChatNext
     DEF Lossy!ChatInv, LockHasTimer, VoiceHasItsInput, Chat!LockHasTimer,
         Chat!VoiceHasItsInput, Lossy!Chat!LockHasTimer, Lossy!Chat!VoiceHasItsInput

LEMMA ApplyingKeeps ==
  /\ Applying!Init => ApplyLock
  /\ ApplyLock /\ (Applying!Next \/ UNCHANGED manualVars) => ApplyLock'
  /\ ApplyLock => Applying!TypeOK /\ HiddenIsNotPicked /\ LockedIsApplying
<1>1. /\ Lossless!Edits!Assumption
      /\ (UNCHANGED manualVars => UNCHANGED Lossless!Edits!vars)
      /\ (Lossless!Edits!TypeOK => Applying!TypeOK)
      /\ (Lossless!Edits!HiddenIsNotPicked => HiddenIsNotPicked) /\ (Lossless!Edits!LockedIsApplying => LockedIsApplying)
      /\ Lossless!Calm
  BY ConstantsAreSound DEF Applying!Assumption, Lossless!Edits!Assumption, Applying!IsFiniteSet,
         Lossless!Edits!IsFiniteSet, manualVars, Lossless!Edits!vars, Applying!TypeOK,
         Lossless!Edits!TypeOK, Applying!Buttons, Lossless!Edits!Buttons,
         Applying!Cardinality, Lossless!Edits!Cardinality, HiddenIsNotPicked,
         Staging!HiddenIsNotPicked, Lossless!Edits!HiddenIsNotPicked, LockedIsApplying,
         Applying!LockedIsApplying, Lossless!Edits!LockedIsApplying, Applying!Quiet,
         Lossless!Edits!Quiet, Lossless!Calm
<1>2. Applying!Init <=> Lossless!Edits!Init
  BY DEF Applying!Init, Lossless!Edits!Init, Applying!Fresh, Lossless!Edits!Fresh,
         Applying!Ask, Lossless!Edits!Ask, Applying!Request, Lossless!Edits!Request
<1>3. ASSUME NEW r PROVE Applying!Serve(r) <=> Lossless!Edits!Serve(r)
  <2>1. \A S : Applying!Cardinality(S) = Lossless!Edits!Cardinality(S)
    BY DEF Applying!Cardinality, Lossless!Edits!Cardinality
  <2>2. ASSUME NEW t, NEW n PROVE Applying!Counted(t, n) = Lossless!Edits!Counted(t, n)
    BY DEF Applying!Counted, Lossless!Edits!Counted, Applying!HideDock, Lossless!Edits!HideDock,
         Applying!SetLoading, Lossless!Edits!SetLoading, Applying!Refresh,
         Lossless!Edits!Refresh
  <2>3. ASSUME NEW t, NEW n PROVE Applying!Started(t, n) = Lossless!Edits!Started(t, n)
    BY Zenon DEF Applying!Started, Lossless!Edits!Started, Applying!SetLoading,
         Lossless!Edits!SetLoading, Applying!Counted, Lossless!Edits!Counted,
         Applying!Refresh, Lossless!Edits!Refresh, Applying!HideDock, Lossless!Edits!HideDock
  <2>4. ASSUME NEW t PROVE Applying!SetLoading(t) = Lossless!Edits!SetLoading(t)
    BY DEF Applying!SetLoading, Lossless!Edits!SetLoading, Applying!Refresh,
         Lossless!Edits!Refresh
  <2>5. ASSUME NEW t PROVE Applying!Repairing(t) = Lossless!Edits!Repairing(t)
    BY DEF Applying!Repairing, Lossless!Edits!Repairing, Applying!SetLoading,
         Lossless!Edits!SetLoading, Applying!Refresh, Lossless!Edits!Refresh
  <2>6. ASSUME NEW t, NEW n PROVE Applying!Repaired(t, n) = Lossless!Edits!Repaired(t, n)
    BY <2>2, <2>4, <2>5 DEF Applying!Repaired, Lossless!Edits!Repaired
  <2>7. ASSUME NEW x, NEW n, NEW g, NEW t, NEW f PROVE Applying!Grant(x, n, g, t, f) <=> Lossless!Edits!Grant(x, n, g, t, f)
    BY DEF Applying!Grant, Lossless!Edits!Grant, Applying!Answer, Lossless!Edits!Answer,
         Applying!Counting, Lossless!Edits!Counting, Applying!Ask, Lossless!Edits!Ask,
         Applying!Request, Lossless!Edits!Request
  <2> QED
    BY Zenon, <2>1, <2>2, <2>3, <2>6, <2>7
       DEF Applying!Serve, Lossless!Edits!Serve, Applying!Answer, Lossless!Edits!Answer,
         Applying!Edit, Lossless!Edits!Edit
<1>4. ASSUME NEW r, NEW d PROVE Applying!ServeSync(r, d) <=> Lossless!Edits!ServeSync(r, d)
  BY DEF Applying!ServeSync, Lossless!Edits!ServeSync, Applying!Cardinality,
         Lossless!Edits!Cardinality
<1>5. Applying!User <=> Lossless!Edits!User
  BY DEF Applying!User, Lossless!Edits!User, Applying!Pick, Lossless!Edits!Pick,
         Applying!Unpick, Lossless!Edits!Unpick, Applying!EnterEditing,
         Lossless!Edits!EnterEditing, Applying!Type, Lossless!Edits!Type, Applying!Cancel,
         Lossless!Edits!Cancel, Applying!Leave, Lossless!Edits!Leave, Applying!Save,
         Lossless!Edits!Save, Applying!Remove, Lossless!Edits!Remove, Applying!Undo,
         Lossless!Edits!Undo, Applying!Apply, Lossless!Edits!Apply, Applying!Discard,
         Lossless!Edits!Discard, Applying!KeepFixing, Lossless!Edits!KeepFixing,
         Applying!Rollback, Lossless!Edits!Rollback, Applying!Go, Lossless!Edits!Go,
         Applying!Finish, Lossless!Edits!Finish, Applying!BarControls,
         Lossless!Edits!BarControls, Applying!Unconfigured, Lossless!Edits!Unconfigured,
         Applying!Pressable, Lossless!Edits!Pressable, Applying!Pressed,
         Lossless!Edits!Pressed, Applying!Enabled, Lossless!Edits!Enabled,
         Applying!Configured, Lossless!Edits!Configured, Applying!Restored,
         Lossless!Edits!Restored, Applying!Request, Lossless!Edits!Request,
         Applying!Removable, Lossless!Edits!Removable, Applying!Usable, Lossless!Edits!Usable,
         Applying!SetLoading, Lossless!Edits!SetLoading, Applying!Ask, Lossless!Edits!Ask,
         Applying!Repairing, Lossless!Edits!Repairing, Applying!RowControls,
         Lossless!Edits!RowControls, Applying!Disabled, Lossless!Edits!Disabled,
         Applying!BadgeButtons, Lossless!Edits!BadgeButtons, Applying!Refresh,
         Lossless!Edits!Refresh, Applying!Cardinality, Lossless!Edits!Cardinality
<1>6. Applying!Helper <=> Lossless!Edits!Helper
  BY Zenon, <1>3, <1>4
     DEF Applying!Helper, Lossless!Edits!Helper, Applying!Refuse, Lossless!Edits!Refuse,
         Applying!Refused, Lossless!Edits!Refused, Applying!Cardinality,
         Lossless!Edits!Cardinality
<1>7. Applying!Agent <=> Lossless!Edits!Agent
  BY ZenonT(30) DEF Applying!Agent, Lossless!Edits!Agent, Applying!ApplyFails, Lossless!Edits!ApplyFails,
         Applying!ApplyStuck, Lossless!Edits!ApplyStuck, Applying!ApplyDone,
         Lossless!Edits!ApplyDone, Applying!Tell, Lossless!Edits!Tell, Applying!EndLoading,
         Lossless!Edits!EndLoading, Applying!Decision, Lossless!Edits!Decision, Applying!Done,
         Lossless!Edits!Done, Applying!Counting, Lossless!Edits!Counting, Applying!Refresh,
         Lossless!Edits!Refresh, Applying!Counted, Lossless!Edits!Counted, Applying!Ask,
         Lossless!Edits!Ask, Applying!HideDock, Lossless!Edits!HideDock, Applying!SetLoading,
         Lossless!Edits!SetLoading, Applying!Request, Lossless!Edits!Request,
         Applying!Cardinality, Lossless!Edits!Cardinality
<1>8. Applying!Answers <=> Lossless!Edits!Answers
  BY ZenonT(30) DEF Applying!Answers, Lossless!Edits!Answers, Applying!Heard, Lossless!Edits!Heard,
         Applying!Unheard, Lossless!Edits!Unheard, Applying!CountAnswered,
         Lossless!Edits!CountAnswered, Applying!SaveAnswered, Lossless!Edits!SaveAnswered,
         Applying!RemoveAnswered, Lossless!Edits!RemoveAnswered, Applying!UndoAnswered,
         Lossless!Edits!UndoAnswered, Applying!DiscardAnswered,
         Lossless!Edits!DiscardAnswered, Applying!CommitAnswered,
         Lossless!Edits!CommitAnswered, Applying!RepairAnswered,
         Lossless!Edits!RepairAnswered, Applying!RollbackAnswered,
         Lossless!Edits!RollbackAnswered, Applying!Arrive, Lossless!Edits!Arrive,
         Applying!Counted, Lossless!Edits!Counted, Applying!Configured,
         Lossless!Edits!Configured, Applying!Unconfigured, Lossless!Edits!Unconfigured,
         Applying!Counting, Lossless!Edits!Counting, Applying!GivenUp, Lossless!Edits!GivenUp,
         Applying!EndLoading, Lossless!Edits!EndLoading, Applying!HideDock,
         Lossless!Edits!HideDock, Applying!Decision, Lossless!Edits!Decision,
         Applying!SetLoading, Lossless!Edits!SetLoading, Applying!Disabled,
         Lossless!Edits!Disabled, Applying!Restored, Lossless!Edits!Restored, Applying!Ask,
         Lossless!Edits!Ask, Applying!Refresh, Lossless!Edits!Refresh, Applying!Request,
         Lossless!Edits!Request, Applying!Cardinality, Lossless!Edits!Cardinality
<1>9. Applying!Next <=> Lossless!Edits!Next
  BY ZenonT(30), <1>5, <1>6, <1>7, <1>8 DEF Applying!Next, Lossless!Edits!Next, Applying!ApplyRepairs,
         Lossless!Edits!ApplyRepairs, Applying!Drop, Lossless!Edits!Drop, Applying!Connect,
         Lossless!Edits!Connect, Applying!Reload, Lossless!Edits!Reload, Applying!Tell,
         Lossless!Edits!Tell, Applying!Repairing, Lossless!Edits!Repairing, Applying!Fresh,
         Lossless!Edits!Fresh, Applying!Ask, Lossless!Edits!Ask, Applying!Counting,
         Lossless!Edits!Counting, Applying!SetLoading, Lossless!Edits!SetLoading,
         Applying!Request, Lossless!Edits!Request, Applying!Refresh, Lossless!Edits!Refresh,
         Applying!Cardinality, Lossless!Edits!Cardinality
<1> QED
  BY <1>1, <1>2, <1>9,
     Lossless!EditsInit, Lossless!EditsNext, Lossless!EditsShow
     DEF Lossless!EditsKept, ApplyLock

LEMMA StagingKeeps ==
  /\ Staging!Init => Lossy!EditsInv
  /\ Lossy!EditsInv /\ (Staging!Next \/ UNCHANGED manualVars) => Lossy!EditsInv'
  /\ Lossy!EditsInv => Staging!TypeOK /\ HiddenIsNotPicked
<1>1. /\ Lossy!Edits!Assumption
      /\ (UNCHANGED manualVars => UNCHANGED Lossy!Edits!vars)
      /\ (Lossy!Edits!TypeOK => Staging!TypeOK)
      /\ (Lossy!Edits!HiddenIsNotPicked => HiddenIsNotPicked)
  BY ConstantsAreSound DEF Staging!Assumption, Lossy!Edits!Assumption, Staging!IsFiniteSet,
         Lossy!Edits!IsFiniteSet, manualVars, Lossy!Edits!vars, Staging!TypeOK,
         Lossy!Edits!TypeOK, Staging!Buttons, Lossy!Edits!Buttons, Staging!Cardinality,
         Lossy!Edits!Cardinality, HiddenIsNotPicked, Staging!HiddenIsNotPicked,
         Lossy!Edits!HiddenIsNotPicked
<1>2. Staging!Init <=> Lossy!Edits!Init
  BY DEF Staging!Init, Lossy!Edits!Init, Staging!Fresh, Lossy!Edits!Fresh, Staging!Ask,
         Lossy!Edits!Ask, Staging!Request, Lossy!Edits!Request
<1>3. ASSUME NEW r PROVE Staging!Serve(r) <=> Lossy!Edits!Serve(r)
  <2>1. \A S : Staging!Cardinality(S) = Lossy!Edits!Cardinality(S)
    BY DEF Staging!Cardinality, Lossy!Edits!Cardinality
  <2>2. ASSUME NEW t, NEW n PROVE Staging!Counted(t, n) = Lossy!Edits!Counted(t, n)
    BY DEF Staging!Counted, Lossy!Edits!Counted, Staging!HideDock, Lossy!Edits!HideDock,
         Staging!SetLoading, Lossy!Edits!SetLoading, Staging!Refresh, Lossy!Edits!Refresh
  <2>3. ASSUME NEW t, NEW n PROVE Staging!Started(t, n) = Lossy!Edits!Started(t, n)
    BY Zenon DEF Staging!Started, Lossy!Edits!Started, Staging!SetLoading, Lossy!Edits!SetLoading,
         Staging!Counted, Lossy!Edits!Counted, Staging!Refresh, Lossy!Edits!Refresh,
         Staging!HideDock, Lossy!Edits!HideDock
  <2>4. ASSUME NEW t PROVE Staging!SetLoading(t) = Lossy!Edits!SetLoading(t)
    BY DEF Staging!SetLoading, Lossy!Edits!SetLoading, Staging!Refresh, Lossy!Edits!Refresh
  <2>5. ASSUME NEW t PROVE Staging!Repairing(t) = Lossy!Edits!Repairing(t)
    BY DEF Staging!Repairing, Lossy!Edits!Repairing, Staging!SetLoading, Lossy!Edits!SetLoading,
         Staging!Refresh, Lossy!Edits!Refresh
  <2>6. ASSUME NEW t, NEW n PROVE Staging!Repaired(t, n) = Lossy!Edits!Repaired(t, n)
    BY <2>2, <2>4, <2>5 DEF Staging!Repaired, Lossy!Edits!Repaired
  <2>7. ASSUME NEW x, NEW n, NEW g, NEW t, NEW f PROVE Staging!Grant(x, n, g, t, f) <=> Lossy!Edits!Grant(x, n, g, t, f)
    BY DEF Staging!Grant, Lossy!Edits!Grant, Staging!Answer, Lossy!Edits!Answer,
         Staging!Counting, Lossy!Edits!Counting, Staging!Ask, Lossy!Edits!Ask,
         Staging!Request, Lossy!Edits!Request
  <2> QED
    BY Zenon, <2>1, <2>2, <2>3, <2>6, <2>7
       DEF Staging!Serve, Lossy!Edits!Serve, Staging!Answer, Lossy!Edits!Answer, Staging!Edit,
         Lossy!Edits!Edit
<1>4. ASSUME NEW r, NEW d PROVE Staging!ServeSync(r, d) <=> Lossy!Edits!ServeSync(r, d)
  BY DEF Staging!ServeSync, Lossy!Edits!ServeSync, Staging!Cardinality,
         Lossy!Edits!Cardinality
<1>5. Staging!User <=> Lossy!Edits!User
  BY DEF Staging!User, Lossy!Edits!User, Staging!Pick, Lossy!Edits!Pick, Staging!Unpick,
         Lossy!Edits!Unpick, Staging!EnterEditing, Lossy!Edits!EnterEditing, Staging!Type,
         Lossy!Edits!Type, Staging!Cancel, Lossy!Edits!Cancel, Staging!Leave,
         Lossy!Edits!Leave, Staging!Save, Lossy!Edits!Save, Staging!Remove,
         Lossy!Edits!Remove, Staging!Undo, Lossy!Edits!Undo, Staging!Apply, Lossy!Edits!Apply,
         Staging!Discard, Lossy!Edits!Discard, Staging!KeepFixing, Lossy!Edits!KeepFixing,
         Staging!Rollback, Lossy!Edits!Rollback, Staging!Go, Lossy!Edits!Go, Staging!Finish,
         Lossy!Edits!Finish, Staging!BarControls, Lossy!Edits!BarControls,
         Staging!Unconfigured, Lossy!Edits!Unconfigured, Staging!Pressable,
         Lossy!Edits!Pressable, Staging!Pressed, Lossy!Edits!Pressed, Staging!Enabled,
         Lossy!Edits!Enabled, Staging!Configured, Lossy!Edits!Configured, Staging!Restored,
         Lossy!Edits!Restored, Staging!Request, Lossy!Edits!Request, Staging!Removable,
         Lossy!Edits!Removable, Staging!Usable, Lossy!Edits!Usable, Staging!SetLoading,
         Lossy!Edits!SetLoading, Staging!Ask, Lossy!Edits!Ask, Staging!Repairing,
         Lossy!Edits!Repairing, Staging!RowControls, Lossy!Edits!RowControls,
         Staging!Disabled, Lossy!Edits!Disabled, Staging!BadgeButtons,
         Lossy!Edits!BadgeButtons, Staging!Refresh, Lossy!Edits!Refresh, Staging!Cardinality,
         Lossy!Edits!Cardinality
<1>6. Staging!Helper <=> Lossy!Edits!Helper
  BY Zenon, <1>3, <1>4 DEF Staging!Helper, Lossy!Edits!Helper, Staging!Refuse, Lossy!Edits!Refuse,
         Staging!Refused, Lossy!Edits!Refused, Staging!Cardinality, Lossy!Edits!Cardinality
<1>7. Staging!Agent <=> Lossy!Edits!Agent
  BY ZenonT(30) DEF Staging!Agent, Lossy!Edits!Agent, Staging!ApplyFails, Lossy!Edits!ApplyFails,
         Staging!ApplyStuck, Lossy!Edits!ApplyStuck, Staging!ApplyDone, Lossy!Edits!ApplyDone,
         Staging!Tell, Lossy!Edits!Tell, Staging!EndLoading, Lossy!Edits!EndLoading,
         Staging!Decision, Lossy!Edits!Decision, Staging!Done, Lossy!Edits!Done,
         Staging!Counting, Lossy!Edits!Counting, Staging!Refresh, Lossy!Edits!Refresh,
         Staging!Counted, Lossy!Edits!Counted, Staging!Ask, Lossy!Edits!Ask, Staging!HideDock,
         Lossy!Edits!HideDock, Staging!SetLoading, Lossy!Edits!SetLoading, Staging!Request,
         Lossy!Edits!Request, Staging!Cardinality, Lossy!Edits!Cardinality
<1>8. Staging!Answers <=> Lossy!Edits!Answers
  BY ZenonT(30) DEF Staging!Answers, Lossy!Edits!Answers, Staging!Heard, Lossy!Edits!Heard,
         Staging!Unheard, Lossy!Edits!Unheard, Staging!CountAnswered,
         Lossy!Edits!CountAnswered, Staging!SaveAnswered, Lossy!Edits!SaveAnswered,
         Staging!RemoveAnswered, Lossy!Edits!RemoveAnswered, Staging!UndoAnswered,
         Lossy!Edits!UndoAnswered, Staging!DiscardAnswered, Lossy!Edits!DiscardAnswered,
         Staging!CommitAnswered, Lossy!Edits!CommitAnswered, Staging!RepairAnswered,
         Lossy!Edits!RepairAnswered, Staging!RollbackAnswered, Lossy!Edits!RollbackAnswered,
         Staging!Arrive, Lossy!Edits!Arrive, Staging!Counted, Lossy!Edits!Counted,
         Staging!Configured, Lossy!Edits!Configured, Staging!Unconfigured,
         Lossy!Edits!Unconfigured, Staging!Counting, Lossy!Edits!Counting, Staging!GivenUp,
         Lossy!Edits!GivenUp, Staging!EndLoading, Lossy!Edits!EndLoading, Staging!HideDock,
         Lossy!Edits!HideDock, Staging!Decision, Lossy!Edits!Decision, Staging!SetLoading,
         Lossy!Edits!SetLoading, Staging!Disabled, Lossy!Edits!Disabled, Staging!Restored,
         Lossy!Edits!Restored, Staging!Ask, Lossy!Edits!Ask, Staging!Refresh,
         Lossy!Edits!Refresh, Staging!Request, Lossy!Edits!Request, Staging!Cardinality,
         Lossy!Edits!Cardinality
<1>9. Staging!Next <=> Lossy!Edits!Next
  BY ZenonT(30), <1>5, <1>6, <1>7, <1>8
     DEF Staging!Next, Lossy!Edits!Next, Staging!ApplyRepairs, Lossy!Edits!ApplyRepairs,
         Staging!Drop, Lossy!Edits!Drop, Staging!Connect, Lossy!Edits!Connect, Staging!Reload,
         Lossy!Edits!Reload, Staging!Tell, Lossy!Edits!Tell, Staging!Repairing,
         Lossy!Edits!Repairing, Staging!Fresh, Lossy!Edits!Fresh, Staging!Ask,
         Lossy!Edits!Ask, Staging!Counting, Lossy!Edits!Counting, Staging!SetLoading,
         Lossy!Edits!SetLoading, Staging!Request, Lossy!Edits!Request, Staging!Refresh,
         Lossy!Edits!Refresh, Staging!Cardinality, Lossy!Edits!Cardinality
<1> QED
  BY <1>1, <1>2, <1>9,
     Lossy!EditsInit, Lossy!EditsNext, Lossy!EditsShow
     DEF Lossy!EditsKept

LEMMA TwoClicksKeeps ==
  /\ TwoClicks!Init => Clicks!EditsInv
  /\ Clicks!EditsInv /\ (TwoClicks!Next \/ UNCHANGED manualVars) => Clicks!EditsInv'
  /\ Clicks!EditsInv => TwoClicks!TypeOK /\ HiddenIsNotPicked
<1>1. /\ Clicks!Edits!Assumption
      /\ (UNCHANGED manualVars => UNCHANGED Clicks!Edits!vars)
      /\ (Clicks!Edits!TypeOK => TwoClicks!TypeOK)
      /\ (Clicks!Edits!HiddenIsNotPicked => HiddenIsNotPicked)
  BY ConstantsAreSound DEF TwoClicks!Assumption, Clicks!Edits!Assumption, TwoClicks!IsFiniteSet,
         Clicks!Edits!IsFiniteSet, manualVars, Clicks!Edits!vars, TwoClicks!TypeOK,
         Clicks!Edits!TypeOK, TwoClicks!Buttons, Clicks!Edits!Buttons, TwoClicks!Cardinality,
         Clicks!Edits!Cardinality, HiddenIsNotPicked, Staging!HiddenIsNotPicked,
         Clicks!Edits!HiddenIsNotPicked
<1>2. TwoClicks!Init <=> Clicks!Edits!Init
  BY DEF TwoClicks!Init, Clicks!Edits!Init, TwoClicks!Fresh, Clicks!Edits!Fresh,
         TwoClicks!Ask, Clicks!Edits!Ask, TwoClicks!Request, Clicks!Edits!Request
<1>3. ASSUME NEW r PROVE TwoClicks!Serve(r) <=> Clicks!Edits!Serve(r)
  <2>1. \A S : TwoClicks!Cardinality(S) = Clicks!Edits!Cardinality(S)
    BY DEF TwoClicks!Cardinality, Clicks!Edits!Cardinality
  <2>2. ASSUME NEW t, NEW n PROVE TwoClicks!Counted(t, n) = Clicks!Edits!Counted(t, n)
    BY DEF TwoClicks!Counted, Clicks!Edits!Counted, TwoClicks!HideDock, Clicks!Edits!HideDock,
         TwoClicks!SetLoading, Clicks!Edits!SetLoading, TwoClicks!Refresh,
         Clicks!Edits!Refresh
  <2>3. ASSUME NEW t, NEW n PROVE TwoClicks!Started(t, n) = Clicks!Edits!Started(t, n)
    BY Zenon DEF TwoClicks!Started, Clicks!Edits!Started, TwoClicks!SetLoading,
         Clicks!Edits!SetLoading, TwoClicks!Counted, Clicks!Edits!Counted, TwoClicks!Refresh,
         Clicks!Edits!Refresh, TwoClicks!HideDock, Clicks!Edits!HideDock
  <2>4. ASSUME NEW t PROVE TwoClicks!SetLoading(t) = Clicks!Edits!SetLoading(t)
    BY DEF TwoClicks!SetLoading, Clicks!Edits!SetLoading, TwoClicks!Refresh,
         Clicks!Edits!Refresh
  <2>5. ASSUME NEW t PROVE TwoClicks!Repairing(t) = Clicks!Edits!Repairing(t)
    BY DEF TwoClicks!Repairing, Clicks!Edits!Repairing, TwoClicks!SetLoading,
         Clicks!Edits!SetLoading, TwoClicks!Refresh, Clicks!Edits!Refresh
  <2>6. ASSUME NEW t, NEW n PROVE TwoClicks!Repaired(t, n) = Clicks!Edits!Repaired(t, n)
    BY <2>2, <2>4, <2>5 DEF TwoClicks!Repaired, Clicks!Edits!Repaired
  <2>7. ASSUME NEW x, NEW n, NEW g, NEW t, NEW f PROVE TwoClicks!Grant(x, n, g, t, f) <=> Clicks!Edits!Grant(x, n, g, t, f)
    BY DEF TwoClicks!Grant, Clicks!Edits!Grant, TwoClicks!Answer, Clicks!Edits!Answer,
         TwoClicks!Counting, Clicks!Edits!Counting, TwoClicks!Ask, Clicks!Edits!Ask,
         TwoClicks!Request, Clicks!Edits!Request
  <2> QED
    BY Zenon, <2>1, <2>2, <2>3, <2>6, <2>7
       DEF TwoClicks!Serve, Clicks!Edits!Serve, TwoClicks!Answer, Clicks!Edits!Answer,
         TwoClicks!Edit, Clicks!Edits!Edit
<1>4. ASSUME NEW r, NEW d PROVE TwoClicks!ServeSync(r, d) <=> Clicks!Edits!ServeSync(r, d)
  BY DEF TwoClicks!ServeSync, Clicks!Edits!ServeSync, TwoClicks!Cardinality,
         Clicks!Edits!Cardinality
<1>5. TwoClicks!User <=> Clicks!Edits!User
  BY DEF TwoClicks!User, Clicks!Edits!User, TwoClicks!Pick, Clicks!Edits!Pick,
         TwoClicks!Unpick, Clicks!Edits!Unpick, TwoClicks!EnterEditing,
         Clicks!Edits!EnterEditing, TwoClicks!Type, Clicks!Edits!Type, TwoClicks!Cancel,
         Clicks!Edits!Cancel, TwoClicks!Leave, Clicks!Edits!Leave, TwoClicks!Save,
         Clicks!Edits!Save, TwoClicks!Remove, Clicks!Edits!Remove, TwoClicks!Undo,
         Clicks!Edits!Undo, TwoClicks!Apply, Clicks!Edits!Apply, TwoClicks!Discard,
         Clicks!Edits!Discard, TwoClicks!KeepFixing, Clicks!Edits!KeepFixing,
         TwoClicks!Rollback, Clicks!Edits!Rollback, TwoClicks!Go, Clicks!Edits!Go,
         TwoClicks!Finish, Clicks!Edits!Finish, TwoClicks!BarControls,
         Clicks!Edits!BarControls, TwoClicks!Unconfigured, Clicks!Edits!Unconfigured,
         TwoClicks!Pressable, Clicks!Edits!Pressable, TwoClicks!Pressed, Clicks!Edits!Pressed,
         TwoClicks!Enabled, Clicks!Edits!Enabled, TwoClicks!Configured,
         Clicks!Edits!Configured, TwoClicks!Restored, Clicks!Edits!Restored,
         TwoClicks!Request, Clicks!Edits!Request, TwoClicks!Removable, Clicks!Edits!Removable,
         TwoClicks!Usable, Clicks!Edits!Usable, TwoClicks!SetLoading, Clicks!Edits!SetLoading,
         TwoClicks!Ask, Clicks!Edits!Ask, TwoClicks!Repairing, Clicks!Edits!Repairing,
         TwoClicks!RowControls, Clicks!Edits!RowControls, TwoClicks!Disabled,
         Clicks!Edits!Disabled, TwoClicks!BadgeButtons, Clicks!Edits!BadgeButtons,
         TwoClicks!Refresh, Clicks!Edits!Refresh, TwoClicks!Cardinality,
         Clicks!Edits!Cardinality
<1>6. TwoClicks!Helper <=> Clicks!Edits!Helper
  BY Zenon, <1>3, <1>4 DEF TwoClicks!Helper, Clicks!Edits!Helper, TwoClicks!Refuse, Clicks!Edits!Refuse,
         TwoClicks!Refused, Clicks!Edits!Refused, TwoClicks!Cardinality,
         Clicks!Edits!Cardinality
<1>7. TwoClicks!Agent <=> Clicks!Edits!Agent
  BY ZenonT(30) DEF TwoClicks!Agent, Clicks!Edits!Agent, TwoClicks!ApplyFails, Clicks!Edits!ApplyFails,
         TwoClicks!ApplyStuck, Clicks!Edits!ApplyStuck, TwoClicks!ApplyDone,
         Clicks!Edits!ApplyDone, TwoClicks!Tell, Clicks!Edits!Tell, TwoClicks!EndLoading,
         Clicks!Edits!EndLoading, TwoClicks!Decision, Clicks!Edits!Decision, TwoClicks!Done,
         Clicks!Edits!Done, TwoClicks!Counting, Clicks!Edits!Counting, TwoClicks!Refresh,
         Clicks!Edits!Refresh, TwoClicks!Counted, Clicks!Edits!Counted, TwoClicks!Ask,
         Clicks!Edits!Ask, TwoClicks!HideDock, Clicks!Edits!HideDock, TwoClicks!SetLoading,
         Clicks!Edits!SetLoading, TwoClicks!Request, Clicks!Edits!Request,
         TwoClicks!Cardinality, Clicks!Edits!Cardinality
<1>8. TwoClicks!Answers <=> Clicks!Edits!Answers
  BY ZenonT(30) DEF TwoClicks!Answers, Clicks!Edits!Answers, TwoClicks!Heard, Clicks!Edits!Heard,
         TwoClicks!Unheard, Clicks!Edits!Unheard, TwoClicks!CountAnswered,
         Clicks!Edits!CountAnswered, TwoClicks!SaveAnswered, Clicks!Edits!SaveAnswered,
         TwoClicks!RemoveAnswered, Clicks!Edits!RemoveAnswered, TwoClicks!UndoAnswered,
         Clicks!Edits!UndoAnswered, TwoClicks!DiscardAnswered, Clicks!Edits!DiscardAnswered,
         TwoClicks!CommitAnswered, Clicks!Edits!CommitAnswered, TwoClicks!RepairAnswered,
         Clicks!Edits!RepairAnswered, TwoClicks!RollbackAnswered,
         Clicks!Edits!RollbackAnswered, TwoClicks!Arrive, Clicks!Edits!Arrive,
         TwoClicks!Counted, Clicks!Edits!Counted, TwoClicks!Configured,
         Clicks!Edits!Configured, TwoClicks!Unconfigured, Clicks!Edits!Unconfigured,
         TwoClicks!Counting, Clicks!Edits!Counting, TwoClicks!GivenUp, Clicks!Edits!GivenUp,
         TwoClicks!EndLoading, Clicks!Edits!EndLoading, TwoClicks!HideDock,
         Clicks!Edits!HideDock, TwoClicks!Decision, Clicks!Edits!Decision,
         TwoClicks!SetLoading, Clicks!Edits!SetLoading, TwoClicks!Disabled,
         Clicks!Edits!Disabled, TwoClicks!Restored, Clicks!Edits!Restored, TwoClicks!Ask,
         Clicks!Edits!Ask, TwoClicks!Refresh, Clicks!Edits!Refresh, TwoClicks!Request,
         Clicks!Edits!Request, TwoClicks!Cardinality, Clicks!Edits!Cardinality
<1>9. TwoClicks!Next <=> Clicks!Edits!Next
  BY ZenonT(30), <1>5, <1>6, <1>7, <1>8
     DEF TwoClicks!Next, Clicks!Edits!Next, TwoClicks!ApplyRepairs, Clicks!Edits!ApplyRepairs,
         TwoClicks!Drop, Clicks!Edits!Drop, TwoClicks!Connect, Clicks!Edits!Connect,
         TwoClicks!Reload, Clicks!Edits!Reload, TwoClicks!Tell, Clicks!Edits!Tell,
         TwoClicks!Repairing, Clicks!Edits!Repairing, TwoClicks!Fresh, Clicks!Edits!Fresh,
         TwoClicks!Ask, Clicks!Edits!Ask, TwoClicks!Counting, Clicks!Edits!Counting,
         TwoClicks!SetLoading, Clicks!Edits!SetLoading, TwoClicks!Request,
         Clicks!Edits!Request, TwoClicks!Refresh, Clicks!Edits!Refresh, TwoClicks!Cardinality,
         Clicks!Edits!Cardinality
<1> QED
  BY <1>1, <1>2, <1>9,
     Clicks!EditsInit, Clicks!EditsNext, Clicks!EditsShow
     DEF Clicks!EditsKept

LEMMA FrameworkKeeps ==
  /\ Framework!Init => Lossless!SessionInv
  /\ Lossless!SessionInv /\ (Framework!Next \/ UNCHANGED sessionVars) => Lossless!SessionInv'
  /\ Lossless!SessionInv => Framework!TypeOK /\ EndedStaysEnded
<1>1. /\ Lossless!Session!Assumption
      /\ (UNCHANGED sessionVars => UNCHANGED Lossless!Session!vars)
      /\ (Lossless!Session!TypeOK => Framework!TypeOK)
  BY ConstantsAreSound DEF Framework!Assumption, Lossless!Session!Assumption, sessionVars,
         Lossless!Session!vars, Framework!TypeOK, Lossless!Session!TypeOK, Framework!Modes,
         Lossless!Session!Modes, Framework!SomeSession, Lossless!Session!SomeSession,
         Framework!TimerKinds, Lossless!Session!TimerKinds, Framework!Tries,
         Lossless!Session!Tries, Framework!Absent, Lossless!Session!Absent,
         Framework!ReloadKinds, Lossless!Session!ReloadKinds
<1>2. Framework!Init <=> Lossless!Session!Init
  BY DEF Framework!Init, Lossless!Session!Init, Framework!Blank, Lossless!Session!Blank,
         Framework!Absent, Lossless!Session!Absent, Framework!Nothing,
         Lossless!Session!Nothing
<1>3. ASSUME NEW t, NEW s, NEW f PROVE Framework!ScheduleReload(t, s, f) = Lossless!Session!ScheduleReload(t, s, f)
  BY DEF Framework!ScheduleReload, Lossless!Session!ScheduleReload, Framework!Superseded,
         Lossless!Session!Superseded, Framework!Tries, Lossless!Session!Tries
<1>4. ASSUME NEW t PROVE Framework!Save(t) = Lossless!Session!Save(t)
  BY DEF Framework!Save, Lossless!Session!Save
<1>5. ASSUME NEW t, NEW d, NEW f PROVE Framework!Resume(t, d, f) = Lossless!Session!Resume(t, d, f)
  BY SMTT(60) DEF Framework!Resume, Lossless!Session!Resume, Framework!ResumeAt,
         Lossless!Session!ResumeAt, Framework!Found, Lossless!Session!Found,
         Framework!Restores, Lossless!Session!Restores, Framework!ScheduleReload,
         Lossless!Session!ScheduleReload, Framework!Resumed, Lossless!Session!Resumed,
         Framework!Forget, Lossless!Session!Forget, Framework!Wrappers,
         Lossless!Session!Wrappers, Framework!Restored, Lossless!Session!Restored,
         Framework!Candidates, Lossless!Session!Candidates, Framework!Superseded,
         Lossless!Session!Superseded, Framework!Tries, Lossless!Session!Tries, Framework!Save,
         Lossless!Session!Save, Framework!Queue, Lossless!Session!Queue, Framework!Nothing,
         Lossless!Session!Nothing, Framework!Absent, Lossless!Session!Absent
<1>6. ASSUME NEW t, NEW d PROVE Framework!Watched(t, d) = Lossless!Session!Watched(t, d)
  <2> DEFINE late == {x \in t.timers : x.kind = "watch" /\ d[x.s] # -1}
             seen == CHOOSE x \in late : TRUE
             told == IF late = {} THEN t ELSE Framework!ScheduleReload(t, seen.s, seen.fresh)
             also == IF late = {} THEN t ELSE Lossless!Session!ScheduleReload(t, seen.s, seen.fresh)
  <2>1. Framework!Watched(t, d) =
           (IF t.scout # "off" /\ Framework!Wrappers(d) # {}
            THEN Framework!Resume([told EXCEPT !.scout = "off"], d, t.scout = "fresh")
            ELSE IF told.obs # None /\ d[told.obs] > told.arrived
            THEN {Framework!Save([told EXCEPT !.arrived = d[told.obs], !.mode = "CYCLING"])}
            ELSE {told})
    BY DEF Framework!Watched, Framework!Absent
  <2>2. Lossless!Session!Watched(t, d) =
           (IF t.scout # "off" /\ Lossless!Session!Wrappers(d) # {}
            THEN Lossless!Session!Resume([also EXCEPT !.scout = "off"], d, t.scout = "fresh")
            ELSE IF also.obs # None /\ d[also.obs] > also.arrived
            THEN {Lossless!Session!Save([also EXCEPT !.arrived = d[also.obs], !.mode = "CYCLING"])}
            ELSE {also})
    BY DEF Lossless!Session!Watched, Lossless!Session!Absent
  <2> HIDE DEF seen, late
  <2>3. told = also
    BY <1>3
  <2>4. Framework!Wrappers(d) = Lossless!Session!Wrappers(d)
    BY DEF Framework!Wrappers, Lossless!Session!Wrappers, Framework!Absent, Lossless!Session!Absent
  <2> HIDE DEF told, also
  <2> QED
    BY <1>4, <1>5, <2>1, <2>2, <2>3, <2>4
<1>7. ASSUME NEW t, NEW d PROVE Framework!Loads(t, d) = Lossless!Session!Loads(t, d)
  BY Zenon, <1>5 DEF Framework!Loads, Lossless!Session!Loads, Framework!Blank, Lossless!Session!Blank,
         Framework!Wrappers, Lossless!Session!Wrappers, Framework!Nothing,
         Lossless!Session!Nothing, Framework!Absent, Lossless!Session!Absent
<1>8. Framework!Discard <=> Lossless!Session!Discard
  BY DEF Framework!Discard, Lossless!Session!Discard, Framework!Press, Lossless!Session!Press,
         Framework!Cardinality, Lossless!Session!Cardinality
<1>9. Framework!User <=> Lossless!Session!User
  BY <1>6, <1>7, <1>8 DEF Framework!User, Lossless!Session!User, Framework!Pick, Lossless!Session!Pick,
         Framework!Unpick, Lossless!Session!Unpick, Framework!Accept, Lossless!Session!Accept,
         Framework!Reload, Lossless!Session!Reload, Framework!Unmount,
         Lossless!Session!Unmount, Framework!Go, Lossless!Session!Go, Framework!Outdate,
         Lossless!Session!Outdate, Framework!Press, Lossless!Session!Press, Framework!Save,
         Lossless!Session!Save, Framework!LoadPage, Lossless!Session!LoadPage,
         Framework!Absent, Lossless!Session!Absent, Framework!Fresh, Lossless!Session!Fresh,
         Framework!server, Lossless!Session!server
<1>10. Framework!Answers <=> Lossless!Session!Answers
  BY ZenonT(30)
     DEF Framework!Answers, Lossless!Session!Answers, Framework!CaptureEnds,
         Lossless!Session!CaptureEnds, Framework!GenerateAnswered,
         Lossless!Session!GenerateAnswered, Framework!AcceptAnswered,
         Lossless!Session!AcceptAnswered, Framework!DiscardAnswered,
         Lossless!Session!DiscardAnswered, Framework!Checkpoint,
         Lossless!Session!Checkpoint, Framework!PostArrives, Lossless!Session!PostArrives,
         Framework!AcceptOk, Lossless!Session!AcceptOk, Framework!AcceptRefused,
         Lossless!Session!AcceptRefused, Framework!Cleanup, Lossless!Session!Cleanup,
         Framework!Handle, Lossless!Session!Handle, Framework!GateOpen,
         Lossless!Session!GateOpen, Framework!CleanupAccepted,
         Lossless!Session!CleanupAccepted, Framework!RecoverEmpty,
         Lossless!Session!RecoverEmpty, Framework!Nothing, Lossless!Session!Nothing,
         Framework!Absent, Lossless!Session!Absent, Framework!ScheduleReload,
         Lossless!Session!ScheduleReload, Framework!Superseded,
         Lossless!Session!Superseded, Framework!Tries, Lossless!Session!Tries,
         Framework!Save, Lossless!Session!Save, Framework!Queue, Lossless!Session!Queue
<1>10a. Framework!Agent <=> Lossless!Session!Agent
  BY ZenonT(30)
     DEF Framework!Agent, Lossless!Session!Agent, Framework!AgentWrites,
         Lossless!Session!AgentWrites, Framework!AgentDone, Lossless!Session!AgentDone,
         Framework!AgentFails, Lossless!Session!AgentFails, Framework!AcceptDone,
         Lossless!Session!AcceptDone, Framework!AcceptFails, Lossless!Session!AcceptFails,
         Framework!LateAgentDone, Lossless!Session!LateAgentDone, Framework!DiscardDone,
         Lossless!Session!DiscardDone, Framework!OnDone, Lossless!Session!OnDone,
         Framework!OnError, Lossless!Session!OnError, Framework!OnComplete,
         Lossless!Session!OnComplete, Framework!OnAgentDone, Lossless!Session!OnAgentDone,
         Framework!CleanupAccepted, Lossless!Session!CleanupAccepted, Framework!Cleanup,
         Lossless!Session!Cleanup, Framework!Handle, Lossless!Session!Handle,
         Framework!Nothing, Lossless!Session!Nothing, Framework!Absent,
         Lossless!Session!Absent, Framework!ScheduleReload,
         Lossless!Session!ScheduleReload, Framework!Superseded,
         Lossless!Session!Superseded, Framework!Tries, Lossless!Session!Tries,
         Framework!Save, Lossless!Session!Save, Framework!Queue, Lossless!Session!Queue,
         Framework!RecoverEmpty, Lossless!Session!RecoverEmpty, Framework!GateOpen,
         Lossless!Session!GateOpen
<1>10b. Framework!Stream <=> Lossless!Session!Stream
  BY SMTT(60)
     DEF Framework!Stream, Lossless!Session!Stream, Framework!Connect,
         Lossless!Session!Connect, Framework!Drop, Lossless!Session!Drop,
         Framework!ServerLost, Lossless!Session!ServerLost, Framework!Wrappers,
         Lossless!Session!Wrappers, Framework!Restores, Lossless!Session!Restores,
         Framework!Active, Lossless!Session!Active, Framework!RecoverMissed,
         Lossless!Session!RecoverMissed, Framework!Save, Lossless!Session!Save,
         Framework!Restored, Lossless!Session!Restored, Framework!Candidates,
         Lossless!Session!Candidates, Framework!Queue, Lossless!Session!Queue,
         Framework!Absent, Lossless!Session!Absent, Framework!Nothing,
         Lossless!Session!Nothing, Framework!Superseded, Lossless!Session!Superseded,
         Framework!Tries, Lossless!Session!Tries, Framework!Cleanup,
         Lossless!Session!Cleanup, Framework!Handle, Lossless!Session!Handle
<1>11. Framework!Page <=> Lossless!Session!Page
  BY ZenonT(30), <1>6, <1>7
     DEF Framework!Page, Lossless!Session!Page, Framework!Mutate, Lossless!Session!Mutate,
         Framework!ReadAnswered, Lossless!Session!ReadAnswered, Framework!ReadFails,
         Lossless!Session!ReadFails, Framework!ReloadTimer, Lossless!Session!ReloadTimer,
         Framework!Expire, Lossless!Session!Expire, Framework!ReadHmr,
         Lossless!Session!ReadHmr, Framework!ReadStatic, Lossless!Session!ReadStatic,
         Framework!ReloadKinds, Lossless!Session!ReloadKinds, Framework!Superseded,
         Lossless!Session!Superseded, Framework!Absent, Lossless!Session!Absent,
         Framework!LoadPage, Lossless!Session!LoadPage, Framework!Injected,
         Lossless!Session!Injected, Framework!RecoverEmpty, Lossless!Session!RecoverEmpty,
         Framework!DiscardOrphan, Lossless!Session!DiscardOrphan, Framework!server,
         Lossless!Session!server, Framework!Save, Lossless!Session!Save, Framework!Cleanup,
         Lossless!Session!Cleanup, Framework!Handle, Lossless!Session!Handle,
         Framework!Nothing, Lossless!Session!Nothing
<1>12. Framework!Next <=> Lossless!Session!Next
  BY <1>9, <1>10, <1>10a, <1>10b, <1>11 DEF Framework!Next, Lossless!Session!Next
<1> QED
  BY <1>1, <1>2, <1>12,
     Lossless!SessionInit, Lossless!SessionKept, Lossless!SessionSound
     DEF EndedStaysEnded, Static!EndedStaysEnded, Lossless!Session!EndedStaysEnded

LEMMA StaticKeeps ==
  /\ Static!Init => Lossy!SessionInv
  /\ Lossy!SessionInv /\ (Static!Next \/ UNCHANGED sessionVars) => Lossy!SessionInv'
  /\ Lossy!SessionInv => Static!TypeOK /\ EndedStaysEnded
<1>1. /\ Lossy!Session!Assumption
      /\ (UNCHANGED sessionVars => UNCHANGED Lossy!Session!vars)
      /\ (Lossy!Session!TypeOK => Static!TypeOK)
  BY ConstantsAreSound DEF Static!Assumption, Lossy!Session!Assumption, sessionVars, Lossy!Session!vars,
         Static!TypeOK, Lossy!Session!TypeOK, Static!Modes, Lossy!Session!Modes,
         Static!SomeSession, Lossy!Session!SomeSession, Static!TimerKinds,
         Lossy!Session!TimerKinds, Static!Tries, Lossy!Session!Tries, Static!Absent,
         Lossy!Session!Absent, Static!ReloadKinds, Lossy!Session!ReloadKinds
<1>2. Static!Init <=> Lossy!Session!Init
  BY DEF Static!Init, Lossy!Session!Init, Static!Blank, Lossy!Session!Blank, Static!Absent,
         Lossy!Session!Absent, Static!Nothing, Lossy!Session!Nothing
<1>3. ASSUME NEW t, NEW s, NEW f PROVE Static!ScheduleReload(t, s, f) = Lossy!Session!ScheduleReload(t, s, f)
  BY DEF Static!ScheduleReload, Lossy!Session!ScheduleReload, Static!Superseded,
         Lossy!Session!Superseded, Static!Tries, Lossy!Session!Tries
<1>4. ASSUME NEW t PROVE Static!Save(t) = Lossy!Session!Save(t)
  BY DEF Static!Save, Lossy!Session!Save
<1>5. ASSUME NEW t, NEW d, NEW f PROVE Static!Resume(t, d, f) = Lossy!Session!Resume(t, d, f)
  BY SMTT(60) DEF Static!Resume, Lossy!Session!Resume, Static!ResumeAt, Lossy!Session!ResumeAt,
         Static!Found, Lossy!Session!Found, Static!Restores, Lossy!Session!Restores,
         Static!ScheduleReload, Lossy!Session!ScheduleReload, Static!Resumed,
         Lossy!Session!Resumed, Static!Forget, Lossy!Session!Forget, Static!Wrappers,
         Lossy!Session!Wrappers, Static!Restored, Lossy!Session!Restored, Static!Candidates,
         Lossy!Session!Candidates, Static!Superseded, Lossy!Session!Superseded, Static!Tries,
         Lossy!Session!Tries, Static!Save, Lossy!Session!Save, Static!Queue,
         Lossy!Session!Queue, Static!Nothing, Lossy!Session!Nothing, Static!Absent,
         Lossy!Session!Absent
<1>6. ASSUME NEW t, NEW d PROVE Static!Watched(t, d) = Lossy!Session!Watched(t, d)
  <2> DEFINE late == {x \in t.timers : x.kind = "watch" /\ d[x.s] # -1}
             seen == CHOOSE x \in late : TRUE
             told == IF late = {} THEN t ELSE Static!ScheduleReload(t, seen.s, seen.fresh)
             also == IF late = {} THEN t ELSE Lossy!Session!ScheduleReload(t, seen.s, seen.fresh)
  <2>1. Static!Watched(t, d) =
           (IF t.scout # "off" /\ Static!Wrappers(d) # {}
            THEN Static!Resume([told EXCEPT !.scout = "off"], d, t.scout = "fresh")
            ELSE IF told.obs # None /\ d[told.obs] > told.arrived
            THEN {Static!Save([told EXCEPT !.arrived = d[told.obs], !.mode = "CYCLING"])}
            ELSE {told})
    BY DEF Static!Watched, Static!Absent
  <2>2. Lossy!Session!Watched(t, d) =
           (IF t.scout # "off" /\ Lossy!Session!Wrappers(d) # {}
            THEN Lossy!Session!Resume([also EXCEPT !.scout = "off"], d, t.scout = "fresh")
            ELSE IF also.obs # None /\ d[also.obs] > also.arrived
            THEN {Lossy!Session!Save([also EXCEPT !.arrived = d[also.obs], !.mode = "CYCLING"])}
            ELSE {also})
    BY DEF Lossy!Session!Watched, Lossy!Session!Absent
  <2> HIDE DEF seen, late
  <2>3. told = also
    BY <1>3
  <2>4. Static!Wrappers(d) = Lossy!Session!Wrappers(d)
    BY DEF Static!Wrappers, Lossy!Session!Wrappers, Static!Absent, Lossy!Session!Absent
  <2> HIDE DEF told, also
  <2> QED
    BY <1>4, <1>5, <2>1, <2>2, <2>3, <2>4
<1>7. ASSUME NEW t, NEW d PROVE Static!Loads(t, d) = Lossy!Session!Loads(t, d)
  BY Zenon, <1>5 DEF Static!Loads, Lossy!Session!Loads, Static!Blank, Lossy!Session!Blank,
         Static!Wrappers, Lossy!Session!Wrappers, Static!Nothing, Lossy!Session!Nothing,
         Static!Absent, Lossy!Session!Absent
<1>8. Static!Discard <=> Lossy!Session!Discard
  BY DEF Static!Discard, Lossy!Session!Discard, Static!Press, Lossy!Session!Press,
         Static!Cardinality, Lossy!Session!Cardinality
<1>9. ASSUME NEW x PROVE Static!ReadAnswered(x) <=> Lossy!Session!ReadAnswered(x)
  BY ZenonT(30), <1>6 DEF Static!ReadAnswered, Lossy!Session!ReadAnswered, Static!ReadHmr,
         Lossy!Session!ReadHmr, Static!ReadStatic, Lossy!Session!ReadStatic, Static!Injected,
         Lossy!Session!Injected, Static!RecoverEmpty, Lossy!Session!RecoverEmpty,
         Static!Absent, Lossy!Session!Absent, Static!DiscardOrphan,
         Lossy!Session!DiscardOrphan, Static!Save, Lossy!Session!Save, Static!Cleanup,
         Lossy!Session!Cleanup, Static!Handle, Lossy!Session!Handle, Static!Nothing,
         Lossy!Session!Nothing
<1>10. ASSUME NEW x PROVE Static!Expire(x) <=> Lossy!Session!Expire(x)
  BY DEF Static!Expire, Lossy!Session!Expire, Static!Superseded, Lossy!Session!Superseded,
         Static!ReloadKinds, Lossy!Session!ReloadKinds, Static!Absent, Lossy!Session!Absent
<1>11. Static!User <=> Lossy!Session!User
  BY <1>6, <1>7, <1>8
     DEF Static!User, Lossy!Session!User, Static!Pick, Lossy!Session!Pick, Static!Unpick,
         Lossy!Session!Unpick, Static!Accept, Lossy!Session!Accept, Static!Reload,
         Lossy!Session!Reload, Static!Unmount, Lossy!Session!Unmount, Static!Go,
         Lossy!Session!Go, Static!Outdate, Lossy!Session!Outdate, Static!Press,
         Lossy!Session!Press, Static!Save, Lossy!Session!Save, Static!LoadPage,
         Lossy!Session!LoadPage, Static!Absent, Lossy!Session!Absent, Static!Fresh,
         Lossy!Session!Fresh, Static!server, Lossy!Session!server
<1>12. Static!Answers <=> Lossy!Session!Answers
  BY ZenonT(30)
     DEF Static!Answers, Lossy!Session!Answers, Static!CaptureEnds,
         Lossy!Session!CaptureEnds, Static!GenerateAnswered,
         Lossy!Session!GenerateAnswered, Static!AcceptAnswered,
         Lossy!Session!AcceptAnswered, Static!DiscardAnswered,
         Lossy!Session!DiscardAnswered, Static!Checkpoint, Lossy!Session!Checkpoint,
         Static!PostArrives, Lossy!Session!PostArrives, Static!AcceptOk,
         Lossy!Session!AcceptOk, Static!AcceptRefused, Lossy!Session!AcceptRefused,
         Static!Cleanup, Lossy!Session!Cleanup, Static!Handle, Lossy!Session!Handle,
         Static!GateOpen, Lossy!Session!GateOpen, Static!CleanupAccepted,
         Lossy!Session!CleanupAccepted, Static!RecoverEmpty, Lossy!Session!RecoverEmpty,
         Static!Nothing, Lossy!Session!Nothing, Static!Absent, Lossy!Session!Absent,
         Static!ScheduleReload, Lossy!Session!ScheduleReload, Static!Superseded,
         Lossy!Session!Superseded, Static!Tries, Lossy!Session!Tries, Static!Save,
         Lossy!Session!Save, Static!Queue, Lossy!Session!Queue
<1>12a. Static!Agent <=> Lossy!Session!Agent
  BY ZenonT(30)
     DEF Static!Agent, Lossy!Session!Agent, Static!AgentWrites, Lossy!Session!AgentWrites,
         Static!AgentDone, Lossy!Session!AgentDone, Static!AgentFails,
         Lossy!Session!AgentFails, Static!AcceptDone, Lossy!Session!AcceptDone,
         Static!AcceptFails, Lossy!Session!AcceptFails, Static!LateAgentDone,
         Lossy!Session!LateAgentDone, Static!DiscardDone, Lossy!Session!DiscardDone,
         Static!OnDone, Lossy!Session!OnDone, Static!OnError, Lossy!Session!OnError,
         Static!OnComplete, Lossy!Session!OnComplete, Static!OnAgentDone,
         Lossy!Session!OnAgentDone, Static!CleanupAccepted, Lossy!Session!CleanupAccepted,
         Static!Cleanup, Lossy!Session!Cleanup, Static!Handle, Lossy!Session!Handle,
         Static!Nothing, Lossy!Session!Nothing, Static!Absent, Lossy!Session!Absent,
         Static!ScheduleReload, Lossy!Session!ScheduleReload, Static!Superseded,
         Lossy!Session!Superseded, Static!Tries, Lossy!Session!Tries, Static!Save,
         Lossy!Session!Save, Static!Queue, Lossy!Session!Queue, Static!RecoverEmpty,
         Lossy!Session!RecoverEmpty, Static!GateOpen, Lossy!Session!GateOpen
<1>12b. Static!Stream <=> Lossy!Session!Stream
  BY SMTT(60)
     DEF Static!Stream, Lossy!Session!Stream, Static!Connect, Lossy!Session!Connect,
         Static!Drop, Lossy!Session!Drop, Static!ServerLost, Lossy!Session!ServerLost,
         Static!Wrappers, Lossy!Session!Wrappers, Static!Restores, Lossy!Session!Restores,
         Static!Active, Lossy!Session!Active, Static!RecoverMissed,
         Lossy!Session!RecoverMissed, Static!Save, Lossy!Session!Save, Static!Restored,
         Lossy!Session!Restored, Static!Candidates, Lossy!Session!Candidates, Static!Queue,
         Lossy!Session!Queue, Static!Absent, Lossy!Session!Absent, Static!Nothing,
         Lossy!Session!Nothing, Static!Superseded, Lossy!Session!Superseded, Static!Tries,
         Lossy!Session!Tries, Static!Cleanup, Lossy!Session!Cleanup, Static!Handle,
         Lossy!Session!Handle
<1>13. Static!Page <=> Lossy!Session!Page
  BY <1>6, <1>7, <1>9, <1>10 DEF Static!Page, Lossy!Session!Page, Static!Mutate, Lossy!Session!Mutate,
         Static!ReadFails, Lossy!Session!ReadFails, Static!ReloadTimer,
         Lossy!Session!ReloadTimer, Static!ReloadKinds, Lossy!Session!ReloadKinds,
         Static!Superseded, Lossy!Session!Superseded, Static!Absent, Lossy!Session!Absent,
         Static!LoadPage, Lossy!Session!LoadPage, Static!server, Lossy!Session!server
<1>14. Static!Next <=> Lossy!Session!Next
  BY <1>11, <1>12, <1>12a, <1>12b, <1>13 DEF Static!Next, Lossy!Session!Next
<1> QED
  BY <1>1, <1>2, <1>14,
     Lossy!SessionInit, Lossy!SessionKept, Lossy!SessionSound
     DEF EndedStaysEnded, Static!EndedStaysEnded, Lossy!Session!EndedStaysEnded

LEMMA OneFrameworkKeeps ==
  /\ OneFramework!Init => Clicks!SessionInv
  /\ Clicks!SessionInv /\ (OneFramework!Next \/ UNCHANGED sessionVars) => Clicks!SessionInv'
  /\ Clicks!SessionInv => OneFramework!TypeOK /\ EndedStaysEnded
<1>1. /\ Clicks!Session!Assumption
      /\ (UNCHANGED sessionVars => UNCHANGED Clicks!Session!vars)
      /\ (Clicks!Session!TypeOK => OneFramework!TypeOK)
  BY ConstantsAreSound
     DEF OneFramework!Assumption, Clicks!Session!Assumption, sessionVars, Clicks!Session!vars,
         OneFramework!TypeOK, Clicks!Session!TypeOK, OneFramework!Modes, Clicks!Session!Modes,
         OneFramework!SomeSession, Clicks!Session!SomeSession, OneFramework!TimerKinds,
         Clicks!Session!TimerKinds, OneFramework!Tries, Clicks!Session!Tries,
         OneFramework!Absent, Clicks!Session!Absent, OneFramework!ReloadKinds,
         Clicks!Session!ReloadKinds
<1>2. OneFramework!Init <=> Clicks!Session!Init
  BY DEF OneFramework!Init, Clicks!Session!Init, OneFramework!Blank, Clicks!Session!Blank,
         OneFramework!Absent, Clicks!Session!Absent, OneFramework!Nothing,
         Clicks!Session!Nothing
<1>3. ASSUME NEW t, NEW s, NEW f PROVE OneFramework!ScheduleReload(t, s, f) = Clicks!Session!ScheduleReload(t, s, f)
  BY DEF OneFramework!ScheduleReload, Clicks!Session!ScheduleReload, OneFramework!Superseded,
         Clicks!Session!Superseded, OneFramework!Tries, Clicks!Session!Tries
<1>4. ASSUME NEW t PROVE OneFramework!Save(t) = Clicks!Session!Save(t)
  BY DEF OneFramework!Save, Clicks!Session!Save
<1>5. ASSUME NEW t, NEW d, NEW f PROVE OneFramework!Resume(t, d, f) = Clicks!Session!Resume(t, d, f)
  BY SMTT(60) DEF OneFramework!Resume, Clicks!Session!Resume, OneFramework!ResumeAt,
         Clicks!Session!ResumeAt, OneFramework!Found, Clicks!Session!Found,
         OneFramework!Restores, Clicks!Session!Restores, OneFramework!ScheduleReload,
         Clicks!Session!ScheduleReload, OneFramework!Resumed, Clicks!Session!Resumed,
         OneFramework!Forget, Clicks!Session!Forget, OneFramework!Wrappers,
         Clicks!Session!Wrappers, OneFramework!Restored, Clicks!Session!Restored,
         OneFramework!Candidates, Clicks!Session!Candidates, OneFramework!Superseded,
         Clicks!Session!Superseded, OneFramework!Tries, Clicks!Session!Tries,
         OneFramework!Save, Clicks!Session!Save, OneFramework!Queue, Clicks!Session!Queue,
         OneFramework!Nothing, Clicks!Session!Nothing, OneFramework!Absent,
         Clicks!Session!Absent
<1>6. ASSUME NEW t, NEW d PROVE OneFramework!Watched(t, d) = Clicks!Session!Watched(t, d)
  <2> DEFINE late == {x \in t.timers : x.kind = "watch" /\ d[x.s] # -1}
             seen == CHOOSE x \in late : TRUE
             told == IF late = {} THEN t ELSE OneFramework!ScheduleReload(t, seen.s, seen.fresh)
             also == IF late = {} THEN t ELSE Clicks!Session!ScheduleReload(t, seen.s, seen.fresh)
  <2>1. OneFramework!Watched(t, d) =
           (IF t.scout # "off" /\ OneFramework!Wrappers(d) # {}
            THEN OneFramework!Resume([told EXCEPT !.scout = "off"], d, t.scout = "fresh")
            ELSE IF told.obs # None /\ d[told.obs] > told.arrived
            THEN {OneFramework!Save([told EXCEPT !.arrived = d[told.obs], !.mode = "CYCLING"])}
            ELSE {told})
    BY DEF OneFramework!Watched, OneFramework!Absent
  <2>2. Clicks!Session!Watched(t, d) =
           (IF t.scout # "off" /\ Clicks!Session!Wrappers(d) # {}
            THEN Clicks!Session!Resume([also EXCEPT !.scout = "off"], d, t.scout = "fresh")
            ELSE IF also.obs # None /\ d[also.obs] > also.arrived
            THEN {Clicks!Session!Save([also EXCEPT !.arrived = d[also.obs], !.mode = "CYCLING"])}
            ELSE {also})
    BY DEF Clicks!Session!Watched, Clicks!Session!Absent
  <2> HIDE DEF seen, late
  <2>3. told = also
    BY <1>3
  <2>4. OneFramework!Wrappers(d) = Clicks!Session!Wrappers(d)
    BY DEF OneFramework!Wrappers, Clicks!Session!Wrappers, OneFramework!Absent, Clicks!Session!Absent
  <2> HIDE DEF told, also
  <2> QED
    BY <1>4, <1>5, <2>1, <2>2, <2>3, <2>4
<1>7. ASSUME NEW t, NEW d PROVE OneFramework!Loads(t, d) = Clicks!Session!Loads(t, d)
  BY Zenon, <1>5 DEF OneFramework!Loads, Clicks!Session!Loads, OneFramework!Blank, Clicks!Session!Blank,
         OneFramework!Wrappers, Clicks!Session!Wrappers, OneFramework!Nothing,
         Clicks!Session!Nothing, OneFramework!Absent, Clicks!Session!Absent
<1>8. OneFramework!Discard <=> Clicks!Session!Discard
  BY DEF OneFramework!Discard, Clicks!Session!Discard, OneFramework!Press,
         Clicks!Session!Press, OneFramework!Cardinality, Clicks!Session!Cardinality
<1>9. OneFramework!User <=> Clicks!Session!User
  BY <1>6, <1>7, <1>8 DEF OneFramework!User, Clicks!Session!User, OneFramework!Pick, Clicks!Session!Pick,
         OneFramework!Unpick, Clicks!Session!Unpick, OneFramework!Accept,
         Clicks!Session!Accept, OneFramework!Reload, Clicks!Session!Reload,
         OneFramework!Unmount, Clicks!Session!Unmount, OneFramework!Go, Clicks!Session!Go,
         OneFramework!Outdate, Clicks!Session!Outdate, OneFramework!Press,
         Clicks!Session!Press, OneFramework!Save, Clicks!Session!Save, OneFramework!LoadPage,
         Clicks!Session!LoadPage, OneFramework!Absent, Clicks!Session!Absent,
         OneFramework!Fresh, Clicks!Session!Fresh, OneFramework!server, Clicks!Session!server
<1>10. OneFramework!Answers <=> Clicks!Session!Answers
  BY ZenonT(30)
     DEF OneFramework!Answers, Clicks!Session!Answers, OneFramework!CaptureEnds,
         Clicks!Session!CaptureEnds, OneFramework!GenerateAnswered,
         Clicks!Session!GenerateAnswered, OneFramework!AcceptAnswered,
         Clicks!Session!AcceptAnswered, OneFramework!DiscardAnswered,
         Clicks!Session!DiscardAnswered, OneFramework!Checkpoint,
         Clicks!Session!Checkpoint, OneFramework!PostArrives, Clicks!Session!PostArrives,
         OneFramework!AcceptOk, Clicks!Session!AcceptOk, OneFramework!AcceptRefused,
         Clicks!Session!AcceptRefused, OneFramework!Cleanup, Clicks!Session!Cleanup,
         OneFramework!Handle, Clicks!Session!Handle, OneFramework!GateOpen,
         Clicks!Session!GateOpen, OneFramework!CleanupAccepted,
         Clicks!Session!CleanupAccepted, OneFramework!RecoverEmpty,
         Clicks!Session!RecoverEmpty, OneFramework!Nothing, Clicks!Session!Nothing,
         OneFramework!Absent, Clicks!Session!Absent, OneFramework!ScheduleReload,
         Clicks!Session!ScheduleReload, OneFramework!Superseded, Clicks!Session!Superseded,
         OneFramework!Tries, Clicks!Session!Tries, OneFramework!Save, Clicks!Session!Save,
         OneFramework!Queue, Clicks!Session!Queue
<1>10a. OneFramework!Agent <=> Clicks!Session!Agent
  BY ZenonT(30)
     DEF OneFramework!Agent, Clicks!Session!Agent, OneFramework!AgentWrites,
         Clicks!Session!AgentWrites, OneFramework!AgentDone, Clicks!Session!AgentDone,
         OneFramework!AgentFails, Clicks!Session!AgentFails, OneFramework!AcceptDone,
         Clicks!Session!AcceptDone, OneFramework!AcceptFails, Clicks!Session!AcceptFails,
         OneFramework!LateAgentDone, Clicks!Session!LateAgentDone,
         OneFramework!DiscardDone, Clicks!Session!DiscardDone, OneFramework!OnDone,
         Clicks!Session!OnDone, OneFramework!OnError, Clicks!Session!OnError,
         OneFramework!OnComplete, Clicks!Session!OnComplete, OneFramework!OnAgentDone,
         Clicks!Session!OnAgentDone, OneFramework!CleanupAccepted,
         Clicks!Session!CleanupAccepted, OneFramework!Cleanup, Clicks!Session!Cleanup,
         OneFramework!Handle, Clicks!Session!Handle, OneFramework!Nothing,
         Clicks!Session!Nothing, OneFramework!Absent, Clicks!Session!Absent,
         OneFramework!ScheduleReload, Clicks!Session!ScheduleReload,
         OneFramework!Superseded, Clicks!Session!Superseded, OneFramework!Tries,
         Clicks!Session!Tries, OneFramework!Save, Clicks!Session!Save, OneFramework!Queue,
         Clicks!Session!Queue, OneFramework!RecoverEmpty, Clicks!Session!RecoverEmpty,
         OneFramework!GateOpen, Clicks!Session!GateOpen
<1>10b. OneFramework!Stream <=> Clicks!Session!Stream
  BY SMTT(60)
     DEF OneFramework!Stream, Clicks!Session!Stream, OneFramework!Connect,
         Clicks!Session!Connect, OneFramework!Drop, Clicks!Session!Drop,
         OneFramework!ServerLost, Clicks!Session!ServerLost, OneFramework!Wrappers,
         Clicks!Session!Wrappers, OneFramework!Restores, Clicks!Session!Restores,
         OneFramework!Active, Clicks!Session!Active, OneFramework!RecoverMissed,
         Clicks!Session!RecoverMissed, OneFramework!Save, Clicks!Session!Save,
         OneFramework!Restored, Clicks!Session!Restored, OneFramework!Candidates,
         Clicks!Session!Candidates, OneFramework!Queue, Clicks!Session!Queue,
         OneFramework!Absent, Clicks!Session!Absent, OneFramework!Nothing,
         Clicks!Session!Nothing, OneFramework!Superseded, Clicks!Session!Superseded,
         OneFramework!Tries, Clicks!Session!Tries, OneFramework!Cleanup,
         Clicks!Session!Cleanup, OneFramework!Handle, Clicks!Session!Handle
<1>11. OneFramework!Page <=> Clicks!Session!Page
  BY ZenonT(30), <1>6, <1>7
     DEF OneFramework!Page, Clicks!Session!Page, OneFramework!Mutate, Clicks!Session!Mutate,
         OneFramework!ReadAnswered, Clicks!Session!ReadAnswered, OneFramework!ReadFails,
         Clicks!Session!ReadFails, OneFramework!ReloadTimer, Clicks!Session!ReloadTimer,
         OneFramework!Expire, Clicks!Session!Expire, OneFramework!ReadHmr,
         Clicks!Session!ReadHmr, OneFramework!ReadStatic, Clicks!Session!ReadStatic,
         OneFramework!ReloadKinds, Clicks!Session!ReloadKinds, OneFramework!Superseded,
         Clicks!Session!Superseded, OneFramework!Absent, Clicks!Session!Absent,
         OneFramework!LoadPage, Clicks!Session!LoadPage, OneFramework!Injected,
         Clicks!Session!Injected, OneFramework!RecoverEmpty, Clicks!Session!RecoverEmpty,
         OneFramework!DiscardOrphan, Clicks!Session!DiscardOrphan, OneFramework!server,
         Clicks!Session!server, OneFramework!Save, Clicks!Session!Save, OneFramework!Cleanup,
         Clicks!Session!Cleanup, OneFramework!Handle, Clicks!Session!Handle,
         OneFramework!Nothing, Clicks!Session!Nothing
<1>12. OneFramework!Next <=> Clicks!Session!Next
  BY <1>9, <1>10, <1>10a, <1>10b, <1>11 DEF OneFramework!Next, Clicks!Session!Next
<1> QED
  BY <1>1, <1>2, <1>12,
     Clicks!SessionInit, Clicks!SessionKept, Clicks!SessionSound
     DEF EndedStaysEnded, Static!EndedStaysEnded, Clicks!Session!EndedStaysEnded

LEMMA OneStaticKeeps ==
  /\ OneStatic!Init => Asleep!SessionInv
  /\ Asleep!SessionInv /\ (OneStatic!Next \/ UNCHANGED sessionVars) => Asleep!SessionInv'
  /\ Asleep!SessionInv => OneStatic!TypeOK /\ EndedStaysEnded
<1>1. /\ Asleep!Session!Assumption
      /\ (UNCHANGED sessionVars => UNCHANGED Asleep!Session!vars)
      /\ (Asleep!Session!TypeOK => OneStatic!TypeOK)
  BY ConstantsAreSound
     DEF OneStatic!Assumption, Asleep!Session!Assumption, sessionVars, Asleep!Session!vars,
         OneStatic!TypeOK, Asleep!Session!TypeOK, OneStatic!Modes, Asleep!Session!Modes,
         OneStatic!SomeSession, Asleep!Session!SomeSession, OneStatic!TimerKinds,
         Asleep!Session!TimerKinds, OneStatic!Tries, Asleep!Session!Tries, OneStatic!Absent,
         Asleep!Session!Absent, OneStatic!ReloadKinds, Asleep!Session!ReloadKinds
<1>2. OneStatic!Init <=> Asleep!Session!Init
  BY DEF OneStatic!Init, Asleep!Session!Init, OneStatic!Blank, Asleep!Session!Blank,
         OneStatic!Absent, Asleep!Session!Absent, OneStatic!Nothing, Asleep!Session!Nothing
<1>3. ASSUME NEW t, NEW s, NEW f PROVE OneStatic!ScheduleReload(t, s, f) = Asleep!Session!ScheduleReload(t, s, f)
  BY DEF OneStatic!ScheduleReload, Asleep!Session!ScheduleReload, OneStatic!Superseded,
         Asleep!Session!Superseded, OneStatic!Tries, Asleep!Session!Tries
<1>4. ASSUME NEW t PROVE OneStatic!Save(t) = Asleep!Session!Save(t)
  BY DEF OneStatic!Save, Asleep!Session!Save
<1>5. ASSUME NEW t, NEW d, NEW f PROVE OneStatic!Resume(t, d, f) = Asleep!Session!Resume(t, d, f)
  BY SMTT(60) DEF OneStatic!Resume, Asleep!Session!Resume, OneStatic!ResumeAt, Asleep!Session!ResumeAt,
         OneStatic!Found, Asleep!Session!Found, OneStatic!Restores, Asleep!Session!Restores,
         OneStatic!ScheduleReload, Asleep!Session!ScheduleReload, OneStatic!Resumed,
         Asleep!Session!Resumed, OneStatic!Forget, Asleep!Session!Forget, OneStatic!Wrappers,
         Asleep!Session!Wrappers, OneStatic!Restored, Asleep!Session!Restored,
         OneStatic!Candidates, Asleep!Session!Candidates, OneStatic!Superseded,
         Asleep!Session!Superseded, OneStatic!Tries, Asleep!Session!Tries, OneStatic!Save,
         Asleep!Session!Save, OneStatic!Queue, Asleep!Session!Queue, OneStatic!Nothing,
         Asleep!Session!Nothing, OneStatic!Absent, Asleep!Session!Absent
<1>6. ASSUME NEW t, NEW d PROVE OneStatic!Watched(t, d) = Asleep!Session!Watched(t, d)
  <2> DEFINE late == {x \in t.timers : x.kind = "watch" /\ d[x.s] # -1}
             seen == CHOOSE x \in late : TRUE
             told == IF late = {} THEN t ELSE OneStatic!ScheduleReload(t, seen.s, seen.fresh)
             also == IF late = {} THEN t ELSE Asleep!Session!ScheduleReload(t, seen.s, seen.fresh)
  <2>1. OneStatic!Watched(t, d) =
           (IF t.scout # "off" /\ OneStatic!Wrappers(d) # {}
            THEN OneStatic!Resume([told EXCEPT !.scout = "off"], d, t.scout = "fresh")
            ELSE IF told.obs # None /\ d[told.obs] > told.arrived
            THEN {OneStatic!Save([told EXCEPT !.arrived = d[told.obs], !.mode = "CYCLING"])}
            ELSE {told})
    BY DEF OneStatic!Watched, OneStatic!Absent
  <2>2. Asleep!Session!Watched(t, d) =
           (IF t.scout # "off" /\ Asleep!Session!Wrappers(d) # {}
            THEN Asleep!Session!Resume([also EXCEPT !.scout = "off"], d, t.scout = "fresh")
            ELSE IF also.obs # None /\ d[also.obs] > also.arrived
            THEN {Asleep!Session!Save([also EXCEPT !.arrived = d[also.obs], !.mode = "CYCLING"])}
            ELSE {also})
    BY DEF Asleep!Session!Watched, Asleep!Session!Absent
  <2> HIDE DEF seen, late
  <2>3. told = also
    BY <1>3
  <2>4. OneStatic!Wrappers(d) = Asleep!Session!Wrappers(d)
    BY DEF OneStatic!Wrappers, Asleep!Session!Wrappers, OneStatic!Absent, Asleep!Session!Absent
  <2> HIDE DEF told, also
  <2> QED
    BY <1>4, <1>5, <2>1, <2>2, <2>3, <2>4
<1>7. ASSUME NEW t, NEW d PROVE OneStatic!Loads(t, d) = Asleep!Session!Loads(t, d)
  BY Zenon, <1>5 DEF OneStatic!Loads, Asleep!Session!Loads, OneStatic!Blank, Asleep!Session!Blank,
         OneStatic!Wrappers, Asleep!Session!Wrappers, OneStatic!Nothing,
         Asleep!Session!Nothing, OneStatic!Absent, Asleep!Session!Absent
<1>8. OneStatic!Discard <=> Asleep!Session!Discard
  BY DEF OneStatic!Discard, Asleep!Session!Discard, OneStatic!Press, Asleep!Session!Press,
         OneStatic!Cardinality, Asleep!Session!Cardinality
<1>9. ASSUME NEW x PROVE OneStatic!ReadAnswered(x) <=> Asleep!Session!ReadAnswered(x)
  BY ZenonT(30), <1>6 DEF OneStatic!ReadAnswered, Asleep!Session!ReadAnswered, OneStatic!ReadHmr,
         Asleep!Session!ReadHmr, OneStatic!ReadStatic, Asleep!Session!ReadStatic,
         OneStatic!Injected, Asleep!Session!Injected, OneStatic!RecoverEmpty,
         Asleep!Session!RecoverEmpty, OneStatic!Absent, Asleep!Session!Absent,
         OneStatic!DiscardOrphan, Asleep!Session!DiscardOrphan, OneStatic!Save,
         Asleep!Session!Save, OneStatic!Cleanup, Asleep!Session!Cleanup, OneStatic!Handle,
         Asleep!Session!Handle, OneStatic!Nothing, Asleep!Session!Nothing
<1>10. ASSUME NEW x PROVE OneStatic!Expire(x) <=> Asleep!Session!Expire(x)
  BY DEF OneStatic!Expire, Asleep!Session!Expire, OneStatic!Superseded,
         Asleep!Session!Superseded, OneStatic!ReloadKinds, Asleep!Session!ReloadKinds,
         OneStatic!Absent, Asleep!Session!Absent
<1>11. OneStatic!User <=> Asleep!Session!User
  BY <1>6, <1>7, <1>8 DEF OneStatic!User, Asleep!Session!User, OneStatic!Pick, Asleep!Session!Pick,
         OneStatic!Unpick, Asleep!Session!Unpick, OneStatic!Accept, Asleep!Session!Accept,
         OneStatic!Reload, Asleep!Session!Reload, OneStatic!Unmount, Asleep!Session!Unmount,
         OneStatic!Go, Asleep!Session!Go, OneStatic!Outdate, Asleep!Session!Outdate,
         OneStatic!Press, Asleep!Session!Press, OneStatic!Save, Asleep!Session!Save,
         OneStatic!LoadPage, Asleep!Session!LoadPage, OneStatic!Absent, Asleep!Session!Absent,
         OneStatic!Fresh, Asleep!Session!Fresh, OneStatic!server, Asleep!Session!server
<1>12. OneStatic!Answers <=> Asleep!Session!Answers
  BY ZenonT(30)
     DEF OneStatic!Answers, Asleep!Session!Answers, OneStatic!CaptureEnds,
         Asleep!Session!CaptureEnds, OneStatic!GenerateAnswered,
         Asleep!Session!GenerateAnswered, OneStatic!AcceptAnswered,
         Asleep!Session!AcceptAnswered, OneStatic!DiscardAnswered,
         Asleep!Session!DiscardAnswered, OneStatic!Checkpoint, Asleep!Session!Checkpoint,
         OneStatic!PostArrives, Asleep!Session!PostArrives, OneStatic!AcceptOk,
         Asleep!Session!AcceptOk, OneStatic!AcceptRefused, Asleep!Session!AcceptRefused,
         OneStatic!Cleanup, Asleep!Session!Cleanup, OneStatic!Handle,
         Asleep!Session!Handle, OneStatic!GateOpen, Asleep!Session!GateOpen,
         OneStatic!CleanupAccepted, Asleep!Session!CleanupAccepted, OneStatic!RecoverEmpty,
         Asleep!Session!RecoverEmpty, OneStatic!Nothing, Asleep!Session!Nothing,
         OneStatic!Absent, Asleep!Session!Absent, OneStatic!ScheduleReload,
         Asleep!Session!ScheduleReload, OneStatic!Superseded, Asleep!Session!Superseded,
         OneStatic!Tries, Asleep!Session!Tries, OneStatic!Save, Asleep!Session!Save,
         OneStatic!Queue, Asleep!Session!Queue
<1>12a. OneStatic!Agent <=> Asleep!Session!Agent
  BY ZenonT(30)
     DEF OneStatic!Agent, Asleep!Session!Agent, OneStatic!AgentWrites,
         Asleep!Session!AgentWrites, OneStatic!AgentDone, Asleep!Session!AgentDone,
         OneStatic!AgentFails, Asleep!Session!AgentFails, OneStatic!AcceptDone,
         Asleep!Session!AcceptDone, OneStatic!AcceptFails, Asleep!Session!AcceptFails,
         OneStatic!LateAgentDone, Asleep!Session!LateAgentDone, OneStatic!DiscardDone,
         Asleep!Session!DiscardDone, OneStatic!OnDone, Asleep!Session!OnDone,
         OneStatic!OnError, Asleep!Session!OnError, OneStatic!OnComplete,
         Asleep!Session!OnComplete, OneStatic!OnAgentDone, Asleep!Session!OnAgentDone,
         OneStatic!CleanupAccepted, Asleep!Session!CleanupAccepted, OneStatic!Cleanup,
         Asleep!Session!Cleanup, OneStatic!Handle, Asleep!Session!Handle,
         OneStatic!Nothing, Asleep!Session!Nothing, OneStatic!Absent,
         Asleep!Session!Absent, OneStatic!ScheduleReload, Asleep!Session!ScheduleReload,
         OneStatic!Superseded, Asleep!Session!Superseded, OneStatic!Tries,
         Asleep!Session!Tries, OneStatic!Save, Asleep!Session!Save, OneStatic!Queue,
         Asleep!Session!Queue, OneStatic!RecoverEmpty, Asleep!Session!RecoverEmpty,
         OneStatic!GateOpen, Asleep!Session!GateOpen
<1>12b. OneStatic!Stream <=> Asleep!Session!Stream
  BY SMTT(60)
     DEF OneStatic!Stream, Asleep!Session!Stream, OneStatic!Connect,
         Asleep!Session!Connect, OneStatic!Drop, Asleep!Session!Drop, OneStatic!ServerLost,
         Asleep!Session!ServerLost, OneStatic!Wrappers, Asleep!Session!Wrappers,
         OneStatic!Restores, Asleep!Session!Restores, OneStatic!Active,
         Asleep!Session!Active, OneStatic!RecoverMissed, Asleep!Session!RecoverMissed,
         OneStatic!Save, Asleep!Session!Save, OneStatic!Restored, Asleep!Session!Restored,
         OneStatic!Candidates, Asleep!Session!Candidates, OneStatic!Queue,
         Asleep!Session!Queue, OneStatic!Absent, Asleep!Session!Absent, OneStatic!Nothing,
         Asleep!Session!Nothing, OneStatic!Superseded, Asleep!Session!Superseded,
         OneStatic!Tries, Asleep!Session!Tries, OneStatic!Cleanup, Asleep!Session!Cleanup,
         OneStatic!Handle, Asleep!Session!Handle
<1>13. OneStatic!Page <=> Asleep!Session!Page
  BY <1>6, <1>7, <1>9, <1>10
     DEF OneStatic!Page, Asleep!Session!Page, OneStatic!Mutate, Asleep!Session!Mutate,
         OneStatic!ReadFails, Asleep!Session!ReadFails, OneStatic!ReloadTimer,
         Asleep!Session!ReloadTimer, OneStatic!ReloadKinds, Asleep!Session!ReloadKinds,
         OneStatic!Superseded, Asleep!Session!Superseded, OneStatic!Absent,
         Asleep!Session!Absent, OneStatic!LoadPage, Asleep!Session!LoadPage, OneStatic!server,
         Asleep!Session!server
<1>14. OneStatic!Next <=> Asleep!Session!Next
  BY <1>11, <1>12, <1>12a, <1>12b, <1>13 DEF OneStatic!Next, Asleep!Session!Next
<1> QED
  BY <1>1, <1>2, <1>14,
     Asleep!SessionInit, Asleep!SessionKept, Asleep!SessionSound
     DEF EndedStaysEnded, Static!EndedStaysEnded, Asleep!Session!EndedStaysEnded

LEMMA TwoTargetsKeeps ==
  /\ TwoTargets!Init => Lossless!Sale
  /\ Lossless!Sale /\ (TwoTargets!Next \/ UNCHANGED targetVars) => Lossless!Sale'
  /\ Lossless!Sale => TwoTargets!TypeOK /\ OneGo
<1>1. /\ Lossless!Target!Assumption
      /\ (UNCHANGED targetVars => UNCHANGED Lossless!Target!vars)
      /\ (Lossless!Target!TypeOK => TwoTargets!TypeOK)
      /\ Lossless!OneCopy
      /\ (Lossless!Target!OneGo => OneGo)
  BY ConstantsAreSound DEF TwoTargets!Assumption, Lossless!Target!Assumption, TwoTargets!IsFiniteSet,
         Lossless!Target!IsFiniteSet, targetVars, Lossless!Target!vars, TwoTargets!TypeOK,
         Lossless!Target!TypeOK, TwoTargets!SessionIds, Lossless!Target!SessionIds,
         TwoTargets!UserSession, Lossless!Target!UserSession, TwoTargets!Possible,
         Lossless!Target!Possible, Lossless!OneCopy, OneGo, Lapses!OneGo,
         Lossless!Target!OneGo
<1>2. TwoTargets!Init <=> Lossless!Target!Init
  BY DEF TwoTargets!Init, Lossless!Target!Init, TwoTargets!Fresh, Lossless!Target!Fresh
<1>3. TwoTargets!Next <=> Lossless!Target!Next
  BY ZenonT(30) DEF TwoTargets!Next, Lossless!Target!Next, TwoTargets!Step, Lossless!Target!Step,
         TwoTargets!Helper, Lossless!Target!Helper, TwoTargets!Page, Lossless!Target!Page,
         TwoTargets!Hear, Lossless!Target!Hear, TwoTargets!Claim, Lossless!Target!Claim,
         TwoTargets!Asked, Lossless!Target!Asked, TwoTargets!Denied, Lossless!Target!Denied,
         TwoTargets!Granted, Lossless!Target!Granted, TwoTargets!Scrolled,
         Lossless!Target!Scrolled, TwoTargets!StandsDown, Lossless!Target!StandsDown,
         TwoTargets!Throws, Lossless!Target!Throws, TwoTargets!Go, Lossless!Target!Go,
         TwoTargets!Missed, Lossless!Target!Missed, TwoTargets!Watch, Lossless!Target!Watch,
         TwoTargets!Request, Lossless!Target!Request, TwoTargets!NoMatch,
         Lossless!Target!NoMatch, TwoTargets!Lapse, Lossless!Target!Lapse,
         TwoTargets!TimesOut, Lossless!Target!TimesOut, TwoTargets!ResultArrives,
         Lossless!Target!ResultArrives, TwoTargets!Captured, Lossless!Target!Captured,
         TwoTargets!GenerateArrives, Lossless!Target!GenerateArrives, TwoTargets!Refused,
         Lossless!Target!Refused, TwoTargets!Drop, Lossless!Target!Drop, TwoTargets!Connect,
         Lossless!Target!Connect, TwoTargets!Reload, Lossless!Target!Reload, TwoTargets!Leave,
         Lossless!Target!Leave, TwoTargets!UserGo, Lossless!Target!UserGo,
         TwoTargets!SessionEnds, Lossless!Target!SessionEnds, TwoTargets!Apply,
         Lossless!Target!Apply, TwoTargets!Applied, Lossless!Target!Applied,
         TwoTargets!Render, Lossless!Target!Render, TwoTargets!Note, Lossless!Target!Note,
         TwoTargets!Started, Lossless!Target!Started, TwoTargets!Busy, Lossless!Target!Busy,
         TwoTargets!DeclineBusy, Lossless!Target!DeclineBusy, TwoTargets!Claims,
         Lossless!Target!Claims, TwoTargets!Claimed, Lossless!Target!Claimed,
         TwoTargets!Reported, Lossless!Target!Reported, TwoTargets!Answer,
         Lossless!Target!Answer, TwoTargets!Onward, Lossless!Target!Onward, TwoTargets!Live,
         Lossless!Target!Live, TwoTargets!Pending, Lossless!Target!Pending,
         TwoTargets!Connected, Lossless!Target!Connected, TwoTargets!OnTheWay,
         Lossless!Target!OnTheWay, TwoTargets!Fault, Lossless!Target!Fault,
         TwoTargets!Settled, Lossless!Target!Settled, TwoTargets!Become,
         Lossless!Target!Become, TwoTargets!Closed, Lossless!Target!Closed, TwoTargets!Fresh,
         Lossless!Target!Fresh, TwoTargets!UserSession, Lossless!Target!UserSession,
         TwoTargets!Chain, Lossless!Target!Chain, TwoTargets!ClaimTab,
         Lossless!Target!ClaimTab, TwoTargets!ClaimAsks, Lossless!Target!ClaimAsks
<1> QED
  BY <1>1, <1>2, <1>3,
     Lossless!SaleInit, Lossless!SaleKept, Lossless!SaleTypes

LEMMA LapsesKeeps ==
  /\ Lapses!Init => Lossy!Sale
  /\ Lossy!Sale /\ (Lapses!Next \/ UNCHANGED targetVars) => Lossy!Sale'
  /\ Lossy!Sale => Lapses!TypeOK /\ OneGo
<1>1. /\ Lossy!Target!Assumption
      /\ (UNCHANGED targetVars => UNCHANGED Lossy!Target!vars)
      /\ (Lossy!Target!TypeOK => Lapses!TypeOK)
      /\ Lossy!OneCopy
      /\ (Lossy!Target!OneGo => OneGo)
  BY ConstantsAreSound DEF Lapses!Assumption, Lossy!Target!Assumption, Lapses!IsFiniteSet,
         Lossy!Target!IsFiniteSet, targetVars, Lossy!Target!vars, Lapses!TypeOK,
         Lossy!Target!TypeOK, Lapses!SessionIds, Lossy!Target!SessionIds, Lapses!UserSession,
         Lossy!Target!UserSession, Lapses!Possible, Lossy!Target!Possible, Lossy!OneCopy,
         OneGo, Lapses!OneGo, Lossy!Target!OneGo
<1>2. Lapses!Init <=> Lossy!Target!Init
  BY DEF Lapses!Init, Lossy!Target!Init, Lapses!Fresh, Lossy!Target!Fresh
<1>3. Lapses!Next <=> Lossy!Target!Next
  BY ZenonT(30) DEF Lapses!Next, Lossy!Target!Next, Lapses!Step, Lossy!Target!Step, Lapses!Helper,
         Lossy!Target!Helper, Lapses!Page, Lossy!Target!Page, Lapses!Hear, Lossy!Target!Hear,
         Lapses!Claim, Lossy!Target!Claim, Lapses!Asked, Lossy!Target!Asked, Lapses!Denied,
         Lossy!Target!Denied, Lapses!Granted, Lossy!Target!Granted, Lapses!Scrolled,
         Lossy!Target!Scrolled, Lapses!StandsDown, Lossy!Target!StandsDown, Lapses!Throws,
         Lossy!Target!Throws, Lapses!Go, Lossy!Target!Go, Lapses!Missed, Lossy!Target!Missed,
         Lapses!Watch, Lossy!Target!Watch, Lapses!Request, Lossy!Target!Request,
         Lapses!NoMatch, Lossy!Target!NoMatch, Lapses!Lapse, Lossy!Target!Lapse,
         Lapses!TimesOut, Lossy!Target!TimesOut, Lapses!ResultArrives,
         Lossy!Target!ResultArrives, Lapses!Captured, Lossy!Target!Captured,
         Lapses!GenerateArrives, Lossy!Target!GenerateArrives, Lapses!Refused,
         Lossy!Target!Refused, Lapses!Drop, Lossy!Target!Drop, Lapses!Connect,
         Lossy!Target!Connect, Lapses!Reload, Lossy!Target!Reload, Lapses!Leave,
         Lossy!Target!Leave, Lapses!UserGo, Lossy!Target!UserGo, Lapses!SessionEnds,
         Lossy!Target!SessionEnds, Lapses!Apply, Lossy!Target!Apply, Lapses!Applied,
         Lossy!Target!Applied, Lapses!Render, Lossy!Target!Render, Lapses!Note,
         Lossy!Target!Note, Lapses!Started, Lossy!Target!Started, Lapses!Busy,
         Lossy!Target!Busy, Lapses!DeclineBusy, Lossy!Target!DeclineBusy, Lapses!Claims,
         Lossy!Target!Claims, Lapses!Claimed, Lossy!Target!Claimed, Lapses!Reported,
         Lossy!Target!Reported, Lapses!Answer, Lossy!Target!Answer, Lapses!Onward,
         Lossy!Target!Onward, Lapses!Live, Lossy!Target!Live, Lapses!Pending,
         Lossy!Target!Pending, Lapses!Connected, Lossy!Target!Connected, Lapses!OnTheWay,
         Lossy!Target!OnTheWay, Lapses!Fault, Lossy!Target!Fault, Lapses!Settled,
         Lossy!Target!Settled, Lapses!Become, Lossy!Target!Become, Lapses!Closed,
         Lossy!Target!Closed, Lapses!Fresh, Lossy!Target!Fresh, Lapses!UserSession,
         Lossy!Target!UserSession, Lapses!Chain, Lossy!Target!Chain, Lapses!ClaimTab,
         Lossy!Target!ClaimTab, Lapses!ClaimAsks, Lossy!Target!ClaimAsks
<1> QED
  BY <1>1, <1>2, <1>3,
     Lossy!SaleInit, Lossy!SaleKept, Lossy!SaleTypes

LEMMA HoldersKeeps ==
  /\ Holders!Init => Clicks!Sale
  /\ Clicks!Sale /\ (Holders!Next \/ UNCHANGED targetVars) => Clicks!Sale'
  /\ Clicks!Sale => Holders!TypeOK /\ OneGo
<1>1. /\ Clicks!Target!Assumption
      /\ (UNCHANGED targetVars => UNCHANGED Clicks!Target!vars)
      /\ (Clicks!Target!TypeOK => Holders!TypeOK)
      /\ Clicks!OneCopy
      /\ (Clicks!Target!OneGo => OneGo)
  BY ConstantsAreSound DEF Holders!Assumption, Clicks!Target!Assumption, Holders!IsFiniteSet,
         Clicks!Target!IsFiniteSet, targetVars, Clicks!Target!vars, Holders!TypeOK,
         Clicks!Target!TypeOK, Holders!SessionIds, Clicks!Target!SessionIds,
         Holders!UserSession, Clicks!Target!UserSession, Holders!Possible,
         Clicks!Target!Possible, Clicks!OneCopy, OneGo, Lapses!OneGo, Clicks!Target!OneGo
<1>2. Holders!Init <=> Clicks!Target!Init
  BY DEF Holders!Init, Clicks!Target!Init, Holders!Fresh, Clicks!Target!Fresh
<1>3. Holders!Next <=> Clicks!Target!Next
  BY ZenonT(30) DEF Holders!Next, Clicks!Target!Next, Holders!Step, Clicks!Target!Step, Holders!Helper,
         Clicks!Target!Helper, Holders!Page, Clicks!Target!Page, Holders!Hear,
         Clicks!Target!Hear, Holders!Claim, Clicks!Target!Claim, Holders!Asked,
         Clicks!Target!Asked, Holders!Denied, Clicks!Target!Denied, Holders!Granted,
         Clicks!Target!Granted, Holders!Scrolled, Clicks!Target!Scrolled, Holders!StandsDown,
         Clicks!Target!StandsDown, Holders!Throws, Clicks!Target!Throws, Holders!Go,
         Clicks!Target!Go, Holders!Missed, Clicks!Target!Missed, Holders!Watch,
         Clicks!Target!Watch, Holders!Request, Clicks!Target!Request, Holders!NoMatch,
         Clicks!Target!NoMatch, Holders!Lapse, Clicks!Target!Lapse, Holders!TimesOut,
         Clicks!Target!TimesOut, Holders!ResultArrives, Clicks!Target!ResultArrives,
         Holders!Captured, Clicks!Target!Captured, Holders!GenerateArrives,
         Clicks!Target!GenerateArrives, Holders!Refused, Clicks!Target!Refused, Holders!Drop,
         Clicks!Target!Drop, Holders!Connect, Clicks!Target!Connect, Holders!Reload,
         Clicks!Target!Reload, Holders!Leave, Clicks!Target!Leave, Holders!UserGo,
         Clicks!Target!UserGo, Holders!SessionEnds, Clicks!Target!SessionEnds, Holders!Apply,
         Clicks!Target!Apply, Holders!Applied, Clicks!Target!Applied, Holders!Render,
         Clicks!Target!Render, Holders!Note, Clicks!Target!Note, Holders!Started,
         Clicks!Target!Started, Holders!Busy, Clicks!Target!Busy, Holders!DeclineBusy,
         Clicks!Target!DeclineBusy, Holders!Claims, Clicks!Target!Claims, Holders!Claimed,
         Clicks!Target!Claimed, Holders!Reported, Clicks!Target!Reported, Holders!Answer,
         Clicks!Target!Answer, Holders!Onward, Clicks!Target!Onward, Holders!Live,
         Clicks!Target!Live, Holders!Pending, Clicks!Target!Pending, Holders!Connected,
         Clicks!Target!Connected, Holders!OnTheWay, Clicks!Target!OnTheWay, Holders!Fault,
         Clicks!Target!Fault, Holders!Settled, Clicks!Target!Settled, Holders!Become,
         Clicks!Target!Become, Holders!Closed, Clicks!Target!Closed, Holders!Fresh,
         Clicks!Target!Fresh, Holders!UserSession, Clicks!Target!UserSession, Holders!Chain,
         Clicks!Target!Chain, Holders!ClaimTab, Clicks!Target!ClaimTab, Holders!ClaimAsks,
         Clicks!Target!ClaimAsks
<1> QED
  BY <1>1, <1>2, <1>3,
     Clicks!SaleInit, Clicks!SaleKept, Clicks!SaleTypes

LEMMA FrozenKeeps ==
  /\ Frozen!Init => Asleep!TargetTyped
  /\ Asleep!TargetTyped /\ (Frozen!Next \/ UNCHANGED targetVars) => Asleep!TargetTyped'
  /\ Asleep!TargetTyped => Frozen!TypeOK
<1>1. /\ Asleep!Target!Assumption
      /\ (UNCHANGED targetVars => UNCHANGED Asleep!Target!vars)
      /\ (Asleep!Target!TypeOK => Frozen!TypeOK)
  BY ConstantsAreSound DEF Frozen!Assumption, Asleep!Target!Assumption, Frozen!IsFiniteSet,
         Asleep!Target!IsFiniteSet, targetVars, Asleep!Target!vars, Frozen!TypeOK,
         Asleep!Target!TypeOK, Frozen!SessionIds, Asleep!Target!SessionIds,
         Frozen!UserSession, Asleep!Target!UserSession, Frozen!Possible,
         Asleep!Target!Possible
<1>2. Frozen!Init <=> Asleep!Target!Init
  BY DEF Frozen!Init, Asleep!Target!Init, Frozen!Fresh, Asleep!Target!Fresh
<1>3. Frozen!Next <=> Asleep!Target!Next
  BY ZenonT(30) DEF Frozen!Next, Asleep!Target!Next, Frozen!Step, Asleep!Target!Step, Frozen!Helper,
         Asleep!Target!Helper, Frozen!Page, Asleep!Target!Page, Frozen!Hear,
         Asleep!Target!Hear, Frozen!Claim, Asleep!Target!Claim, Frozen!Asked,
         Asleep!Target!Asked, Frozen!Denied, Asleep!Target!Denied, Frozen!Granted,
         Asleep!Target!Granted, Frozen!Scrolled, Asleep!Target!Scrolled, Frozen!StandsDown,
         Asleep!Target!StandsDown, Frozen!Throws, Asleep!Target!Throws, Frozen!Go,
         Asleep!Target!Go, Frozen!Missed, Asleep!Target!Missed, Frozen!Watch,
         Asleep!Target!Watch, Frozen!Request, Asleep!Target!Request, Frozen!NoMatch,
         Asleep!Target!NoMatch, Frozen!Lapse, Asleep!Target!Lapse, Frozen!TimesOut,
         Asleep!Target!TimesOut, Frozen!ResultArrives, Asleep!Target!ResultArrives,
         Frozen!Captured, Asleep!Target!Captured, Frozen!GenerateArrives,
         Asleep!Target!GenerateArrives, Frozen!Refused, Asleep!Target!Refused, Frozen!Drop,
         Asleep!Target!Drop, Frozen!Connect, Asleep!Target!Connect, Frozen!Reload,
         Asleep!Target!Reload, Frozen!Leave, Asleep!Target!Leave, Frozen!UserGo,
         Asleep!Target!UserGo, Frozen!SessionEnds, Asleep!Target!SessionEnds, Frozen!Apply,
         Asleep!Target!Apply, Frozen!Applied, Asleep!Target!Applied, Frozen!Render,
         Asleep!Target!Render, Frozen!Note, Asleep!Target!Note, Frozen!Started,
         Asleep!Target!Started, Frozen!Busy, Asleep!Target!Busy, Frozen!DeclineBusy,
         Asleep!Target!DeclineBusy, Frozen!Claims, Asleep!Target!Claims, Frozen!Claimed,
         Asleep!Target!Claimed, Frozen!Reported, Asleep!Target!Reported, Frozen!Answer,
         Asleep!Target!Answer, Frozen!Onward, Asleep!Target!Onward, Frozen!Live,
         Asleep!Target!Live, Frozen!Pending, Asleep!Target!Pending, Frozen!Connected,
         Asleep!Target!Connected, Frozen!OnTheWay, Asleep!Target!OnTheWay, Frozen!Fault,
         Asleep!Target!Fault, Frozen!Settled, Asleep!Target!Settled, Frozen!Become,
         Asleep!Target!Become, Frozen!Closed, Asleep!Target!Closed, Frozen!Fresh,
         Asleep!Target!Fresh, Frozen!UserSession, Asleep!Target!UserSession, Frozen!Chain,
         Asleep!Target!Chain, Frozen!ClaimTab, Asleep!Target!ClaimTab, Frozen!ClaimAsks,
         Asleep!Target!ClaimAsks
<1> QED
  BY <1>1, <1>2, <1>3,
     Asleep!TypedInit, Asleep!TypedKept, Asleep!TypedIsTypeOK

-----------------------------------------------------------------------------
(* The invariant of the parts: a part that is not the chosen one is as the *)
(* first of its component was.                                             *)

ChatsSound ==
  /\ part = "silent" => Lossy!ChatInv
  /\ part # "silent" => Lossless!ChatInv

EditsSound ==
  /\ part = "staging" => Lossy!EditsInv
  /\ part = "applying" => ApplyLock
  /\ part \notin {"staging", "applying"} => Clicks!EditsInv

SessionsSound ==
  /\ part = "static" => Lossy!SessionInv
  /\ part = "one framework" => Clicks!SessionInv
  /\ part = "one static" => Asleep!SessionInv
  /\ part \notin {"static", "one framework", "one static"} => Lossless!SessionInv

TargetsSound ==
  /\ part = "two targets" => Lossless!Sale
  /\ part = "holders" => Clicks!Sale
  /\ part = "frozen" => Asleep!TargetTyped
  /\ part \notin {"two targets", "holders", "frozen"} => Lossy!Sale

LiveInv == part \in Parts /\ ChatsSound /\ EditsSound /\ SessionsSound /\ TargetsSound

LEMMA LiveInit == Init => LiveInv
<1> SUFFICES ASSUME Init PROVE LiveInv
  OBVIOUS
<1>1. Chat!Init <=> Silent!Init
  BY DEF Chat!Init, Silent!Init, Chat!NoVoice, Silent!NoVoice
<1>2. Static!Init <=> Framework!Init
  BY DEF Static!Init, Framework!Init, Static!Blank, Framework!Blank, Static!Absent,
         Framework!Absent, Static!Nothing, Framework!Nothing
<1>3. OneStatic!Init <=> OneFramework!Init
  BY DEF OneStatic!Init, OneFramework!Init, OneStatic!Blank, OneFramework!Blank,
         OneStatic!Absent, OneFramework!Absent, OneStatic!Nothing, OneFramework!Nothing
<1>4. Holders!Init <=> Lapses!Init
  BY DEF Holders!Init, Lapses!Init, Holders!Fresh, Lapses!Fresh
<1>5. Frozen!Init <=> Lapses!Init
  BY DEF Frozen!Init, Lapses!Init, Frozen!Fresh, Lapses!Fresh
<1>6. ChatsSound
  BY Zenon, <1>1, ChatKeeps, SilentKeeps DEF Init, ChatsSound
<1>7. EditsSound
  BY Zenon, StagingKeeps, ApplyingKeeps, TwoClicksKeeps DEF Init, EditsSound
<1>8. SessionsSound
  BY Zenon, <1>2, <1>3, FrameworkKeeps, StaticKeeps, OneFrameworkKeeps, OneStaticKeeps
     DEF Init, SessionsSound
<1>9. TargetsSound
  BY Zenon, <1>4, <1>5, TwoTargetsKeeps, LapsesKeeps, HoldersKeeps, FrozenKeeps DEF Init, TargetsSound
<1> QED
  BY Zenon, <1>6, <1>7, <1>8, <1>9 DEF Init, LiveInv

\* A step of the system is a step of the chosen part, or leaves the component alone.
LEMMA ChatsNext == ChatsSound /\ [Next]_vars => ChatsSound'
<1>1. [Next]_vars =>
        /\ part' = part
        /\ \/ UNCHANGED steerVars
           \/ part = "chat" /\ Chat!Next
           \/ part = "silent" /\ Silent!Next
  BY Zenon DEF Next, vars, Session, Manual, Steers, Target
<1> QED
  BY <1>1, ChatKeeps, SilentKeeps DEF ChatsSound

LEMMA EditsNext == EditsSound /\ [Next]_vars => EditsSound'
<1>1. [Next]_vars =>
        /\ part' = part
        /\ \/ UNCHANGED manualVars
           \/ part = "staging" /\ Staging!Next
           \/ part = "applying" /\ Applying!Next
           \/ part = "two clicks" /\ TwoClicks!Next
  BY Zenon DEF Next, vars, Session, Manual, Steers, Target
<1> QED
  BY Zenon, <1>1, StagingKeeps, ApplyingKeeps, TwoClicksKeeps DEF EditsSound

LEMMA SessionsNext == SessionsSound /\ [Next]_vars => SessionsSound'
<1>1. [Next]_vars =>
        /\ part' = part
        /\ \/ UNCHANGED sessionVars
           \/ part = "framework" /\ Framework!Next
           \/ part = "static" /\ Static!Next
           \/ part = "one framework" /\ OneFramework!Next
           \/ part = "one static" /\ OneStatic!Next
  BY Zenon DEF Next, vars, Session, Manual, Steers, Target
<1> QED
  BY Zenon, <1>1, FrameworkKeeps, StaticKeeps, OneFrameworkKeeps, OneStaticKeeps DEF SessionsSound

LEMMA TargetsNext == TargetsSound /\ [Next]_vars => TargetsSound'
<1>1. [Next]_vars =>
        /\ part' = part
        /\ \/ UNCHANGED targetVars
           \/ part = "two targets" /\ TwoTargets!Next
           \/ part = "lapses" /\ Lapses!Next
           \/ part = "holders" /\ Holders!Next
           \/ part = "frozen" /\ Frozen!Next
  BY Zenon DEF Next, vars, Session, Manual, Steers, Target
<1> QED
  BY Zenon, <1>1, TwoTargetsKeeps, LapsesKeeps, HoldersKeeps, FrozenKeeps DEF TargetsSound

LEMMA LiveNext == LiveInv /\ [Next]_vars => LiveInv'
<1>1. [Next]_vars => part' = part
  BY Zenon DEF Next, vars, Session, Manual, Steers, Target
<1> QED
  BY <1>1, ChatsNext, EditsNext, SessionsNext, TargetsNext DEF LiveInv

\* What the invariant shows of the chosen part, and of the components that wait.
LEMMA LiveShows ==
  ASSUME LiveInv
  PROVE  /\ TypeOK /\ LocksAreOwned /\ HiddenIsNotPicked
         /\ part # "frozen" => DoneStaysDone
<1>1. /\ LockHasTimer /\ VoiceHasItsInput
      /\ (part = "chat" => Chat!TypeOK) /\ (part = "silent" => Silent!TypeOK)
  BY ChatKeeps, SilentKeeps DEF LiveInv, ChatsSound
<1>2. /\ HiddenIsNotPicked /\ (part = "applying" => LockedIsApplying) /\ (part = "staging" => Staging!TypeOK)
      /\ (part = "applying" => Applying!TypeOK) /\ (part = "two clicks" => TwoClicks!TypeOK)
  BY Zenon, StagingKeeps, ApplyingKeeps, TwoClicksKeeps DEF LiveInv, EditsSound
<1>3. /\ EndedStaysEnded
      /\ (part = "framework" => Framework!TypeOK) /\ (part = "static" => Static!TypeOK)
      /\ (part = "one framework" => OneFramework!TypeOK) /\ (part = "one static" => OneStatic!TypeOK)
  BY Zenon, FrameworkKeeps, StaticKeeps, OneFrameworkKeeps, OneStaticKeeps DEF LiveInv, SessionsSound
<1>4. /\ (part # "frozen" => OneGo)
      /\ (part = "two targets" => TwoTargets!TypeOK) /\ (part = "lapses" => Lapses!TypeOK)
      /\ (part = "holders" => Holders!TypeOK) /\ (part = "frozen" => Frozen!TypeOK)
  BY Zenon, TwoTargetsKeeps, LapsesKeeps, HoldersKeeps, FrozenKeeps DEF LiveInv, TargetsSound
<1>5. TypeOK
  BY Zenon, <1>1, <1>2, <1>3, <1>4 DEF LiveInv, TypeOK
<1>6. LocksAreOwned
  BY Zenon, <1>1, <1>2 DEF LocksAreOwned, LockedIsApplying
<1> QED
  BY Zenon, <1>2, <1>3, <1>4, <1>5, <1>6 DEF DoneStaysDone

\* Every variable of the chosen part keeps its type: the tab's records, its requests and
\* timers, the helper's journal and leases (live-browser.js 1246, 4590, 7520, 9957).
THEOREM LiveTypes == Spec => []TypeOK
<1>1. LiveInv => TypeOK
  BY LiveShows
<1> QED
  BY <1>1, LiveInit, LiveNext, PTL DEF Spec

\* What locks the tab has its cause, in every part: an apply at the helper, a message with
\* its own timer, the input the microphone was opened for (live-browser.js 1246, 4590-4595,
\* 11180).
THEOREM LocksStayOwned == Spec => []LocksAreOwned
<1>1. LiveInv => LocksAreOwned
  BY LiveShows
<1> QED
  BY <1>1, LiveInit, LiveNext, PTL DEF Spec

\* A hidden element is never the picked one, in every part (live-browser.js 3968).
THEOREM HiddenStays == Spec => []HiddenIsNotPicked
<1>1. LiveInv => HiddenIsNotPicked
  BY LiveShows
<1> QED
  BY <1>1, LiveInit, LiveNext, PTL DEF Spec

\* What is over is not taken up again, in every part: an ended session, a hidden element,
\* a target that has been acted on, as long as no tab is frozen between the renewal of
\* its lease and its Go (live-browser.js 3968, 7755-7757, 10024).
THEOREM DoneIsDone ==
  ASSUME "frozen" \notin Parts
  PROVE  Spec => []DoneStaysDone
<1>1. LiveInv => DoneStaysDone
  BY LiveShows DEF LiveInv
<1> QED
  BY <1>1, LiveInit, LiveNext, PTL DEF Spec
=============================================================================
