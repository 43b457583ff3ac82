---------------------------- MODULE RoundMemory -----------------------------
(***************************************************************************)
(* What a task remembers from round to round, in three stores that are     *)
(* written one after the other: the record (conversation ledger, plan      *)
(* version and hash; tasks.json behind it), the checkpoint (the messages   *)
(* the model is sent and the plan the round works with) and the plan file  *)
(* of the workspace.  One task, whose rounds do not overlap: that is the   *)
(* matter of module TaskRuns.  A hash stands for the text it was taken of. *)
(***************************************************************************)
EXTENDS Naturals, FiniteSets, SequencesExt

CONSTANTS
  Texts,       \* the non-empty plans somebody may write
  Answers,     \* the answers of the model, as texts
  MaxSteps,    \* settings.max_steps
  MayLock,     \* may the plan file be unreadable for a moment (PlanIOError)?
  MaxSaid,     \* bound: the user turns of the task
  MaxRounds,   \* bound: rounds that are started
  MaxEdits,    \* bound: edits of the plan by hand
  MaxTroubles  \* bound: lost saves, failed set-ups and nodes, crashes

ASSUME MemoryAssumption ==
  /\ "none" \notin Texts /\ "unset" \notin Texts
  /\ MaxSteps \in Nat \ {0} /\ MayLock \in BOOLEAN
  /\ MaxSaid \in Nat \ {0} /\ {MaxRounds, MaxEdits, MaxTroubles} \subseteq Nat

VARIABLES
  record,   \* the live record: conversation, plan_version, plan_hash
  disk,     \* the same fields in tasks.json
  file,     \* the plan file's text, "none" when there is none
  ckpt,     \* the checkpoint: messages, plan_text, plan_version, plan_hash
  phase,    \* "parked", "claimed", "agent", "finish"
  status,   \* INTERRUPTED or FAILED once parked
  said,     \* user_text of the continuation that was claimed, 0 for a resume
  calls,    \* state["round_steps"]
  final,    \* the round's state["final_answer"], as the turn it shows as
  heard,    \* history: the user turns that have entered the model's messages
  blind,    \* history: the round could not seed its plan
  shrunk,   \* history: the context was compressed before the round's last call
  drift,    \* history: the file was changed behind the record's back
  used      \* bounds: what has been spent of them

vars == <<record, disk, file, ckpt, phase, status, said, calls, final, heard, blind,
          shrunk, drift, used>>

Turn(r, x) == [role |-> r, what |-> x]
User(n)    == Turn("user", n)
Note(v)    == Turn("note", v)
NoTurn     == Turn("none", 0)
IsNote(t)  == t.role = "note"
IsSpoken(t) == t.role \in {"answer", "note"}
IsUser(t)  == t.role = "user"
UserTurns(s) == {s[k].what : k \in {k \in DOMAIN s : IsUser(s[k])}}

TextOf(hash) == IF hash = "unset" THEN "none" ELSE hash

Spend(b) == used' = [used EXCEPT ![b] = @ + 1]
Limit == [rounds |-> MaxRounds, edits |-> MaxEdits, troubles |-> MaxTroubles]
Left(b) == used[b] < Limit[b]

\* create_task has stored the record; its worker is about to start.
Init ==
  /\ record = [turns |-> <<User(1)>>, version |-> 0, hash |-> "unset"]
  /\ disk = record
  /\ file = "none"
  /\ ckpt = [msgs |-> <<>>, text |-> "none", version |-> 0, hash |-> "unset"]
  /\ phase = "claimed" /\ status = "INTERRUPTED" /\ said = 1
  /\ calls = 0 /\ final = NoTurn
  /\ heard = {} /\ blind = TRUE /\ shrunk = FALSE /\ drift = FALSE
  /\ used = [rounds |-> 1, edits |-> 0, troubles |-> 0]

-----------------------------------------------------------------------------
(* A continuation: claim, then set up *)

\* The message goes into the record, and the record to disk, before anything runs.
\* The plan file must be readable and a checkpoint there, or the request is refused.
Claims(turns, n) ==
  /\ phase = "parked" /\ ckpt.msgs # <<>>
  /\ Left("rounds") /\ Spend("rounds")
  /\ record' = [record EXCEPT !.turns = turns]
  /\ disk' = record'
  /\ phase' = "claimed" /\ said' = n /\ final' = NoTurn
  /\ UNCHANGED <<file, ckpt, status, calls, heard, blind, shrunk, drift>>

Send ==
  LET n == Cardinality(UserTurns(record.turns)) + 1
  IN  n <= MaxSaid /\ Claims(Append(record.turns, User(n)), n)

Resume == status = "INTERRUPTED" /\ Claims(record.turns, 0)

\* A stop has overtaken the worker: the continuation is not run.
Superseded ==
  /\ phase = "claimed" /\ ckpt.msgs # <<>> /\ Left("troubles") /\ Spend("troubles")
  /\ phase' = "parked" /\ status' = "INTERRUPTED"
  /\ UNCHANGED <<record, disk, file, ckpt, said, calls, final, heard, blind, shrunk, drift>>

\* No key for the model, the workspace gone, a plan file that is not UTF-8.
SetupFails ==
  /\ phase = "claimed" /\ Left("troubles") /\ Spend("troubles")
  /\ phase' = "parked" /\ status' = "FAILED"
  /\ UNCHANGED <<record, disk, file, ckpt, said, calls, final, heard, blind, shrunk, drift>>

\* _seed_plan: a text the record has not seen is a new version.
Seed ==
  [text    |-> file,
   version |-> record.version + (IF file # record.hash /\ file # "none" THEN 1 ELSE 0),
   hash    |-> file]

\* (mutant) a resume says the last message once more.
SayingAgain(msgs, n) ==
  Append(msgs, User(IF n = 0 THEN Cardinality(UserTurns(record.turns)) ELSE n))

Saying(msgs, n) == IF n = 0 THEN msgs ELSE Append(msgs, User(n))

\* The input checkpoint.  A plan file that is locked leaves the checkpoint's plan
\* (the first round starts with an empty one).
Begin(locked) ==
  /\ phase = "claimed"
  /\ locked => MayLock
  /\ ckpt' = IF locked
       THEN [ckpt EXCEPT !.msgs = Saying(@, said)]
       ELSE [msgs    |-> Saying(ckpt.msgs, said),
             text    |-> file,
             version |-> Max({Seed.version, ckpt.version}),
             hash    |-> file]
  /\ heard' = heard \cup UserTurns(ckpt'.msgs)
  /\ blind' = locked
  /\ calls' = 0 /\ final' = NoTurn /\ shrunk' = FALSE
  /\ phase' = "agent"
  /\ UNCHANGED <<record, disk, file, status, said, drift, used>>

-----------------------------------------------------------------------------
(* The agent node; the tool node only adds its replies *)

Notes(ms) == {k \in DOMAIN ms : IsNote(ms[k])}

\* The messages without the notes, message by message.
Kept(ms) ==
  LET kept[k \in 0..Len(ms)] ==
        IF k = 0 THEN <<>>
        ELSE IF IsNote(ms[k]) THEN kept[k - 1] ELSE Append(kept[k - 1], ms[k])
  IN  kept

DropNotes(ms) == Kept(ms)[Len(ms)]

\* (mutant) the note is appended, the old ones stay.
EnsureNoteOnly(ms, v) == IF Note(v) \in ToSet(ms) THEN ms ELSE Append(ms, Note(v))

EnsureNote(ms, v) ==
  IF \E k \in Notes(ms) : Notes(ms) = {k} /\ ms[k] = Note(v) THEN ms
  ELSE Append(DropNotes(ms), Note(v))

\* What a call finds: the messages as they are; the newest ones behind a mark; or all
\* of them, the long ones squeezed (compressed, with nothing dropped).
Cuts(ms) ==
  {[msgs |-> ms, shrunk |-> squeezed] : squeezed \in BOOLEAN} \cup
  {[msgs |-> <<Turn("cut", 0)>> \o SubSeq(ms, d + 1, Len(ms)), shrunk |-> TRUE] : d \in 1..Len(ms) - 1}

\* (mutant) the file is read before every call.
RefreshAlways(cut) == TRUE

\* The plan is checked at the first call of a round and after a compression.
Refreshes(cut) == calls = 0 \/ cut.shrunk

\* _build_messages: the checkpoint a call is made with.
Checked(ms) ==
  LET v == ckpt.version + (IF file # ckpt.hash /\ file # "none" THEN 1 ELSE 0)
  IN  [msgs    |-> IF file = "none" THEN DropNotes(ms) ELSE EnsureNote(ms, v),
       text    |-> file, version |-> v, hash |-> file]
Unchecked(ms) == [ckpt EXCEPT !.msgs = ms]

\* What a call may be made with: the plan checked, or not (not due, or locked).
Sendable(cut) ==
  {s \in {Checked(cut.msgs)} : Refreshes(cut)}
    \cup {s \in {Unchecked(cut.msgs)} : MayLock \/ ~Refreshes(cut)}

\* One call of the model; `after' holds what the node may make of what was sent.
Call(cut, after) ==
  /\ phase = "agent"
  /\ calls' = calls + 1
  /\ ckpt' \in after /\ shrunk' = cut.shrunk
  /\ UNCHANGED <<record, disk, said, status, heard, blind>>

Speak(sent, t) == [sent EXCEPT !.msgs = Append(@, t)]

\* Tool calls, their replies, and on to the next call or to finish.
CallsTools(cut) ==
  /\ Call(cut, {Speak(sent, Turn("tool", 0)) : sent \in Sendable(cut)})
  /\ phase' = IF calls + 1 < MaxSteps THEN "agent" ELSE "finish"
  /\ UNCHANGED <<file, final, drift, used>>

\* An answer; in plan mode a question, or a plan that is too long.
SpeaksUp(cut, a) ==
  /\ Call(cut, {Speak(sent, Turn("answer", a)) : sent \in Sendable(cut)})
  /\ final' = Turn("answer", a)
  /\ phase' = "finish"
  /\ UNCHANGED <<file, drift, used>>

ModelFails(cut) ==
  /\ Call(cut, Sendable(cut))
  /\ final' = Turn("error", 0)
  /\ phase' = "finish"
  /\ UNCHANGED <<file, drift, used>>

\* Build mode: a plan file that cannot be decoded is an error of the call.
PlanBroken(cut) ==
  /\ Left("troubles") /\ Spend("troubles")
  /\ Refreshes(cut) /\ Call(cut, {Unchecked(cut.msgs)})
  /\ final' = Turn("error", 0)
  /\ phase' = "finish"
  /\ UNCHANGED <<file, drift>>

\* Plan mode: the plan goes to the file, and a note is the answer.
WritesPlan(cut, p) ==
  /\ Call(cut, {[msgs    |-> Append(DropNotes(sent.msgs), Note(sent.version + 1)),
            text    |-> p, version |-> sent.version + 1, hash |-> p] : sent \in Sendable(cut)})
  /\ file' = p
  /\ final' = Note(ckpt'.version)
  /\ phase' = "finish"
  /\ UNCHANGED <<drift, used>>

\* A stop is seen before a call.
Stopped ==
  /\ phase = "agent"
  /\ phase' = "finish"
  /\ UNCHANGED <<record, disk, file, ckpt, status, said, calls, final, heard, blind, shrunk, drift,
                 used>>

\* The node raises and is not committed: the plan file cannot be decoded or not be
\* written; or its checkpoint cannot, when the plan has been written.
NodeRaises(written) ==
  /\ phase = "agent" /\ Left("troubles") /\ Spend("troubles")
  /\ file' = written /\ drift' = (drift \/ written # file)
  /\ phase' = "parked" /\ status' = "FAILED"
  /\ final' = NoTurn /\ shrunk' = FALSE
  /\ UNCHANGED <<record, disk, ckpt, said, calls, heard, blind>>

-----------------------------------------------------------------------------
(* finish and _finalize_terminal *)

\* (mutant) the ledger is rebuilt from the messages, as it was before #265.
Rebuilt(turns, ms, fin) == SelectSeq(ms, LAMBDA t : t.role \in {"user", "answer", "note"})

\* (mutant) an answer that was given before is not shown again.
MergedOnce(turns, ms, fin) ==
  IF fin \in ToSet(turns) THEN turns
  ELSE IF fin.role \in {"answer", "note"} THEN Append(turns, fin) ELSE turns

\* (mutant) an error is shown as a turn, too.
MergedAlways(turns, ms, fin) == IF fin = NoTurn THEN turns ELSE Append(turns, fin)

\* _merge_round_turns: a note that is new to the ledger, and the answer the
\* messages carry, unless the ledger ends with it.
Merged(turns, ms, fin) ==
  LET note   == SelectLastInSeq(ms, IsNote)
      answer == SelectLastInSeq(ms, IsSpoken)
      kept   == IF note = 0 \/ ms[note] \in ToSet(turns) THEN turns
                ELSE Append(turns, ms[note])
  IN  IF answer = 0 \/ ms[answer] # fin \/ Last(kept) = fin THEN kept
      ELSE Append(kept, fin)

Settle ==
  /\ record' = [turns   |-> Merged(record.turns, ckpt.msgs, final),
                version |-> ckpt.version, hash |-> ckpt.hash]
  /\ phase' = "parked"
  /\ status' = IF final.role = "error" THEN "FAILED" ELSE "INTERRUPTED"
  /\ shrunk' = FALSE
  /\ UNCHANGED <<file, ckpt, said, calls, final, heard, blind>>

\* A failed save keeps the live record; tasks.json lags behind it.
Finalize ==
  /\ phase = "finish"
  /\ Settle
  /\ drift' = ((drift \/ blind) /\ ckpt.hash # file)
  /\ \/ disk' = record' /\ UNCHANGED used
     \/ Left("troubles") /\ Spend("troubles") /\ UNCHANGED disk

-----------------------------------------------------------------------------
(* The plan by hand *)

\* Any hand but set_plan's: an editor, or a file tool of the round itself.
Edit(p) ==
  /\ p # file /\ Left("edits") /\ Spend("edits")
  /\ file' = p /\ drift' = TRUE
  /\ UNCHANGED <<record, disk, ckpt, phase, status, said, calls, final, heard, blind, shrunk>>

\* (mutant) the file keeps the new plan when the record could not be saved.
RolledBackNot(old, new) == new

RolledBack(old, new) == old

\* (mutant) the version stays.
PlanSavedSame(p) == [record EXCEPT !.hash = p]

PlanSaved(p) ==
  [record EXCEPT !.version = @ + (IF p # "none" /\ p # record.hash THEN 1 ELSE 0),
                 !.hash = p]

\* set_plan: the file, then the record; a failed save puts the old text back.
SetPlan(p) ==
  /\ phase = "parked" /\ Left("edits")
  /\ used' = [used EXCEPT !.edits = @ + 1]
  /\ file' = p /\ drift' = FALSE
  /\ record' = PlanSaved(p) /\ disk' = record'
  /\ UNCHANGED <<ckpt, phase, status, said, calls, final, heard, blind, shrunk>>

SetPlanUnsaved(p) ==
  /\ phase = "parked" /\ Left("edits") /\ Left("troubles")
  /\ used' = [used EXCEPT !.edits = @ + 1, !.troubles = @ + 1]
  /\ file' = RolledBack(file, p)
  /\ UNCHANGED <<record, disk, ckpt, phase, status, said, calls, final, heard, blind, shrunk, drift>>

\* The second write of the file fails as well, or the process dies before the save.
SetPlanTorn(p) ==
  /\ phase = "parked" /\ Left("edits") /\ Left("troubles")
  /\ used' = [used EXCEPT !.edits = @ + 1, !.troubles = @ + 1]
  /\ file' = p /\ drift' = TRUE
  /\ UNCHANGED <<record, disk, ckpt, phase, status, said, calls, final, heard, blind, shrunk>>

-----------------------------------------------------------------------------
\* A save of another task dumps this record as well.
NeighbourSave ==
  /\ disk # record
  /\ disk' = record
  /\ UNCHANGED <<record, file, ckpt, phase, status, said, calls, final, heard, blind, shrunk,
                 drift, used>>

\* The process dies, in a node possibly after the plan was written, and comes back.
Crash(written) ==
  /\ Left("troubles") /\ Spend("troubles")
  /\ written # file => phase = "agent"
  /\ file' = written
  /\ record' = disk
  /\ drift' = (drift \/ written # TextOf(disk.hash))
  /\ status' = IF phase = "parked" THEN status ELSE "INTERRUPTED"
  /\ phase' = "parked" /\ final' = NoTurn /\ shrunk' = FALSE
  /\ UNCHANGED <<disk, ckpt, said, calls, heard, blind>>

-----------------------------------------------------------------------------
Next ==
  \/ Send \/ Resume \/ Superseded \/ SetupFails
  \/ \E locked \in BOOLEAN : Begin(locked)
  \/ \E cut \in Cuts(ckpt.msgs) : CallsTools(cut) \/ ModelFails(cut) \/ PlanBroken(cut)
  \/ \E cut \in Cuts(ckpt.msgs), a \in Answers : SpeaksUp(cut, a)
  \/ \E cut \in Cuts(ckpt.msgs), p \in Texts : WritesPlan(cut, p)
  \/ Stopped
  \/ \E p \in Texts \cup {file} : NodeRaises(p)
  \/ Finalize
  \/ \E p \in Texts \cup {"none"} : Edit(p) \/ SetPlan(p) \/ SetPlanUnsaved(p) \/ SetPlanTorn(p)
  \/ NeighbourSave
  \/ \E p \in Texts \cup {file} : Crash(p)

Spec == Init /\ [][Next]_vars

-----------------------------------------------------------------------------
(* Properties *)

Turns == [role : {"user", "answer", "note", "tool", "cut"}, what : Nat \cup Answers]
Hashes == Texts \cup {"none", "unset"}
Records == [turns : Seq(Turns), version : Nat, hash : Hashes]

\* Every variable keeps the range the code gives it.
TypeOK ==
  /\ record \in Records /\ disk \in Records
  /\ file \in Texts \cup {"none"}
  /\ ckpt \in [msgs : Seq(Turns), text : Texts \cup {"none"}, version : Nat, hash : Hashes]
  /\ phase \in {"parked", "claimed", "agent", "finish"}
  /\ status \in {"INTERRUPTED", "FAILED"}
  /\ said \in 0..MaxSaid /\ calls \in 0..MaxSteps
  /\ final \in Turns \cup {NoTurn, Turn("error", 0)}
  /\ heard \subseteq 1..MaxSaid
  /\ {blind, shrunk, drift} \subseteq BOOLEAN

\* A restart falls back to what was saved.
FallsBack == record' = disk

\* Settled turns are never rewritten, however much of the messages compression has
\* dropped (#265): round numbers are counted in the ledger.
LedgerGrows == [][FallsBack \/ IsPrefix(record.turns, record'.turns)]_record

\* A round that answered shows its answer: the ledger of the parked task ends with it.
AnswerIsShown ==
  phase = "parked" /\ IsSpoken(final) => Last(record.turns) = final

\* The model reads every user message of the ledger at most once and in order, and
\* none that the ledger does not have.
SaidOnce ==
  /\ UserTurns(ckpt.msgs) \subseteq UserTurns(record.turns)
  /\ \A j, k \in DOMAIN ckpt.msgs :
       IsUser(ckpt.msgs[j]) /\ IsUser(ckpt.msgs[k]) /\ j < k
         => ckpt.msgs[j].what < ckpt.msgs[k].what

\* The ledger has each answer, and the model each message of the ledger once.
LedgerIsExact == AnswerIsShown /\ SaidOnce

\* Exactly one gray note: the messages carry at most one, and it does not name a
\* version the plan has yet to reach.
OneNote ==
  \A k \in Notes(ckpt.msgs) :
    Notes(ckpt.msgs) = {k} /\ ckpt.msgs[k].what <= ckpt.version

\* At rest, record and file agree about which plan is current, unless the file was
\* changed by another hand.
PlanAgrees ==
  phase = "parked" /\ ~drift => file = TextOf(record.hash)

\* The plan the model is told, the record and the file are one plan at rest.
PlanIsTold == OneNote /\ PlanAgrees

\* What the task shows as version n is one text: the version never goes back, and a
\* new text is a new version -- but for a round whose seed found the file locked.
VersionNames ==
  [][\/ FallsBack \/ blind
     \/ /\ record'.version >= record.version
        /\ record'.hash \in Texts \ {record.hash} => record'.version > record.version]_record

\* A mid-round edit takes effect in the next round: between two calls of a round the
\* plan changes only with a compression before that call, whether it dropped messages or
\* only squeezed some, or by the model's own plan (G-34).
PlanIsStable ==
  [][phase = "agent" /\ calls > 0 /\ ckpt'.text # ckpt.text
       => shrunk' \/ (final' = Note(ckpt'.version) /\ phase' = "finish")]_ckpt

\* The plan's steps, over rounds and within one.
PlanStepsAreSound == VersionNames /\ PlanIsStable

\* send_message: the next message resumes the same conversation; what the user said
\* reaches the model.
SaidIsHeard == phase = "agent" => UserTurns(record.turns) \subseteq heard
=============================================================================
