------------------------------ MODULE Settings ------------------------------
(***************************************************************************)
(* The settings of the web page: the shared store of providers and models  *)
(* (store/modelStore.ts), the settings dialog with the card of a provider  *)
(* (SettingsDialog.tsx, ProviderCard.tsx) and the dialog that edits or     *)
(* creates one (ProviderDialog.tsx), beside the calls they make.  One      *)
(* provider's card is followed; its configuration (address, protocol,      *)
(* environment variable) is a number that every edit of it raises.  A call *)
(* is handled some time after it was made and answered later still; `mine' *)
(* says that the card that made it is still mounted, `cur' that no newer   *)
(* discovery or refresh has been numbered since.                           *)
(***************************************************************************)
EXTENDS Naturals, FiniteSets

CONSTANTS
  Models,    \* what hosts offer
  None,
  Uses,      \* what is used: the kinds of calls, and "fail"
  MaxCalls   \* calls made by hand, the refreshes that follow them not counted

Kinds == {"default", "delete", "drop", "test", "add", "discover", "pick",
          "save", "create", "clear", "refresh"}

Assumption ==
  None \notin Models /\ Uses \subseteq Kinds \cup {"fail"} /\ MaxCalls \in Nat

VARIABLES
  server,   \* the provider as the service holds it; n counts the writes
  store,    \* the newest reads of the cards and of the entries; loading, error
  open,     \* the settings dialog
  card,     \* the state of the card, while there is one
  editor,   \* the provider dialog
  calls, count

pageVars == <<store, open, card, editor>>
vars == <<server, pageVars, calls, count>>

Blank == [armed |-> FALSE, drop |-> None, note |-> None, form |-> FALSE, adding |-> FALSE,
          finding |-> FALSE, found |-> None, picked |-> {}, picking |-> FALSE]
NoEditor == [mode |-> "none", typed |-> FALSE, saving |-> FALSE, arm |-> FALSE]
Nothing == [alive |-> FALSE, cfg |-> 0, models |-> {}, def |-> None, n |-> 0]

Cfg == store.cards.cfg
Listed == {e.m : e \in store.entries.models}
Mounted == open /\ store.cards.alive

TypeOK ==
  /\ server.cfg \in Nat /\ server.n \in Nat /\ server.def \in Models \cup {None}
  /\ \A e \in server.models : e.m \in Models /\ e.host \in 0..server.cfg \cup {None}
  /\ store.cards.n <= server.n /\ store.entries.n <= server.n
  /\ card.picked \subseteq Models /\ card.drop \in Models \cup {None}
  /\ card.note \in 0..server.cfg \cup {None}
  /\ ~Mounted => card = Blank   \* an unmounted card has no state to set
  /\ editor.mode \in {"none", "edit", "create"} /\ (editor.mode = "none" => ~editor.typed)
  /\ \A c \in calls : c.kind \in Kinds /\ c.stage \in {"out", "ok", "refused", "lost"}
  /\ count \in 0..MaxCalls

Init ==
  /\ server = [alive |-> TRUE, cfg |-> 0, models |-> {}, def |-> None, n |-> 1]
  /\ store = [cards |-> Nothing, entries |-> Nothing, loading |-> FALSE, error |-> FALSE]
  /\ open = FALSE /\ card = Blank /\ editor = NoEditor /\ calls = {} /\ count = 0

-----------------------------------------------------------------------------
(* Calls                                                                   *)

\* The least number that no call under way has.
Free(cs) == CHOOSE i \in 1..Cardinality(cs) + 1 :
              /\ \A c \in cs : c.n # i
              /\ \A j \in 1..i - 1 : \E c \in cs : c.n = j

Call(cs, kind, arg, then) ==
  [n |-> Free(cs), kind |-> kind, arg |-> arg, then |-> then, cfg |-> Cfg, mine |-> TRUE,
   cur |-> TRUE, stage |-> "out", host |-> None, left |-> {}, cards |-> None, entries |-> None]

\* The newest call of a numbered kind makes the earlier ones old.
Older(cs, kind) == {IF c.kind = kind THEN [c EXCEPT !.cur = FALSE] ELSE c : c \in cs}
Orphans(cs) == {[c EXCEPT !.mine = FALSE] : c \in cs}

Ask(kind, arg) ==
  /\ kind \in Uses /\ count < MaxCalls /\ count' = count + 1
  /\ calls' = calls \cup {Call(calls, kind, arg, "none")}

\* refresh, called by c (or by the page): what follows it is c's.
Refreshed(cs, then, mine) ==
  /\ store' = [store EXCEPT !.loading = TRUE]
  /\ calls' = Older(cs, "refresh") \cup {[Call(cs, "refresh", None, then) EXCEPT !.mine = mine]}

-----------------------------------------------------------------------------
(* The settings dialog                                                     *)

Open ==
  /\ ~open /\ count < MaxCalls /\ open' = TRUE /\ editor' = NoEditor
  /\ count' = count + 1 /\ Refreshed(calls, "none", TRUE)
  /\ UNCHANGED <<server, card>>

\* The cards are unmounted; the provider dialog, on top, is not open.
Close ==
  /\ open /\ editor.mode = "none" /\ open' = FALSE
  /\ card' = Blank /\ calls' = Orphans(calls)
  /\ UNCHANGED <<server, store, editor, count>>

Retry ==
  /\ open /\ store.error /\ ~store.loading /\ count < MaxCalls
  /\ count' = count + 1 /\ Refreshed(calls, "none", TRUE)
  /\ UNCHANGED <<server, open, card, editor>>

-----------------------------------------------------------------------------
(* The card; the provider dialog is modal, so nothing of it is used while  *)
(* that is open                                                            *)

Card == Mounted /\ editor.mode = "none"
CardStep(f) == card' = f /\ UNCHANGED <<server, store, open, editor>>
Click(f) == CardStep(f) /\ UNCHANGED <<calls, count>>

\* providerDefaultAction: an entry of a provider that does not hold the default.
DefaultEntries == IF store.entries.def \in Listed THEN {} ELSE Listed

\* pickableCandidates.
Pickable == IF card.found = None THEN {} ELSE card.picked \ card.found.added

\* What can be used on the card as it is rendered: its head, an entry of its catalog, the
\* discovery and the form for a model outside it, the preview.
HeadButtons ==
  {"edit"} \cup (IF DefaultEntries # {} THEN {"default"} ELSE {})
           \cup (IF card.armed THEN {"confirm", "cancel"} ELSE {"remove"})

EntryButtons(m) ==
  IF m \notin Listed THEN {}
  ELSE {"test"} \cup (IF card.drop = m THEN {"confirm", "cancel"} ELSE {"remove"})

AddButtons ==
  {"form"} \cup (IF card.finding THEN {} ELSE {"discover"})
           \cup (IF card.form /\ ~card.adding THEN {"add"} ELSE {})

PreviewButtons ==
  IF card.found = None THEN {}
  ELSE {"collapse"} \cup (IF card.picking THEN {} ELSE {"toggle"})
                    \cup (IF card.picking \/ Pickable = {} THEN {} ELSE {"add"})

MakeDefault ==
  /\ Card /\ "default" \in HeadButtons
  /\ \E m \in DefaultEntries : Ask("default", m)
  /\ CardStep(card)

Arm ==
  /\ Card /\ "delete" \in Uses /\ HeadButtons \cap {"remove", "cancel"} # {}
  /\ Click([card EXCEPT !.armed = ~@])

RemoveProvider ==
  /\ Card /\ "confirm" \in HeadButtons
  /\ Ask("delete", None) /\ CardStep([card EXCEPT !.armed = FALSE])

ArmModel(m) ==
  /\ Card /\ "drop" \in Uses /\ EntryButtons(m) \cap {"remove", "cancel"} # {}
  /\ Click([card EXCEPT !.drop = IF @ = m THEN None ELSE m])

RemoveModel(m) ==
  /\ Card /\ "confirm" \in EntryButtons(m)
  /\ Ask("drop", m) /\ CardStep([card EXCEPT !.drop = None])

Test(m) ==
  /\ Card /\ "test" \in EntryButtons(m)
  /\ Ask("test", m) /\ CardStep([card EXCEPT !.note = Cfg])

AddForm == Card /\ "add" \in Uses /\ "form" \in AddButtons /\ Click([card EXCEPT !.form = ~@])

SubmitModel(m) ==
  /\ Card /\ "add" \in AddButtons /\ m \notin Listed
  /\ Ask("add", m) /\ CardStep([card EXCEPT !.adding = TRUE])

Discover ==
  /\ Card /\ "discover" \in AddButtons /\ "discover" \in Uses /\ count < MaxCalls
  /\ CardStep([card EXCEPT !.finding = TRUE, !.found = None, !.picked = {}])
  /\ count' = count + 1
  /\ calls' = Older(calls, "discover") \cup {Call(calls, "discover", None, "none")}

Toggle(m) ==
  /\ Card /\ "toggle" \in PreviewButtons /\ m \in card.found.offer \ card.found.added
  /\ Click([card EXCEPT !.picked = IF m \in @ THEN @ \ {m} ELSE @ \cup {m}])

Collapse ==
  /\ Card /\ "collapse" \in PreviewButtons
  /\ Click([card EXCEPT !.found = None, !.picked = {}])

\* The chosen ones are posted one after the other, to the provider of this id.
AddPicked ==
  /\ Card /\ "add" \in PreviewButtons /\ "pick" \in Uses /\ count < MaxCalls
  /\ CardStep([card EXCEPT !.picking = TRUE])
  /\ count' = count + 1
  /\ calls' = calls \cup {[Call(calls, "pick", {}, "none") EXCEPT
                             !.left = Pickable, !.host = card.found.host]}

-----------------------------------------------------------------------------
(* The provider dialog                                                     *)

EditorStep(f) == editor' = f /\ UNCHANGED <<server, store, open, card>>
Key(f) == EditorStep(f) /\ UNCHANGED <<calls, count>>

\* A fresh form on every open.
Edit(mode) ==
  /\ open /\ editor.mode = "none" /\ (mode = "edit" => Mounted /\ "edit" \in HeadButtons)
  /\ {"save", "create", "clear"} \cap Uses # {}
  /\ Key([NoEditor EXCEPT !.mode = mode])

\* The form is filled, or a preset is applied.
Type == editor.mode # "none" /\ ~editor.typed /\ Key([editor EXCEPT !.typed = TRUE])

\* The close button, the backdrop and Escape stay usable during a save.
EditorButtons ==
  IF editor.mode = "none" THEN {}
  ELSE {"close"} \cup (IF editor.saving \/ ~editor.typed THEN {} ELSE {"submit"})
                 \cup (IF editor.mode # "edit" \/ editor.saving THEN {}
                      ELSE IF editor.arm THEN {"confirm", "clear"} ELSE {"clear"})

Dismiss == "close" \in EditorButtons /\ Key(NoEditor)

Submit ==
  /\ "submit" \in EditorButtons
  /\ Ask(IF editor.mode = "edit" THEN "save" ELSE "create", None)
  /\ EditorStep([editor EXCEPT !.saving = TRUE])

ArmClear ==
  "clear" \in Uses /\ "clear" \in EditorButtons /\ Key([editor EXCEPT !.arm = ~@])

ClearKey ==
  /\ "confirm" \in EditorButtons /\ Ask("clear", None)
  /\ EditorStep([editor EXCEPT !.arm = FALSE, !.saving = TRUE])

-----------------------------------------------------------------------------
(* The service                                                             *)

Become(c, d) == calls' = (calls \ {c}) \cup {d}
Stage(c, s) == Become(c, [c EXCEPT !.stage = s])
Write(s) == server' = [s EXCEPT !.n = @ + 1]
Entry(m, host) == [m |-> m, host |-> host]
Holds(m) == \E e \in server.models : e.m = m
Without(m) == {e \in server.models : e.m # m}

Handle(c) ==
  /\ c \in calls /\ c.stage = "out" /\ c.kind \notin {"refresh", "pick"}
  /\ IF c.kind = "create" THEN Stage(c, "ok") /\ Write(server)
     ELSE IF ~server.alive THEN Stage(c, "refused") /\ UNCHANGED server
     ELSE CASE c.kind = "discover" ->
                 \E offer \in {{}, Models} :
                   /\ Become(c, [c EXCEPT !.stage = "ok", !.host = server.cfg, !.arg = offer,
                                          !.left = {m \in offer : Holds(m)}])
                   /\ UNCHANGED server
            [] c.kind = "test" -> Stage(c, "ok") /\ UNCHANGED server
            [] c.kind = "delete" ->
                 /\ Write([server EXCEPT !.alive = FALSE, !.models = {}, !.def = None])
                 /\ Stage(c, "ok")
            [] c.kind = "save" ->
                 \E k \in {0, 1} : Write([server EXCEPT !.cfg = @ + k]) /\ Stage(c, "ok")
            [] c.kind = "clear" -> Write(server) /\ Stage(c, "ok")
            [] c.kind = "add" ->
                 IF Holds(c.arg) THEN Stage(c, "refused") /\ UNCHANGED server
                 ELSE /\ Write([server EXCEPT !.models = @ \cup {Entry(c.arg, None)}])
                      /\ Stage(c, "ok")
            [] OTHER ->
                 IF ~Holds(c.arg) THEN Stage(c, "refused") /\ UNCHANGED server
                 ELSE /\ Write(IF c.kind = "default" THEN [server EXCEPT !.def = c.arg]
                               ELSE [server EXCEPT !.models = Without(c.arg),
                                       !.def = IF @ = c.arg THEN None ELSE @])
                      /\ Stage(c, "ok")
  /\ UNCHANGED <<pageVars, count>>

\* One of the chosen models is posted; `arg' collects the ones that were taken.
HandlePick(c) ==
  /\ c \in calls /\ c.kind = "pick"
  /\ \E m \in c.left :
       LET rest == [c EXCEPT !.left = @ \ {m}] IN
       \/ /\ server.alive /\ ~Holds(m)
          /\ Write([server EXCEPT !.models = @ \cup {Entry(m, c.host)}])
          /\ \E got \in IF "fail" \in Uses THEN {{}, {m}} ELSE {{m}} :
               Become(c, [rest EXCEPT !.arg = @ \cup got])
       \/ /\ ~server.alive \/ Holds(m) \/ "fail" \in Uses
          /\ UNCHANGED server /\ Become(c, rest)
  /\ UNCHANGED <<pageVars, count>>

\* The two reads of a refresh are two requests.
ReadCards(c) ==
  /\ c \in calls /\ c.kind = "refresh" /\ c.stage = "out" /\ c.cards = None
  /\ Become(c, [c EXCEPT !.cards = server]) /\ UNCHANGED <<server, pageVars, count>>

ReadEntries(c) ==
  /\ c \in calls /\ c.kind = "refresh" /\ c.stage = "out" /\ c.entries = None
  /\ Become(c, [c EXCEPT !.entries = server]) /\ UNCHANGED <<server, pageVars, count>>

\* The service refuses, or the call or its answer is lost.
Fail(c) ==
  /\ "fail" \in Uses /\ c \in calls /\ c.kind # "pick"
  /\ \/ c.stage = "out" /\ Stage(c, "refused")
     \/ c.stage = "ok" /\ Stage(c, "lost")
  /\ UNCHANGED <<server, pageVars, count>>

-----------------------------------------------------------------------------
(* What the page does with an answer                                       *)

Mine(c) == c.mine /\ Mounted

Note(f, c) == [f EXCEPT !.note = c.cfg]

\* (mutant) the card is not read again after one of its models was removed.
RefreshesSome(c) == c.kind \notin {"test", "discover", "drop"}

Refreshes(c) == c.kind \notin {"test", "discover"}

\* The mutations of the card and of the dialog that were taken: the store is read again,
\* and the rest of the handler waits for it.
Taken(c) ==
  /\ c \in calls /\ c.stage = "ok" /\ c.kind \notin {"discover", "refresh", "pick"}
  /\ card' = IF ~Mine(c) \/ c.kind \in {"delete", "save", "create", "clear"} THEN card
             ELSE IF c.kind = "add" THEN Note([card EXCEPT !.form = FALSE], c)
             ELSE Note(card, c)
  /\ IF Refreshes(c) THEN Refreshed(calls \ {c}, c.kind, c.mine)
     ELSE calls' = calls \ {c} /\ UNCHANGED store
  /\ UNCHANGED <<server, open, editor, count>>

NotTaken(c) ==
  /\ c \in calls /\ c.stage \in {"refused", "lost"} /\ c.kind \notin {"discover", "refresh", "pick"}
  /\ card' = IF ~Mine(c) \/ c.kind \in {"save", "create", "clear"} THEN card
             ELSE IF c.kind = "add" THEN [card EXCEPT !.adding = FALSE]
             ELSE Note(card, c)
  /\ editor' = IF c.kind \in {"save", "create", "clear"} THEN [editor EXCEPT !.saving = FALSE]
               ELSE editor
  /\ calls' = calls \ {c} /\ UNCHANGED <<server, store, open, count>>

\* (mutant) the number of the discovery is not compared.
AnyDiscovery(c) == Mine(c)

Newest(c) == Mine(c) /\ c.cur

Discovered(c) ==
  /\ c \in calls /\ c.kind = "discover" /\ c.stage # "out"
  /\ card' = IF ~Newest(c) THEN card
             ELSE IF c.stage # "ok" THEN [card EXCEPT !.finding = FALSE]
             ELSE IF c.arg = {} THEN [card EXCEPT !.finding = FALSE, !.note = c.cfg]
             ELSE [card EXCEPT !.finding = FALSE, !.picked = c.arg \ c.left,
                     !.found = [asked |-> c.cfg, host |-> c.host, offer |-> c.arg,
                                added |-> c.left]]
  /\ calls' = calls \ {c} /\ UNCHANGED <<server, store, open, editor, count>>

Picked(c) ==
  /\ c \in calls /\ c.kind = "pick" /\ c.left = {}
  /\ card' = IF ~Mine(c) THEN card
             ELSE LET f == [card EXCEPT !.picking = FALSE, !.picked = {}] IN
                  IF c.arg = {} THEN Note(f, c)
                  ELSE IF f.found = None THEN f
                  ELSE [f EXCEPT !.found.added = @ \cup (c.arg \cap f.found.offer)]
  /\ IF c.arg = {} THEN calls' = calls \ {c} /\ UNCHANGED store
     ELSE Refreshed(calls \ {c}, "pick", c.mine)
  /\ UNCHANGED <<server, open, editor, count>>

\* (mutant) an answer that is not of the newest refresh is taken as well.
AnyRefresh(c) == TRUE

NewestRefresh(c) == c.cur

\* (mutant) a failure shows its note and nothing else.
FailedOnly == [store EXCEPT !.error = TRUE]

Failed == [store EXCEPT !.loading = FALSE, !.error = TRUE]

\* (mutant) a new configuration leaves the discovery under way.
ResetSome == [Blank EXCEPT !.finding = card.finding]

Reset == Blank

\* The rest of the handler that called the refresh.
CardAfter(c, f) ==
  IF ~c.mine THEN f
  ELSE IF c.then = "add" THEN [f EXCEPT !.adding = FALSE]
  ELSE IF c.then = "pick" THEN Note(f, c) ELSE f

EditorAfter(c) ==
  IF c.then \in {"save", "create"} THEN NoEditor
  ELSE IF c.then = "clear" THEN [editor EXCEPT !.saving = FALSE] ELSE editor

\* The snapshot is taken, the card is unmounted or, with a new configuration, reset.
Applied(c) ==
  /\ c \in calls /\ c.kind = "refresh" /\ c.stage = "out" /\ c.cards # None /\ c.entries # None
  /\ NewestRefresh(c)
  /\ store' = [cards |-> c.cards, entries |-> c.entries, loading |-> FALSE,
               error |-> FALSE]
  /\ LET rest == calls \ {c} IN
     IF ~Mounted \/ ~c.cards.alive
     THEN card' = Blank /\ calls' = IF Mounted THEN Orphans(rest) ELSE rest
     ELSE IF c.cards.cfg # Cfg
          THEN card' = CardAfter(c, Reset) /\ calls' = Older(rest, "discover")
          ELSE card' = CardAfter(c, card) /\ calls' = rest
  /\ editor' = EditorAfter(c)
  /\ UNCHANGED <<server, open, count>>

\* Superseded, or failed: the last snapshot is kept.
NotApplied(c) ==
  /\ c \in calls /\ c.kind = "refresh"
  /\ \/ c.stage = "refused"
     \/ c.cards # None /\ c.entries # None /\ ~NewestRefresh(c)
  /\ store' = IF c.cur THEN Failed ELSE store
  /\ card' = IF Mounted THEN CardAfter(c, card) ELSE card
  /\ editor' = EditorAfter(c)
  /\ calls' = calls \ {c} /\ UNCHANGED <<server, open, count>>

Answer(c) == Taken(c) \/ NotTaken(c) \/ Discovered(c) \/ Picked(c) \/ Applied(c) \/ NotApplied(c)

Next ==
  \/ Open \/ Close \/ Retry
  \/ MakeDefault \/ Arm \/ RemoveProvider \/ AddForm \/ Discover \/ Collapse \/ AddPicked
  \/ \E m \in Models : ArmModel(m) \/ RemoveModel(m) \/ Test(m) \/ SubmitModel(m) \/ Toggle(m)
  \/ \E mode \in {"edit", "create"} : Edit(mode)
  \/ Type \/ Dismiss \/ Submit \/ ArmClear \/ ClearKey
  \/ \E c \in calls : Handle(c) \/ HandlePick(c) \/ ReadCards(c) \/ ReadEntries(c) \/ Fail(c)
  \/ \E c \in calls : Answer(c)

Spec == Init /\ [][Next]_vars

\* Every request ends: the service handles it, and fetch settles.
FairSpec ==
  /\ Spec
  /\ WF_vars(\E c \in calls : Handle(c) \/ HandlePick(c) \/ ReadCards(c) \/ ReadEntries(c))
  /\ WF_vars(\E c \in calls : Answer(c))
-----------------------------------------------------------------------------
\* "A stale discovery preview must not be added into the new host": a preview the card
\* shows was asked for under the configuration the card shows (ProviderCard.tsx 71-97,
\* 183-210).
PreviewBelongs == card.found # None => card.found.asked = Cfg

\* "A slow earlier refresh must not overwrite a newer answer": what the page knows of the
\* service never goes back (modelStore.ts 32-35, 48).
NeverBack ==
  [][store'.cards.n >= store.cards.n /\ store'.entries.n >= store.entries.n]_vars

\* With no call under way nothing says there is one: whatever was reset, unmounted, refused
\* or overtaken, no button stays disabled (ProviderCard.tsx, ProviderDialog.tsx, modelStore.ts).
SpinnersEnd ==
  calls = {} => ~(card.adding \/ card.finding \/ card.picking \/ editor.saving \/ store.loading)

\* "Settings and the Composer both refresh through this store so a provider edit
\* immediately changes the picker": with no call under way and no error shown, the page
\* shows what the service holds (modelStore.ts 16-17), unless an answer was lost.
PageAgrees ==
  calls = {} /\ count > 0 /\ ~store.error => store.cards = server /\ store.entries = server

\* A refresh ends.
LoadingEnds == store.loading ~> ~store.loading

\* "A stale discovery preview must not be added into the new host."
AddedFromItsHost ==
  [][\A e \in server'.models \ server.models : e.host \in {None, server.cfg}]_vars

\* "Temporary card state (preview, armed deletes, add form, messages) belongs to this
\* provider configuration."
NoteBelongs == card.note \in {None, Cfg}

\* "A store refresh while the dialog is open must not discard what the user is typing":
\* the dialog a user types in goes away by the user's hand, or when its own save is done.
TypingIsKept ==
  [][editor.typed /\ ~editor.saving => editor'.typed \/ (calls' = calls)]_vars
=============================================================================
