------------------------------ MODULE ModelStore ------------------------------
(***************************************************************************)
(* Model providers, model entries and pasted keys                          *)
(* (backend/services/model_store.py), with the client cache and the model  *)
(* of one task (backend/services/task_manager.py 698-927).                 *)
(*                                                                         *)
(* The catalog is in memory and in models.json; the keys are in another    *)
(* file, credentials.json; a file of the first schema is migrated behind a *)
(* backup.  A mutation holds the manager's lock from its first step to its *)
(* last.  Its steps are kept in req.todo: write the keys, change the       *)
(* memory, write models.json, drop cached clients; any write may fail, and *)
(* the program may die between two of them.  Whatever a mutation makes or  *)
(* edits carries the stamp of that mutation, so that a client built from   *)
(* it tells which address, entry and key it was built from.                *)
(***************************************************************************)
EXTENDS Naturals, Sequences, Functions

CONSTANTS
  Providers,  \* provider ids, one of them the seeded default
  Default,    \* DEFAULT_MODEL_ID
  NoId,       \* the empty id
  Models,     \* model names of a provider
  Profiles,   \* the flat profiles of the v1 file found at the first start, or {}
  MaxStamp,   \* bound: mutations
  Troubles    \* subset of {"save", "key", "backup", "torn", "crash"}

Assumption ==
  /\ Default \in Providers /\ Profiles \subseteq Providers
  /\ MaxStamp \in Nat /\ Troubles \subseteq {"save", "key", "backup", "torn", "crash"}

VARIABLES
  status,   \* "down", "starting" or "up"
  mem,      \* providers, model_entries, default_id
  disk,     \* models.json
  bak,      \* models.json.bak-v1: "none", "torn" or "whole"
  pending,  \* _v1_backup_pending
  keys,     \* credentials.json
  cache,    \* TaskManager._llm_clients
  req,      \* the mutation that holds the manager's lock
  stamp,    \* mutations begun
  model,    \* Task.model: an entry's id, or NoId
  round     \* the model of the task's round: _pin_round_model

vars == <<status, mem, disk, bak, pending, keys, cache, req, stamp, model, round>>

Blank == [made |-> 0, at |-> 0]
Nothing == [provs |-> <<>>, entries |-> <<>>, default |-> NoId]
Idle == [todo |-> <<>>, cat |-> Nothing, keys |-> <<>>, id |-> NoId, undo |-> Nothing]
NoRound == [pc |-> "none", client |-> <<>>, id |-> NoId]

\* A legacy profile's entry has its provider's id; the others get a fresh one.
Ids == Providers \cup (1..MaxStamp)

Entry(p, m, n) == [prov |-> p, model |-> m, at |-> n]

\* A dict with one more key; one that it has keeps its value.
Added(f, k, v) == [x \in DOMAIN f \cup {k} |-> IF x \in DOMAIN f THEN f[x] ELSE v]

\* The flat profiles become same-id providers with one same-id entry each.
Migrated(profiles, default) ==
  [provs |-> [p \in profiles |-> Blank],
   entries |-> [p \in profiles |-> Entry(p, CHOOSE m \in Models : TRUE, 0)],
   default |-> IF default \in profiles THEN default ELSE CHOOSE p \in profiles : TRUE]

Seeded == Migrated({Default}, Default)

Init ==
  /\ status = "down" /\ mem = Nothing
  /\ disk = IF Profiles = {} THEN [form |-> "none", cat |-> Nothing]
            ELSE [form |-> "v1", cat |-> [profiles |-> Profiles, default |-> Default]]
  /\ bak = "none" /\ pending = FALSE /\ keys = <<>> /\ cache = <<>> /\ req = Idle
  /\ stamp = 0 /\ model = NoId /\ round = NoRound

-----------------------------------------------------------------------------
(* The catalog                                                             *)

EntriesOf(cat, p) == {e \in DOMAIN cat.entries : cat.entries[e].prov = p}

HasModel(p, m) == \E e \in EntriesOf(mem, p) : mem.entries[e].model = m

\* The catalog without some entries; a default among them goes to another one.
Without(cat, es) ==
  LET left == DOMAIN cat.entries \ es IN
  {[cat EXCEPT !.entries = Restrict(@, left), !.default = d]
     : d \in IF cat.default \in left THEN {cat.default} ELSE left}

WithoutProvider(cat, p) == [cat EXCEPT !.provs = Restrict(@, DOMAIN @ \ {p})]

\* The client _build_llm makes for an entry.
Client(e) ==
  LET entry == mem.entries[e] IN
  [id |-> e, entry |-> entry, provider |-> mem.provs[entry.prov],
   key |-> IF entry.prov \in DOMAIN keys THEN keys[entry.prov] ELSE Blank]

\* A provider that the mutation makes.
Made == [made |-> stamp + 1, at |-> stamp + 1]

\* set_provider_key pastes a key for the provider as it is known now.
Pasted(p, made) ==
  [q \in DOMAIN keys \cup {p} |-> IF q = p THEN [made |-> made, at |-> stamp + 1] ELSE keys[q]]
Revoked(p) == Restrict(keys, DOMAIN keys \ {p})

-----------------------------------------------------------------------------
(* The steps of a mutation                                                 *)

Step == IF req.todo = <<>> THEN "" ELSE Head(req.todo)

LockFree == status = "up" /\ req = Idle

Done == req' = IF Len(req.todo) = 1 THEN Idle ELSE [req EXCEPT !.todo = Tail(@)]

Change ==
  /\ Step = "change" /\ Done /\ mem' = req.cat
  /\ UNCHANGED <<status, disk, bak, pending, keys, cache, stamp, model, round>>

WriteKeys ==
  /\ Step = "keys" /\ Done /\ keys' = req.keys
  /\ UNCHANGED <<status, mem, disk, bak, pending, cache, stamp, model, round>>

\* CredentialsError: nothing is written.  add_provider takes its provider back.
KeysFail ==
  /\ "key" \in Troubles /\ Step = "keys"
  /\ req' = IF req.undo = Nothing THEN Idle
            ELSE [Idle EXCEPT !.todo = <<"change", "save">>, !.cat = req.undo]
  /\ UNCHANGED <<status, mem, disk, bak, pending, keys, cache, stamp, model, round>>

\* _backup_v1: a backup that exists is never written again.
BackupIs(b, ok) ==
  \/ bak # "none" /\ b = bak /\ ok
  \/ bak = "none" /\ \/ b = "whole" /\ ok
                     \/ "backup" \in Troubles /\ b = "none" /\ ~ok
                     \/ "torn" \in Troubles /\ b = "torn" /\ ~ok

\* A save backs the v1 file up first if that is still to be done; without a backup a
\* mutation is refused, and a start goes on with the migrated catalog in memory.
Backup ==
  /\ Step = "save" /\ pending
  /\ \E b \in {"none", "torn", "whole"}, ok \in BOOLEAN :
       /\ BackupIs(b, ok) /\ bak' = b /\ pending' = ~ok
       /\ req' = IF ok THEN req ELSE Idle
       /\ status' = IF ok THEN status ELSE "up"
  /\ UNCHANGED <<mem, disk, keys, cache, stamp, model, round>>

\* (mutant) v2 is written with the backup still to be made.
SaveAtOnce ==
  /\ Step = "save" /\ Done
  /\ disk' = [form |-> "v2", cat |-> mem] /\ status' = "up"
  /\ UNCHANGED <<mem, bak, pending, keys, cache, stamp, model, round>>

Save ==
  /\ Step = "save" /\ ~pending /\ Done
  /\ disk' = [form |-> "v2", cat |-> mem] /\ status' = "up"
  /\ UNCHANGED <<mem, bak, pending, keys, cache, stamp, model, round>>

\* The exception leaves the memory as it is and skips what the mutation had left;
\* a start fails with it.
SaveFails ==
  /\ "save" \in Troubles /\ Step = "save" /\ ~pending
  /\ req' = Idle /\ status' = IF status = "starting" THEN "down" ELSE status
  /\ mem' = IF status = "starting" THEN Nothing ELSE mem
  /\ UNCHANGED <<disk, bak, pending, keys, cache, stamp, model, round>>

\* (mutant) the clients stay.
ClearNothing ==
  /\ Step \in {"clear", "pop"} /\ Done
  /\ UNCHANGED <<status, mem, disk, bak, pending, keys, cache, stamp, model, round>>

\* All clients, or the entry's own.
Clear ==
  /\ Step \in {"clear", "pop"} /\ Done
  /\ cache' = IF Step = "clear" THEN <<>> ELSE Restrict(cache, DOMAIN cache \ {req.id})
  /\ UNCHANGED <<status, mem, disk, bak, pending, keys, stamp, model, round>>

\* set_task_model's own change of the task's record.
Point ==
  /\ Step = "point" /\ Done /\ model' = req.id
  /\ UNCHANGED <<status, mem, disk, bak, pending, keys, cache, stamp, round>>

-----------------------------------------------------------------------------
(* Start and crash                                                         *)

\* _load: seed, load, or migrate.
Start ==
  /\ status = "down"
  /\ \/ /\ disk.form = "v2" /\ mem' = disk.cat
        /\ status' = "up" /\ UNCHANGED <<req, pending>>
     \/ /\ disk.form # "v2"
        /\ mem' = IF disk.form = "none" THEN Seeded
                  ELSE Migrated(disk.cat.profiles, disk.cat.default)
        /\ status' = "starting" /\ req' = [Idle EXCEPT !.todo = <<"save">>]
        /\ pending' = (disk.form = "v1")
  /\ UNCHANGED <<disk, bak, keys, cache, stamp, model, round>>

\* The two files and the task's record are what is left.
Crash ==
  /\ "crash" \in Troubles /\ status # "down"
  /\ status' = "down" /\ mem' = Nothing /\ pending' = FALSE
  /\ cache' = <<>> /\ req' = Idle /\ round' = NoRound
  /\ UNCHANGED <<disk, bak, keys, stamp, model>>

-----------------------------------------------------------------------------
(* The mutations                                                           *)

Ask(todo, cat, ks, id, undo) ==
  /\ LockFree /\ stamp < MaxStamp /\ stamp' = stamp + 1
  /\ req' = [todo |-> todo, cat |-> cat, keys |-> ks, id |-> id, undo |-> undo]
  /\ UNCHANGED <<status, mem, disk, bak, pending, keys, cache, model, round>>

\* The legacy POST: a provider and its entry under one new id, neither's before.
Add(p) ==
  /\ p \notin DOMAIN mem.provs \cup DOMAIN mem.entries
  /\ \E m \in Models :
       Ask(<<"change", "save">>,
           [mem EXCEPT !.provs = Added(@, p, Made), !.entries = Added(@, p, Entry(p, m, stamp + 1))],
           keys, p, Nothing)

\* The legacy PUT edits the entry and the address of its provider.
Update(e) ==
  /\ e \in DOMAIN mem.entries
  /\ \E m \in Models :
       Ask(<<"change", "save", "clear">>,
           [mem EXCEPT !.entries[e] = Entry(@.prov, m, stamp + 1),
                       !.provs[mem.entries[e].prov].at = stamp + 1],
           keys, e, Nothing)

\* The key is revoked first, if this entry was its provider's last one.
Delete(e) ==
  /\ e \in DOMAIN mem.entries /\ DOMAIN mem.entries # {e}
  /\ LET p == mem.entries[e].prov
         last == EntriesOf(mem, p) = {e} IN
     \E rest \in Without(mem, {e}) :
       Ask((IF last /\ p \in DOMAIN keys THEN <<"keys">> ELSE <<>>)
             \o <<"change", "save", "clear">>,
           IF last THEN WithoutProvider(rest, p) ELSE rest, Revoked(p), e, Nothing)

SetDefault(e) ==
  /\ e \in DOMAIN mem.entries
  /\ Ask(<<"change", "save">>, [mem EXCEPT !.default = e], keys, e, Nothing)

\* set_key: a key pasted for the entry's provider, or taken away.
SetKey(e) ==
  /\ e \in DOMAIN mem.entries
  /\ LET p == mem.entries[e].prov IN
     \E ks \in {Pasted(p, mem.provs[p].made), Revoked(p)} :
       Ask(<<"keys", "clear">>, mem, ks, e, Nothing)

\* (mutant) the key goes first.
AddProviderKeyFirst(p) ==
  /\ p \notin DOMAIN mem.provs
  /\ Ask(<<"keys", "change", "save">>,
         [mem EXCEPT !.provs = Added(@, p, Made)],
         Pasted(p, stamp + 1), p, mem)

\* The provider first, then its key: a key that cannot be written takes it back.
AddProvider(p) ==
  /\ p \notin DOMAIN mem.provs
  /\ \E key \in {<<>>, <<"keys">>} :
       Ask(<<"change", "save">> \o key,
           [mem EXCEPT !.provs = Added(@, p, Made)],
           Pasted(p, stamp + 1), p, mem)

\* The key first: a refused one leaves the record as it was.
UpdateProvider(p) ==
  /\ p \in DOMAIN mem.provs
  /\ LET edited == [mem EXCEPT !.provs[p].at = stamp + 1] IN
     \/ Ask(<<"change", "save", "clear">>, edited, keys, p, Nothing)
     \/ \E ks \in {Pasted(p, mem.provs[p].made), Revoked(p)} :
          Ask(<<"keys", "change", "save", "clear">>, edited, ks, p, Nothing)

\* (mutant) the key goes last.
DeleteProviderKeyLast(p) ==
  /\ p \in DOMAIN mem.provs /\ DOMAIN mem.entries \ EntriesOf(mem, p) # {}
  /\ \E rest \in Without(mem, EntriesOf(mem, p)) :
       Ask(<<"change", "save", "keys", "clear">>, WithoutProvider(rest, p), Revoked(p), p, Nothing)

DeleteProvider(p) ==
  /\ p \in DOMAIN mem.provs /\ DOMAIN mem.entries \ EntriesOf(mem, p) # {}
  /\ \E rest \in Without(mem, EntriesOf(mem, p)) :
       Ask((IF p \in DOMAIN keys THEN <<"keys">> ELSE <<>>) \o <<"change", "save", "clear">>,
           WithoutProvider(rest, p), Revoked(p), p, Nothing)

WithModel(p, m) == [mem EXCEPT !.entries = Added(@, stamp + 1, Entry(p, m, stamp + 1))]

AddModel(p, m) ==
  /\ p \in DOMAIN mem.provs /\ ~HasModel(p, m)
  /\ Ask(<<"change", "save">>, WithModel(p, m), keys, stamp + 1, Nothing)

\* A new name, or new parameters under the old one.
UpdateModel(e, m) ==
  /\ e \in DOMAIN mem.entries
  /\ m = mem.entries[e].model \/ ~HasModel(mem.entries[e].prov, m)
  /\ Ask(<<"change", "save", "clear">>,
         [mem EXCEPT !.entries[e] = Entry(@.prov, m, stamp + 1)], keys, e, Nothing)

DeleteModel(e) ==
  /\ e \in DOMAIN mem.entries /\ DOMAIN mem.entries # {e}
  /\ \E rest \in Without(mem, {e}) : Ask(<<"change", "save", "pop">>, rest, keys, e, Nothing)

\* {provider, model}: the entry is found, or created.
SetTaskModel(p, m) ==
  /\ p \in DOMAIN mem.provs
  /\ \/ \E e \in EntriesOf(mem, p) :
          mem.entries[e].model = m /\ Ask(<<"point", "pop">>, mem, keys, e, Nothing)
     \/ /\ ~HasModel(p, m)
        /\ Ask(<<"change", "save", "point", "pop">>, WithModel(p, m), keys, stamp + 1, Nothing)

\* set_model looks at the catalog before it takes the lock; what matters afterwards is
\* that the entry may be gone by the time the record is written.
SetModel(e) ==
  /\ status = "up" /\ e \in DOMAIN mem.entries /\ e # model
  /\ req = Idle /\ model' = e
  /\ UNCHANGED <<status, mem, disk, bak, pending, keys, cache, req, stamp, round>>

-----------------------------------------------------------------------------
(* The model of a round                                                    *)

\* _llm_for, under the lock: a deleted entry fails the round instead of moving it.
TakeClient ==
  /\ LockFree /\ round.pc = "none"
  /\ LET e == IF model = NoId THEN mem.default ELSE model IN
     /\ e \in DOMAIN mem.entries
     /\ LET c == IF e \in DOMAIN cache THEN cache[e] ELSE Client(e) IN
        cache' = Added(cache, e, c) /\ round' = [pc |-> "named", client |-> c, id |-> NoId]
  /\ UNCHANGED <<status, mem, disk, bak, pending, keys, req, stamp, model>>

\* model_id_for, which reads the record and the default once more, without the lock.
PinRound ==
  /\ status = "up" /\ round.pc = "named"
  /\ round' = [round EXCEPT !.pc = "pinned", !.id = IF model = NoId THEN mem.default ELSE model]
  /\ UNCHANGED <<status, mem, disk, bak, pending, keys, cache, req, stamp, model>>

EndRound ==
  /\ status = "up" /\ round.pc = "pinned" /\ round' = NoRound
  /\ UNCHANGED <<status, mem, disk, bak, pending, keys, cache, req, stamp, model>>

-----------------------------------------------------------------------------
Mutation ==
  \/ \E p \in Providers : Add(p) \/ AddProvider(p) \/ UpdateProvider(p) \/ DeleteProvider(p)
  \/ \E e \in Ids : Update(e) \/ Delete(e) \/ SetDefault(e) \/ SetKey(e) \/ DeleteModel(e) \/ SetModel(e)
  \/ \E p \in Providers, m \in Models : AddModel(p, m) \/ SetTaskModel(p, m)
  \/ \E e \in Ids, m \in Models : UpdateModel(e, m)

Next ==
  \/ Mutation
  \/ Change \/ WriteKeys \/ KeysFail \/ Backup \/ Save \/ SaveFails \/ Clear \/ Point
  \/ Start \/ Crash
  \/ TakeClient \/ PinRound \/ EndRound

Spec == Init /\ [][Next]_vars
-----------------------------------------------------------------------------
(* What must hold                                                          *)

Resolves(cat) ==
  /\ cat.default \in DOMAIN cat.entries
  /\ \A e \in DOMAIN cat.entries : cat.entries[e].prov \in DOMAIN cat.provs

\* Every variable keeps its type.
TypeOK ==
  /\ status \in {"down", "starting", "up"} /\ disk.form \in {"none", "v1", "v2"}
  /\ bak \in {"none", "torn", "whole"} /\ pending \in BOOLEAN
  /\ DOMAIN keys \subseteq Providers /\ DOMAIN cache \subseteq Ids
  /\ stamp \in 0..MaxStamp /\ model \in Ids \cup {NoId}
  /\ round.pc \in {"none", "named", "pinned"}

\* There is always a default that resolves, in memory and, whatever step of a mutation
\* fails or is the last one before a crash, in the file (model_store.py 1179-1180).
DefaultResolves ==
  /\ status # "down" => Resolves(mem)
  /\ disk.form = "v2" => Resolves(disk.cat)

\* When no save fails, memory and models.json are one catalog between two mutations, and
\* every cached client is the one that would be built now: an edit or a key rotation
\* leaves no client with an old address or key (task_manager.py 833-836).
CacheIsFresh ==
  LockFree /\ ~pending =>
    /\ disk = [form |-> "v2", cat |-> mem]
    /\ \A e \in DOMAIN cache \cap DOMAIN mem.entries : cache[e] = Client(e)

\* When no save fails, no key is on disk for a provider that is not, and none is another
\* provider's that had the id before (model_store.py 842-845, 935-940).
SecretsHaveOwner ==
  disk.form = "v2" =>
    \A p \in DOMAIN keys : p \in DOMAIN disk.cat.provs /\ keys[p].made = disk.cat.provs[p].made

\* v2 replaces a v1 file only behind a backup of it (model_store.py 428-434, 476-483).
RollbackHolds == Profiles # {} /\ disk.form = "v2" => bak = "whole"

\* The pair a round is pinned to is one model.
PinAgrees == round.pc = "pinned" => round.id = round.client.id
=============================================================================
