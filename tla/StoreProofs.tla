------------------------------ MODULE StoreProofs ------------------------------
(***************************************************************************)
(* Theorems about ModelStore, for any providers, models, v1 profiles and   *)
(* number of mutations: whatever write fails and wherever the program      *)
(* dies, the default resolves; where saves and backups do not fail, the    *)
(* file, the memory, the keys and the cached clients agree between two     *)
(* mutations; without a torn backup, v2 replaces v1 behind a whole one.    *)
(***************************************************************************)
EXTENDS ModelStore, SequenceTheorems, TLAPS

-----------------------------------------------------------------------------
(* What is known of a catalog and of the steps of a mutation.              *)

StepNames == {"keys", "change", "save", "clear", "pop", "point"}

\* The form of a catalog; none of its parts need be there.
IsCat(c) ==
  /\ c \in [provs : {c.provs}, entries : {c.entries}, default : {c.default}]
  /\ DOMAIN c.provs \subseteq Providers
  /\ \A p \in DOMAIN c.provs : c.provs[p] \in [made : Nat, at : Nat]
  /\ DOMAIN c.entries \subseteq Ids /\ c.default \in Ids \cup {NoId}

IsSound(c) == IsCat(c) /\ Resolves(c)

Ahead(s, x) == \E k \in 1..Len(s) : s[k] = x

\* Each key's provider is there, and is the one that the key was pasted for.
Owned(ks, c) == \A p \in DOMAIN ks : p \in DOMAIN c.provs /\ ks[p].made = c.provs[p].made

\* What an entry stands for, an address and its own fields, is the same in both.
Same(c, d, e) ==
  /\ e \in DOMAIN d.entries /\ d.entries[e] = c.entries[e]
  /\ d.provs[d.entries[e].prov] = c.provs[d.entries[e].prov]

Carries(c, d) == \A e \in DOMAIN c.entries : Same(c, d, e)

\* No entry of a catalog has another key in one file of keys than in the other.
SameKeys(c, ks, ls) ==
  \A e \in DOMAIN c.entries : LET p == c.entries[e].prov IN
    (p \in DOMAIN ks <=> p \in DOMAIN ls) /\ (p \in DOMAIN ks => ks[p] = ls[p])

-----------------------------------------------------------------------------
(* The invariant that holds whatever fails.                                *)

DiskIsSound ==
  /\ disk.form \in {"none", "v1", "v2"} /\ disk \in [form : {disk.form}, cat : {disk.cat}]
  /\ disk.form = "v2" => IsSound(disk.cat)
  /\ disk.form = "v1" => Profiles # {} /\ disk.cat.profiles = Profiles /\ disk.cat.default = Default
  /\ disk.form = "none" => Profiles = {}

MemoryIsSound == IsCat(mem) /\ (status # "down" => Resolves(mem))

\* What a mutation is about to put in memory resolves, and what it may take back too.
RequestIsSound ==
  /\ req = [todo |-> req.todo, cat |-> req.cat, keys |-> req.keys, id |-> req.id, undo |-> req.undo]
  /\ req.todo \in Seq(StepNames) /\ req.id \in Ids \cup {NoId} /\ DOMAIN req.keys \subseteq Providers
  /\ Ahead(req.todo, "change") => IsSound(req.cat)
  /\ req.undo # Nothing => IsSound(req.undo)

\* A start has one step left, its save; no client is there before it ends.
StartIsAlone ==
  /\ status = "down" => req = Idle
  /\ status = "starting" => req.todo = <<"save">>
  /\ status # "up" => DOMAIN cache = {}

BackupIsBehind ==
  "torn" \notin Troubles /\ Profiles # {} =>
    /\ bak # "torn" /\ (disk.form = "v2" => bak = "whole")
    /\ status # "down" /\ ~pending => bak = "whole"

StoreInv == TypeOK /\ DiskIsSound /\ MemoryIsSound /\ RequestIsSound /\ StartIsAlone /\ BackupIsBehind

-----------------------------------------------------------------------------
(* The invariant that holds as long as saves and backups do not fail.      *)

Steady ==
  /\ "save" \notin Troubles
  /\ Profiles = {} \/ ("backup" \notin Troubles /\ "torn" \notin Troubles)

\* A change comes first, or after the keys, and its save next; keys that come later belong
\* to a provider that may be taken back, and such a mutation drops no client.  No step
\* comes twice.
Shape(s, undoing) ==
  /\ \A k \in 1..Len(s) :
       /\ s[k] = "change" => (k = 1 \/ (k = 2 /\ s[1] = "keys")) /\ k < Len(s) /\ s[k + 1] = "save"
       /\ s[k] = "save" => k = 1 \/ s[k - 1] = "change"
       /\ s[k] = "keys" => k = 1 \/ undoing
       /\ s[k] \in {"clear", "pop"} => ~undoing
  /\ \A j, k \in 1..Len(s) : s[j] = s[k] => j = k

\* The files change between two saves only by what is written.
FilesAgree ==
  /\ pending => status = "starting" /\ Profiles # {}
  /\ status = "up" /\ Step # "save" => disk = [form |-> "v2", cat |-> mem]
  /\ disk.form # "v2" => status # "up" /\ DOMAIN keys = {}
  /\ disk.form = "v2" => status # "starting" /\ Owned(keys, disk.cat)
  /\ status # "down" => Owned(keys, mem)

\* The keys' owners stay there in every step that r has left.
KeysFit(r) ==
  /\ Ahead(r.todo, "keys") => Owned(r.keys, r.cat)
  /\ Ahead(r.todo, "keys") /\ (r.todo[1] = "keys" \/ ~Ahead(r.todo, "change")) => Owned(r.keys, mem)
  /\ Ahead(r.todo, "change") /\ r.todo[1] # "keys" => Owned(keys, r.cat)
  /\ Ahead(r.todo, "keys") /\ r.undo # Nothing => Owned(keys, r.undo)

\* A mutation that does not drop the clients leaves what they were built from.
ClientsFit(r) ==
  /\ Ahead(r.todo, "change") /\ ~Ahead(r.todo, "clear") =>
       \A e \in DOMAIN mem.entries : Same(mem, r.cat, e) \/ (Ahead(r.todo, "pop") /\ e = r.id)
  /\ Ahead(r.todo, "keys") /\ ~Ahead(r.todo, "clear") =>
       SameKeys(mem, keys, r.keys) /\ SameKeys(r.cat, keys, r.keys)
  /\ Ahead(r.todo, "keys") /\ r.undo # Nothing => Carries(mem, r.undo) /\ Carries(r.cat, r.undo)

Fits(r) == Shape(r.todo, r.undo # Nothing) /\ KeysFit(r) /\ ClientsFit(r)

RequestFits == Fits(req)

IsFresh(e) == e \in DOMAIN mem.entries /\ cache[e] = Client(e)

\* A client that is not what would be built now is about to be dropped.
ClientsAreFresh ==
  \A e \in DOMAIN cache :
    IsFresh(e) \/ (Step # "keys" /\ (Ahead(req.todo, "clear") \/ (Ahead(req.todo, "pop") /\ e = req.id)))

SteadyInv == FilesAgree /\ RequestFits /\ ClientsAreFresh

-----------------------------------------------------------------------------
(* Sequences of steps.                                                     *)

\* A tail is empty behind a single step only.
LEMMA TailEnds ==
  ASSUME NEW s \in Seq(StepNames), s # <<>>
  PROVE  Tail(s) = <<>> <=> Len(s) = 1
<1>1. Tail(s) \in Seq(StepNames) /\ Len(Tail(s)) = Len(s) - 1 /\ Len(s) \in Nat
  OBVIOUS
<1>2. Len(Tail(s)) = 0 <=> Tail(s) = <<>>
  BY <1>1, EmptySeq
<1> QED
  BY <1>1, <1>2

LEMMA NothingAhead == ASSUME NEW x PROVE ~Ahead(<<>>, x)
BY DEF Ahead

\* What is ahead after the first step is what was, but for that step.
LEMMA TailAhead ==
  ASSUME NEW s \in Seq(StepNames), s # <<>>
  PROVE  /\ Head(s) = s[1] /\ Len(s) \in Nat \ {0} /\ Tail(s) \in Seq(StepNames)
         /\ \A x : Ahead(Tail(s), x) => Ahead(s, x)
         /\ \A x : Ahead(s, x) /\ x # s[1] => Ahead(Tail(s), x)
<1>1. /\ Head(s) = s[1] /\ Len(s) \in Nat \ {0} /\ Tail(s) \in Seq(StepNames)
      /\ Len(Tail(s)) = Len(s) - 1 /\ \A k \in 1..Len(s) - 1 : Tail(s)[k] = s[k + 1]
  OBVIOUS
<1>2. ASSUME NEW x, Ahead(Tail(s), x) PROVE Ahead(s, x)
  <2>1. PICK k \in 1..Len(s) - 1 : Tail(s)[k] = x
    BY <1>1, <1>2 DEF Ahead
  <2>2. k + 1 \in 1..Len(s) /\ s[k + 1] = x
    BY <1>1, <2>1
  <2> QED
    BY <2>2 DEF Ahead
<1>3. ASSUME NEW x, Ahead(s, x), x # s[1] PROVE Ahead(Tail(s), x)
  <2>1. PICK k \in 1..Len(s) : s[k] = x
    BY <1>3 DEF Ahead
  <2>2. k - 1 \in 1..Len(s) - 1 /\ (k - 1) + 1 = k
    BY <1>1, <1>3, <2>1
  <2>3. Tail(s)[k - 1] = x
    BY <1>1, <2>1, <2>2
  <2> QED
    BY <1>1, <2>2, <2>3 DEF Ahead
<1> QED
  BY <1>1, <1>2, <1>3

\* Nothing is ahead behind the last step.
LEMMA LastAhead ==
  ASSUME NEW s \in Seq(StepNames), Len(s) = 1
  PROVE  \A x : Ahead(s, x) => x = s[1]
BY DEF Ahead

\* The order of the steps stays as it is when the first is done.
LEMMA TailShape ==
  ASSUME NEW s \in Seq(StepNames), s # <<>>, NEW u \in BOOLEAN, Shape(s, u)
  PROVE  /\ Shape(Tail(s), u)
         /\ s[1] = "change" => Len(s) > 1 /\ Tail(s) # <<>> /\ Tail(s)[1] = "save"
         /\ s[1] # "change" /\ Tail(s) # <<>> => Tail(s)[1] # "save"
         /\ s[1] \notin {"change", "keys"} => ~Ahead(Tail(s), "change")
         /\ Tail(s) # <<>> /\ Tail(s)[1] = "keys" => u
         /\ u => ~Ahead(s, "clear") /\ ~Ahead(s, "pop")
         /\ ~Ahead(Tail(s), s[1])
<1>1. /\ Len(s) \in Nat \ {0} /\ Tail(s) \in Seq(StepNames)
      /\ Len(Tail(s)) = Len(s) - 1 /\ \A k \in 1..Len(s) - 1 : Tail(s)[k] = s[k + 1]
  OBVIOUS
<1>2. Tail(s) # <<>> => Len(s) > 1
  BY <1>1
<1>3. ASSUME NEW k \in 1..Len(Tail(s))
      PROVE  /\ Tail(s)[k] = "change" => (k = 1 \/ (k = 2 /\ Tail(s)[1] = "keys"))
                                         /\ k < Len(Tail(s)) /\ Tail(s)[k + 1] = "save"
             /\ Tail(s)[k] = "save" => k = 1 \/ Tail(s)[k - 1] = "change"
             /\ Tail(s)[k] = "keys" => k = 1 \/ u
             /\ Tail(s)[k] \in {"clear", "pop"} => ~u
  <2>1. k + 1 \in 1..Len(s) /\ Tail(s)[k] = s[k + 1] /\ k \in 1..Len(s) - 1
    BY <1>1
  <2>2. Tail(s)[k] = "keys" => u
    BY <2>1 DEF Shape
  <2>3. Tail(s)[k] \in {"clear", "pop"} => ~u
    BY <2>1 DEF Shape
  <2>4. ASSUME Tail(s)[k] = "change"
        PROVE  k = 1 /\ k < Len(Tail(s)) /\ Tail(s)[k + 1] = "save"
    <3>1. k + 1 = 2 /\ k + 1 < Len(s) /\ s[k + 1 + 1] = "save"
      BY <2>1, <2>4 DEF Shape
    <3>2. k + 1 \in 1..Len(s) - 1
      BY <1>1, <3>1
    <3> QED
      BY <1>1, <3>1, <3>2
  <2>5. ASSUME Tail(s)[k] = "save", k # 1 PROVE Tail(s)[k - 1] = "change"
    <3>1. s[k + 1 - 1] = "change"
      BY <2>1, <2>5 DEF Shape
    <3>2. k - 1 \in 1..Len(s) - 1 /\ k - 1 + 1 = k /\ k + 1 - 1 = k
      BY <1>1, <2>5
    <3> QED
      BY <1>1, <3>1, <3>2
  <2> QED
    BY <2>2, <2>3, <2>4, <2>5
<1>4. s[1] = "change" => Len(s) > 1 /\ Tail(s) # <<>> /\ Tail(s)[1] = "save"
  <2>1. s[1] = "change" => Len(s) > 1 /\ s[2] = "save"
    BY <1>1 DEF Shape
  <2>2. Len(s) > 1 => Len(s) # 1 /\ Tail(s)[1] = s[2]
    BY <1>1
  <2>3. Len(s) > 1 => Tail(s) # <<>>
    BY <2>2, TailEnds
  <2> QED
    BY <2>1, <2>2, <2>3
<1>5. s[1] # "change" /\ Tail(s) # <<>> => Tail(s)[1] # "save"
  BY <1>1, <1>2 DEF Shape
<1>6. ASSUME s[1] \notin {"change", "keys"}, Ahead(Tail(s), "change") PROVE FALSE
  <2>1. PICK k \in 1..Len(s) - 1 : s[k + 1] = "change"
    BY <1>1, <1>6 DEF Ahead
  <2>2. k + 1 \in 1..Len(s)
    BY <1>1
  <2> QED
    BY <1>6, <2>1, <2>2 DEF Shape
<1>7. Tail(s) # <<>> /\ Tail(s)[1] = "keys" => u
  BY <1>1, <1>2 DEF Shape
<1>8. u => ~Ahead(s, "clear") /\ ~Ahead(s, "pop")
  BY DEF Shape, Ahead
<1>9. ASSUME Ahead(Tail(s), s[1]) PROVE FALSE
  <2>1. PICK k \in 1..Len(s) - 1 : s[k + 1] = s[1]
    BY <1>1, <1>9 DEF Ahead
  <2>2. k + 1 \in 1..Len(s) /\ 1 \in 1..Len(s) /\ k + 1 # 1
    BY <1>1
  <2> QED
    BY <2>1, <2>2 DEF Shape
<1>10. ASSUME NEW j \in 1..Len(Tail(s)), NEW k \in 1..Len(Tail(s)), Tail(s)[j] = Tail(s)[k] PROVE j = k
  <2>1. j + 1 \in 1..Len(s) /\ k + 1 \in 1..Len(s) /\ s[j + 1] = s[k + 1]
    BY <1>1, <1>10
  <2>2. j + 1 = k + 1
    BY <2>1 DEF Shape
  <2> QED
    BY <1>1, <2>2
<1> QED
  BY <1>3, <1>4, <1>5, <1>6, <1>7, <1>8, <1>9, <1>10 DEF Shape

-----------------------------------------------------------------------------
(* What the steps of every mutation share.                                 *)

IdleIsKnown == Idle.todo = <<>> /\ Idle.undo = Nothing /\ Idle.id = NoId /\ DOMAIN Idle.keys = {}

LEMMA IdleKnown == IdleIsKnown
BY DEF IdleIsKnown, Idle

LEMMA NothingIsCat == IsCat(Nothing)
BY DEF IsCat, Nothing

LEMMA IdleIsSound == ASSUME req' = Idle PROVE RequestIsSound'
<1>1. req'.todo = <<>> /\ req'.undo = Nothing
  BY DEF Idle
<1>2. ~Ahead(req'.todo, "change")
  BY <1>1, NothingAhead
<1>3. /\ req' = [todo |-> req'.todo, cat |-> req'.cat, keys |-> req'.keys, id |-> req'.id, undo |-> req'.undo]
      /\ req'.todo \in Seq(StepNames) /\ req'.id \in Ids \cup {NoId} /\ DOMAIN req'.keys \subseteq Providers
  BY DEF Idle
<1> QED
  BY <1>1, <1>2, <1>3 DEF RequestIsSound

\* The request after one of its steps: the same with one step less, or none.
LEMMA DoneLeaves ==
  ASSUME RequestIsSound, req.todo # <<>>, Done
  PROVE  /\ RequestIsSound' /\ Step = req.todo[1] /\ Ahead(req.todo, Step)
         /\ req'.todo = Tail(req.todo) /\ req'.undo \in {req.undo, Nothing}
         /\ \A x : Ahead(req'.todo, x) => Ahead(req.todo, x)
         /\ \A x : Ahead(req.todo, x) /\ x # Step => Ahead(req'.todo, x)
         /\ req' = Idle \/ (/\ req'.cat = req.cat /\ req'.keys = req.keys
                            /\ req'.id = req.id /\ req'.undo = req.undo /\ req'.todo # <<>>)
<1> USE DEF RequestIsSound
<1>1. /\ Head(req.todo) = req.todo[1] /\ Len(req.todo) \in Nat \ {0} /\ Tail(req.todo) \in Seq(StepNames)
      /\ \A x : Ahead(Tail(req.todo), x) => Ahead(req.todo, x)
      /\ \A x : Ahead(req.todo, x) /\ x # req.todo[1] => Ahead(Tail(req.todo), x)
  BY TailAhead
<1>2. Step = req.todo[1] /\ Ahead(req.todo, Step)
  BY <1>1 DEF Step, Ahead
<1>3. CASE Len(req.todo) = 1
  <2>1. req' = Idle /\ req'.todo = <<>> /\ Tail(req.todo) = <<>> /\ req'.undo = Nothing
    BY <1>3, TailEnds DEF Done, Idle
  <2>2. RequestIsSound'
    BY <2>1, IdleIsSound
  <2> QED
    BY <1>1, <1>2, <2>1, <2>2
<1>4. CASE Len(req.todo) # 1
  <2>1. req' = [req EXCEPT !.todo = Tail(req.todo)] /\ Tail(req.todo) # <<>>
    BY <1>1, <1>4, TailEnds DEF Done
  <2>2. /\ req'.todo = Tail(req.todo) /\ req'.cat = req.cat /\ req'.keys = req.keys
        /\ req'.id = req.id /\ req'.undo = req.undo
        /\ req' = [todo |-> req'.todo, cat |-> req'.cat, keys |-> req'.keys, id |-> req'.id, undo |-> req'.undo]
    BY <2>1
  <2>3. RequestIsSound'
    BY <1>1, <2>2
  <2> QED
    BY <1>1, <1>2, <2>1, <2>2, <2>3
<1> QED
  BY <1>3, <1>4

-----------------------------------------------------------------------------
(* Every step keeps the invariant that holds whatever fails.               *)

\* The v1 profiles become a catalog whose default is there, and so does the seed.
LEMMA MigratedIsSound ==
  ASSUME NEW profiles \in SUBSET Providers, profiles # {}, NEW d \in Providers
  PROVE  IsSound(Migrated(profiles, d))
<1> DEFINE c == Migrated(profiles, d)
<1>1. /\ c = [provs |-> c.provs, entries |-> c.entries, default |-> c.default]
      /\ c.provs = [p \in profiles |-> Blank] /\ DOMAIN c.entries = profiles
      /\ \A p \in profiles : c.entries[p].prov = p
  BY DEF Migrated, Entry
<1>2. c.default \in profiles
  BY DEF Migrated
<1>3. Blank \in [made : Nat, at : Nat]
  BY DEF Blank
<1> HIDE DEF c
<1>4. IsCat(c)
  BY <1>1, <1>2, <1>3 DEF IsCat, Ids
<1>5. Resolves(c)
  BY <1>1, <1>2 DEF Resolves
<1> QED
  BY <1>4, <1>5 DEF IsSound, c

LEMMA StoreInvInit == ASSUME Assumption, Init PROVE StoreInv
<1> USE DEF Init
<1>1. TypeOK
  <2>1. DOMAIN keys = {} /\ DOMAIN cache = {}
    OBVIOUS
  <2>2. round.pc = "none" /\ stamp \in 0..MaxStamp
    BY DEF NoRound, Assumption
  <2>3. disk.form \in {"none", "v1", "v2"}
    OBVIOUS
  <2> QED
    BY <2>1, <2>2, <2>3 DEF TypeOK
<1>2. DiskIsSound
  <2>1. CASE Profiles = {}
    BY <2>1 DEF DiskIsSound
  <2>2. CASE Profiles # {}
    BY <2>2 DEF DiskIsSound
  <2> QED
    BY <2>1, <2>2
<1>3. MemoryIsSound
  BY NothingIsCat DEF MemoryIsSound
<1>4. RequestIsSound
  <2>1. req.todo = <<>> /\ req.undo = Nothing
    BY DEF Idle
  <2>2. ~Ahead(req.todo, "change")
    BY <2>1, NothingAhead
  <2> QED
    BY <2>1, <2>2 DEF RequestIsSound, Idle
<1>5. StartIsAlone
  BY DEF StartIsAlone
<1>6. BackupIsBehind
  BY DEF BackupIsBehind
<1> QED
  BY <1>1, <1>2, <1>3, <1>4, <1>5, <1>6 DEF StoreInv

\* A step is taken by a mutation, or by a start.
LEMMA StepIsTaken ==
  ASSUME StoreInv, Step # ""
  PROVE  req.todo # <<>> /\ req # Idle /\ status # "down" /\ Step = req.todo[1]
         /\ (status = "starting" => Step = "save")
<1>1. req.todo # <<>>
  BY DEF Step
<1>2. Step = req.todo[1]
  BY <1>1, TailAhead DEF Step, StoreInv, RequestIsSound
<1>3. req # Idle
  BY <1>1, IdleKnown DEF IdleIsKnown
<1>4. status = "starting" => Step = "save"
  <2>1. status = "starting" => req.todo = <<"save">>
    BY DEF StoreInv, StartIsAlone
  <2>2. <<"save">>[1] = "save"
    OBVIOUS
  <2> QED
    BY <1>2, <2>1, <2>2
<1> QED
  BY <1>1, <1>2, <1>3, <1>4 DEF StoreInv, StartIsAlone

LEMMA ChangeKeeps == ASSUME StoreInv, Change PROVE StoreInv'
<1>1. /\ req.todo # <<>> /\ Step = "change" /\ status = "up" /\ Done /\ mem' = req.cat
      /\ UNCHANGED <<status, disk, bak, pending, keys, cache, stamp, model, round>>
  BY StepIsTaken DEF Change, StoreInv, TypeOK
<1>2. RequestIsSound' /\ Ahead(req.todo, "change")
  BY <1>1, DoneLeaves DEF StoreInv
<1>3. IsSound(req.cat)
  BY <1>2 DEF StoreInv, RequestIsSound
<1>4. MemoryIsSound'
  BY <1>1, <1>3 DEF MemoryIsSound, IsSound
<1> QED
  BY <1>1, <1>2, <1>4 DEF StoreInv, TypeOK, DiskIsSound, StartIsAlone, BackupIsBehind

LEMMA WriteKeysKeeps == ASSUME StoreInv, WriteKeys PROVE StoreInv'
<1>1. /\ req.todo # <<>> /\ Step = "keys" /\ status = "up" /\ Done /\ keys' = req.keys
      /\ UNCHANGED <<status, mem, disk, bak, pending, cache, stamp, model, round>>
  BY StepIsTaken DEF WriteKeys, StoreInv, TypeOK
<1>2. RequestIsSound'
  BY <1>1, DoneLeaves DEF StoreInv
<1>3. DOMAIN keys' \subseteq Providers
  BY <1>1 DEF StoreInv, RequestIsSound
<1> QED
  BY <1>1, <1>2, <1>3 DEF StoreInv, TypeOK, DiskIsSound, StartIsAlone, BackupIsBehind, MemoryIsSound

LEMMA KeysFailKeeps == ASSUME StoreInv, KeysFail PROVE StoreInv'
<1>1. /\ Step = "keys" /\ status = "up"
      /\ UNCHANGED <<status, mem, disk, bak, pending, keys, cache, stamp, model, round>>
  BY StepIsTaken DEF KeysFail, StoreInv, TypeOK
<1>2. RequestIsSound'
  <2>1. CASE req.undo = Nothing
    BY <2>1, IdleIsSound DEF KeysFail
  <2>2. CASE req.undo # Nothing
    <3>1. /\ req'.todo = <<"change", "save">> /\ req'.cat = req.undo /\ req'.undo = Nothing
          /\ req'.id = NoId /\ req'.keys = <<>>
          /\ req' = [todo |-> req'.todo, cat |-> req'.cat, keys |-> req'.keys, id |-> req'.id, undo |-> req'.undo]
      BY <2>2 DEF KeysFail, Idle
    <3>2. IsSound(req'.cat)
      BY <2>2, <3>1 DEF StoreInv, RequestIsSound
    <3>3. req'.todo \in Seq(StepNames)
      BY <3>1 DEF StepNames
    <3> QED
      BY <3>1, <3>2, <3>3 DEF RequestIsSound
  <2> QED
    BY <2>1, <2>2
<1> QED
  BY <1>1, <1>2 DEF StoreInv, TypeOK, DiskIsSound, StartIsAlone, BackupIsBehind, MemoryIsSound

LEMMA BackupKeeps == ASSUME StoreInv, Backup PROVE StoreInv'
<1>1. PICK b \in {"none", "torn", "whole"}, ok \in BOOLEAN :
        /\ BackupIs(b, ok) /\ bak' = b /\ pending' = ~ok
        /\ req' = IF ok THEN req ELSE Idle
        /\ status' = IF ok THEN status ELSE "up"
  BY DEF Backup
<1>2. Step = "save" /\ status # "down" /\ UNCHANGED <<mem, disk, keys, cache, stamp, model, round>>
  BY StepIsTaken DEF Backup
<1>3. status' # "down" /\ (status' = "starting" => status = "starting" /\ ok)
  BY <1>1, <1>2 DEF StoreInv, TypeOK
<1>4. RequestIsSound'
  <2>1. CASE ok
    BY <1>1, <2>1 DEF StoreInv, RequestIsSound
  <2>2. CASE ~ok
    BY <1>1, <2>2, IdleIsSound
  <2> QED
    BY <2>1, <2>2
<1>5. BackupIsBehind'
  BY <1>1, <1>2 DEF StoreInv, BackupIsBehind, BackupIs
<1>6. StartIsAlone'
  <2>1. CASE ok
    BY <1>1, <1>2, <2>1 DEF StoreInv, StartIsAlone
  <2>2. CASE ~ok
    BY <1>1, <1>2, <2>2 DEF StoreInv, StartIsAlone
  <2> QED
    BY <2>1, <2>2
<1>7. TypeOK'
  BY <1>1, <1>2, <1>3 DEF StoreInv, TypeOK
<1> QED
  BY <1>2, <1>3, <1>4, <1>5, <1>6, <1>7 DEF StoreInv, DiskIsSound, MemoryIsSound

LEMMA SaveKeeps == ASSUME StoreInv, Save PROVE StoreInv'
<1>1. /\ req.todo # <<>> /\ Step = "save" /\ ~pending /\ status # "down" /\ Done
      /\ disk' = [form |-> "v2", cat |-> mem] /\ status' = "up"
      /\ UNCHANGED <<mem, bak, pending, keys, cache, stamp, model, round>>
  BY StepIsTaken DEF Save
<1>2. RequestIsSound'
  BY <1>1, DoneLeaves DEF StoreInv
<1>3. DiskIsSound' /\ MemoryIsSound'
  BY <1>1 DEF StoreInv, DiskIsSound, MemoryIsSound, IsSound
<1>4. BackupIsBehind' /\ StartIsAlone'
  BY <1>1 DEF StoreInv, BackupIsBehind, StartIsAlone
<1>5. TypeOK'
  BY <1>1 DEF StoreInv, TypeOK
<1> QED
  BY <1>2, <1>3, <1>4, <1>5 DEF StoreInv

LEMMA SaveFailsKeeps == ASSUME StoreInv, SaveFails PROVE StoreInv'
<1>1. /\ status # "down" /\ ~pending
      /\ req' = Idle /\ status' = IF status = "starting" THEN "down" ELSE status
      /\ mem' = IF status = "starting" THEN Nothing ELSE mem
      /\ UNCHANGED <<disk, bak, pending, keys, cache, stamp, model, round>>
  BY StepIsTaken DEF SaveFails
<1>2. RequestIsSound'
  BY <1>1, IdleIsSound
<1>3. MemoryIsSound'
  <2>1. CASE status = "starting"
    BY <1>1, <2>1, NothingIsCat DEF MemoryIsSound
  <2>2. CASE status # "starting"
    BY <1>1, <2>2 DEF StoreInv, MemoryIsSound
  <2> QED
    BY <2>1, <2>2
<1>4. StartIsAlone' /\ BackupIsBehind' /\ TypeOK'
  <2>1. CASE status = "starting"
    BY <1>1, <2>1 DEF StoreInv, StartIsAlone, BackupIsBehind, TypeOK
  <2>2. CASE status # "starting"
    BY <1>1, <2>2 DEF StoreInv, StartIsAlone, BackupIsBehind, TypeOK
  <2> QED
    BY <2>1, <2>2
<1> QED
  BY <1>1, <1>2, <1>3, <1>4 DEF StoreInv, DiskIsSound

LEMMA ClearKeeps == ASSUME StoreInv, Clear PROVE StoreInv'
<1>1. /\ req.todo # <<>> /\ Step \in {"clear", "pop"} /\ status = "up" /\ Done
      /\ UNCHANGED <<status, mem, disk, bak, pending, keys, stamp, model, round>>
  BY StepIsTaken DEF Clear, StoreInv, TypeOK
<1>2. RequestIsSound'
  BY <1>1, DoneLeaves DEF StoreInv
<1>3. DOMAIN cache' \subseteq DOMAIN cache
  <2>1. CASE Step = "clear"
    BY <2>1 DEF Clear
  <2>2. CASE Step # "clear"
    BY <2>2 DEF Clear, Restrict
  <2> QED
    BY <2>1, <2>2
<1> QED
  BY <1>1, <1>2, <1>3 DEF StoreInv, TypeOK, DiskIsSound, StartIsAlone, BackupIsBehind, MemoryIsSound

LEMMA PointKeeps == ASSUME StoreInv, Point PROVE StoreInv'
<1>1. /\ req.todo # <<>> /\ Step = "point" /\ status = "up" /\ Done /\ model' = req.id
      /\ UNCHANGED <<status, mem, disk, bak, pending, keys, cache, stamp, round>>
  BY StepIsTaken DEF Point, StoreInv, TypeOK
<1>2. RequestIsSound'
  BY <1>1, DoneLeaves DEF StoreInv
<1>3. model' \in Ids \cup {NoId}
  BY <1>1 DEF StoreInv, RequestIsSound
<1> QED
  BY <1>1, <1>2, <1>3 DEF StoreInv, TypeOK, DiskIsSound, StartIsAlone, BackupIsBehind, MemoryIsSound

LEMMA StartKeeps == ASSUME Assumption, StoreInv, Start PROVE StoreInv'
<1>1. status = "down" /\ req = Idle /\ DOMAIN cache = {} /\ UNCHANGED <<disk, bak, keys, cache, stamp, model, round>>
  BY DEF Start, StoreInv, StartIsAlone
<1>2. CASE disk.form = "v2" /\ mem' = disk.cat /\ status' = "up" /\ UNCHANGED <<req, pending>>
  <2>1. MemoryIsSound' /\ RequestIsSound' /\ DiskIsSound'
    BY <1>1, <1>2 DEF StoreInv, DiskIsSound, MemoryIsSound, IsSound, RequestIsSound
  <2>2. StartIsAlone' /\ BackupIsBehind' /\ TypeOK'
    BY <1>1, <1>2 DEF StoreInv, StartIsAlone, BackupIsBehind, TypeOK
  <2> QED
    BY <2>1, <2>2 DEF StoreInv
<1>3. CASE /\ disk.form # "v2"
           /\ mem' = IF disk.form = "none" THEN Seeded
                     ELSE Migrated(disk.cat.profiles, disk.cat.default)
           /\ status' = "starting" /\ req' = [Idle EXCEPT !.todo = <<"save">>]
           /\ pending' = (disk.form = "v1")
  <2>1. IsSound(mem')
    <3>1. CASE disk.form = "none"
      BY <1>3, <3>1, MigratedIsSound DEF Seeded, Assumption
    <3>2. CASE disk.form = "v1"
      BY <1>3, <3>2, MigratedIsSound DEF Assumption, StoreInv, DiskIsSound
    <3> QED
      BY <1>3, <3>1, <3>2 DEF StoreInv, DiskIsSound
  <2>2. MemoryIsSound' /\ DiskIsSound'
    BY <1>1, <1>3, <2>1 DEF MemoryIsSound, IsSound, StoreInv, DiskIsSound
  <2>3. /\ req'.todo = <<"save">> /\ req'.undo = Nothing /\ req'.id = NoId /\ req'.keys = <<>>
        /\ req' = [todo |-> req'.todo, cat |-> req'.cat, keys |-> req'.keys, id |-> req'.id, undo |-> req'.undo]
    BY <1>3 DEF Idle
  <2>4. RequestIsSound'
    <3>1. ~Ahead(req'.todo, "change") /\ req'.todo \in Seq(StepNames)
      BY <2>3 DEF Ahead, StepNames
    <3> QED
      BY <2>3, <3>1 DEF RequestIsSound
  <2>5. BackupIsBehind'
    <3>1. disk.form = "none" => Profiles = {}
      BY DEF StoreInv, DiskIsSound
    <3>2. disk.form \in {"none", "v1"}
      BY <1>3 DEF StoreInv, DiskIsSound
    <3> QED
      BY <1>1, <1>3, <3>1, <3>2 DEF StoreInv, BackupIsBehind
  <2>6. StartIsAlone' /\ TypeOK'
    BY <1>1, <1>3, <2>3 DEF StoreInv, StartIsAlone, TypeOK
  <2> QED
    BY <2>2, <2>4, <2>5, <2>6 DEF StoreInv
<1> QED
  BY <1>2, <1>3 DEF Start

LEMMA CrashKeeps == ASSUME StoreInv, Crash PROVE StoreInv'
<1>1. /\ status' = "down" /\ mem' = Nothing /\ pending' = FALSE
      /\ cache' = <<>> /\ req' = Idle /\ round' = NoRound
      /\ UNCHANGED <<disk, bak, keys, stamp, model>>
  BY DEF Crash
<1>2. RequestIsSound'
  BY <1>1, IdleIsSound
<1>3. MemoryIsSound' /\ StartIsAlone' /\ BackupIsBehind'
  BY <1>1, NothingIsCat DEF MemoryIsSound, StartIsAlone, StoreInv, BackupIsBehind
<1>4. TypeOK'
  <2>1. DOMAIN cache' = {} /\ round'.pc = "none"
    BY <1>1 DEF NoRound
  <2> QED
    BY <1>1, <2>1 DEF StoreInv, TypeOK
<1> QED
  BY <1>1, <1>2, <1>3, <1>4 DEF StoreInv, DiskIsSound

LEMMA RoundKeeps == ASSUME StoreInv, TakeClient \/ PinRound \/ EndRound PROVE StoreInv'
<1>1. CASE TakeClient
  <2> DEFINE e == IF model = NoId THEN mem.default ELSE model
             c == IF e \in DOMAIN cache THEN cache[e] ELSE Client(e)
  <2>1. /\ e \in DOMAIN mem.entries /\ status = "up"
        /\ cache' = Added(cache, e, c) /\ round'.pc = "named"
        /\ UNCHANGED <<status, mem, disk, bak, pending, keys, req, stamp, model>>
    BY <1>1 DEF TakeClient, LockFree
  <2>2. e \in Ids
    BY <2>1 DEF StoreInv, MemoryIsSound, IsCat
  <2> HIDE DEF e, c
  <2>3. DOMAIN cache' \subseteq Ids
    BY <2>1, <2>2 DEF Added, StoreInv, TypeOK
  <2> QED
    BY <2>1, <2>3 DEF StoreInv, TypeOK, DiskIsSound, MemoryIsSound, RequestIsSound, StartIsAlone, BackupIsBehind
<1>2. CASE PinRound \/ EndRound
  <2>1. round'.pc \in {"none", "pinned"} /\ UNCHANGED <<status, mem, disk, bak, pending, keys, cache, req, stamp, model>>
    <3>1. CASE PinRound
      <4>1. round' = [round EXCEPT !.pc = "pinned", !.id = IF model = NoId THEN mem.default ELSE model]
        BY <3>1 DEF PinRound
      <4> QED
        BY <3>1, <4>1 DEF PinRound, StoreInv, TypeOK
    <3>2. CASE EndRound
      BY <3>2 DEF EndRound, NoRound
    <3> QED
      BY <1>2, <3>1, <3>2
  <2> QED
    BY <2>1 DEF StoreInv, TypeOK, DiskIsSound, MemoryIsSound, RequestIsSound, StartIsAlone, BackupIsBehind
<1> QED
  BY <1>1, <1>2

LEMMA SetModelKeeps == ASSUME StoreInv, NEW e \in Ids, SetModel(e) PROVE StoreInv'
BY DEF SetModel, StoreInv, TypeOK, DiskIsSound, MemoryIsSound, RequestIsSound, StartIsAlone, BackupIsBehind

-----------------------------------------------------------------------------
(* The mutations: the steps that each has, and the catalog that it makes.  *)

Consists(x, fs, es, d) ==
  /\ x.provs = fs /\ x.entries = es /\ x.default = d
  /\ x \in [provs : {x.provs}, entries : {x.entries}, default : {x.default}]

LEMMA AddedIs ==
  ASSUME NEW f, NEW k, NEW v
  PROVE  /\ DOMAIN Added(f, k, v) = DOMAIN f \cup {k}
         /\ \A x \in DOMAIN f : Added(f, k, v)[x] = f[x]
         /\ k \notin DOMAIN f => Added(f, k, v)[k] = v
BY DEF Added

LEMMA PastedIs ==
  ASSUME NEW p, NEW made
  PROVE  /\ DOMAIN Pasted(p, made) = DOMAIN keys \cup {p} /\ Pasted(p, made)[p].made = made
         /\ \A q \in DOMAIN keys : q # p => Pasted(p, made)[q] = keys[q]
BY DEF Pasted

LEMMA RevokedIs ==
  ASSUME NEW p
  PROVE  /\ DOMAIN Revoked(p) = DOMAIN keys \ {p}
         /\ \A q \in DOMAIN keys : q # p => Revoked(p)[q] = keys[q]
BY DEF Revoked, Restrict

\* The catalogs that mutations make of another one, each by what becomes of its parts.
LEMMA EditedIs ==
  ASSUME NEW c, IsCat(c), NEW fs, NEW es, NEW d
  PROVE  /\ Consists([c EXCEPT !.provs = fs, !.entries = es], fs, es, c.default)
         /\ Consists([c EXCEPT !.entries = es, !.default = d], c.provs, es, d)
         /\ Consists([c EXCEPT !.default = d], c.provs, c.entries, d)
         /\ Consists([c EXCEPT !.provs = fs], fs, c.entries, c.default)
         /\ Consists([c EXCEPT !.entries = es], c.provs, es, c.default)
BY DEF IsCat, Consists

\* A catalog without some of its entries, one of which is left, is sound.
LEMMA WithoutIs ==
  ASSUME NEW c, IsSound(c), NEW es, DOMAIN c.entries \ es # {}, NEW r \in Without(c, es)
  PROVE  /\ IsSound(r) /\ r.provs = c.provs /\ DOMAIN r.entries = DOMAIN c.entries \ es
         /\ \A e \in DOMAIN r.entries : r.entries[e] = c.entries[e]
<1> DEFINE left == DOMAIN c.entries \ es
<1>1. PICK d \in left : r = [c EXCEPT !.entries = Restrict(c.entries, left), !.default = d]
  BY DEF Without
<1>2. /\ r.provs = c.provs /\ r.entries = Restrict(c.entries, left) /\ r.default = d
      /\ r \in [provs : {r.provs}, entries : {r.entries}, default : {r.default}]
  BY <1>1, EditedIs DEF IsSound, Consists
<1>3. DOMAIN r.entries = left /\ \A e \in left : r.entries[e] = c.entries[e]
  BY <1>2 DEF Restrict
<1>4. IsSound(r)
  BY <1>1, <1>2, <1>3 DEF IsSound, IsCat, Resolves
<1> QED
  BY <1>2, <1>3, <1>4

\* A provider without entries can be left out.
LeavesOut(c, p, w) ==
  /\ IsSound(w) /\ w.entries = c.entries /\ DOMAIN w.provs = DOMAIN c.provs \ {p}
  /\ \A q \in DOMAIN w.provs : w.provs[q] = c.provs[q]

LEMMA WithoutProviderIs ==
  ASSUME NEW c, IsSound(c), NEW p, EntriesOf(c, p) = {}
  PROVE  LeavesOut(c, p, WithoutProvider(c, p))
<1> DEFINE w == WithoutProvider(c, p)
<1>1. /\ w.provs = Restrict(c.provs, DOMAIN c.provs \ {p}) /\ w.entries = c.entries /\ w.default = c.default
      /\ w \in [provs : {w.provs}, entries : {w.entries}, default : {w.default}]
  BY EditedIs DEF WithoutProvider, IsSound, Consists
<1> HIDE DEF w
<1>2. DOMAIN w.provs = DOMAIN c.provs \ {p} /\ \A q \in DOMAIN w.provs : w.provs[q] = c.provs[q]
  BY <1>1 DEF Restrict
<1>3. \A e \in DOMAIN c.entries : c.entries[e].prov # p
  BY DEF EntriesOf
<1>4. IsSound(w)
  BY <1>1, <1>2, <1>3 DEF IsSound, IsCat, Resolves
<1> QED
  BY <1>1, <1>2, <1>4 DEF w, LeavesOut

\* A provider more, with an entry of its own or without; an entry more of one that is there.
LEMMA WithMoreIs ==
  ASSUME NEW c, IsSound(c), NEW p \in Providers, NEW at \in [made : Nat, at : Nat],
         NEW e \in Ids, NEW entry, entry.prov \in DOMAIN c.provs \cup {p}
  PROVE  LET x == [c EXCEPT !.provs = Added(c.provs, p, at)]
             y == [c EXCEPT !.provs = Added(c.provs, p, at), !.entries = Added(c.entries, e, entry)]
         IN  IsSound(x) /\ IsSound(y) /\ Carries(c, x) /\ Carries(c, y)
<1> DEFINE fs == Added(c.provs, p, at)
           es == Added(c.entries, e, entry)
<1>1. /\ DOMAIN fs = DOMAIN c.provs \cup {p} /\ \A q \in DOMAIN c.provs : fs[q] = c.provs[q]
      /\ p \notin DOMAIN c.provs => fs[p] = at
  BY DEF Added
<1>2. /\ DOMAIN es = DOMAIN c.entries \cup {e} /\ \A q \in DOMAIN c.entries : es[q] = c.entries[q]
      /\ e \notin DOMAIN c.entries => es[e] = entry
  BY DEF Added
<1> HIDE DEF fs, es
<1>3. /\ IsCat(c) /\ Resolves(c)
  BY DEF IsSound
<1>4. IsSound([c EXCEPT !.provs = fs]) /\ Carries(c, [c EXCEPT !.provs = fs])
  <2> DEFINE x == [c EXCEPT !.provs = fs]
  <2>1. x.provs = fs /\ x.entries = c.entries /\ x.default = c.default
        /\ x \in [provs : {x.provs}, entries : {x.entries}, default : {x.default}]
    BY <1>3, EditedIs DEF Consists
  <2> HIDE DEF x
  <2>2. IsSound(x)
    BY <1>1, <1>3, <2>1 DEF IsSound, IsCat, Resolves
  <2>3. Carries(c, x)
    BY <1>1, <1>3, <2>1 DEF Carries, Same, Resolves
  <2> QED
    BY <2>2, <2>3 DEF x
<1>5. /\ IsSound([c EXCEPT !.provs = fs, !.entries = es])
      /\ Carries(c, [c EXCEPT !.provs = fs, !.entries = es])
  <2> DEFINE x == [c EXCEPT !.provs = fs, !.entries = es]
  <2>1. x.provs = fs /\ x.entries = es /\ x.default = c.default
        /\ x \in [provs : {x.provs}, entries : {x.entries}, default : {x.default}]
    BY <1>3, EditedIs DEF Consists
  <2> HIDE DEF x
  <2>2. IsCat(x)
    BY <1>1, <1>2, <1>3, <2>1 DEF IsCat
  <2>3. Resolves(x)
    BY <1>1, <1>2, <1>3, <2>1 DEF Resolves
  <2>4. Carries(c, x)
    BY <1>1, <1>2, <1>3, <2>1 DEF Carries, Same, Resolves
  <2> QED
    BY <2>2, <2>3, <2>4 DEF x, IsSound
<1> QED
  BY <1>4, <1>5 DEF fs, es

LEMMA WithEntryIs ==
  ASSUME NEW c, IsSound(c), NEW e \in Ids, NEW entry, entry.prov \in DOMAIN c.provs
  PROVE  LET x == [c EXCEPT !.entries = Added(c.entries, e, entry)] IN
         IsSound(x) /\ Carries(c, x) /\ x.provs = c.provs
<1> DEFINE es == Added(c.entries, e, entry)
           x == [c EXCEPT !.entries = es]
<1>1. /\ DOMAIN es = DOMAIN c.entries \cup {e} /\ \A q \in DOMAIN c.entries : es[q] = c.entries[q]
      /\ e \notin DOMAIN c.entries => es[e] = entry
  BY DEF Added
<1>2. IsCat(c) /\ Resolves(c)
  BY DEF IsSound
<1> HIDE DEF es
<1>3. x.provs = c.provs /\ x.entries = es /\ x.default = c.default
      /\ x \in [provs : {x.provs}, entries : {x.entries}, default : {x.default}]
  BY <1>2, EditedIs DEF Consists
<1> HIDE DEF x
<1>4. IsCat(x)
  BY <1>1, <1>2, <1>3 DEF IsCat
<1>5. Resolves(x)
  BY <1>1, <1>2, <1>3 DEF Resolves
<1>6. Carries(c, x)
  BY <1>1, <1>2, <1>3 DEF Carries, Same, Resolves
<1> QED
  BY <1>3, <1>4, <1>5, <1>6 DEF x, es, IsSound

\* An entry or a provider's address, edited.
Edits(c, x) ==
  /\ IsSound(x) /\ DOMAIN x.provs = DOMAIN c.provs
  /\ \A q \in DOMAIN c.provs : x.provs[q].made = c.provs[q].made

LEMMA EditsAreSound ==
  ASSUME NEW c, IsSound(c), NEW e \in DOMAIN c.entries, NEW p \in DOMAIN c.provs, NEW n \in Nat, NEW m
  PROVE  /\ Edits(c, [c EXCEPT !.entries[e] = Entry(c.entries[e].prov, m, n)])
         /\ Edits(c, [c EXCEPT !.provs[p].at = n])
         /\ Edits(c, [c EXCEPT !.entries[e] = Entry(c.entries[e].prov, m, n), !.provs[p].at = n])
<1> DEFINE entry == Entry(c.entries[e].prov, m, n)
           es == [c.entries EXCEPT ![e] = entry]
           fs == [c.provs EXCEPT ![p].at = n]
<1>1. DOMAIN es = DOMAIN c.entries /\ \A x \in DOMAIN c.entries : es[x].prov = c.entries[x].prov
  BY DEF Entry
<1>2. /\ DOMAIN fs = DOMAIN c.provs
      /\ \A q \in DOMAIN c.provs : fs[q] \in [made : Nat, at : Nat] /\ fs[q].made = c.provs[q].made
  BY DEF IsSound, IsCat
<1>3. IsCat(c) /\ Resolves(c)
  BY DEF IsSound
<1> HIDE DEF entry, es, fs
<1>4. IsSound([c EXCEPT !.entries = es]) /\ [c EXCEPT !.entries = es].provs = c.provs
  <2> DEFINE x == [c EXCEPT !.entries = es]
  <2>1. x.provs = c.provs /\ x.entries = es /\ x.default = c.default
        /\ x \in [provs : {x.provs}, entries : {x.entries}, default : {x.default}]
    BY <1>3, EditedIs DEF Consists
  <2> HIDE DEF x
  <2>2. IsSound(x)
    BY <1>1, <1>3, <2>1 DEF IsSound, IsCat, Resolves
  <2> QED
    BY <2>1, <2>2 DEF x
<1>5. IsSound([c EXCEPT !.provs = fs]) /\ [c EXCEPT !.provs = fs].provs = fs
  <2> DEFINE x == [c EXCEPT !.provs = fs]
  <2>1. x.provs = fs /\ x.entries = c.entries /\ x.default = c.default
        /\ x \in [provs : {x.provs}, entries : {x.entries}, default : {x.default}]
    BY <1>3, EditedIs DEF Consists
  <2> HIDE DEF x
  <2>2. IsSound(x)
    BY <1>2, <1>3, <2>1 DEF IsSound, IsCat, Resolves
  <2> QED
    BY <2>1, <2>2 DEF x
<1>6. IsSound([c EXCEPT !.provs = fs, !.entries = es]) /\ [c EXCEPT !.provs = fs, !.entries = es].provs = fs
  <2> DEFINE x == [c EXCEPT !.provs = fs, !.entries = es]
  <2>1. x.provs = fs /\ x.entries = es /\ x.default = c.default
        /\ x \in [provs : {x.provs}, entries : {x.entries}, default : {x.default}]
    BY <1>3, EditedIs DEF Consists
  <2> HIDE DEF x
  <2>2. IsSound(x)
    BY <1>1, <1>2, <1>3, <2>1 DEF IsSound, IsCat, Resolves
  <2> QED
    BY <2>1, <2>2 DEF x
<1>7. /\ [c EXCEPT !.entries[e] = entry] = [c EXCEPT !.entries = es]
      /\ [c EXCEPT !.provs[p].at = n] = [c EXCEPT !.provs = fs]
      /\ [c EXCEPT !.entries[e] = entry, !.provs[p].at = n] = [c EXCEPT !.provs = fs, !.entries = es]
  BY <1>3 DEF es, fs, IsCat
<1> QED
  BY <1>2, <1>4, <1>5, <1>6, <1>7 DEF entry, Edits

-----------------------------------------------------------------------------
(* Each mutation's request is one that its steps can carry out.            *)

\* The steps that are ahead of a request that has not begun.
Consisting(s, first, xs) ==
  s \in Seq(StepNames) /\ s # <<>> /\ s[1] = first /\ \A x : Ahead(s, x) <=> x \in xs

LEMMA PlansAre ==
  /\ Consisting(<<"change", "save">>, "change", {"change", "save"})
  /\ Consisting(<<"change", "save", "clear">>, "change", {"change", "save", "clear"})
  /\ Consisting(<<"keys", "change", "save", "clear">>, "keys", {"keys", "change", "save", "clear"})
  /\ Consisting(<<"keys", "clear">>, "keys", {"keys", "clear"})
  /\ Consisting(<<"change", "save", "keys">>, "change", {"change", "save", "keys"})
  /\ Consisting(<<"change", "save", "pop">>, "change", {"change", "save", "pop"})
  /\ Consisting(<<"point", "pop">>, "point", {"point", "pop"})
  /\ Consisting(<<"change", "save", "point", "pop">>, "change", {"change", "save", "point", "pop"})
<1>1. Consisting(<<"change", "save">>, "change", {"change", "save"})
  <2> DEFINE s == <<"change", "save">>
  <2>1. Len(s) = 2 /\ s \in Seq(StepNames) /\ s[1] = "change" /\ s[2] = "save"
    BY DEF StepNames
  <2> HIDE DEF s
  <2>2. 1..Len(s) = {1, 2} /\ s # <<>>
    BY <2>1
  <2>3. \A x : Ahead(s, x) <=> x \in {"change", "save"}
    BY <2>1, <2>2 DEF Ahead
  <2> QED
    BY <2>1, <2>2, <2>3 DEF Consisting, s
<1>2. Consisting(<<"change", "save", "clear">>, "change", {"change", "save", "clear"})
  <2> DEFINE s == <<"change", "save", "clear">>
  <2>1. Len(s) = 3 /\ s \in Seq(StepNames) /\ s[1] = "change" /\ s[2] = "save" /\ s[3] = "clear"
    BY DEF StepNames
  <2> HIDE DEF s
  <2>2. 1..Len(s) = {1, 2, 3} /\ s # <<>>
    BY <2>1
  <2>3. \A x : Ahead(s, x) <=> x \in {"change", "save", "clear"}
    BY <2>1, <2>2 DEF Ahead
  <2> QED
    BY <2>1, <2>2, <2>3 DEF Consisting, s
<1>3. Consisting(<<"keys", "change", "save", "clear">>, "keys", {"keys", "change", "save", "clear"})
  <2> DEFINE s == <<"keys", "change", "save", "clear">>
  <2>1. Len(s) = 4 /\ s \in Seq(StepNames) /\ s[1] = "keys" /\ s[2] = "change" /\ s[3] = "save" /\ s[4] = "clear"
    BY DEF StepNames
  <2> HIDE DEF s
  <2>2. 1..Len(s) = {1, 2, 3, 4} /\ s # <<>>
    BY <2>1
  <2>3. \A x : Ahead(s, x) <=> x \in {"keys", "change", "save", "clear"}
    BY <2>1, <2>2 DEF Ahead
  <2> QED
    BY <2>1, <2>2, <2>3 DEF Consisting, s
<1>4. Consisting(<<"keys", "clear">>, "keys", {"keys", "clear"})
  <2> DEFINE s == <<"keys", "clear">>
  <2>1. Len(s) = 2 /\ s \in Seq(StepNames) /\ s[1] = "keys" /\ s[2] = "clear"
    BY DEF StepNames
  <2> HIDE DEF s
  <2>2. 1..Len(s) = {1, 2} /\ s # <<>>
    BY <2>1
  <2>3. \A x : Ahead(s, x) <=> x \in {"keys", "clear"}
    BY <2>1, <2>2 DEF Ahead
  <2> QED
    BY <2>1, <2>2, <2>3 DEF Consisting, s
<1>5. Consisting(<<"change", "save", "keys">>, "change", {"change", "save", "keys"})
  <2> DEFINE s == <<"change", "save", "keys">>
  <2>1. Len(s) = 3 /\ s \in Seq(StepNames) /\ s[1] = "change" /\ s[2] = "save" /\ s[3] = "keys"
    BY DEF StepNames
  <2> HIDE DEF s
  <2>2. 1..Len(s) = {1, 2, 3} /\ s # <<>>
    BY <2>1
  <2>3. \A x : Ahead(s, x) <=> x \in {"change", "save", "keys"}
    BY <2>1, <2>2 DEF Ahead
  <2> QED
    BY <2>1, <2>2, <2>3 DEF Consisting, s
<1>6. Consisting(<<"change", "save", "pop">>, "change", {"change", "save", "pop"})
  <2> DEFINE s == <<"change", "save", "pop">>
  <2>1. Len(s) = 3 /\ s \in Seq(StepNames) /\ s[1] = "change" /\ s[2] = "save" /\ s[3] = "pop"
    BY DEF StepNames
  <2> HIDE DEF s
  <2>2. 1..Len(s) = {1, 2, 3} /\ s # <<>>
    BY <2>1
  <2>3. \A x : Ahead(s, x) <=> x \in {"change", "save", "pop"}
    BY <2>1, <2>2 DEF Ahead
  <2> QED
    BY <2>1, <2>2, <2>3 DEF Consisting, s
<1>7. Consisting(<<"point", "pop">>, "point", {"point", "pop"})
  <2> DEFINE s == <<"point", "pop">>
  <2>1. Len(s) = 2 /\ s \in Seq(StepNames) /\ s[1] = "point" /\ s[2] = "pop"
    BY DEF StepNames
  <2> HIDE DEF s
  <2>2. 1..Len(s) = {1, 2} /\ s # <<>>
    BY <2>1
  <2>3. \A x : Ahead(s, x) <=> x \in {"point", "pop"}
    BY <2>1, <2>2 DEF Ahead
  <2> QED
    BY <2>1, <2>2, <2>3 DEF Consisting, s
<1>8. Consisting(<<"change", "save", "point", "pop">>, "change", {"change", "save", "point", "pop"})
  <2> DEFINE s == <<"change", "save", "point", "pop">>
  <2>1. Len(s) = 4 /\ s \in Seq(StepNames) /\ s[1] = "change" /\ s[2] = "save" /\ s[3] = "point" /\ s[4] = "pop"
    BY DEF StepNames
  <2> HIDE DEF s
  <2>2. 1..Len(s) = {1, 2, 3, 4} /\ s # <<>>
    BY <2>1
  <2>3. \A x : Ahead(s, x) <=> x \in {"change", "save", "point", "pop"}
    BY <2>1, <2>2 DEF Ahead
  <2> QED
    BY <2>1, <2>2, <2>3 DEF Consisting, s
<1> QED
  BY <1>1, <1>2, <1>3, <1>4, <1>5, <1>6, <1>7, <1>8

\* Their order is that of a change, its save, and then the clients; only a provider that
\* may be taken back has its keys behind the save.
LEMMA PlansHaveShape ==
  ASSUME NEW u \in BOOLEAN
  PROVE
  /\ Shape(<<"change", "save">>, u)
  /\ ~u => Shape(<<"change", "save", "clear">>, u)
  /\ ~u => Shape(<<"keys", "change", "save", "clear">>, u)
  /\ ~u => Shape(<<"keys", "clear">>, u)
  /\ u => Shape(<<"change", "save", "keys">>, u)
  /\ ~u => Shape(<<"change", "save", "pop">>, u)
  /\ ~u => Shape(<<"point", "pop">>, u)
  /\ ~u => Shape(<<"change", "save", "point", "pop">>, u)
<1>1. Shape(<<"change", "save">>, u)
  <2> DEFINE s == <<"change", "save">>
  <2>1. Len(s) = 2 /\ s[1] = "change" /\ s[2] = "save"
    OBVIOUS
  <2> HIDE DEF s
  <2>2. 1..Len(s) = {1, 2}
    BY <2>1
  <2>3. Shape(s, u)
    BY <2>1, <2>2 DEF Shape
  <2> QED
    BY <2>3 DEF s
<1>2. ~u => Shape(<<"change", "save", "clear">>, u)
  <2> DEFINE s == <<"change", "save", "clear">>
  <2>1. Len(s) = 3 /\ s[1] = "change" /\ s[2] = "save" /\ s[3] = "clear"
    OBVIOUS
  <2> HIDE DEF s
  <2>2. 1..Len(s) = {1, 2, 3}
    BY <2>1
  <2>3. ~u => Shape(s, u)
    BY <2>1, <2>2 DEF Shape
  <2> QED
    BY <2>3 DEF s
<1>3. ~u => Shape(<<"keys", "change", "save", "clear">>, u)
  <2> DEFINE s == <<"keys", "change", "save", "clear">>
  <2>1. Len(s) = 4 /\ s[1] = "keys" /\ s[2] = "change" /\ s[3] = "save" /\ s[4] = "clear"
    OBVIOUS
  <2> HIDE DEF s
  <2>2. 1..Len(s) = {1, 2, 3, 4}
    BY <2>1
  <2>3. ~u => Shape(s, u)
    BY <2>1, <2>2 DEF Shape
  <2> QED
    BY <2>3 DEF s
<1>4. ~u => Shape(<<"keys", "clear">>, u)
  <2> DEFINE s == <<"keys", "clear">>
  <2>1. Len(s) = 2 /\ s[1] = "keys" /\ s[2] = "clear"
    OBVIOUS
  <2> HIDE DEF s
  <2>2. 1..Len(s) = {1, 2}
    BY <2>1
  <2>3. ~u => Shape(s, u)
    BY <2>1, <2>2 DEF Shape
  <2> QED
    BY <2>3 DEF s
<1>5. u => Shape(<<"change", "save", "keys">>, u)
  <2> DEFINE s == <<"change", "save", "keys">>
  <2>1. Len(s) = 3 /\ s[1] = "change" /\ s[2] = "save" /\ s[3] = "keys"
    OBVIOUS
  <2> HIDE DEF s
  <2>2. 1..Len(s) = {1, 2, 3}
    BY <2>1
  <2>3. u => Shape(s, u)
    BY <2>1, <2>2 DEF Shape
  <2> QED
    BY <2>3 DEF s
<1>6. ~u => Shape(<<"change", "save", "pop">>, u)
  <2> DEFINE s == <<"change", "save", "pop">>
  <2>1. Len(s) = 3 /\ s[1] = "change" /\ s[2] = "save" /\ s[3] = "pop"
    OBVIOUS
  <2> HIDE DEF s
  <2>2. 1..Len(s) = {1, 2, 3}
    BY <2>1
  <2>3. ~u => Shape(s, u)
    BY <2>1, <2>2 DEF Shape
  <2> QED
    BY <2>3 DEF s
<1>7. ~u => Shape(<<"point", "pop">>, u)
  <2> DEFINE s == <<"point", "pop">>
  <2>1. Len(s) = 2 /\ s[1] = "point" /\ s[2] = "pop"
    OBVIOUS
  <2> HIDE DEF s
  <2>2. 1..Len(s) = {1, 2}
    BY <2>1
  <2>3. ~u => Shape(s, u)
    BY <2>1, <2>2 DEF Shape
  <2> QED
    BY <2>3 DEF s
<1>8. ~u => Shape(<<"change", "save", "point", "pop">>, u)
  <2> DEFINE s == <<"change", "save", "point", "pop">>
  <2>1. Len(s) = 4 /\ s[1] = "change" /\ s[2] = "save" /\ s[3] = "point" /\ s[4] = "pop"
    OBVIOUS
  <2> HIDE DEF s
  <2>2. 1..Len(s) = {1, 2, 3, 4}
    BY <2>1
  <2>3. ~u => Shape(s, u)
    BY <2>1, <2>2 DEF Shape
  <2> QED
    BY <2>3 DEF s
<1> QED
  BY <1>1, <1>2, <1>3, <1>4, <1>5, <1>6, <1>7, <1>8

LEMMA SavedFits ==
  ASSUME NEW r, r.todo = <<"change", "save">>, Owned(keys, r.cat), Carries(mem, r.cat)
  PROVE  Fits(r)
<1>1. Consisting(r.todo, "change", {"change", "save"}) /\ Shape(r.todo, r.undo # Nothing)
  BY PlansAre, PlansHaveShape
<1>2. KeysFit(r) /\ ClientsFit(r)
  BY <1>1 DEF KeysFit, ClientsFit, Consisting, Carries
<1> QED
  BY <1>1, <1>2 DEF Fits

LEMMA ClearedFits ==
  ASSUME NEW r, r.todo = <<"change", "save", "clear">>, r.undo = Nothing, Owned(keys, r.cat)
  PROVE  Fits(r)
<1>1. Consisting(r.todo, "change", {"change", "save", "clear"}) /\ Shape(r.todo, r.undo # Nothing)
  BY PlansAre, PlansHaveShape
<1>2. KeysFit(r) /\ ClientsFit(r)
  BY <1>1 DEF KeysFit, ClientsFit, Consisting
<1> QED
  BY <1>1, <1>2 DEF Fits

LEMMA KeysFirstFits ==
  ASSUME NEW r, r.todo \in {<<"keys", "change", "save", "clear">>, <<"keys", "clear">>}, r.undo = Nothing,
         Owned(r.keys, r.cat), Owned(r.keys, mem)
  PROVE  Fits(r)
<1>1. /\ \/ Consisting(r.todo, "keys", {"keys", "change", "save", "clear"})
         \/ Consisting(r.todo, "keys", {"keys", "clear"})
      /\ Shape(r.todo, r.undo # Nothing)
  BY PlansAre, PlansHaveShape
<1>2. KeysFit(r) /\ ClientsFit(r)
  BY <1>1 DEF KeysFit, ClientsFit, Consisting
<1> QED
  BY <1>1, <1>2 DEF Fits

LEMMA KeysLastFits ==
  ASSUME NEW r, r.todo = <<"change", "save", "keys">>, r.undo # Nothing,
         Owned(r.keys, r.cat), Owned(keys, r.cat), Owned(keys, r.undo),
         SameKeys(mem, keys, r.keys), SameKeys(r.cat, keys, r.keys),
         Carries(mem, r.cat), Carries(mem, r.undo), Carries(r.cat, r.undo)
  PROVE  Fits(r)
<1>1. Consisting(r.todo, "change", {"change", "save", "keys"}) /\ Shape(r.todo, r.undo # Nothing)
  BY PlansAre, PlansHaveShape
<1>2. KeysFit(r) /\ ClientsFit(r)
  BY <1>1 DEF KeysFit, ClientsFit, Consisting, Carries
<1> QED
  BY <1>1, <1>2 DEF Fits

LEMMA PoppedFits ==
  ASSUME NEW r, r.undo = Nothing,
         r.todo \in {<<"change", "save", "pop">>, <<"point", "pop">>, <<"change", "save", "point", "pop">>},
         r.todo # <<"point", "pop">> =>
           Owned(keys, r.cat) /\ \A e \in DOMAIN mem.entries : Same(mem, r.cat, e) \/ e = r.id
  PROVE  Fits(r)
<1>1. /\ \/ Consisting(r.todo, "change", {"change", "save", "pop"})
         \/ r.todo = <<"point", "pop">> /\ Consisting(r.todo, "point", {"point", "pop"})
         \/ Consisting(r.todo, "change", {"change", "save", "point", "pop"})
      /\ Shape(r.todo, r.undo # Nothing)
  BY PlansAre, PlansHaveShape
<1>2. ~Ahead(r.todo, "keys") /\ Ahead(r.todo, "pop") /\ (r.todo = <<"point", "pop">> => ~Ahead(r.todo, "change"))
  BY <1>1 DEF Consisting
<1>3. KeysFit(r) /\ ClientsFit(r)
  BY <1>2 DEF KeysFit, ClientsFit
<1> QED
  BY <1>1, <1>3 DEF Fits

\* Between two mutations the keys' owners are in memory and every client is fresh.
LEMMA QuietIsSound ==
  ASSUME StoreInv, LockFree
  PROVE  /\ IsSound(mem) /\ status = "up" /\ req = Idle /\ DOMAIN keys \subseteq Providers
         /\ SteadyInv => Owned(keys, mem) /\ (\A e \in DOMAIN cache : IsFresh(e))
<1>1. IsSound(mem) /\ status = "up" /\ req = Idle /\ DOMAIN keys \subseteq Providers
  BY DEF LockFree, StoreInv, MemoryIsSound, IsSound, TypeOK
<1>2. \A x : ~Ahead(req.todo, x)
  BY <1>1, NothingAhead, IdleKnown DEF IdleIsKnown
<1>3. SteadyInv => Owned(keys, mem) /\ (\A e \in DOMAIN cache : IsFresh(e))
  BY <1>1, <1>2 DEF SteadyInv, FilesAgree, ClientsAreFresh
<1> QED
  BY <1>1, <1>3

\* A request that keeps to this takes the lock and nothing else.
Requested(todo, cat, ks, id, undo) ==
  [todo |-> todo, cat |-> cat, keys |-> ks, id |-> id, undo |-> undo]

LEMMA AskKeeps ==
  ASSUME Assumption, StoreInv, NEW todo, NEW xs, NEW first, Consisting(todo, first, xs),
         NEW cat, IsSound(cat), NEW ks, DOMAIN ks \subseteq Providers,
         NEW id \in Ids, NEW undo, undo # Nothing => IsSound(undo),
         Ask(todo, cat, ks, id, undo)
  PROVE  /\ StoreInv'
         /\ SteadyInv /\ Fits(Requested(todo, cat, ks, id, undo)) => SteadyInv'
<1>1. /\ LockFree /\ stamp < MaxStamp /\ stamp' = stamp + 1
      /\ UNCHANGED <<status, mem, disk, bak, pending, keys, cache, model, round>>
      /\ req' = Requested(todo, cat, ks, id, undo)
  BY DEF Ask, Requested
<1>2. /\ IsSound(mem) /\ status = "up" /\ req = Idle
      /\ SteadyInv => Owned(keys, mem) /\ (\A e \in DOMAIN cache : IsFresh(e))
  BY <1>1, QuietIsSound
<1>3. RequestIsSound'
  BY <1>1 DEF RequestIsSound, Requested, Consisting
<1>4. TypeOK'
  <2>1. stamp' \in 0..MaxStamp
    BY <1>1 DEF Assumption, StoreInv, TypeOK
  <2> QED
    BY <1>1, <2>1 DEF StoreInv, TypeOK
<1>5. StoreInv'
  BY <1>1, <1>2, <1>3, <1>4 DEF StoreInv, DiskIsSound, MemoryIsSound, StartIsAlone, BackupIsBehind
<1>6. ASSUME SteadyInv, Fits(Requested(todo, cat, ks, id, undo)) PROVE SteadyInv'
  <2>1. Step = "" /\ \A e : IsFresh(e) => IsFresh(e)'
    <3>1. req.todo = <<>>
      BY <1>2, IdleKnown DEF IdleIsKnown
    <3> QED
      BY <1>1, <3>1 DEF Step, IsFresh, Client
  <2>2. FilesAgree'
    BY <1>1, <1>2, <1>6, <2>1 DEF SteadyInv, FilesAgree
  <2>3. RequestFits'
    BY <1>1, <1>6 DEF RequestFits, Fits, KeysFit, ClientsFit, Requested
  <2>4. ClientsAreFresh'
    BY <1>1, <1>2, <1>6, <2>1 DEF ClientsAreFresh
  <2> QED
    BY <2>2, <2>3, <2>4 DEF SteadyInv
<1> QED
  BY <1>5, <1>6

\* An added provider or entry has the stamp of its mutation.
LEMMA StampIs ==
  ASSUME Assumption, StoreInv, stamp < MaxStamp
  PROVE  stamp + 1 \in Nat /\ stamp + 1 \in Ids /\ Made \in [made : Nat, at : Nat]
<1>1. stamp \in Nat /\ MaxStamp \in Nat
  BY DEF Assumption, StoreInv, TypeOK
<1>2. stamp + 1 \in 1..MaxStamp
  BY <1>1
<1> QED
  BY <1>1, <1>2 DEF Ids, Made

\* The keys fit a catalog whose providers are those of the memory and more.
LEMMA OwnedStays ==
  ASSUME NEW ks, NEW c, NEW d, Owned(ks, c), DOMAIN c.provs \subseteq DOMAIN d.provs,
         \A q \in DOMAIN c.provs : d.provs[q].made = c.provs[q].made
  PROVE  Owned(ks, d)
BY DEF Owned

\* Keys that are pasted for a provider of a catalog, or taken away, fit it.
LEMMA KeysAreOwned ==
  ASSUME NEW c, Owned(keys, c), NEW p \in DOMAIN c.provs
  PROVE  Owned(Pasted(p, c.provs[p].made), c) /\ Owned(Revoked(p), c)
BY DEF Owned, Pasted, Revoked, Restrict

\* The steps of a mutation that may have to revoke a key first, or to write one at last.
LEMMA KeysInFront ==
  /\ <<"keys">> \o <<"change", "save", "clear">> = <<"keys", "change", "save", "clear">>
  /\ <<>> \o <<"change", "save", "clear">> = <<"change", "save", "clear">>
  /\ <<"change", "save">> \o <<"keys">> = <<"change", "save", "keys">>
  /\ <<"change", "save">> \o <<>> = <<"change", "save">>
<1>1. <<"keys">> \o <<"change", "save", "clear">> = <<"keys", "change", "save", "clear">>
  <2> DEFINE s == <<"keys">>
             t == <<"change", "save", "clear">>
             u == <<"keys", "change", "save", "clear">>
  <2>1. s \in Seq(StepNames) /\ Len(s) = 1 /\ s[1] = "keys"
    BY DEF StepNames
  <2>2. t \in Seq(StepNames) /\ Len(t) = 3 /\ t[1] = "change" /\ t[2] = "save" /\ t[3] = "clear"
    BY DEF StepNames
  <2>3. u \in Seq(StepNames) /\ Len(u) = 4 /\ u[1] = "keys" /\ u[2] = "change" /\ u[3] = "save" /\ u[4] = "clear"
    BY DEF StepNames
  <2> HIDE DEF s, t, u
  <2>4. /\ s \o t \in Seq(StepNames) /\ Len(s \o t) = Len(s) + Len(t)
        /\ \A i \in 1..Len(s) + Len(t) : (s \o t)[i] = IF i <= Len(s) THEN s[i] ELSE t[i - Len(s)]
    BY <2>1, <2>2, ConcatProperties, Zenon
  <2>5. Len(s \o t) = Len(u) /\ \A i \in 1..Len(s \o t) : (s \o t)[i] = u[i]
    BY <2>1, <2>2, <2>3, <2>4
  <2>6. s \o t = u
    BY <2>3, <2>4, <2>5, SeqEqual
  <2> QED
    BY <2>6 DEF s, t, u
<1>2. <<"change", "save">> \o <<"keys">> = <<"change", "save", "keys">>
  <2> DEFINE s == <<"change", "save">>
             t == <<"keys">>
             u == <<"change", "save", "keys">>
  <2>1. s \in Seq(StepNames) /\ Len(s) = 2 /\ s[1] = "change" /\ s[2] = "save"
    BY DEF StepNames
  <2>2. t \in Seq(StepNames) /\ Len(t) = 1 /\ t[1] = "keys"
    BY DEF StepNames
  <2>3. u \in Seq(StepNames) /\ Len(u) = 3 /\ u[1] = "change" /\ u[2] = "save" /\ u[3] = "keys"
    BY DEF StepNames
  <2> HIDE DEF s, t, u
  <2>4. /\ s \o t \in Seq(StepNames) /\ Len(s \o t) = Len(s) + Len(t)
        /\ \A i \in 1..Len(s) + Len(t) : (s \o t)[i] = IF i <= Len(s) THEN s[i] ELSE t[i - Len(s)]
    BY <2>1, <2>2, ConcatProperties, Zenon
  <2>5. Len(s \o t) = Len(u) /\ \A i \in 1..Len(s \o t) : (s \o t)[i] = u[i]
    BY <2>1, <2>2, <2>3, <2>4
  <2>6. s \o t = u
    BY <2>3, <2>4, <2>5, SeqEqual
  <2> QED
    BY <2>6 DEF s, t, u
<1>3. <<"change", "save", "clear">> \in Seq(StepNames) /\ <<"change", "save">> \in Seq(StepNames)
  BY PlansAre DEF Consisting
<1> QED
  BY <1>1, <1>2, <1>3, ConcatEmptySeq

LEMMA AddKeeps ==
  ASSUME Assumption, StoreInv, NEW p \in Providers, Add(p)
  PROVE  StoreInv' /\ (SteadyInv => SteadyInv')
<1> DEFINE todo == <<"change", "save">>
<1>1. PICK m \in Models :
        Ask(todo, [mem EXCEPT !.provs = Added(mem.provs, p, Made),
                              !.entries = Added(mem.entries, p, Entry(p, m, stamp + 1))], keys, p, Nothing)
  BY DEF Add
<1> DEFINE cat == [mem EXCEPT !.provs = Added(mem.provs, p, Made),
                              !.entries = Added(mem.entries, p, Entry(p, m, stamp + 1))]
           r == Requested(todo, cat, keys, p, Nothing)
<1>2. LockFree /\ stamp < MaxStamp /\ p \notin DOMAIN mem.provs
  BY <1>1 DEF Ask, Add
<1>3. /\ IsSound(mem) /\ DOMAIN keys \subseteq Providers /\ p \in Ids
      /\ SteadyInv => Owned(keys, mem)
  BY <1>2, QuietIsSound DEF Ids
<1>4. IsSound(cat) /\ Carries(mem, cat)
  <2>1. Entry(p, m, stamp + 1).prov \in DOMAIN mem.provs \cup {p}
    BY DEF Entry
  <2> QED
    BY <1>2, <1>3, <2>1, StampIs, WithMoreIs
<1>5. DOMAIN mem.provs \subseteq DOMAIN cat.provs /\ \A q \in DOMAIN mem.provs : cat.provs[q].made = mem.provs[q].made
  BY <1>3, EditedIs DEF IsSound, Consists, Added
<1>6. r.todo = todo /\ r.cat = cat /\ r.keys = keys /\ r.undo = Nothing
  BY DEF Requested
<1> HIDE DEF cat, r, todo
<1>7. SteadyInv => Fits(r)
  BY <1>3, <1>4, <1>5, <1>6, OwnedStays, SavedFits DEF todo
<1>8. Consisting(todo, "change", {"change", "save"})
  BY PlansAre DEF todo
<1>9. Ask(todo, cat, keys, p, Nothing)
  BY <1>1 DEF cat
<1> QED
  BY <1>3, <1>4, <1>7, <1>8, <1>9, AskKeeps DEF r

LEMMA UpdateKeeps ==
  ASSUME Assumption, StoreInv, NEW e \in Ids, Update(e)
  PROVE  StoreInv' /\ (SteadyInv => SteadyInv')
<1> DEFINE todo == <<"change", "save", "clear">>
           p == mem.entries[e].prov
<1>1. PICK m \in Models :
        Ask(todo, [mem EXCEPT !.entries[e] = Entry(@.prov, m, stamp + 1), !.provs[p].at = stamp + 1],
            keys, e, Nothing)
  BY DEF Update
<1> DEFINE cat == [mem EXCEPT !.entries[e] = Entry(mem.entries[e].prov, m, stamp + 1), !.provs[p].at = stamp + 1]
           r == Requested(todo, cat, keys, e, Nothing)
<1>2. LockFree /\ stamp < MaxStamp /\ e \in DOMAIN mem.entries
  BY <1>1 DEF Ask, Update
<1>3. /\ IsSound(mem) /\ DOMAIN keys \subseteq Providers /\ p \in DOMAIN mem.provs /\ stamp + 1 \in Nat
      /\ SteadyInv => Owned(keys, mem)
  BY <1>2, QuietIsSound, StampIs DEF IsSound, Resolves
<1>4. /\ IsSound(cat) /\ DOMAIN cat.provs = DOMAIN mem.provs
      /\ \A q \in DOMAIN mem.provs : cat.provs[q].made = mem.provs[q].made
  <2>1. Edits(mem, cat)
    BY <1>2, <1>3, EditsAreSound
  <2> QED
    BY <2>1 DEF Edits
<1>5. r.todo = todo /\ r.cat = cat /\ r.keys = keys /\ r.undo = Nothing
  BY DEF Requested
<1>6. Ask(todo, cat, keys, e, Nothing)
  BY <1>1
<1> HIDE DEF cat, r, todo
<1>7. SteadyInv => Fits(r)
  BY <1>3, <1>4, <1>5, OwnedStays, ClearedFits DEF todo
<1>8. Consisting(todo, "change", {"change", "save", "clear"})
  BY PlansAre DEF todo
<1> QED
  BY <1>3, <1>4, <1>6, <1>7, <1>8, AskKeeps DEF r

LEMMA DeleteKeeps ==
  ASSUME Assumption, StoreInv, NEW e \in Ids, Delete(e)
  PROVE  StoreInv' /\ (SteadyInv => SteadyInv')
<1> DEFINE p == mem.entries[e].prov
           last == EntriesOf(mem, p) = {e}
           revokes == last /\ p \in DOMAIN keys
           todo == (IF revokes THEN <<"keys">> ELSE <<>>) \o <<"change", "save", "clear">>
<1>1. PICK rest \in Without(mem, {e}) :
        Ask(todo, IF last THEN WithoutProvider(rest, p) ELSE rest, Revoked(p), e, Nothing)
  BY DEF Delete
<1> DEFINE cat == IF last THEN WithoutProvider(rest, p) ELSE rest
           r == Requested(todo, cat, Revoked(p), e, Nothing)
<1>2. LockFree /\ stamp < MaxStamp /\ e \in DOMAIN mem.entries /\ DOMAIN mem.entries \ {e} # {}
  BY <1>1 DEF Ask, Delete
<1>3. /\ IsSound(mem) /\ DOMAIN keys \subseteq Providers /\ p \in DOMAIN mem.provs
      /\ SteadyInv => Owned(keys, mem)
  BY <1>2, QuietIsSound DEF IsSound, Resolves
<1>4. /\ IsSound(rest) /\ rest.provs = mem.provs /\ DOMAIN rest.entries = DOMAIN mem.entries \ {e}
      /\ \A x \in DOMAIN rest.entries : rest.entries[x] = mem.entries[x]
  BY <1>2, <1>3, WithoutIs
<1>5. last => EntriesOf(rest, p) = {}
  BY <1>4 DEF EntriesOf
<1>6. /\ IsSound(cat) /\ DOMAIN cat.provs = IF last THEN DOMAIN mem.provs \ {p} ELSE DOMAIN mem.provs
      /\ \A q \in DOMAIN cat.provs : cat.provs[q] = mem.provs[q]
  <2>1. CASE last
    BY <1>4, <1>5, <2>1, WithoutProviderIs DEF LeavesOut
  <2>2. CASE ~last
    BY <1>4, <2>2
  <2> QED
    BY <2>1, <2>2
<1>7. DOMAIN Revoked(p) = DOMAIN keys \ {p} /\ \A q \in DOMAIN keys : q # p => Revoked(p)[q] = keys[q]
  BY RevokedIs
<1>8. r.todo = todo /\ r.cat = cat /\ r.keys = Revoked(p) /\ r.undo = Nothing
  BY DEF Requested
<1>9. Ask(todo, cat, Revoked(p), e, Nothing)
  BY <1>1
<1>10. todo = IF revokes THEN <<"keys", "change", "save", "clear">> ELSE <<"change", "save", "clear">>
  BY KeysInFront
<1> HIDE DEF cat, r, todo
<1>11. ASSUME SteadyInv PROVE Fits(r)
  <2>1. CASE revokes
    <3>1. Owned(Revoked(p), cat) /\ Owned(Revoked(p), mem)
      BY <1>3, <1>6, <1>7, <1>11 DEF Owned
    <3> QED
      BY <1>8, <1>10, <2>1, <3>1, KeysFirstFits
  <2>2. CASE ~revokes
    <3>1. Owned(keys, cat)
      BY <1>3, <1>6, <1>11, <2>2 DEF Owned
    <3> QED
      BY <1>8, <1>10, <2>2, <3>1, ClearedFits
  <2> QED
    BY <2>1, <2>2
<1>12. \E xs, first : Consisting(todo, first, xs)
  BY <1>10, PlansAre
<1>13. DOMAIN Revoked(p) \subseteq Providers
  BY <1>3, <1>7
<1> QED
  BY <1>6, <1>9, <1>11, <1>12, <1>13, AskKeeps DEF r

LEMMA SetDefaultKeeps ==
  ASSUME Assumption, StoreInv, NEW e \in Ids, SetDefault(e)
  PROVE  StoreInv' /\ (SteadyInv => SteadyInv')
<1> DEFINE todo == <<"change", "save">>
           cat == [mem EXCEPT !.default = e]
           r == Requested(todo, cat, keys, e, Nothing)
<1>1. Ask(todo, cat, keys, e, Nothing) /\ e \in DOMAIN mem.entries /\ LockFree
  BY DEF SetDefault, Ask
<1>2. /\ IsSound(mem) /\ DOMAIN keys \subseteq Providers
      /\ SteadyInv => Owned(keys, mem)
  BY <1>1, QuietIsSound
<1>3. /\ cat.provs = mem.provs /\ cat.entries = mem.entries /\ cat.default = e
      /\ cat \in [provs : {cat.provs}, entries : {cat.entries}, default : {cat.default}]
  BY <1>2, EditedIs DEF IsSound, Consists
<1>4. r.todo = todo /\ r.cat = cat /\ r.keys = keys /\ r.undo = Nothing
  BY DEF Requested
<1> HIDE DEF cat, r, todo
<1>5. IsSound(cat) /\ Carries(mem, cat)
  BY <1>1, <1>2, <1>3 DEF IsSound, IsCat, Resolves, Carries, Same
<1>6. SteadyInv => Fits(r)
  <2>1. SteadyInv => Owned(keys, cat)
    BY <1>2, <1>3 DEF Owned
  <2> QED
    BY <1>4, <1>5, <2>1, SavedFits DEF todo
<1>7. Consisting(todo, "change", {"change", "save"})
  BY PlansAre DEF todo
<1> QED
  BY <1>1, <1>2, <1>5, <1>6, <1>7, AskKeeps DEF r

LEMMA SetKeyKeeps ==
  ASSUME Assumption, StoreInv, NEW e \in Ids, SetKey(e)
  PROVE  StoreInv' /\ (SteadyInv => SteadyInv')
<1> DEFINE todo == <<"keys", "clear">>
           p == mem.entries[e].prov
<1>1. PICK ks \in {Pasted(p, mem.provs[p].made), Revoked(p)} : Ask(todo, mem, ks, e, Nothing)
  BY DEF SetKey
<1> DEFINE r == Requested(todo, mem, ks, e, Nothing)
<1>2. LockFree /\ e \in DOMAIN mem.entries
  BY <1>1 DEF Ask, SetKey
<1>3. /\ IsSound(mem) /\ DOMAIN keys \subseteq Providers /\ p \in DOMAIN mem.provs /\ p \in Providers
      /\ SteadyInv => Owned(keys, mem)
  BY <1>2, QuietIsSound DEF IsSound, Resolves, IsCat
<1>4. r.todo = todo /\ r.cat = mem /\ r.keys = ks /\ r.undo = Nothing
  BY DEF Requested
<1>5. DOMAIN ks \subseteq Providers
  BY <1>3 DEF Pasted, Revoked, Restrict
<1> HIDE DEF r, todo
<1>6. SteadyInv => Fits(r)
  <2>1. SteadyInv => Owned(ks, mem)
    BY <1>3, KeysAreOwned
  <2> QED
    BY <1>4, <2>1, KeysFirstFits DEF todo
<1>7. Consisting(todo, "keys", {"keys", "clear"})
  BY PlansAre DEF todo
<1> QED
  BY <1>1, <1>3, <1>5, <1>6, <1>7, AskKeeps DEF r

LEMMA AddProviderKeeps ==
  ASSUME Assumption, StoreInv, NEW p \in Providers, AddProvider(p)
  PROVE  StoreInv' /\ (SteadyInv => SteadyInv')
<1> DEFINE cat == [mem EXCEPT !.provs = Added(mem.provs, p, Made)]
           ks == Pasted(p, stamp + 1)
<1>1. PICK key \in {<<>>, <<"keys">>} : Ask(<<"change", "save">> \o key, cat, ks, p, mem)
  BY DEF AddProvider
<1> DEFINE todo == <<"change", "save">> \o key
           r == Requested(todo, cat, ks, p, mem)
<1>2. LockFree /\ stamp < MaxStamp /\ p \notin DOMAIN mem.provs
  BY <1>1 DEF Ask, AddProvider
<1>3. /\ IsSound(mem) /\ DOMAIN keys \subseteq Providers /\ p \in Ids
      /\ SteadyInv => Owned(keys, mem)
  BY <1>2, QuietIsSound DEF Ids
<1>4. mem # Nothing
  BY <1>3 DEF IsSound, Resolves, Nothing
<1>5. IsSound(cat) /\ Carries(mem, cat)
  <2> DEFINE entry == Entry(p, NoId, 0)
  <2>1. entry.prov \in DOMAIN mem.provs \cup {p}
    BY DEF Entry
  <2> HIDE DEF entry
  <2> QED
    BY <1>2, <1>3, <2>1, StampIs, WithMoreIs
<1>6. /\ cat.entries = mem.entries /\ cat.provs = Added(mem.provs, p, Made)
      /\ DOMAIN cat.provs = DOMAIN mem.provs \cup {p} /\ cat.provs[p].made = stamp + 1
      /\ \A q \in DOMAIN mem.provs : cat.provs[q] = mem.provs[q]
  <2>1. cat.entries = mem.entries /\ cat.provs = Added(mem.provs, p, Made)
    BY <1>3, EditedIs DEF IsSound, Consists
  <2>2. Added(mem.provs, p, Made)[p] = Made /\ Made.made = stamp + 1
    BY <1>2 DEF Added, Made
  <2> QED
    BY <1>2, <2>1, <2>2 DEF Added
<1>7. /\ DOMAIN ks = DOMAIN keys \cup {p} /\ ks[p].made = stamp + 1
      /\ \A q \in DOMAIN keys : q # p => ks[q] = keys[q]
  BY DEF Pasted
<1>8. todo = <<"change", "save">> \/ todo = <<"change", "save", "keys">>
  BY KeysInFront
<1>9. r.todo = todo /\ r.cat = cat /\ r.keys = ks /\ r.undo = mem
  BY DEF Requested
<1>10. Ask(todo, cat, ks, p, mem)
  BY <1>1
<1> HIDE DEF cat, ks, todo, r
<1>11. ASSUME SteadyInv PROVE Fits(r)
  <2>1. Owned(keys, cat) /\ Owned(ks, cat) /\ Owned(keys, mem)
    BY <1>2, <1>3, <1>6, <1>7, <1>11 DEF Owned
  <2>2. \A e \in DOMAIN mem.entries : mem.entries[e].prov # p
    BY <1>2, <1>3 DEF IsSound, Resolves
  <2>3. SameKeys(mem, keys, ks) /\ SameKeys(cat, keys, ks)
    BY <1>6, <1>7, <2>2 DEF SameKeys
  <2>4. Carries(mem, mem) /\ Carries(cat, mem)
    BY <1>3, <1>6 DEF Carries, Same, IsSound, Resolves
  <2>5. CASE todo = <<"change", "save">>
    BY <1>5, <1>9, <2>1, <2>5, SavedFits
  <2>6. CASE todo = <<"change", "save", "keys">>
    BY <1>4, <1>5, <1>9, <2>1, <2>3, <2>4, <2>6, KeysLastFits
  <2> QED
    BY <1>8, <2>5, <2>6
<1>12. \E xs, first : Consisting(todo, first, xs)
  BY <1>8, PlansAre
<1>13. DOMAIN ks \subseteq Providers
  BY <1>3, <1>7
<1> QED
  BY <1>3, <1>5, <1>10, <1>11, <1>12, <1>13, AskKeeps DEF r

LEMMA UpdateProviderKeeps ==
  ASSUME Assumption, StoreInv, NEW p \in Providers, UpdateProvider(p)
  PROVE  StoreInv' /\ (SteadyInv => SteadyInv')
<1> DEFINE cat == [mem EXCEPT !.provs[p].at = stamp + 1]
<1>1. LockFree /\ stamp < MaxStamp /\ p \in DOMAIN mem.provs
  BY DEF Ask, UpdateProvider
<1>2. /\ IsSound(mem) /\ DOMAIN keys \subseteq Providers /\ p \in Ids /\ stamp + 1 \in Nat
      /\ SteadyInv => Owned(keys, mem)
  BY <1>1, QuietIsSound, StampIs DEF Ids
<1>3. Edits(mem, cat)
  <2>1. mem.default \in DOMAIN mem.entries
    BY <1>2 DEF IsSound, Resolves
  <2> QED
    BY <1>1, <1>2, <2>1, EditsAreSound
<1>4. CASE Ask(<<"change", "save", "clear">>, cat, keys, p, Nothing)
  <2> DEFINE todo == <<"change", "save", "clear">>
             r == Requested(todo, cat, keys, p, Nothing)
  <2>1. r.todo = todo /\ r.cat = cat /\ r.keys = keys /\ r.undo = Nothing
    BY DEF Requested
  <2> HIDE DEF cat, todo, r
  <2>2. SteadyInv => Fits(r)
    BY <1>2, <1>3, <2>1, OwnedStays, ClearedFits DEF Edits, todo
  <2>3. Consisting(todo, "change", {"change", "save", "clear"})
    BY PlansAre DEF todo
  <2>4. Ask(todo, cat, keys, p, Nothing) /\ IsSound(cat)
    BY <1>3, <1>4 DEF todo, Edits
  <2> QED
    BY <1>2, <2>2, <2>3, <2>4, AskKeeps DEF r
<1>5. CASE \E ks \in {Pasted(p, mem.provs[p].made), Revoked(p)} :
             Ask(<<"keys", "change", "save", "clear">>, cat, ks, p, Nothing)
  <2> DEFINE todo == <<"keys", "change", "save", "clear">>
  <2>1. PICK ks \in {Pasted(p, mem.provs[p].made), Revoked(p)} : Ask(todo, cat, ks, p, Nothing)
    BY <1>5
  <2> DEFINE r == Requested(todo, cat, ks, p, Nothing)
  <2>2. r.todo = todo /\ r.cat = cat /\ r.keys = ks /\ r.undo = Nothing
    BY DEF Requested
  <2> HIDE DEF cat, todo, r
  <2>3. SteadyInv => Fits(r)
    <3>1. SteadyInv => Owned(ks, mem)
      BY <1>1, <1>2, KeysAreOwned
    <3>2. SteadyInv => Owned(ks, cat)
      BY <1>3, <3>1, OwnedStays DEF Edits
    <3> QED
      BY <2>2, <3>1, <3>2, KeysFirstFits DEF todo
  <2>4. Consisting(todo, "keys", {"keys", "change", "save", "clear"})
    BY PlansAre DEF todo
  <2>5. DOMAIN ks \subseteq Providers /\ IsSound(cat)
    BY <1>2, <1>3 DEF Pasted, Revoked, Restrict, Edits
  <2> QED
    BY <1>2, <2>1, <2>3, <2>4, <2>5, AskKeeps DEF r
<1> QED
  BY <1>4, <1>5 DEF UpdateProvider

LEMMA DeleteProviderKeeps ==
  ASSUME Assumption, StoreInv, NEW p \in Providers, DeleteProvider(p)
  PROVE  StoreInv' /\ (SteadyInv => SteadyInv')
<1> DEFINE revokes == p \in DOMAIN keys
           todo == (IF revokes THEN <<"keys">> ELSE <<>>) \o <<"change", "save", "clear">>
<1>1. PICK rest \in Without(mem, EntriesOf(mem, p)) :
        Ask(todo, WithoutProvider(rest, p), Revoked(p), p, Nothing)
  BY DEF DeleteProvider
<1> DEFINE cat == WithoutProvider(rest, p)
           r == Requested(todo, cat, Revoked(p), p, Nothing)
<1>2. LockFree /\ stamp < MaxStamp /\ DOMAIN mem.entries \ EntriesOf(mem, p) # {}
  BY <1>1 DEF Ask, DeleteProvider
<1>3. /\ IsSound(mem) /\ DOMAIN keys \subseteq Providers /\ p \in Ids
      /\ SteadyInv => Owned(keys, mem)
  BY <1>2, QuietIsSound DEF Ids
<1>4. /\ IsSound(rest) /\ rest.provs = mem.provs /\ DOMAIN rest.entries = DOMAIN mem.entries \ EntriesOf(mem, p)
      /\ \A x \in DOMAIN rest.entries : rest.entries[x] = mem.entries[x]
  BY <1>2, <1>3, WithoutIs
<1>5. EntriesOf(rest, p) = {}
  BY <1>4 DEF EntriesOf
<1>6. /\ IsSound(cat) /\ DOMAIN cat.provs = DOMAIN mem.provs \ {p}
      /\ \A q \in DOMAIN cat.provs : cat.provs[q] = mem.provs[q]
  BY <1>4, <1>5, WithoutProviderIs DEF LeavesOut
<1>7. DOMAIN Revoked(p) = DOMAIN keys \ {p} /\ \A q \in DOMAIN keys : q # p => Revoked(p)[q] = keys[q]
  BY RevokedIs
<1>8. r.todo = todo /\ r.cat = cat /\ r.keys = Revoked(p) /\ r.undo = Nothing
  BY DEF Requested
<1>9. Ask(todo, cat, Revoked(p), p, Nothing)
  BY <1>1
<1>10. todo = IF revokes THEN <<"keys", "change", "save", "clear">> ELSE <<"change", "save", "clear">>
  BY KeysInFront
<1> HIDE DEF cat, r, todo
<1>11. ASSUME SteadyInv PROVE Fits(r)
  <2>1. CASE revokes
    <3>1. Owned(Revoked(p), cat) /\ Owned(Revoked(p), mem)
      BY <1>3, <1>6, <1>7, <1>11 DEF Owned
    <3> QED
      BY <1>8, <1>10, <2>1, <3>1, KeysFirstFits
  <2>2. CASE ~revokes
    <3>1. Owned(keys, cat)
      BY <1>3, <1>6, <1>11, <2>2 DEF Owned
    <3> QED
      BY <1>8, <1>10, <2>2, <3>1, ClearedFits
  <2> QED
    BY <2>1, <2>2
<1>12. \E xs, first : Consisting(todo, first, xs)
  BY <1>10, PlansAre
<1>13. DOMAIN Revoked(p) \subseteq Providers
  BY <1>3, <1>7
<1> QED
  BY <1>3, <1>6, <1>9, <1>11, <1>12, <1>13, AskKeeps DEF r

\* The catalog with an entry more for a provider that is there.
LEMMA WithModelIs ==
  ASSUME Assumption, StoreInv, stamp < MaxStamp, IsSound(mem), NEW p \in DOMAIN mem.provs, NEW m
  PROVE  IsSound(WithModel(p, m)) /\ Carries(mem, WithModel(p, m)) /\ WithModel(p, m).provs = mem.provs
<1>1. Entry(p, m, stamp + 1).prov \in DOMAIN mem.provs /\ stamp + 1 \in Ids
  BY StampIs DEF Entry
<1> QED
  BY <1>1, WithEntryIs DEF WithModel

LEMMA AddModelKeeps ==
  ASSUME Assumption, StoreInv, NEW p \in Providers, NEW m \in Models, AddModel(p, m)
  PROVE  StoreInv' /\ (SteadyInv => SteadyInv')
<1> DEFINE todo == <<"change", "save">>
           cat == WithModel(p, m)
           id == stamp + 1
           r == Requested(todo, cat, keys, id, Nothing)
<1>1. Ask(todo, cat, keys, id, Nothing) /\ p \in DOMAIN mem.provs /\ LockFree /\ stamp < MaxStamp
  BY DEF AddModel, Ask
<1>2. /\ IsSound(mem) /\ DOMAIN keys \subseteq Providers /\ id \in Ids
      /\ SteadyInv => Owned(keys, mem)
  BY <1>1, QuietIsSound, StampIs
<1>3. IsSound(cat) /\ Carries(mem, cat) /\ cat.provs = mem.provs
  BY <1>1, <1>2, WithModelIs
<1>4. r.todo = todo /\ r.cat = cat /\ r.keys = keys /\ r.undo = Nothing
  BY DEF Requested
<1> HIDE DEF cat, r, todo, id
<1>5. SteadyInv => Fits(r)
  <2>1. SteadyInv => Owned(keys, cat)
    BY <1>2, <1>3 DEF Owned
  <2> QED
    BY <1>3, <1>4, <2>1, SavedFits DEF todo
<1>6. Consisting(todo, "change", {"change", "save"})
  BY PlansAre DEF todo
<1> QED
  BY <1>1, <1>2, <1>3, <1>5, <1>6, AskKeeps DEF r

LEMMA UpdateModelKeeps ==
  ASSUME Assumption, StoreInv, NEW e \in Ids, NEW m \in Models, UpdateModel(e, m)
  PROVE  StoreInv' /\ (SteadyInv => SteadyInv')
<1> DEFINE todo == <<"change", "save", "clear">>
           cat == [mem EXCEPT !.entries[e] = Entry(mem.entries[e].prov, m, stamp + 1)]
           r == Requested(todo, cat, keys, e, Nothing)
<1>1. Ask(todo, cat, keys, e, Nothing) /\ e \in DOMAIN mem.entries /\ LockFree /\ stamp < MaxStamp
  BY DEF UpdateModel, Ask
<1>2. /\ IsSound(mem) /\ DOMAIN keys \subseteq Providers /\ mem.entries[e].prov \in DOMAIN mem.provs /\ stamp + 1 \in Nat
      /\ SteadyInv => Owned(keys, mem)
  BY <1>1, QuietIsSound, StampIs DEF IsSound, Resolves
<1>3. Edits(mem, cat)
  BY <1>1, <1>2, EditsAreSound
<1>4. r.todo = todo /\ r.cat = cat /\ r.keys = keys /\ r.undo = Nothing
  BY DEF Requested
<1> HIDE DEF cat, r, todo
<1>5. SteadyInv => Fits(r)
  BY <1>2, <1>3, <1>4, OwnedStays, ClearedFits DEF Edits, todo
<1>6. Consisting(todo, "change", {"change", "save", "clear"}) /\ IsSound(cat)
  BY <1>3, PlansAre DEF todo, Edits
<1> QED
  BY <1>1, <1>2, <1>5, <1>6, AskKeeps DEF r

LEMMA DeleteModelKeeps ==
  ASSUME Assumption, StoreInv, NEW e \in Ids, DeleteModel(e)
  PROVE  StoreInv' /\ (SteadyInv => SteadyInv')
<1> DEFINE todo == <<"change", "save", "pop">>
<1>1. PICK rest \in Without(mem, {e}) : Ask(todo, rest, keys, e, Nothing)
  BY DEF DeleteModel
<1> DEFINE r == Requested(todo, rest, keys, e, Nothing)
<1>2. LockFree /\ stamp < MaxStamp /\ e \in DOMAIN mem.entries /\ DOMAIN mem.entries \ {e} # {}
  BY <1>1 DEF Ask, DeleteModel
<1>3. /\ IsSound(mem) /\ DOMAIN keys \subseteq Providers
      /\ SteadyInv => Owned(keys, mem)
  BY <1>2, QuietIsSound
<1>4. /\ IsSound(rest) /\ rest.provs = mem.provs /\ DOMAIN rest.entries = DOMAIN mem.entries \ {e}
      /\ \A x \in DOMAIN rest.entries : rest.entries[x] = mem.entries[x]
  BY <1>2, <1>3, WithoutIs
<1>5. r.todo = todo /\ r.cat = rest /\ r.keys = keys /\ r.undo = Nothing /\ r.id = e
  BY DEF Requested
<1> HIDE DEF r, todo
<1>6. ASSUME SteadyInv PROVE Fits(r)
  <2>1. Owned(keys, rest) /\ \A x \in DOMAIN mem.entries : Same(mem, rest, x) \/ x = e
    BY <1>3, <1>4, <1>6 DEF Owned, Same
  <2> QED
    BY <1>5, <2>1, PoppedFits DEF todo
<1>7. Consisting(todo, "change", {"change", "save", "pop"})
  BY PlansAre DEF todo
<1> QED
  BY <1>1, <1>3, <1>4, <1>6, <1>7, AskKeeps DEF r

LEMMA SetTaskModelKeeps ==
  ASSUME Assumption, StoreInv, NEW p \in Providers, NEW m \in Models, SetTaskModel(p, m)
  PROVE  StoreInv' /\ (SteadyInv => SteadyInv')
<1>1. LockFree /\ stamp < MaxStamp /\ p \in DOMAIN mem.provs
  BY DEF SetTaskModel, Ask
<1>2. /\ IsSound(mem) /\ DOMAIN keys \subseteq Providers
      /\ SteadyInv => Owned(keys, mem)
  BY <1>1, QuietIsSound
<1>3. ASSUME NEW e \in EntriesOf(mem, p), Ask(<<"point", "pop">>, mem, keys, e, Nothing)
      PROVE  StoreInv' /\ (SteadyInv => SteadyInv')
  <2> DEFINE todo == <<"point", "pop">>
             r == Requested(todo, mem, keys, e, Nothing)
  <2>1. e \in Ids
    BY <1>2 DEF EntriesOf, IsSound, IsCat
  <2>2. r.todo = todo /\ r.undo = Nothing
    BY DEF Requested
  <2>3. Ask(todo, mem, keys, e, Nothing)
    BY <1>3
  <2> HIDE DEF r, todo
  <2>4. Fits(r)
    BY <2>2, PoppedFits DEF todo
  <2>5. Consisting(todo, "point", {"point", "pop"})
    BY PlansAre DEF todo
  <2> QED
    BY <1>2, <2>1, <2>3, <2>4, <2>5, AskKeeps DEF r
<1>4. ASSUME Ask(<<"change", "save", "point", "pop">>, WithModel(p, m), keys, stamp + 1, Nothing)
      PROVE  StoreInv' /\ (SteadyInv => SteadyInv')
  <2> DEFINE todo == <<"change", "save", "point", "pop">>
             cat == WithModel(p, m)
             id == stamp + 1
             r == Requested(todo, cat, keys, id, Nothing)
  <2>1. id \in Ids
    BY <1>1, StampIs
  <2>2. IsSound(cat) /\ Carries(mem, cat) /\ cat.provs = mem.provs
    BY <1>1, <1>2, WithModelIs
  <2>3. r.todo = todo /\ r.cat = cat /\ r.undo = Nothing
    BY DEF Requested
  <2>4. Ask(todo, cat, keys, id, Nothing)
    BY <1>4
  <2> HIDE DEF r, todo, cat, id
  <2>5. ASSUME SteadyInv PROVE Fits(r)
    <3>1. Owned(keys, cat) /\ \A x \in DOMAIN mem.entries : Same(mem, cat, x)
      BY <1>2, <2>2, <2>5 DEF Owned, Carries
    <3> QED
      BY <2>3, <3>1, PoppedFits DEF todo
  <2>6. Consisting(todo, "change", {"change", "save", "point", "pop"})
    BY PlansAre DEF todo
  <2> QED
    BY <1>2, <2>1, <2>2, <2>4, <2>5, <2>6, AskKeeps DEF r
<1> QED
  BY <1>3, <1>4 DEF SetTaskModel

-----------------------------------------------------------------------------
(* Every step keeps the files, the keys and the clients together, as long  *)
(* as saves and backups do not fail.                                       *)

LEMMA EmptyShape == ASSUME NEW u \in BOOLEAN PROVE Shape(<<>>, u)
<1>1. 1..Len(<<>>) = {}
  OBVIOUS
<1> QED
  BY <1>1 DEF Shape

\* The order of what is left when a step is done.
LEMMA DoneShape ==
  ASSUME StoreInv, RequestFits, Step # "", Done
  PROVE  /\ Shape(req'.todo, req'.undo # Nothing) /\ ~Ahead(req'.todo, Step)
         /\ Step = "change" => Step' = "save" /\ req' # Idle
         /\ Step # "change" => Step' # "save"
         /\ Step \notin {"change", "keys"} => ~Ahead(req'.todo, "change")
         /\ Step' = "keys" => req.undo # Nothing
         /\ req.undo # Nothing => ~Ahead(req.todo, "clear") /\ ~Ahead(req.todo, "pop")
         /\ req'.todo # <<>> => Step' = req'.todo[1]
         /\ req'.todo = <<>> => Step' = ""
<1>1. req.todo # <<>> /\ Step = req.todo[1] /\ req.todo \in Seq(StepNames) /\ Shape(req.todo, req.undo # Nothing)
  BY StepIsTaken DEF StoreInv, RequestIsSound, RequestFits, Fits
<1>2. /\ req'.todo = Tail(req.todo) /\ req'.undo \in {req.undo, Nothing}
      /\ req' = Idle \/ (req'.undo = req.undo /\ req'.todo # <<>>)
      /\ req'.todo \in Seq(StepNames)
  BY <1>1, DoneLeaves DEF StoreInv, RequestIsSound
<1> DEFINE s == req.todo
           u == req.undo # Nothing
<1>3. /\ Shape(Tail(s), u)
      /\ s[1] = "change" => Len(s) > 1 /\ Tail(s) # <<>> /\ Tail(s)[1] = "save"
      /\ s[1] # "change" /\ Tail(s) # <<>> => Tail(s)[1] # "save"
      /\ s[1] \notin {"change", "keys"} => ~Ahead(Tail(s), "change")
      /\ Tail(s) # <<>> /\ Tail(s)[1] = "keys" => u
      /\ u => ~Ahead(s, "clear") /\ ~Ahead(s, "pop")
      /\ ~Ahead(Tail(s), s[1])
  BY <1>1, TailShape
<1>4. req'.todo # <<>> => Step' = req'.todo[1]
  BY <1>2, TailAhead DEF Step
<1>5. req'.todo = <<>> => Step' = ""
  BY DEF Step
<1>6. Shape(req'.todo, req'.undo # Nothing)
  <2>1. CASE req' = Idle
    <3>1. req'.todo = <<>>
      BY <2>1, IdleKnown DEF IdleIsKnown
    <3> QED
      BY <3>1, EmptyShape
  <2>2. CASE req' # Idle
    BY <1>2, <1>3, <2>2
  <2> QED
    BY <2>1, <2>2
<1>7. req' = Idle => req'.todo = <<>>
  BY IdleKnown DEF IdleIsKnown
<1> HIDE DEF s, u
<1> QED
  BY <1>1, <1>2, <1>3, <1>4, <1>5, <1>6, <1>7 DEF s, u

\* A request that is over fits.
LEMMA EndedFits == Fits(Idle)
<1>1. \A x : ~Ahead(Idle.todo, x)
  BY NothingAhead, IdleKnown DEF IdleIsKnown
<1>2. Shape(Idle.todo, Idle.undo # Nothing)
  BY EmptyShape, IdleKnown DEF IdleIsKnown
<1> QED
  BY <1>1, <1>2 DEF Fits, KeysFit, ClientsFit

LEMMA SteadyInit == ASSUME Init PROVE SteadyInv
<1>1. /\ status = "down" /\ req = Idle /\ DOMAIN cache = {} /\ DOMAIN keys = {} /\ pending = FALSE
      /\ disk.form # "v2"
  BY DEF Init
<1>2. FilesAgree /\ ClientsAreFresh
  BY <1>1 DEF FilesAgree, ClientsAreFresh
<1>3. RequestFits
  BY <1>1, EndedFits DEF RequestFits
<1> QED
  BY <1>2, <1>3 DEF SteadyInv

LEMMA SteadyChange == ASSUME StoreInv, SteadyInv, Change PROVE SteadyInv'
<1>1. /\ Step = "change" /\ Step # "" /\ status = "up" /\ Done /\ mem' = req.cat
      /\ UNCHANGED <<status, disk, bak, pending, keys, cache, stamp, model, round>>
      /\ req.todo # <<>> /\ req.todo[1] = "change"
  BY StepIsTaken DEF Change, StoreInv, TypeOK
<1>2. /\ Shape(req'.todo, req'.undo # Nothing) /\ Step' = "save" /\ req' # Idle
  BY <1>1, DoneShape DEF SteadyInv
<1>3. /\ \A x : Ahead(req'.todo, x) => Ahead(req.todo, x)
      /\ \A x : Ahead(req.todo, x) /\ x # "change" => Ahead(req'.todo, x)
      /\ req'.cat = req.cat /\ req'.keys = req.keys /\ req'.id = req.id /\ req'.undo = req.undo
      /\ Ahead(req.todo, "change")
  BY <1>1, <1>2, DoneLeaves DEF StoreInv
<1>4. KeysFit(req) /\ ClientsFit(req)
  BY DEF SteadyInv, RequestFits, Fits
<1>5. FilesAgree'
  <2>1. Owned(keys, req.cat)
    BY <1>1, <1>3, <1>4 DEF KeysFit
  <2> QED
    BY <1>1, <1>2, <2>1 DEF SteadyInv, FilesAgree, Owned
<1>6. KeysFit(req)'
  <2>1. /\ Ahead(req'.todo, "keys") => Owned(req'.keys, req'.cat)
        /\ Ahead(req'.todo, "keys") => Owned(req'.keys, mem')
        /\ Ahead(req'.todo, "change") => Owned(keys', req'.cat)
        /\ Ahead(req'.todo, "keys") /\ req'.undo # Nothing => Owned(keys', req'.undo)
    BY <1>1, <1>3, <1>4 DEF KeysFit
  <2> QED
    BY <2>1 DEF KeysFit
<1>7. ClientsFit(req)'
  <2>1. \A e \in DOMAIN mem'.entries : Same(mem', req'.cat, e)
    BY <1>1, <1>3 DEF Same
  <2>2. Ahead(req'.todo, "keys") /\ ~Ahead(req'.todo, "clear") =>
          SameKeys(mem', keys', req'.keys) /\ SameKeys(req'.cat, keys', req'.keys)
    BY <1>1, <1>3, <1>4 DEF ClientsFit
  <2>3. Ahead(req'.todo, "keys") /\ req'.undo # Nothing => Carries(mem', req'.undo) /\ Carries(req'.cat, req'.undo)
    BY <1>1, <1>3, <1>4 DEF ClientsFit
  <2> QED
    BY <2>1, <2>2, <2>3 DEF ClientsFit
<1>8. ASSUME NEW e \in DOMAIN cache'
      PROVE  IsFresh(e)' \/ (Step' # "keys" /\ (Ahead(req'.todo, "clear") \/ (Ahead(req'.todo, "pop") /\ e = req'.id)))
  <2>1. CASE Ahead(req.todo, "clear") \/ (Ahead(req.todo, "pop") /\ e = req.id)
    BY <1>2, <1>3, <2>1
  <2>2. CASE ~(Ahead(req.todo, "clear") \/ (Ahead(req.todo, "pop") /\ e = req.id))
    <3>1. IsFresh(e)
      BY <1>1, <1>8, <2>2 DEF SteadyInv, ClientsAreFresh
    <3>2. Same(mem, req.cat, e)
      BY <1>3, <1>4, <2>2, <3>1 DEF ClientsFit, IsFresh
    <3> QED
      BY <1>1, <3>1, <3>2 DEF IsFresh, Same, Client
  <2> QED
    BY <2>1, <2>2
<1> QED
  BY <1>2, <1>5, <1>6, <1>7, <1>8 DEF SteadyInv, RequestFits, Fits, ClientsAreFresh

LEMMA SteadyWriteKeys == ASSUME StoreInv, SteadyInv, WriteKeys PROVE SteadyInv'
<1>1. /\ Step = "keys" /\ Step # "" /\ status = "up" /\ Done /\ keys' = req.keys
      /\ UNCHANGED <<status, mem, disk, bak, pending, cache, stamp, model, round>>
      /\ req.todo # <<>> /\ req.todo[1] = "keys"
  BY StepIsTaken DEF WriteKeys, StoreInv, TypeOK
<1>2. Shape(req'.todo, req'.undo # Nothing) /\ ~Ahead(req'.todo, "keys")
  BY <1>1, DoneShape DEF SteadyInv
<1>3. /\ \A x : Ahead(req'.todo, x) => Ahead(req.todo, x)
      /\ \A x : Ahead(req.todo, x) /\ x # "keys" => Ahead(req'.todo, x)
      /\ Ahead(req.todo, "keys")
      /\ req' = Idle \/ (/\ req'.cat = req.cat /\ req'.keys = req.keys
                         /\ req'.id = req.id /\ req'.undo = req.undo)
  BY <1>1, DoneLeaves DEF StoreInv
<1>4. req' = Idle => \A x : ~Ahead(req'.todo, x)
  BY NothingAhead, IdleKnown DEF IdleIsKnown
<1>5. KeysFit(req) /\ ClientsFit(req)
  BY DEF SteadyInv, RequestFits, Fits
<1>6. FilesAgree'
  <2>1. Owned(req.keys, mem) /\ disk = [form |-> "v2", cat |-> mem]
    BY <1>1, <1>3, <1>5 DEF KeysFit, SteadyInv, FilesAgree
  <2>2. disk.form = "v2" /\ disk.cat = mem
    BY <2>1
  <2>3. Owned(keys', mem') /\ Owned(keys', disk'.cat)
    BY <1>1, <2>1, <2>2
  <2> QED
    BY <1>1, <2>1, <2>2, <2>3 DEF SteadyInv, FilesAgree
<1>7. KeysFit(req)'
  <2>1. Ahead(req'.todo, "change") => Owned(keys', req'.cat)
    BY <1>1, <1>3, <1>4, <1>5 DEF KeysFit
  <2> QED
    BY <1>2, <2>1 DEF KeysFit
<1>8. ClientsFit(req)'
  <2>1. Ahead(req'.todo, "change") /\ ~Ahead(req'.todo, "clear") =>
          \A e \in DOMAIN mem'.entries : Same(mem', req'.cat, e) \/ (Ahead(req'.todo, "pop") /\ e = req'.id)
    BY <1>1, <1>3, <1>4, <1>5 DEF ClientsFit
  <2> QED
    BY <1>2, <2>1 DEF ClientsFit
<1>9. ASSUME NEW e \in DOMAIN cache'
      PROVE  IsFresh(e)' \/ (Step' # "keys" /\ Ahead(req'.todo, "clear"))
  <2>1. IsFresh(e)
    BY <1>1, <1>9 DEF SteadyInv, ClientsAreFresh
  <2>2. CASE Ahead(req.todo, "clear")
    <3>1. Ahead(req'.todo, "clear")
      BY <1>3, <2>2
    <3>2. Step' = "keys" => req.undo # Nothing
      BY <1>1, DoneShape DEF SteadyInv
    <3>3. req.undo # Nothing => ~Ahead(req.todo, "clear")
      BY <1>1, DoneShape DEF SteadyInv
    <3> QED
      BY <2>2, <3>1, <3>2, <3>3
  <2>3. CASE ~Ahead(req.todo, "clear")
    <3>1. SameKeys(mem, keys, keys')
      BY <1>1, <1>3, <1>5, <2>3 DEF ClientsFit
    <3> QED
      BY <1>1, <2>1, <3>1 DEF IsFresh, Client, SameKeys
  <2> QED
    BY <2>2, <2>3
<1> QED
  BY <1>2, <1>6, <1>7, <1>8, <1>9 DEF SteadyInv, RequestFits, Fits, ClientsAreFresh

LEMMA SteadyKeysFail == ASSUME StoreInv, SteadyInv, KeysFail PROVE SteadyInv'
<1>1. /\ Step = "keys" /\ status = "up" /\ req.todo[1] = "keys"
      /\ UNCHANGED <<status, mem, disk, bak, pending, keys, cache, stamp, model, round>>
  BY StepIsTaken DEF KeysFail, StoreInv, TypeOK
<1>2. Ahead(req.todo, "keys")
  <2>1. req.todo # <<>> /\ req.todo \in Seq(StepNames)
    BY <1>1, StepIsTaken DEF StoreInv, RequestIsSound
  <2> QED
    BY <1>1, <2>1, TailAhead DEF Ahead
<1>3. Fits(req')
  <2>1. CASE req.undo = Nothing
    BY <2>1, EndedFits DEF KeysFail
  <2>2. CASE req.undo # Nothing
    <3>1. req'.todo = <<"change", "save">> /\ req'.cat = req.undo
      BY <2>2 DEF KeysFail, Idle
    <3>2. Owned(keys, req.undo) /\ Carries(mem, req.undo)
      BY <1>2, <2>2 DEF SteadyInv, RequestFits, Fits, KeysFit, ClientsFit
    <3> QED
      BY <3>1, <3>2, SavedFits
  <2> QED
    BY <2>1, <2>2
<1>4. RequestFits'
  BY <1>1, <1>3 DEF RequestFits, Fits, KeysFit, ClientsFit
<1>5. \A e \in DOMAIN cache' : IsFresh(e)'
  BY <1>1 DEF SteadyInv, ClientsAreFresh, IsFresh, Client
<1>6. FilesAgree'
  <2>1. disk = [form |-> "v2", cat |-> mem]
    BY <1>1 DEF SteadyInv, FilesAgree
  <2> QED
    BY <1>1, <2>1 DEF SteadyInv, FilesAgree
<1> QED
  BY <1>4, <1>5, <1>6 DEF SteadyInv, ClientsAreFresh

LEMMA SteadyBackup == ASSUME Steady, StoreInv, SteadyInv, Backup PROVE SteadyInv'
<1>1. PICK b \in {"none", "torn", "whole"}, ok \in BOOLEAN :
        /\ BackupIs(b, ok) /\ bak' = b /\ pending' = ~ok
        /\ req' = IF ok THEN req ELSE Idle
        /\ status' = IF ok THEN status ELSE "up"
  BY DEF Backup
<1>2. Profiles # {} /\ UNCHANGED <<mem, disk, keys, cache, stamp, model, round>>
  BY DEF Backup, SteadyInv, FilesAgree
<1>3. ok
  BY <1>1, <1>2 DEF BackupIs, Steady
<1>4. UNCHANGED <<status, req, mem, disk, keys, cache>> /\ ~pending'
  BY <1>1, <1>2, <1>3
<1>5. FilesAgree'
  BY <1>4 DEF SteadyInv, FilesAgree, Step
<1>6. RequestFits'
  BY <1>4 DEF SteadyInv, RequestFits, Fits, KeysFit, ClientsFit
<1>7. ClientsAreFresh'
  BY <1>4 DEF SteadyInv, ClientsAreFresh, IsFresh, Client, Step
<1> QED
  BY <1>5, <1>6, <1>7 DEF SteadyInv

\* What fits goes on fitting when a step is done that changes neither catalog nor keys.
LEMMA DoneFits ==
  ASSUME StoreInv, SteadyInv, Step \notin {"", "change", "keys"}, Done, UNCHANGED <<mem, keys>>
  PROVE  /\ RequestFits'
         /\ \A e \in DOMAIN cache :
              IsFresh(e) \/ (Step' # "keys" /\ (Ahead(req.todo, "clear") \/ (Ahead(req.todo, "pop") /\ e = req.id)))
<1>1. Shape(req'.todo, req'.undo # Nothing) /\ ~Ahead(req'.todo, "change")
  BY DoneShape DEF SteadyInv
<1>2. /\ \A x : Ahead(req'.todo, x) => Ahead(req.todo, x)
      /\ \A x : Ahead(req.todo, x) /\ x # Step => Ahead(req'.todo, x)
      /\ req' = Idle \/ (/\ req'.cat = req.cat /\ req'.keys = req.keys
                         /\ req'.id = req.id /\ req'.undo = req.undo)
  BY StepIsTaken, DoneLeaves DEF StoreInv
<1>3. req' = Idle => \A x : ~Ahead(req'.todo, x)
  BY NothingAhead, IdleKnown DEF IdleIsKnown
<1>4. KeysFit(req) /\ ClientsFit(req)
  BY DEF SteadyInv, RequestFits, Fits
<1>5. KeysFit(req)'
  <2>1. ~Ahead(req.todo, "change")
    BY <1>1, <1>2
  <2>2. /\ Ahead(req'.todo, "keys") => Owned(req'.keys, req'.cat)
        /\ Ahead(req'.todo, "keys") => Owned(req'.keys, mem')
        /\ Ahead(req'.todo, "keys") /\ req'.undo # Nothing => Owned(keys', req'.undo)
    BY <1>2, <1>3, <1>4, <2>1 DEF KeysFit
  <2> QED
    BY <1>1, <2>2 DEF KeysFit
<1>6. ClientsFit(req)'
  <2>1. Ahead(req'.todo, "keys") => Ahead(req.todo, "keys") /\ req'.cat = req.cat /\ req'.keys = req.keys /\ req'.undo = req.undo
    BY <1>2, <1>3
  <2>2. ASSUME Ahead(req'.todo, "keys"), ~Ahead(req'.todo, "clear")
        PROVE  SameKeys(mem', keys', req'.keys) /\ SameKeys(req'.cat, keys', req'.keys)
    <3>1. CASE Step # "clear"
      <4>1. ~Ahead(req.todo, "clear")
        BY <1>2, <2>2, <3>1
      <4> QED
        BY <1>4, <2>1, <2>2, <4>1 DEF ClientsFit
    <3>2. CASE Step = "clear"
      <4>1. req.undo = Nothing /\ Ahead(req.todo, "clear")
        BY <3>2, StepIsTaken, DoneLeaves, DoneShape DEF SteadyInv, StoreInv
      <4>2. PICK k \in 1..Len(req'.todo) : req'.todo[k] = "keys"
        BY <2>2 DEF Ahead
      <4>3. k = 1
        BY <1>1, <2>1, <2>2, <4>1, <4>2 DEF Shape
      <4>4. Step' = "keys"
        <5>1. req'.todo # <<>>
          BY <2>2, NothingAhead
        <5> QED
          BY <3>2, <4>2, <4>3, <5>1, DoneShape DEF SteadyInv
      <4> QED
        BY <3>2, <4>1, <4>4, DoneShape DEF SteadyInv
    <3> QED
      BY <3>1, <3>2
  <2>3. Ahead(req'.todo, "keys") /\ req'.undo # Nothing => Carries(mem', req'.undo) /\ Carries(req'.cat, req'.undo)
    BY <1>4, <2>1 DEF ClientsFit
  <2> QED
    BY <1>1, <2>2, <2>3 DEF ClientsFit
<1>7. ASSUME NEW e \in DOMAIN cache, ~IsFresh(e)
      PROVE  Step' # "keys" /\ (Ahead(req.todo, "clear") \/ (Ahead(req.todo, "pop") /\ e = req.id))
  <2>1. Ahead(req.todo, "clear") \/ (Ahead(req.todo, "pop") /\ e = req.id)
    BY <1>7 DEF SteadyInv, ClientsAreFresh
  <2>2. /\ Step' = "keys" => req.undo # Nothing
        /\ req.undo # Nothing => ~Ahead(req.todo, "clear") /\ ~Ahead(req.todo, "pop")
    BY DoneShape DEF SteadyInv
  <2> QED
    BY <2>1, <2>2
<1> QED
  BY <1>1, <1>5, <1>6, <1>7 DEF RequestFits, Fits

LEMMA SteadySave == ASSUME StoreInv, SteadyInv, Save PROVE SteadyInv'
<1>1. /\ Step = "save" /\ status # "down" /\ ~pending /\ Done
      /\ disk' = [form |-> "v2", cat |-> mem] /\ status' = "up"
      /\ UNCHANGED <<mem, bak, pending, keys, cache, stamp, model, round>>
  BY StepIsTaken DEF Save
<1>2. /\ RequestFits'
      /\ \A e \in DOMAIN cache :
           IsFresh(e) \/ (Step' # "keys" /\ (Ahead(req.todo, "clear") \/ (Ahead(req.todo, "pop") /\ e = req.id)))
  BY <1>1, DoneFits
<1>3. FilesAgree'
  <2>1. Owned(keys', mem') /\ Owned(keys', disk'.cat) /\ disk'.form = "v2"
    BY <1>1 DEF SteadyInv, FilesAgree
  <2> QED
    BY <1>1, <2>1 DEF FilesAgree
<1>4. ClientsAreFresh'
  <2>1. /\ \A x : Ahead(req.todo, x) /\ x # "save" => Ahead(req'.todo, x)
        /\ req' = Idle \/ req'.id = req.id
    BY <1>1, StepIsTaken, DoneLeaves DEF StoreInv
  <2>2. req' = Idle => \A x : ~Ahead(req'.todo, x)
    BY NothingAhead, IdleKnown DEF IdleIsKnown
  <2>3. \A e : IsFresh(e) => IsFresh(e)'
    BY <1>1 DEF IsFresh, Client
  <2> QED
    BY <1>1, <1>2, <2>1, <2>2, <2>3 DEF ClientsAreFresh
<1> QED
  BY <1>2, <1>3, <1>4 DEF SteadyInv

LEMMA SteadyClearOrPoint == ASSUME StoreInv, SteadyInv, Clear \/ Point PROVE SteadyInv'
<1>1. /\ Step \in {"clear", "pop", "point"} /\ status = "up" /\ Done
      /\ UNCHANGED <<status, mem, disk, bak, pending, keys, stamp, round>>
  BY StepIsTaken DEF Clear, Point, StoreInv, TypeOK
<1>2. /\ RequestFits'
      /\ \A e \in DOMAIN cache :
           IsFresh(e) \/ (Step' # "keys" /\ (Ahead(req.todo, "clear") \/ (Ahead(req.todo, "pop") /\ e = req.id)))
  BY <1>1, DoneFits
<1>3. FilesAgree'
  <2>1. disk = [form |-> "v2", cat |-> mem]
    BY <1>1 DEF SteadyInv, FilesAgree
  <2> QED
    BY <1>1, <2>1 DEF SteadyInv, FilesAgree
<1>4. ClientsAreFresh'
  <2>1. /\ \A x : Ahead(req.todo, x) /\ x # Step => Ahead(req'.todo, x)
        /\ req' = Idle \/ req'.id = req.id
    BY <1>1, StepIsTaken, DoneLeaves DEF StoreInv
  <2>2. req' = Idle => \A x : ~Ahead(req'.todo, x)
    BY NothingAhead, IdleKnown DEF IdleIsKnown
  <2>3. ASSUME NEW e \in DOMAIN cache', IsFresh(e), cache'[e] = cache[e] PROVE IsFresh(e)'
    BY <1>1, <2>3 DEF IsFresh, Client
  <2>4. CASE Step = "clear"
    <3>1. DOMAIN cache' = {}
      BY <2>4 DEF Clear, Point
    <3> QED
      BY <3>1 DEF ClientsAreFresh
  <2>5. CASE Step = "pop"
    <3>1. /\ DOMAIN cache' \subseteq DOMAIN cache \ {req.id}
          /\ \A e \in DOMAIN cache' : cache'[e] = cache[e]
      BY <2>5 DEF Clear, Point, Restrict
    <3> QED
      BY <1>2, <2>1, <2>2, <2>3, <2>5, <3>1 DEF ClientsAreFresh
  <2>6. CASE Step = "point"
    <3>1. cache' = cache
      BY <2>6 DEF Clear, Point
    <3> QED
      BY <1>2, <2>1, <2>2, <2>3, <2>6, <3>1 DEF ClientsAreFresh
  <2> QED
    BY <1>1, <2>4, <2>5, <2>6
<1> QED
  BY <1>2, <1>3, <1>4 DEF SteadyInv

LEMMA SteadyStart == ASSUME StoreInv, SteadyInv, Start PROVE SteadyInv'
<1>1. /\ status = "down" /\ req = Idle /\ DOMAIN cache' = {} /\ ~pending
      /\ UNCHANGED <<disk, bak, keys, cache, stamp, model, round>>
  BY DEF Start, StoreInv, StartIsAlone, SteadyInv, FilesAgree
<1>2. ClientsAreFresh'
  BY <1>1 DEF ClientsAreFresh
<1>3. CASE disk.form = "v2" /\ mem' = disk.cat /\ status' = "up" /\ UNCHANGED <<req, pending>>
  <2>1. disk' = [form |-> "v2", cat |-> mem']
    BY <1>1, <1>3 DEF StoreInv, DiskIsSound
  <2>2. FilesAgree'
    BY <1>1, <1>3, <2>1 DEF SteadyInv, FilesAgree
  <2>3. RequestFits'
    <3>1. \A x : ~Ahead(req'.todo, x)
      BY <1>1, <1>3, NothingAhead, IdleKnown DEF IdleIsKnown
    <3>2. Shape(req'.todo, req'.undo # Nothing)
      BY <1>3 DEF SteadyInv, RequestFits, Fits
    <3> QED
      BY <3>1, <3>2 DEF RequestFits, Fits, KeysFit, ClientsFit
  <2> QED
    BY <1>2, <2>2, <2>3 DEF SteadyInv
<1>4. CASE /\ disk.form # "v2" /\ status' = "starting" /\ req' = [Idle EXCEPT !.todo = <<"save">>]
           /\ pending' = (disk.form = "v1")
  <2>1. req'.todo = <<"save">> /\ req'.undo = Nothing
    BY <1>4 DEF Idle
  <2>2. Len(<<"save">>) = 1 /\ <<"save">>[1] = "save" /\ 1..1 = {1}
    OBVIOUS
  <2>3. Step' = "save"
    BY <2>1, <2>2 DEF Step
  <2>4. DOMAIN keys' = {} /\ (pending' => Profiles # {})
    BY <1>1, <1>4 DEF SteadyInv, FilesAgree, StoreInv, DiskIsSound
  <2>5. FilesAgree'
    BY <1>1, <1>4, <2>3, <2>4 DEF FilesAgree, Owned
  <2>6. RequestFits'
    <3>1. Shape(<<"save">>, FALSE)
      BY <2>2 DEF Shape
    <3>2. ~Ahead(req'.todo, "change") /\ ~Ahead(req'.todo, "keys")
      BY <2>1, <2>2 DEF Ahead
    <3> QED
      BY <2>1, <3>1, <3>2 DEF RequestFits, Fits, KeysFit, ClientsFit
  <2> QED
    BY <1>2, <2>5, <2>6 DEF SteadyInv
<1> QED
  BY <1>3, <1>4 DEF Start

LEMMA SteadyCrash == ASSUME StoreInv, SteadyInv, Crash PROVE SteadyInv'
<1>1. /\ status' = "down" /\ pending' = FALSE /\ DOMAIN cache' = {} /\ req' = Idle
      /\ UNCHANGED <<disk, keys>>
  BY DEF Crash
<1>2. FilesAgree' /\ ClientsAreFresh'
  BY <1>1 DEF SteadyInv, FilesAgree, ClientsAreFresh
<1>3. RequestFits'
  <2>1. \A x : ~Ahead(req'.todo, x)
    BY <1>1, NothingAhead, IdleKnown DEF IdleIsKnown
  <2>2. Shape(req'.todo, req'.undo # Nothing)
    BY <1>1, EndedFits DEF Fits
  <2> QED
    BY <2>1, <2>2 DEF RequestFits, Fits, KeysFit, ClientsFit
<1> QED
  BY <1>2, <1>3 DEF SteadyInv

\* A round and set_model change neither the files nor what the clients are built from.
LEMMA SteadyRound ==
  ASSUME StoreInv, SteadyInv, \/ TakeClient \/ PinRound \/ EndRound \/ \E e \in Ids : SetModel(e)
                              \/ UNCHANGED vars
  PROVE  SteadyInv'
<1>1. UNCHANGED <<status, mem, disk, pending, keys, req>>
  BY DEF TakeClient, PinRound, EndRound, SetModel, vars
<1>2. FilesAgree'
  BY <1>1 DEF SteadyInv, FilesAgree, Step
<1>3. RequestFits'
  BY <1>1 DEF SteadyInv, RequestFits, Fits, KeysFit, ClientsFit
<1>4. CASE TakeClient
  <2> DEFINE e == IF model = NoId THEN mem.default ELSE model
             c == IF e \in DOMAIN cache THEN cache[e] ELSE Client(e)
  <2>1. e \in DOMAIN mem.entries /\ LockFree /\ cache' = Added(cache, e, c)
    BY <1>4 DEF TakeClient
  <2>2. \A x \in DOMAIN cache : IsFresh(x)
    BY <2>1, QuietIsSound
  <2>3. c = Client(e)
    BY <2>2 DEF IsFresh
  <2> HIDE DEF e, c
  <2>4. \A x \in DOMAIN cache' : x \in DOMAIN mem.entries /\ cache'[x] = Client(x)
    BY <2>1, <2>2, <2>3 DEF Added, IsFresh
  <2> QED
    BY <1>1, <1>2, <1>3, <2>4 DEF SteadyInv, ClientsAreFresh, IsFresh, Client
<1>5. CASE cache' = cache
  <2>1. ClientsAreFresh'
    BY <1>1, <1>5 DEF SteadyInv, ClientsAreFresh, IsFresh, Client, Step
  <2> QED
    BY <1>2, <1>3, <2>1 DEF SteadyInv
<1> QED
  BY <1>4, <1>5 DEF PinRound, EndRound, SetModel, vars

-----------------------------------------------------------------------------
(* The theorems.                                                           *)

\* Every mutation keeps both invariants.
LEMMA MutationKeeps ==
  ASSUME Assumption, StoreInv, Mutation
  PROVE  StoreInv' /\ (SteadyInv => SteadyInv')
<1>1. CASE \E p \in Providers : Add(p) \/ AddProvider(p) \/ UpdateProvider(p) \/ DeleteProvider(p)
  BY <1>1, AddKeeps, AddProviderKeeps, UpdateProviderKeeps, DeleteProviderKeeps
<1>2. CASE \E e \in Ids : Update(e) \/ Delete(e) \/ SetDefault(e) \/ SetKey(e) \/ DeleteModel(e) \/ SetModel(e)
  BY <1>2, UpdateKeeps, DeleteKeeps, SetDefaultKeeps, SetKeyKeeps, DeleteModelKeeps, SetModelKeeps, SteadyRound
<1>3. CASE \E p \in Providers, m \in Models : AddModel(p, m) \/ SetTaskModel(p, m)
  BY <1>3, AddModelKeeps, SetTaskModelKeeps
<1>4. CASE \E e \in Ids, m \in Models : UpdateModel(e, m)
  BY <1>4, UpdateModelKeeps
<1> QED
  BY <1>1, <1>2, <1>3, <1>4 DEF Mutation

LEMMA StoreInvNext == ASSUME Assumption, StoreInv, [Next]_vars PROVE StoreInv'
<1>1. CASE UNCHANGED vars
  BY <1>1 DEF vars, StoreInv, TypeOK, DiskIsSound, MemoryIsSound, RequestIsSound, StartIsAlone, BackupIsBehind
<1>2. CASE Next
  BY <1>2, MutationKeeps, ChangeKeeps, WriteKeysKeeps, KeysFailKeeps, BackupKeeps, SaveKeeps, SaveFailsKeeps,
     ClearKeeps, PointKeeps, StartKeeps, CrashKeeps, RoundKeeps DEF Next
<1> QED
  BY <1>1, <1>2

LEMMA SteadyInvNext == ASSUME Assumption, Steady, StoreInv, SteadyInv, [Next]_vars PROVE SteadyInv'
<1>1. ~SaveFails
  BY DEF Steady, SaveFails
<1>2. CASE UNCHANGED vars
  BY <1>2, SteadyRound
<1>3. CASE Next
  BY <1>1, <1>3, MutationKeeps, SteadyChange, SteadyWriteKeys, SteadyKeysFail, SteadyBackup, SteadySave,
     SteadyClearOrPoint, SteadyStart, SteadyCrash, SteadyRound DEF Next
<1> QED
  BY <1>2, <1>3

\* What the two invariants say of the store.
LEMMA StoreInvSays ==
  ASSUME StoreInv
  PROVE  TypeOK /\ DefaultResolves /\ ("torn" \notin Troubles => RollbackHolds)
BY DEF StoreInv, MemoryIsSound, DiskIsSound, IsSound, BackupIsBehind, DefaultResolves, RollbackHolds

LEMMA SteadyInvSays ==
  ASSUME StoreInv, SteadyInv
  PROVE  CacheIsFresh /\ SecretsHaveOwner
<1>1. LockFree => Step = "" /\ status = "up"
  BY IdleKnown DEF LockFree, Step, IdleIsKnown
<1>2. LockFree => disk = [form |-> "v2", cat |-> mem]
  BY <1>1 DEF SteadyInv, FilesAgree
<1>3. CacheIsFresh
  BY <1>2, QuietIsSound DEF CacheIsFresh, IsFresh
<1>4. SecretsHaveOwner
  BY DEF SteadyInv, FilesAgree, SecretsHaveOwner, Owned
<1> QED
  BY <1>3, <1>4

\* There is always a default that resolves, in memory and in the file, whatever write of a
\* mutation fails and wherever the program dies (model_store.py 1179-1180); the variables
\* keep their types.
THEOREM DefaultAlwaysResolves == ASSUME Assumption PROVE Spec => [](TypeOK /\ DefaultResolves)
<1>1. Init => StoreInv
  BY StoreInvInit
<1>2. StoreInv /\ [Next]_vars => StoreInv'
  BY StoreInvNext
<1>3. StoreInv => TypeOK /\ DefaultResolves
  BY StoreInvSays
<1> QED
  BY <1>1, <1>2, <1>3, PTL DEF Spec

\* v2 replaces a v1 file only behind a whole backup, as long as no backup is torn
\* (model_store.py 428-434, 476-483).
THEOREM BackupComesFirst == ASSUME Assumption, "torn" \notin Troubles PROVE Spec => []RollbackHolds
<1>1. Init => StoreInv
  BY StoreInvInit
<1>2. StoreInv /\ [Next]_vars => StoreInv'
  BY StoreInvNext
<1>3. StoreInv => RollbackHolds
  BY StoreInvSays
<1> QED
  BY <1>1, <1>2, <1>3, PTL DEF Spec

\* As long as saves and backups do not fail, the file and the memory are one catalog between
\* two mutations, every cached client is the one that would be built now, and no key on disk
\* outlives its provider, also if the program dies between two writes and whatever write of
\* the keys fails (model_store.py 842-845, 935-940, task_manager.py 833-836).
THEOREM ClientsAndKeysAgree ==
  ASSUME Assumption, Steady PROVE Spec => [](CacheIsFresh /\ SecretsHaveOwner)
<1>1. Init => StoreInv /\ SteadyInv
  BY StoreInvInit, SteadyInit
<1>2. StoreInv /\ SteadyInv /\ [Next]_vars => StoreInv' /\ SteadyInv'
  BY StoreInvNext, SteadyInvNext
<1>3. StoreInv /\ SteadyInv => CacheIsFresh /\ SecretsHaveOwner
  BY SteadyInvSays
<1> QED
  BY <1>1, <1>2, <1>3, PTL DEF Spec
=============================================================================
