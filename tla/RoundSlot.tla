----------------------------- MODULE RoundSlot ------------------------------
(***************************************************************************)
(* What TaskManager promises about the rounds of one task, without threads,*)
(* locks or a disk: the task is a slot that one owner at a time holds (the *)
(* request that claims a round, then the worker that runs it).  A record   *)
(* is removed only while nobody holds the slot, and never comes back.      *)
(***************************************************************************)
CONSTANT Agents
VARIABLES life, owners

vars == <<life, owners>>

Init == life = "absent" /\ owners = {}

\* create_task stores the record; resume and continue find it stored.
Open(p) ==
  /\ owners = {} /\ life # "deleted"
  /\ owners' = {p} /\ life' = "stored"

HandOver(p, q) ==
  /\ owners = {p} /\ owners' = {q}
  /\ UNCHANGED life

\* The round ends, its claim fails, or the process dies.
Close(p) ==
  /\ owners = {p} /\ owners' = {}
  /\ UNCHANGED life

Remove ==
  /\ owners = {} /\ life = "stored"
  /\ life' = "deleted"
  /\ UNCHANGED owners

Next ==
  \/ \E p \in Agents : Open(p) \/ Close(p)
  \/ \E p, q \in Agents : HandOver(p, q)
  \/ Remove

Spec == Init /\ [][Next]_vars
=============================================================================
