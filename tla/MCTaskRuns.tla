----------------------------- MODULE MCTaskRuns -----------------------------
(* Instances of TaskRuns for TLC: model values for the threads. *)
EXTENDS TaskRuns, TLC

RoundOps == {"create", "resume", "continue", "delete"}
StopContinueOps == {"create", "stop", "continue"}
StopOps  == {"create", "stop"}

Symmetry == Permutations(Clients) \cup Permutations(Workers)
=============================================================================
