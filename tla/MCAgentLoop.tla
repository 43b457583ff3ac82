---------------------------- MODULE MCAgentLoop -----------------------------
(* Instances of AgentLoop for TLC. *)
EXTENDS AgentLoop

TwoIds == 1..2
Keeps  == {2}
=============================================================================
