---------------------------- MODULE MCRoundMemory ---------------------------
(* Instances of RoundMemory for TLC. *)
EXTENDS RoundMemory

TwoTexts == {"p1", "p2"}
OneAnswer == {1}
=============================================================================
