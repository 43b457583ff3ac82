------------------------------ MODULE Context -------------------------------
(***************************************************************************)
(* The conversation the model is sent (state["messages"]) and what rewrites*)
(* it: the orphan sweep of core/agent/nodes.py and the compression of      *)
(* core/agent/context.py.  A message is a role, the tool calls it opens (a *)
(* call) or answers (a reply) and, for a reply, the verdict it tells.      *)
(* Eviction and the in-band squeeze only shorten contents: a message keeps *)
(* its place, its role and its ids, so they do not show here.              *)
(***************************************************************************)
EXTENDS Naturals, FiniteSets, SequencesExt

Text(r)     == [role |-> r, ids |-> {}, word |-> "none"]
Call(S)     == [role |-> "call", ids |-> S, word |-> "none"]
Reply(i, v) == [role |-> "reply", ids |-> {i}, word |-> v]

Calls(ms)   == {k \in DOMAIN ms : ms[k].role = "call"}
IsReply(m)  == m.role = "reply"
Replies(S, word) == [k \in 1..Cardinality(S) |->
                       LET i == SetToSeq(S)[k] IN Reply(i, word[i])]

-----------------------------------------------------------------------------
(* The sweep: every call without a reply gets one, right after the call and *)
(* the replies it already has.                                              *)

\* The last message of the block of replies that follows message i.
BlockEnd(ms, i) ==
  Max({k \in i..Len(ms) : \A j \in i + 1..k : IsReply(ms[j])})

Answered(ms) == UNION {ms[k].ids : k \in {k \in DOMAIN ms : IsReply(ms[k])}}

\* `answered' is one set for the whole conversation, and the walk goes backwards:
\* an id counts as answered once any later call with the same id was swept.
Missing(ms, i) ==
  ms[i].ids \ (Answered(ms) \cup UNION {ms[j].ids : j \in {j \in Calls(ms) : j > i}})

Orphans(ms) == UNION {Missing(ms, i) : i \in Calls(ms)}

\* (mutant) the replies go to the end of the conversation.
SweepToTail(ms, word) == ms \o Replies(Orphans(ms), word)

Sweep(ms, word) ==
  LET fill(k) == UNION {Missing(ms, i) : i \in {i \in Calls(ms) : BlockEnd(ms, i) = k}}
  IN  IF Orphans(ms) = {} THEN ms
      ELSE FlattenSeq([k \in DOMAIN ms |-> <<ms[k]>> \o Replies(fill(k), word)])

-----------------------------------------------------------------------------
(* Compression: cut the oldest messages where no call stays open.          *)

\* The calls still open before each boundary; a surplus reply opens no debt.
OpenCalls(ms) ==
  LET open[k \in 0..Len(ms)] ==
        IF k = 0 THEN 0
        ELSE CASE ms[k].role = "call"  -> open[k - 1] + Cardinality(ms[k].ids)
               [] ms[k].role = "reply" -> IF open[k - 1] = 0 THEN 0 ELSE open[k - 1] - 1
               [] OTHER                -> open[k - 1]
  IN  open

PairSafeDrop(ms, dropped) ==
  LET safe == {d \in 1..dropped : OpenCalls(ms)[d] = 0 /\ ~IsReply(ms[d + 1])}
  IN  IF safe = {} THEN 0 ELSE Max(safe)

MinKeepRecent == 2

DroppableCount(ms, keepRecent) ==
  LET keep == Max({MinKeepRecent, Min({keepRecent, Len(ms)})})
  IN  IF Len(ms) > keep THEN Len(ms) - keep ELSE 0

\* A placeholder or a summary stands for what was dropped.
Candidate(ms, keepRecent) ==
  LET d == PairSafeDrop(ms, DroppableCount(ms, keepRecent))
  IN  IF d = 0 THEN ms ELSE <<Text("system")>> \o SubSeq(ms, d + 1, Len(ms))

\* Nothing is over a threshold, the rewrite would save nothing, or it is taken.
Compressed(ms, keepRecent) == {ms, Candidate(ms, keepRecent)}

-----------------------------------------------------------------------------
\* The tool-calling protocol: the replies to a call are the messages right after
\* it, one for each of its ids, and there are no others.
WellPaired(ms) ==
  /\ \A i \in Calls(ms) :
       LET n == Cardinality(ms[i].ids)
       IN  /\ i + n <= Len(ms)
           /\ \A k \in i + 1..i + n : IsReply(ms[k])
           /\ UNION {ms[k].ids : k \in i + 1..i + n} = ms[i].ids
  /\ \A k \in DOMAIN ms : IsReply(ms[k]) =>
       \E i \in Calls(ms) : i < k /\ k <= i + Cardinality(ms[i].ids)
=============================================================================
