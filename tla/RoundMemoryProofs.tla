-------------------------- MODULE RoundMemoryProofs --------------------------
(***************************************************************************)
(* Theorems about module RoundMemory, for any plans, answers, steps,       *)
(* messages, rounds, edits and troubles: the types, the ledger, the plan   *)
(* note and the plan's versions.                                           *)
(***************************************************************************)
EXTENDS RoundMemory, SequenceTheorems, FiniteSetTheorems, WellFoundedInduction, TLAPS

USE MemoryAssumption

-----------------------------------------------------------------------------
(* Induction over the natural numbers, as the existence of a smallest      *)
(* counterexample.                                                         *)

LEMMA SmallestNat == \A T \in SUBSET Nat : T # {} => \E m \in T : \A n \in T : m <= n
<1> SUFFICES ASSUME NEW T \in SUBSET Nat, T # {} PROVE \E m \in T : \A n \in T : m <= n
  OBVIOUS
<1>1. PICK m \in T : \A n \in T : ~ (<<n, m>> \in OpToRel(<, Nat))
  <2>1. IsWellFoundedOn(OpToRel(<, Nat), Nat)
    BY NatLessThanWellFounded
  <2> QED
    BY <2>1, WFMin
<1>2. \A n \in Nat : n < m => <<n, m>> \in OpToRel(<, Nat)
  BY DEF OpToRel
<1>3. \A n \in T : ~ (n < m)
  BY <1>1, <1>2, Zenon
<1> QED
  BY <1>3

-----------------------------------------------------------------------------
(* What dropping the notes leaves.                                         *)

\* Kept is the function its recursive definition asks for.
LEMMA KeptIsDefined ==
  ASSUME NEW S, NEW ms \in Seq(S)
  PROVE  Kept(ms) = [k \in 0..Len(ms) |->
           IF k = 0 THEN <<>>
           ELSE IF IsNote(ms[k]) THEN Kept(ms)[k - 1] ELSE Append(Kept(ms)[k - 1], ms[k])]
<1> DEFINE Body(f, n) == [k \in 0..n |->
             IF k = 0 THEN <<>>
             ELSE IF IsNote(ms[k]) THEN f[k - 1] ELSE Append(f[k - 1], ms[k])]
           None == {n \in Nat : ~ \E f : f = Body(f, n)}
<1>0. Len(ms) \in Nat
  OBVIOUS
<1>1. None = {}
  <2> SUFFICES ASSUME None # {} PROVE FALSE
    OBVIOUS
  <2>1. PICK n \in None : \A m \in None : n <= m
    BY SmallestNat
  <2>2. n # 0
    <3>1. [k \in 0..0 |-> <<>>] = Body([k \in 0..0 |-> <<>>], 0)
      OBVIOUS
    <3> QED
      BY <2>1, <3>1
  <2>3. PICK f : f = Body(f, n - 1)
    <3> HIDE DEF Body
    <3>1. n - 1 \in Nat /\ ~ (n <= n - 1)
      BY <2>1, <2>2
    <3> QED
      BY <2>1, <3>1
  <2> DEFINE g == [k \in 0..n |-> IF k = n THEN (IF IsNote(ms[n]) THEN f[n - 1] ELSE Append(f[n - 1], ms[n]))
                                  ELSE f[k]]
  <2>4. g = Body(g, n)
    <3>1. ASSUME NEW k \in 0..n PROVE g[k] = Body(g, n)[k]
      <4>1. CASE k = n
        BY <4>1, <2>1, <2>2
      <4>2. CASE k < n
        <5>1. k \in 0..(n - 1) /\ g[k] = f[k] /\ (k # 0 => k - 1 \in 0..n /\ g[k - 1] = f[k - 1])
          BY <4>2, <2>1
        <5>2. f[k] = Body(f, n - 1)[k]
          BY <2>3
        <5> QED
          BY <5>1, <5>2
      <4> QED
        BY <4>1, <4>2, <2>1
    <3>2. g = [k \in 0..n |-> g[k]] /\ Body(g, n) = [k \in 0..n |-> Body(g, n)[k]]
      OBVIOUS
    <3> HIDE DEF g
    <3> QED
      BY <3>1, <3>2
  <2> QED
    BY <2>1, <2>4
<1>2. \E f : f = Body(f, Len(ms))
  BY <1>0, <1>1
<1>3. Kept(ms) = CHOOSE f : f = Body(f, Len(ms))
  BY DEF Kept
<1> HIDE DEF Body
<1>4. Kept(ms) = Body(Kept(ms), Len(ms))
  BY <1>2, <1>3
<1> QED
  BY <1>4 DEF Body

\* t has the messages among the first n of ms that are no notes, in their order.
Thins(t, ms, n) ==
  \E g \in [1..Len(t) -> 1..n] :
    /\ \A i \in 1..Len(t) : t[i] = ms[g[i]] /\ ~IsNote(ms[g[i]])
    /\ \A i, j \in 1..Len(t) : i < j => g[i] < g[j]
    /\ \A k \in 1..n : IsNote(ms[k]) \/ \E i \in 1..Len(t) : g[i] = k

LEMMA ThinsStarts == ASSUME NEW ms PROVE Thins(<<>>, ms, 0)
<1>1. Len(<<>>) = 0 /\ 1..0 = {}
  OBVIOUS
<1>2. [i \in {} |-> 0] \in [{} -> {}]
  OBVIOUS
<1> QED
  BY <1>1, <1>2 DEF Thins

LEMMA ThinsSkips ==
  ASSUME NEW S, NEW t \in Seq(S), NEW ms, NEW n \in Nat, IsNote(ms[n + 1]), Thins(t, ms, n)
  PROVE  Thins(t, ms, n + 1)
<1>1. PICK g \in [1..Len(t) -> 1..n] :
    /\ \A i \in 1..Len(t) : t[i] = ms[g[i]] /\ ~IsNote(ms[g[i]])
    /\ \A i, j \in 1..Len(t) : i < j => g[i] < g[j]
    /\ \A k \in 1..n : IsNote(ms[k]) \/ \E i \in 1..Len(t) : g[i] = k
  BY DEF Thins
<1>2. g \in [1..Len(t) -> 1..(n + 1)]
  OBVIOUS
<1>3. \A k \in 1..(n + 1) : k \in 1..n \/ k = n + 1
  OBVIOUS
<1>4. \A k \in 1..(n + 1) : IsNote(ms[k]) \/ \E i \in 1..Len(t) : g[i] = k
  BY <1>1, <1>3
<1> QED
  BY <1>1, <1>2, <1>4 DEF Thins

LEMMA ThinsTakes ==
  ASSUME NEW S, NEW t \in Seq(S), NEW ms, NEW n \in Nat, ms[n + 1] \in S, ~IsNote(ms[n + 1]),
         Thins(t, ms, n)
  PROVE  Thins(Append(t, ms[n + 1]), ms, n + 1)
<1>1. PICK g \in [1..Len(t) -> 1..n] :
    /\ \A i \in 1..Len(t) : t[i] = ms[g[i]] /\ ~IsNote(ms[g[i]])
    /\ \A i, j \in 1..Len(t) : i < j => g[i] < g[j]
    /\ \A k \in 1..n : IsNote(ms[k]) \/ \E i \in 1..Len(t) : g[i] = k
  BY DEF Thins
<1> DEFINE u == Append(t, ms[n + 1])
           h == [i \in 1..Len(u) |-> IF i = Len(u) THEN n + 1 ELSE g[i]]
<1>2. /\ Len(t) \in Nat /\ Len(u) = Len(t) + 1 /\ u[Len(u)] = ms[n + 1]
      /\ \A i \in 1..Len(t) : u[i] = t[i]
  BY AppendProperties
<1> HIDE DEF u
<1>3. \A i \in 1..Len(u) : i \in 1..Len(t) \/ i = Len(u)
  BY <1>2
<1>4. \A i \in 1..Len(t) : i \in 1..Len(u) /\ i # Len(u) /\ h[i] = g[i] /\ g[i] \in 1..n /\ g[i] < n + 1
  BY <1>2
<1>5. h[Len(u)] = n + 1 /\ Len(u) \in 1..Len(u)
  BY <1>2
<1>6. h \in [1..Len(u) -> 1..(n + 1)]
  BY <1>2, <1>3, <1>4, <1>5
<1> HIDE DEF h
<1>7. \A i \in 1..Len(u) : u[i] = ms[h[i]] /\ ~IsNote(ms[h[i]])
  BY <1>1, <1>2, <1>3, <1>4, <1>5
<1>8. \A i, j \in 1..Len(u) : i < j => i \in 1..Len(t)
  BY <1>2
<1>9. \A i, j \in 1..Len(u) : i < j => h[i] < h[j]
  BY <1>1, <1>3, <1>4, <1>5, <1>8
<1>10. \A k \in 1..(n + 1) : k \in 1..n \/ k = n + 1
  OBVIOUS
<1>11. \A k \in 1..(n + 1) : IsNote(ms[k]) \/ \E i \in 1..Len(u) : h[i] = k
  BY <1>1, <1>4, <1>5, <1>10
<1> QED
  BY <1>6, <1>7, <1>9, <1>11 DEF Thins, u

LEMMA DroppedThins ==
  ASSUME NEW S, NEW ms \in Seq(S)
  PROVE  DropNotes(ms) \in Seq(S) /\ Thins(DropNotes(ms), ms, Len(ms))
<1> DEFINE Good(n) == Kept(ms)[n] \in Seq(S) /\ Thins(Kept(ms)[n], ms, n)
           Bad == {n \in Nat : n <= Len(ms) /\ ~Good(n)}
<1>0. Len(ms) \in Nat /\ \A n \in 1..Len(ms) : ms[n] \in S
  OBVIOUS
<1>1. ASSUME NEW n \in 0..Len(ms)
      PROVE  Kept(ms)[n] = IF n = 0 THEN <<>>
                           ELSE IF IsNote(ms[n]) THEN Kept(ms)[n - 1] ELSE Append(Kept(ms)[n - 1], ms[n])
  <2> DEFINE K == Kept(ms)
             B(k) == IF k = 0 THEN <<>> ELSE IF IsNote(ms[k]) THEN K[k - 1] ELSE Append(K[k - 1], ms[k])
  <2> HIDE DEF B
  <2>1. K = [k \in 0..Len(ms) |-> B(k)]
    BY KeptIsDefined DEF B
  <2> HIDE DEF K
  <2>2. K[n] = B(n)
    BY <2>1
  <2> QED
    BY <2>2 DEF B, K
<1>2. Good(0)
  <2>1. Kept(ms)[0] = <<>>
    BY <1>0, <1>1
  <2> QED
    BY <2>1, ThinsStarts
<1>3. ASSUME NEW n \in Nat, n + 1 <= Len(ms), Good(n) PROVE Good(n + 1)
  <2>1. n + 1 \in 0..Len(ms) /\ n + 1 # 0 /\ (n + 1) - 1 = n /\ ms[n + 1] \in S
    BY <1>0, <1>3
  <2>2. CASE IsNote(ms[n + 1])
    <3>1. Kept(ms)[n + 1] = Kept(ms)[n]
      BY <2>1, <2>2, <1>1
    <3> QED
      BY <3>1, <2>2, <1>3, ThinsSkips
  <2>3. CASE ~IsNote(ms[n + 1])
    <3>1. Kept(ms)[n + 1] = Append(Kept(ms)[n], ms[n + 1])
      BY <2>1, <2>3, <1>1
    <3>2. Append(Kept(ms)[n], ms[n + 1]) \in Seq(S)
      BY <2>1, <1>3, AppendProperties
    <3>3. Thins(Append(Kept(ms)[n], ms[n + 1]), ms, n + 1)
      BY <2>1, <2>3, <1>3, ThinsTakes
    <3> QED
      BY <3>1, <3>2, <3>3
  <2> QED
    BY <2>2, <2>3
<1> HIDE DEF Good
<1>4. Bad = {}
  <2> SUFFICES ASSUME Bad # {} PROVE FALSE
    OBVIOUS
  <2>1. PICK n \in Bad : \A m \in Bad : n <= m
    BY SmallestNat
  <2>2. n # 0 /\ n \in Nat /\ n <= Len(ms) /\ n - 1 \in Nat /\ (n - 1) + 1 = n /\ ~ (n <= n - 1)
    BY <1>0, <1>2, <2>1
  <2>3. n - 1 <= Len(ms) /\ Good(n - 1)
    BY <2>1, <2>2, <1>0
  <2>4. Good((n - 1) + 1)
    BY <1>3, <2>2, <2>3
  <2> QED
    BY <2>1, <2>2, <2>4
<1> QED
  BY <1>0, <1>4 DEF Good, DropNotes
-----------------------------------------------------------------------------
(* Sequences of messages: the user turns come in their order, and at most  *)
(* one note names a version that the plan has reached.                     *)

\* The user turns are among the first m of the task, each once and in order.
SaidInOrder(ms, m) ==
  /\ \A k \in 1..Len(ms) : IsUser(ms[k]) => ms[k].what \in 1..m
  /\ \A j, k \in 1..Len(ms) : IsUser(ms[j]) /\ IsUser(ms[k]) /\ j < k => ms[j].what < ms[k].what

\* There is one note at most, and none is of a version after v.
NotedOnce(ms, v) ==
  /\ \A j, k \in 1..Len(ms) : IsNote(ms[j]) /\ IsNote(ms[k]) => j = k
  /\ \A k \in 1..Len(ms) : IsNote(ms[k]) => ms[k].what \in 0..v

Unnoted(ms) == \A k \in 1..Len(ms) : ~IsNote(ms[k])

Sound(ms, m, v) == ms \in Seq(Turns) /\ SaidInOrder(ms, m) /\ NotedOnce(ms, v)

LEMMA DropIsSound ==
  ASSUME NEW ms, NEW m \in Nat, NEW v \in Nat, Sound(ms, m, v)
  PROVE  Sound(DropNotes(ms), m, v) /\ Unnoted(DropNotes(ms))
<1> DEFINE t == DropNotes(ms)
<1>1. t \in Seq(Turns) /\ Thins(t, ms, Len(ms)) /\ ms \in Seq(Turns)
  BY DroppedThins DEF Sound
<1> HIDE DEF t
<1>2. PICK g \in [1..Len(t) -> 1..Len(ms)] :
    /\ \A i \in 1..Len(t) : t[i] = ms[g[i]] /\ ~IsNote(ms[g[i]])
    /\ \A i, j \in 1..Len(t) : i < j => g[i] < g[j]
    /\ \A k \in 1..Len(ms) : IsNote(ms[k]) \/ \E i \in 1..Len(t) : g[i] = k
  BY <1>1 DEF Thins
<1>3. Unnoted(t) /\ NotedOnce(t, v)
  BY <1>2 DEF Unnoted, NotedOnce
<1>4. SaidInOrder(t, m)
  <2>1. \A k \in 1..Len(t) : IsUser(t[k]) => t[k].what \in 1..m
    BY <1>2 DEF Sound, SaidInOrder
  <2>2. ASSUME NEW j \in 1..Len(t), NEW k \in 1..Len(t), IsUser(t[j]), IsUser(t[k]), j < k
        PROVE  t[j].what < t[k].what
    <3>1. g[j] \in 1..Len(ms) /\ g[k] \in 1..Len(ms) /\ g[j] < g[k]
      BY <1>2, <2>2
    <3>2. t[j] = ms[g[j]] /\ t[k] = ms[g[k]]
      BY <1>2
    <3> QED
      BY <2>2, <3>1, <3>2 DEF Sound, SaidInOrder
  <2> QED
    BY <2>1, <2>2 DEF SaidInOrder
<1> QED
  BY <1>1, <1>3, <1>4 DEF Sound, t

\* What is told, or written by a tool, after the other messages.
LEMMA AppendIsSound ==
  ASSUME NEW ms, NEW m \in Nat, NEW v \in Nat, Sound(ms, m, v),
         NEW t \in Turns, ~IsUser(t), ~IsNote(t)
  PROVE  Sound(Append(ms, t), m, v)
<1> DEFINE u == Append(ms, t)
<1>1. /\ ms \in Seq(Turns) /\ Len(ms) \in Nat /\ u \in Seq(Turns)
      /\ Len(u) = Len(ms) + 1 /\ u[Len(u)] = t
      /\ \A k \in 1..Len(ms) : u[k] = ms[k]
  BY AppendProperties DEF Sound
<1> HIDE DEF u
<1>2. \A k \in 1..Len(u) : k \in 1..Len(ms) \/ k = Len(u)
  BY <1>1
<1>3. \A k \in 1..Len(u) : IsUser(u[k]) \/ IsNote(u[k]) => k \in 1..Len(ms) /\ u[k] = ms[k]
  BY <1>1, <1>2
<1>4. SaidInOrder(u, m)
  BY <1>3 DEF Sound, SaidInOrder
<1>5. NotedOnce(u, v)
  BY <1>3 DEF Sound, NotedOnce
<1> QED
  BY <1>1, <1>4, <1>5 DEF Sound, u

LEMMA NoteIsSound ==
  ASSUME NEW ms, NEW m \in Nat, NEW v \in Nat, Sound(ms, m, v), Unnoted(ms),
         NEW w \in Nat
  PROVE  Sound(Append(ms, Note(w)), m, w)
<1> DEFINE u == Append(ms, Note(w))
<1>0. Note(w) \in Turns /\ IsNote(Note(w)) /\ ~IsUser(Note(w)) /\ Note(w).what = w
  BY DEF Note, Turn, Turns, IsNote, IsUser
<1>1. /\ ms \in Seq(Turns) /\ Len(ms) \in Nat /\ u \in Seq(Turns)
      /\ Len(u) = Len(ms) + 1 /\ u[Len(u)] = Note(w)
      /\ \A k \in 1..Len(ms) : u[k] = ms[k]
  BY <1>0, AppendProperties DEF Sound
<1> HIDE DEF u
<1>2. \A k \in 1..Len(u) : k \in 1..Len(ms) \/ k = Len(u)
  BY <1>1
<1>3. \A k \in 1..Len(u) : IsUser(u[k]) => k \in 1..Len(ms) /\ u[k] = ms[k]
  BY <1>0, <1>1, <1>2
<1>4. \A k \in 1..Len(u) : IsNote(u[k]) => k = Len(u)
  BY <1>0, <1>1, <1>2 DEF Unnoted
<1>5. SaidInOrder(u, m)
  BY <1>3 DEF Sound, SaidInOrder
<1>6. NotedOnce(u, w)
  <2>1. w \in 0..w
    OBVIOUS
  <2> QED
    BY <1>0, <1>1, <1>4, <2>1 DEF NotedOnce
<1> QED
  BY <1>1, <1>5, <1>6 DEF Sound, u

LEMMA UserIsSound ==
  ASSUME NEW ms, NEW m \in Nat, NEW v \in Nat, Sound(ms, m, v)
  PROVE  Sound(Append(ms, User(m + 1)), m + 1, v)
<1> DEFINE u == Append(ms, User(m + 1))
<1>0. /\ User(m + 1) \in Turns /\ ~IsNote(User(m + 1)) /\ IsUser(User(m + 1))
      /\ User(m + 1).what = m + 1 /\ m + 1 \in 1..(m + 1)
  BY DEF User, Turn, Turns, IsNote, IsUser
<1>1. /\ ms \in Seq(Turns) /\ Len(ms) \in Nat /\ u \in Seq(Turns)
      /\ Len(u) = Len(ms) + 1 /\ u[Len(u)] = User(m + 1)
      /\ \A k \in 1..Len(ms) : u[k] = ms[k]
  BY <1>0, AppendProperties DEF Sound
<1> HIDE DEF u
<1>2. \A k \in 1..Len(u) : k \in 1..Len(ms) \/ k = Len(u)
  BY <1>1
<1>3. \A k \in 1..Len(u) : IsNote(u[k]) => k \in 1..Len(ms) /\ u[k] = ms[k]
  BY <1>0, <1>1, <1>2
<1>4. NotedOnce(u, v)
  BY <1>3 DEF Sound, NotedOnce
<1>5. \A k \in 1..Len(ms) : IsUser(ms[k]) =>
        ms[k].what \in 1..(m + 1) /\ ms[k].what < m + 1
  BY DEF Sound, SaidInOrder
<1>6. SaidInOrder(u, m + 1)
  <2>1. \A k \in 1..Len(u) : IsUser(u[k]) => u[k].what \in 1..(m + 1)
    BY <1>0, <1>1, <1>2, <1>5
  <2>2. ASSUME NEW j \in 1..Len(u), NEW k \in 1..Len(u), IsUser(u[j]), IsUser(u[k]), j < k
        PROVE  u[j].what < u[k].what
    <3>1. j \in 1..Len(ms) /\ u[j] = ms[j]
      BY <1>1, <2>2
    <3>2. CASE k = Len(u)
      BY <1>0, <1>1, <1>5, <2>2, <3>1, <3>2
    <3>3. CASE k # Len(u)
      BY <1>1, <1>2, <2>2, <3>1, <3>3 DEF Sound, SaidInOrder
    <3> QED
      BY <3>2, <3>3
  <2> QED
    BY <2>1, <2>2 DEF SaidInOrder
<1> QED
  BY <1>1, <1>4, <1>6 DEF Sound, u

LEMMA CutIsSound ==
  ASSUME NEW ms, NEW m \in Nat, NEW v \in Nat, Sound(ms, m, v), NEW left \in Cuts(ms)
  PROVE  Sound(left.msgs, m, v)
<1> DEFINE cut == left.msgs
<1> SUFFICES ASSUME cut # ms PROVE Sound(cut, m, v)
  OBVIOUS
<1> DEFINE c == Turn("cut", 0)
<1>0. c \in Turns /\ ~IsUser(c) /\ ~IsNote(c) /\ c.role = "cut"
  BY DEF Turn, Turns, IsUser, IsNote
<1> HIDE DEF c
<1>1. ms \in Seq(Turns) /\ Len(ms) \in Nat
  BY DEF Sound
<1>2. PICK d \in 1..(Len(ms) - 1) : cut = <<c>> \o SubSeq(ms, d + 1, Len(ms))
  BY DEF Cuts, c
<1> HIDE DEF cut
<1> DEFINE t == SubSeq(ms, d + 1, Len(ms))
<1>3. /\ t \in Seq(Turns) /\ Len(t) = Len(ms) - d
      /\ \A i \in 1..Len(t) : t[i] = ms[d + i]
  <2>1. d + 1 \in 1..Len(ms)
    BY <1>1
  <2>2. \A i \in (d + 1)..Len(ms) : ms[i] \in Turns
    BY <1>1
  <2>3. t = [i \in 1..(Len(ms) - d) |-> ms[d + i]]
    BY <1>1, <2>1
  <2>4. Len(ms) - d \in Nat /\ \A i \in 1..(Len(ms) - d) : d + i \in (d + 1)..Len(ms)
    BY <1>1
  <2> HIDE DEF t
  <2>5. t \in Seq(Turns) /\ Len(t) = Len(ms) - d
    BY <2>2, <2>3, <2>4
  <2> QED
    BY <2>3, <2>5
<1> HIDE DEF t
<1>4. /\ <<c>> \in Seq(Turns) /\ Len(<<c>>) = 1 /\ <<c>>[1] = c
  BY <1>0
<1>5. /\ cut \in Seq(Turns) /\ Len(cut) = 1 + Len(t) /\ cut[1] = c
      /\ \A i \in 1..Len(t) : cut[i + 1] = t[i]
  BY <1>2, <1>3, <1>4, ConcatProperties DEF t
<1>6. \A k \in 1..Len(cut) : k = 1 \/ (k + d - 1 \in 1..Len(ms) /\ cut[k] = ms[k + d - 1])
  <2> SUFFICES ASSUME NEW k \in 1..Len(cut), k # 1 PROVE k + d - 1 \in 1..Len(ms) /\ cut[k] = ms[k + d - 1]
    OBVIOUS
  <2>1. k - 1 \in 1..Len(t) /\ (k - 1) + 1 = k /\ d + (k - 1) = k + d - 1
    BY <1>1, <1>3, <1>5
  <2>2. k + d - 1 \in 1..Len(ms)
    <3>1. Len(ms) \in Nat /\ d \in 1..(Len(ms) - 1) /\ k \in 2..(1 + Len(ms) - d)
      BY <1>1, <1>3, <1>5
    <3> QED
      BY <3>1
  <2>3. cut[(k - 1) + 1] = t[k - 1] /\ t[k - 1] = ms[d + (k - 1)]
    BY <1>3, <1>5, <2>1
  <2> QED
    BY <2>1, <2>2, <2>3
<1>7. \A k \in 1..Len(cut) : IsUser(cut[k]) \/ IsNote(cut[k]) =>
         k + d - 1 \in 1..Len(ms) /\ cut[k] = ms[k + d - 1]
  BY <1>0, <1>5, <1>6
<1>8. \A j, k \in Nat : (j < k <=> j + d - 1 < k + d - 1) /\ (j = k <=> j + d - 1 = k + d - 1)
  OBVIOUS
<1>9. \A k \in 1..Len(cut) : k \in Nat
  OBVIOUS
<1>10. SaidInOrder(cut, m)
  <2>1. \A k \in 1..Len(cut) : IsUser(cut[k]) => cut[k].what \in 1..m
    BY <1>7 DEF Sound, SaidInOrder
  <2>2. ASSUME NEW j \in 1..Len(cut), NEW k \in 1..Len(cut), IsUser(cut[j]), IsUser(cut[k]), j < k
        PROVE  cut[j].what < cut[k].what
    <3>1. /\ j + d - 1 \in 1..Len(ms) /\ cut[j] = ms[j + d - 1]
          /\ k + d - 1 \in 1..Len(ms) /\ cut[k] = ms[k + d - 1]
      BY <1>7, <2>2
    <3>2. j + d - 1 < k + d - 1
      BY <1>8, <1>9, <2>2
    <3> QED
      BY <2>2, <3>1, <3>2 DEF Sound, SaidInOrder
  <2> QED
    BY <2>1, <2>2 DEF SaidInOrder
<1>11. NotedOnce(cut, v)
  BY <1>7, <1>8, <1>9 DEF Sound, NotedOnce
<1> QED
  BY <1>5, <1>10, <1>11 DEF Sound, cut

LEMMA CutIsSaid == ASSUME NEW ms, NEW cut \in Cuts(ms) PROVE cut.shrunk \in BOOLEAN
<1>1. ASSUME NEW b \in BOOLEAN, cut = [msgs |-> ms, shrunk |-> b] PROVE cut.shrunk \in BOOLEAN
  <2>1. cut.shrunk = b
    BY <1>1
  <2> QED
    BY <2>1
<1>2. ASSUME NEW t, cut = [msgs |-> t, shrunk |-> TRUE] PROVE cut.shrunk \in BOOLEAN
  <2>1. cut.shrunk = TRUE
    BY <1>2
  <2> QED
    BY <2>1
<1> QED
  BY <1>1, <1>2, Zenon DEF Cuts

\* Later versions and more user turns change nothing.
LEMMA SoundGrows ==
  ASSUME NEW ms, NEW m \in Nat, NEW v \in Nat, Sound(ms, m, v), NEW n \in Nat, NEW w \in Nat,
         m <= n, v <= w
  PROVE  Sound(ms, n, w)
<1>1. 1..m \subseteq 1..n /\ 0..v \subseteq 0..w
  OBVIOUS
<1> QED
  BY <1>1 DEF Sound, SaidInOrder, NotedOnce

LEMMA EnsureIsSound ==
  ASSUME NEW ms, NEW m \in Nat, NEW v \in Nat, Sound(ms, m, v), NEW w \in Nat, v <= w
  PROVE  Sound(EnsureNote(ms, w), m, w)
<1>1. Sound(ms, m, w)
  BY SoundGrows
<1>2. Sound(Append(DropNotes(ms), Note(w)), m, w)
  BY DropIsSound, NoteIsSound
<1> QED
  BY <1>1, <1>2 DEF EnsureNote
-----------------------------------------------------------------------------
(* The operators that look for the last message of a kind.                 *)

LEMMA LargestNat ==
  ASSUME NEW n \in Nat, NEW I \in SUBSET (1..n), I # {}
  PROVE  Max(I) \in I /\ \A i \in I : Max(I) >= i
<1> DEFINE T == {n - i : i \in I}
<1>1. T \in SUBSET Nat /\ T # {}
  <2>1. \A i \in I : n - i \in Nat
    OBVIOUS
  <2> QED
    BY <2>1
<1> HIDE DEF T
<1>2. PICK t \in T : \A u \in T : t <= u
  BY <1>1, SmallestNat
<1>3. PICK i \in I : t = n - i
  BY <1>2 DEF T
<1>4. \A j \in I : n - j \in T
  BY DEF T
<1>5. \A j \in I : i >= j
  <2> SUFFICES ASSUME NEW j \in I PROVE i >= j
    OBVIOUS
  <2>1. n - i <= n - j /\ i \in Nat /\ j \in Nat
    BY <1>2, <1>3, <1>4
  <2> QED
    BY <2>1
<1> QED
  BY <1>5 DEF Max

LEMMA MaxOfTwo ==
  ASSUME NEW a \in Nat, NEW b \in Nat
  PROVE  Max({a, b}) \in {a, b} /\ Max({a, b}) >= a /\ Max({a, b}) >= b
<1>1. \E x \in {a, b} : \A y \in {a, b} : x >= y
  <2>1. CASE a >= b
    BY <2>1
  <2>2. CASE b >= a
    BY <2>2
  <2> QED
    BY <2>1, <2>2
<1> QED
  BY <1>1 DEF Max

LEMMA LastNote ==
  ASSUME NEW ms \in Seq(Turns)
  PROVE  LET n == SelectLastInSeq(ms, IsNote)
         IN  n = 0 \/ (n \in 1..Len(ms) /\ IsNote(ms[n]))
<1> DEFINE I == {i \in 1..Len(ms) : IsNote(ms[i])}
<1>1. SelectLastInSeq(ms, IsNote) = IF I # {} THEN Max(I) ELSE 0
  BY DEF SelectLastInSeq
<1>2. I # {} => Max(I) \in I
  <2>1. Len(ms) \in Nat /\ I \in SUBSET (1..Len(ms))
    OBVIOUS
  <2> HIDE DEF I
  <2> QED
    BY <2>1, LargestNat
<1> QED
  BY <1>1, <1>2

LEMMA LastSpoken ==
  ASSUME NEW ms \in Seq(Turns)
  PROVE  LET n == SelectLastInSeq(ms, IsSpoken)
         IN  /\ n = 0 \/ (n \in 1..Len(ms) /\ IsSpoken(ms[n]))
             /\ Len(ms) > 0 /\ IsSpoken(ms[Len(ms)]) => n = Len(ms)
<1> DEFINE I == {i \in 1..Len(ms) : IsSpoken(ms[i])}
<1>1. SelectLastInSeq(ms, IsSpoken) = IF I # {} THEN Max(I) ELSE 0
  BY DEF SelectLastInSeq
<1>2. I # {} => Max(I) \in I /\ \A i \in I : Max(I) >= i
  <2>1. Len(ms) \in Nat /\ I \in SUBSET (1..Len(ms))
    OBVIOUS
  <2> HIDE DEF I
  <2> QED
    BY <2>1, LargestNat
<1>3. ASSUME Len(ms) > 0, IsSpoken(ms[Len(ms)]) PROVE I # {} /\ Max(I) = Len(ms)
  <2>1. Len(ms) \in I
    BY <1>3
  <2>2. Max(I) \in 1..Len(ms) /\ Max(I) >= Len(ms)
    BY <1>2, <2>1
  <2> QED
    BY <2>1, <2>2
<1> QED
  BY <1>1, <1>2, <1>3

-----------------------------------------------------------------------------
(* The ledger.                                                             *)

\* A turn at the end of the ledger leaves the others where they are.
LEMMA AppendGrows ==
  ASSUME NEW turns \in Seq(Turns), NEW t \in Turns
  PROVE  /\ Append(turns, t) \in Seq(Turns)
         /\ Len(Append(turns, t)) = Len(turns) + 1
         /\ Last(Append(turns, t)) = t
         /\ IsPrefix(turns, Append(turns, t))
         /\ UserTurns(Append(turns, t)) = UserTurns(turns) \cup (IF IsUser(t) THEN {t.what} ELSE {})
<1> DEFINE u == Append(turns, t)
<1>1. /\ u \in Seq(Turns) /\ Len(turns) \in Nat /\ Len(u) = Len(turns) + 1 /\ u[Len(u)] = t
      /\ \A k \in 1..Len(turns) : u[k] = turns[k]
  BY AppendProperties
<1> HIDE DEF u
<1>2. DOMAIN u = 1..Len(u) /\ DOMAIN turns = 1..Len(turns)
  BY <1>1
<1>3. \A k \in 1..Len(u) : k \in 1..Len(turns) \/ k = Len(u)
  BY <1>1
<1>4. Len(u) \in 1..Len(u) /\ \A k \in 1..Len(turns) : k \in 1..Len(u)
  BY <1>1
<1>5. UserTurns(u) = UserTurns(turns) \cup (IF IsUser(t) THEN {t.what} ELSE {})
  BY <1>1, <1>2, <1>3, <1>4 DEF UserTurns
<1>6. IsPrefix(turns, u)
  <2>1. SubSeq(turns, 1, Len(turns)) = [k \in 1..Len(turns) |-> turns[k]]
    OBVIOUS
  <2>2. SubSeq(u, 1, Len(turns)) = [k \in 1..Len(turns) |-> u[k]]
    BY <1>1
  <2>3. SubSeq(turns, 1, Len(turns)) = SubSeq(u, 1, Len(turns))
    BY <1>1, <2>1, <2>2
  <2> QED
    BY <1>1, <2>3 DEF IsPrefix
<1> QED
  BY <1>1, <1>5, <1>6 DEF u, Last

LEMMA PrefixIsTransitive ==
  ASSUME NEW a \in Seq(Turns), NEW b \in Seq(Turns), NEW c \in Seq(Turns),
         IsPrefix(a, b), IsPrefix(b, c)
  PROVE  IsPrefix(a, c)
<1>1. Len(a) \in Nat /\ Len(b) \in Nat /\ Len(c) \in Nat /\ Len(a) <= Len(b) /\ Len(b) <= Len(c)
  BY DEF IsPrefix
<1>2. /\ SubSeq(a, 1, Len(a)) = [k \in 1..Len(a) |-> a[k]]
      /\ SubSeq(b, 1, Len(a)) = [k \in 1..Len(a) |-> b[k]]
      /\ SubSeq(b, 1, Len(b)) = [k \in 1..Len(b) |-> b[k]]
      /\ SubSeq(c, 1, Len(b)) = [k \in 1..Len(b) |-> c[k]]
      /\ SubSeq(c, 1, Len(a)) = [k \in 1..Len(a) |-> c[k]]
  BY <1>1
<1>3. \A k \in 1..Len(a) : a[k] = b[k]
  BY <1>2 DEF IsPrefix
<1>4. \A k \in 1..Len(b) : b[k] = c[k]
  BY <1>2 DEF IsPrefix
<1>5. \A k \in 1..Len(a) : k \in 1..Len(b)
  BY <1>1
<1>6. \A k \in 1..Len(a) : a[k] = c[k]
  BY <1>3, <1>4, <1>5
<1> QED
  BY <1>1, <1>2, <1>6 DEF IsPrefix

LEMMA PrefixIsReflexive == ASSUME NEW a \in Seq(Turns) PROVE IsPrefix(a, a)
  BY DEF IsPrefix

LEMMA MergedGrows ==
  ASSUME NEW turns \in Seq(Turns), Len(turns) > 0, NEW ms \in Seq(Turns), NEW fin
  PROVE  /\ Merged(turns, ms, fin) \in Seq(Turns)
         /\ IsPrefix(turns, Merged(turns, ms, fin))
         /\ UserTurns(Merged(turns, ms, fin)) = UserTurns(turns)
         /\ IsSpoken(fin) /\ Len(ms) > 0 /\ Last(ms) = fin => Last(Merged(turns, ms, fin)) = fin
<1> DEFINE note == SelectLastInSeq(ms, IsNote)
           answer == SelectLastInSeq(ms, IsSpoken)
           kept == IF note = 0 \/ ms[note] \in ToSet(turns) THEN turns ELSE Append(turns, ms[note])
           merged == IF answer = 0 \/ ms[answer] # fin \/ Last(kept) = fin THEN kept
                     ELSE Append(kept, fin)
<1>1. Merged(turns, ms, fin) = merged
  BY DEF Merged
<1>2. note = 0 \/ (note \in 1..Len(ms) /\ IsNote(ms[note]) /\ ms[note] \in Turns /\ ~IsUser(ms[note]))
  BY LastNote DEF IsNote, IsUser
<1>3. /\ answer = 0 \/ (answer \in 1..Len(ms) /\ ms[answer] \in Turns /\ ~IsUser(ms[answer]))
      /\ Len(ms) > 0 /\ IsSpoken(ms[Len(ms)]) => answer = Len(ms)
  BY LastSpoken DEF IsSpoken, IsUser
<1> HIDE DEF note, answer
<1>4. kept \in Seq(Turns) /\ IsPrefix(turns, kept) /\ UserTurns(kept) = UserTurns(turns)
  BY <1>2, AppendGrows, PrefixIsReflexive
<1> HIDE DEF kept
<1>5. /\ merged \in Seq(Turns) /\ IsPrefix(turns, merged) /\ UserTurns(merged) = UserTurns(turns)
  <2>1. CASE answer = 0 \/ ms[answer] # fin \/ Last(kept) = fin
    BY <1>4, <2>1
  <2>2. CASE ~(answer = 0 \/ ms[answer] # fin \/ Last(kept) = fin)
    <3>1. fin \in Turns /\ ~IsUser(fin)
      BY <1>3, <2>2
    <3>2. IsPrefix(kept, Append(kept, fin)) /\ Append(kept, fin) \in Seq(Turns)
      BY <1>4, <3>1, AppendGrows
    <3> QED
      BY <1>4, <2>2, <3>1, <3>2, AppendGrows, PrefixIsTransitive
  <2> QED
    BY <2>1, <2>2
<1>6. ASSUME IsSpoken(fin), Len(ms) > 0, Last(ms) = fin PROVE Last(merged) = fin
  <2>1. answer = Len(ms) /\ answer # 0 /\ ms[answer] = fin /\ fin \in Turns
    BY <1>3, <1>6 DEF Last
  <2> QED
    BY <1>4, <2>1, AppendGrows
<1> QED
  BY <1>1, <1>5, <1>6

-----------------------------------------------------------------------------
(* The inductive invariant.                                                *)

Checkpoints == [msgs : Seq(Turns), text : Texts \cup {"none"}, version : Nat, hash : Hashes]

\* How many user turns the ledger has.
Said == Cardinality(UserTurns(record.turns))

\* The ranges; a round goes on calling the model only while it has calls left.
Typed ==
  /\ record \in Records /\ disk \in Records
  /\ file \in Texts \cup {"none"}
  /\ ckpt \in Checkpoints
  /\ phase \in {"parked", "claimed", "agent", "finish"}
  /\ status \in {"INTERRUPTED", "FAILED"}
  /\ said \in 0..MaxSaid /\ calls \in 0..MaxSteps
  /\ phase = "agent" => calls < MaxSteps
  /\ final \in Turns \cup {NoTurn, Turn("error", 0)}
  /\ blind \in BOOLEAN /\ shrunk \in BOOLEAN /\ drift \in BOOLEAN

\* The user turns of the ledger are numbered without a gap, on disk as well.
LedgerNumbers ==
  /\ Said \in 1..MaxSaid
  /\ UserTurns(record.turns) = 1..Said /\ UserTurns(disk.turns) = 1..Said
  /\ heard \subseteq 1..Said

\* The model's messages are of this ledger; a message that was claimed is the ledger's
\* last and has not been said to the model.
MessagesSound ==
  /\ Sound(ckpt.msgs, Said, ckpt.version)
  /\ phase = "claimed" /\ said # 0 => said = Said /\ Sound(ckpt.msgs, Said - 1, ckpt.version)

\* A round that has an answer carries it at the end of its messages until it is settled.
AnswerIsCarried ==
  /\ phase \in {"claimed", "agent"} => final = NoTurn
  /\ phase = "finish" /\ IsSpoken(final) => Len(ckpt.msgs) > 0 /\ Last(ckpt.msgs) = final
  /\ AnswerIsShown

\* While no other hand has been at the file, it holds the record's plan until the round
\* writes one, and the plan of a round that has seen the file.
PlanIsFollowed ==
  /\ phase # "finish" /\ ~drift => file = TextOf(record.hash)
  /\ phase \in {"agent", "finish"} /\ ~drift /\ ~blind => ckpt.hash = file

\* A plan that a round took up has a version of its own.
VersionIsAhead ==
  phase \in {"agent", "finish"} /\ ~blind =>
    /\ ckpt.version >= record.version
    /\ ckpt.hash \in Texts \ {record.hash} => ckpt.version > record.version

MemoryInv ==
  Typed /\ LedgerNumbers /\ MessagesSound /\ AnswerIsCarried /\ PlanIsFollowed /\ VersionIsAhead

-----------------------------------------------------------------------------
(* What a call of the model may be made with.                              *)

\* The plan of a call: the round's, or the file's under a version of its own.
Follows(s) ==
  /\ s \in Checkpoints
  /\ Sound(s.msgs, Said, s.version)
  /\ s.version >= ckpt.version
  /\ ckpt.hash = file => s.hash = file
  /\ s.hash = ckpt.hash \/ s.hash = "none" \/ s.version > ckpt.version

LEMMA UncheckedFollows ==
  ASSUME Typed, LedgerNumbers, MessagesSound, NEW cut \in Cuts(ckpt.msgs)
  PROVE  Follows(Unchecked(cut.msgs)) /\ Unchecked(cut.msgs).text = ckpt.text
<1>1. Said \in Nat /\ ckpt \in Checkpoints /\ ckpt.version \in Nat
  BY DEF LedgerNumbers, Typed, Checkpoints
<1>2. Sound(cut.msgs, Said, ckpt.version)
  BY <1>1, CutIsSound DEF MessagesSound
<1> DEFINE ms == cut.msgs
<1> HIDE DEF ms
<1>3. Unchecked(ms) = [msgs |-> ms, text |-> ckpt.text, version |-> ckpt.version, hash |-> ckpt.hash]
  BY <1>1 DEF Unchecked, Checkpoints
<1>4. ms \in Seq(Turns) /\ Sound(ms, Said, ckpt.version)
  BY <1>2 DEF Sound, ms
<1>5. Follows(Unchecked(ms)) /\ Unchecked(ms).text = ckpt.text
  BY <1>1, <1>3, <1>4 DEF Follows, Checkpoints
<1> QED
  BY <1>5 DEF ms

LEMMA CheckedFollows ==
  ASSUME Typed, LedgerNumbers, MessagesSound, NEW left \in Cuts(ckpt.msgs)
  PROVE  Follows(Checked(left.msgs))
<1> DEFINE cut == left.msgs
<1> DEFINE v == ckpt.version + (IF file # ckpt.hash /\ file # "none" THEN 1 ELSE 0)
           ms == IF file = "none" THEN DropNotes(cut) ELSE EnsureNote(cut, v)
<1>1. /\ Said \in Nat /\ ckpt \in Checkpoints /\ ckpt.version \in Nat
      /\ file \in Texts \cup {"none"} /\ file \in Hashes
  BY DEF LedgerNumbers, Typed, Checkpoints, Hashes
<1>2. Sound(cut, Said, ckpt.version)
  BY <1>1, CutIsSound DEF MessagesSound
<1> HIDE DEF cut
<1>3. v \in Nat /\ v >= ckpt.version /\ (file = ckpt.hash \/ file = "none" \/ v > ckpt.version)
  BY <1>1
<1>4. Checked(cut) = [msgs |-> ms, text |-> file, version |-> v, hash |-> file]
  BY DEF Checked
<1> HIDE DEF v
<1>5. Sound(ms, Said, v)
  <2>1. CASE file = "none"
    <3>1. Sound(DropNotes(cut), Said, ckpt.version)
      BY <1>1, <1>2, DropIsSound
    <3>2. Sound(DropNotes(cut), Said, v)
      BY <1>1, <1>3, <3>1, SoundGrows
    <3> QED
      BY <2>1, <3>1, <3>2
  <2>2. CASE file # "none"
    BY <1>1, <1>2, <1>3, <2>2, EnsureIsSound
  <2> QED
    BY <2>1, <2>2
<1> HIDE DEF ms
<1>6. ms \in Seq(Turns)
  BY <1>5 DEF Sound
<1>7. Follows(Checked(cut))
  BY <1>1, <1>2, <1>3, <1>4, <1>5, <1>6 DEF Follows, Checkpoints
<1> QED
  BY <1>7 DEF cut

\* After the first call of a round, only a compression brings another plan into a call.
LEMMA SendableFollows ==
  ASSUME Typed, LedgerNumbers, MessagesSound, NEW cut \in Cuts(ckpt.msgs), NEW s \in Sendable(cut)
  PROVE  Follows(s) /\ (calls > 0 /\ s.text # ckpt.text => cut.shrunk)
<1>1. CASE s = Checked(cut.msgs) /\ Refreshes(cut)
  BY <1>1, CheckedFollows DEF Refreshes, Typed
<1>2. CASE s = Unchecked(cut.msgs)
  BY <1>2, UncheckedFollows
<1> QED
  BY <1>1, <1>2 DEF Sendable

LEMMA SpeakFollows ==
  ASSUME Typed, LedgerNumbers, NEW s, Follows(s), NEW t \in Turns, ~IsUser(t), ~IsNote(t)
  PROVE  /\ Follows(Speak(s, t))
         /\ Len(Speak(s, t).msgs) > 0 /\ Last(Speak(s, t).msgs) = t
         /\ Speak(s, t).text = s.text
<1>1. /\ Said \in Nat /\ s \in Checkpoints /\ s.version \in Nat /\ s.msgs \in Seq(Turns)
      /\ Sound(s.msgs, Said, s.version)
  BY DEF LedgerNumbers, Follows, Checkpoints
<1>2. Speak(s, t) = [msgs |-> Append(s.msgs, t), text |-> s.text, version |-> s.version, hash |-> s.hash]
  <2> DEFINE ms == Append(s.msgs, t)
  <2> HIDE DEF ms
  <2>1. [s EXCEPT !.msgs = ms] = [msgs |-> ms, text |-> s.text, version |-> s.version, hash |-> s.hash]
    BY <1>1 DEF Checkpoints
  <2> QED
    BY <2>1 DEF Speak, ms
<1>3. Sound(Append(s.msgs, t), Said, s.version)
  BY <1>1, AppendIsSound
<1>4. /\ Append(s.msgs, t) \in Seq(Turns)
      /\ Len(Append(s.msgs, t)) > 0 /\ Last(Append(s.msgs, t)) = t
  BY <1>1, AppendGrows
<1>5. Follows(Speak(s, t))
  BY <1>1, <1>2, <1>3, <1>4 DEF Follows, Checkpoints
<1> QED
  BY <1>2, <1>3, <1>4, <1>5

\* The model writes a plan: a note of a new version is the last message.
PlanWritten(s, p) ==
  [msgs |-> Append(DropNotes(s.msgs), Note(s.version + 1)), text |-> p, version |-> s.version + 1,
   hash |-> p]

LEMMA WritingIsSound ==
  ASSUME Typed, LedgerNumbers, NEW s, Follows(s), NEW p \in Texts
  PROVE  /\ PlanWritten(s, p) \in Checkpoints
         /\ Sound(PlanWritten(s, p).msgs, Said, s.version + 1)
         /\ Len(PlanWritten(s, p).msgs) > 0
         /\ Last(PlanWritten(s, p).msgs) = Note(s.version + 1)
<1>1. /\ Said \in Nat /\ s.version \in Nat /\ s.version + 1 \in Nat /\ Sound(s.msgs, Said, s.version)
  BY DEF LedgerNumbers, Follows, Checkpoints
<1>2. /\ Sound(DropNotes(s.msgs), Said, s.version) /\ Unnoted(DropNotes(s.msgs))
      /\ DropNotes(s.msgs) \in Seq(Turns)
  BY <1>1, DropIsSound DEF Sound
<1>3. Sound(Append(DropNotes(s.msgs), Note(s.version + 1)), Said, s.version + 1)
  BY <1>1, <1>2, NoteIsSound
<1>4. Note(s.version + 1) \in Turns
  BY <1>1 DEF Note, Turn, Turns
<1>5. /\ Len(Append(DropNotes(s.msgs), Note(s.version + 1))) > 0
      /\ Last(Append(DropNotes(s.msgs), Note(s.version + 1))) = Note(s.version + 1)
  BY <1>2, <1>4, AppendGrows
<1>6. Append(DropNotes(s.msgs), Note(s.version + 1)) \in Seq(Turns)
  BY <1>3 DEF Sound
<1> QED
  BY <1>1, <1>3, <1>5, <1>6 DEF PlanWritten, Checkpoints, Hashes

-----------------------------------------------------------------------------
(* The invariant holds at first and is kept by every step.                 *)

LEMMA MemoryStarts == Init => MemoryInv
<1> SUFFICES ASSUME Init PROVE MemoryInv
  OBVIOUS
<1> USE DEF Init
<1>1. User(1) \in Turns /\ IsUser(User(1)) /\ User(1).what = 1 /\ NoTurn.role = "none"
  BY DEF User, Turn, Turns, IsUser, NoTurn
<1>2. <<User(1)>> \in Seq(Turns) /\ DOMAIN <<User(1)>> = {1} /\ <<User(1)>>[1] = User(1)
  BY <1>1
<1>3. UserTurns(<<User(1)>>) = {1}
  BY <1>1, <1>2 DEF UserTurns
<1>4. Said = 1 /\ 1..1 = {1}
  <2>1. record.turns = <<User(1)>> /\ Cardinality({1}) = 1
    BY FS_Singleton
  <2>2. UserTurns(record.turns) = {1}
    BY <1>3, <2>1
  <2>3. 1..1 = {1}
    OBVIOUS
  <2> QED
    BY <2>1, <2>2, <2>3 DEF Said
<1>5. Typed
  <2>1. record \in Records
    BY <1>2 DEF Records, Hashes
  <2>2. ckpt \in Checkpoints
    BY DEF Checkpoints, Hashes
  <2>3. said \in 0..MaxSaid /\ calls \in 0..MaxSteps /\ calls < MaxSteps
    OBVIOUS
  <2> QED
    BY <2>1, <2>2, <2>3 DEF Typed
<1>6. LedgerNumbers
  BY <1>3, <1>4 DEF LedgerNumbers
<1>7. Sound(<<>>, 1, 0) /\ Sound(<<>>, 0, 0)
  BY DEF Sound, SaidInOrder, NotedOnce
<1>8. MessagesSound
  BY <1>4, <1>7 DEF MessagesSound
<1>9. AnswerIsCarried /\ PlanIsFollowed /\ VersionIsAhead
  BY DEF AnswerIsCarried, AnswerIsShown, PlanIsFollowed, VersionIsAhead, TextOf
<1> QED
  BY <1>5, <1>6, <1>8, <1>9 DEF MemoryInv

\* A call of the model with what it may be made with.
Calling ==
  /\ phase = "agent" /\ calls' = calls + 1
  /\ phase' \in {"agent", "finish"} /\ (phase' = "agent" => calls + 1 < MaxSteps)
  /\ Follows(ckpt') /\ shrunk' \in BOOLEAN
  /\ UNCHANGED <<record, disk, file, said, status, heard, blind, drift>>

LEMMA CallKeeps ==
  ASSUME MemoryInv, Calling, final' \in Turns \cup {NoTurn, Turn("error", 0)},
         phase' = "agent" => final' = NoTurn,
         phase' = "finish" /\ IsSpoken(final') => Len(ckpt'.msgs) > 0 /\ Last(ckpt'.msgs) = final'
  PROVE  MemoryInv'
<1> USE DEF MemoryInv, Calling
<1>1. Said' = Said
  BY DEF Said
<1>2. ckpt' \in Checkpoints /\ ckpt'.version \in Nat /\ ckpt.version \in Nat /\ record.version \in Nat
  BY DEF Follows, Checkpoints, Typed, Records
<1>3. calls' \in 0..MaxSteps
  BY DEF Typed
<1>4. Typed'
  BY <1>2, <1>3 DEF Typed
<1>5. LedgerNumbers' /\ MessagesSound'
  BY <1>1 DEF LedgerNumbers, MessagesSound, Follows
<1>6. AnswerIsCarried'
  BY DEF AnswerIsCarried, AnswerIsShown
<1>7. PlanIsFollowed'
  BY DEF PlanIsFollowed, Follows
<1>8. VersionIsAhead'
  BY <1>2 DEF VersionIsAhead, Follows
<1> QED
  BY <1>4, <1>5, <1>6, <1>7, <1>8

\* What holds of the messages is about record, disk and checkpoint alone; so a step that
\* leaves those alone, or loses the record for the saved one, keeps it.
LEMMA ParkedKeeps ==
  ASSUME MemoryInv, UNCHANGED <<disk, ckpt, said, heard>>, record' \in {record, disk},
         phase' = "parked" \/ phase' = phase
  PROVE  LedgerNumbers' /\ MessagesSound'
<1>1. UserTurns(record'.turns) = UserTurns(record.turns)
  BY DEF MemoryInv, LedgerNumbers
<1>2. Said' = Said
  BY <1>1 DEF Said
<1> QED
  BY <1>1, <1>2 DEF MemoryInv, LedgerNumbers, MessagesSound

LEMMA MemoryNext == MemoryInv /\ [Next]_vars => MemoryInv'
<1> SUFFICES ASSUME MemoryInv, [Next]_vars PROVE MemoryInv'
  OBVIOUS
<1>0. /\ Typed /\ LedgerNumbers /\ MessagesSound
      /\ Said \in Nat /\ Said >= 1 /\ ckpt.version \in Nat /\ record.version \in Nat
      /\ record.turns \in Seq(Turns) /\ ckpt.msgs \in Seq(Turns)
  BY DEF MemoryInv, LedgerNumbers, Typed, Checkpoints, Records
<1>1. CASE Send
  <2> DEFINE n == Said + 1
  <2>1. /\ n \in 1..MaxSaid /\ n - 1 = Said
        /\ record' = [record EXCEPT !.turns = Append(record.turns, User(n))] /\ disk' = record'
        /\ phase = "parked" /\ phase' = "claimed" /\ said' = n /\ final' = NoTurn
        /\ UNCHANGED <<file, ckpt, status, calls, heard, blind, shrunk, drift>>
    BY <1>0, <1>1 DEF Send, Claims, Said
  <2>2. User(n) \in Turns /\ IsUser(User(n)) /\ User(n).what = n
    BY <1>0 DEF User, Turn, Turns, IsUser
  <2>3. /\ Append(record.turns, User(n)) \in Seq(Turns)
        /\ UserTurns(Append(record.turns, User(n))) = UserTurns(record.turns) \cup {n}
    BY <1>0, <2>2, AppendGrows
  <2>4. /\ record' \in Records /\ record'.turns = Append(record.turns, User(n))
        /\ record'.version = record.version /\ record'.hash = record.hash
    BY <1>0, <2>1, <2>3 DEF Typed, Records
  <2>5. UserTurns(record'.turns) = 1..n /\ 1..n = (1..Said) \cup {n}
    <3>1. 1..n = (1..Said) \cup {n}
      BY <1>0
    <3> HIDE DEF n
    <3> QED
      BY <1>0, <2>3, <2>4, <3>1 DEF LedgerNumbers
  <2>6. Said' = n
    <3>1. Cardinality(1..n) = n
      BY <1>0, FS_Interval
    <3> QED
      BY <2>5, <3>1 DEF Said
  <2> HIDE DEF n
  <2>7. Typed'
    BY <1>0, <2>1, <2>4 DEF Typed
  <2>8. 1..Said \subseteq 1..n
    BY <2>5
  <2>9. LedgerNumbers'
    BY <1>0, <2>1, <2>5, <2>6, <2>8 DEF LedgerNumbers
  <2>10. Sound(ckpt.msgs, Said, ckpt.version) /\ Sound(ckpt.msgs, n, ckpt.version)
    <3>1. Said <= n /\ n \in Nat
      BY <1>0, <2>1
    <3> QED
      BY <1>0, <3>1, SoundGrows DEF MessagesSound
  <2>11. MessagesSound'
    BY <2>1, <2>6, <2>10 DEF MessagesSound
  <2>12. AnswerIsCarried' /\ VersionIsAhead'
    BY <2>1 DEF AnswerIsCarried, AnswerIsShown, VersionIsAhead
  <2>13. PlanIsFollowed'
    BY <2>1, <2>4 DEF MemoryInv, PlanIsFollowed
  <2> QED
    BY <2>7, <2>9, <2>11, <2>12, <2>13 DEF MemoryInv
<1>2. CASE Resume
  <2>1. /\ record' = record /\ disk' = record' /\ said' = 0 /\ final' = NoTurn
        /\ phase = "parked" /\ phase' = "claimed"
        /\ UNCHANGED <<file, ckpt, status, calls, heard, blind, shrunk, drift>>
    <3>1. record' = [record EXCEPT !.turns = record.turns]
      BY <1>2 DEF Resume, Claims
    <3>2. record' = record
      BY <1>0, <3>1 DEF Typed, Records
    <3> QED
      BY <1>2, <3>2 DEF Resume, Claims
  <2>2. Said' = Said
    BY <2>1 DEF Said
  <2>3. LedgerNumbers' /\ MessagesSound'
    BY <1>0, <2>1, <2>2 DEF LedgerNumbers, MessagesSound
  <2>4. Typed'
    BY <1>0, <2>1 DEF Typed
  <2>5. AnswerIsCarried' /\ VersionIsAhead'
    BY <2>1 DEF AnswerIsCarried, AnswerIsShown, VersionIsAhead
  <2>6. PlanIsFollowed'
    BY <2>1 DEF MemoryInv, PlanIsFollowed
  <2> QED
    BY <2>3, <2>4, <2>5, <2>6 DEF MemoryInv
<1>3. CASE Superseded
  BY <1>3, ParkedKeeps DEF Superseded, Spend, MemoryInv, Typed, AnswerIsCarried, AnswerIsShown,
     IsSpoken, NoTurn, Turn, PlanIsFollowed, VersionIsAhead
<1>4. CASE SetupFails
  BY <1>4, ParkedKeeps DEF SetupFails, Spend, MemoryInv, Typed, AnswerIsCarried, AnswerIsShown,
     IsSpoken, NoTurn, Turn, PlanIsFollowed, VersionIsAhead
<1>5. CASE \E locked \in BOOLEAN : Begin(locked)
  <2>1. PICK locked \in BOOLEAN : Begin(locked)
    BY <1>5
  <2> DEFINE ms == Saying(ckpt.msgs, said)
             w == ckpt'.version
  <2>2. /\ phase = "claimed" /\ phase' = "agent" /\ calls' = 0 /\ final' = NoTurn
        /\ blind' = locked /\ shrunk' = FALSE /\ heard' = heard \cup UserTurns(ckpt'.msgs)
        /\ UNCHANGED <<record, disk, file, status, said, drift, used>>
    BY <2>1 DEF Begin
  <2>3. Said' = Said
    BY <2>2 DEF Said
  <2>4. Sound(ms, Said, ckpt.version) /\ ms \in Seq(Turns)
    <3>1. CASE said = 0
      BY <1>0, <3>1 DEF Saying, MessagesSound
    <3>2. CASE said # 0
      <4>1. said = Said /\ Sound(ckpt.msgs, Said - 1, ckpt.version)
        BY <1>0, <2>2, <3>2 DEF MessagesSound
      <4>2. Said - 1 \in Nat /\ (Said - 1) + 1 = Said
        BY <1>0
      <4>3. Sound(Append(ckpt.msgs, User((Said - 1) + 1)), (Said - 1) + 1, ckpt.version)
        BY <1>0, <4>1, <4>2, UserIsSound
      <4> QED
        BY <3>2, <4>1, <4>2, <4>3 DEF Saying, Sound
    <3> QED
      BY <3>1, <3>2 DEF Sound
  <2>7. /\ ckpt' \in Checkpoints /\ ckpt'.msgs = ms
        /\ w \in Nat /\ w >= ckpt.version
        /\ ~locked => /\ ckpt'.hash = file /\ w >= record.version
                      /\ file # record.hash /\ file # "none" => w > record.version
    <3>1. CASE locked
      <4>1. ckpt' = [ckpt EXCEPT !.msgs = ms]
        BY <2>1, <3>1 DEF Begin
      <4>2. ckpt' \in Checkpoints /\ ckpt'.msgs = ms /\ w = ckpt.version
        BY <1>0, <2>4, <4>1 DEF Typed, Checkpoints
      <4> QED
        BY <1>0, <3>1, <4>2
    <3>2. CASE ~locked
      <4> DEFINE v == Seed.version
      <4>1. v \in Nat /\ v >= record.version /\ (file # record.hash /\ file # "none" => v > record.version)
        BY <1>0 DEF Seed
      <4>2. ckpt' = [msgs |-> ms, text |-> file, version |-> Max({v, ckpt.version}), hash |-> file]
        BY <2>1, <3>2 DEF Begin
      <4> HIDE DEF v
      <4>3. Max({v, ckpt.version}) \in Nat /\ Max({v, ckpt.version}) >= v /\ Max({v, ckpt.version}) >= ckpt.version
        BY <1>0, <4>1, MaxOfTwo
      <4>4. ckpt' \in Checkpoints
        BY <1>0, <2>4, <4>2, <4>3 DEF Typed, Checkpoints, Hashes
      <4>5. w = Max({v, ckpt.version}) /\ ckpt'.msgs = ms /\ ckpt'.hash = file
        BY <4>2
      <4> QED
        BY <1>0, <4>1, <4>3, <4>4, <4>5
    <3> QED
      BY <3>1, <3>2
  <2> HIDE DEF ms, w
  <2>8. Sound(ckpt'.msgs, Said, ckpt'.version)
    BY <1>0, <2>4, <2>7, SoundGrows DEF w
  <2>9. Typed'
    <3>1. shrunk' \in BOOLEAN
      BY <2>2
    <3> QED
      BY <1>0, <2>2, <2>7, <3>1 DEF Typed
  <2>10. LedgerNumbers'
    <3>1. UserTurns(ckpt'.msgs) \subseteq 1..Said
      BY <2>7, <2>8 DEF UserTurns, Sound, SaidInOrder
    <3> QED
      BY <1>0, <2>2, <2>3, <3>1 DEF LedgerNumbers
  <2>11. MessagesSound'
    BY <2>2, <2>3, <2>8 DEF MessagesSound
  <2>12. AnswerIsCarried'
    BY <2>2 DEF AnswerIsCarried, AnswerIsShown
  <2>13. PlanIsFollowed'
    BY <2>2, <2>7 DEF MemoryInv, PlanIsFollowed
  <2>14. VersionIsAhead'
    BY <2>2, <2>7 DEF VersionIsAhead, w
  <2> QED
    BY <2>9, <2>10, <2>11, <2>12, <2>13, <2>14 DEF MemoryInv
<1>a. \A cut \in Cuts(ckpt.msgs) : cut.shrunk \in BOOLEAN
  BY CutIsSaid
<1>6. CASE \E cut \in Cuts(ckpt.msgs) : CallsTools(cut)
  <2>0. PICK cut \in Cuts(ckpt.msgs) : CallsTools(cut)
    BY <1>6
  <2>1. PICK s \in Sendable(cut) : ckpt' = Speak(s, Turn("tool", 0))
    BY <2>0 DEF CallsTools, Call
  <2>2. Turn("tool", 0) \in Turns /\ ~IsUser(Turn("tool", 0)) /\ ~IsNote(Turn("tool", 0))
    BY DEF Turn, Turns, IsUser, IsNote
  <2>3. Follows(ckpt')
    BY <1>0, <2>1, <2>2, SendableFollows, SpeakFollows
  <2>4. Calling /\ final' = final /\ final = NoTurn /\ ~IsSpoken(NoTurn)
    BY <1>a, <2>0, <2>3 DEF CallsTools, Call, Calling, MemoryInv, AnswerIsCarried, IsSpoken, NoTurn, Turn
  <2> QED
    BY <2>4, CallKeeps
<1>7. CASE \E cut \in Cuts(ckpt.msgs) : ModelFails(cut)
  <2>0. PICK cut \in Cuts(ckpt.msgs) : ModelFails(cut)
    BY <1>7
  <2>1. Follows(ckpt')
    BY <1>0, <2>0, SendableFollows DEF ModelFails, Call
  <2>2. Calling /\ final' = Turn("error", 0) /\ phase' = "finish" /\ ~IsSpoken(Turn("error", 0))
    BY <1>a, <2>0, <2>1 DEF ModelFails, Call, Calling, IsSpoken, Turn
  <2> QED
    BY <2>2, CallKeeps
<1>8. CASE \E cut \in Cuts(ckpt.msgs) : PlanBroken(cut)
  <2>0. PICK cut \in Cuts(ckpt.msgs) : PlanBroken(cut)
    BY <1>8
  <2>1. Follows(ckpt')
    BY <1>0, <2>0, UncheckedFollows DEF PlanBroken, Call
  <2>2. Calling /\ final' = Turn("error", 0) /\ phase' = "finish" /\ ~IsSpoken(Turn("error", 0))
    BY <1>a, <2>0, <2>1 DEF PlanBroken, Call, Calling, IsSpoken, Turn
  <2> QED
    BY <2>2, CallKeeps
<1>9. CASE \E cut \in Cuts(ckpt.msgs), a \in Answers : SpeaksUp(cut, a)
  <2>1. PICK cut \in Cuts(ckpt.msgs), a \in Answers : SpeaksUp(cut, a)
    BY <1>9
  <2>2. PICK s \in Sendable(cut) : ckpt' = Speak(s, Turn("answer", a))
    BY <2>1 DEF SpeaksUp, Call
  <2>3. Turn("answer", a) \in Turns /\ ~IsUser(Turn("answer", a)) /\ ~IsNote(Turn("answer", a))
    BY DEF Turn, Turns, IsUser, IsNote
  <2>4. Follows(ckpt') /\ Len(ckpt'.msgs) > 0 /\ Last(ckpt'.msgs) = Turn("answer", a)
    BY <1>0, <2>2, <2>3, SendableFollows, SpeakFollows
  <2>5. Calling /\ final' = Turn("answer", a) /\ phase' = "finish"
    BY <1>a, <2>1, <2>4 DEF SpeaksUp, Call, Calling
  <2> QED
    BY <2>3, <2>4, <2>5, CallKeeps
<1>10. CASE \E cut \in Cuts(ckpt.msgs), p \in Texts : WritesPlan(cut, p)
  <2>1. PICK cut \in Cuts(ckpt.msgs), p \in Texts : WritesPlan(cut, p)
    BY <1>10
  <2>2. PICK s \in Sendable(cut) : ckpt' = PlanWritten(s, p)
    BY <2>1 DEF WritesPlan, Call, PlanWritten
  <2>3. Follows(s)
    BY <1>0, <2>2, SendableFollows
  <2>4. /\ phase = "agent" /\ phase' = "finish" /\ calls' = calls + 1
        /\ file' = p /\ final' = Note(ckpt'.version) /\ shrunk' \in BOOLEAN
        /\ UNCHANGED <<record, disk, said, status, heard, blind, drift>>
    BY <1>a, <2>1 DEF WritesPlan, Call
  <2>5. /\ ckpt' \in Checkpoints /\ Sound(ckpt'.msgs, Said, ckpt'.version)
        /\ Len(ckpt'.msgs) > 0 /\ Last(ckpt'.msgs) = Note(ckpt'.version)
        /\ ckpt'.version = s.version + 1 /\ ckpt'.hash = p
    <3>1. PlanWritten(s, p).version = s.version + 1 /\ PlanWritten(s, p).hash = p
      BY DEF PlanWritten
    <3> QED
      BY <1>0, <2>2, <2>3, <3>1, WritingIsSound
  <2>6. s.version \in Nat /\ s.version >= ckpt.version /\ ckpt'.version > ckpt.version
    BY <1>0, <2>3, <2>5 DEF Follows, Checkpoints
  <2>7. Said' = Said
    BY <2>4 DEF Said
  <2>8. Typed'
    <3>1. Note(ckpt'.version) \in Turns
      BY <2>5 DEF Checkpoints, Note, Turn, Turns
    <3>2. calls' \in 0..MaxSteps
      BY <1>0, <2>4 DEF Typed
    <3> QED
      BY <1>0, <2>4, <2>5, <3>1, <3>2 DEF Typed
  <2>9. LedgerNumbers' /\ MessagesSound'
    BY <1>0, <2>4, <2>5, <2>7 DEF LedgerNumbers, MessagesSound
  <2>10. AnswerIsCarried'
    BY <2>4, <2>5 DEF AnswerIsCarried, AnswerIsShown
  <2>11. PlanIsFollowed'
    BY <2>4, <2>5 DEF PlanIsFollowed
  <2>12. VersionIsAhead'
    <3>1. ~blind => ckpt.version >= record.version
      BY <2>4 DEF MemoryInv, VersionIsAhead
    <3>2. ~blind => ckpt'.version > record.version
      BY <1>0, <2>5, <2>6, <3>1
    <3>3. ~blind => ckpt'.version >= record.version
      BY <1>0, <2>5, <2>6, <3>2
    <3> QED
      BY <2>4, <3>2, <3>3 DEF VersionIsAhead
  <2> QED
    BY <2>8, <2>9, <2>10, <2>11, <2>12 DEF MemoryInv
<1>11. CASE Stopped
  <2>1. LedgerNumbers' /\ MessagesSound'
    BY <1>11 DEF Stopped, MemoryInv, LedgerNumbers, MessagesSound, Said
  <2> QED
    BY <1>11, <2>1 DEF Stopped, MemoryInv, Typed, AnswerIsCarried, AnswerIsShown,
       IsSpoken, NoTurn, Turn, PlanIsFollowed, VersionIsAhead
<1>12. CASE \E p \in Texts \cup {file} : NodeRaises(p)
  <2>1. PICK p \in Texts \cup {file} : NodeRaises(p)
    BY <1>12
  <2>2. LedgerNumbers' /\ MessagesSound'
    BY <2>1, ParkedKeeps DEF NodeRaises
  <2>3. Typed'
    BY <2>1 DEF NodeRaises, Spend, MemoryInv, Typed
  <2>4. AnswerIsCarried' /\ VersionIsAhead'
    BY <2>1 DEF NodeRaises, AnswerIsCarried, AnswerIsShown, VersionIsAhead, IsSpoken, NoTurn, Turn
  <2>5. PlanIsFollowed'
    BY <2>1 DEF NodeRaises, MemoryInv, PlanIsFollowed
  <2> QED
    BY <2>2, <2>3, <2>4, <2>5 DEF MemoryInv
<1>13. CASE Finalize
  <2> DEFINE turns == Merged(record.turns, ckpt.msgs, final)
  <2>1. /\ record' = [turns |-> turns, version |-> ckpt.version, hash |-> ckpt.hash]
        /\ phase = "finish" /\ phase' = "parked" /\ status' \in {"FAILED", "INTERRUPTED"}
        /\ disk' \in {record', disk}
        /\ drift' = ((drift \/ blind) /\ ckpt.hash # file) /\ shrunk' = FALSE
        /\ UNCHANGED <<file, ckpt, said, calls, final, heard, blind>>
    BY <1>13 DEF Finalize, Settle
  <2>2. Len(record.turns) > 0
    BY <1>0 DEF LedgerNumbers, UserTurns
  <2>3. /\ turns \in Seq(Turns) /\ UserTurns(turns) = UserTurns(record.turns)
        /\ IsSpoken(final) /\ Len(ckpt.msgs) > 0 /\ Last(ckpt.msgs) = final => Last(turns) = final
    BY <1>0, <2>2, MergedGrows
  <2> HIDE DEF turns
  <2>4. record'.turns = turns /\ record'.version = ckpt.version /\ record'.hash = ckpt.hash
    BY <2>1
  <2>5. Said' = Said /\ UserTurns(record'.turns) = UserTurns(record.turns)
    BY <2>3, <2>4 DEF Said
  <2>6. Typed'
    <3>1. shrunk' \in BOOLEAN
      BY <2>1
    <3> QED
      BY <1>0, <2>1, <2>3, <3>1 DEF Typed, Records, Checkpoints
  <2>7. LedgerNumbers' /\ MessagesSound'
    BY <1>0, <2>1, <2>5 DEF LedgerNumbers, MessagesSound
  <2>8. AnswerIsCarried'
    BY <2>1, <2>3, <2>4 DEF MemoryInv, AnswerIsCarried, AnswerIsShown
  <2>9. PlanIsFollowed'
    <3>1. file \in Texts \cup {"none"} /\ TextOf(file) = file
      BY <1>0 DEF Typed, TextOf
    <3>2. drift \in BOOLEAN /\ blind \in BOOLEAN
      BY <1>0 DEF Typed
    <3>3. ~drift' => ckpt.hash = file
      BY <2>1, <3>2 DEF MemoryInv, PlanIsFollowed
    <3> QED
      BY <2>1, <2>4, <3>1, <3>3 DEF PlanIsFollowed
  <2>10. VersionIsAhead'
    BY <2>1 DEF VersionIsAhead
  <2> QED
    BY <2>6, <2>7, <2>8, <2>9, <2>10 DEF MemoryInv
<1>14. CASE \E p \in Texts \cup {"none"} : Edit(p)
  <2>1. PICK p \in Texts \cup {"none"} : Edit(p)
    BY <1>14
  <2>2. LedgerNumbers' /\ MessagesSound'
    BY <2>1, ParkedKeeps DEF Edit
  <2> QED
    BY <2>1, <2>2 DEF Edit, Spend, MemoryInv, Typed, AnswerIsCarried, AnswerIsShown,
       PlanIsFollowed, VersionIsAhead
<1>15. CASE \E p \in Texts \cup {"none"} : SetPlan(p)
  <2>1. PICK p \in Texts \cup {"none"} : SetPlan(p)
    BY <1>15
  <2> DEFINE v == record.version + (IF p # "none" /\ p # record.hash THEN 1 ELSE 0)
  <2>2. /\ record' = [turns |-> record.turns, version |-> v, hash |-> p] /\ disk' = record'
        /\ phase = "parked" /\ phase' = phase /\ file' = p /\ drift' = FALSE
        /\ UNCHANGED <<ckpt, status, said, calls, final, heard, blind, shrunk>>
    BY <1>0, <2>1 DEF SetPlan, PlanSaved, Typed, Records
  <2>3. v \in Nat /\ p \in Hashes /\ TextOf(p) = p
    BY <1>0 DEF Hashes, TextOf
  <2> HIDE DEF v
  <2>4. record'.turns = record.turns /\ record'.hash = p
    BY <2>2
  <2>5. Said' = Said
    BY <2>4 DEF Said
  <2>6. Typed'
    BY <1>0, <2>2, <2>3 DEF Typed, Records
  <2>7. LedgerNumbers' /\ MessagesSound'
    BY <1>0, <2>2, <2>4, <2>5 DEF LedgerNumbers, MessagesSound
  <2>8. AnswerIsCarried' /\ VersionIsAhead'
    BY <2>2, <2>4 DEF MemoryInv, AnswerIsCarried, AnswerIsShown, VersionIsAhead
  <2>9. PlanIsFollowed'
    BY <2>2, <2>3, <2>4 DEF PlanIsFollowed
  <2> QED
    BY <2>6, <2>7, <2>8, <2>9 DEF MemoryInv
<1>16. CASE \E p \in Texts \cup {"none"} : SetPlanUnsaved(p)
  <2>1. LedgerNumbers' /\ MessagesSound'
    BY <1>16, ParkedKeeps DEF SetPlanUnsaved
  <2> QED
    BY <1>16, <2>1 DEF SetPlanUnsaved, RolledBack, MemoryInv, Typed, AnswerIsCarried, AnswerIsShown,
       PlanIsFollowed, VersionIsAhead
<1>17. CASE \E p \in Texts \cup {"none"} : SetPlanTorn(p)
  <2>1. LedgerNumbers' /\ MessagesSound'
    BY <1>17, ParkedKeeps DEF SetPlanTorn
  <2> QED
    BY <1>17, <2>1 DEF SetPlanTorn, MemoryInv, Typed, AnswerIsCarried, AnswerIsShown,
       PlanIsFollowed, VersionIsAhead
<1>18. CASE NeighbourSave
  <2>1. LedgerNumbers' /\ MessagesSound'
    BY <1>18 DEF NeighbourSave, MemoryInv, LedgerNumbers, MessagesSound, Said
  <2> QED
    BY <1>18, <2>1 DEF NeighbourSave, MemoryInv, Typed, AnswerIsCarried, AnswerIsShown,
       PlanIsFollowed, VersionIsAhead
<1>19. CASE \E p \in Texts \cup {file} : Crash(p)
  <2>1. PICK p \in Texts \cup {file} : Crash(p)
    BY <1>19
  <2>2. /\ file' = p /\ record' = disk /\ drift' = (drift \/ p # TextOf(disk.hash))
        /\ phase' = "parked" /\ final' = NoTurn /\ status' \in {status, "INTERRUPTED"}
        /\ shrunk' = FALSE
        /\ UNCHANGED <<disk, ckpt, said, calls, heard, blind>>
    BY <2>1 DEF Crash
  <2>3. LedgerNumbers' /\ MessagesSound'
    BY <2>2, ParkedKeeps
  <2>4. Typed'
    BY <1>0, <2>2 DEF Typed
  <2>5. AnswerIsCarried' /\ VersionIsAhead'
    BY <2>2 DEF AnswerIsCarried, AnswerIsShown, VersionIsAhead, IsSpoken, NoTurn, Turn
  <2>6. PlanIsFollowed'
    BY <1>0, <2>2 DEF Typed, PlanIsFollowed
  <2> QED
    BY <2>3, <2>4, <2>5, <2>6 DEF MemoryInv
<1>20. CASE UNCHANGED vars
  <2>1. LedgerNumbers' /\ MessagesSound'
    BY <1>20, ParkedKeeps DEF vars
  <2> QED
    BY <1>20, <2>1 DEF vars, MemoryInv, Typed, AnswerIsCarried, AnswerIsShown,
       PlanIsFollowed, VersionIsAhead
<1> QED
  BY <1>1, <1>2, <1>3, <1>4, <1>5, <1>6, <1>7, <1>8, <1>9, <1>10, <1>11, <1>12, <1>13, <1>14,
     <1>15, <1>16, <1>17, <1>18, <1>19, <1>20 DEF Next
-----------------------------------------------------------------------------
(* What the invariant says of the properties.                              *)

LEMMA MemoryIsEnough == MemoryInv => TypeOK /\ LedgerIsExact /\ PlanIsTold
<1> SUFFICES ASSUME MemoryInv PROVE TypeOK /\ LedgerIsExact /\ PlanIsTold
  OBVIOUS
<1>0. /\ Typed /\ LedgerNumbers /\ Sound(ckpt.msgs, Said, ckpt.version)
      /\ ckpt.msgs \in Seq(Turns) /\ DOMAIN ckpt.msgs = 1..Len(ckpt.msgs)
  BY DEF MemoryInv, MessagesSound, Typed, Checkpoints
<1>1. TypeOK
  <2>1. 1..Said \subseteq 1..MaxSaid
    BY <1>0 DEF LedgerNumbers
  <2> QED
    BY <1>0, <2>1 DEF Typed, LedgerNumbers, TypeOK, Checkpoints
<1>2. SaidOnce
  BY <1>0 DEF Sound, SaidInOrder, LedgerNumbers, SaidOnce, UserTurns
<1>3. OneNote
  BY <1>0 DEF Sound, NotedOnce, OneNote, Notes
<1>4. AnswerIsShown /\ PlanAgrees
  BY DEF MemoryInv, AnswerIsCarried, PlanIsFollowed, PlanAgrees
<1> QED
  BY <1>1, <1>2, <1>3, <1>4 DEF LedgerIsExact, PlanIsTold

\* Who changes the record: a message, the end of a round, a plan by hand, a restart.
RecordStep ==
  \/ Send \/ Finalize
  \/ \E p \in Texts \cup {"none"} : SetPlan(p)
  \/ FallsBack
  \/ UNCHANGED record

LEMMA RecordSteps == MemoryInv /\ [Next]_vars => RecordStep
<1> SUFFICES ASSUME MemoryInv, [Next]_vars PROVE RecordStep
  OBVIOUS
<1>1. CASE Resume
  <2>1. record' = [record EXCEPT !.turns = record.turns]
    BY <1>1 DEF Resume, Claims
  <2> QED
    BY <2>1 DEF MemoryInv, Typed, Records, RecordStep
<1>2. CASE \E cut \in Cuts(ckpt.msgs) : \/ CallsTools(cut) \/ ModelFails(cut) \/ PlanBroken(cut)
                                        \/ \E a \in Answers : SpeaksUp(cut, a)
  BY <1>2 DEF CallsTools, ModelFails, PlanBroken, SpeaksUp, Call, RecordStep
<1>3. CASE Superseded \/ SetupFails \/ (\E locked \in BOOLEAN : Begin(locked)) \/ Stopped
  BY <1>3 DEF Superseded, SetupFails, Begin, Stopped, RecordStep
<1>4. CASE \/ \E cut \in Cuts(ckpt.msgs), p \in Texts : WritesPlan(cut, p)
           \/ (\E p \in Texts \cup {file} : NodeRaises(p))
  BY <1>4 DEF WritesPlan, Call, NodeRaises, RecordStep
<1>5. CASE \E p \in Texts \cup {"none"} : Edit(p) \/ SetPlanUnsaved(p) \/ SetPlanTorn(p)
  BY <1>5 DEF Edit, SetPlanUnsaved, SetPlanTorn, RecordStep
<1>6. CASE NeighbourSave \/ \E p \in Texts \cup {file} : Crash(p)
  BY <1>6 DEF NeighbourSave, Crash, FallsBack, RecordStep
<1>7. CASE UNCHANGED vars
  BY <1>7 DEF vars, RecordStep
<1> QED
  BY <1>1, <1>2, <1>3, <1>4, <1>5, <1>6, <1>7 DEF Next, RecordStep

LEMMA StepGrows ==
  MemoryInv /\ [Next]_vars => FallsBack \/ IsPrefix(record.turns, record'.turns)
<1> SUFFICES ASSUME MemoryInv, [Next]_vars PROVE FallsBack \/ IsPrefix(record.turns, record'.turns)
  OBVIOUS
<1>0. /\ record.turns \in Seq(Turns) /\ ckpt.msgs \in Seq(Turns) /\ record \in Records
      /\ Said \in Nat /\ UserTurns(record.turns) = 1..Said /\ 1 \in 1..Said
  BY DEF MemoryInv, Typed, Records, Checkpoints, LedgerNumbers
<1>1. CASE Send
  <2> DEFINE n == Cardinality(UserTurns(record.turns)) + 1
  <2>1. record' = [record EXCEPT !.turns = Append(record.turns, User(n))]
    BY <1>1 DEF Send, Claims
  <2>2. User(n) \in Turns
    BY <1>0 DEF User, Turn, Turns, Said
  <2> HIDE DEF n
  <2>3. record'.turns = Append(record.turns, User(n))
    BY <1>0, <2>1 DEF Records
  <2> QED
    BY <1>0, <2>2, <2>3, AppendGrows
<1>2. CASE Finalize
  <2>1. record'.turns = Merged(record.turns, ckpt.msgs, final)
    BY <1>2 DEF Finalize, Settle
  <2>2. Len(record.turns) > 0
    <3>1. UserTurns(record.turns) # {}
      BY <1>0
    <3>2. Len(record.turns) \in Nat /\ DOMAIN record.turns = 1..Len(record.turns)
      BY <1>0
    <3>3. DOMAIN record.turns # {}
      BY <3>1 DEF UserTurns
    <3> QED
      BY <3>2, <3>3
  <2> QED
    BY <1>0, <2>1, <2>2, MergedGrows
<1>3. CASE \E p \in Texts \cup {"none"} : SetPlan(p)
  <2>1. record'.turns = record.turns
    BY <1>0, <1>3 DEF SetPlan, PlanSaved, Records
  <2> QED
    BY <1>0, <2>1, PrefixIsReflexive
<1>4. CASE UNCHANGED record
  BY <1>0, <1>4, PrefixIsReflexive
<1> QED
  BY <1>1, <1>2, <1>3, <1>4, RecordSteps DEF RecordStep

\* The version of the plan, from one record to the next.
VersionGrows ==
  /\ record'.version >= record.version
  /\ record'.hash \in Texts \ {record.hash} => record'.version > record.version

LEMMA StepNames == MemoryInv /\ [Next]_vars => FallsBack \/ blind \/ VersionGrows
<1> SUFFICES ASSUME MemoryInv, [Next]_vars, ~blind PROVE FallsBack \/ VersionGrows
  OBVIOUS
<1>0. record \in Records /\ record.version \in Nat
  BY DEF MemoryInv, Typed, Records
<1>1. CASE Send
  <2>1. record'.version = record.version /\ record'.hash = record.hash
    BY <1>0, <1>1 DEF Send, Claims, Records
  <2> QED
    BY <1>0, <2>1 DEF VersionGrows
<1>2. CASE Finalize
  <2>1. record'.version = ckpt.version /\ record'.hash = ckpt.hash /\ phase = "finish"
    BY <1>2 DEF Finalize, Settle
  <2> QED
    BY <2>1 DEF MemoryInv, VersionIsAhead, VersionGrows
<1>3. CASE \E p \in Texts \cup {"none"} : SetPlan(p)
  <2>1. PICK p \in Texts \cup {"none"} : SetPlan(p)
    BY <1>3
  <2>2. /\ record'.version = record.version + (IF p # "none" /\ p # record.hash THEN 1 ELSE 0)
        /\ record'.hash = p
    BY <1>0, <2>1 DEF SetPlan, PlanSaved, Records
  <2> QED
    BY <1>0, <2>2 DEF VersionGrows
<1>4. CASE UNCHANGED record
  BY <1>0, <1>4 DEF VersionGrows
<1> QED
  BY <1>1, <1>2, <1>3, <1>4, RecordSteps DEF RecordStep

LEMMA StepIsStable ==
  MemoryInv /\ [Next]_vars =>
    (phase = "agent" /\ calls > 0 /\ ckpt'.text # ckpt.text
       => shrunk' \/ (final' = Note(ckpt'.version) /\ phase' = "finish"))
<1> SUFFICES ASSUME MemoryInv, [Next]_vars, phase = "agent", calls > 0, ckpt'.text # ckpt.text
             PROVE  shrunk' \/ (final' = Note(ckpt'.version) /\ phase' = "finish")
  OBVIOUS
<1>0. Typed /\ LedgerNumbers /\ MessagesSound
  BY DEF MemoryInv
<1>1. Turn("tool", 0) \in Turns /\ ~IsUser(Turn("tool", 0)) /\ ~IsNote(Turn("tool", 0))
  BY DEF Turn, Turns, IsUser, IsNote
<1>2. ASSUME NEW cut \in Cuts(ckpt.msgs), shrunk' = cut.shrunk, NEW s \in Sendable(cut),
             ckpt'.text = s.text
      PROVE  shrunk'
  BY <1>0, <1>2, SendableFollows
<1>3. CASE \E cut \in Cuts(ckpt.msgs) : CallsTools(cut)
  <2>0. PICK cut \in Cuts(ckpt.msgs) : CallsTools(cut)
    BY <1>3
  <2>1. PICK s \in Sendable(cut) : ckpt' = Speak(s, Turn("tool", 0))
    BY <2>0 DEF CallsTools, Call
  <2>2. ckpt'.text = s.text
    BY <1>0, <1>1, <2>1, SendableFollows, SpeakFollows
  <2> QED
    BY <1>2, <2>0, <2>2 DEF CallsTools, Call
<1>4. CASE \E cut \in Cuts(ckpt.msgs) : ModelFails(cut)
  BY <1>2, <1>4 DEF ModelFails, Call
<1>5. CASE \E cut \in Cuts(ckpt.msgs) : PlanBroken(cut)
  BY <1>0, <1>5, UncheckedFollows DEF PlanBroken, Call
<1>6. CASE \E cut \in Cuts(ckpt.msgs), a \in Answers : SpeaksUp(cut, a)
  <2>1. PICK cut \in Cuts(ckpt.msgs), a \in Answers : SpeaksUp(cut, a)
    BY <1>6
  <2>2. PICK s \in Sendable(cut) : ckpt' = Speak(s, Turn("answer", a))
    BY <2>1 DEF SpeaksUp, Call
  <2>3. Turn("answer", a) \in Turns /\ ~IsUser(Turn("answer", a)) /\ ~IsNote(Turn("answer", a))
    BY DEF Turn, Turns, IsUser, IsNote
  <2>4. ckpt'.text = s.text
    BY <1>0, <2>2, <2>3, SendableFollows, SpeakFollows
  <2> QED
    BY <1>2, <2>1, <2>4 DEF SpeaksUp, Call
<1>7. CASE \E cut \in Cuts(ckpt.msgs), p \in Texts : WritesPlan(cut, p)
  BY <1>7 DEF WritesPlan, Call
<1>8. CASE Send \/ Resume \/ Superseded \/ SetupFails \/ \E locked \in BOOLEAN : Begin(locked)
  BY <1>8 DEF Send, Resume, Claims, Superseded, SetupFails, Begin
<1>9. CASE Stopped \/ Finalize \/ NeighbourSave \/ \E p \in Texts \cup {file} : NodeRaises(p)
  BY <1>9 DEF Stopped, Finalize, Settle, NeighbourSave, NodeRaises
<1>10. CASE \E p \in Texts \cup {"none"} : Edit(p) \/ SetPlan(p) \/ SetPlanUnsaved(p) \/ SetPlanTorn(p)
  BY <1>10 DEF Edit, SetPlan, SetPlanUnsaved, SetPlanTorn
<1>11. CASE (\E p \in Texts \cup {file} : Crash(p)) \/ UNCHANGED vars
  BY <1>11 DEF Crash, vars
<1> QED
  BY <1>3, <1>4, <1>5, <1>6, <1>7, <1>8, <1>9, <1>10, <1>11 DEF Next

-----------------------------------------------------------------------------
(* The theorems.                                                           *)

LEMMA MemoryStays == Spec => []MemoryInv
  BY MemoryStarts, MemoryNext, PTL DEF Spec

\* Record, checkpoint, plan file and round keep the ranges the code gives them, however
\* rounds are stopped, fail and crash (task_manager.py, _continue, _finalize_terminal).
THEOREM MemoryIsTypeCorrect == Spec => []TypeOK
  BY MemoryStays, MemoryIsEnough, PTL

\* A round's answer is the last turn of the ledger of the parked task, and the model
\* reads each user message once and in order (_merge_round_turns, _continue_run).
THEOREM LedgerStaysExact == Spec => []LedgerIsExact
  BY MemoryStays, MemoryIsEnough, PTL

\* The messages carry one gray note at most, of a version that is reached; at rest the
\* record has the file's plan, but for a change by another hand (_ensure_plan_note, set_plan).
THEOREM PlanStaysTold == Spec => []PlanIsTold
  BY MemoryStays, MemoryIsEnough, PTL

\* Settled turns are never rewritten, whatever compression has dropped from the messages
\* (_merge_round_turns, #265).
THEOREM LedgerOnlyGrows == Spec => LedgerGrows
<1>1. MemoryInv /\ [Next]_vars => [FallsBack \/ IsPrefix(record.turns, record'.turns)]_record
  BY StepGrows
<1> QED
  BY <1>1, MemoryStays, PTL DEF Spec, LedgerGrows

\* A version names one text and never goes back, and a round's plan changes between two
\* calls only with a compression or by the model's own plan (_seed_plan, _build_messages).
THEOREM PlanStepsStaySound == Spec => PlanStepsAreSound
<1>1. MemoryInv /\ [Next]_vars =>
        [\/ FallsBack \/ blind
         \/ /\ record'.version >= record.version
            /\ record'.hash \in Texts \ {record.hash} => record'.version > record.version]_record
  BY StepNames DEF VersionGrows
<1>2. MemoryInv /\ [Next]_vars =>
        [phase = "agent" /\ calls > 0 /\ ckpt'.text # ckpt.text
           => shrunk' \/ (final' = Note(ckpt'.version) /\ phase' = "finish")]_ckpt
  BY StepIsStable
<1>3. Spec => VersionNames
  BY <1>1, MemoryStays, PTL DEF Spec, VersionNames
<1>4. Spec => PlanIsStable
  BY <1>2, MemoryStays, PTL DEF Spec, PlanIsStable
<1> QED
  BY <1>3, <1>4 DEF PlanStepsAreSound
=============================================================================
