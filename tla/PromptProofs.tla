---------------------------- MODULE PromptProofs ----------------------------
(***************************************************************************)
(* Proofs about the requests of a turn (AgentSession, Providers), for      *)
(* every provider, form of the answers, number of messages, calls and      *)
(* summarizers: the request leaves out nothing that the session remembers, *)
(* in the order of the conversation; and each call in it is followed by    *)
(* its result, and each result has its call, but for a history that a      *)
(* summarizer has cut between them.                                        *)
(*                                                                         *)
(* The items of a request come in one block per message.  A turn has read  *)
(* the messages before the summary, so a summarizer that cuts the messages *)
(* in between has written a summary of them that the turn reads.  And as   *)
(* only the turn adds messages, and adds a result for each of its calls    *)
(* before anything else, calls and results are linked by their places.     *)
(***************************************************************************)
EXTENDS AgentSessionProofs, WellFoundedInduction

\* A message with calls has at least one.
Counted(h) == \A i \in DOMAIN h : h[i].role = "call" => h[i].count # 0

CountInv == /\ Counted(messages) /\ Counted(turn.prompt.history)
            /\ file # Torn => Counted(file.messages)

\* What the turn has read covers what is remembered.
CoverInv ==
  /\ turn.at = "reading" => Told(messages) \subseteq Told(turn.prompt.history)
  /\ turn.at \in {"read", "think", "tools"} =>
       Remembered \subseteq Told(turn.prompt.history) \cup turn.prompt.summary

\* The call whose results the turn waits for.
Awaited == IF turn.at = "tools" THEN turn.call ELSE 0

\* The messages of h are numbered up to l, the last one, and calls and results are
\* linked by their places; the call in message w still waits for r results.
Linked(h, l, w, r) ==
  \A i \in DOMAIN h :
    /\ h[i].n = l - Len(h) + i
    /\ h[i].role = "call" =>
         /\ \A k \in 1 .. h[i].count : i + k =< Len(h) =>
              h[i + k].role = "tool" /\ h[i + k].of = h[i].n /\ h[i + k].count = k
         /\ IF h[i].n = w THEN Len(h) - i + r = h[i].count
                          ELSE i + h[i].count =< Len(h)
    /\ h[i].role = "tool" =>
         /\ h[i].of = h[i].n - h[i].count /\ h[i].count # 0
         /\ i > h[i].count => h[i - h[i].count].role = "call" /\ h[i].count =< h[i - h[i].count].count
         /\ i =< h[i].count => \A j \in 1 .. i : h[j].role = "tool" /\ h[j].of = h[i].of

\* Message w is in its place in h, with its calls, or has been cut off.
Pending(h, l, w) ==
  LET p == Len(h) - (l - w)
  IN  IF p >= 1 THEN h[p].role = "call"
      ELSE \A j \in DOMAIN h : h[j].role = "tool" /\ h[j].of = w

LinkInv ==
  crashes = 0 =>
    /\ Linked(messages, last, Awaited, turn.left)
    /\ turn.at \in {"reading", "read", "think", "tools"} =>
         Linked(turn.prompt.history, last, Awaited, turn.left)
    /\ turn.at = "tools" => /\ Pending(messages, last, turn.call)
                            /\ Pending(turn.prompt.history, last, turn.call)

PInv == CountInv /\ CoverInv /\ LinkInv

USE ConstantAssumption DEF ConstantAssumption

-----------------------------------------------------------------------------
(* A sequence of sequences, one after the other.                           *)

\* Induction on numbers: a set of them that is not empty has a least one.
LEMMA Least ==
  ASSUME NEW S, S \subseteq Nat, S # {}
  PROVE  \E m \in S : \A n \in S : m =< n
<1>. DEFINE R == OpToRel(<, Nat)
<1>1. IsWellFoundedOn(R, Nat)
  BY NatLessThanWellFounded
<1>2. \A x, y \in Nat : x < y => <<x, y>> \in R
  BY DEF OpToRel
<1>. HIDE DEF R
<1>3. PICK m \in S : \A n \in S : ~ (<<n, m>> \in R)
  BY <1>1, WFMin
<1>4. \A n \in S : ~(n < m)
  BY <1>2, <1>3
<1>5. QED
  BY <1>3, <1>4

\* The function by which FlattenSeq is defined.
Flattens(f, s, n) == f = [i \in 1 .. n |-> IF i = 1 THEN s[i] ELSE f[i - 1] \o s[i]]

LEMMA FlattensAt ==
  ASSUME NEW f, NEW s, NEW n \in Nat, Flattens(f, s, n), NEW i \in 1 .. n
  PROVE  f[i] = IF i = 1 THEN s[i] ELSE f[i - 1] \o s[i]
<1>. DEFINE g == [j \in 1 .. n |-> IF j = 1 THEN s[j] ELSE f[j - 1] \o s[j]]
<1>1. f = g
  BY DEF Flattens
<1>2. g[i] = IF i = 1 THEN s[i] ELSE f[i - 1] \o s[i]
  OBVIOUS
<1>. HIDE DEF g
<1>. QED
  BY <1>1, <1>2

LEMMA FlattenExists ==
  ASSUME NEW s, NEW n \in Nat
  PROVE  \E f : Flattens(f, s, n)
<1>. DEFINE Bad == {k \in Nat : ~ \E f : Flattens(f, s, k)}
<1>1. Bad = {}
  <2>. SUFFICES ASSUME Bad # {} PROVE FALSE
    OBVIOUS
  <2>1. PICK k \in Bad : \A m \in Bad : k =< m
    BY Least
  <2>2. CASE k = 0
    <3>. DEFINE f == [i \in 1 .. 0 |-> 0]
    <3>1. f = [i \in 1 .. 0 |-> IF i = 1 THEN s[i] ELSE f[i - 1] \o s[i]]
      OBVIOUS
    <3>. QED
      BY <2>1, <2>2, <3>1 DEF Flattens
  <2>3. CASE k # 0
    <3>1. k - 1 \in Nat /\ k - 1 \notin Bad
      BY <2>1, <2>3
    <3>2. PICK f : Flattens(f, s, k - 1)
      BY <3>1
    <3>. DEFINE g == [i \in 1 .. k |-> IF i = k THEN IF k = 1 THEN s[k] ELSE f[k - 1] \o s[k] ELSE f[i]]
    <3>3. \A i \in 1 .. k : g[i] = IF i = 1 THEN s[i] ELSE g[i - 1] \o s[i]
      <4>. SUFFICES ASSUME NEW i \in 1 .. k PROVE g[i] = IF i = 1 THEN s[i] ELSE g[i - 1] \o s[i]
        OBVIOUS
      <4>1. CASE i = k
        BY <2>3, <3>1, <4>1
      <4>2. CASE i # k
        <5>1. i \in 1 .. k - 1 /\ i # k /\ i - 1 # k /\ (i # 1 => i - 1 \in 1 .. k)
          BY <3>1, <4>2
        <5>2. f[i] = IF i = 1 THEN s[i] ELSE f[i - 1] \o s[i]
          BY <3>1, <3>2, <5>1, FlattensAt
        <5>3. g[i] = f[i] /\ (i # 1 => g[i - 1] = f[i - 1])
          BY <5>1
        <5>. HIDE DEF g
        <5>. QED
          BY <5>2, <5>3
      <4>. QED
        BY <4>1, <4>2
    <3>4. g = [i \in 1 .. k |-> g[i]]
      OBVIOUS
    <3>5. g = [i \in 1 .. k |-> IF i = 1 THEN s[i] ELSE g[i - 1] \o s[i]]
      BY <3>3, <3>4
    <3>. HIDE DEF g
    <3>6. Flattens(g, s, k)
      BY <3>5 DEF Flattens
    <3>. QED
      BY <2>1, <3>6
  <2>. QED
    BY <2>2, <2>3
<1>. QED
  BY <1>1

LEMMA FlattenSteps ==
  ASSUME NEW s, Len(s) \in Nat \ {0}
  PROVE  \E f : Flattens(f, s, Len(s)) /\ FlattenSeq(s) = f[Len(s)]
<1>. DEFINE f == CHOOSE f : f = [i \in 1 .. Len(s) |-> IF i = 1 THEN s[i] ELSE f[i - 1] \o s[i]]
<1>1. \E g : g = [i \in 1 .. Len(s) |-> IF i = 1 THEN s[i] ELSE g[i - 1] \o s[i]]
  BY FlattenExists DEF Flattens
<1>2. Flattens(f, s, Len(s))
  BY <1>1 DEF Flattens
<1>3. FlattenSeq(s) = f[Len(s)]
  BY DEF FlattenSeq
<1>. QED
  BY <1>2, <1>3

\* What is before and in block b, if off says where each block begins.
Laid(out, s, off, n) ==
  /\ \A b \in 1 .. n : \A x \in 1 .. Len(s[b]) :
       off[b] + x \in 1 .. Len(out) /\ out[off[b] + x] = s[b][x]
  /\ \A p \in 1 .. Len(out) : \E b \in 1 .. n : \E x \in 1 .. Len(s[b]) : p = off[b] + x
  /\ \A b, c \in 1 .. n : b < c => off[b] + Len(s[b]) =< off[c]

LEMMA FlattenBlocks ==
  ASSUME NEW S, NEW s \in Seq(Seq(S))
  PROVE  /\ FlattenSeq(s) \in Seq(S)
         /\ \E off \in [1 .. Len(s) -> Nat] : Laid(FlattenSeq(s), s, off, Len(s))
<1>1. Len(s) \in Nat /\ \A b \in 1 .. Len(s) : s[b] \in Seq(S) /\ Len(s[b]) \in Nat
  <2>1. Len(s) \in Nat /\ \A b \in 1 .. Len(s) : s[b] \in Seq(S)
    BY LenProperties, ElementOfSeq
  <2>. QED
    BY <2>1, LenProperties
<1>2. CASE Len(s) = 0
  <2>1. s = <<>> /\ FlattenSeq(s) = <<>>
    BY <1>2, EmptySeq DEF FlattenSeq
  <2>2. FlattenSeq(s) \in Seq(S) /\ Len(FlattenSeq(s)) = 0
    BY <2>1, EmptySeq
  <2>3. PICK off : off \in [1 .. 0 -> Nat]
    <3>1. [i \in 1 .. 0 |-> 0] \in [1 .. 0 -> Nat]
      OBVIOUS
    <3>. QED
      BY <3>1
  <2>4. Laid(FlattenSeq(s), s, off, 0)
    BY <2>2 DEF Laid
  <2>. QED
    BY <1>2, <2>2, <2>3, <2>4
<1>3. CASE Len(s) # 0
  <2>1. PICK f : Flattens(f, s, Len(s)) /\ FlattenSeq(s) = f[Len(s)]
    BY <1>1, <1>3, FlattenSteps
  <2>. DEFINE off == [b \in 1 .. Len(s) |-> IF b = 1 THEN 0 ELSE Len(f[b - 1])]
              Good(k) == /\ f[k] \in Seq(S) /\ Len(f[k]) = off[k] + Len(s[k]) /\ (\A b \in 1 .. k : off[b] \in Nat)
                         /\ Laid(f[k], s, off, k)
              Bad == {k \in 1 .. Len(s) : ~Good(k)}
  <2>2. f[1] = s[1] /\ \A k \in 2 .. Len(s) : f[k] = f[k - 1] \o s[k]
    <3>1. \A k \in 1 .. Len(s) : f[k] = IF k = 1 THEN s[k] ELSE f[k - 1] \o s[k]
      BY <1>1, <2>1, FlattensAt
    <3>2. 1 \in 1 .. Len(s) /\ \A k \in 2 .. Len(s) : k \in 1 .. Len(s) /\ k # 1
      BY <1>1, <1>3
    <3>. QED
      BY <3>1, <3>2
  <2>3. off[1] = 0 /\ \A k \in 2 .. Len(s) : off[k] = Len(f[k - 1])
    BY <1>1, <1>3
  <2>. HIDE DEF off
  <2>4. Good(1)
    <3>1. f[1] \in Seq(S) /\ Len(f[1]) = off[1] + Len(s[1]) /\ \A b \in 1 .. 1 : off[b] \in Nat
      BY <1>1, <1>3, <2>2, <2>3
    <3>2. Laid(f[1], s, off, 1)
      BY <1>1, <1>3, <2>2, <2>3 DEF Laid
    <3>. QED
      BY <3>1, <3>2
  <2>5. ASSUME NEW k \in 2 .. Len(s), Good(k - 1)
        PROVE  Good(k)
    <3>. DEFINE a == f[k - 1]
                t == s[k]
    <3>1. k - 1 \in 1 .. Len(s) /\ k \in 1 .. Len(s) /\ a \in Seq(S) /\ t \in Seq(S)
          /\ Len(a) \in Nat /\ Len(t) \in Nat /\ f[k] = a \o t /\ off[k] = Len(a)
      <4>1. k - 1 \in 1 .. Len(s) /\ k \in 1 .. Len(s)
        BY <1>1
      <4>2. a \in Seq(S) /\ t \in Seq(S) /\ Len(t) \in Nat
        BY <1>1, <2>5, <4>1
      <4>3. Len(a) \in Nat
        <5>. HIDE DEF a
        <5>. QED
          BY <4>2, LenProperties
      <4>. QED
        BY <2>2, <2>3, <4>1, <4>2, <4>3
    <3>2. /\ a \o t \in Seq(S) /\ Len(a \o t) = Len(a) + Len(t)
          /\ \A i \in 1 .. Len(a) + Len(t) : (a \o t)[i] = IF i =< Len(a) THEN a[i] ELSE t[i - Len(a)]
      <4>. HIDE DEF a, t
      <4>. QED
        BY <3>1, ConcatProperties
    <3>3. Laid(a, s, off, k - 1) /\ Len(a) = off[k - 1] + Len(s[k - 1])
      BY <2>5
    <3>. HIDE DEF a, t
    <3>4. \A b \in 1 .. k : b # k => b \in 1 .. k - 1
      BY <3>1
    <3>5. ASSUME NEW b \in 1 .. k, NEW x \in 1 .. Len(s[b])
          PROVE  off[b] + x \in 1 .. Len(f[k]) /\ f[k][off[b] + x] = s[b][x]
      <4>1. CASE b = k
        <5>1. x \in 1 .. Len(t) /\ s[b][x] = t[x]
          BY <4>1 DEF t
        <5>. QED
          BY <4>1, <5>1, <3>1, <3>2
      <4>2. CASE b # k
        <5>. DEFINE y == off[b] + x
        <5>1. y \in 1 .. Len(a) /\ a[y] = s[b][x]
          BY <3>3, <3>4, <4>2 DEF Laid
        <5>. HIDE DEF y
        <5>2. y \in 1 .. Len(a) + Len(t) /\ y =< Len(a)
          BY <3>1, <5>1
        <5>3. y \in 1 .. Len(f[k]) /\ f[k][y] = s[b][x]
          BY <3>1, <3>2, <5>1, <5>2
        <5>. QED
          BY <5>3 DEF y
      <4>. QED
        BY <4>1, <4>2
    <3>6. ASSUME NEW p \in 1 .. Len(f[k])
          PROVE  \E b \in 1 .. k : \E x \in 1 .. Len(s[b]) : p = off[b] + x
      <4>1. CASE p =< Len(a)
        <5>1. p \in 1 .. Len(a)
          BY <3>1, <3>2, <4>1
        <5>2. PICK b \in 1 .. k - 1 : \E x \in 1 .. Len(s[b]) : p = off[b] + x
          BY <3>3, <5>1 DEF Laid
        <5>. QED
          BY <3>1, <5>2
      <4>2. CASE ~(p =< Len(a))
        <5>1. p - Len(a) \in 1 .. Len(s[k]) /\ p = off[k] + (p - Len(a)) /\ k \in 1 .. k
          BY <3>1, <3>2, <4>2 DEF t
        <5>2. \E x \in 1 .. Len(s[k]) : p = off[k] + x
          BY <5>1
        <5>. QED
          BY <5>1, <5>2
      <4>. QED
        BY <4>1, <4>2
    <3>7. ASSUME NEW b \in 1 .. k, NEW c \in 1 .. k, b < c
          PROVE  off[b] + Len(s[b]) =< off[c]
      <4>1. CASE c # k
        <5>1. b \in 1 .. k - 1 /\ c \in 1 .. k - 1
          BY <3>1, <3>7, <4>1
        <5>. QED
          BY <3>3, <3>7, <5>1 DEF Laid
      <4>2. CASE c = k /\ b = k - 1
        BY <3>1, <3>3, <4>2
      <4>3. CASE c = k /\ b # k - 1
        <5>1. b \in 1 .. k - 1 /\ k - 1 \in 1 .. k - 1 /\ b < k - 1
          BY <3>1, <3>7, <4>3
        <5>2. off[b] + Len(s[b]) =< off[k - 1]
          BY <3>3, <5>1 DEF Laid
        <5>3. off[k - 1] \in Nat /\ Len(s[k - 1]) \in Nat /\ Len(s[b]) \in Nat
          <6>1. b \in 1 .. Len(s) /\ k - 1 \in 1 .. Len(s)
            BY <3>1, <5>1
          <6>2. off[k - 1] \in Nat
            BY <2>5, <5>1
          <6>. QED
            BY <1>1, <6>1, <6>2
        <5>4. off[b] \in Nat
          BY <2>5, <5>1
        <5>5. off[k] = off[k - 1] + Len(s[k - 1])
          BY <3>1, <3>3
        <5>6. off[b] + Len(s[b]) =< off[k]
          BY <5>2, <5>3, <5>4, <5>5
        <5>. QED
          BY <4>3, <5>6
      <4>. QED
        BY <4>1, <4>2, <4>3
    <3>8. Laid(f[k], s, off, k)
      BY <3>5, <3>6, <3>7 DEF Laid
    <3>9. \A b \in 1 .. k : off[b] \in Nat
      <4>1. \A b \in 1 .. k - 1 : off[b] \in Nat
        BY <2>5
      <4>. QED
        BY <3>1, <3>4, <4>1
    <3>. QED
      BY <3>1, <3>2, <3>8, <3>9 DEF a, t
  <2>6. Bad = {}
    <3>. SUFFICES ASSUME Bad # {} PROVE FALSE
      OBVIOUS
    <3>1. PICK k \in Bad : \A m \in Bad : k =< m
      <4>1. Bad \subseteq Nat
        OBVIOUS
      <4>. HIDE DEF Bad
      <4>. QED
        BY <4>1, Least
    <3>2. k \in 1 .. Len(s) /\ ~Good(k)
      BY <3>1
    <3>. HIDE DEF Good
    <3>3. k # 1
      BY <2>4, <3>2
    <3>4. k \in 2 .. Len(s) /\ k - 1 \in 1 .. Len(s) /\ ~(k =< k - 1)
      BY <1>1, <3>2, <3>3
    <3>5. Good(k - 1)
      BY <3>1, <3>4
    <3>. QED
      BY <2>5, <3>2, <3>4, <3>5
  <2>. HIDE DEF Good
  <2>7. \A k \in 1 .. Len(s) : Good(k)
    BY <2>6
  <2>8. Len(s) \in 1 .. Len(s)
    BY <1>1, <1>3
  <2>9. off \in [1 .. Len(s) -> Nat]
    <3>1. \A k \in 1 .. Len(s) : off[k] \in Nat
      BY <2>7 DEF Good
    <3>. QED
      BY <3>1 DEF off
  <2>. QED
    BY <2>1, <2>7, <2>8, <2>9 DEF Good
<1>. QED
  BY <1>2, <1>3

-----------------------------------------------------------------------------
(* The items of one message.                                               *)

\* The block of a message: one text or result, or the texts (t of them) and then
\* the calls of a message with calls.
BlockIs(B, m, t) ==
  /\ m.role # "call" =>
       /\ Len(B) = 1 /\ B[1].n = m.n
       /\ B[1].item = IF m.role = "tool" THEN "result" ELSE "text"
       /\ m.role = "tool" => B[1].id = <<m.of, m.count>>
  /\ m.role = "call" =>
       /\ Len(B) = t + m.count
       /\ \A x \in 1 .. Len(B) :
            /\ B[x].n = m.n
            /\ x =< t => B[x].item = "text"
            /\ x > t => B[x].item = "call" /\ B[x].id = <<m.n, x - t>>

Texts(form) == IF form.said THEN 1 ELSE 0

BlockOf(kind, m, form) == Items(kind, ProviderMessage(kind, m, form))

Sequence(B) == \E T : B \in Seq(T)

\* A sequence of x, t times, and then the c elements of C.
Joined(B, x, t, C, c) ==
  /\ Sequence(B) /\ Len(B) = t + c
  /\ \A i \in 1 .. t : B[i] = x
  /\ \A i \in t + 1 .. t + c : B[i] = C[i - t]

\* The text of an assistant's message, if there is one, and its calls.
LEMMA Appended ==
  ASSUME NEW x, NEW t \in {0, 1}, NEW c \in Nat, NEW C, C = [k \in 1 .. c |-> C[k]],
         NEW A, A = IF t = 1 THEN <<x>> ELSE <<>>
  PROVE  Joined(A \o C, x, t, C, c)
<1>. DEFINE T == {C[k] : k \in 1 .. c} \cup {x}
<1>1. C \in [1 .. c -> T]
  BY DEF T
<1>2. C \in Seq(T) /\ Len(C) = c
  <2>1. C \in Seq(T)
    <3>. HIDE DEF T
    <3>. QED
      BY <1>1, SeqDef
  <2>2. DOMAIN C = 1 .. c
    BY <1>1
  <2>. HIDE DEF T
  <2>. QED
    BY <2>1, <2>2, LenProperties
<1>3. A \in Seq(T) /\ Len(A) = t /\ \A i \in 1 .. t : A[i] = x
  <2>1. x \in T
    OBVIOUS
  <2>. HIDE DEF T
  <2>2. <<x>> \in Seq(T) /\ <<>> \in Seq(T) /\ Len(<<x>>) = 1 /\ Len(<<>>) = 0 /\ <<x>>[1] = x
    BY <2>1
  <2>3. CASE t = 1
    BY <2>2, <2>3
  <2>4. CASE t = 0
    BY <2>2, <2>4
  <2>. QED
    BY <2>3, <2>4
<1>. HIDE DEF T
<1>4. /\ A \o C \in Seq(T) /\ Len(A \o C) = Len(A) + Len(C)
      /\ \A i \in 1 .. Len(A) + Len(C) : (A \o C)[i] = IF i =< Len(A) THEN A[i] ELSE C[i - Len(A)]
  BY <1>2, <1>3, ConcatProperties
<1>. DEFINE B == A \o C
<1>5. B \in Seq(T) /\ Len(B) = t + c /\ \A i \in 1 .. t + c : B[i] = IF i =< t THEN A[i] ELSE C[i - t]
  BY <1>2, <1>3, <1>4
<1>. HIDE DEF B
<1>6. (\A i \in 1 .. t : B[i] = x) /\ \A i \in t + 1 .. t + c : B[i] = C[i - t]
  <2>1. t \in Nat
    OBVIOUS
  <2>2. \A i \in 1 .. t : i \in 1 .. t + c /\ i =< t
    BY <2>1
  <2>3. \A i \in t + 1 .. t + c : i \in 1 .. t + c /\ ~(i =< t)
    BY <2>1
  <2>. QED
    BY <1>3, <1>5, <2>2, <2>3
<1>7. Joined(B, x, t, C, c)
  BY <1>5, <1>6 DEF Joined, Sequence
<1>. QED
  BY <1>7 DEF B

\* A recorded call has the id with which the LLM made it, whatever the provider.
LEMMA CallsAre ==
  ASSUME NEW m \in Message, NEW kind \in Kinds, NEW form \in PlainForms, m.role = "call"
  PROVE  LET pm == ProviderMessage(kind, m, form)
         IN  /\ pm.n = m.n /\ pm.role = "assistant" /\ pm.content = form.said
             /\ DOMAIN pm.calls = 1 .. m.count
             /\ \A k \in 1 .. m.count : pm.calls[k].ID = <<m.n, k>>
<1>. DEFINE pm == ProviderMessage(kind, m, form)
            C  == [k \in 1 .. m.count |-> Recorded(Parse(kind, Called(m.n, k, form)))]
<1>0. form.said \in BOOLEAN
  BY DEF PlainForms
<1>1. pm.n = m.n /\ pm.role = "assistant" /\ pm.calls = C
  BY DEF ProviderMessage
<1>2. pm.content = form.said
  BY <1>0 DEF ProviderMessage
<1>3. \A k \in 1 .. m.count : C[k] = Recorded(Parse(kind, Called(m.n, k, form)))
  OBVIOUS
<1>4. \A k \in 1 .. m.count : Recorded(Parse(kind, Called(m.n, k, form))).ID = <<m.n, k>>
  <2>. SUFFICES ASSUME NEW k \in 1 .. m.count
                PROVE  Recorded(Parse(kind, Called(m.n, k, form))).ID = <<m.n, k>>
    OBVIOUS
  <2>1. Called(m.n, k, form).id = <<m.n, k>>
    BY DEF Called
  <2>2. Parse(kind, Called(m.n, k, form)).ID = <<m.n, k>>
    BY <2>1 DEF Parse, Kinds, ParseHTTP, ParseClaude, ParseCodex, ToolCall
  <2>. QED
    BY <2>2 DEF Recorded
<1>. QED
  BY <1>1, <1>2, <1>3, <1>4

LEMMA BlockFacts ==
  ASSUME NEW m \in Message, NEW kind \in Kinds, NEW form \in PlainForms
  PROVE  Sequence(BlockOf(kind, m, form)) /\ BlockIs(BlockOf(kind, m, form), m, Texts(form))
<1>. DEFINE pm == ProviderMessage(kind, m, form)
            B  == BlockOf(kind, m, form)
<1>0. m.role \in {"user", "assistant", "call", "tool"} /\ m.count \in Nat /\ form.said \in BOOLEAN
  BY DEF Message, Roles, PlainForms
<1>1. \E C : /\ B = ItemsOf(pm, C) /\ DOMAIN C = DOMAIN pm.calls /\ C = [k \in DOMAIN pm.calls |-> C[k]]
             /\ \A k \in DOMAIN pm.calls : C[k].item = "call" /\ C[k].n = pm.n /\ C[k].id = pm.calls[k].ID
  <2>. DEFINE H == [k \in DOMAIN pm.calls |->
                      CallItem(pm, pm.calls[k], pm.calls[k].Function.Name, pm.calls[k].Function.Arguments)]
              J == [k \in DOMAIN pm.calls |-> CallItem(pm, pm.calls[k], pm.calls[k].Name, pm.calls[k].Arguments)]
  <2>0. B = Items(kind, pm)
    BY DEF BlockOf
  <2>. HIDE DEF pm
  <2>1. /\ DOMAIN H = DOMAIN pm.calls /\ H = [k \in DOMAIN pm.calls |-> H[k]]
        /\ \A k \in DOMAIN pm.calls : H[k].item = "call" /\ H[k].n = pm.n /\ H[k].id = pm.calls[k].ID
    BY DEF CallItem
  <2>2. /\ DOMAIN J = DOMAIN pm.calls /\ J = [k \in DOMAIN pm.calls |-> J[k]]
        /\ \A k \in DOMAIN pm.calls : J[k].item = "call" /\ J[k].n = pm.n /\ J[k].id = pm.calls[k].ID
    BY DEF CallItem
  <2>3. B = ItemsOf(pm, H) \/ B = ItemsOf(pm, J)
    BY <2>0 DEF Items, Kinds, HTTPItems, ClaudeItems, CodexItems
  <2>. HIDE DEF H, J
  <2>. QED
    BY <2>1, <2>2, <2>3
<1>2. PICK C : /\ B = ItemsOf(pm, C) /\ DOMAIN C = DOMAIN pm.calls /\ C = [k \in DOMAIN pm.calls |-> C[k]]
               /\ \A k \in DOMAIN pm.calls : C[k].item = "call" /\ C[k].n = pm.n /\ C[k].id = pm.calls[k].ID
  BY <1>1
<1>. HIDE DEF B
<1>3. CASE m.role \in {"user", "tool"}
  <2>. DEFINE x == IF m.role = "tool" THEN Result(pm) ELSE Text(pm)
  <2>1. pm.n = m.n /\ pm.role = m.role /\ (m.role = "tool" => pm.id = <<m.of, m.count>>)
    BY <1>3 DEF ProviderMessage
  <2>2. B = <<x>>
    <3>. HIDE DEF pm
    <3>. QED
      BY <1>2, <1>3, <2>1 DEF ItemsOf
  <2>3. /\ x.n = m.n /\ x.item = IF m.role = "tool" THEN "result" ELSE "text"
        /\ m.role = "tool" => x.id = <<m.of, m.count>>
    <3>. HIDE DEF pm
    <3>. QED
      BY <2>1 DEF Text, Result
  <2>. HIDE DEF x
  <2>4. B \in Seq({x}) /\ Len(B) = 1 /\ B[1] = x
    BY <2>2
  <2>5. Sequence(B)
    BY <2>4 DEF Sequence
  <2>6. BlockIs(B, m, Texts(form))
    BY <1>3, <2>3, <2>4 DEF BlockIs
  <2>. QED
    BY <2>5, <2>6 DEF B
<1>4. CASE m.role \in {"assistant", "call"}
  <2>. DEFINE t == IF m.role = "call" THEN Texts(form) ELSE 1
              c == IF m.role = "call" THEN m.count ELSE 0
  <2>0. t \in {0, 1} /\ c \in Nat
    BY <1>0 DEF Texts
  <2>1. /\ pm.n = m.n /\ pm.role = "assistant" /\ DOMAIN pm.calls = 1 .. c
        /\ m.role = "call" => \A k \in 1 .. c : pm.calls[k].ID = <<m.n, k>>
    <3>1. CASE m.role = "call"
      BY <3>1, CallsAre
    <3>2. CASE m.role = "assistant"
      <4>1. pm.n = m.n /\ pm.role = "assistant" /\ pm.calls = <<>>
        BY <3>2 DEF ProviderMessage
      <4>. QED
        BY <3>2, <4>1
    <3>. QED
      BY <1>4, <3>1, <3>2
  <2>2. (IF pm.content THEN <<Text(pm)>> ELSE <<>>) = IF t = 1 THEN <<Text(pm)>> ELSE <<>>
    <3>1. CASE m.role = "call"
      <4>1. pm.content = form.said
        BY <3>1, CallsAre
      <4>2. t = 1 <=> form.said
        BY <1>0, <3>1 DEF Texts
      <4>. QED
        BY <4>1, <4>2
    <3>2. CASE m.role = "assistant"
      <4>1. pm.content = TRUE /\ t = 1
        BY <3>2 DEF ProviderMessage
      <4>. QED
        BY <4>1
    <3>. QED
      BY <1>4, <3>1, <3>2
  <2>. HIDE DEF pm, t, c
  <2>. DEFINE A == IF t = 1 THEN <<Text(pm)>> ELSE <<>>
  <2>3. C = [k \in 1 .. c |-> C[k]]
    BY <1>2, <2>1
  <2>4. B = A \o C
    BY <1>2, <2>1, <2>2 DEF ItemsOf
  <2>5. Joined(A \o C, Text(pm), t, C, c)
    <3>1. A = IF t = 1 THEN <<Text(pm)>> ELSE <<>>
      OBVIOUS
    <3>. HIDE DEF A
    <3>. QED
      BY <2>0, <2>3, <3>1, Appended
  <2>. HIDE DEF A
  <2>6. Joined(B, Text(pm), t, C, c)
    BY <2>4, <2>5
  <2>7. Text(pm).item = "text" /\ Text(pm).n = m.n
    BY <2>1 DEF Text
  <2>8. \A k \in 1 .. c : /\ C[k].item = "call" /\ C[k].n = m.n
                          /\ m.role = "call" => C[k].id = <<m.n, k>>
    BY <1>2, <2>1
  <2>9. BlockIs(B, m, Texts(form))
    <3>1. CASE m.role = "assistant"
      <4>1. t = 1 /\ c = 0
        BY <3>1 DEF t, c
      <4>2. Len(B) = 1 /\ B[1] = Text(pm)
        BY <2>6, <4>1 DEF Joined
      <4>. QED
        BY <2>7, <3>1, <4>2 DEF BlockIs
    <3>2. CASE m.role = "call"
      <4>1. t = Texts(form) /\ c = m.count
        BY <3>2 DEF t, c
      <4>2. Len(B) = t + c
        BY <2>6 DEF Joined
      <4>3. ASSUME NEW i \in 1 .. Len(B)
            PROVE  /\ B[i].n = m.n
                   /\ i =< t => B[i].item = "text"
                   /\ i > t => B[i].item = "call" /\ B[i].id = <<m.n, i - t>>
        <5>1. CASE i =< t
          <6>1. B[i] = Text(pm)
            BY <2>0, <2>6, <4>2, <5>1 DEF Joined
          <6>. QED
            BY <2>0, <2>7, <5>1, <6>1
        <5>2. CASE ~(i =< t)
          <6>1. i \in t + 1 .. t + c /\ i - t \in 1 .. c
            BY <2>0, <4>2, <5>2
          <6>2. B[i] = C[i - t]
            BY <2>6, <6>1 DEF Joined
          <6>3. B[i].item = "call" /\ B[i].n = m.n /\ B[i].id = <<m.n, i - t>>
            BY <2>8, <3>2, <6>1, <6>2
          <6>. QED
            BY <5>2, <6>3
        <5>. QED
          BY <5>1, <5>2
      <4>. QED
        BY <3>2, <4>1, <4>2, <4>3 DEF BlockIs
    <3>. QED
      BY <1>4, <3>1, <3>2
  <2>10. Sequence(B)
    BY <2>6 DEF Joined
  <2>. QED
    BY <2>9, <2>10 DEF B
<1>. QED
  BY <1>0, <1>3, <1>4

-----------------------------------------------------------------------------
(* The items of a request.                                                 *)

\* The number of items of a message, and what the x-th of them is.
Size(m, t) == IF m.role = "call" THEN t + m.count ELSE 1

ItemIs(e, m, x, t) ==
  /\ e.n = m.n
  /\ m.role \in {"user", "assistant"} => e.item = "text"
  /\ m.role = "tool" => e.item = "result" /\ e.id = <<m.of, m.count>>
  /\ m.role = "call" /\ x =< t => e.item = "text"
  /\ m.role = "call" /\ x > t => e.item = "call" /\ e.id = <<m.n, x - t>>

\* The items of message b of h come after place off[b] of the request.
Arranged(items, h, off, t) ==
  /\ Len(items) \in Nat /\ DOMAIN items = 1 .. Len(items)
  /\ \A b \in DOMAIN h : off[b] \in Nat
  /\ \A b \in DOMAIN h : \A x \in 1 .. Size(h[b], t) :
       off[b] + x \in DOMAIN items /\ ItemIs(items[off[b] + x], h[b], x, t)
  /\ \A p \in DOMAIN items : \E b \in DOMAIN h : \E x \in 1 .. Size(h[b], t) : p = off[b] + x
  /\ \A b, c \in DOMAIN h : b < c => off[b] + Size(h[b], t) =< off[c]

Blocks(kind, h, form) == [i \in DOMAIN h |-> BlockOf(kind, h[i], form)]

LEMMA BlockAt ==
  ASSUME NEW m \in Message, NEW kind \in Kinds, NEW form \in PlainForms
  PROVE  /\ Sequence(BlockOf(kind, m, form))
         /\ Len(BlockOf(kind, m, form)) = Size(m, Texts(form)) /\ Size(m, Texts(form)) \in Nat
         /\ \A x \in 1 .. Size(m, Texts(form)) : ItemIs(BlockOf(kind, m, form)[x], m, x, Texts(form))
<1>. DEFINE B == BlockOf(kind, m, form)
            t == Texts(form)
<1>0. m.role \in {"user", "assistant", "call", "tool"} /\ m.count \in Nat /\ t \in Nat
  BY DEF Message, Roles, Texts
<1>1. Sequence(B) /\ BlockIs(B, m, t)
  BY BlockFacts
<1>. HIDE DEF B, t
<1>2. Len(B) = Size(m, t) /\ Size(m, t) \in Nat
  BY <1>0, <1>1 DEF BlockIs, Size
<1>3. CASE m.role = "call"
  <2>1. \A x \in 1 .. Size(m, t) : ItemIs(B[x], m, x, t)
    BY <1>1, <1>2, <1>3 DEF BlockIs, ItemIs
  <2>. QED
    BY <1>1, <1>2, <2>1 DEF B, t
<1>4. CASE m.role # "call"
  <2>1. Size(m, t) = 1
    BY <1>4 DEF Size
  <2>2. ItemIs(B[1], m, 1, t)
    BY <1>0, <1>1, <1>4 DEF BlockIs, ItemIs
  <2>3. \A x \in 1 .. Size(m, t) : x = 1
    BY <2>1
  <2>. QED
    BY <1>1, <1>2, <2>2, <2>3 DEF B, t
<1>. QED
  BY <1>3, <1>4

\* The blocks are sequences over one set, that of their elements.
LEMMA SequenceOver ==
  ASSUME NEW B, Sequence(B), NEW S, \A x \in 1 .. Len(B) : B[x] \in S
  PROVE  B \in Seq(S)
<1>1. PICK T : B \in Seq(T)
  BY DEF Sequence
<1>2. Len(B) \in Nat /\ B \in [1 .. Len(B) -> T]
  BY <1>1, LenProperties
<1>3. B \in [1 .. Len(B) -> S]
  BY <1>2
<1>. QED
  BY <1>2, <1>3, SeqDef

LEMMA BlocksArranged ==
  ASSUME NEW h \in History, NEW kind \in Kinds, NEW form \in PlainForms
  PROVE  \E off : Arranged(FlattenSeq(Blocks(kind, h, form)), h, off, Texts(form))
<1>. DEFINE s == Blocks(kind, h, form)
            t == Texts(form)
            S == UNION {{s[b][x] : x \in 1 .. Len(s[b])} : b \in DOMAIN h}
<1>1. Len(h) \in Nat /\ DOMAIN h = 1 .. Len(h) /\ \A b \in DOMAIN h : h[b] \in Message
  BY HistoryIsSeq
<1>2. \A b \in DOMAIN h : s[b] = BlockOf(kind, h[b], form)
  BY DEF Blocks
<1>3. DOMAIN s = 1 .. Len(h) /\ s = [b \in 1 .. Len(h) |-> s[b]]
  BY <1>1 DEF Blocks
<1>. HIDE DEF s, t
<1>4. \A b \in DOMAIN h : /\ Sequence(s[b]) /\ Len(s[b]) = Size(h[b], t)
                          /\ \A x \in 1 .. Size(h[b], t) : ItemIs(s[b][x], h[b], x, t)
  BY <1>1, <1>2, BlockAt DEF t
<1>5. \A b \in DOMAIN h : s[b] \in Seq(S)
  <2>1. \A b \in DOMAIN h : \A x \in 1 .. Len(s[b]) : s[b][x] \in S
    OBVIOUS
  <2>. HIDE DEF S
  <2>. QED
    BY <1>4, <2>1, SequenceOver
<1>. HIDE DEF S
<1>6. s \in Seq(Seq(S))
  <2>1. s \in [1 .. Len(h) -> Seq(S)]
    BY <1>1, <1>3, <1>5
  <2>. QED
    BY <1>1, <2>1, SeqDef
<1>7. Len(s) = Len(h)
  BY <1>1, <1>3, <1>6, LenProperties
<1>. DEFINE out == FlattenSeq(s)
<1>8. out \in Seq(S) /\ \E off \in [1 .. Len(s) -> Nat] : Laid(out, s, off, Len(s))
  BY <1>6, FlattenBlocks
<1>. HIDE DEF out
<1>9. PICK off \in [1 .. Len(h) -> Nat] : Laid(out, s, off, Len(h))
  BY <1>7, <1>8
<1>10. Len(out) \in Nat /\ DOMAIN out = 1 .. Len(out)
  BY <1>8, LenProperties
<1>11. Arranged(out, h, off, t)
  <2>1. \A b \in DOMAIN h : off[b] \in Nat
    BY <1>1
  <2>2. ASSUME NEW b \in DOMAIN h, NEW x \in 1 .. Size(h[b], t)
        PROVE  off[b] + x \in DOMAIN out /\ ItemIs(out[off[b] + x], h[b], x, t)
    <3>1. b \in 1 .. Len(h) /\ x \in 1 .. Len(s[b]) /\ ItemIs(s[b][x], h[b], x, t)
      BY <1>1, <1>4
    <3>2. off[b] + x \in 1 .. Len(out) /\ out[off[b] + x] = s[b][x]
      BY <1>9, <3>1 DEF Laid
    <3>. QED
      BY <1>10, <3>1, <3>2
  <2>3. \A p \in DOMAIN out : \E b \in DOMAIN h : \E x \in 1 .. Size(h[b], t) : p = off[b] + x
    <3>1. \A p \in 1 .. Len(out) : \E b \in 1 .. Len(h) : \E x \in 1 .. Len(s[b]) : p = off[b] + x
      BY <1>9 DEF Laid
    <3>2. \A b \in DOMAIN h : Len(s[b]) = Size(h[b], t)
      BY <1>4
    <3>. QED
      BY <1>1, <1>10, <3>1, <3>2
  <2>4. \A b, c \in DOMAIN h : b < c => off[b] + Size(h[b], t) =< off[c]
    BY <1>1, <1>4, <1>9 DEF Laid
  <2>. QED
    BY <1>10, <2>1, <2>2, <2>3, <2>4 DEF Arranged
<1>. QED
  BY <1>11 DEF out, s, t

LEMMA RequestArranged ==
  ASSUME NEW prompt \in [history : History, summary : SUBSET Numbers],
         NEW kind \in Kinds, NEW form \in PlainForms
  PROVE  /\ Request(kind, prompt, form).system = prompt.summary
         /\ \E off : Arranged(Request(kind, prompt, form).items, prompt.history, off, Texts(form))
<1>1. prompt.history \in History
  OBVIOUS
<1>2. Request(kind, prompt, form).items = FlattenSeq(Blocks(kind, prompt.history, form))
  BY DEF Request, Blocks, BlockOf
<1>3. Request(kind, prompt, form).system = prompt.summary
  BY DEF Request
<1>4. \E off : Arranged(FlattenSeq(Blocks(kind, prompt.history, form)), prompt.history, off, Texts(form))
  BY <1>1, BlocksArranged
<1>. QED
  BY <1>2, <1>3, <1>4

\* A request has an item of each message of a history, in its order.
LEMMA ArrangedCovers ==
  ASSUME NEW items, NEW h \in History, NEW off, NEW t \in Nat, Arranged(items, h, off, t), Counted(h)
  PROVE  /\ Told(h) \subseteq {items[i].n : i \in DOMAIN items}
         /\ \A i, j \in DOMAIN items : i < j => items[i].n =< items[j].n
<1>1. \A b \in DOMAIN h : Size(h[b], t) \in Nat \ {0} /\ h[b].n \in Int
  <2>. SUFFICES ASSUME NEW b \in DOMAIN h PROVE Size(h[b], t) \in Nat \ {0} /\ h[b].n \in Int
    OBVIOUS
  <2>1. h[b].count \in Nat /\ h[b].n \in Int
    BY HistoryIsSeq DEF Message, Numbers
  <2>2. h[b].role = "call" => h[b].count # 0
    BY DEF Counted
  <2>. QED
    BY <2>1, <2>2 DEF Size
<1>2. ASSUME NEW b \in DOMAIN h
      PROVE  h[b].n \in {items[i].n : i \in DOMAIN items}
  <2>1. 1 \in 1 .. Size(h[b], t)
    BY <1>1
  <2>2. off[b] + 1 \in DOMAIN items /\ items[off[b] + 1].n = h[b].n
    BY <2>1 DEF Arranged, ItemIs
  <2>. QED
    BY <2>2
<1>3. ASSUME NEW i \in DOMAIN items, NEW j \in DOMAIN items, i < j
      PROVE  items[i].n =< items[j].n
  <2>1. PICK b \in DOMAIN h : \E x \in 1 .. Size(h[b], t) : i = off[b] + x
    BY DEF Arranged
  <2>2. PICK c \in DOMAIN h : \E y \in 1 .. Size(h[c], t) : j = off[c] + y
    BY DEF Arranged
  <2>3. items[i].n = h[b].n /\ items[j].n = h[c].n
    BY <2>1, <2>2 DEF Arranged, ItemIs
  <2>4. off[b] \in Nat /\ off[c] \in Nat /\ b \in Nat /\ c \in Nat
    BY HistoryIsSeq DEF Arranged
  <2>5. ~(c < b)
    <3>. SUFFICES ASSUME c < b PROVE FALSE
      OBVIOUS
    <3>1. off[c] + Size(h[c], t) =< off[b]
      BY DEF Arranged
    <3>. QED
      BY <1>1, <1>3, <2>1, <2>2, <2>4, <3>1
  <2>6. CASE b = c
    BY <1>1, <2>3, <2>6
  <2>7. CASE b < c
    <3>1. h[b].n < h[c].n
      BY <2>7 DEF History
    <3>. QED
      BY <1>1, <2>3, <3>1
  <2>. QED
    BY <2>4, <2>5, <2>6, <2>7
<1>. QED
  BY <1>2, <1>3 DEF Told

-----------------------------------------------------------------------------
(* Calls and results in a history.                                         *)

LEMMA Appends ==
  ASSUME NEW h \in History, NEW m \in Message
  PROVE  /\ Len(h) \in Nat /\ DOMAIN h = 1 .. Len(h)
         /\ Len(Append(h, m)) = Len(h) + 1 /\ DOMAIN Append(h, m) = 1 .. Len(h) + 1
         /\ \A i \in 1 .. Len(h) : Append(h, m)[i] = h[i]
         /\ Append(h, m)[Len(h) + 1] = m
<1>1. Append(h, m) \in Seq(Message) /\ Len(Append(h, m)) = Len(h) + 1
      /\ \A i \in 1 .. Len(h) + 1 : Append(h, m)[i] = IF i = Len(h) + 1 THEN m ELSE h[i]
  BY HistoryIsSeq, AppendProperties
<1>2. DOMAIN Append(h, m) = 1 .. Len(h) + 1
  BY <1>1, LenProperties
<1>3. Len(h) \in Nat /\ DOMAIN h = 1 .. Len(h)
  BY HistoryIsSeq
<1>4. \A i \in 1 .. Len(h) : i \in 1 .. Len(h) + 1 /\ i # Len(h) + 1
  BY <1>3
<1>5. Len(h) + 1 \in 1 .. Len(h) + 1
  BY <1>3
<1>. QED
  BY <1>1, <1>2, <1>3, <1>4, <1>5

\* What one message of a linked history says of others.
LinkedAt(h, l, w, r, i) ==
  /\ h[i].n = l - Len(h) + i
  /\ h[i].role = "call" =>
       /\ \A k \in 1 .. h[i].count : i + k =< Len(h) =>
            h[i + k].role = "tool" /\ h[i + k].of = h[i].n /\ h[i + k].count = k
       /\ IF h[i].n = w THEN Len(h) - i + r = h[i].count
                        ELSE i + h[i].count =< Len(h)
  /\ h[i].role = "tool" =>
       /\ h[i].of = h[i].n - h[i].count /\ h[i].count # 0
       /\ i > h[i].count => h[i - h[i].count].role = "call" /\ h[i].count =< h[i - h[i].count].count
       /\ i =< h[i].count => \A j \in 1 .. i : h[j].role = "tool" /\ h[j].of = h[i].of

LEMMA LinkedEach ==
  ASSUME NEW h, NEW l, NEW w, NEW r
  PROVE  Linked(h, l, w, r) <=> \A i \in DOMAIN h : LinkedAt(h, l, w, r, i)
BY DEF Linked, LinkedAt

LEMMA MessageFields ==
  ASSUME NEW m \in Message
  PROVE  /\ m.n \in Nat \ {0} /\ m.count \in Nat /\ m.of \in Nat
         /\ m.role \in {"user", "assistant", "call", "tool"}
BY DEF Message, Numbers, Roles

\* The messages that are there stay linked, when the next one is no result.
LEMMA AppendLinked ==
  ASSUME NEW h \in History, NEW l \in Nat, NEW r, NEW q \in Nat, NEW m \in Message,
         m.n = l + 1, m.role # "tool", Linked(h, l, 0, r),
         NEW w, w = IF m.role = "call" THEN m.n ELSE 0, q = m.count
  PROVE  /\ Linked(Append(h, m), l + 1, w, q)
         /\ m.role = "call" => Pending(Append(h, m), l + 1, m.n)
<1>. DEFINE g == Append(h, m)
            N == Len(h)
<1>1. /\ N \in Nat /\ DOMAIN h = 1 .. N /\ Len(g) = N + 1 /\ DOMAIN g = 1 .. N + 1
      /\ (\A i \in 1 .. N : g[i] = h[i]) /\ g[N + 1] = m
  BY Appends
<1>2. \A i \in 1 .. N : h[i] \in Message
  BY HistoryIsSeq
<1>. HIDE DEF g, N
<1>3. ASSUME NEW i \in 1 .. N PROVE LinkedAt(g, l + 1, w, q, i)
  <2>1. LinkedAt(h, l, 0, r, i) /\ g[i] = h[i] /\ h[i] \in Message
    BY <1>1, <1>2, LinkedEach
  <2>2. h[i].n \in Nat \ {0} /\ h[i].count \in Nat
    BY <2>1, MessageFields
  <2>3. h[i].n = l - N + i /\ h[i].n # w
    <3>1. h[i].n = l - N + i
      BY <2>1 DEF LinkedAt, N
    <3>2. h[i].n =< l
      BY <1>1, <3>1
    <3>3. w = 0 \/ w = l + 1
      OBVIOUS
    <3>4. h[i].n # w
      BY <2>2, <3>2, <3>3
    <3>. QED
      BY <3>1, <3>4
  <2>4. ASSUME g[i].role = "call"
        PROVE  /\ \A k \in 1 .. g[i].count : i + k =< Len(g) =>
                    g[i + k].role = "tool" /\ g[i + k].of = g[i].n /\ g[i + k].count = k
               /\ i + g[i].count =< Len(g)
    <3>1. i + h[i].count =< N
      BY <2>1, <2>2, <2>4 DEF LinkedAt, N
    <3>2. ASSUME NEW k \in 1 .. h[i].count
          PROVE  g[i + k].role = "tool" /\ g[i + k].of = h[i].n /\ g[i + k].count = k
      <4>1. i + k \in 1 .. N /\ i + k =< N
        <5>. DEFINE c == h[i].count
        <5>1. c \in Nat /\ k \in 1 .. c /\ i + c =< N
          BY <2>2, <3>1, <3>2
        <5>. HIDE DEF c
        <5>. QED
          BY <1>1, <5>1
      <4>2. h[i + k].role = "tool" /\ h[i + k].of = h[i].n /\ h[i + k].count = k
        BY <2>1, <2>4, <4>1 DEF LinkedAt, N
      <4>. QED
        BY <1>1, <4>1, <4>2
    <3>3. i + h[i].count =< N + 1
      BY <1>1, <2>2, <3>1
    <3>. QED
      BY <1>1, <2>1, <3>2, <3>3
  <2>5. g[i].role = "tool" =>
          /\ g[i].of = g[i].n - g[i].count /\ g[i].count # 0
          /\ i > g[i].count => g[i - g[i].count].role = "call" /\ g[i].count =< g[i - g[i].count].count
          /\ i =< g[i].count => \A j \in 1 .. i : g[j].role = "tool" /\ g[j].of = g[i].of
    <3>1. i > h[i].count /\ h[i].count # 0 => i - h[i].count \in 1 .. N
      BY <1>1, <2>2
    <3>2. \A j \in 1 .. i : j \in 1 .. N
      BY <1>1
    <3>. QED
      BY <1>1, <2>1, <3>1, <3>2 DEF LinkedAt
  <2>6. g[i].n = l + 1 - Len(g) + i /\ g[i].n # w
    BY <1>1, <2>1, <2>3
  <2>. QED
    BY <2>4, <2>5, <2>6 DEF LinkedAt
<1>4. m.count \in Nat /\ m.n # 0
  BY MessageFields
<1>5. LinkedAt(g, l + 1, w, q, N + 1)
  BY <1>1, <1>4 DEF LinkedAt
<1>6. \A i \in DOMAIN g : LinkedAt(g, l + 1, w, q, i)
  BY <1>1, <1>3, <1>5
<1>7. m.role = "call" => Pending(g, l + 1, m.n)
  BY <1>1 DEF Pending
<1>. QED
  BY <1>6, <1>7, LinkedEach DEF g

\* A result goes to its call, which waits for it.
LEMMA AppendResultLinked ==
  ASSUME NEW h \in History, NEW l \in Nat, NEW w \in 1 .. l, NEW r \in Nat \ {0}, NEW m \in Message,
         m.n = l + 1, m.role = "tool", m.of = w, m.count = l - w + 1,
         Linked(h, l, w, r), Pending(h, l, w),
         NEW v, v = IF r = 1 THEN 0 ELSE w
  PROVE  Linked(Append(h, m), l + 1, v, r - 1) /\ Pending(Append(h, m), l + 1, w)
<1>. DEFINE g == Append(h, m)
            N == Len(h)
            p == N - (l - w)
<1>1. /\ N \in Nat /\ DOMAIN h = 1 .. N /\ Len(g) = N + 1 /\ DOMAIN g = 1 .. N + 1
      /\ (\A i \in 1 .. N : g[i] = h[i]) /\ g[N + 1] = m
  BY Appends
<1>2. \A i \in 1 .. N : h[i] \in Message
  BY HistoryIsSeq
<1>3. IF p >= 1 THEN h[p].role = "call" ELSE \A j \in 1 .. N : h[j].role = "tool" /\ h[j].of = w
  BY <1>1 DEF Pending
<1>4. p \in Int /\ p =< N /\ l \in Nat /\ w \in Nat /\ r \in Nat
  BY <1>1
<1>. HIDE DEF g, N
<1>5. p >= 1 => p \in 1 .. N /\ h[p].n = w /\ N - p + r = h[p].count
  <2>. SUFFICES ASSUME p >= 1 PROVE p \in 1 .. N /\ h[p].n = w /\ N - p + r = h[p].count
    OBVIOUS
  <2>1. p \in 1 .. N
    BY <1>1, <1>4
  <2>2. LinkedAt(h, l, w, r, p)
    BY <1>1, <2>1, LinkedEach
  <2>3. h[p].n = l - N + p
    BY <2>2 DEF LinkedAt, N
  <2>4. h[p].n = w
    BY <1>1, <2>3
  <2>. QED
    BY <1>3, <2>1, <2>2, <2>4 DEF LinkedAt, N
<1>6. ASSUME NEW i \in 1 .. N PROVE LinkedAt(g, l + 1, v, r - 1, i)
  <2>1. LinkedAt(h, l, w, r, i) /\ g[i] = h[i] /\ h[i] \in Message
    BY <1>1, <1>2, LinkedEach
  <2>2. h[i].n \in Nat \ {0} /\ h[i].count \in Nat
    BY <2>1, MessageFields
  <2>3. h[i].n = l - N + i
    BY <2>1 DEF LinkedAt, N
  <2>4. ASSUME h[i].role = "call", NEW k \in 1 .. h[i].count, i + k =< N + 1
        PROVE  g[i + k].role = "tool" /\ g[i + k].of = h[i].n /\ g[i + k].count = k
    <3>1. CASE i + k =< N
      <4>1. i + k \in 1 .. N
        BY <1>1, <2>2, <3>1
      <4>2. h[i + k].role = "tool" /\ h[i + k].of = h[i].n /\ h[i + k].count = k
        BY <2>1, <2>4, <3>1 DEF LinkedAt, N
      <4>. QED
        BY <1>1, <4>1, <4>2
    <3>2. CASE ~(i + k =< N)
      <4>1. i + k = N + 1
        BY <1>1, <2>2, <2>4, <3>2
      <4>2. h[i].n = w
        <5>. SUFFICES ASSUME h[i].n # w PROVE FALSE
          OBVIOUS
        <5>1. i + h[i].count =< N
          BY <2>1, <2>4 DEF LinkedAt, N
        <5>. QED
          BY <1>1, <2>2, <4>1, <5>1
      <4>3. k = m.count
        <5>1. l - N + i = w /\ k = N + 1 - i
          BY <1>1, <2>2, <2>3, <4>1, <4>2
        <5>2. k = l + 1 - w
          BY <1>1, <1>4, <5>1
        <5>. QED
          BY <1>1, <1>4, <5>2
      <4>. QED
        BY <1>1, <4>1, <4>2, <4>3
    <3>. QED
      BY <3>1, <3>2
  <2>5. ASSUME h[i].role = "call"
        PROVE  IF h[i].n = v THEN N + 1 - i + (r - 1) = h[i].count ELSE i + h[i].count =< N + 1
    <3>1. IF h[i].n = w THEN N - i + r = h[i].count ELSE i + h[i].count =< N
      BY <2>1, <2>5 DEF LinkedAt, N
    <3>2. CASE h[i].n = w
      <4>1. N - i + r = h[i].count
        BY <3>1, <3>2
      <4>2. CASE r = 1
        BY <1>1, <2>2, <4>1, <4>2
      <4>3. CASE r # 1
        BY <1>1, <1>4, <2>2, <3>2, <4>1, <4>3
      <4>. QED
        BY <4>2, <4>3
    <3>3. CASE h[i].n # w
      <4>1. h[i].n # v
        BY <2>2, <3>3
      <4>. QED
        BY <1>1, <2>2, <3>1, <3>3, <4>1
    <3>. QED
      BY <3>2, <3>3
  <2>6. g[i].role = "tool" =>
          /\ g[i].of = g[i].n - g[i].count /\ g[i].count # 0
          /\ i > g[i].count => g[i - g[i].count].role = "call" /\ g[i].count =< g[i - g[i].count].count
          /\ i =< g[i].count => \A j \in 1 .. i : g[j].role = "tool" /\ g[j].of = g[i].of
    <3>1. i > h[i].count /\ h[i].count # 0 => i - h[i].count \in 1 .. N
      BY <1>1, <2>2
    <3>2. \A j \in 1 .. i : j \in 1 .. N
      BY <1>1
    <3>. QED
      BY <1>1, <2>1, <3>1, <3>2 DEF LinkedAt
  <2>7. g[i].n = l + 1 - Len(g) + i
    BY <1>1, <2>1, <2>3
  <2>8. g[i].role = "call" =>
          /\ \A k \in 1 .. g[i].count : i + k =< Len(g) =>
               g[i + k].role = "tool" /\ g[i + k].of = g[i].n /\ g[i + k].count = k
          /\ IF g[i].n = v THEN Len(g) - i + (r - 1) = g[i].count ELSE i + g[i].count =< Len(g)
    BY <1>1, <2>1, <2>4, <2>5
  <2>. QED
    BY <2>6, <2>7, <2>8 DEF LinkedAt
<1>7. LinkedAt(g, l + 1, v, r - 1, N + 1)
  <2>1. m.n = l + 1 - (N + 1) + (N + 1) /\ m.of = m.n - m.count /\ m.count # 0
    BY <1>1, <1>4
  <2>2. N + 1 > m.count => g[N + 1 - m.count].role = "call" /\ m.count =< g[N + 1 - m.count].count
    <3>1. N + 1 - m.count = p /\ (N + 1 > m.count <=> p >= 1)
      BY <1>1, <1>4
    <3>2. p >= 1 => m.count =< h[p].count
      BY <1>1, <1>4, <1>5
    <3>. QED
      BY <1>1, <1>3, <1>5, <3>1, <3>2
  <2>3. N + 1 =< m.count => \A j \in 1 .. N + 1 : g[j].role = "tool" /\ g[j].of = w
    <3>1. N + 1 =< m.count => ~(p >= 1)
      BY <1>1, <1>4
    <3>2. \A j \in 1 .. N + 1 : j = N + 1 \/ j \in 1 .. N
      BY <1>1
    <3>. QED
      BY <1>1, <1>3, <3>1, <3>2
  <2>. QED
    BY <1>1, <2>1, <2>2, <2>3 DEF LinkedAt
<1>8. \A i \in DOMAIN g : LinkedAt(g, l + 1, v, r - 1, i)
  BY <1>1, <1>6, <1>7
<1>9. Pending(g, l + 1, w)
  <2>1. Len(g) - (l + 1 - w) = p
    BY <1>1, <1>4
  <2>2. p >= 1 => g[p].role = "call"
    BY <1>1, <1>3, <1>5
  <2>3. ~(p >= 1) => \A j \in DOMAIN g : g[j].role = "tool" /\ g[j].of = w
    <3>1. \A j \in 1 .. N + 1 : j = N + 1 \/ j \in 1 .. N
      BY <1>1
    <3>. QED
      BY <1>1, <1>3, <3>1
  <2>. HIDE DEF p
  <2>. QED
    BY <2>1, <2>2, <2>3 DEF Pending
<1>. QED
  BY <1>8, <1>9, LinkedEach DEF g

\* TruncateHistory keeps the last messages of a history.
LEMMA Truncates ==
  ASSUME NEW s \in History
  PROVE  \E d \in Nat :
           /\ Len(s) \in Nat /\ DOMAIN s = 1 .. Len(s) /\ Truncated(s) \in History
           /\ Len(Truncated(s)) \in Nat /\ DOMAIN Truncated(s) = 1 .. Len(Truncated(s))
           /\ Len(s) = Len(Truncated(s)) + d
           /\ \A i \in 1 .. Len(Truncated(s)) : Truncated(s)[i] = s[d + i]
<1>1. Truncated(s) \in History
  BY TruncatedHistory
<1>2. /\ Len(s) \in Nat /\ DOMAIN s = 1 .. Len(s)
      /\ Len(Truncated(s)) \in Nat /\ DOMAIN Truncated(s) = 1 .. Len(Truncated(s))
  BY <1>1, HistoryIsSeq
<1>3. CASE Len(s) =< KeepLast
  <2>1. Truncated(s) = s
    BY <1>3 DEF Truncated
  <2>2. Len(s) = Len(s) + 0 /\ \A i \in 1 .. Len(s) : s[i] = s[0 + i]
    BY <1>2
  <2>. QED
    BY <1>1, <1>2, <2>1, <2>2
<1>4. CASE ~(Len(s) =< KeepLast)
  <2>. DEFINE d == Len(s) - KeepLast
              t == SubSeq(s, d + 1, Len(s))
  <2>1. d \in Nat /\ d + 1 \in 1 .. Len(s) /\ d + 1 \in Int /\ Len(s) \in Int
    BY <1>2, <1>4
  <2>2. /\ Len(t) = IF d + 1 =< Len(s) THEN Len(s) - (d + 1) + 1 ELSE 0
        /\ \A i \in 1 .. Len(s) - (d + 1) + 1 : t[i] = s[d + 1 + i - 1]
    <3>1. \A i \in d + 1 .. Len(s) : s[i] \in Message
      BY <2>1, HistoryIsSeq
    <3>. HIDE DEF d
    <3>. QED
      BY <2>1, <3>1, SubSeqProperties
  <2>3. Truncated(s) = t
    BY <1>4 DEF Truncated
  <2>. HIDE DEF t, d
  <2>4. Len(t) = Len(s) - d /\ \A i \in 1 .. Len(t) : t[i] = s[d + i]
    <3>1. Len(t) = Len(s) - d /\ Len(s) - (d + 1) + 1 = Len(t)
      BY <2>1, <2>2
    <3>2. \A i \in 1 .. Len(t) : d + 1 + i - 1 = d + i
      BY <2>1
    <3>. QED
      BY <2>2, <3>1, <3>2
  <2>5. Len(s) = Len(t) + d
    BY <1>2, <2>1, <2>4
  <2>. QED
    BY <1>1, <1>2, <2>1, <2>3, <2>4, <2>5
<1>. QED
  BY <1>3, <1>4

\* A cut leaves the messages linked: results whose call is cut off are the first ones,
\* and of that call.
LEMMA TruncatedLinked ==
  ASSUME NEW s \in History, NEW l \in Nat, NEW w \in Nat, NEW r \in Nat, Linked(s, l, w, r)
  PROVE  /\ Linked(Truncated(s), l, w, r)
         /\ w \in 1 .. l /\ Pending(s, l, w) => Pending(Truncated(s), l, w)
<1>. DEFINE t == Truncated(s)
            N == Len(s)
            K == Len(t)
<1>1. PICK d \in Nat :
        /\ N \in Nat /\ DOMAIN s = 1 .. N /\ t \in History
        /\ K \in Nat /\ DOMAIN t = 1 .. K /\ N = K + d
        /\ \A i \in 1 .. K : t[i] = s[d + i]
  BY Truncates
<1>2. \A i \in 1 .. N : s[i] \in Message /\ LinkedAt(s, l, w, r, i)
  BY <1>1, HistoryIsSeq, LinkedEach
<1>. HIDE DEF t, N, K
<1>3. ASSUME NEW i \in 1 .. K PROVE LinkedAt(t, l, w, r, i)
  <2>. DEFINE e == d + i
              c == s[e].count
  <2>1. e \in 1 .. N /\ t[i] = s[e] /\ e \in Nat
    BY <1>1
  <2>2. s[e] \in Message /\ LinkedAt(s, l, w, r, e)
    BY <1>2, <2>1
  <2>3. s[e].n \in Nat \ {0} /\ c \in Nat
    BY <2>2, MessageFields
  <2>4. s[e].n = l - N + e
    BY <2>2 DEF LinkedAt, N
  <2>5. t[i].n = l - Len(t) + i
    BY <1>1, <2>1, <2>4 DEF K
  <2>6. ASSUME t[i].role = "call"
        PROVE  /\ \A k \in 1 .. t[i].count : i + k =< Len(t) =>
                    t[i + k].role = "tool" /\ t[i + k].of = t[i].n /\ t[i + k].count = k
               /\ IF t[i].n = w THEN Len(t) - i + r = t[i].count ELSE i + t[i].count =< Len(t)
    <3>1. ASSUME NEW k \in 1 .. c, i + k =< K
          PROVE  t[i + k].role = "tool" /\ t[i + k].of = s[e].n /\ t[i + k].count = k
      <4>1. i + k \in 1 .. K /\ d + (i + k) = e + k /\ e + k =< N
        BY <1>1, <2>3, <3>1
      <4>2. s[e + k].role = "tool" /\ s[e + k].of = s[e].n /\ s[e + k].count = k
        BY <2>1, <2>2, <2>6, <4>1 DEF LinkedAt, N
      <4>3. t[i + k] = s[e + k]
        BY <1>1, <4>1
      <4>. QED
        BY <4>2, <4>3
    <3>2. IF s[e].n = w THEN K - i + r = c ELSE i + c =< K
      <4>1. IF s[e].n = w THEN N - e + r = c ELSE e + c =< N
        BY <2>1, <2>2, <2>6 DEF LinkedAt, N
      <4>2. N - e = K - i
        BY <1>1
      <4>3. e + c =< N => i + c =< K
        BY <1>1, <2>3
      <4>. HIDE DEF e, c
      <4>. QED
        BY <4>1, <4>2, <4>3
    <3>. QED
      BY <2>1, <3>1, <3>2 DEF K
  <2>7. ASSUME t[i].role = "tool"
        PROVE  /\ t[i].of = t[i].n - t[i].count /\ t[i].count # 0
               /\ i > t[i].count => t[i - t[i].count].role = "call" /\ t[i].count =< t[i - t[i].count].count
               /\ i =< t[i].count => \A j \in 1 .. i : t[j].role = "tool" /\ t[j].of = t[i].of
    <3>1. /\ s[e].of = s[e].n - c /\ c # 0
          /\ e > c => s[e - c].role = "call" /\ c =< s[e - c].count
          /\ e =< c => \A j \in 1 .. e : s[j].role = "tool" /\ s[j].of = s[e].of
      BY <2>1, <2>2, <2>7 DEF LinkedAt
    <3>2. ASSUME i > c PROVE t[i - c].role = "call" /\ c =< t[i - c].count
      <4>1. i - c \in 1 .. K /\ d + (i - c) = e - c /\ e > c
        <5>1. c \in Nat /\ i \in Nat /\ d \in Nat /\ i =< K /\ e = d + i
          BY <1>1, <2>3
        <5>. HIDE DEF c, e
        <5>. QED
          BY <1>1, <3>2, <5>1
      <4>2. t[i - c] = s[e - c]
        BY <1>1, <4>1
      <4>. QED
        BY <3>1, <4>1, <4>2
    <3>3. ASSUME i =< c, NEW j \in 1 .. i PROVE t[j].role = "tool" /\ t[j].of = s[e].of
      <4>. DEFINE f == d + j
      <4>1. j \in 1 .. K /\ t[j] = s[f] /\ f \in 1 .. N /\ f \in 1 .. e
        BY <1>1
      <4>2. CASE e > c
        <5>. DEFINE q == e - c
        <5>1. q \in 1 .. N /\ f - q \in 1 .. c /\ q + (f - q) = f /\ f =< N
          <6>1. c \in Nat /\ c # 0 /\ i =< c /\ e > c /\ j \in 1 .. i /\ i \in 1 .. K /\ K \in Nat
            BY <1>1, <2>3, <3>1, <3>3, <4>2
          <6>2. N \in Nat /\ N = K + d /\ d \in Nat
            BY <1>1
          <6>. HIDE DEF c
          <6>. QED
            BY <6>1, <6>2
        <5>2. LinkedAt(s, l, w, r, q) /\ s[q] \in Message /\ s[q].role = "call" /\ c =< s[q].count
          BY <1>2, <3>1, <4>2, <5>1
        <5>3. s[q].count \in Nat
          BY <5>2, MessageFields
        <5>4. f - q \in 1 .. s[q].count
          BY <2>3, <5>1, <5>2, <5>3
        <5>. HIDE DEF f, q
        <5>5. s[q + (f - q)].role = "tool" /\ s[q + (f - q)].of = s[q].n
          BY <5>1, <5>2, <5>4 DEF LinkedAt, N
        <5>6. s[q].n = l - N + q
          BY <5>2 DEF LinkedAt, N
        <5>7. s[q].n = s[e].of
          BY <1>1, <2>1, <2>3, <2>4, <3>1, <5>6 DEF q
        <5>. QED
          BY <4>1, <5>1, <5>5, <5>7
      <4>3. CASE ~(e > c)
        <5>1. e =< c
          BY <2>1, <2>3, <4>3
        <5>. QED
          BY <3>1, <4>1, <5>1
      <4>. QED
        BY <4>2, <4>3
    <3>. QED
      BY <2>1, <3>1, <3>2, <3>3
  <2>. QED
    BY <2>5, <2>6, <2>7 DEF LinkedAt
<1>4. ASSUME w \in 1 .. l, Pending(s, l, w) PROVE Pending(t, l, w)
  <2>. DEFINE p == N - (l - w)
              u == K - (l - w)
  <2>1. IF p >= 1 THEN s[p].role = "call" ELSE \A j \in 1 .. N : s[j].role = "tool" /\ s[j].of = w
    BY <1>1, <1>4 DEF Pending, N
  <2>2. p \in Int /\ u \in Int /\ p = d + u /\ p =< N /\ u =< K
    BY <1>1, <1>4
  <2>3. CASE u >= 1
    <3>1. p >= 1 /\ u \in 1 .. K
      BY <1>1, <2>2, <2>3
    <3>2. t[u] = s[p]
      BY <1>1, <2>2, <3>1
    <3>3. t[u].role = "call"
      BY <2>1, <3>1, <3>2
    <3>. QED
      BY <2>3, <3>3 DEF Pending, K
  <2>4. CASE ~(u >= 1)
    <3>1. ASSUME NEW j \in 1 .. K PROVE t[j].role = "tool" /\ t[j].of = w
      <4>. DEFINE f == d + j
      <4>1. t[j] = s[f] /\ f \in 1 .. N
        BY <1>1
      <4>2. CASE p >= 1
        <5>1. p \in 1 .. N /\ f - p \in 1 .. N /\ p + (f - p) = f /\ f =< N
          BY <1>1, <2>2, <2>4, <4>1, <4>2
        <5>2. LinkedAt(s, l, w, r, p) /\ s[p] \in Message /\ s[p].role = "call"
          BY <1>2, <2>1, <4>2, <5>1
        <5>3. s[p].count \in Nat
          BY <5>2, MessageFields
        <5>4. s[p].n = l - N + p
          BY <5>2 DEF LinkedAt, N
        <5>5. s[p].n = w
          BY <1>1, <1>4, <5>4
        <5>6. N - p + r = s[p].count
          BY <5>2, <5>5 DEF LinkedAt, N
        <5>7. f - p \in 1 .. s[p].count
          BY <1>1, <2>2, <5>1, <5>3, <5>6
        <5>. HIDE DEF f, p
        <5>8. s[p + (f - p)].role = "tool" /\ s[p + (f - p)].of = s[p].n
          BY <5>1, <5>2, <5>7 DEF LinkedAt, N
        <5>. QED
          BY <4>1, <5>1, <5>5, <5>8
      <4>3. CASE ~(p >= 1)
        BY <2>1, <4>1, <4>3
      <4>. QED
        BY <4>2, <4>3
    <3>. QED
      BY <1>1, <2>4, <3>1 DEF Pending, K
  <2>. QED
    BY <2>3, <2>4
<1>. QED
  BY <1>1, <1>3, <1>4, LinkedEach DEF t

-----------------------------------------------------------------------------
(* What a step does to the history, to the summary and to the turn.        *)

\* m is the next message of the session.
Adds(m) == /\ m \in Message /\ m.n = last + 1 /\ last' = m.n /\ messages' = Append(messages, m)
           /\ UNCHANGED <<summary, file, crashes>>

\* It is one of the turn's prompt as well.
AddsBoth(m) == /\ Adds(m) /\ turn'.prompt.history = Append(turn.prompt.history, m)
               /\ turn'.prompt.summary = turn.prompt.summary

UserSays == \E m : /\ AddsBoth(m) /\ m.role = "user"
                   /\ turn.at = "read" /\ turn'.at = "think"

Calls == \E m : /\ AddsBoth(m) /\ m.role = "call" /\ m.count # 0
                /\ turn.at = "think" /\ turn'.at = "tools" /\ turn'.call = m.n /\ turn'.left = m.count

GetsResult == \E m : /\ AddsBoth(m) /\ m.role = "tool" /\ m.of = turn.call /\ m.count = last - turn.call + 1
                     /\ turn.at = "tools"
                     /\ turn.left = 1 => turn'.at = "think" /\ turn'.left = 0
                     /\ turn.left # 1 => /\ turn'.at = "tools" /\ turn'.call = turn.call
                                         /\ turn'.left = turn.left - 1

Answers == \E m : /\ Adds(m) /\ m.role = "assistant" /\ turn.at = "think"
                  /\ turn'.at = "save" /\ turn'.prompt.history = <<m>>

ReadsHistory == /\ turn.at = "idle" /\ turn'.at = "reading" /\ turn'.prompt.history = messages
                /\ UNCHANGED <<messages, summary, file, last, crashes>>

ReadsSummary == /\ turn.at = "reading" /\ turn'.at = "read" /\ turn'.prompt.summary = summary
                /\ turn'.prompt.history = turn.prompt.history
                /\ UNCHANGED <<messages, summary, file, last, crashes>>

\* The turn ends, or is no concern of the step; the file may be written.
Rests == /\ UNCHANGED <<messages, summary, last, crashes>> /\ file' \in {file, Torn, InMemory}
         /\ \/ UNCHANGED turn
            \/ /\ turn'.at \in {"idle", "save", "summarize"} /\ turn.at # "tools"
               /\ turn'.prompt.history \in {<<>>, turn.prompt.history}

Summarizes == /\ UNCHANGED <<messages, last, crashes, turn, file>> /\ summary' \subseteq Remembered

Cuts == /\ UNCHANGED <<summary, last, crashes, turn, file>> /\ messages' = Truncated(messages)

Restarts == /\ crashes' = crashes + 1 /\ turn' = IdleTurn /\ UNCHANGED <<file, last>>
            /\ messages' = <<>> \/ (file # Torn /\ messages' = file.messages)

\* The message that is added, whole.
LEMMA AddedMessage ==
  ASSUME Basics, NEW role \in Roles, NEW of \in 0 .. MaxMessages, NEW count \in 0 .. MaxTools,
         NEW next \in Turn, AddFullMessage(role, of, count, next)
  PROVE  \E m : /\ Adds(m) /\ m.role = role /\ m.of = of /\ m.count = count
                /\ turn'.prompt.history = Append(next.prompt.history, m)
                /\ turn'.prompt.summary = next.prompt.summary
                /\ turn'.at = next.at /\ turn'.call = next.call /\ turn'.left = next.left
<1>1. PICK big \in Oversized :
        LET m == [n |-> last', role |-> role, big |-> big, of |-> of, count |-> count]
        IN  /\ messages' = Append(messages, m)
            /\ turn' = [next EXCEPT !.prompt.history = Append(@, m)]
  BY DEF AddFullMessage
<1>. DEFINE m == [n |-> last', role |-> role, big |-> big, of |-> of, count |-> count]
<1>2. last < MaxMessages /\ last' = last + 1 /\ last \in Nat /\ UNCHANGED <<summary, file, crashes>>
  BY DEF AddFullMessage, Basics, TypeInv
<1>3. last' \in Numbers /\ big \in BOOLEAN
  BY <1>2 DEF Numbers
<1>4. m \in Message
  BY <1>3 DEF Message
<1>5. m.n = last' /\ m.role = role /\ m.of = of /\ m.count = count
  OBVIOUS
<1>6. messages' = Append(messages, m) /\ turn' = [next EXCEPT !.prompt.history = Append(@, m)]
  BY <1>1
<1>. HIDE DEF m
<1>7. next.prompt \in [history : History, summary : SUBSET Numbers]
  BY DEF Turn
<1>8. /\ turn'.prompt = [next.prompt EXCEPT !.history = Append(@, m)]
      /\ turn'.at = next.at /\ turn'.call = next.call /\ turn'.left = next.left
  BY <1>6 DEF Turn
<1>9. turn'.prompt.history = Append(next.prompt.history, m) /\ turn'.prompt.summary = next.prompt.summary
  BY <1>7, <1>8
<1>10. Adds(m)
  BY <1>2, <1>4, <1>5, <1>6 DEF Adds
<1>. QED
  BY <1>5, <1>8, <1>9, <1>10

LEMMA Effects ==
  ASSUME IInv, [Next]_vars
  PROVE  \/ UserSays
         \/ Calls
         \/ GetsResult
         \/ Answers
         \/ ReadsHistory
         \/ ReadsSummary
         \/ Rests
         \/ Summarizes
         \/ Cuts
         \/ Restarts
<1>0. /\ Basics /\ turn \in Turn /\ turn.prompt \in [history : History, summary : SUBSET Numbers]
      /\ last \in 0 .. MaxMessages /\ job \in [Summarizers -> Job]
  BY DEF IInv, Basics, TypeInv, Turn
<1>1. CASE BuildMessages
  <2>1. CASE turn.at = "idle" /\ ReadHistory
    <3>1. turn'.prompt.history = messages /\ turn'.at = "reading"
      BY <1>0, <2>1 DEF ReadHistory, Turn
    <3>2. ReadsHistory
      BY <1>1, <2>1, <3>1 DEF ReadsHistory, BuildMessages, session
    <3>. QED
      BY <3>2
  <2>2. CASE turn.at = "reading" /\ ReadSummary
    <3>1. /\ turn'.prompt.summary = summary /\ turn'.at = "read"
          /\ turn'.prompt.history = turn.prompt.history
      BY <1>0, <2>2 DEF ReadSummary, Turn
    <3>2. ReadsSummary
      BY <1>1, <2>2, <3>1 DEF ReadsSummary, BuildMessages, session
    <3>. QED
      BY <3>2
  <2>. QED
    BY <1>1, <2>1, <2>2 DEF BuildMessages
<1>2. CASE AddUserMessage
  <2>. DEFINE next == [turn EXCEPT !.at = "think"]
  <2>1. next \in Turn /\ next.prompt = turn.prompt /\ next.at = "think"
    BY <1>0 DEF Turn
  <2>2. turn.at = "read" /\ AddFullMessage("user", 0, 0, next) /\ "user" \in Roles
    BY <1>2 DEF AddUserMessage, Roles
  <2>. HIDE DEF next
  <2>a. 0 \in 0 .. MaxMessages /\ 0 \in 0 .. MaxTools /\ Basics
    BY <1>0
  <2>3. PICK m : /\ Adds(m) /\ m.role = "user" /\ turn'.at = next.at
                 /\ turn'.prompt.history = Append(next.prompt.history, m)
                 /\ turn'.prompt.summary = next.prompt.summary
    <3>1. \E m : /\ Adds(m) /\ m.role = "user" /\ m.of = 0 /\ m.count = 0
                 /\ turn'.prompt.history = Append(next.prompt.history, m)
                 /\ turn'.prompt.summary = next.prompt.summary
                 /\ turn'.at = next.at /\ turn'.call = next.call /\ turn'.left = next.left
      BY <2>1, <2>2, <2>a, AddedMessage
    <3>. QED
      BY <3>1
  <2>4. AddsBoth(m)
    BY <2>1, <2>3 DEF AddsBoth
  <2>5. UserSays
    BY <2>1, <2>2, <2>3, <2>4 DEF UserSays
  <2>. QED
    BY <2>5
<1>3. ASSUME NEW count \in 1 .. MaxTools, CallTools(count) PROVE Calls
  <2>. DEFINE next == [turn EXCEPT !.at = "tools", !.call = last + 1, !.left = count]
  <2>0. turn.at = "think" /\ last < MaxMessages /\ last + 1 \in 0 .. MaxMessages /\ count \in 0 .. MaxTools
    BY <1>0, <1>3 DEF CallTools, AddFullMessage
  <2>1. /\ next \in Turn /\ next.prompt = turn.prompt /\ next.at = "tools"
        /\ next.call = last + 1 /\ next.left = count
    BY <1>0, <2>0 DEF Turn
  <2>2. /\ AddFullMessage("call", 0, count, next) /\ "call" \in Roles
        /\ 0 \in 0 .. MaxMessages /\ count \in 0 .. MaxTools /\ Basics
    BY <1>0, <1>3, <2>0 DEF CallTools, Roles
  <2>. HIDE DEF next
  <2>3. PICK m : /\ Adds(m) /\ m.role = "call" /\ m.count = count
                 /\ turn'.prompt.history = Append(next.prompt.history, m)
                 /\ turn'.prompt.summary = next.prompt.summary
                 /\ turn'.at = next.at /\ turn'.call = next.call /\ turn'.left = next.left
    <3>1. \E m : /\ Adds(m) /\ m.role = "call" /\ m.of = 0 /\ m.count = count
                 /\ turn'.prompt.history = Append(next.prompt.history, m)
                 /\ turn'.prompt.summary = next.prompt.summary
                 /\ turn'.at = next.at /\ turn'.call = next.call /\ turn'.left = next.left
      BY <2>1, <2>2, AddedMessage
    <3>. QED
      BY <3>1
  <2>4. AddsBoth(m) /\ m.n = last + 1 /\ m.count # 0
    BY <2>1, <2>3 DEF AddsBoth, Adds
  <2>. QED
    BY <2>0, <2>1, <2>3, <2>4 DEF Calls
<1>4. CASE AddToolResult
  <2>. DEFINE next == IF turn.left = 1
                      THEN [turn EXCEPT !.at = "think", !.call = 0, !.left = 0]
                      ELSE [turn EXCEPT !.left = @ - 1]
  <2>0. /\ turn.at = "tools" /\ turn.call \in 1 .. last /\ turn.left \in 1 .. MaxTools
        /\ last - turn.call + turn.left =< MaxTools
    BY <1>0, <1>4 DEF AddToolResult, IInv, ToolsInv, Turn
  <2>1. /\ next \in Turn /\ next.prompt = turn.prompt
        /\ turn.left = 1 => next.at = "think" /\ next.left = 0
        /\ turn.left # 1 => next.at = "tools" /\ next.call = turn.call /\ next.left = turn.left - 1
    <3>1. CASE turn.left = 1
      <4>1. next = [turn EXCEPT !.at = "think", !.call = 0, !.left = 0] /\ 0 \in 0 .. MaxMessages /\ 0 \in 0 .. MaxTools
        BY <3>1
      <4>. QED
        BY <1>0, <3>1, <4>1 DEF Turn
    <3>2. CASE turn.left # 1
      <4>1. turn.left - 1 \in 0 .. MaxTools /\ next = [turn EXCEPT !.left = @ - 1]
        BY <2>0, <3>2
      <4>. QED
        BY <1>0, <2>0, <3>2, <4>1 DEF Turn
    <3>. QED
      BY <3>1, <3>2
  <2>. DEFINE of == turn.call
              count == last - turn.call + 1
  <2>2. AddFullMessage("tool", of, count, next) /\ "tool" \in Roles /\ Basics
    BY <1>0, <1>4 DEF AddToolResult, Roles
  <2>3. of \in 0 .. MaxMessages /\ count \in 0 .. MaxTools
    BY <1>0, <2>0 DEF Turn
  <2>. HIDE DEF next, of, count
  <2>4. next \in Turn
    BY <2>1
  <2>5. PICK m : /\ Adds(m) /\ m.role = "tool" /\ m.of = of /\ m.count = count
                 /\ turn'.prompt.history = Append(next.prompt.history, m)
                 /\ turn'.prompt.summary = next.prompt.summary
                 /\ turn'.at = next.at /\ turn'.call = next.call /\ turn'.left = next.left
    BY <2>2, <2>3, <2>4, AddedMessage, SMTT(30)
  <2>6. GetsResult
    BY <2>0, <2>1, <2>5 DEF GetsResult, AddsBoth, of, count
  <2>. QED
    BY <2>6
<1>5. CASE Fail
  <2>1. Rests
    BY <1>5, IdleTurnType DEF Fail, EndTurn, Rests, session, IdleTurn, NoPrompt
  <2>. QED
    BY <2>1
<1>6. CASE Answer
  <2>. DEFINE next == [IdleTurn EXCEPT !.at = "save"]
  <2>1. next \in Turn /\ next.prompt.history = <<>> /\ next.at = "save"
    BY IdleTurnType DEF IdleTurn, NoPrompt
  <2>2. turn.at = "think" /\ AddFullMessage("assistant", 0, 0, next) /\ "assistant" \in Roles
    BY <1>6 DEF Answer, Roles
  <2>. HIDE DEF next
  <2>3. PICK m : /\ Adds(m) /\ m.role = "assistant" /\ turn'.at = "save"
                 /\ turn'.prompt.history = Append(<<>>, m)
    BY <1>0, <2>1, <2>2, AddedMessage
  <2>4. Append(<<>>, m) = <<m>>
    OBVIOUS
  <2>5. Answers
    BY <2>2, <2>3, <2>4 DEF Answers
  <2>. QED
    BY <2>5
<1>7. CASE SaveTurn
  <2>1. turn.at = "save" /\ UNCHANGED <<messages, summary, last, crashes>> /\ file' \in {file, Torn, InMemory}
    BY <1>7 DEF SaveTurn, Save, session
  <2>2. turn'.at \in {"idle", "summarize"} /\ turn'.prompt.history \in {<<>>, turn.prompt.history}
    <3>1. CASE turn' = [turn EXCEPT !.at = "summarize"]
      BY <1>0, <3>1 DEF Turn
    <3>2. CASE EndTurn
      BY <3>2 DEF EndTurn, IdleTurn, NoPrompt
    <3>. QED
      BY <1>7, <3>1, <3>2 DEF SaveTurn
  <2>3. Rests
    BY <2>1, <2>2 DEF Rests
  <2>. QED
    BY <2>3
<1>8. CASE MaybeSummarize
  <2>1. Rests
    BY <1>8 DEF MaybeSummarize, EndTurn, Rests, session, IdleTurn, NoPrompt
  <2>. QED
    BY <2>1
<1>9. ASSUME NEW g \in Summarizers, TakeHistory(g) \/ Summarize(g) \/ SaveSummary(g) PROVE Rests
  BY <1>9 DEF TakeHistory, Summarize, SaveSummary, Save, Elsewhere, session, Rests
<1>10. ASSUME NEW g \in Summarizers, SetSummary(g) PROVE Summarizes
  <2>1. job[g].new \subseteq Remembered
    BY <1>10 DEF SetSummary, IInv, JobInv
  <2>. QED
    BY <1>10, <2>1 DEF SetSummary, Elsewhere, Summarizes
<1>11. ASSUME NEW g \in Summarizers, TruncateHistory(g) PROVE Cuts
  BY <1>11 DEF TruncateHistory, Elsewhere, Cuts
<1>12. CASE Restart
  <2>1. Restarts
    BY <1>0, <1>12, RestartLoads DEF Restart, Restarts
  <2>. QED
    BY <2>1
<1>13. CASE UNCHANGED vars
  <2>1. Rests
    BY <1>13 DEF vars, session, Rests
  <2>. QED
    BY <2>1
<1>. QED
  BY <1>1, <1>2, <1>3, <1>4, <1>5, <1>6, <1>7, <1>8, <1>9, <1>10, <1>11, <1>12, <1>13 DEF Next

-----------------------------------------------------------------------------
(* The invariant of the requests.                                          *)

LEMMA AppendCounted ==
  ASSUME NEW h \in History, NEW m \in Message, Counted(h), m.role = "call" => m.count # 0
  PROVE  Counted(Append(h, m))
<1>1. /\ DOMAIN h = 1 .. Len(h) /\ Len(h) \in Nat /\ DOMAIN Append(h, m) = 1 .. Len(h) + 1
      /\ (\A i \in 1 .. Len(h) : Append(h, m)[i] = h[i]) /\ Append(h, m)[Len(h) + 1] = m
  BY Appends
<1>2. \A i \in 1 .. Len(h) + 1 : i \in 1 .. Len(h) \/ i = Len(h) + 1
  BY <1>1
<1>. QED
  BY <1>1, <1>2 DEF Counted

LEMMA TruncatedCounted ==
  ASSUME NEW s \in History, Counted(s)
  PROVE  Counted(Truncated(s))
<1>1. PICK d \in Nat :
        /\ Len(s) \in Nat /\ DOMAIN s = 1 .. Len(s)
        /\ Len(Truncated(s)) \in Nat /\ DOMAIN Truncated(s) = 1 .. Len(Truncated(s))
        /\ Len(s) = Len(Truncated(s)) + d
        /\ \A i \in 1 .. Len(Truncated(s)) : Truncated(s)[i] = s[d + i]
  BY Truncates
<1>2. \A i \in 1 .. Len(Truncated(s)) : d + i \in DOMAIN s
  BY <1>1
<1>. QED
  BY <1>1, <1>2 DEF Counted

\* What is known of histories and of the message that is added.
LEMMA Known ==
  ASSUME IInv
  PROVE  /\ messages \in History /\ turn \in Turn /\ turn.prompt.history \in History
         /\ turn.prompt \in [history : History, summary : SUBSET Numbers]
         /\ last \in Nat /\ turn.left \in Nat /\ turn.call \in Nat
         /\ Told(messages) \subseteq 1 .. last /\ Told(turn.prompt.history) \subseteq 1 .. last
         /\ turn.at \in {"idle", "reading", "read", "think", "tools", "save", "summarize"}
BY DEF IInv, TypeInv, NumbersInv, Turn

LEMMA AddsTold ==
  ASSUME IInv, NEW m, Adds(m)
  PROVE  /\ m \in Message /\ Told(messages') = Told(messages) \cup {m.n}
         /\ AddsBoth(m) => Told(turn'.prompt.history) = Told(turn.prompt.history) \cup {m.n}
<1>1. m \in Message /\ m.n = last + 1 /\ last \in Nat
  BY Known DEF Adds
<1>2. 1 .. m.n - 1 = 1 .. last
  BY <1>1
<1>3. messages' = Append(messages, m)
  BY DEF Adds
<1>4. Told(messages') = Told(messages) \cup {m.n}
  BY <1>1, <1>2, <1>3, Known, AppendHistory
<1>5. ASSUME AddsBoth(m) PROVE Told(turn'.prompt.history) = Told(turn.prompt.history) \cup {m.n}
  <2>1. turn'.prompt.history = Append(turn.prompt.history, m)
    BY <1>5 DEF AddsBoth
  <2>. QED
    BY <1>1, <1>2, <2>1, Known, AppendHistory
<1>. QED
  BY <1>1, <1>4, <1>5

LEMMA CountInvStep == IInv /\ CountInv /\ [Next]_vars => CountInv'
<1>. SUFFICES ASSUME IInv, CountInv, [Next]_vars PROVE CountInv'
  OBVIOUS
<1>0. Counted(messages) /\ Counted(turn.prompt.history) /\ (file # Torn => Counted(file.messages))
  BY DEF CountInv
<1>1. Counted(<<>>)
  BY DEF Counted
<1>2. ASSUME NEW m, AddsBoth(m), m.role = "call" => m.count # 0 PROVE CountInv'
  <2>1. /\ m \in Message /\ messages' = Append(messages, m) /\ file' = file
        /\ turn'.prompt.history = Append(turn.prompt.history, m)
    BY <1>2 DEF AddsBoth, Adds
  <2>2. Counted(messages') /\ Counted(turn'.prompt.history)
    BY <1>0, <1>2, <2>1, Known, AppendCounted
  <2>. QED
    BY <1>0, <2>1, <2>2 DEF CountInv
<1>3. CASE UserSays \/ Calls \/ GetsResult
  BY <1>2, <1>3 DEF UserSays, Calls, GetsResult
<1>4. CASE Answers
  <2>1. PICK m : Adds(m) /\ m.role = "assistant" /\ turn'.prompt.history = <<m>>
    BY <1>4 DEF Answers
  <2>2. m \in Message /\ messages' = Append(messages, m) /\ file' = file
    BY <2>1 DEF Adds
  <2>3. Counted(messages')
    BY <1>0, <2>1, <2>2, Known, AppendCounted
  <2>4. Counted(<<m>>)
    BY <2>1 DEF Counted
  <2>. QED
    BY <1>0, <2>1, <2>2, <2>3, <2>4 DEF CountInv
<1>5. CASE ReadsHistory \/ ReadsSummary \/ Summarizes
  BY <1>0, <1>5 DEF ReadsHistory, ReadsSummary, Summarizes, CountInv
<1>6. CASE Rests
  <2>1. Counted(turn'.prompt.history) /\ messages' = messages
    BY <1>0, <1>1, <1>6 DEF Rests
  <2>2. file' # Torn => Counted(file'.messages)
    BY <1>0, <1>6 DEF Rests, InMemory
  <2>. QED
    BY <1>0, <2>1, <2>2 DEF CountInv
<1>7. CASE Cuts
  <2>1. Counted(messages')
    BY <1>0, <1>7, Known, TruncatedCounted DEF Cuts
  <2>. QED
    BY <1>0, <1>7, <2>1 DEF Cuts, CountInv
<1>8. CASE Restarts
  <2>1. turn'.prompt.history = <<>> /\ file' = file
    BY <1>8 DEF Restarts, IdleTurn, NoPrompt
  <2>2. Counted(messages')
    BY <1>0, <1>1, <1>8 DEF Restarts
  <2>. QED
    BY <1>0, <1>1, <2>1, <2>2 DEF CountInv
<1>. QED
  BY <1>3, <1>4, <1>5, <1>6, <1>7, <1>8, Effects

LEMMA CoverInvStep == IInv /\ CoverInv /\ [Next]_vars => CoverInv'
<1>. SUFFICES ASSUME IInv, CoverInv, [Next]_vars PROVE CoverInv'
  OBVIOUS
<1>1. ASSUME NEW m, AddsBoth(m), turn.at \in {"read", "think", "tools"}, turn'.at \in {"think", "tools"}
      PROVE  CoverInv'
  <2>1. /\ Told(messages') = Told(messages) \cup {m.n}
        /\ Told(turn'.prompt.history) = Told(turn.prompt.history) \cup {m.n}
    BY <1>1, AddsTold DEF AddsBoth
  <2>2. summary' = summary /\ turn'.prompt.summary = turn.prompt.summary
    BY <1>1 DEF AddsBoth, Adds
  <2>3. Told(messages) \cup summary \subseteq Told(turn.prompt.history) \cup turn.prompt.summary
    BY <1>1 DEF CoverInv, Remembered
  <2>. QED
    BY <1>1, <2>1, <2>2, <2>3 DEF CoverInv, Remembered
<1>2. CASE UserSays
  BY <1>1, <1>2 DEF UserSays
<1>3. CASE Calls
  BY <1>1, <1>3 DEF Calls
<1>4. CASE GetsResult
  <2>1. PICK m : AddsBoth(m) /\ turn.at = "tools" /\ turn'.at \in {"think", "tools"}
    BY <1>4 DEF GetsResult
  <2>. QED
    BY <1>1, <2>1
<1>5. CASE Answers
  BY <1>5 DEF Answers, CoverInv
<1>6. CASE ReadsHistory
  BY <1>6 DEF ReadsHistory, CoverInv
<1>7. CASE ReadsSummary
  BY <1>7 DEF ReadsSummary, CoverInv, Remembered
<1>8. CASE Rests
  BY <1>8 DEF Rests, CoverInv, Remembered
<1>9. CASE Summarizes
  BY <1>9 DEF Summarizes, CoverInv, Remembered
<1>10. CASE Cuts
  <2>1. Told(messages') \subseteq Told(messages)
    BY <1>10, Known, TruncatedHistory DEF Cuts
  <2>. QED
    BY <1>10, <2>1 DEF Cuts, CoverInv, Remembered
<1>11. CASE Restarts
  BY <1>11 DEF Restarts, IdleTurn, CoverInv
<1>. QED
  BY <1>2, <1>3, <1>4, <1>5, <1>6, <1>7, <1>8, <1>9, <1>10, <1>11, Effects

\* Results are counted only for a call that is awaited.
LEMMA LinkedUnawaited ==
  ASSUME NEW h \in History, NEW l, NEW r, NEW q, Linked(h, l, 0, r)
  PROVE  Linked(h, l, 0, q)
<1>1. \A i \in DOMAIN h : h[i].n # 0 /\ LinkedAt(h, l, 0, r, i)
  BY HistoryIsSeq, MessageFields, LinkedEach
<1>2. \A i \in DOMAIN h : LinkedAt(h, l, 0, q, i)
  BY <1>1 DEF LinkedAt
<1>. QED
  BY <1>2, LinkedEach

\* What LinkInv says of one history, before and after a step.
LinkedNow(h)  == /\ Linked(h, last, Awaited, turn.left)
                 /\ turn.at = "tools" => Pending(h, last, turn.call)
LinkedNext(h) == /\ Linked(h, last', Awaited', turn'.left)
                 /\ turn'.at = "tools" => Pending(h, last', turn'.call)

LEMMA LinkInvParts ==
  /\ LinkInv => (crashes = 0 =>
       /\ LinkedNow(messages)
       /\ turn.at \in {"reading", "read", "think", "tools"} => LinkedNow(turn.prompt.history))
  /\ LinkInv' <=> (crashes' = 0 =>
       /\ LinkedNext(messages')
       /\ turn'.at \in {"reading", "read", "think", "tools"} => LinkedNext(turn'.prompt.history))
BY DEF LinkInv, LinkedNow, LinkedNext

\* A message that is added keeps a history linked.
LEMMA AddsLinked ==
  ASSUME IInv, NEW m \in Message, NEW h \in History, LinkedNow(h), m.n = last + 1, last' = m.n,
         \/ m.role \in {"user", "assistant"} /\ turn.at # "tools" /\ turn'.at # "tools"
         \/ /\ m.role = "call" /\ turn.at # "tools" /\ turn'.at = "tools"
            /\ turn'.call = m.n /\ turn'.left = m.count
         \/ /\ m.role = "tool" /\ turn.at = "tools" /\ m.of = turn.call /\ m.count = last - turn.call + 1
            /\ turn.left = 1 => turn'.at = "think" /\ turn'.left = 0
            /\ turn.left # 1 => /\ turn'.at = "tools" /\ turn'.call = turn.call
                                /\ turn'.left = turn.left - 1
  PROVE  LinkedNext(Append(h, m))
<1>0. last \in Nat /\ turn.left \in Nat /\ m.count \in Nat /\ m.n # 0
  BY Known, MessageFields
<1>1. CASE m.role # "tool"
  <2>1. turn.at # "tools" /\ Awaited = 0
    BY <1>1 DEF Awaited
  <2>2. Linked(h, last, 0, turn.left)
    BY <2>1 DEF LinkedNow
  <2>. DEFINE w == IF m.role = "call" THEN m.n ELSE 0
  <2>3. /\ Linked(Append(h, m), last + 1, w, m.count)
        /\ m.role = "call" => Pending(Append(h, m), last + 1, m.n)
    BY <1>0, <1>1, <2>2, AppendLinked
  <2>4. CASE m.role = "call"
    <3>1. Awaited' = m.n /\ w = m.n /\ last' = last + 1
      BY <2>4 DEF Awaited
    <3>2. Linked(Append(h, m), last', Awaited', turn'.left) /\ Pending(Append(h, m), last', turn'.call)
      BY <2>3, <2>4, <3>1
    <3>. QED
      BY <3>2 DEF LinkedNext
  <2>5. CASE m.role # "call"
    <3>1. Awaited' = 0 /\ w = 0 /\ turn'.at # "tools" /\ last' = last + 1
      BY <1>1, <2>5 DEF Awaited
    <3>2. Append(h, m) \in Seq(Message) /\ \A i \in DOMAIN Append(h, m) : Append(h, m)[i] \in Message
      <4>1. Append(h, m) \in Seq(Message)
        BY HistoryIsSeq, AppendProperties
      <4>. QED
        BY <4>1, LenProperties, ElementOfSeq
    <3>3. Linked(Append(h, m), last', 0, turn'.left)
      <4>1. \A i \in DOMAIN Append(h, m) : Append(h, m)[i].n # 0 /\ LinkedAt(Append(h, m), last', 0, m.count, i)
        BY <2>3, <3>1, <3>2, MessageFields, LinkedEach
      <4>2. \A i \in DOMAIN Append(h, m) : LinkedAt(Append(h, m), last', 0, turn'.left, i)
        BY <4>1 DEF LinkedAt
      <4>. QED
        BY <4>2, LinkedEach
    <3>. QED
      BY <3>1, <3>3 DEF LinkedNext
  <2>. QED
    BY <2>4, <2>5
<1>2. CASE m.role = "tool"
  <2>1. /\ turn.at = "tools" /\ m.of = turn.call /\ m.count = last - turn.call + 1
        /\ turn.left = 1 => turn'.at = "think" /\ turn'.left = 0
        /\ turn.left # 1 => /\ turn'.at = "tools" /\ turn'.call = turn.call
                            /\ turn'.left = turn.left - 1
    BY <1>2
  <2>2. turn.call \in 1 .. last /\ turn.left \in Nat \ {0} /\ Awaited = turn.call
    BY <1>0, <2>1 DEF IInv, ToolsInv, Awaited
  <2>3. Linked(h, last, turn.call, turn.left) /\ Pending(h, last, turn.call)
    BY <2>1, <2>2 DEF LinkedNow
  <2>. DEFINE v == IF turn.left = 1 THEN 0 ELSE turn.call
  <2>4. Linked(Append(h, m), last + 1, v, turn.left - 1) /\ Pending(Append(h, m), last + 1, turn.call)
    BY <1>0, <1>2, <2>1, <2>2, <2>3, AppendResultLinked
  <2>5. last' = last + 1 /\ Awaited' = v /\ turn'.left = turn.left - 1
        /\ (turn'.at = "tools" => turn'.call = turn.call)
    BY <2>1 DEF Awaited
  <2>. HIDE DEF v
  <2>6. Linked(Append(h, m), last', Awaited', turn'.left)
        /\ (turn'.at = "tools" => Pending(Append(h, m), last', turn'.call))
    BY <2>4, <2>5
  <2>. QED
    BY <2>6 DEF LinkedNext
<1>. QED
  BY <1>1, <1>2

LEMMA LinkInvStep == IInv /\ LinkInv /\ [Next]_vars => LinkInv'
<1>. SUFFICES ASSUME IInv, LinkInv, [Next]_vars, crashes' = 0
              PROVE  /\ LinkedNext(messages')
                     /\ turn'.at \in {"reading", "read", "think", "tools"} => LinkedNext(turn'.prompt.history)
  BY LinkInvParts
<1>0. crashes \in Nat
  BY DEF IInv, TypeInv
<1>. DEFINE h == turn.prompt.history
<1>1. CASE crashes = 0
  <2>0. /\ LinkedNow(messages)
        /\ turn.at \in {"reading", "read", "think", "tools"} => LinkedNow(h)
        /\ messages \in History /\ h \in History
    BY <1>1, LinkInvParts, Known
  <2>1. ASSUME NEW m, AddsBoth(m), turn.at \in {"read", "think", "tools"},
               \/ m.role \in {"user", "assistant"} /\ turn.at # "tools" /\ turn'.at # "tools"
               \/ /\ m.role = "call" /\ turn.at # "tools" /\ turn'.at = "tools"
                  /\ turn'.call = m.n /\ turn'.left = m.count
               \/ /\ m.role = "tool" /\ turn.at = "tools" /\ m.of = turn.call /\ m.count = last - turn.call + 1
                  /\ turn.left = 1 => turn'.at = "think" /\ turn'.left = 0
                  /\ turn.left # 1 => /\ turn'.at = "tools" /\ turn'.call = turn.call
                                      /\ turn'.left = turn.left - 1
        PROVE  LinkedNext(messages') /\ LinkedNext(turn'.prompt.history)
    <3>1. /\ m \in Message /\ m.n = last + 1 /\ last' = m.n /\ messages' = Append(messages, m)
          /\ turn'.prompt.history = Append(h, m)
      BY <2>1 DEF AddsBoth, Adds
    <3>2. LinkedNow(messages) /\ LinkedNow(h)
      BY <2>0, <2>1
    <3>. HIDE DEF h
    <3>3. LinkedNext(Append(messages, m))
      BY <2>0, <2>1, <3>1, <3>2, AddsLinked
    <3>4. LinkedNext(Append(h, m))
      BY <2>0, <2>1, <3>1, <3>2, AddsLinked
    <3>. QED
      BY <3>1, <3>3, <3>4
  <2>2. CASE UserSays
    BY <2>1, <2>2 DEF UserSays
  <2>3. CASE Calls
    BY <2>1, <2>3 DEF Calls
  <2>4. CASE GetsResult
    BY <2>1, <2>4 DEF GetsResult
  <2>5. CASE Answers
    <3>1. PICK m : Adds(m) /\ m.role = "assistant" /\ turn.at = "think" /\ turn'.at = "save"
      BY <2>5 DEF Answers
    <3>2. m \in Message /\ m.n = last + 1 /\ last' = m.n /\ messages' = Append(messages, m)
      BY <3>1 DEF Adds
    <3>3. LinkedNext(Append(messages, m))
      BY <2>0, <3>1, <3>2, AddsLinked
    <3>. QED
      BY <3>1, <3>2, <3>3
  <2>6. ASSUME NEW s \in History, LinkedNow(s), turn.at # "tools", turn'.at # "tools", last' = last
        PROVE  LinkedNext(s)
    <3>1. Linked(s, last, 0, turn.left) /\ Awaited' = 0
      BY <2>6 DEF LinkedNow, Awaited
    <3>2. Linked(s, last, 0, turn'.left)
      BY <3>1, LinkedUnawaited
    <3>. QED
      BY <2>6, <3>1, <3>2 DEF LinkedNext
  <2>7. ASSUME NEW s, LinkedNow(s), UNCHANGED <<turn, last>>
        PROVE  LinkedNext(s)
    BY <2>7 DEF LinkedNow, LinkedNext, Awaited
  <2>8. CASE ReadsHistory
    BY <2>0, <2>6, <2>8 DEF ReadsHistory
  <2>9. CASE ReadsSummary
    BY <2>0, <2>6, <2>9 DEF ReadsSummary
  <2>10. CASE Rests
    <3>1. CASE UNCHANGED turn
      BY <2>0, <2>7, <2>10, <3>1 DEF Rests
    <3>2. CASE turn'.at \in {"idle", "save", "summarize"} /\ turn.at # "tools"
      BY <2>0, <2>6, <2>10, <3>2 DEF Rests
    <3>. QED
      BY <2>10, <3>1, <3>2 DEF Rests
  <2>11. CASE Summarizes
    BY <2>0, <2>7, <2>11 DEF Summarizes
  <2>12. CASE Cuts
    <3>1. messages' = Truncated(messages) /\ UNCHANGED <<turn, last>>
      BY <2>12 DEF Cuts
    <3>2. LinkedNow(Truncated(messages))
      <4>1. Linked(messages, last, Awaited, turn.left) /\ Awaited \in Nat
        BY <2>0, Known DEF LinkedNow, Awaited
      <4>2. /\ Linked(Truncated(messages), last, Awaited, turn.left)
            /\ Awaited \in 1 .. last /\ Pending(messages, last, Awaited) => Pending(Truncated(messages), last, Awaited)
        BY <2>0, <4>1, Known, TruncatedLinked
      <4>3. turn.at = "tools" => Awaited = turn.call /\ turn.call \in 1 .. last /\ Pending(messages, last, turn.call)
        BY <2>0 DEF LinkedNow, Awaited, IInv, ToolsInv
      <4>. QED
        BY <4>2, <4>3 DEF LinkedNow
    <3>. QED
      BY <2>0, <2>7, <3>1, <3>2
  <2>13. CASE Restarts
    BY <1>0, <1>1, <2>13 DEF Restarts
  <2>. QED
    BY <2>2, <2>3, <2>4, <2>5, <2>8, <2>9, <2>10, <2>11, <2>12, <2>13, Effects
<1>2. CASE crashes # 0
  <2>1. crashes' = crashes \/ crashes' = crashes + 1
    BY Effects DEF UserSays, Calls, GetsResult, Answers, ReadsHistory, ReadsSummary, Rests, Summarizes,
                   Cuts, Restarts, AddsBoth, Adds
  <2>. QED
    BY <1>0, <1>2, <2>1
<1>. QED
  BY <1>1, <1>2

LEMMA PInvInit == Init => PInv
<1>. SUFFICES ASSUME Init PROVE PInv
  OBVIOUS
<1>1. /\ messages = <<>> /\ turn.prompt.history = <<>> /\ turn.at = "idle"
      /\ file.messages = <<>>
  BY DEF Init, IdleTurn, NoPrompt
<1>2. CountInv
  BY <1>1 DEF CountInv, Counted
<1>3. CoverInv
  BY <1>1 DEF CoverInv
<1>4. LinkInv
  BY <1>1 DEF LinkInv, Linked
<1>. QED
  BY <1>2, <1>3, <1>4 DEF PInv

LEMMA PInvHolds == Spec => [](IInv /\ PInv)
<1>1. IInv /\ PInv /\ [Next]_vars => PInv'
  BY CountInvStep, CoverInvStep, LinkInvStep DEF PInv
<1>. QED
  BY <1>1, PInvInit, InitInv, StepInv, PTL DEF Spec

-----------------------------------------------------------------------------
(* The theorems.                                                           *)

\* runAgentLoop reads the history and then the summary (loop.go), each with a lock
\* of its own, and summarizeSession writes the summary before it cuts the history:
\* so no provider's request misses anything that the session remembers, nor changes
\* its order, whatever a summarizer does between the two reads and afterwards.
THEOREM RequestsCoverSession == Spec => []PromptCoversSession
<1>1. IInv /\ PInv => PromptCoversSession
  <2>. SUFFICES ASSUME IInv, PInv, turn.at = "think", NEW kind \in Kinds, NEW form \in PlainForms
                PROVE  RequestCovers(Request(kind, turn.prompt, form))
    BY DEF PromptCoversSession
  <2>. DEFINE r == Request(kind, turn.prompt, form)
              h == turn.prompt.history
  <2>1. r.system = turn.prompt.summary /\ \E off : Arranged(r.items, h, off, Texts(form))
    BY Known, RequestArranged
  <2>2. h \in History /\ Counted(h) /\ Remembered \subseteq Told(h) \cup turn.prompt.summary
    BY Known DEF PInv, CountInv, CoverInv
  <2>3. Texts(form) \in Nat
    BY DEF Texts
  <2>. HIDE DEF r, h
  <2>4. /\ Told(h) \subseteq {r.items[i].n : i \in DOMAIN r.items}
        /\ \A i, j \in DOMAIN r.items : i < j => r.items[i].n =< r.items[j].n
    BY <2>1, <2>2, <2>3, ArrangedCovers
  <2>5. RequestCovers(r)
    BY <2>1, <2>2, <2>4 DEF RequestCovers
  <2>. QED
    BY <2>5 DEF r
<1>. QED
  BY <1>1, PInvHolds, PTL

\* An item comes of a message, and items keep the order of their messages.
LEMMA ItemAt ==
  ASSUME NEW items, NEW h \in History, NEW off, NEW t \in Nat, Arranged(items, h, off, t),
         NEW p \in DOMAIN items
  PROVE  \E b \in DOMAIN h : \E x \in 1 .. Size(h[b], t) : p = off[b] + x /\ ItemIs(items[p], h[b], x, t)
<1>1. PICK b \in DOMAIN h : \E x \in 1 .. Size(h[b], t) : p = off[b] + x
  BY DEF Arranged
<1>2. PICK x \in 1 .. Size(h[b], t) : p = off[b] + x
  BY <1>1
<1>3. ItemIs(items[off[b] + x], h[b], x, t)
  BY DEF Arranged
<1>. QED
  BY <1>2, <1>3

LEMMA ItemsInOrder ==
  ASSUME NEW items, NEW h \in History, NEW off, NEW t \in Nat, Arranged(items, h, off, t),
         NEW b \in DOMAIN h, NEW x \in 1 .. Size(h[b], t),
         NEW c \in DOMAIN h, NEW y \in 1 .. Size(h[c], t)
  PROVE  /\ b < c => off[b] + x < off[c] + y
         /\ off[b] + x =< off[c] + y => b =< c
<1>1. /\ off[b] \in Nat /\ off[c] \in Nat
      /\ b < c => off[b] + Size(h[b], t) =< off[c]
      /\ c < b => off[c] + Size(h[c], t) =< off[b]
  BY DEF Arranged
<1>2. Size(h[b], t) \in Nat /\ Size(h[c], t) \in Nat /\ b \in Nat /\ c \in Nat
  <2>1. h[b].count \in Nat /\ h[c].count \in Nat
    BY HistoryIsSeq, MessageFields
  <2>. QED
    BY <2>1, HistoryIsSeq DEF Size
<1>. QED
  BY <1>1, <1>2

\* Each call of linked messages has its result after it, with results and calls only
\* in between, and each result its call, unless it is cut off.
LEMMA ArrangedCalls ==
  ASSUME NEW items, NEW h \in History, NEW off, NEW t \in Nat, Arranged(items, h, off, t),
         NEW l \in Nat, NEW r, Linked(h, l, 0, r)
  PROVE  CallsHaveResults(items) /\ ResultsHaveCalls(items)
<1>1. Len(items) \in Nat /\ DOMAIN items = 1 .. Len(items)
  BY DEF Arranged
<1>2. Len(h) \in Nat /\ DOMAIN h = 1 .. Len(h)
  BY HistoryIsSeq
<1>3. \A b \in DOMAIN h : /\ h[b] \in Message /\ LinkedAt(h, l, 0, r, b)
                          /\ h[b].n \in Nat \ {0} /\ h[b].count \in Nat
                          /\ h[b].role \in {"user", "assistant", "call", "tool"}
  BY HistoryIsSeq, MessageFields, LinkedEach
<1>4. \A b \in DOMAIN h : \A x \in 1 .. Size(h[b], t) :
        off[b] \in Nat /\ off[b] + x \in DOMAIN items /\ ItemIs(items[off[b] + x], h[b], x, t)
  BY DEF Arranged
<1>5. ASSUME NEW i \in DOMAIN items, items[i].item = "call"
      PROVE  \E j \in i + 1 .. Len(items) :
               /\ items[j].item = "result" /\ items[j].id = items[i].id
               /\ \A z \in i .. j : items[z].item # "text"
  <2>1. PICK b \in DOMAIN h : \E x \in 1 .. Size(h[b], t) : i = off[b] + x /\ ItemIs(items[i], h[b], x, t)
    BY ItemAt
  <2>2. PICK x \in 1 .. Size(h[b], t) : i = off[b] + x /\ ItemIs(items[i], h[b], x, t)
    BY <2>1
  <2>3. h[b].role = "call" /\ x > t /\ items[i].id = <<h[b].n, x - t>>
    <3>1. h[b].role \in {"user", "assistant", "call", "tool"} /\ x \in Int
      BY <1>3
    <3>2. h[b].role = "call" /\ ~(x =< t)
      BY <1>5, <2>2, <3>1 DEF ItemIs
    <3>3. x > t
      BY <3>1, <3>2
    <3>. QED
      BY <2>2, <3>2, <3>3 DEF ItemIs
  <2>. DEFINE k == x - t
              c == b + k
              j == off[c] + 1
  <2>4. b + h[b].count =< Len(h)
    BY <1>3, <2>3 DEF LinkedAt
  <2>5. k \in 1 .. h[b].count /\ c \in DOMAIN h /\ b < c /\ b \in Nat
    <3>1. x =< t + h[b].count
      BY <1>3, <2>3 DEF Size
    <3>. QED
      BY <1>2, <1>3, <2>3, <2>4, <3>1
  <2>6. \A e \in DOMAIN h : b < e /\ e =< c => h[e].role = "tool" /\ h[e].of = h[b].n /\ h[e].count = e - b
    <3>. SUFFICES ASSUME NEW e \in DOMAIN h, b < e, e =< c
                  PROVE  h[e].role = "tool" /\ h[e].of = h[b].n /\ h[e].count = e - b
      OBVIOUS
    <3>1. e - b \in 1 .. h[b].count /\ b + (e - b) = e /\ b + (e - b) =< Len(h)
      BY <1>2, <1>3, <2>5
    <3>2. \A f \in 1 .. h[b].count : b + f =< Len(h) =>
            h[b + f].role = "tool" /\ h[b + f].of = h[b].n /\ h[b + f].count = f
      BY <1>3, <2>3 DEF LinkedAt
    <3>. QED
      BY <3>1, <3>2
  <2>7. h[c].role = "tool" /\ h[c].of = h[b].n /\ h[c].count = k
    BY <1>2, <2>5, <2>6
  <2>8. 1 \in 1 .. Size(h[c], t)
    BY <2>7 DEF Size
  <2>. HIDE DEF c, k
  <2>9. j \in DOMAIN items /\ items[j].item = "result" /\ items[j].id = <<h[b].n, k>>
    BY <1>4, <2>5, <2>7, <2>8 DEF ItemIs
  <2>10. i < j
    BY <2>2, <2>5, <2>8, ItemsInOrder
  <2>11. ASSUME NEW z \in i .. j PROVE items[z].item # "text"
    <3>1. z \in DOMAIN items
      BY <1>1, <2>9
    <3>2. PICK e \in DOMAIN h : \E y \in 1 .. Size(h[e], t) : z = off[e] + y /\ ItemIs(items[z], h[e], y, t)
      BY <3>1, ItemAt
    <3>3. PICK y \in 1 .. Size(h[e], t) : z = off[e] + y /\ ItemIs(items[z], h[e], y, t)
      BY <3>2
    <3>4. b =< e
      <4>1. off[b] + x =< off[e] + y
        BY <2>2, <3>3
      <4>. QED
        BY <4>1, ItemsInOrder
    <3>5. e =< c
      <4>1. off[e] + y =< off[c] + 1
        BY <3>3
      <4>. QED
        BY <2>5, <2>8, <4>1, ItemsInOrder
    <3>6. CASE e = b
      <4>1. off[b] \in Nat /\ x \in Int /\ y \in Int
        BY <1>4
      <4>2. x =< y
        BY <2>2, <3>3, <3>6, <4>1
      <4>3. y > t
        BY <2>3, <4>1, <4>2
      <4>4. items[z].item = "call"
        BY <2>3, <3>3, <3>6, <4>3 DEF ItemIs
      <4>. QED
        BY <4>4
    <3>7. CASE e # b
      <4>1. b < e
        BY <1>2, <3>4, <3>7
      <4>2. h[e].role = "tool"
        BY <2>6, <3>5, <4>1
      <4>3. items[z].item = "result"
        BY <3>3, <4>2 DEF ItemIs
      <4>. QED
        BY <4>3
    <3>. QED
      BY <3>6, <3>7
  <2>12. j \in i + 1 .. Len(items)
    BY <1>1, <2>9, <2>10
  <2>13. items[j].id = items[i].id
    BY <2>3, <2>9 DEF k
  <2>. HIDE DEF j
  <2>. QED
    BY <2>9, <2>11, <2>12, <2>13
<1>6. ASSUME NEW i \in DOMAIN items, items[i].item = "result"
      PROVE  \/ \E j \in 1 .. i - 1 : items[j].item = "call" /\ items[j].id = items[i].id
             \/ \A j \in 1 .. i : items[j].item = "result" /\ items[j].id[1] = items[i].id[1]
  <2>1. PICK b \in DOMAIN h : \E x \in 1 .. Size(h[b], t) : i = off[b] + x /\ ItemIs(items[i], h[b], x, t)
    BY ItemAt
  <2>2. PICK x \in 1 .. Size(h[b], t) : i = off[b] + x /\ ItemIs(items[i], h[b], x, t)
    BY <2>1
  <2>. DEFINE c == h[b].count
  <2>3. h[b].role = "tool" /\ items[i].id = <<h[b].of, c>>
    <3>1. h[b].role \in {"user", "assistant", "call", "tool"} /\ x \in Int
      BY <1>3
    <3>2. h[b].role = "call" => (x =< t \/ x > t)
      BY <3>1
    <3>3. h[b].role = "tool"
      BY <1>6, <2>2, <3>1, <3>2 DEF ItemIs
    <3>. QED
      BY <2>2, <3>3 DEF ItemIs
  <2>4. /\ h[b].of = h[b].n - c /\ c # 0 /\ c \in Nat
        /\ b > c => h[b - c].role = "call" /\ c =< h[b - c].count
        /\ b =< c => \A e \in 1 .. b : h[e].role = "tool" /\ h[e].of = h[b].of
    BY <1>3, <2>3 DEF LinkedAt
  <2>5. CASE b > c
    <3>. DEFINE q == b - c
                j == off[q] + (t + c)
    <3>1. q \in DOMAIN h /\ q < b /\ h[q].role = "call" /\ c =< h[q].count
      BY <1>2, <2>4, <2>5
    <3>2. t + c \in 1 .. Size(h[q], t)
      BY <1>3, <2>4, <3>1 DEF Size
    <3>3. h[q].n = h[b].of
      <4>1. h[q].n = l - Len(h) + q /\ h[b].n = l - Len(h) + b
        BY <1>3, <3>1 DEF LinkedAt
      <4>. HIDE DEF c
      <4>. QED
        BY <1>2, <2>4, <4>1
    <3>. HIDE DEF q, c
    <3>4. j \in DOMAIN items /\ items[j].item = "call" /\ items[j].id = <<h[b].of, c>>
      <4>1. j \in DOMAIN items /\ ItemIs(items[j], h[q], t + c, t)
        BY <1>4, <3>1, <3>2
      <4>2. t + c > t /\ (t + c) - t = c
        BY <2>4
      <4>. HIDE DEF j
      <4>. QED
        BY <3>1, <3>3, <4>1, <4>2 DEF ItemIs
    <3>5. j < i
      BY <2>2, <3>1, <3>2, ItemsInOrder
    <3>6. j \in 1 .. i - 1
      BY <1>1, <3>4, <3>5
    <3>. HIDE DEF j
    <3>. QED
      BY <2>3, <3>4, <3>6
  <2>6. CASE ~(b > c)
    <3>1. \A e \in 1 .. b : h[e].role = "tool" /\ h[e].of = h[b].of
      BY <1>2, <2>4, <2>6
    <3>2. ASSUME NEW j \in 1 .. i PROVE items[j].item = "result" /\ items[j].id[1] = h[b].of
      <4>1. j \in DOMAIN items
        BY <1>1
      <4>2. PICK e \in DOMAIN h : \E y \in 1 .. Size(h[e], t) : j = off[e] + y /\ ItemIs(items[j], h[e], y, t)
        BY <4>1, ItemAt
      <4>3. PICK y \in 1 .. Size(h[e], t) : j = off[e] + y /\ ItemIs(items[j], h[e], y, t)
        BY <4>2
      <4>4. e =< b
        <5>1. off[e] + y =< off[b] + x
          BY <2>2, <4>3
        <5>. QED
          BY <5>1, ItemsInOrder
      <4>5. e \in 1 .. b
        BY <1>2, <4>4
      <4>6. h[e].role = "tool" /\ h[e].of = h[b].of
        BY <3>1, <4>5
      <4>7. items[j].item = "result" /\ items[j].id = <<h[b].of, h[e].count>>
        BY <4>3, <4>6 DEF ItemIs
      <4>. QED
        BY <4>7
    <3>3. items[i].id[1] = h[b].of
      BY <2>3
    <3>. QED
      BY <3>2, <3>3
  <2>. QED
    BY <2>5, <2>6
<1>7. CallsHaveResults(items)
  BY <1>5 DEF CallsHaveResults
<1>8. ResultsHaveCalls(items)
  BY <1>6 DEF ResultsHaveCalls
<1>. QED
  BY <1>7, <1>8

\* An LLM rejects a request whose calls and results do not match.  A turn adds the
\* results of its calls before anything else and sends no request until all of them
\* are there, and TruncateHistory cuts from the front only: so in every provider's
\* request the results follow their calls, and a result without its call is one of
\* the first items, of a message that the summarizer has cut off.
THEOREM ResultsFollowCalls == Spec => []ToolResultsFollow
<1>1. IInv /\ PInv => ToolResultsFollow
  <2>. SUFFICES ASSUME IInv, PInv, turn.at = "think", crashes = 0, NEW kind \in Kinds, NEW form \in PlainForms
                PROVE  /\ CallsHaveResults(Request(kind, turn.prompt, form).items)
                       /\ ResultsHaveCalls(Request(kind, turn.prompt, form).items)
    BY DEF ToolResultsFollow
  <2>. DEFINE items == Request(kind, turn.prompt, form).items
              h == turn.prompt.history
  <2>1. \E off : Arranged(items, h, off, Texts(form))
    BY Known, RequestArranged
  <2>2. h \in History /\ last \in Nat /\ Linked(h, last, Awaited, turn.left) /\ Awaited = 0
    BY Known DEF PInv, LinkInv, Awaited
  <2>3. Texts(form) \in Nat
    BY DEF Texts
  <2>. HIDE DEF items, h
  <2>4. CallsHaveResults(items) /\ ResultsHaveCalls(items)
    BY <2>1, <2>2, <2>3, ArrangedCalls
  <2>. QED
    BY <2>4 DEF items
<1>. QED
  BY <1>1, PInvHolds, PTL
=============================================================================
