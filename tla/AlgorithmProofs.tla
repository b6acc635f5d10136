---- MODULE AlgorithmProofs ----
(***************************************************************************)
(* What the recursive definitions compute, for every input: the walk of    *)
(* audit.verify over the hash chain, and the pattern that memory_list      *)
(* makes of a prefix.                                                      *)
(*                                                                         *)
(* Induction is over a set of numbers; that it is sound rests on finite    *)
(* sets: the successor would map the part of the set below a number that   *)
(* it lacks into itself, one to one but without 0 as a value.              *)
(***************************************************************************)
EXTENDS AuditChain, LikePrefix, FiniteSetTheorems, SequenceTheorems, TLAPS

\* A set that has 0, and with a number the next, has them all.
LEMMA Induction ==
  ASSUME NEW S, 0 \in S, \A n \in Nat : n \in S => n + 1 \in S
  PROVE  \A n \in Nat : n \in S
<1> SUFFICES ASSUME NEW m \in Nat, m \notin S PROVE FALSE
  OBVIOUS
<1> DEFINE A == {k \in 0..m : k \in S}
           next == [k \in A |-> k + 1]
<1>1. IsFiniteSet(A)
  <2>1. IsFiniteSet(0..m) /\ A \in SUBSET (0..m)
    BY FS_Interval
  <2> QED
    BY <2>1, FS_Subset
<1>2. next \in [A -> A] /\ \A k, l \in A : next[k] = next[l] => k = l
  OBVIOUS
<1>3. next \in Injection(A, A)
  BY <1>2 DEF Injection, IsInjective
<1>4. next \in Surjection(A, A)
  <2> HIDE DEF A, next
  <2> QED
    BY <1>1, <1>3, FS_Injection
<1>5. 0 \in A
  OBVIOUS
<1>6. PICK k \in A : next[k] = 0
  BY <1>4, <1>5 DEF Surjection
<1> QED
  BY <1>6

\* The same for the numbers up to a bound.
LEMMA BoundedInduction ==
  ASSUME NEW N \in Nat, NEW S, 0 \in S, \A n \in 0 .. N - 1 : n \in S => n + 1 \in S
  PROVE  \A n \in 0..N : n \in S
<1> DEFINE T == {n \in Nat : n <= N => n \in S}
<1>1. 0 \in T
  OBVIOUS
<1>2. \A n \in Nat : n \in T => n + 1 \in T
  OBVIOUS
<1>3. \A n \in Nat : n \in T
  <2> HIDE DEF T
  <2> QED
    BY <1>1, <1>2, Induction
<1> QED
  BY <1>3

\* f begins with first and goes on by next, n times.
Iterates(n, T, first, next, f) ==
  /\ f \in [0..n -> T]
  /\ f[0] = first
  /\ \A i \in 1..n : f[i] = next[i][f[i - 1]]

\* What is defined by going on from one number to the next exists.
LEMMA Recursion ==
  ASSUME NEW N \in Nat, NEW T, NEW first \in T, NEW next \in [1..N -> [T -> T]]
  PROVE  \E f : Iterates(N, T, first, next, f)
<1> DEFINE Upto(n, f) == Iterates(n, T, first, next, f)
           S == {n \in 0..N : \E f : Upto(n, f)}
<1>1. 0 \in S
  <2>1. Upto(0, [i \in 0..0 |-> first])
    BY DEF Iterates
  <2>2. 0 \in 0..N
    OBVIOUS
  <2> HIDE DEF Upto
  <2> QED
    BY <2>1, <2>2
<1>2. ASSUME NEW n \in 0 .. N - 1, n \in S PROVE n + 1 \in S
  <2>1. PICK f : Upto(n, f)
    BY <1>2
  <2> DEFINE g == [i \in 0 .. n + 1 |-> IF i = n + 1 THEN next[n + 1][f[n]] ELSE f[i]]
  <2>2. next[n + 1][f[n]] \in T
    BY <2>1 DEF Iterates
  <2>3. g \in [0 .. n + 1 -> T] /\ g[0] = first /\ g[n + 1] = next[n + 1][g[n]]
    BY <2>1, <2>2 DEF Iterates
  <2>4. ASSUME NEW i \in 1..n PROVE g[i] = next[i][g[i - 1]]
    <3>1. g[i] = f[i] /\ g[i - 1] = f[i - 1]
      OBVIOUS
    <3> QED
      BY <2>1, <3>1 DEF Iterates
  <2>5. Upto(n + 1, g)
    <3>1. \A i \in 1 .. n + 1 : i \in 1..n \/ i = n + 1
      OBVIOUS
    <3>2. (n + 1) - 1 = n
      OBVIOUS
    <3> HIDE DEF g
    <3> QED
      BY <2>3, <2>4, <3>1, <3>2 DEF Iterates
  <2>6. n + 1 \in 0..N
    OBVIOUS
  <2> HIDE DEF Upto, g
  <2> QED
    BY <2>5, <2>6
<1>3. N \in S
  <2>1. N \in 0..N
    OBVIOUS
  <2> HIDE DEF S
  <2> QED
    BY <1>1, <1>2, <2>1, BoundedInduction
<1> QED
  BY <1>3

----------------------------------------------------------------------------
(* The walk of audit.verify. *)

\* What the walk is defined to be.
IsWalk(events, running) ==
  running = [i \in 0..Len(events) |->
              IF i = 0 THEN GENESIS ELSE Digest(running[i - 1], Fields(events[i]))]

\* There is such a walk.
LEMMA WalkExists ==
  ASSUME NEW R, NEW events \in Seq(R)
  PROVE  IsWalk(events, Walk(events))
<1> DEFINE N == Len(events)
           T == Seq({Fields(e) : e \in R})
           next == [i \in 1..N |-> [d \in T |-> Digest(d, Fields(events[i]))]]
<1>1. N \in Nat /\ GENESIS \in T
  BY LenProperties, EmptySeq DEF GENESIS
<1>2. next \in [1..N -> [T -> T]]
  BY ElementOfSeq, AppendProperties DEF Digest
<1>3. PICK f : Iterates(N, T, GENESIS, next, f)
  <2> HIDE DEF N, T, next
  <2> QED
    BY <1>1, <1>2, Recursion
<1>4. ASSUME NEW i \in 0..N
      PROVE  f[i] = IF i = 0 THEN GENESIS ELSE Digest(f[i - 1], Fields(events[i]))
  <2>1. CASE i = 0
    BY <1>3, <2>1 DEF Iterates
  <2>2. CASE i # 0
    <3>1. i \in 1..N /\ f[i - 1] \in T
      BY <1>1, <1>3, <2>2 DEF Iterates
    <3>2. next[i] = [d \in T |-> Digest(d, Fields(events[i]))]
      BY <3>1
    <3> HIDE DEF next, T
    <3> QED
      BY <1>3, <2>2, <3>1, <3>2 DEF Iterates
  <2> QED
    BY <2>1, <2>2
<1>5. IsWalk(events, f)
  <2>1. f = [i \in 0..N |-> f[i]]
    BY <1>3 DEF Iterates
  <2> QED
    BY <1>4, <2>1 DEF IsWalk
<1> QED
  BY <1>5 DEF Walk, IsWalk

\* A digest lists the rows that it covers.
LEMMA WalkCovers ==
  ASSUME NEW R, NEW events \in Seq(R), NEW i \in 0..Len(events)
  PROVE  Walk(events)[i] = [j \in 1..i |-> Fields(events[j])]
<1> DEFINE N == Len(events)
           S == {n \in 0..N : Walk(events)[n] = [j \in 1..n |-> Fields(events[j])]}
<1>1. N \in Nat /\ IsWalk(events, Walk(events))
  BY LenProperties, WalkExists
<1>2. 0 \in S
  <2>1. Walk(events)[0] = <<>> /\ [j \in 1..0 |-> Fields(events[j])] = <<>>
    BY <1>1 DEF IsWalk, GENESIS
  <2> QED
    BY <1>1, <2>1
<1>3. ASSUME NEW n \in 0 .. N - 1, n \in S PROVE n + 1 \in S
  <2> DEFINE d == [j \in 1..n |-> Fields(events[j])]
             F == {Fields(events[j]) : j \in 1..N}
  <2>1. Walk(events)[n + 1] = Append(d, Fields(events[n + 1]))
    <3>1. (n + 1) - 1 = n /\ n + 1 # 0 /\ n + 1 \in 0..N
      BY <1>1
    <3> QED
      BY <1>1, <1>3, <3>1 DEF IsWalk, Digest
  <2>2. d \in Seq(F) /\ Len(d) = n
    <3>1. d \in [1..n -> F] /\ n \in Nat
      BY <1>1
    <3> QED
      BY <3>1, SeqDef, LenProperties
  <2>3. Append(d, Fields(events[n + 1])) = [j \in 1 .. n + 1 |-> Fields(events[j])]
    <3> DEFINE longer == Append(d, Fields(events[n + 1]))
    <3>1. n + 1 \in 1..N
      BY <1>1
    <3>2. /\ longer \in Seq(F) /\ Len(longer) = n + 1
          /\ \A j \in 1..n : longer[j] = d[j]
          /\ longer[n + 1] = Fields(events[n + 1])
      <4> HIDE DEF d
      <4> QED
        BY <2>2, <3>1, AppendProperties
    <3>3. longer = [j \in 1 .. n + 1 |-> longer[j]]
      <4> HIDE DEF longer
      <4> QED
        BY <3>2, LenProperties
    <3>4. ASSUME NEW j \in 1 .. n + 1 PROVE longer[j] = Fields(events[j])
      <4> HIDE DEF longer
      <4>1. CASE j = n + 1
        BY <3>2, <4>1
      <4>2. CASE j \in 1..n
        BY <3>2, <4>2
      <4> QED
        BY <1>1, <4>1, <4>2
    <3> HIDE DEF longer
    <3>5. [j \in 1 .. n + 1 |-> longer[j]] = [j \in 1 .. n + 1 |-> Fields(events[j])]
      BY <3>4
    <3> QED
      BY <3>3, <3>5 DEF longer
  <2>4. n + 1 \in 0..N
    BY <1>1
  <2> QED
    BY <2>1, <2>3, <2>4
<1> QED
  <2> HIDE DEF S
  <2>1. \A n \in 0..N : n \in S
    BY <1>1, <1>2, <1>3, BoundedInduction
  <2> QED
    BY <2>1 DEF S

\* One row further.
LEMMA WalkGoesOn ==
  ASSUME NEW R, NEW events \in Seq(R)
  PROVE  /\ Len(events) \in Nat /\ DOMAIN events = 1..Len(events)
         /\ Walk(events)[0] = GENESIS
         /\ \A i \in 1..Len(events) :
              Walk(events)[i] = Digest(Walk(events)[i - 1], Fields(events[i]))
<1>1. Len(events) \in Nat /\ DOMAIN events = 1..Len(events) /\ IsWalk(events, Walk(events))
  BY LenProperties, WalkExists
<1> DEFINE running == Walk(events)
<1> HIDE DEF running
<1>2. \A i \in 0..Len(events) :
        running[i] = IF i = 0 THEN GENESIS ELSE Digest(running[i - 1], Fields(events[i]))
  BY <1>1 DEF IsWalk, running
<1>3. ASSUME NEW i \in 1..Len(events)
      PROVE  running[i] = Digest(running[i - 1], Fields(events[i]))
  <2>1. i \in 0..Len(events) /\ i # 0
    BY <1>1
  <2> QED
    BY <1>2, <2>1
<1>4. running[0] = GENESIS
  <2>1. 0 \in 0..Len(events)
    BY <1>1
  <2> QED
    BY <1>2, <2>1
<1> QED
  BY <1>1, <1>3, <1>4 DEF running

\* audit.py:69: the loop of verify, which carries the digest from row to row, accepts
\* exactly the tables whose rows each fit the row before.
THEOREM VerifyIsLocal ==
  ASSUME NEW R, NEW events \in Seq(R)
  PROVE  Verifies(events) <=> ChainVerifies(events)
<1> DEFINE N == Len(events)
           running == Walk(events)
<1>1. /\ N \in Nat /\ DOMAIN events = 1..N /\ running[0] = GENESIS
      /\ \A i \in 1..N : running[i] = Digest(running[i - 1], Fields(events[i]))
  BY WalkGoesOn
<1> HIDE DEF N, running
<1>2. ASSUME Verifies(events) PROVE ChainVerifies(events)
  <2> SUFFICES ASSUME NEW i \in 1..N
               PROVE  /\ events[i].prev_hash = PrevHash(events, i)
                      /\ events[i].event_hash = Digest(events[i].prev_hash, Fields(events[i]))
    BY <1>1 DEF ChainVerifies
  <2>1. \A j \in 1..N : events[j].prev_hash = running[j - 1] /\ events[j].event_hash = running[j]
    BY <1>1, <1>2 DEF Verifies, running
  <2>2. PrevHash(events, i) = running[i - 1]
    <3>1. CASE i = 1
      BY <1>1, <3>1 DEF PrevHash
    <3>2. CASE i # 1
      <4>1. i - 1 \in 1..N
        BY <1>1, <3>2
      <4> QED
        BY <2>1, <3>2, <4>1 DEF PrevHash
    <3> QED
      BY <3>1, <3>2
  <2> QED
    BY <1>1, <2>1, <2>2
<1>3. ASSUME ChainVerifies(events) PROVE Verifies(events)
  <2> DEFINE Fits(i) == events[i].prev_hash = running[i - 1] /\ events[i].event_hash = running[i]
             S == {n \in 0..N : \A i \in 1..n : Fits(i)}
  <2>1. 0 \in S
    BY <1>1
  <2>2. ASSUME NEW n \in 0 .. N - 1, n \in S PROVE n + 1 \in S
    <3>1. n + 1 \in 1..N /\ (n + 1) - 1 = n
      BY <1>1
    <3>2. PrevHash(events, n + 1) = running[n]
      <4>1. CASE n = 0
        BY <1>1, <4>1 DEF PrevHash
      <4>2. CASE n # 0
        <5>1. n \in 1..n
          BY <4>2
        <5> QED
          BY <2>2, <3>1, <4>2, <5>1 DEF PrevHash
      <4> QED
        BY <4>1, <4>2
    <3>3. events[n + 1].prev_hash = running[n]
      BY <1>1, <1>3, <3>1, <3>2 DEF ChainVerifies
    <3>4. events[n + 1].event_hash = running[n + 1]
      BY <1>1, <1>3, <3>1, <3>3 DEF ChainVerifies
    <3>5. Fits(n + 1)
      BY <3>1, <3>3, <3>4
    <3> HIDE DEF Fits
    <3>6. \A i \in 1 .. n + 1 : i \in 1..n \/ i = n + 1
      OBVIOUS
    <3>7. n + 1 \in 0..N
      BY <1>1
    <3> QED
      BY <2>2, <3>5, <3>6, <3>7
  <2>3. \A n \in 0..N : n \in S
    <3> HIDE DEF S
    <3> QED
      BY <1>1, <2>1, <2>2, BoundedInduction
  <2>4. \A i \in 1..N : Fits(i)
    BY <1>1, <2>3
  <2> QED
    BY <1>1, <2>4 DEF Verifies, running
<1> QED
  BY <1>2, <1>3

\* "A trusted head saved outside SQLite for the same snapshot also detects a truncated
\* tail or a rewritten chain" (README.md:424): two tables that verify to one head have
\* the same rows.
THEOREM HeadFixesTrail ==
  ASSUME NEW R, NEW events \in Seq(R), NEW Q, NEW others \in Seq(Q), NEW head,
         VerifiesTo(events, head), VerifiesTo(others, head)
  PROVE  /\ Len(events) = Len(others)
         /\ \A i \in 1..Len(events) : Fields(events[i]) = Fields(others[i])
<1> DEFINE N == Len(events)
           M == Len(others)
           f == [i \in 1..N |-> Fields(events[i])]
           g == [i \in 1..M |-> Fields(others[i])]
<1>1. N \in Nat /\ M \in Nat
  BY LenProperties
<1>2. f = head /\ g = head
  <2>1. N \in 0..N /\ M \in 0..M
    BY <1>1
  <2> QED
    BY <2>1, WalkCovers DEF VerifiesTo
<1>3. 1..N = 1..M
  <2>1. DOMAIN f = 1..N /\ DOMAIN g = 1..M
    OBVIOUS
  <2> HIDE DEF f, g
  <2> QED
    BY <1>2, <2>1
<1>4. N = M
  BY <1>1, <1>3
<1>5. ASSUME NEW i \in 1..N PROVE Fields(events[i]) = Fields(others[i])
  <2>1. f[i] = Fields(events[i]) /\ g[i] = Fields(others[i])
    BY <1>4
  <2> HIDE DEF f, g
  <2> QED
    BY <1>2, <2>1
<1> QED
  BY <1>4, <1>5

----------------------------------------------------------------------------
(* The pattern of memory_list. *)

\* Two elements more.
LEMMA ConcatTwo ==
  ASSUME NEW C, NEW s \in Seq(C), NEW a \in C, NEW b \in C
  PROVE  s \o <<a, b>> = Append(Append(s, a), b)
<1>1. <<a>> \in Seq(C) /\ <<b>> \in Seq(C) /\ <<a, b>> = <<a>> \o <<b>>
  <2>1. <<a>> \in Seq(C) /\ <<b>> \in Seq(C) /\ <<a, b>> \in Seq(C)
    OBVIOUS
  <2>2. /\ Len(<<a>>) = 1 /\ Len(<<b>>) = 1 /\ Len(<<a, b>>) = 2
        /\ <<a>>[1] = a /\ <<b>>[1] = b /\ <<a, b>>[1] = a /\ <<a, b>>[2] = b
    OBVIOUS
  <2> DEFINE both == <<a>> \o <<b>>
  <2>3. both \in Seq(C) /\ Len(both) = 2 /\ both[1] = a /\ both[2] = b
    BY <2>1, <2>2, ConcatProperties
  <2> HIDE DEF both
  <2>4. \A i \in 1..2 : i = 1 \/ i = 2
    OBVIOUS
  <2>5. \A i \in 1..2 : <<a, b>>[i] = both[i]
    BY <2>2, <2>3, <2>4
  <2>6. <<a, b>> = both
    BY <2>1, <2>2, <2>3, <2>5, SeqEqual
  <2> QED
    BY <2>1, <2>6 DEF both
<1>2. Append(s, a) \in Seq(C) /\ Append(s, a) = s \o <<a>>
  BY AppendProperties, AppendIsConcat
<1>3. Append(Append(s, a), b) = (s \o <<a>>) \o <<b>>
  BY <1>2, AppendIsConcat
<1> QED
  BY <1>1, <1>3, ConcatAssociative

\* What escaping is defined to be: the first n characters, with their backslashes.
IsEscape(text, c, escaped) ==
  escaped = [n \in 0..Len(text) |->
              IF n = 0 THEN <<>> ELSE escaped[n - 1] \o Quote(text[n], c)]

\* A character is escaped, or copied.
Copied(escaped, x, c) ==
  IF x = c THEN Append(Append(escaped, Backslash), c) ELSE Append(escaped, x)

\* A way to the escaped text, character by character.
Escapes(C, text, c, escaped) ==
  /\ Escape(text, c) = escaped[Len(text)]
  /\ escaped[0] = <<>>
  /\ \A n \in 0..Len(text) : escaped[n] \in Seq(C)
  /\ \A n \in 1..Len(text) : escaped[n] = Copied(escaped[n - 1], text[n], c)

\* There is such a function.
LEMMA EscapeExists ==
  ASSUME NEW C, NEW text \in Seq(C), NEW c \in C, Backslash \in C
  PROVE  \E escaped : Escapes(C, text, c, escaped)
<1> DEFINE N == Len(text)
           next == [n \in 1..N |-> [e \in Seq(C) |-> e \o Quote(text[n], c)]]
<1>1. N \in Nat /\ <<>> \in Seq(C) /\ \A n \in 1..N : text[n] \in C
  BY LenProperties, EmptySeq, ElementOfSeq
<1>2. \A x \in C : Quote(x, c) \in Seq(C)
  BY DEF Quote
<1>3. next \in [1..N -> [Seq(C) -> Seq(C)]]
  BY <1>1, <1>2, ConcatProperties
<1>4. PICK f : Iterates(N, Seq(C), <<>>, next, f)
  <2> HIDE DEF N, next
  <2> QED
    BY <1>1, <1>3, Recursion
<1>5. ASSUME NEW n \in 0..N
      PROVE  f[n] = IF n = 0 THEN <<>> ELSE f[n - 1] \o Quote(text[n], c)
  <2>1. CASE n = 0
    BY <1>4, <2>1 DEF Iterates
  <2>2. CASE n # 0
    <3>1. n \in 1..N /\ f[n - 1] \in Seq(C)
      BY <1>1, <1>4, <2>2 DEF Iterates
    <3>2. next[n] = [e \in Seq(C) |-> e \o Quote(text[n], c)]
      BY <3>1
    <3> HIDE DEF next
    <3> QED
      BY <1>4, <2>2, <3>1, <3>2 DEF Iterates
  <2> QED
    BY <2>1, <2>2
<1>6. IsEscape(text, c, f)
  <2>1. f = [n \in 0..N |-> f[n]]
    BY <1>4 DEF Iterates
  <2> QED
    BY <1>5, <2>1 DEF IsEscape
<1> DEFINE escaped == CHOOSE e : IsEscape(text, c, e)
<1>7. IsEscape(text, c, escaped)
  BY <1>6
<1>8. Escape(text, c) = escaped[N]
  BY DEF Escape, IsEscape
<1> HIDE DEF escaped
<1>9. ASSUME NEW n \in 0..N
      PROVE  escaped[n] = IF n = 0 THEN <<>> ELSE escaped[n - 1] \o Quote(text[n], c)
  BY <1>1, <1>7 DEF IsEscape
<1>10. escaped[0] = <<>>
  BY <1>1, <1>9
<1> DEFINE S == {n \in 0..N : escaped[n] \in Seq(C)}
<1>11. \A n \in 0..N : n \in S
  <2>1. 0 \in S
    <3>1. 0 \in 0..N /\ escaped[0] \in Seq(C)
      BY <1>1, <1>10
    <3> QED
      BY <3>1
  <2>2. ASSUME NEW n \in 0 .. N - 1, n \in S PROVE n + 1 \in S
    <3>1. n + 1 \in 0..N /\ n + 1 \in 1..N /\ (n + 1) - 1 = n /\ n + 1 # 0
      BY <1>1
    <3>2. escaped[n + 1] = escaped[n] \o Quote(text[n + 1], c)
      BY <1>9, <3>1
    <3>3. escaped[n] \in Seq(C) /\ Quote(text[n + 1], c) \in Seq(C)
      BY <1>1, <1>2, <2>2, <3>1
    <3>4. escaped[n + 1] \in Seq(C)
      BY <3>2, <3>3, ConcatProperties
    <3> QED
      BY <3>1, <3>4
  <2> HIDE DEF S
  <2> QED
    BY <1>1, <2>1, <2>2, BoundedInduction
<1>12. ASSUME NEW n \in 1..N
       PROVE  escaped[n] = Copied(escaped[n - 1], text[n], c)
  <2>1. n \in 0..N /\ n # 0 /\ n - 1 \in 0..N
    BY <1>1
  <2>2. escaped[n - 1] \in Seq(C) /\ escaped[n] = escaped[n - 1] \o Quote(text[n], c)
    BY <1>9, <1>11, <2>1
  <2>3. CASE text[n] = c
    <3>1. escaped[n] = escaped[n - 1] \o <<Backslash, c>>
      BY <2>2, <2>3 DEF Quote
    <3>2. escaped[n] = Append(Append(escaped[n - 1], Backslash), c)
      BY <2>2, <3>1, ConcatTwo
    <3> QED
      BY <2>3, <3>2 DEF Copied
  <2>4. CASE text[n] # c
    BY <1>1, <2>2, <2>4, AppendIsConcat DEF Quote, Copied
  <2> QED
    BY <2>3, <2>4
<1> QED
  BY <1>8, <1>10, <1>11, <1>12 DEF Escapes

\* A text with its occurrences of c escaped, and one character more.
LEMMA EscapeAppend ==
  ASSUME NEW C, NEW text \in Seq(C), NEW x \in C, NEW c \in C, Backslash \in C
  PROVE  /\ Escape(text, c) \in Seq(C)
         /\ Escape(<<>>, c) = <<>>
         /\ Escape(Append(text, x), c) = Copied(Escape(text, c), x, c)
<1> DEFINE N == Len(text)
           longer == Append(text, x)
<1>1. /\ N \in Nat /\ longer \in Seq(C) /\ Len(longer) = N + 1
      /\ \A n \in 1..N : longer[n] = text[n]
      /\ longer[N + 1] = x
  BY LenProperties, AppendProperties
<1>2. PICK e : Escapes(C, text, c, e)
  BY EscapeExists
<1> HIDE DEF longer
<1>3. PICK f : Escapes(C, longer, c, f)
  BY <1>1, EscapeExists
<1> HIDE DEF N
<1>4. Escape(<<>>, c) = <<>>
  <2>1. PICK empty : empty = <<>> /\ empty \in Seq(C) /\ Len(empty) = 0
    BY EmptySeq
  <2>2. PICK g : Escapes(C, empty, c, g)
    BY <2>1, EscapeExists
  <2> QED
    BY <2>1, <2>2 DEF Escapes
<1> DEFINE S == {n \in 0..N : e[n] = f[n]}
<1>5. \A n \in 0..N : n \in S
  <2>1. 0 \in S
    BY <1>1, <1>2, <1>3 DEF Escapes
  <2>2. ASSUME NEW n \in 0 .. N - 1, n \in S PROVE n + 1 \in S
    <3>1. n + 1 \in 0..N /\ n + 1 \in 1..N /\ n + 1 \in 1 .. N + 1 /\ (n + 1) - 1 = n
      BY <1>1
    <3>2. longer[n + 1] = text[n + 1] /\ e[n] = f[n]
      BY <1>1, <2>2, <3>1
    <3>3. e[n + 1] = Copied(e[n], text[n + 1], c) /\ f[n + 1] = Copied(f[n], longer[n + 1], c)
      BY <1>1, <1>2, <1>3, <3>1 DEF Escapes, N
    <3>4. e[n + 1] = f[n + 1]
      BY <3>1, <3>2, <3>3 DEF Copied
    <3> QED
      BY <3>1, <3>4
  <2> HIDE DEF S
  <2> QED
    BY <1>1, <2>1, <2>2, BoundedInduction
<1>6. f[N] = Escape(text, c) /\ Escape(text, c) \in Seq(C)
  <2>1. N \in 0..N
    BY <1>1
  <2> QED
    BY <1>2, <1>5, <2>1 DEF Escapes, N
<1>7. f[N + 1] = Copied(f[N], x, c)
  <2>1. N + 1 \in 1 .. N + 1 /\ (N + 1) - 1 = N
    BY <1>1
  <2> QED
    BY <1>1, <1>3, <2>1 DEF Escapes
<1> QED
  BY <1>1, <1>3, <1>4, <1>6, <1>7 DEF longer, Escapes

\* The characters that the three replacements escape.
Specials == {Backslash, "%", "_"}

\* The three replacements together: one backslash before each special character, and
\* none before those that the earlier replacements have put in.
LEMMA EscapedAppend ==
  ASSUME NEW C, NEW text \in Seq(C), NEW x \in C, Specials \subseteq C
  PROVE  /\ Escaped(text) \in Seq(C)
         /\ Escaped(<<>>) = <<>>
         /\ Escaped(Append(text, x)) =
              IF x \in Specials THEN Append(Append(Escaped(text), Backslash), x)
                                ELSE Append(Escaped(text), x)
<1> DEFINE one == Escape(text, Backslash)
           two == Escape(one, "%")
           three == Escape(two, "_")
<1>1. Backslash \in C /\ "%" \in C /\ "_" \in C
  BY DEF Specials
<1>2. Backslash # "%" /\ Backslash # "_" /\ "%" # "_"
  BY DEF Backslash
<1>3. one \in Seq(C) /\ two \in Seq(C) /\ three \in Seq(C)
  BY <1>1, EscapeAppend
<1>4. Escaped(text) = three
  BY DEF Escaped
<1>5. \A t \in Seq(C), y \in C, c \in C :
        Escape(<<>>, c) = <<>> /\ Escape(Append(t, y), c) = Copied(Escape(t, c), y, c)
  BY <1>1, EscapeAppend
<1> HIDE DEF one, two, three
<1>6. \A y \in C : /\ Escape(Append(text, y), Backslash) = Copied(one, y, Backslash)
                   /\ Escape(Append(one, y), "%") = Copied(two, y, "%")
                   /\ Escape(Append(two, y), "_") = Copied(three, y, "_")
  BY <1>1, <1>3, <1>5 DEF one, two, three
<1>7. /\ Append(one, Backslash) \in Seq(C)
      /\ Append(two, Backslash) \in Seq(C)
      /\ Escape(Append(one, Backslash), "%") = Append(two, Backslash)
      /\ Escape(Append(two, Backslash), "_") = Append(three, Backslash)
  BY <1>1, <1>2, <1>3, <1>6, AppendProperties DEF Copied
<1>8. \A y \in C : /\ Escape(Append(Append(one, Backslash), y), "%") =
                         Copied(Append(two, Backslash), y, "%")
                   /\ Escape(Append(Append(two, Backslash), y), "_") =
                         Copied(Append(three, Backslash), y, "_")
  <2> TAKE y \in C
  <2> DEFINE first == Append(one, Backslash)
             second == Append(two, Backslash)
             third == Append(three, Backslash)
  <2>1. /\ first \in Seq(C) /\ second \in Seq(C)
        /\ Escape(first, "%") = second /\ Escape(second, "_") = third
    BY <1>7
  <2> HIDE DEF first, second, third
  <2>2. Escape(Append(first, y), "%") = Copied(second, y, "%")
    BY <1>1, <1>5, <2>1
  <2>3. Escape(Append(second, y), "_") = Copied(third, y, "_")
    BY <1>1, <1>5, <2>1
  <2> QED
    BY <2>2, <2>3 DEF first, second, third
<1>9. Escaped(<<>>) = <<>>
  BY <1>1, <1>5 DEF Escaped
<1>10. CASE x = Backslash
  <2>1. Escape(Append(text, x), Backslash) = Append(Append(one, Backslash), x)
    BY <1>6, <1>10 DEF Copied
  <2>2. Escape(Append(Append(one, Backslash), x), "%") = Append(Append(two, Backslash), x)
    BY <1>1, <1>2, <1>10, <1>8 DEF Copied
  <2>3. Escape(Append(Append(two, Backslash), x), "_") = Append(Append(three, Backslash), x)
    BY <1>1, <1>2, <1>10, <1>8 DEF Copied
  <2> QED
    BY <1>3, <1>4, <1>9, <1>10, <2>1, <2>2, <2>3 DEF Escaped, Specials
<1>11. CASE x = "%"
  <2>1. Escape(Append(text, x), Backslash) = Append(one, x)
    BY <1>2, <1>6, <1>11 DEF Copied
  <2>2. Escape(Append(one, x), "%") = Append(Append(two, Backslash), x)
    BY <1>6, <1>11 DEF Copied
  <2>3. Escape(Append(Append(two, Backslash), x), "_") = Append(Append(three, Backslash), x)
    BY <1>1, <1>2, <1>11, <1>8 DEF Copied
  <2> QED
    BY <1>3, <1>4, <1>9, <1>11, <2>1, <2>2, <2>3 DEF Escaped, Specials
<1>12. CASE x # Backslash /\ x # "%"
  <2>1. Escape(Append(text, x), Backslash) = Append(one, x)
    BY <1>6, <1>12 DEF Copied
  <2>2. Escape(Append(one, x), "%") = Append(two, x)
    BY <1>6, <1>12 DEF Copied
  <2>3. Escape(Append(two, x), "_") = Copied(three, x, "_")
    BY <1>6
  <2> QED
    BY <1>3, <1>4, <1>9, <1>12, <2>1, <2>2, <2>3 DEF Escaped, Specials, Copied
<1> QED
  BY <1>10, <1>11, <1>12

\* What a pattern matches from a place on, by what it matches from the places after it.
IsPlaces(text, pattern, places) ==
  places = [j \in 1 .. Len(pattern) + 1 |-> Places(text, pattern, places, j)]

\* A place depends on the next two only.
LEMMA PlacesLocal ==
  ASSUME NEW C, NEW text \in Seq(C), NEW pattern \in Seq(C), NEW f, NEW g,
         NEW j \in 1 .. Len(pattern) + 1,
         j <= Len(pattern) => f[j + 1] = g[j + 1],
         j < Len(pattern) => f[j + 2] = g[j + 2]
  PROVE  Places(text, pattern, f, j) = Places(text, pattern, g, j)
<1>1. Len(text) \in Nat /\ Len(pattern) \in Nat
  BY LenProperties
<1>2. CASE j > Len(pattern)
  BY <1>2 DEF Places
<1>3. CASE ~(j > Len(pattern))
  <2>1. f[j + 1] = g[j + 1] /\ "%" # "_" /\ Backslash # "%" /\ Backslash # "_"
    BY <1>1, <1>3 DEF Backslash
  <2>2. CASE pattern[j] = "%"
    BY <1>3, <2>1, <2>2 DEF Places
  <2>3. CASE pattern[j] = "_"
    BY <1>3, <2>1, <2>3 DEF Places
  <2>4. CASE pattern[j] = Backslash
    BY <1>3, <2>1, <2>4 DEF Places
  <2>5. CASE pattern[j] \notin Specials
    BY <1>3, <2>1, <2>5 DEF Places, Specials
  <2> QED
    BY <2>2, <2>3, <2>4, <2>5 DEF Specials
<1> QED
  BY <1>2, <1>3

\* The last n places of a pattern, and the place behind it, are what they are to be.
PlacesFrom(text, pattern, f, n) ==
  /\ DOMAIN f = 1 .. Len(pattern) + 1
  /\ f = [j \in DOMAIN f |-> f[j]]
  /\ \A j \in Len(pattern) + 1 - n .. Len(pattern) + 1 : f[j] = Places(text, pattern, f, j)

\* There are such places.
LEMMA PlacesExist ==
  ASSUME NEW C, NEW text \in Seq(C), NEW pattern \in Seq(C)
  PROVE  \E places : /\ Like(text, pattern) <=> 1 \in places[1]
                     /\ \A j \in 1 .. Len(pattern) + 1 :
                          places[j] = Places(text, pattern, places, j)
<1> DEFINE M == Len(pattern)
           S == {n \in 0..M : \E f : PlacesFrom(text, pattern, f, n)}
<1>1. M \in Nat
  BY LenProperties
<1>2. 0 \in S
  <2> DEFINE f == [j \in 1 .. M + 1 |-> {Len(text) + 1}]
  <2>1. \A j \in M + 1 - 0 .. M + 1 : j = M + 1
    BY <1>1
  <2>2. f[M + 1] = {Len(text) + 1}
    BY <1>1
  <2>3. DOMAIN f = 1 .. M + 1 /\ f = [j \in DOMAIN f |-> f[j]]
    OBVIOUS
  <2> HIDE DEF f
  <2>4. Places(text, pattern, f, M + 1) = {Len(text) + 1}
    <3>1. M + 1 > Len(pattern)
      BY <1>1
    <3> HIDE DEF M
    <3> QED
      BY <3>1 DEF Places
  <2>5. PlacesFrom(text, pattern, f, 0)
    BY <2>1, <2>2, <2>3, <2>4 DEF PlacesFrom
  <2> QED
    BY <1>1, <2>5
<1>3. ASSUME NEW n \in 0 .. M - 1, n \in S PROVE n + 1 \in S
  <2>1. PICK f : PlacesFrom(text, pattern, f, n)
    BY <1>3
  <2> DEFINE a == M - n
             g == [f EXCEPT ![a] = Places(text, pattern, f, a)]
  <2>2. /\ a \in 1 .. M + 1
        /\ M + 1 - (n + 1) = a
        /\ \A j \in a .. M + 1 : j \in 1 .. M + 1 /\ (j = a \/ j \in M + 1 - n .. M + 1)
        /\ n + 1 \in 0..M
    BY <1>1
  <2>3. /\ DOMAIN g = 1 .. M + 1 /\ g = [j \in DOMAIN g |-> g[j]]
        /\ g[a] = Places(text, pattern, f, a)
        /\ \A j \in 1 .. M + 1 : j # a => g[j] = f[j]
    BY <2>1, <2>2 DEF PlacesFrom
  <2> HIDE DEF g
  <2>4. ASSUME NEW j \in a .. M + 1 PROVE g[j] = Places(text, pattern, g, j)
    <3>1. Places(text, pattern, f, j) = Places(text, pattern, g, j)
      <4>1. j <= M => j + 1 \in 1 .. M + 1 /\ j + 1 # a
        BY <1>1, <2>2
      <4>2. j < M => j + 2 \in 1 .. M + 1 /\ j + 2 # a
        BY <1>1, <2>2
      <4>3. j <= M => f[j + 1] = g[j + 1]
        BY <2>3, <4>1
      <4>4. j < M => f[j + 2] = g[j + 2]
        BY <2>3, <4>2
      <4> HIDE DEF a
      <4> QED
        BY <2>2, <4>3, <4>4, PlacesLocal
    <3>2. CASE j = a
      BY <2>3, <3>1, <3>2
    <3>3. CASE j # a
      <4>1. f[j] = Places(text, pattern, f, j) /\ g[j] = f[j]
        BY <2>1, <2>2, <2>3, <3>3 DEF PlacesFrom
      <4> QED
        BY <3>1, <4>1
    <3> QED
      BY <3>2, <3>3
  <2>5. PlacesFrom(text, pattern, g, n + 1)
    <3> HIDE DEF a
    <3> QED
      BY <2>2, <2>3, <2>4 DEF PlacesFrom
  <2> QED
    BY <2>2, <2>5
<1>4. M \in S
  <2>1. M \in 0..M
    BY <1>1
  <2> HIDE DEF S
  <2> QED
    BY <1>1, <1>2, <1>3, <2>1, BoundedInduction
<1>5. PICK f : PlacesFrom(text, pattern, f, M)
  BY <1>4
<1>6. IsPlaces(text, pattern, f)
  <2>1. \A j \in 1 .. M + 1 : j \in M + 1 - M .. M + 1
    BY <1>1
  <2>2. \A j \in 1 .. M + 1 : f[j] = Places(text, pattern, f, j)
    BY <1>5, <2>1 DEF PlacesFrom
  <2> QED
    BY <1>5, <2>2 DEF PlacesFrom, IsPlaces
<1> DEFINE places == CHOOSE g : IsPlaces(text, pattern, g)
<1>7. IsPlaces(text, pattern, places)
  BY <1>6
<1>8. Like(text, pattern) <=> 1 \in places[1]
  BY DEF Like, IsPlaces
<1> HIDE DEF places
<1>9. \A j \in 1 .. M + 1 : places[j] = Places(text, pattern, places, j)
  BY <1>1, <1>7 DEF IsPlaces
<1> QED
  BY <1>8, <1>9

\* The key begins with the prefix, but for the case of its letters.
BeginsFolded(key, prefix) ==
  /\ Len(prefix) <= Len(key)
  /\ \A i \in 1..Len(prefix) : Fold(key[i]) = Fold(prefix[i])

\* A pattern begins with another one.
Extends(pattern, start) ==
  /\ Len(start) <= Len(pattern)
  /\ \A j \in 1..Len(start) : pattern[j] = start[j]

\* What is left to match once the escaped prefix is: from its end on, at the prefix's end.
LeavesTheRest(key, prefix, pattern, places) ==
  1 \in places[1] <=> /\ BeginsFolded(key, prefix)
                      /\ Len(prefix) + 1 \in places[Len(Escaped(prefix)) + 1]

\* The pattern between two of its places takes the key's character after the first n, x.
TakesOne(key, n, x, places, from, to) ==
  n + 1 \in places[from] <=>
    n + 1 <= Len(key) /\ Fold(key[n + 1]) = Fold(x) /\ n + 2 \in places[to]

\* The places of a pattern that starts with an escaped text and then a character that
\* stands for itself, with a backslash if it is special.
LEMMA OneCharacter ==
  ASSUME NEW C, Specials \subseteq C, NEW key \in Seq(C), NEW text \in Seq(C), NEW x \in C,
         NEW pattern \in Seq(C), Extends(pattern, Escaped(Append(text, x))), NEW places,
         \A j \in 1 .. Len(pattern) + 1 : places[j] = Places(key, pattern, places, j),
         NEW n \in Nat
  PROVE  /\ Extends(pattern, Escaped(text))
         /\ TakesOne(key, n, x, places,
                     Len(Escaped(text)) + 1, Len(Escaped(Append(text, x))) + 1)
<1> DEFINE E == Escaped(text)
           F == Escaped(Append(text, x))
           m == Len(E)
           M == Len(pattern)
           L == Len(key)
<1>1. M \in Nat /\ L \in Nat /\ E \in Seq(C) /\ m \in Nat /\ Backslash \in C
  BY EscapedAppend, LenProperties DEF Specials
<1>2. Backslash # "%" /\ Backslash # "_" /\ "%" # "_"
  BY DEF Backslash
<1>3. F = IF x \in Specials THEN Append(Append(E, Backslash), x) ELSE Append(E, x)
  BY EscapedAppend
<1>4. Len(F) <= M /\ \A j \in 1..Len(F) : pattern[j] = F[j]
  BY DEF Extends
<1> HIDE DEF E, F, m, M, L
<1>5. CASE x \in Specials
  <2> DEFINE G == Append(E, Backslash)
  <2>1. /\ G \in Seq(C) /\ Len(G) = m + 1 /\ G[m + 1] = Backslash
        /\ \A j \in 1..m : G[j] = E[j]
    BY <1>1, AppendProperties DEF m
  <2> HIDE DEF G
  <2>2. F = Append(G, x)
    BY <1>3, <1>5 DEF G
  <2>3. /\ Len(F) = m + 2 /\ F[m + 2] = x
        /\ \A j \in 1 .. m + 1 : F[j] = G[j]
    <3>1. /\ Len(F) = Len(G) + 1 /\ F[Len(G) + 1] = x
          /\ \A j \in 1 .. Len(G) : F[j] = G[j]
      BY <2>1, <2>2, AppendProperties
    <3> QED
      BY <1>1, <2>1, <3>1
  <2>4. /\ m + 2 <= M /\ pattern[m + 1] = Backslash /\ pattern[m + 2] = x
        /\ \A j \in 1..m : pattern[j] = E[j]
    BY <1>1, <1>4, <2>1, <2>3
  <2>5. places[m + 1] = Places(key, pattern, places, m + 1)
    BY <1>1, <2>4 DEF M
  <2>6. places[m + 1] = {i \in 1..L : Fold(key[i]) = Fold(x) /\ i + 1 \in places[m + 3]}
    <3>1. ~(m + 1 > M) /\ m + 1 < M /\ (m + 1) + 1 = m + 2 /\ (m + 1) + 2 = m + 3
      BY <1>1, <2>4
    <3> QED
      BY <1>2, <2>4, <2>5, <3>1 DEF Places, M, L
  <2>7. Extends(pattern, E)
    BY <1>1, <2>4 DEF Extends, m, M
  <2>8. n + 1 \in places[m + 1] <=>
          n + 1 <= L /\ Fold(key[n + 1]) = Fold(x) /\ n + 2 \in places[m + 3]
    <3>1. (n + 1) + 1 = n + 2 /\ n + 1 \in Nat /\ n + 1 >= 1
      OBVIOUS
    <3> QED
      BY <1>1, <2>6, <3>1
  <2> QED
    BY <1>1, <2>3, <2>7, <2>8 DEF E, F, m, L, TakesOne
<1>6. CASE x \notin Specials
  <2>1. F = Append(E, x)
    BY <1>3, <1>6
  <2>2. /\ Len(F) = m + 1 /\ F[m + 1] = x
        /\ \A j \in 1..m : F[j] = E[j]
    BY <1>1, <2>1, AppendProperties DEF m
  <2>3. /\ m + 1 <= M /\ pattern[m + 1] = x
        /\ \A j \in 1..m : pattern[j] = E[j]
    BY <1>1, <1>4, <2>2
  <2>4. places[m + 1] = Places(key, pattern, places, m + 1)
    BY <1>1, <2>3 DEF M
  <2>5. places[m + 1] = {i \in 1..L : Fold(key[i]) = Fold(x) /\ i + 1 \in places[m + 2]}
    <3>1. ~(m + 1 > M) /\ (m + 1) + 1 = m + 2
      BY <1>1, <2>3
    <3>2. x # "%" /\ x # "_" /\ x # Backslash
      BY <1>6 DEF Specials
    <3> QED
      BY <2>3, <2>4, <3>1, <3>2 DEF Places, M, L
  <2>6. Extends(pattern, E)
    BY <1>1, <2>3 DEF Extends, m, M
  <2>7. n + 1 \in places[m + 1] <=>
          n + 1 <= L /\ Fold(key[n + 1]) = Fold(x) /\ n + 2 \in places[m + 2]
    <3>1. (n + 1) + 1 = n + 2 /\ n + 1 \in Nat /\ n + 1 >= 1
      OBVIOUS
    <3> QED
      BY <1>1, <2>5, <3>1
  <2> QED
    BY <1>1, <2>2, <2>6, <2>7 DEF E, F, m, L, TakesOne
<1> QED
  BY <1>5, <1>6

\* An escaped prefix matches that prefix, whatever follows it in the pattern.
LEMMA PrefixMatches ==
  ASSUME NEW C, Specials \subseteq C, NEW key \in Seq(C), NEW prefix \in Seq(C),
         NEW pattern \in Seq(C), Extends(pattern, Escaped(prefix)), NEW places,
         \A j \in 1 .. Len(pattern) + 1 : places[j] = Places(key, pattern, places, j)
  PROVE  LeavesTheRest(key, prefix, pattern, places)
<1> DEFINE Left(t) == Extends(pattern, Escaped(t)) => LeavesTheRest(key, t, pattern, places)
           S == {n \in Nat : \A t \in Seq(C) : Len(t) = n => Left(t)}
<1>1. 0 \in S
  <2> SUFFICES ASSUME NEW t \in Seq(C), Len(t) = 0 PROVE LeavesTheRest(key, t, pattern, places)
    OBVIOUS
  <2>1. t = <<>>
    BY EmptySeq
  <2>2. Escaped(t) = <<>>
    BY <2>1, EscapedAppend DEF Specials
  <2>3. Len(key) \in Nat
    BY LenProperties
  <2> QED
    BY <2>1, <2>2, <2>3 DEF LeavesTheRest, BeginsFolded
<1>2. ASSUME NEW n \in Nat, n \in S PROVE n + 1 \in S
  <2> SUFFICES ASSUME NEW t \in Seq(C), Len(t) = n + 1, Extends(pattern, Escaped(t))
               PROVE  LeavesTheRest(key, t, pattern, places)
    OBVIOUS
  <2>1. t # <<>>
    BY EmptySeq
  <2>2. PICK s \in Seq(C), x \in C : t = Append(s, x)
    BY <2>1, SequenceEmptyOrAppend
  <2>3. /\ Len(s) = n
        /\ \A i \in 1..n : t[i] = s[i]
        /\ t[n + 1] = x
    <3>1. /\ Len(t) = Len(s) + 1 /\ t[Len(s) + 1] = x /\ Len(s) \in Nat
          /\ \A i \in 1..Len(s) : t[i] = s[i]
      BY <2>2, AppendProperties, LenProperties
    <3> QED
      BY <3>1
  <2>4. /\ Extends(pattern, Escaped(s))
        /\ TakesOne(key, n, x, places, Len(Escaped(s)) + 1, Len(Escaped(t)) + 1)
    <3> HIDE DEF S
    <3> QED
      BY <2>2, OneCharacter
  <2>5. 1 \in places[1] <=> BeginsFolded(key, s) /\ n + 1 \in places[Len(Escaped(s)) + 1]
    BY <1>2, <2>3, <2>4 DEF LeavesTheRest
  <2>6. BeginsFolded(key, t) <=>
          BeginsFolded(key, s) /\ n + 1 <= Len(key) /\ Fold(key[n + 1]) = Fold(x)
    <3>1. Len(key) \in Nat
      BY LenProperties
    <3>2. \A i \in 1 .. n + 1 : i \in 1..n \/ i = n + 1
      OBVIOUS
    <3>3. (n + 1 <= Len(key) => n <= Len(key)) /\ \A i \in 1..n : i \in 1 .. n + 1
      BY <3>1
    <3>4. n + 1 \in 1 .. n + 1
      OBVIOUS
    <3> QED
      BY <2>3, <3>2, <3>3, <3>4 DEF BeginsFolded
  <2>7. Len(t) + 1 = n + 2
    OBVIOUS
  <2> QED
    BY <2>4, <2>5, <2>6, <2>7 DEF LeavesTheRest, TakesOne
<1>3. \A n \in Nat : n \in S
  <2> HIDE DEF S
  <2> QED
    BY <1>1, <1>2, Induction
<1>4. Len(prefix) \in Nat
  BY LenProperties
<1> QED
  BY <1>3, <1>4

\* memory_server.py:458: whatever alphabet the texts are over, LIKE finds for the escaped
\* prefix with a percent sign behind it exactly the keys that begin with the prefix, but for
\* the case of their letters.
THEOREM PrefixIsFound ==
  ASSUME NEW C, Specials \subseteq C, NEW prefix \in Seq(C), NEW key \in Seq(C)
  PROVE  Lists(prefix, key) <=> StartsWith(key, prefix, SameFolded)
<1> DEFINE E == Escaped(prefix)
           m == Len(E)
           q == E \o <<"%">>
           L == Len(key)
<1>1. /\ E \in Seq(C) /\ m \in Nat /\ q = Append(E, "%") /\ "%" \in C
      /\ L \in Nat /\ Len(prefix) \in Nat
  <2>1. "%" \in C /\ L \in Nat /\ Len(prefix) \in Nat
    BY LenProperties DEF Specials
  <2>2. E \in Seq(C)
    BY <2>1, EscapedAppend
  <2> HIDE DEF E
  <2> QED
    BY <2>1, <2>2, LenProperties, AppendIsConcat
<1> HIDE DEF q
<1>2. /\ q \in Seq(C) /\ Len(q) = m + 1 /\ q[m + 1] = "%"
      /\ \A j \in 1..m : q[j] = E[j]
  BY <1>1, AppendProperties
<1>3. Extends(q, E)
  BY <1>1, <1>2 DEF Extends
<1>4. PICK places : /\ Like(key, q) <=> 1 \in places[1]
                    /\ \A j \in 1 .. Len(q) + 1 : places[j] = Places(key, q, places, j)
  BY <1>2, PlacesExist
<1>5. Like(key, q) <=> BeginsFolded(key, prefix) /\ Len(prefix) + 1 \in places[m + 1]
  BY <1>2, <1>3, <1>4, PrefixMatches DEF LeavesTheRest
<1> HIDE DEF E, m, L
<1>6. places[m + 2] = {L + 1}
  <2>1. m + 2 \in 1 .. Len(q) + 1 /\ m + 2 > Len(q)
    BY <1>1, <1>2
  <2>2. places[m + 2] = Places(key, q, places, m + 2)
    BY <1>4, <2>1
  <2> QED
    BY <2>1, <2>2 DEF Places, L
<1>7. places[m + 1] = {i \in 1 .. L + 1 : \E k \in places[m + 2] : i <= k}
  <2>1. m + 1 \in 1 .. Len(q) + 1 /\ ~(m + 1 > Len(q)) /\ (m + 1) + 1 = m + 2
    BY <1>1, <1>2
  <2>2. places[m + 1] = Places(key, q, places, m + 1)
    BY <1>4, <2>1
  <2>3. "%" # "_" /\ "%" # Backslash
    BY DEF Backslash
  <2> QED
    BY <1>2, <2>1, <2>2, <2>3 DEF Places, L
<1>8. Len(prefix) <= L => Len(prefix) + 1 \in places[m + 1]
  BY <1>1, <1>6, <1>7 DEF L
<1>9. Like(key, q) <=> BeginsFolded(key, prefix)
  BY <1>5, <1>8 DEF BeginsFolded, L
<1>10. Lists(prefix, key) <=> Like(key, q)
  BY DEF Lists, q, E
<1>11. StartsWith(key, prefix, SameFolded) <=> BeginsFolded(key, prefix)
  BY DEF StartsWith, SameFolded, BeginsFolded
<1> QED
  BY <1>9, <1>10, <1>11

====
