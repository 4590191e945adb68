--------------------------- MODULE AlertLoopProofs ---------------------------
(***************************************************************************)
(* What TLAPS proves of AlertLoop, for every value of its constants: any    *)
(* number of codes and of ticks in flight, and any capacity of the feed.    *)
(***************************************************************************)
EXTENDS AlertLoop, FiniteSetTheorems, SequenceTheorems, TLAPS

USE DEF process, disk, slack, vars

\* The actions, one by one: what a proof about Next has to go through.
LEMMA NextCases ==
  ASSUME [Next]_vars
  PROVE  \/ Listen \/ Close \/ Exit \/ Kill \/ Change
         \/ \E t \in Ticks : Begin(t)
         \/ \E t \in Slots : \/ CheckFails(t) \/ Apply(t) \/ Write(t)
                             \/ Rename(t) \/ SaveFails(t) \/ Post(t)
                             \/ PostFails(t)
         \/ UNCHANGED vars
  BY DEF Next, Step, Save

-----------------------------------------------------------------------------
(* Events *)

Levels == [Codes -> 0 .. 2]
Event  == [code : Codes, severity : 0 .. 2]

LEMMA CodesAreFinite == IsFiniteSet(Codes)
<1>1. IsFiniteSet({Unreachable})
  BY FS_Singleton
<1>2. IsFiniteSet({Unreachable} \cup EngineCodes)
  BY <1>1, ConstantsOK, FS_Union
<1> QED
  BY <1>2, ConstantsOK, FS_Union DEF Codes

\* SetToSeq lists each element of a finite set, and each once.
LEMMA SetToSeqLists ==
  ASSUME NEW S, IsFiniteSet(S)
  PROVE  /\ SetToSeq(S) \in Seq(S)
         /\ \A i, j \in DOMAIN SetToSeq(S) : SetToSeq(S)[i] = SetToSeq(S)[j] => i = j
         /\ \A x \in S : \E i \in DOMAIN SetToSeq(S) : SetToSeq(S)[i] = x
<1> DEFINE n == Cardinality(S)
           f == SetToSeq(S)
<1>1. n \in Nat /\ \E g \in [1 .. n -> S] : IsInjective(g)
  BY FS_CardinalityType DEF ExistsBijection, Bijection, Injection
<1>2. f \in [1 .. n -> S] /\ IsInjective(f)
  BY <1>1 DEF SetToSeq
<1>3. f \in Injection(1 .. n, S)
  BY <1>2 DEF Injection
<1>4. Cardinality(1 .. n) = n
  BY <1>1, FS_Interval
<1>5. f \in Surjection(1 .. n, S)
  BY <1>3, <1>4, FS_Injection
<1> HIDE DEF n, f
<1>6. f \in Seq(S)
  BY <1>1, <1>2
<1>7. /\ DOMAIN f = 1 .. n
      /\ \A i, j \in 1 .. n : f[i] = f[j] => i = j
      /\ \A x \in S : \E i \in 1 .. n : f[i] = x
  BY <1>2, <1>5 DEF IsInjective, Surjection
<1> QED
  BY <1>6, <1>7 DEF f

\* The events of a set of codes: one for each code, with its severity.
LEMMA EventsOfSet ==
  ASSUME NEW now \in Levels, NEW C \in SUBSET Codes
  PROVE  LET E == EventsOf(C, now)
         IN /\ E \in Seq(Event)
            /\ \A i \in 1 .. Len(E) : E[i].code \in C /\ E[i].severity = now[E[i].code]
            /\ \A i, j \in 1 .. Len(E) : E[i].code = E[j].code => i = j
            /\ \A c \in C : \E i \in 1 .. Len(E) : E[i].code = c
<1> DEFINE S == {[code |-> c, severity |-> now[c]] : c \in C}
           g == [c \in C |-> [code |-> c, severity |-> now[c]]]
           E == EventsOf(C, now)
<1>1. IsFiniteSet(S)
  <2>1. IsFiniteSet(C)
    BY CodesAreFinite, FS_Subset
  <2>2. g \in Surjection(C, S)
    BY DEF Surjection
  <2> QED
    BY <2>1, <2>2, FS_Surjection
<1>2. /\ E \in Seq(S)
      /\ \A i, j \in DOMAIN E : E[i] = E[j] => i = j
      /\ \A x \in S : \E i \in DOMAIN E : E[i] = x
  BY <1>1, SetToSeqLists DEF EventsOf
<1>3. \A x \in S : x \in Event /\ x.code \in C /\ x.severity = now[x.code]
  BY DEF Levels, Event
<1>4. ASSUME NEW x \in S, NEW y \in S, x.code = y.code
      PROVE  x = y
  <2>1. PICK c \in C : x = [code |-> c, severity |-> now[c]]
    OBVIOUS
  <2>2. PICK d \in C : y = [code |-> d, severity |-> now[d]]
    OBVIOUS
  <2>3. c = d
    BY <1>4, <2>1, <2>2
  <2> QED
    BY <2>1, <2>2, <2>3
<1>5. ASSUME NEW c \in C
      PROVE  \E x \in S : x.code = c
  <2>1. [code |-> c, severity |-> now[c]] \in S
    OBVIOUS
  <2> QED
    BY <2>1
<1> HIDE DEF S, g, E
<1>6. DOMAIN E = 1 .. Len(E) /\ Len(E) \in Nat /\ \A i \in 1 .. Len(E) : E[i] \in S
  BY <1>2
<1>7. E \in Seq(Event)
  BY <1>3, <1>6, IsASeq, <1>2, SeqMonotonic
<1>8. \A i, j \in 1 .. Len(E) : E[i].code = E[j].code => i = j
  BY <1>2, <1>4, <1>6
<1>9. \A c \in C : \E i \in 1 .. Len(E) : E[i].code = c
  BY <1>2, <1>5, <1>6
<1> QED
  BY <1>3, <1>6, <1>7, <1>8, <1>9 DEF E

\* A tick's events: one for each code that rose, appeared or went.
LEMMA DiffEvents ==
  ASSUME seen \in Levels, NEW now \in Levels
  PROVE  LET D == Diff(now)
         IN /\ D \in Seq(Event)
            /\ \A i \in 1 .. Len(D) :
                 /\ D[i].code \in Alerts(now) \cup Recovers(now)
                 /\ D[i].severity = now[D[i].code]
            /\ \A i, j \in 1 .. Len(D) : D[i].code = D[j].code => i = j
            /\ \A c \in Alerts(now) \cup Recovers(now) :
                 \E i \in 1 .. Len(D) : D[i].code = c
<1> DEFINE A == EventsOf(Alerts(now), now)
           R == EventsOf(Recovers(now), now)
           D == Diff(now)
<1>1. /\ Alerts(now) \in SUBSET Codes /\ Recovers(now) \in SUBSET Codes
      /\ Alerts(now) \cap Recovers(now) = {}
  BY DEF Alerts, Recovers, Levels
<1>2. /\ A \in Seq(Event)
      /\ \A i \in 1 .. Len(A) :
           A[i].code \in Alerts(now) /\ A[i].severity = now[A[i].code]
      /\ \A i, j \in 1 .. Len(A) : A[i].code = A[j].code => i = j
      /\ \A c \in Alerts(now) : \E i \in 1 .. Len(A) : A[i].code = c
  BY <1>1, EventsOfSet
<1>3. /\ R \in Seq(Event)
      /\ \A i \in 1 .. Len(R) :
           R[i].code \in Recovers(now) /\ R[i].severity = now[R[i].code]
      /\ \A i, j \in 1 .. Len(R) : R[i].code = R[j].code => i = j
      /\ \A c \in Recovers(now) : \E i \in 1 .. Len(R) : R[i].code = c
  BY <1>1, EventsOfSet
<1>4. D = A \o R
  BY DEF Diff
<1> HIDE DEF A, R, D
<1>5. /\ D \in Seq(Event) /\ Len(D) = Len(A) + Len(R)
      /\ \A i \in 1 .. Len(D) : D[i] = IF i <= Len(A) THEN A[i] ELSE R[i - Len(A)]
  BY <1>2, <1>3, <1>4, ConcatProperties
<1>6. Len(A) \in Nat /\ Len(R) \in Nat
  BY <1>2, <1>3
<1>7. \A i \in 1 .. Len(D) :
        \/ i \in 1 .. Len(A) /\ D[i] = A[i]
        \/ i - Len(A) \in 1 .. Len(R) /\ D[i] = R[i - Len(A)]
  BY <1>5, <1>6
<1>8. \A i \in 1 .. Len(D) :
        /\ D[i].code \in Alerts(now) \cup Recovers(now)
        /\ D[i].severity = now[D[i].code]
  BY <1>2, <1>3, <1>7, SMTT(30)
<1>9. ASSUME NEW i \in 1 .. Len(D), NEW j \in 1 .. Len(D), D[i].code = D[j].code
      PROVE  i = j
  <2>1. CASE i <= Len(A) /\ j <= Len(A)
    <3>1. /\ i \in 1 .. Len(A) /\ D[i] = A[i]
          /\ j \in 1 .. Len(A) /\ D[j] = A[j]
      BY <1>5, <1>6, <2>1
    <3> QED
      BY <1>2, <1>9, <3>1
  <2>2. CASE i > Len(A) /\ j > Len(A)
    <3>1. /\ i - Len(A) \in 1 .. Len(R) /\ D[i] = R[i - Len(A)]
          /\ j - Len(A) \in 1 .. Len(R) /\ D[j] = R[j - Len(A)]
      BY <1>5, <1>6, <2>2
    <3>2. i - Len(A) = j - Len(A)
      BY <1>3, <1>9, <3>1
    <3> QED
      BY <1>6, <3>2
  <2>3. CASE i <= Len(A) /\ j > Len(A)
    <3>1. /\ i \in 1 .. Len(A) /\ D[i] = A[i]
          /\ j - Len(A) \in 1 .. Len(R) /\ D[j] = R[j - Len(A)]
      BY <1>5, <1>6, <2>3
    <3>2. D[i].code \in Alerts(now) /\ D[j].code \in Recovers(now)
      BY <1>2, <1>3, <3>1
    <3> QED
      BY <1>1, <1>9, <3>2
  <2>4. CASE i > Len(A) /\ j <= Len(A)
    <3>1. /\ j \in 1 .. Len(A) /\ D[j] = A[j]
          /\ i - Len(A) \in 1 .. Len(R) /\ D[i] = R[i - Len(A)]
      BY <1>5, <1>6, <2>4
    <3>2. D[j].code \in Alerts(now) /\ D[i].code \in Recovers(now)
      BY <1>2, <1>3, <3>1
    <3> QED
      BY <1>1, <1>9, <3>2
  <2> QED
    BY <1>6, <2>1, <2>2, <2>3, <2>4
<1>10. ASSUME NEW c \in Alerts(now) \cup Recovers(now)
       PROVE  \E i \in 1 .. Len(D) : D[i].code = c
  <2>1. CASE c \in Alerts(now)
    <3>1. PICK i \in 1 .. Len(A) : A[i].code = c
      BY <1>2, <2>1
    <3>2. i \in 1 .. Len(D) /\ D[i] = A[i]
      BY <1>5, <1>6, <3>1
    <3> QED
      BY <3>1, <3>2
  <2>2. CASE c \in Recovers(now)
    <3>1. PICK i \in 1 .. Len(R) : R[i].code = c
      BY <1>3, <2>2
    <3> DEFINE j == i + Len(A)
    <3>2. j \in 1 .. Len(D) /\ ~ (j <= Len(A)) /\ j - Len(A) = i
      BY <1>5, <1>6, <3>1
    <3>3. D[j] = R[i]
      BY <1>5, <3>2
    <3> QED
      BY <3>1, <3>2, <3>3
  <2> QED
    BY <2>1, <2>2
<1> QED
  BY <1>5, <1>8, <1>9, <1>10 DEF D

\* The last events of a feed.
LEMMA LastOfIs ==
  ASSUME NEW S, NEW h \in Seq(S), NEW n \in Nat
  PROVE  LET k == Len(h) - Min2(Len(h), n)
         IN /\ k \in 0 .. Len(h)
            /\ LastOf(h, n) \in Seq(S)
            /\ Len(LastOf(h, n)) = Len(h) - k
            /\ Len(LastOf(h, n)) <= n
            /\ \A i \in 1 .. Len(h) - k : LastOf(h, n)[i] = h[k + i]
            /\ Len(h) <= n => LastOf(h, n) = h
<1> DEFINE m == Min2(Len(h), n)
<1>1. /\ Len(h) \in Nat /\ m \in 0 .. Len(h) /\ m <= n
      /\ Len(h) <= n => m = Len(h)
  BY DEF Min2
<1> HIDE DEF m
<1>2. LastOf(h, n) = SubSeq(h, Len(h) - m + 1, Len(h))
  BY DEF LastOf, m
<1>3. \A i \in Len(h) - m + 1 .. Len(h) : h[i] \in S
  BY <1>1
<1>4. /\ LastOf(h, n) \in Seq(S)
      /\ Len(LastOf(h, n)) = m
      /\ \A i \in 1 .. m : LastOf(h, n)[i] = h[Len(h) - m + i]
  <2> DEFINE a == Len(h) - m + 1
  <2>1. a \in Int /\ Len(h) - a + 1 = m /\ (a <= Len(h) \/ m = 0)
    BY <1>1
  <2>2. /\ SubSeq(h, a, Len(h)) \in Seq(S)
        /\ Len(SubSeq(h, a, Len(h))) = IF a <= Len(h) THEN Len(h) - a + 1 ELSE 0
        /\ \A i \in 1 .. Len(h) - a + 1 : SubSeq(h, a, Len(h))[i] = h[a + i - 1]
    BY <1>1, <1>3, <2>1, SubSeqProperties
  <2> QED
    BY <1>1, <1>2, <2>1, <2>2
<1>5. ASSUME Len(h) <= n PROVE LastOf(h, n) = h
  BY <1>1, <1>4, <1>5, SeqEqual
<1> QED
  BY <1>1, <1>4, <1>5 DEF m

-----------------------------------------------------------------------------
(* The feed *)

\* A recovery of a code that is seen has an alert after it.
AlertAfter(s, h) ==
  \A i \in DOMAIN h :
    h[i].severity = 0 /\ s[h[i].code] > 0 =>
      \E k \in i + 1 .. Len(h) : h[k].code = h[i].code /\ h[k].severity > 0

\* FeedMatches, and what it needs to last.
Feed(s, h) ==
  /\ s \in Levels /\ h \in Seq(Event)
  /\ FeedMatches(s, h)
  /\ AlertAfter(s, h)

LEMMA EmptyFeed == ASSUME NEW s \in Levels PROVE Feed(s, <<>>)
  BY DEF Feed, FeedMatches, AlertsBetween, AlertAfter

\* Dropping a feed's oldest events keeps it true.
LEMMA FeedCut ==
  ASSUME NEW s, NEW h, NEW n \in Nat, Feed(s, h)
  PROVE  Feed(s, LastOf(h, n))
<1> DEFINE k == Len(h) - Min2(Len(h), n)
           g == LastOf(h, n)
<1>1. /\ Len(h) \in Nat /\ DOMAIN h = 1 .. Len(h) /\ k \in 0 .. Len(h)
      /\ g \in Seq(Event) /\ Len(g) = Len(h) - k /\ DOMAIN g = 1 .. Len(g)
      /\ \A i \in 1 .. Len(g) : g[i] = h[k + i]
  BY LastOfIs DEF Feed
<1> HIDE DEF k, g
<1>2. \A i \in DOMAIN g : k + i \in DOMAIN h /\ g[i] = h[k + i] /\ i \in Nat
  BY <1>1
<1>3. \A i \in DOMAIN h : i > k => i - k \in DOMAIN g /\ g[i - k] = h[i]
  <2> SUFFICES ASSUME NEW i \in DOMAIN h, i > k
               PROVE  i - k \in DOMAIN g /\ g[i - k] = h[i]
    OBVIOUS
  <2>1. i - k \in DOMAIN g /\ k + (i - k) = i
    BY <1>1
  <2> QED
    BY <1>2, <2>1
<1>4. ASSUME NEW i \in DOMAIN g, IsLastWord(g, i)
      PROVE  /\ (s[g[i].code] > 0) <=> (g[i].severity > 0)
             /\ s[g[i].code] <= g[i].severity
  <2>1. IsLastWord(h, k + i)
    <3> SUFFICES ASSUME NEW j \in (k + i) + 1 .. Len(h)
                 PROVE  h[j].code # h[k + i].code
      BY DEF IsLastWord
    <3>1. j \in DOMAIN h /\ j > k /\ j - k \in i + 1 .. Len(g)
      BY <1>1
    <3> QED
      BY <1>2, <1>3, <1>4, <3>1 DEF IsLastWord
  <2> QED
    BY <1>2, <2>1 DEF Feed, FeedMatches
<1>5. AlertsBetween(g)
  <2> SUFFICES ASSUME NEW i \in DOMAIN g, NEW j \in DOMAIN g, i < j,
                      g[i].code = g[j].code, g[i].severity = 0, g[j].severity = 0
               PROVE  \E l \in i + 1 .. j - 1 : g[l].code = g[i].code /\ g[l].severity > 0
    BY DEF AlertsBetween
  <2>1. k + i < k + j /\ k + i \in Nat /\ k + j \in Nat
    BY <1>1, <1>2
  <2>2. PICK l \in (k + i) + 1 .. (k + j) - 1 :
          h[l].code = h[k + i].code /\ h[l].severity > 0
    BY <1>2, <2>1 DEF Feed, FeedMatches, AlertsBetween
  <2>3. l \in DOMAIN h /\ l > k /\ l - k \in i + 1 .. j - 1
    BY <1>1, <1>2, SMTT(30)
  <2> QED
    BY <1>2, <1>3, <2>2, <2>3
<1>6. AlertAfter(s, g)
  <2> SUFFICES ASSUME NEW i \in DOMAIN g, g[i].severity = 0, s[g[i].code] > 0
               PROVE  \E l \in i + 1 .. Len(g) : g[l].code = g[i].code /\ g[l].severity > 0
    BY DEF AlertAfter
  <2>1. PICK l \in (k + i) + 1 .. Len(h) :
          h[l].code = h[k + i].code /\ h[l].severity > 0
    BY <1>2 DEF Feed, AlertAfter
  <2>2. l \in DOMAIN h /\ l > k /\ l - k \in i + 1 .. Len(g)
    BY <1>1, <1>2
  <2> QED
    BY <1>2, <1>3, <2>1, <2>2
<1> QED
  BY <1>1, <1>4, <1>5, <1>6 DEF Feed, FeedMatches, g

\* A tick's events keep the feed true to what the tick has seen.
LEMMA FeedGrows ==
  ASSUME Feed(seen, history), NEW now \in Levels
  PROVE  Feed(now, history \o Diff(now))
<1> DEFINE D == Diff(now)
           g == history \o D
           n == Len(history)
<1>1. /\ D \in Seq(Event) /\ Len(D) \in Nat
      /\ \A i \in 1 .. Len(D) :
           /\ D[i].code \in Alerts(now) \cup Recovers(now)
           /\ D[i].severity = now[D[i].code]
      /\ \A i, j \in 1 .. Len(D) : D[i].code = D[j].code => i = j
      /\ \A c \in Alerts(now) \cup Recovers(now) : \E i \in 1 .. Len(D) : D[i].code = c
  BY DiffEvents DEF Feed
<1>2. /\ history \in Seq(Event) /\ n \in Nat /\ DOMAIN history = 1 .. n
  BY DEF Feed
<1> HIDE DEF D
<1>3. /\ g \in Seq(Event) /\ Len(g) = n + Len(D) /\ DOMAIN g = 1 .. n + Len(D)
      /\ \A i \in 1 .. n : i \in DOMAIN g /\ g[i] = history[i]
      /\ \A i \in 1 .. Len(D) : n + i \in DOMAIN g /\ g[n + i] = D[i]
  BY <1>1, <1>2, ConcatProperties
<1> HIDE DEF g, n
<1>4. \A i \in DOMAIN g :
        \/ i \in 1 .. n /\ g[i] = history[i]
        \/ \E j \in 1 .. Len(D) : i = n + j /\ g[i] = D[j]
  <2> SUFFICES ASSUME NEW i \in DOMAIN g, i > n
               PROVE  \E j \in 1 .. Len(D) : i = n + j /\ g[i] = D[j]
    BY <1>1, <1>2, <1>3
  <2>1. i - n \in 1 .. Len(D) /\ i = n + (i - n)
    BY <1>1, <1>2, <1>3
  <2> QED
    BY <1>3, <2>1
<1>5. \A i \in DOMAIN g : g[i].code \in Codes /\ g[i].severity \in 0 .. 2
  <2>1. \A i \in DOMAIN g : g[i] \in Event
    BY <1>3, ElementOfSeq
  <2> QED
    BY <2>1 DEF Event
<1>6. /\ \A c \in Codes : seen[c] \in 0 .. 2 /\ now[c] \in 0 .. 2
      /\ \A c \in Codes : c \in Alerts(now) <=> now[c] > seen[c]
      /\ \A c \in Codes : c \in Recovers(now) <=> seen[c] > 0 /\ now[c] = 0
  BY DEF Feed, Levels, Alerts, Recovers
<1>7. ASSUME NEW i \in DOMAIN g, IsLastWord(g, i)
      PROVE  /\ (now[g[i].code] > 0) <=> (g[i].severity > 0)
             /\ now[g[i].code] <= g[i].severity
  <2>1. CASE \E j \in 1 .. Len(D) : i = n + j /\ g[i] = D[j]
    BY <1>1, <1>5, <1>6, <2>1
  <2>2. CASE i \in 1 .. n /\ g[i] = history[i]
    <3> DEFINE c == history[i].code
    <3>1. IsLastWord(history, i)
      <4> SUFFICES ASSUME NEW j \in i + 1 .. n
                   PROVE  history[j].code # history[i].code
        BY DEF IsLastWord, n
      <4>1. j \in 1 .. n /\ j \in i + 1 .. Len(g)
        BY <1>1, <1>2, <1>3, <2>2
      <4> QED
        BY <1>3, <1>7, <2>2, <4>1 DEF IsLastWord
    <3>2. c \notin Alerts(now) \cup Recovers(now)
      <4> SUFFICES ASSUME NEW j \in 1 .. Len(D), D[j].code = c
                   PROVE  FALSE
        BY <1>1
      <4>1. n + j \in i + 1 .. Len(g) /\ g[n + j] = D[j]
        BY <1>1, <1>2, <1>3, <2>2
      <4> QED
        BY <1>7, <2>2, <4>1 DEF IsLastWord
    <3>3. /\ (seen[c] > 0) <=> (history[i].severity > 0)
          /\ seen[c] <= history[i].severity
      BY <1>2, <2>2, <3>1 DEF Feed, FeedMatches
    <3>4. c \in Codes /\ history[i].severity \in 0 .. 2
      BY <1>5, <2>2
    <3>5. ~ (now[c] > seen[c]) /\ ~ (seen[c] > 0 /\ now[c] = 0)
      BY <1>6, <3>2, <3>4
    <3> QED
      BY <1>6, <2>2, <3>3, <3>4, <3>5
  <2> QED
    BY <1>4, <2>1, <2>2
<1>8. AlertsBetween(g)
  <2> SUFFICES ASSUME NEW i \in DOMAIN g, NEW j \in DOMAIN g, i < j,
                      g[i].code = g[j].code, g[i].severity = 0, g[j].severity = 0
               PROVE  \E l \in i + 1 .. j - 1 : g[l].code = g[i].code /\ g[l].severity > 0
    BY DEF AlertsBetween
  <2>1. CASE j \in 1 .. n
    <3>1. i \in 1 .. n /\ g[i] = history[i] /\ g[j] = history[j]
      BY <1>2, <1>3, <2>1
    <3>2. PICK l \in i + 1 .. j - 1 :
            history[l].code = history[i].code /\ history[l].severity > 0
      BY <1>2, <2>1, <3>1 DEF Feed, FeedMatches, AlertsBetween
    <3>3. l \in 1 .. n
      BY <1>2, <2>1, <3>1
    <3> QED
      BY <1>3, <3>1, <3>2, <3>3
  <2>2. CASE j \notin 1 .. n
    <3>1. PICK b \in 1 .. Len(D) : j = n + b /\ g[j] = D[b]
      BY <1>4, <2>2
    <3>2. now[D[b].code] = 0 /\ seen[D[b].code] > 0
      BY <1>1, <1>5, <1>6, <3>1
    <3>3. i \in 1 .. n /\ g[i] = history[i]
      <4> SUFFICES ASSUME NEW a \in 1 .. Len(D), i = n + a, g[i] = D[a]
                   PROVE  FALSE
        BY <1>4
      <4>1. a = b
        BY <1>1, <3>1
      <4> QED
        BY <3>1, <4>1, <1>2
    <3>4. PICK l \in i + 1 .. n : history[l].code = history[i].code /\ history[l].severity > 0
      BY <1>2, <3>1, <3>2, <3>3 DEF Feed, AlertAfter, n
    <3>5. l \in 1 .. n /\ l \in i + 1 .. j - 1
      BY <1>2, <3>1, <3>3
    <3> QED
      BY <1>3, <3>3, <3>4, <3>5
  <2> QED
    BY <2>1, <2>2
<1>9. AlertAfter(now, g)
  <2> SUFFICES ASSUME NEW i \in DOMAIN g, g[i].severity = 0, now[g[i].code] > 0
               PROVE  \E l \in i + 1 .. Len(g) : g[l].code = g[i].code /\ g[l].severity > 0
    BY DEF AlertAfter
  <2>1. i \in 1 .. n /\ g[i] = history[i]
    BY <1>1, <1>4, <1>5, <1>6
  <2>2. CASE seen[g[i].code] > 0
    <3>1. PICK l \in i + 1 .. n : history[l].code = history[i].code /\ history[l].severity > 0
      BY <1>2, <2>1, <2>2 DEF Feed, AlertAfter, n
    <3>2. l \in 1 .. n /\ l \in i + 1 .. Len(g)
      BY <1>1, <1>2, <1>3, <2>1
    <3> QED
      BY <1>3, <2>1, <3>1, <3>2
  <2>3. CASE ~ (seen[g[i].code] > 0)
    <3>1. g[i].code \in Alerts(now)
      BY <1>5, <1>6, <2>3
    <3>2. PICK b \in 1 .. Len(D) : D[b].code = g[i].code
      BY <1>1, <3>1
    <3>3. n + b \in i + 1 .. Len(g) /\ g[n + b] = D[b] /\ D[b].severity > 0
      BY <1>1, <1>2, <1>3, <2>1, <3>2
    <3> QED
      BY <3>2, <3>3
  <2> QED
    BY <2>2, <2>3
<1> QED
  BY <1>3, <1>7, <1>8, <1>9 DEF Feed, FeedMatches, g, D

-----------------------------------------------------------------------------
(* Types *)

Labels == {"idle", "checked", "write", "rename", "post"}
Feeds  == {h \in Seq(Event) : Len(h) <= Cap}
Core   == [seen : Levels, history : Feeds]

TypeOK ==
  /\ world \in Levels /\ seen \in Levels /\ heard \in Levels /\ told \in Levels
  /\ up \in {"up", "closing", "down"}
  /\ pc \in [Slots -> Labels]
  /\ found \in [Slots -> Levels]
  /\ core \in [Slots -> Core \cup {NoState}]
  /\ news \in [Slots -> Seq(Event)]
  /\ history \in Feeds
  /\ streak \in Nat
  /\ lastCore \in Core \cup {NoState}
  /\ file \in Core \cup {NoState, Torn}
  /\ tmp \in Core \cup {NoState, Torn}
  /\ replayed \subseteq Codes
  /\ \A t \in Slots : pc[t] \in {"write", "rename"} => core[t] \in Core
  /\ \A t \in Slots : pc[t] = "post" => news[t] # <<>>

LEMMA CheckupTypes == ASSUME world \in Levels PROVE Checkup \in Levels
  BY DEF Checkup, Levels

LEMMA DebouncedTypes ==
  ASSUME NEW f \in Levels, NEW n \in Nat
  PROVE  Debounced(f, n) \in Levels
<1>1. f \in [Codes -> 0 .. 2] /\ 0 \in 0 .. 2
  BY DEF Levels
<1>2. [f EXCEPT ![Unreachable] = 0] \in [Codes -> 0 .. 2]
  BY <1>1, Zenon
<1> QED
  BY <1>1, <1>2 DEF Debounced, Levels

LEMMA StateTypes ==
  ASSUME NEW s \in Levels, NEW h \in Seq(Event)
  PROVE  State(s, h) \in Core
<1>1. LastOf(h, Cap) \in Feeds
  BY LastOfIs, ConstantsOK DEF Feeds
<1> QED
  BY <1>1 DEF State, Core

LEMMA QuietTypes == Quiet \in Levels
  BY DEF Quiet, Levels

LEMMA TypeInit == Init => TypeOK
<1> SUFFICES ASSUME Init PROVE TypeOK
  OBVIOUS
<1>1. <<>> \in Seq(Event) /\ <<>> \in Feeds
  BY ConstantsOK DEF Feeds
<1> QED
  BY <1>1, QuietTypes DEF Init, TypeOK, Labels

LEMMA TypeStep == TypeOK /\ [Next]_vars => TypeOK'
<1> SUFFICES ASSUME TypeOK, [Next]_vars PROVE TypeOK'
  OBVIOUS
<1> USE DEF TypeOK
<1>1. CASE Listen
  BY <1>1 DEF Listen, Core
<1>2. CASE Close
  <2>1. "close" \in Slots
    BY DEF Slots
  <2>2. State(seen, history) \in Core
    BY StateTypes DEF Feeds
  <2>3. StartSave("close", seen, history, <<>>)
    BY <1>2 DEF Close
  <2>4. /\ pc' \in [Slots -> Labels] /\ core' \in [Slots -> Core \cup {NoState}]
        /\ \A t \in Slots : pc'[t] \in {"write", "rename"} => core'[t] \in Core
        /\ \A t \in Slots : pc'[t] = "post" => pc[t] = "post"
    <3>1. AfterSave(<<>>) = "idle"
      BY DEF AfterSave
    <3>2. \/ pc' = [pc EXCEPT !["close"] = "idle"] /\ core' = core
          \/ /\ pc' = [pc EXCEPT !["close"] = "write"]
             /\ core' = [core EXCEPT !["close"] = State(seen, history)]
      BY <2>3, <3>1 DEF StartSave, Goto
    <3>3. CASE pc' = [pc EXCEPT !["close"] = "idle"] /\ core' = core
      BY <2>1, <3>3 DEF Labels
    <3>4. CASE /\ pc' = [pc EXCEPT !["close"] = "write"]
               /\ core' = [core EXCEPT !["close"] = State(seen, history)]
      BY <2>1, <2>2, <3>4 DEF Labels
    <3> QED
      BY <3>2, <3>3, <3>4
  <2>5. up' = "closing" /\ UNCHANGED <<world, found, news, seen, history, streak,
                                     lastCore, disk, slack>>
    BY <1>2 DEF Close
  <2> QED
    BY <2>4, <2>5
<1>3. CASE Exit \/ Kill
  <2>1. <<>> \in Seq(Event) /\ <<>> \in Feeds /\ 0 \in Nat
    BY ConstantsOK DEF Feeds
  <2>2. Gone
    BY <1>3 DEF Exit, Kill
  <2> QED
    BY <2>1, <2>2, QuietTypes DEF Gone, Labels
<1>4. CASE Change
  <2>1. world' \in Levels
    BY <1>4 DEF Change, Worlds, Levels
  <2>2. told' \in Levels
    BY <1>4, <2>1 DEF Change, Levels, Min2
  <2> QED
    BY <1>4, <2>1, <2>2 DEF Change
<1>5. ASSUME NEW t \in Ticks, Begin(t) PROVE TypeOK'
  <2>1. t \in Slots
    BY DEF Slots
  <2> QED
    BY <1>5, <2>1, CheckupTypes DEF Begin, Goto, Labels, Enter, Trouble
<1>6. ASSUME NEW t \in Slots, CheckFails(t) PROVE TypeOK'
  BY <1>6, QuietTypes DEF CheckFails, Goto, Labels
<1>7. ASSUME NEW t \in Slots, Apply(t) PROVE TypeOK'
  <2> DEFINE n   == NextStreak(found[t])
             now == Debounced(found[t], n)
             h   == LastOf(history \o Diff(now), Cap)
  <2>1. now \in Levels /\ n \in Nat
    <3>1. n \in Nat
      BY ConstantsOK DEF NextStreak, Min2
    <3> QED
      BY <3>1, DebouncedTypes
  <2>2. Diff(now) \in Seq(Event)
    BY <2>1, DiffEvents
  <2>3. h \in Seq(Event) /\ h \in Feeds
    <3>1. history \o Diff(now) \in Seq(Event)
      BY <2>2 DEF Feeds
    <3>2. Cap \in Nat
      BY ConstantsOK
    <3>3. h \in Seq(Event) /\ Len(h) <= Cap
      BY <3>1, <3>2, LastOfIs
    <3> HIDE DEF h
    <3> QED
      BY <3>3 DEF Feeds
  <2>4. State(now, h) \in Core
    BY <2>1, <2>3, StateTypes
  <2>5. /\ streak' = n /\ seen' = now /\ history' = h
        /\ news' = [news EXCEPT ![t] = Diff(now)]
        /\ found' = [found EXCEPT ![t] = Quiet]
        /\ StartSave(t, now, h, Diff(now))
        /\ UNCHANGED <<world, up, lastCore, disk, slack>>
    BY <1>7 DEF Apply
  <2> HIDE DEF n, now, h
  <2>6. /\ pc' \in [Slots -> Labels] /\ core' \in [Slots -> Core \cup {NoState}]
        /\ \A u \in Slots : pc'[u] \in {"write", "rename"} => core'[u] \in Core
        /\ \A u \in Slots : pc'[u] = "post" => news'[u] # <<>>
    BY <2>2, <2>4, <2>5 DEF StartSave, AfterSave, Goto, Labels
  <2> QED
    BY <2>1, <2>2, <2>3, <2>5, <2>6, QuietTypes
<1>8. ASSUME NEW t \in Slots, Write(t) PROVE TypeOK'
  BY <1>8 DEF Write, Goto, Labels
<1>9. ASSUME NEW t \in Slots, Rename(t) PROVE TypeOK'
  BY <1>9 DEF Rename, Goto, Labels, AfterSave
<1>10. ASSUME NEW t \in Slots, SaveFails(t) PROVE TypeOK'
  BY <1>10 DEF SaveFails, Trouble, Goto, Labels, AfterSave
<1>11. ASSUME NEW t \in Slots, Post(t) PROVE TypeOK'
  <2> DEFINE e == Head(news[t])
  <2>1. news[t] \in Seq(Event) /\ news[t] # <<>>
    BY <1>11 DEF Post
  <2>2. e \in Event /\ Tail(news[t]) \in Seq(Event)
    BY <2>1
  <2>3. e.code \in Codes /\ e.severity \in 0 .. 2
    BY <2>2 DEF Event
  <2> HIDE DEF e
  <2>4. Hears(e) /\ Advance(t, Tail(news[t]))
        /\ UNCHANGED <<world, up, found, core, seen, history, streak, lastCore, disk>>
    BY <1>11 DEF Post, e
  <2>5. heard' \in Levels /\ told' \in Levels /\ replayed' \subseteq Codes
    BY <2>3, <2>4 DEF Hears, Levels, Min2
  <2> QED
    BY <2>2, <2>4, <2>5 DEF Advance, AfterSave, Goto, Labels
<1>12. ASSUME NEW t \in Slots, PostFails(t) PROVE TypeOK'
  <2>1. news[t] \in Seq(Event) /\ news[t] # <<>>
    BY <1>12 DEF PostFails
  <2>2. Tail(news[t]) \in Seq(Event) /\ <<>> \in Seq(Event)
    BY <2>1
  <2>3. PICK left \in {Tail(news[t]), <<>>} : Advance(t, left)
    BY <1>12 DEF PostFails
  <2>4. UNCHANGED <<world, up, found, core, seen, history, streak, lastCore,
                    disk, slack>>
    BY <1>12 DEF PostFails
  <2> QED
    BY <2>2, <2>3, <2>4 DEF Advance, AfterSave, Goto, Labels
<1>13. CASE UNCHANGED vars
  BY <1>13
<1> QED
  BY <1>1, <1>2, <1>3, <1>4, <1>5, <1>6, <1>7, <1>8, <1>9, <1>10, <1>11,
     <1>12, <1>13, NextCases

-----------------------------------------------------------------------------
(* The feed and the findings, in memory, on their way to the file, and in it *)

FeedOf(x) == x \in {NoState, Torn} \/ Feed(x.seen, x.history)

FeedInv ==
  /\ Feed(seen, history)
  /\ \A t \in Slots : FeedOf(core[t])
  /\ FeedOf(file)
  /\ FeedOf(tmp)

\* What a save is to write is as true as the memory it is taken from.
LEMMA StartSaveFeeds ==
  ASSUME TypeOK, NEW t \in Slots, NEW s, NEW h, NEW events, Feed(s, h),
         \A u \in Slots : FeedOf(core[u]),
         StartSave(t, s, h, events)
  PROVE  \A u \in Slots : FeedOf(core'[u])
<1>1. FeedOf(State(s, h))
  BY FeedCut, ConstantsOK DEF FeedOf, State
<1>2. core' = core \/ core' = [core EXCEPT ![t] = State(s, h)]
  BY DEF StartSave
<1> QED
  BY <1>1, <1>2 DEF TypeOK

LEMMA FeedInit == Init => FeedInv
<1> SUFFICES ASSUME Init PROVE FeedInv
  OBVIOUS
<1>1. Feed(seen, history)
  BY EmptyFeed, QuietTypes DEF Init
<1> QED
  BY <1>1 DEF Init, FeedInv, FeedOf

LEMMA FeedStep == TypeOK /\ FeedInv /\ [Next]_vars => FeedInv'
<1> SUFFICES ASSUME TypeOK, FeedInv, [Next]_vars PROVE FeedInv'
  OBVIOUS
<1> USE DEF FeedInv
<1>1. CASE Listen
  BY <1>1 DEF Listen, FeedOf
<1>2. CASE Close
  <2>1. "close" \in Slots
    BY DEF Slots
  <2>2. \A u \in Slots : FeedOf(core'[u])
    BY <1>2, <2>1, StartSaveFeeds DEF Close
  <2> QED
    BY <1>2, <2>2 DEF Close, FeedOf
<1>3. CASE Exit \/ Kill
  <2>1. Gone
    BY <1>3 DEF Exit, Kill
  <2>2. Feed(Quiet, <<>>)
    BY EmptyFeed, QuietTypes
  <2>3. Feed(seen', history')
    BY <2>1, <2>2 DEF Gone
  <2> QED
    BY <2>1, <2>3 DEF Gone, FeedOf
<1>4. ASSUME NEW t \in Slots, Apply(t) PROVE FeedInv'
  <2> DEFINE n   == NextStreak(found[t])
             now == Debounced(found[t], n)
             h   == LastOf(history \o Diff(now), Cap)
  <2>1. now \in Levels
    <3>1. n \in Nat
      BY ConstantsOK DEF NextStreak, Min2, TypeOK
    <3> QED
      BY <3>1, DebouncedTypes DEF TypeOK
  <2>2. Feed(now, h)
    BY <2>1, FeedGrows, FeedCut, ConstantsOK
  <2>3. /\ seen' = now /\ history' = h /\ UNCHANGED disk
        /\ StartSave(t, now, h, Diff(now))
    BY <1>4 DEF Apply
  <2> HIDE DEF n, now, h
  <2>4. \A u \in Slots : FeedOf(core'[u])
    BY <2>2, <2>3, StartSaveFeeds
  <2> QED
    BY <2>2, <2>3, <2>4 DEF FeedOf
<1>5. ASSUME NEW t \in Slots, Write(t) PROVE FeedInv'
  BY <1>5 DEF Write, FeedOf
<1>6. ASSUME NEW t \in Slots, Rename(t) PROVE FeedInv'
  BY <1>6 DEF Rename, FeedOf, TypeOK
<1>7. ASSUME NEW t \in Slots, SaveFails(t) PROVE FeedInv'
  BY <1>7 DEF SaveFails, FeedOf, TypeOK
<1>8. CASE \/ Change \/ \E t \in Ticks : Begin(t)
           \/ \E t \in Slots : CheckFails(t) \/ Post(t) \/ PostFails(t)
           \/ UNCHANGED vars
  <2>1. UNCHANGED <<seen, history, core, file, tmp>>
    BY <1>8 DEF Change, Begin, CheckFails, Post, PostFails
  <2> QED
    BY <2>1 DEF FeedOf
<1> QED
  BY <1>1, <1>2, <1>3, <1>4, <1>5, <1>6, <1>7, <1>8, NextCases

LEMMA TypeInvariant == Spec => []TypeOK
  BY TypeInit, TypeStep, PTL DEF Spec

\* The event feed and the map of seen findings tell one story, in memory and in
\* the file, whatever ticks overlap, saves fail and restarts fall between
\* (server.ts:158-175, alert-store.ts:36-77).
THEOREM FeedIsTrue == Spec => []FeedMatchesSeen
<1>1. Spec => []FeedInv
  BY FeedInit, FeedStep, TypeInvariant, PTL DEF Spec
<1>2. FeedInv => FeedMatchesSeen
  BY DEF FeedInv, FeedOf, Feed, FeedMatchesSeen
<1> QED
  BY <1>1, <1>2, PTL

-----------------------------------------------------------------------------
(* The slots *)

OneEach(events) ==
  \A j, k \in DOMAIN events : events[j].code = events[k].code => j = k

SlotInv ==
  /\ \A t \in Slots : pc[t] \in {"idle", "checked"} => news[t] = <<>>
  /\ \A t \in Slots : OneEach(news[t])
  /\ pc["close"] \in {"idle", "write", "rename"} /\ news["close"] = <<>>
  /\ up = "down" =>
       /\ lastCore = NoState /\ seen = Quiet /\ history = <<>>
       /\ \A t \in Slots : pc[t] = "idle"

LEMMA StateIs ==
  ASSUME NEW s, NEW h \in Feeds
  PROVE  State(s, h) = [seen |-> s, history |-> h]
  BY LastOfIs, ConstantsOK DEF State, Feeds

\* Where a save takes its slot.
LEMMA StartSaveCases ==
  ASSUME NEW t, NEW s, NEW h, NEW events, StartSave(t, s, h, events)
  PROVE  \/ /\ State(s, h) = lastCore
            /\ pc' = [pc EXCEPT ![t] = AfterSave(events)]
            /\ core' = core
         \/ /\ State(s, h) # lastCore
            /\ pc' = [pc EXCEPT ![t] = "write"]
            /\ core' = [core EXCEPT ![t] = State(s, h)]
  BY DEF StartSave, Goto

\* What a tick does when its checkup is back.
LEMMA ApplyIs ==
  ASSUME TypeOK, NEW t \in Slots, Apply(t)
  PROVE  \E now \in Levels :
           /\ t \in Ticks /\ pc[t] = "checked"
           /\ \A c \in Codes \ {Unreachable} : now[c] = found[t][c]
           /\ Diff(now) \in Seq(Event)
           /\ seen' = now
           /\ history' = LastOf(history \o Diff(now), Cap)
           /\ history' \in Feeds
           /\ news' = [news EXCEPT ![t] = Diff(now)]
           /\ found' = [found EXCEPT ![t] = Quiet]
           /\ StartSave(t, now, history', Diff(now))
           /\ UNCHANGED <<world, up, lastCore, file, tmp, heard, told, replayed,
                          mishaps>>
<1> DEFINE n   == NextStreak(found[t])
           now == Debounced(found[t], n)
           h   == LastOf(history \o Diff(now), Cap)
<1>1. n \in Nat
  BY ConstantsOK DEF NextStreak, Min2, TypeOK
<1>2. found[t] \in Levels
  BY DEF TypeOK
<1>3. now \in Levels
  BY <1>1, <1>2, DebouncedTypes
<1>4. Diff(now) \in Seq(Event)
  BY <1>3, DiffEvents DEF TypeOK
<1>5. h \in Feeds
  <2>1. history \o Diff(now) \in Seq(Event) /\ Cap \in Nat
    BY <1>4, ConstantsOK DEF TypeOK, Feeds
  <2>2. h \in Seq(Event) /\ Len(h) <= Cap
    BY <2>1, LastOfIs
  <2> HIDE DEF h
  <2> QED
    BY <2>2 DEF Feeds
<1>6. \A c \in Codes \ {Unreachable} : now[c] = found[t][c]
  BY <1>2 DEF Debounced, Levels
<1>7. /\ t \in Ticks /\ pc[t] = "checked"
      /\ seen' = now /\ history' = h
      /\ news' = [news EXCEPT ![t] = Diff(now)]
      /\ found' = [found EXCEPT ![t] = Quiet]
      /\ StartSave(t, now, h, Diff(now))
      /\ UNCHANGED <<world, up, lastCore, file, tmp, heard, told, replayed, mishaps>>
  BY DEF Apply
<1> HIDE DEF n, now
<1>8. h = history'
  BY <1>7
<1> QED
  BY <1>3, <1>4, <1>5, <1>6, <1>7, <1>8

LEMMA TailOfEvents ==
  ASSUME NEW events \in Seq(Event), events # <<>>, OneEach(events)
  PROVE  /\ Head(events) = events[1] /\ 1 \in DOMAIN events
         /\ Tail(events) \in Seq(Event) /\ OneEach(Tail(events))
         /\ \A j \in DOMAIN Tail(events) :
              /\ j + 1 \in DOMAIN events /\ Tail(events)[j] = events[j + 1]
              /\ Tail(events)[j].code # Head(events).code
         /\ \A j \in DOMAIN events : j # 1 =>
              j - 1 \in DOMAIN Tail(events) /\ Tail(events)[j - 1] = events[j]
<1> DEFINE T == Tail(events)
<1>1. /\ Len(events) \in Nat \ {0} /\ DOMAIN events = 1 .. Len(events)
      /\ T \in Seq(Event) /\ Len(T) = Len(events) - 1 /\ DOMAIN T = 1 .. Len(T)
      /\ \A j \in 1 .. Len(T) : T[j] = events[j + 1]
      /\ Head(events) = events[1]
  BY HeadTailProperties, LenProperties
<1> HIDE DEF T
<1>2. \A j \in DOMAIN T : j \in Nat /\ j + 1 \in DOMAIN events /\ T[j] = events[j + 1]
  BY <1>1
<1>3. OneEach(T)
  <2> SUFFICES ASSUME NEW j \in DOMAIN T, NEW k \in DOMAIN T, T[j].code = T[k].code
               PROVE  j = k
    BY DEF OneEach
  <2>1. j + 1 = k + 1
    BY <1>2 DEF OneEach
  <2> QED
    BY <1>2, <2>1
<1>4. ASSUME NEW j \in DOMAIN T PROVE T[j].code # Head(events).code
  <2>1. j + 1 # 1 /\ 1 \in DOMAIN events
    BY <1>1, <1>2
  <2> QED
    BY <1>1, <1>2, <2>1 DEF OneEach
<1>5. ASSUME NEW j \in DOMAIN events, j # 1
      PROVE  j - 1 \in DOMAIN T /\ T[j - 1] = events[j]
  <2>1. j - 1 \in DOMAIN T /\ (j - 1) + 1 = j
    BY <1>1, <1>5
  <2> QED
    BY <1>2, <2>1
<1> QED
  BY <1>1, <1>2, <1>3, <1>4, <1>5 DEF T

LEMMA SlotInit == Init => SlotInv
  BY DEF Init, SlotInv, OneEach, Slots

LEMMA SlotStep == TypeOK /\ SlotInv /\ [Next]_vars => SlotInv'
<1> SUFFICES ASSUME TypeOK, SlotInv, [Next]_vars PROVE SlotInv'
  OBVIOUS
<1> USE DEF SlotInv
<1>a. "close" \in Slots /\ Ticks \subseteq Slots /\ "close" \notin Ticks
  BY ConstantsOK DEF Slots
<1>b. OneEach(<<>>)
  BY DEF OneEach
<1>1. CASE Listen
  BY <1>1 DEF Listen
<1>2. CASE Close
  <2>1. StartSave("close", seen, history, <<>>) /\ up' = "closing" /\ news' = news
    BY <1>2 DEF Close
  <2>2. AfterSave(<<>>) = "idle"
    BY DEF AfterSave
  <2>3. pc' = [pc EXCEPT !["close"] = "idle"] \/ pc' = [pc EXCEPT !["close"] = "write"]
    BY <2>1, <2>2, StartSaveCases
  <2> QED
    BY <1>a, <2>1, <2>3 DEF TypeOK
<1>3. CASE Exit \/ Kill
  <2>1. Gone
    BY <1>3 DEF Exit, Kill
  <2> QED
    BY <1>a, <1>b, <2>1 DEF Gone
<1>4. ASSUME NEW t \in Ticks, Begin(t) PROVE SlotInv'
  BY <1>a, <1>4 DEF Begin, Goto, TypeOK
<1>5. ASSUME NEW t \in Slots, CheckFails(t) PROVE SlotInv'
  BY <1>a, <1>5 DEF CheckFails, Goto, TypeOK
<1>6. ASSUME NEW t \in Slots, Apply(t) PROVE SlotInv'
  <2>1. PICK now \in Levels :
          /\ t \in Ticks /\ pc[t] = "checked"
          /\ Diff(now) \in Seq(Event)
          /\ news' = [news EXCEPT ![t] = Diff(now)]
          /\ StartSave(t, now, history', Diff(now))
          /\ up' = up
    BY <1>6, ApplyIs
  <2>2. OneEach(Diff(now))
    <3>1. \A i, j \in 1 .. Len(Diff(now)) : Diff(now)[i].code = Diff(now)[j].code => i = j
      BY <2>1, DiffEvents DEF TypeOK
    <3>2. DOMAIN Diff(now) = 1 .. Len(Diff(now))
      BY <2>1
    <3> QED
      BY <3>1, <3>2 DEF OneEach
  <2>3. \/ pc' = [pc EXCEPT ![t] = AfterSave(Diff(now))]
        \/ pc' = [pc EXCEPT ![t] = "write"]
    BY <2>1, StartSaveCases
  <2>4. pc'[t] = "idle" => Diff(now) = <<>>
    BY <2>3 DEF AfterSave, TypeOK
  <2>5. pc'[t] # "checked" /\ up # "down"
    BY <2>1, <2>3 DEF AfterSave, TypeOK
  <2> QED
    BY <1>a, <2>1, <2>2, <2>3, <2>4, <2>5 DEF TypeOK
<1>7. ASSUME NEW t \in Slots, Write(t) PROVE SlotInv'
  BY <1>a, <1>7 DEF Write, Goto, TypeOK
<1>8. ASSUME NEW t \in Slots, Rename(t) \/ SaveFails(t) PROVE SlotInv'
  <2>1. /\ pc[t] \in {"write", "rename"} /\ up # "down"
        /\ pc' = [pc EXCEPT ![t] = AfterSave(news[t])]
        /\ UNCHANGED <<up, news, seen, history>>
    BY <1>8 DEF Rename, SaveFails, Goto
  <2> QED
    BY <1>a, <2>1 DEF AfterSave, TypeOK
<1>9. ASSUME NEW t \in Slots, Post(t) \/ PostFails(t) PROVE SlotInv'
  <2>1. pc[t] = "post" /\ t # "close" /\ up # "down"
    BY <1>9 DEF Post, PostFails
  <2>2. PICK left \in {Tail(news[t]), <<>>} : Advance(t, left)
    BY <1>9 DEF Post, PostFails
  <2>3. OneEach(left)
    <3>1. news[t] \in Seq(Event) /\ news[t] # <<>> /\ OneEach(news[t])
      BY <2>1 DEF TypeOK
    <3> QED
      BY <1>b, <3>1, TailOfEvents
  <2>4. /\ news' = [news EXCEPT ![t] = left]
        /\ pc' = [pc EXCEPT ![t] = AfterSave(left)]
        /\ up' = up
    BY <1>9, <2>2 DEF Advance, Goto, Post, PostFails
  <2> QED
    BY <1>a, <2>1, <2>3, <2>4 DEF AfterSave, TypeOK
<1>10. CASE Change \/ UNCHANGED vars
  BY <1>10 DEF Change
<1> QED
  BY <1>1, <1>2, <1>3, <1>4, <1>5, <1>6, <1>7, <1>8, <1>9, <1>10, NextCases

LEMMA SlotInvariant == Spec => [](TypeOK /\ SlotInv)
  BY SlotInit, SlotStep, TypeInvariant, PTL DEF Spec

\* Without overlapping ticks: one save at a time, of what is in memory, and
\* what the store takes for the last state written is in the file.
SaveInv ==
  "overlap" \notin mishaps =>
    /\ \A t, u \in Slots : pc[t] # "idle" /\ pc[u] # "idle" => t = u
    /\ \A t \in Slots : pc[t] \in {"write", "rename"} => core[t] = State(seen, history)
    /\ \A t \in Slots : pc[t] = "rename" => tmp = core[t]
    /\ up # "down" /\ lastCore # NoState => file = lastCore

LEMMA SaveInit == Init => SaveInv
  BY DEF Init, SaveInv

\* A slot that gets going beside another leaves a mark, and no mark is removed.
LEMMA Marks ==
  ASSUME [Next]_vars
  PROVE  mishaps \subseteq mishaps'
<1>1. ASSUME NEW t, Enter(t) PROVE mishaps \subseteq mishaps'
  BY <1>1 DEF Enter, Trouble
<1> QED
  BY <1>1, NextCases
  DEF Listen, Close, Exit, Kill, Gone, Change, Begin, CheckFails, Apply, Write,
      Rename, SaveFails, Post, PostFails, Trouble

LEMMA EnterAlone ==
  ASSUME NEW t, Enter(t), "overlap" \notin mishaps'
  PROVE  \A u \in Slots \ {t} : pc[u] = "idle"
  BY DEF Enter, Trouble

LEMMA SaveStep == TypeOK /\ SlotInv /\ SaveInv /\ [Next]_vars => SaveInv'
<1> SUFFICES ASSUME TypeOK, SlotInv, SaveInv, [Next]_vars, "overlap" \notin mishaps'
             PROVE  SaveInv'
  BY DEF SaveInv
<1>a. "close" \in Slots /\ Ticks \subseteq Slots /\ "close" \notin Ticks
  BY ConstantsOK DEF Slots
<1>b. /\ \A t, u \in Slots : pc[t] # "idle" /\ pc[u] # "idle" => t = u
      /\ \A t \in Slots : pc[t] \in {"write", "rename"} => core[t] = State(seen, history)
      /\ \A t \in Slots : pc[t] = "rename" => tmp = core[t]
      /\ up # "down" /\ lastCore # NoState => file = lastCore
  BY Marks DEF SaveInv
<1>c. UNCHANGED <<seen, history>> => State(seen', history') = State(seen, history)
  OBVIOUS
<1>d. up = "down" => lastCore = NoState /\ \A t \in Slots : pc[t] = "idle"
  BY DEF SlotInv
<1> USE DEF SaveInv
<1>1. CASE Listen
  BY <1>1, <1>d DEF Listen
<1>2. CASE Close
  <2>1. \A u \in Slots \ {"close"} : pc[u] = "idle"
    BY <1>2, EnterAlone DEF Close
  <2>2. /\ StartSave("close", seen, history, <<>>) /\ up # "down"
        /\ UNCHANGED <<file, tmp, lastCore, seen, history>>
    BY <1>2 DEF Close
  <2>3. AfterSave(<<>>) = "idle"
    BY DEF AfterSave
  <2>4. CASE pc' = [pc EXCEPT !["close"] = "idle"] /\ core' = core
    BY <1>a, <1>b, <1>c, <2>1, <2>2, <2>4 DEF TypeOK
  <2>5. CASE /\ pc' = [pc EXCEPT !["close"] = "write"]
             /\ core' = [core EXCEPT !["close"] = State(seen, history)]
    BY <1>a, <1>b, <1>c, <2>1, <2>2, <2>5 DEF TypeOK
  <2> QED
    BY <2>2, <2>3, <2>4, <2>5, StartSaveCases
<1>3. CASE Exit \/ Kill
  BY <1>3 DEF Exit, Kill, Gone
<1>4. ASSUME NEW t \in Ticks, Begin(t) PROVE SaveInv'
  <2>1. \A u \in Slots \ {t} : pc[u] = "idle"
    BY <1>4, EnterAlone DEF Begin
  <2>2. /\ t \in Slots /\ pc' = [pc EXCEPT ![t] = "checked"]
        /\ UNCHANGED <<up, core, seen, history, file, tmp, lastCore>>
    BY <1>a, <1>4 DEF Begin, Goto
  <2> QED
    BY <1>b, <1>c, <2>1, <2>2 DEF TypeOK
<1>5. ASSUME NEW t \in Slots, Apply(t) PROVE SaveInv'
  <2>1. PICK now \in Levels :
          /\ pc[t] = "checked"
          /\ seen' = now
          /\ StartSave(t, now, history', Diff(now))
          /\ UNCHANGED <<up, lastCore, file, tmp>>
    BY <1>5, ApplyIs
  <2>2. \A u \in Slots \ {t} : pc[u] = "idle"
    BY <1>b, <2>1
  <2>3. CASE pc' = [pc EXCEPT ![t] = AfterSave(Diff(now))] /\ core' = core
    BY <1>b, <2>1, <2>2, <2>3 DEF TypeOK, AfterSave
  <2>4. CASE /\ pc' = [pc EXCEPT ![t] = "write"]
             /\ core' = [core EXCEPT ![t] = State(now, history')]
    BY <1>b, <2>1, <2>2, <2>4 DEF TypeOK
  <2> QED
    BY <2>1, <2>3, <2>4, StartSaveCases
<1>6. ASSUME NEW t \in Slots, Write(t) PROVE SaveInv'
  BY <1>b, <1>c, <1>6 DEF Write, Goto, TypeOK
<1>7. ASSUME NEW t \in Slots, Rename(t) PROVE SaveInv'
  <2>1. /\ pc[t] = "rename" /\ tmp = core[t]
        /\ pc' = [pc EXCEPT ![t] = AfterSave(news[t])]
        /\ UNCHANGED <<up, seen, history>>
        /\ \A u \in Slots \ {t} : pc[u] = "idle"
    BY <1>b, <1>7 DEF Rename, Goto
  <2>2. file' = lastCore' \/ UNCHANGED <<file, lastCore>>
    BY <1>7, <2>1 DEF Rename
  <2> QED
    BY <1>b, <2>1, <2>2 DEF AfterSave, TypeOK
<1>8. ASSUME NEW t \in Slots, SaveFails(t) PROVE SaveInv'
  <2>1. /\ pc[t] \in {"write", "rename"}
        /\ pc' = [pc EXCEPT ![t] = AfterSave(news[t])]
        /\ UNCHANGED <<up, seen, history, file, lastCore>>
        /\ \A u \in Slots \ {t} : pc[u] = "idle"
    BY <1>b, <1>8 DEF SaveFails, Goto
  <2> QED
    BY <1>b, <2>1 DEF AfterSave, TypeOK
<1>9. ASSUME NEW t \in Slots, CheckFails(t) \/ Post(t) \/ PostFails(t)
      PROVE  SaveInv'
  <2>1. /\ pc[t] \in {"checked", "post"}
        /\ \E label \in {"idle", "post"} : pc' = [pc EXCEPT ![t] = label]
        /\ UNCHANGED <<up, core, seen, history, file, tmp, lastCore>>
    BY <1>9 DEF CheckFails, Post, PostFails, Advance, Goto, AfterSave
  <2> QED
    BY <1>b, <1>c, <2>1 DEF TypeOK
<1>10. CASE Change \/ UNCHANGED vars
  BY <1>b, <1>c, <1>10 DEF Change
<1> QED
  BY <1>1, <1>2, <1>3, <1>4, <1>5, <1>6, <1>7, <1>8, <1>9, <1>10, NextCases

LEMMA SaveInvariant == Spec => []SaveInv
  BY SaveInit, SaveStep, SlotInvariant, PTL DEF Spec

\* Unless ticks overlapped, what the store takes for the last state written is
\* what the file holds: a save it skips as unchanged loses nothing
\* (alert-store.ts:26, 62, 73).
THEOREM SkippedSavesAreOnDisk == Spec => []SkippedSaveIsOnDisk
<1>1. SaveInv => SkippedSaveIsOnDisk
  BY DEF SaveInv, SkippedSaveIsOnDisk
<1> QED
  BY <1>1, SaveInvariant, PTL

-----------------------------------------------------------------------------
(* What was announced *)

NoFile == file \in {NoState, Torn}
FileSeen    == IF NoFile THEN Quiet ELSE file.seen
FileHistory == IF NoFile THEN <<>> ELSE file.history

\* Without overlapping ticks and failing saves, nothing was announced that the
\* file does not show as seen, and what is still to post was not announced.
ToldInv ==
  mishaps \cap {"overlap", "save"} = {} =>
    /\ replayed \cap OtherCodes = {}
    /\ \A c \in OtherCodes :
         /\ told[c] <= world[c] /\ told[c] <= FileSeen[c]
         /\ up # "down" => told[c] <= seen[c]
         /\ \A t \in Slots : pc[t] = "checked" => told[c] <= found[t][c]
    /\ \A t \in Slots : pc[t] = "post" => FileSeen = seen
    /\ \A t \in Slots : \A j \in DOMAIN news[t] :
         LET e == news[t][j]
         IN e.code \in OtherCodes /\ e.severity > 0 =>
              told[e.code] < e.severity /\ e.severity <= seen[e.code]

LEMMA CoreIsAFile == ASSUME NEW x \in Core PROVE x \notin {NoState, Torn}
<1>1. x \in [seen : [Codes -> 0 .. 2],
             history : Seq([code : Codes, severity : 0 .. 2])]
  BY DEF Core, Feeds, Levels, Event
<1> QED
  BY <1>1, ConstantsOK

LEMMA FileTypes == ASSUME TypeOK PROVE FileSeen \in Levels /\ FileHistory \in Feeds
<1>1. <<>> \in Feeds
  BY ConstantsOK DEF Feeds
<1>2. CASE file \in Core
  BY <1>1, <1>2, QuietTypes DEF FileSeen, FileHistory, NoFile, Core
<1>3. CASE file \notin Core
  BY <1>1, <1>3, QuietTypes DEF FileSeen, FileHistory, NoFile, TypeOK
<1> QED
  BY <1>2, <1>3

\* Without overlap, the file holds the memory once a save is over.
LEMMA RenameIs ==
  ASSUME TypeOK, SlotInv, SaveInv, "overlap" \notin mishaps,
         NEW t \in Slots, Rename(t)
  PROVE  FileSeen' = seen /\ FileHistory' = history
<1>1. tmp = [seen |-> seen, history |-> history] /\ tmp \in Core
  BY StateIs DEF SaveInv, Rename, TypeOK
<1>2. file' = tmp
  BY <1>1, CoreIsAFile DEF Rename
<1> QED
  BY <1>1, <1>2, CoreIsAFile DEF FileSeen, FileHistory, NoFile

\* ... and so it does when the save is skipped.
LEMMA SkipIs ==
  ASSUME TypeOK, SaveInv, "overlap" \notin mishaps, up # "down",
         NEW s \in Levels, NEW h \in Feeds, State(s, h) = lastCore
  PROVE  FileSeen = s /\ FileHistory = h
<1>1. lastCore = [seen |-> s, history |-> h] /\ lastCore \in Core
  BY StateIs, StateTypes DEF Feeds
<1>2. file = lastCore
  BY <1>1, CoreIsAFile DEF SaveInv
<1> QED
  BY <1>1, <1>2, CoreIsAFile DEF FileSeen, FileHistory, NoFile

LEMMA ToldInit == Init => ToldInv
<1> SUFFICES ASSUME Init PROVE ToldInv
  OBVIOUS
<1>1. \A c \in OtherCodes : Quiet[c] = 0
  BY DEF Quiet, Codes
<1> QED
  BY <1>1 DEF Init, ToldInv, FileSeen, NoFile

LEMMA ToldStep ==
  TypeOK /\ SlotInv /\ SaveInv /\ ToldInv /\ [Next]_vars => ToldInv'
<1> SUFFICES ASSUME TypeOK, SlotInv, SaveInv, ToldInv, [Next]_vars,
                    mishaps' \cap {"overlap", "save"} = {}
             PROVE  ToldInv'
  BY DEF ToldInv
<1> DEFINE ToldBound(c) ==
             /\ told[c] <= world[c] /\ told[c] <= FileSeen[c]
             /\ up # "down" => told[c] <= seen[c]
             /\ \A t \in Slots : pc[t] = "checked" => told[c] <= found[t][c]
           Fresh(e) == e.code \in OtherCodes /\ e.severity > 0 =>
                         told[e.code] < e.severity /\ e.severity <= seen[e.code]
<1>a. /\ "overlap" \notin mishaps /\ "save" \notin mishaps
      /\ "overlap" \notin mishaps' /\ "save" \notin mishaps'
  BY Marks
<1>b. /\ replayed \cap OtherCodes = {}
      /\ \A c \in OtherCodes : ToldBound(c)
      /\ \A t \in Slots : pc[t] = "post" => FileSeen = seen
      /\ \A t \in Slots : \A j \in DOMAIN news[t] : Fresh(news[t][j])
  <2>1. mishaps \cap {"overlap", "save"} = {}
    BY <1>a
  <2> QED
    BY <2>1 DEF ToldInv
<1>c. /\ replayed' \cap OtherCodes = {}
      /\ \A c \in OtherCodes : ToldBound(c)'
      /\ \A t \in Slots : pc'[t] = "post" => FileSeen' = seen'
      /\ \A t \in Slots : \A j \in DOMAIN news'[t] : Fresh(news[t][j])'
      => ToldInv'
  BY DEF ToldInv
<1>d. /\ \A t, u \in Slots : pc[t] # "idle" /\ pc[u] # "idle" => t = u
      /\ \A t \in Slots : pc[t] = "idle" => news[t] = <<>>
      /\ up = "down" => seen = Quiet /\ \A t \in Slots : pc[t] = "idle"
  BY <1>a DEF SaveInv, SlotInv
<1>e. /\ OtherCodes \subseteq Codes
      /\ \A c \in OtherCodes : c \notin EngineCodes /\ c # Unreachable
  BY ConstantsOK DEF Codes
<1>f. file' = file => FileSeen' = FileSeen
  BY DEF FileSeen, NoFile
<1>g. FileSeen \in Levels /\ \A c \in OtherCodes :
        /\ told[c] \in 0 .. 2 /\ world[c] \in 0 .. 2 /\ seen[c] \in 0 .. 2
        /\ FileSeen[c] \in 0 .. 2 /\ Quiet[c] = 0
        /\ \A t \in Slots : found[t][c] \in 0 .. 2
  BY <1>e, FileTypes DEF TypeOK, Levels, Quiet
<1>h. "close" \in Slots /\ Ticks \subseteq Slots
  BY DEF Slots
<1>1. CASE Listen
  <2>1. /\ up' = "up" /\ seen' = FileSeen
        /\ UNCHANGED <<world, pc, found, news, file, told, replayed>>
    BY <1>1, <1>d DEF Listen, FileSeen, NoFile
  <2>2. \A t \in Slots : pc[t] = "idle" /\ news[t] = <<>>
    BY <1>1, <1>d DEF Listen
  <2> QED
    BY <1>b, <1>c, <1>f, <2>1, <2>2
<1>2. CASE Close
  <2>1. /\ up = "up" /\ up' = "closing"
        /\ UNCHANGED <<world, found, news, seen, file, told, replayed>>
        /\ StartSave("close", seen, history, <<>>)
    BY <1>2 DEF Close
  <2>2. AfterSave(<<>>) = "idle"
    BY DEF AfterSave
  <2>3. pc' = [pc EXCEPT !["close"] = "idle"] \/ pc' = [pc EXCEPT !["close"] = "write"]
    BY <2>1, <2>2, StartSaveCases
  <2>4. \A t \in Slots : pc'[t] \in {"checked", "post"} => pc'[t] = pc[t]
    BY <2>3 DEF TypeOK
  <2> QED
    BY <1>b, <1>c, <1>f, <2>1, <2>4
<1>3. CASE Exit \/ Kill
  <2>1. /\ up' = "down"
        /\ \A t \in Slots : pc'[t] = "idle" /\ news'[t] = <<>>
        /\ UNCHANGED <<world, file, told, replayed>>
    BY <1>3 DEF Exit, Kill, Gone
  <2> QED
    BY <1>b, <1>c, <1>f, <2>1
<1>4. CASE Change
  <2>1. /\ \A c \in OtherCodes : told'[c] = Min2(told[c], world'[c])
        /\ \A c \in OtherCodes : world'[c] \in 0 .. 2
        /\ UNCHANGED <<up, pc, found, news, seen, file, replayed>>
    BY <1>4, <1>e DEF Change, Worlds
  <2>2. \A c \in OtherCodes : told'[c] <= told[c] /\ told'[c] <= world'[c]
                              /\ told'[c] \in 0 .. 2
    BY <1>g, <2>1 DEF Min2
  <2>3. ASSUME NEW c \in OtherCodes PROVE ToldBound(c)'
    BY <1>b, <1>f, <1>g, <2>1, <2>2
  <2>4. ASSUME NEW t \in Slots, NEW j \in DOMAIN news[t] PROVE Fresh(news[t][j])'
    <3> DEFINE e == news[t][j]
    <3>1. e.severity \in 0 .. 2 /\ Fresh(e)
      <4>1. e \in Event
        BY ElementOfSeq, LenProperties DEF TypeOK
      <4> QED
        BY <1>b, <4>1 DEF Event
    <3>2. e' = e /\ seen' = seen
      BY <2>1
    <3> QED
      BY <1>g, <2>2, <3>1, <3>2
  <2> QED
    BY <1>b, <1>c, <1>f, <2>1, <2>3, <2>4
<1>5. ASSUME NEW t \in Ticks, Begin(t) PROVE ToldInv'
  <2>1. /\ t \in Slots /\ up = "up"
        /\ found' = [found EXCEPT ![t] = Checkup]
        /\ pc' = [pc EXCEPT ![t] = "checked"]
        /\ UNCHANGED <<world, up, news, seen, file, told, replayed>>
    BY <1>5, <1>h DEF Begin, Goto
  <2>2. \A c \in OtherCodes : Checkup[c] = world[c]
    BY <1>e DEF Checkup
  <2>3. ASSUME NEW c \in OtherCodes PROVE ToldBound(c)'
    BY <1>b, <1>f, <2>1, <2>2 DEF TypeOK
  <2> QED
    BY <1>b, <1>c, <1>f, <2>1, <2>3 DEF TypeOK
<1>6. ASSUME NEW t \in Slots, CheckFails(t) PROVE ToldInv'
  <2>1. /\ found' = [found EXCEPT ![t] = Quiet]
        /\ pc' = [pc EXCEPT ![t] = "idle"]
        /\ UNCHANGED <<world, up, news, seen, file, told, replayed>>
    BY <1>6 DEF CheckFails, Goto
  <2>2. ASSUME NEW c \in OtherCodes PROVE ToldBound(c)'
    BY <1>b, <1>f, <2>1 DEF TypeOK
  <2> QED
    BY <1>b, <1>c, <1>f, <2>1, <2>2 DEF TypeOK
<1>7. ASSUME NEW t \in Slots, Apply(t) PROVE ToldInv'
  <2>1. PICK now \in Levels :
          /\ pc[t] = "checked"
          /\ \A c \in Codes \ {Unreachable} : now[c] = found[t][c]
          /\ Diff(now) \in Seq(Event)
          /\ seen' = now
          /\ history' \in Feeds
          /\ news' = [news EXCEPT ![t] = Diff(now)]
          /\ found' = [found EXCEPT ![t] = Quiet]
          /\ StartSave(t, now, history', Diff(now))
          /\ UNCHANGED <<world, up, lastCore, file, told, replayed>>
    BY <1>7, ApplyIs
  <2>2. /\ up # "down"
        /\ \A u \in Slots \ {t} : pc[u] = "idle" /\ news[u] = <<>>
    BY <1>d, <2>1
  <2>3. \/ /\ pc' = [pc EXCEPT ![t] = AfterSave(Diff(now))]
           /\ State(now, history') = lastCore
        \/ pc' = [pc EXCEPT ![t] = "write"]
    BY <2>1, StartSaveCases
  <2>4. \A u \in Slots : pc'[u] # "checked" /\ (pc'[u] = "post" => u = t)
    BY <2>2, <2>3 DEF TypeOK, AfterSave
  <2>5. \A c \in OtherCodes : told[c] <= now[c] /\ now[c] \in 0 .. 2
    BY <1>b, <1>e, <1>g, <2>1
  <2>6. pc'[t] = "post" => FileSeen = now
    <3> SUFFICES ASSUME pc'[t] = "post" PROVE FileSeen = now
      OBVIOUS
    <3>1. State(now, history') = lastCore
      BY <2>3 DEF TypeOK
    <3> QED
      BY <1>a, <2>1, <2>2, <3>1, SkipIs
  <2>7. ASSUME NEW j \in DOMAIN Diff(now), Diff(now)[j].code \in OtherCodes,
               Diff(now)[j].severity > 0
        PROVE  /\ told[Diff(now)[j].code] < Diff(now)[j].severity
               /\ Diff(now)[j].severity <= now[Diff(now)[j].code]
    <3> DEFINE c == Diff(now)[j].code
    <3>1. c \in Alerts(now) \cup Recovers(now) /\ Diff(now)[j].severity = now[c]
      <4>1. j \in 1 .. Len(Diff(now))
        BY <2>1
      <4> QED
        BY <4>1, DiffEvents DEF TypeOK
    <3>2. now[c] > seen[c]
      BY <2>7, <3>1 DEF Alerts, Recovers
    <3>3. told[c] <= seen[c]
      BY <1>b, <2>2, <2>7
    <3> QED
      BY <1>g, <2>5, <2>7, <3>1, <3>2, <3>3
  <2>8. ASSUME NEW c \in OtherCodes PROVE ToldBound(c)'
    BY <1>b, <1>f, <2>1, <2>4, <2>5
  <2>9. ASSUME NEW u \in Slots, NEW j \in DOMAIN news'[u] PROVE Fresh(news[u][j])'
    <3>1. CASE u = t
      BY <2>1, <2>7, <3>1 DEF TypeOK
    <3>2. CASE u # t
      <4>1. news'[u] = <<>>
        BY <2>1, <2>2, <3>2 DEF TypeOK
      <4> QED
        BY <4>1
    <3> QED
      BY <3>1, <3>2
  <2> QED
    BY <1>b, <1>c, <1>f, <2>1, <2>4, <2>6, <2>8, <2>9
<1>8. ASSUME NEW t \in Slots, Write(t) PROVE ToldInv'
  <2>1. /\ pc' = [pc EXCEPT ![t] = "rename"]
        /\ UNCHANGED <<world, up, found, news, seen, file, told, replayed>>
    BY <1>8 DEF Write, Goto
  <2>2. \A u \in Slots : pc'[u] \in {"checked", "post"} => pc'[u] = pc[u]
    BY <2>1 DEF TypeOK
  <2> QED
    BY <1>b, <1>c, <1>f, <2>1, <2>2
<1>9. ASSUME NEW t \in Slots, Rename(t) PROVE ToldInv'
  <2>1. FileSeen' = seen
    BY <1>9, <1>a, RenameIs
  <2>2. /\ pc' = [pc EXCEPT ![t] = AfterSave(news[t])]
        /\ pc[t] = "rename" /\ up # "down"
        /\ UNCHANGED <<world, up, found, news, seen, told, replayed>>
    BY <1>9, <1>d DEF Rename, Goto
  <2>3. \A u \in Slots : pc'[u] = "checked" => pc'[u] = pc[u]
    BY <2>2 DEF TypeOK, AfterSave
  <2> QED
    BY <1>b, <1>c, <2>1, <2>2, <2>3
<1>10. ASSUME NEW t \in Slots, SaveFails(t) PROVE ToldInv'
  BY <1>10, <1>a DEF SaveFails, Trouble
<1>11. ASSUME NEW t \in Slots, Post(t) PROVE ToldInv'
  <2> DEFINE e == Head(news[t])
  <2>1. /\ pc[t] = "post" /\ up # "down" /\ FileSeen = seen
        /\ Hears(e) /\ Advance(t, Tail(news[t]))
        /\ UNCHANGED <<world, up, found, seen, file>>
    BY <1>11, <1>b, <1>d DEF Post
  <2>2. news[t] \in Seq(Event) /\ news[t] # <<>> /\ OneEach(news[t])
    BY <2>1 DEF TypeOK, SlotInv
  <2>3. /\ e = news[t][1] /\ 1 \in DOMAIN news[t]
        /\ \A j \in DOMAIN Tail(news[t]) :
             /\ j + 1 \in DOMAIN news[t] /\ Tail(news[t])[j] = news[t][j + 1]
             /\ Tail(news[t])[j].code # e.code
    BY <2>2, TailOfEvents
  <2>4. Fresh(e) /\ e.code \in Codes /\ e.severity \in 0 .. 2
    <3>1. e \in Event
      BY <2>2
    <3> QED
      BY <1>b, <2>3, <3>1 DEF Event
  <2> HIDE DEF e
  <2>5. \A c \in Codes \ {e.code} : told'[c] = told[c]
    BY <2>1 DEF Hears, TypeOK, Levels
  <2>6. told'[e.code] = IF e.severity > told[e.code]
                        THEN Min2(e.severity, world[e.code]) ELSE told[e.code]
    BY <2>1, <2>4 DEF Hears, TypeOK, Levels
  <2>7. replayed' \cap OtherCodes = {}
    BY <1>b, <1>g, <2>1, <2>4 DEF Hears
  <2>8. ASSUME NEW c \in OtherCodes
        PROVE  told'[c] <= world[c] /\ told'[c] <= seen[c]
    <3>1. CASE c # e.code
      BY <1>b, <1>e, <2>1, <2>5, <3>1
    <3>2. CASE c = e.code
      BY <1>b, <1>g, <2>1, <2>4, <2>6, <3>2 DEF Min2
    <3> QED
      BY <3>1, <3>2
  <2>9. /\ news' = [news EXCEPT ![t] = Tail(news[t])]
        /\ pc' = [pc EXCEPT ![t] = AfterSave(Tail(news[t]))]
    BY <2>1 DEF Advance, Goto
  <2>10. \A u \in Slots : pc'[u] # "checked" /\ (u # t => news'[u] = <<>>)
    BY <1>d, <2>1, <2>9 DEF AfterSave, TypeOK
  <2>11. ASSUME NEW c \in OtherCodes PROVE ToldBound(c)'
    BY <1>f, <2>1, <2>8, <2>10
  <2>12. ASSUME NEW u \in Slots, NEW j \in DOMAIN news'[u] PROVE Fresh(news[u][j])'
    <3>1. CASE u = t
      <4>1. news'[u] = Tail(news[t])
        BY <2>9, <3>1 DEF TypeOK
      <4>2. Fresh(news'[u][j]) /\ news'[u][j].code # e.code
        BY <1>b, <2>3, <4>1
      <4>3. seen' = seen
        BY <2>1
      <4> QED
        BY <1>e, <2>5, <4>2, <4>3
    <3>2. CASE u # t
      <4>1. news'[u] = <<>>
        BY <2>10, <3>2
      <4> QED
        BY <4>1
    <3> QED
      BY <3>1, <3>2
  <2> QED
    BY <1>c, <1>f, <2>1, <2>7, <2>11, <2>12
<1>12. ASSUME NEW t \in Slots, PostFails(t) PROVE ToldInv'
  <2>1. PICK left \in {Tail(news[t]), <<>>} : Advance(t, left)
    BY <1>12 DEF PostFails
  <2>2. /\ pc[t] = "post"
        /\ UNCHANGED <<world, up, found, seen, file, told, replayed>>
    BY <1>12 DEF PostFails
  <2>3. /\ news' = [news EXCEPT ![t] = left]
        /\ pc' = [pc EXCEPT ![t] = AfterSave(left)]
    BY <2>1 DEF Advance, Goto
  <2>4. \A u \in Slots : /\ pc'[u] = "checked" => pc'[u] = pc[u]
                         /\ pc'[u] = "post" => pc[u] = "post"
    BY <2>2, <2>3 DEF AfterSave, TypeOK
  <2>5. news[t] \in Seq(Event) /\ news[t] # <<>> /\ OneEach(news[t])
    BY <2>2 DEF TypeOK, SlotInv
  <2>6. \A j \in DOMAIN left : j + 1 \in DOMAIN news[t] /\ left[j] = news[t][j + 1]
    BY <2>5, TailOfEvents, SMTT(30)
  <2>7. ASSUME NEW u \in Slots, NEW j \in DOMAIN news'[u] PROVE Fresh(news[u][j])'
    <3>1. Fresh(news'[u][j])
      BY <1>b, <2>3, <2>6 DEF TypeOK
    <3> QED
      BY <2>2, <3>1
  <2> QED
    BY <1>b, <1>c, <1>f, <2>2, <2>4, <2>7
<1>13. CASE UNCHANGED vars
  BY <1>13, <1>b, <1>c, <1>f
<1> QED
  BY <1>1, <1>2, <1>3, <1>4, <1>5, <1>6, <1>7, <1>8, <1>9, <1>10, <1>11,
     <1>12, <1>13, NextCases

LEMMA ToldInvariant == Spec => []ToldInv
  BY ToldInit, ToldStep, SlotInvariant, SaveInvariant, PTL DEF Spec

\* A finding that does not come from the engine is announced once however often
\* the console is restarted or killed, unless a save failed or ticks overlapped
\* (server.ts:111-117 restores, :175-180 saves before it posts).
THEOREM AnnouncedOnce == Spec => []ToldOnce
<1>1. ToldInv => ToldOnce
  BY DEF ToldInv, ToldOnce
<1> QED
  BY <1>1, ToldInvariant, PTL

-----------------------------------------------------------------------------
(* What Slack heard *)

\* Slack's last word on a code is the feed's.
HeardAll(h) ==
  \A i \in DOMAIN h : IsLastWord(h, i) => heard[h[i].code] = h[i].severity

\* With nothing gone wrong, what Slack has not heard of the feed is about to be
\* posted, and the file holds the feed but for what a save is about to write.
SlackInv ==
  mishaps = {} =>
    /\ up # "down" =>
         /\ \A i \in DOMAIN history : IsLastWord(history, i) =>
              \/ heard[history[i].code] = history[i].severity
              \/ \E t \in Slots : \E j \in DOMAIN news[t] : news[t][j] = history[i]
         /\ \A t \in Slots : \A j \in DOMAIN news[t] : \A i \in DOMAIN history :
              IsLastWord(history, i) /\ history[i].code = news[t][j].code =>
                history[i] = news[t][j]
         /\ \/ FileHistory = history
            \/ \E t \in Slots : pc[t] \in {"write", "rename"} /\ news[t] # <<>>
    /\ up = "down" => HeardAll(FileHistory)

\* A last word of a shortened feed was one before.
LEMMA CutLastWord ==
  ASSUME NEW h \in Seq(Event), NEW n \in Nat,
         NEW i \in DOMAIN LastOf(h, n), IsLastWord(LastOf(h, n), i)
  PROVE  \E k \in DOMAIN h : IsLastWord(h, k) /\ LastOf(h, n)[i] = h[k]
<1> DEFINE g == LastOf(h, n)
           a == Len(h) - Min2(Len(h), n)
<1>1. /\ Len(h) \in Nat /\ DOMAIN h = 1 .. Len(h) /\ a \in 0 .. Len(h)
      /\ Len(g) = Len(h) - a /\ DOMAIN g = 1 .. Len(g)
      /\ \A j \in 1 .. Len(g) : g[j] = h[a + j]
  BY LastOfIs
<1>2. i \in DOMAIN g /\ IsLastWord(g, i)
  OBVIOUS
<1> HIDE DEF g, a
<1>3. i \in Nat /\ a + i \in DOMAIN h /\ g[i] = h[a + i]
  BY <1>1, <1>2
<1>4. ASSUME NEW j \in (a + i) + 1 .. Len(h)
      PROVE  h[j].code # h[a + i].code
  <2>1. j - a \in i + 1 .. Len(g) /\ j - a \in 1 .. Len(g) /\ a + (j - a) = j
    BY <1>1, <1>3
  <2>2. g[j - a] = h[j]
    BY <1>1, <2>1
  <2> QED
    BY <1>2, <1>3, <2>1, <2>2 DEF IsLastWord
<1>5. IsLastWord(h, a + i)
  BY <1>4 DEF IsLastWord
<1> QED
  BY <1>3, <1>5 DEF g

\* A last word of a feed that grew is new, or was one before.
LEMMA GrownLastWord ==
  ASSUME NEW h \in Seq(Event), NEW d \in Seq(Event),
         NEW i \in DOMAIN (h \o d), IsLastWord(h \o d, i)
  PROVE  \/ \E j \in DOMAIN d : (h \o d)[i] = d[j]
         \/ \E k \in DOMAIN h :
              /\ IsLastWord(h, k) /\ (h \o d)[i] = h[k]
              /\ \A j \in DOMAIN d : d[j].code # h[k].code
<1> DEFINE g == h \o d
<1>1. /\ Len(h) \in Nat /\ DOMAIN h = 1 .. Len(h)
      /\ Len(d) \in Nat /\ DOMAIN d = 1 .. Len(d)
      /\ Len(g) = Len(h) + Len(d) /\ DOMAIN g = 1 .. Len(g)
      /\ \A j \in 1 .. Len(h) : g[j] = h[j]
      /\ \A j \in 1 .. Len(d) : g[Len(h) + j] = d[j]
  BY ConcatProperties, LenProperties
<1>2. i \in DOMAIN g /\ IsLastWord(g, i)
  OBVIOUS
<1> HIDE DEF g
<1>3. CASE i > Len(h)
  <2>1. i - Len(h) \in DOMAIN d /\ Len(h) + (i - Len(h)) = i
    BY <1>1, <1>2, <1>3
  <2>2. g[i] = d[i - Len(h)]
    BY <1>1, <2>1
  <2> QED
    BY <2>1, <2>2 DEF g
<1>4. CASE i <= Len(h)
  <2>1. i \in DOMAIN h /\ g[i] = h[i]
    BY <1>1, <1>2, <1>4
  <2>2. ASSUME NEW j \in i + 1 .. Len(h) PROVE h[j].code # h[i].code
    <3>1. j \in 1 .. Len(h) /\ j \in i + 1 .. Len(g)
      BY <1>1, <2>1
    <3> QED
      BY <1>1, <1>2, <2>1, <3>1 DEF IsLastWord
  <2>3. ASSUME NEW j \in DOMAIN d PROVE d[j].code # h[i].code
    <3>1. Len(h) + j \in i + 1 .. Len(g)
      BY <1>1, <2>1
    <3> QED
      BY <1>1, <1>2, <2>1, <3>1 DEF IsLastWord
  <2> QED
    BY <2>1, <2>2, <2>3 DEF IsLastWord, g
<1> QED
  BY <1>1, <1>2, <1>3, <1>4

LEMMA SlackInit == Init => SlackInv
  BY DEF Init, SlackInv, HeardAll, FileHistory, NoFile

LEMMA SlackStep ==
  TypeOK /\ SlotInv /\ SaveInv /\ SlackInv /\ [Next]_vars => SlackInv'
<1> SUFFICES ASSUME TypeOK, SlotInv, SaveInv, SlackInv, [Next]_vars,
                    mishaps' = {}
             PROVE  SlackInv'
  BY DEF SlackInv
<1> DEFINE HeardOrPending ==
             \A i \in DOMAIN history : IsLastWord(history, i) =>
               \/ heard[history[i].code] = history[i].severity
               \/ \E t \in Slots : \E j \in DOMAIN news[t] : news[t][j] = history[i]
           PendingIsLast ==
             \A t \in Slots : \A j \in DOMAIN news[t] : \A i \in DOMAIN history :
               IsLastWord(history, i) /\ history[i].code = news[t][j].code =>
                 history[i] = news[t][j]
           Saving == \E t \in Slots : pc[t] \in {"write", "rename"} /\ news[t] # <<>>
<1>a. mishaps = {} /\ "overlap" \notin mishaps /\ "overlap" \notin mishaps'
  BY Marks
<1>b. /\ up # "down" => HeardOrPending /\ PendingIsLast
                        /\ (FileHistory = history \/ Saving)
      /\ up = "down" => HeardAll(FileHistory)
  BY <1>a DEF SlackInv
<1>c. /\ up' # "down" => HeardOrPending' /\ PendingIsLast'
                         /\ (FileHistory' = history' \/ Saving')
      /\ up' = "down" => HeardAll(FileHistory)'
      => SlackInv'
  BY DEF SlackInv
<1>d. /\ \A t, u \in Slots : pc[t] # "idle" /\ pc[u] # "idle" => t = u
      /\ \A t \in Slots : pc[t] \in {"idle", "checked"} => news[t] = <<>>
      /\ \A t \in Slots : OneEach(news[t])
      /\ news["close"] = <<>>
      /\ up = "down" => history = <<>> /\ \A t \in Slots : pc[t] = "idle"
  BY <1>a DEF SaveInv, SlotInv
<1>e. file' = file => FileHistory' = FileHistory
  BY DEF FileHistory, NoFile
<1>h. "close" \in Slots /\ Ticks \subseteq Slots
  BY DEF Slots
<1>i. \A t \in Slots : news[t] = <<>> => DOMAIN news[t] = {}
  OBVIOUS
<1>1. CASE Listen
  <2>1. /\ up = "down" /\ up' = "up" /\ history' = FileHistory
        /\ UNCHANGED <<pc, news, file, heard>>
    BY <1>1, <1>d DEF Listen, FileHistory, NoFile
  <2>2. \A t \in Slots : DOMAIN news[t] = {}
    BY <1>d, <1>i, <2>1
  <2>3. HeardAll(FileHistory)
    BY <1>b, <2>1
  <2>4. HeardOrPending'
    BY <2>1, <2>3 DEF HeardAll
  <2>5. PendingIsLast'
    BY <2>1, <2>2
  <2> QED
    BY <1>c, <1>e, <2>1, <2>4, <2>5
<1>2. CASE Close
  <2>1. /\ up = "up" /\ up' = "closing"
        /\ UNCHANGED <<news, history, file, heard>>
    BY <1>2 DEF Close
  <2>2. \A u \in Slots \ {"close"} : pc[u] = "idle"
    BY <1>2, <1>a, EnterAlone DEF Close
  <2>3. ~ Saving
    BY <1>d, <2>2
  <2> QED
    BY <1>b, <1>c, <1>e, <2>1, <2>3
<1>3. CASE Exit \/ Kill
  <2>1. /\ up # "down" /\ up' = "down"
        /\ UNCHANGED <<file, heard>>
        /\ \A t \in Slots : news[t] = <<>>
    BY <1>3 DEF Exit, Kill, Gone
  <2>2. FileHistory = history /\ HeardOrPending
    BY <1>b, <2>1
  <2>3. HeardAll(FileHistory)
    BY <1>i, <2>1, <2>2 DEF HeardAll
  <2>4. HeardAll(FileHistory)'
    BY <1>e, <2>1, <2>3 DEF HeardAll
  <2> QED
    BY <1>c, <2>1, <2>4
<1>4. CASE Change \/ UNCHANGED vars
  <2>1. UNCHANGED <<up, pc, news, history, file, heard>>
    BY <1>4 DEF Change
  <2>2. HeardAll(FileHistory) => HeardAll(FileHistory)'
    BY <1>e, <2>1 DEF HeardAll
  <2> QED
    BY <1>b, <1>c, <1>e, <2>1, <2>2
<1>5. ASSUME NEW t \in Slots, Begin(t) \/ CheckFails(t) \/ Write(t) PROVE SlackInv'
  <2>1. /\ UNCHANGED <<up, news, history, file, heard>>
        /\ up # "down"
    BY <1>5, <1>d DEF Begin, CheckFails, Write
  <2>2. \/ pc[t] \in {"idle", "checked"} /\ \E l \in Labels : pc' = [pc EXCEPT ![t] = l]
        \/ pc' = [pc EXCEPT ![t] = "rename"]
    BY <1>5 DEF Begin, CheckFails, Write, Goto, Labels
  <2>3. Saving => Saving'
    <3> SUFFICES ASSUME NEW u \in Slots, pc[u] \in {"write", "rename"}, news[u] # <<>>
                 PROVE  pc'[u] \in {"write", "rename"}
      BY <2>1
    <3> QED
      BY <2>2 DEF TypeOK
  <2> QED
    BY <1>b, <1>c, <1>e, <2>1, <2>3
<1>6. ASSUME NEW t \in Slots, Apply(t) PROVE SlackInv'
  <2>1. PICK now \in Levels :
          /\ pc[t] = "checked"
          /\ Diff(now) \in Seq(Event)
          /\ history' = LastOf(history \o Diff(now), Cap)
          /\ history' \in Feeds
          /\ news' = [news EXCEPT ![t] = Diff(now)]
          /\ StartSave(t, now, history', Diff(now))
          /\ UNCHANGED <<up, lastCore, file, heard>>
    BY <1>6, ApplyIs
  <2> DEFINE D == Diff(now)
  <2>2. OneEach(D)
    <3>1. \A i, j \in 1 .. Len(D) : D[i].code = D[j].code => i = j
      BY DiffEvents DEF TypeOK
    <3>2. DOMAIN D = 1 .. Len(D)
      BY <2>1
    <3> QED
      BY <3>1, <3>2 DEF OneEach
  <2> HIDE DEF D
  <2>3. /\ D \in Seq(Event) /\ history \in Seq(Event) /\ Len(history) <= Cap
        /\ Cap \in Nat /\ history' = LastOf(history \o D, Cap)
        /\ news'[t] = D
    BY <2>1, ConstantsOK DEF D, TypeOK, Feeds
  <2>4. /\ up # "down" /\ ~ Saving
        /\ \A u \in Slots : news[u] = <<>>
        /\ \A u \in Slots \ {t} : news'[u] = <<>>
    BY <1>d, <2>1 DEF TypeOK
  <2>5. ASSUME NEW i \in DOMAIN history', IsLastWord(history', i)
        PROVE  \/ \E j \in DOMAIN D : history'[i] = D[j]
               \/ \E k \in DOMAIN history :
                    /\ IsLastWord(history, k) /\ history'[i] = history[k]
                    /\ \A j \in DOMAIN D : D[j].code # history[k].code
    <3>1. history \o D \in Seq(Event)
      BY <2>3
    <3>2. i \in DOMAIN LastOf(history \o D, Cap) /\ IsLastWord(LastOf(history \o D, Cap), i)
      <4>1. i \in DOMAIN history' /\ IsLastWord(history', i)
        BY <2>5
      <4> QED
        BY <2>3, <4>1
    <3>3. \E k \in DOMAIN (history \o D) :
            /\ IsLastWord(history \o D, k)
            /\ LastOf(history \o D, Cap)[i] = (history \o D)[k]
      <4> DEFINE g == history \o D
      <4>1. /\ g \in Seq(Event) /\ Cap \in Nat
            /\ i \in DOMAIN LastOf(g, Cap) /\ IsLastWord(LastOf(g, Cap), i)
        BY <2>3, <3>1, <3>2
      <4> HIDE DEF g
      <4>2. \E k \in DOMAIN g : IsLastWord(g, k) /\ LastOf(g, Cap)[i] = g[k]
        BY <4>1, CutLastWord
      <4> QED
        BY <4>2 DEF g
    <3>4. PICK k \in DOMAIN (history \o D) :
            IsLastWord(history \o D, k) /\ history'[i] = (history \o D)[k]
      BY <2>3, <3>3
    <3> QED
      BY <2>3, <3>4, GrownLastWord
  <2>6. HeardOrPending'
    <3> SUFFICES ASSUME NEW i \in DOMAIN history', IsLastWord(history', i)
                 PROVE  \/ heard'[history'[i].code] = history'[i].severity
                        \/ \E u \in Slots : \E j \in DOMAIN news'[u] :
                             news'[u][j] = history'[i]
      OBVIOUS
    <3>1. CASE \E j \in DOMAIN D : history'[i] = D[j]
      BY <2>3, <3>1
    <3>2. CASE \E k \in DOMAIN history :
                 IsLastWord(history, k) /\ history'[i] = history[k]
      BY <1>b, <1>i, <2>1, <2>4, <3>2
    <3> QED
      BY <2>5, <3>1, <3>2
  <2>7. PendingIsLast'
    <3> SUFFICES ASSUME NEW u \in Slots, NEW j \in DOMAIN news'[u],
                        NEW i \in DOMAIN history', IsLastWord(history', i),
                        history'[i].code = news'[u][j].code
                 PROVE  history'[i] = news'[u][j]
      OBVIOUS
    <3>1. u = t
      BY <2>4
    <3>2. j \in DOMAIN D /\ history'[i].code = D[j].code
      BY <2>3, <3>1
    <3>3. PICK l \in DOMAIN D : history'[i] = D[l]
      BY <2>5, <3>2
    <3>4. l = j
      BY <2>2, <3>2, <3>3 DEF OneEach
    <3> QED
      BY <2>3, <3>1, <3>3, <3>4
  <2>8. FileHistory' = history' \/ Saving'
    <3>1. CASE D = <<>>
      <4>1. history \o D = history
        BY <2>3, <3>1
      <4>2. history' = history
        BY <2>3, <4>1, LastOfIs
      <4> QED
        BY <1>b, <1>e, <2>1, <2>4, <4>2
    <3>2. CASE D # <<>>
      <4>1. CASE State(now, history') = lastCore
        <5>1. FileHistory = history'
          BY <1>a, <2>1, <2>4, <4>1, SkipIs
        <5> QED
          BY <1>e, <2>1, <5>1
      <4>2. CASE pc' = [pc EXCEPT ![t] = "write"]
        BY <2>3, <3>2, <4>2 DEF TypeOK
      <4> QED
        BY <2>1, <4>1, <4>2, StartSaveCases
    <3> QED
      BY <3>1, <3>2
  <2> QED
    BY <1>c, <2>1, <2>4, <2>6, <2>7, <2>8
<1>7. ASSUME NEW t \in Slots, Rename(t) PROVE SlackInv'
  <2>1. FileHistory' = history
    BY <1>7, <1>a, RenameIs
  <2>2. up # "down" /\ UNCHANGED <<up, news, history, heard>>
    BY <1>7, <1>d DEF Rename
  <2> QED
    BY <1>b, <1>c, <2>1, <2>2
<1>8. ASSUME NEW t \in Slots, SaveFails(t) \/ PostFails(t) PROVE SlackInv'
  BY <1>8 DEF SaveFails, PostFails, Trouble
<1>9. ASSUME NEW t \in Slots, Post(t) PROVE SlackInv'
  <2> DEFINE e == Head(news[t])
             T == Tail(news[t])
  <2>1. /\ pc[t] = "post" /\ up # "down"
        /\ Hears(e) /\ Advance(t, T)
        /\ UNCHANGED <<up, history, file>>
    BY <1>9, <1>d DEF Post
  <2>2. news[t] \in Seq(Event) /\ news[t] # <<>> /\ OneEach(news[t])
    BY <2>1 DEF TypeOK, SlotInv
  <2>3. /\ e = news[t][1] /\ 1 \in DOMAIN news[t]
        /\ \A j \in DOMAIN T : /\ j + 1 \in DOMAIN news[t] /\ T[j] = news[t][j + 1]
                               /\ T[j].code # e.code
        /\ \A j \in DOMAIN news[t] : j # 1 => j - 1 \in DOMAIN T /\ T[j - 1] = news[t][j]
    BY <2>2, TailOfEvents
  <2>4. e.code \in Codes
    <3>1. e \in Event
      BY <2>2
    <3> QED
      BY <3>1 DEF Event
  <2> HIDE DEF e, T
  <2>5. /\ heard'[e.code] = e.severity
        /\ \A c \in Codes \ {e.code} : heard'[c] = heard[c]
    BY <2>1, <2>4 DEF Hears, TypeOK, Levels
  <2>6. news'[t] = T /\ \A u \in Slots \ {t} : news'[u] = news[u] /\ news[u] = <<>>
    BY <1>d, <2>1 DEF Advance, TypeOK
  <2>7. \A i \in DOMAIN history : history[i].code \in Codes
    <3>1. \A i \in DOMAIN history : history[i] \in Event
      BY ElementOfSeq, LenProperties DEF TypeOK, Feeds
    <3> QED
      BY <3>1 DEF Event
  <2>8. HeardOrPending'
    <3> SUFFICES ASSUME NEW i \in DOMAIN history, IsLastWord(history, i)
                 PROVE  \/ heard'[history[i].code] = history[i].severity
                        \/ \E j \in DOMAIN T : T[j] = history[i]
      BY <2>1, <2>6
    <3>1. CASE history[i].code = e.code
      <4>1. history[i] = e
        BY <1>b, <2>1, <2>3, <3>1
      <4> QED
        BY <2>5, <4>1
    <3>2. CASE history[i].code # e.code
      <4>1. heard'[history[i].code] = heard[history[i].code]
        BY <2>5, <2>7, <3>2
      <4>2. ASSUME NEW u \in Slots, NEW j \in DOMAIN news[u], news[u][j] = history[i]
            PROVE  \E k \in DOMAIN T : T[k] = history[i]
        <5>1. u = t
          BY <1>i, <2>6
        <5>2. j # 1
          BY <2>3, <3>2, <4>2, <5>1
        <5> QED
          BY <2>3, <4>2, <5>1, <5>2
      <4> QED
        BY <1>b, <2>1, <4>1, <4>2
    <3> QED
      BY <3>1, <3>2
  <2>9. PendingIsLast'
    <3> SUFFICES ASSUME NEW u \in Slots, NEW j \in DOMAIN news'[u],
                        NEW i \in DOMAIN history, IsLastWord(history, i),
                        history[i].code = news'[u][j].code
                 PROVE  history[i] = news'[u][j]
      BY <2>1
    <3>1. u = t
      BY <2>6
    <3>2. j + 1 \in DOMAIN news[t] /\ news'[u][j] = news[t][j + 1]
      BY <2>3, <2>6, <3>1
    <3> QED
      BY <1>b, <2>1, <3>2
  <2>10. FileHistory' = history'
    <3>1. ~ Saving
      BY <1>d, <2>1
    <3> QED
      BY <1>b, <1>e, <2>1, <3>1
  <2> QED
    BY <1>c, <2>1, <2>8, <2>9, <2>10
<1> QED
  BY <1>1, <1>2, <1>3, <1>4, <1>5, <1>6, <1>7, <1>8, <1>9, <1>h, NextCases

LEMMA SlackInvariant == Spec => []SlackInv
  BY SlackInit, SlackStep, SlotInvariant, SaveInvariant, PTL DEF Spec

\* With no tick in flight and nothing gone wrong, Slack's last word on a code is
\* the feed's, across restarts (server.ts:175-180).
THEOREM SlackHearsTheFeed == Spec => []SlackMatchesFeed
<1>1. SlotInv /\ SlackInv => SlackMatchesFeed
  <2> SUFFICES ASSUME SlotInv, SlackInv, up = "up", mishaps = {},
                      \A t \in Ticks : pc[t] = "idle",
                      NEW i \in DOMAIN history, IsLastWord(history, i)
               PROVE  heard[history[i].code] = history[i].severity
    BY DEF SlackMatchesFeed
  <2>1. \A t \in Slots : news[t] = <<>>
    BY DEF SlotInv, Slots
  <2>2. \A t \in Slots : DOMAIN news[t] = {}
    BY <2>1
  <2> QED
    BY <2>2 DEF SlackInv
<1> QED
  BY <1>1, SlotInvariant, SlackInvariant, PTL
=============================================================================
