-------------------------- MODULE EventStreamProofs --------------------------
(***************************************************************************)
(* What is proved of EventStream for a log of any length, all bounds, and  *)
(* every interleaving of the daemon, the bridge and the page.              *)
(*                                                                         *)
(* Numbers is why the projection is what the database and the waiting list *)
(* hold, crashes and refusals included.  While no crash has taken an event *)
(* the database refused (Clean), every number given out is still in the    *)
(* log (CleanLog), so a new daemon goes on where the old one was, and      *)
(* nothing on its way to the page is ahead of the log (Flight).  While no  *)
(* run was joined up across a lost connection either (Plain), what reaches *)
(* the page has its number for its only word, and the page, that folds     *)
(* above the number it has reached, shows the words in order (OnScreen).   *)
(*                                                                         *)
(* That it shows all of them in the end is Arriving.  The log holds every  *)
(* word given out (Full); the page shows every word up to the number it    *)
(* has reached (Filled), and what it has not reached is somewhere          *)
(* (Covered): asked for or to be asked for by the page, among what it was  *)
(* answered or holds back, on the socket, or asked for or to be asked for  *)
(* by the bridge.  At rest none of these places is left, so the page has   *)
(* reached the end of the log.                                             *)
(***************************************************************************)
EXTENDS EventStream, SequenceLemmas, FiniteSetTheorems, SequenceTheorems

-----------------------------------------------------------------------------
(* Listed, number by number. *)

\* One number more of a list.
Step(f, s, k) == IF k \in DOMAIN f THEN Append(s, f[k]) ELSE s
\* g lists the values of f up to each number.
ListedTo(f, g, n) == g = [k \in 0..n |-> IF k = 0 THEN <<>> ELSE Step(f, g[k - 1], k)]

\* There is such a list up to every number.
LEMMA ListsExist ==
  ASSUME NEW f
  PROVE  \A n \in Nat : \E g : ListedTo(f, g, n)
<1> DEFINE T == {n \in Nat : \E g : ListedTo(f, g, n)}
<1>1. 0 \in T
  <2> DEFINE g == [k \in 0..0 |-> <<>>]
  <2>1. \A k \in 0..0 : k = 0
    OBVIOUS
  <2>2. g = [k \in 0..0 |-> IF k = 0 THEN <<>> ELSE Step(f, g[k - 1], k)]
    BY <2>1
  <2> QED BY <2>2 DEF ListedTo
<1>2. ASSUME NEW n \in Nat, n \in T PROVE n + 1 \in T
  <2>1. PICK g : ListedTo(f, g, n)
    BY <1>2
  <2> DEFINE last == Step(f, g[n], n + 1)
             h == [k \in 0..(n + 1) |-> IF k = n + 1 THEN last ELSE g[k]]
  <2>2. ASSUME NEW k \in 0..(n + 1)
        PROVE  h[k] = IF k = 0 THEN <<>> ELSE Step(f, h[k - 1], k)
    <3>1. CASE k = n + 1
      <4>1. k # 0 /\ k - 1 = n /\ n # n + 1 /\ n \in 0..(n + 1)
        BY <3>1
      <4>2. h[k] = last /\ h[n] = g[n]
        BY <3>1, <4>1
      <4> HIDE DEF h
      <4> QED BY <3>1, <4>1, <4>2
    <3>2. CASE k # n + 1
      <4>1. k \in 0..n /\ (k # 0 => k - 1 \in 0..(n + 1) /\ k - 1 # n + 1)
        BY <3>2
      <4>2. h[k] = g[k] /\ (k # 0 => h[k - 1] = g[k - 1])
        BY <3>2, <4>1
      <4>3. g[k] = IF k = 0 THEN <<>> ELSE Step(f, g[k - 1], k)
        BY <2>1, <4>1 DEF ListedTo
      <4> HIDE DEF h
      <4> QED BY <4>2, <4>3
    <3> QED BY <3>1, <3>2
  <2>3. h = [k \in 0..(n + 1) |-> h[k]]
    OBVIOUS
  <2>4. ListedTo(f, h, n + 1)
    <3> HIDE DEF h
    <3> QED BY <2>2, <2>3 DEF ListedTo
  <2> QED BY <2>4
<1> HIDE DEF T
<1>3. Nat \subseteq T
  BY <1>1, <1>2, SetInduction
<1> QED BY <1>3 DEF T

\* Two lists of what agrees up to m agree up to m.
LEMMA ListsAgree ==
  ASSUME NEW f, NEW e, NEW g, NEW h, NEW m \in Nat, NEW n \in Nat, m <= n,
         ListedTo(f, g, m), ListedTo(e, h, n),
         \A i \in 1..m : (i \in DOMAIN f <=> i \in DOMAIN e) /\ f[i] = e[i]
  PROVE  \A k \in 0..m : g[k] = h[k]
<1> DEFINE T == {k \in Nat : k \in 0..m => g[k] = h[k]}
<1>0. /\ \A k \in 0..m : g[k] = IF k = 0 THEN <<>> ELSE Step(f, g[k - 1], k)
      /\ \A k \in 0..n : h[k] = IF k = 0 THEN <<>> ELSE Step(e, h[k - 1], k)
  BY DEF ListedTo
<1>1. 0 \in T
  <2>1. 0 \in 0..m /\ 0 \in 0..n
    OBVIOUS
  <2> QED BY <1>0, <2>1
<1>2. ASSUME NEW k \in Nat, k \in T PROVE k + 1 \in T
  <2> SUFFICES ASSUME k + 1 \in 0..m PROVE g[k + 1] = h[k + 1]
    OBVIOUS
  <2>1. k \in 0..m /\ k + 1 \in 0..n /\ k + 1 # 0 /\ k + 1 - 1 = k /\ k + 1 \in 1..m
    OBVIOUS
  <2>2. g[k] = h[k] /\ f[k + 1] = e[k + 1] /\ (k + 1 \in DOMAIN f <=> k + 1 \in DOMAIN e)
    BY <1>2, <2>1
  <2>3. g[k + 1] = Step(f, g[k], k + 1) /\ h[k + 1] = Step(e, h[k], k + 1)
    BY <1>0, <2>1
  <2> QED BY <2>2, <2>3 DEF Step
<1> HIDE DEF T
<1>3. Nat \subseteq T
  BY <1>1, <1>2, SetInduction
<1> QED BY <1>3 DEF T

\* Listed is the last value of the list.
LEMMA ListedIsLast ==
  ASSUME NEW f, NEW n \in Nat
  PROVE  \E g : ListedTo(f, g, n) /\ Listed(f, n) = g[n]
<1> DEFINE Eqn(u) == u = [k \in 0..n |-> IF k = 0 THEN <<>>
                                         ELSE IF k \in DOMAIN f THEN Append(u[k - 1], f[k])
                                         ELSE u[k - 1]]
           upto == CHOOSE u : Eqn(u)
<1>1. \E u : Eqn(u)
  <2>1. PICK g : ListedTo(f, g, n)
    BY ListsExist
  <2>2. Eqn(g)
    BY <2>1 DEF ListedTo, Step
  <2> HIDE DEF Eqn
  <2> QED BY <2>2
<1>2. Eqn(upto)
  <2> HIDE DEF Eqn
  <2> QED BY <1>1
<1>3. Listed(f, n) = upto[n]
  BY DEF Listed
<1>4. ListedTo(f, upto, n)
  <2> HIDE DEF upto
  <2> QED BY <1>2 DEF ListedTo, Step
<1> QED BY <1>3, <1>4

\* Nothing listed up to 0; one number more is listed after the others.
LEMMA ListedNone == ASSUME NEW f PROVE Listed(f, 0) = <<>>
<1>1. PICK g : ListedTo(f, g, 0) /\ Listed(f, 0) = g[0]
  BY ListedIsLast
<1>2. 0 \in 0..0
  OBVIOUS
<1> QED BY <1>1, <1>2 DEF ListedTo

\* One number more is listed after the others.
LEMMA ListedMore ==
  ASSUME NEW f, NEW n \in Nat
  PROVE  Listed(f, n + 1) = Step(f, Listed(f, n), n + 1)
<1>1. PICK g : ListedTo(f, g, n) /\ Listed(f, n) = g[n]
  BY ListedIsLast
<1>2. PICK h : ListedTo(f, h, n + 1) /\ Listed(f, n + 1) = h[n + 1]
  <2>1. n + 1 \in Nat
    OBVIOUS
  <2> QED BY <2>1, ListedIsLast
<1>3. \A k \in 0..n : g[k] = h[k]
  <2>1. n + 1 \in Nat /\ n <= n + 1
    OBVIOUS
  <2> QED BY <1>1, <1>2, <2>1, ListsAgree
<1>4. n \in 0..n /\ n + 1 \in 0..(n + 1) /\ n + 1 # 0 /\ n + 1 - 1 = n
  OBVIOUS
<1>5. h[n + 1] = Step(f, h[n], n + 1)
  BY <1>2, <1>4 DEF ListedTo
<1> QED BY <1>1, <1>2, <1>3, <1>4, <1>5

\* What is listed up to n depends on the values up to n alone.
LEMMA ListedAlike ==
  ASSUME NEW f, NEW e, NEW n \in Nat,
         \A i \in 1..n : (i \in DOMAIN f <=> i \in DOMAIN e) /\ (i \in DOMAIN f => f[i] = e[i])
  PROVE  Listed(f, n) = Listed(e, n)
<1> DEFINE T == {k \in Nat : k \in 0..n => Listed(f, k) = Listed(e, k)}
<1>1. 0 \in T
  BY ListedNone
<1>2. ASSUME NEW k \in Nat, k \in T PROVE k + 1 \in T
  <2> SUFFICES ASSUME k + 1 \in 0..n PROVE Listed(f, k + 1) = Listed(e, k + 1)
    OBVIOUS
  <2>1. k \in 0..n /\ k + 1 \in 1..n
    OBVIOUS
  <2>2. Step(f, Listed(f, k), k + 1) = Step(e, Listed(f, k), k + 1)
    BY <2>1 DEF Step
  <2>3. Listed(f, k) = Listed(e, k)
    BY <1>2, <2>1
  <2> QED BY <2>2, <2>3, ListedMore
<1> HIDE DEF T
<1>3. n \in T
  BY <1>1, <1>2, SetInduction
<1>4. n \in 0..n
  OBVIOUS
<1> QED BY <1>3, <1>4 DEF T

\* What is listed: the values of f, in the order of their numbers.
Places(f, n, q, pos) ==
  /\ pos \in [DOMAIN q -> DOMAIN f \cap (1..n)]
  /\ \A i \in DOMAIN q : q[i] = f[pos[i]]
  /\ \A i, j \in DOMAIN q : i < j => pos[i] < pos[j]
  /\ \A d \in DOMAIN f \cap (1..n) : \E i \in DOMAIN q : pos[i] = d

\* What is listed has a place for every number of f, in order.
LEMMA ListedPlaces ==
  ASSUME NEW S, NEW f, NEW n \in Nat, \A d \in DOMAIN f \cap (1..n) : f[d] \in S
  PROVE  Listed(f, n) \in Seq(S) /\ \E pos : Places(f, n, Listed(f, n), pos)
<1> DEFINE Good(k) == Listed(f, k) \in Seq(S) /\ \E pos : Places(f, k, Listed(f, k), pos)
           T == {k \in Nat : k \in 0..n => Good(k)}
<1>1. 0 \in T
  <2>1. Listed(f, 0) = <<>> /\ <<>> \in Seq(S)
    BY ListedNone
  <2>2. DOMAIN <<>> = {} /\ 1..0 = {}
    OBVIOUS
  <2>3. Places(f, 0, <<>>, <<>>)
    BY <2>2 DEF Places
  <2> QED BY <2>1, <2>3
<1>2. ASSUME NEW k \in Nat, k \in T PROVE k + 1 \in T
  <2> SUFFICES ASSUME k + 1 \in 0..n PROVE Good(k + 1)
    OBVIOUS
  <2>1. k \in 0..n /\ k + 1 \in 1..n /\ 1..k \subseteq 1..(k + 1) /\ 1..(k + 1) = 1..k \cup {k + 1}
        /\ k + 1 \notin 1..k
    OBVIOUS
  <2> DEFINE q == Listed(f, k)
  <2>2. q \in Seq(S)
    BY <1>2, <2>1
  <2>3. PICK pos : Places(f, k, q, pos)
    BY <1>2, <2>1
  <2>4. Listed(f, k + 1) = Step(f, q, k + 1)
    BY ListedMore
  <2>5. CASE k + 1 \notin DOMAIN f
    <3>1. Listed(f, k + 1) = q
      BY <2>4, <2>5 DEF Step
    <3>2. DOMAIN f \cap (1..(k + 1)) = DOMAIN f \cap (1..k)
      BY <2>1, <2>5
    <3>3. Places(f, k + 1, q, pos)
      BY <2>3, <3>2 DEF Places
    <3> HIDE DEF q
    <3> QED BY <2>2, <3>1, <3>3
  <2>6. CASE k + 1 \in DOMAIN f
    <3> DEFINE r == Append(q, f[k + 1])
               p == [i \in 1..(Len(q) + 1) |-> IF i = Len(q) + 1 THEN k + 1 ELSE pos[i]]
    <3> HIDE DEF q
    <3>1. Listed(f, k + 1) = r
      BY <2>4, <2>6 DEF Step
    <3>2. f[k + 1] \in S
      BY <2>1, <2>6
    <3>3. /\ r \in Seq(S) /\ Len(q) \in Nat
          /\ DOMAIN r = 1..(Len(q) + 1) /\ DOMAIN q = 1..Len(q)
          /\ \A i \in 1..Len(q) : r[i] = q[i]
          /\ r[Len(q) + 1] = f[k + 1]
      BY <2>2, <3>2
    <3> DEFINE m == Len(q)
    <3>4. /\ \A i \in 1..m : i \in 1..(m + 1) /\ i # m + 1 /\ i < m + 1 /\ ~(m + 1 < i)
          /\ m + 1 \in 1..(m + 1) /\ ~(m + 1 < m + 1)
          /\ \A i \in 1..(m + 1) : i = m + 1 \/ i \in 1..m
          /\ \A x \in 1..k : x < k + 1
      BY <3>3
    <3> HIDE DEF r, m
    <3>5. p[m + 1] = k + 1 /\ \A i \in 1..m : p[i] = pos[i]
      BY <3>4 DEF m
    <3>6. DOMAIN p = 1..(m + 1)
      BY DEF m
    <3>6a. p = [i \in 1..(m + 1) |-> p[i]]
      BY DEF m
    <3> HIDE DEF p
    <3>7. /\ pos \in [1..m -> DOMAIN f \cap (1..k)]
          /\ \A i \in 1..m : q[i] = f[pos[i]]
          /\ \A i, j \in 1..m : i < j => pos[i] < pos[j]
          /\ \A d \in DOMAIN f \cap (1..k) : \E i \in 1..m : pos[i] = d
      BY <2>3, <3>3 DEF Places, m
    <3>8. DOMAIN r = 1..(m + 1) /\ (\A i \in 1..m : r[i] = q[i]) /\ r[m + 1] = f[k + 1]
      BY <3>3 DEF m
    <3>9. \A i \in 1..(m + 1) : p[i] \in DOMAIN f \cap (1..(k + 1)) /\ r[i] = f[p[i]]
      BY <2>1, <2>6, <3>4, <3>5, <3>7, <3>8
    <3>10. \A i, j \in 1..(m + 1) : i < j => p[i] < p[j]
      BY <3>4, <3>5, <3>7
    <3>11. ASSUME NEW d \in DOMAIN f \cap (1..(k + 1)) PROVE \E i \in 1..(m + 1) : p[i] = d
      <4>1. CASE d = k + 1
        BY <3>4, <3>5, <4>1
      <4>2. CASE d # k + 1
        <5>1. d \in DOMAIN f \cap (1..k)
          BY <2>1, <4>2
        <5> QED BY <5>1, <3>4, <3>5, <3>7
      <4> QED BY <4>1, <4>2
    <3>12. p \in [1..(m + 1) -> DOMAIN f \cap (1..(k + 1))]
      BY <3>6a, <3>9
    <3>13. Places(f, k + 1, r, p)
      BY <3>8, <3>9, <3>10, <3>11, <3>12 DEF Places
    <3> QED BY <3>1, <3>3, <3>13
  <2> QED BY <2>5, <2>6
<1> HIDE DEF T
<1>3. n \in T
  BY <1>1, <1>2, SetInduction
<1>4. n \in 0..n
  OBVIOUS
<1> QED BY <1>3, <1>4 DEF T

\* One element more after two sequences is one more after the second.
LEMMA ConcatOne ==
  ASSUME NEW S, NEW q \in Seq(S), NEW u \in Seq(S), NEW x \in S
  PROVE  Append(q \o u, x) = q \o (u \o <<x>>)
<1>1. <<x>> \in Seq(S) /\ q \o u \in Seq(S)
  OBVIOUS
<1>2. (q \o u) \o <<x>> = q \o (u \o <<x>>)
  BY <1>1, ConcatAssociative
<1>3. Append(q \o u, x) = (q \o u) \o <<x>>
  BY <1>1, AppendIsConcat
<1> QED BY <1>2, <1>3

\* A sequence and the first k of another, with the next of the other.
LEMMA ConcatMore ==
  ASSUME NEW S, NEW q \in Seq(S), NEW t \in Seq(S), NEW k \in Nat, k + 1 \in 0..Len(t)
  PROVE  Append(q \o SubSeq(t, 1, k), t[k + 1]) = q \o SubSeq(t, 1, k + 1)
<1>1. SubSeq(t, 1, k) \in Seq(S) /\ t[k + 1] \in S /\ <<t[k + 1]>> \in Seq(S)
  <2>1. \A i \in 1..k : t[i] \in S
    OBVIOUS
  <2>2. SubSeq(t, 1, k) \in Seq(S)
    BY <2>1, SubSeqProperties
  <2> QED BY <2>2
<1>2. SubSeq(t, 1, k + 1) = SubSeq(t, 1, k) \o <<t[k + 1]>>
  <2>1. 1 \in 1..Len(t) /\ k + 1 \in 1..Len(t) /\ k + 1 - 1 = k
    OBVIOUS
  <2> QED BY <2>1, SubSeqRecursiveSecond
<1> DEFINE u == SubSeq(t, 1, k)
           x == t[k + 1]
<1>3. u \in Seq(S) /\ x \in S
  BY <1>1
<1> HIDE DEF u, x
<1>4. Append(q \o u, x) = q \o (u \o <<x>>)
  BY <1>3, ConcatOne
<1> QED BY <1>2, <1>4 DEF u, x

\* What lies beyond m, all of it there, is listed last and as it is.
LEMMA ListedConcat ==
  ASSUME NEW S, NEW f, NEW m \in Nat, NEW t \in Seq(S), Listed(f, m) \in Seq(S),
         \A i \in 1..Len(t) : m + i \in DOMAIN f /\ f[m + i] = t[i]
  PROVE  Listed(f, m + Len(t)) = Listed(f, m) \o t
<1> DEFINE q == Listed(f, m)
           T == {k \in Nat : k \in 0..Len(t) => Listed(f, m + k) = q \o SubSeq(t, 1, k)}
<1>0. Len(t) \in Nat
  OBVIOUS
<1>1. 0 \in T
  <2>1. SubSeq(t, 1, 0) = <<>> /\ m + 0 = m
    OBVIOUS
  <2>2. q \o <<>> = q
    OBVIOUS
  <2> QED BY <2>1, <2>2
<1>2. ASSUME NEW k \in Nat, k \in T PROVE k + 1 \in T
  <2> SUFFICES ASSUME k + 1 \in 0..Len(t)
               PROVE  Listed(f, m + (k + 1)) = q \o SubSeq(t, 1, k + 1)
    OBVIOUS
  <2>1. k \in 0..Len(t) /\ k + 1 \in 1..Len(t) /\ m + k \in Nat /\ m + k + 1 = m + (k + 1)
    BY <1>0
  <2>2. Listed(f, m + k) = q \o SubSeq(t, 1, k)
    BY <1>2, <2>1
  <2>3. Listed(f, m + k + 1) = Step(f, Listed(f, m + k), m + k + 1)
    BY <2>1, ListedMore
  <2>4. m + k + 1 \in DOMAIN f /\ f[m + k + 1] = t[k + 1]
    BY <2>1
  <2>5. Listed(f, m + (k + 1)) = Append(q \o SubSeq(t, 1, k), t[k + 1])
    BY <2>1, <2>2, <2>3, <2>4 DEF Step
  <2>6. q \in Seq(S)
    OBVIOUS
  <2> QED BY <2>5, <2>6, ConcatMore
<1> HIDE DEF T
<1>3. Len(t) \in T
  BY <1>0, <1>1, <1>2, SetInduction
<1>4. Len(t) \in 0..Len(t) /\ SubSeq(t, 1, Len(t)) = t
  BY <1>0
<1> QED BY <1>3, <1>4 DEF T

-----------------------------------------------------------------------------
(* The shape of a log, and of what the window shows. *)

\* The highest number an event can have, with those a new daemon writes.
Top == MaxEvents + 2
\* The numbers of a log rise.
Ordered(s) == \A i, j \in DOMAIN s : i < j => s[i].seq < s[j].seq
\* Every number of a log is below n.
Below(s, n) == \A i \in DOMAIN s : s[i].seq < n
\* Every event of a log is as it was born: its number is its only word.
Single(s) == \A i \in DOMAIN s : s[i].words = {s[i].seq}
\* No event of a log holds a word of another: its words start at its own
\* number and end before the next event's; only deltas hold several.
Whole(s) ==
  \A i \in DOMAIN s :
    /\ s[i].seq \in s[i].words
    /\ \A w \in s[i].words : s[i].seq <= w
    /\ \A j \in DOMAIN s : i < j => \A w \in s[i].words : w < s[j].seq
    /\ s[i].kind # "delta" => s[i].words = {s[i].seq}
\* The words of a log stop at its last number.
Closed(s) == \A i \in DOMAIN s : \A w \in s[i].words : \E j \in DOMAIN s : w <= s[j].seq
\* What the window shows goes up to n, each fold above the ones before.
InOrder(sh, n) ==
  /\ \A i \in DOMAIN sh : \A a \in sh[i] : a <= n
  /\ \A i, j \in DOMAIN sh : i < j => \A a \in sh[i], b \in sh[j] : a < b

\* The assumption on the constants, taken apart.
LEMMA Bounds ==
  /\ MaxEvents \in Nat /\ OldEvents \in Nat /\ OldEvents <= MaxEvents
  /\ MaxRefuse \in Nat /\ MaxDrop \in Nat /\ MaxCrash \in Nat /\ MaxReload \in Nat
BY BoundsAssumption

\* The parts of an event.
LEMMA EventShape ==
  ASSUME NEW e \in Event
  PROVE  e.seq \in 1..Top /\ e.kind \in Kinds /\ e.words \in SUBSET (1..Top) /\ e.seq \in Nat
         /\ e.words \subseteq Nat
BY Bounds DEF Event, Top

\* The elements of a sequence.
LEMMA SeqShape ==
  ASSUME NEW S, NEW s \in Seq(S)
  PROVE  Len(s) \in Nat /\ DOMAIN s = 1..Len(s) /\ \A i \in DOMAIN s : s[i] \in S
OBVIOUS

\* The elements of two sequences, one after the other.
LEMMA ConcatShape ==
  ASSUME NEW S, NEW u \in Seq(S), NEW v \in Seq(S)
  PROVE  /\ u \o v \in Seq(S) /\ Len(u) \in Nat /\ Len(v) \in Nat
         /\ Len(u \o v) = Len(u) + Len(v)
         /\ DOMAIN u = 1..Len(u) /\ DOMAIN v = 1..Len(v) /\ DOMAIN (u \o v) = 1..(Len(u) + Len(v))
         /\ \A i \in DOMAIN u : i \in DOMAIN (u \o v) /\ (u \o v)[i] = u[i]
         /\ \A i \in DOMAIN v : Len(u) + i \in DOMAIN (u \o v) /\ (u \o v)[Len(u) + i] = v[i]
         /\ \A i \in DOMAIN (u \o v) : i \in DOMAIN u \/ \E j \in DOMAIN v : i = Len(u) + j
<1>1. /\ u \o v \in Seq(S) /\ Len(u \o v) = Len(u) + Len(v)
      /\ \A i \in 1..(Len(u) + Len(v)) : (u \o v)[i] = IF i <= Len(u) THEN u[i] ELSE v[i - Len(u)]
  BY ConcatProperties
<1>2. Len(u) \in Nat /\ Len(v) \in Nat /\ DOMAIN u = 1..Len(u) /\ DOMAIN v = 1..Len(v)
  OBVIOUS
<1>3. DOMAIN (u \o v) = 1..(Len(u) + Len(v))
  BY <1>1
<1> DEFINE m == Len(u)
           n == Len(v)
<1>4. m \in Nat /\ n \in Nat
  BY <1>2
<1> HIDE DEF m, n
<1>5. /\ \A i \in 1..m : i \in 1..(m + n) /\ i <= m
      /\ \A i \in 1..n : m + i \in 1..(m + n) /\ ~(m + i <= m) /\ m + i - m = i
      /\ \A i \in 1..(m + n) : i \in 1..m \/ (i - m \in 1..n /\ i = m + (i - m))
  BY <1>4
<1>6. \A i \in 1..(m + n) : (u \o v)[i] = IF i <= m THEN u[i] ELSE v[i - m]
  BY <1>1 DEF m, n
<1>7. \A i \in 1..m : (u \o v)[i] = u[i]
  BY <1>5, <1>6
<1>8. \A i \in 1..n : (u \o v)[m + i] = v[i]
  <2> SUFFICES ASSUME NEW i \in 1..n PROVE (u \o v)[m + i] = v[i]
    OBVIOUS
  <2> DEFINE x == m + i
  <2>1. x \in 1..(m + n) /\ ~(x <= m) /\ x - m = i
    BY <1>4
  <2> HIDE DEF x
  <2>2. (u \o v)[x] = v[x - m]
    BY <1>6, <2>1
  <2> QED BY <2>1, <2>2 DEF x
<1>9. \A i \in 1..(m + n) : i \in 1..m \/ \E j \in 1..n : i = m + j
  BY <1>5
<1> QED BY <1>1, <1>2, <1>3, <1>5, <1>7, <1>8, <1>9 DEF m, n

-----------------------------------------------------------------------------
(* What comes after a number. *)

\* a is what s has above n; pos says where.
Part(a, s, n, pos) ==
  /\ pos \in [DOMAIN a -> DOMAIN s]
  /\ \A i \in DOMAIN a : a[i] = s[pos[i]] /\ a[i].seq > n
  /\ \A i, j \in DOMAIN a : i < j => pos[i] < pos[j]
  /\ \A d \in DOMAIN s : s[d].seq > n => \E i \in DOMAIN a : pos[i] = d

\* What event.list answers is what the projection has after the number.
LEMMA AfterIsPart ==
  ASSUME NEW s \in Seq(Event), NEW n
  PROVE  After(s, n) \in Seq(Event) /\ \E pos : Part(After(s, n), s, n, pos)
<1> DEFINE D == {j \in DOMAIN s : s[j].seq > n}
           f == [i \in D |-> s[i]]
<1>1. /\ Len(s) \in Nat /\ DOMAIN s = 1..Len(s) /\ DOMAIN f = D
      /\ \A i \in DOMAIN s : s[i] \in Event
      /\ \A i \in D : f[i] = s[i]
  BY SeqShape
<1>2. After(s, n) = Listed(f, Len(s))
  BY DEF After
<1> HIDE DEF f
<1>3. D \cap (1..Len(s)) = D
  BY <1>1
<1>4. \A d \in DOMAIN f \cap (1..Len(s)) : f[d] \in Event
  BY <1>1
<1>5. Listed(f, Len(s)) \in Seq(Event) /\ \E pos : Places(f, Len(s), Listed(f, Len(s)), pos)
  BY <1>1, <1>4, ListedPlaces
<1> DEFINE a == Listed(f, Len(s))
<1>6. PICK pos : Places(f, Len(s), a, pos)
  BY <1>5
<1> HIDE DEF a
<1>7. /\ pos \in [DOMAIN a -> D]
      /\ \A i \in DOMAIN a : a[i] = f[pos[i]]
      /\ \A i, j \in DOMAIN a : i < j => pos[i] < pos[j]
      /\ \A d \in D : \E i \in DOMAIN a : pos[i] = d
  BY <1>1, <1>3, <1>6 DEF Places
<1>8. \A i \in DOMAIN a : pos[i] \in D /\ a[i] = s[pos[i]]
  BY <1>1, <1>7
<1>9. Part(a, s, n, pos)
  BY <1>7, <1>8 DEF Part
<1> QED BY <1>2, <1>5, <1>9 DEF a

\* Such an answer is as ordered and as whole as the log it comes from.
LEMMA PartKeeps ==
  ASSUME NEW s \in Seq(Event), NEW n \in Nat, NEW a \in Seq(Event), NEW pos, Part(a, s, n, pos)
  PROVE  /\ \A m \in Nat : Below(s, m) => Below(a, m)
         /\ Single(s) => Single(a)
         /\ Whole(s) => Whole(a)
         /\ Closed(s) => Closed(a)
<1>1. \A i \in DOMAIN a : pos[i] \in DOMAIN s /\ a[i] = s[pos[i]] /\ a[i].seq > n
  BY DEF Part
<1>2. \A i, j \in DOMAIN a : i < j => pos[i] < pos[j]
  BY DEF Part
<1>3. (\A m \in Nat : Below(s, m) => Below(a, m)) /\ (Single(s) => Single(a))
  BY <1>1 DEF Below, Single
<1>4. ASSUME Whole(s) PROVE Whole(a)
  BY <1>1, <1>2, <1>4 DEF Whole
<1>5. ASSUME Closed(s) PROVE Closed(a)
  <2> SUFFICES ASSUME NEW i \in DOMAIN a, NEW w \in a[i].words
               PROVE  \E j \in DOMAIN a : w <= a[j].seq
    BY DEF Closed
  <2>1. PICK d \in DOMAIN s : w <= s[d].seq
    BY <1>1, <1>5 DEF Closed
  <2>2. s[d].seq \in Nat /\ a[i].seq \in Nat /\ w \in Nat
    BY <2>1, EventShape, SeqShape
  <2>3. CASE s[d].seq > n
    <3>1. PICK j \in DOMAIN a : pos[j] = d
      BY <2>3 DEF Part
    <3> QED BY <1>1, <2>1, <3>1
  <2>4. CASE ~(s[d].seq > n)
    <3>1. a[i].seq > n
      BY <1>1
    <3>2. w <= a[i].seq
      BY <2>1, <2>2, <2>4, <3>1
    <3> QED BY <3>2
  <2> QED BY <2>3, <2>4
<1> QED BY <1>3, <1>4, <1>5

-----------------------------------------------------------------------------
(* Folding. *)

\* Where the page goes, whatever it is handed.
LEMMA FoldedShape ==
  ASSUME NEW st, NEW s \in Seq(Event), st.seq \in 0..Top, st.shown \in Seq(SUBSET (1..Top))
  PROVE  /\ Folded(st, s).seq \in 0..Top
         /\ Folded(st, s).shown \in Seq(SUBSET (1..Top))
         /\ st.seq <= Folded(st, s).seq
         /\ \A m \in Nat : Below(s, m) /\ st.seq < m => Folded(st, s).seq < m
<1> DEFINE new == After(s, st.seq)
           words == [i \in DOMAIN new |-> new[i].words]
<1>1. new \in Seq(Event) /\ \E pos : Part(new, s, st.seq, pos)
  BY AfterIsPart
<1>2. Folded(st, s).seq = (IF new = <<>> THEN st.seq ELSE LastSeq(new))
      /\ Folded(st, s).shown = st.shown \o words
  BY DEF Folded
<1>3. PICK pos : Part(new, s, st.seq, pos)
  BY <1>1
<1> HIDE DEF new
<1>4. Len(new) \in Nat /\ DOMAIN new = 1..Len(new) /\ \A i \in DOMAIN new : new[i] \in Event
  BY <1>1, SeqShape
<1>5. words \in Seq(SUBSET (1..Top))
  <2>1. \A i \in 1..Len(new) : new[i].words \in SUBSET (1..Top)
    BY <1>4, EventShape
  <2> QED BY <1>4, <2>1
<1>6. Folded(st, s).shown \in Seq(SUBSET (1..Top))
  <2> HIDE DEF words
  <2> QED BY <1>2, <1>5
<1>7. CASE new = <<>>
  BY <1>2, <1>6, <1>7, Bounds DEF Top
<1>8. CASE new # <<>>
  <2>1. Len(new) \in DOMAIN new
    BY <1>1, <1>4, <1>8
  <2>2. LastSeq(new) = new[Len(new)].seq
    BY <1>8 DEF LastSeq, Last
  <2>3. new[Len(new)].seq \in 1..Top /\ new[Len(new)].seq > st.seq /\ new[Len(new)].seq \in Nat
    BY <1>3, <1>4, <2>1, EventShape DEF Part
  <2>4. \A m \in Nat : Below(s, m) => Below(new, m)
    BY <1>1, <1>3, PartKeeps, Bounds DEF Top
  <2>5. \A m \in Nat : Below(s, m) => new[Len(new)].seq < m
    BY <2>1, <2>4 DEF Below
  <2> QED BY <1>2, <1>6, <1>8, <2>2, <2>3, <2>5, Bounds DEF Top
<1> QED BY <1>7, <1>8

\* What is shown after what is shown, in order and up to a new number.
LEMMA InOrderMore ==
  ASSUME NEW sh \in Seq(SUBSET (1..Top)), NEW q \in Seq(SUBSET (1..Top)),
         NEW n \in Nat, NEW last \in Nat, n <= last, InOrder(sh, n),
         \A i \in DOMAIN q : \A w \in q[i] : n < w /\ w <= last,
         \A i, j \in DOMAIN q : i < j => \A w \in q[i], v \in q[j] : w < v
  PROVE  InOrder(sh \o q, last)
<1> DEFINE all == sh \o q
           m == Len(sh)
<1>1. /\ m \in Nat /\ Len(q) \in Nat /\ DOMAIN sh = 1..m /\ DOMAIN q = 1..Len(q)
      /\ \A i \in DOMAIN sh : all[i] = sh[i]
      /\ \A i \in DOMAIN q : all[m + i] = q[i]
      /\ \A i \in DOMAIN all : i \in DOMAIN sh \/ \E j \in DOMAIN q : i = m + j
  BY ConcatShape
<1>2. (\A i \in DOMAIN sh : sh[i] \subseteq Nat) /\ (\A i \in DOMAIN q : q[i] \subseteq Nat)
  BY SeqShape, Bounds DEF Top
<1>3. /\ \A i \in DOMAIN sh : \A w \in sh[i] : w <= n
      /\ \A i, j \in DOMAIN sh : i < j => \A w \in sh[i], v \in sh[j] : w < v
  BY DEF InOrder
<1>4. /\ \A i \in DOMAIN sh, j \in DOMAIN q : ~(m + j < i)
      /\ \A i, j \in DOMAIN q : m + i < m + j => i < j
  BY <1>1
<1> HIDE DEF all, m
<1>5. \A i \in DOMAIN all : \A w \in all[i] : w <= last
  <2>1. \A w \in Nat : w <= n => w <= last
    OBVIOUS
  <2> QED BY <1>1, <1>2, <1>3, <2>1
<1>6. ASSUME NEW i \in DOMAIN all, NEW j \in DOMAIN all, i < j,
             NEW w \in all[i], NEW v \in all[j]
      PROVE  w < v
  <2>1. CASE i \in DOMAIN sh /\ j \in DOMAIN sh
    BY <1>1, <1>3, <1>6, <2>1
  <2>2. ASSUME i \in DOMAIN sh, NEW k \in DOMAIN q, j = m + k PROVE w < v
    <3>1. w \in Nat /\ w <= n
      BY <1>1, <1>2, <1>3, <1>6, <2>2
    <3>2. v \in Nat /\ n < v
      BY <1>1, <1>2, <1>6, <2>2
    <3> QED BY <3>1, <3>2
  <2>3. ASSUME NEW k \in DOMAIN q, i = m + k, NEW l \in DOMAIN q, j = m + l PROVE w < v
    <3>1. k < l /\ w \in q[k] /\ v \in q[l]
      BY <1>1, <1>4, <1>6, <2>3
    <3> QED BY <3>1
  <2> QED BY <1>1, <1>4, <1>6, <2>1, <2>2, <2>3
<1> QED BY <1>5, <1>6 DEF InOrder, all

\* Folding a whole batch keeps the page in order.
LEMMA FoldedInOrder ==
  ASSUME NEW st, NEW s \in Seq(Event), st.seq \in 0..Top, st.shown \in Seq(SUBSET (1..Top)),
         Whole(s), Closed(s), InOrder(st.shown, st.seq)
  PROVE  InOrder(Folded(st, s).shown, Folded(st, s).seq)
<1> DEFINE n == st.seq
           new == After(s, n)
           words == [i \in DOMAIN new |-> new[i].words]
           old == st.shown
<1>1. new \in Seq(Event) /\ \E pos : Part(new, s, n, pos)
  BY AfterIsPart
<1>2. Folded(st, s).seq = (IF new = <<>> THEN n ELSE LastSeq(new))
      /\ Folded(st, s).shown = old \o words
  BY DEF Folded
<1>3. PICK pos : Part(new, s, n, pos)
  BY <1>1
<1> HIDE DEF new
<1>4. Len(new) \in Nat /\ DOMAIN new = 1..Len(new) /\ \A i \in DOMAIN new : new[i] \in Event
  BY <1>1, SeqShape
<1>5. n \in Nat
  BY Bounds DEF Top
<1>6. Whole(new) /\ Closed(new) /\ \A i \in DOMAIN new : new[i].seq > n
  <2>1. \A i \in DOMAIN new : new[i].seq > n
    BY <1>3 DEF Part
  <2> HIDE DEF n
  <2> QED BY <1>1, <1>3, <1>5, <2>1, PartKeeps
<1> DEFINE last == IF new = <<>> THEN n ELSE LastSeq(new)
<1>7. \A i \in DOMAIN new : new[i].seq \in Nat /\ new[i].words \subseteq Nat
  BY <1>4, EventShape
<1>8. last \in Nat /\ n <= last /\ \A i \in DOMAIN new : new[i].seq <= last
  <2>1. CASE new = <<>>
    <3>1. DOMAIN new = {}
      BY <2>1
    <3> QED BY <1>5, <2>1, <3>1
  <2>2. CASE new # <<>>
    <3>1. Len(new) \in DOMAIN new
      BY <1>1, <1>4, <2>2
    <3>2. last = new[Len(new)].seq
      BY <2>2 DEF LastSeq, Last
    <3>3. new[Len(new)].seq \in Nat /\ new[Len(new)].seq > n
      BY <1>6, <1>7, <3>1
    <3>4. ASSUME NEW i \in DOMAIN new, i # Len(new) PROVE new[i].seq <= last
      <4>1. i < Len(new)
        BY <1>4, <3>4
      <4>2. new[i].seq < new[Len(new)].seq
        BY <1>6, <3>1, <4>1 DEF Whole
      <4> QED BY <1>7, <3>1, <3>2, <4>2
    <3>5. \A i \in DOMAIN new : new[i].seq <= last
      BY <3>2, <3>3, <3>4
    <3> QED BY <1>5, <3>2, <3>3, <3>5
  <2> QED BY <2>1, <2>2
<1> HIDE DEF last
<1>9. ASSUME NEW i \in DOMAIN new, NEW w \in new[i].words
      PROVE  w \in Nat /\ n < w /\ w <= last /\ \A j \in DOMAIN new : i < j => \A v \in new[j].words : w < v
  <2>1. w \in Nat /\ new[i].seq \in Nat /\ new[i].seq > n /\ new[i].seq <= w
    BY <1>6, <1>7, <1>9 DEF Whole
  <2>2. PICK j \in DOMAIN new : w <= new[j].seq
    BY <1>6, <1>9 DEF Closed
  <2>3. new[j].seq \in Nat /\ new[j].seq <= last
    BY <1>7, <1>8, <2>2
  <2>4. w <= last
    BY <1>8, <2>1, <2>2, <2>3
  <2>5. ASSUME NEW k \in DOMAIN new, i < k, NEW v \in new[k].words PROVE w < v
    <3>1. w < new[k].seq /\ new[k].seq <= v
      BY <1>6, <1>9, <2>5 DEF Whole
    <3>2. new[k].seq \in Nat /\ v \in Nat
      BY <1>7, <2>5
    <3> QED BY <2>1, <3>1, <3>2
  <2>6. n < w
    BY <1>5, <2>1
  <2> QED BY <2>1, <2>4, <2>5, <2>6
<1>10. words \in Seq(SUBSET (1..Top)) /\ DOMAIN words = DOMAIN new
       /\ \A i \in DOMAIN new : words[i] = new[i].words
  BY <1>4, EventShape
<1> HIDE DEF words
<1>11. old \in Seq(SUBSET (1..Top)) /\ InOrder(old, n)
  OBVIOUS
<1> HIDE DEF old, n
<1>12. \A i \in DOMAIN words : \A w \in words[i] : n < w /\ w <= last
  BY <1>9, <1>10
<1>13. \A i, j \in DOMAIN words : i < j => \A w \in words[i], v \in words[j] : w < v
  BY <1>9, <1>10
<1>14. InOrder(old \o words, last)
  BY <1>5, <1>8, <1>10, <1>11, <1>12, <1>13, InOrderMore
<1> QED BY <1>2, <1>14 DEF last, old, n

-----------------------------------------------------------------------------
(* Compaction. *)

\* The places after p that were joined to it, one after the other.
Joint(J, p, n) == {m \in p..n : \A i \in (p + 1)..m : i \in J}

\* c is s with each event of J joined to the last one not of J.
JoinsUp(c, s, J, pos) ==
  /\ J \subseteq DOMAIN s
  /\ \A i \in J : i - 1 \in DOMAIN s /\ s[i - 1].kind = "delta" /\ s[i].kind = "delta"
  /\ pos \in [DOMAIN c -> DOMAIN s \ J]
  /\ \A i, j \in DOMAIN c : i < j => pos[i] < pos[j]
  /\ \A d \in DOMAIN s \ J : \E i \in DOMAIN c : pos[i] = d
  /\ \A i \in DOMAIN c : /\ c[i].seq = s[pos[i]].seq /\ c[i].kind = s[pos[i]].kind
                         /\ c[i].words = UNION {s[k].words : k \in Joint(J, pos[i], Len(s))}

\* In an ordered log a number has one place.
LEMMA OrderedApart ==
  ASSUME NEW s \in Seq(Event), Ordered(s), NEW i \in DOMAIN s, NEW j \in DOMAIN s,
         s[i].seq = s[j].seq
  PROVE  i = j
<1>1. i \in Nat /\ j \in Nat /\ s[i].seq \in Nat /\ s[j].seq \in Nat
  BY SeqShape, EventShape
<1>2. i < j => s[i].seq < s[j].seq
  BY DEF Ordered
<1>3. j < i => s[j].seq < s[i].seq
  BY DEF Ordered
<1> QED BY <1>1, <1>2, <1>3

\* Joining runs of deltas keeps a log ordered, below what it was below,
\* and whole; an event that is no delta stays, with its number.
LEMMA JoinsUpKeeps ==
  ASSUME NEW s \in Seq(Event), NEW c \in Seq(Event), NEW J, NEW pos, JoinsUp(c, s, J, pos)
  PROVE  /\ Ordered(s) => Ordered(c)
         /\ \A m \in Nat : Below(s, m) => Below(c, m)
         /\ \A m \in Nat : (\A i \in DOMAIN s : \A w \in s[i].words : w < m)
                             => \A i \in DOMAIN c : \A w \in c[i].words : w < m
         /\ \A d \in DOMAIN s : s[d].kind # "delta" =>
               \E i \in DOMAIN c : c[i].seq = s[d].seq /\ c[i].kind = s[d].kind
         /\ Whole(s) => Whole(c)
         /\ Whole(s) /\ Single(c) => Single(s)
<1>1. /\ Len(s) \in Nat /\ DOMAIN s = 1..Len(s) /\ \A i \in DOMAIN s : s[i] \in Event
      /\ \A i \in DOMAIN c : pos[i] \in DOMAIN s /\ pos[i] \notin J
      /\ \A i, j \in DOMAIN c : i < j => pos[i] < pos[j]
      /\ \A i \in DOMAIN c : c[i].seq = s[pos[i]].seq /\ c[i].kind = s[pos[i]].kind
  BY SeqShape DEF JoinsUp
<1>2. \A i \in DOMAIN c : \A w \in c[i].words :
        \E k \in Joint(J, pos[i], Len(s)) : w \in s[k].words
  BY DEF JoinsUp
<1>3. \A i \in DOMAIN c : \A k \in Joint(J, pos[i], Len(s)) : s[k].words \subseteq c[i].words
  BY DEF JoinsUp
<1>4. \A p \in DOMAIN s : p \in Joint(J, p, Len(s)) /\ Joint(J, p, Len(s)) \subseteq DOMAIN s
                          /\ \A k \in Joint(J, p, Len(s)) : p <= k
  BY <1>1 DEF Joint
<1>5. Ordered(s) => Ordered(c)
  BY <1>1 DEF Ordered
<1>6. \A m \in Nat : Below(s, m) => Below(c, m)
  BY <1>1 DEF Below
<1>7. ASSUME NEW m \in Nat, \A i \in DOMAIN s : \A w \in s[i].words : w < m,
             NEW i \in DOMAIN c, NEW w \in c[i].words
      PROVE  w < m
  BY <1>1, <1>2, <1>4, <1>7
<1>8. ASSUME NEW d \in DOMAIN s, s[d].kind # "delta"
      PROVE  \E i \in DOMAIN c : c[i].seq = s[d].seq /\ c[i].kind = s[d].kind
  <2>1. d \notin J
    BY <1>8 DEF JoinsUp
  <2>2. PICK i \in DOMAIN c : pos[i] = d
    BY <2>1 DEF JoinsUp
  <2> QED BY <1>1, <2>2
<1>9. ASSUME Whole(s) PROVE Whole(c)
  <2> SUFFICES ASSUME NEW i \in DOMAIN c
               PROVE  /\ c[i].seq \in c[i].words
                      /\ \A w \in c[i].words : c[i].seq <= w
                      /\ \A j \in DOMAIN c : i < j => \A w \in c[i].words : w < c[j].seq
                      /\ c[i].kind # "delta" => c[i].words = {c[i].seq}
    BY DEF Whole
  <2> DEFINE p == pos[i]
  <2>1. p \in DOMAIN s /\ c[i].seq = s[p].seq /\ c[i].kind = s[p].kind
    BY <1>1
  <2>2. p \in Joint(J, p, Len(s)) /\ Joint(J, p, Len(s)) \subseteq DOMAIN s
        /\ \A k \in Joint(J, p, Len(s)) : p <= k
    BY <1>4, <2>1
  <2>3. \A w \in c[i].words : \E k \in Joint(J, p, Len(s)) : w \in s[k].words
    BY <1>2
  <2>4. s[p].words \subseteq c[i].words
    BY <1>3, <2>2
  <2>5. c[i].seq \in c[i].words
    BY <1>9, <2>1, <2>4 DEF Whole
  <2> HIDE DEF p
  <2>6. ASSUME NEW w \in c[i].words PROVE c[i].seq <= w
    <3>1. PICK k \in Joint(J, p, Len(s)) : w \in s[k].words
      BY <2>3
    <3>2. k \in DOMAIN s /\ p <= k
      BY <2>2
    <3>3. s[k].seq <= w /\ s[k].seq \in s[k].words /\ (p < k => s[p].words # {} /\ \A v \in s[p].words : v < s[k].seq)
      BY <1>9, <2>1, <3>1, <3>2 DEF Whole
    <3>4. p < k => s[p].seq < s[k].seq
      BY <1>9, <2>1, <3>3 DEF Whole
    <3>5. s[p].seq \in Nat /\ s[k].seq \in Nat /\ w \in Nat /\ p \in Nat /\ k \in Nat
      BY <1>1, <2>1, <3>1, <3>2, EventShape
    <3>6. p = k \/ p < k
      BY <3>2, <3>5
    <3> QED BY <2>1, <3>3, <3>4, <3>5, <3>6
  <2>7. ASSUME NEW j \in DOMAIN c, i < j, NEW w \in c[i].words PROVE w < c[j].seq
    <3>1. PICK k \in Joint(J, p, Len(s)) : w \in s[k].words
      BY <2>3
    <3>2. pos[j] \in DOMAIN s /\ pos[j] \notin J /\ p < pos[j] /\ c[j].seq = s[pos[j]].seq
      BY <1>1, <2>7 DEF p
    <3>3. k \in DOMAIN s /\ k \in Nat /\ p \in Nat /\ pos[j] \in Nat
      BY <1>1, <2>1, <2>2, <3>2
    <3>4. pos[j] \notin (p + 1)..k
      BY <3>1, <3>2 DEF Joint
    <3>5. k < pos[j]
      BY <3>2, <3>3, <3>4
    <3> QED BY <1>9, <3>1, <3>2, <3>3, <3>5 DEF Whole
  <2>8. ASSUME c[i].kind # "delta" PROVE c[i].words = {c[i].seq}
    <3>1. ASSUME NEW k \in Joint(J, p, Len(s)) PROVE k = p
      <4>1. k \in Nat /\ p \in Nat /\ p <= k
        BY <1>1, <2>1, <2>2, <3>1
      <4>2. p + 1 \notin J
        <5>1. p + 1 - 1 = p
          BY <4>1
        <5> QED BY <2>1, <2>8, <5>1 DEF JoinsUp
      <4>3. p + 1 \notin (p + 1)..k
        BY <3>1, <4>2 DEF Joint
      <4> QED BY <4>1, <4>3
    <3>2. c[i].words \subseteq s[p].words
      BY <2>3, <3>1
    <3>3. s[p].words = {s[p].seq}
      BY <1>9, <2>1, <2>8 DEF Whole
    <3> QED BY <2>1, <2>4, <3>2, <3>3
  <2> QED BY <2>5, <2>6, <2>7, <2>8
<1>10. ASSUME Whole(s), Single(c) PROVE Single(s)
  <2> SUFFICES ASSUME NEW d \in DOMAIN s PROVE s[d].words = {s[d].seq}
    BY DEF Single
  <2> DEFINE R == {r \in DOMAIN s : d \in Joint(J, r, Len(s))}
  <2>1. R \subseteq Nat /\ d \in R
    BY <1>1, <1>4
  <2>2. PICK r \in R : \A y \in R : r <= y
    BY <2>1, LeastNumber
  <2>3. r \notin J
    <3> SUFFICES ASSUME r \in J PROVE FALSE
      OBVIOUS
    <3>1. r - 1 \in DOMAIN s /\ r \in DOMAIN s
      BY <2>2 DEF JoinsUp
    <3>2. r \in Nat /\ d \in Nat /\ r - 1 \in Nat /\ r - 1 + 1 = r /\ ~(r <= r - 1) /\ r <= d
          /\ d <= Len(s)
      BY <1>1, <1>4, <2>2, <3>1
    <3>3. \A i \in (r + 1)..d : i \in J
      BY <2>2 DEF Joint
    <3>4. \A i \in r..d : i \in J
      <4>1. \A i \in r..d : i = r \/ i \in (r + 1)..d
        BY <3>2
      <4> QED BY <3>3, <4>1
    <3>5. d \in (r - 1)..Len(s)
      BY <1>1, <3>2
    <3>6. d \in Joint(J, r - 1, Len(s))
      BY <3>2, <3>4, <3>5 DEF Joint
    <3> QED BY <2>2, <3>1, <3>2, <3>6
  <2>4. PICK i \in DOMAIN c : pos[i] = r
    BY <2>2, <2>3 DEF JoinsUp
  <2>5. s[d].words \subseteq c[i].words
    BY <1>3, <2>2, <2>4
  <2>6. s[d].seq \in s[d].words
    BY <1>10 DEF Whole
  <2>7. c[i].words = {c[i].seq}
    BY <1>10 DEF Single
  <2> QED BY <2>5, <2>6, <2>7
<1> QED BY <1>5, <1>6, <1>7, <1>8, <1>9, <1>10

\* The event that stands at p when its run has been joined to it.
Grown(s, onDisk, p) == [s[p] EXCEPT !.words = @ \cup JoinedTo(onDisk, s[p].seq)]

\* The places compaction takes away.
JoinedIn(s) == {j \in DOMAIN s : Joins(s, j)}

\* What compact_turn makes of a log s of which the database holds d.
AppliesTo(s, d) ==
  /\ JoinedIn(d) \subseteq DOMAIN s
  /\ Apply(s, d) = Listed([p \in DOMAIN s \ JoinedIn(d) |-> Grown(s, d, p)], Len(s))
  /\ \A p \in DOMAIN s :
       /\ Grown(s, d, p) \in Event
       /\ Grown(s, d, p).seq = s[p].seq /\ Grown(s, d, p).kind = s[p].kind
       /\ Grown(s, d, p).words = UNION {s[k].words : k \in Joint(JoinedIn(d), p, Len(s))}
       /\ p \notin DOMAIN d => Grown(s, d, p) = s[p]
       /\ p \in DOMAIN d => Grown(s, d, p) = Grown(d, d, p)

\* The database holds the start of the log: what is joined there is joined
\* in the projection, the rest stays.
LEMMA ApplyIsListed ==
  ASSUME NEW s \in Seq(Event), NEW d \in Seq(Event), NEW t \in Seq(Event), s = d \o t, Ordered(s)
  PROVE  AppliesTo(s, d)
<1> DEFINE J == JoinedIn(d)
<1>1. /\ Len(d) \in Nat /\ Len(t) \in Nat /\ Len(s) = Len(d) + Len(t)
      /\ DOMAIN d = 1..Len(d) /\ DOMAIN s = 1..Len(s)
      /\ \A i \in DOMAIN d : i \in DOMAIN s /\ d[i] = s[i]
      /\ \A i \in DOMAIN s : s[i] \in Event
  BY ConcatShape, SeqShape
<1>2. \A i, j \in DOMAIN s : s[i].seq = s[j].seq => i = j
  BY OrderedApart
<1>3. J \subseteq DOMAIN s
  BY <1>1 DEF JoinedIn
<1>4. \A j \in DOMAIN s : s[j].seq \notin Deletes(d) <=> j \notin J
  <2>1. Deletes(d) = {d[j].seq : j \in J} /\ J \subseteq DOMAIN d
    BY DEF Deletes, JoinedIn
  <2> HIDE DEF J
  <2>2. Deletes(d) = {s[j].seq : j \in J}
    BY <1>1, <2>1
  <2> QED BY <1>2, <1>3, <2>2
<1>5. {j \in DOMAIN s : s[j].seq \notin Deletes(d)} = DOMAIN s \ J
  BY <1>4
<1>6. Apply(s, d) = Listed([p \in DOMAIN s \ J |-> Grown(s, d, p)], Len(s))
  BY <1>5 DEF Apply, Grown
<1>7. ASSUME NEW p \in DOMAIN s
      PROVE  /\ p \in DOMAIN d => JoinedTo(d, s[p].seq) = UNION {d[k].words : k \in Run(d, p)}
             /\ p \notin DOMAIN d => JoinedTo(d, s[p].seq) = {}
  <2>1. CASE p \in DOMAIN d
    <3>1. {j \in DOMAIN d : d[j].seq = s[p].seq} = {p}
      BY <1>1, <1>2, <2>1
    <3> QED BY <2>1, <3>1 DEF JoinedTo
  <2>2. CASE p \notin DOMAIN d
    <3>1. {j \in DOMAIN d : d[j].seq = s[p].seq} = {}
      BY <1>1, <1>2, <2>2
    <3> QED BY <2>2, <3>1 DEF JoinedTo
  <2> QED BY <2>1, <2>2
<1>8. ASSUME NEW p \in DOMAIN d
      PROVE  Joint(J, p, Len(s)) = Run(d, p)
  <2>1. ASSUME NEW m \in p..Len(s), \A i \in (p + 1)..m : i \in J PROVE m \in p..Len(d)
    <3>1. m = p \/ m \in (p + 1)..m
      BY <1>1, <2>1
    <3>2. m \in DOMAIN d
      BY <2>1, <3>1 DEF JoinedIn
    <3> QED BY <1>1, <2>1, <3>2
  <2>2. \A m \in p..Len(d) : \A i \in (p + 1)..m : i \in DOMAIN d
    BY <1>1
  <2>3. p..Len(d) \subseteq p..Len(s)
    BY <1>1
  <2> QED BY <2>1, <2>2, <2>3 DEF Joint, Run, JoinedIn
<1>9. ASSUME NEW p \in DOMAIN s, p \notin DOMAIN d
      PROVE  Joint(J, p, Len(s)) = {p}
  <2>1. p + 1 \notin J
    BY <1>1, <1>9 DEF JoinedIn
  <2>2. \A m \in p..Len(s) : m = p \/ p + 1 \in (p + 1)..m
    BY <1>1
  <2>3. p \in p..Len(s) /\ (p + 1)..p = {}
    BY <1>1
  <2> QED BY <2>1, <2>2, <2>3 DEF Joint
<1>10. ASSUME NEW p \in DOMAIN s
       PROVE  s[p].words \cup JoinedTo(d, s[p].seq) = UNION {s[k].words : k \in Joint(J, p, Len(s))}
  <2>1. CASE p \in DOMAIN d
    <3>1. p \in Run(d, p) /\ Run(d, p) \subseteq DOMAIN d
      BY <1>1, <2>1 DEF Run
    <3>2. JoinedTo(d, s[p].seq) = UNION {d[k].words : k \in Run(d, p)}
      BY <1>7, <2>1
    <3>3. \A k \in Run(d, p) : d[k] = s[k]
      BY <1>1, <3>1
    <3>4. UNION {d[k].words : k \in Run(d, p)} = UNION {s[k].words : k \in Run(d, p)}
      BY <3>3
    <3>5. s[p].words \subseteq UNION {s[k].words : k \in Run(d, p)}
      BY <3>1
    <3> QED BY <1>8, <2>1, <3>2, <3>4, <3>5
  <2>2. CASE p \notin DOMAIN d
    <3>1. JoinedTo(d, s[p].seq) = {} /\ Joint(J, p, Len(s)) = {p}
      BY <1>7, <1>9, <2>2
    <3>2. UNION {s[k].words : k \in {p}} = s[p].words
      OBVIOUS
    <3> QED BY <3>1, <3>2
  <2> QED BY <2>1, <2>2
<1>11. ASSUME NEW p \in DOMAIN s
       PROVE  /\ Grown(s, d, p) \in Event
              /\ Grown(s, d, p).seq = s[p].seq /\ Grown(s, d, p).kind = s[p].kind
              /\ Grown(s, d, p).words = s[p].words \cup JoinedTo(d, s[p].seq)
              /\ p \notin DOMAIN d => Grown(s, d, p) = s[p]
  <2>1. s[p] \in Event
    BY <1>1
  <2>2. UNION {s[k].words : k \in Joint(J, p, Len(s))} \in SUBSET (1..Top)
    <3>1. \A k \in Joint(J, p, Len(s)) : s[k].words \in SUBSET (1..Top)
      <4>1. Joint(J, p, Len(s)) \subseteq DOMAIN s
        BY <1>1 DEF Joint
      <4> QED BY <1>1, <4>1, EventShape
    <3> QED BY <3>1
  <2>3. s[p].words \cup JoinedTo(d, s[p].seq) \in SUBSET (1..Top)
    BY <1>10, <2>2
  <2> DEFINE new == s[p].words \cup JoinedTo(d, s[p].seq)
             e == s[p]
  <2>4. Grown(s, d, p) = [e EXCEPT !.words = new]
    BY DEF Grown
  <2>5. p \notin DOMAIN d => new = e.words
    BY <1>7
  <2>6. e \in Event /\ new \in SUBSET (1..Top)
    BY <2>1, <2>3
  <2> HIDE DEF e, new
  <2>7. [e EXCEPT !.words = new] \in Event /\ [e EXCEPT !.words = new].seq = e.seq
        /\ [e EXCEPT !.words = new].kind = e.kind /\ [e EXCEPT !.words = new].words = new
    BY <2>6 DEF Event, Top
  <2>8. new = e.words => [e EXCEPT !.words = new] = e
    BY <2>6 DEF Event
  <2> QED BY <2>4, <2>5, <2>7, <2>8 DEF e, new
<1>12. \A p \in DOMAIN d : Grown(s, d, p) = Grown(d, d, p)
  BY <1>1 DEF Grown
<1> QED BY <1>3, <1>6, <1>10, <1>11, <1>12 DEF AppliesTo

\* compact_turn joins runs of the log.
LEMMA ApplyJoins ==
  ASSUME NEW s \in Seq(Event), NEW d \in Seq(Event), NEW t \in Seq(Event), s = d \o t, Ordered(s)
  PROVE  Apply(s, d) \in Seq(Event) /\ \E J, pos : JoinsUp(Apply(s, d), s, J, pos)
<1> DEFINE J == JoinedIn(d)
           f == [p \in DOMAIN s \ J |-> Grown(s, d, p)]
           c == Listed(f, Len(s))
<1>1. /\ J \subseteq DOMAIN s /\ Apply(s, d) = c
      /\ \A p \in DOMAIN s :
           /\ Grown(s, d, p) \in Event
           /\ Grown(s, d, p).seq = s[p].seq /\ Grown(s, d, p).kind = s[p].kind
           /\ Grown(s, d, p).words = UNION {s[k].words : k \in Joint(J, p, Len(s))}
  <2>1. AppliesTo(s, d)
    BY ApplyIsListed
  <2> QED BY <2>1 DEF AppliesTo
<1>2. \A i \in J : i - 1 \in DOMAIN s /\ s[i - 1].kind = "delta" /\ s[i].kind = "delta"
  <2>1. \A i \in DOMAIN d : i \in DOMAIN s /\ d[i] = s[i]
    BY ConcatShape
  <2>2. \A i \in J : i \in DOMAIN d /\ i > 1 /\ d[i - 1].kind = "delta" /\ d[i].kind = "delta"
    BY DEF Joins, JoinedIn
  <2>3. \A i \in DOMAIN d : i > 1 => i - 1 \in DOMAIN d
    BY SeqShape
  <2> HIDE DEF J
  <2> QED BY <2>1, <2>2, <2>3
<1>3. Len(s) \in Nat /\ DOMAIN s = 1..Len(s)
  BY SeqShape
<1>4. DOMAIN f = DOMAIN s \ J /\ \A p \in DOMAIN s \ J : f[p] = Grown(s, d, p)
  OBVIOUS
<1> HIDE DEF f
<1>5. \A p \in DOMAIN f \cap (1..Len(s)) : f[p] \in Event
  BY <1>1, <1>4
<1>6. c \in Seq(Event) /\ \E pos : Places(f, Len(s), c, pos)
  BY <1>3, <1>5, ListedPlaces
<1>7. PICK pos : Places(f, Len(s), c, pos)
  BY <1>6
<1>8. DOMAIN f \cap (1..Len(s)) = DOMAIN s \ J
  BY <1>3, <1>4
<1> HIDE DEF c, J
<1>9. /\ pos \in [DOMAIN c -> DOMAIN s \ J]
      /\ \A i, j \in DOMAIN c : i < j => pos[i] < pos[j]
      /\ \A p \in DOMAIN s \ J : \E i \in DOMAIN c : pos[i] = p
      /\ \A i \in DOMAIN c : c[i] = f[pos[i]]
  BY <1>7, <1>8 DEF Places
<1>10. \A i \in DOMAIN c : c[i] = Grown(s, d, pos[i]) /\ pos[i] \in DOMAIN s
  BY <1>4, <1>9
<1>11. \A i \in DOMAIN c : /\ c[i].seq = s[pos[i]].seq /\ c[i].kind = s[pos[i]].kind
                            /\ c[i].words = UNION {s[k].words : k \in Joint(J, pos[i], Len(s))}
  <2> SUFFICES ASSUME NEW i \in DOMAIN c
               PROVE  /\ c[i].seq = s[pos[i]].seq /\ c[i].kind = s[pos[i]].kind
                      /\ c[i].words = UNION {s[k].words : k \in Joint(J, pos[i], Len(s))}
    OBVIOUS
  <2>1. c[i] = Grown(s, d, pos[i]) /\ pos[i] \in DOMAIN s
    BY <1>10
  <2> QED BY <1>1, <2>1
<1>12. JoinsUp(c, s, J, pos)
  BY <1>1, <1>2, <1>9, <1>11 DEF JoinsUp
<1> QED BY <1>1, <1>6, <1>12

\* The projection after compact_turn is the rows after it, and what waits.
LEMMA ApplyConcat ==
  ASSUME NEW d \in Seq(Event), NEW t \in Seq(Event), Ordered(d \o t)
  PROVE  Apply(d \o t, d) = Apply(d, d) \o t
<1> DEFINE s == d \o t
           J == JoinedIn(d)
           f == [p \in DOMAIN s \ J |-> Grown(s, d, p)]
           g == [p \in DOMAIN d \ J |-> Grown(d, d, p)]
<1>1. /\ s \in Seq(Event) /\ Len(d) \in Nat /\ Len(t) \in Nat /\ Len(s) = Len(d) + Len(t)
      /\ DOMAIN d = 1..Len(d) /\ DOMAIN t = 1..Len(t) /\ DOMAIN s = 1..(Len(d) + Len(t))
      /\ \A i \in DOMAIN d : i \in DOMAIN s /\ s[i] = d[i]
      /\ \A i \in DOMAIN t : Len(d) + i \in DOMAIN s /\ s[Len(d) + i] = t[i]
  BY ConcatShape
<1>2. /\ Apply(s, d) = Listed(f, Len(s))
      /\ \A p \in DOMAIN s : /\ p \notin DOMAIN d => Grown(s, d, p) = s[p]
                             /\ p \in DOMAIN d => Grown(s, d, p) = Grown(d, d, p)
  <2> HIDE DEF s
  <2>1. s = d \o t /\ Ordered(s)
    BY DEF s
  <2>2. AppliesTo(s, d)
    BY <1>1, <2>1, ApplyIsListed
  <2> QED BY <2>2 DEF AppliesTo
<1>3. Ordered(d) /\ d = d \o <<>> /\ <<>> \in Seq(Event)
  <2>1. Ordered(s)
    OBVIOUS
  <2> HIDE DEF s
  <2>2. Ordered(d)
    BY <1>1, <2>1 DEF Ordered
  <2> QED BY <2>2
<1>4. Apply(d, d) = Listed(g, Len(d)) /\ \A p \in DOMAIN d : Grown(d, d, p) \in Event
  <2>1. /\ Apply(d, d) = Listed([p \in DOMAIN d \ J |-> Grown(d, d, p)], Len(d))
        /\ \A p \in DOMAIN d : Grown(d, d, p) \in Event
    BY <1>3, ApplyIsListed DEF AppliesTo
  <2> QED BY <2>1
<1> HIDE DEF s
<1>5. J \subseteq DOMAIN d
  BY DEF JoinedIn
<1> HIDE DEF J
<1>6. /\ DOMAIN f = DOMAIN s \ J /\ \A p \in DOMAIN s \ J : f[p] = Grown(s, d, p)
      /\ DOMAIN g = DOMAIN d \ J /\ \A p \in DOMAIN d \ J : g[p] = Grown(d, d, p)
  OBVIOUS
<1> HIDE DEF f, g
<1>7. \A i \in 1..Len(d) : (i \in DOMAIN f <=> i \in DOMAIN g) /\ (i \in DOMAIN f => f[i] = g[i])
  BY <1>1, <1>2, <1>6
<1>8. Listed(f, Len(d)) = Listed(g, Len(d))
  BY <1>1, <1>7, ListedAlike
<1>9. Listed(g, Len(d)) \in Seq(Event)
  <2>1. \A p \in DOMAIN g \cap (1..Len(d)) : g[p] \in Event
    BY <1>4, <1>6
  <2> QED BY <1>1, <2>1, ListedPlaces
<1>10. \A i \in 1..Len(t) : Len(d) + i \in DOMAIN f /\ f[Len(d) + i] = t[i]
  <2> SUFFICES ASSUME NEW i \in 1..Len(t) PROVE Len(d) + i \in DOMAIN f /\ f[Len(d) + i] = t[i]
    OBVIOUS
  <2> DEFINE x == Len(d) + i
  <2>1. x \in DOMAIN s /\ s[x] = t[i] /\ x \notin DOMAIN d
    BY <1>1
  <2> HIDE DEF x
  <2>2. x \in DOMAIN f /\ f[x] = t[i]
    BY <1>2, <1>5, <1>6, <2>1
  <2> QED BY <2>2 DEF x
<1>11. Listed(f, Len(d) + Len(t)) = Listed(f, Len(d)) \o t
  <2> DEFINE n == Len(d)
  <2>1. n \in Nat /\ Listed(f, n) \in Seq(Event)
        /\ \A i \in 1..Len(t) : n + i \in DOMAIN f /\ f[n + i] = t[i]
    BY <1>1, <1>8, <1>9, <1>10
  <2> HIDE DEF n
  <2>2. Listed(f, n + Len(t)) = Listed(f, n) \o t
    BY <2>1, ListedConcat
  <2> QED BY <2>2 DEF n
<1> QED BY <1>1, <1>2, <1>4, <1>8, <1>11 DEF s

-----------------------------------------------------------------------------
(* Where a log ends. *)

\* The last number of an ordered log is its highest.
LEMMA LastSeqIs ==
  ASSUME NEW s \in Seq(Event), Ordered(s)
  PROVE  /\ LastSeq(s) \in 0..Top
         /\ \A i \in DOMAIN s : s[i].seq <= LastSeq(s)
         /\ \A n \in Nat : Below(s, n + 1) => LastSeq(s) <= n
         /\ \A i \in DOMAIN s : Below(s, s[i].seq + 1) => LastSeq(s) = s[i].seq
<1>1. /\ Len(s) \in Nat /\ DOMAIN s = 1..Len(s)
      /\ \A i \in DOMAIN s : s[i].seq \in 1..Top /\ s[i].seq \in Nat
  BY SeqShape, EventShape
<1>2. CASE s = <<>>
  <2>1. DOMAIN s = {} /\ LastSeq(s) = 0
    BY <1>2 DEF LastSeq
  <2> QED BY <2>1, Bounds DEF Top
<1>3. CASE s # <<>>
  <2>1. Len(s) \in DOMAIN s /\ LastSeq(s) = s[Len(s)].seq
    BY <1>1, <1>3 DEF LastSeq, Last
  <2>2. LastSeq(s) \in 0..Top /\ LastSeq(s) \in Nat
    BY <1>1, <2>1, Bounds DEF Top
  <2>3. ASSUME NEW i \in DOMAIN s PROVE s[i].seq <= LastSeq(s)
    <3>1. i = Len(s) \/ i < Len(s)
      BY <1>1
    <3>2. i < Len(s) => s[i].seq < s[Len(s)].seq
      BY <2>1 DEF Ordered
    <3> QED BY <1>1, <2>1, <2>2, <3>1, <3>2
  <2>4. \A n \in Nat : Below(s, n + 1) => LastSeq(s) <= n
    BY <2>1, <2>2 DEF Below
  <2>5. \A i \in DOMAIN s : Below(s, s[i].seq + 1) => LastSeq(s) = s[i].seq
    BY <1>1, <2>2, <2>3, <2>4
  <2> QED BY <2>2, <2>3, <2>4, <2>5
<1> QED BY <1>2, <1>3

-----------------------------------------------------------------------------
(* The log as it is while no crash took what the database refused. *)

\* The log s, that goes on with the number n in the turn t: its last number
\* is n - 1, it ends in no delta once the turn has ended, and it has been
\* joined up only if compact_turn ran.
Saved(s, n, t) ==
  /\ Whole(s)
  /\ \A i \in DOMAIN s : \A w \in s[i].words : w < n
  /\ t # "running" => n > 1
  /\ n > 1 => \E i \in DOMAIN s : s[i].seq = n - 1 /\ (t # "running" => s[i].kind # "delta")
  /\ t # "compacted" => Single(s)

\* Such a log holds no word past its last number.
LEMMA SavedIsClosed ==
  ASSUME NEW s \in Seq(Event), NEW n \in Nat, NEW t, Saved(s, n, t), Below(s, n)
  PROVE  Closed(s)
<1> SUFFICES ASSUME NEW i \in DOMAIN s, NEW w \in s[i].words
             PROVE  \E j \in DOMAIN s : w <= s[j].seq
  BY DEF Closed
<1>1. s[i].seq \in 1..Top /\ s[i].seq < n /\ w \in Nat /\ w < n
  BY SeqShape, EventShape DEF Saved, Below
<1>2. n > 1
  BY <1>1, Bounds DEF Top
<1>3. PICK j \in DOMAIN s : s[j].seq = n - 1
  BY <1>2 DEF Saved
<1>4. w <= n - 1
  BY <1>1
<1> QED BY <1>3, <1>4

\* Its last number is the one before the next.
LEMMA SavedEndsAt ==
  ASSUME NEW s \in Seq(Event), NEW n \in Nat \ {0}, NEW t, Saved(s, n, t), Ordered(s), Below(s, n)
  PROVE  LastSeq(s) = n - 1
<1>1. CASE n > 1
  <2>1. PICK i \in DOMAIN s : s[i].seq = n - 1
    BY <1>1 DEF Saved
  <2>2. s[i].seq + 1 = n
    BY <2>1
  <2> QED BY <2>1, <2>2, LastSeqIs
<1>2. CASE ~(n > 1)
  <2>1. n = 1 /\ n = 0 + 1 /\ 0 \in Nat
    BY <1>2
  <2>2. LastSeq(s) <= 0
    BY <2>1, LastSeqIs
  <2>3. LastSeq(s) \in 0..Top
    BY LastSeqIs
  <2> QED BY <2>1, <2>2, <2>3, Bounds DEF Top
<1> QED BY <1>1, <1>2

\* An event with the next number, at the end.
LEMMA OrderedAppend ==
  ASSUME NEW s \in Seq(Event), NEW e \in Event, Ordered(s), Below(s, e.seq)
  PROVE  Append(s, e) \in Seq(Event) /\ Ordered(Append(s, e)) /\ Below(Append(s, e), e.seq + 1)
<1> DEFINE a == Append(s, e)
           m == Len(s)
<1>1. /\ m \in Nat /\ DOMAIN s = 1..m /\ a \in Seq(Event) /\ DOMAIN a = 1..(m + 1)
      /\ \A i \in 1..m : a[i] = s[i]
      /\ a[m + 1] = e
  BY SeqShape, AppendProperties
<1>2. e.seq \in Nat /\ \A i \in 1..m : s[i].seq \in Nat /\ s[i].seq < e.seq
  BY <1>1, SeqShape, EventShape DEF Below
<1> HIDE DEF a, m
<1>3. \A i \in 1..(m + 1) : i = m + 1 \/ i \in 1..m
  BY <1>1
<1>4. \A i \in 1..m : ~(m + 1 < i) /\ ~(m + 1 < m + 1)
  BY <1>1
<1>5. ~(m + 1 < m + 1)
  BY <1>1
<1>6. Ordered(a)
  <2> SUFFICES ASSUME NEW i \in DOMAIN a, NEW j \in DOMAIN a, i < j PROVE a[i].seq < a[j].seq
    BY DEF Ordered
  <2>1. i \in 1..m
    BY <1>1, <1>3, <1>4, <1>5
  <2>2. j \in 1..m => s[i].seq < s[j].seq
    BY <1>1, <2>1 DEF Ordered
  <2> QED BY <1>1, <1>2, <1>3, <2>1, <2>2
<1>7. Below(a, e.seq + 1)
  <2>1. \A x \in Nat : x < e.seq => x < e.seq + 1
    BY <1>2
  <2>2. e.seq < e.seq + 1
    BY <1>2
  <2> QED BY <1>1, <1>2, <1>3, <2>1, <2>2 DEF Below
<1> QED BY <1>1, <1>6, <1>7 DEF a

\* The log is saved with the event that takes the next number.
LEMMA SavedAppend ==
  ASSUME NEW s \in Seq(Event), NEW n \in Nat \ {0}, NEW t, NEW u, NEW e \in Event,
         Ordered(s), Below(s, n), Saved(s, n, t), e.seq = n, e.words = {n},
         u # "running" => e.kind # "delta",
         u # "compacted" => t # "compacted"
  PROVE  Saved(Append(s, e), n + 1, u)
<1> DEFINE a == Append(s, e)
           m == Len(s)
<1>1. /\ m \in Nat /\ DOMAIN s = 1..m /\ a \in Seq(Event) /\ DOMAIN a = 1..(m + 1)
      /\ \A i \in 1..m : a[i] = s[i]
      /\ a[m + 1] = e
  BY SeqShape, AppendProperties
<1>2. \A i \in 1..m : s[i].seq \in Nat /\ s[i].words \subseteq Nat
  BY <1>1, SeqShape, EventShape
<1> HIDE DEF a, m
<1>3. \A i \in 1..(m + 1) : i = m + 1 \/ i \in 1..m
  BY <1>1
<1>4. (\A i \in 1..m : ~(m + 1 < i)) /\ ~(m + 1 < m + 1) /\ m + 1 \in 1..(m + 1)
  BY <1>1
<1>5. /\ Whole(s)
      /\ \A i \in 1..m : \A w \in s[i].words : w < n
      /\ t # "compacted" => Single(s)
  BY <1>1 DEF Saved
<1>6. Whole(a)
  <2> SUFFICES ASSUME NEW i \in DOMAIN a
               PROVE  /\ a[i].seq \in a[i].words
                      /\ \A w \in a[i].words : a[i].seq <= w
                      /\ \A j \in DOMAIN a : i < j => \A w \in a[i].words : w < a[j].seq
                      /\ a[i].kind # "delta" => a[i].words = {a[i].seq}
    BY DEF Whole
  <2>1. CASE i = m + 1
    <3>1. a[i] = e /\ \A j \in DOMAIN a : ~(i < j)
      BY <1>1, <1>3, <1>4, <2>1
    <3>2. n <= n
      OBVIOUS
    <3> QED BY <3>1, <3>2
  <2>2. CASE i \in 1..m
    <3>1. /\ a[i] = s[i]
          /\ s[i].seq \in s[i].words /\ (\A w \in s[i].words : s[i].seq <= w)
          /\ (s[i].kind # "delta" => s[i].words = {s[i].seq})
      BY <1>1, <1>5, <2>2 DEF Whole
    <3>2. \A j \in 1..m : i < j => \A w \in s[i].words : w < s[j].seq
      BY <1>1, <1>5, <2>2 DEF Whole
    <3>3. \A w \in s[i].words : w < e.seq
      BY <1>5, <2>2
    <3> QED BY <1>1, <1>3, <3>1, <3>2, <3>3
  <2> QED BY <1>1, <1>3, <2>1, <2>2
<1>7. \A i \in DOMAIN a : \A w \in a[i].words : w < n + 1
  <2>1. \A w \in Nat : w < n => w < n + 1
    OBVIOUS
  <2>2. n < n + 1
    OBVIOUS
  <2> QED BY <1>1, <1>2, <1>3, <1>5, <2>1, <2>2
<1>8. n + 1 > 1 /\ n + 1 - 1 = n
  OBVIOUS
<1>9. \E i \in DOMAIN a : a[i].seq = n + 1 - 1 /\ (u # "running" => a[i].kind # "delta")
  BY <1>1, <1>4, <1>8
<1>10. u # "compacted" => Single(a)
  BY <1>1, <1>3, <1>5 DEF Single
<1> DEFINE k == n + 1
<1>11. /\ \A i \in DOMAIN a : \A w \in a[i].words : w < k
       /\ u # "running" => k > 1
       /\ k > 1 => \E i \in DOMAIN a : a[i].seq = k - 1 /\ (u # "running" => a[i].kind # "delta")
  BY <1>7, <1>8, <1>9
<1> HIDE DEF k
<1>12. Saved(a, k, u)
  BY <1>6, <1>10, <1>11 DEF Saved
<1> QED BY <1>12 DEF a, k

\* Compaction, of the whole log or of its first part.
LEMMA SavedCompacted ==
  ASSUME NEW s \in Seq(Event), NEW c \in Seq(Event), NEW J, NEW pos, JoinsUp(c, s, J, pos),
         NEW n \in Nat \ {0}, NEW t, t # "running", Saved(s, n, t)
  PROVE  Saved(c, n, "compacted")
<1>1. Whole(c) /\ \A i \in DOMAIN c : \A w \in c[i].words : w < n
  BY JoinsUpKeeps DEF Saved
<1>2. n > 1
  BY DEF Saved
<1>3. PICK d \in DOMAIN s : s[d].seq = n - 1 /\ s[d].kind # "delta"
  BY <1>2 DEF Saved
<1>4. \E i \in DOMAIN c : c[i].seq = s[d].seq /\ c[i].kind = s[d].kind
  BY <1>3, JoinsUpKeeps
<1> QED BY <1>1, <1>2, <1>3, <1>4 DEF Saved

-----------------------------------------------------------------------------
(* A line put between others. *)

\* A line between others leaves those as they are.
LEMMA InsertAtIs ==
  ASSUME NEW S, NEW q \in Seq(S), NEW x \in S, NEW place \in 1..(Len(q) + 1)
  PROVE  /\ InsertAt(q, place, x) \in Seq(S)
         /\ \A i \in DOMAIN InsertAt(q, place, x) :
              InsertAt(q, place, x)[i] = x \/ \E j \in DOMAIN q : InsertAt(q, place, x)[i] = q[j]
<1> DEFINE u == SubSeq(q, 1, place - 1)
           v == SubSeq(q, place, Len(q))
<1>1. Len(q) \in Nat /\ DOMAIN q = 1..Len(q) /\ \A i \in DOMAIN q : q[i] \in S
  BY SeqShape
<1>2. /\ u \in Seq(S) /\ \A i \in DOMAIN u : \E j \in DOMAIN q : u[i] = q[j]
  <2>1. \A i \in 1..(place - 1) : q[i] \in S
    BY <1>1
  <2>2. /\ u \in Seq(S) /\ Len(u) = (IF 1 <= place - 1 THEN place - 1 - 1 + 1 ELSE 0)
        /\ \A i \in 1..(place - 1 - 1 + 1) : u[i] = q[1 + i - 1]
    BY <2>1, SubSeqProperties
  <2>3. DOMAIN u = 1..Len(u)
    BY <2>2
  <2> HIDE DEF u
  <2>4. \A i \in DOMAIN u : i \in 1..(place - 1 - 1 + 1) /\ 1 + i - 1 \in DOMAIN q
    BY <1>1, <2>2, <2>3
  <2> QED BY <2>2, <2>4
<1>3. /\ v \in Seq(S) /\ \A i \in DOMAIN v : \E j \in DOMAIN q : v[i] = q[j]
  <2>1. \A i \in place..Len(q) : q[i] \in S
    BY <1>1
  <2>2. /\ v \in Seq(S) /\ Len(v) = (IF place <= Len(q) THEN Len(q) - place + 1 ELSE 0)
        /\ \A i \in 1..(Len(q) - place + 1) : v[i] = q[place + i - 1]
    BY <1>1, <2>1, SubSeqProperties
  <2>3. DOMAIN v = 1..Len(v)
    BY <2>2
  <2> HIDE DEF v
  <2>4. \A i \in DOMAIN v : i \in 1..(Len(q) - place + 1) /\ place + i - 1 \in DOMAIN q
    BY <1>1, <2>2, <2>3
  <2> QED BY <2>2, <2>4
<1>4. InsertAt(q, place, x) = (u \o <<x>>) \o v
  BY DEF InsertAt
<1> HIDE DEF u, v
<1>5. <<x>> \in Seq(S) /\ \A i \in DOMAIN <<x>> : <<x>>[i] = x
  OBVIOUS
<1>6. u \o <<x>> \in Seq(S)
      /\ \A i \in DOMAIN (u \o <<x>>) :
           (u \o <<x>>)[i] = x \/ \E j \in DOMAIN q : (u \o <<x>>)[i] = q[j]
  BY <1>2, <1>5, ConcatShape
<1> DEFINE y == u \o <<x>>
<1> HIDE DEF y
<1>7. y \in Seq(S) /\ \A i \in DOMAIN y : y[i] = x \/ \E j \in DOMAIN q : y[i] = q[j]
  BY <1>6 DEF y
<1>8. y \o v \in Seq(S)
      /\ \A i \in DOMAIN (y \o v) : (y \o v)[i] = x \/ \E j \in DOMAIN q : (y \o v)[i] = q[j]
  BY <1>3, <1>7, ConcatShape
<1> QED BY <1>4, <1>8 DEF y

-----------------------------------------------------------------------------
(* The events held back. *)

\* The highest of some numbers.
LEMMA MaxIs ==
  ASSUME NEW S, S \subseteq 1..Top, S # {}
  PROVE  Max(S) \in S /\ \A y \in S : y <= Max(S)
<1> DEFINE B == {b \in Nat : \A y \in S : y <= b}
<1>1. Top \in B
  BY Bounds DEF Top
<1>2. PICK b \in B : \A a \in B : b <= a
  BY <1>1, LeastNumber
<1>3. b \in S
  <2> SUFFICES ASSUME b \notin S PROVE FALSE
    OBVIOUS
  <2>1. \A y \in S : y \in Nat /\ y # b /\ y <= b /\ y >= 1
    BY <1>2, Bounds DEF Top
  <2>2. b \in Nat /\ b >= 1
    <3>1. PICK y \in S : TRUE
      OBVIOUS
    <3>2. y \in Nat /\ y <= b /\ y >= 1 /\ b \in Nat
      BY <1>2, <2>1
    <3> HIDE DEF B
    <3> QED BY <3>2
  <2>3. b - 1 \in Nat /\ ~(b <= b - 1)
    BY <2>2
  <2>4. \A y \in S : y <= b - 1
    BY <2>1, <2>2
  <2> QED BY <1>2, <2>3, <2>4
<1>4. \A y \in S : y \in Nat /\ y <= b /\ b >= y
  BY <1>2, Bounds DEF Top
<1>5. \E x \in S : \A y \in S : x >= y
  BY <1>3, <1>4
<1>6. Max(S) \in S /\ \A y \in S : Max(S) >= y
  BY <1>5 DEF Max
<1> QED BY <1>4, <1>6, Bounds DEF Top

\* The held event of a number.
LEMMA HeldIs ==
  ASSUME held \in Seq(Event), NEW n \in SeqsOf(held)
  PROVE  \E i \in DOMAIN held : Held(n) = held[i] /\ held[i].seq = n
<1> DEFINE I == {i \in DOMAIN held : held[i].seq = n}
<1>1. Len(held) \in Nat /\ DOMAIN held = 1..Len(held)
  BY SeqShape
<1>2. I # {} /\ I \subseteq Nat
  BY <1>1 DEF SeqsOf
<1>3. PICK i \in I : \A k \in I : i <= k
  BY <1>2, LeastNumber
<1>4. \A k \in 1..(i - 1) : held[k].seq # n
  <2>1. \A k \in 1..(i - 1) : k \in DOMAIN held /\ ~(i <= k)
    BY <1>1, <1>3
  <2> QED BY <1>3, <2>1
<1> DEFINE P(j) == held[j].seq = n /\ \A k \in 1..(j - 1) : held[k].seq # n
           c == CHOOSE j \in DOMAIN held : P(j)
<1>5. \E j \in DOMAIN held : P(j)
  BY <1>3, <1>4
<1>6. c \in DOMAIN held /\ P(c)
  <2> HIDE DEF P
  <2> QED BY <1>5
<1>7. Held(n) = held[c]
  BY DEF Held
<1> HIDE DEF c
<1> QED BY <1>6, <1>7

\* What ListArrives shows of the events held back.
LateWords(late) == Listed([n \in late |-> Held(n).words], MaxEvents + 2)

\* Each held number that is late is shown once.
LEMMA LateShape ==
  ASSUME held \in Seq(Event), NEW late, late \subseteq SeqsOf(held)
  PROVE  /\ late \subseteq 1..Top
         /\ LateWords(late) \in Seq(SUBSET (1..Top))
         /\ \E pos : Places([n \in late |-> Held(n).words], Top, LateWords(late), pos)
<1> DEFINE f == [n \in late |-> Held(n).words]
<1>1. \A n \in late : n \in 1..Top /\ f[n] \in SUBSET (1..Top)
  <2> SUFFICES ASSUME NEW n \in late PROVE n \in 1..Top /\ Held(n).words \in SUBSET (1..Top)
    OBVIOUS
  <2>1. PICK i \in DOMAIN held : Held(n) = held[i] /\ held[i].seq = n
    BY HeldIs
  <2> QED BY <2>1, SeqShape, EventShape
<1>2. Top \in Nat /\ Top = MaxEvents + 2
  BY Bounds DEF Top
<1>3. LateWords(late) = Listed(f, Top)
  BY <1>2 DEF LateWords
<1> HIDE DEF f
<1>4. \A d \in DOMAIN f \cap (1..Top) : f[d] \in SUBSET (1..Top)
  <2>1. DOMAIN f = late
    BY DEF f
  <2> QED BY <1>1, <2>1
<1>5. Listed(f, Top) \in Seq(SUBSET (1..Top)) /\ \E pos : Places(f, Top, Listed(f, Top), pos)
  BY <1>2, <1>4, ListedPlaces
<1> QED BY <1>1, <1>3, <1>5 DEF f

\* Held events, folded after the list, come in order after it.
LEMMA LateInOrder ==
  ASSUME held \in Seq(Event), Single(held), NEW late, late \subseteq SeqsOf(held),
         NEW sh \in Seq(SUBSET (1..Top)), NEW m \in Nat, InOrder(sh, m), \A n \in late : n > m
  PROVE  InOrder(sh \o LateWords(late), IF late = {} THEN m ELSE Max(late))
<1> DEFINE f == [n \in late |-> Held(n).words]
           q == LateWords(late)
           last == IF late = {} THEN m ELSE Max(late)
<1>1. late \subseteq 1..Top /\ q \in Seq(SUBSET (1..Top)) /\ \E pos : Places(f, Top, q, pos)
  BY LateShape
<1>2. PICK pos : Places(f, Top, q, pos)
  BY <1>1
<1>3. \A n \in late : f[n] = {n}
  <2> SUFFICES ASSUME NEW n \in late PROVE Held(n).words = {n}
    OBVIOUS
  <2>1. PICK i \in DOMAIN held : Held(n) = held[i] /\ held[i].seq = n
    BY HeldIs
  <2> QED BY <2>1 DEF Single
<1>4. DOMAIN f = late
  OBVIOUS
<1> HIDE DEF f, q
<1>5. /\ \A i \in DOMAIN q : pos[i] \in late /\ q[i] = {pos[i]}
      /\ \A i, j \in DOMAIN q : i < j => pos[i] < pos[j]
  BY <1>2, <1>3, <1>4 DEF Places
<1>6. last \in Nat /\ m <= last /\ \A n \in late : n <= last
  <2>1. CASE late = {}
    BY <2>1
  <2>2. CASE late # {}
    <3>1. Max(late) \in late /\ \A n \in late : n <= Max(late)
      BY <1>1, <2>2, MaxIs
    <3>2. Max(late) \in 1..Top /\ Max(late) > m
      BY <1>1, <3>1
    <3>3. Max(late) \in Nat
      BY <3>2, Bounds DEF Top
    <3>4. m <= Max(late)
      BY <3>2, <3>3
    <3> QED BY <2>2, <3>1, <3>3, <3>4
  <2> QED BY <2>1, <2>2
<1> HIDE DEF last
<1>7. \A i \in DOMAIN q : \A w \in q[i] : m < w /\ w <= last
  <2> SUFFICES ASSUME NEW i \in DOMAIN q PROVE m < pos[i] /\ pos[i] <= last
    BY <1>5
  <2>1. pos[i] \in late /\ pos[i] \in 1..Top
    BY <1>1, <1>5
  <2>2. pos[i] > m /\ pos[i] <= last
    BY <1>6, <2>1
  <2>3. pos[i] \in Nat
    BY <2>1, Bounds DEF Top
  <2> QED BY <2>2, <2>3
<1>8. \A i, j \in DOMAIN q : i < j => \A w \in q[i], v \in q[j] : w < v
  BY <1>5
<1>9. InOrder(sh \o q, last)
  BY <1>1, <1>6, <1>7, <1>8, InOrderMore
<1> QED BY <1>9 DEF q, last

-----------------------------------------------------------------------------
(* Lines of the socket, each below a number; each of events alone.         *)

Lines(so, n)    == \A i \in DOMAIN so : Below(so[i], n)
SingleLines(so) == \A i \in DOMAIN so : Single(so[i])

\* Of nothing, all of this holds.
LEMMA NoLines == \A n : Lines(<<>>, n) /\ SingleLines(<<>>) /\ Below(<<>>, n) /\ Single(<<>>)
                        /\ Whole(<<>>) /\ Closed(<<>>) /\ InOrder(<<>>, n)
BY DEF Lines, SingleLines, Below, Single, Whole, Closed, InOrder

\* A log below a number is below a higher one.
LEMMA BelowMore ==
  ASSUME NEW s \in Seq(Event), NEW n \in Nat, NEW m \in Nat, n <= m, Below(s, n)
  PROVE  Below(s, m)
<1>1. \A i \in DOMAIN s : s[i].seq \in Nat /\ s[i].seq < n
  BY SeqShape, EventShape DEF Below
<1> QED BY <1>1 DEF Below

\* So are the lines of the socket.
LEMMA LinesMore ==
  ASSUME NEW so \in Seq(Seq(Event)), NEW n \in Nat, NEW m \in Nat, n <= m, Lines(so, n)
  PROVE  Lines(so, m)
<1>1. \A i \in DOMAIN so : so[i] \in Seq(Event) /\ Below(so[i], n)
  BY SeqShape DEF Lines
<1> QED BY <1>1, BelowMore DEF Lines

\* The elements of a sequence with one more at its end.
LEMMA AppendElements ==
  ASSUME NEW S, NEW s \in Seq(S), NEW x \in S
  PROVE  /\ Append(s, x) \in Seq(S)
         /\ \A i \in DOMAIN s : i \in DOMAIN Append(s, x) /\ Append(s, x)[i] = s[i]
         /\ \A i \in DOMAIN Append(s, x) : Append(s, x)[i] = x \/ (i \in DOMAIN s /\ Append(s, x)[i] = s[i])
<1> DEFINE a == Append(s, x)
           m == Len(s)
<1>1. /\ m \in Nat /\ DOMAIN s = 1..m /\ a \in Seq(S) /\ DOMAIN a = 1..(m + 1)
      /\ \A i \in 1..m : a[i] = s[i]
      /\ a[m + 1] = x
  BY SeqShape, AppendProperties
<1> HIDE DEF a, m
<1>2. \A i \in 1..(m + 1) : i = m + 1 \/ i \in 1..m
  BY <1>1
<1>3. \A i \in 1..m : i \in 1..(m + 1)
  BY <1>1
<1> QED BY <1>1, <1>2, <1>3 DEF a

\* One event more is held.
LEMMA HeldMore ==
  ASSUME NEW s \in Seq(Event), NEW e \in Event
  PROVE  /\ Append(s, e) \in Seq(Event)
         /\ \A n : Below(s, n) /\ e.seq < n => Below(Append(s, e), n)
         /\ Single(s) /\ e.words = {e.seq} => Single(Append(s, e))
         /\ Single(Append(s, e)) => Single(s)
<1> DEFINE a == Append(s, e)
<1>1. /\ a \in Seq(Event)
      /\ \A i \in DOMAIN s : i \in DOMAIN a /\ a[i] = s[i]
      /\ \A i \in DOMAIN a : a[i] = e \/ (i \in DOMAIN s /\ a[i] = s[i])
  BY AppendElements
<1> HIDE DEF a
<1>2. (\A n : Below(s, n) /\ e.seq < n => Below(a, n)) /\ (Single(s) /\ e.words = {e.seq} => Single(a))
      /\ (Single(a) => Single(s))
  BY <1>1 DEF Below, Single
<1> QED BY <1>1, <1>2 DEF a

\* A line of one event, as the broadcast sends it.
LEMMA OneEvent ==
  ASSUME NEW e \in Event
  PROVE  /\ <<e>> \in Seq(Event)
         /\ \A n : e.seq < n => Below(<<e>>, n)
         /\ e.words = {e.seq} => Single(<<e>>) /\ Whole(<<e>>) /\ Closed(<<e>>)
<1>1. <<e>> \in Seq(Event) /\ DOMAIN <<e>> = {1} /\ <<e>>[1] = e
  OBVIOUS
<1>2. e.seq \in Nat /\ e.seq <= e.seq /\ ~(1 < 1)
  BY EventShape
<1> DEFINE s == <<e>>
<1> HIDE DEF s
<1>3. DOMAIN s = {1} /\ s[1] = e
  BY <1>1 DEF s
<1>4. \A n : e.seq < n => Below(s, n)
  BY <1>3 DEF Below
<1>5. ASSUME e.words = {e.seq} PROVE Single(s) /\ Whole(s) /\ Closed(s)
  <2>1. Single(s) /\ Closed(s)
    BY <1>2, <1>3, <1>5 DEF Single, Closed
  <2>2. Whole(s)
    BY <1>2, <1>3, <1>5 DEF Whole
  <2> QED BY <2>1, <2>2
<1> QED BY <1>1, <1>4, <1>5 DEF s

\* A line more at the end, or between the others.
LEMMA LineAppended ==
  ASSUME NEW so \in Seq(Seq(Event)), NEW x \in Seq(Event)
  PROVE  /\ Append(so, x) \in Seq(Seq(Event))
         /\ \A n : Lines(so, n) /\ Below(x, n) => Lines(Append(so, x), n)
         /\ SingleLines(so) /\ Single(x) => SingleLines(Append(so, x))
<1> DEFINE a == Append(so, x)
<1>1. /\ a \in Seq(Seq(Event))
      /\ \A i \in DOMAIN a : a[i] = x \/ (i \in DOMAIN so /\ a[i] = so[i])
  BY AppendElements
<1> HIDE DEF a
<1>2. /\ \A n : Lines(so, n) /\ Below(x, n) => Lines(a, n)
      /\ SingleLines(so) /\ Single(x) => SingleLines(a)
  BY <1>1 DEF Lines, SingleLines
<1> QED BY <1>1, <1>2 DEF a

\* The answer to a reconnect may stand anywhere among them.
LEMMA LineInserted ==
  ASSUME NEW so \in Seq(Seq(Event)), NEW x \in Seq(Event), NEW place \in 1..(Len(so) + 1)
  PROVE  /\ InsertAt(so, place, x) \in Seq(Seq(Event))
         /\ \A n : Lines(so, n) /\ Below(x, n) => Lines(InsertAt(so, place, x), n)
         /\ SingleLines(so) /\ Single(x) => SingleLines(InsertAt(so, place, x))
<1> DEFINE a == InsertAt(so, place, x)
<1>1. /\ a \in Seq(Seq(Event))
      /\ \A i \in DOMAIN a : a[i] = x \/ \E j \in DOMAIN so : a[i] = so[j]
  BY InsertAtIs
<1> HIDE DEF a
<1>2. /\ \A n : Lines(so, n) /\ Below(x, n) => Lines(a, n)
      /\ SingleLines(so) /\ Single(x) => SingleLines(a)
  BY <1>1 DEF Lines, SingleLines
<1> QED BY <1>1, <1>2 DEF a

\* What is left on the socket when the next event of its line is read.
Rest(so) ==
  LET line == Head(so)
  IN  IF Len(line) < 2 THEN Tail(so) ELSE [so EXCEPT ![1] = Tail(line)]

\* The event read is one of its line's, and the others stay.
LEMMA RestIs ==
  ASSUME NEW so \in Seq(Seq(Event)), so # <<>>
  PROVE  /\ Rest(so) \in Seq(Seq(Event)) /\ Tail(so) \in Seq(Seq(Event))
         /\ Head(so) \in Seq(Event)
         /\ \A n : Lines(so, n) => Lines(Rest(so), n) /\ Lines(Tail(so), n)
         /\ SingleLines(so) => SingleLines(Rest(so)) /\ SingleLines(Tail(so))
         /\ Head(so) # <<>> =>
              /\ Head(Head(so)) \in Event
              /\ \A n : Lines(so, n) => Head(Head(so)).seq < n
              /\ SingleLines(so) => Head(Head(so)).words = {Head(Head(so)).seq}
<1> DEFINE line == Head(so)
           tail == Tail(so)
<1>1. Len(so) \in Nat /\ DOMAIN so = 1..Len(so) /\ \A i \in DOMAIN so : so[i] \in Seq(Event)
  BY SeqShape
<1>2. 1 \in DOMAIN so /\ line = so[1] /\ line \in Seq(Event)
  BY <1>1
<1>3. tail \in Seq(Seq(Event)) /\ \A i \in DOMAIN tail : \E j \in DOMAIN so : tail[i] = so[j]
  <2>1. /\ tail \in Seq(Seq(Event)) /\ Len(tail) = Len(so) - 1
        /\ \A i \in 1..Len(tail) : tail[i] = so[i + 1]
    BY HeadTailProperties
  <2>2. DOMAIN tail = 1..Len(tail)
    BY <2>1
  <2>3. \A i \in 1..Len(tail) : i + 1 \in DOMAIN so
    BY <1>1, <2>1
  <2> QED BY <2>1, <2>2, <2>3
<1>4. (\A n : Lines(so, n) => Lines(tail, n)) /\ (SingleLines(so) => SingleLines(tail))
  <2> HIDE DEF tail
  <2> QED BY <1>3 DEF Lines, SingleLines
<1>5. ASSUME Len(line) >= 2
      PROVE  /\ [so EXCEPT ![1] = Tail(line)] \in Seq(Seq(Event))
             /\ \A n : Lines(so, n) => Lines([so EXCEPT ![1] = Tail(line)], n)
             /\ SingleLines(so) => SingleLines([so EXCEPT ![1] = Tail(line)])
  <2> DEFINE short == Tail(line)
             rest == [so EXCEPT ![1] = short]
  <2>1. line # <<>>
    BY <1>5
  <2>2. /\ short \in Seq(Event) /\ Len(short) = Len(line) - 1
        /\ \A i \in 1..Len(short) : short[i] = line[i + 1]
    <3> HIDE DEF line
    <3> QED BY <1>2, <2>1, HeadTailProperties
  <2>3. Len(line) \in Nat /\ DOMAIN line = 1..Len(line) /\ DOMAIN short = 1..Len(short)
    BY <1>2, <2>2
  <2>4. \A i \in DOMAIN short : i + 1 \in DOMAIN line /\ short[i] = line[i + 1]
    BY <2>2, <2>3
  <2> HIDE DEF short, line
  <2>5. rest \in Seq(Seq(Event)) /\ DOMAIN rest = DOMAIN so /\ rest[1] = short
        /\ \A i \in DOMAIN so : i # 1 => rest[i] = so[i]
    <3>1. rest = [i \in DOMAIN so |-> IF i = 1 THEN short ELSE so[i]]
      OBVIOUS
    <3>2. rest \in [1..Len(so) -> Seq(Event)]
      BY <1>1, <2>2, <3>1
    <3>3. rest \in Seq(Seq(Event))
      BY <1>1, <3>2
    <3> QED BY <1>1, <1>2, <3>1, <3>3
  <2> HIDE DEF rest
  <2>6. (\A n : Below(line, n) => Below(short, n)) /\ (Single(line) => Single(short))
    BY <2>4 DEF Below, Single
  <2>7. (\A n : Lines(so, n) => Lines(rest, n)) /\ (SingleLines(so) => SingleLines(rest))
    BY <1>2, <2>5, <2>6 DEF Lines, SingleLines
  <2> QED BY <2>5, <2>7 DEF rest, short, line
<1>6. Rest(so) = tail \/ (Len(line) >= 2 /\ Rest(so) = [so EXCEPT ![1] = Tail(line)])
  <2>1. Len(line) \in Nat
    BY <1>2
  <2> QED BY <2>1 DEF Rest
<1>7. ASSUME line # <<>>
      PROVE  /\ Head(line) \in Event
             /\ \A n : Lines(so, n) => Head(line).seq < n
             /\ SingleLines(so) => Head(line).words = {Head(line).seq}
  <2> HIDE DEF line
  <2>1. Head(line) = line[1] /\ 1 \in DOMAIN line /\ Head(line) \in Event
    BY <1>2, <1>7
  <2>2. (\A n : Lines(so, n) => Below(line, n)) /\ (SingleLines(so) => Single(line))
    BY <1>2 DEF Lines, SingleLines
  <2> QED BY <2>1, <2>2 DEF Below, Single
<1> QED BY <1>2, <1>3, <1>4, <1>5, <1>6, <1>7

\* What persist does to what waits: written or waiting, it is all there.
LEMMA PersistIs ==
  ASSUME NEW d \in Seq(Event), NEW u \in Seq(Event), NEW e \in Event,
         NEW written \in 0..Len(Append(u, e))
  PROVE  LET w == Append(u, e)
             d2 == d \o SubSeq(w, 1, written)
             u2 == SubSeq(w, written + 1, Len(w))
         IN  d2 \in Seq(Event) /\ u2 \in Seq(Event) /\ d2 \o u2 = Append(d \o u, e)
<1> DEFINE w == Append(u, e)
           front == SubSeq(w, 1, written)
           back == SubSeq(w, written + 1, Len(w))
<1>1. w \in Seq(Event) /\ Len(w) \in Nat /\ written \in 0..Len(w)
  BY AppendProperties
<1>2. front \in Seq(Event) /\ back \in Seq(Event)
  <2> HIDE DEF w
  <2>1. \A i \in 1..Len(w) : w[i] \in Event
    BY <1>1
  <2>2. \A i \in 1..written : w[i] \in Event
    BY <1>1, <2>1
  <2>3. \A i \in (written + 1)..Len(w) : w[i] \in Event
    BY <1>1, <2>1
  <2>4. written \in Int /\ written + 1 \in Int /\ 1 \in Int /\ Len(w) \in Int
    BY <1>1
  <2> QED BY <2>2, <2>3, <2>4, SubSeqProperties
<1>3. front \o back = w
  <2> HIDE DEF w
  <2>1. 1 \in 1..(Len(w) + 1) /\ written \in (1 - 1)..Len(w) /\ Len(w) \in written..Len(w)
    BY <1>1
  <2>2. front \o back = SubSeq(w, 1, Len(w))
    BY <1>1, <2>1, ConcatAdjacentSubSeq
  <2> QED BY <1>1, <2>2, SubSeqFull
<1> HIDE DEF front, back
<1>4. (d \o front) \o back = d \o (front \o back)
  <2>1. d \in Seq(Event) /\ front \in Seq(Event) /\ back \in Seq(Event)
    BY <1>2
  <2> QED BY ONLY <2>1, ConcatAssociative
<1>5. Append(d \o u, e) = d \o w
  <2>1. Append(d \o u, e) = d \o (u \o <<e>>)
    BY ConcatOne
  <2>2. w = u \o <<e>>
    BY AppendIsConcat
  <2> QED BY <2>1, <2>2
<1>6. d \o front \in Seq(Event)
  BY <1>2, ConcatProperties
<1> QED BY <1>2, <1>3, <1>4, <1>5, <1>6 DEF front, back

-----------------------------------------------------------------------------
(* The inductive invariant. *)

\* The types of the log's variables.
LogTypes ==
  /\ up \in BOOLEAN /\ turn \in {"running", "ended", "compacted"}
  /\ next \in 1..(Top + 1) /\ born \in 0..Top
  /\ entries \in Seq(Event) /\ disk \in Seq(Event) /\ unsaved \in Seq(Event)
\* The types of the bridge's.
BridgeTypes ==
  /\ linked \in BOOLEAN /\ socket \in Seq(Seq(Event)) /\ lastSeq \in 0..Top
  /\ replay \in [state : {"none", "asked", "live"}, since : 0..Top]
\* The types of the page's.
PageTypes ==
  /\ replayed \in BOOLEAN /\ catching \in BOOLEAN /\ retry \in BOOLEAN
  /\ daemonSeq \in 0..Top /\ shown \in Seq(SUBSET (1..Top)) /\ held \in Seq(Event)
  /\ ask \in [state : {"none", "asked", "answered"}, since : 0..Top, events : Seq(Event)]
\* The types of the counters and of the lapses.
CountTypes ==
  lapses \subseteq {"forgotten", "astray", "skipped"} /\ drops \in Nat /\ crashes \in Nat
\* The types of the state.
Types == LogTypes /\ BridgeTypes /\ PageTypes /\ CountTypes

\* What the daemon knows: the rows, and what the database refused.
Log   == disk \o unsaved
\* No crash has taken an event the database had refused.
Clean == "forgotten" \notin lapses
\* No connection was lost, or nothing has been joined up: the page cannot
\* hold part of a run and be sent all of it.
Plain == drops + crashes = 0 \/ Single(Log)

\* The log's numbers rise and are below the next; the projection is the log.
Numbers ==
  /\ next <= born + 1
  /\ turn = "running" => born <= MaxEvents
  /\ Ordered(Log) /\ Below(Log, next)
  /\ up => entries = Log
  /\ ~up => unsaved = <<>> /\ entries = <<>>

\* The bridge asks for what it missed only after it has lost a connection.
Reconnects ==
  drops + crashes = 0 => up /\ replay.state # "asked" /\ (linked \/ lastSeq = 0)

\* Every event born took the next number, and is in the log.
CleanLog == next = born + 1 /\ Saved(Log, next, turn)

\* Nothing on its way to the page has a number not given out yet; the
\* answer to the page's event.list is as whole as the log.
Flight ==
  /\ daemonSeq < next /\ lastSeq < next
  /\ Below(held, next) /\ Below(ask.events, next) /\ Lines(socket, next)
  /\ Whole(ask.events) /\ Closed(ask.events)

\* The page has folded words in order, up to the number it has reached.
OnScreen == Single(held) /\ SingleLines(socket) /\ InOrder(shown, daemonSeq)

\* The inductive invariant.
IInv ==
  /\ Types /\ Numbers /\ Reconnects
  /\ Clean => CleanLog
  /\ Clean => Flight
  /\ Clean /\ Plain => OnScreen

-----------------------------------------------------------------------------
(* The shape of the state. *)

\* The range of the numbers.
LEMMA Tops == Top \in Nat /\ Top = MaxEvents + 2 /\ Top + 1 = MaxEvents + 3 /\ 0 \in 0..Top /\ 1..Top \subseteq 0..Top
              /\ 1..Top \subseteq Nat /\ 0..Top \subseteq Nat
BY Bounds DEF Top

\* A request on its way.
LEMMA NothingAsked ==
  \A n \in 0..Top : [NoAsk EXCEPT !.state = "asked", !.since = n]
                      \in [state : {"none", "asked", "answered"}, since : 0..Top, events : Seq(Event)]
                    /\ [NoAsk EXCEPT !.state = "asked", !.since = n].events = <<>>
<1>1. <<>> \in Seq(Event)
  OBVIOUS
<1> QED BY <1>1 DEF NoAsk

\* No request, or the first.
LEMMA NoAskShape ==
  /\ NoAsk \in [state : {"none", "asked", "answered"}, since : 0..Top, events : Seq(Event)]
  /\ NoAsk.events = <<>>
  /\ [NoAsk EXCEPT !.state = "asked"]
       \in [state : {"none", "asked", "answered"}, since : 0..Top, events : Seq(Event)]
  /\ [NoAsk EXCEPT !.state = "asked"].events = <<>>
<1>1. <<>> \in Seq(Event)
  OBVIOUS
<1> QED BY <1>1, Tops DEF NoAsk

\* The event a push makes, and the log with it.
Pushed(kind) == [seq |-> next, kind |-> kind, words |-> {born + 1}]

\* ChannelNotifier::push puts the event at the log's end, written or waiting.
LEMMA PushLog ==
  ASSUME LogTypes, Numbers, NEW kind \in Kinds, Push(kind)
  PROVE  /\ Pushed(kind) \in Event /\ disk' \in Seq(Event) /\ unsaved' \in Seq(Event)
         /\ disk' \o unsaved' = Append(disk \o unsaved, Pushed(kind))
<1> DEFINE e == Pushed(kind)
<1>1. e \in Event
  <2>1. born < MaxEvents /\ next \in Nat /\ next >= 1 /\ born \in Nat /\ next <= born + 1
    BY Tops DEF LogTypes, Numbers, Push
  <2>2. next \in 1..(MaxEvents + 2) /\ {born + 1} \in SUBSET (1..(MaxEvents + 2))
    BY <2>1, Bounds
  <2> QED BY <2>2 DEF Event, Pushed
<1>2. PICK written \in 0..Len(Append(unsaved, e)) : Persist(Append(unsaved, e), written)
  BY DEF Push, Pushed
<1>3. disk \in Seq(Event) /\ unsaved \in Seq(Event)
  BY DEF LogTypes
<1> HIDE DEF e
<1> DEFINE w == Append(unsaved, e)
           d2 == disk \o SubSeq(w, 1, written)
           u2 == SubSeq(w, written + 1, Len(w))
<1>4. d2 \in Seq(Event) /\ u2 \in Seq(Event) /\ d2 \o u2 = Append(disk \o unsaved, e)
  BY <1>1, <1>2, <1>3, PersistIs
<1>5. disk' = d2 /\ unsaved' = u2
  BY <1>2 DEF Persist
<1> HIDE DEF d2, u2
<1> QED BY <1>1, <1>4, <1>5 DEF e

\* compact_turn joins runs of the log, the same in rows and projection.
LEMMA CompactLog ==
  ASSUME LogTypes, Numbers, CompactTurn
  PROVE  /\ disk' \in Seq(Event) /\ disk' \o unsaved = Apply(Log, disk) /\ entries' = Apply(Log, disk)
         /\ Log \in Seq(Event) /\ Apply(Log, disk) \in Seq(Event)
         /\ \E J, pos : JoinsUp(Apply(Log, disk), Log, J, pos)
<1>1. disk \in Seq(Event) /\ unsaved \in Seq(Event) /\ Log \in Seq(Event) /\ Ordered(Log)
  BY ConcatProperties DEF LogTypes, Numbers, Log
<1>2. Ordered(disk)
  BY <1>1, ConcatShape DEF Ordered, Log
<1>3. Apply(disk, disk) \in Seq(Event)
  <2>1. disk = disk \o <<>> /\ <<>> \in Seq(Event)
    BY <1>1
  <2> QED BY <1>1, <1>2, <2>1, ApplyJoins
<1>4. Apply(Log, disk) = Apply(disk, disk) \o unsaved
  BY <1>1, ApplyConcat DEF Log
<1>5. Apply(Log, disk) \in Seq(Event) /\ \E J, pos : JoinsUp(Apply(Log, disk), Log, J, pos)
  BY <1>1, ApplyJoins DEF Log
<1>6. disk' = Apply(disk, disk) /\ entries' = Apply(Log, disk)
  BY DEF CompactTurn, Numbers
<1> QED BY <1>1, <1>3, <1>4, <1>5, <1>6

\* What the next daemon finds: the rows, with the end of a turn cut off.
LEMMA CutOffIs ==
  ASSUME NEW d \in Seq(Event), Ordered(d), NEW b \in 0..MaxEvents, LastSeq(d) <= b
  PROVE  LET last == LastSeq(d)
             ended == [seq |-> last + 1, kind |-> "end", words |-> {b + 1}]
             note  == [seq |-> last + 2, kind |-> "note", words |-> {b + 2}]
         IN  /\ ended \in Event /\ note \in Event
             /\ d \o <<ended, note>> = Append(Append(d, ended), note)
             /\ Append(d, ended) \in Seq(Event) /\ Ordered(Append(d, ended))
             /\ Below(d, last + 1) /\ Below(Append(d, ended), last + 2)
             /\ Append(Append(d, ended), note) \in Seq(Event)
             /\ Ordered(Append(Append(d, ended), note))
             /\ Below(Append(Append(d, ended), note), last + 3)
<1> DEFINE last == LastSeq(d)
           ended == [seq |-> last + 1, kind |-> "end", words |-> {b + 1}]
           note  == [seq |-> last + 2, kind |-> "note", words |-> {b + 2}]
<1>1. last \in 0..Top /\ \A i \in DOMAIN d : d[i].seq <= last
  BY LastSeqIs
<1>2. last \in Nat /\ last <= b /\ b \in Nat /\ b <= MaxEvents
  BY <1>1, Tops, Bounds
<1> HIDE DEF last
<1>3. ended \in Event /\ note \in Event
  <2>1. last + 1 \in 1..(MaxEvents + 2) /\ last + 2 \in 1..(MaxEvents + 2)
        /\ {b + 1} \in SUBSET (1..(MaxEvents + 2)) /\ {b + 2} \in SUBSET (1..(MaxEvents + 2))
    BY <1>2, Bounds
  <2> QED BY <2>1 DEF Event, Kinds
<1>4. ended.seq = last + 1 /\ note.seq = last + 2 /\ last + 1 + 1 = last + 2 /\ last + 2 + 1 = last + 3
  BY <1>2
<1> HIDE DEF ended, note
<1>5. Below(d, last + 1)
  <2>1. \A i \in DOMAIN d : d[i].seq \in Nat /\ d[i].seq <= last
    BY <1>1, SeqShape, EventShape
  <2>2. \A n \in Nat : n <= last => n < last + 1
    BY <1>2
  <2> QED BY <2>1, <2>2 DEF Below
<1>6. Append(d, ended) \in Seq(Event) /\ Ordered(Append(d, ended)) /\ Below(Append(d, ended), last + 2)
  BY <1>3, <1>4, <1>5, OrderedAppend
<1>7. /\ Append(Append(d, ended), note) \in Seq(Event)
      /\ Ordered(Append(Append(d, ended), note))
      /\ Below(Append(Append(d, ended), note), last + 3)
  BY <1>3, <1>4, <1>6, OrderedAppend
<1>8. d \o <<ended, note>> = Append(Append(d, ended), note)
  <2>1. Append(Append(d, ended), note) = Append(d \o <<ended>>, note)
    BY <1>3, AppendIsConcat
  <2>2. <<ended>> \in Seq(Event) /\ <<ended>> \o <<note>> = <<ended, note>>
    <3>1. <<ended>> \in Seq(Event) /\ <<note>> \in Seq(Event) /\ <<ended, note>> \in Seq(Event)
          /\ Len(<<ended>>) = 1 /\ Len(<<note>>) = 1 /\ Len(<<ended, note>>) = 2
          /\ <<ended>>[1] = ended /\ <<note>>[1] = note
          /\ <<ended, note>>[1] = ended /\ <<ended, note>>[2] = note
      BY <1>3
    <3> DEFINE u == <<ended>>
               v == <<note>>
               w == <<ended, note>>
    <3> HIDE DEF u, v, w
    <3>2. u \in Seq(Event) /\ v \in Seq(Event) /\ w \in Seq(Event) /\ Len(u) = 1 /\ Len(v) = 1
          /\ Len(w) = 2 /\ u[1] = ended /\ v[1] = note /\ w[1] = ended /\ w[2] = note
      BY <3>1 DEF u, v, w
    <3>3. u \o v \in Seq(Event) /\ Len(u \o v) = 2 /\ (u \o v)[1] = ended /\ (u \o v)[2] = note
      <4>1. /\ u \o v \in Seq(Event) /\ Len(u \o v) = Len(u) + Len(v)
            /\ DOMAIN u = 1..Len(u) /\ DOMAIN v = 1..Len(v)
            /\ \A i \in DOMAIN u : (u \o v)[i] = u[i]
            /\ \A i \in DOMAIN v : (u \o v)[Len(u) + i] = v[i]
        BY <3>2, ConcatShape
      <4>2. 1 \in DOMAIN u /\ 1 \in DOMAIN v /\ Len(u) + 1 = 2 /\ Len(u) + Len(v) = 2
        BY <3>2, <4>1
      <4>3. (u \o v)[1] = ended
        BY <3>2, <4>1, <4>2
      <4>4. (u \o v)[Len(u) + 1] = note
        BY <3>2, <4>1, <4>2
      <4> QED BY <4>1, <4>2, <4>3, <4>4
    <3>4. \A i \in 1..2 : (u \o v)[i] = w[i]
      BY <3>2, <3>3
    <3>5. u \o v = w
      BY <3>2, <3>3, <3>4, SeqEqual
    <3> QED BY <3>1, <3>5 DEF u, v, w
  <2>3. Append(d \o <<ended>>, note) = d \o (<<ended>> \o <<note>>)
    BY <1>3, <2>2, ConcatOne
  <2> QED BY <2>1, <2>2, <2>3
<1> QED BY <1>3, <1>5, <1>6, <1>7, <1>8 DEF last, ended, note

\* The rows with the end and the note of close_interrupted_turns.
Cut(kept) ==
  LET last == LastSeq(disk)
      ended == [seq |-> last + 1, kind |-> "end", words |-> {born + 1}]
      note  == [seq |-> last + 2, kind |-> "note", words |-> {born + 2}]
  IN  kept = Append(Append(disk, ended), note)

\* The new daemon's log: the rows it found, those two with them when a
\* turn was running, joined up or not; it goes on after the last.
LEMMA RestartLog ==
  ASSUME LogTypes, Numbers, Restart
  PROVE  /\ Log = disk /\ disk' \in Seq(Event) /\ unsaved' = <<>> /\ disk' \o unsaved' = disk'
         /\ up' = TRUE /\ turn' = "compacted" /\ entries' = disk'
         /\ LastSeq(disk) <= born
         /\ \E kept \in Seq(Event) :
              /\ Ordered(kept)
              /\ turn # "running" => kept = disk
              /\ turn = "running" => Cut(kept) /\ born \in 0..MaxEvents
              /\ disk' = kept \/ \E J, pos : JoinsUp(disk', kept, J, pos)
         /\ Ordered(disk') /\ Below(disk', born' + 1) /\ born' \in 0..Top /\ born <= born'
         /\ next' = LastSeq(disk') + 1
<1>1. /\ unsaved = <<>> /\ disk \in Seq(Event) /\ Log = disk /\ Ordered(disk) /\ Below(disk, next)
      /\ next \in Nat /\ next >= 1 /\ born \in Nat /\ born \in 0..Top /\ next <= born + 1
      /\ turn = "running" => born <= MaxEvents
  <2>1. unsaved = <<>> /\ disk \in Seq(Event) /\ next \in 1..(Top + 1) /\ born \in 0..Top
        /\ next <= born + 1 /\ (turn = "running" => born <= MaxEvents)
    BY DEF LogTypes, Numbers, Restart
  <2>2. Log = disk
    BY <2>1 DEF Log
  <2> QED BY <2>1, <2>2, Tops DEF Numbers
<1>2. LastSeq(disk) <= born /\ Below(disk, born + 1)
  <2>1. Below(disk, born + 1)
    BY <1>1, BelowMore
  <2> QED BY <1>1, <2>1, LastSeqIs
<1> DEFINE last  == LastSeq(disk)
           ended == [seq |-> last + 1, kind |-> "end", words |-> {born + 1}]
           note  == [seq |-> last + 2, kind |-> "note", words |-> {born + 2}]
           kept  == IF turn # "running" THEN disk ELSE disk \o <<ended, note>>
           table == IF \E e \in ToSet(kept) : e.kind = "end" THEN Compaction(kept) ELSE kept
<1>3. /\ disk' = table /\ entries' = table /\ next' = LastSeq(table) + 1
      /\ up' = TRUE /\ turn' = "compacted" /\ unsaved' = unsaved
      /\ born' = IF turn # "running" THEN born ELSE born + 2
  BY DEF Restart, NextAfter
<1>4. /\ kept \in Seq(Event) /\ Ordered(kept) /\ Below(kept, born' + 1)
      /\ turn # "running" => kept = disk
      /\ turn = "running" => Cut(kept) /\ born \in 0..MaxEvents
  <2>1. CASE turn # "running"
    BY <1>1, <1>2, <1>3, <2>1
  <2>2. CASE turn = "running"
    <3>1. born \in 0..MaxEvents
      BY <1>1, <2>2, Bounds
    <3>2. /\ disk \o <<ended, note>> = Append(Append(disk, ended), note)
          /\ Append(Append(disk, ended), note) \in Seq(Event)
          /\ Ordered(Append(Append(disk, ended), note))
          /\ Below(Append(Append(disk, ended), note), last + 3)
      BY <1>1, <1>2, <3>1, CutOffIs
    <3>3. last \in Nat /\ last + 3 \in Nat /\ born' + 1 \in Nat /\ last + 3 <= born' + 1
      <4>1. last \in 0..Top
        BY <1>1, LastSeqIs
      <4> HIDE DEF last
      <4>2. last \in Nat /\ last <= born
        BY <4>1, <1>2, Tops DEF last
      <4> QED BY <1>1, <1>3, <2>2, <4>2
    <3>4. kept = Append(Append(disk, ended), note)
      BY <2>2, <3>2
    <3>5. Cut(kept)
      BY <3>4 DEF Cut
    <3> HIDE DEF kept, last, ended, note
    <3>6. Below(kept, born' + 1)
      BY <3>2, <3>3, <3>4, BelowMore
    <3> QED BY <2>2, <3>1, <3>2, <3>4, <3>5, <3>6
  <2> QED BY <2>1, <2>2
<1>5. born' \in 0..Top /\ born <= born' /\ born' + 1 \in Nat
  BY <1>1, <1>3, Bounds, Tops
<1> HIDE DEF kept
<1>6. table \in Seq(Event) /\ (table = kept \/ \E J, pos : JoinsUp(table, kept, J, pos))
  <2>1. kept = kept \o <<>> /\ <<>> \in Seq(Event)
    BY <1>4
  <2>2. Compaction(kept) \in Seq(Event) /\ \E J, pos : JoinsUp(Compaction(kept), kept, J, pos)
    BY <1>4, <2>1, ApplyJoins DEF Compaction
  <2> QED BY <1>4, <2>2
<1> HIDE DEF table
<1>7. Ordered(table) /\ Below(table, born' + 1)
  <2>1. CASE table = kept
    BY <1>4, <2>1
  <2>2. ASSUME NEW J, NEW pos, JoinsUp(table, kept, J, pos)
        PROVE  Ordered(table) /\ Below(table, born' + 1)
    BY <1>4, <1>5, <1>6, <2>2, JoinsUpKeeps
  <2> QED BY <1>6, <2>1, <2>2
<1>8. disk' \o unsaved' = disk' /\ unsaved' = <<>>
  <2>1. table \o <<>> = table
    BY <1>6
  <2> QED BY <1>1, <1>3, <2>1
<1> QED BY <1>1, <1>2, <1>3, <1>4, <1>5, <1>6, <1>7, <1>8

\* Every step keeps the log's types.
LEMMA NextLogTypes == LogTypes /\ Numbers /\ [Next]_vars => LogTypes'
<1> SUFFICES ASSUME LogTypes, Numbers, [Next]_vars PROVE LogTypes'
  OBVIOUS
<1>1. ASSUME NEW kind \in Kinds, Push(kind) PROVE LogTypes'
  <2>1. disk' \in Seq(Event) /\ unsaved' \in Seq(Event) /\ Pushed(kind) \in Event
    BY <1>1, PushLog
  <2>2. /\ up' = up /\ next' = next + 1 /\ born' = born + 1 /\ born < MaxEvents
        /\ turn' = (IF kind = "end" THEN "ended" ELSE turn)
        /\ entries' = Append(entries, Pushed(kind))
    BY <1>1 DEF Push, Numbered, Pushed
  <2>3. next' \in 1..(Top + 1) /\ born' \in 0..Top
    <3>1. next \in Nat /\ born \in Nat /\ next <= born + 1 /\ next >= 1
      BY Tops DEF LogTypes, Numbers
    <3> QED BY <2>2, <3>1, Tops, Bounds
  <2>4. entries' \in Seq(Event)
    BY <2>1, <2>2, AppendProperties DEF LogTypes
  <2>5. up' \in BOOLEAN /\ turn' \in {"running", "ended", "compacted"}
    BY <2>2 DEF LogTypes
  <2> QED BY <2>1, <2>3, <2>4, <2>5 DEF LogTypes
<1>2. CASE CompactTurn
  <2>1. disk' \in Seq(Event) /\ entries' \in Seq(Event)
    BY <1>2, CompactLog
  <2> QED BY <1>2, <2>1 DEF LogTypes, CompactTurn
<1>3. CASE Crash
  <2>1. <<>> \in Seq(Event)
    OBVIOUS
  <2> QED BY <1>3, <2>1 DEF LogTypes, Crash
<1>4. CASE Restart
  <2>1. /\ disk' \in Seq(Event) /\ unsaved' = <<>> /\ up' = TRUE /\ turn' = "compacted"
        /\ entries' = disk' /\ Ordered(disk') /\ born' \in 0..Top
        /\ next' = LastSeq(disk') + 1
    BY <1>4, RestartLog
  <2>2. LastSeq(disk') \in 0..Top
    BY <2>1, LastSeqIs
  <2>3. next' \in 1..(Top + 1)
    BY <2>1, <2>2, Tops
  <2>4. <<>> \in Seq(Event)
    OBVIOUS
  <2> QED BY <2>1, <2>3, <2>4 DEF LogTypes
<1>5. ASSUME UNCHANGED logVars PROVE LogTypes'
  BY <1>5 DEF LogTypes, logVars
<1>6. CASE Connect \/ Drop \/ Reload \/ Delivery
  <2>1. UNCHANGED logVars
    BY <1>6 DEF Connect, Drop, Reload, Delivery, AnswerLive, AnswerReplay, BridgeRead, AnswerList,
                ListFails, Retry, ListArrives
  <2> QED BY <1>5, <2>1
<1>7. CASE UNCHANGED vars
  <2>1. UNCHANGED logVars
    BY <1>7 DEF vars
  <2> QED BY <1>5, <2>1
<1> QED BY <1>1, <1>2, <1>3, <1>4, <1>6, <1>7 DEF Next

\* The bridge leaves what comes after the event it reads.
LEMMA RestRead ==
  ASSUME socket \in Seq(Seq(Event)), Head(socket) \in Seq(Event), Head(socket) # <<>>,
         socket' = IF Len(Head(socket)) = 1 THEN Tail(socket)
                   ELSE [socket EXCEPT ![1] = Tail(Head(socket))]
  PROVE  socket' = Rest(socket)
<1> DEFINE k == Len(Head(socket))
<1>1. k \in Nat /\ k # 0
  BY EmptySeq
<1>2. socket' = (IF k = 1 THEN Tail(socket) ELSE [socket EXCEPT ![1] = Tail(Head(socket))])
      /\ Rest(socket) = (IF k < 2 THEN Tail(socket) ELSE [socket EXCEPT ![1] = Tail(Head(socket))])
  BY DEF Rest
<1> HIDE DEF k
<1>3. k = 1 <=> k < 2
  BY <1>1
<1> QED BY <1>2, <1>3

\* Every step keeps the bridge's types.
LEMMA NextBridgeTypes == Types /\ Numbers /\ [Next]_vars => BridgeTypes'
<1> SUFFICES ASSUME Types, Numbers, [Next]_vars PROVE BridgeTypes'
  OBVIOUS
<1>0. LogTypes /\ BridgeTypes
  BY DEF Types
<1>1. ASSUME NEW kind \in Kinds, Push(kind) PROVE BridgeTypes'
  <2>1. Pushed(kind) \in Event
    BY <1>0, <1>1, PushLog
  <2>2. <<Pushed(kind)>> \in Seq(Event) /\ socket \in Seq(Seq(Event))
    BY <1>0, <2>1, OneEvent DEF BridgeTypes
  <2>3. socket' = (IF linked THEN Append(socket, <<Pushed(kind)>>) ELSE socket)
        /\ UNCHANGED <<linked, lastSeq, replay>>
    BY <1>1 DEF Push, Pushed, Broadcast
  <2>4. socket' \in Seq(Seq(Event))
    BY <2>2, <2>3, LineAppended
  <2> QED BY <1>0, <2>3, <2>4 DEF BridgeTypes
<1>2. ASSUME Unlinked, UNCHANGED lastSeq PROVE BridgeTypes'
  <2>1. <<>> \in Seq(Seq(Event))
    OBVIOUS
  <2> QED BY <1>0, <1>2, <2>1, Tops DEF BridgeTypes, Unlinked, NoReplay
<1>3. CASE Crash \/ Drop
  BY <1>2, <1>3 DEF Crash, Drop
<1>4. CASE Connect
  <2>1. <<>> \in Seq(Seq(Event))
    OBVIOUS
  <2> QED BY <1>0, <1>4, <2>1 DEF BridgeTypes, Connect
<1>5. CASE AnswerLive
  <2>1. next \in 1..(Top + 1) /\ lastSeq \in 0..Top
    BY <1>0 DEF LogTypes, BridgeTypes
  <2>2. lastSeq' \in 0..Top
    BY <1>5, <2>1, Tops DEF AnswerLive
  <2> QED BY <1>0, <1>5, <2>2 DEF BridgeTypes, AnswerLive
<1>6. CASE AnswerReplay
  <2>1. After(entries, replay.since) \in Seq(Event)
    BY <1>0, AfterIsPart DEF LogTypes
  <2>2. PICK place \in 1..(Len(socket) + 1) :
          socket' = InsertAt(socket, place, After(entries, replay.since))
    BY <1>6 DEF AnswerReplay
  <2>3. socket' \in Seq(Seq(Event))
    <3>1. socket \in Seq(Seq(Event))
      BY <1>0 DEF BridgeTypes
    <3>2. InsertAt(socket, place, After(entries, replay.since)) \in Seq(Seq(Event))
      BY <2>1, <3>1, LineInserted
    <3> QED BY <2>2, <3>2
  <2> QED BY <1>0, <1>6, <2>3 DEF BridgeTypes, AnswerReplay
<1>7. CASE BridgeRead
  <2>1. socket \in Seq(Seq(Event)) /\ socket # <<>>
    BY <1>0, <1>7 DEF BridgeTypes, BridgeRead
  <2>2. Rest(socket) \in Seq(Seq(Event)) /\ Tail(socket) \in Seq(Seq(Event)) /\ Head(socket) \in Seq(Event)
        /\ (Head(socket) # <<>> => Head(Head(socket)) \in Event)
    BY <2>1, RestIs
  <2>3. CASE Head(socket) = <<>>
    <3>1. socket' = Tail(socket) /\ UNCHANGED <<linked, lastSeq, replay>>
      BY <1>7, <2>3 DEF BridgeRead
    <3> QED BY <1>0, <2>2, <3>1 DEF BridgeTypes
  <2>4. CASE Head(socket) # <<>>
    <3>1. /\ socket' = IF Len(Head(socket)) = 1 THEN Tail(socket)
                       ELSE [socket EXCEPT ![1] = Tail(Head(socket))]
          /\ lastSeq' = Head(Head(socket)).seq /\ UNCHANGED <<linked, replay>>
      BY <1>7, <2>4 DEF BridgeRead
    <3>2. socket' \in Seq(Seq(Event))
      BY <2>1, <2>2, <2>4, <3>1, RestRead
    <3>3. lastSeq' \in 0..Top
      BY <2>2, <2>4, <3>1, EventShape, Tops
    <3> QED BY <1>0, <3>1, <3>2, <3>3 DEF BridgeTypes
  <2> QED BY <2>3, <2>4
<1>8. ASSUME UNCHANGED bridgeVars PROVE BridgeTypes'
  BY <1>0, <1>8 DEF BridgeTypes, bridgeVars
<1>9. CASE CompactTurn \/ Restart \/ Reload \/ AnswerList \/ ListFails \/ Retry \/ ListArrives
  <2>1. UNCHANGED bridgeVars
    BY <1>9 DEF CompactTurn, Restart, Reload, AnswerList, ListFails, Retry, ListArrives
  <2> QED BY <1>8, <2>1
<1>10. CASE UNCHANGED vars
  <2>1. UNCHANGED bridgeVars
    BY <1>10 DEF vars
  <2> QED BY <1>8, <2>1
<1> QED BY <1>1, <1>3, <1>4, <1>5, <1>6, <1>7, <1>9, <1>10 DEF Next, Delivery

\* A page that has been handed one event.
LEMMA NotifiedShape ==
  ASSUME PageTypes, NEW e \in Event, Notified(e), UNCHANGED <<replayed, retry>>
  PROVE  PageTypes'
<1>1. CASE held' = Append(held, e) /\ UNCHANGED <<daemonSeq, shown, catching, ask>>
  <2>1. held' \in Seq(Event)
    BY <1>1, HeldMore DEF PageTypes
  <2> QED BY <1>1, <2>1 DEF PageTypes
<1>2. CASE UNCHANGED <<daemonSeq, shown, catching, ask, held>>
  BY <1>2 DEF PageTypes
<1>3. CASE held' = Append(held, e) /\ CatchUp(daemonSeq) /\ UNCHANGED <<daemonSeq, shown>>
  <2>1. held' \in Seq(Event)
    BY <1>3, HeldMore DEF PageTypes
  <2>2. ask' \in [state : {"none", "asked", "answered"}, since : 0..Top, events : Seq(Event)]
        /\ catching' \in BOOLEAN
    BY <1>3, NothingAsked DEF CatchUp, PageTypes
  <2> QED BY <1>3, <2>1, <2>2 DEF PageTypes
<1>4. CASE SetPage(Folded(page, <<e>>)) /\ UNCHANGED <<catching, ask, held>>
  <2>1. page.seq \in 0..Top /\ page.shown \in Seq(SUBSET (1..Top)) /\ <<e>> \in Seq(Event)
    BY OneEvent DEF page, PageTypes
  <2>2. Folded(page, <<e>>).seq \in 0..Top /\ Folded(page, <<e>>).shown \in Seq(SUBSET (1..Top))
    BY <2>1, FoldedShape
  <2>3. daemonSeq' \in 0..Top /\ shown' \in Seq(SUBSET (1..Top))
    BY <1>4, <2>2 DEF SetPage
  <2> QED BY <1>4, <2>3 DEF PageTypes
<1> QED BY <1>1, <1>2, <1>3, <1>4 DEF Notified

\* What the page makes of the answer: the list folded, then what it held.
LEMMA ListArrivesIs ==
  ASSUME PageTypes, ListArrives
  PROVE  \E late \in SUBSET SeqsOf(held) :
           /\ late = {n \in SeqsOf(held) : n > Folded(page, ask.events).seq}
           /\ daemonSeq' = IF late = {} THEN Folded(page, ask.events).seq ELSE Max(late)
           /\ shown' = Folded(page, ask.events).shown \o LateWords(late)
           /\ lapses' = IF daemonSeq' > Folded(page, ask.events).seq + Cardinality(late)
                        THEN lapses \cup {"skipped"} ELSE lapses
<1> DEFINE caught == Folded(page, ask.events)
           late == {n \in SeqsOf(held) : n > caught.seq}
           last == IF late = {} THEN caught.seq ELSE Max(late)
<1>1. /\ daemonSeq' = last
      /\ shown' = caught.shown \o Listed([n \in late |-> Held(n).words], MaxEvents + 2)
      /\ lapses' = IF last > caught.seq + Cardinality(late) THEN lapses \cup {"skipped"} ELSE lapses
  BY DEF ListArrives
<1>2. late \in SUBSET SeqsOf(held)
  OBVIOUS
<1> HIDE DEF caught
<1>3. late = {n \in SeqsOf(held) : n > caught.seq}
  OBVIOUS
<1>4. last = IF late = {} THEN caught.seq ELSE Max(late)
  OBVIOUS
<1> HIDE DEF late
<1>5. shown' = caught.shown \o LateWords(late)
  BY <1>1 DEF LateWords
<1> HIDE DEF last
<1>6. lapses' = IF daemonSeq' > caught.seq + Cardinality(late) THEN lapses \cup {"skipped"} ELSE lapses
  BY <1>1
<1> QED BY <1>1, <1>2, <1>3, <1>4, <1>5, <1>6 DEF caught

\* The answer keeps the page's types.
LEMMA ListArrivesShape ==
  ASSUME PageTypes, ListArrives
  PROVE  PageTypes'
<1>1. PICK late \in SUBSET SeqsOf(held) :
           /\ daemonSeq' = IF late = {} THEN Folded(page, ask.events).seq ELSE Max(late)
           /\ shown' = Folded(page, ask.events).shown \o LateWords(late)
  BY ListArrivesIs
<1>2. page.seq \in 0..Top /\ page.shown \in Seq(SUBSET (1..Top)) /\ ask.events \in Seq(Event)
      /\ held \in Seq(Event)
  BY DEF page, PageTypes
<1>3. Folded(page, ask.events).seq \in 0..Top /\ Folded(page, ask.events).shown \in Seq(SUBSET (1..Top))
  BY <1>2, FoldedShape
<1>4. late \subseteq 1..Top /\ LateWords(late) \in Seq(SUBSET (1..Top))
  BY <1>2, LateShape
<1>5. daemonSeq' \in 0..Top
  <2>1. late # {} => Max(late) \in 1..Top
    BY <1>4, MaxIs
  <2> QED BY <1>1, <1>3, <2>1, Tops
<1>6. shown' \in Seq(SUBSET (1..Top))
  BY <1>1, <1>3, <1>4, ConcatProperties
<1>7. held' \in Seq(Event) /\ catching' \in BOOLEAN /\ replayed' \in BOOLEAN /\ retry' \in BOOLEAN
      /\ ask' \in [state : {"none", "asked", "answered"}, since : 0..Top, events : Seq(Event)]
  <2>1. <<>> \in Seq(Event)
    OBVIOUS
  <2> QED BY <2>1, NoAskShape DEF ListArrives, PageTypes
<1> QED BY <1>5, <1>6, <1>7 DEF PageTypes

\* Every step keeps the page's types.
LEMMA NextPageTypes == Types /\ Numbers /\ [Next]_vars => PageTypes'
<1> SUFFICES ASSUME Types, Numbers, [Next]_vars PROVE PageTypes'
  OBVIOUS
<1>0. LogTypes /\ BridgeTypes /\ PageTypes
  BY DEF Types
<1>1. ASSUME UNCHANGED pageVars PROVE PageTypes'
  BY <1>0, <1>1 DEF PageTypes, pageVars
<1>2. CASE (\E kind \in Kinds : Push(kind)) \/ CompactTurn \/ Crash \/ Restart \/ Connect \/ Drop
            \/ AnswerLive \/ AnswerReplay
  <2>1. UNCHANGED pageVars
    BY <1>2 DEF Push, CompactTurn, Crash, Restart, Connect, Drop, AnswerLive, AnswerReplay
  <2> QED BY <1>1, <2>1
<1>3. CASE BridgeRead
  <2>1. socket \in Seq(Seq(Event)) /\ socket # <<>>
    BY <1>0, <1>3 DEF BridgeTypes, BridgeRead
  <2>2. CASE Head(socket) = <<>>
    <3>1. UNCHANGED pageVars
      BY <1>3, <2>2 DEF BridgeRead
    <3> QED BY <1>1, <3>1
  <2>3. CASE Head(socket) # <<>>
    <3>1. Head(Head(socket)) \in Event
      BY <2>1, <2>3, RestIs
    <3>2. Notified(Head(Head(socket))) /\ UNCHANGED <<replayed, retry>>
      BY <1>3, <2>3 DEF BridgeRead
    <3> QED BY <1>0, <3>1, <3>2, NotifiedShape
  <2> QED BY <2>2, <2>3
<1>4. CASE AnswerList
  <2>1. After(entries, ask.since) \in Seq(Event)
    BY <1>0, AfterIsPart DEF LogTypes
  <2>2. ask' \in [state : {"none", "asked", "answered"}, since : 0..Top, events : Seq(Event)]
    BY <1>0, <1>4, <2>1 DEF AnswerList, PageTypes
  <2> QED BY <1>0, <1>4, <2>2 DEF AnswerList, PageTypes
<1>5. CASE ListFails
  BY <1>0, <1>5, NoAskShape DEF ListFails, PageTypes
<1>6. CASE Retry
  BY <1>0, <1>6, NothingAsked DEF Retry, CatchUp, PageTypes
<1>7. CASE ListArrives
  BY <1>0, <1>7, ListArrivesShape
<1>8. CASE Reload
  <2>1. <<>> \in Seq(Event) /\ <<>> \in Seq(SUBSET (1..Top))
    OBVIOUS
  <2> QED BY <1>0, <1>8, <2>1, NoAskShape, Tops DEF Reload, PageTypes
<1>9. CASE UNCHANGED vars
  <2>1. UNCHANGED pageVars
    BY <1>9 DEF vars
  <2> QED BY <1>1, <2>1
<1> QED BY <1>2, <1>3, <1>4, <1>5, <1>6, <1>7, <1>8, <1>9 DEF Next, Delivery

\* Every step keeps the types of the counters.
LEMMA NextCountTypes == Types /\ [Next]_vars => CountTypes'
<1> SUFFICES ASSUME Types, [Next]_vars PROVE CountTypes'
  OBVIOUS
<1>0. PageTypes /\ CountTypes
  BY DEF Types
<1>1. ASSUME UNCHANGED <<lapses, drops, crashes>> PROVE CountTypes'
  BY <1>0, <1>1 DEF CountTypes
<1>2. CASE (\E kind \in Kinds : Push(kind)) \/ CompactTurn \/ Restart \/ Connect \/ Reload
            \/ AnswerLive \/ AnswerReplay \/ BridgeRead \/ AnswerList \/ ListFails \/ Retry
  <2>1. UNCHANGED <<lapses, drops, crashes>>
    BY <1>2 DEF Push, CompactTurn, Restart, Connect, Reload, AnswerLive, AnswerReplay, BridgeRead,
                AnswerList, ListFails, Retry, bounds
  <2> QED BY <1>1, <2>1
<1>3. CASE Crash
  BY <1>0, <1>3 DEF Crash, CountTypes, Astray
<1>4. CASE Drop
  BY <1>0, <1>4 DEF Drop, CountTypes, Astray
<1>5. CASE ListArrives
  <2>1. lapses' \subseteq lapses \cup {"skipped"}
    BY <1>0, <1>5, ListArrivesIs
  <2> QED BY <1>0, <1>5, <2>1 DEF ListArrives, CountTypes, bounds
<1>6. CASE UNCHANGED vars
  <2>1. UNCHANGED <<lapses, drops, crashes>>
    BY <1>6 DEF vars, bounds
  <2> QED BY <1>1, <2>1
<1> QED BY <1>2, <1>3, <1>4, <1>5, <1>6 DEF Next, Delivery

\* Every step keeps the types.
LEMMA NextTypes == Types /\ Numbers /\ [Next]_vars => Types'
BY NextLogTypes, NextBridgeTypes, NextPageTypes, NextCountTypes DEF Types

\* The types are the ones TypeOK states.
LEMMA TypesAreOK == Types => TypeOK
<1> SUFFICES ASSUME Types PROVE TypeOK
  OBVIOUS
<1>1. LogTypes /\ BridgeTypes /\ PageTypes /\ CountTypes
  BY DEF Types
<1>2. ToSet(socket) \subseteq Seq(Event)
  BY <1>1, SeqShape DEF BridgeTypes, ToSet
<1>3. next \in 1..(MaxEvents + 3) /\ born \in 0..(MaxEvents + 2) /\ lastSeq \in 0..(MaxEvents + 2)
      /\ daemonSeq \in 0..(MaxEvents + 2) /\ shown \in Seq(SUBSET (1..(MaxEvents + 2)))
  BY <1>1, Tops DEF LogTypes, BridgeTypes, PageTypes
<1>4. /\ {up, linked, replayed, catching, retry} \subseteq BOOLEAN
      /\ turn \in {"running", "ended", "compacted"}
      /\ lapses \subseteq {"forgotten", "astray", "skipped"}
      /\ {entries, disk, unsaved, held} \subseteq Seq(Event)
  BY <1>1 DEF LogTypes, BridgeTypes, PageTypes, CountTypes
<1>5. /\ replay.state \in {"none", "asked", "live"}
      /\ ask.state \in {"none", "asked", "answered"} /\ ask.events \in Seq(Event)
  BY <1>1 DEF BridgeTypes, PageTypes
<1> QED BY <1>2, <1>3, <1>4, <1>5 DEF TypeOK

-----------------------------------------------------------------------------
(* The steps that touch the log, and those that do not. *)

\* The steps of the bridge, of the page, and those that change nothing.
Elsewhere == \/ Connect \/ Drop \/ Reload \/ Delivery \/ UNCHANGED vars

\* They leave the log as it is.
LEMMA LogStill == Elsewhere => UNCHANGED logVars /\ UNCHANGED Log
<1> SUFFICES ASSUME Elsewhere PROVE UNCHANGED logVars
  BY DEF logVars, Log
<1>1. CASE Connect \/ Drop \/ Reload \/ Delivery
  BY <1>1 DEF Connect, Drop, Reload, Delivery, AnswerLive, AnswerReplay, BridgeRead, AnswerList,
              ListFails, Retry, ListArrives
<1>2. CASE UNCHANGED vars
  BY <1>2 DEF vars
<1> QED BY <1>1, <1>2 DEF Elsewhere

\* A step is one of these, or one of the daemon's.
LEMMA Steps ==
  [Next]_vars => (\E kind \in Kinds : Push(kind)) \/ CompactTurn \/ Crash \/ Restart \/ Elsewhere
BY DEF Next, Elsewhere

\* The log is a sequence of events.
LEMMA LogShape == LogTypes => /\ disk \in Seq(Event) /\ unsaved \in Seq(Event) /\ Log \in Seq(Event)
                              /\ next \in Nat \ {0} /\ born \in Nat
<1> SUFFICES ASSUME LogTypes
             PROVE  /\ disk \in Seq(Event) /\ unsaved \in Seq(Event) /\ Log \in Seq(Event)
                    /\ next \in Nat \ {0} /\ born \in Nat
  OBVIOUS
<1>1. disk \in Seq(Event) /\ unsaved \in Seq(Event) /\ next \in 1..(Top + 1) /\ born \in 0..Top
  BY DEF LogTypes
<1>2. Log \in Seq(Event)
  BY <1>1, ConcatProperties DEF Log
<1> QED BY <1>1, <1>2, Tops

\* A push gives out the next number and keeps Numbers.
LEMMA PushNumbers ==
  ASSUME LogTypes, Numbers, NEW kind \in Kinds, Push(kind)
  PROVE  /\ Log' = Append(Log, Pushed(kind)) /\ Pushed(kind) \in Event /\ Log \in Seq(Event)
         /\ Pushed(kind).seq = next /\ next' = next + 1 /\ next \in Nat \ {0}
         /\ Ordered(Log') /\ Below(Log', next')
         /\ Numbers'
<1> DEFINE e == Pushed(kind)
<1>1. e \in Event /\ Log' = Append(Log, e)
  BY PushLog DEF Log
<1>2. /\ up' = up /\ up /\ next' = next + 1 /\ born' = born + 1 /\ born < MaxEvents
      /\ turn' = (IF kind = "end" THEN "ended" ELSE turn)
      /\ entries' = Append(entries, e)
  BY DEF Push, Numbered, Pushed
<1>3. e.seq = next
  BY DEF Pushed
<1> HIDE DEF e
<1>4. Log \in Seq(Event) /\ next \in Nat \ {0} /\ born \in Nat
  BY LogShape
<1>5. Ordered(Log) /\ Below(Log, next) /\ next <= born + 1 /\ entries = Log
  BY <1>2 DEF Numbers
<1>6. Ordered(Append(Log, e)) /\ Below(Append(Log, e), e.seq + 1)
  BY <1>1, <1>3, <1>4, <1>5, OrderedAppend
<1>7. Ordered(Log') /\ Below(Log', next')
  BY <1>1, <1>2, <1>3, <1>6
<1>8. entries' = Log'
  BY <1>1, <1>2, <1>5
<1>9. next' <= born' + 1 /\ born' <= MaxEvents
  BY <1>2, <1>4, <1>5, Bounds
<1>10. Numbers'
  BY <1>2, <1>7, <1>8, <1>9 DEF Numbers
<1> QED BY <1>1, <1>2, <1>3, <1>4, <1>7, <1>10 DEF e

\* compact_turn gives out no number and keeps Numbers.
LEMMA CompactNumbers ==
  ASSUME LogTypes, Numbers, CompactTurn
  PROVE  /\ \E J, pos : JoinsUp(Log', Log, J, pos)
         /\ Log \in Seq(Event) /\ Log' \in Seq(Event)
         /\ turn = "ended" /\ turn' = "compacted" /\ UNCHANGED <<next, born>>
         /\ Numbers'
<1>1. /\ up /\ turn = "ended" /\ turn' = "compacted" /\ UNCHANGED <<up, next, unsaved, born>>
  BY DEF CompactTurn
<1>2. /\ disk' \o unsaved = Apply(Log, disk) /\ entries' = Apply(Log, disk)
      /\ Log \in Seq(Event) /\ Apply(Log, disk) \in Seq(Event)
      /\ \E J, pos : JoinsUp(Apply(Log, disk), Log, J, pos)
  BY CompactLog
<1>3. Log' = Apply(Log, disk) /\ entries' = Log'
  BY <1>1, <1>2 DEF Log
<1> DEFINE c == Apply(Log, disk)
<1> HIDE DEF c
<1>4. Ordered(Log) /\ Below(Log, next) /\ next <= born + 1 /\ next \in Nat
  BY LogShape DEF Numbers
<1>5. Ordered(c) /\ Below(c, next)
  <2>1. PICK J, pos : JoinsUp(c, Log, J, pos)
    BY <1>2 DEF c
  <2>2. c \in Seq(Event)
    BY <1>2 DEF c
  <2> QED BY <1>2, <1>4, <2>1, <2>2, JoinsUpKeeps
<1>6. Log' = c
  BY <1>3 DEF c
<1>7. Ordered(Log') /\ Below(Log', next')
  BY <1>1, <1>5, <1>6
<1>8. Numbers'
  BY <1>1, <1>3, <1>4, <1>7 DEF Numbers
<1> QED BY <1>1, <1>2, <1>3, <1>8

\* A crash leaves the rows; the log is the same if nothing waited.
LEMMA CrashNumbers ==
  ASSUME LogTypes, Numbers, Crash
  PROVE  /\ Numbers' /\ Log \in Seq(Event) /\ UNCHANGED <<next, born, turn>>
         /\ Clean' => Clean /\ Log' = Log
<1>1. /\ up' = FALSE /\ entries' = <<>> /\ unsaved' = <<>> /\ UNCHANGED <<next, disk, turn, born>>
      /\ lapses' = lapses \cup Astray \cup (IF unsaved = <<>> THEN {} ELSE {"forgotten"})
  BY DEF Crash
<1>2. disk \in Seq(Event) /\ unsaved \in Seq(Event) /\ Log \in Seq(Event)
  BY LogShape
<1>3. Log' = disk /\ disk \o <<>> = disk
  <2>1. disk \o <<>> = disk
    BY <1>2, ConcatEmptySeq
  <2> QED BY <1>1, <2>1 DEF Log
<1>4. /\ Ordered(Log) /\ Below(Log, next) /\ next <= born + 1
      /\ (turn = "running" => born <= MaxEvents)
  BY DEF Numbers
<1>5. \A i \in DOMAIN disk : i \in DOMAIN Log /\ Log[i] = disk[i]
  BY <1>2, ConcatShape DEF Log
<1>6. Ordered(disk) /\ Below(disk, next)
  BY <1>4, <1>5 DEF Ordered, Below
<1>7. Numbers'
  BY <1>1, <1>3, <1>4, <1>6 DEF Numbers
<1>8. Clean' => Clean /\ unsaved = <<>>
  BY <1>1 DEF Clean
<1>9. unsaved = <<>> => Log = disk
  BY <1>3 DEF Log
<1> QED BY <1>1, <1>2, <1>3, <1>7, <1>8, <1>9

\* A new daemon goes on above every number of its rows.
LEMMA RestartNumbers ==
  ASSUME LogTypes, Numbers, Restart
  PROVE  Numbers' /\ Log' = disk'
<1>1. /\ disk' \in Seq(Event) /\ unsaved' = <<>> /\ disk' \o unsaved' = disk'
      /\ up' = TRUE /\ turn' = "compacted" /\ entries' = disk'
      /\ Ordered(disk') /\ Below(disk', born' + 1) /\ born' \in 0..Top
      /\ next' = LastSeq(disk') + 1
  BY RestartLog
<1>2. Log' = disk'
  BY <1>1 DEF Log
<1>3. born' \in Nat
  BY <1>1, Tops
<1>4. LastSeq(disk') <= born' /\ LastSeq(disk') \in 0..Top
      /\ \A i \in DOMAIN disk' : disk'[i].seq <= LastSeq(disk')
  BY <1>1, <1>3, LastSeqIs
<1>5. next' <= born' + 1
  BY <1>1, <1>3, <1>4, Tops
<1>6. Below(disk', next')
  <2>1. LastSeq(disk') \in Nat
    BY <1>4, Tops
  <2>2. \A i \in DOMAIN disk' : disk'[i].seq \in Nat
    BY <1>1, SeqShape, EventShape
  <2>3. \A i \in DOMAIN disk' : disk'[i].seq < LastSeq(disk') + 1
    BY <1>4, <2>1, <2>2
  <2> QED BY <1>1, <2>3 DEF Below
<1>7. Numbers'
  BY <1>1, <1>2, <1>5, <1>6 DEF Numbers
<1> QED BY <1>2, <1>7

\* Every step keeps Numbers.
LEMMA NextNumbers == LogTypes /\ Numbers /\ [Next]_vars => Numbers'
<1> SUFFICES ASSUME LogTypes, Numbers, [Next]_vars PROVE Numbers'
  OBVIOUS
<1>1. CASE \E kind \in Kinds : Push(kind)
  BY <1>1, PushNumbers
<1>2. CASE CompactTurn
  BY <1>2, CompactNumbers
<1>3. CASE Crash
  BY <1>3, CrashNumbers
<1>4. CASE Restart
  BY <1>4, RestartNumbers
<1>5. CASE Elsewhere
  <2>1. UNCHANGED logVars /\ Log' = Log
    BY <1>5, LogStill
  <2> QED BY <2>1 DEF Numbers, logVars
<1> QED BY <1>1, <1>2, <1>3, <1>4, <1>5, Steps

\* Every step keeps Reconnects.
LEMMA NextReconnects == Types /\ Numbers /\ Reconnects /\ [Next]_vars => Reconnects'
<1> SUFFICES ASSUME Types, Numbers, Reconnects, [Next]_vars PROVE Reconnects'
  OBVIOUS
<1>0. drops \in Nat /\ crashes \in Nat
  BY DEF Types, CountTypes
<1>1. ASSUME UNCHANGED <<drops, crashes, up, linked, lastSeq>>,
             replay' = replay \/ replay'.state # "asked"
      PROVE  Reconnects'
  BY <1>1 DEF Reconnects
<1>2. CASE (\E kind \in Kinds : Push(kind)) \/ CompactTurn \/ Reload \/ AnswerList \/ ListFails
           \/ Retry \/ ListArrives
  <2>1. UNCHANGED <<drops, crashes, up, linked, lastSeq, replay>>
    BY <1>2 DEF Push, CompactTurn, Reload, AnswerList, ListFails, Retry, ListArrives, bounds,
                bridgeVars, logVars
  <2> QED BY <1>1, <2>1
<1>3. CASE Crash
  <2>1. drops' = drops /\ crashes' = crashes + 1
    BY <1>3 DEF Crash
  <2> QED BY <1>0, <2>1 DEF Reconnects
<1>4. CASE Drop
  <2>1. drops' = drops + 1 /\ crashes' = crashes
    BY <1>4 DEF Drop
  <2> QED BY <1>0, <2>1 DEF Reconnects
<1>5. CASE Restart
  <2>1. ~up /\ UNCHANGED <<drops, crashes>>
    BY <1>5 DEF Restart, bounds
  <2> QED BY <2>1 DEF Reconnects
<1>6. CASE Connect
  <2>1. up /\ ~linked /\ UNCHANGED <<drops, crashes, up, lastSeq>> /\ linked' = TRUE
        /\ replay' = [state |-> IF lastSeq = 0 THEN "live" ELSE "asked", since |-> lastSeq]
    BY <1>6 DEF Connect, bounds, logVars
  <2> QED BY <2>1 DEF Reconnects
<1>7. CASE AnswerLive
  <2>1. linked /\ UNCHANGED <<drops, crashes, up, linked>> /\ replay.state = "live"
        /\ replay' = [replay EXCEPT !.state = "none"]
    BY <1>7 DEF AnswerLive, bounds, logVars
  <2>2. replay'.state = "none"
    BY <2>1 DEF Types, BridgeTypes
  <2> QED BY <2>1, <2>2 DEF Reconnects
<1>8. CASE AnswerReplay
  <2>1. UNCHANGED <<drops, crashes, up, linked, lastSeq>> /\ replay' = [replay EXCEPT !.state = "none"]
    BY <1>8 DEF AnswerReplay, bounds, logVars
  <2>2. replay'.state = "none"
    BY <2>1 DEF Types, BridgeTypes
  <2> QED BY <1>1, <2>1, <2>2
<1>9. CASE BridgeRead
  <2>1. linked /\ UNCHANGED <<drops, crashes, up, linked, replay>>
    BY <1>9 DEF BridgeRead, bounds, logVars
  <2> QED BY <2>1 DEF Reconnects
<1>10. CASE UNCHANGED vars
  <2>1. UNCHANGED <<drops, crashes, up, linked, lastSeq, replay>>
    BY <1>10 DEF vars, bounds, bridgeVars, logVars
  <2> QED BY <1>1, <2>1
<1> QED BY <1>2, <1>3, <1>4, <1>5, <1>6, <1>7, <1>8, <1>9, <1>10 DEF Next, Delivery

\* What was lost stays lost.
LEMMA LapsesGrow == PageTypes /\ [Next]_vars => lapses \subseteq lapses'
<1> SUFFICES ASSUME PageTypes, [Next]_vars PROVE lapses \subseteq lapses'
  OBVIOUS
<1>1. CASE (\E kind \in Kinds : Push(kind)) \/ CompactTurn \/ Restart \/ Connect \/ Reload
            \/ AnswerLive \/ AnswerReplay \/ BridgeRead \/ AnswerList \/ ListFails \/ Retry
  BY <1>1 DEF Push, CompactTurn, Restart, Connect, Reload, AnswerLive, AnswerReplay, BridgeRead,
                AnswerList, ListFails, Retry
<1>2. CASE Crash \/ Drop
  BY <1>2 DEF Crash, Drop
<1>3. CASE ListArrives
  BY <1>3, ListArrivesIs
<1>4. CASE UNCHANGED vars
  BY <1>4 DEF vars
<1> QED BY <1>1, <1>2, <1>3, <1>4 DEF Next, Delivery

\* What was forgotten stays forgotten.
LEMMA CleanBefore == PageTypes /\ [Next]_vars /\ Clean' => Clean
BY LapsesGrow DEF Clean

-----------------------------------------------------------------------------
(* The log while nothing was forgotten. *)

\* The rows a new daemon keeps, those of a cut-off turn's end with them.
LEMMA CutSaved ==
  ASSUME LogTypes, Numbers, CleanLog, Restart, turn = "running", NEW kept, Cut(kept),
         born \in 0..MaxEvents, LastSeq(disk) <= born
  PROVE  /\ Saved(kept, next + 2, "compacted") /\ Ordered(kept) /\ Below(kept, next + 2)
         /\ kept \in Seq(Event) /\ (Single(kept) => Single(disk))
<1> DEFINE last == LastSeq(disk)
           ended == [seq |-> last + 1, kind |-> "end", words |-> {born + 1}]
           note  == [seq |-> last + 2, kind |-> "note", words |-> {born + 2}]
<1>1. disk \in Seq(Event) /\ next \in Nat \ {0} /\ born \in Nat /\ Log = disk
  <2>1. unsaved = <<>> /\ disk \in Seq(Event)
    BY DEF Restart, Numbers, LogTypes
  <2>2. disk \o <<>> = disk
    BY <2>1, ConcatEmptySeq
  <2> QED BY <2>1, <2>2, LogShape DEF Log
<1>2. Ordered(disk) /\ Below(disk, next) /\ Saved(disk, next, "running") /\ next = born + 1
  BY <1>1 DEF Numbers, CleanLog
<1>3. last = next - 1
  BY <1>1, <1>2, SavedEndsAt
<1>4. /\ ended \in Event /\ note \in Event
      /\ Append(disk, ended) \in Seq(Event) /\ Ordered(Append(disk, ended))
      /\ Below(disk, last + 1) /\ Below(Append(disk, ended), last + 2)
      /\ Append(Append(disk, ended), note) \in Seq(Event)
      /\ Ordered(Append(Append(disk, ended), note))
      /\ Below(Append(Append(disk, ended), note), last + 3)
  BY <1>1, <1>2, CutOffIs
<1>5. kept = Append(Append(disk, ended), note)
  BY DEF Cut
<1>6. /\ ended.seq = next /\ ended.words = {next} /\ ended.kind = "end"
      /\ note.seq = next + 1 /\ note.words = {next + 1} /\ note.kind = "note"
      /\ last + 2 = next + 1 /\ last + 3 = next + 2 /\ next + 1 \in Nat \ {0} /\ next + 1 + 1 = next + 2
  <2>1. last + 1 = next /\ last + 2 = next + 1 /\ born + 1 = next /\ born + 2 = next + 1
        /\ last + 3 = next + 2
    BY <1>1, <1>2, <1>3
  <2> HIDE DEF last
  <2> QED BY <1>1, <2>1
<1> HIDE DEF last, ended, note
<1>7. Saved(Append(disk, ended), next + 1, "ended")
  BY <1>1, <1>2, <1>4, <1>6, SavedAppend
<1>8. Saved(Append(Append(disk, ended), note), next + 1 + 1, "compacted")
  BY <1>4, <1>6, <1>7, SavedAppend
<1>9. Single(Append(Append(disk, ended), note)) => Single(disk)
  BY <1>1, <1>4, HeldMore
<1> QED BY <1>4, <1>5, <1>6, <1>8, <1>9

\* A new daemon goes on with the number after the last one given out.
LEMMA RestartClean ==
  ASSUME LogTypes, Numbers, CleanLog, Restart
  PROVE  CleanLog' /\ next <= next' /\ next' \in Nat /\ (Single(Log') => Single(Log))
<1>1. /\ Log = disk /\ disk' \in Seq(Event) /\ turn' = "compacted" /\ LastSeq(disk) <= born
      /\ Ordered(disk') /\ next' = LastSeq(disk') + 1 /\ Log' = disk' /\ Below(disk', next')
  BY RestartLog, RestartNumbers DEF Numbers
<1>2. /\ disk \in Seq(Event) /\ next \in Nat \ {0} /\ born \in Nat
      /\ Ordered(disk) /\ Below(disk, next) /\ Saved(disk, next, turn) /\ next = born + 1
  BY <1>1, LogShape DEF Numbers, CleanLog
<1>3. PICK kept \in Seq(Event) :
              /\ Ordered(kept)
              /\ turn # "running" => kept = disk
              /\ turn = "running" => Cut(kept) /\ born \in 0..MaxEvents
              /\ disk' = kept \/ \E J, pos : JoinsUp(disk', kept, J, pos)
  BY RestartLog
<1> DEFINE n == IF turn = "running" THEN next + 2 ELSE next
<1>4. /\ Saved(kept, n, "compacted") /\ Below(kept, n) /\ (Single(kept) => Single(disk))
      /\ n \in Nat \ {0} /\ n >= next
  <2>1. CASE turn = "running"
    <3>1. Saved(kept, next + 2, "compacted") /\ Below(kept, next + 2) /\ (Single(kept) => Single(disk))
      BY <1>1, <1>3, <2>1, CutSaved
    <3> QED BY <1>2, <2>1, <3>1
  <2>2. CASE turn # "running"
    <3>1. kept = disk
      BY <1>3, <2>2
    <3>2. Saved(disk, next, "compacted")
      BY <1>2, <2>2 DEF Saved
    <3> QED BY <1>2, <2>2, <3>1, <3>2
  <2> QED BY <2>1, <2>2
<1>5. born' + 1 = n
  <2>1. born' = IF turn # "running" THEN born ELSE born + 2
    BY DEF Restart
  <2> QED BY <1>2, <2>1
<1> HIDE DEF n
<1>6. Saved(disk', n, "compacted") /\ Below(disk', n) /\ (Single(disk') => Single(kept))
  <2>1. CASE disk' = kept
    BY <1>4, <2>1
  <2>2. ASSUME NEW J, NEW pos, JoinsUp(disk', kept, J, pos)
        PROVE  Saved(disk', n, "compacted") /\ Below(disk', n) /\ (Single(disk') => Single(kept))
    <3>1. n \in Nat /\ n \in Nat \ {0} /\ Whole(kept)
      BY <1>4 DEF Saved
    <3>2. Below(disk', n) /\ (Single(disk') => Single(kept))
      BY <1>1, <1>3, <1>4, <2>2, <3>1, JoinsUpKeeps
    <3>3. Saved(disk', n, "compacted")
      BY <1>1, <1>3, <1>4, <2>2, <3>1, SavedCompacted
    <3> QED BY <3>2, <3>3
  <2> QED BY <1>3, <2>1, <2>2
<1>7. LastSeq(disk') = n - 1
  BY <1>1, <1>4, <1>6, SavedEndsAt
<1>8. next' = n
  BY <1>1, <1>4, <1>7
<1>9. CleanLog'
  BY <1>1, <1>5, <1>6, <1>8 DEF CleanLog
<1> QED BY <1>1, <1>4, <1>6, <1>8, <1>9

\* Every step keeps CleanLog while nothing is forgotten.
LEMMA NextCleanLog ==
  Types /\ Numbers /\ (Clean => CleanLog) /\ [Next]_vars => (Clean' => CleanLog')
<1> SUFFICES ASSUME Types, Numbers, CleanLog, [Next]_vars, Clean' PROVE CleanLog'
  BY CleanBefore DEF Types
<1>0. LogTypes /\ next = born + 1 /\ Saved(Log, next, turn) /\ Ordered(Log) /\ Below(Log, next)
  BY DEF Types, CleanLog, Numbers
<1>1. ASSUME NEW kind \in Kinds, Push(kind) PROVE CleanLog'
  <2>1. /\ Log' = Append(Log, Pushed(kind)) /\ Pushed(kind) \in Event /\ Log \in Seq(Event)
        /\ Pushed(kind).seq = next /\ next' = next + 1 /\ next \in Nat \ {0}
    BY <1>0, <1>1, PushNumbers
  <2>2. /\ born' = born + 1 /\ turn' = (IF kind = "end" THEN "ended" ELSE turn)
        /\ kind # "note" => turn = "running"
    BY <1>1 DEF Push
  <2>3. Pushed(kind).kind = kind /\ Pushed(kind).words = {next}
    BY <1>0 DEF Pushed
  <2>4. (turn' # "running" => kind # "delta") /\ (turn' # "compacted" => turn # "compacted")
    BY <2>2
  <2>5. Saved(Append(Log, Pushed(kind)), next + 1, turn')
    BY <1>0, <2>1, <2>3, <2>4, SavedAppend
  <2>6. next' = born' + 1
    BY <1>0, <2>1, <2>2
  <2> QED BY <2>1, <2>5, <2>6 DEF CleanLog
<1>2. CASE CompactTurn
  <2>1. /\ Log \in Seq(Event) /\ Log' \in Seq(Event) /\ next \in Nat \ {0}
        /\ turn = "ended" /\ turn' = "compacted" /\ UNCHANGED <<next, born>>
    BY <1>0, <1>2, CompactNumbers, LogShape
  <2>2. PICK J, pos : JoinsUp(Log', Log, J, pos)
    BY <1>0, <1>2, CompactNumbers
  <2>3. Saved(Log', next, "compacted")
    BY <1>0, <2>1, <2>2, SavedCompacted
  <2> QED BY <1>0, <2>1, <2>3 DEF CleanLog
<1>3. CASE Crash
  <2>1. UNCHANGED <<next, born, turn>> /\ Log' = Log
    BY <1>0, <1>3, CrashNumbers
  <2> QED BY <1>0, <2>1 DEF CleanLog
<1>4. CASE Restart
  BY <1>0, <1>4, RestartClean
<1>5. CASE Elsewhere
  <2>1. UNCHANGED logVars /\ Log' = Log
    BY <1>5, LogStill
  <2> QED BY <1>0, <2>1 DEF CleanLog, logVars
<1> QED BY <1>1, <1>2, <1>3, <1>4, <1>5, Steps

-----------------------------------------------------------------------------
(* What is on its way to the page. *)

\* The event the bridge reads next is one of its line's.
LEMMA ReadIs ==
  ASSUME BridgeTypes, BridgeRead
  PROVE  /\ socket \in Seq(Seq(Event)) /\ socket # <<>>
         /\ socket' = Tail(socket) \/ socket' = Rest(socket)
         /\ \/ /\ Head(socket) = <<>> /\ UNCHANGED <<lastSeq, pageVars>>
            \/ /\ Head(socket) # <<>> /\ Head(Head(socket)) \in Event
               /\ lastSeq' = Head(Head(socket)).seq
               /\ Notified(Head(Head(socket)))
<1>1. socket \in Seq(Seq(Event)) /\ socket # <<>>
  BY DEF BridgeTypes, BridgeRead
<1>2. Head(socket) \in Seq(Event) /\ (Head(socket) # <<>> => Head(Head(socket)) \in Event)
  BY <1>1, RestIs
<1>3. CASE Head(socket) = <<>>
  <2>1. socket' = Tail(socket) /\ UNCHANGED <<lastSeq, pageVars>>
    BY <1>3 DEF BridgeRead
  <2> QED BY <1>1, <1>3, <2>1
<1>4. CASE Head(socket) # <<>>
  <2>1. /\ socket' = IF Len(Head(socket)) = 1 THEN Tail(socket)
                     ELSE [socket EXCEPT ![1] = Tail(Head(socket))]
        /\ lastSeq' = Head(Head(socket)).seq /\ Notified(Head(Head(socket)))
    BY <1>4 DEF BridgeRead
  <2>2. socket' = Rest(socket)
    BY <1>1, <1>2, <1>4, <2>1, RestRead
  <2> QED BY <1>1, <1>2, <1>4, <2>1, <2>2
<1> QED BY <1>3, <1>4

\* The page's state as Folded takes it.
LEMMA PageIs == PageTypes => page.seq = daemonSeq /\ page.shown = shown /\ page.seq \in 0..Top
                             /\ page.shown \in Seq(SUBSET (1..Top)) /\ ask.events \in Seq(Event)
                             /\ held \in Seq(Event) /\ daemonSeq \in Nat
BY Tops DEF page, PageTypes

\* One event handed to the page.
LEMMA NotifiedFlight ==
  ASSUME PageTypes, next \in Nat, Flight, NEW e \in Event, e.seq < next, Notified(e)
  PROVE  /\ daemonSeq' < next /\ Below(held', next)
         /\ Below(ask'.events, next) /\ Whole(ask'.events) /\ Closed(ask'.events)
<1>1. /\ daemonSeq < next /\ Below(held, next)
      /\ Below(ask.events, next) /\ Whole(ask.events) /\ Closed(ask.events)
  BY DEF Flight
<1>2. held \in Seq(Event) /\ daemonSeq \in 0..Top
  BY DEF PageTypes
<1>3. Below(Append(held, e), next)
  BY <1>1, <1>2, HeldMore
<1>4. CatchUp(daemonSeq) => Below(ask'.events, next) /\ Whole(ask'.events) /\ Closed(ask'.events)
  <2>1. [NoAsk EXCEPT !.state = "asked", !.since = daemonSeq].events = <<>>
    BY <1>2, NothingAsked
  <2> QED BY <1>1, <2>1, NoLines DEF CatchUp
<1>5. Folded(page, <<e>>).seq < next
  <2>1. <<e>> \in Seq(Event) /\ Below(<<e>>, next)
    BY OneEvent
  <2> QED BY <1>1, <2>1, PageIs, FoldedShape
<1> QED BY <1>1, <1>3, <1>4, <1>5 DEF Notified, SetPage

\* The answer, folded with what was held, stays below the next number.
LEMMA ArrivesFlight ==
  ASSUME PageTypes, next \in Nat, Flight, ListArrives
  PROVE  daemonSeq' < next
<1>1. PICK late \in SUBSET SeqsOf(held) :
           daemonSeq' = IF late = {} THEN Folded(page, ask.events).seq ELSE Max(late)
  BY ListArrivesIs
<1>2. Folded(page, ask.events).seq < next
  <2>1. Below(ask.events, next) /\ daemonSeq < next
    BY DEF Flight
  <2> QED BY <2>1, PageIs, FoldedShape
<1>3. ASSUME late # {} PROVE Max(late) < next
  <2>1. late \subseteq 1..Top
    BY PageIs, LateShape
  <2>2. Max(late) \in late
    BY <1>3, <2>1, MaxIs
  <2>3. Max(late) \in SeqsOf(held) /\ Below(held, next)
    BY <2>2 DEF Flight
  <2> DEFINE x == Max(late)
  <2> HIDE DEF x
  <2>4. x \in SeqsOf(held) => x < next
    BY <2>3 DEF SeqsOf, Below
  <2> QED BY <2>3, <2>4 DEF x
<1> QED BY <1>1, <1>2, <1>3

\* Every step keeps Flight while nothing is forgotten.
LEMMA NextFlight ==
  IInv /\ [Next]_vars /\ (Clean' => CleanLog') => (Clean' => Flight')
<1> SUFFICES ASSUME Types, Numbers, CleanLog, Flight, [Next]_vars, Clean', CleanLog' PROVE Flight'
  BY CleanBefore DEF IInv, Types
<1>0. /\ LogTypes /\ BridgeTypes /\ PageTypes /\ next \in Nat \ {0} /\ Log \in Seq(Event)
      /\ Below(Log, next) /\ Ordered(Log)
  BY LogShape DEF Types, Numbers
<1>0a. /\ socket \in Seq(Seq(Event)) /\ held \in Seq(Event) /\ ask.events \in Seq(Event)
       /\ lastSeq \in Nat /\ daemonSeq \in Nat
  BY <1>0, Tops DEF BridgeTypes, PageTypes
<1>0b. /\ daemonSeq < next /\ lastSeq < next
       /\ Below(held, next) /\ Below(ask.events, next) /\ Lines(socket, next)
       /\ Whole(ask.events) /\ Closed(ask.events)
  BY DEF Flight
\* A number of the log's is still one when the log has grown.
<1>1. ASSUME next <= next', next' \in Nat
      PROVE  /\ daemonSeq < next' /\ lastSeq < next' /\ Below(held, next') /\ Below(ask.events, next')
             /\ Lines(socket, next')
  <2>1. daemonSeq < next' /\ lastSeq < next'
    BY <1>0, <1>0a, <1>0b, <1>1
  <2>2. Below(held, next') /\ Below(ask.events, next')
    BY <1>0, <1>0a, <1>0b, <1>1, BelowMore
  <2>3. Lines(socket, next')
    BY <1>0, <1>0a, <1>0b, <1>1, LinesMore
  <2> QED BY <2>1, <2>2, <2>3
<1>2. ASSUME NEW kind \in Kinds, Push(kind) PROVE Flight'
  <2>1. Pushed(kind) \in Event /\ Pushed(kind).seq = next /\ next' = next + 1
    BY <1>0, <1>2, PushNumbers
  <2>2. socket' = (IF linked THEN Append(socket, <<Pushed(kind)>>) ELSE socket)
        /\ UNCHANGED <<lastSeq, pageVars>>
    BY <1>2 DEF Push, Pushed, Broadcast
  <2>3. next <= next' /\ next' \in Nat /\ next < next'
    BY <1>0, <2>1
  <2>4. <<Pushed(kind)>> \in Seq(Event) /\ Below(<<Pushed(kind)>>, next')
    BY <2>1, <2>3, OneEvent
  <2>5. Lines(socket', next')
    <3>1. Lines(socket, next')
      BY <1>1, <2>3
    <3>2. Lines(Append(socket, <<Pushed(kind)>>), next')
      BY <1>0a, <2>4, <3>1, LineAppended
    <3> QED BY <2>2, <3>1, <3>2
  <2>6. UNCHANGED <<daemonSeq, held, ask>>
    BY <2>2 DEF pageVars
  <2> QED BY <1>0b, <1>1, <2>2, <2>3, <2>5, <2>6 DEF Flight
<1>3. CASE CompactTurn
  <2>1. UNCHANGED <<next, bridgeVars, pageVars>>
    BY <1>3 DEF CompactTurn
  <2> QED BY <1>0b, <2>1 DEF Flight, bridgeVars, pageVars
<1>4. CASE Crash \/ Drop
  <2>1. UNCHANGED <<next, lastSeq, pageVars>> /\ socket' = <<>>
    BY <1>4 DEF Crash, Drop, Unlinked, logVars
  <2> QED BY <1>0b, <2>1, NoLines DEF Flight, pageVars
<1>5. CASE Restart
  <2>1. next <= next' /\ next' \in Nat
    BY <1>0, <1>5, RestartClean
  <2>2. UNCHANGED <<bridgeVars, pageVars>>
    BY <1>5 DEF Restart
  <2>3. UNCHANGED <<lastSeq, socket, daemonSeq, held, ask>>
    BY <2>2 DEF bridgeVars, pageVars
  <2> QED BY <1>0b, <1>1, <2>1, <2>3 DEF Flight
<1>6. CASE Connect
  <2>1. UNCHANGED <<next, lastSeq, daemonSeq, held, ask>> /\ socket' = <<>>
    BY <1>6 DEF Connect, logVars, pageVars
  <2> QED BY <1>0b, <2>1, NoLines DEF Flight
<1>7. CASE Reload
  <2>1. UNCHANGED <<next, lastSeq, socket>> /\ daemonSeq' = 0 /\ held' = <<>> /\ ask'.events = <<>>
    BY <1>7, NoAskShape DEF Reload, logVars, bridgeVars
  <2>2. 0 < next
    BY <1>0
  <2> QED BY <1>0b, <2>1, <2>2, NoLines DEF Flight
<1>8. CASE AnswerLive
  <2>1. UNCHANGED <<next, socket, daemonSeq, held, ask>>
        /\ lastSeq' = IF lastSeq = 0 THEN next - 1 ELSE lastSeq
    BY <1>8 DEF AnswerLive, logVars, pageVars
  <2>2. lastSeq' < next
    BY <1>0, <1>0b, <2>1
  <2> QED BY <1>0b, <2>1, <2>2 DEF Flight
<1>9. CASE AnswerReplay
  <2>1. UNCHANGED <<next, lastSeq, daemonSeq, held, ask>> /\ entries = Log
    BY <1>9 DEF AnswerReplay, logVars, pageVars, Numbers
  <2>2. PICK place \in 1..(Len(socket) + 1) :
          socket' = InsertAt(socket, place, After(entries, replay.since))
    BY <1>9 DEF AnswerReplay
  <2>3. replay.since \in Nat
    BY <1>0, Tops DEF BridgeTypes
  <2>4. After(Log, replay.since) \in Seq(Event) /\ Below(After(Log, replay.since), next)
    <3> DEFINE a == After(Log, replay.since)
    <3>1. a \in Seq(Event) /\ \E pos : Part(a, Log, replay.since, pos)
      BY <1>0, AfterIsPart
    <3> HIDE DEF a
    <3>2. Below(a, next)
      BY <1>0, <2>3, <3>1, PartKeeps
    <3> QED BY <3>1, <3>2 DEF a
  <2>5. Lines(InsertAt(socket, place, After(Log, replay.since)), next)
    BY <1>0a, <1>0b, <2>4, LineInserted
  <2> QED BY <1>0b, <2>1, <2>2, <2>5 DEF Flight
<1>10. CASE BridgeRead
  <2>1. /\ socket \in Seq(Seq(Event)) /\ socket # <<>>
        /\ socket' = Tail(socket) \/ socket' = Rest(socket)
        /\ \/ /\ Head(socket) = <<>> /\ UNCHANGED <<lastSeq, pageVars>>
           \/ /\ Head(socket) # <<>> /\ Head(Head(socket)) \in Event
              /\ lastSeq' = Head(Head(socket)).seq
              /\ Notified(Head(Head(socket)))
    BY <1>0, <1>10, ReadIs
  <2>2. Lines(socket', next)
    BY <1>0b, <2>1, RestIs
  <2>3. next' = next
    BY <1>10 DEF BridgeRead, logVars
  <2>4. CASE Head(socket) = <<>>
    BY <1>0b, <2>1, <2>2, <2>3, <2>4 DEF Flight, pageVars
  <2>5. CASE Head(socket) # <<>>
    <3>1. Head(Head(socket)) \in Event /\ Head(Head(socket)).seq < next
          /\ lastSeq' = Head(Head(socket)).seq /\ Notified(Head(Head(socket)))
      BY <1>0b, <2>1, <2>5, RestIs
    <3>2. /\ daemonSeq' < next /\ Below(held', next)
          /\ Below(ask'.events, next) /\ Whole(ask'.events) /\ Closed(ask'.events)
      BY <1>0, <3>1, NotifiedFlight
    <3> QED BY <2>2, <2>3, <3>1, <3>2 DEF Flight
  <2> QED BY <2>4, <2>5
<1>11. CASE AnswerList
  <2>1. UNCHANGED <<next, lastSeq, socket, daemonSeq, held>> /\ entries = Log
        /\ ask' = [ask EXCEPT !.state = "answered", !.events = After(entries, ask.since)]
    BY <1>11 DEF AnswerList, logVars, bridgeVars, Numbers
  <2>2. ask'.events = After(Log, ask.since) /\ ask.since \in Nat
    BY <1>0, <2>1, Tops DEF PageTypes
  <2>3. Whole(Log) /\ Closed(Log)
    BY <1>0, SavedIsClosed DEF CleanLog, Saved
  <2> DEFINE a == After(Log, ask.since)
  <2>4. a \in Seq(Event) /\ \E pos : Part(a, Log, ask.since, pos)
    BY <1>0, AfterIsPart
  <2> HIDE DEF a
  <2>5. Below(a, next) /\ Whole(a) /\ Closed(a)
    BY <1>0, <2>2, <2>3, <2>4, PartKeeps
  <2>6. ask'.events = a
    BY <2>2 DEF a
  <2> QED BY <1>0b, <2>1, <2>5, <2>6 DEF Flight
<1>12. CASE ListFails
  <2>1. UNCHANGED <<next, lastSeq, socket, daemonSeq, held>> /\ ask'.events = <<>>
    BY <1>12, NoAskShape DEF ListFails, logVars, bridgeVars
  <2> QED BY <1>0b, <2>1, NoLines DEF Flight
<1>13. CASE Retry
  <2>1. UNCHANGED <<next, lastSeq, socket, daemonSeq, held>> /\ CatchUp(daemonSeq)
    BY <1>13 DEF Retry, logVars, bridgeVars
  <2>2. daemonSeq \in 0..Top
    BY <1>0 DEF PageTypes
  <2>3. ask' = ask \/ ask'.events = <<>>
    BY <2>1, <2>2, NothingAsked DEF CatchUp
  <2> QED BY <1>0b, <2>1, <2>3, NoLines DEF Flight
<1>14. CASE ListArrives
  <2>1. UNCHANGED <<next, lastSeq, socket>> /\ held' = <<>> /\ ask'.events = <<>>
    BY <1>14, NoAskShape DEF ListArrives, logVars, bridgeVars
  <2>2. daemonSeq' < next
    BY <1>0, <1>14, ArrivesFlight
  <2> QED BY <1>0b, <2>1, <2>2, NoLines DEF Flight
<1>15. CASE UNCHANGED vars
  BY <1>0b, <1>15 DEF Flight, vars, logVars, bridgeVars, pageVars
<1>16. CASE Delivery
  BY <1>8, <1>9, <1>10, <1>11, <1>12, <1>13, <1>14, <1>16 DEF Delivery
<1> QED BY <1>2, <1>3, <1>4, <1>5, <1>6, <1>7, <1>15, <1>16 DEF Next

-----------------------------------------------------------------------------
(* What the page has folded. *)

\* A log of single words had none before.
LEMMA SingleBefore ==
  Types /\ Numbers /\ CleanLog /\ [Next]_vars /\ Clean' /\ Single(Log') => Single(Log)
<1> SUFFICES ASSUME Types, Numbers, CleanLog, [Next]_vars, Clean', Single(Log') PROVE Single(Log)
  OBVIOUS
<1>0. LogTypes
  BY DEF Types
<1>1. ASSUME NEW kind \in Kinds, Push(kind) PROVE Single(Log)
  <2>1. Log' = Append(Log, Pushed(kind)) /\ Pushed(kind) \in Event /\ Log \in Seq(Event)
    BY <1>0, <1>1, PushNumbers
  <2> QED BY <2>1, HeldMore
<1>2. CASE CompactTurn
  <2>1. turn = "ended"
    BY <1>2 DEF CompactTurn
  <2> QED BY <2>1 DEF CleanLog, Saved
<1>3. CASE Crash
  BY <1>0, <1>3, CrashNumbers
<1>4. CASE Restart
  BY <1>0, <1>4, RestartClean
<1>5. CASE Elsewhere
  BY <1>5, LogStill
<1> QED BY <1>1, <1>2, <1>3, <1>4, <1>5, Steps

\* The connections and the daemons that were lost stay lost.
LEMMA LossesGrow == Types /\ [Next]_vars => drops <= drops' /\ crashes <= crashes'
<1> SUFFICES ASSUME Types, [Next]_vars PROVE drops <= drops' /\ crashes <= crashes'
  OBVIOUS
<1>0. drops \in Nat /\ crashes \in Nat
  BY DEF Types, CountTypes
<1>1. CASE Crash
  BY <1>0, <1>1 DEF Crash
<1>2. CASE Drop
  BY <1>0, <1>2 DEF Drop
<1>3. CASE (\E kind \in Kinds : Push(kind)) \/ CompactTurn \/ Restart \/ Connect \/ Reload \/ Delivery
           \/ UNCHANGED vars
  <2>1. UNCHANGED <<drops, crashes>>
    BY <1>3 DEF Push, CompactTurn, Restart, Connect, Reload, Delivery, AnswerLive, AnswerReplay,
                BridgeRead, AnswerList, ListFails, Retry, ListArrives, vars, bounds
  <2> QED BY <1>0, <2>1
<1> QED BY <1>1, <1>2, <1>3 DEF Next

\* A log with no run joined up across a lost connection had none before.
LEMMA PlainBefore ==
  Types /\ Numbers /\ CleanLog /\ [Next]_vars /\ Clean' /\ Plain' => Plain
<1> SUFFICES ASSUME Types, Numbers, CleanLog, [Next]_vars, Clean', Plain' PROVE Plain
  OBVIOUS
<1>1. drops \in Nat /\ crashes \in Nat /\ drops' \in Nat /\ crashes' \in Nat
  BY NextTypes DEF Types, CountTypes
<1>2. drops' + crashes' = 0 => drops + crashes = 0
  <2>1. drops <= drops' /\ crashes <= crashes'
    BY LossesGrow
  <2>2. \A a, b, c, d \in Nat : a <= c /\ b <= d /\ c + d = 0 => a + b = 0
    OBVIOUS
  <2> QED BY <1>1, <2>1, <2>2
<1>3. Single(Log') => Single(Log)
  BY SingleBefore
<1> QED BY <1>2, <1>3 DEF Plain

\* An event handed to the page as it was born keeps what it shows in order.
LEMMA NotifiedInOrder ==
  ASSUME PageTypes, Single(held), InOrder(shown, daemonSeq), NEW e \in Event,
         e.words = {e.seq}, Notified(e)
  PROVE  Single(held') /\ InOrder(shown', daemonSeq')
<1>1. held \in Seq(Event)
  BY DEF PageTypes
<1>2. Single(Append(held, e))
  BY <1>1, HeldMore
<1>3. InOrder(Folded(page, <<e>>).shown, Folded(page, <<e>>).seq)
  <2>1. <<e>> \in Seq(Event) /\ Whole(<<e>>) /\ Closed(<<e>>)
    BY OneEvent
  <2> QED BY <2>1, PageIs, FoldedInOrder
<1> QED BY <1>2, <1>3 DEF Notified, SetPage

\* So does the answer to its event.list, and what it held.
LEMMA ArrivesInOrder ==
  ASSUME PageTypes, Single(held), InOrder(shown, daemonSeq), Whole(ask.events), Closed(ask.events),
         ListArrives
  PROVE  InOrder(shown', daemonSeq')
<1> DEFINE caught == Folded(page, ask.events)
<1>1. PICK late \in SUBSET SeqsOf(held) :
           /\ late = {n \in SeqsOf(held) : n > caught.seq}
           /\ daemonSeq' = IF late = {} THEN caught.seq ELSE Max(late)
           /\ shown' = caught.shown \o LateWords(late)
  BY ListArrivesIs
<1>2. InOrder(caught.shown, caught.seq)
  BY PageIs, FoldedInOrder
<1>3. caught.seq \in Nat /\ caught.shown \in Seq(SUBSET (1..Top))
  BY PageIs, FoldedShape, Tops
<1>4. held \in Seq(Event)
  BY PageIs
<1> DEFINE n == caught.seq
           sh == caught.shown
<1>5. n \in Nat /\ sh \in Seq(SUBSET (1..Top)) /\ InOrder(sh, n) /\ \A x \in late : x > n
  BY <1>1, <1>2, <1>3
<1>6. daemonSeq' = (IF late = {} THEN n ELSE Max(late)) /\ shown' = sh \o LateWords(late)
  BY <1>1
<1> HIDE DEF n, sh
<1>7. InOrder(sh \o LateWords(late), IF late = {} THEN n ELSE Max(late))
  BY <1>4, <1>5, LateInOrder
<1> QED BY <1>6, <1>7

\* Every step keeps OnScreen.
LEMMA NextOnScreen ==
  IInv /\ [Next]_vars => (Clean' /\ Plain' => OnScreen')
<1> SUFFICES ASSUME Types, Numbers, Reconnects, CleanLog, Flight, Plain, OnScreen,
                    [Next]_vars, Clean', Plain'
             PROVE  OnScreen'
  BY CleanBefore, PlainBefore DEF IInv, Types
<1>0. /\ LogTypes /\ BridgeTypes /\ PageTypes /\ Log \in Seq(Event)
      /\ socket \in Seq(Seq(Event)) /\ held \in Seq(Event)
  BY LogShape DEF Types, BridgeTypes, PageTypes
<1>0b. Single(held) /\ SingleLines(socket) /\ InOrder(shown, daemonSeq)
  BY DEF OnScreen
<1>1. ASSUME UNCHANGED <<socket, held, shown, daemonSeq>> PROVE OnScreen'
  BY <1>0b, <1>1 DEF OnScreen
<1>2. ASSUME NEW kind \in Kinds, Push(kind) PROVE OnScreen'
  <2>1. Pushed(kind) \in Event /\ Pushed(kind).words = {Pushed(kind).seq}
    BY <1>0, <1>2, PushNumbers DEF Pushed, CleanLog
  <2>2. socket' = (IF linked THEN Append(socket, <<Pushed(kind)>>) ELSE socket)
        /\ UNCHANGED pageVars
    BY <1>2 DEF Push, Pushed, Broadcast
  <2>3. <<Pushed(kind)>> \in Seq(Event) /\ Single(<<Pushed(kind)>>)
    BY <2>1, OneEvent
  <2>4. SingleLines(Append(socket, <<Pushed(kind)>>))
    BY <1>0, <1>0b, <2>3, LineAppended
  <2> QED BY <1>0b, <2>2, <2>4 DEF OnScreen, pageVars
<1>3. CASE CompactTurn \/ Restart \/ AnswerLive \/ AnswerList \/ ListFails \/ Retry \/ UNCHANGED vars
  <2>1. UNCHANGED <<socket, held, shown, daemonSeq>>
    BY <1>3 DEF CompactTurn, Restart, AnswerLive, AnswerList, ListFails, Retry, vars, bridgeVars,
                pageVars
  <2> QED BY <1>1, <2>1
<1>4. CASE Crash \/ Drop \/ Connect
  <2>1. UNCHANGED pageVars /\ socket' = <<>>
    BY <1>4 DEF Crash, Drop, Connect, Unlinked
  <2> QED BY <1>0b, <2>1, NoLines DEF OnScreen, pageVars
<1>5. CASE Reload
  <2>1. UNCHANGED socket /\ shown' = <<>> /\ held' = <<>>
    BY <1>5 DEF Reload, bridgeVars
  <2> QED BY <1>0b, <2>1, NoLines DEF OnScreen
<1>6. CASE AnswerReplay
  <2>1. UNCHANGED <<held, shown, daemonSeq>> /\ entries = Log /\ replay.state = "asked"
    BY <1>6 DEF AnswerReplay, pageVars, Numbers
  <2>2. PICK place \in 1..(Len(socket) + 1) :
          socket' = InsertAt(socket, place, After(entries, replay.since))
    BY <1>6 DEF AnswerReplay
  <2>3. Single(Log)
    BY <2>1 DEF Reconnects, Plain
  <2> DEFINE a == After(Log, replay.since)
  <2>4. a \in Seq(Event) /\ \E pos : Part(a, Log, replay.since, pos)
    BY <1>0, AfterIsPart
  <2>5. replay.since \in Nat
    BY <1>0, Tops DEF BridgeTypes
  <2> HIDE DEF a
  <2>6. Single(a)
    BY <1>0, <2>3, <2>4, <2>5, PartKeeps
  <2>7. SingleLines(InsertAt(socket, place, a))
    BY <1>0, <1>0b, <2>4, <2>6, LineInserted
  <2>8. socket' = InsertAt(socket, place, a)
    BY <2>1, <2>2 DEF a
  <2> QED BY <1>0b, <2>1, <2>7, <2>8 DEF OnScreen
<1>7. CASE BridgeRead
  <2>1. /\ socket # <<>>
        /\ socket' = Tail(socket) \/ socket' = Rest(socket)
        /\ \/ Head(socket) = <<>> /\ UNCHANGED <<lastSeq, pageVars>>
           \/ /\ Head(socket) # <<>> /\ Head(Head(socket)) \in Event
              /\ Notified(Head(Head(socket)))
    BY <1>0, <1>7, ReadIs
  <2>2. SingleLines(socket')
    BY <1>0, <1>0b, <2>1, RestIs
  <2>3. CASE Head(socket) = <<>>
    BY <1>0b, <2>1, <2>2, <2>3 DEF OnScreen, pageVars
  <2>4. CASE Head(socket) # <<>>
    <3>1. Head(Head(socket)) \in Event /\ Notified(Head(Head(socket)))
          /\ Head(Head(socket)).words = {Head(Head(socket)).seq}
      BY <1>0, <1>0b, <2>1, <2>4, RestIs
    <3>2. Single(held') /\ InOrder(shown', daemonSeq')
      BY <1>0, <1>0b, <3>1, NotifiedInOrder
    <3> QED BY <2>2, <3>2 DEF OnScreen
  <2> QED BY <2>3, <2>4
<1>8. CASE ListArrives
  <2>1. UNCHANGED socket /\ held' = <<>>
    BY <1>8 DEF ListArrives, bridgeVars
  <2>2. InOrder(shown', daemonSeq')
    BY <1>0, <1>0b, <1>8, ArrivesInOrder DEF Flight
  <2> QED BY <1>0b, <2>1, <2>2, NoLines DEF OnScreen
<1> QED BY <1>2, <1>3, <1>4, <1>5, <1>6, <1>7, <1>8 DEF Next, Delivery

-----------------------------------------------------------------------------
(* The theorems. *)

\* A page just opened on a daemon with a log satisfies the invariant.
LEMMA InitHolds == Init => IInv
<1> SUFFICES ASSUME Init PROVE IInv
  OBVIOUS
<1> DEFINE first(n) == [seq |-> n, kind |-> "note", words |-> {n}]
           s == [n \in 1..OldEvents |-> first(n)]
<1>0. /\ up = TRUE /\ entries = s /\ disk = s /\ unsaved = <<>> /\ next = OldEvents + 1
      /\ born = OldEvents /\ turn = "running" /\ linked = FALSE /\ socket = <<>>
      /\ replay = NoReplay /\ lastSeq = 0 /\ daemonSeq = 0 /\ shown = <<>> /\ held = <<>>
      /\ replayed = FALSE /\ retry = FALSE /\ catching = TRUE
      /\ ask = [NoAsk EXCEPT !.state = "asked"] /\ lapses = {} /\ drops = 0 /\ crashes = 0
  BY DEF Init
<1>1. \A n \in 1..OldEvents : first(n) \in Event
  <2>1. \A n \in 1..OldEvents : n \in 1..(MaxEvents + 2) /\ {n} \in SUBSET (1..(MaxEvents + 2))
    BY Bounds
  <2> QED BY <2>1 DEF Event, Kinds
<1>2. s \in Seq(Event) /\ Len(s) = OldEvents /\ DOMAIN s = 1..OldEvents
      /\ \A n \in 1..OldEvents : s[n] = first(n)
  <2> HIDE DEF first
  <2>1. s \in [1..OldEvents -> Event]
    BY <1>1
  <2> QED BY <2>1, Bounds
<1>3. \A n \in DOMAIN s : s[n].seq = n /\ s[n].kind = "note" /\ s[n].words = {n} /\ n \in Nat
                          /\ n <= OldEvents
  <2> HIDE DEF s
  <2>1. SUFFICES ASSUME NEW n \in 1..OldEvents
                 PROVE  /\ s[n].seq = n /\ s[n].kind = "note" /\ s[n].words = {n}
                        /\ n \in Nat /\ n <= OldEvents
    BY <1>2
  <2>2. s[n] = first(n)
    BY <1>2
  <2>3. s[n].seq = n /\ s[n].kind = "note" /\ s[n].words = {n}
    BY <2>2
  <2>4. n \in Nat /\ n <= OldEvents
    BY Bounds
  <2> QED BY <2>3, <2>4
<1> HIDE DEF s, first
<1>4. Log = s
  <2>1. s \o <<>> = s
    BY <1>2, ConcatEmptySeq
  <2> QED BY <1>0, <2>1 DEF Log
<1>5. Ordered(s) /\ Single(s)
  BY <1>3 DEF Ordered, Single
<1>6. Below(s, OldEvents + 1)
  <2>1. \A n \in DOMAIN s : n < OldEvents + 1
    BY <1>3, Bounds
  <2> QED BY <1>3, <2>1 DEF Below
<1>7. Whole(s)
  BY <1>3 DEF Whole
<1>8. Saved(s, OldEvents + 1, "running")
  <2> DEFINE m == OldEvents + 1
             t == "running"
  <2>1. m \in Nat /\ m - 1 = OldEvents /\ m > OldEvents
    BY Bounds
  <2>2. t = "running" /\ t # "compacted"
    OBVIOUS
  <2> HIDE DEF m, t
  <2>3. \A i \in DOMAIN s : i < m
    BY <1>3, <2>1, Bounds
  <2>4. \A i \in DOMAIN s : \A w \in s[i].words : w < m
    BY <1>3, <2>3
  <2>5. ASSUME m > 1
        PROVE  \E i \in DOMAIN s : s[i].seq = m - 1 /\ (t # "running" => s[i].kind # "delta")
    <3>1. OldEvents \in DOMAIN s
      BY <1>2, <2>1, <2>5, Bounds
    <3>2. s[OldEvents].seq = m - 1
      BY <1>3, <2>1, <3>1
    <3> QED BY <2>2, <3>1, <3>2
  <2>6. t # "running" => m > 1
    BY <2>2
  <2>7. t # "compacted" => Single(s)
    BY <1>5
  <2>8. Saved(s, m, t)
    BY <1>7, <2>4, <2>5, <2>6, <2>7 DEF Saved
  <2> QED BY <2>2, <2>8 DEF m
<1>9. Types
  <2>1. <<>> \in Seq(Event) /\ <<>> \in Seq(Seq(Event)) /\ <<>> \in Seq(SUBSET (1..Top))
    OBVIOUS
  <2>2. LogTypes
    BY <1>0, <1>2, <2>1, Bounds, Tops DEF LogTypes
  <2>3. BridgeTypes
    BY <1>0, <2>1, Tops DEF BridgeTypes, NoReplay
  <2>4. PageTypes
    BY <1>0, <2>1, Tops, NoAskShape DEF PageTypes
  <2>5. CountTypes
    BY <1>0 DEF CountTypes
  <2> QED BY <2>2, <2>3, <2>4, <2>5 DEF Types
<1>10. Numbers
  BY <1>0, <1>4, <1>5, <1>6, Bounds DEF Numbers
<1>11. Reconnects
  BY <1>0 DEF Reconnects, NoReplay
<1>12. CleanLog
  BY <1>0, <1>4, <1>8 DEF CleanLog
<1>13. Flight
  <2>1. 0 < OldEvents + 1
    BY Bounds
  <2> QED BY <1>0, <2>1, NoLines, NoAskShape DEF Flight
<1>14. OnScreen
  BY <1>0, NoLines DEF OnScreen
<1> QED BY <1>9, <1>10, <1>11, <1>12, <1>13, <1>14 DEF IInv

\* Every step keeps the invariant.
LEMMA NextKeeps == IInv /\ [Next]_vars => IInv'
<1> SUFFICES ASSUME IInv, [Next]_vars PROVE IInv'
  OBVIOUS
<1>1. Types /\ LogTypes /\ Numbers /\ Reconnects /\ (Clean => CleanLog)
  BY DEF IInv, Types
<1>2. Types' /\ Numbers' /\ Reconnects'
  BY <1>1, NextTypes, NextNumbers, NextReconnects
<1>3. Clean' => CleanLog'
  BY <1>1, NextCleanLog
<1>4. Clean' => Flight'
  BY <1>3, NextFlight
<1>5. Clean' /\ Plain' => OnScreen'
  BY NextOnScreen
<1> QED BY <1>2, <1>3, <1>4, <1>5 DEF IInv

\* The inductive invariant holds of the log, the bridge and the page.
THEOREM Inductive == Spec => []IInv
<1>1. Init => IInv
  BY InitHolds
<1>2. IInv /\ [Next]_vars => IInv'
  BY NextKeeps
<1> QED BY <1>1, <1>2, PTL DEF Spec

\* The log, the lines on their way and the page's state have their types.
THEOREM Shape == Spec => []TypeOK
<1>1. IInv => TypeOK
  BY TypesAreOK DEF IInv
<1> QED BY <1>1, Inductive, PTL

\* EventLog::persist and compact_turn: what event.list answers from is what
\* the database holds and what it has refused, in order, while the daemon runs.
THEOREM DiskAndWaiting == Spec => []DiskIsLog
<1>1. IInv => DiskIsLog
  BY DEF IInv, Numbers, DiskIsLog, Log
<1> QED BY <1>1, Inductive, PTL

\* append, hydrate: the number a running daemon gives out next is above every
\* number the page has reached, unless a crash took events the database refused.
THEOREM NoNumberTwice == Spec => []NextIsNewSaved
<1>1. IInv => NextIsNewSaved
  <2> SUFFICES ASSUME IInv, "forgotten" \notin lapses PROVE next > daemonSeq
    BY DEF NextIsNewSaved
  <2>1. daemonSeq < next /\ next \in Nat /\ daemonSeq \in Nat
    BY LogShape, Tops DEF IInv, Clean, Flight, Types, PageTypes
  <2> QED BY <2>1
<1> QED BY <1>1, Inductive, PTL

\* A log in which no event is wider than one word.
LEMMA NarrowIsSingle ==
  ASSUME NEW s \in Seq(Event), Whole(s), \A i \in DOMAIN s : ~(Cardinality(s[i].words) > 1)
  PROVE  Single(s)
<1> SUFFICES ASSUME NEW i \in DOMAIN s PROVE s[i].words = {s[i].seq}
  BY DEF Single
<1> DEFINE w == s[i].words
           q == s[i].seq
<1>1. w \in SUBSET (1..Top) /\ q \in w /\ ~(Cardinality(w) > 1)
  BY SeqShape, EventShape DEF Whole
<1> HIDE DEF w, q
<1>2. IsFiniteSet(w) /\ Cardinality(w) \in Nat
  <2>1. IsFiniteSet(1..Top)
    BY FS_Interval, Tops
  <2>2. IsFiniteSet(w)
    BY <1>1, <2>1, FS_Subset
  <2> QED BY <2>2, FS_CardinalityType
<1>3. ASSUME NEW x \in w, x # q PROVE FALSE
  <2>1. IsFiniteSet(w \ {q}) /\ Cardinality(w \ {q}) = Cardinality(w) - 1
    BY <1>1, <1>2, FS_RemoveElement
  <2>2. Cardinality(w \ {q}) \in Nat
    BY <2>1, FS_CardinalityType
  <2>3. w \ {q} # {}
    BY <1>3
  <2>4. Cardinality(w \ {q}) # 0
    BY <2>1, <2>3, FS_EmptySet
  <2> QED BY <1>1, <1>2, <2>1, <2>2, <2>4
<1>4. w = {q}
  BY <1>1, <1>3
<1> QED BY <1>4 DEF w, q

\* No connection was lost around a compaction.
LEMMA PlainIs == Types /\ Numbers /\ CleanLog /\ ~Straddled => Plain
<1> SUFFICES ASSUME Types, Numbers, CleanLog, ~Straddled PROVE Plain
  OBVIOUS
<1>1. LogTypes /\ drops \in Nat /\ crashes \in Nat
  BY DEF Types, CountTypes
<1>2. Log \in Seq(Event) /\ Whole(Log)
  BY <1>1, LogShape DEF CleanLog, Saved
<1>3. ASSUME ~Compacted PROVE Single(Log)
  <2>1. Log = entries \/ Log = disk
    <3>1. CASE up
      BY <3>1 DEF Numbers
    <3>2. CASE ~up
      <4>1. unsaved = <<>> /\ disk \o <<>> = disk
        BY <1>1, <3>2, LogShape, ConcatEmptySeq DEF Numbers
      <4> QED BY <4>1 DEF Log
    <3> QED BY <3>1, <3>2
  <2>2. \A i \in DOMAIN Log : Log[i] \in ToSet(entries) \cup ToSet(disk)
    BY <2>1 DEF ToSet
  <2>3. \A i \in DOMAIN Log : ~(Cardinality(Log[i].words) > 1)
    BY <1>3, <2>2 DEF Compacted
  <2> QED BY <1>2, <2>3, NarrowIsSingle
<1> QED BY <1>1, <1>3 DEF Straddled, Plain

\* notified and catchUp in sdcp.ts: what the page has folded is in order, no
\* word twice, while no run of deltas was joined up across a lost connection.
THEOREM FoldsInOrder == Spec => []ShownInOrder
<1>1. IInv => ShownInOrder
  <2> SUFFICES ASSUME IInv, "forgotten" \notin lapses, ~Straddled
               PROVE  \A i, j \in DOMAIN shown : i < j => \A a \in shown[i], b \in shown[j] : a < b
    BY DEF ShownInOrder
  <2>1. Types /\ Numbers /\ Clean /\ CleanLog
    BY DEF IInv, Clean
  <2>2. OnScreen
    BY <2>1, PlainIs DEF IInv
  <2> QED BY <2>2 DEF OnScreen, InOrder
<1> QED BY <1>1, Inductive, PTL

-----------------------------------------------------------------------------
(* The words of a log. *)

\* The log s holds every word from 1 to n.
Holds(s, n) == \A w \in 1..n : \E i \in DOMAIN s : w \in s[i].words

\* Joining runs of deltas loses no word.
LEMMA JoinsUpHolds ==
  ASSUME NEW s \in Seq(Event), NEW c \in Seq(Event), NEW J, NEW pos, JoinsUp(c, s, J, pos),
         NEW n \in Nat, Holds(s, n)
  PROVE  Holds(c, n)
<1>1. Len(s) \in Nat /\ DOMAIN s = 1..Len(s) /\ J \subseteq DOMAIN s
      /\ \A i \in J : i - 1 \in DOMAIN s
  BY SeqShape DEF JoinsUp
<1>2. ASSUME NEW k \in DOMAIN s
      PROVE  \E p \in DOMAIN s \ J : k \in Joint(J, p, Len(s))
  <2> DEFINE B == {b \in Nat : b < k /\ k - b \in DOMAIN s \ J}
  <2>1. k - 1 \in B
    <3>1. k \in Nat /\ k >= 1 /\ 1 \in DOMAIN s /\ k - (k - 1) = 1 /\ k - 1 \in Nat /\ k - 1 < k
      BY <1>1, <1>2
    <3>2. 1 \notin J
      <4>1. ~(1 - 1 \in DOMAIN s)
        BY <1>1
      <4> QED BY <1>1, <4>1
    <3> QED BY <3>1, <3>2
  <2>2. PICK b \in B : \A y \in B : b <= y
    <3>1. B \subseteq Nat /\ B # {}
      BY <2>1
    <3> HIDE DEF B
    <3> QED BY <3>1, LeastNumber
  <2>3. b \in Nat /\ b < k /\ k - b \in DOMAIN s \ J /\ k \in Nat /\ k <= Len(s)
    BY <1>1, <1>2, <2>2
  <2>4. ASSUME NEW i \in (k - b + 1)..k PROVE i \in J
    <3> SUFFICES ASSUME i \notin J PROVE FALSE
      OBVIOUS
    <3>1. k - i \in Nat /\ k - i < b /\ k - i < k /\ k - (k - i) = i /\ i \in DOMAIN s
      BY <1>1, <2>3, <2>4
    <3>2. k - i \in B
      BY <3>1
    <3>3. b <= k - i
      BY <2>2, <3>2
    <3> QED BY <2>3, <3>1, <3>3
  <2>5. k \in (k - b)..Len(s)
    BY <2>3
  <2>6. k \in Joint(J, k - b, Len(s))
    BY <2>4, <2>5 DEF Joint
  <2> QED BY <2>3, <2>6
<1>3. /\ pos \in [DOMAIN c -> DOMAIN s \ J]
      /\ \A d \in DOMAIN s \ J : \E i \in DOMAIN c : pos[i] = d
      /\ \A i \in DOMAIN c : c[i].words = UNION {s[k].words : k \in Joint(J, pos[i], Len(s))}
  BY DEF JoinsUp
<1> SUFFICES ASSUME NEW w \in 1..n PROVE \E i \in DOMAIN c : w \in c[i].words
  BY DEF Holds
<1>4. PICK k \in DOMAIN s : w \in s[k].words
  BY DEF Holds
<1>5. PICK p \in DOMAIN s \ J : k \in Joint(J, p, Len(s))
  BY <1>2
<1>6. PICK i \in DOMAIN c : pos[i] = p
  BY <1>3
<1> QED BY <1>3, <1>4, <1>5, <1>6

\* Nor does the event with the next word.
LEMMA HoldsAppend ==
  ASSUME NEW s \in Seq(Event), NEW e \in Event, NEW n \in Nat, Holds(s, n), e.words = {n + 1}
  PROVE  Holds(Append(s, e), n + 1)
<1> DEFINE a == Append(s, e)
           m == Len(s)
<1>1. /\ m \in Nat /\ DOMAIN s = 1..m /\ DOMAIN a = 1..(m + 1)
      /\ \A i \in 1..m : a[i] = s[i]
      /\ a[m + 1] = e
  BY SeqShape, AppendProperties
<1> HIDE DEF a, m
<1> SUFFICES ASSUME NEW w \in 1..(n + 1) PROVE \E i \in DOMAIN a : w \in a[i].words
  BY DEF Holds, a
<1>2. CASE w = n + 1
  <2>1. m + 1 \in DOMAIN a
    BY <1>1
  <2> QED BY <1>1, <1>2, <2>1
<1>3. CASE w # n + 1
  <2>1. w \in 1..n
    BY <1>3
  <2>2. PICK i \in DOMAIN s : w \in s[i].words
    BY <2>1 DEF Holds
  <2>3. i \in DOMAIN a /\ a[i] = s[i]
    BY <1>1, <2>2
  <2> QED BY <2>2, <2>3
<1> QED BY <1>2, <1>3

\* The log holds every word born.
Full == Holds(Log, next - 1)

\* A new daemon's log holds them, and those of a cut-off turn's end.
LEMMA RestartFull ==
  ASSUME LogTypes, Numbers, CleanLog, Full, Restart
  PROVE  Full'
<1>1. /\ Log = disk /\ disk' \in Seq(Event) /\ Log' = disk' /\ disk \in Seq(Event)
      /\ next \in Nat \ {0} /\ born \in Nat /\ next = born + 1 /\ next' = born' + 1 /\ next' \in Nat
  BY RestartLog, RestartNumbers, RestartClean, LogShape DEF CleanLog
<1>2. PICK kept \in Seq(Event) :
              /\ Ordered(kept)
              /\ turn # "running" => kept = disk
              /\ turn = "running" => Cut(kept) /\ born \in 0..MaxEvents
              /\ disk' = kept \/ \E J, pos : JoinsUp(disk', kept, J, pos)
  BY RestartLog
<1>3. born' = (IF turn # "running" THEN born ELSE born + 2) /\ born' \in Nat
  BY <1>1 DEF Restart
<1>4. Holds(disk, born)
  <2>1. next - 1 = born
    BY <1>1
  <2> QED BY <1>1, <2>1 DEF Full
<1>5. Holds(kept, born')
  <2>1. CASE turn # "running"
    BY <1>2, <1>3, <1>4, <2>1
  <2>2. CASE turn = "running"
    <3> DEFINE last == LastSeq(disk)
               ended == [seq |-> last + 1, kind |-> "end", words |-> {born + 1}]
               note  == [seq |-> last + 2, kind |-> "note", words |-> {born + 2}]
    <3>1. kept = Append(Append(disk, ended), note)
      BY <1>2, <2>2 DEF Cut
    <3>2. Ordered(disk) /\ LastSeq(disk) <= born /\ born \in 0..MaxEvents
      BY <1>1, <1>2, <2>2, RestartLog DEF Numbers
    <3>3. ended \in Event /\ note \in Event /\ Append(disk, ended) \in Seq(Event)
      BY <1>1, <3>2, CutOffIs
    <3>4. ended.words = {born + 1} /\ note.words = {born + 1 + 1}
      BY <1>1
    <3> HIDE DEF ended, note, last
    <3>5. Holds(Append(disk, ended), born + 1)
      BY <1>1, <1>4, <3>3, <3>4, HoldsAppend
    <3>6. born + 1 \in Nat /\ born + 1 + 1 = born'
      BY <1>1, <1>3, <2>2
    <3>7. Holds(Append(Append(disk, ended), note), born + 1 + 1)
      BY <3>3, <3>4, <3>5, <3>6, HoldsAppend
    <3> QED BY <3>1, <3>6, <3>7
  <2> QED BY <2>1, <2>2
<1>6. Holds(disk', born')
  <2>1. ASSUME NEW J, NEW pos, JoinsUp(disk', kept, J, pos) PROVE Holds(disk', born')
    BY <1>1, <1>3, <1>5, <2>1, JoinsUpHolds
  <2> QED BY <1>2, <1>5, <2>1
<1>7. next' - 1 = born'
  BY <1>1, <1>3
<1> QED BY <1>1, <1>6, <1>7 DEF Full

\* Every step keeps the log full while nothing is forgotten.
LEMMA NextFull ==
  Types /\ Numbers /\ CleanLog /\ Full /\ [Next]_vars /\ Clean' => Full'
<1> SUFFICES ASSUME Types, Numbers, CleanLog, Full, [Next]_vars, Clean' PROVE Full'
  OBVIOUS
<1>0. LogTypes /\ next \in Nat \ {0} /\ Log \in Seq(Event) /\ next - 1 \in Nat
  BY LogShape DEF Types
<1>1. ASSUME NEW kind \in Kinds, Push(kind) PROVE Full'
  <2>1. Log' = Append(Log, Pushed(kind)) /\ Pushed(kind) \in Event /\ next' = next + 1
    BY <1>0, <1>1, PushNumbers
  <2>2. Pushed(kind).words = {next - 1 + 1} /\ next' - 1 = next - 1 + 1
    BY <1>0, <2>1 DEF Pushed, CleanLog
  <2>3. Holds(Log, next - 1)
    BY DEF Full
  <2> DEFINE n == next - 1
             e == Pushed(kind)
  <2> HIDE DEF n, e
  <2>4. Holds(Append(Log, e), n + 1)
    BY <1>0, <2>1, <2>2, <2>3, HoldsAppend DEF n, e
  <2> QED BY <2>1, <2>2, <2>4 DEF Full, n, e
<1>2. CASE CompactTurn
  <2>1. Log' \in Seq(Event) /\ next' = next /\ \E J, pos : JoinsUp(Log', Log, J, pos)
    BY <1>0, <1>2, CompactNumbers
  <2>2. Holds(Log', next - 1)
    BY <1>0, <2>1, JoinsUpHolds DEF Full
  <2> QED BY <2>1, <2>2 DEF Full
<1>3. CASE Crash
  <2>1. next' = next /\ Log' = Log
    BY <1>0, <1>3, CrashNumbers
  <2> QED BY <2>1 DEF Full
<1>4. CASE Restart
  BY <1>0, <1>4, RestartFull
<1>5. CASE Elsewhere
  <2>1. UNCHANGED logVars /\ Log' = Log
    BY <1>5, LogStill
  <2> QED BY <2>1 DEF Full, logVars
<1> QED BY <1>1, <1>2, <1>3, <1>4, <1>5, Steps

-----------------------------------------------------------------------------
(* What the bridge and the page wait for. *)

\* A socket belongs to a daemon that runs; without one nothing is on its
\* way; a bridge that was handed nothing yet has asked for nothing missed.
Links ==
  /\ linked => up
  /\ ~linked => socket = <<>> /\ replay = NoReplay
  /\ linked /\ lastSeq = 0 => replay.since = 0

\* A request is marked, asks from no further than the page is, and is
\* answered once; before the first answer, and while events are held, the
\* page has asked or will ask again.
Asks ==
  /\ catching <=> ask.state # "none"
  /\ ask.state # "answered" => ask.events = <<>>
  /\ ask.since <= daemonSeq
  /\ ~replayed => daemonSeq = 0 /\ (catching \/ retry)
  /\ held # <<>> => catching \/ retry

\* The answer holds single words if the log does.
AskSingle == Single(Log) => Single(ask.events)

\* Every step keeps Links.
LEMMA NextLinks == Types /\ Links /\ [Next]_vars => Links'
<1> SUFFICES ASSUME Types, Links, [Next]_vars PROVE Links'
  OBVIOUS
<1>0. BridgeTypes /\ lastSeq \in Nat
  BY Tops DEF Types, BridgeTypes
<1>1. ASSUME UNCHANGED <<up, linked, socket, replay, lastSeq>> PROVE Links'
  BY <1>1 DEF Links
<1>2. CASE CompactTurn \/ Reload \/ AnswerList \/ ListFails \/ Retry \/ ListArrives \/ UNCHANGED vars
  <2>1. UNCHANGED <<up, linked, socket, replay, lastSeq>>
    BY <1>2 DEF CompactTurn, Reload, AnswerList, ListFails, Retry, ListArrives, vars, bridgeVars, logVars
  <2> QED BY <1>1, <2>1
<1>3. ASSUME NEW kind \in Kinds, Push(kind) PROVE Links'
  <2>1. UNCHANGED <<up, linked, replay, lastSeq>> /\ (~linked => socket' = socket)
    BY <1>3 DEF Push, Broadcast
  <2> QED BY <2>1 DEF Links
<1>4. CASE Crash \/ Drop
  <2>1. linked' = FALSE /\ socket' = <<>> /\ replay' = NoReplay
    BY <1>4 DEF Crash, Drop, Unlinked
  <2> QED BY <2>1 DEF Links
<1>5. CASE Restart
  <2>1. up' = TRUE /\ UNCHANGED <<linked, socket, replay, lastSeq>>
    BY <1>5 DEF Restart, bridgeVars
  <2> QED BY <2>1 DEF Links
<1>6. CASE Connect
  <2>1. up' = up /\ up /\ linked' = TRUE /\ lastSeq' = lastSeq /\ replay'.since = lastSeq
    BY <1>6 DEF Connect, logVars
  <2> QED BY <2>1 DEF Links
<1>7. CASE AnswerLive
  <2>1. /\ UNCHANGED <<up, linked, socket>> /\ linked /\ replay'.since = replay.since
        /\ lastSeq' = 0 => lastSeq = 0
    BY <1>0, <1>7 DEF AnswerLive, logVars, BridgeTypes
  <2> QED BY <2>1 DEF Links
<1>8. CASE AnswerReplay
  <2>1. UNCHANGED <<up, linked, lastSeq>> /\ linked /\ replay'.since = replay.since
    BY <1>0, <1>8 DEF AnswerReplay, logVars, BridgeTypes
  <2> QED BY <2>1 DEF Links
<1>9. CASE BridgeRead
  <2>1. UNCHANGED <<up, linked, replay>> /\ linked
    BY <1>9 DEF BridgeRead, logVars
  <2>2. lastSeq' = lastSeq \/ lastSeq' # 0
    <3>1. lastSeq' = lastSeq \/ (Head(Head(socket)) \in Event /\ lastSeq' = Head(Head(socket)).seq)
      BY <1>0, <1>9, ReadIs
    <3>2. \A e \in Event : e.seq # 0
      <4>1. \A e \in Event : e.seq \in 1..Top
        BY EventShape
      <4> QED BY <4>1, Tops
    <3> QED BY <3>1, <3>2
  <2> QED BY <2>1, <2>2 DEF Links
<1> QED BY <1>2, <1>3, <1>4, <1>5, <1>6, <1>7, <1>8, <1>9 DEF Next, Delivery

\* A request the page makes.
LEMMA CatchUpIs ==
  ASSUME PageTypes, Asks, CatchUp(daemonSeq)
  PROVE  /\ catching'
         /\ catching' <=> ask'.state # "none"
         /\ ask'.state # "answered" => ask'.events = <<>>
         /\ ask'.since <= daemonSeq
         /\ catching => ask' = ask
         /\ ~catching => ask'.state = "asked" /\ ask'.events = <<>>
<1>1. daemonSeq \in Nat
  BY PageIs
<1>2. CASE catching
  BY <1>2 DEF CatchUp, Asks
<1>3. CASE ~catching
  <2>1. catching' = TRUE /\ ask' = [NoAsk EXCEPT !.state = "asked", !.since = daemonSeq]
    BY <1>3 DEF CatchUp
  <2>2. ask'.state = "asked" /\ ask'.since = daemonSeq /\ ask'.events = <<>>
    BY <2>1 DEF NoAsk
  <2> QED BY <1>1, <1>3, <2>1, <2>2
<1> QED BY <1>2, <1>3

\* Every step keeps Asks.
LEMMA NextAsks == Types /\ Asks /\ [Next]_vars => Asks'
<1> SUFFICES ASSUME Types, Asks, [Next]_vars PROVE Asks'
  OBVIOUS
<1>0. PageTypes /\ BridgeTypes /\ daemonSeq \in Nat /\ held \in Seq(Event)
  BY PageIs DEF Types
<1>1. ASSUME UNCHANGED pageVars PROVE Asks'
  BY <1>1 DEF Asks, pageVars
<1>2. CASE (\E kind \in Kinds : Push(kind)) \/ CompactTurn \/ Crash \/ Restart \/ Connect \/ Drop
           \/ AnswerLive \/ AnswerReplay \/ UNCHANGED vars
  <2>1. UNCHANGED pageVars
    BY <1>2 DEF Push, CompactTurn, Crash, Restart, Connect, Drop, AnswerLive, AnswerReplay, vars
  <2> QED BY <1>1, <2>1
<1>3. CASE Reload
  <2>1. /\ daemonSeq' = 0 /\ held' = <<>> /\ replayed' = FALSE /\ retry' = FALSE /\ catching' = TRUE
        /\ ask' = [NoAsk EXCEPT !.state = "asked"]
    BY <1>3 DEF Reload
  <2>2. ask'.state = "asked" /\ ask'.since = 0 /\ ask'.events = <<>>
    BY <2>1 DEF NoAsk
  <2> QED BY <2>1, <2>2 DEF Asks
<1>4. CASE AnswerList
  <2>1. ask' = [ask EXCEPT !.state = "answered", !.events = After(entries, ask.since)]
        /\ UNCHANGED <<daemonSeq, replayed, catching, held, retry>> /\ ask.state = "asked"
    BY <1>4 DEF AnswerList
  <2>2. ask'.state = "answered" /\ ask'.since = ask.since
    BY <1>0, <2>1 DEF PageTypes
  <2> QED BY <2>1, <2>2 DEF Asks
<1>5. CASE ListFails \/ ListArrives
  <2>1. /\ ask' = NoAsk /\ catching' = FALSE
        /\ held' = <<>> \/ retry' = TRUE
        /\ (UNCHANGED <<replayed, daemonSeq>> /\ retry' = TRUE) \/ replayed' = TRUE
    BY <1>5 DEF ListFails, ListArrives
  <2>2. daemonSeq' \in Nat
    <3>1. CASE ListFails
      BY <1>0, <3>1 DEF ListFails
    <3>2. CASE ListArrives
      BY <1>0, <3>2, ListArrivesShape, Tops DEF PageTypes
    <3> QED BY <1>5, <3>1, <3>2
  <2>3. ask'.state = "none" /\ ask'.since = 0 /\ ask'.events = <<>>
    BY <2>1 DEF NoAsk
  <2>4. ask'.since <= daemonSeq'
    BY <2>2, <2>3
  <2>5. ~replayed' => daemonSeq' = 0 /\ (catching' \/ retry')
    BY <2>1 DEF Asks
  <2> QED BY <2>1, <2>3, <2>4, <2>5 DEF Asks
<1>6. CASE Retry
  <2>1. CatchUp(daemonSeq) /\ UNCHANGED <<daemonSeq, replayed, held>>
    BY <1>6 DEF Retry
  <2>2. /\ catching' /\ (catching' <=> ask'.state # "none")
        /\ ask'.state # "answered" => ask'.events = <<>>
        /\ ask'.since <= daemonSeq
    BY <1>0, <2>1, CatchUpIs
  <2> QED BY <2>1, <2>2 DEF Asks
<1>7. CASE BridgeRead
  <2>1. UNCHANGED pageVars \/ (Head(Head(socket)) \in Event /\ Notified(Head(Head(socket))))
    BY <1>0, <1>7, ReadIs
  <2>2. ASSUME ~ UNCHANGED pageVars PROVE UNCHANGED <<replayed, retry>>
    BY <1>7, <2>2 DEF BridgeRead
  <2>3. ASSUME NEW e \in Event, Notified(e), UNCHANGED <<replayed, retry>> PROVE Asks'
    <3>1. CASE ~replayed /\ held' = Append(held, e) /\ UNCHANGED <<daemonSeq, shown, catching, ask>>
      BY <2>3, <3>1 DEF Asks
    <3>2. CASE UNCHANGED <<daemonSeq, shown, catching, ask, held>>
      BY <2>3, <3>2 DEF Asks
    <3>3. CASE replayed /\ CatchUp(daemonSeq) /\ UNCHANGED daemonSeq
      <4>1. /\ catching' /\ (catching' <=> ask'.state # "none")
            /\ ask'.state # "answered" => ask'.events = <<>>
            /\ ask'.since <= daemonSeq
        BY <1>0, <3>3, CatchUpIs
      <4> QED BY <2>3, <3>3, <4>1 DEF Asks
    <3>4. CASE replayed /\ SetPage(Folded(page, <<e>>)) /\ UNCHANGED <<catching, ask, held>>
      <4>1. <<e>> \in Seq(Event)
        BY OneEvent
      <4>2. page.seq <= Folded(page, <<e>>).seq /\ Folded(page, <<e>>).seq \in 0..Top
        BY <1>0, <4>1, PageIs, FoldedShape
      <4>3. daemonSeq <= daemonSeq' /\ daemonSeq' \in Nat
        BY <1>0, <3>4, <4>2, PageIs, Tops DEF SetPage
      <4>4. ask.since \in Nat /\ ask.since <= daemonSeq
        BY <1>0, Tops DEF Asks, PageTypes
      <4>5. ask'.since <= daemonSeq'
        BY <1>0, <3>4, <4>3, <4>4
      <4> QED BY <2>3, <3>4, <4>5 DEF Asks
    <3> QED BY <2>3, <3>1, <3>2, <3>3, <3>4 DEF Notified
  <2> QED BY <1>1, <2>1, <2>2, <2>3
<1> QED BY <1>2, <1>3, <1>4, <1>5, <1>6, <1>7 DEF Next, Delivery

\* The page's request after a step: the same, a new one, none, or answered.
LEMMA AskIs ==
  ASSUME PageTypes, BridgeTypes, [Next]_vars
  PROVE  \/ ask' = ask
         \/ ask'.events = <<>>
         \/ AnswerList
<1>1. CASE (\E kind \in Kinds : Push(kind)) \/ CompactTurn \/ Crash \/ Restart \/ Connect \/ Drop
           \/ AnswerLive \/ AnswerReplay \/ UNCHANGED vars
  BY <1>1 DEF Push, CompactTurn, Crash, Restart, Connect, Drop, AnswerLive, AnswerReplay, vars, pageVars
<1>2. CASE Reload \/ ListFails \/ ListArrives
  BY <1>2, NoAskShape DEF Reload, ListFails, ListArrives
<1>3. daemonSeq \in 0..Top
  BY DEF PageTypes
<1>4. CatchUp(daemonSeq) => ask' = ask \/ ask'.events = <<>>
  BY <1>3, NothingAsked DEF CatchUp
<1>5. CASE Retry
  BY <1>4, <1>5 DEF Retry
<1>6. CASE BridgeRead
  <2>1. UNCHANGED pageVars \/ Notified(Head(Head(socket)))
    BY <1>6, ReadIs
  <2> QED BY <1>4, <2>1 DEF Notified, pageVars
<1> QED BY <1>1, <1>2, <1>5, <1>6 DEF Next, Delivery

\* Every step keeps AskSingle.
LEMMA NextAskSingle ==
  Types /\ Numbers /\ CleanLog /\ AskSingle /\ [Next]_vars /\ Clean' => AskSingle'
<1> SUFFICES ASSUME Types, Numbers, CleanLog, AskSingle, [Next]_vars, Clean', Single(Log')
             PROVE  Single(ask'.events)
  BY DEF AskSingle
<1>0. PageTypes /\ BridgeTypes /\ LogTypes /\ Log \in Seq(Event)
  BY LogShape DEF Types
<1>1. Single(Log) /\ Single(ask.events)
  BY SingleBefore DEF AskSingle
<1>2. CASE AnswerList
  <2> DEFINE a == After(Log, ask.since)
  <2>1. ask' = [ask EXCEPT !.state = "answered", !.events = After(entries, ask.since)] /\ entries = Log
    BY <1>2 DEF AnswerList, Numbers
  <2>2. ask'.events = a
    BY <1>0, <2>1 DEF PageTypes
  <2>3. a \in Seq(Event) /\ \E pos : Part(a, Log, ask.since, pos)
    BY <1>0, AfterIsPart
  <2>4. ask.since \in Nat
    BY <1>0, Tops DEF PageTypes
  <2> HIDE DEF a
  <2>5. Single(a)
    BY <1>0, <1>1, <2>3, <2>4, PartKeeps
  <2> QED BY <2>2, <2>5
<1>3. CASE ask' = ask \/ ask'.events = <<>>
  BY <1>1, <1>3, NoLines
<1> QED BY <1>0, <1>2, <1>3, AskIs

-----------------------------------------------------------------------------
(* What the page has, and where the rest is. *)

\* The page has a request out that is not answered yet, or will make one.
Asking == ask.state = "asked" \/ (retry /\ ~catching)
\* One of the events has the number w or a higher one.
Reaches(s, w) == \E i \in DOMAIN s : w <= s[i].seq
\* The page will reach w with what it has and what it asked for.
Coming(w) == Asking \/ Reaches(ask.events, w) \/ Reaches(held, w)
\* The event of the number w is on the socket so.
On(so, w) == \E i \in DOMAIN so : \E k \in DOMAIN so[i] : so[i][k].seq = w

\* Where the number w is that the page has not reached: coming to the page;
\* on the socket, ahead of the bridge or on its first connection; asked for
\* by the bridge, or to be asked for when it connects again.
Whereabouts(w) ==
  \/ Coming(w)
  \/ On(socket, w) /\ (lastSeq < w \/ replay.since = 0)
  \/ lastSeq < w /\ replay.state = "asked" /\ replay.since < w
  \/ lastSeq < w /\ ~linked /\ lastSeq > 0

\* The page shows every word up to the number it has reached.
Filled == \A w \in 1..daemonSeq : \E i \in DOMAIN shown : w \in shown[i]
\* The answer holds every word from there to its last number.
Fills ==
  \A w \in (daemonSeq + 1)..(next - 1) :
    Reaches(ask.events, w) =>
      \E j \in DOMAIN ask.events : ask.events[j].seq > daemonSeq /\ w \in ask.events[j].words
\* Every number of the log the page has not reached is somewhere.
Covered == \A w \in (daemonSeq + 1)..(next - 1) : Whereabouts(w)
\* A bridge that never was connected serves a page that has asked.
Fresh == ~linked /\ lastSeq = 0 => Asking
\* The lines of a socket no connection was lost before: one event each, in order.
InLine(so) ==
  \A i \in DOMAIN so : /\ DOMAIN so[i] = {1}
                       /\ \A j \in DOMAIN so : i < j => so[i][1].seq < so[j][1].seq
\* As long as no connection was lost, the page asks once, and sees no gap.
Calm ==
  drops + crashes = 0 =>
    /\ InLine(socket)
    /\ ~(retry /\ catching)
    /\ replayed => ~catching /\ ~retry

Reach == Filled /\ Fills /\ Covered /\ Fresh /\ Calm

\* The inductive invariant of what the page shows in the end.
Arriving ==
  /\ IInv /\ Links /\ Asks
  /\ Clean => Full /\ AskSingle
  /\ lapses = {} /\ Plain => Reach

\* Nothing was lost so far, and no run was joined up across a connection.
Good == Arriving /\ lapses = {} /\ Plain

\* The parts of a good state.
LEMMA GoodIs ==
  ASSUME Good
  PROVE  /\ Types /\ LogTypes /\ BridgeTypes /\ PageTypes /\ Numbers /\ Reconnects /\ Links /\ Asks
         /\ Clean /\ CleanLog /\ Flight /\ OnScreen /\ Full /\ AskSingle
         /\ Filled /\ Fills /\ Covered /\ Fresh /\ Calm
         /\ Log \in Seq(Event) /\ next \in Nat \ {0} /\ socket \in Seq(Seq(Event))
         /\ held \in Seq(Event) /\ ask.events \in Seq(Event)
         /\ lastSeq \in Nat /\ daemonSeq \in Nat /\ ask.since \in Nat /\ replay.since \in Nat
         /\ drops \in Nat /\ crashes \in Nat
<1>1. Types /\ Numbers /\ Reconnects /\ Links /\ Asks /\ Clean /\ Plain
  BY DEF Good, Arriving, IInv, Clean
<1>2. CleanLog /\ Flight /\ OnScreen /\ Full /\ AskSingle /\ Reach
  BY <1>1 DEF Good, Arriving, IInv
<1>3. LogTypes /\ BridgeTypes /\ PageTypes /\ CountTypes
  BY <1>1 DEF Types
<1>4. Log \in Seq(Event) /\ next \in Nat \ {0}
  BY <1>3, LogShape
<1>5. /\ socket \in Seq(Seq(Event)) /\ held \in Seq(Event) /\ ask.events \in Seq(Event)
      /\ lastSeq \in Nat /\ daemonSeq \in Nat /\ ask.since \in Nat /\ replay.since \in Nat
      /\ drops \in Nat /\ crashes \in Nat
  BY <1>3, Tops DEF BridgeTypes, PageTypes, CountTypes
<1> QED BY <1>1, <1>2, <1>3, <1>4, <1>5 DEF Reach

-----------------------------------------------------------------------------
(* What a step that leaves the page as it is keeps. *)

\* The page's part stays when only the log grows.
LEMMA PageStill ==
  ASSUME Good, UNCHANGED pageVars, next <= next', next' \in Nat
  PROVE  /\ Filled' /\ Fills' /\ (Asking' <=> Asking)
         /\ \A w : Coming(w)' <=> Coming(w)
<1>0. /\ next \in Nat /\ daemonSeq \in Nat /\ ask.events \in Seq(Event) /\ Below(ask.events, next)
      /\ Filled /\ Fills
  BY GoodIs DEF Flight
<1>1. UNCHANGED <<daemonSeq, shown, held, ask, retry, catching>>
  BY DEF pageVars
<1>2. Filled' /\ (Asking' <=> Asking) /\ \A w : Coming(w)' <=> Coming(w)
  BY <1>0, <1>1 DEF Filled, Asking, Coming
<1>3. Fills'
  <2> SUFFICES ASSUME NEW w \in (daemonSeq + 1)..(next' - 1), Reaches(ask.events, w)
               PROVE  \E j \in DOMAIN ask.events :
                        ask.events[j].seq > daemonSeq /\ w \in ask.events[j].words
    BY <1>1 DEF Fills
  <2>1. PICK i \in DOMAIN ask.events : w <= ask.events[i].seq
    BY DEF Reaches
  <2>2. ask.events[i].seq < next /\ ask.events[i].seq \in Nat
    BY <1>0, SeqShape, EventShape DEF Below
  <2>3. w \in (daemonSeq + 1)..(next - 1)
    BY <1>0, <2>1, <2>2
  <2> QED BY <1>0, <2>3 DEF Fills
<1> QED BY <1>2, <1>3

\* A step that changes nothing of all this.
LEMMA AllStill ==
  ASSUME Good, UNCHANGED <<next, bridgeVars, pageVars, drops, crashes>>
  PROVE  Reach'
<1>0. next \in Nat /\ Covered /\ Fresh /\ Calm
  BY GoodIs
<1>1. Filled' /\ Fills' /\ (Asking' <=> Asking) /\ \A w : Coming(w)' <=> Coming(w)
  BY <1>0, PageStill
<1>2. UNCHANGED <<linked, socket, replay, lastSeq, daemonSeq, retry, catching, replayed>>
  BY DEF bridgeVars, pageVars
<1>3. \A w : Whereabouts(w) => Whereabouts(w)'
  BY <1>1, <1>2 DEF Whereabouts
<1>4. Covered' /\ Fresh' /\ Calm'
  BY <1>0, <1>1, <1>2, <1>3 DEF Covered, Fresh, Calm
<1> QED BY <1>1, <1>4 DEF Reach

-----------------------------------------------------------------------------
(* The daemon. *)

\* A line more: the others stay, and the new event is on the socket.
LEMMA OnAppended ==
  ASSUME NEW so \in Seq(Seq(Event)), NEW e \in Event
  PROVE  /\ \A w : On(so, w) => On(Append(so, <<e>>), w)
         /\ On(Append(so, <<e>>), e.seq)
         /\ InLine(so) /\ Lines(so, e.seq) => InLine(Append(so, <<e>>))
<1> DEFINE a == Append(so, <<e>>)
           m == Len(so)
           l == <<e>>
<1>1. l \in Seq(Event) /\ DOMAIN l = {1} /\ l[1] = e
  OBVIOUS
<1> HIDE DEF l
<1>2. /\ m \in Nat /\ DOMAIN so = 1..m /\ DOMAIN Append(so, l) = 1..(m + 1)
      /\ \A i \in 1..m : Append(so, l)[i] = so[i]
      /\ Append(so, l)[m + 1] = l
  BY <1>1, SeqShape, AppendProperties
<1>3. a = Append(so, l)
  BY DEF l
<1> HIDE DEF a, m
<1>4. /\ DOMAIN a = 1..(m + 1) /\ (\A i \in 1..m : a[i] = so[i]) /\ a[m + 1] = l
      /\ m + 1 \in DOMAIN a /\ \A i \in 1..m : i \in DOMAIN a
  BY <1>2, <1>3
<1>5. \A w : On(so, w) => On(a, w)
  BY <1>2, <1>4 DEF On
<1>6. On(a, e.seq)
  BY <1>1, <1>4 DEF On
<1>7. ASSUME InLine(so), Lines(so, e.seq) PROVE InLine(a)
  <2>1. \A i \in 1..(m + 1) : i = m + 1 \/ i \in 1..m
    BY <1>2
  <2>2. \A i \in 1..m : ~(m + 1 < i)
    BY <1>2
  <2>3. ~(m + 1 < m + 1)
    BY <1>2
  <2>4. \A i \in 1..m : DOMAIN so[i] = {1} /\ so[i][1].seq < e.seq
    BY <1>2, <1>7 DEF InLine, Lines, Below
  <2>5. \A i, j \in 1..m : i < j => so[i][1].seq < so[j][1].seq
    BY <1>2, <1>7 DEF InLine
  <2> SUFFICES ASSUME NEW i \in DOMAIN a
               PROVE  /\ DOMAIN a[i] = {1}
                      /\ \A j \in DOMAIN a : i < j => a[i][1].seq < a[j][1].seq
    BY DEF InLine
  <2>6. CASE i = m + 1
    <3>1. \A j \in DOMAIN a : ~(i < j)
      BY <1>4, <2>1, <2>2, <2>3, <2>6
    <3> QED BY <1>1, <1>4, <2>6, <3>1
  <2>7. CASE i \in 1..m
    <3>1. DOMAIN a[i] = {1} /\ a[i] = so[i]
      BY <1>4, <2>4, <2>7
    <3>2. ASSUME NEW j \in DOMAIN a, i < j PROVE a[i][1].seq < a[j][1].seq
      <4>1. CASE j = m + 1
        BY <1>1, <1>4, <2>4, <2>7, <3>1, <4>1
      <4>2. CASE j \in 1..m
        BY <1>4, <2>5, <2>7, <3>1, <3>2, <4>2
      <4> QED BY <1>4, <2>1, <4>1, <4>2
    <3> QED BY <3>1, <3>2
  <2> QED BY <1>4, <2>1, <2>6, <2>7
<1> QED BY <1>5, <1>6, <1>7 DEF a, l

\* ChannelNotifier::push: the new number is on the socket, or will be asked for.
LEMMA PushReach ==
  ASSUME Good, NEW kind \in Kinds, Push(kind)
  PROVE  Reach'
<1>0. /\ LogTypes /\ Numbers /\ next \in Nat \ {0} /\ daemonSeq \in Nat /\ lastSeq \in Nat
      /\ socket \in Seq(Seq(Event)) /\ Covered /\ Fresh /\ Calm /\ Links
      /\ lastSeq < next /\ Lines(socket, next)
  BY GoodIs DEF Flight
<1> DEFINE e == Pushed(kind)
<1>1. e \in Event /\ e.seq = next /\ next' = next + 1
  BY <1>0, PushNumbers
<1>2. /\ socket' = (IF linked THEN Append(socket, <<e>>) ELSE socket)
      /\ UNCHANGED <<linked, replay, lastSeq, pageVars, drops, crashes>>
  BY DEF Push, Pushed, Broadcast
<1> HIDE DEF e
<1>3. Filled' /\ Fills' /\ (Asking' <=> Asking) /\ \A w : Coming(w)' <=> Coming(w)
  <2>1. next <= next' /\ next' \in Nat
    BY <1>0, <1>1
  <2> QED BY <1>2, <2>1, PageStill
<1>4. UNCHANGED <<daemonSeq, retry, catching, replayed>>
  BY <1>2 DEF pageVars
<1>5. /\ \A w : On(socket, w) => On(socket', w)
      /\ linked => On(socket', next)
      /\ InLine(socket) => InLine(socket')
  <2>1. /\ \A w : On(socket, w) => On(Append(socket, <<e>>), w)
        /\ On(Append(socket, <<e>>), e.seq)
        /\ InLine(socket) /\ Lines(socket, e.seq) => InLine(Append(socket, <<e>>))
    BY <1>0, <1>1, OnAppended
  <2> QED BY <1>0, <1>1, <1>2, <2>1
<1>6. \A w : Whereabouts(w) => Whereabouts(w)'
  BY <1>2, <1>3, <1>5 DEF Whereabouts
<1>7. ASSUME NEW n \in Nat, n = next PROVE Whereabouts(n)'
  <2>1. CASE linked
    BY <1>0, <1>2, <1>5, <1>7, <2>1 DEF Whereabouts
  <2>2. CASE ~linked /\ lastSeq > 0
    BY <1>0, <1>2, <1>7, <2>2 DEF Whereabouts
  <2>3. CASE ~linked /\ lastSeq = 0
    BY <1>0, <1>3, <1>7, <2>3 DEF Fresh, Coming, Whereabouts
  <2> QED BY <1>0, <2>1, <2>2, <2>3
<1>8. Covered'
  <2> SUFFICES ASSUME NEW w \in (daemonSeq + 1)..(next' - 1) PROVE Whereabouts(w)'
    BY <1>4 DEF Covered
  <2>1. w = next \/ w \in (daemonSeq + 1)..(next - 1)
    BY <1>0, <1>1
  <2> QED BY <1>0, <1>6, <1>7, <2>1 DEF Covered
<1>9. Fresh' /\ Calm'
  BY <1>0, <1>2, <1>3, <1>4, <1>5 DEF Fresh, Calm
<1> QED BY <1>3, <1>8, <1>9 DEF Reach

\* A socket is lost, and no connection's place with it: the bridge asks for
\* all that came after the last number it forwarded.
LEMMA LostReach ==
  ASSUME Good, Unlinked, UNCHANGED <<next, lastSeq, pageVars>>, Astray = {}, drops' + crashes' # 0
  PROVE  Reach'
<1>0. /\ next \in Nat \ {0} /\ daemonSeq \in Nat /\ lastSeq \in Nat /\ replay.since \in Nat
      /\ socket \in Seq(Seq(Event)) /\ Covered /\ Fresh /\ Links
  BY GoodIs
<1>1. linked' = FALSE /\ socket' = <<>> /\ replay' = NoReplay /\ UNCHANGED <<next, lastSeq, daemonSeq>>
  BY DEF Unlinked, pageVars
<1>2. Filled' /\ Fills' /\ (Asking' <=> Asking) /\ \A w : Coming(w)' <=> Coming(w)
  <2>1. next <= next' /\ next' \in Nat
    BY <1>0
  <2> QED BY <2>1, PageStill
<1>3. linked => replay.since # 0 \/ (lastSeq # 0 /\ ~Overtaken)
  BY DEF Astray
<1>4. linked => lastSeq > 0
  BY <1>0, <1>3 DEF Links
<1>5. Fresh'
  BY <1>0, <1>1, <1>2, <1>4 DEF Fresh
<1>6. ASSUME NEW w \in Nat, Whereabouts(w) PROVE Whereabouts(w)'
  <2>1. CASE Coming(w)
    BY <1>2, <2>1 DEF Whereabouts
  <2>2. CASE lastSeq < w /\ linked
    BY <1>1, <1>4, <2>2 DEF Whereabouts
  <2>3. CASE lastSeq < w /\ ~linked /\ lastSeq > 0
    BY <1>1, <2>3 DEF Whereabouts
  <2>4. ASSUME On(socket, w), ~(lastSeq < w), replay.since = 0 PROVE FALSE
    <3>1. PICK i \in DOMAIN socket : \E k \in DOMAIN socket[i] : socket[i][k].seq = w
      BY <2>4 DEF On
    <3>2. PICK k \in DOMAIN socket[i] : socket[i][k].seq = w
      BY <3>1
    <3>3. socket[i][k] \in ToSet(socket[i])
      BY DEF ToSet
    <3>4. w <= lastSeq
      BY <1>0, <2>4
    <3>5. Overtaken
      BY <3>2, <3>3, <3>4 DEF Overtaken
    <3>6. linked
      <4>1. DOMAIN <<>> = {}
        OBVIOUS
      <4> QED BY <1>0, <3>1, <4>1 DEF Links
    <3> QED BY <1>3, <2>4, <3>5, <3>6
  <2>5. On(socket, w) => linked
    <3>1. DOMAIN <<>> = {}
      OBVIOUS
    <3> QED BY <1>0, <3>1 DEF Links, On
  <2>6. replay.state = "asked" => linked
    BY <1>0 DEF Links, NoReplay
  <2> QED BY <1>6, <2>1, <2>2, <2>3, <2>4, <2>5, <2>6 DEF Whereabouts
<1>7. Covered'
  <2> SUFFICES ASSUME NEW w \in (daemonSeq + 1)..(next - 1) PROVE Whereabouts(w)'
    BY <1>1 DEF Covered
  <2>1. w \in Nat /\ Whereabouts(w)
    BY <1>0 DEF Covered
  <2> QED BY <1>6, <2>1
<1>8. Calm'
  BY DEF Calm
<1> QED BY <1>2, <1>5, <1>7, <1>8 DEF Reach

\* The daemon dies, or the socket is let go.
LEMMA DropReach ==
  ASSUME Good, Crash \/ Drop, lapses' = {}
  PROVE  Reach'
<1>0. drops \in Nat /\ crashes \in Nat
  BY GoodIs
<1>1. Unlinked /\ UNCHANGED <<next, lastSeq, pageVars>>
  BY DEF Crash, Drop, logVars
<1>2. Astray = {}
  BY DEF Crash, Drop
<1>3. drops' + crashes' # 0
  <2>1. CASE Crash
    BY <1>0, <2>1 DEF Crash
  <2>2. CASE Drop
    BY <1>0, <2>2 DEF Drop
  <2> QED BY <2>1, <2>2
<1> QED BY <1>1, <1>2, <1>3, LostReach

\* A new daemon sends nothing of what it appended: a bridge that connects
\* again will ask for it.
LEMMA RestartReach ==
  ASSUME Good, Restart
  PROVE  Reach'
<1>0. /\ LogTypes /\ Numbers /\ CleanLog /\ next \in Nat \ {0} /\ daemonSeq \in Nat /\ lastSeq \in Nat
      /\ Covered /\ Fresh /\ Links /\ Reconnects /\ lastSeq < next
  BY GoodIs DEF Flight
<1>1. next <= next' /\ next' \in Nat
  BY <1>0, RestartClean
<1>2. ~up /\ UNCHANGED <<bridgeVars, pageVars, bounds>>
  BY DEF Restart
<1>3. ~linked /\ UNCHANGED <<linked, socket, replay, lastSeq, daemonSeq, drops, crashes>>
  BY <1>0, <1>2 DEF Links, bridgeVars, pageVars, bounds
<1>4. Filled' /\ Fills' /\ (Asking' <=> Asking) /\ \A w : Coming(w)' <=> Coming(w)
  BY <1>1, <1>2, PageStill
<1>5. \A w : Whereabouts(w) => Whereabouts(w)'
  BY <1>3, <1>4 DEF Whereabouts
<1>6. Covered'
  <2> SUFFICES ASSUME NEW w \in (daemonSeq + 1)..(next' - 1) PROVE Whereabouts(w)'
    BY <1>3 DEF Covered
  <2>1. w \in Nat
    BY <1>0
  <2>2. CASE w < next
    <3>1. w \in (daemonSeq + 1)..(next - 1)
      BY <1>0, <2>1, <2>2
    <3> QED BY <1>0, <1>5, <3>1 DEF Covered
  <2>3. CASE ~(w < next)
    <3>1. lastSeq < w
      BY <1>0, <2>1, <2>3
    <3>2. CASE lastSeq > 0
      BY <1>3, <3>1, <3>2 DEF Whereabouts
    <3>3. CASE ~(lastSeq > 0)
      <4>1. lastSeq = 0
        BY <1>0, <3>3
      <4> QED BY <1>0, <1>3, <1>4, <4>1 DEF Fresh, Coming, Whereabouts
    <3> QED BY <3>2, <3>3
  <2> QED BY <2>2, <2>3
<1>7. Fresh' /\ Calm'
  <2>1. drops + crashes # 0
    BY <1>0, <1>2 DEF Reconnects
  <2> QED BY <1>0, <1>3, <1>4, <2>1 DEF Fresh, Calm
<1> QED BY <1>4, <1>6, <1>7 DEF Reach

-----------------------------------------------------------------------------
(* The bridge. *)

\* A line put between others is there, and so are they.
LEMMA InsertAtKeeps ==
  ASSUME NEW S, NEW q \in Seq(S), NEW x \in S, NEW place \in 1..(Len(q) + 1)
  PROVE  /\ \E i \in DOMAIN InsertAt(q, place, x) : InsertAt(q, place, x)[i] = x
         /\ \A j \in DOMAIN q :
              \E i \in DOMAIN InsertAt(q, place, x) : InsertAt(q, place, x)[i] = q[j]
<1> DEFINE u == SubSeq(q, 1, place - 1)
           v == SubSeq(q, place, Len(q))
<1>1. Len(q) \in Nat /\ DOMAIN q = 1..Len(q) /\ \A i \in DOMAIN q : q[i] \in S
  BY SeqShape
<1>2. /\ u \in Seq(S)
      /\ \A j \in DOMAIN q : j < place => j \in DOMAIN u /\ u[j] = q[j]
  <2>1. \A i \in 1..(place - 1) : q[i] \in S
    BY <1>1
  <2>2. /\ u \in Seq(S) /\ Len(u) = (IF 1 <= place - 1 THEN place - 1 - 1 + 1 ELSE 0)
        /\ \A i \in 1..(place - 1 - 1 + 1) : u[i] = q[1 + i - 1]
    BY <2>1, SubSeqProperties
  <2>3. DOMAIN u = 1..Len(u)
    BY <2>2
  <2> HIDE DEF u
  <2>4. \A j \in DOMAIN q : j < place => j \in 1..(place - 1 - 1 + 1) /\ 1 + j - 1 = j /\ j \in 1..Len(u)
    BY <1>1, <2>2
  <2>5. ASSUME NEW j \in DOMAIN q, j < place PROVE j \in DOMAIN u /\ u[j] = q[j]
    BY <2>2, <2>3, <2>4, <2>5
  <2> QED BY <2>2, <2>5
<1>3. /\ v \in Seq(S)
      /\ \A j \in DOMAIN q : ~(j < place) => j - place + 1 \in DOMAIN v /\ v[j - place + 1] = q[j]
  <2>1. \A i \in place..Len(q) : q[i] \in S
    BY <1>1
  <2>2. /\ v \in Seq(S) /\ Len(v) = (IF place <= Len(q) THEN Len(q) - place + 1 ELSE 0)
        /\ \A i \in 1..(Len(q) - place + 1) : v[i] = q[place + i - 1]
    BY <1>1, <2>1, SubSeqProperties
  <2>3. DOMAIN v = 1..Len(v)
    BY <2>2
  <2> HIDE DEF v
  <2>4. ASSUME NEW j \in DOMAIN q, ~(j < place)
        PROVE  j - place + 1 \in DOMAIN v /\ v[j - place + 1] = q[j]
    <3> DEFINE i == j - place + 1
    <3>1. i \in 1..(Len(q) - place + 1) /\ i \in 1..Len(v) /\ place + i - 1 = j
      BY <1>1, <2>2, <2>4
    <3> HIDE DEF i
    <3>2. i \in DOMAIN v /\ v[i] = q[place + i - 1]
      BY <2>2, <2>3, <3>1
    <3> QED BY <3>1, <3>2 DEF i
  <2> QED BY <2>2, <2>4
<1>4. InsertAt(q, place, x) = (u \o <<x>>) \o v
  BY DEF InsertAt
<1>5. \A j \in DOMAIN q : j < place \/ ~(j < place)
  OBVIOUS
<1> HIDE DEF u, v
<1>6. <<x>> \in Seq(S) /\ 1 \in DOMAIN <<x>> /\ <<x>>[1] = x
  OBVIOUS
<1> DEFINE y == u \o <<x>>
<1>7. y \in Seq(S) /\ (\A i \in DOMAIN u : i \in DOMAIN y /\ y[i] = u[i]) /\ \E i \in DOMAIN y : y[i] = x
  <2>1. /\ y \in Seq(S) /\ \A i \in DOMAIN u : i \in DOMAIN y /\ y[i] = u[i]
        /\ \A i \in DOMAIN <<x>> : Len(u) + i \in DOMAIN y /\ y[Len(u) + i] = <<x>>[i]
    BY <1>2, <1>6, ConcatShape
  <2>2. Len(u) + 1 \in DOMAIN y /\ y[Len(u) + 1] = x
    BY <1>6, <2>1
  <2> QED BY <2>1, <2>2
<1> HIDE DEF y
<1>8. /\ \A i \in DOMAIN y : i \in DOMAIN (y \o v) /\ (y \o v)[i] = y[i]
      /\ \A i \in DOMAIN v : Len(y) + i \in DOMAIN (y \o v) /\ (y \o v)[Len(y) + i] = v[i]
  BY <1>3, <1>7, ConcatShape
<1> DEFINE a == y \o v
<1> HIDE DEF a
<1>9. /\ \A i \in DOMAIN y : i \in DOMAIN a /\ a[i] = y[i]
      /\ \A i \in DOMAIN v : \E k \in DOMAIN a : a[k] = v[i]
  BY <1>8 DEF a
<1>10. \E i \in DOMAIN a : a[i] = x
  BY <1>7, <1>9
<1>11. ASSUME NEW j \in DOMAIN q PROVE \E i \in DOMAIN a : a[i] = q[j]
  <2>1. CASE j < place
    <3>1. j \in DOMAIN u /\ u[j] = q[j]
      BY <1>2, <2>1
    <3> QED BY <1>7, <1>9, <3>1
  <2>2. CASE ~(j < place)
    <3>1. PICK i \in DOMAIN v : v[i] = q[j]
      BY <1>3, <2>2
    <3> QED BY <1>9, <3>1
  <2> QED BY <2>1, <2>2
<1> QED BY <1>4, <1>10, <1>11 DEF a, y

\* What was on the socket still is, with the line put between.
LEMMA OnInserted ==
  ASSUME NEW so \in Seq(Seq(Event)), NEW x \in Seq(Event), NEW place \in 1..(Len(so) + 1)
  PROVE  /\ \A w : On(so, w) => On(InsertAt(so, place, x), w)
         /\ \A k \in DOMAIN x : On(InsertAt(so, place, x), x[k].seq)
<1> DEFINE a == InsertAt(so, place, x)
<1>1. /\ \E i \in DOMAIN a : a[i] = x
      /\ \A j \in DOMAIN so : \E i \in DOMAIN a : a[i] = so[j]
  BY InsertAtKeeps
<1> HIDE DEF a
<1>2. /\ \A w : On(so, w) => On(a, w)
      /\ \A k \in DOMAIN x : On(a, x[k].seq)
  BY <1>1 DEF On
<1> QED BY <1>2 DEF a

\* subscribe: a bridge that connects again asks for what it missed.
LEMMA ConnectReach ==
  ASSUME Good, Connect
  PROVE  Reach'
<1>0. next \in Nat /\ lastSeq \in Nat /\ Links /\ Covered /\ Calm
  BY GoodIs
<1>1. /\ ~linked /\ linked' = TRUE /\ socket' = <<>> /\ socket = <<>> /\ replay = NoReplay
      /\ replay' = [state |-> IF lastSeq = 0 THEN "live" ELSE "asked", since |-> lastSeq]
      /\ UNCHANGED <<logVars, lastSeq, pageVars, bounds>>
  BY <1>0 DEF Connect, Links
<1>2. Filled' /\ Fills' /\ (Asking' <=> Asking) /\ \A w : Coming(w)' <=> Coming(w)
  <2>1. next' = next /\ next <= next'
    BY <1>0, <1>1 DEF logVars
  <2> QED BY <1>0, <1>1, <2>1, PageStill
<1>3. UNCHANGED <<daemonSeq, retry, catching, replayed, next, drops, crashes>>
  BY <1>1 DEF pageVars, logVars, bounds
<1>4. \A w : ~On(socket, w)
  <2>1. DOMAIN <<>> = {}
    OBVIOUS
  <2> QED BY <1>1, <2>1 DEF On
<1>5. \A w : Whereabouts(w) => Whereabouts(w)'
  <2>1. replay.state # "asked"
    BY <1>1 DEF NoReplay
  <2>2. lastSeq > 0 => replay'.state = "asked" /\ replay'.since = lastSeq
    BY <1>0, <1>1
  <2> QED BY <1>1, <1>2, <1>4, <2>1, <2>2 DEF Whereabouts
<1>6. Covered' /\ Fresh' /\ Calm'
  BY <1>0, <1>1, <1>3, <1>5 DEF Covered, Fresh, Calm
<1> QED BY <1>2, <1>6 DEF Reach

\* The answer to a first connection: the page's own request, or the socket,
\* has all that came before the bridge's place.
LEMMA LiveReach ==
  ASSUME Good, AnswerLive
  PROVE  Reach'
<1>0. next \in Nat \ {0} /\ lastSeq \in Nat /\ BridgeTypes /\ Links /\ Covered /\ Calm
  BY GoodIs
<1>1. /\ linked /\ replay.state = "live" /\ replay' = [replay EXCEPT !.state = "none"]
      /\ lastSeq' = IF lastSeq = 0 THEN next - 1 ELSE lastSeq
      /\ UNCHANGED <<logVars, linked, socket, pageVars, bounds>>
  BY DEF AnswerLive
<1>2. Filled' /\ Fills' /\ (Asking' <=> Asking) /\ \A w : Coming(w)' <=> Coming(w)
  <2>1. next' = next /\ next <= next'
    BY <1>0, <1>1 DEF logVars
  <2> QED BY <1>0, <1>1, <2>1, PageStill
<1>3. UNCHANGED <<daemonSeq, retry, catching, replayed, next, drops, crashes>>
  BY <1>1 DEF pageVars, logVars, bounds
<1>4. replay'.since = replay.since
  BY <1>0, <1>1 DEF BridgeTypes
<1>5. lastSeq = 0 => replay.since = 0
  BY <1>0, <1>1 DEF Links
<1>6. ASSUME NEW w, Whereabouts(w) PROVE Whereabouts(w)'
  <2>1. Coming(w) \/ (On(socket, w) /\ (lastSeq < w \/ replay.since = 0))
    BY <1>1, <1>6 DEF Whereabouts
  <2>2. CASE lastSeq = 0
    BY <1>1, <1>2, <1>4, <1>5, <2>1, <2>2 DEF Whereabouts
  <2>3. CASE lastSeq # 0
    BY <1>1, <1>2, <1>4, <2>1, <2>3 DEF Whereabouts
  <2> QED BY <2>2, <2>3
<1>7. Covered' /\ Fresh' /\ Calm'
  BY <1>0, <1>1, <1>3, <1>6 DEF Covered, Fresh, Calm
<1> QED BY <1>2, <1>7 DEF Reach

\* The answer to a reconnect puts on the socket all the bridge had missed.
LEMMA ReplayReach ==
  ASSUME Good, AnswerReplay
  PROVE  Reach'
<1>0. /\ next \in Nat \ {0} /\ lastSeq \in Nat /\ BridgeTypes /\ Links /\ Covered /\ Calm /\ Full
      /\ Numbers /\ Reconnects /\ socket \in Seq(Seq(Event)) /\ Log \in Seq(Event)
      /\ daemonSeq \in Nat /\ replay.since \in Nat
  BY GoodIs
<1>1. /\ up /\ linked /\ replay.state = "asked" /\ replay' = [replay EXCEPT !.state = "none"]
      /\ UNCHANGED <<logVars, linked, lastSeq, pageVars, bounds>> /\ entries = Log
  BY <1>0 DEF AnswerReplay, Numbers
<1>2. PICK place \in 1..(Len(socket) + 1) :
          socket' = InsertAt(socket, place, After(Log, replay.since))
  BY <1>1 DEF AnswerReplay
<1>3. drops + crashes # 0 /\ Single(Log)
  BY <1>0, <1>1 DEF Reconnects, Good, Plain
<1>4. Filled' /\ Fills' /\ (Asking' <=> Asking) /\ \A w : Coming(w)' <=> Coming(w)
  <2>1. next' = next /\ next <= next'
    BY <1>0, <1>1 DEF logVars
  <2> QED BY <1>0, <1>1, <2>1, PageStill
<1>5. UNCHANGED <<daemonSeq, next, drops, crashes>>
  BY <1>1 DEF pageVars, logVars, bounds
<1>6. replay'.since = replay.since
  BY <1>0, <1>1 DEF BridgeTypes
<1> DEFINE a == After(Log, replay.since)
<1>7. a \in Seq(Event) /\ \E pos : Part(a, Log, replay.since, pos)
  BY <1>0, AfterIsPart
<1> HIDE DEF a
<1>8. /\ \A w : On(socket, w) => On(socket', w)
      /\ \A k \in DOMAIN a : On(socket', a[k].seq)
  <2>1. socket' = InsertAt(socket, place, a)
    BY <1>2 DEF a
  <2>2. /\ \A w : On(socket, w) => On(InsertAt(socket, place, a), w)
        /\ \A k \in DOMAIN a : On(InsertAt(socket, place, a), a[k].seq)
    BY <1>0, <1>7, OnInserted
  <2> QED BY <2>1, <2>2
<1>9. ASSUME NEW w \in 1..(next - 1), replay.since < w PROVE On(socket', w)
  <2>1. PICK i \in DOMAIN Log : w \in Log[i].words
    BY <1>0 DEF Full, Holds
  <2>2. Log[i].seq = w
    BY <1>3, <2>1 DEF Single
  <2>3. PICK pos : Part(a, Log, replay.since, pos)
    BY <1>7
  <2>4. Log[i].seq > replay.since
    BY <1>0, <1>9, <2>2
  <2>5. PICK k \in DOMAIN a : pos[k] = i
    BY <2>3, <2>4 DEF Part
  <2>6. a[k].seq = w
    BY <2>2, <2>3, <2>5 DEF Part
  <2> QED BY <1>8, <2>6
<1>10. Covered'
  <2> SUFFICES ASSUME NEW w \in (daemonSeq + 1)..(next - 1) PROVE Whereabouts(w)'
    BY <1>5 DEF Covered
  <2>1. w \in 1..(next - 1) /\ Whereabouts(w)
    BY <1>0 DEF Covered
  <2>2. \/ Coming(w)
        \/ On(socket, w) /\ (lastSeq < w \/ replay.since = 0)
        \/ lastSeq < w /\ replay.since < w
    BY <1>1, <2>1 DEF Whereabouts
  <2> QED BY <1>1, <1>4, <1>6, <1>8, <1>9, <2>1, <2>2 DEF Whereabouts
<1>11. Fresh' /\ Calm'
  BY <1>1, <1>3, <1>5 DEF Fresh, Calm
<1> QED BY <1>4, <1>10, <1>11 DEF Reach

-----------------------------------------------------------------------------
(* The page. *)

\* A page loaded anew has all to come, and has asked for it.
LEMMA ReloadReach ==
  ASSUME Good, Reload
  PROVE  Reach'
<1>0. next \in Nat /\ Calm
  BY GoodIs
<1>1. /\ daemonSeq' = 0 /\ shown' = <<>> /\ held' = <<>> /\ replayed' = FALSE /\ retry' = FALSE
      /\ catching' = TRUE /\ ask' = [NoAsk EXCEPT !.state = "asked"]
      /\ UNCHANGED <<next, socket, drops, crashes>>
  BY DEF Reload, logVars, bridgeVars
<1>2. ask'.state = "asked" /\ ask'.events = <<>>
  BY <1>1 DEF NoAsk
<1>3. Filled'
  <2>1. 1..0 = {}
    OBVIOUS
  <2> QED BY <1>1, <2>1 DEF Filled
<1>4. Fills'
  <2>1. \A w : ~Reaches(<<>>, w)
    BY DEF Reaches
  <2> QED BY <1>2, <2>1 DEF Fills
<1>5. Asking' /\ Covered' /\ Fresh'
  BY <1>2 DEF Asking, Coming, Whereabouts, Covered, Fresh
<1>6. Calm'
  BY <1>0, <1>1 DEF Calm
<1> QED BY <1>3, <1>4, <1>5, <1>6 DEF Reach

\* The call fails: the page asks again in a second.
LEMMA FailsReach ==
  ASSUME Good, ListFails
  PROVE  Reach'
<1>0. Filled /\ Calm /\ Asks
  BY GoodIs
<1>1. /\ ask.state = "asked" /\ ask' = NoAsk /\ catching' = FALSE /\ retry' = TRUE
      /\ UNCHANGED <<next, socket, drops, crashes, daemonSeq, replayed, held, shown>>
  BY DEF ListFails, logVars, bridgeVars, bounds
<1>2. ask'.events = <<>>
  BY <1>1 DEF NoAsk
<1>3. Filled'
  BY <1>0, <1>1 DEF Filled
<1>4. Fills'
  <2>1. \A w : ~Reaches(<<>>, w)
    BY DEF Reaches
  <2> QED BY <1>2, <2>1 DEF Fills
<1>5. Asking' /\ Covered' /\ Fresh'
  BY <1>1 DEF Asking, Coming, Whereabouts, Covered, Fresh
<1>6. Calm'
  <2>1. catching
    BY <1>0, <1>1 DEF Asks
  <2> QED BY <1>0, <1>1, <2>1 DEF Calm
<1> QED BY <1>3, <1>4, <1>5, <1>6 DEF Reach

\* The second is over: the page asks, unless it has asked since.
LEMMA RetryReach ==
  ASSUME Good, Retry
  PROVE  Reach'
<1>0. Filled /\ Fills /\ Covered /\ Fresh /\ Calm /\ Asks /\ PageTypes
  BY GoodIs
<1>1. /\ retry /\ retry' = FALSE /\ CatchUp(daemonSeq)
      /\ UNCHANGED <<next, bridgeVars, drops, crashes, daemonSeq, replayed, held, shown>>
  BY DEF Retry, logVars, bounds
<1>2. UNCHANGED <<linked, socket, replay, lastSeq>>
  BY <1>1 DEF bridgeVars
<1>3. /\ catching' /\ (catching => ask' = ask)
      /\ ~catching => ask'.state = "asked" /\ ask'.events = <<>>
  BY <1>0, <1>1, CatchUpIs
<1>4. Filled'
  BY <1>0, <1>1 DEF Filled
<1>5. Fills'
  <2>1. CASE catching
    BY <1>0, <1>1, <1>3, <2>1 DEF Fills
  <2>2. CASE ~catching
    <3>1. \A w : ~Reaches(<<>>, w)
      BY DEF Reaches
    <3> QED BY <1>3, <2>2, <3>1 DEF Fills
  <2> QED BY <2>1, <2>2
<1>6. Asking => Asking'
  BY <1>1, <1>3 DEF Asking
<1>7. \A w : Coming(w) => Coming(w)'
  <2>1. CASE catching
    BY <1>1, <1>3, <1>6, <2>1 DEF Coming
  <2>2. CASE ~catching
    BY <1>3, <2>2 DEF Coming, Asking
  <2> QED BY <2>1, <2>2
<1>8. \A w : Whereabouts(w) => Whereabouts(w)'
  BY <1>2, <1>7 DEF Whereabouts
<1>9. Covered' /\ Fresh'
  BY <1>0, <1>1, <1>2, <1>6, <1>8 DEF Covered, Fresh
<1>10. Calm'
  BY <1>0, <1>1, <1>2 DEF Calm
<1> QED BY <1>4, <1>5, <1>9, <1>10 DEF Reach

\* event.list answers with every word of the log the page has not shown.
LEMMA AnswerReach ==
  ASSUME Good, AnswerList
  PROVE  Reach'
<1>0. /\ Filled /\ Covered /\ Fresh /\ Calm /\ Asks /\ PageTypes /\ Numbers /\ CleanLog /\ Full
      /\ next \in Nat \ {0} /\ daemonSeq \in Nat /\ ask.since \in Nat /\ Log \in Seq(Event)
  BY GoodIs
<1>1. /\ linked /\ ask.state = "asked" /\ entries = Log
      /\ ask' = [ask EXCEPT !.state = "answered", !.events = After(Log, ask.since)]
      /\ UNCHANGED <<next, bridgeVars, drops, crashes, daemonSeq, replayed, catching, held, retry, shown>>
  BY <1>0 DEF AnswerList, Numbers, logVars, bounds
<1>2. UNCHANGED <<linked, socket, replay, lastSeq>>
  BY <1>1 DEF bridgeVars
<1>3. ask.since <= daemonSeq
  BY <1>0 DEF Asks
<1> DEFINE a == After(Log, ask.since)
<1>4. a \in Seq(Event) /\ \E pos : Part(a, Log, ask.since, pos)
  BY <1>0, AfterIsPart
<1>5. ask'.events = a
  BY <1>0, <1>1 DEF PageTypes
<1> HIDE DEF a
<1>6. PICK pos : Part(a, Log, ask.since, pos)
  BY <1>4
<1>7. \A i \in DOMAIN Log : Log[i].seq > ask.since =>
        \E j \in DOMAIN a : a[j] = Log[i]
  BY <1>6 DEF Part
<1>8. ASSUME NEW w \in (daemonSeq + 1)..(next - 1) PROVE Reaches(a, w)
  <2>1. next > 1 /\ w <= next - 1 /\ next - 1 > ask.since
    BY <1>0, <1>3
  <2>2. PICK i \in DOMAIN Log : Log[i].seq = next - 1
    BY <1>0, <2>1 DEF CleanLog, Saved
  <2>3. PICK j \in DOMAIN a : a[j] = Log[i]
    BY <1>7, <2>1, <2>2
  <2>4. a[j].seq = next - 1
    BY <2>2, <2>3
  <2> QED BY <2>1, <2>4 DEF Reaches
<1>9. ASSUME NEW w \in (daemonSeq + 1)..(next - 1)
      PROVE  \E j \in DOMAIN a : a[j].seq > daemonSeq /\ w \in a[j].words
  <2>1. w \in 1..(next - 1) /\ w > daemonSeq
    BY <1>0
  <2>2. PICK i \in DOMAIN Log : w \in Log[i].words
    BY <1>0, <2>1 DEF Full, Holds
  <2>3. Log[i].seq > daemonSeq
    <3>1. CASE Single(Log)
      BY <2>1, <2>2, <3>1 DEF Single
    <3>2. CASE drops + crashes = 0
      <4>1. catching
        BY <1>0, <1>1 DEF Asks
      <4>2. daemonSeq = 0
        BY <1>0, <3>2, <4>1 DEF Calm, Asks
      <4>3. Log[i].seq \in 1..Top
        BY <1>0, SeqShape, EventShape
      <4> QED BY <4>2, <4>3, Tops
    <3> QED BY <3>1, <3>2 DEF Good, Plain
  <2>4. Log[i].seq > ask.since
    <3>1. Log[i].seq \in Nat
      BY <1>0, SeqShape, EventShape
    <3> QED BY <1>0, <1>3, <2>3, <3>1
  <2>5. PICK j \in DOMAIN a : a[j] = Log[i]
    BY <1>7, <2>4
  <2> QED BY <2>2, <2>3, <2>5
<1>10. Filled'
  BY <1>0, <1>1 DEF Filled
<1>11. Fills'
  BY <1>1, <1>5, <1>9 DEF Fills
<1>12. Covered'
  BY <1>1, <1>5, <1>8 DEF Covered, Whereabouts, Coming
<1>13. Fresh' /\ Calm'
  BY <1>0, <1>1, <1>2 DEF Fresh, Calm
<1> QED BY <1>10, <1>11, <1>12, <1>13 DEF Reach

\* What is shown of a batch, and how far it goes.
LEMMA FoldedHolds ==
  ASSUME NEW st, NEW s \in Seq(Event), st.seq \in 0..Top, st.shown \in Seq(SUBSET (1..Top))
  PROVE  /\ \A i \in DOMAIN st.shown :
              i \in DOMAIN Folded(st, s).shown /\ Folded(st, s).shown[i] = st.shown[i]
         /\ \A d \in DOMAIN s : s[d].seq > st.seq =>
              \E i \in DOMAIN Folded(st, s).shown : Folded(st, s).shown[i] = s[d].words
         /\ Folded(st, s).seq = st.seq \/ \E d \in DOMAIN s : s[d].seq = Folded(st, s).seq
         /\ Whole(s) => \A d \in DOMAIN s : s[d].seq <= Folded(st, s).seq
<1> DEFINE n == st.seq
           old == st.shown
           new == After(s, n)
           words == [i \in DOMAIN new |-> new[i].words]
<1>1. new \in Seq(Event) /\ \E pos : Part(new, s, n, pos)
  BY AfterIsPart
<1>2. Folded(st, s).seq = (IF new = <<>> THEN n ELSE LastSeq(new))
      /\ Folded(st, s).shown = old \o words
  BY DEF Folded
<1>3. PICK pos : Part(new, s, n, pos)
  BY <1>1
<1> HIDE DEF new
<1>4. Len(new) \in Nat /\ DOMAIN new = 1..Len(new) /\ \A i \in DOMAIN new : new[i] \in Event
  BY <1>1, SeqShape
<1>5. n \in Nat /\ old \in Seq(SUBSET (1..Top))
  BY Tops
<1>6. words \in Seq(SUBSET (1..Top)) /\ DOMAIN words = DOMAIN new
      /\ \A i \in DOMAIN new : words[i] = new[i].words
  BY <1>4, EventShape
<1> HIDE DEF words, old, n
<1> DEFINE sh == old \o words
<1>7. /\ \A i \in DOMAIN old : i \in DOMAIN sh /\ sh[i] = old[i]
      /\ \A i \in DOMAIN words : \E k \in DOMAIN sh : sh[k] = words[i]
  <2>1. /\ \A i \in DOMAIN old : i \in DOMAIN sh /\ sh[i] = old[i]
        /\ \A i \in DOMAIN words : Len(old) + i \in DOMAIN sh /\ sh[Len(old) + i] = words[i]
    BY <1>5, <1>6, ConcatShape
  <2> HIDE DEF sh
  <2> QED BY <2>1
<1> HIDE DEF sh
<1>8. \A d \in DOMAIN s : s[d].seq > n => \E i \in DOMAIN new : new[i] = s[d]
  BY <1>3 DEF Part
<1>9. \A d \in DOMAIN s : s[d].seq > n => \E i \in DOMAIN sh : sh[i] = s[d].words
  <2> SUFFICES ASSUME NEW d \in DOMAIN s, s[d].seq > n PROVE \E i \in DOMAIN sh : sh[i] = s[d].words
    OBVIOUS
  <2>1. PICK i \in DOMAIN new : new[i] = s[d]
    BY <1>8
  <2> QED BY <1>6, <1>7, <2>1
<1> DEFINE last == IF new = <<>> THEN n ELSE LastSeq(new)
<1>10. new # <<>> => Len(new) \in DOMAIN new /\ LastSeq(new) = new[Len(new)].seq
  BY <1>1, <1>4 DEF LastSeq, Last
<1>11. last = n \/ \E d \in DOMAIN s : s[d].seq = last
  <2>1. CASE new = <<>>
    BY <2>1
  <2>2. CASE new # <<>>
    <3>1. pos[Len(new)] \in DOMAIN s /\ new[Len(new)] = s[pos[Len(new)]]
      BY <1>3, <1>10, <2>2 DEF Part
    <3> QED BY <1>10, <2>2, <3>1
  <2> QED BY <2>1, <2>2
<1>12. ASSUME Whole(s), NEW d \in DOMAIN s PROVE s[d].seq <= last
  <2>1. s[d].seq \in Nat
    BY SeqShape, EventShape
  <2>2. Whole(new)
    BY <1>1, <1>3, <1>5, <1>12, PartKeeps
  <2>3. ASSUME NEW i \in DOMAIN new PROVE new[i].seq <= last /\ new # <<>>
    <3>1. new # <<>>
      BY <2>3
    <3>2. new[i].seq \in Nat /\ i \in 1..Len(new)
      BY <1>4, EventShape
    <3>3. CASE i = Len(new)
      BY <1>10, <3>1, <3>2, <3>3
    <3>4. CASE i # Len(new)
      <4>1. i < Len(new) /\ Len(new) \in DOMAIN new
        BY <1>4, <1>10, <3>1, <3>2, <3>4
      <4>2. new[i].seq \in new[i].words
        BY <2>2 DEF Whole
      <4>3. new[i].seq < new[Len(new)].seq
        BY <2>2, <4>1, <4>2 DEF Whole
      <4>4. new[Len(new)].seq \in Nat
        BY <1>4, <4>1, EventShape
      <4> QED BY <1>10, <3>1, <3>2, <4>3, <4>4
    <3> QED BY <3>1, <3>3, <3>4
  <2>4. CASE s[d].seq > n
    <3>1. PICK i \in DOMAIN new : new[i] = s[d]
      BY <1>8, <2>4
    <3> QED BY <2>3, <3>1
  <2>5. CASE ~(s[d].seq > n)
    <3>1. CASE new = <<>>
      BY <1>5, <2>1, <2>5, <3>1
    <3>2. CASE new # <<>>
      <4>1. new[Len(new)].seq > n /\ new[Len(new)].seq \in Nat
        BY <1>3, <1>4, <1>10, <3>2, EventShape DEF Part
      <4> QED BY <1>5, <1>10, <2>1, <2>5, <3>2, <4>1
    <3> QED BY <3>1, <3>2
  <2> QED BY <2>4, <2>5
<1>13. Folded(st, s).seq = last /\ Folded(st, s).shown = sh
  BY <1>2 DEF sh
<1> HIDE DEF last
<1> QED BY <1>7, <1>9, <1>11, <1>12, <1>13 DEF old, n

-----------------------------------------------------------------------------
(* The bridge reads. *)

\* What is on the socket stays, but for the event that is read; on a socket
\* in line that one has the lowest number.
LEMMA OnRest ==
  ASSUME NEW so \in Seq(Seq(Event)), so # <<>>
  PROVE  /\ Head(so) = <<>> => \A w : On(so, w) => On(Tail(so), w)
         /\ Head(so) # <<>> => \A w : On(so, w) /\ w # Head(Head(so)).seq => On(Rest(so), w)
         /\ InLine(so) => /\ Head(so) # <<>> /\ InLine(Rest(so))
                          /\ \A w : On(so, w) => Head(Head(so)).seq <= w
<1> DEFINE line == Head(so)
           tail == Tail(so)
           n == Len(so)
<1>1. n \in Nat /\ DOMAIN so = 1..n /\ \A i \in DOMAIN so : so[i] \in Seq(Event)
  BY SeqShape
<1>2. 1 \in DOMAIN so /\ line = so[1] /\ line \in Seq(Event) /\ n >= 1
  BY <1>1
<1>3. tail \in Seq(Seq(Event)) /\ Len(tail) = n - 1 /\ DOMAIN tail = 1..(n - 1)
      /\ \A i \in 1..(n - 1) : tail[i] = so[i + 1]
  <2>1. /\ tail \in Seq(Seq(Event)) /\ Len(tail) = Len(so) - 1
        /\ \A i \in 1..Len(tail) : tail[i] = so[i + 1]
    BY HeadTailProperties
  <2> QED BY <2>1
<1> HIDE DEF line, tail, n
<1>4. \A i \in DOMAIN so : i # 1 => i - 1 \in DOMAIN tail /\ tail[i - 1] = so[i]
  <2> SUFFICES ASSUME NEW i \in DOMAIN so, i # 1 PROVE i - 1 \in DOMAIN tail /\ tail[i - 1] = so[i]
    OBVIOUS
  <2> DEFINE k == i - 1
  <2>1. k \in 1..(n - 1) /\ k + 1 = i
    BY <1>1, <1>2
  <2> HIDE DEF k
  <2>2. k \in DOMAIN tail /\ tail[k] = so[k + 1]
    BY <1>3, <2>1
  <2> QED BY <2>1, <2>2 DEF k
<1>5. ASSUME NEW i \in DOMAIN so, i # 1, NEW w, \E k \in DOMAIN so[i] : so[i][k].seq = w
      PROVE  On(tail, w)
  BY <1>4, <1>5 DEF On
<1>6. ASSUME line = <<>>, NEW w, On(so, w) PROVE On(tail, w)
  <2>1. PICK i \in DOMAIN so : \E k \in DOMAIN so[i] : so[i][k].seq = w
    BY <1>6 DEF On
  <2>2. DOMAIN line = {}
    BY <1>6
  <2>3. i # 1
    BY <1>2, <2>1, <2>2
  <2> QED BY <1>5, <2>1, <2>3
<1>7. Rest(so) = IF Len(line) < 2 THEN tail ELSE [so EXCEPT ![1] = Tail(line)]
  BY DEF Rest, line, tail
<1>8. ASSUME line # <<>>, NEW w, On(so, w), w # Head(line).seq PROVE On(Rest(so), w)
  <2>1. PICK i \in DOMAIN so : \E k \in DOMAIN so[i] : so[i][k].seq = w
    BY <1>8 DEF On
  <2>2. PICK k \in DOMAIN so[i] : so[i][k].seq = w
    BY <2>1
  <2>3. Len(line) \in Nat /\ DOMAIN line = 1..Len(line) /\ Head(line) = line[1]
    BY <1>2, <1>8
  <2>4. i = 1 => k \in 1..Len(line) /\ k # 1
    BY <1>2, <1>8, <2>2, <2>3
  <2>5. CASE Len(line) < 2
    <3>1. i # 1
      BY <2>3, <2>4, <2>5
    <3> QED BY <1>5, <1>7, <2>1, <2>5, <3>1
  <2>6. CASE ~(Len(line) < 2)
    <3> DEFINE short == Tail(line)
               rest == [so EXCEPT ![1] = short]
               p == k - 1
    <3>1. /\ short \in Seq(Event) /\ Len(short) = Len(line) - 1
          /\ \A q \in 1..Len(short) : short[q] = line[q + 1]
      BY <1>2, <1>8, HeadTailProperties
    <3>2. DOMAIN short = 1..(Len(line) - 1)
      BY <3>1
    <3> HIDE DEF short
    <3>3. DOMAIN rest = DOMAIN so /\ rest[1] = short /\ \A j \in DOMAIN so : j # 1 => rest[j] = so[j]
      BY <1>2
    <3>4. i = 1 => p \in DOMAIN short /\ short[p] = line[k]
      <4>1. i = 1 => p \in 1..(Len(line) - 1) /\ p + 1 = k
        BY <2>3, <2>4
      <4> HIDE DEF p
      <4> QED BY <3>1, <3>2, <4>1
    <3>5. Rest(so) = rest
      BY <1>7, <2>6 DEF short
    <3> HIDE DEF rest, p
    <3>6. CASE i = 1
      <4>1. 1 \in DOMAIN rest /\ p \in DOMAIN rest[1] /\ rest[1][p].seq = w
        BY <1>2, <2>2, <3>3, <3>4, <3>6
      <4> QED BY <3>5, <4>1 DEF On
    <3>7. CASE i # 1
      <4>1. i \in DOMAIN rest /\ k \in DOMAIN rest[i] /\ rest[i][k].seq = w
        BY <2>2, <3>3, <3>7
      <4> QED BY <3>5, <4>1 DEF On
    <3> QED BY <3>6, <3>7
  <2> QED BY <2>5, <2>6
<1>9. ASSUME InLine(so)
      PROVE  line # <<>> /\ InLine(Rest(so)) /\ \A w : On(so, w) => Head(line).seq <= w
  <2>1. \A i \in DOMAIN so : /\ DOMAIN so[i] = {1}
                             /\ \A j \in DOMAIN so : i < j => so[i][1].seq < so[j][1].seq
    BY <1>9 DEF InLine
  <2>2. DOMAIN line = {1}
    BY <1>2, <2>1
  <2>3. Len(line) \in Nat /\ DOMAIN line = 1..Len(line)
    BY <1>2
  <2>4. Len(line) < 2
    <3> DEFINE l == Len(line)
    <3>1. l \in Nat /\ 1..l = {1}
      BY <2>2, <2>3
    <3> HIDE DEF l
    <3>2. ASSUME l >= 2 PROVE FALSE
      <4>1. 2 \in 1..l
        BY <3>1, <3>2
      <4>2. 2 \in {1}
        BY <3>1, <4>1
      <4> QED BY <4>2
    <3>3. l < 2
      BY <3>1, <3>2
    <3> QED BY <3>3 DEF l
  <2>5. line # <<>>
    <3>1. DOMAIN <<>> = {}
      OBVIOUS
    <3> QED BY <2>2, <3>1
  <2>6. Head(line) = line[1]
    BY <1>2, <2>5
  <2>7. Rest(so) = tail
    BY <1>7, <2>4
  <2>8. InLine(tail)
    <3> SUFFICES ASSUME NEW i \in DOMAIN tail
                 PROVE  /\ DOMAIN tail[i] = {1}
                        /\ \A j \in DOMAIN tail : i < j => tail[i][1].seq < tail[j][1].seq
      BY DEF InLine
    <3>1. \A j \in DOMAIN tail : j + 1 \in DOMAIN so /\ tail[j] = so[j + 1] /\ j \in Nat
      <4>1. \A j \in 1..(n - 1) : j + 1 \in 1..n
        BY <1>1, <1>2
      <4> QED BY <1>1, <1>3, <4>1
    <3>2. \A j \in DOMAIN tail : i < j => i + 1 < j + 1
      BY <3>1
    <3> QED BY <2>1, <3>1, <3>2
  <2>9. ASSUME NEW w, On(so, w) PROVE Head(line).seq <= w
    <3>1. PICK i \in DOMAIN so : \E k \in DOMAIN so[i] : so[i][k].seq = w
      BY <2>9 DEF On
    <3>2. so[i][1].seq = w /\ 1 \in DOMAIN so[i]
      BY <2>1, <3>1
    <3>3. so[i][1].seq \in Nat /\ so[1][1].seq \in Nat
      BY <1>1, <1>2, <2>1, <3>2, SeqShape, EventShape
    <3>4. i = 1 \/ 1 < i
      BY <1>1
    <3>5. 1 < i => so[1][1].seq < so[i][1].seq
      BY <1>2, <2>1
    <3> QED BY <1>2, <2>6, <3>2, <3>3, <3>4, <3>5
  <2> QED BY <2>5, <2>7, <2>8, <2>9
<1> QED BY <1>6, <1>8, <1>9 DEF line, tail

\* The page, handed an event, folds it, holds it or has it; what was coming
\* to it still is.
LEMMA NotifiedReach ==
  ASSUME Good, NEW e \in Event, e.words = {e.seq}, Notified(e), UNCHANGED <<replayed, retry, next>>
  PROVE  /\ daemonSeq <= daemonSeq' /\ daemonSeq' \in Nat
         /\ e.seq <= daemonSeq' \/ Reaches(held', e.seq)
         /\ \A w : Coming(w) => Coming(w)'
         /\ Filled' /\ Fills'
<1>0. /\ PageTypes /\ Asks /\ Filled /\ Fills /\ Calm /\ AskSingle /\ daemonSeq \in Nat
      /\ held \in Seq(Event) /\ next \in Nat \ {0} /\ ask.events \in Seq(Event)
  BY GoodIs
<1>1. e.seq \in Nat
  BY EventShape
<1>2. ASSUME held' = Append(held, e)
      PROVE  Reaches(held', e.seq) /\ \A w : Reaches(held, w) => Reaches(held', w)
  <2> DEFINE h == Append(held, e)
             m == Len(held)
  <2>1. /\ m \in Nat /\ DOMAIN held = 1..m /\ DOMAIN h = 1..(m + 1)
        /\ \A i \in 1..m : h[i] = held[i]
        /\ h[m + 1] = e
    BY <1>0, SeqShape, AppendProperties
  <2> HIDE DEF h, m
  <2>2. m + 1 \in DOMAIN h /\ \A i \in 1..m : i \in DOMAIN h
    BY <2>1
  <2>3. e.seq <= h[m + 1].seq
    BY <1>1, <2>1
  <2>4. Reaches(h, e.seq) /\ \A w : Reaches(held, w) => Reaches(h, w)
    BY <2>1, <2>2, <2>3 DEF Reaches
  <2> QED BY <1>2, <2>4 DEF h
<1>3. CASE held' = Append(held, e) /\ UNCHANGED <<daemonSeq, shown, catching, ask>>
  <2>1. \A w : Coming(w) => Coming(w)'
    BY <1>2, <1>3 DEF Coming, Asking
  <2>2. Filled' /\ Fills'
    BY <1>0, <1>3 DEF Filled, Fills
  <2> QED BY <1>0, <1>2, <1>3, <2>1, <2>2
<1>4. CASE e.seq <= daemonSeq /\ UNCHANGED <<daemonSeq, shown, catching, ask, held>>
  <2>1. \A w : Coming(w) => Coming(w)'
    BY <1>4 DEF Coming, Asking
  <2>2. Filled' /\ Fills'
    BY <1>0, <1>4 DEF Filled, Fills
  <2> QED BY <1>0, <1>4, <2>1, <2>2
<1>5. CASE held' = Append(held, e) /\ CatchUp(daemonSeq) /\ UNCHANGED <<daemonSeq, shown>>
  <2>1. /\ catching' /\ (catching => ask' = ask)
        /\ ~catching => ask'.state = "asked" /\ ask'.events = <<>>
    BY <1>0, <1>5, CatchUpIs
  <2>2. \A w : Coming(w) => Coming(w)'
    BY <1>2, <1>5, <2>1 DEF Coming, Asking
  <2>3. Filled'
    BY <1>0, <1>5 DEF Filled
  <2>4. Fills'
    <3>1. CASE catching
      BY <1>0, <1>5, <2>1, <3>1 DEF Fills
    <3>2. CASE ~catching
      <4>1. \A w : ~Reaches(<<>>, w)
        BY DEF Reaches
      <4> QED BY <2>1, <3>2, <4>1 DEF Fills
    <3> QED BY <3>1, <3>2
  <2> QED BY <1>0, <1>2, <1>5, <2>2, <2>3, <2>4
<1>6. CASE replayed /\ e.seq = daemonSeq + 1 /\ SetPage(Folded(page, <<e>>))
           /\ UNCHANGED <<catching, ask, held>>
  <2> DEFINE F == Folded(page, <<e>>)
             one == <<e>>
  <2>1. one \in Seq(Event) /\ Whole(one) /\ DOMAIN one = {1} /\ one[1] = e
    BY OneEvent
  <2>2. F = Folded(page, one)
    OBVIOUS
  <2> HIDE DEF F, one
  <2>3. page.seq = daemonSeq /\ page.shown = shown /\ page.seq \in 0..Top
        /\ page.shown \in Seq(SUBSET (1..Top))
    BY <1>0, PageIs
  <2>4. /\ \A i \in DOMAIN shown : i \in DOMAIN F.shown /\ F.shown[i] = shown[i]
        /\ \E i \in DOMAIN F.shown : F.shown[i] = {e.seq}
        /\ F.seq = daemonSeq \/ F.seq = e.seq
        /\ e.seq <= F.seq
    <3>1. /\ \A i \in DOMAIN page.shown : i \in DOMAIN F.shown /\ F.shown[i] = page.shown[i]
          /\ \A d \in DOMAIN one : one[d].seq > page.seq =>
               \E i \in DOMAIN F.shown : F.shown[i] = one[d].words
          /\ F.seq = page.seq \/ \E d \in DOMAIN one : one[d].seq = F.seq
          /\ Whole(one) => \A d \in DOMAIN one : one[d].seq <= F.seq
      BY <2>1, <2>2, <2>3, FoldedHolds
    <3>2. e.seq > daemonSeq
      BY <1>0, <1>6
    <3> QED BY <2>1, <2>3, <3>1, <3>2
  <2>5. daemonSeq' = F.seq /\ shown' = F.shown
    BY <1>6 DEF SetPage, F
  <2>6. daemonSeq' = daemonSeq + 1 /\ daemonSeq' = e.seq
    BY <1>0, <1>6, <2>4, <2>5
  <2>7. Filled'
    <3> SUFFICES ASSUME NEW w \in 1..(daemonSeq + 1) PROVE \E i \in DOMAIN shown' : w \in shown'[i]
      BY <2>6 DEF Filled
    <3>1. CASE w = e.seq
      BY <2>4, <2>5, <3>1
    <3>2. CASE w # e.seq
      <4>1. w \in 1..daemonSeq
        BY <1>0, <1>6, <3>2
      <4>2. PICK i \in DOMAIN shown : w \in shown[i]
        BY <1>0, <4>1 DEF Filled
      <4> QED BY <2>4, <2>5, <4>2
    <3> QED BY <3>1, <3>2
  <2>8. Fills'
    <3> SUFFICES ASSUME NEW w \in (daemonSeq + 1 + 1)..(next - 1), Reaches(ask.events, w)
                 PROVE  \E j \in DOMAIN ask.events :
                          ask.events[j].seq > daemonSeq + 1 /\ w \in ask.events[j].words
      BY <1>6, <2>6 DEF Fills
    <3>1. w \in (daemonSeq + 1)..(next - 1) /\ w > daemonSeq + 1
      BY <1>0
    <3>2. PICK j \in DOMAIN ask.events : ask.events[j].seq > daemonSeq /\ w \in ask.events[j].words
      BY <1>0, <3>1 DEF Fills
    <3>3. Single(ask.events)
      <4>1. CASE Single(Log)
        BY <1>0, <4>1 DEF AskSingle
      <4>2. CASE drops + crashes = 0
        <5>1. ~catching
          BY <1>0, <1>6, <4>2 DEF Calm
        <5>2. ask.events = <<>>
          BY <1>0, <5>1 DEF Asks
        <5> QED BY <5>2, NoLines
      <4> QED BY <4>1, <4>2 DEF Good, Plain
    <3>4. ask.events[j].seq = w
      BY <3>2, <3>3 DEF Single
    <3> QED BY <3>1, <3>2, <3>4
  <2>9. \A w : Coming(w) => Coming(w)'
    BY <1>6 DEF Coming, Asking
  <2>10. daemonSeq <= daemonSeq' /\ daemonSeq' \in Nat /\ e.seq <= daemonSeq'
    BY <1>0, <1>1, <2>6
  <2> QED BY <2>7, <2>8, <2>9, <2>10
<1> QED BY <1>3, <1>4, <1>5, <1>6 DEF Notified

\* As long as no connection was lost, no event comes before one it needs.
LEMMA NoGapYet ==
  ASSUME Good, drops + crashes = 0, linked, socket # <<>>, replayed
  PROVE  Head(Head(socket)).seq <= daemonSeq + 1
<1>0. /\ Calm /\ Covered /\ Asks /\ Reconnects /\ socket \in Seq(Seq(Event)) /\ daemonSeq \in Nat
      /\ next \in Nat \ {0} /\ Lines(socket, next)
  BY GoodIs DEF Flight
<1>1. InLine(socket) /\ ~catching /\ ~retry
  BY <1>0 DEF Calm
<1> DEFINE e == Head(Head(socket))
<1>2. Head(socket) # <<>> /\ \A w : On(socket, w) => e.seq <= w
  BY <1>0, <1>1, OnRest
<1>3. e \in Event /\ e.seq < next
  BY <1>0, <1>2, RestIs
<1> HIDE DEF e
<1>4. e.seq \in Nat
  BY <1>3, EventShape
<1> SUFFICES ASSUME ~(e.seq <= daemonSeq + 1) PROVE FALSE
  BY DEF e
<1> DEFINE w == daemonSeq + 1
<1>5. w \in (daemonSeq + 1)..(next - 1) /\ w < e.seq /\ w \in Nat
  BY <1>0, <1>3, <1>4
<1> HIDE DEF w
<1>6. Whereabouts(w)
  BY <1>0, <1>5 DEF Covered
<1>7. ask.state = "none" /\ ask.events = <<>> /\ held = <<>>
  BY <1>0, <1>1 DEF Asks
<1>8. ~Coming(w)
  BY <1>1, <1>7 DEF Coming, Asking, Reaches
<1>9. replay.state # "asked"
  BY <1>0 DEF Reconnects
<1>10. On(socket, w)
  BY <1>6, <1>8, <1>9 DEF Whereabouts
<1> QED BY <1>2, <1>4, <1>5, <1>10

\* The bridge reads the socket: what it hands on is the page's, what is
\* behind it on the socket stays.
LEMMA ReadReach ==
  ASSUME Good, BridgeRead
  PROVE  Reach'
<1>0. /\ BridgeTypes /\ PageTypes /\ Links /\ Asks /\ Covered /\ Fresh /\ Calm /\ OnScreen
      /\ next \in Nat \ {0} /\ daemonSeq \in Nat /\ lastSeq \in Nat /\ socket \in Seq(Seq(Event))
  BY GoodIs
<1>1. /\ linked /\ socket # <<>> /\ UNCHANGED <<logVars, linked, replay, lapses, bounds>>
  BY DEF BridgeRead
<1>2. UNCHANGED <<next, drops, crashes>>
  BY <1>1 DEF logVars, bounds
<1>3. CASE Head(socket) = <<>>
  <2>1. socket' = Tail(socket) /\ UNCHANGED <<lastSeq, pageVars>>
    BY <1>3 DEF BridgeRead
  <2>2. Filled' /\ Fills' /\ (Asking' <=> Asking) /\ \A w : Coming(w)' <=> Coming(w)
    <3>1. next <= next'
      BY <1>0, <1>2
    <3> QED BY <1>0, <1>2, <2>1, <3>1, PageStill
  <2>3. UNCHANGED <<daemonSeq, retry, catching, replayed>>
    BY <2>1 DEF pageVars
  <2>4. (\A w : On(socket, w) => On(socket', w)) /\ ~InLine(socket)
    BY <1>0, <1>1, <1>3, <2>1, OnRest
  <2>5. \A w : Whereabouts(w) => Whereabouts(w)'
    BY <1>1, <2>1, <2>2, <2>4 DEF Whereabouts
  <2>6. Covered' /\ Fresh' /\ Calm'
    BY <1>0, <1>1, <1>2, <2>3, <2>4, <2>5 DEF Covered, Fresh, Calm
  <2> QED BY <2>2, <2>6 DEF Reach
<1>4. CASE Head(socket) # <<>>
  <2> DEFINE e == Head(Head(socket))
  <2>1. e \in Event /\ e.words = {e.seq} /\ lastSeq' = e.seq /\ Notified(e)
    BY <1>0, <1>1, <1>4, RestIs DEF OnScreen, BridgeRead
  <2>2. socket' = Rest(socket) /\ UNCHANGED <<replayed, retry>>
    <3>1. /\ socket' = IF Len(Head(socket)) = 1 THEN Tail(socket)
                       ELSE [socket EXCEPT ![1] = Tail(Head(socket))]
          /\ UNCHANGED <<replayed, retry>>
      BY <1>4 DEF BridgeRead
    <3>2. Head(socket) \in Seq(Event)
      BY <1>0, <1>1, RestIs
    <3> QED BY <1>0, <1>4, <3>1, <3>2, RestRead
  <2>3. /\ \A w : On(socket, w) /\ w # e.seq => On(socket', w)
        /\ InLine(socket) => InLine(socket')
    BY <1>0, <1>1, <1>4, <2>2, OnRest
  <2>4. drops + crashes = 0 /\ replayed => e.seq <= daemonSeq + 1
    BY <1>1, NoGapYet
  <2> HIDE DEF e
  <2>5. /\ daemonSeq <= daemonSeq' /\ daemonSeq' \in Nat
        /\ e.seq <= daemonSeq' \/ Reaches(held', e.seq)
        /\ \A w : Coming(w) => Coming(w)'
        /\ Filled' /\ Fills'
    BY <1>2, <2>1, <2>2, NotifiedReach
  <2>6. e.seq \in Nat
    BY <2>1, EventShape
  <2>7. ASSUME NEW w \in (daemonSeq' + 1)..(next - 1) PROVE Whereabouts(w)'
    <3>1. w \in Nat /\ w \in (daemonSeq + 1)..(next - 1) /\ w > daemonSeq'
      <4> DEFINE d == daemonSeq'
      <4>1. d \in Nat /\ daemonSeq <= d /\ daemonSeq \in Nat /\ next \in Nat /\ w \in (d + 1)..(next - 1)
        BY <1>0, <2>5, <2>7
      <4> HIDE DEF d
      <4>2. w \in Nat /\ w \in (daemonSeq + 1)..(next - 1) /\ w > d
        BY <4>1
      <4> QED BY <4>2 DEF d
    <3>2. Whereabouts(w)
      BY <1>0, <3>1 DEF Covered
    <3>3. CASE w <= e.seq
      <4>1. ~(e.seq <= daemonSeq')
        BY <2>5, <2>6, <3>1, <3>3
      <4>2. PICK i \in DOMAIN held' : e.seq <= held'[i].seq
        BY <2>5, <4>1 DEF Reaches
      <4>3. held' \in Seq(Event)
        BY <1>0, <2>1, <2>2, NotifiedShape DEF PageTypes
      <4>4. held'[i].seq \in Nat
        BY <4>2, <4>3, SeqShape, EventShape
      <4>5. w <= held'[i].seq
        BY <2>6, <3>1, <3>3, <4>2, <4>4
      <4>6. Reaches(held', w)
        BY <4>2, <4>5 DEF Reaches
      <4> QED BY <4>6 DEF Coming, Whereabouts
    <3>4. CASE ~(w <= e.seq)
      <4>1. lastSeq' < w /\ w # e.seq
        BY <2>1, <2>6, <3>1, <3>4
      <4>2. Coming(w) \/ On(socket, w) \/ (replay.state = "asked" /\ replay.since < w)
        BY <1>1, <3>2 DEF Whereabouts
      <4> QED BY <1>1, <2>3, <2>5, <4>1, <4>2 DEF Whereabouts
    <3> QED BY <3>3, <3>4
  <2>8. Covered'
    BY <1>2, <2>7 DEF Covered
  <2>9. Fresh'
    BY <1>1 DEF Fresh
  <2>10. Calm'
    <3> SUFFICES ASSUME drops + crashes = 0
                 PROVE  /\ InLine(socket') /\ ~(retry' /\ catching')
                        /\ replayed' => ~catching' /\ ~retry'
      BY <1>2 DEF Calm
    <3>1. InLine(socket) /\ ~(retry /\ catching) /\ (replayed => ~catching /\ ~retry)
      BY <1>0 DEF Calm
    <3>2. catching' = catching
      <4>1. replayed => ~(e.seq > daemonSeq + 1)
        BY <1>0, <2>4, <2>6
      <4> QED BY <2>1, <4>1 DEF Notified
    <3> QED BY <2>2, <2>3, <3>1, <3>2
  <2> QED BY <2>5, <2>8, <2>9, <2>10 DEF Reach
<1> QED BY <1>3, <1>4

-----------------------------------------------------------------------------
(* The answer arrives. *)

\* Numbers held back with none missing from m on: each is shown, as itself.
LEMMA LateFills ==
  ASSUME held \in Seq(Event), Single(held), NEW m \in Nat, NEW late,
         late = {n \in SeqsOf(held) : n > m}, late # {}, ~(Max(late) > m + Cardinality(late)),
         NEW w \in Nat, m < w, w <= Max(late)
  PROVE  \E i \in DOMAIN LateWords(late) : w \in LateWords(late)[i]
<1> DEFINE f == [n \in late |-> Held(n).words]
           q == LateWords(late)
           last == Max(late)
           span == (m + 1)..last
<1>1. late \subseteq SeqsOf(held) /\ late \subseteq 1..Top /\ \E pos : Places(f, Top, q, pos)
  BY LateShape
<1>2. last \in 1..Top /\ last \in late /\ \A y \in late : y <= last
  BY <1>1, MaxIs
<1>3. 1..Top \subseteq Nat
  BY Tops
<1> HIDE DEF last, f, q
<1>4. last \in Nat /\ last > m
  BY <1>2, <1>3
<1>5. late \subseteq span
  BY <1>1, <1>2, <1>3, <1>4
<1>6. IsFiniteSet(span) /\ Cardinality(span) = last - m
  <2>1. m + 1 \in Int /\ last \in Int /\ ~(m + 1 > last) /\ last - (m + 1) + 1 = last - m
    BY <1>4
  <2> QED BY <2>1, FS_Interval
<1> HIDE DEF span
<1>7. /\ IsFiniteSet(late) /\ Cardinality(late) <= Cardinality(span)
      /\ Cardinality(span) = Cardinality(late) => span = late
  BY <1>5, <1>6, FS_Subset
<1>8. Cardinality(late) \in Nat
  BY <1>7, FS_CardinalityType
<1>9. span = late
  <2>1. ~(last > m + Cardinality(late))
    BY DEF last
  <2>2. Cardinality(span) = Cardinality(late)
    BY <1>4, <1>6, <1>7, <1>8, <2>1
  <2> QED BY <1>7, <2>2
<1>10. w \in late
  <2>1. w <= last
    BY DEF last
  <2>2. w \in (m + 1)..last
    BY <1>4, <2>1
  <2> QED BY <1>9, <2>2 DEF span
<1>11. f[w] = {w} /\ DOMAIN f = late
  <2>1. w \in SeqsOf(held)
    BY <1>1, <1>10
  <2>2. PICK i \in DOMAIN held : Held(w) = held[i] /\ held[i].seq = w
    BY <2>1, HeldIs
  <2> QED BY <1>10, <2>2 DEF f, Single
<1>12. PICK pos : Places(f, Top, q, pos)
  BY <1>1
<1>13. w \in DOMAIN f \cap (1..Top)
  BY <1>1, <1>10, <1>11
<1>14. PICK i \in DOMAIN q : pos[i] = w
  BY <1>12, <1>13 DEF Places
<1>15. q[i] = f[w]
  BY <1>12, <1>14 DEF Places
<1> QED BY <1>11, <1>14, <1>15 DEF q

\* The page folds the answer and what it held: all it asked for is shown, the
\* rest is where it was.
LEMMA ArrivesReach ==
  ASSUME Good, ListArrives, lapses' = {}
  PROVE  Reach'
<1> DEFINE caught == Folded(page, ask.events)
           m == caught.seq
           sh == caught.shown
<1>0. /\ PageTypes /\ Asks /\ Flight /\ OnScreen /\ Filled /\ Fills /\ Covered /\ Fresh /\ Calm
      /\ next \in Nat \ {0} /\ daemonSeq \in Nat /\ held \in Seq(Event) /\ ask.events \in Seq(Event)
  BY GoodIs
<1>1. /\ ask.state = "answered" /\ ask' = NoAsk /\ held' = <<>> /\ catching' = FALSE
      /\ UNCHANGED <<next, bridgeVars, retry, drops, crashes>>
  BY DEF ListArrives, logVars, bounds
<1>2. catching
  BY <1>0, <1>1 DEF Asks
<1>3. PICK late \in SUBSET SeqsOf(held) :
           /\ late = {n \in SeqsOf(held) : n > m}
           /\ daemonSeq' = IF late = {} THEN m ELSE Max(late)
           /\ shown' = sh \o LateWords(late)
           /\ lapses' = IF daemonSeq' > m + Cardinality(late) THEN lapses \cup {"skipped"} ELSE lapses
  BY <1>0, ListArrivesIs
<1>4. page.seq = daemonSeq /\ page.shown = shown /\ page.seq \in 0..Top
      /\ page.shown \in Seq(SUBSET (1..Top))
  BY <1>0, PageIs
<1>5. /\ m \in Nat /\ sh \in Seq(SUBSET (1..Top)) /\ daemonSeq <= m /\ m < next
  <2>1. Below(ask.events, next) /\ daemonSeq < next
    BY <1>0 DEF Flight
  <2>2. m \in 0..Top /\ sh \in Seq(SUBSET (1..Top)) /\ daemonSeq <= m /\ m < next
    BY <1>0, <1>4, <2>1, FoldedShape
  <2> QED BY <2>2, Tops
<1>6. /\ \A i \in DOMAIN shown : i \in DOMAIN sh /\ sh[i] = shown[i]
      /\ \A d \in DOMAIN ask.events : ask.events[d].seq > daemonSeq =>
           \E i \in DOMAIN sh : sh[i] = ask.events[d].words
      /\ m = daemonSeq \/ \E d \in DOMAIN ask.events : ask.events[d].seq = m
      /\ \A d \in DOMAIN ask.events : ask.events[d].seq <= m
  <2>1. Whole(ask.events)
    BY <1>0 DEF Flight
  <2> DEFINE st == page
             x == ask.events
  <2>2. x \in Seq(Event) /\ st.seq \in 0..Top /\ st.shown \in Seq(SUBSET (1..Top)) /\ Whole(x)
    BY <1>0, <1>4, <2>1
  <2>4. st.seq = daemonSeq /\ st.shown = shown /\ Folded(st, x) = caught
    BY <1>4
  <2> HIDE DEF st, x
  <2>3. /\ \A i \in DOMAIN st.shown :
            i \in DOMAIN Folded(st, x).shown /\ Folded(st, x).shown[i] = st.shown[i]
        /\ \A d \in DOMAIN x : x[d].seq > st.seq =>
             \E i \in DOMAIN Folded(st, x).shown : Folded(st, x).shown[i] = x[d].words
        /\ Folded(st, x).seq = st.seq \/ \E d \in DOMAIN x : x[d].seq = Folded(st, x).seq
        /\ Whole(x) => \A d \in DOMAIN x : x[d].seq <= Folded(st, x).seq
    BY ONLY <2>2, FoldedHolds
  <2> HIDE DEF caught
  <2> QED BY <2>2, <2>3, <2>4 DEF x
<1> HIDE DEF caught, m, sh
<1>7. late \subseteq 1..Top /\ LateWords(late) \in Seq(SUBSET (1..Top))
  BY <1>0, LateShape
<1>8. /\ \A i \in DOMAIN sh : i \in DOMAIN shown' /\ shown'[i] = sh[i]
      /\ \A i \in DOMAIN LateWords(late) : \E k \in DOMAIN shown' : shown'[k] = LateWords(late)[i]
  <2> DEFINE u == LateWords(late)
             t == shown'
  <2>1. u \in Seq(SUBSET (1..Top)) /\ t = sh \o u
    BY <1>3, <1>7
  <2> HIDE DEF u, t
  <2>2. /\ \A i \in DOMAIN sh : i \in DOMAIN (sh \o u) /\ (sh \o u)[i] = sh[i]
        /\ \A i \in DOMAIN u : Len(sh) + i \in DOMAIN (sh \o u) /\ (sh \o u)[Len(sh) + i] = u[i]
    BY <1>5, <2>1, ConcatShape
  <2>3. /\ \A i \in DOMAIN sh : i \in DOMAIN t /\ t[i] = sh[i]
        /\ \A i \in DOMAIN u : \E k \in DOMAIN t : t[k] = u[i]
    BY <2>1, <2>2
  <2> QED BY <2>3 DEF u, t
<1>9. daemonSeq' \in Nat /\ m <= daemonSeq' /\ \A n \in late : n <= daemonSeq'
  <2>1. CASE late = {}
    BY <1>3, <1>5, <2>1
  <2>2. CASE late # {}
    <3> DEFINE x == Max(late)
    <3>1. x \in late /\ \A n \in late : n <= x
      BY <1>7, <2>2, MaxIs
    <3>2. daemonSeq' = x
      BY <1>3, <2>2
    <3> HIDE DEF x
    <3>3. x \in Nat /\ x > m
      BY <1>3, <1>7, <3>1, Tops
    <3>4. m <= x
      BY <1>5, <3>3
    <3> QED BY <3>1, <3>2, <3>3, <3>4
  <2> QED BY <2>1, <2>2
<1>10. Filled'
  <2> SUFFICES ASSUME NEW w \in 1..daemonSeq' PROVE \E i \in DOMAIN shown' : w \in shown'[i]
    BY DEF Filled
  <2>0. w \in Nat /\ w >= 1 /\ w <= daemonSeq'
    BY <1>9
  <2>1. CASE w <= daemonSeq
    <3>1. w \in 1..daemonSeq
      BY <1>0, <2>0, <2>1
    <3>2. PICK i \in DOMAIN shown : w \in shown[i]
      BY <1>0, <3>1 DEF Filled
    <3>3. i \in DOMAIN shown' /\ shown'[i] = shown[i]
      BY <1>6, <1>8
    <3> QED BY <3>2, <3>3
  <2>2. CASE daemonSeq < w /\ w <= m
    <3>1. PICK d \in DOMAIN ask.events : ask.events[d].seq = m
      BY <1>0, <1>5, <1>6, <2>0, <2>2
    <3>2. Reaches(ask.events, w)
      BY <2>2, <3>1 DEF Reaches
    <3>3. w \in (daemonSeq + 1)..(next - 1)
      BY <1>0, <1>5, <2>0, <2>2
    <3>4. PICK j \in DOMAIN ask.events : ask.events[j].seq > daemonSeq /\ w \in ask.events[j].words
      BY <1>0, <3>2, <3>3 DEF Fills
    <3>5. PICK i \in DOMAIN sh : sh[i] = ask.events[j].words
      BY <1>6, <3>4
    <3> QED BY <1>8, <3>4, <3>5
  <2>3. CASE m < w
    <3>1. late # {} /\ daemonSeq' = Max(late)
      BY <1>3, <1>5, <2>0, <2>3
    <3>2. ~(daemonSeq' > m + Cardinality(late))
      BY <1>3
    <3>3. Single(held)
      BY <1>0 DEF OnScreen
    <3>4. late = {n \in SeqsOf(held) : n > m}
      BY <1>3
    <3>5. \E i \in DOMAIN LateWords(late) : w \in LateWords(late)[i]
      BY <1>0, <1>5, <2>0, <2>3, <3>1, <3>2, <3>3, <3>4, LateFills
    <3>6. PICK i \in DOMAIN LateWords(late) : w \in LateWords(late)[i]
      BY <3>5
    <3> QED BY <1>8, <3>6
  <2> QED BY <1>0, <1>5, <2>0, <2>1, <2>2, <2>3
<1>11. Fills'
  <2>1. ask'.events = <<>>
    BY <1>1, NoAskShape
  <2> QED BY <2>1 DEF Fills, Reaches
<1>12. ASSUME NEW w \in Nat, w > daemonSeq' PROVE ~Coming(w)
  <2>1. ~Asking
    BY <1>1, <1>2 DEF Asking
  <2>2. ~Reaches(ask.events, w)
    <3> SUFFICES ASSUME NEW d \in DOMAIN ask.events, w <= ask.events[d].seq PROVE FALSE
      BY DEF Reaches
    <3>1. ask.events[d].seq <= m /\ ask.events[d].seq \in Nat
      BY <1>0, <1>6, SeqShape, EventShape
    <3> QED BY <1>5, <1>9, <1>12, <3>1
  <2>3. ~Reaches(held, w)
    <3> SUFFICES ASSUME NEW d \in DOMAIN held, w <= held[d].seq PROVE FALSE
      BY DEF Reaches
    <3> DEFINE x == held[d].seq
    <3>1. x \in Nat /\ x \in SeqsOf(held) /\ w <= x
      BY <1>0, SeqShape, EventShape DEF SeqsOf
    <3> HIDE DEF x
    <3>2. x > m => x \in late
      BY <1>3, <3>1
    <3>3. x > m => x <= daemonSeq'
      BY <1>9, <3>2
    <3> QED BY <1>5, <1>9, <1>12, <3>1, <3>3
  <2> QED BY <2>1, <2>2, <2>3 DEF Coming
<1>13. Covered'
  <2> SUFFICES ASSUME NEW w \in (daemonSeq' + 1)..(next' - 1) PROVE Whereabouts(w)'
    BY DEF Covered
  <2>1. w \in Nat /\ w > daemonSeq' /\ w \in (daemonSeq + 1)..(next - 1)
    <3> DEFINE d == daemonSeq'
               n == next
    <3>0. next' = next /\ w \in (daemonSeq' + 1)..(next' - 1)
      BY <1>1
    <3>1. d \in Nat /\ daemonSeq \in Nat /\ n \in Nat /\ w \in (d + 1)..(n - 1)
      BY <1>0, <1>9, <3>0
    <3>2. daemonSeq <= d
      <4>1. daemonSeq <= m /\ m <= d /\ m \in Nat
        BY <1>5, <1>9
      <4> HIDE DEF d
      <4> QED BY <3>1, <4>1
    <3> HIDE DEF d, n
    <3>3. w \in Nat /\ w > d /\ w \in (daemonSeq + 1)..(n - 1)
      BY <3>1, <3>2
    <3> QED BY <3>3 DEF d, n
  <2>2. Whereabouts(w) /\ ~Coming(w)
    BY <1>0, <1>12, <2>1 DEF Covered
  <2>3. UNCHANGED <<linked, socket, replay, lastSeq>>
    BY <1>1 DEF bridgeVars
  <2> QED BY <2>2, <2>3 DEF Whereabouts
<1>14. Fresh'
  <2>1. ~Asking
    BY <1>1, <1>2 DEF Asking
  <2> QED BY <1>0, <1>1, <2>1 DEF Fresh, bridgeVars
<1>15. Calm'
  BY <1>0, <1>1, <1>2 DEF Calm, bridgeVars
<1> QED BY <1>10, <1>11, <1>13, <1>14, <1>15 DEF Reach

-----------------------------------------------------------------------------
(* What the page shows in the end. *)

\* Every step of a good state keeps what the page will reach.
LEMMA NextReach == Good /\ [Next]_vars /\ lapses' = {} => Reach'
<1> SUFFICES ASSUME Good, [Next]_vars, lapses' = {} PROVE Reach'
  OBVIOUS
<1>1. ASSUME NEW kind \in Kinds, Push(kind) PROVE Reach'
  BY <1>1, PushReach
<1>2. CASE CompactTurn \/ UNCHANGED vars
  <2>1. UNCHANGED <<next, bridgeVars, pageVars, drops, crashes>>
    BY <1>2 DEF CompactTurn, vars, logVars, bounds
  <2> QED BY <2>1, AllStill
<1>3. CASE Crash \/ Drop
  BY <1>3, DropReach
<1>4. CASE Restart
  BY <1>4, RestartReach
<1>5. CASE Connect
  BY <1>5, ConnectReach
<1>6. CASE Reload
  BY <1>6, ReloadReach
<1>7. CASE AnswerLive
  BY <1>7, LiveReach
<1>8. CASE AnswerReplay
  BY <1>8, ReplayReach
<1>9. CASE BridgeRead
  BY <1>9, ReadReach
<1>10. CASE AnswerList
  BY <1>10, AnswerReach
<1>11. CASE ListFails
  BY <1>11, FailsReach
<1>12. CASE Retry
  BY <1>12, RetryReach
<1>13. CASE ListArrives
  BY <1>13, ArrivesReach
<1>14. CASE Delivery
  BY <1>7, <1>8, <1>9, <1>10, <1>11, <1>12, <1>13, <1>14 DEF Delivery
<1> QED BY <1>1, <1>2, <1>3, <1>4, <1>5, <1>6, <1>14 DEF Next

\* The invariant holds at the start: the page has asked for the whole log.
LEMMA InitArrives == Init => Arriving
<1> SUFFICES ASSUME Init PROVE Arriving
  OBVIOUS
<1> DEFINE first(n) == [seq |-> n, kind |-> "note", words |-> {n}]
           s == [n \in 1..OldEvents |-> first(n)]
<1>0. /\ up = TRUE /\ disk = s /\ unsaved = <<>> /\ next = OldEvents + 1
      /\ linked = FALSE /\ socket = <<>>
      /\ replay = NoReplay /\ lastSeq = 0 /\ daemonSeq = 0 /\ shown = <<>> /\ held = <<>>
      /\ replayed = FALSE /\ retry = FALSE /\ catching = TRUE
      /\ ask = [NoAsk EXCEPT !.state = "asked"]
  BY DEF Init
<1>1. IInv
  BY InitHolds
<1>2. Log = s
  <2>1. disk \in Seq(Event)
    BY <1>1 DEF IInv, Types, LogTypes
  <2>2. disk \o <<>> = disk
    BY <2>1, ConcatEmptySeq
  <2> QED BY <1>0, <2>2 DEF Log
<1>3. ask.state = "asked" /\ ask.events = <<>> /\ ask.since = 0
  BY <1>0, NoAskShape DEF NoAsk
<1>4. Links
  BY <1>0 DEF Links
<1>5. Asks
  BY <1>0, <1>3 DEF Asks
<1>6. DOMAIN s = 1..OldEvents /\ \A n \in 1..OldEvents : s[n].words = {n}
  OBVIOUS
<1> HIDE DEF s
<1>7. Full
  <2>1. next - 1 = OldEvents
    BY <1>0, Bounds
  <2> QED BY <1>2, <1>6, <2>1 DEF Full, Holds
<1>8. AskSingle
  BY <1>3, NoLines DEF AskSingle
<1>9. Reach
  <2>1. 1..0 = {}
    OBVIOUS
  <2>2. Filled
    BY <1>0, <2>1 DEF Filled
  <2>3. DOMAIN <<>> = {}
    OBVIOUS
  <2>4. Fills
    BY <1>3, <2>3 DEF Fills, Reaches
  <2>5. Asking
    BY <1>3 DEF Asking
  <2>6. Covered /\ Fresh
    BY <2>5 DEF Covered, Whereabouts, Coming, Fresh
  <2>7. Calm
    BY <1>0, <2>3 DEF Calm, InLine
  <2> QED BY <2>2, <2>4, <2>6, <2>7 DEF Reach
<1> QED BY <1>1, <1>4, <1>5, <1>7, <1>8, <1>9 DEF Arriving

\* Every step keeps the invariant.
LEMMA NextArriving == Arriving /\ [Next]_vars => Arriving'
<1> SUFFICES ASSUME Arriving, [Next]_vars PROVE Arriving'
  OBVIOUS
<1>1. /\ IInv /\ Types /\ PageTypes /\ Numbers /\ Reconnects /\ Links /\ Asks
      /\ Clean => CleanLog /\ Full /\ AskSingle
  BY DEF Arriving, IInv, Types
<1>2. IInv' /\ Links' /\ Asks'
  BY <1>1, NextKeeps, NextLinks, NextAsks
<1>3. lapses \subseteq lapses'
  BY <1>1, LapsesGrow
<1>4. Clean' => Full' /\ AskSingle'
  <2> SUFFICES ASSUME Clean' PROVE Full' /\ AskSingle'
    OBVIOUS
  <2>1. Clean
    BY <1>3 DEF Clean
  <2> QED BY <1>1, <2>1, NextFull, NextAskSingle
<1>5. lapses' = {} /\ Plain' => Reach'
  <2> SUFFICES ASSUME lapses' = {}, Plain' PROVE Reach'
    OBVIOUS
  <2>1. lapses = {} /\ Clean /\ Clean'
    BY <1>3 DEF Clean
  <2>2. Plain
    BY <1>1, <2>1, PlainBefore
  <2>3. Good
    BY <2>1, <2>2 DEF Good
  <2> QED BY <2>3, NextReach
<1> QED BY <1>2, <1>4, <1>5 DEF Arriving

\* What was lost on the way, and what the page will reach, as an invariant.
THEOREM Arrives == Spec => []Arriving
<1>1. Init => Arriving
  BY InitArrives
<1>2. Arriving /\ [Next]_vars => Arriving'
  BY NextArriving
<1> QED BY <1>1, <1>2, PTL DEF Spec

\* A page at rest waits for nothing: it has reached the end of the log.
LEMMA RestIsEnd ==
  ASSUME Good, Quiet
  PROVE  daemonSeq = next - 1
<1>0. /\ Asks /\ Covered /\ Flight /\ next \in Nat \ {0} /\ daemonSeq \in Nat
  BY GoodIs
<1>1. /\ linked /\ socket = <<>> /\ replay.state = "none" /\ ~retry /\ ~catching /\ ask = NoAsk
  BY DEF Quiet
<1>2. ask.state = "none" /\ ask.events = <<>> /\ held = <<>>
  BY <1>0, <1>1 DEF Asks, NoAsk
<1>3. DOMAIN <<>> = {}
  OBVIOUS
<1>4. \A w : ~Coming(w)
  BY <1>1, <1>2, <1>3 DEF Coming, Asking, Reaches
<1>5. \A w : ~Whereabouts(w)
  BY <1>1, <1>3, <1>4 DEF Whereabouts, On
<1>6. daemonSeq < next
  BY <1>0 DEF Flight
<1>7. ASSUME daemonSeq # next - 1 PROVE FALSE
  <2> DEFINE w == next - 1
  <2>1. w \in (daemonSeq + 1)..(next - 1)
    BY <1>0, <1>6, <1>7
  <2> QED BY <1>0, <1>5, <2>1 DEF Covered
<1> QED BY <1>7

\* notified, catchUp and its retry in sdcp.ts, event.list and the bridge's
\* replay: a page at rest shows every word of the log and none else, unless
\* an event was lost in one of the three ways or a connection around a
\* compaction.
THEOREM ShowsAll == Spec => []Converged
<1>1. Arriving => Converged
  <2> SUFFICES ASSUME Arriving, Quiet, lapses = {}, ~Straddled PROVE Shows(entries)
    BY DEF Converged
  <2>1. Types /\ Numbers /\ CleanLog
    BY DEF Arriving, IInv, Clean
  <2>2. Good
    BY <2>1, PlainIs DEF Good
  <2>3. /\ Filled /\ Full /\ OnScreen /\ PageTypes /\ Log \in Seq(Event)
        /\ next \in Nat \ {0} /\ daemonSeq \in Nat
    BY <2>2, GoodIs
  <2>4. daemonSeq = next - 1
    BY <2>2, RestIsEnd
  <2>5. entries = Log
    BY <2>1 DEF Quiet, Numbers
  <2>6. UNION ToSet(shown) = 1..daemonSeq
    <3>1. shown \in Seq(SUBSET (1..Top)) /\ \A i \in DOMAIN shown : \A a \in shown[i] : a <= daemonSeq
      BY <2>3 DEF PageTypes, OnScreen, InOrder
    <3>2. \A i \in DOMAIN shown : shown[i] \subseteq 1..daemonSeq
      <4> SUFFICES ASSUME NEW i \in DOMAIN shown, NEW a \in shown[i] PROVE a \in 1..daemonSeq
        OBVIOUS
      <4>1. a \in 1..Top /\ a <= daemonSeq
        BY <3>1
      <4>2. Top \in Nat
        BY Tops
      <4> QED BY <2>3, <4>1, <4>2
    <3>3. ToSet(shown) = {shown[i] : i \in DOMAIN shown}
      BY DEF ToSet
    <3> QED BY <2>3, <3>2, <3>3 DEF Filled
  <2>7. Words(Log) = 1..(next - 1)
    <3>1. \A i \in DOMAIN Log : Log[i].words \subseteq 1..(next - 1)
      <4> SUFFICES ASSUME NEW i \in DOMAIN Log, NEW a \in Log[i].words PROVE a \in 1..(next - 1)
        OBVIOUS
      <4>1. a \in 1..Top
        BY <2>3, SeqShape, EventShape
      <4>2. a < next
        BY <2>1 DEF CleanLog, Saved
      <4>3. Top \in Nat
        BY Tops
      <4> QED BY <2>3, <4>1, <4>2, <4>3
    <3> QED BY <2>3, <3>1 DEF Full, Holds, Words
  <2> QED BY <2>4, <2>5, <2>6, <2>7 DEF Shows
<1> QED BY <1>1, Arrives, PTL
=============================================================================
