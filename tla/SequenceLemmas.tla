--------------------------- MODULE SequenceLemmas ---------------------------
(***************************************************************************)
(* What the proofs need to know of the library's operators on sequences    *)
(* that are defined by recursion.  Induction is over a set of numbers: if  *)
(* 0 is in it and the successor of each of its members is, every number    *)
(* is.  (The induction theorems of the library take an operator, which the *)
(* provers cannot instantiate; that a set of numbers has a least member    *)
(* they do take.)                                                          *)
(***************************************************************************)
EXTENDS Integers, Sequences, SequencesExt, SequenceTheorems, WellFoundedInduction, TLAPS

LEMMA LessIsWellFounded == IsWellFoundedOn({p \in Nat \X Nat : p[1] < p[2]}, Nat)
<1>1. OpToRel(<, Nat) = {p \in Nat \X Nat : p[1] < p[2]}
  BY DEF OpToRel
<1> QED BY <1>1, NatLessThanWellFounded

LEMMA LeastNumber ==
  ASSUME NEW T, T \subseteq Nat, T # {}
  PROVE  \E x \in T : \A y \in T : x <= y
<1> DEFINE R == {p \in Nat \X Nat : p[1] < p[2]}
<1>1. PICK x \in T : \A y \in T : <<y, x>> \notin R
  <2>1. IsWellFoundedOn(R, Nat)
    BY LessIsWellFounded
  <2> HIDE DEF R
  <2> QED BY <2>1, WFMin
<1>2. ASSUME NEW y \in T PROVE x <= y
  <2>1. <<y, x>> \notin R /\ y \in Nat /\ x \in Nat
    BY <1>1
  <2>2. ~(y < x)
    BY <2>1
  <2> QED BY <2>1, <2>2
<1> QED BY <1>2

LEMMA SetInduction ==
  ASSUME NEW T, 0 \in T, \A n \in Nat : n \in T => n + 1 \in T
  PROVE  Nat \subseteq T
<1> SUFFICES ASSUME Nat \ T # {} PROVE FALSE
  OBVIOUS
<1>1. PICK x \in Nat \ T : \A y \in Nat \ T : x <= y
  <2>1. Nat \ T \subseteq Nat
    OBVIOUS
  <2> QED BY <2>1, LeastNumber
<1>2. x # 0 /\ x - 1 \in Nat /\ ~(x <= x - 1)
  BY <1>1
<1>3. x - 1 \in T
  BY <1>1, <1>2
<1>4. x - 1 + 1 \in T
  BY <1>2, <1>3
<1> QED BY <1>1, <1>4

-----------------------------------------------------------------------------
(* FlattenSeq. *)

Joined(ss, g, n) ==
  \A i \in 1..n : g[i] = IF i = 1 THEN ss[i] ELSE g[i - 1] \o ss[i]

LEMMA FlattenExists ==
  ASSUME NEW S, NEW ss \in Seq(Seq(S))
  PROVE  \A n \in Nat : n <= Len(ss) => \E g \in [1..n -> Seq(S)] : Joined(ss, g, n)
<1> DEFINE T == {n \in Nat : n <= Len(ss) => \E g \in [1..n -> Seq(S)] : Joined(ss, g, n)}
<1>1. 0 \in T
  <2>1. [i \in 1..0 |-> <<>>] \in [1..0 -> Seq(S)]
    OBVIOUS
  <2>2. Joined(ss, [i \in 1..0 |-> <<>>], 0)
    BY DEF Joined
  <2> QED BY <2>1, <2>2
<1>2. ASSUME NEW n \in Nat, n \in T PROVE n + 1 \in T
  <2> SUFFICES ASSUME n + 1 <= Len(ss)
               PROVE  \E h \in [1..(n + 1) -> Seq(S)] : Joined(ss, h, n + 1)
    OBVIOUS
  <2>1. Len(ss) \in Nat /\ n <= Len(ss) /\ n + 1 \in 1..Len(ss) /\ ss[n + 1] \in Seq(S)
    OBVIOUS
  <2>2. PICK g \in [1..n -> Seq(S)] : Joined(ss, g, n)
    BY <1>2, <2>1
  <2> DEFINE last == IF n = 0 THEN ss[n + 1] ELSE g[n] \o ss[n + 1]
             h == [i \in 1..(n + 1) |-> IF i = n + 1 THEN last ELSE g[i]]
  <2>3. last \in Seq(S)
    BY <2>1, <2>2
  <2> HIDE DEF last
  <2>4. h \in [1..(n + 1) -> Seq(S)]
    BY <2>2, <2>3
  <2>5. ASSUME NEW i \in 1..(n + 1)
        PROVE  h[i] = IF i = 1 THEN ss[i] ELSE h[i - 1] \o ss[i]
    <3>1. CASE i = n + 1
      <4>1. h[i] = last
        BY <3>1
      <4>2. n # 0 => i # 1 /\ i - 1 \in 1..n /\ i - 1 # n + 1 /\ i - 1 = n
        BY <3>1
      <4>3. n # 0 => h[i - 1] = g[n]
        BY <4>2
      <4>4. n = 0 => i = 1
        BY <3>1
      <4> HIDE DEF h
      <4> QED BY <3>1, <4>1, <4>2, <4>3, <4>4 DEF last
    <3>2. CASE i # n + 1
      <4>1. i \in 1..n /\ (i # 1 => i - 1 \in 1..n /\ i - 1 # n + 1)
        BY <3>2
      <4>2. h[i] = g[i] /\ (i # 1 => h[i - 1] = g[i - 1])
        BY <3>2, <4>1
      <4>3. g[i] = IF i = 1 THEN ss[i] ELSE g[i - 1] \o ss[i]
        BY <2>2, <4>1 DEF Joined
      <4> HIDE DEF h
      <4> QED BY <4>2, <4>3
    <3> QED BY <3>1, <3>2
  <2> QED BY <2>4, <2>5 DEF Joined
<1> HIDE DEF T
<1>3. Nat \subseteq T
  BY <1>1, <1>2, SetInduction
<1> QED BY <1>3 DEF T

\* What it is, without the choice in it.
LEMMA FlattenIsJoined ==
  ASSUME NEW S, NEW ss \in Seq(Seq(S)), ss # <<>>
  PROVE  \E g \in [1..Len(ss) -> Seq(S)] : Joined(ss, g, Len(ss)) /\ FlattenSeq(ss) = g[Len(ss)]
<1> DEFINE D == 1..Len(ss)
           Eqn(f) == f = [i \in D |-> IF i = 1 THEN ss[i] ELSE f[i - 1] \o ss[i]]
           flatten == CHOOSE f : Eqn(f)
<1>1. Len(ss) \in Nat /\ Len(ss) # 0 /\ Len(ss) \in D
  OBVIOUS
<1>2. PICK g \in [D -> Seq(S)] : Joined(ss, g, Len(ss))
  <2>1. Len(ss) \in Nat /\ Len(ss) <= Len(ss)
    BY <1>1
  <2>2. \E g \in [1..Len(ss) -> Seq(S)] : Joined(ss, g, Len(ss))
    BY <2>1, FlattenExists
  <2> QED BY <2>2
<1>3. Eqn(g)
  <2>1. g = [i \in D |-> g[i]]
    BY <1>2
  <2>2. \A i \in D : g[i] = IF i = 1 THEN ss[i] ELSE g[i - 1] \o ss[i]
    BY <1>2 DEF Joined
  <2> QED BY <2>1, <2>2
<1>4. Eqn(flatten)
  <2> HIDE DEF Eqn
  <2> QED BY <1>3
<1>5. FlattenSeq(ss) = flatten[Len(ss)]
  BY <1>1 DEF FlattenSeq
<1> DEFINE T == {n \in Nat : n \in D => flatten[n] = g[n]}
<1>6. 0 \in T
  OBVIOUS
<1>7. \A i \in D : /\ flatten[i] = IF i = 1 THEN ss[i] ELSE flatten[i - 1] \o ss[i]
                   /\ g[i] = IF i = 1 THEN ss[i] ELSE g[i - 1] \o ss[i]
  BY <1>3, <1>4
<1> HIDE DEF flatten, Eqn
<1>8. ASSUME NEW n \in Nat, n \in T PROVE n + 1 \in T
  <2> SUFFICES ASSUME n + 1 \in D PROVE flatten[n + 1] = g[n + 1]
    OBVIOUS
  <2> DEFINE m == n + 1
  <2>1. m \in D /\ m - 1 = n /\ (m # 1 => n \in D)
    BY <1>1
  <2>2. m # 1 => flatten[n] = g[n]
    BY <1>8, <2>1
  <2> HIDE DEF m
  <2>3. /\ flatten[m] = IF m = 1 THEN ss[m] ELSE flatten[m - 1] \o ss[m]
        /\ g[m] = IF m = 1 THEN ss[m] ELSE g[m - 1] \o ss[m]
    BY <1>7, <2>1
  <2>4. flatten[m] = g[m]
    BY <2>1, <2>2, <2>3
  <2> QED BY <2>4 DEF m
<1> HIDE DEF T
<1>9. Nat \subseteq T
  BY <1>6, <1>8, SetInduction
<1>10. FlattenSeq(ss) = g[Len(ss)]
  BY <1>1, <1>5, <1>9 DEF T
<1> QED BY <1>2, <1>10

\* Joining sequences over a set gives a sequence over it.
LEMMA FlattenIsSequence ==
  ASSUME NEW S, NEW ss \in Seq(Seq(S))
  PROVE  FlattenSeq(ss) \in Seq(S)
<1>1. CASE ss = <<>>
  BY <1>1 DEF FlattenSeq
<1>2. CASE ss # <<>>
  <2>1. PICK g \in [1..Len(ss) -> Seq(S)] : FlattenSeq(ss) = g[Len(ss)]
    BY <1>2, FlattenIsJoined
  <2>2. Len(ss) \in 1..Len(ss)
    BY <1>2
  <2> QED BY <2>1, <2>2
<1> QED BY <1>1, <1>2

\* x stands whole in h, and all the rest of h is over P.
Between(P, x, h) == \E a, b \in Seq(P) : h = (a \o x) \o b

LEMMA BetweenBegins ==
  ASSUME NEW S, NEW P, P \subseteq S, NEW x \in Seq(S), NEW a \in Seq(P)
  PROVE  Between(P, x, a \o x) /\ Between(P, x, x)
<1>1. <<>> \in Seq(P) /\ a \o x \in Seq(S)
  OBVIOUS
<1>2. (a \o x) \o <<>> = a \o x /\ (<<>> \o x) \o <<>> = x
  BY <1>1, ConcatEmptySeq
<1> QED BY <1>1, <1>2 DEF Between

LEMMA BetweenGrows ==
  ASSUME NEW S, NEW P, P \subseteq S, NEW x \in Seq(S), NEW h, Between(P, x, h),
         NEW c \in Seq(P)
  PROVE  Between(P, x, h \o c)
<1>1. PICK a, b \in Seq(P) : h = (a \o x) \o b
  BY DEF Between
<1> DEFINE d == a \o x
<1>2. d \in Seq(S) /\ b \in Seq(S) /\ c \in Seq(S) /\ b \o c \in Seq(P)
  OBVIOUS
<1> HIDE DEF d
<1>3. (d \o b) \o c = d \o (b \o c)
  BY ONLY <1>2, ConcatAssociative
<1> QED BY <1>1, <1>2, <1>3 DEF d, Between

\* If every sequence but the k-th is over P, the k-th stands whole in what they make.
LEMMA FlattenAround ==
  ASSUME NEW S, NEW P, P \subseteq S, NEW ss \in Seq(Seq(S)), NEW k \in 1..Len(ss),
         \A i \in 1..Len(ss) : i # k => ss[i] \in Seq(P)
  PROVE  Between(P, ss[k], FlattenSeq(ss))
<1>1. Len(ss) \in Nat /\ ss # <<>> /\ Len(ss) \in 1..Len(ss) /\ k <= Len(ss) /\ k \in Nat
      /\ ss[k] \in Seq(S)
  OBVIOUS
<1>2. PICK g \in [1..Len(ss) -> Seq(S)] :
        Joined(ss, g, Len(ss)) /\ FlattenSeq(ss) = g[Len(ss)]
  BY <1>1, FlattenIsJoined
<1> DEFINE T == {n \in Nat : n \in 1..Len(ss) =>
                   /\ n < k => g[n] \in Seq(P)
                   /\ k <= n => Between(P, ss[k], g[n])}
<1>3. 0 \in T
  OBVIOUS
<1>4. ASSUME NEW n \in Nat, n \in T PROVE n + 1 \in T
  <2> SUFFICES ASSUME n + 1 \in 1..Len(ss)
               PROVE  /\ n + 1 < k => g[n + 1] \in Seq(P)
                      /\ k <= n + 1 => Between(P, ss[k], g[n + 1])
    OBVIOUS
  <2>1. /\ g[n + 1] = IF n = 0 THEN ss[n + 1] ELSE g[n] \o ss[n + 1]
        /\ n # 0 => n \in 1..Len(ss)
    <3> DEFINE m == n + 1
    <3>1. /\ m \in 1..Len(ss) /\ m - 1 = n /\ (m = 1 <=> n = 0)
          /\ n # 0 => n \in 1..Len(ss)
      BY <1>1
    <3> HIDE DEF m
    <3>2. g[m] = IF m = 1 THEN ss[m] ELSE g[m - 1] \o ss[m]
      BY <1>2, <3>1 DEF Joined
    <3>3. g[m] = IF n = 0 THEN ss[m] ELSE g[n] \o ss[m]
      BY <3>1, <3>2
    <3> QED BY <3>1, <3>3 DEF m
  <2>2. CASE n + 1 < k
    <3>1. ss[n + 1] \in Seq(P) /\ n < k /\ ~(k <= n + 1)
      BY <1>1, <2>2
    <3>2. n # 0 => g[n] \in Seq(P)
      BY <1>4, <2>1, <3>1
    <3> QED BY <2>1, <3>1, <3>2
  <2>3. CASE n + 1 = k
    <3>1. n < k /\ ~(n + 1 < k)
      BY <1>1, <2>3
    <3>2. n # 0 => g[n] \in Seq(P) /\ g[n + 1] = g[n] \o ss[k]
      BY <1>4, <2>1, <2>3, <3>1
    <3>3. n = 0 => g[n + 1] = ss[k]
      BY <2>1, <2>3
    <3>4. <<>> \in Seq(P)
      OBVIOUS
    <3>5. \A a \in Seq(P) : Between(P, ss[k], a \o ss[k]) /\ Between(P, ss[k], ss[k])
      BY <1>1, BetweenBegins
    <3> QED BY <3>1, <3>2, <3>3, <3>4, <3>5
  <2>4. CASE k < n + 1
    <3>1. n + 1 # k /\ n # 0 /\ k <= n /\ ~(n + 1 < k)
      BY <1>1, <2>4
    <3>2. ss[n + 1] \in Seq(P)
      BY <3>1
    <3>3. Between(P, ss[k], g[n])
      BY <1>4, <2>1, <3>1
    <3>4. Between(P, ss[k], g[n] \o ss[n + 1])
      BY <1>1, <3>2, <3>3, BetweenGrows
    <3> QED BY <2>1, <3>1, <3>4
  <2> QED BY <1>1, <2>2, <2>3, <2>4
<1> HIDE DEF T
<1>5. Nat \subseteq T
  BY <1>3, <1>4, SetInduction
<1>6. Between(P, ss[k], g[Len(ss)])
  BY <1>1, <1>5 DEF T
<1> QED BY <1>2, <1>6

LEMMA RemoveAtIs ==
  ASSUME NEW S, NEW s \in Seq(S), NEW i \in 1..Len(s)
  PROVE  /\ RemoveAt(s, i) \in Seq(S) /\ Len(s) \in Nat
         /\ Len(RemoveAt(s, i)) = Len(s) - 1
         /\ \A j \in 1..(Len(s) - 1) : RemoveAt(s, i)[j] = IF j < i THEN s[j] ELSE s[j + 1]
<1> DEFINE a == SubSeq(s, 1, i - 1)
           b == SubSeq(s, i + 1, Len(s))
<1>1. /\ a \in Seq(S) /\ Len(a) = i - 1 /\ \A j \in 1..(i - 1) : a[j] = s[j]
      /\ Len(s) \in Nat /\ i \in 1..Len(s)
  OBVIOUS
<1>2. /\ b \in Seq(S) /\ Len(b) = Len(s) - i
      /\ \A j \in 1..(Len(s) - i) : b[j] = s[j + i]
  OBVIOUS
<1> HIDE DEF a, b
<1>3. /\ a \o b \in Seq(S) /\ Len(a \o b) = Len(a) + Len(b)
      /\ \A j \in 1..(Len(a) + Len(b)) :
           (a \o b)[j] = IF j <= Len(a) THEN a[j] ELSE b[j - Len(a)]
  <2> a \in Seq(S) /\ b \in Seq(S)
    BY <1>1, <1>2
  <2> QED OBVIOUS
<1>4. RemoveAt(s, i) = a \o b
  BY DEF RemoveAt, a, b
<1>5. Len(a) + Len(b) = Len(s) - 1
  BY <1>1, <1>2
<1>6. \A j \in 1..(Len(s) - 1) : (a \o b)[j] = IF j < i THEN s[j] ELSE s[j + 1]
  <2> TAKE j \in 1..(Len(s) - 1)
  <2>1. CASE j < i
    <3>1. j \in 1..(i - 1) /\ j <= Len(a) /\ j \in 1..(Len(a) + Len(b))
      BY <1>1, <1>5, <2>1
    <3> QED BY <1>1, <1>3, <2>1, <3>1
  <2>2. CASE ~(j < i)
    <3>1. /\ j - Len(a) \in 1..(Len(s) - i) /\ ~(j <= Len(a)) /\ j \in 1..(Len(a) + Len(b))
          /\ (j - Len(a)) + i = j + 1
      BY <1>1, <1>5, <2>2
    <3> QED BY <1>2, <1>3, <2>2, <3>1
  <2> QED BY <2>1, <2>2
<1> QED BY <1>1, <1>3, <1>4, <1>5, <1>6

LEMMA FrontIs ==
  ASSUME NEW S, NEW s \in Seq(S), s # <<>>
  PROVE  /\ Len(s) \in Nat /\ Len(s) \in 1..Len(s)
         /\ Front(s) \in Seq(S) /\ Len(Front(s)) = Len(s) - 1
         /\ \A i \in 1..(Len(s) - 1) : Front(s)[i] = s[i]
<1>1. Len(s) \in Nat /\ Len(s) >= 1
  OBVIOUS
<1>2. SubSeq(s, 1, Len(s) - 1) \in Seq(S)
  BY <1>1
<1>3. Len(SubSeq(s, 1, Len(s) - 1)) = Len(s) - 1
  BY <1>1
<1>4. \A i \in 1..(Len(s) - 1) : SubSeq(s, 1, Len(s) - 1)[i] = s[i]
  BY <1>1
<1> QED BY <1>1, <1>2, <1>3, <1>4 DEF Front
=============================================================================
