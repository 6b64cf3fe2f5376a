-------------------------- MODULE JobJournalProofs --------------------------
(* Proofs about JobJournal, for every value of the constants.                *)
(*                                                                           *)
(* The invariant says what a journal rebuilds to (Journals: a conversation   *)
(* whose replies are all answered but perhaps the newest, of which every     *)
(* call is named as an intent), how the conversation in memory goes with the *)
(* journal at each place of the loop (Places), that a call still to run was  *)
(* not made yet if it may not be made twice (Fresh), where a resumed turn    *)
(* has its calls from: the journals of turns that are gone (Sources,         *)
(* Offering), and that `starts` names the turns that began (Starting).       *)
(*                                                                           *)
(* First Rebuild, record by record: it is a recursive function over the      *)
(* prefixes of a journal, so what a record more does to it is shown from the *)
(* function's existence (ReadsExist) and uniqueness (ReadsAgree).            *)
EXTENDS JobJournal, SequenceLemmas, FiniteSetTheorems, SequenceTheorems

-----------------------------------------------------------------------------
(* Rebuild, record by record. *)

ReadSoFar(records, g, n) ==
  g = [k \in 0..n |-> IF k = 0 THEN Nothing ELSE Read(g[k - 1], records[k])]

LEMMA ReadsExist ==
  ASSUME NEW records
  PROVE  \A n \in Nat : \E g : ReadSoFar(records, g, n)
<1> DEFINE T == {n \in Nat : \E g : ReadSoFar(records, g, n)}
<1>1. 0 \in T
  <2> DEFINE g == [k \in 0..0 |-> Nothing]
  <2>1. \A k \in 0..0 : k = 0
    OBVIOUS
  <2>2. g = [k \in 0..0 |-> IF k = 0 THEN Nothing ELSE Read(g[k - 1], records[k])]
    BY <2>1
  <2> QED BY <2>2 DEF ReadSoFar
<1>2. ASSUME NEW n \in Nat, n \in T PROVE n + 1 \in T
  <2>1. PICK g : ReadSoFar(records, g, n)
    BY <1>2
  <2> DEFINE last == Read(g[n], records[n + 1])
             h == [k \in 0..(n + 1) |-> IF k = n + 1 THEN last ELSE g[k]]
  <2>2. ASSUME NEW k \in 0..(n + 1)
        PROVE  h[k] = IF k = 0 THEN Nothing ELSE Read(h[k - 1], records[k])
    <3>1. CASE k = n + 1
      <4>1. k # 0 /\ k - 1 = n /\ n # n + 1 /\ n \in 0..(n + 1)
        BY <3>1
      <4>2. h[k] = last /\ h[n] = g[n]
        BY <3>1, <4>1
      <4> HIDE DEF h
      <4> QED BY <3>1, <4>1, <4>2
    <3>2. CASE k # n + 1
      <4>1. k \in 0..n /\ (k # 0 => k - 1 \in 0..(n + 1) /\ k - 1 # n + 1)
        BY <3>2
      <4>2. h[k] = g[k] /\ (k # 0 => h[k - 1] = g[k - 1])
        BY <3>2, <4>1
      <4>3. g[k] = IF k = 0 THEN Nothing ELSE Read(g[k - 1], records[k])
        BY <2>1, <4>1 DEF ReadSoFar
      <4> HIDE DEF h
      <4> QED BY <4>2, <4>3
    <3> QED BY <3>1, <3>2
  <2>3. h = [k \in 0..(n + 1) |-> h[k]]
    OBVIOUS
  <2>4. ReadSoFar(records, h, n + 1)
    <3> HIDE DEF h
    <3> QED BY <2>2, <2>3 DEF ReadSoFar
  <2> QED BY <2>4
<1> HIDE DEF T
<1>3. Nat \subseteq T
  BY <1>1, <1>2, SetInduction
<1> QED BY <1>3 DEF T

LEMMA ReadsAgree ==
  ASSUME NEW r, NEW s, NEW g, NEW h, NEW m \in Nat, NEW n \in Nat, m <= n,
         ReadSoFar(r, g, m), ReadSoFar(s, h, n),
         \A i \in 1..m : r[i] = s[i]
  PROVE  \A k \in 0..m : g[k] = h[k]
<1> DEFINE T == {k \in Nat : k \in 0..m => g[k] = h[k]}
<1>0. /\ \A k \in 0..m : g[k] = IF k = 0 THEN Nothing ELSE Read(g[k - 1], r[k])
      /\ \A k \in 0..n : h[k] = IF k = 0 THEN Nothing ELSE Read(h[k - 1], s[k])
  BY DEF ReadSoFar
<1>1. 0 \in T
  <2>1. 0 \in 0..m /\ 0 \in 0..n
    OBVIOUS
  <2> QED BY <1>0, <2>1
<1>2. ASSUME NEW k \in Nat, k \in T PROVE k + 1 \in T
  <2> SUFFICES ASSUME k + 1 \in 0..m PROVE g[k + 1] = h[k + 1]
    OBVIOUS
  <2>1. k \in 0..m /\ k + 1 \in 0..n /\ k + 1 # 0 /\ k + 1 - 1 = k /\ k + 1 \in 1..m
    OBVIOUS
  <2>2. g[k] = h[k] /\ r[k + 1] = s[k + 1]
    BY <1>2, <2>1
  <2>3. g[k + 1] = Read(g[k], r[k + 1]) /\ h[k + 1] = Read(h[k], s[k + 1])
    BY <1>0, <2>1
  <2> QED BY <2>2, <2>3
<1> HIDE DEF T
<1>3. Nat \subseteq T
  BY <1>1, <1>2, SetInduction
<1> QED BY <1>3 DEF T

LEMMA RebuildIsRead ==
  ASSUME NEW records, Len(records) \in Nat
  PROVE  \E g : ReadSoFar(records, g, Len(records)) /\ Rebuild(records) = g[Len(records)]
<1> DEFINE Eqn(f) == f = [k \in 0..Len(records) |->
                            IF k = 0 THEN Nothing ELSE Read(f[k - 1], records[k])]
           read == CHOOSE f : Eqn(f)
<1>1. \E f : Eqn(f)
  BY ReadsExist DEF ReadSoFar
<1>2. Eqn(read)
  <2> HIDE DEF Eqn
  <2> QED BY <1>1
<1>3. Rebuild(records) = read[Len(records)]
  BY DEF Rebuild
<1>4. ReadSoFar(records, read, Len(records))
  <2> HIDE DEF read
  <2> QED BY <1>2 DEF ReadSoFar
<1> QED BY <1>3, <1>4

\* An empty journal holds nothing; a record more is read after the others.
LEMMA RebuildNothing == Rebuild(<<>>) = Nothing
<1>1. Len(<<>>) = 0
  OBVIOUS
<1>2. PICK g : ReadSoFar(<<>>, g, 0) /\ Rebuild(<<>>) = g[0]
  BY <1>1, RebuildIsRead
<1>3. 0 \in 0..0
  OBVIOUS
<1> QED BY <1>2, <1>3 DEF ReadSoFar

LEMMA RebuildAppend ==
  ASSUME NEW S, NEW records \in Seq(S), NEW rec \in S
  PROVE  Rebuild(Append(records, rec)) = Read(Rebuild(records), rec)
<1> DEFINE more == Append(records, rec)
           n == Len(records)
<1>1. n \in Nat /\ Len(more) = n + 1 /\ more[n + 1] = rec
      /\ \A i \in 1..n : records[i] = more[i]
  OBVIOUS
<1> HIDE DEF more
<1>2. PICK g : ReadSoFar(records, g, n) /\ Rebuild(records) = g[n]
  BY <1>1, RebuildIsRead
<1>3. PICK h : ReadSoFar(more, h, n + 1) /\ Rebuild(more) = h[n + 1]
  BY <1>1, RebuildIsRead
<1> HIDE DEF n
<1>4. n <= n + 1 /\ n + 1 \in Nat /\ n \in 0..n /\ n + 1 \in 0..(n + 1) /\ n + 1 # 0 /\ n + 1 - 1 = n
  BY <1>1
<1>5. g[n] = h[n]
  BY <1>1, <1>2, <1>3, <1>4, ReadsAgree
<1>6. h[n + 1] = Read(h[n], more[n + 1])
  BY <1>3, <1>4 DEF ReadSoFar
<1> QED BY <1>1, <1>2, <1>3, <1>5, <1>6 DEF more

LEMMA RebuildIntents ==
  ASSUME NEW S, NEW records \in Seq(S), NEW added \in Seq(S),
         \A i \in 1..Len(added) : added[i].kind = "intent"
  PROVE  Rebuild(records \o added) = Rebuild(records)
<1> DEFINE T == {n \in Nat : n <= Len(added) =>
                   Rebuild(records \o SubSeq(added, 1, n)) = Rebuild(records)}
<1>1. 0 \in T
  <2>1. SubSeq(added, 1, 0) = <<>> /\ records \o <<>> = records
    BY SubSeqEmpty, ConcatEmptySeq
  <2> QED BY <2>1
<1>2. ASSUME NEW n \in Nat, n \in T PROVE n + 1 \in T
  <2> SUFFICES ASSUME n + 1 <= Len(added)
               PROVE  Rebuild(records \o SubSeq(added, 1, n + 1)) = Rebuild(records)
    OBVIOUS
  <2> DEFINE some == SubSeq(added, 1, n)
             rec == added[n + 1]
  <2>1. some \in Seq(S) /\ Len(some) = n /\ rec \in S /\ rec.kind = "intent"
    OBVIOUS
  <2>2. SubSeq(added, 1, n + 1) = Append(some, rec)
    OBVIOUS
  <2> HIDE DEF some, rec
  <2>3. records \o Append(some, rec) = Append(records \o some, rec)
    BY <2>1
  <2>4. records \o some \in Seq(S)
    BY <2>1
  <2>5. Rebuild(Append(records \o some, rec)) = Read(Rebuild(records \o some), rec)
    BY <2>1, <2>4, RebuildAppend
  <2>6. Rebuild(records \o some) = Rebuild(records)
    BY <1>2 DEF some
  <2>7. \A state : Read(state, rec) = state
    BY <2>1 DEF Read
  <2> QED BY <2>2, <2>3, <2>5, <2>6, <2>7
<1> HIDE DEF T
<1>3. Nat \subseteq T
  BY <1>1, <1>2, SetInduction
<1>4. Len(added) \in Nat /\ SubSeq(added, 1, Len(added)) = added
  BY SubSeqFull
<1>5. Len(added) \in T /\ Len(added) <= Len(added)
  BY <1>3, <1>4
<1>6. Rebuild(records \o SubSeq(added, 1, Len(added))) = Rebuild(records)
  BY ONLY <1>5 DEF T
<1> QED BY <1>4, <1>6

-----------------------------------------------------------------------------
(* The sets the state is made of. *)

AnswerMap == UNION {[D -> Outcomes] : D \in SUBSET Call}
Message ==
       [role : {"user"}, words : Nat]
  \cup [role : {"assistant"}, calls : Seq(Call)]
  \cup [role : {"tool"}, of : AnswerMap]
JobEvent ==
       [kind : {"start"}, messages : Seq(Message), depth : Nat]
  \cup [kind : {"model"}, calls : Seq(Call)]
  \cup [kind : {"intent"}, call : Call]
  \cup [kind : {"result"}, call : Call, answer : {"ok"}]
  \cup [kind : {"messages"}, added : Seq(Message)]
  \cup [kind : {"end"}, as : Nat]
Conversation ==
  [messages : Seq(Message), calls : Seq(Call), answered : AnswerMap, depth : Nat]

\* Answers that claim no change that was not made, and a conversation of them.
HonestMaps(made) ==
  {known \in AnswerMap : \A c \in DOMAIN known :
     /\ known[c] = "unknown" => c.kind = "command"
     /\ known[c] \in {"ok", "already"} => made[c] >= 1}
HonestTalk(made) ==
  {talk \in Seq(Message) :
     \A i \in 1..Len(talk) : talk[i].role = "tool" => talk[i].of \in HonestMaps(made)}

(* Replies and answers come in pairs, but for the newest reply, whose calls *)
(* may still be open.  When the strong model takes over between a step and  *)
(* the record of its answers, a journal goes on over open calls; what is    *)
(* said of pairs is said of the runs without.                               *)
Tidy == "takeover" \notin Moves
Paired(talk) ==
  Tidy => \A i \in 1..Len(talk) :
    /\ talk[i].role = "assistant" =>
         /\ talk[i].calls # <<>>
         /\ i < Len(talk) => /\ talk[i + 1].role = "tool"
                             /\ DOMAIN talk[i + 1].of = Range(talk[i].calls)
    /\ talk[i].role = "tool" => i > 1 /\ talk[i - 1].role = "assistant"
AnswersOpen(talk) == Len(talk) > 0 /\ talk[Len(talk)].role = "assistant"
OpenCalls(talk) == IF AnswersOpen(talk) THEN Range(talk[Len(talk)].calls) ELSE {}
Shut(talk) == Tidy => ~AnswersOpen(talk)
Opens(talk, calls) == Tidy => AnswersOpen(talk) /\ OpenCalls(talk) = calls
IsOpen(talk, calls) == Tidy => OpenCalls(talk) = calls

\* What a journal may rebuild to.
Rebuildable(made) ==
  {old \in Conversation :
     /\ Paired(old.messages) /\ old.messages \in HonestTalk(made)
     /\ IsOpen(old.messages, Range(old.calls))
     /\ Tidy => DOMAIN old.answered \subseteq Range(old.calls)
     /\ old.answered \in HonestMaps(made)}

LEMMA NoAnswers == <<>> \in AnswerMap /\ DOMAIN <<>> = {} /\ Range(<<>>) = {}
<1>1. <<>> \in [{} -> Outcomes]
  OBVIOUS
<1> QED BY <1>1 DEF AnswerMap, Range

LEMMA AnswersShape ==
  ASSUME NEW known \in AnswerMap
  PROVE  /\ DOMAIN known \subseteq Call
         /\ \A c \in DOMAIN known : known[c] \in Outcomes
         /\ DOMAIN known = {} => known = <<>>
<1>1. PICK D \in SUBSET Call : known \in [D -> Outcomes]
  BY DEF AnswerMap
<1>2. DOMAIN known = {} => known = <<>>
  <2>1. <<>> \in [{} -> Outcomes]
    OBVIOUS
  <2> QED BY <1>1, <2>1
<1> QED BY <1>1, <1>2

LEMMA OneMore ==
  ASSUME NEW known \in AnswerMap, NEW call \in Call, NEW answer \in Outcomes
  PROVE  /\ Answering(known, call, answer) \in AnswerMap
         /\ DOMAIN Answering(known, call, answer) = {call} \cup DOMAIN known
         /\ \A c \in {call} \cup DOMAIN known :
              Answering(known, call, answer)[c] = IF c = call THEN answer ELSE known[c]
<1> DEFINE f == Answering(known, call, answer)
<1>1. /\ DOMAIN f = {call} \cup DOMAIN known
      /\ \A c \in {call} \cup DOMAIN known : f[c] = IF c = call THEN answer ELSE known[c]
  BY DEF Answering
<1>2. f = [c \in DOMAIN f |-> f[c]]
  BY DEF Answering
<1> HIDE DEF f
<1>3. DOMAIN f \in SUBSET Call /\ \A c \in DOMAIN f : f[c] \in Outcomes
  BY <1>1, AnswersShape
<1>4. f \in [DOMAIN f -> Outcomes]
  BY <1>2, <1>3
<1>5. f \in AnswerMap
  BY <1>3, <1>4 DEF AnswerMap
<1> QED BY <1>1, <1>5 DEF f

LEMMA HonestMore ==
  ASSUME NEW made, NEW known \in HonestMaps(made), NEW call \in Call,
         NEW answer \in {"ok", "failed"}, answer = "ok" => made[call] >= 1
  PROVE  Answering(known, call, answer) \in HonestMaps(made)
<1> DEFINE f == Answering(known, call, answer)
<1>0. answer \in Outcomes
  BY DEF Outcomes
<1>1. known \in AnswerMap
  BY DEF HonestMaps
<1>2. /\ f \in AnswerMap /\ DOMAIN f = {call} \cup DOMAIN known
      /\ \A c \in {call} \cup DOMAIN known : f[c] = IF c = call THEN answer ELSE known[c]
  BY <1>0, <1>1, OneMore
<1> HIDE DEF f
<1> SUFFICES f \in HonestMaps(made)
  BY DEF f
<1>3. ASSUME NEW c \in DOMAIN f
      PROVE  /\ f[c] = "unknown" => c.kind = "command"
             /\ f[c] \in {"ok", "already"} => made[c] >= 1
  <2>1. CASE c = call
    BY <1>2, <2>1
  <2>2. CASE c # call
    BY <1>2, <2>2 DEF HonestMaps
  <2> QED BY <2>1, <2>2
<1> QED BY <1>2, <1>3 DEF HonestMaps

LEMMA MessageShape ==
  ASSUME NEW m \in Message
  PROVE  /\ m.role \in {"user", "assistant", "tool"}
         /\ m.role = "assistant" => m.calls \in Seq(Call)
         /\ m.role = "tool" => m.of \in AnswerMap
BY DEF Message

\* What is said next: a reply, the answers to its calls, and nothing else.
LEMMA TalkGrows ==
  ASSUME NEW talk \in Seq(Message), NEW m \in Message
  PROVE  /\ Append(talk, m) \in Seq(Message)
         /\ Len(Append(talk, m)) = Len(talk) + 1
         /\ Append(talk, m)[Len(talk) + 1] = m
         /\ \A i \in 1..Len(talk) : Append(talk, m)[i] = talk[i]
OBVIOUS

LEMMA HonestGrows ==
  ASSUME NEW made, NEW talk \in HonestTalk(made), NEW m \in Message,
         m.role = "tool" => m.of \in HonestMaps(made)
  PROVE  Append(talk, m) \in HonestTalk(made)
<1> DEFINE more == Append(talk, m)
<1>1. talk \in Seq(Message)
  BY DEF HonestTalk
<1>2. /\ more \in Seq(Message) /\ Len(more) = Len(talk) + 1 /\ more[Len(talk) + 1] = m
      /\ \A i \in 1..Len(talk) : more[i] = talk[i]
  BY <1>1, TalkGrows
<1> HIDE DEF more
<1>3. ASSUME NEW i \in 1..Len(more), more[i].role = "tool"
      PROVE  more[i].of \in HonestMaps(made)
  <2>1. CASE i = Len(talk) + 1
    BY <1>2, <1>3, <2>1
  <2>2. CASE i # Len(talk) + 1
    <3>1. i \in 1..Len(talk)
      BY <1>1, <1>2, <2>2
    <3> QED BY <1>2, <1>3, <3>1 DEF HonestTalk
  <2> QED BY <2>1, <2>2
<1> QED BY <1>2, <1>3 DEF HonestTalk, more

LEMMA ReplyOpens ==
  ASSUME NEW talk \in Seq(Message), Paired(talk), Shut(talk),
         NEW calls \in Seq(Call), calls # <<>>
  PROVE  /\ Reply(calls) \in Message /\ Reply(calls).role = "assistant"
         /\ Reply(calls).calls = calls
         /\ Paired(Append(talk, Reply(calls))) /\ AnswersOpen(Append(talk, Reply(calls)))
         /\ OpenCalls(Append(talk, Reply(calls))) = Range(calls)
<1> DEFINE m == Reply(calls)
           more == Append(talk, m)
           n == Len(talk)
<1>1. m \in Message /\ m.role = "assistant" /\ m.calls = calls
  BY DEF Reply, Message
<1> HIDE DEF m
<1>2. /\ more \in Seq(Message) /\ Len(more) = n + 1 /\ more[n + 1] = m
      /\ \A i \in 1..n : more[i] = talk[i]
  BY <1>1, TalkGrows
<1>3. n \in Nat
  OBVIOUS
<1> HIDE DEF more
<1>4. AnswersOpen(more) /\ OpenCalls(more) = Range(calls)
  BY <1>1, <1>2, <1>3 DEF AnswersOpen, OpenCalls
<1>5. ASSUME Tidy, NEW i \in 1..(n + 1)
      PROVE  /\ more[i].role = "assistant" =>
                  /\ more[i].calls # <<>>
                  /\ i < n + 1 => /\ more[i + 1].role = "tool"
                                  /\ DOMAIN more[i + 1].of = Range(more[i].calls)
             /\ more[i].role = "tool" => i > 1 /\ more[i - 1].role = "assistant"
  <2>1. CASE i = n + 1
    BY <1>1, <1>2, <1>3, <2>1
  <2>2. CASE i = n
    <3>1. i \in 1..n /\ more[i] = talk[i] /\ talk[i].role # "assistant"
      BY <1>2, <1>3, <1>5, <2>2 DEF AnswersOpen, Shut
    <3>2. i > 1 => i - 1 \in 1..n /\ more[i - 1] = talk[i - 1]
      BY <1>2, <1>3, <2>2
    <3> QED BY <1>5, <3>1, <3>2 DEF Paired
  <2>3. CASE i # n /\ i # n + 1
    <3>1. i \in 1..n /\ i + 1 \in 1..n /\ (i > 1 => i - 1 \in 1..n) /\ i < n
      BY <1>3, <2>3
    <3>2. more[i] = talk[i] /\ more[i + 1] = talk[i + 1] /\ (i > 1 => more[i - 1] = talk[i - 1])
      BY <1>2, <3>1
    <3> QED BY <1>5, <3>1, <3>2 DEF Paired
  <2> QED BY <2>1, <2>2, <2>3
<1>6. Paired(more)
  BY <1>2, <1>5 DEF Paired
<1> HIDE DEF n
<1> QED BY <1>1, <1>4, <1>6 DEF more, m

LEMMA ToolsClose ==
  ASSUME NEW talk \in Seq(Message), Paired(talk),
         NEW known \in AnswerMap, Opens(talk, DOMAIN known)
  PROVE  /\ Tools(known) \in Message /\ Tools(known).role = "tool" /\ Tools(known).of = known
         /\ Paired(Append(talk, Tools(known))) /\ ~AnswersOpen(Append(talk, Tools(known)))
<1> DEFINE m == Tools(known)
           more == Append(talk, m)
           n == Len(talk)
<1>1. m \in Message /\ m.role = "tool" /\ m.of = known
  BY DEF Tools, Message
<1> HIDE DEF m
<1>2. /\ more \in Seq(Message) /\ Len(more) = n + 1 /\ more[n + 1] = m
      /\ \A i \in 1..n : more[i] = talk[i]
  BY <1>1, TalkGrows
<1>3. /\ n \in Nat
      /\ Tidy => n > 0 /\ talk[n].role = "assistant" /\ DOMAIN known = Range(talk[n].calls)
  BY DEF AnswersOpen, OpenCalls, Opens
<1> HIDE DEF more
<1>4. ~AnswersOpen(more)
  BY <1>1, <1>2, <1>3 DEF AnswersOpen
<1>5. ASSUME Tidy, NEW i \in 1..(n + 1)
      PROVE  /\ more[i].role = "assistant" =>
                  /\ more[i].calls # <<>>
                  /\ i < n + 1 => /\ more[i + 1].role = "tool"
                                  /\ DOMAIN more[i + 1].of = Range(more[i].calls)
             /\ more[i].role = "tool" => i > 1 /\ more[i - 1].role = "assistant"
  <2>1. CASE i = n + 1
    <3>1. i - 1 = n /\ n \in 1..n /\ i > 1 /\ more[n] = talk[n]
      BY <1>2, <1>3, <1>5, <2>1
    <3> QED BY <1>1, <1>2, <1>3, <1>5, <2>1, <3>1
  <2>2. CASE i = n
    <3>1. i \in 1..n /\ more[i] = talk[i] /\ more[i + 1] = m
      BY <1>2, <1>3, <2>2
    <3>2. i > 1 => i - 1 \in 1..n /\ more[i - 1] = talk[i - 1]
      BY <1>2, <1>3, <2>2
    <3> QED BY <1>1, <1>3, <1>5, <2>2, <3>1, <3>2 DEF Paired
  <2>3. CASE i # n /\ i # n + 1
    <3>1. i \in 1..n /\ i + 1 \in 1..n /\ (i > 1 => i - 1 \in 1..n) /\ i < n
      BY <1>3, <2>3
    <3>2. more[i] = talk[i] /\ more[i + 1] = talk[i + 1] /\ (i > 1 => more[i - 1] = talk[i - 1])
      BY <1>2, <3>1
    <3> QED BY <1>5, <3>1, <3>2 DEF Paired
  <2> QED BY <2>1, <2>2, <2>3
<1>6. Paired(more)
  BY <1>2, <1>5 DEF Paired
<1> HIDE DEF n
<1> QED BY <1>1, <1>4, <1>6 DEF more, m

LEMMA AskBegins ==
  ASSUME NEW t \in Nat, NEW made
  PROVE  /\ <<Ask(t)>> \in HonestTalk(made) /\ Paired(<<Ask(t)>>)
         /\ Len(<<Ask(t)>>) = 1 /\ ~AnswersOpen(<<Ask(t)>>)
<1> DEFINE m == Ask(t)
           talk == <<m>>
<1>1. m \in Message /\ m.role = "user"
  BY DEF Ask, Message
<1> HIDE DEF m
<1>2. talk \in Seq(Message) /\ Len(talk) = 1 /\ talk[1] = m
  BY <1>1
<1> HIDE DEF talk
<1>3. \A i \in 1..Len(talk) : i = 1
  BY <1>2
<1>4. talk \in HonestTalk(made) /\ Paired(talk) /\ ~AnswersOpen(talk)
  BY <1>1, <1>2, <1>3 DEF HonestTalk, Paired, AnswersOpen
<1> QED BY <1>2, <1>4 DEF talk, m

-----------------------------------------------------------------------------
(* What each kind of record does to what is rebuilt. *)

LEMMA RebuildableShape ==
  ASSUME NEW made, NEW old \in Rebuildable(made)
  PROVE  /\ old \in Conversation
         /\ old.messages \in Seq(Message) /\ old.calls \in Seq(Call)
         /\ old.answered \in AnswerMap /\ old.depth \in Nat
         /\ Paired(old.messages) /\ old.messages \in HonestTalk(made)
         /\ IsOpen(old.messages, Range(old.calls))
         /\ Tidy => DOMAIN old.answered \subseteq Range(old.calls)
         /\ old.answered \in HonestMaps(made)
BY DEF Rebuildable, Conversation

LEMMA NothingIsRebuildable ==
  ASSUME NEW made
  PROVE  Nothing \in Rebuildable(made) /\ Nothing.messages = <<>> /\ Nothing.calls = <<>>
<1>1. Nothing \in Conversation
  BY NoAnswers DEF Nothing, Conversation
<1>2. /\ Nothing.messages = <<>> /\ Nothing.calls = <<>> /\ Nothing.answered = <<>>
  BY DEF Nothing
<1>3. Len(<<>>) = 0 /\ <<>> \in Seq(Message)
  OBVIOUS
<1>4. Paired(<<>>) /\ ~AnswersOpen(<<>>) /\ <<>> \in HonestTalk(made)
  BY <1>3 DEF Paired, AnswersOpen, HonestTalk
<1>5. <<>> \in HonestMaps(made)
  BY NoAnswers DEF HonestMaps
<1>6. Range(<<>>) = OpenCalls(<<>>)
  BY <1>4, NoAnswers DEF OpenCalls
<1> QED BY <1>1, <1>2, <1>4, <1>5, <1>6, NoAnswers DEF Rebuildable, IsOpen

LEMMA ReadStart ==
  ASSUME NEW made, NEW old \in Rebuildable(made), Shut(old.messages),
         NEW talk \in HonestTalk(made), Paired(talk), Shut(talk),
         NEW rec, rec.kind = "start", rec.messages = talk, rec.depth \in Nat
  PROVE  /\ Read(old, rec) \in Rebuildable(made)
         /\ Read(old, rec).messages = talk
         /\ Read(old, rec).calls = old.calls
<1> DEFINE new == Read(old, rec)
<1>1. talk \in Seq(Message)
  BY DEF HonestTalk
<1>2. new = [old EXCEPT !.messages = talk, !.depth = rec.depth]
  BY DEF Read
<1>3. /\ old \in Conversation /\ IsOpen(old.messages, Range(old.calls))
      /\ Tidy => DOMAIN old.answered \subseteq Range(old.calls)
      /\ old.answered \in HonestMaps(made)
  BY RebuildableShape
<1>4. /\ new \in Conversation
      /\ new.messages = talk /\ new.calls = old.calls /\ new.answered = old.answered
  BY <1>1, <1>2, <1>3 DEF Conversation
<1> HIDE DEF new
<1>5. Tidy => OpenCalls(talk) = {} /\ Range(old.calls) = {}
  BY <1>3 DEF OpenCalls, Shut, IsOpen
<1>6. new \in Rebuildable(made)
  BY <1>3, <1>4, <1>5 DEF Rebuildable, IsOpen
<1> QED BY <1>4, <1>6 DEF new

LEMMA ReadModel ==
  ASSUME NEW made, NEW old \in Rebuildable(made), Shut(old.messages),
         NEW rec, rec.kind = "model", rec.calls \in Seq(Call), rec.calls # <<>>
  PROVE  /\ Read(old, rec) \in Rebuildable(made)
         /\ Read(old, rec).messages = Append(old.messages, Reply(rec.calls))
         /\ Read(old, rec).calls = rec.calls
<1> DEFINE new == Read(old, rec)
           m == Reply(rec.calls)
           talk == old.messages
           calls == rec.calls
<1>1. /\ old \in Conversation /\ talk \in Seq(Message)
      /\ Paired(talk) /\ talk \in HonestTalk(made)
  BY RebuildableShape
<1>2. new = [old EXCEPT !.messages = Append(talk, m), !.calls = calls, !.answered = <<>>]
  BY DEF Read
<1>3. /\ m \in Message /\ m.role = "assistant"
      /\ Paired(Append(talk, m)) /\ OpenCalls(Append(talk, m)) = Range(calls)
  BY <1>1, ReplyOpens
<1> HIDE DEF m
<1>4. Append(talk, m) \in Seq(Message) /\ Append(talk, m) \in HonestTalk(made)
  BY <1>1, <1>3, HonestGrows, TalkGrows
<1>5. /\ new \in Conversation /\ new.messages = Append(talk, m)
      /\ new.calls = calls /\ new.answered = <<>>
  BY <1>1, <1>2, <1>4, NoAnswers DEF Conversation
<1> HIDE DEF new
<1>6. <<>> \in HonestMaps(made)
  BY NoAnswers DEF HonestMaps
<1>7. new \in Rebuildable(made)
  BY <1>3, <1>4, <1>5, <1>6, NoAnswers DEF Rebuildable, IsOpen
<1> QED BY <1>5, <1>7 DEF new, m

LEMMA ReadResult ==
  ASSUME NEW made, NEW old \in Rebuildable(made),
         NEW rec, rec.kind = "result", rec.call \in Call, rec.answer = "ok",
         Tidy => rec.call \in Range(old.calls),
         made[rec.call] >= 1
  PROVE  /\ Read(old, rec) \in Rebuildable(made)
         /\ Read(old, rec).messages = old.messages
         /\ Read(old, rec).calls = old.calls
<1> DEFINE new == Read(old, rec)
           f == Answering(old.answered, rec.call, "ok")
<1>1. /\ old \in Conversation /\ IsOpen(old.messages, Range(old.calls))
      /\ Paired(old.messages) /\ old.messages \in HonestTalk(made)
      /\ Tidy => DOMAIN old.answered \subseteq Range(old.calls)
      /\ old.answered \in HonestMaps(made)
      /\ old.answered \in AnswerMap /\ old.calls \in Seq(Call)
  BY RebuildableShape
<1>3. new = [old EXCEPT !.answered = f]
  BY DEF Read
<1>4. /\ f \in AnswerMap /\ f \in HonestMaps(made)
      /\ DOMAIN f = {rec.call} \cup DOMAIN old.answered
  BY <1>1, OneMore, HonestMore DEF Outcomes
<1> HIDE DEF f
<1>5. /\ new \in Conversation /\ new.messages = old.messages
      /\ new.calls = old.calls /\ new.answered = f
  BY <1>1, <1>3, <1>4 DEF Conversation
<1> HIDE DEF new
<1>6. new \in Rebuildable(made)
  BY <1>1, <1>4, <1>5 DEF Rebuildable
<1> QED BY <1>5, <1>6 DEF new

LEMMA ReadTools ==
  ASSUME NEW made, NEW old \in Rebuildable(made),
         NEW known \in HonestMaps(made), Opens(old.messages, DOMAIN known),
         NEW rec, rec.kind = "messages", rec.added = <<Tools(known)>>
  PROVE  /\ Read(old, rec) \in Rebuildable(made)
         /\ Read(old, rec).messages = Append(old.messages, Tools(known))
         /\ Read(old, rec).calls = <<>>
<1> DEFINE new == Read(old, rec)
           m == Tools(known)
           talk == old.messages
<1>1. /\ old \in Conversation /\ talk \in Seq(Message)
      /\ Paired(talk) /\ talk \in HonestTalk(made) /\ known \in AnswerMap
  BY RebuildableShape DEF HonestMaps
<1>2. /\ m \in Message /\ m.role = "tool" /\ m.of = known
      /\ Paired(Append(talk, m)) /\ ~AnswersOpen(Append(talk, m))
  BY <1>1, ToolsClose
<1> HIDE DEF m
<1>3. 1 \in DOMAIN rec.added /\ rec.added[1].role = "tool" /\ talk \o rec.added = Append(talk, m)
  <2>1. rec.added = <<m>>
    BY DEF m
  <2> QED BY <1>1, <1>2, <2>1
<1>4. new = [old EXCEPT !.messages = talk \o rec.added, !.calls = <<>>, !.answered = <<>>]
  BY <1>3 DEF Read, Heard
<1>5. Append(talk, m) \in Seq(Message) /\ Append(talk, m) \in HonestTalk(made)
  BY <1>1, <1>2, HonestGrows, TalkGrows
<1>6. /\ new \in Conversation /\ new.messages = Append(talk, m)
      /\ new.calls = <<>> /\ new.answered = <<>>
  <2> DEFINE longer == Append(talk, m)
  <2>1. longer \in Seq(Message)
    BY <1>5
  <2>2. new = [old EXCEPT !.messages = longer, !.calls = <<>>, !.answered = <<>>]
    BY <1>3, <1>4
  <2> HIDE DEF longer, new
  <2>3. <<>> \in Seq(Call) /\ <<>> \in AnswerMap
    BY NoAnswers
  <2>4. /\ new \in Conversation /\ new.messages = longer
        /\ new.calls = <<>> /\ new.answered = <<>>
    BY <1>1, <2>1, <2>2, <2>3 DEF Conversation
  <2> QED BY <2>4 DEF longer
<1> HIDE DEF new
<1>7. <<>> \in HonestMaps(made) /\ OpenCalls(Append(talk, m)) = {}
  BY <1>2, NoAnswers DEF HonestMaps, OpenCalls
<1>8. new \in Rebuildable(made)
  BY <1>2, <1>5, <1>6, <1>7, NoAnswers DEF Rebuildable, IsOpen
<1> QED BY <1>6, <1>8 DEF new, m

LEMMA ReadOther ==
  ASSUME NEW old, NEW rec, rec.kind \in {"intent", "end"}
  PROVE  Read(old, rec) = old
BY DEF Read

\* More effects made leave every honest answer honest.
LEMMA HonestStays ==
  ASSUME NEW made, NEW later,
         \A c \in Call : made[c] \in Nat /\ later[c] \in Nat /\ later[c] >= made[c]
  PROVE  /\ HonestMaps(made) \subseteq HonestMaps(later)
         /\ HonestTalk(made) \subseteq HonestTalk(later)
         /\ Rebuildable(made) \subseteq Rebuildable(later)
<1>1. HonestMaps(made) \subseteq HonestMaps(later)
  <2> SUFFICES ASSUME NEW known \in HonestMaps(made) PROVE known \in HonestMaps(later)
    OBVIOUS
  <2>1. known \in AnswerMap
    BY DEF HonestMaps
  <2>2. ASSUME NEW c \in DOMAIN known
        PROVE  /\ known[c] = "unknown" => c.kind = "command"
               /\ known[c] \in {"ok", "already"} => later[c] >= 1
    <3>1. c \in Call
      BY <2>1, AnswersShape
    <3> QED BY <3>1 DEF HonestMaps
  <2> QED BY <2>1, <2>2 DEF HonestMaps
<1>2. HonestTalk(made) \subseteq HonestTalk(later)
  BY <1>1 DEF HonestTalk
<1>3. Rebuildable(made) \subseteq Rebuildable(later)
  BY <1>1, <1>2 DEF Rebuildable
<1> QED BY <1>1, <1>2, <1>3

-----------------------------------------------------------------------------
(* The inductive invariant. *)

Types ==
  /\ pc \in Seq(Live \cup {"unwind", "gone"})
  /\ journal \in Seq(Seq(JobEvent)) /\ Len(journal) = Len(pc)
  /\ conv \in Seq(Seq(Message)) /\ Len(conv) = Len(pc)
  /\ sent \in Seq(Nat) /\ Len(sent) = Len(pc)
  /\ depth \in Seq(Nat) /\ Len(depth) = Len(pc)
  /\ todo \in Seq(Seq(Call)) /\ Len(todo) = Len(pc)
  /\ answers \in Seq(AnswerMap) /\ Len(answers) = Len(pc)
  /\ offered \in 0..Len(pc) /\ closing \in 0..Len(pc)
  /\ lost \in Seq(Turns)
  /\ up \in BOOLEAN /\ booted \in BOOLEAN
  /\ effect \in [Call -> Nat]
  /\ replies \in 0..MaxReply /\ crashes \in 0..MaxCrash /\ fails \in 0..MaxFail

(* The start-up hands over turns that had begun and are gone, one by one;   *)
(* a turn is found once for each time it began.                             *)
Starting ==
  /\ starts \in Seq(Nat)
  /\ \A t \in Nat : (\E i \in 1..Len(starts) : starts[i] = t) <=> t \in Turns /\ Started(t)
Lost == \A i \in 1..Len(lost) : Started(lost[i]) /\ pc[lost[i]] = "gone"
Handing ==
  /\ up => booted /\ lost = <<>>
  /\ closing # 0 => lost # <<>>
  /\ ~booted => /\ lost = <<>> /\ closing = 0 /\ offered = 0
                /\ \A t \in Turns : pc[t] = "gone"
Offering == offered # 0 => pc[offered] = "gone"
Room ==
  IF up THEN Len(pc) <= MaxTurn
  ELSE Len(pc) + (IF booted THEN Len(lost) ELSE Cardinality(Unfinished))
         <= MaxTurn + (IF closing = 0 THEN 0 ELSE 1)

\* Every journal rebuilds to a conversation with at most its newest reply open,
\* whose calls the journal names as intents.
Intended(records) ==
  {c \in Call : \E i \in 1..Len(records) : records[i].kind = "intent" /\ records[i].call = c}
Journals ==
  \A t \in Turns : /\ Rebuild(journal[t]) \in Rebuildable(effect)
                   /\ Range(Rebuild(journal[t]).calls) \subseteq Intended(journal[t])

(* How the conversation in memory and the journal go together at each place *)
(* of the loop.                                                             *)
InLoop == {"ask", "reply", "run", "result"}
Running == {"rerun", "run", "result"}
TalkOk(t) ==
  /\ Paired(conv[t]) /\ conv[t] \in HonestTalk(effect)
  /\ answers[t] \in HonestMaps(effect) /\ sent[t] <= Len(conv[t])
BeginOk(t) ==
  /\ pc[t] \in {"starting", "rerun", "open"} =>
       sent[t] = 0 /\ Shut(Rebuild(journal[t]).messages)
  /\ pc[t] \in {"starting", "open"} => Shut(conv[t])
  /\ pc[t] \in Running => IsOpen(conv[t], Range(todo[t]) \cup DOMAIN answers[t])
LoopOk(t) ==
  /\ pc[t] \in InLoop =>
       /\ Started(t)
       /\ Rebuild(journal[t]).messages = SubSeq(conv[t], 1, sent[t])
       /\ Tidy => (AnswersOpen(conv[t]) <=> pc[t] \in {"run", "result"})
  /\ pc[t] \in {"reply", "run", "result"} => sent[t] = Len(conv[t])
  /\ pc[t] = "ask" =>
       \/ sent[t] = Len(conv[t])
       \/ sent[t] + 1 = Len(conv[t]) /\ conv[t][sent[t] + 1].role = "tool"
  /\ pc[t] \in {"run", "result"} => Range(todo[t]) \subseteq Intended(journal[t])
  /\ pc[t] = "result" => todo[t] # <<>> /\ effect[todo[t][1]] >= 1
PlaceOk(t) == TalkOk(t) /\ BeginOk(t) /\ LoopOk(t)
Places == \A t \in Turns : PlaceOk(t)

(* A reply's calls are named in one journal, and what a loop still has to run *)
(* was not made yet if it may not be made twice.                              *)
Single(c) == c.kind \in {"command", "edit"}
Once(calls) == \A i, j \in 1..Len(calls) : calls[i] = calls[j] => i = j
Named ==
  /\ \A t \in Turns : \A c \in Intended(journal[t]) : c.reply <= replies
  /\ \A t, u \in Turns : t # u => Intended(journal[t]) \cap Intended(journal[u]) = {}
FreshOk(t) ==
  pc[t] \in {"run", "result"} =>
    /\ Once(todo[t])
    /\ \A i \in 1..Len(todo[t]) :
         Single(todo[t][i]) => effect[todo[t][i]] = 0 \/ (i = 1 /\ pc[t] = "result")
Fresh == \A t \in Turns : FreshOk(t)

\* What a resumed turn runs again is no command, and of a turn that is gone.
SourceOk(t) ==
  pc[t] = "rerun" => \A c \in Range(todo[t]) :
    c.kind # "command" /\ \E o \in Turns : c \in Intended(journal[o]) /\ pc[o] = "gone"
Sources == \A t \in Turns : SourceOk(t)
Effects ==
  \A c \in Call : /\ Single(c) => effect[c] <= 1
                  /\ effect[c] > 0 => \E t \in Turns : c \in Intended(journal[t])

IInv == /\ Types /\ Lost /\ Handing /\ Offering /\ Room
        /\ Journals /\ Places
        /\ Named /\ Fresh /\ Sources /\ Effects

-----------------------------------------------------------------------------
(* Sequences of which one place changes, or that grow by one. *)

LEMMA PutAt ==
  ASSUME NEW S, NEW s \in Seq(S), NEW t \in 1..Len(s), NEW x \in S,
         NEW new, new = [s EXCEPT ![t] = x]
  PROVE  /\ new \in Seq(S) /\ Len(new) = Len(s) /\ new[t] = x
         /\ \A u \in 1..Len(s) : u # t => new[u] = s[u]
BY ExceptSeq

LEMMA PutLast ==
  ASSUME NEW S, NEW s \in Seq(S), NEW x \in S, NEW new, new = Append(s, x)
  PROVE  /\ new \in Seq(S) /\ Len(new) = Len(s) + 1 /\ new[Len(s) + 1] = x
         /\ \A u \in 1..Len(s) : new[u] = s[u]
OBVIOUS

LEMMA FirstAndRest ==
  ASSUME NEW calls \in Seq(Call), calls # <<>>
  PROVE  /\ Len(calls) \in Nat /\ Len(calls) >= 1 /\ 1 \in 1..Len(calls)
         /\ Head(calls) = calls[1] /\ Head(calls) \in Call /\ Head(calls) \in Range(calls)
         /\ Tail(calls) \in Seq(Call) /\ Len(Tail(calls)) = Len(calls) - 1
         /\ \A i \in 1..Len(Tail(calls)) : Tail(calls)[i] = calls[i + 1]
         /\ Range(Tail(calls)) \subseteq Range(calls)
         /\ Range(calls) = {Head(calls)} \cup Range(Tail(calls))
         /\ Once(calls) => Head(calls) \notin Range(Tail(calls)) /\ Once(Tail(calls))
<1> DEFINE rest == Tail(calls)
           first == Head(calls)
<1>1. /\ Len(calls) \in Nat /\ Len(calls) >= 1 /\ 1 \in 1..Len(calls)
      /\ first = calls[1] /\ first \in Call /\ DOMAIN calls = 1..Len(calls)
  OBVIOUS
<1>2. /\ rest \in Seq(Call) /\ Len(rest) = Len(calls) - 1 /\ DOMAIN rest = 1..Len(rest)
      /\ \A i \in 1..Len(rest) : rest[i] = calls[i + 1]
  BY HeadTailProperties
<1> HIDE DEF rest, first
<1>3. first \in Range(calls)
  BY <1>1 DEF Range
<1>4. ASSUME NEW c \in Range(rest)
      PROVE  \E i \in 2..Len(calls) : calls[i] = c
  <2>1. PICK i \in 1..Len(rest) : rest[i] = c
    BY <1>2 DEF Range
  <2>2. i + 1 \in 2..Len(calls) /\ calls[i + 1] = c
    BY <1>1, <1>2, <2>1
  <2> QED BY <2>2
<1>5. Range(rest) \subseteq Range(calls)
  <2> SUFFICES ASSUME NEW c \in Range(rest) PROVE c \in Range(calls)
    OBVIOUS
  <2>1. PICK i \in 2..Len(calls) : calls[i] = c
    BY <1>4
  <2>2. i \in DOMAIN calls
    BY <1>1
  <2> QED BY <2>1, <2>2 DEF Range
<1>6. ASSUME NEW c \in Range(calls), c # first PROVE c \in Range(rest)
  <2>1. PICK i \in 1..Len(calls) : calls[i] = c
    BY <1>1 DEF Range
  <2>2. i # 1 /\ i - 1 \in 1..Len(rest) /\ i - 1 + 1 = i
    BY <1>1, <1>2, <1>6, <2>1
  <2>3. rest[i - 1] = c
    BY <1>2, <2>1, <2>2
  <2> QED BY <1>2, <2>2, <2>3 DEF Range
<1>7. ASSUME Once(calls) PROVE first \notin Range(rest) /\ Once(rest)
  <2>1. ASSUME first \in Range(rest) PROVE FALSE
    <3>1. PICK i \in 2..Len(calls) : calls[i] = first
      BY <1>4, <2>1
    <3>2. i \in 1..Len(calls) /\ i # 1
      BY <1>1
    <3> QED BY <1>1, <1>7, <3>1, <3>2 DEF Once
  <2>2. ASSUME NEW i \in 1..Len(rest), NEW j \in 1..Len(rest), rest[i] = rest[j]
        PROVE  i = j
    <3>1. i + 1 \in 1..Len(calls) /\ j + 1 \in 1..Len(calls) /\ (i + 1 = j + 1 => i = j)
      BY <1>1, <1>2
    <3>2. calls[i + 1] = calls[j + 1]
      BY <1>2, <2>2
    <3> QED BY <1>7, <3>1, <3>2 DEF Once
  <2> QED BY <2>1, <2>2 DEF Once
<1>8. Range(calls) = {first} \cup Range(rest)
  BY <1>3, <1>5, <1>6
<1> QED BY <1>1, <1>2, <1>3, <1>5, <1>7, <1>8 DEF rest, first

-----------------------------------------------------------------------------
(* What each step of a turn does, place by place. *)

Same(u) ==
  /\ pc'[u] = pc[u] /\ journal'[u] = journal[u] /\ conv'[u] = conv[u]
  /\ sent'[u] = sent[u] /\ todo'[u] = todo[u] /\ answers'[u] = answers[u]
Moved(t) ==
  /\ Types' /\ Len(pc') = Len(pc)
  /\ UNCHANGED <<lost, closing, up, booted>>
  /\ \A u \in Turns : u # t => Same(u)

LEMMA TypesAt ==
  ASSUME Types, NEW t \in Turns
  PROVE  /\ Len(pc) \in Nat /\ t \in 1..Len(pc) /\ t \in Nat
         /\ pc[t] \in Live \cup {"unwind", "gone"} /\ journal[t] \in Seq(JobEvent)
         /\ conv[t] \in Seq(Message) /\ sent[t] \in Nat /\ depth[t] \in Nat
         /\ todo[t] \in Seq(Call) /\ answers[t] \in AnswerMap
         /\ t \in 1..Len(journal) /\ t \in 1..Len(conv) /\ t \in 1..Len(sent)
         /\ t \in 1..Len(depth) /\ t \in 1..Len(todo) /\ t \in 1..Len(answers)
<1>1. Len(pc) \in Nat /\ t \in 1..Len(pc) /\ t \in Nat
  BY DEF Types, Turns
<1>2. /\ t \in 1..Len(journal) /\ t \in 1..Len(conv) /\ t \in 1..Len(sent)
      /\ t \in 1..Len(depth) /\ t \in 1..Len(todo) /\ t \in 1..Len(answers)
  BY <1>1 DEF Types
<1>3. /\ pc \in Seq(Live \cup {"unwind", "gone"}) /\ journal \in Seq(Seq(JobEvent))
      /\ conv \in Seq(Seq(Message)) /\ sent \in Seq(Nat) /\ depth \in Seq(Nat)
      /\ todo \in Seq(Seq(Call)) /\ answers \in Seq(AnswerMap)
  BY DEF Types
<1>4. /\ pc[t] \in Live \cup {"unwind", "gone"} /\ journal[t] \in Seq(JobEvent)
      /\ conv[t] \in Seq(Message) /\ sent[t] \in Nat /\ depth[t] \in Nat
      /\ todo[t] \in Seq(Call) /\ answers[t] \in AnswerMap
  BY <1>1, <1>2, <1>3, ElementOfSeq
<1> QED BY <1>1, <1>2, <1>3, <1>4

LEMMA StaysTyped ==
  ASSUME Types, Len(pc') = Len(pc),
         pc' \in Seq(Live \cup {"unwind", "gone"}),
         journal' \in Seq(Seq(JobEvent)), Len(journal') = Len(journal),
         conv' \in Seq(Seq(Message)), Len(conv') = Len(conv),
         sent' \in Seq(Nat), Len(sent') = Len(sent),
         depth' \in Seq(Nat), Len(depth') = Len(depth),
         todo' \in Seq(Seq(Call)), Len(todo') = Len(todo),
         answers' \in Seq(AnswerMap), Len(answers') = Len(answers),
         offered' = offered \/ offered' = 0,
         UNCHANGED <<lost, closing, up, booted>>,
         effect' \in [Call -> Nat], replies' \in 0..MaxReply,
         crashes' \in 0..MaxCrash, fails' \in 0..MaxFail
  PROVE  Types'
<1>1. lost' \in Seq(Turns')
  BY DEF Types, Turns
<1>2. offered' \in 0..Len(pc') /\ closing' \in 0..Len(pc') /\ up' \in BOOLEAN /\ booted' \in BOOLEAN
  BY DEF Types
<1>3. /\ Len(journal') = Len(pc') /\ Len(conv') = Len(pc') /\ Len(sent') = Len(pc')
      /\ Len(depth') = Len(pc') /\ Len(todo') = Len(pc') /\ Len(answers') = Len(pc')
  BY DEF Types
<1> QED BY <1>1, <1>2, <1>3 DEF Types

Becomes(t, p, j, talk, n, d, calls, known) ==
  /\ pc' = [pc EXCEPT ![t] = p]
  /\ journal' = [journal EXCEPT ![t] = j]
  /\ conv' = [conv EXCEPT ![t] = talk]
  /\ sent' = [sent EXCEPT ![t] = n]
  /\ depth' = [depth EXCEPT ![t] = d]
  /\ todo' = [todo EXCEPT ![t] = calls]
  /\ answers' = [answers EXCEPT ![t] = known]
Fits(p, j, talk, n, d, calls, known) ==
  /\ p \in Live \cup {"unwind", "gone"} /\ j \in Seq(JobEvent) /\ talk \in Seq(Message)
  /\ n \in Nat /\ d \in Nat /\ calls \in Seq(Call) /\ known \in AnswerMap
Quiet == (offered' = offered \/ offered' = 0) /\ UNCHANGED <<lost, closing, up, booted>>
Bounds ==
  /\ effect' \in [Call -> Nat] /\ replies' \in 0..MaxReply
  /\ crashes' \in 0..MaxCrash /\ fails' \in 0..MaxFail

LEMMA Untouched ==
  ASSUME Types, NEW t \in Turns
  PROVE  /\ pc = [pc EXCEPT ![t] = pc[t]]
         /\ journal = [journal EXCEPT ![t] = journal[t]]
         /\ conv = [conv EXCEPT ![t] = conv[t]]
         /\ sent = [sent EXCEPT ![t] = sent[t]]
         /\ depth = [depth EXCEPT ![t] = depth[t]]
         /\ todo = [todo EXCEPT ![t] = todo[t]]
         /\ answers = [answers EXCEPT ![t] = answers[t]]
BY DEF Types

LEMMA MovedBy ==
  ASSUME Types, NEW t \in Turns,
         NEW p, NEW j, NEW talk, NEW n, NEW d, NEW calls, NEW known,
         Fits(p, j, talk, n, d, calls, known),
         Becomes(t, p, j, talk, n, d, calls, known), Bounds, Quiet
  PROVE  /\ Moved(t)
         /\ pc'[t] = p /\ journal'[t] = j /\ conv'[t] = talk /\ sent'[t] = n
         /\ depth'[t] = d /\ todo'[t] = calls /\ answers'[t] = known
<1>1. /\ pc \in Seq(Live \cup {"unwind", "gone"}) /\ journal \in Seq(Seq(JobEvent))
      /\ conv \in Seq(Seq(Message)) /\ sent \in Seq(Nat) /\ depth \in Seq(Nat)
      /\ todo \in Seq(Seq(Call)) /\ answers \in Seq(AnswerMap)
  BY DEF Types
<1>2. /\ t \in 1..Len(pc) /\ t \in 1..Len(journal) /\ t \in 1..Len(conv) /\ t \in 1..Len(sent)
      /\ t \in 1..Len(depth) /\ t \in 1..Len(todo) /\ t \in 1..Len(answers)
  BY TypesAt
<1>3. /\ pc' \in Seq(Live \cup {"unwind", "gone"}) /\ Len(pc') = Len(pc) /\ pc'[t] = p
      /\ \A u \in 1..Len(pc) : u # t => pc'[u] = pc[u]
  BY <1>1, <1>2, PutAt DEF Becomes, Fits
<1>4. /\ journal' \in Seq(Seq(JobEvent)) /\ Len(journal') = Len(journal) /\ journal'[t] = j
      /\ \A u \in 1..Len(journal) : u # t => journal'[u] = journal[u]
  BY <1>1, <1>2, PutAt DEF Becomes, Fits
<1>5. /\ conv' \in Seq(Seq(Message)) /\ Len(conv') = Len(conv) /\ conv'[t] = talk
      /\ \A u \in 1..Len(conv) : u # t => conv'[u] = conv[u]
  BY <1>1, <1>2, PutAt DEF Becomes, Fits
<1>6. /\ sent' \in Seq(Nat) /\ Len(sent') = Len(sent) /\ sent'[t] = n
      /\ \A u \in 1..Len(sent) : u # t => sent'[u] = sent[u]
  BY <1>1, <1>2, PutAt DEF Becomes, Fits
<1>7. /\ depth' \in Seq(Nat) /\ Len(depth') = Len(depth) /\ depth'[t] = d
      /\ \A u \in 1..Len(depth) : u # t => depth'[u] = depth[u]
  BY <1>1, <1>2, PutAt DEF Becomes, Fits
<1>8. /\ todo' \in Seq(Seq(Call)) /\ Len(todo') = Len(todo) /\ todo'[t] = calls
      /\ \A u \in 1..Len(todo) : u # t => todo'[u] = todo[u]
  BY <1>1, <1>2, PutAt DEF Becomes, Fits
<1>9. /\ answers' \in Seq(AnswerMap) /\ Len(answers') = Len(answers) /\ answers'[t] = known
      /\ \A u \in 1..Len(answers) : u # t => answers'[u] = answers[u]
  BY <1>1, <1>2, PutAt DEF Becomes, Fits
<1>10. Types' /\ Len(pc') = Len(pc)
  BY <1>3, <1>4, <1>5, <1>6, <1>7, <1>8, <1>9, StaysTyped DEF Bounds, Quiet
<1>11. ASSUME NEW u \in Turns, u # t PROVE Same(u)
  <2>1. /\ u \in 1..Len(pc) /\ u \in 1..Len(journal) /\ u \in 1..Len(conv)
        /\ u \in 1..Len(sent) /\ u \in 1..Len(todo) /\ u \in 1..Len(answers)
    BY TypesAt
  <2>2. /\ pc'[u] = pc[u] /\ journal'[u] = journal[u] /\ conv'[u] = conv[u]
    BY <1>11, <2>1, <1>3, <1>4, <1>5
  <2>3. sent'[u] = sent[u] /\ todo'[u] = todo[u] /\ answers'[u] = answers[u]
    BY <1>11, <2>1, <1>6, <1>8, <1>9
  <2> QED BY <2>2, <2>3 DEF Same
<1> QED
  BY <1>10, <1>11, <1>3, <1>4, <1>5, <1>6, <1>7, <1>8, <1>9 DEF Moved, Quiet

LEMMA FailEarlyDoes ==
  ASSUME Types, NEW t \in Turns, FailEarly(t)
  PROVE  /\ Moved(t)
         /\ pc[t] = "starting"
         /\ pc'[t] = "gone"
         /\ journal'[t] = journal[t]
         /\ conv'[t] = conv[t]
         /\ sent'[t] = sent[t]
         /\ todo'[t] = todo[t]
         /\ answers'[t] = answers[t]
         /\ UNCHANGED <<offered, effect, replies>>
<1> DEFINE pcNow == "gone"
<1>1. pc[t] = "starting"
  BY DEF FailEarly
<1>2. pc' = [pc EXCEPT ![t] = pcNow]
  BY DEF FailEarly, Goto, Record
<1>3. pcNow \in Live \cup {"unwind", "gone"}
  BY DEF Live
<1>4. /\ UNCHANGED <<journal, conv, sent, depth, todo, answers>>
      /\ UNCHANGED <<lost, closing, up, booted>>
      /\ UNCHANGED <<offered, effect, replies>>
  BY DEF FailEarly, startup, counts, memory, disk
<1>5. /\ journal' = [journal EXCEPT ![t] = journal[t]]
      /\ conv' = [conv EXCEPT ![t] = conv[t]]
      /\ sent' = [sent EXCEPT ![t] = sent[t]]
      /\ depth' = [depth EXCEPT ![t] = depth[t]]
      /\ todo' = [todo EXCEPT ![t] = todo[t]]
      /\ answers' = [answers EXCEPT ![t] = answers[t]]
  BY <1>4, Untouched
<1>6. Bounds
  BY <1>1, JobJournalAssumption DEF Bounds, Types, FailEarly, counts
<1> HIDE DEF pcNow
<1>7. Becomes(t, pcNow, journal[t], conv[t], sent[t], depth[t], todo[t], answers[t])
  BY <1>2, <1>3, <1>4, <1>5, <1>6 DEF Becomes
<1>8. /\ pc[t] \in Live \cup {"unwind", "gone"} /\ journal[t] \in Seq(JobEvent)
      /\ conv[t] \in Seq(Message) /\ sent[t] \in Nat /\ depth[t] \in Nat
      /\ todo[t] \in Seq(Call) /\ answers[t] \in AnswerMap
  BY TypesAt
<1>9. Quiet
  BY <1>4 DEF Quiet
<1>10. Fits(pcNow, journal[t], conv[t], sent[t], depth[t], todo[t], answers[t])
  BY <1>3, <1>8 DEF Fits
<1>11. Moved(t) /\ pc'[t] = pcNow /\ journal'[t] = journal[t] /\ conv'[t] = conv[t]
      /\ sent'[t] = sent[t] /\ depth'[t] = depth[t] /\ todo'[t] = todo[t] /\ answers'[t] = answers[t]
  BY <1>7, <1>10, <1>9, <1>6, MovedBy
<1> QED
  BY <1>1, <1>4, <1>11 DEF pcNow

LEMMA NoOfferDoes ==
  ASSUME Types, NEW t \in Turns, NoOffer(t)
  PROVE  /\ Moved(t)
         /\ pc[t] = "starting"
         /\ offered = 0
         /\ pc'[t] = "open"
         /\ journal'[t] = journal[t]
         /\ conv'[t] = conv[t]
         /\ sent'[t] = sent[t]
         /\ todo'[t] = todo[t]
         /\ answers'[t] = answers[t]
         /\ UNCHANGED <<offered, effect, replies>>
<1> DEFINE pcNow == "open"
<1>1. pc[t] = "starting" /\ offered = 0
  BY DEF NoOffer
<1>2. pc' = [pc EXCEPT ![t] = pcNow]
  BY DEF NoOffer, Goto, Record
<1>3. pcNow \in Live \cup {"unwind", "gone"}
  BY DEF Live
<1>4. /\ UNCHANGED <<journal, conv, sent, depth, todo, answers>>
      /\ UNCHANGED <<lost, closing, up, booted>>
      /\ UNCHANGED <<offered, effect, replies>>
  BY DEF NoOffer, startup, counts, memory, disk
<1>5. /\ journal' = [journal EXCEPT ![t] = journal[t]]
      /\ conv' = [conv EXCEPT ![t] = conv[t]]
      /\ sent' = [sent EXCEPT ![t] = sent[t]]
      /\ depth' = [depth EXCEPT ![t] = depth[t]]
      /\ todo' = [todo EXCEPT ![t] = todo[t]]
      /\ answers' = [answers EXCEPT ![t] = answers[t]]
  BY <1>4, Untouched
<1>6. Bounds
  BY <1>1, JobJournalAssumption DEF Bounds, Types, NoOffer, counts
<1> HIDE DEF pcNow
<1>7. Becomes(t, pcNow, journal[t], conv[t], sent[t], depth[t], todo[t], answers[t])
  BY <1>2, <1>3, <1>4, <1>5, <1>6 DEF Becomes
<1>8. /\ pc[t] \in Live \cup {"unwind", "gone"} /\ journal[t] \in Seq(JobEvent)
      /\ conv[t] \in Seq(Message) /\ sent[t] \in Nat /\ depth[t] \in Nat
      /\ todo[t] \in Seq(Call) /\ answers[t] \in AnswerMap
  BY TypesAt
<1>9. Quiet
  BY <1>4 DEF Quiet
<1>10. Fits(pcNow, journal[t], conv[t], sent[t], depth[t], todo[t], answers[t])
  BY <1>3, <1>8 DEF Fits
<1>11. Moved(t) /\ pc'[t] = pcNow /\ journal'[t] = journal[t] /\ conv'[t] = conv[t]
      /\ sent'[t] = sent[t] /\ depth'[t] = depth[t] /\ todo'[t] = todo[t] /\ answers'[t] = answers[t]
  BY <1>7, <1>10, <1>9, <1>6, MovedBy
<1> QED
  BY <1>1, <1>4, <1>11 DEF pcNow

LEMMA RunAgainDoes ==
  ASSUME Types, NEW t \in Turns, RunAgain(t)
  PROVE  /\ Moved(t)
         /\ pc[t] = "rerun"
         /\ todo[t] # <<>>
         /\ pc'[t] = pc[t]
         /\ journal'[t] = journal[t]
         /\ conv'[t] = conv[t]
         /\ sent'[t] = sent[t]
         /\ todo'[t] = Tail(todo[t])
         /\ \E answer \in {"ok", "failed"} :
              /\ answers'[t] = Answering(answers[t], Head(todo[t]), answer)
              /\ IF Lands(Head(todo[t]))
                 THEN answer = "ok" /\ effect' = [effect EXCEPT ![Head(todo[t])] = @ + 1]
                 ELSE answer = "failed" /\ effect' = effect
         /\ UNCHANGED <<offered, replies>>
<1> DEFINE todoNow == Tail(todo[t])
           answer == IF Lands(Head(todo[t])) THEN "ok" ELSE "failed"
           answersNow == Answering(answers[t], Head(todo[t]), answer)
<1>1. pc[t] = "rerun" /\ todo[t] # <<>>
  BY DEF RunAgain
<1>2. todo' = [todo EXCEPT ![t] = todoNow]
  BY DEF RunAgain, Goto, Record
<1>3. answers' = [answers EXCEPT ![t] = answersNow]
  BY DEF RunAgain, Goto, Record
<1>0. answer \in {"ok", "failed"} /\ answer \in Outcomes
  BY DEF Outcomes
<1>4. todoNow \in Seq(Call)
  BY <1>1, TypesAt, FirstAndRest
<1>5. answersNow \in AnswerMap
  BY <1>0, <1>1, TypesAt, FirstAndRest, OneMore
<1>6. /\ UNCHANGED <<pc, journal, conv, sent, depth>>
      /\ UNCHANGED <<lost, closing, up, booted>>
      /\ UNCHANGED <<offered, replies>>
  BY DEF RunAgain, startup, counts, memory, disk
<1>7. /\ pc' = [pc EXCEPT ![t] = pc[t]]
      /\ journal' = [journal EXCEPT ![t] = journal[t]]
      /\ conv' = [conv EXCEPT ![t] = conv[t]]
      /\ sent' = [sent EXCEPT ![t] = sent[t]]
      /\ depth' = [depth EXCEPT ![t] = depth[t]]
  BY <1>6, Untouched
<1>c. IF Lands(Head(todo[t]))
      THEN answer = "ok" /\ effect' = [effect EXCEPT ![Head(todo[t])] = @ + 1]
      ELSE answer = "failed" /\ effect' = effect
  <2>1. effect' = [effect EXCEPT ![Head(todo[t])] =
                     IF Lands(Head(todo[t])) THEN @ + 1 ELSE @]
    BY DEF RunAgain
  <2>2. effect = [effect EXCEPT ![Head(todo[t])] = @]
    BY DEF Types
  <2> QED BY <2>1, <2>2
<1>8. Bounds
  <2>1. Head(todo[t]) \in Call /\ effect \in [Call -> Nat]
    BY <1>1, TypesAt, FirstAndRest DEF Types
  <2>2. effect' \in [Call -> Nat]
    BY <1>c, <2>1
  <2> QED BY <2>2 DEF Bounds, Types, RunAgain, counts
<1> HIDE DEF todoNow, answersNow, answer
<1>9. Becomes(t, pc[t], journal[t], conv[t], sent[t], depth[t], todoNow, answersNow)
  BY <1>2, <1>3, <1>4, <1>5, <1>6, <1>7, <1>8 DEF Becomes
<1>10. /\ pc[t] \in Live \cup {"unwind", "gone"} /\ journal[t] \in Seq(JobEvent)
      /\ conv[t] \in Seq(Message) /\ sent[t] \in Nat /\ depth[t] \in Nat
      /\ todo[t] \in Seq(Call) /\ answers[t] \in AnswerMap
  BY TypesAt
<1>11. Quiet
  BY <1>6 DEF Quiet
<1>12. Fits(pc[t], journal[t], conv[t], sent[t], depth[t], todoNow, answersNow)
  BY <1>4, <1>5, <1>10 DEF Fits
<1>13. Moved(t) /\ pc'[t] = pc[t] /\ journal'[t] = journal[t] /\ conv'[t] = conv[t]
      /\ sent'[t] = sent[t] /\ depth'[t] = depth[t] /\ todo'[t] = todoNow /\ answers'[t] = answersNow
  BY <1>9, <1>12, <1>11, <1>8, MovedBy
<1> QED
  BY <1>0, <1>1, <1>6, <1>c, <1>13 DEF todoNow, answersNow

LEMMA RunAgainDoneDoes ==
  ASSUME Types, NEW t \in Turns, RunAgainDone(t)
  PROVE  /\ Moved(t)
         /\ pc[t] = "rerun"
         /\ todo[t] = <<>>
         /\ pc'[t] = "open"
         /\ journal'[t] = journal[t]
         /\ conv'[t] = IF answers[t] = <<>> THEN conv[t]
                       ELSE Append(conv[t], Tools(answers[t]))
         /\ sent'[t] = sent[t]
         /\ todo'[t] = todo[t]
         /\ answers'[t] = <<>>
         /\ UNCHANGED <<offered, effect, replies>>
<1> DEFINE pcNow == "open"
           convNow == IF answers[t] = <<>> THEN conv[t]
                        ELSE Append(conv[t], Tools(answers[t]))
           answersNow == <<>>
<1>1. pc[t] = "rerun" /\ todo[t] = <<>>
  BY DEF RunAgainDone
<1>2. pc' = [pc EXCEPT ![t] = pcNow]
  BY DEF RunAgainDone, Goto, Record
<1>3. conv' = [conv EXCEPT ![t] = convNow]
  BY DEF RunAgainDone, Goto, Record
<1>4. answers' = [answers EXCEPT ![t] = answersNow]
  BY DEF RunAgainDone, Goto, Record
<1>5. pcNow \in Live \cup {"unwind", "gone"}
  BY DEF Live
<1>6. convNow \in Seq(Message)
  BY TypesAt DEF Tools, Message
<1>7. answersNow \in AnswerMap
  BY NoAnswers
<1>8. /\ UNCHANGED <<journal, sent, depth, todo>>
      /\ UNCHANGED <<lost, closing, up, booted>>
      /\ UNCHANGED <<offered, effect, replies>>
  BY DEF RunAgainDone, startup, counts, memory, disk
<1>9. /\ journal' = [journal EXCEPT ![t] = journal[t]]
      /\ sent' = [sent EXCEPT ![t] = sent[t]]
      /\ depth' = [depth EXCEPT ![t] = depth[t]]
      /\ todo' = [todo EXCEPT ![t] = todo[t]]
  BY <1>8, Untouched
<1>10. Bounds
  BY <1>1, JobJournalAssumption DEF Bounds, Types, RunAgainDone, counts
<1> HIDE DEF pcNow, convNow, answersNow
<1>11. Becomes(t, pcNow, journal[t], convNow, sent[t], depth[t], todo[t], answersNow)
  BY <1>2, <1>3, <1>4, <1>5, <1>6, <1>7, <1>8, <1>9, <1>10 DEF Becomes
<1>12. /\ pc[t] \in Live \cup {"unwind", "gone"} /\ journal[t] \in Seq(JobEvent)
      /\ conv[t] \in Seq(Message) /\ sent[t] \in Nat /\ depth[t] \in Nat
      /\ todo[t] \in Seq(Call) /\ answers[t] \in AnswerMap
  BY TypesAt
<1>13. Quiet
  BY <1>8 DEF Quiet
<1>14. Fits(pcNow, journal[t], convNow, sent[t], depth[t], todo[t], answersNow)
  BY <1>5, <1>6, <1>7, <1>12 DEF Fits
<1>15. Moved(t) /\ pc'[t] = pcNow /\ journal'[t] = journal[t] /\ conv'[t] = convNow
      /\ sent'[t] = sent[t] /\ depth'[t] = depth[t] /\ todo'[t] = todo[t] /\ answers'[t] = answersNow
  BY <1>11, <1>14, <1>13, <1>10, MovedBy
<1> QED
  BY <1>1, <1>8, <1>15 DEF pcNow, convNow, answersNow

LEMMA OpenDoes ==
  ASSUME Types, NEW t \in Turns, Open(t)
  PROVE  /\ Moved(t)
         /\ pc[t] = "open"
         /\ pc'[t] = "ask"
         /\ journal'[t] = Append(journal[t], [kind |-> "start", messages |-> conv[t],
                                          depth |-> depth[t]])
         /\ conv'[t] = conv[t]
         /\ sent'[t] = Len(conv[t])
         /\ todo'[t] = todo[t]
         /\ answers'[t] = answers[t]
         /\ UNCHANGED <<offered, effect, replies>>
<1> DEFINE pcNow == "ask"
           journalNow == Append(journal[t], [kind |-> "start", messages |-> conv[t],
                                           depth |-> depth[t]])
           sentNow == Len(conv[t])
<1>1. pc[t] = "open"
  BY DEF Open
<1>2. pc' = [pc EXCEPT ![t] = pcNow]
  BY DEF Open, Goto, Record
<1>3. journal' = [journal EXCEPT ![t] = journalNow]
  BY DEF Open, Goto, Record
<1>4. sent' = [sent EXCEPT ![t] = sentNow]
  BY DEF Open, Goto, Record
<1>5. pcNow \in Live \cup {"unwind", "gone"}
  BY DEF Live
<1>6. journalNow \in Seq(JobEvent)
  BY TypesAt DEF JobEvent
<1>7. sentNow \in Nat
  BY TypesAt
<1>8. /\ UNCHANGED <<conv, depth, todo, answers>>
      /\ UNCHANGED <<lost, closing, up, booted>>
      /\ UNCHANGED <<offered, effect, replies>>
  BY DEF Open, startup, counts, memory, disk
<1>9. /\ conv' = [conv EXCEPT ![t] = conv[t]]
      /\ depth' = [depth EXCEPT ![t] = depth[t]]
      /\ todo' = [todo EXCEPT ![t] = todo[t]]
      /\ answers' = [answers EXCEPT ![t] = answers[t]]
  BY <1>8, Untouched
<1>10. Bounds
  BY <1>1, JobJournalAssumption DEF Bounds, Types, Open, counts
<1> HIDE DEF pcNow, journalNow, sentNow
<1>11. Becomes(t, pcNow, journalNow, conv[t], sentNow, depth[t], todo[t], answers[t])
  BY <1>2, <1>3, <1>4, <1>5, <1>6, <1>7, <1>8, <1>9, <1>10 DEF Becomes
<1>12. /\ pc[t] \in Live \cup {"unwind", "gone"} /\ journal[t] \in Seq(JobEvent)
      /\ conv[t] \in Seq(Message) /\ sent[t] \in Nat /\ depth[t] \in Nat
      /\ todo[t] \in Seq(Call) /\ answers[t] \in AnswerMap
  BY TypesAt
<1>13. Quiet
  BY <1>8 DEF Quiet
<1>14. Fits(pcNow, journalNow, conv[t], sentNow, depth[t], todo[t], answers[t])
  BY <1>5, <1>6, <1>7, <1>12 DEF Fits
<1>15. Moved(t) /\ pc'[t] = pcNow /\ journal'[t] = journalNow /\ conv'[t] = conv[t]
      /\ sent'[t] = sentNow /\ depth'[t] = depth[t] /\ todo'[t] = todo[t] /\ answers'[t] = answers[t]
  BY <1>11, <1>14, <1>13, <1>10, MovedBy
<1> QED
  BY <1>1, <1>8, <1>15 DEF pcNow, journalNow, sentNow

LEMMA RequestDoes ==
  ASSUME Types, NEW t \in Turns, Request(t)
  PROVE  /\ Moved(t)
         /\ pc[t] = "ask"
         /\ pc'[t] = "reply"
         /\ journal'[t] = IF sent[t] < Len(conv[t])
                          THEN Append(journal[t], [kind |-> "messages",
                                 added |-> SubSeq(conv[t], sent[t] + 1, Len(conv[t]))])
                          ELSE journal[t]
         /\ conv'[t] = conv[t]
         /\ sent'[t] = Len(conv[t])
         /\ todo'[t] = todo[t]
         /\ answers'[t] = answers[t]
         /\ UNCHANGED <<offered, effect, replies>>
<1> DEFINE pcNow == "reply"
           journalNow == IF sent[t] < Len(conv[t])
                           THEN Append(journal[t], [kind |-> "messages",
                                  added |-> SubSeq(conv[t], sent[t] + 1, Len(conv[t]))])
                           ELSE journal[t]
           sentNow == Len(conv[t])
<1>1. pc[t] = "ask"
  BY DEF Request
<1>2. pc' = [pc EXCEPT ![t] = pcNow]
  BY DEF Request, Goto, Record
<1>3. journal' = [journal EXCEPT ![t] = journalNow]
  <2>1. CASE sent[t] < Len(conv[t])
    BY <2>1 DEF Request, Record
  <2>2. CASE ~(sent[t] < Len(conv[t]))
    <3>1. journal' = journal /\ journalNow = journal[t]
      BY <2>2 DEF Request
    <3> HIDE DEF journalNow
    <3>2. journal = [journal EXCEPT ![t] = journal[t]]
      BY Untouched
    <3> QED BY <3>1, <3>2
  <2> QED BY <2>1, <2>2
<1>4. sent' = [sent EXCEPT ![t] = sentNow]
  BY DEF Request, Goto, Record
<1>5. pcNow \in Live \cup {"unwind", "gone"}
  BY DEF Live
<1>6. journalNow \in Seq(JobEvent)
  <2> DEFINE added == SubSeq(conv[t], sent[t] + 1, Len(conv[t]))
             rec == [kind |-> "messages", added |-> added]
  <2>1. conv[t] \in Seq(Message) /\ sent[t] \in Nat /\ journal[t] \in Seq(JobEvent)
    BY TypesAt
  <2>2. added \in Seq(Message)
    BY <2>1
  <2> HIDE DEF added
  <2>3. rec \in JobEvent
    BY <2>2 DEF JobEvent
  <2> HIDE DEF rec
  <2>4. Append(journal[t], rec) \in Seq(JobEvent)
    BY <2>1, <2>3
  <2> QED BY <2>1, <2>4 DEF rec, added
<1>7. sentNow \in Nat
  BY TypesAt
<1>8. /\ UNCHANGED <<conv, depth, todo, answers>>
      /\ UNCHANGED <<lost, closing, up, booted>>
      /\ UNCHANGED <<offered, effect, replies>>
  BY DEF Request, startup, counts, memory, disk
<1>9. /\ conv' = [conv EXCEPT ![t] = conv[t]]
      /\ depth' = [depth EXCEPT ![t] = depth[t]]
      /\ todo' = [todo EXCEPT ![t] = todo[t]]
      /\ answers' = [answers EXCEPT ![t] = answers[t]]
  BY <1>8, Untouched
<1>10. Bounds
  BY <1>1, JobJournalAssumption DEF Bounds, Types, Request, counts
<1> HIDE DEF pcNow, journalNow, sentNow
<1>11. Becomes(t, pcNow, journalNow, conv[t], sentNow, depth[t], todo[t], answers[t])
  BY <1>2, <1>3, <1>4, <1>5, <1>6, <1>7, <1>8, <1>9, <1>10 DEF Becomes
<1>12. /\ pc[t] \in Live \cup {"unwind", "gone"} /\ journal[t] \in Seq(JobEvent)
      /\ conv[t] \in Seq(Message) /\ sent[t] \in Nat /\ depth[t] \in Nat
      /\ todo[t] \in Seq(Call) /\ answers[t] \in AnswerMap
  BY TypesAt
<1>13. Quiet
  BY <1>8 DEF Quiet
<1>14. Fits(pcNow, journalNow, conv[t], sentNow, depth[t], todo[t], answers[t])
  BY <1>5, <1>6, <1>7, <1>12 DEF Fits
<1>15. Moved(t) /\ pc'[t] = pcNow /\ journal'[t] = journalNow /\ conv'[t] = conv[t]
      /\ sent'[t] = sentNow /\ depth'[t] = depth[t] /\ todo'[t] = todo[t] /\ answers'[t] = answers[t]
  BY <1>11, <1>14, <1>13, <1>10, MovedBy
<1> QED
  BY <1>1, <1>8, <1>15 DEF pcNow, journalNow, sentNow

LEMMA ExecuteDoes ==
  ASSUME Types, NEW t \in Turns, Execute(t)
  PROVE  /\ Moved(t)
         /\ pc[t] = "run"
         /\ todo[t] # <<>>
         /\ pc'[t] = "result"
         /\ journal'[t] = journal[t]
         /\ conv'[t] = conv[t]
         /\ sent'[t] = sent[t]
         /\ todo'[t] = todo[t]
         /\ answers'[t] = answers[t]
         /\ effect' = [effect EXCEPT ![Head(todo[t])] = @ + 1]
         /\ UNCHANGED <<offered, replies>>
<1> DEFINE pcNow == "result"
<1>1. pc[t] = "run" /\ todo[t] # <<>>
  BY DEF Execute
<1>2. pc' = [pc EXCEPT ![t] = pcNow]
  BY DEF Execute, Goto, Record
<1>3. pcNow \in Live \cup {"unwind", "gone"}
  BY DEF Live
<1>4. /\ UNCHANGED <<journal, conv, sent, depth, todo, answers>>
      /\ UNCHANGED <<lost, closing, up, booted>>
      /\ effect' = [effect EXCEPT ![Head(todo[t])] = @ + 1]
      /\ UNCHANGED <<offered, replies>>
  BY DEF Execute, startup, counts, memory, disk
<1>5. /\ journal' = [journal EXCEPT ![t] = journal[t]]
      /\ conv' = [conv EXCEPT ![t] = conv[t]]
      /\ sent' = [sent EXCEPT ![t] = sent[t]]
      /\ depth' = [depth EXCEPT ![t] = depth[t]]
      /\ todo' = [todo EXCEPT ![t] = todo[t]]
      /\ answers' = [answers EXCEPT ![t] = answers[t]]
  BY <1>4, Untouched
<1>6. Bounds
  <2>1. Head(todo[t]) \in Call /\ effect \in [Call -> Nat]
    BY <1>1, TypesAt, FirstAndRest DEF Types
  <2>2. effect' = [effect EXCEPT ![Head(todo[t])] = @ + 1]
    BY DEF Execute
  <2>3. effect' \in [Call -> Nat]
    BY <2>1, <2>2
  <2> QED BY <2>3 DEF Bounds, Types, Execute, counts
<1> HIDE DEF pcNow
<1>7. Becomes(t, pcNow, journal[t], conv[t], sent[t], depth[t], todo[t], answers[t])
  BY <1>2, <1>3, <1>4, <1>5, <1>6 DEF Becomes
<1>8. /\ pc[t] \in Live \cup {"unwind", "gone"} /\ journal[t] \in Seq(JobEvent)
      /\ conv[t] \in Seq(Message) /\ sent[t] \in Nat /\ depth[t] \in Nat
      /\ todo[t] \in Seq(Call) /\ answers[t] \in AnswerMap
  BY TypesAt
<1>9. Quiet
  BY <1>4 DEF Quiet
<1>10. Fits(pcNow, journal[t], conv[t], sent[t], depth[t], todo[t], answers[t])
  BY <1>3, <1>8 DEF Fits
<1>11. Moved(t) /\ pc'[t] = pcNow /\ journal'[t] = journal[t] /\ conv'[t] = conv[t]
      /\ sent'[t] = sent[t] /\ depth'[t] = depth[t] /\ todo'[t] = todo[t] /\ answers'[t] = answers[t]
  BY <1>7, <1>10, <1>9, <1>6, MovedBy
<1> QED
  BY <1>1, <1>4, <1>11 DEF pcNow

LEMMA ResultDoes ==
  ASSUME Types, NEW t \in Turns, todo[t] # <<>>, Result(t)
  PROVE  /\ Moved(t)
         /\ pc[t] = "result"
         /\ pc'[t] = "run"
         /\ journal'[t] = Append(journal[t], [kind |-> "result", call |-> Head(todo[t]),
                                          answer |-> "ok"])
         /\ conv'[t] = conv[t]
         /\ sent'[t] = sent[t]
         /\ todo'[t] = Tail(todo[t])
         /\ answers'[t] = Answering(answers[t], Head(todo[t]), "ok")
         /\ UNCHANGED <<offered, effect, replies>>
<1> DEFINE pcNow == "run"
           journalNow == Append(journal[t], [kind |-> "result", call |-> Head(todo[t]),
                                           answer |-> "ok"])
           todoNow == Tail(todo[t])
           answersNow == Answering(answers[t], Head(todo[t]), "ok")
<1>1. pc[t] = "result"
  BY DEF Result
<1>2. pc' = [pc EXCEPT ![t] = pcNow]
  BY DEF Result, Goto, Record
<1>3. journal' = [journal EXCEPT ![t] = journalNow]
  BY DEF Result, Goto, Record
<1>4. todo' = [todo EXCEPT ![t] = todoNow]
  BY DEF Result, Goto, Record
<1>5. answers' = [answers EXCEPT ![t] = answersNow]
  BY DEF Result, Goto, Record
<1>6. pcNow \in Live \cup {"unwind", "gone"}
  BY DEF Live
<1>7. journalNow \in Seq(JobEvent)
  BY TypesAt, FirstAndRest DEF JobEvent
<1>8. todoNow \in Seq(Call)
  BY TypesAt, FirstAndRest
<1>9. answersNow \in AnswerMap
  BY TypesAt, FirstAndRest, OneMore DEF Outcomes
<1>10. /\ UNCHANGED <<conv, sent, depth>>
      /\ UNCHANGED <<lost, closing, up, booted>>
      /\ UNCHANGED <<offered, effect, replies>>
  BY DEF Result, startup, counts, memory, disk
<1>11. /\ conv' = [conv EXCEPT ![t] = conv[t]]
      /\ sent' = [sent EXCEPT ![t] = sent[t]]
      /\ depth' = [depth EXCEPT ![t] = depth[t]]
  BY <1>10, Untouched
<1>12. Bounds
  BY <1>1, JobJournalAssumption DEF Bounds, Types, Result, counts
<1> HIDE DEF pcNow, journalNow, todoNow, answersNow
<1>13. Becomes(t, pcNow, journalNow, conv[t], sent[t], depth[t], todoNow, answersNow)
  BY <1>2, <1>3, <1>4, <1>5, <1>6, <1>7, <1>8, <1>9, <1>10, <1>11, <1>12 DEF Becomes
<1>14. /\ pc[t] \in Live \cup {"unwind", "gone"} /\ journal[t] \in Seq(JobEvent)
      /\ conv[t] \in Seq(Message) /\ sent[t] \in Nat /\ depth[t] \in Nat
      /\ todo[t] \in Seq(Call) /\ answers[t] \in AnswerMap
  BY TypesAt
<1>15. Quiet
  BY <1>10 DEF Quiet
<1>16. Fits(pcNow, journalNow, conv[t], sent[t], depth[t], todoNow, answersNow)
  BY <1>6, <1>7, <1>8, <1>9, <1>14 DEF Fits
<1>17. Moved(t) /\ pc'[t] = pcNow /\ journal'[t] = journalNow /\ conv'[t] = conv[t]
      /\ sent'[t] = sent[t] /\ depth'[t] = depth[t] /\ todo'[t] = todoNow /\ answers'[t] = answersNow
  BY <1>13, <1>16, <1>15, <1>12, MovedBy
<1> QED
  BY <1>1, <1>10, <1>17 DEF pcNow, journalNow, todoNow, answersNow

LEMMA StepDoneDoes ==
  ASSUME Types, NEW t \in Turns, StepDone(t)
  PROVE  /\ Moved(t)
         /\ pc[t] = "run"
         /\ todo[t] = <<>>
         /\ pc'[t] = "ask"
         /\ journal'[t] = journal[t]
         /\ conv'[t] = Append(conv[t], Tools(answers[t]))
         /\ sent'[t] = sent[t]
         /\ todo'[t] = todo[t]
         /\ answers'[t] = <<>>
         /\ UNCHANGED <<offered, effect, replies>>
<1> DEFINE pcNow == "ask"
           convNow == Append(conv[t], Tools(answers[t]))
           answersNow == <<>>
<1>1. pc[t] = "run" /\ todo[t] = <<>>
  BY DEF StepDone
<1>2. pc' = [pc EXCEPT ![t] = pcNow]
  BY DEF StepDone, Goto, Record
<1>3. conv' = [conv EXCEPT ![t] = convNow]
  BY DEF StepDone, Goto, Record
<1>4. answers' = [answers EXCEPT ![t] = answersNow]
  BY DEF StepDone, Goto, Record
<1>5. pcNow \in Live \cup {"unwind", "gone"}
  BY DEF Live
<1>6. convNow \in Seq(Message)
  BY TypesAt DEF Tools, Message
<1>7. answersNow \in AnswerMap
  BY NoAnswers
<1>8. /\ UNCHANGED <<journal, sent, depth, todo>>
      /\ UNCHANGED <<lost, closing, up, booted>>
      /\ UNCHANGED <<offered, effect, replies>>
  BY DEF StepDone, startup, counts, memory, disk
<1>9. /\ journal' = [journal EXCEPT ![t] = journal[t]]
      /\ sent' = [sent EXCEPT ![t] = sent[t]]
      /\ depth' = [depth EXCEPT ![t] = depth[t]]
      /\ todo' = [todo EXCEPT ![t] = todo[t]]
  BY <1>8, Untouched
<1>10. Bounds
  BY <1>1, JobJournalAssumption DEF Bounds, Types, StepDone, counts
<1> HIDE DEF pcNow, convNow, answersNow
<1>11. Becomes(t, pcNow, journal[t], convNow, sent[t], depth[t], todo[t], answersNow)
  BY <1>2, <1>3, <1>4, <1>5, <1>6, <1>7, <1>8, <1>9, <1>10 DEF Becomes
<1>12. /\ pc[t] \in Live \cup {"unwind", "gone"} /\ journal[t] \in Seq(JobEvent)
      /\ conv[t] \in Seq(Message) /\ sent[t] \in Nat /\ depth[t] \in Nat
      /\ todo[t] \in Seq(Call) /\ answers[t] \in AnswerMap
  BY TypesAt
<1>13. Quiet
  BY <1>8 DEF Quiet
<1>14. Fits(pcNow, journal[t], convNow, sent[t], depth[t], todo[t], answersNow)
  BY <1>5, <1>6, <1>7, <1>12 DEF Fits
<1>15. Moved(t) /\ pc'[t] = pcNow /\ journal'[t] = journal[t] /\ conv'[t] = convNow
      /\ sent'[t] = sent[t] /\ depth'[t] = depth[t] /\ todo'[t] = todo[t] /\ answers'[t] = answersNow
  BY <1>11, <1>14, <1>13, <1>10, MovedBy
<1> QED
  BY <1>1, <1>8, <1>15 DEF pcNow, convNow, answersNow

LEMMA EndDoes ==
  ASSUME Types, NEW t \in Turns, End(t)
  PROVE  /\ Moved(t)
         /\ pc[t] \in {"ask", "reply", "run"}
         /\ pc'[t] \in {"unwind", "gone"}
         /\ journal'[t] = Append(journal[t], [kind |-> "end", as |-> 0])
         /\ conv'[t] = conv[t]
         /\ sent'[t] = sent[t]
         /\ todo'[t] = todo[t]
         /\ answers'[t] = answers[t]
         /\ UNCHANGED <<offered, effect, replies>>
<1> DEFINE pcNow == IF nest[t] = 0 THEN "gone" ELSE "unwind"
           journalNow == Append(journal[t], [kind |-> "end", as |-> 0])
<1>1. pc[t] \in {"ask", "reply", "run"}
  BY DEF End
<1>2. pc' = [pc EXCEPT ![t] = pcNow]
  BY DEF End, Goto, Record
<1>3. journal' = [journal EXCEPT ![t] = journalNow]
  BY DEF End, Goto, Record
<1>p. pcNow \in {"unwind", "gone"}
  OBVIOUS
<1>4. pcNow \in Live \cup {"unwind", "gone"}
  BY DEF Live
<1>5. journalNow \in Seq(JobEvent)
  BY TypesAt DEF JobEvent
<1>6. /\ UNCHANGED <<conv, sent, depth, todo, answers>>
      /\ UNCHANGED <<lost, closing, up, booted>>
      /\ UNCHANGED <<offered, effect, replies>>
  BY DEF End, startup, counts, memory, disk
<1>7. /\ conv' = [conv EXCEPT ![t] = conv[t]]
      /\ sent' = [sent EXCEPT ![t] = sent[t]]
      /\ depth' = [depth EXCEPT ![t] = depth[t]]
      /\ todo' = [todo EXCEPT ![t] = todo[t]]
      /\ answers' = [answers EXCEPT ![t] = answers[t]]
  BY <1>6, Untouched
<1>8. Bounds
  BY <1>1, JobJournalAssumption DEF Bounds, Types, End, counts
<1> HIDE DEF journalNow
<1>9. Becomes(t, pcNow, journalNow, conv[t], sent[t], depth[t], todo[t], answers[t])
  BY <1>2, <1>3, <1>4, <1>5, <1>6, <1>7, <1>8 DEF Becomes
<1>10. /\ pc[t] \in Live \cup {"unwind", "gone"} /\ journal[t] \in Seq(JobEvent)
      /\ conv[t] \in Seq(Message) /\ sent[t] \in Nat /\ depth[t] \in Nat
      /\ todo[t] \in Seq(Call) /\ answers[t] \in AnswerMap
  BY TypesAt
<1>11. Quiet
  BY <1>6 DEF Quiet
<1>12. Fits(pcNow, journalNow, conv[t], sent[t], depth[t], todo[t], answers[t])
  BY <1>4, <1>5, <1>10 DEF Fits
<1>13. Moved(t) /\ pc'[t] = pcNow /\ journal'[t] = journalNow /\ conv'[t] = conv[t]
      /\ sent'[t] = sent[t] /\ depth'[t] = depth[t] /\ todo'[t] = todo[t] /\ answers'[t] = answers[t]
  BY <1>9, <1>12, <1>11, <1>8, MovedBy
<1> QED
  BY <1>p, <1>1, <1>6, <1>13 DEF journalNow

LEMMA UnwindDoes ==
  ASSUME Types, NEW t \in Turns, Unwind(t)
  PROVE  /\ Moved(t)
         /\ pc[t] = "unwind"
         /\ pc'[t] \in {"unwind", "gone"}
         /\ journal'[t] = Append(journal[t], [kind |-> "end", as |-> 0])
         /\ conv'[t] = conv[t]
         /\ sent'[t] = sent[t]
         /\ todo'[t] = todo[t]
         /\ answers'[t] = answers[t]
         /\ UNCHANGED <<offered, effect, replies>>
<1> DEFINE pcNow == IF nest[t] = 1 THEN "gone" ELSE "unwind"
           journalNow == Append(journal[t], [kind |-> "end", as |-> 0])
<1>1. pc[t] = "unwind"
  BY DEF Unwind
<1>2. pc' = [pc EXCEPT ![t] = pcNow]
  BY DEF Unwind, Goto, Record
<1>3. journal' = [journal EXCEPT ![t] = journalNow]
  BY DEF Unwind, Goto, Record
<1>p. pcNow \in {"unwind", "gone"}
  OBVIOUS
<1>4. pcNow \in Live \cup {"unwind", "gone"}
  BY DEF Live
<1>5. journalNow \in Seq(JobEvent)
  BY TypesAt DEF JobEvent
<1>6. /\ UNCHANGED <<conv, sent, depth, todo, answers>>
      /\ UNCHANGED <<lost, closing, up, booted>>
      /\ UNCHANGED <<offered, effect, replies>>
  BY DEF Unwind, startup, counts, memory, disk
<1>7. /\ conv' = [conv EXCEPT ![t] = conv[t]]
      /\ sent' = [sent EXCEPT ![t] = sent[t]]
      /\ depth' = [depth EXCEPT ![t] = depth[t]]
      /\ todo' = [todo EXCEPT ![t] = todo[t]]
      /\ answers' = [answers EXCEPT ![t] = answers[t]]
  BY <1>6, Untouched
<1>8. Bounds
  BY <1>1, JobJournalAssumption DEF Bounds, Types, Unwind, counts
<1> HIDE DEF journalNow
<1>9. Becomes(t, pcNow, journalNow, conv[t], sent[t], depth[t], todo[t], answers[t])
  BY <1>2, <1>3, <1>4, <1>5, <1>6, <1>7, <1>8 DEF Becomes
<1>10. /\ pc[t] \in Live \cup {"unwind", "gone"} /\ journal[t] \in Seq(JobEvent)
      /\ conv[t] \in Seq(Message) /\ sent[t] \in Nat /\ depth[t] \in Nat
      /\ todo[t] \in Seq(Call) /\ answers[t] \in AnswerMap
  BY TypesAt
<1>11. Quiet
  BY <1>6 DEF Quiet
<1>12. Fits(pcNow, journalNow, conv[t], sent[t], depth[t], todo[t], answers[t])
  BY <1>4, <1>5, <1>10 DEF Fits
<1>13. Moved(t) /\ pc'[t] = pcNow /\ journal'[t] = journalNow /\ conv'[t] = conv[t]
      /\ sent'[t] = sent[t] /\ depth'[t] = depth[t] /\ todo'[t] = todo[t] /\ answers'[t] = answers[t]
  BY <1>9, <1>12, <1>11, <1>8, MovedBy
<1> QED
  BY <1>p, <1>1, <1>6, <1>13 DEF journalNow

\* The loop calls itself: the inner one starts over with a capsule.
LEMMA NestedDoes ==
  ASSUME Types, NEW t \in Turns, FailOver(t) \/ TakeOver(t)
  PROVE  /\ Moved(t)
         /\ \/ pc[t] = "reply"
            \/ ~Tidy /\ pc[t] = "ask"
         /\ pc'[t] = "starting"
         /\ journal'[t] = journal[t]
         /\ conv'[t] = <<Ask(t)>>
         /\ sent'[t] = 0
         /\ todo'[t] = <<>>
         /\ answers'[t] = <<>>
         /\ UNCHANGED <<offered, effect, replies>>
<1> DEFINE pcNow == "starting"
           convNow == <<Ask(t)>>
<1>1. Nested(t) /\ (pc[t] = "reply" \/ (~Tidy /\ pc[t] = "ask"))
  BY DEF FailOver, TakeOver, Tidy
<1>2. /\ pc' = [pc EXCEPT ![t] = pcNow] /\ conv' = [conv EXCEPT ![t] = convNow]
      /\ sent' = [sent EXCEPT ![t] = 0] /\ depth' = [depth EXCEPT ![t] = 0]
      /\ todo' = [todo EXCEPT ![t] = <<>>] /\ answers' = [answers EXCEPT ![t] = <<>>]
  BY <1>1 DEF Nested, Goto
<1>3. pcNow \in Live \cup {"unwind", "gone"}
  BY DEF Live
<1>4. /\ UNCHANGED journal
      /\ UNCHANGED <<lost, closing, up, booted>>
      /\ UNCHANGED <<offered, effect, replies>>
  BY <1>1 DEF Nested, startup, disk
<1>5. journal' = [journal EXCEPT ![t] = journal[t]]
  BY <1>4, Untouched
<1>6. Bounds
  BY <1>1, JobJournalAssumption DEF Bounds, Types, Nested
<1>7. convNow \in Seq(Message) /\ 0 \in Nat /\ <<>> \in Seq(Call) /\ <<>> \in AnswerMap
  <2>1. Ask(t) \in Message
    BY TypesAt DEF Ask, Message
  <2> QED BY <2>1, NoAnswers
<1> HIDE DEF pcNow, convNow
<1>8. Becomes(t, pcNow, journal[t], convNow, 0, 0, <<>>, <<>>)
  BY <1>2, <1>5 DEF Becomes
<1>9. journal[t] \in Seq(JobEvent)
  BY TypesAt
<1>10. Quiet
  BY <1>4 DEF Quiet
<1>11. Fits(pcNow, journal[t], convNow, 0, 0, <<>>, <<>>)
  BY <1>3, <1>7, <1>9 DEF Fits
<1>12. Moved(t) /\ pc'[t] = pcNow /\ journal'[t] = journal[t] /\ conv'[t] = convNow
       /\ sent'[t] = 0 /\ todo'[t] = <<>> /\ answers'[t] = <<>>
  BY <1>8, <1>11, <1>10, <1>6, MovedBy
<1> QED
  BY <1>1, <1>4, <1>12 DEF pcNow, convNow

AnsweredWith(t, calls) ==
  /\ journal' = [journal EXCEPT ![t] =
                    @ \o <<[kind |-> "model", calls |-> calls]>> \o Intents(calls)]
  /\ conv' = [conv EXCEPT ![t] = Append(@, Reply(calls))]
  /\ todo' = [todo EXCEPT ![t] = calls]

LEMMA IntentsShape ==
  ASSUME NEW calls \in Seq(Call)
  PROVE  /\ Intents(calls) \in Seq(JobEvent) /\ Len(Intents(calls)) = Len(calls)
         /\ \A i \in 1..Len(calls) : /\ Intents(calls)[i].kind = "intent"
                                     /\ Intents(calls)[i].call = calls[i]
<1> DEFINE n == Len(calls)
           s == [i \in 1..n |-> [kind |-> "intent", call |-> calls[i]]]
<1>1. n \in Nat /\ DOMAIN calls = 1..n /\ \A i \in 1..n : calls[i] \in Call
  OBVIOUS
<1>2. Intents(calls) = s
  BY <1>1 DEF Intents
<1> HIDE DEF n
<1>3. \A i \in 1..n : s[i] = [kind |-> "intent", call |-> calls[i]] /\ s[i] \in JobEvent
  BY <1>1 DEF JobEvent
<1>4. s \in [1..n -> JobEvent]
  BY <1>3
<1> HIDE DEF s
<1>5. s \in Seq(JobEvent) /\ Len(s) = n
  BY <1>1, <1>4
<1>6. ASSUME NEW i \in 1..n PROVE s[i].kind = "intent" /\ s[i].call = calls[i]
  <2>1. s[i] = [kind |-> "intent", call |-> calls[i]]
    BY <1>3
  <2> QED BY <2>1
<1> QED BY <1>2, <1>5, <1>6 DEF n

LEMMA AnsweredDoes ==
  ASSUME Types, NEW t \in Turns, Answered(t)
  PROVE  \E calls \in Seq(Call) :
         /\ calls # <<>> /\ Once(calls) /\ \A c \in Range(calls) : c.reply = replies + 1
         /\ Moved(t)
         /\ pc[t] = "reply"
         /\ replies < MaxReply
         /\ pc'[t] = "run"
         /\ journal'[t] = journal[t] \o <<[kind |-> "model", calls |-> calls]>> \o Intents(calls)
         /\ conv'[t] = Append(conv[t], Reply(calls))
         /\ sent'[t] = sent[t] + 1
         /\ todo'[t] = calls
         /\ answers'[t] = <<>>
         /\ replies' = replies + 1
         /\ UNCHANGED <<offered, effect>>
<1>n. PICK n \in 1..MaxCalls : \E kinds \in [1..n -> Kinds] :
        AnsweredWith(t, [i \in 1..n |-> [reply |-> replies + 1, at |-> i, kind |-> kinds[i]]])
  BY DEF Answered, AnsweredWith
<1>a. PICK kinds \in [1..n -> Kinds] :
        AnsweredWith(t, [i \in 1..n |-> [reply |-> replies + 1, at |-> i, kind |-> kinds[i]]])
  BY <1>n
<1> DEFINE calls == [i \in 1..n |-> [reply |-> replies + 1, at |-> i, kind |-> kinds[i]]]
<1>b. /\ calls \in Seq(Call) /\ calls # <<>> /\ Once(calls)
      /\ \A c \in Range(calls) : c.reply = replies + 1
  <2>1. /\ n \in Nat /\ n >= 1 /\ MaxCalls \in Nat /\ MaxReply \in Nat
        /\ replies \in 0..MaxReply /\ replies < MaxReply
    BY JobJournalAssumption DEF Types, Answered
  <2>2. \A i \in 1..n : /\ calls[i] = [reply |-> replies + 1, at |-> i, kind |-> kinds[i]]
                        /\ calls[i] \in Call
    BY <2>1 DEF Call
  <2>3. calls \in [1..n -> Call] /\ DOMAIN calls = 1..n
    BY <2>2
  <2> HIDE DEF calls
  <2>4. calls \in Seq(Call) /\ Len(calls) = n
    BY <2>1, <2>3
  <2>5. calls # <<>>
    BY <2>1, <2>4
  <2>6. ASSUME NEW i \in 1..n, NEW k \in 1..n, calls[i] = calls[k] PROVE i = k
    <3>1. calls[i] = [reply |-> replies + 1, at |-> i, kind |-> kinds[i]]
      BY <2>2
    <3>2. calls[k] = [reply |-> replies + 1, at |-> k, kind |-> kinds[k]]
      BY <2>2
    <3>3. calls[i].at = i /\ calls[k].at = k
      BY <3>1, <3>2
    <3> QED BY <2>6, <3>3
  <2>7. ASSUME NEW i \in 1..n PROVE calls[i].reply = replies + 1
    <3>1. calls[i] = [reply |-> replies + 1, at |-> i, kind |-> kinds[i]]
      BY <2>2
    <3> QED BY <3>1
  <2>8. \A c \in Range(calls) : c.reply = replies + 1
    BY <2>3, <2>7 DEF Range
  <2> QED BY <2>4, <2>5, <2>6, <2>8 DEF Once
<1>c. AnsweredWith(t, calls)
  BY <1>a
<1> HIDE DEF calls
<1> DEFINE pcNow == "run"
           journalNow == journal[t] \o <<[kind |-> "model", calls |-> calls]>> \o Intents(calls)
           convNow == Append(conv[t], Reply(calls))
           sentNow == sent[t] + 1
           todoNow == calls
           answersNow == <<>>
<1>1. pc[t] = "reply" /\ replies < MaxReply
  BY DEF Answered
<1>2. pc' = [pc EXCEPT ![t] = pcNow]
  BY DEF Answered, Goto, Record
<1>3. journal' = [journal EXCEPT ![t] = journalNow]
  BY <1>c DEF AnsweredWith
<1>4. conv' = [conv EXCEPT ![t] = convNow]
  BY <1>c DEF AnsweredWith
<1>5. sent' = [sent EXCEPT ![t] = sentNow]
  BY DEF Answered, Goto, Record
<1>6. todo' = [todo EXCEPT ![t] = todoNow]
  BY <1>c DEF AnsweredWith
<1>7. answers' = [answers EXCEPT ![t] = answersNow]
  BY DEF Answered, Goto, Record
<1>8. pcNow \in Live \cup {"unwind", "gone"}
  BY DEF Live
<1>9. journalNow \in Seq(JobEvent)
  <2>1. <<[kind |-> "model", calls |-> calls]>> \in Seq(JobEvent)
    BY <1>b DEF JobEvent
  <2>2. Intents(calls) \in Seq(JobEvent)
    BY <1>b, IntentsShape
  <2>3. journal[t] \in Seq(JobEvent)
    BY TypesAt
  <2> QED BY <2>1, <2>2, <2>3
<1>10. convNow \in Seq(Message)
  BY <1>b, TypesAt DEF Reply, Message
<1>11. sentNow \in Nat
  BY TypesAt
<1>12. todoNow \in Seq(Call)
  BY <1>b
<1>13. answersNow \in AnswerMap
  BY NoAnswers
<1>14. /\ UNCHANGED <<depth>>
      /\ UNCHANGED <<lost, closing, up, booted>>
      /\ replies' = replies + 1
      /\ UNCHANGED <<offered, effect>>
  BY DEF Answered, startup, counts, memory, disk
<1>15. /\ depth' = [depth EXCEPT ![t] = depth[t]]
  BY <1>14, Untouched
<1>16. Bounds
  BY <1>1, JobJournalAssumption DEF Bounds, Types, Answered, counts
<1> HIDE DEF pcNow, journalNow, convNow, sentNow, todoNow, answersNow
<1>17. Becomes(t, pcNow, journalNow, convNow, sentNow, depth[t], todoNow, answersNow)
  BY <1>2, <1>3, <1>4, <1>5, <1>6, <1>7, <1>8, <1>9, <1>10, <1>11, <1>12, <1>13, <1>14, <1>15, <1>16 DEF Becomes
<1>18. /\ pc[t] \in Live \cup {"unwind", "gone"} /\ journal[t] \in Seq(JobEvent)
      /\ conv[t] \in Seq(Message) /\ sent[t] \in Nat /\ depth[t] \in Nat
      /\ todo[t] \in Seq(Call) /\ answers[t] \in AnswerMap
  BY TypesAt
<1>19. Quiet
  BY <1>14 DEF Quiet
<1>20. Fits(pcNow, journalNow, convNow, sentNow, depth[t], todoNow, answersNow)
  BY <1>8, <1>9, <1>10, <1>11, <1>12, <1>13, <1>18 DEF Fits
<1>21. Moved(t) /\ pc'[t] = pcNow /\ journal'[t] = journalNow /\ conv'[t] = convNow
      /\ sent'[t] = sentNow /\ depth'[t] = depth[t] /\ todo'[t] = todoNow /\ answers'[t] = answersNow
  BY <1>17, <1>20, <1>19, <1>16, MovedBy
<1> QED
  BY <1>b, <1>1, <1>14, <1>21 DEF pcNow, journalNow, convNow, sentNow, todoNow, answersNow

\* Listings, and what a resume makes of the calls it finds open.
LEMMA RangeFinite ==
  ASSUME NEW S, NEW s \in Seq(S)
  PROVE  IsFiniteSet(Range(s)) /\ Range(s) \subseteq S
<1>1. DOMAIN s = 1..Len(s) /\ Len(s) \in Nat
  OBVIOUS
<1>2. Range(s) = {s[i] : i \in 1..Len(s)}
  BY <1>1 DEF Range
<1>3. IsFiniteSet(1..Len(s))
  BY <1>1, FS_Interval
<1>4. s \in Surjection(1..Len(s), Range(s))
  BY <1>1, <1>2 DEF Surjection
<1>5. \A i \in 1..Len(s) : s[i] \in S
  OBVIOUS
<1> QED BY <1>2, <1>3, <1>4, <1>5, FS_Surjection

LEMMA ListingShape ==
  ASSUME NEW S, IsFiniteSet(S), NEW s \in Listings(S)
  PROVE  s \in Seq(S) /\ Len(s) = Cardinality(S) /\ Range(s) = S
<1>1. Cardinality(S) \in Nat
  BY FS_CardinalityType
<1> QED BY <1>1 DEF Listings

LEMMA KnownOk ==
  ASSUME Types, NEW old \in Rebuildable(effect)
  PROVE  /\ Rerun(old) \subseteq Range(old.calls)
         /\ DOMAIN Known(old) = Range(old.calls) \ Rerun(old)
         /\ Known(old) \in HonestMaps(effect)
         /\ \A c \in Rerun(old) : c.kind # "command"
<1>1. /\ old.calls \in Seq(Call) /\ old.answered \in AnswerMap
      /\ old.answered \in HonestMaps(effect)
  BY RebuildableShape
<1>2. Range(old.calls) \subseteq Call
  BY <1>1, RangeFinite
<1> DEFINE D == Range(old.calls) \ Rerun(old)
<1>3. Rerun(old) \subseteq Range(old.calls)
  BY DEF Rerun
<1>4. \A c \in Call : effect[c] \in Nat /\ c.kind \in {"read", "write", "edit", "append", "command"}
  BY JobJournalAssumption DEF Types, Call
<1>5. /\ DOMAIN Known(old) = D
      /\ \A c \in D : Known(old)[c] = IF c \in DOMAIN old.answered THEN old.answered[c] ELSE Settled(c)
      /\ Known(old) = [c \in D |-> Known(old)[c]]
  BY DEF Known
<1>6. ASSUME NEW c \in D
      PROVE  /\ Known(old)[c] \in Outcomes
             /\ Known(old)[c] = "unknown" => c.kind = "command"
             /\ Known(old)[c] \in {"ok", "already"} => effect[c] >= 1
  <2>1. CASE c \in DOMAIN old.answered
    <3>1. Known(old)[c] = old.answered[c]
      BY <1>5, <2>1
    <3>2. old.answered[c] \in Outcomes
      BY <1>1, <2>1, AnswersShape
    <3>3. /\ old.answered[c] = "unknown" => c.kind = "command"
          /\ old.answered[c] \in {"ok", "already"} => effect[c] >= 1
      BY <1>1, <2>1 DEF HonestMaps
    <3> QED BY <3>1, <3>2, <3>3
  <2>2. CASE c \notin DOMAIN old.answered
    <3>1. Known(old)[c] = Settled(c)
      BY <1>5, <2>2
    <3>2. c \in Call /\ ~RunsAgain(c)
      BY <1>2, <2>2 DEF Rerun
    <3>3. c.kind = "command" \/ (c.kind \in {"write", "edit"} /\ effect[c] # 0)
      BY <1>4, <3>2 DEF RunsAgain
    <3> QED BY <1>4, <3>1, <3>2, <3>3 DEF Settled, Outcomes
  <2> QED BY <2>1, <2>2
<1>7. Known(old) \in AnswerMap
  <2>1. D \in SUBSET Call
    BY <1>2
  <2>2. Known(old) \in [D -> Outcomes]
    BY <1>5, <1>6
  <2> QED BY <2>1, <2>2 DEF AnswerMap
<1>8. Known(old) \in HonestMaps(effect)
  BY <1>5, <1>6, <1>7 DEF HonestMaps
<1>9. \A c \in Rerun(old) : c.kind # "command"
  BY DEF Rerun, RunsAgain
<1> QED BY <1>3, <1>5, <1>8, <1>9

TakenUp(t, old, again) ==
  /\ conv' = [conv EXCEPT ![t] = old.messages]
  /\ depth' = [depth EXCEPT ![t] = old.depth + 1]
  /\ todo' = [todo EXCEPT ![t] = again]
  /\ answers' = [answers EXCEPT ![t] = Known(old)]

LEMMA TakeOfferDoes ==
  ASSUME Types, Journals, NEW t \in Turns, TakeOffer(t)
  PROVE  \E again \in Seq(Call) : \E old \in Rebuildable(effect) :
         /\ old = Rebuild(journal[offered]) /\ offered \in Turns
         /\ Once(again) /\ Range(again) = Rerun(old)
         /\ Moved(t)
         /\ pc[t] = "starting"
         /\ offered # 0
         /\ pc'[t] = "rerun"
         /\ journal'[t] = journal[t]
         /\ conv'[t] = old.messages
         /\ sent'[t] = sent[t]
         /\ todo'[t] = again
         /\ answers'[t] = Known(old)
         /\ offered' = 0
         /\ UNCHANGED <<effect, replies>>
<1> DEFINE old == Rebuild(journal[offered])
<1>a. PICK again \in Listings(Rerun(old)) :
        /\ \A i, j \in DOMAIN again : i < j => again[i].at < again[j].at
        /\ TakenUp(t, old, again)
  BY DEF TakeOffer, Rebuilt, TakenUp
<1>b. /\ offered \in Turns /\ old \in Rebuildable(effect)
      /\ old.messages \in Seq(Message) /\ old.calls \in Seq(Call)
      /\ old.depth \in Nat /\ old.depth + 1 \in Nat
  <2>1. offered \in Turns
    BY DEF Types, Turns, TakeOffer
  <2>2. old \in Rebuildable(effect)
    BY <2>1 DEF Journals
  <2> HIDE DEF old
  <2> QED BY <2>1, <2>2, RebuildableShape
<1>c. TakenUp(t, old, again)
  BY <1>a
<1> HIDE DEF old
<1>e. /\ Rerun(old) \subseteq Range(old.calls) /\ Known(old) \in HonestMaps(effect)
  BY <1>b, KnownOk
<1>d. again \in Seq(Call) /\ Once(again) /\ Range(again) = Rerun(old)
  <2>1. IsFiniteSet(Range(old.calls)) /\ Range(old.calls) \subseteq Call
    BY <1>b, RangeFinite
  <2>2. IsFiniteSet(Rerun(old)) /\ Rerun(old) \subseteq Call
    BY <1>e, <2>1, FS_Subset
  <2>3. again \in Seq(Rerun(old)) /\ Range(again) = Rerun(old)
    BY <1>a, <2>2, ListingShape
  <2>4. again \in Seq(Call) /\ DOMAIN again = 1..Len(again) /\ Len(again) \in Nat
    BY <2>2, <2>3, SeqMonotonic
  <2>5. ASSUME NEW i \in 1..Len(again), NEW j \in 1..Len(again), i < j
        PROVE  again[i] # again[j]
    <3>1. again[i].at < again[j].at /\ again[i] \in Call /\ again[j] \in Call
      BY <1>a, <2>4, <2>5
    <3>2. again[i].at \in Int /\ again[j].at \in Int
      BY <3>1, JobJournalAssumption DEF Call
    <3> QED BY <3>1, <3>2
  <2>6. Once(again)
    <3> SUFFICES ASSUME NEW i \in 1..Len(again), NEW j \in 1..Len(again), i # j
                 PROVE  again[i] # again[j]
      BY DEF Once
    <3>1. i < j \/ j < i
      BY <2>4
    <3> QED BY <2>5, <3>1
  <2> QED BY <2>3, <2>4, <2>6
<1> DEFINE pcNow == "rerun"
           convNow == old.messages
           depthNow == old.depth + 1
           todoNow == again
           answersNow == Known(old)
<1>1. pc[t] = "starting" /\ offered # 0
  BY DEF TakeOffer
<1>2. pc' = [pc EXCEPT ![t] = pcNow]
  BY DEF TakeOffer, Goto, Record
<1>3. conv' = [conv EXCEPT ![t] = convNow]
  BY <1>c DEF TakenUp
<1>4. depth' = [depth EXCEPT ![t] = depthNow]
  BY <1>c DEF TakenUp
<1>5. todo' = [todo EXCEPT ![t] = todoNow]
  BY <1>c DEF TakenUp
<1>6. answers' = [answers EXCEPT ![t] = answersNow]
  BY <1>c DEF TakenUp
<1>7. pcNow \in Live \cup {"unwind", "gone"}
  BY DEF Live
<1>8. convNow \in Seq(Message)
  BY <1>b
<1>9. depthNow \in Nat
  BY <1>b
<1>10. todoNow \in Seq(Call)
  BY <1>d
<1>11. answersNow \in AnswerMap
  BY <1>e DEF HonestMaps
<1>12. /\ UNCHANGED <<journal, sent>>
      /\ UNCHANGED <<lost, closing, up, booted>>
      /\ offered' = 0
      /\ UNCHANGED <<effect, replies>>
  BY DEF TakeOffer, startup, counts, memory, disk
<1>13. /\ journal' = [journal EXCEPT ![t] = journal[t]]
      /\ sent' = [sent EXCEPT ![t] = sent[t]]
  BY <1>12, Untouched
<1>14. Bounds
  BY <1>1, JobJournalAssumption DEF Bounds, Types, TakeOffer, counts
<1> HIDE DEF pcNow, convNow, depthNow, todoNow, answersNow
<1>15. Becomes(t, pcNow, journal[t], convNow, sent[t], depthNow, todoNow, answersNow)
  BY <1>2, <1>3, <1>4, <1>5, <1>6, <1>7, <1>8, <1>9, <1>10, <1>11, <1>12, <1>13, <1>14 DEF Becomes
<1>16. /\ pc[t] \in Live \cup {"unwind", "gone"} /\ journal[t] \in Seq(JobEvent)
      /\ conv[t] \in Seq(Message) /\ sent[t] \in Nat /\ depth[t] \in Nat
      /\ todo[t] \in Seq(Call) /\ answers[t] \in AnswerMap
  BY TypesAt
<1>17. Quiet
  BY <1>12 DEF Quiet
<1>18. Fits(pcNow, journal[t], convNow, sent[t], depthNow, todoNow, answersNow)
  BY <1>7, <1>8, <1>9, <1>10, <1>11, <1>16 DEF Fits
<1>19. Moved(t) /\ pc'[t] = pcNow /\ journal'[t] = journal[t] /\ conv'[t] = convNow
      /\ sent'[t] = sent[t] /\ depth'[t] = depthNow /\ todo'[t] = todoNow /\ answers'[t] = answersNow
  BY <1>15, <1>18, <1>17, <1>14, MovedBy
<1> QED
  BY <1>b, <1>d, <1>1, <1>12, <1>19 DEF pcNow, convNow, depthNow, todoNow, answersNow, old

-----------------------------------------------------------------------------
(* A step of one turn leaves what is said of the others standing. *)

Growing ==
  \A c \in Call : effect[c] \in Nat /\ effect'[c] \in Nat /\ effect'[c] >= effect[c]

LEMMA GrowsByOne ==
  ASSUME Types, Types',
         effect' = effect \/ \E c \in Call : effect' = [effect EXCEPT ![c] = @ + 1]
  PROVE  Growing
<1>1. \A c \in Call : effect[c] \in Nat /\ effect'[c] \in Nat
  BY DEF Types
<1>2. \A c \in Call : effect'[c] = effect[c] \/ effect'[c] = effect[c] + 1
  <2>1. effect \in [Call -> Nat]
    BY DEF Types
  <2> QED BY <2>1
<1> QED BY <1>1, <1>2 DEF Growing

LEMMA PlaceStays ==
  ASSUME Types, NEW u \in Turns, PlaceOk(u), Same(u), Growing
  PROVE  PlaceOk(u)'
<1>1. HonestTalk(effect) \subseteq HonestTalk(effect') /\ HonestMaps(effect) \subseteq HonestMaps(effect')
  BY HonestStays DEF Growing
<1>2. TalkOk(u)'
  BY <1>1 DEF PlaceOk, TalkOk, Same
<1>3. BeginOk(u)'
  BY DEF PlaceOk, BeginOk, Same
<1>4. LoopOk(u)'
  <2>1. pc[u] = "result" => effect'[todo[u][1]] >= 1
    <3> SUFFICES ASSUME pc[u] = "result" PROVE effect'[todo[u][1]] >= 1
      OBVIOUS
    <3>1. todo[u] # <<>> /\ effect[todo[u][1]] >= 1
      BY DEF PlaceOk, LoopOk
    <3>2. todo[u][1] \in Call
      BY <3>1, TypesAt, FirstAndRest
    <3> QED BY <3>1, <3>2 DEF Growing
  <2> QED BY <2>1 DEF PlaceOk, LoopOk, Same, Started
<1> QED BY <1>2, <1>3, <1>4 DEF PlaceOk

JournalOk(records, made) ==
  /\ Rebuild(records) \in Rebuildable(made)
  /\ Range(Rebuild(records).calls) \subseteq Intended(records)

LEMMA TurnPlaces ==
  ASSUME IInv, NEW t \in Turns, Moved(t), Growing,
         JournalOk(journal'[t], effect'), PlaceOk(t)'
  PROVE  Journals' /\ Places'
<1>1. Turns' = Turns
  BY DEF Moved, Turns
<1>2. Rebuildable(effect) \subseteq Rebuildable(effect')
  BY HonestStays DEF Growing
<1>3. ASSUME NEW u \in Turns PROVE JournalOk(journal'[u], effect')
  <2>1. CASE u = t
    BY <2>1
  <2>2. CASE u # t
    <3>1. journal'[u] = journal[u]
      BY <2>2 DEF Moved, Same
    <3>2. JournalOk(journal[u], effect)
      BY DEF IInv, Journals, JournalOk
    <3> QED BY <1>2, <3>1, <3>2 DEF JournalOk
  <2> QED BY <2>1, <2>2
<1>4. ASSUME NEW u \in Turns PROVE PlaceOk(u)'
  <2>1. CASE u = t
    BY <2>1
  <2>2. CASE u # t
    <3>1. Same(u) /\ PlaceOk(u)
      BY <2>2 DEF Moved, IInv, Places
    <3> QED BY <3>1, PlaceStays DEF IInv
  <2> QED BY <2>1, <2>2
<1>5. Journals'
  BY <1>1, <1>3 DEF Journals, JournalOk
<1>6. Places'
  BY <1>1, <1>4 DEF Places
<1> QED BY <1>5, <1>6

LEMMA TurnHanding ==
  ASSUME IInv, NEW t \in Turns, Moved(t), pc[t] # "gone", offered' = offered \/ offered' = 0
  PROVE  Lost' /\ Handing' /\ Offering' /\ Room'
<1>1. Turns' = Turns /\ Len(pc') = Len(pc) /\ UNCHANGED <<lost, closing, up, booted>>
  BY DEF Moved, Turns
<1>2. ASSUME NEW u \in Turns, pc[u] = "gone"
      PROVE  pc'[u] = "gone" /\ journal'[u] = journal[u]
  BY <1>2 DEF Moved, Same
<1>3. booted
  BY DEF IInv, Handing
<1>4. Handing' /\ Room'
  BY <1>1, <1>3 DEF IInv, Handing, Room
<1>5. Lost'
  <2>1. ASSUME NEW i \in 1..Len(lost)
        PROVE  Started(lost[i])' /\ pc'[lost[i]] = "gone"
    <3>1. lost[i] \in Turns /\ Started(lost[i]) /\ pc[lost[i]] = "gone"
      BY DEF IInv, Lost, Types
    <3>2. pc'[lost[i]] = "gone" /\ journal'[lost[i]] = journal[lost[i]]
      BY <1>2, <3>1
    <3> QED BY <1>1, <3>1, <3>2 DEF Started
  <2> QED BY <1>1, <2>1 DEF Lost
<1>6. Offering'
  <2>1. CASE offered' = 0
    BY <2>1 DEF Offering
  <2>2. CASE offered' = offered /\ offered # 0
    <3>1. offered \in Turns /\ pc[offered] = "gone"
      BY <2>2 DEF IInv, Offering, Types, Turns
    <3>2. pc'[offered] = "gone"
      BY <1>2, <3>1
    <3> QED BY <1>1, <2>2, <3>1, <3>2 DEF Offering
  <2> QED BY <2>1, <2>2
<1> QED BY <1>4, <1>5, <1>6

(* ... also where it takes the calls it still has to run again from those   *)
(* it had, and makes at most the first of them.                             *)
Narrows(t) ==
  /\ Intended(journal'[t]) = Intended(journal[t])
  /\ pc'[t] = "rerun" => pc[t] = "rerun" /\ Range(todo'[t]) \subseteq Range(todo[t])
MakesFirst(t) ==
  /\ pc[t] = "run" \/ (pc[t] = "rerun" /\ Lands(todo[t][1]))
  /\ todo[t] # <<>>
  /\ effect' = [effect EXCEPT ![todo[t][1]] = @ + 1]

LEMMA FirstCall ==
  ASSUME IInv, NEW t \in Turns, MakesFirst(t)
  PROVE  /\ todo[t][1] \in Call /\ todo[t][1] \in Range(todo[t])
         /\ effect \in [Call -> Nat]
         /\ Single(todo[t][1]) => effect[todo[t][1]] = 0
         /\ \E o \in Turns : todo[t][1] \in Intended(journal[o]) /\ (o = t \/ pc[o] = "gone")
<1> DEFINE first == todo[t][1]
<1>1. /\ todo[t] \in Seq(Call) /\ todo[t] # <<>> /\ effect \in [Call -> Nat]
      /\ pc[t] \in {"rerun", "run"}
  BY TypesAt DEF IInv, Types, MakesFirst
<1>2. first \in Call /\ first \in Range(todo[t]) /\ 1 \in 1..Len(todo[t])
  BY <1>1, FirstAndRest
<1>3. CASE pc[t] = "run"
  <2>1. LoopOk(t) /\ FreshOk(t)
    BY DEF IInv, Places, PlaceOk, Fresh
  <2>2. Range(todo[t]) \subseteq Intended(journal[t])
    BY <1>3, <2>1 DEF LoopOk
  <2>3. Single(first) => effect[first] = 0
    BY <1>2, <1>3, <2>1 DEF FreshOk
  <2> QED BY <1>1, <1>2, <2>2, <2>3
<1>4. CASE pc[t] = "rerun"
  <2>1. SourceOk(t) /\ Lands(first)
    BY <1>4 DEF IInv, Sources, MakesFirst
  <2>2. /\ first.kind # "command"
        /\ \E o \in Turns : first \in Intended(journal[o]) /\ pc[o] = "gone"
    BY <1>2, <1>4, <2>1 DEF SourceOk
  <2>3. Single(first) => effect[first] = 0
    BY <2>1, <2>2 DEF Single, Lands
  <2> QED BY <1>1, <1>2, <2>2, <2>3
<1> QED BY <1>1, <1>3, <1>4

LEMMA TurnCalls ==
  ASSUME IInv, NEW t \in Turns, Moved(t), pc[t] # "gone", Narrows(t), FreshOk(t)',
         effect' = effect \/ MakesFirst(t),
         UNCHANGED <<offered, replies>>
  PROVE  Named' /\ Fresh' /\ Sources' /\ Effects'
<1>1. Turns' = Turns /\ UNCHANGED <<offered, replies>>
  BY DEF Moved, Turns
<1>2. \A u \in Turns : u # t => Same(u)
  BY DEF Moved
<1>3. \A u \in Turns : Intended(journal'[u]) = Intended(journal[u])
  BY <1>2 DEF Same, Narrows
<1>4. Named'
  BY <1>1, <1>3 DEF IInv, Named
<1>5. ASSUME NEW u \in Turns PROVE FreshOk(u)'
  <2>1. CASE u = t
    BY <2>1
  <2>2. CASE u # t
    <3>1. Same(u) /\ FreshOk(u) /\ LoopOk(u) /\ todo[u] \in Seq(Call)
      BY <1>2, <2>2, TypesAt DEF IInv, Fresh, Places, PlaceOk
    <3>2. CASE effect' = effect
      BY <3>1, <3>2 DEF Same, FreshOk
    <3>3. CASE MakesFirst(t)
      <4> SUFFICES ASSUME pc[u] \in {"run", "result"}, NEW i \in 1..Len(todo[u]),
                          Single(todo[u][i])
                   PROVE  effect'[todo[u][i]] = effect[todo[u][i]]
        BY <3>1 DEF Same, FreshOk
      <4>1. effect \in [Call -> Nat]
        BY <3>3, FirstCall
      <4>2. PICK o \in Turns :
              todo[t][1] \in Intended(journal[o]) /\ (o = t \/ pc[o] = "gone")
        BY <3>3, FirstCall
      <4>3. todo[u][i] \in Range(todo[u]) /\ todo[u][i] \in Call
        BY <3>1 DEF Range
      <4>4. todo[u][i] \in Intended(journal[u])
        BY <3>1, <4>3 DEF LoopOk
      <4>5. o # u
        BY <2>2, <4>2
      <4>6. Intended(journal[o]) \cap Intended(journal[u]) = {}
        BY <4>5 DEF IInv, Named
      <4>7. todo[u][i] # todo[t][1]
        BY <4>2, <4>4, <4>6
      <4> QED BY <3>3, <4>1, <4>3, <4>7 DEF MakesFirst
    <3> QED BY <3>2, <3>3
  <2> QED BY <2>1, <2>2
<1>6. Fresh'
  BY <1>1, <1>5 DEF Fresh
<1>7. ASSUME NEW u \in Turns PROVE SourceOk(u)'
  <2> SUFFICES ASSUME pc'[u] = "rerun", NEW c \in Range(todo'[u])
               PROVE  /\ c.kind # "command"
                      /\ \E o \in Turns : c \in Intended(journal'[o]) /\ pc'[o] = "gone"
    BY <1>1 DEF SourceOk
  <2>1. pc[u] = "rerun" /\ c \in Range(todo[u])
    BY <1>2 DEF Same, Narrows
  <2>2. c.kind # "command"
    BY <2>1 DEF IInv, Sources, SourceOk
  <2>3. PICK o \in Turns : c \in Intended(journal[o]) /\ pc[o] = "gone"
    BY <2>1 DEF IInv, Sources, SourceOk
  <2>4. Same(o)
    BY <1>2, <2>3
  <2> QED BY <2>2, <2>3, <2>4 DEF Same
<1>8. Sources'
  BY <1>1, <1>7 DEF Sources
<1>9. ASSUME NEW c \in Call
      PROVE  /\ Single(c) => effect'[c] <= 1
             /\ effect'[c] > 0 => \E u \in Turns : c \in Intended(journal'[u])
  <2>1. /\ Single(c) => effect[c] <= 1
        /\ effect[c] > 0 => \E u \in Turns : c \in Intended(journal[u])
    BY DEF IInv, Effects
  <2>2. CASE effect'[c] = effect[c]
    BY <1>3, <2>1, <2>2
  <2>3. CASE MakesFirst(t)
    <3>1. /\ todo[t][1] \in Call /\ effect \in [Call -> Nat]
          /\ Single(todo[t][1]) => effect[todo[t][1]] = 0
          /\ \E o \in Turns : todo[t][1] \in Intended(journal[o])
      BY <2>3, FirstCall
    <3>2. effect'[c] = IF c = todo[t][1] THEN effect[c] + 1 ELSE effect[c]
      BY <2>3, <3>1 DEF MakesFirst
    <3>3. CASE c = todo[t][1]
      <4>1. effect'[c] = effect[c] + 1 /\ (Single(c) => effect[c] = 0)
        BY <3>1, <3>2, <3>3
      <4>2. \E o \in Turns : c \in Intended(journal'[o])
        BY <1>3, <3>1, <3>3
      <4> QED BY <4>1, <4>2
    <3>4. CASE c # todo[t][1]
      BY <2>2, <3>2, <3>4
    <3> QED BY <3>3, <3>4
  <2> QED BY <2>2, <2>3
<1>10. Effects'
  BY <1>1, <1>9 DEF Effects
<1> QED BY <1>4, <1>6, <1>8, <1>10

-----------------------------------------------------------------------------
(* Each step of a turn keeps the invariant. *)

LEMMA TurnKeeps ==
  ASSUME IInv, NEW t \in Turns, Moved(t), pc[t] # "gone", Narrows(t), FreshOk(t)',
         effect' = effect \/ MakesFirst(t), UNCHANGED <<offered, replies>>,
         JournalOk(journal'[t], effect'), PlaceOk(t)'
  PROVE  IInv'
<1>1. Types /\ Types'
  BY DEF IInv, Moved
<1>2. effect' = effect \/ \E c \in Call : effect' = [effect EXCEPT ![c] = @ + 1]
  <2>1. CASE MakesFirst(t)
    BY <2>1, FirstCall DEF MakesFirst
  <2> QED BY <2>1
<1>3. Growing
  BY <1>1, <1>2, GrowsByOne
<1>4. Journals' /\ Places'
  BY <1>3, TurnPlaces
<1>5. Lost' /\ Handing' /\ Offering' /\ Room'
  BY TurnHanding
<1>6. Named' /\ Fresh' /\ Sources' /\ Effects'
  BY TurnCalls
<1> QED BY <1>1, <1>4, <1>5, <1>6 DEF IInv

LEMMA OwnPlace ==
  ASSUME IInv, NEW t \in Turns
  PROVE  /\ Types /\ TalkOk(t) /\ BeginOk(t) /\ LoopOk(t) /\ FreshOk(t)
         /\ JournalOk(journal[t], effect)
BY DEF IInv, Places, PlaceOk, Fresh, Journals, JournalOk

LEMMA FailEarlyKeeps ==
  ASSUME IInv, NEW t \in Turns, FailEarly(t)
  PROVE  IInv'
<1>1. /\ Moved(t) /\ pc[t] = "starting" /\ pc'[t] = "gone" /\ journal'[t] = journal[t]
      /\ conv'[t] = conv[t] /\ sent'[t] = sent[t] /\ todo'[t] = todo[t]
      /\ answers'[t] = answers[t] /\ UNCHANGED <<offered, effect, replies>>
  BY FailEarlyDoes DEF IInv
<1>2. TalkOk(t)' /\ BeginOk(t)' /\ LoopOk(t)' /\ FreshOk(t)' /\ JournalOk(journal'[t], effect')
  BY <1>1, OwnPlace DEF TalkOk, BeginOk, LoopOk, FreshOk, Running, InLoop
<1>3. Narrows(t)
  BY <1>1 DEF Narrows, Running
<1> QED BY <1>1, <1>2, <1>3, TurnKeeps DEF PlaceOk

LEMMA NoOfferKeeps ==
  ASSUME IInv, NEW t \in Turns, NoOffer(t)
  PROVE  IInv'
<1>1. /\ Moved(t) /\ pc[t] = "starting" /\ pc'[t] = "open" /\ journal'[t] = journal[t]
      /\ conv'[t] = conv[t] /\ sent'[t] = sent[t] /\ todo'[t] = todo[t]
      /\ answers'[t] = answers[t] /\ UNCHANGED <<offered, effect, replies>>
  BY NoOfferDoes DEF IInv
<1>2. TalkOk(t)' /\ BeginOk(t)' /\ LoopOk(t)' /\ FreshOk(t)' /\ JournalOk(journal'[t], effect')
  BY <1>1, OwnPlace DEF TalkOk, BeginOk, LoopOk, FreshOk, Running, InLoop
<1>3. Narrows(t)
  BY <1>1 DEF Narrows, Running
<1> QED BY <1>1, <1>2, <1>3, TurnKeeps DEF PlaceOk

\* The first call was made: what is left to run is as fresh as it was.
LEMMA RestIsFresh ==
  ASSUME IInv, NEW t \in Turns, pc[t] \in {"run", "result"}, todo[t] # <<>>,
         effect' = effect \/ effect' = [effect EXCEPT ![todo[t][1]] = @ + 1]
  PROVE  /\ Once(Tail(todo[t]))
         /\ \A i \in 2..Len(todo[t]) : Single(todo[t][i]) => effect'[todo[t][i]] = 0
         /\ \A i \in 1..Len(Tail(todo[t])) :
              Single(Tail(todo[t])[i]) => effect'[Tail(todo[t])[i]] = 0
<1>1. /\ todo[t] \in Seq(Call) /\ FreshOk(t) /\ effect \in [Call -> Nat]
  BY TypesAt DEF IInv, Types, Fresh
<1>2. /\ Len(todo[t]) \in Nat /\ Len(Tail(todo[t])) = Len(todo[t]) - 1
      /\ \A i \in 1..Len(Tail(todo[t])) : Tail(todo[t])[i] = todo[t][i + 1]
      /\ Once(todo[t]) /\ Once(Tail(todo[t]))
  BY <1>1, FirstAndRest DEF FreshOk
<1>3. ASSUME NEW i \in 2..Len(todo[t]), Single(todo[t][i])
      PROVE  effect'[todo[t][i]] = 0
  <2>1. i \in 1..Len(todo[t]) /\ 1 \in 1..Len(todo[t]) /\ i # 1
    BY <1>2
  <2>2. todo[t][i] # todo[t][1] /\ todo[t][i] \in Call /\ todo[t][1] \in Call
    BY <1>1, <1>2, <2>1 DEF Once
  <2>3. effect[todo[t][i]] = 0
    BY <1>1, <1>3, <2>1 DEF FreshOk
  <2> QED BY <1>1, <2>2, <2>3
<1>4. ASSUME NEW i \in 1..Len(Tail(todo[t])), Single(Tail(todo[t])[i])
      PROVE  effect'[Tail(todo[t])[i]] = 0
  <2>1. i + 1 \in 2..Len(todo[t]) /\ Tail(todo[t])[i] = todo[t][i + 1]
    BY <1>2
  <2> QED BY <1>3, <1>4, <2>1
<1> QED BY <1>2, <1>3, <1>4

LEMMA HonestLater ==
  ASSUME Types, Types',
         effect' = effect \/ \E c \in Call : effect' = [effect EXCEPT ![c] = @ + 1]
  PROVE  /\ HonestMaps(effect) \subseteq HonestMaps(effect')
         /\ HonestTalk(effect) \subseteq HonestTalk(effect')
         /\ Rebuildable(effect) \subseteq Rebuildable(effect')
BY GrowsByOne, HonestStays DEF Growing

LEMMA RunAgainKeeps ==
  ASSUME IInv, NEW t \in Turns, RunAgain(t)
  PROVE  IInv'
<1> DEFINE first == todo[t][1]
           rest == Tail(todo[t])
<1>1. /\ todo[t] \in Seq(Call) /\ answers[t] \in AnswerMap /\ Types /\ todo[t] # <<>>
  BY TypesAt DEF IInv, RunAgain
<1>2. /\ first = Head(todo[t]) /\ first \in Call
      /\ Range(rest) \subseteq Range(todo[t]) /\ Range(todo[t]) = {first} \cup Range(rest)
  BY <1>1, FirstAndRest
<1>a. PICK answer \in {"ok", "failed"} :
        /\ answers'[t] = Answering(answers[t], first, answer)
        /\ IF Lands(first)
           THEN answer = "ok" /\ effect' = [effect EXCEPT ![first] = @ + 1]
           ELSE answer = "failed" /\ effect' = effect
  BY <1>1, <1>2, RunAgainDoes
<1> DEFINE more == Answering(answers[t], first, answer)
<1>3. /\ Moved(t) /\ pc[t] = "rerun" /\ pc'[t] = pc[t] /\ journal'[t] = journal[t]
      /\ conv'[t] = conv[t] /\ sent'[t] = sent[t] /\ todo'[t] = rest
      /\ answers'[t] = more /\ UNCHANGED <<offered, replies>>
  BY <1>1, <1>2, <1>a, RunAgainDoes
<1> HIDE DEF rest
<1>4. effect' = effect \/ (Lands(first) /\ effect' = [effect EXCEPT ![first] = @ + 1])
  BY <1>a
<1>5. effect' = effect \/ MakesFirst(t)
  BY <1>1, <1>3, <1>4 DEF MakesFirst
<1>6. /\ HonestMaps(effect) \subseteq HonestMaps(effect')
      /\ HonestTalk(effect) \subseteq HonestTalk(effect')
      /\ Rebuildable(effect) \subseteq Rebuildable(effect')
  BY <1>1, <1>2, <1>3, <1>4, HonestLater DEF Moved
<1>7. more \in HonestMaps(effect') /\ DOMAIN more = {first} \cup DOMAIN answers[t]
  <2>1. answers[t] \in HonestMaps(effect')
    BY <1>6, OwnPlace DEF TalkOk
  <2>2. answer = "ok" => effect'[first] >= 1
    <3>1. effect \in [Call -> Nat]
      BY <1>1 DEF Types
    <3>2. answer = "ok" => effect[first] \in Nat /\ effect'[first] = effect[first] + 1
      BY <1>2, <1>a, <3>1
    <3> QED BY <3>2
  <2>3. answer \in Outcomes
    BY DEF Outcomes
  <2> HIDE DEF first
  <2>4. DOMAIN more = {first} \cup DOMAIN answers[t]
    BY <1>1, <1>2, <2>3, OneMore
  <2>5. more \in HonestMaps(effect')
    BY <1>2, <2>1, <2>2, HonestMore
  <2> QED BY <2>4, <2>5
<1> HIDE DEF more, first
<1>8. TalkOk(t)'
  BY <1>3, <1>6, <1>7, OwnPlace DEF TalkOk
<1>9. BeginOk(t)'
  BY <1>2, <1>3, <1>7, OwnPlace DEF BeginOk, Running, IsOpen
<1>10. LoopOk(t)'
  BY <1>3 DEF LoopOk, InLoop
<1>11. FreshOk(t)'
  BY <1>3 DEF FreshOk
<1>12. JournalOk(journal'[t], effect')
  BY <1>3, <1>6, OwnPlace DEF JournalOk
<1>13. Narrows(t)
  BY <1>2, <1>3 DEF Narrows
<1> QED BY <1>3, <1>5, <1>8, <1>9, <1>10, <1>11, <1>12, <1>13, TurnKeeps DEF PlaceOk

LEMMA OpensSome ==
  ASSUME NEW talk \in Seq(Message), Paired(talk), Tidy, AnswersOpen(talk)
  PROVE  OpenCalls(talk) # {}
<1>1. Len(talk) \in 1..Len(talk) /\ talk[Len(talk)] \in Message /\ talk[Len(talk)].role = "assistant"
  BY DEF AnswersOpen
<1> DEFINE calls == talk[Len(talk)].calls
<1>2. calls \in Seq(Call) /\ calls # <<>>
  BY <1>1, MessageShape DEF Paired
<1>3. Head(calls) \in Range(calls)
  BY <1>2, FirstAndRest
<1> QED BY <1>3 DEF OpenCalls

LEMMA IntendedAppend ==
  ASSUME NEW records \in Seq(JobEvent), NEW rec \in JobEvent, rec.kind # "intent"
  PROVE  Intended(Append(records, rec)) = Intended(records)
<1> DEFINE more == Append(records, rec)
           n == Len(records)
<1>1. n \in Nat /\ Len(more) = n + 1 /\ more[n + 1] = rec /\ \A i \in 1..n : more[i] = records[i]
  OBVIOUS
<1> HIDE DEF more, n
<1>2. \A i \in 1..Len(more) : more[i].kind = "intent" => i \in 1..n /\ more[i] = records[i]
  BY <1>1
<1>3. \A i \in 1..n : i \in 1..Len(more) /\ more[i] = records[i]
  BY <1>1
<1> QED BY <1>2, <1>3 DEF Intended, more, n

\* The last message answers a reply: it goes to the journal on its own.
LEMMA LastIsTools ==
  ASSUME NEW talk \in Seq(Message), Paired(talk), NEW n \in Nat, n + 1 = Len(talk),
         talk[n + 1].role = "tool"
  PROVE  /\ talk[n + 1] = Tools(talk[n + 1].of)
         /\ Opens(SubSeq(talk, 1, n), DOMAIN talk[n + 1].of)
         /\ SubSeq(talk, n + 1, Len(talk)) = <<talk[n + 1]>>
         /\ Append(SubSeq(talk, 1, n), talk[n + 1]) = talk
<1> DEFINE m == talk[n + 1]
           front == SubSeq(talk, 1, n)
<1>1. m \in Message /\ n + 1 \in 1..Len(talk)
  OBVIOUS
<1>2. m = Tools(m.of)
  BY <1>1 DEF Message, Tools
<1>3. Tidy => n >= 1 /\ n \in 1..Len(talk) /\ talk[n].role = "assistant" /\ n < Len(talk)
  BY <1>1 DEF Paired
<1>4. Tidy => DOMAIN m.of = Range(talk[n].calls)
  BY <1>3 DEF Paired
<1>5. Tidy => Len(front) = n /\ front[n] = talk[n]
  BY <1>3
<1>6. SubSeq(talk, n + 1, Len(talk)) = <<m>>
  <2> DEFINE last == SubSeq(talk, n + 1, Len(talk))
  <2>1. last \in Seq(Message) /\ Len(last) = 1 /\ last[1] = m
    BY <1>1
  <2>2. <<m>> \in Seq(Message) /\ Len(<<m>>) = 1 /\ <<m>>[1] = m
    BY <1>1
  <2> HIDE DEF last
  <2>3. \A i \in 1..Len(last) : last[i] = <<m>>[i]
    BY <2>1, <2>2
  <2> QED BY <2>1, <2>2, <2>3, SeqEqual DEF last
<1>7. Append(front, m) = talk
  OBVIOUS
<1> HIDE DEF m, front
<1>8. Opens(front, DOMAIN m.of)
  BY <1>3, <1>4, <1>5 DEF AnswersOpen, OpenCalls, Opens
<1> QED BY <1>2, <1>6, <1>7, <1>8 DEF m, front

LEMMA RunAgainDoneKeeps ==
  ASSUME IInv, NEW t \in Turns, RunAgainDone(t)
  PROVE  IInv'
<1> DEFINE more == IF answers[t] = <<>> THEN conv[t] ELSE Append(conv[t], Tools(answers[t]))
<1>1. /\ Moved(t) /\ pc[t] = "rerun" /\ todo[t] = <<>> /\ pc'[t] = "open"
      /\ journal'[t] = journal[t] /\ conv'[t] = more
      /\ sent'[t] = sent[t] /\ todo'[t] = todo[t] /\ answers'[t] = <<>>
      /\ UNCHANGED <<offered, effect, replies>>
  BY RunAgainDoneDoes DEF IInv
<1>2. /\ conv[t] \in Seq(Message) /\ answers[t] \in AnswerMap /\ sent[t] \in Nat
      /\ Paired(conv[t]) /\ conv[t] \in HonestTalk(effect) /\ answers[t] \in HonestMaps(effect)
      /\ sent[t] <= Len(conv[t]) /\ sent[t] = 0 /\ Shut(Rebuild(journal[t]).messages)
      /\ JournalOk(journal[t], effect)
  BY <1>1, TypesAt, OwnPlace DEF TalkOk, BeginOk
<1>3. IsOpen(conv[t], DOMAIN answers[t])
  <2>1. Range(todo[t]) = {}
    BY <1>1, NoAnswers
  <2> QED BY <1>1, <2>1, OwnPlace DEF BeginOk, Running, IsOpen
<1>4. more \in HonestTalk(effect) /\ Paired(more) /\ Shut(more) /\ sent[t] <= Len(more)
  <2>1. CASE answers[t] = <<>>
    <3>1. (Tidy => OpenCalls(conv[t]) = {}) /\ more = conv[t]
      BY <1>3, <2>1, NoAnswers DEF IsOpen
    <3> QED BY <1>2, <3>1, OpensSome DEF Shut
  <2>2. CASE answers[t] # <<>>
    <3>1. Opens(conv[t], DOMAIN answers[t])
      BY <1>2, <1>3, <2>2, AnswersShape DEF OpenCalls, Opens, IsOpen
    <3>2. /\ Tools(answers[t]) \in Message /\ Tools(answers[t]).of = answers[t]
          /\ Paired(Append(conv[t], Tools(answers[t])))
          /\ Shut(Append(conv[t], Tools(answers[t])))
      BY <1>2, <1>3, <3>1, ToolsClose DEF Shut
    <3>3. Append(conv[t], Tools(answers[t])) \in HonestTalk(effect)
      BY <1>2, <3>2, HonestGrows
    <3>4. Len(Append(conv[t], Tools(answers[t]))) = Len(conv[t]) + 1
      BY <1>2, <3>2, TalkGrows
    <3>5. sent[t] <= Len(conv[t]) + 1
      BY <1>2
    <3> QED BY <2>2, <3>2, <3>3, <3>4, <3>5
  <2> QED BY <2>1, <2>2
<1> HIDE DEF more
<1>5. <<>> \in HonestMaps(effect)
  BY NoAnswers DEF HonestMaps
<1>6. TalkOk(t)' /\ BeginOk(t)' /\ LoopOk(t)' /\ FreshOk(t)'
  BY <1>1, <1>2, <1>4, <1>5 DEF TalkOk, BeginOk, LoopOk, FreshOk, Running, InLoop
<1>7. Narrows(t) /\ JournalOk(journal'[t], effect')
  BY <1>1, <1>2 DEF Narrows, Running
<1> QED BY <1>1, <1>6, <1>7, TurnKeeps DEF PlaceOk

LEMMA OpenKeeps ==
  ASSUME IInv, NEW t \in Turns, Open(t)
  PROVE  IInv'
<1> DEFINE rec == [kind |-> "start", messages |-> conv[t], depth |-> depth[t]]
<1>1. /\ Moved(t) /\ pc[t] = "open" /\ pc'[t] = "ask"
      /\ journal'[t] = Append(journal[t], rec) /\ conv'[t] = conv[t]
      /\ sent'[t] = Len(conv[t]) /\ todo'[t] = todo[t] /\ answers'[t] = answers[t]
      /\ UNCHANGED <<offered, effect, replies>>
  BY OpenDoes DEF IInv
<1>2. /\ conv[t] \in Seq(Message) /\ Paired(conv[t]) /\ conv[t] \in HonestTalk(effect)
      /\ Shut(conv[t]) /\ answers[t] \in HonestMaps(effect)
      /\ journal[t] \in Seq(JobEvent) /\ Shut(Rebuild(journal[t]).messages)
  BY <1>1, TypesAt, OwnPlace DEF TalkOk, BeginOk
<1>3. rec \in JobEvent /\ rec.kind = "start" /\ rec.messages = conv[t] /\ rec.depth \in Nat
  BY TypesAt DEF IInv, JobEvent
<1> HIDE DEF rec
<1>4. JournalOk(journal[t], effect)
  BY OwnPlace
<1>5. Rebuild(journal'[t]) = Read(Rebuild(journal[t]), rec)
  BY <1>1, <1>2, <1>3, RebuildAppend
<1>6. /\ Rebuild(journal'[t]) \in Rebuildable(effect)
      /\ Rebuild(journal'[t]).messages = conv[t]
      /\ Rebuild(journal'[t]).calls = Rebuild(journal[t]).calls
  BY <1>2, <1>3, <1>4, <1>5, ReadStart DEF JournalOk
<1>7. Intended(journal'[t]) = Intended(journal[t])
  BY <1>1, <1>2, <1>3, IntendedAppend
<1>8. JournalOk(journal'[t], effect')
  BY <1>1, <1>4, <1>6, <1>7 DEF JournalOk
<1>9. Started(t)'
  <2>1. \E i \in DOMAIN journal'[t] : journal'[t][i] = rec
    BY <1>1, <1>2, <1>3
  <2> QED BY <1>3, <2>1 DEF Started
<1>10. TalkOk(t)' /\ BeginOk(t)' /\ FreshOk(t)'
  BY <1>1, <1>2 DEF TalkOk, BeginOk, FreshOk, Running
<1>11. SubSeq(conv[t], 1, Len(conv[t])) = conv[t]
  BY <1>2
<1>12. LoopOk(t)'
  BY <1>1, <1>2, <1>6, <1>9, <1>11 DEF LoopOk, InLoop, Shut
<1>13. Narrows(t)
  BY <1>1, <1>7 DEF Narrows, Running
<1> QED BY <1>1, <1>8, <1>10, <1>12, <1>13, TurnKeeps DEF PlaceOk

LEMMA RequestKeeps ==
  ASSUME IInv, NEW t \in Turns, Request(t)
  PROVE  IInv'
<1> DEFINE n == Len(conv[t])
           rec == [kind |-> "messages", added |-> SubSeq(conv[t], sent[t] + 1, n)]
           old == Rebuild(journal[t])
           new == Rebuild(journal'[t])
<1>1. /\ Moved(t) /\ pc[t] = "ask" /\ pc'[t] = "reply"
      /\ journal'[t] = IF sent[t] < n THEN Append(journal[t], rec) ELSE journal[t]
      /\ conv'[t] = conv[t] /\ sent'[t] = n /\ todo'[t] = todo[t] /\ answers'[t] = answers[t]
      /\ UNCHANGED <<offered, effect, replies>>
  BY RequestDoes DEF IInv
<1>2. /\ conv[t] \in Seq(Message) /\ sent[t] \in Nat /\ journal[t] \in Seq(JobEvent)
      /\ n \in Nat /\ sent[t] <= n /\ TalkOk(t)
      /\ Paired(conv[t]) /\ conv[t] \in HonestTalk(effect) /\ answers[t] \in HonestMaps(effect)
  BY <1>1, TypesAt, OwnPlace DEF TalkOk
<1>3. /\ Started(t) /\ old.messages = SubSeq(conv[t], 1, sent[t]) /\ Shut(conv[t])
      /\ sent[t] = n \/ (sent[t] + 1 = n /\ conv[t][sent[t] + 1].role = "tool")
  BY <1>1, OwnPlace DEF LoopOk, InLoop, Shut
<1>4. /\ old \in Rebuildable(effect) /\ Range(old.calls) \subseteq Intended(journal[t])
  BY OwnPlace DEF JournalOk
<1>5. SubSeq(conv[t], 1, n) = conv[t]
  BY <1>2
<1> HIDE DEF rec, old
<1>6. /\ new \in Rebuildable(effect) /\ new.messages = conv[t]
      /\ Range(new.calls) \subseteq Intended(journal'[t])
      /\ Intended(journal'[t]) = Intended(journal[t]) /\ Started(t)'
  <2>1. CASE sent[t] = n
    <3>1. journal'[t] = journal[t]
      BY <1>1, <1>2, <2>1
    <3> QED BY <1>3, <1>4, <1>5, <2>1, <3>1 DEF Started, old
  <2>2. CASE sent[t] # n
    <3> DEFINE m == conv[t][sent[t] + 1]
               known == m.of
    <3>1. /\ m = Tools(known) /\ Opens(old.messages, DOMAIN known)
          /\ SubSeq(conv[t], sent[t] + 1, n) = <<m>> /\ Append(old.messages, m) = conv[t]
      BY <1>2, <1>3, <2>2, LastIsTools
    <3>2. known \in HonestMaps(effect) /\ m \in Message
      <4>1. sent[t] + 1 \in 1..n /\ m.role = "tool"
        BY <1>2, <1>3, <2>2
      <4> QED BY <1>2, <4>1 DEF HonestTalk
    <3>3. rec.kind = "messages" /\ rec.added = <<Tools(known)>>
      BY <3>1 DEF rec
    <3>4. rec \in JobEvent
      <4>1. <<m>> \in Seq(Message)
        BY <3>2
      <4> QED BY <3>1, <4>1 DEF rec, JobEvent
    <3>5. sent[t] < n /\ journal'[t] = Append(journal[t], rec)
      BY <1>1, <1>2, <1>3, <2>2
    <3>6. new = Read(old, rec)
      BY <1>2, <3>4, <3>5, RebuildAppend DEF old
    <3> HIDE DEF new, known
    <3>7. /\ new \in Rebuildable(effect) /\ new.calls = <<>>
          /\ new.messages = Append(old.messages, Tools(known))
      BY <1>4, <3>1, <3>2, <3>3, <3>6, ReadTools
    <3> HIDE DEF m
    <3>8. Intended(journal'[t]) = Intended(journal[t])
      BY <1>2, <3>3, <3>4, <3>5, IntendedAppend
    <3>9. Started(t)'
      <4>1. PICK i \in DOMAIN journal[t] : journal[t][i].kind = "start"
        BY <1>3 DEF Started
      <4>2. i \in DOMAIN journal'[t] /\ journal'[t][i] = journal[t][i]
        BY <1>2, <3>4, <3>5
      <4> QED BY <4>1, <4>2 DEF Started
    <3> QED BY <3>1, <3>7, <3>8, <3>9, NoAnswers
  <2> QED BY <2>1, <2>2
<1> HIDE DEF new
<1>7. JournalOk(journal'[t], effect') /\ Narrows(t)
  BY <1>1, <1>6 DEF JournalOk, Narrows, Running, new
<1>8. TalkOk(t)' /\ BeginOk(t)' /\ FreshOk(t)'
  BY <1>1, <1>2 DEF TalkOk, BeginOk, FreshOk, Running
<1>9. LoopOk(t)'
  BY <1>1, <1>3, <1>5, <1>6 DEF LoopOk, InLoop, new, Shut
<1> QED BY <1>1, <1>7, <1>8, <1>9, TurnKeeps DEF PlaceOk

LEMMA ExecuteKeeps ==
  ASSUME IInv, NEW t \in Turns, Execute(t)
  PROVE  IInv'
<1> DEFINE first == todo[t][1]
<1>1. /\ todo[t] \in Seq(Call) /\ Types /\ todo[t] # <<>> /\ pc[t] = "run"
  BY TypesAt DEF IInv, Execute
<1>2. /\ first = Head(todo[t]) /\ first \in Call
  BY <1>1, FirstAndRest
<1>3. /\ Moved(t) /\ pc'[t] = "result" /\ journal'[t] = journal[t]
      /\ conv'[t] = conv[t] /\ sent'[t] = sent[t] /\ todo'[t] = todo[t]
      /\ answers'[t] = answers[t]
      /\ effect' = [effect EXCEPT ![first] = @ + 1] /\ UNCHANGED <<offered, replies>>
  BY <1>1, <1>2, ExecuteDoes
<1>4. \A i \in 2..Len(todo[t]) : Single(todo[t][i]) => effect'[todo[t][i]] = 0
  BY <1>1, <1>3, RestIsFresh
<1>5. MakesFirst(t)
  BY <1>1, <1>3 DEF MakesFirst
<1>6. /\ HonestMaps(effect) \subseteq HonestMaps(effect')
      /\ HonestTalk(effect) \subseteq HonestTalk(effect')
      /\ Rebuildable(effect) \subseteq Rebuildable(effect')
  BY <1>1, <1>2, <1>3, HonestLater DEF Moved
<1>7. effect'[first] >= 1
  <2>1. effect \in [Call -> Nat]
    BY <1>1 DEF Types
  <2>2. effect[first] \in Nat /\ effect'[first] = effect[first] + 1
    BY <1>2, <1>3, <2>1
  <2> QED BY <2>2
<1> HIDE DEF first
<1>8. TalkOk(t)'
  BY <1>3, <1>6, OwnPlace DEF TalkOk
<1>9. BeginOk(t)'
  BY <1>1, <1>3, OwnPlace DEF BeginOk, Running
<1>10. LoopOk(t)'
  BY <1>1, <1>3, <1>7, OwnPlace DEF LoopOk, InLoop, Started, first
<1>11. FreshOk(t)'
  <2>1. \A i \in 1..Len(todo[t]) : i = 1 \/ i \in 2..Len(todo[t])
    BY <1>1
  <2> QED BY <1>1, <1>3, <1>4, <2>1, OwnPlace DEF FreshOk, Running
<1>12. JournalOk(journal'[t], effect')
  BY <1>3, <1>6, OwnPlace DEF JournalOk
<1>13. Narrows(t)
  BY <1>1, <1>3 DEF Narrows, Running
<1> QED BY <1>1, <1>3, <1>5, <1>8, <1>9, <1>10, <1>11, <1>12, <1>13, TurnKeeps DEF PlaceOk

LEMMA StartedStays ==
  ASSUME NEW records \in Seq(JobEvent), NEW rec \in JobEvent,
         \E i \in DOMAIN records : records[i].kind = "start"
  PROVE  \E i \in DOMAIN Append(records, rec) : Append(records, rec)[i].kind = "start"
<1>1. PICK i \in DOMAIN records : records[i].kind = "start"
  OBVIOUS
<1>2. i \in DOMAIN Append(records, rec) /\ Append(records, rec)[i] = records[i]
  OBVIOUS
<1> QED BY <1>1, <1>2

LEMMA ResultKeeps ==
  ASSUME IInv, NEW t \in Turns, Result(t)
  PROVE  IInv'
<1> DEFINE first == todo[t][1]
           rest == Tail(todo[t])
           more == Answering(answers[t], first, "ok")
           rec == [kind |-> "result", call |-> first, answer |-> "ok"]
           old == Rebuild(journal[t])
           new == Rebuild(journal'[t])
<1>1. /\ todo[t] \in Seq(Call) /\ Types /\ pc[t] = "result" /\ journal[t] \in Seq(JobEvent)
      /\ answers[t] \in AnswerMap /\ conv[t] \in Seq(Message)
  BY TypesAt DEF IInv, Result
<1>2. todo[t] # <<>> /\ effect[first] >= 1
  BY <1>1, OwnPlace DEF LoopOk
<1>3. /\ first = Head(todo[t]) /\ first \in Call /\ first \in Range(todo[t])
      /\ Range(rest) \subseteq Range(todo[t]) /\ Range(todo[t]) = {first} \cup Range(rest)
  BY <1>1, <1>2, FirstAndRest
<1>4. /\ Moved(t) /\ pc'[t] = "run" /\ journal'[t] = Append(journal[t], rec)
      /\ conv'[t] = conv[t] /\ sent'[t] = sent[t] /\ todo'[t] = rest /\ answers'[t] = more
      /\ UNCHANGED <<offered, effect, replies>>
  BY <1>1, <1>2, <1>3, ResultDoes
<1>5. /\ Once(rest) /\ \A i \in 1..Len(rest) : Single(rest[i]) => effect'[rest[i]] = 0
  BY <1>1, <1>2, <1>4, RestIsFresh
<1>6. rec \in JobEvent /\ rec.kind = "result" /\ rec.call = first /\ rec.answer = "ok"
  BY <1>3 DEF JobEvent
<1> HIDE DEF rest, rec
<1>7. more \in HonestMaps(effect') /\ DOMAIN more = {first} \cup DOMAIN answers[t]
  <2>1. answers[t] \in HonestMaps(effect)
    BY OwnPlace DEF TalkOk
  <2>2. "ok" \in Outcomes
    BY DEF Outcomes
  <2> HIDE DEF first
  <2>3. DOMAIN more = {first} \cup DOMAIN answers[t]
    BY <1>1, <1>3, <2>2, OneMore
  <2>4. more \in HonestMaps(effect)
    BY <1>2, <1>3, <2>1, HonestMore
  <2> QED BY <1>4, <2>3, <2>4
<1> HIDE DEF more, first
<1>8. /\ Started(t) /\ (Tidy => AnswersOpen(conv[t])) /\ sent[t] = Len(conv[t])
      /\ old.messages = SubSeq(conv[t], 1, sent[t])
      /\ Range(todo[t]) \subseteq Intended(journal[t])
      /\ IsOpen(conv[t], Range(todo[t]) \cup DOMAIN answers[t])
  BY <1>1, OwnPlace DEF LoopOk, BeginOk, InLoop, Running
<1>9. old \in Rebuildable(effect) /\ Range(old.calls) \subseteq Intended(journal[t])
  BY OwnPlace DEF JournalOk
<1>10. old.messages = conv[t] /\ (Tidy => first \in Range(old.calls))
  <2>1. old.messages = conv[t]
    BY <1>1, <1>8
  <2> HIDE DEF old
  <2> QED BY <1>3, <1>8, <1>9, <2>1, RebuildableShape DEF IsOpen
<1>11. new = Read(old, rec)
  BY <1>1, <1>4, <1>6, RebuildAppend
<1> HIDE DEF old, new
<1>12. new \in Rebuildable(effect) /\ new.messages = old.messages /\ new.calls = old.calls
  BY <1>2, <1>3, <1>6, <1>9, <1>10, <1>11, ReadResult DEF first
<1>13. Intended(journal'[t]) = Intended(journal[t])
  BY <1>1, <1>4, <1>6, IntendedAppend
<1>14. JournalOk(journal'[t], effect')
  BY <1>4, <1>9, <1>12, <1>13 DEF JournalOk, new
<1>15. Started(t)'
  BY <1>1, <1>4, <1>6, <1>8, StartedStays DEF Started
<1>16. TalkOk(t)'
  BY <1>4, <1>7, OwnPlace DEF TalkOk
<1>17. BeginOk(t)'
  BY <1>3, <1>4, <1>7, <1>8 DEF BeginOk, Running, IsOpen
<1>18. LoopOk(t)'
  BY <1>3, <1>4, <1>8, <1>12, <1>13, <1>15 DEF LoopOk, InLoop, new, old
<1>19. FreshOk(t)'
  BY <1>4, <1>5 DEF FreshOk
<1>20. Narrows(t)
  BY <1>1, <1>3, <1>4, <1>13 DEF Narrows, Running
<1> QED BY <1>1, <1>4, <1>14, <1>16, <1>17, <1>18, <1>19, <1>20, TurnKeeps DEF PlaceOk

LEMMA StepDoneKeeps ==
  ASSUME IInv, NEW t \in Turns, StepDone(t)
  PROVE  IInv'
<1> DEFINE m == Tools(answers[t])
           more == Append(conv[t], m)
           n == Len(conv[t])
<1>1. /\ Moved(t) /\ pc[t] = "run" /\ todo[t] = <<>> /\ pc'[t] = "ask"
      /\ journal'[t] = journal[t] /\ conv'[t] = more
      /\ sent'[t] = sent[t] /\ todo'[t] = todo[t] /\ answers'[t] = <<>>
      /\ UNCHANGED <<offered, effect, replies>>
  BY StepDoneDoes DEF IInv
<1>2. /\ conv[t] \in Seq(Message) /\ answers[t] \in AnswerMap /\ n \in Nat
      /\ Paired(conv[t]) /\ conv[t] \in HonestTalk(effect) /\ answers[t] \in HonestMaps(effect)
  BY <1>1, TypesAt, OwnPlace DEF TalkOk
<1>3. /\ Started(t) /\ (Tidy => AnswersOpen(conv[t])) /\ sent[t] = n
      /\ Rebuild(journal[t]).messages = SubSeq(conv[t], 1, sent[t])
      /\ IsOpen(conv[t], Range(todo[t]) \cup DOMAIN answers[t])
  BY <1>1, OwnPlace DEF LoopOk, BeginOk, InLoop, Running
<1>4. /\ m \in Message /\ m.role = "tool" /\ m.of = answers[t]
      /\ Paired(more) /\ ~AnswersOpen(more)
  <2>1. Opens(conv[t], DOMAIN answers[t])
    BY <1>1, <1>3, NoAnswers DEF Opens, IsOpen
  <2> QED BY <1>2, <2>1, ToolsClose
<1> HIDE DEF m
<1>5. more \in HonestTalk(effect)
  BY <1>2, <1>4, HonestGrows
<1>6. /\ Len(more) = n + 1 /\ more[n + 1] = m /\ SubSeq(more, 1, n) = SubSeq(conv[t], 1, n)
  BY <1>2, <1>4
<1> HIDE DEF more, n
<1>7. <<>> \in HonestMaps(effect) /\ n <= n + 1
  BY <1>2, NoAnswers DEF HonestMaps
<1>8. TalkOk(t)' /\ BeginOk(t)' /\ FreshOk(t)'
  BY <1>1, <1>3, <1>4, <1>5, <1>6, <1>7 DEF TalkOk, BeginOk, FreshOk, Running
<1>9. LoopOk(t)'
  BY <1>1, <1>3, <1>4, <1>6 DEF LoopOk, InLoop, Started
<1>10. Narrows(t) /\ JournalOk(journal'[t], effect')
  BY <1>1, OwnPlace DEF Narrows, Running, JournalOk
<1> QED BY <1>1, <1>8, <1>9, <1>10, TurnKeeps DEF PlaceOk

\* `end` changes nothing of what is rebuilt.
LEMMA EndRecord ==
  ASSUME NEW records \in Seq(JobEvent), NEW k \in Nat,
         NEW more, more = Append(records, [kind |-> "end", as |-> k])
  PROVE  /\ more \in Seq(JobEvent) /\ Rebuild(more) = Rebuild(records)
         /\ Intended(more) = Intended(records)
<1> DEFINE rec == [kind |-> "end", as |-> k]
<1>1. rec \in JobEvent /\ rec.kind = "end"
  BY DEF JobEvent
<1> HIDE DEF rec
<1>2. more \in Seq(JobEvent) /\ more = Append(records, rec)
  BY <1>1 DEF rec
<1>3. Rebuild(more) = Rebuild(records)
  BY <1>1, <1>2, RebuildAppend, ReadOther
<1> QED BY <1>1, <1>2, <1>3, IntendedAppend

LEMMA EndKeeps ==
  ASSUME IInv, NEW t \in Turns, End(t) \/ Unwind(t)
  PROVE  IInv'
<1>1. /\ Moved(t) /\ pc[t] # "gone" /\ pc'[t] \in {"unwind", "gone"}
      /\ journal'[t] = Append(journal[t], [kind |-> "end", as |-> 0])
      /\ conv'[t] = conv[t] /\ sent'[t] = sent[t] /\ todo'[t] = todo[t]
      /\ answers'[t] = answers[t] /\ UNCHANGED <<offered, effect, replies>>
  <2>1. CASE End(t)
    BY <2>1, EndDoes DEF IInv
  <2>2. CASE Unwind(t)
    BY <2>2, UnwindDoes DEF IInv
  <2> QED BY <2>1, <2>2
<1>2. /\ Rebuild(journal'[t]) = Rebuild(journal[t])
      /\ Intended(journal'[t]) = Intended(journal[t])
  <2>1. journal[t] \in Seq(JobEvent) /\ 0 \in Nat
    BY TypesAt DEF IInv
  <2> QED BY <1>1, <2>1, EndRecord
<1>3. TalkOk(t)' /\ BeginOk(t)' /\ LoopOk(t)' /\ FreshOk(t)' /\ JournalOk(journal'[t], effect')
  BY <1>1, <1>2, OwnPlace DEF TalkOk, BeginOk, LoopOk, FreshOk, Running, InLoop, JournalOk
<1>4. Narrows(t)
  BY <1>1, <1>2 DEF Narrows
<1> QED BY <1>1, <1>3, <1>4, TurnKeeps DEF PlaceOk

LEMMA NestedKeeps ==
  ASSUME IInv, NEW t \in Turns, FailOver(t) \/ TakeOver(t)
  PROVE  IInv'
<1>1. /\ Moved(t) /\ (pc[t] = "reply" \/ (~Tidy /\ pc[t] = "ask")) /\ pc'[t] = "starting"
      /\ journal'[t] = journal[t] /\ conv'[t] = <<Ask(t)>> /\ sent'[t] = 0
      /\ todo'[t] = <<>> /\ answers'[t] = <<>> /\ UNCHANGED <<offered, effect, replies>>
  BY NestedDoes DEF IInv
<1>2. t \in Nat /\ conv[t] \in Seq(Message)
  BY TypesAt DEF IInv
<1>3. /\ <<Ask(t)>> \in HonestTalk(effect) /\ Paired(<<Ask(t)>>)
      /\ Len(<<Ask(t)>>) = 1 /\ Shut(<<Ask(t)>>)
  BY <1>2, AskBegins DEF Shut
<1>4. <<>> \in HonestMaps(effect)
  BY NoAnswers DEF HonestMaps
<1>5. Shut(Rebuild(journal[t]).messages)
  <2> SUFFICES ASSUME Tidy PROVE ~AnswersOpen(Rebuild(journal[t]).messages)
    BY DEF Shut
  <2>1. /\ sent[t] = Len(conv[t]) /\ ~AnswersOpen(conv[t])
        /\ Rebuild(journal[t]).messages = SubSeq(conv[t], 1, sent[t])
    BY <1>1, OwnPlace DEF LoopOk, InLoop
  <2>2. SubSeq(conv[t], 1, Len(conv[t])) = conv[t]
    BY <1>2
  <2> QED BY <2>1, <2>2
<1>6. TalkOk(t)' /\ BeginOk(t)' /\ LoopOk(t)' /\ FreshOk(t)'
  BY <1>1, <1>3, <1>4, <1>5 DEF TalkOk, BeginOk, LoopOk, FreshOk, Running, InLoop
<1>7. Narrows(t) /\ JournalOk(journal'[t], effect')
  BY <1>1, OwnPlace DEF Narrows, JournalOk
<1> QED BY <1>1, <1>6, <1>7, TurnKeeps DEF PlaceOk

LEMMA IntendedIntents ==
  ASSUME NEW records \in Seq(JobEvent), NEW calls \in Seq(Call)
  PROVE  Intended(records \o Intents(calls)) = Intended(records) \cup Range(calls)
<1> DEFINE more == records \o Intents(calls)
           n == Len(records)
           k == Len(calls)
<1>1. /\ Intents(calls) \in Seq(JobEvent) /\ Len(Intents(calls)) = k
      /\ \A i \in 1..k : Intents(calls)[i].kind = "intent" /\ Intents(calls)[i].call = calls[i]
  BY IntentsShape
<1>2. /\ n \in Nat /\ k \in Nat /\ DOMAIN calls = 1..k /\ \A i \in 1..k : calls[i] \in Call
  OBVIOUS
<1>3. /\ Len(more) = n + k /\ \A i \in 1..n : more[i] = records[i]
      /\ \A i \in 1..k : more[n + i] = Intents(calls)[i]
  BY <1>1
<1> HIDE DEF more, n, k
<1>4. ASSUME NEW c \in Intended(more) PROVE c \in Intended(records) \cup Range(calls)
  <2>1. c \in Call /\ \E i \in 1..(n + k) : more[i].kind = "intent" /\ more[i].call = c
    BY <1>3 DEF Intended
  <2>2. PICK i \in 1..(n + k) : more[i].kind = "intent" /\ more[i].call = c
    BY <2>1
  <2>3. CASE i <= n
    <3>1. i \in 1..n /\ more[i] = records[i]
      BY <1>2, <1>3, <2>3
    <3> QED BY <2>1, <2>2, <3>1 DEF Intended, n
  <2>4. CASE ~(i <= n)
    <3>1. i - n \in 1..k /\ n + (i - n) = i
      BY <1>2, <2>4
    <3>2. calls[i - n] = c
      BY <1>1, <1>3, <2>2, <3>1
    <3> QED BY <1>2, <3>1, <3>2 DEF Range
  <2> QED BY <2>3, <2>4
<1>5. ASSUME NEW c \in Intended(records) PROVE c \in Intended(more)
  <2>1. PICK i \in 1..n : records[i].kind = "intent" /\ records[i].call = c
    BY DEF Intended, n
  <2>2. i \in 1..(n + k) /\ more[i] = records[i]
    BY <1>2, <1>3
  <2> QED BY <1>3, <2>1, <2>2 DEF Intended
<1>6. ASSUME NEW c \in Range(calls) PROVE c \in Intended(more)
  <2>1. PICK i \in 1..k : calls[i] = c
    BY <1>2 DEF Range
  <2>2. n + i \in 1..(n + k) /\ more[n + i].kind = "intent" /\ more[n + i].call = c /\ c \in Call
    BY <1>1, <1>2, <1>3, <2>1
  <2> QED BY <1>3, <2>2 DEF Intended
<1> QED BY <1>4, <1>5, <1>6 DEF more

HasStart(records) == \E i \in DOMAIN records : records[i].kind = "start"
Written(records, calls) ==
  records \o <<[kind |-> "model", calls |-> calls]>> \o Intents(calls)

\* The reply's record and its intents, read back.
LEMMA ReplyWritten ==
  ASSUME NEW made, NEW records \in Seq(JobEvent), NEW calls \in Seq(Call), calls # <<>>,
         JournalOk(records, made), Shut(Rebuild(records).messages),
         NEW more, more = Written(records, calls)
  PROVE  /\ JournalOk(more, made)
         /\ Rebuild(more).messages = Append(Rebuild(records).messages, Reply(calls))
         /\ Intended(more) = Intended(records) \cup Range(calls)
         /\ HasStart(records) => HasStart(more)
<1> DEFINE rec == [kind |-> "model", calls |-> calls]
           front == Append(records, rec)
<1>1. rec \in JobEvent /\ rec.kind = "model" /\ rec.calls = calls
  BY DEF JobEvent
<1> HIDE DEF rec
<1>2. front \in Seq(JobEvent) /\ front = records \o <<rec>>
  BY <1>1
<1>3. more = front \o Intents(calls)
  BY <1>2 DEF rec, Written
<1>4. /\ Rebuild(front) = Read(Rebuild(records), rec)
      /\ Intended(front) = Intended(records)
  BY <1>1, RebuildAppend, IntendedAppend
<1>5. /\ Intents(calls) \in Seq(JobEvent)
      /\ \A i \in 1..Len(Intents(calls)) : Intents(calls)[i].kind = "intent"
  BY IntentsShape
<1>6. HasStart(records) => HasStart(front)
  BY <1>1, StartedStays DEF HasStart
<1> HIDE DEF front
<1>7. Rebuild(more) = Rebuild(front)
  <2> DEFINE named == Intents(calls)
  <2>1. /\ named \in Seq(JobEvent) /\ front \in Seq(JobEvent) /\ more = front \o named
        /\ \A i \in 1..Len(named) : named[i].kind = "intent"
    BY <1>2, <1>3, <1>5
  <2> HIDE DEF named
  <2>2. Rebuild(front \o named) = Rebuild(front)
    BY <2>1, RebuildIntents
  <2> QED BY <2>1, <2>2
<1>8. Intended(more) = Intended(records) \cup Range(calls)
  BY <1>2, <1>3, <1>4, IntendedIntents
<1>9. ASSUME HasStart(front) PROVE HasStart(more)
  <2>1. PICK i \in DOMAIN front : front[i].kind = "start"
    BY <1>9 DEF HasStart
  <2>2. i \in DOMAIN more /\ more[i] = front[i]
    BY <1>2, <1>3, <1>5
  <2> QED BY <2>1, <2>2 DEF HasStart
<1> DEFINE old == Rebuild(records)
           new == Rebuild(more)
<1>10. old \in Rebuildable(made) /\ Shut(old.messages) /\ new = Read(old, rec)
  BY <1>4, <1>7 DEF JournalOk
<1> HIDE DEF old, new
<1>11. /\ new \in Rebuildable(made) /\ new.calls = calls
       /\ new.messages = Append(old.messages, Reply(calls))
  BY <1>1, <1>10, ReadModel
<1> QED BY <1>6, <1>8, <1>9, <1>11 DEF JournalOk, old, new

LEMMA AnsweredCalls ==
  ASSUME IInv, NEW t \in Turns, Moved(t), NEW calls \in Seq(Call), Once(calls),
         \A c \in Range(calls) : c.reply = replies + 1,
         pc[t] # "gone", pc'[t] = "run", todo'[t] = calls,
         Intended(journal'[t]) = Intended(journal[t]) \cup Range(calls),
         replies' = replies + 1, UNCHANGED <<offered, effect>>
  PROVE  Named' /\ Fresh' /\ Sources' /\ Effects'
<1>1. Turns' = Turns /\ UNCHANGED <<lost, closing, up, booted, offered, effect>>
  BY DEF Moved, Turns
<1>2. \A u \in Turns : u # t => Same(u)
  BY DEF Moved
<1>3. replies \in Nat /\ effect \in [Call -> Nat]
  BY JobJournalAssumption DEF IInv, Types
<1>4. ASSUME NEW u \in Turns, NEW c \in Intended(journal[u])
      PROVE  c.reply \in Int /\ c.reply <= replies /\ c \notin Range(calls)
  <2>1. c \in Call /\ c.reply <= replies
    BY DEF IInv, Named, Intended
  <2>2. c.reply \in Int
    BY <2>1, JobJournalAssumption DEF Call
  <2> QED BY <1>3, <2>1, <2>2
<1>5. ASSUME NEW u \in Turns
      PROVE  Intended(journal'[u]) = IF u = t THEN Intended(journal[u]) \cup Range(calls)
                                     ELSE Intended(journal[u])
  BY <1>2 DEF Same
<1>6. Named'
  <2>1. ASSUME NEW u \in Turns, NEW c \in Intended(journal'[u]) PROVE c.reply <= replies'
    <3>1. CASE c \in Intended(journal[u])
      BY <1>3, <1>4, <3>1
    <3>2. CASE c \in Range(calls)
      BY <1>3, <3>2
    <3> QED BY <1>5, <2>1, <3>1, <3>2
  <2>2. ASSUME NEW u \in Turns, NEW v \in Turns, u # v
        PROVE  Intended(journal'[u]) \cap Intended(journal'[v]) = {}
    <3>1. Intended(journal[u]) \cap Intended(journal[v]) = {}
      BY <2>2 DEF IInv, Named
    <3> QED BY <1>4, <1>5, <2>2, <3>1
  <2> QED BY <1>1, <2>1, <2>2 DEF Named
<1>7. ASSUME NEW c \in Range(calls) PROVE effect[c] = 0
  <2>1. c \in Call
    BY RangeFinite
  <2>2. ~(effect[c] > 0)
    BY <1>4, <2>1 DEF IInv, Effects
  <2> QED BY <1>3, <2>1, <2>2
<1>8. ASSUME NEW u \in Turns PROVE FreshOk(u)'
  <2>1. CASE u = t
    <3>1. \A i \in 1..Len(calls) : effect[calls[i]] = 0
      <4>1. \A i \in 1..Len(calls) : calls[i] \in Range(calls)
        BY DEF Range
      <4> QED BY <1>7, <4>1
    <3> QED BY <1>1, <2>1, <3>1 DEF FreshOk
  <2>2. CASE u # t
    BY <1>1, <1>2, <2>2 DEF Same, FreshOk, IInv, Fresh
  <2> QED BY <2>1, <2>2
<1>9. Fresh'
  BY <1>1, <1>8 DEF Fresh
<1>10. ASSUME NEW u \in Turns PROVE SourceOk(u)'
  <2> SUFFICES ASSUME pc'[u] = "rerun", NEW c \in Range(todo'[u])
               PROVE  /\ c.kind # "command"
                      /\ \E o \in Turns : c \in Intended(journal'[o]) /\ pc'[o] = "gone"
    BY <1>1 DEF SourceOk
  <2>1. u # t /\ pc[u] = "rerun" /\ c \in Range(todo[u])
    BY <1>2 DEF Same
  <2>2. c.kind # "command"
    BY <2>1 DEF IInv, Sources, SourceOk
  <2>3. PICK o \in Turns : c \in Intended(journal[o]) /\ pc[o] = "gone"
    BY <2>1 DEF IInv, Sources, SourceOk
  <2>4. Same(o)
    BY <1>2, <2>3
  <2> QED BY <1>5, <2>2, <2>3, <2>4 DEF Same
<1>11. Sources'
  BY <1>1, <1>10 DEF Sources
<1>12. Effects'
  BY <1>1, <1>5 DEF IInv, Effects
<1> QED BY <1>6, <1>9, <1>11, <1>12

LEMMA AnsweredKeeps ==
  ASSUME IInv, NEW t \in Turns, Answered(t)
  PROVE  IInv'
<1>1. PICK calls \in Seq(Call) :
         /\ calls # <<>> /\ Once(calls) /\ \A c \in Range(calls) : c.reply = replies + 1
         /\ Moved(t) /\ pc[t] = "reply" /\ replies < MaxReply /\ pc'[t] = "run"
         /\ journal'[t] = journal[t] \o <<[kind |-> "model", calls |-> calls]>> \o Intents(calls)
         /\ conv'[t] = Append(conv[t], Reply(calls)) /\ sent'[t] = sent[t] + 1
         /\ todo'[t] = calls /\ answers'[t] = <<>>
         /\ replies' = replies + 1 /\ UNCHANGED <<offered, effect>>
  BY AnsweredDoes DEF IInv
<1> DEFINE m == Reply(calls)
           more == Append(conv[t], m)
           n == Len(conv[t])
<1>2. /\ conv[t] \in Seq(Message) /\ n \in Nat /\ journal[t] \in Seq(JobEvent)
      /\ Paired(conv[t]) /\ conv[t] \in HonestTalk(effect) /\ Types /\ Types'
  BY <1>1, TypesAt, OwnPlace DEF TalkOk, Moved
<1>3. /\ Started(t) /\ Shut(conv[t]) /\ sent[t] = n
      /\ Rebuild(journal[t]).messages = SubSeq(conv[t], 1, sent[t])
      /\ JournalOk(journal[t], effect)
  BY <1>1, OwnPlace DEF LoopOk, InLoop, Shut
<1>4. Rebuild(journal[t]).messages = conv[t]
  BY <1>2, <1>3
<1>5. /\ JournalOk(journal'[t], effect) /\ Rebuild(journal'[t]).messages = more
      /\ Intended(journal'[t]) = Intended(journal[t]) \cup Range(calls)
      /\ Started(t)'
  <2> DEFINE records == journal[t]
             longer == journal'[t]
  <2>1. /\ records \in Seq(JobEvent) /\ calls # <<>> /\ JournalOk(records, effect)
        /\ Shut(Rebuild(records).messages)
        /\ longer = Written(records, calls) /\ HasStart(records)
    BY <1>1, <1>2, <1>3, <1>4 DEF Started, HasStart, Written
  <2> HIDE DEF records, longer
  <2>2. /\ JournalOk(longer, effect)
        /\ Rebuild(longer).messages = Append(Rebuild(records).messages, Reply(calls))
        /\ Intended(longer) = Intended(records) \cup Range(calls)
        /\ HasStart(longer)
    BY <2>1, ReplyWritten
  <2> QED BY <1>4, <2>2 DEF records, longer, Started, HasStart
<1>6. /\ m \in Message /\ m.role = "assistant" /\ Paired(more) /\ AnswersOpen(more)
      /\ OpenCalls(more) = Range(calls)
  BY <1>1, <1>2, <1>3, ReplyOpens
<1> HIDE DEF m
<1>7. more \in HonestTalk(effect) /\ Len(more) = n + 1 /\ more \in Seq(Message)
  BY <1>2, <1>6, HonestGrows, TalkGrows
<1> HIDE DEF more, n
<1>8. SubSeq(more, 1, n + 1) = more
  BY <1>2, <1>7
<1>9. <<>> \in HonestMaps(effect) /\ DOMAIN <<>> = {} /\ n + 1 <= n + 1
  BY <1>2, NoAnswers DEF HonestMaps
<1>10. TalkOk(t)'
  BY <1>1, <1>3, <1>6, <1>7, <1>9 DEF TalkOk, more, m
<1>11. BeginOk(t)'
  BY <1>1, <1>6, <1>9 DEF BeginOk, Running, IsOpen, more, m
<1>12. LoopOk(t)'
  <2>1. conv'[t] = more /\ sent'[t] = n + 1
    BY <1>1, <1>3 DEF more, m
  <2> QED BY <1>1, <1>5, <1>6, <1>7, <1>8, <2>1 DEF LoopOk, InLoop
<1>13. Growing
  BY <1>1, <1>2, GrowsByOne
<1>14. Journals' /\ Places'
  BY <1>1, <1>5, <1>10, <1>11, <1>12, <1>13, TurnPlaces DEF PlaceOk
<1>15. Lost' /\ Handing' /\ Offering' /\ Room'
  BY <1>1, TurnHanding
<1>16. Named' /\ Fresh' /\ Sources' /\ Effects'
  BY <1>1, <1>5, AnsweredCalls
<1> QED BY <1>2, <1>14, <1>15, <1>16 DEF IInv

LEMMA TakeOfferKeeps ==
  ASSUME IInv, NEW t \in Turns, TakeOffer(t)
  PROVE  IInv'
<1>1. PICK again \in Seq(Call) : \E old \in Rebuildable(effect) :
         /\ old = Rebuild(journal[offered]) /\ offered \in Turns
         /\ Once(again) /\ Range(again) = Rerun(old)
         /\ Moved(t) /\ pc[t] = "starting" /\ offered # 0 /\ pc'[t] = "rerun"
         /\ journal'[t] = journal[t] /\ conv'[t] = old.messages /\ sent'[t] = sent[t]
         /\ todo'[t] = again /\ answers'[t] = Known(old) /\ offered' = 0
         /\ UNCHANGED <<effect, replies>>
  BY TakeOfferDoes DEF IInv
<1>2. PICK old \in Rebuildable(effect) :
         /\ old = Rebuild(journal[offered]) /\ offered \in Turns
         /\ Once(again) /\ Range(again) = Rerun(old)
         /\ Moved(t) /\ pc[t] = "starting" /\ offered # 0 /\ pc'[t] = "rerun"
         /\ journal'[t] = journal[t] /\ conv'[t] = old.messages /\ sent'[t] = sent[t]
         /\ todo'[t] = again /\ answers'[t] = Known(old) /\ offered' = 0
         /\ UNCHANGED <<effect, replies>>
  BY <1>1
<1>3. /\ Types /\ Types' /\ Turns' = Turns
      /\ UNCHANGED <<lost, closing, up, booted>> /\ \A u \in Turns : u # t => Same(u)
  BY <1>2 DEF IInv, Moved, Turns
<1>4. /\ Rerun(old) \subseteq Range(old.calls)
      /\ DOMAIN Known(old) = Range(old.calls) \ Rerun(old)
      /\ Known(old) \in HonestMaps(effect)
      /\ \A c \in Rerun(old) : c.kind # "command"
  BY <1>3, KnownOk
<1>5. /\ old.messages \in Seq(Message) /\ Paired(old.messages)
      /\ old.messages \in HonestTalk(effect) /\ IsOpen(old.messages, Range(old.calls))
  BY RebuildableShape
<1>6. Shut(Rebuild(journal[t]).messages) /\ sent[t] = 0 /\ 0 <= Len(old.messages)
  <2>1. BeginOk(t)
    BY OwnPlace
  <2>2. Shut(Rebuild(journal[t]).messages) /\ sent[t] = 0
    BY <1>2, <2>1 DEF BeginOk
  <2>3. Len(old.messages) \in Nat
    BY <1>5
  <2> QED BY <2>2, <2>3
<1>7. PlaceOk(t)'
  <2>1. TalkOk(t)'
    BY <1>2, <1>4, <1>5, <1>6 DEF TalkOk
  <2>2. IsOpen(old.messages, Range(again) \cup DOMAIN Known(old))
    <3>1. Range(again) \cup DOMAIN Known(old) = Range(old.calls)
      BY <1>2, <1>4
    <3> QED BY <1>5, <3>1
  <2>3. BeginOk(t)'
    BY <1>2, <1>6, <2>2 DEF BeginOk, Running
  <2>4. LoopOk(t)'
    BY <1>2 DEF LoopOk, InLoop
  <2> QED BY <2>1, <2>3, <2>4 DEF PlaceOk
<1>8. JournalOk(journal'[t], effect')
  BY <1>2, OwnPlace DEF JournalOk
<1>9. Growing
  BY <1>2, <1>3, GrowsByOne
<1>10. Journals' /\ Places'
  BY <1>2, <1>7, <1>8, <1>9, TurnPlaces
<1>11. Lost' /\ Handing' /\ Offering' /\ Room'
  BY <1>2, TurnHanding
<1>12. \A u \in Turns : Intended(journal'[u]) = Intended(journal[u])
  BY <1>2, <1>3 DEF Same
<1>13. Named' /\ Effects'
  BY <1>2, <1>3, <1>12 DEF IInv, Named, Effects
<1>14. Fresh'
  <2>1. ASSUME NEW u \in Turns PROVE FreshOk(u)'
    BY <1>2, <1>3 DEF Same, FreshOk, IInv, Fresh
  <2> QED BY <1>3, <2>1 DEF Fresh
<1>15. Range(again) \subseteq Intended(journal[offered])
  <2>1. JournalOk(journal[offered], effect)
    BY <1>2, OwnPlace
  <2> QED BY <1>2, <1>4, <2>1 DEF JournalOk
<1>16. pc[offered] = "gone" /\ offered # t
  BY <1>2 DEF IInv, Offering
<1>17. ASSUME NEW u \in Turns PROVE SourceOk(u)'
  <2> SUFFICES ASSUME pc'[u] = "rerun", NEW c \in Range(todo'[u])
               PROVE  /\ c.kind # "command"
                      /\ \E o \in Turns : c \in Intended(journal'[o]) /\ pc'[o] = "gone"
    BY <1>3 DEF SourceOk
  <2>1. c.kind # "command" /\ \E o \in Turns : c \in Intended(journal[o]) /\ pc[o] = "gone"
    <3>1. CASE u = t
      BY <1>2, <1>4, <1>15, <1>16, <3>1
    <3>2. CASE u # t
      BY <1>3, <3>2 DEF Same, IInv, Sources, SourceOk
    <3> QED BY <3>1, <3>2
  <2>2. PICK o \in Turns : c \in Intended(journal[o]) /\ pc[o] = "gone"
    BY <2>1
  <2>3. pc'[o] = "gone"
    BY <1>2, <1>3, <2>2 DEF Same
  <2> QED BY <1>12, <2>1, <2>2, <2>3
<1>18. Sources'
  BY <1>3, <1>17 DEF Sources
<1> QED BY <1>3, <1>10, <1>11, <1>13, <1>14, <1>18 DEF IInv

-----------------------------------------------------------------------------
(* The start-up's steps, and a new turn. *)

\* A new turn is at its beginning, and the others are where they were.
Grows == NewTurn /\ UNCHANGED <<effect, replies>>

LEMMA TurnAdded ==
  ASSUME Types, Grows
  PROVE  LET n == Len(pc) + 1
         IN  /\ n \in Nat /\ n \notin Turns /\ Turns' = Turns \cup {n} /\ Len(pc') = n
             /\ \A u \in Turns : Same(u)
             /\ pc'[n] = "starting" /\ journal'[n] = <<>> /\ conv'[n] = <<Ask(n)>>
             /\ sent'[n] = 0 /\ todo'[n] = <<>> /\ answers'[n] = <<>>
             /\ pc' \in Seq(Live \cup {"unwind", "gone"})
             /\ journal' \in Seq(Seq(JobEvent)) /\ Len(journal') = n
             /\ conv' \in Seq(Seq(Message)) /\ Len(conv') = n
             /\ sent' \in Seq(Nat) /\ Len(sent') = n
             /\ depth' \in Seq(Nat) /\ Len(depth') = n
             /\ todo' \in Seq(Seq(Call)) /\ Len(todo') = n
             /\ answers' \in Seq(AnswerMap) /\ Len(answers') = n
<1> DEFINE n == Len(pc) + 1
           ask == <<Ask(n)>>
<1>1. Len(pc) \in Nat /\ n \in Nat /\ Turns = 1..Len(pc)
  BY DEF Types, Turns
<1>2. /\ pc \in Seq(Live \cup {"unwind", "gone"}) /\ journal \in Seq(Seq(JobEvent))
      /\ conv \in Seq(Seq(Message)) /\ sent \in Seq(Nat) /\ depth \in Seq(Nat)
      /\ todo \in Seq(Seq(Call)) /\ answers \in Seq(AnswerMap)
      /\ Len(journal) = Len(pc) /\ Len(conv) = Len(pc) /\ Len(sent) = Len(pc)
      /\ Len(depth) = Len(pc) /\ Len(todo) = Len(pc) /\ Len(answers) = Len(pc)
  BY DEF Types
<1>3. /\ "starting" \in Live \cup {"unwind", "gone"} /\ <<>> \in Seq(JobEvent) /\ <<>> \in Seq(Call)
      /\ <<>> \in AnswerMap /\ 0 \in Nat
  BY NoAnswers DEF Live
<1>4. ask \in Seq(Message)
  BY <1>1, AskBegins DEF HonestTalk
<1>5. /\ pc' = Append(pc, "starting") /\ journal' = Append(journal, <<>>)
      /\ conv' = Append(conv, ask) /\ sent' = Append(sent, 0) /\ depth' = Append(depth, 0)
      /\ todo' = Append(todo, <<>>) /\ answers' = Append(answers, <<>>)
  BY DEF Grows, NewTurn
<1> HIDE DEF ask
<1>6. /\ pc' \in Seq(Live \cup {"unwind", "gone"}) /\ Len(pc') = Len(pc) + 1 /\ pc'[Len(pc) + 1] = "starting"
      /\ \A u \in 1..Len(pc) : pc'[u] = pc[u]
  BY <1>2, <1>3, <1>5, PutLast
<1>7. /\ journal' \in Seq(Seq(JobEvent)) /\ Len(journal') = Len(pc) + 1
      /\ journal'[Len(pc) + 1] = <<>> /\ \A u \in 1..Len(pc) : journal'[u] = journal[u]
  BY <1>2, <1>3, <1>5, PutLast
<1>8. /\ conv' \in Seq(Seq(Message)) /\ Len(conv') = Len(pc) + 1
      /\ conv'[Len(pc) + 1] = ask /\ \A u \in 1..Len(pc) : conv'[u] = conv[u]
  BY <1>2, <1>4, <1>5, PutLast
<1>9. /\ sent' \in Seq(Nat) /\ Len(sent') = Len(pc) + 1
      /\ sent'[Len(pc) + 1] = 0 /\ \A u \in 1..Len(pc) : sent'[u] = sent[u]
  BY <1>2, <1>3, <1>5, PutLast
<1>10. depth' \in Seq(Nat) /\ Len(depth') = Len(pc) + 1
  BY <1>2, <1>3, <1>5, PutLast
<1>11. /\ todo' \in Seq(Seq(Call)) /\ Len(todo') = Len(pc) + 1
       /\ todo'[Len(pc) + 1] = <<>> /\ \A u \in 1..Len(pc) : todo'[u] = todo[u]
  BY <1>2, <1>3, <1>5, PutLast
<1>12. /\ answers' \in Seq(AnswerMap) /\ Len(answers') = Len(pc) + 1
       /\ answers'[Len(pc) + 1] = <<>> /\ \A u \in 1..Len(pc) : answers'[u] = answers[u]
  BY <1>2, <1>3, <1>5, PutLast
<1>13. \A u \in Turns : Same(u)
  BY <1>1, <1>6, <1>7, <1>8, <1>9, <1>11, <1>12 DEF Same
<1>14. n \notin Turns /\ Turns' = Turns \cup {n}
  <2>1. Turns' = 1..n
    BY <1>6 DEF Turns
  <2> QED BY <1>1, <2>1
<1> QED
  BY <1>1, <1>6, <1>7, <1>8, <1>9, <1>10, <1>11, <1>12, <1>13, <1>14 DEF ask

LEMMA GrowsKeeps ==
  ASSUME IInv, Grows
  PROVE  Journals' /\ Places' /\ Named' /\ Fresh' /\ Sources' /\ Effects'
<1> DEFINE n == Len(pc) + 1
<1>1. /\ n \in Nat /\ n \notin Turns /\ Turns' = Turns \cup {n} /\ \A u \in Turns : Same(u)
      /\ pc'[n] = "starting" /\ journal'[n] = <<>> /\ conv'[n] = <<Ask(n)>>
      /\ sent'[n] = 0 /\ todo'[n] = <<>> /\ answers'[n] = <<>>
      /\ effect' = effect /\ replies' = replies
  BY TurnAdded DEF IInv, Grows
<1>2. /\ <<Ask(n)>> \in HonestTalk(effect) /\ Paired(<<Ask(n)>>) /\ Len(<<Ask(n)>>) = 1
      /\ Shut(<<Ask(n)>>) /\ <<>> \in HonestMaps(effect) /\ 0 <= 1
  BY <1>1, AskBegins, NoAnswers DEF HonestMaps, Shut
<1>a. Shut(Rebuild(<<>>).messages)
  BY RebuildNothing, NothingIsRebuildable DEF Shut, AnswersOpen
<1> HIDE DEF n
<1>3. ASSUME NEW u \in Turns' PROVE PlaceOk(u)'
  <2>1. CASE u = n
    BY <1>1, <1>2, <1>a, <2>1 DEF PlaceOk, TalkOk, BeginOk, LoopOk, Running, InLoop
  <2>2. CASE u # n
    <3>1. u \in Turns /\ Same(u) /\ PlaceOk(u)
      BY <1>1, <2>2 DEF IInv, Places
    <3> QED BY <1>1, <3>1 DEF PlaceOk, TalkOk, BeginOk, LoopOk, Same, Started
  <2> QED BY <2>1, <2>2
<1>4. Places'
  BY <1>3 DEF Places
<1>5. Intended(<<>>) = {}
  BY DEF Intended
<1>6. ASSUME NEW u \in Turns' PROVE JournalOk(journal'[u], effect)
  <2>1. CASE u = n
    BY <1>1, <1>5, <2>1, RebuildNothing, NothingIsRebuildable, NoAnswers DEF JournalOk
  <2>2. CASE u # n
    BY <1>1, <2>2, OwnPlace DEF Same
  <2> QED BY <2>1, <2>2
<1>7. Journals'
  BY <1>1, <1>6 DEF Journals, JournalOk
<1>8. \A u \in Turns' : Intended(journal'[u]) = IF u = n THEN {} ELSE Intended(journal[u])
  BY <1>1, <1>5 DEF Same
<1>9. Named'
  BY <1>1, <1>8 DEF IInv, Named
<1>10. Fresh'
  <2>1. ASSUME NEW u \in Turns' PROVE FreshOk(u)'
    <3>1. CASE u = n
      BY <1>1, <3>1 DEF FreshOk, Running
    <3>2. CASE u # n
      BY <1>1, <3>2 DEF IInv, Fresh, FreshOk, Same
    <3> QED BY <3>1, <3>2
  <2> QED BY <2>1 DEF Fresh
<1>11. Sources'
  <2>1. ASSUME NEW u \in Turns' PROVE SourceOk(u)'
    <3> SUFFICES ASSUME pc'[u] = "rerun", NEW c \in Range(todo'[u])
                 PROVE  /\ c.kind # "command"
                        /\ \E o \in Turns' : c \in Intended(journal'[o]) /\ pc'[o] = "gone"
      BY DEF SourceOk
    <3>1. u \in Turns /\ pc[u] = "rerun" /\ c \in Range(todo[u])
      BY <1>1 DEF Same
    <3>2. c.kind # "command" /\ \E o \in Turns : c \in Intended(journal[o]) /\ pc[o] = "gone"
      BY <3>1 DEF IInv, Sources, SourceOk
    <3> QED BY <1>1, <3>2 DEF Same
  <2> QED BY <2>1 DEF Sources
<1>12. Effects'
  <2>1. \A u \in Turns : u \in Turns' /\ Intended(journal'[u]) = Intended(journal[u])
    BY <1>1 DEF Same
  <2> QED BY <1>1, <2>1 DEF IInv, Effects
<1> QED BY <1>4, <1>7, <1>9, <1>10, <1>11, <1>12

LEMMA SendKeeps ==
  ASSUME IInv, Send
  PROVE  IInv'
<1> DEFINE n == Len(pc) + 1
<1>1. /\ Grows /\ up /\ Len(pc) < MaxTurn
      /\ UNCHANGED <<offered, lost, closing, up, booted, effect, replies, crashes, fails>>
  BY DEF Send, Grows, startup, counts
<1>2. /\ n \in Nat /\ n \notin Turns /\ Turns' = Turns \cup {n} /\ \A u \in Turns : Same(u)
      /\ Len(pc') = n /\ pc'[n] = "starting"
  BY <1>1, TurnAdded DEF IInv
<1>3. Types'
  <2>1. lost' \in Seq(Turns') /\ offered' \in 0..Len(pc') /\ closing' \in 0..Len(pc')
    <3>1. Turns \subseteq Turns' /\ lost \in Seq(Turns) /\ Len(pc) \in Nat
          /\ offered \in 0..Len(pc) /\ closing \in 0..Len(pc)
      BY <1>2 DEF IInv, Types
    <3>2. lost \in Seq(Turns')
      BY <3>1, SeqMonotonic
    <3> QED BY <1>1, <1>2, <3>1, <3>2
  <2>2. /\ pc' \in Seq(Live \cup {"unwind", "gone"})
        /\ journal' \in Seq(Seq(JobEvent)) /\ Len(journal') = Len(pc')
        /\ conv' \in Seq(Seq(Message)) /\ Len(conv') = Len(pc')
        /\ sent' \in Seq(Nat) /\ Len(sent') = Len(pc')
        /\ depth' \in Seq(Nat) /\ Len(depth') = Len(pc')
        /\ todo' \in Seq(Seq(Call)) /\ Len(todo') = Len(pc')
        /\ answers' \in Seq(AnswerMap) /\ Len(answers') = Len(pc')
    BY <1>1, TurnAdded DEF IInv
  <2> QED BY <1>1, <2>1, <2>2 DEF IInv, Types
<1>4. lost = <<>> /\ booted /\ closing = 0
  BY <1>1 DEF IInv, Handing
<1>5. Lost' /\ Handing' /\ Room'
  <2>1. Len(lost) = 0
    BY <1>4
  <2>2. Lost' /\ Handing'
    BY <1>1, <1>4, <2>1 DEF Lost, Handing
  <2>3. Len(pc') <= MaxTurn
    BY <1>1, <1>2, JobJournalAssumption
  <2> QED BY <1>1, <2>2, <2>3 DEF Room
<1>6. Offering'
  <2> SUFFICES ASSUME offered # 0 PROVE pc'[offered] = "gone"
    BY <1>1 DEF Offering
  <2>1. offered \in Turns /\ pc[offered] = "gone"
    BY DEF IInv, Types, Turns, Offering
  <2> QED BY <1>2, <2>1 DEF Same
<1> QED BY <1>1, <1>3, <1>5, <1>6, GrowsKeeps DEF IInv

LEMMA StartResumeKeeps ==
  ASSUME IInv, StartResume
  PROVE  IInv'
<1> DEFINE n == Len(pc) + 1
           first == lost[1]
<1>1. /\ Grows /\ booted /\ lost # <<>> /\ closing = 0
      /\ UNCHANGED <<lost, up, booted, effect, replies, crashes, fails>>
      /\ offered' = Head(lost) /\ closing' = n
  BY DEF StartResume, Grows, startup, counts
<1>2. /\ n \in Nat /\ n \notin Turns /\ Turns' = Turns \cup {n} /\ \A u \in Turns : Same(u)
      /\ Len(pc') = n /\ pc'[n] = "starting" /\ Len(pc) \in Nat /\ n # 0
  <2>1. Types
    BY DEF IInv
  <2>2. Len(pc) \in Nat /\ n # 0
    BY <2>1 DEF Types
  <2> QED BY <1>1, <2>1, <2>2, TurnAdded
<1>3. /\ Len(lost) \in Nat /\ 1 \in 1..Len(lost) /\ first = Head(lost)
      /\ \A i \in 1..Len(lost) : lost[i] \in Turns /\ Started(lost[i]) /\ pc[lost[i]] = "gone"
  <2>1. lost \in Seq(Turns)
    BY DEF IInv, Types
  <2>2. \A i \in 1..Len(lost) : lost[i] \in Turns /\ Started(lost[i]) /\ pc[lost[i]] = "gone"
    BY <2>1 DEF IInv, Lost
  <2> QED BY <1>1, <2>1, <2>2
<1>4. first \in Turns /\ first \in 1..Len(pc) /\ pc[first] = "gone"
      /\ offered' = first /\ closing' # 0
  BY <1>1, <1>2, <1>3 DEF Turns
<1> HIDE DEF first
<1>5. Types'
  <2>1. lost' \in Seq(Turns') /\ offered' \in 0..Len(pc') /\ closing' \in 0..Len(pc')
    <3>1. Turns \subseteq Turns' /\ lost \in Seq(Turns)
      BY <1>2 DEF IInv, Types
    <3>2. lost \in Seq(Turns')
      BY <3>1, SeqMonotonic
    <3> QED BY <1>1, <1>2, <1>4, <3>2
  <2>2. /\ pc' \in Seq(Live \cup {"unwind", "gone"})
        /\ journal' \in Seq(Seq(JobEvent)) /\ Len(journal') = Len(pc')
        /\ conv' \in Seq(Seq(Message)) /\ Len(conv') = Len(pc')
        /\ sent' \in Seq(Nat) /\ Len(sent') = Len(pc')
        /\ depth' \in Seq(Nat) /\ Len(depth') = Len(pc')
        /\ todo' \in Seq(Seq(Call)) /\ Len(todo') = Len(pc')
        /\ answers' \in Seq(AnswerMap) /\ Len(answers') = Len(pc')
    BY <1>1, TurnAdded DEF IInv
  <2> QED BY <1>1, <2>1, <2>2 DEF IInv, Types
<1>6. Lost'
  <2>1. ASSUME NEW i \in 1..Len(lost) PROVE Started(lost[i])' /\ pc'[lost[i]] = "gone"
    <3>1. Same(lost[i])
      BY <1>2, <1>3
    <3> QED BY <1>1, <1>3, <3>1 DEF Same, Started
  <2> QED BY <1>1, <2>1 DEF Lost
<1>7. ~up
  BY <1>1 DEF IInv, Handing
<1>8. Handing' /\ Room'
  <2>1. Handing'
    BY <1>1, <1>7 DEF Handing
  <2>2. Len(pc) + Len(lost) <= MaxTurn
    BY <1>1, <1>3, <1>7, JobJournalAssumption DEF IInv, Room
  <2>3. Len(pc') + Len(lost) <= MaxTurn + 1
    BY <1>2, <1>3, <2>2, JobJournalAssumption
  <2> QED BY <1>1, <1>2, <1>7, <2>1, <2>3 DEF Room
<1>9. Offering'
  <2>1. Same(first)
    BY <1>2, <1>4
  <2> QED BY <1>4, <2>1 DEF Same, Offering
<1> QED BY <1>1, <1>5, <1>6, <1>8, <1>9, GrowsKeeps DEF IInv

\* The journal of the lost turn handled first is closed, and it leaves the list.
Closes(as) ==
  /\ journal' = [journal EXCEPT ![Head(lost)] = Append(@, [kind |-> "end", as |-> as])]
  /\ lost' = Tail(lost) /\ closing' = 0
  /\ offered' = offered \/ offered' = 0
  /\ UNCHANGED <<pc, conv, sent, todo, answers, depth, up, booted, effect, replies, crashes>>

LEMMA ClosesJournal ==
  ASSUME Types, NEW as \in Nat, Closes(as), lost # <<>>
  PROVE  /\ Head(lost) \in Turns /\ Head(lost) = lost[1] /\ 1 \in 1..Len(lost)
         /\ journal' \in Seq(Seq(JobEvent)) /\ Len(journal') = Len(journal)
         /\ journal'[Head(lost)] = Append(journal[Head(lost)], [kind |-> "end", as |-> as])
         /\ \A u \in Turns : /\ u # Head(lost) => journal'[u] = journal[u]
                             /\ Rebuild(journal'[u]) = Rebuild(journal[u])
                             /\ Intended(journal'[u]) = Intended(journal[u])
                             /\ Started(u) => Started(u)'
<1>0. PICK o : o = Head(lost)
  OBVIOUS
<1> DEFINE rec == [kind |-> "end", as |-> as]
           more == Append(journal[o], rec)
<1>1. /\ lost \in Seq(Turns) /\ 1 \in 1..Len(lost) /\ o = lost[1] /\ o \in Turns
  <2>1. lost \in Seq(Turns)
    BY DEF Types
  <2> QED BY <1>0, <2>1
<1>2. journal[o] \in Seq(JobEvent) /\ o \in 1..Len(journal) /\ journal \in Seq(Seq(JobEvent))
  BY <1>1, TypesAt DEF Types
<1>3. /\ more \in Seq(JobEvent) /\ Rebuild(more) = Rebuild(journal[o])
      /\ Intended(more) = Intended(journal[o])
  BY <1>2, EndRecord
<1>4. rec \in JobEvent
  BY DEF JobEvent
<1>5. journal' = [journal EXCEPT ![o] = more]
  BY <1>0 DEF Closes
<1> HIDE DEF rec
<1>6. Started(o) => \E i \in DOMAIN more : more[i].kind = "start"
  BY <1>2, <1>4, StartedStays DEF Started
<1> HIDE DEF more
<1>7. /\ journal' \in Seq(Seq(JobEvent)) /\ Len(journal') = Len(journal) /\ journal'[o] = more
      /\ \A u \in 1..Len(journal) : u # o => journal'[u] = journal[u]
  BY <1>2, <1>3, <1>5, PutAt
<1>8. \A u \in Turns : u \in 1..Len(journal)
  BY TypesAt
<1>9. \A u \in Turns : /\ u # o => journal'[u] = journal[u]
                       /\ Rebuild(journal'[u]) = Rebuild(journal[u])
                       /\ Intended(journal'[u]) = Intended(journal[u])
  BY <1>3, <1>7, <1>8
<1>10. \A u \in Turns : Started(u) => Started(u)'
  BY <1>6, <1>7, <1>9 DEF Started
<1> QED BY <1>0, <1>1, <1>7, <1>9, <1>10 DEF more, rec

LEMMA ClosesKeeps ==
  ASSUME IInv, NEW as \in Nat, Closes(as), booted, lost # <<>>, fails' \in 0..MaxFail
  PROVE  IInv'
<1>0. PICK o : o = Head(lost)
  OBVIOUS
<1>1. Types
  BY DEF IInv
<1>2. /\ o \in Turns /\ o = lost[1] /\ 1 \in 1..Len(lost)
      /\ journal' \in Seq(Seq(JobEvent)) /\ Len(journal') = Len(journal)
      /\ \A u \in Turns : /\ u # o => journal'[u] = journal[u]
                          /\ Rebuild(journal'[u]) = Rebuild(journal[u])
                          /\ Intended(journal'[u]) = Intended(journal[u])
                          /\ Started(u) => Started(u)'
  BY <1>0, <1>1, ClosesJournal
<1>3. /\ lost \in Seq(Turns) /\ Len(lost) \in Nat
      /\ Len(Tail(lost)) = Len(lost) - 1 /\ Tail(lost) \in Seq(Turns)
      /\ \A i \in 1..Len(Tail(lost)) : Tail(lost)[i] = lost[i + 1] /\ i + 1 \in 1..Len(lost)
  <2>1. lost \in Seq(Turns)
    BY <1>1 DEF Types
  <2> QED BY <2>1
<1>4. \A i \in 1..Len(lost) : lost[i] \in Turns /\ Started(lost[i]) /\ pc[lost[i]] = "gone"
  BY <1>3 DEF IInv, Lost
<1>5. /\ Turns' = Turns /\ lost' = Tail(lost) /\ closing' = 0
      /\ offered' = offered \/ offered' = 0
      /\ UNCHANGED <<pc, conv, sent, todo, answers, depth, up, booted, effect, replies, crashes>>
  BY DEF Closes, Turns
<1>6. pc[o] = "gone"
  BY <1>2, <1>4
<1>7. Types'
  <2>1. 0 \in 0..Len(pc)
    BY <1>1 DEF Types
  <2> QED BY <1>1, <1>2, <1>3, <1>5, <2>1 DEF Types, Turns
<1>8. Lost'
  <2>1. ASSUME NEW i \in 1..Len(Tail(lost))
        PROVE  HasStart(journal'[Tail(lost)[i]]) /\ pc'[Tail(lost)[i]] = "gone"
    <3>1. PICK u : u = lost[i + 1]
      OBVIOUS
    <3>2. Tail(lost)[i] = u /\ u \in Turns /\ Started(u) /\ pc[u] = "gone"
      BY <1>3, <1>4, <3>1
    <3>3. HasStart(journal'[u]) /\ pc'[u] = "gone"
      BY <1>2, <1>5, <3>2 DEF HasStart, Started
    <3> QED BY <3>2, <3>3
  <2> QED BY <1>5, <2>1 DEF Lost, Started, HasStart
<1>9. ~up
  BY DEF IInv, Handing
<1>10. Handing'
  BY <1>5, <1>9 DEF Handing
<1>11. Room'
  <2>1. Len(pc) \in Nat /\ MaxTurn \in Nat
    BY <1>1, JobJournalAssumption DEF Types
  <2>2. Len(pc) + Len(lost) <= MaxTurn + 1
    BY <1>3, <1>9, <2>1 DEF IInv, Room
  <2>3. Len(pc) + (Len(lost) - 1) <= MaxTurn
    BY <1>3, <2>1, <2>2
  <2> QED BY <1>3, <1>5, <1>9, <2>1, <2>3 DEF Room
<1>12. Offering'
  BY <1>5 DEF IInv, Offering
<1>13. Journals'
  BY <1>2, <1>5 DEF IInv, Journals
<1>14. Places'
  <2>1. ASSUME NEW u \in Turns PROVE PlaceOk(u)'
    <3>1. PlaceOk(u)
      BY DEF IInv, Places
    <3>2. CASE u = o
      BY <1>5, <1>6, <3>1, <3>2 DEF PlaceOk, TalkOk, BeginOk, LoopOk, Running, InLoop
    <3>3. CASE u # o
      BY <1>2, <1>5, <3>1, <3>3 DEF PlaceOk, TalkOk, BeginOk, LoopOk, Started
    <3> QED BY <3>2, <3>3
  <2> QED BY <1>5, <2>1 DEF Places
<1>15. Named' /\ Effects'
  BY <1>2, <1>5 DEF IInv, Named, Effects
<1>16. Fresh'
  BY <1>5 DEF IInv, Fresh, FreshOk
<1>17. Sources'
  BY <1>2, <1>5 DEF IInv, Sources, SourceOk
<1> QED BY <1>7, <1>8, <1>10, <1>11, <1>12, <1>13, <1>14, <1>15, <1>16, <1>17 DEF IInv

\* Refusing the turn, failing to start its successor, and closing it as resumed.
LEMMA CloseSteps ==
  ASSUME Types, Handing, Refuse \/ StartFails \/ CloseResumed
  PROVE  /\ booted /\ lost # <<>> /\ fails' \in 0..MaxFail /\ starts' = starts
         /\ UNCHANGED <<nest, moves>>
         /\ \E as \in 0..Len(pc) : as \in Nat /\ Closes(as)
<1>0. 0 \in Nat /\ 0 \in 0..Len(pc) /\ closing \in 0..Len(pc) /\ closing \in Nat
  BY DEF Types
<1>1. CASE Refuse
  <2>1. booted /\ lost # <<>> /\ Closes(0) /\ starts' = starts /\ UNCHANGED <<nest, moves>>
    BY <1>1 DEF Refuse, Record, Closes, memory
  <2>2. fails' \in 0..MaxFail
    BY <1>1, JobJournalAssumption DEF Refuse, Types
  <2> QED BY <1>0, <2>1, <2>2
<1>2. CASE StartFails
  <2>1. booted /\ lost # <<>> /\ Closes(0) /\ starts' = starts /\ UNCHANGED <<nest, moves>>
    BY <1>2 DEF StartFails, Record, Closes, memory
  <2>2. fails' \in 0..MaxFail
    BY <1>2, JobJournalAssumption DEF StartFails, Types
  <2> QED BY <1>0, <2>1, <2>2
<1>3. CASE CloseResumed
  <2>1. booted /\ lost # <<>> /\ Closes(closing) /\ starts' = starts /\ UNCHANGED <<nest, moves>>
    BY <1>3 DEF CloseResumed, Record, Closes, memory, counts, Handing
  <2>2. fails' \in 0..MaxFail
    BY <1>3 DEF CloseResumed, Types, counts
  <2> QED BY <1>0, <2>1, <2>2
<1> QED BY <1>1, <1>2, <1>3

LEMMA CloseStepsKeep ==
  ASSUME IInv, Refuse \/ StartFails \/ CloseResumed
  PROVE  IInv'
BY CloseSteps, ClosesKeeps DEF IInv

\* Nothing of the turns, the journals and the effects changes.
LEMMA RestStays ==
  ASSUME IInv, UNCHANGED <<journal, memory, offered, effect, replies>>
  PROVE  Offering' /\ Journals' /\ Places' /\ Named' /\ Fresh' /\ Sources' /\ Effects'
<1>1. UNCHANGED <<journal, pc, conv, sent, todo, answers, depth, offered, effect, replies>>
      /\ Turns' = Turns
  BY DEF memory, Turns
<1>2. Offering'
  BY <1>1 DEF IInv, Offering
<1>3. Journals' /\ Named' /\ Effects'
  BY <1>1 DEF IInv, Journals, Named, Effects
<1>4. Places'
  BY <1>1 DEF IInv, Places, PlaceOk, TalkOk, BeginOk, LoopOk, Started
<1>5. Fresh' /\ Sources'
  BY <1>1 DEF IInv, Fresh, FreshOk, Sources, SourceOk
<1> QED BY <1>2, <1>3, <1>4, <1>5

\* `unfinished` finds rows of turns that had begun, and finitely many.
LEMMA RowsFound ==
  ASSUME Starting
  PROVE  /\ IsFiniteSet(Unfinished) /\ Cardinality(Unfinished) \in Nat
         /\ \A i \in Unfinished : starts[i] \in Turns /\ Started(starts[i])
<1>1. starts \in Seq(Nat)
  BY DEF Starting
<1>2. DOMAIN starts = 1..Len(starts) /\ Len(starts) \in Nat /\ \A i \in DOMAIN starts : starts[i] \in Nat
  BY <1>1
<1>3. Unfinished \subseteq 1..Len(starts)
  BY <1>2 DEF Unfinished
<1>4. IsFiniteSet(Unfinished) /\ Cardinality(Unfinished) \in Nat
  <2>1. IsFiniteSet(1..Len(starts))
    BY <1>2, FS_Interval
  <2>2. IsFiniteSet(Unfinished)
    BY <1>3, <2>1, FS_Subset
  <2> QED BY <2>2, FS_CardinalityType
<1>5. ASSUME NEW i \in Unfinished PROVE starts[i] \in Turns /\ Started(starts[i])
  <2>1. PICK u : u = starts[i]
    OBVIOUS
  <2>2. i \in 1..Len(starts) /\ u \in Nat
    BY <1>2, <1>3, <2>1
  <2>3. u \in Turns /\ Started(u)
    BY <2>1, <2>2 DEF Starting
  <2> QED BY <2>1, <2>3
<1> QED BY <1>4, <1>5

LEMMA BootKeeps ==
  ASSUME IInv, Starting, Boot
  PROVE  IInv'
<1>1. PICK rows \in Listings(Unfinished) : lost' = [i \in DOMAIN rows |-> starts[rows[i]]]
  BY DEF Boot
<1>2. /\ ~booted /\ booted' = TRUE
      /\ UNCHANGED <<journal, memory, offered, closing, up, effect, replies, crashes, fails>>
  BY DEF Boot, counts, disk
<1>3. /\ ~up /\ closing = 0 /\ \A t \in Turns : pc[t] = "gone"
  BY <1>2 DEF IInv, Handing
<1>4. /\ IsFiniteSet(Unfinished)
      /\ \A i \in Unfinished : starts[i] \in Turns /\ Started(starts[i])
  BY RowsFound
<1>5. rows \in Seq(Unfinished) /\ Len(rows) = Cardinality(Unfinished)
  BY <1>1, <1>4, ListingShape
<1>6. DOMAIN rows = 1..Len(rows) /\ Len(rows) \in Nat /\ \A i \in 1..Len(rows) : rows[i] \in Unfinished
  BY <1>5
<1>7. \A i \in 1..Len(rows) : lost'[i] = starts[rows[i]] /\ lost'[i] \in Turns /\ Started(starts[rows[i]])
  BY <1>1, <1>4, <1>6
<1>8. lost' \in Seq(Turns) /\ Len(lost') = Len(rows)
  <2>1. lost' = [i \in 1..Len(rows) |-> starts[rows[i]]]
    BY <1>1, <1>6
  <2>2. \A i \in 1..Len(rows) : starts[rows[i]] \in Turns
    BY <1>7
  <2>3. lost' \in [1..Len(rows) -> Turns]
    BY <2>1, <2>2
  <2> QED BY <1>6, <2>3
<1>9. Turns' = Turns /\ pc' = pc
  BY <1>2 DEF memory, Turns
<1>10. Lost'
  <2>1. ASSUME NEW i \in 1..Len(rows) PROVE HasStart(journal'[lost'[i]]) /\ pc'[lost'[i]] = "gone"
    <3>1. PICK u : u = starts[rows[i]]
      OBVIOUS
    <3>2. lost'[i] = u /\ u \in Turns /\ Started(u)
      BY <1>7, <3>1
    <3> QED BY <1>2, <1>3, <1>9, <3>2 DEF Started, HasStart
  <2> QED BY <1>8, <2>1 DEF Lost, Started, HasStart
<1>11. Handing' /\ Room'
  BY <1>2, <1>3, <1>5, <1>8, <1>9 DEF IInv, Handing, Room
<1>12. Types'
  BY <1>2, <1>8, <1>9 DEF IInv, Types, memory
<1>13. Offering' /\ Journals' /\ Places' /\ Named' /\ Fresh' /\ Sources' /\ Effects'
  BY <1>2, RestStays
<1> QED BY <1>10, <1>11, <1>12, <1>13 DEF IInv

LEMMA ServeKeeps ==
  ASSUME IInv, Serve
  PROVE  IInv'
<1>1. /\ booted /\ lost = <<>> /\ ~up /\ up' = TRUE
      /\ UNCHANGED <<journal, memory, offered, lost, closing, booted, effect, replies, crashes, fails>>
  BY DEF Serve, counts, disk
<1>2. closing = 0 /\ Len(lost) = 0 /\ Len(pc) \in Nat /\ MaxTurn \in Nat
  BY <1>1, JobJournalAssumption DEF IInv, Handing, Types
<1>3. Len(pc) <= MaxTurn
  BY <1>1, <1>2 DEF IInv, Room
<1>4. Handing' /\ Room'
  BY <1>1, <1>2, <1>3 DEF Handing, Room, memory
<1>5. Types' /\ Lost'
  BY <1>1 DEF IInv, Types, Lost, Started, memory, Turns
<1>6. Offering' /\ Journals' /\ Places' /\ Named' /\ Fresh' /\ Sources' /\ Effects'
  BY <1>1, RestStays
<1> QED BY <1>4, <1>5, <1>6 DEF IInv

LEMMA CrashKeeps ==
  ASSUME IInv, Crash
  PROVE  IInv'
<1>1. /\ Len(pc) + Cardinality(Unfinished) <= MaxTurn /\ crashes < MaxCrash
      /\ crashes' = crashes + 1 /\ offered' = 0 /\ lost' = <<>> /\ closing' = 0
      /\ up' = FALSE /\ booted' = FALSE
      /\ UNCHANGED <<journal, starts, effect, replies, fails>>
  BY DEF Crash, disk
<1>2. /\ pc' = [t \in Turns |-> "gone"] /\ conv' = [t \in Turns |-> <<>>]
      /\ todo' = [t \in Turns |-> <<>>] /\ answers' = [t \in Turns |-> <<>>]
      /\ sent' = [t \in Turns |-> 0] /\ depth' = [t \in Turns |-> 0]
  BY DEF Crash
<1>3. Types /\ Len(pc) \in Nat /\ Turns = 1..Len(pc)
  BY DEF IInv, Types, Turns
<1>4. /\ pc' \in Seq(Live \cup {"unwind", "gone"}) /\ Len(pc') = Len(pc)
      /\ \A t \in Turns : pc'[t] = "gone"
  <2>1. "gone" \in Live \cup {"unwind", "gone"}
    OBVIOUS
  <2> QED BY <1>2, <1>3, <2>1
<1>5. /\ conv' \in Seq(Seq(Message)) /\ Len(conv') = Len(pc) /\ \A t \in Turns : conv'[t] = <<>>
  <2>1. <<>> \in Seq(Message)
    OBVIOUS
  <2> QED BY <1>2, <1>3, <2>1
<1>6. /\ todo' \in Seq(Seq(Call)) /\ Len(todo') = Len(pc)
  <2>1. <<>> \in Seq(Call)
    OBVIOUS
  <2> QED BY <1>2, <1>3, <2>1
<1>7. /\ answers' \in Seq(AnswerMap) /\ Len(answers') = Len(pc)
      /\ \A t \in Turns : answers'[t] = <<>>
  BY <1>2, <1>3, NoAnswers
<1>8. /\ sent' \in Seq(Nat) /\ Len(sent') = Len(pc) /\ \A t \in Turns : sent'[t] = 0
      /\ depth' \in Seq(Nat) /\ Len(depth') = Len(pc)
  BY <1>2, <1>3
<1>9. Turns' = Turns
  BY <1>4 DEF Turns
<1>10. Types'
  <2>1. 0 \in 0..Len(pc) /\ <<>> \in Seq(Turns) /\ crashes + 1 \in 0..MaxCrash
    BY <1>1, <1>3, JobJournalAssumption DEF Types
  <2> QED BY <1>1, <1>3, <1>4, <1>5, <1>6, <1>7, <1>8, <1>9, <2>1 DEF Types
<1>11. Unfinished' = Unfinished
  BY <1>1 DEF Unfinished, Ended
<1>12. Lost' /\ Handing' /\ Offering' /\ Room'
  <2>1. Len(<<>>) = 0
    OBVIOUS
  <2>2. Lost' /\ Offering'
    BY <1>1, <2>1 DEF Lost, Offering
  <2>3. Handing'
    BY <1>1, <1>4, <1>9 DEF Handing
  <2>4. Room'
    <3>1. Len(pc') + Cardinality(Unfinished') <= MaxTurn + 0
      BY <1>1, <1>4, <1>11, JobJournalAssumption
    <3> QED BY <1>1, <3>1 DEF Room
  <2> QED BY <2>2, <2>3, <2>4
<1>13. Journals' /\ Named' /\ Effects'
  BY <1>1, <1>9 DEF IInv, Journals, Named, Effects
<1>14. Fresh' /\ Sources'
  BY <1>4, <1>9 DEF Fresh, FreshOk, Sources, SourceOk
<1>15. Paired(<<>>) /\ <<>> \in HonestTalk(effect') /\ <<>> \in HonestMaps(effect') /\ 0 <= Len(<<>>)
  <2>1. Nothing.messages = <<>> /\ Nothing \in Rebuildable(effect')
    BY NothingIsRebuildable
  <2>2. Paired(<<>>) /\ <<>> \in HonestTalk(effect')
    BY <2>1, RebuildableShape
  <2> QED BY <2>2, NoAnswers DEF HonestMaps
<1>16. Places'
  <2>1. ASSUME NEW t \in Turns PROVE PlaceOk(t)'
    <3>1. pc'[t] = "gone" /\ conv'[t] = <<>> /\ answers'[t] = <<>> /\ sent'[t] = 0
      BY <1>4, <1>5, <1>7, <1>8
    <3> QED BY <1>15, <3>1 DEF PlaceOk, TalkOk, BeginOk, LoopOk, Running, InLoop
  <2> QED BY <1>9, <2>1 DEF Places
<1> QED BY <1>10, <1>12, <1>13, <1>14, <1>16 DEF IInv

LEMMA StutterKeeps ==
  ASSUME IInv, UNCHANGED vars
  PROVE  IInv'
<1>1. UNCHANGED <<journal, starts, memory, offered, lost, closing, up, booted, effect, replies,
                  crashes, fails>>
  BY DEF vars, startup, counts, disk
<1>2. Types'
  BY <1>1 DEF IInv, Types, memory, Turns
<1>3. Unfinished' = Unfinished
  BY <1>1 DEF Unfinished, Ended
<1>4. Lost'
  BY <1>1 DEF IInv, Lost, Started, memory
<1>5. Handing' /\ Room'
  BY <1>1, <1>3 DEF IInv, Handing, Room, memory, Turns
<1>6. Offering' /\ Journals' /\ Places' /\ Named' /\ Fresh' /\ Sources' /\ Effects'
  BY <1>1, RestStays
<1> QED BY <1>2, <1>4, <1>5, <1>6 DEF IInv

LEMMA BeginsSo ==
  ASSUME Init
  PROVE  IInv /\ Starting
<1>1. /\ journal = <<>> /\ starts = <<>> /\ pc = <<>> /\ conv = <<>> /\ sent = <<>>
      /\ todo = <<>> /\ answers = <<>> /\ depth = <<>> /\ offered = 0 /\ lost = <<>>
      /\ closing = 0 /\ up = TRUE /\ booted = TRUE /\ effect = [c \in Call |-> 0]
      /\ replies = 0 /\ crashes = 0 /\ fails = 0
  BY DEF Init
<1>2. Len(<<>>) = 0 /\ Turns = {}
  BY <1>1 DEF Turns
<1>3. /\ MaxReply \in Nat /\ MaxCrash \in Nat /\ MaxFail \in Nat /\ MaxTurn \in Nat
  BY JobJournalAssumption
<1>4. Types
  BY <1>1, <1>2, <1>3 DEF Types
<1>5. Lost /\ Handing /\ Offering /\ Room
  BY <1>1, <1>2, <1>3 DEF Lost, Handing, Offering, Room
<1>6. Journals /\ Places /\ Named /\ Fresh /\ Sources
  BY <1>2 DEF Journals, Places, Named, Fresh, Sources
<1>7. Effects
  BY <1>1 DEF Effects
<1>8. Starting
  BY <1>1, <1>2 DEF Starting
<1> QED BY <1>4, <1>5, <1>6, <1>7, <1>8 DEF IInv

LEMMA StepKeeps ==
  ASSUME IInv, Starting, [Next]_vars
  PROVE  IInv'
<1>1. CASE Send
  BY <1>1, SendKeeps
<1>2. ASSUME NEW t \in Turns, TurnStep(t) \/ FailEarly(t) PROVE IInv'
  <2>1. CASE TakeOffer(t) \/ NoOffer(t) \/ RunAgain(t) \/ RunAgainDone(t) \/ Open(t)
    BY <2>1, TakeOfferKeeps, NoOfferKeeps, RunAgainKeeps, RunAgainDoneKeeps, OpenKeeps
  <2>2. CASE Request(t) \/ Answered(t) \/ Execute(t) \/ Result(t) \/ StepDone(t)
    BY <2>2, RequestKeeps, AnsweredKeeps, ExecuteKeeps, ResultKeeps, StepDoneKeeps
  <2>3. CASE FailOver(t) \/ TakeOver(t) \/ End(t) \/ Unwind(t)
    BY <2>3, NestedKeeps, EndKeeps
  <2>4. CASE FailEarly(t)
    BY <2>4, FailEarlyKeeps
  <2> QED BY <1>2, <2>1, <2>2, <2>3, <2>4 DEF TurnStep
<1>3. CASE Crash
  BY <1>3, CrashKeeps
<1>4. CASE Startup
  BY <1>4, BootKeeps, StartResumeKeeps, CloseStepsKeep, ServeKeeps DEF Startup
<1>5. CASE UNCHANGED vars
  BY <1>5, StutterKeeps
<1> QED BY <1>1, <1>2, <1>3, <1>4, <1>5 DEF Next

-----------------------------------------------------------------------------
(* What a turn's step writes: a `start`, an `end`, or records that are      *)
(* neither.  A turn whose loop has ended only writes the ends of the loops  *)
(* that waited for it.                                                      *)
HasEnd(records) == \E i \in DOMAIN records : records[i].kind = "end"
Alike(old, new) == /\ HasStart(new) <=> HasStart(old)
                   /\ HasEnd(new) => HasEnd(old)
EndOf(k) == [kind |-> "end", as |-> k]

LEMMA KindsAppend ==
  ASSUME NEW records \in Seq(JobEvent), NEW rec \in JobEvent,
         NEW more, more = Append(records, rec)
  PROVE  /\ HasStart(more) <=> HasStart(records) \/ rec.kind = "start"
         /\ HasEnd(more) <=> HasEnd(records) \/ rec.kind = "end"
<1>1. /\ DOMAIN more = 1..(Len(records) + 1) /\ more[Len(records) + 1] = rec
      /\ DOMAIN records = 1..Len(records) /\ Len(records) \in Nat
      /\ \A i \in 1..Len(records) : more[i] = records[i]
  OBVIOUS
<1>2. \A i \in DOMAIN more : i = Len(records) + 1 \/ i \in DOMAIN records
  BY <1>1
<1>3. \A i \in DOMAIN records : i \in DOMAIN more
  BY <1>1
<1>4. Len(records) + 1 \in DOMAIN more
  BY <1>1
<1> QED BY <1>1, <1>2, <1>3, <1>4 DEF HasStart, HasEnd

LEMMA KindsWritten ==
  ASSUME NEW records \in Seq(JobEvent), NEW calls \in Seq(Call),
         NEW more, more = Written(records, calls)
  PROVE  Alike(records, more)
<1> DEFINE rec == [kind |-> "model", calls |-> calls]
           front == Append(records, rec)
           named == Intents(calls)
<1>1. rec \in JobEvent /\ rec.kind = "model"
  BY DEF JobEvent
<1> HIDE DEF rec
<1>2. front \in Seq(JobEvent) /\ front = records \o <<rec>>
  BY <1>1
<1>3. Alike(records, front)
  BY <1>1, KindsAppend DEF Alike
<1>4. named \in Seq(JobEvent) /\ \A i \in 1..Len(named) : named[i].kind = "intent"
  BY IntentsShape
<1>5. more = front \o named
  BY <1>2 DEF Written, rec
<1> HIDE DEF front, named
<1>6. /\ DOMAIN more = 1..(Len(front) + Len(named)) /\ Len(front) \in Nat /\ Len(named) \in Nat
      /\ DOMAIN front = 1..Len(front)
      /\ \A i \in 1..(Len(front) + Len(named)) :
           more[i] = IF i <= Len(front) THEN front[i] ELSE named[i - Len(front)]
  BY <1>2, <1>4, <1>5
<1>7. ASSUME NEW i \in DOMAIN more
      PROVE  more[i].kind = "intent" \/ (i \in DOMAIN front /\ more[i] = front[i])
  <2>1. CASE i <= Len(front)
    BY <1>6, <2>1
  <2>2. CASE ~(i <= Len(front))
    <3>1. i - Len(front) \in 1..Len(named) /\ more[i] = named[i - Len(front)]
      BY <1>6, <2>2
    <3>2. named[i - Len(front)].kind = "intent"
      BY <1>4, <3>1
    <3> QED BY <3>1, <3>2
  <2> QED BY <2>1, <2>2
<1>8. \A i \in DOMAIN front : i \in DOMAIN more /\ more[i] = front[i]
  BY <1>6
<1>9. Alike(front, more)
  BY <1>7, <1>8 DEF Alike, HasStart, HasEnd
<1> QED BY <1>3, <1>9 DEF Alike

WritesNoMark(t) ==
  /\ pc[t] \in Live /\ pc'[t] \in Live \cup {"gone"} /\ starts' = starts
  /\ Alike(journal[t], journal'[t])
WritesStart(t) ==
  /\ pc[t] \in Live /\ pc'[t] \in Live /\ starts' = Append(starts, t)
  /\ \E rec \in JobEvent : rec.kind = "start" /\ journal'[t] = Append(journal[t], rec)
WritesEnd(t) ==
  /\ pc'[t] \in {"unwind", "gone"} /\ starts' = starts
  /\ journal'[t] = Append(journal[t], EndOf(0))

LEMMA TurnWrites ==
  ASSUME IInv, NEW t \in Turns, TurnStep(t) \/ FailEarly(t)
  PROVE  Moved(t) /\ (WritesNoMark(t) \/ WritesStart(t) \/ WritesEnd(t))
<1>1. /\ Types /\ journal[t] \in Seq(JobEvent) /\ conv[t] \in Seq(Message) /\ depth[t] \in Nat
      /\ sent[t] \in Nat /\ todo[t] \in Seq(Call)
  BY TypesAt DEF IInv
<1>2. Alike(journal[t], journal[t])
  BY DEF Alike
<1>3. CASE FailEarly(t)
  <2>1. Moved(t) /\ pc[t] = "starting" /\ pc'[t] = "gone" /\ journal'[t] = journal[t]
    BY <1>1, <1>3, FailEarlyDoes
  <2>2. starts' = starts
    BY <1>3 DEF FailEarly, disk
  <2> QED BY <1>2, <2>1, <2>2 DEF WritesNoMark, Live
<1>4. CASE TakeOffer(t)
  <2>1. Moved(t) /\ pc[t] = "starting" /\ pc'[t] = "rerun" /\ journal'[t] = journal[t]
    BY <1>1, <1>4, TakeOfferDoes DEF IInv
  <2>2. starts' = starts
    BY <1>4 DEF TakeOffer, disk
  <2> QED BY <1>2, <2>1, <2>2 DEF WritesNoMark, Live
<1>5. CASE NoOffer(t)
  <2>1. Moved(t) /\ pc[t] = "starting" /\ pc'[t] = "open" /\ journal'[t] = journal[t]
    BY <1>1, <1>5, NoOfferDoes
  <2>2. starts' = starts
    BY <1>5 DEF NoOffer, disk
  <2> QED BY <1>2, <2>1, <2>2 DEF WritesNoMark, Live
<1>6. CASE RunAgain(t)
  <2>1. Moved(t) /\ pc[t] = "rerun" /\ pc'[t] = "rerun" /\ journal'[t] = journal[t]
    BY <1>1, <1>6, RunAgainDoes
  <2>2. starts' = starts
    BY <1>6 DEF RunAgain, disk
  <2> QED BY <1>2, <2>1, <2>2 DEF WritesNoMark, Live
<1>7. CASE RunAgainDone(t)
  <2>1. Moved(t) /\ pc[t] = "rerun" /\ pc'[t] = "open" /\ journal'[t] = journal[t]
    BY <1>1, <1>7, RunAgainDoneDoes
  <2>2. starts' = starts
    BY <1>7 DEF RunAgainDone, disk
  <2> QED BY <1>2, <2>1, <2>2 DEF WritesNoMark, Live
<1>8. CASE Open(t)
  <2> DEFINE rec == [kind |-> "start", messages |-> conv[t], depth |-> depth[t]]
  <2>1. Moved(t) /\ pc[t] = "open" /\ pc'[t] = "ask" /\ journal'[t] = Append(journal[t], rec)
    BY <1>1, <1>8, OpenDoes
  <2>2. rec \in JobEvent /\ rec.kind = "start"
    BY <1>1 DEF JobEvent
  <2> HIDE DEF rec
  <2>3. starts' = Append(starts, t)
    BY <1>8 DEF Open
  <2> QED BY <2>1, <2>2, <2>3 DEF WritesStart, Live
<1>9. CASE Request(t)
  <2> DEFINE added == SubSeq(conv[t], sent[t] + 1, Len(conv[t]))
             rec == [kind |-> "messages", added |-> added]
  <2>1. /\ Moved(t) /\ pc[t] = "ask" /\ pc'[t] = "reply"
        /\ journal'[t] = IF sent[t] < Len(conv[t]) THEN Append(journal[t], rec) ELSE journal[t]
    BY <1>1, <1>9, RequestDoes
  <2>2. added \in Seq(Message)
    BY <1>1
  <2> HIDE DEF added
  <2>3. rec \in JobEvent /\ rec.kind = "messages"
    BY <2>2 DEF JobEvent
  <2> HIDE DEF rec
  <2>4. Alike(journal[t], journal'[t])
    BY <1>1, <1>2, <2>1, <2>3, KindsAppend DEF Alike
  <2>5. starts' = starts
    BY <1>9 DEF Request
  <2> QED BY <2>1, <2>4, <2>5 DEF WritesNoMark, Live
<1>10. CASE Answered(t)
  <2>1. PICK calls \in Seq(Call) :
          /\ Moved(t) /\ pc[t] = "reply" /\ pc'[t] = "run" /\ journal'[t] = Written(journal[t], calls)
    BY <1>1, <1>10, AnsweredDoes DEF Written
  <2>2. Alike(journal[t], journal'[t])
    BY <1>1, <2>1, KindsWritten
  <2>3. starts' = starts
    BY <1>10 DEF Answered
  <2> QED BY <2>1, <2>2, <2>3 DEF WritesNoMark, Live
<1>11. CASE Execute(t)
  <2>1. Moved(t) /\ pc[t] = "run" /\ pc'[t] = "result" /\ journal'[t] = journal[t]
    BY <1>1, <1>11, ExecuteDoes
  <2>2. starts' = starts
    BY <1>11 DEF Execute, disk
  <2> QED BY <1>2, <2>1, <2>2 DEF WritesNoMark, Live
<1>12. CASE Result(t)
  <2> DEFINE rec == [kind |-> "result", call |-> Head(todo[t]), answer |-> "ok"]
  <2>1. todo[t] # <<>>
    BY <1>12, OwnPlace DEF LoopOk, Result
  <2>2. Moved(t) /\ pc[t] = "result" /\ pc'[t] = "run" /\ journal'[t] = Append(journal[t], rec)
    BY <1>1, <1>12, <2>1, ResultDoes
  <2>3. rec \in JobEvent /\ rec.kind = "result"
    BY <1>1, <2>1, FirstAndRest DEF JobEvent
  <2> HIDE DEF rec
  <2>4. Alike(journal[t], journal'[t])
    BY <1>1, <2>2, <2>3, KindsAppend DEF Alike
  <2>5. starts' = starts
    BY <1>12 DEF Result
  <2> QED BY <2>2, <2>4, <2>5 DEF WritesNoMark, Live
<1>13. CASE StepDone(t)
  <2>1. Moved(t) /\ pc[t] = "run" /\ pc'[t] = "ask" /\ journal'[t] = journal[t]
    BY <1>1, <1>13, StepDoneDoes
  <2>2. starts' = starts
    BY <1>13 DEF StepDone, disk
  <2> QED BY <1>2, <2>1, <2>2 DEF WritesNoMark, Live
<1>14. CASE FailOver(t) \/ TakeOver(t)
  <2>1. Moved(t) /\ pc[t] \in {"ask", "reply"} /\ pc'[t] = "starting" /\ journal'[t] = journal[t]
    BY <1>1, <1>14, NestedDoes
  <2>2. starts' = starts
    BY <1>14 DEF FailOver, TakeOver, Nested, disk
  <2> QED BY <1>2, <2>1, <2>2 DEF WritesNoMark, Live
<1>15. CASE End(t)
  <2>1. Moved(t) /\ pc'[t] \in {"unwind", "gone"} /\ journal'[t] = Append(journal[t], EndOf(0))
    BY <1>1, <1>15, EndDoes DEF EndOf
  <2>2. starts' = starts
    BY <1>15 DEF End
  <2> QED BY <2>1, <2>2 DEF WritesEnd
<1>16. CASE Unwind(t)
  <2>1. Moved(t) /\ pc'[t] \in {"unwind", "gone"} /\ journal'[t] = Append(journal[t], EndOf(0))
    BY <1>1, <1>16, UnwindDoes DEF EndOf
  <2>2. starts' = starts
    BY <1>16 DEF Unwind
  <2> QED BY <2>1, <2>2 DEF WritesEnd
<1> QED
  BY <1>3, <1>4, <1>5, <1>6, <1>7, <1>8, <1>9, <1>10, <1>11, <1>12, <1>13, <1>14, <1>15, <1>16
  DEF TurnStep

\* `starts` goes on naming the turns that began.
LEMMA StartingStays ==
  ASSUME Starting, starts' = starts, Turns \subseteq Turns',
         \A u \in Turns : HasStart(journal'[u]) <=> HasStart(journal[u]),
         \A u \in Turns' \ Turns : ~HasStart(journal'[u])
  PROVE  Starting'
<1>1. ASSUME NEW u \in Nat
      PROVE  (\E i \in 1..Len(starts) : starts[i] = u) <=> u \in Turns' /\ HasStart(journal'[u])
  BY DEF Starting, Started, HasStart
<1> QED BY <1>1 DEF Starting, Started, HasStart

LEMMA StartingTurn ==
  ASSUME IInv, Starting, NEW t \in Turns, TurnStep(t) \/ FailEarly(t)
  PROVE  Starting'
<1>1. /\ Moved(t) /\ (WritesNoMark(t) \/ WritesStart(t) \/ WritesEnd(t))
      /\ journal[t] \in Seq(JobEvent) /\ t \in Nat
  BY TurnWrites, TypesAt DEF IInv
<1>2. Turns' = Turns /\ \A u \in Turns : u # t => journal'[u] = journal[u]
  BY <1>1 DEF Moved, Turns, Same
<1>3. CASE WritesNoMark(t)
  BY <1>2, <1>3, StartingStays DEF WritesNoMark, Alike
<1>4. CASE WritesEnd(t)
  <2>1. EndOf(0) \in JobEvent /\ EndOf(0).kind = "end"
    BY DEF EndOf, JobEvent
  <2>2. HasStart(journal'[t]) <=> HasStart(journal[t])
    BY <1>1, <1>4, <2>1, KindsAppend DEF WritesEnd
  <2> QED BY <1>2, <1>4, <2>2, StartingStays DEF WritesEnd
<1>5. CASE WritesStart(t)
  <2>1. starts' = Append(starts, t) /\ starts \in Seq(Nat)
    BY <1>5 DEF WritesStart, Starting
  <2>2. /\ starts' \in Seq(Nat) /\ Len(starts') = Len(starts) + 1 /\ starts'[Len(starts) + 1] = t
        /\ \A i \in 1..Len(starts) : starts'[i] = starts[i]
    BY <1>1, <2>1
  <2>3. HasStart(journal'[t])
    BY <1>1, <1>5, KindsAppend DEF WritesStart
  <2>4. Len(starts) \in Nat
    BY <2>1
  <2>5. ASSUME NEW u \in Nat
        PROVE  (\E i \in 1..Len(starts') : starts'[i] = u) <=> u \in Turns /\ HasStart(journal'[u])
    <3>1. (\E i \in 1..Len(starts) : starts[i] = u) <=> u \in Turns /\ HasStart(journal[u])
      BY DEF Starting, Started, HasStart
    <3>2. CASE u = t
      <4>1. Len(starts) + 1 \in 1..Len(starts')
        BY <2>2, <2>4
      <4> QED BY <2>2, <2>3, <3>2, <4>1
    <3>3. CASE u # t
      <4>1. ASSUME NEW i \in 1..Len(starts'), starts'[i] = u
            PROVE  i \in 1..Len(starts) /\ starts[i] = u
        <5>1. i # Len(starts) + 1
          BY <2>2, <3>3, <4>1
        <5>2. i \in 1..Len(starts)
          BY <2>2, <2>4, <5>1
        <5> QED BY <2>2, <4>1, <5>2
      <4>2. \A i \in 1..Len(starts) : i \in 1..Len(starts')
        BY <2>2, <2>4
      <4>3. (\E i \in 1..Len(starts') : starts'[i] = u) <=> (\E i \in 1..Len(starts) : starts[i] = u)
        BY <2>2, <4>1, <4>2
      <4> QED BY <1>2, <3>1, <3>3, <4>3
    <3> QED BY <3>2, <3>3
  <2> QED BY <1>2, <2>2, <2>5 DEF Starting, Started, HasStart
<1> QED BY <1>1, <1>3, <1>4, <1>5

LEMMA StartingKeeps ==
  ASSUME IInv, Starting, [Next]_vars
  PROVE  Starting'
<1>0. Types /\ Handing
  BY DEF IInv
<1>1. CASE Send \/ StartResume
  <2>1. Grows /\ starts' = starts
    BY <1>1 DEF Send, StartResume, Grows, counts
  <2>2. PICK n : n = Len(pc) + 1
    OBVIOUS
  <2>3. /\ Turns' = Turns \cup {n} /\ journal'[n] = <<>>
        /\ \A u \in Turns : journal'[u] = journal[u]
    BY <1>0, <2>1, <2>2, TurnAdded DEF Same
  <2>4. ~HasStart(<<>>)
    BY DEF HasStart
  <2> QED BY <2>1, <2>3, <2>4, StartingStays
<1>2. ASSUME NEW t \in Turns, TurnStep(t) \/ FailEarly(t) PROVE Starting'
  BY <1>2, StartingTurn
<1>3. CASE Refuse \/ StartFails \/ CloseResumed
  <2>1. /\ lost # <<>> /\ starts' = starts
        /\ \E as \in 0..Len(pc) : as \in Nat /\ Closes(as)
    BY <1>0, <1>3, CloseSteps
  <2>2. PICK as \in Nat : Closes(as)
    BY <2>1
  <2>3. PICK o : o = Head(lost)
    OBVIOUS
  <2>4. /\ o \in Turns /\ journal'[o] = Append(journal[o], EndOf(as))
        /\ \A u \in Turns : u # o => journal'[u] = journal[u]
    BY <1>0, <2>1, <2>2, <2>3, ClosesJournal DEF EndOf
  <2>5. EndOf(as) \in JobEvent /\ EndOf(as).kind = "end" /\ journal[o] \in Seq(JobEvent)
    BY <1>0, <2>4, TypesAt DEF EndOf, JobEvent
  <2>6. HasStart(journal'[o]) <=> HasStart(journal[o])
    BY <2>4, <2>5, KindsAppend
  <2>7. Turns' = Turns
    BY <2>2 DEF Closes, Turns
  <2> QED BY <2>1, <2>4, <2>6, <2>7, StartingStays
<1>4. CASE Boot \/ Serve \/ UNCHANGED vars
  <2>1. journal' = journal /\ starts' = starts /\ Turns' = Turns
    BY <1>4 DEF Boot, Serve, vars, memory, disk, Turns
  <2> QED BY <2>1, StartingStays
<1>5. CASE Crash
  <2>1. pc' = [t \in Turns |-> "gone"] /\ journal' = journal /\ starts' = starts
    BY <1>5 DEF Crash, disk
  <2>2. Turns = 1..Len(pc) /\ Len(pc) \in Nat
    BY <1>0 DEF Types, Turns
  <2>3. Len(pc') = Len(pc)
    BY <2>1, <2>2
  <2>4. Turns' = Turns
    BY <2>3 DEF Turns
  <2> QED BY <2>1, <2>4, StartingStays
<1> QED BY <1>1, <1>2, <1>3, <1>4, <1>5 DEF Next, Startup

(* The invariant holds whenever a turn, the daemon's death or its start-up may *)
(* interrupt the other, for any number of turns, replies, calls, crashes and   *)
(* loops that call themselves; `starts` names the turns that began.            *)
THEOREM Inductive == Spec => [](IInv /\ Starting)
<1>1. Init => IInv /\ Starting
  BY BeginsSo
<1>2. (IInv /\ Starting) /\ [Next]_vars => (IInv /\ Starting)'
  BY StepKeeps, StartingKeeps
<1> QED BY <1>1, <1>2, PTL DEF Spec

-----------------------------------------------------------------------------
(* What the runs check, for every value of the constants. *)

LEMMA RoomForTurns ==
  ASSUME IInv, Starting
  PROVE  Len(pc) <= MaxTurn
<1>1. Len(pc) \in Nat /\ MaxTurn \in Nat
  BY JobJournalAssumption DEF IInv, Types
<1>2. Cardinality(Unfinished) \in Nat
  BY RowsFound
<1>3. lost \in Seq(Turns)
  BY DEF IInv, Types
<1>4. Len(lost) \in Nat /\ (lost # <<>> => Len(lost) >= 1)
  BY <1>3
<1>5. Room /\ (closing # 0 => lost # <<>>) /\ (~booted => closing = 0) /\ (up => booted)
  BY DEF IInv, Handing
<1>6. CASE up
  BY <1>5, <1>6 DEF Room
<1>7. CASE ~up /\ booted
  <2>1. Len(pc) + Len(lost) <= MaxTurn + (IF closing = 0 THEN 0 ELSE 1)
    BY <1>5, <1>7 DEF Room
  <2> QED BY <1>1, <1>4, <1>5, <2>1
<1>8. CASE ~up /\ ~booted
  <2>1. Len(pc) + Cardinality(Unfinished) <= MaxTurn + 0
    BY <1>5, <1>8 DEF Room
  <2> QED BY <1>1, <1>2, <2>1
<1> QED BY <1>6, <1>7, <1>8

LEMMA TurnTyped ==
  ASSUME IInv, NEW t \in Turns
  PROVE  /\ \A i \in DOMAIN conv[t] :
              IF conv[t][i].role = "tool" THEN AnswersOk(conv[t][i].of)
              ELSE conv[t][i].role = "user" \/ Range(conv[t][i].calls) \subseteq Call
         /\ Range(todo[t]) \subseteq Call /\ AnswersOk(answers[t])
         /\ sent[t] \in 0..Len(conv[t]) /\ depth[t] \in Nat
         /\ pc[t] = "result" => todo[t] # <<>>
<1>1. /\ conv[t] \in Seq(Message) /\ todo[t] \in Seq(Call) /\ answers[t] \in AnswerMap
      /\ sent[t] \in Nat /\ depth[t] \in Nat /\ sent[t] <= Len(conv[t])
      /\ pc[t] = "result" => todo[t] # <<>>
  BY TypesAt, OwnPlace DEF IInv, TalkOk, LoopOk
<1>2. \A known \in AnswerMap : AnswersOk(known)
  BY AnswersShape DEF AnswersOk
<1>3. \A calls \in Seq(Call) : Range(calls) \subseteq Call
  BY RangeFinite
<1>4. ASSUME NEW i \in DOMAIN conv[t]
      PROVE  IF conv[t][i].role = "tool" THEN AnswersOk(conv[t][i].of)
             ELSE conv[t][i].role = "user" \/ Range(conv[t][i].calls) \subseteq Call
  <2>1. conv[t][i] \in Message
    BY <1>1
  <2> QED BY <1>2, <1>3, <2>1, MessageShape
<1>5. sent[t] \in 0..Len(conv[t])
  BY <1>1
<1> QED BY <1>1, <1>2, <1>3, <1>4, <1>5

\* The loops that wait: none for a turn that is gone, one at least while an
\* inner one returns.
Nests ==
  /\ nest \in Seq(Nat) /\ Len(nest) = Len(pc) /\ moves \in 0..MaxMove
  /\ \A t \in Turns : /\ pc[t] = "unwind" => nest[t] > 0
                      /\ pc[t] = "gone" => nest[t] = 0

LEMMA NestsAt ==
  ASSUME Nests, NEW t \in Turns, Moved(t), NEW k \in Nat,
         nest' = [nest EXCEPT ![t] = k], moves' \in 0..MaxMove,
         pc'[t] = "unwind" => k > 0, pc'[t] = "gone" => k = 0
  PROVE  Nests'
<1>1. nest \in Seq(Nat) /\ Len(nest) = Len(pc) /\ Turns = 1..Len(pc) /\ t \in 1..Len(nest)
  BY DEF Nests, Turns
<1>2. /\ nest' \in Seq(Nat) /\ Len(nest') = Len(nest) /\ nest'[t] = k
      /\ \A u \in 1..Len(nest) : u # t => nest'[u] = nest[u]
  BY <1>1, PutAt
<1>3. Len(pc') = Len(pc) /\ Turns' = Turns /\ \A u \in Turns : u # t => pc'[u] = pc[u]
  BY DEF Moved, Turns, Same
<1>4. ASSUME NEW u \in Turns
      PROVE  (pc'[u] = "unwind" => nest'[u] > 0) /\ (pc'[u] = "gone" => nest'[u] = 0)
  <2>1. CASE u = t
    BY <1>2, <2>1
  <2>2. CASE u # t
    BY <1>1, <1>2, <1>3, <2>2 DEF Nests
  <2> QED BY <2>1, <2>2
<1> QED BY <1>1, <1>2, <1>3, <1>4 DEF Nests

LEMMA NestsTurn ==
  ASSUME IInv, Nests, NEW t \in Turns, TurnStep(t) \/ FailEarly(t)
  PROVE  Nests'
<1>1. /\ Types /\ Moved(t) /\ nest \in Seq(Nat) /\ t \in 1..Len(nest) /\ nest[t] \in Nat
      /\ moves \in 0..MaxMove /\ MaxMove \in Nat
  <2>1. nest \in Seq(Nat) /\ t \in 1..Len(nest)
    BY DEF Nests, Turns
  <2>2. nest[t] \in Nat
    BY <2>1, ElementOfSeq
  <2> QED BY <2>1, <2>2, TurnWrites, JobJournalAssumption DEF IInv, Nests
<1>2. nest = [nest EXCEPT ![t] = nest[t]]
  BY <1>1
<1>3. CASE nest' = nest /\ moves' = moves /\ pc'[t] \notin {"unwind", "gone"}
  BY <1>1, <1>2, <1>3, NestsAt
<1>4. CASE FailEarly(t)
  <2>1. pc'[t] = "gone" /\ nest[t] = 0 /\ nest' = nest /\ moves' = moves
    BY <1>1, <1>4, FailEarlyDoes DEF FailEarly
  <2> QED BY <1>1, <1>2, <2>1, NestsAt
<1>5. CASE End(t)
  <2>1. nest' = nest /\ moves' = moves /\ pc' = [pc EXCEPT ![t] = IF nest[t] = 0 THEN "gone" ELSE "unwind"]
    BY <1>5 DEF End, Goto, counts
  <2>2. pc'[t] = IF nest[t] = 0 THEN "gone" ELSE "unwind"
    <3>1. pc \in Seq(Live \cup {"unwind", "gone"}) /\ t \in 1..Len(pc)
      BY <1>1 DEF Types, Turns
    <3> QED BY <2>1, <3>1
  <2>3. nest[t] # 0 => nest[t] > 0
    BY <1>1
  <2> QED BY <1>1, <1>2, <2>1, <2>2, <2>3, NestsAt
<1>6. CASE Unwind(t)
  <2>1. /\ nest' = [nest EXCEPT ![t] = @ - 1] /\ moves' = moves /\ pc[t] = "unwind"
        /\ pc' = [pc EXCEPT ![t] = IF nest[t] = 1 THEN "gone" ELSE "unwind"]
    BY <1>6 DEF Unwind, Goto, counts
  <2>2. pc'[t] = IF nest[t] = 1 THEN "gone" ELSE "unwind"
    <3>1. pc \in Seq(Live \cup {"unwind", "gone"}) /\ t \in 1..Len(pc)
      BY <1>1 DEF Types, Turns
    <3> QED BY <2>1, <3>1
  <2>3. nest[t] > 0
    BY <2>1 DEF Nests
  <2>4. PICK k : k = nest[t] - 1
    OBVIOUS
  <2>5. k \in Nat /\ nest' = [nest EXCEPT ![t] = k] /\ (nest[t] # 1 => k > 0) /\ (nest[t] = 1 => k = 0)
    BY <1>1, <2>1, <2>3, <2>4
  <2>6. (pc'[t] = "unwind" => k > 0) /\ (pc'[t] = "gone" => k = 0)
    BY <2>2, <2>5
  <2> QED BY <1>1, <2>1, <2>5, <2>6, NestsAt
<1>7. CASE FailOver(t) \/ TakeOver(t)
  <2>1. /\ nest' = [nest EXCEPT ![t] = @ + 1] /\ moves' = moves + 1 /\ moves < MaxMove
        /\ pc'[t] = "starting"
    BY <1>1, <1>7, NestedDoes DEF FailOver, TakeOver, Nested
  <2>2. PICK k : k = nest[t] + 1
    OBVIOUS
  <2>3. k \in Nat /\ nest' = [nest EXCEPT ![t] = k] /\ moves' \in 0..MaxMove
    BY <1>1, <2>1, <2>2
  <2> QED BY <1>1, <2>1, <2>3, NestsAt
<1>8. CASE TakeOffer(t) \/ NoOffer(t) \/ RunAgain(t) \/ RunAgainDone(t) \/ Open(t)
  <2>1. nest' = nest /\ moves' = moves
    BY <1>8 DEF TakeOffer, NoOffer, RunAgain, RunAgainDone, Open, counts
  <2>2. pc'[t] \in {"rerun", "open", "ask"}
    <3>1. CASE TakeOffer(t)
      BY <1>1, <3>1, TakeOfferDoes DEF IInv
    <3>2. CASE NoOffer(t)
      BY <1>1, <3>2, NoOfferDoes
    <3>3. CASE RunAgain(t)
      BY <1>1, <3>3, RunAgainDoes
    <3>4. CASE RunAgainDone(t)
      BY <1>1, <3>4, RunAgainDoneDoes
    <3>5. CASE Open(t)
      BY <1>1, <3>5, OpenDoes
    <3> QED BY <1>8, <3>1, <3>2, <3>3, <3>4, <3>5
  <2> QED BY <1>3, <2>1, <2>2
<1>9. CASE Request(t) \/ Answered(t) \/ Execute(t) \/ Result(t) \/ StepDone(t)
  <2>1. nest' = nest /\ moves' = moves
    BY <1>9 DEF Request, Answered, Execute, Result, StepDone, counts
  <2>2. pc'[t] \in {"reply", "run", "result", "ask"}
    <3>1. CASE Request(t)
      BY <1>1, <3>1, RequestDoes
    <3>2. CASE Answered(t)
      BY <1>1, <3>2, AnsweredDoes
    <3>3. CASE Execute(t)
      <4>1. todo[t] # <<>> /\ todo[t] \in Seq(Call)
        BY <1>1, <3>3, TypesAt DEF Execute
      <4> QED BY <1>1, <3>3, <4>1, ExecuteDoes
    <3>4. CASE Result(t)
      <4>1. todo[t] # <<>>
        BY <3>4, OwnPlace DEF LoopOk, Result
      <4> QED BY <1>1, <3>4, <4>1, ResultDoes
    <3>5. CASE StepDone(t)
      BY <1>1, <3>5, StepDoneDoes
    <3> QED BY <1>9, <3>1, <3>2, <3>3, <3>4, <3>5
  <2> QED BY <1>3, <2>1, <2>2
<1> QED BY <1>4, <1>5, <1>6, <1>7, <1>8, <1>9 DEF TurnStep

LEMMA NestsKept ==
  ASSUME IInv, Nests, [Next]_vars
  PROVE  Nests'
<1>0. Types /\ Handing /\ Turns = 1..Len(pc) /\ Len(pc) \in Nat /\ nest \in Seq(Nat) /\ Len(nest) = Len(pc)
  BY DEF IInv, Types, Turns, Nests
<1>1. CASE Send \/ StartResume
  <2>1. Grows /\ moves' = moves /\ nest' = Append(nest, 0)
    BY <1>1 DEF Send, StartResume, Grows, NewTurn, counts
  <2>2. PICK n : n = Len(pc) + 1
    OBVIOUS
  <2>3. /\ Turns' = Turns \cup {n} /\ Len(pc') = n /\ pc'[n] = "starting"
        /\ \A u \in Turns : pc'[u] = pc[u]
    BY <1>0, <2>1, <2>2, TurnAdded DEF Same
  <2>4. /\ nest' \in Seq(Nat) /\ Len(nest') = Len(nest) + 1
        /\ \A u \in 1..Len(nest) : nest'[u] = nest[u]
    BY <1>0, <2>1
  <2>5. ASSUME NEW u \in Turns'
        PROVE  (pc'[u] = "unwind" => nest'[u] > 0) /\ (pc'[u] = "gone" => nest'[u] = 0)
    <3>1. CASE u \in Turns
      BY <1>0, <2>3, <2>4, <3>1 DEF Nests
    <3>2. CASE u = n
      BY <2>3, <3>2
    <3> QED BY <2>3, <3>1, <3>2
  <2> QED BY <1>0, <2>1, <2>2, <2>3, <2>4, <2>5 DEF Nests
<1>2. ASSUME NEW t \in Turns, TurnStep(t) \/ FailEarly(t) PROVE Nests'
  BY <1>2, NestsTurn
<1>3. CASE Crash
  <2>1. /\ pc' = [t \in Turns |-> "gone"] /\ nest' = [t \in Turns |-> 0] /\ moves' = moves
    BY <1>3 DEF Crash
  <2>2. Len(pc') = Len(pc) /\ nest' \in Seq(Nat) /\ Len(nest') = Len(pc)
        /\ \A t \in Turns : pc'[t] = "gone" /\ nest'[t] = 0
    BY <1>0, <2>1
  <2>3. Turns' = Turns
    BY <2>2 DEF Turns
  <2> QED BY <2>1, <2>2, <2>3 DEF Nests
<1>4. CASE Boot \/ Serve \/ UNCHANGED vars
  <2>1. nest' = nest /\ pc' = pc /\ moves' = moves
    BY <1>4 DEF Boot, Serve, vars, memory, counts
  <2> QED BY <2>1 DEF Nests, Turns
<1>5. CASE Refuse \/ StartFails \/ CloseResumed
  <2>1. nest' = nest /\ moves' = moves /\ \E as \in 0..Len(pc) : as \in Nat /\ Closes(as)
    BY <1>0, <1>5, CloseSteps
  <2>2. pc' = pc
    BY <2>1 DEF Closes
  <2> QED BY <2>1, <2>2 DEF Nests, Turns
<1> QED BY <1>1, <1>2, <1>3, <1>4, <1>5 DEF Next, Startup

(* Every variable has its type, the turns still to be handed over are turns    *)
(* that had begun (`unfinished`, journal.rs), and no loop waits for a turn     *)
(* that is gone.                                                               *)
THEOREM Shape == Spec => []TypeOK
<1>1. Init => Nests
  <2>1. 0 \in 0..MaxMove /\ Len(<<>>) = 0
    BY JobJournalAssumption
  <2> QED BY <2>1 DEF Init, Nests, Turns
<1>2. ASSUME IInv, Starting, Nests PROVE TypeOK
  <2>1. Types /\ Len(pc) <= MaxTurn /\ Turns = 1..Len(pc)
    BY <1>2, RoomForTurns DEF IInv, Turns
  <2>2. Range(starts) = {t \in Turns : Started(t)}
    <3>1. starts \in Seq(Nat)
      BY <1>2 DEF Starting
    <3>2. DOMAIN starts = 1..Len(starts) /\ \A i \in DOMAIN starts : starts[i] \in Nat
      BY <3>1
    <3>3. \A t \in Turns : t \in Nat
      BY <2>1
    <3> QED BY <1>2, <3>2, <3>3 DEF Starting, Range
  <2>3. Range(lost) \subseteq Range(starts)
    <3>1. lost \in Seq(Turns)
      BY <2>1 DEF Types
    <3>2. DOMAIN lost = 1..Len(lost) /\ \A i \in DOMAIN lost : lost[i] \in Turns
      BY <3>1
    <3> QED BY <1>2, <2>2, <3>2 DEF IInv, Lost, Range
  <2>4. up => booted
    BY <1>2 DEF IInv, Handing
  <2>5. nest \in [Turns -> Nat]
    BY <1>2, <2>1 DEF Nests
  <2>6. \A t \in Turns :
          /\ \A i \in DOMAIN conv[t] :
               IF conv[t][i].role = "tool" THEN AnswersOk(conv[t][i].of)
               ELSE conv[t][i].role = "user" \/ Range(conv[t][i].calls) \subseteq Call
          /\ Range(todo[t]) \subseteq Call /\ AnswersOk(answers[t])
          /\ sent[t] \in 0..Len(conv[t]) /\ depth[t] \in Nat
          /\ pc[t] = "result" => todo[t] # <<>>
    BY <1>2, TurnTyped
  <2> QED BY <1>2, <2>1, <2>2, <2>3, <2>4, <2>5, <2>6 DEF TypeOK, Types, Nests
<1>3. IInv /\ Nests /\ [Next]_vars => Nests'
  BY NestsKept
<1> QED BY <1>1, <1>2, <1>3, Inductive, PTL DEF Spec

(* settle runs no command again, and no edit that landed: each was made at most *)
(* once, however often the turn was lost and resumed.                          *)
THEOREM NeverRepeated == Spec => []NotRepeated
<1>1. IInv => NotRepeated
  BY DEF IInv, Effects, NotRepeated, Single
<1> QED BY <1>1, Inductive, PTL

(* Writer::intent comes before tools::execute: whatever was done to the machine *)
(* is named in a journal, also when a resumed turn did it.                      *)
THEOREM AlwaysWrittenAhead == Spec => []WrittenAhead
<1>1. ASSUME IInv PROVE WrittenAhead
  <2>1. ASSUME NEW c \in Call, effect[c] > 0
        PROVE  \E t \in Turns : \E i \in DOMAIN journal[t] :
                 journal[t][i].kind = "intent" /\ journal[t][i].call = c
    <3>1. PICK t \in Turns : c \in Intended(journal[t])
      BY <1>1, <2>1 DEF IInv, Effects
    <3>2. journal[t] \in Seq(JobEvent)
      BY <1>1, TypesAt DEF IInv
    <3>3. DOMAIN journal[t] = 1..Len(journal[t])
      BY <3>2
    <3> QED BY <3>1, <3>3 DEF Intended
  <2> QED BY <2>1 DEF WrittenAhead
<1> QED BY <1>1, Inductive, PTL

(* Where the cascade's strong model takes over no turn, what the loop sends to *)
(* a provider, rebuilt conversations included, answers each reply's calls by   *)
(* the message right after it; EveryCallAnswered then needs no exception.      *)
THEOREM RequestsAreAccepted ==
  "takeover" \notin Moves => (Spec => [](EveryRequestAccepted /\ EveryCallAnswered))
<1> SUFFICES ASSUME Tidy PROVE Spec => [](EveryRequestAccepted /\ EveryCallAnswered)
  BY DEF Tidy
<1>1. ASSUME IInv PROVE EveryRequestAccepted
  <2> SUFFICES ASSUME NEW t \in Turns, pc[t] = "reply", NEW i \in DOMAIN conv[t]
               PROVE  /\ conv[t][i].role = "assistant" =>
                           /\ i < Len(conv[t]) /\ conv[t][i + 1].role = "tool"
                           /\ DOMAIN conv[t][i + 1].of = Range(conv[t][i].calls)
                      /\ conv[t][i].role = "tool" => i > 1 /\ conv[t][i - 1].role = "assistant"
    BY DEF EveryRequestAccepted, Accepted
  <2>1. /\ conv[t] \in Seq(Message) /\ Paired(conv[t]) /\ ~AnswersOpen(conv[t])
    BY <1>1, TypesAt, OwnPlace DEF IInv, TalkOk, LoopOk, InLoop
  <2>2. i \in 1..Len(conv[t]) /\ Len(conv[t]) \in Nat
    BY <2>1
  <2>3. conv[t][i].role = "assistant" => i < Len(conv[t])
    BY <2>1, <2>2 DEF AnswersOpen
  <2> QED BY <2>1, <2>2, <2>3 DEF Paired
<1>2. EveryRequestAccepted => EveryCallAnswered
  BY DEF EveryRequestAccepted, EveryCallAnswered
<1> QED BY <1>1, <1>2, Inductive, PTL

(* No answer the model reads, journaled or made up by settle, claims a change   *)
(* that was not made, and only a command's outcome is left unknown.             *)
THEOREM AlwaysHonest == Spec => []AnswersAreHonest
<1>1. ASSUME IInv PROVE AnswersAreHonest
  <2> SUFFICES ASSUME NEW t \in Turns, NEW i \in DOMAIN conv[t], conv[t][i].role = "tool",
                      NEW c \in DOMAIN conv[t][i].of
               PROVE  /\ conv[t][i].of[c] = "unknown" => c.kind = "command"
                      /\ conv[t][i].of[c] \in {"ok", "already"} => effect[c] >= 1
    BY DEF AnswersAreHonest
  <2>1. conv[t] \in Seq(Message) /\ conv[t] \in HonestTalk(effect)
    BY <1>1, TypesAt, OwnPlace DEF IInv, TalkOk
  <2>2. conv[t][i].of \in HonestMaps(effect)
    BY <2>1 DEF HonestTalk
  <2> QED BY <2>2 DEF HonestMaps
<1> QED BY <1>1, Inductive, PTL

-----------------------------------------------------------------------------
(* A turn whose loop runs has no `end` yet, though it may have begun more   *)
(* than once: the loops that wait write theirs as they return.              *)
InFlight == \A t \in Turns : pc[t] \in Live => ~Ended(t)

\* What EndIsFinal says of one step.
FinalStep ==
  \A t \in Turns : Ended(t) =>
    \/ journal'[t] = journal[t]
    \/ \E n \in 0..Len(pc) : journal'[t] = Append(journal[t], [kind |-> "end", as |-> n])

LEMMA TurnFlies ==
  ASSUME IInv, InFlight, NEW t \in Turns, TurnStep(t) \/ FailEarly(t)
  PROVE  InFlight' /\ FinalStep
<1>1. /\ Moved(t) /\ (WritesNoMark(t) \/ WritesStart(t) \/ WritesEnd(t))
      /\ journal[t] \in Seq(JobEvent) /\ 0 \in 0..Len(pc)
  <2>1. journal[t] \in Seq(JobEvent) /\ Len(pc) \in Nat
    BY TypesAt DEF IInv
  <2> QED BY <2>1, TurnWrites
<1>2. Turns' = Turns /\ \A u \in Turns : u # t => journal'[u] = journal[u] /\ pc'[u] = pc[u]
  BY <1>1 DEF Moved, Turns, Same
<1>3. pc[t] \in Live => ~HasEnd(journal[t])
  BY DEF InFlight, Ended, HasEnd
<1>4. /\ pc'[t] \in Live => ~HasEnd(journal'[t])
      /\ HasEnd(journal[t]) => journal'[t] = Append(journal[t], EndOf(0))
  <2>1. CASE WritesNoMark(t)
    BY <1>3, <2>1 DEF WritesNoMark, Alike
  <2>2. CASE WritesStart(t)
    BY <1>1, <1>3, <2>2, KindsAppend DEF WritesStart
  <2>3. CASE WritesEnd(t)
    BY <2>3 DEF WritesEnd, Live
  <2> QED BY <1>1, <2>1, <2>2, <2>3
<1>5. InFlight'
  <2>1. ASSUME NEW u \in Turns, pc'[u] \in Live PROVE ~HasEnd(journal'[u])
    <3>1. CASE u = t
      BY <1>4, <2>1, <3>1
    <3>2. CASE u # t
      BY <1>2, <2>1, <3>2 DEF InFlight, Ended, HasEnd
    <3> QED BY <3>1, <3>2
  <2>2. Live' = Live
    BY DEF Live
  <2> QED BY <1>2, <2>1, <2>2 DEF InFlight, Ended, HasEnd
<1>6. FinalStep
  <2>1. ASSUME NEW u \in Turns, Ended(u)
        PROVE  \/ journal'[u] = journal[u]
               \/ \E n \in 0..Len(pc) : journal'[u] = Append(journal[u], [kind |-> "end", as |-> n])
    <3>1. CASE u = t
      BY <1>1, <1>4, <2>1, <3>1 DEF Ended, HasEnd, EndOf
    <3>2. CASE u # t
      BY <1>2, <3>2
    <3> QED BY <3>1, <3>2
  <2> QED BY <2>1 DEF FinalStep
<1> QED BY <1>5, <1>6

LEMMA StartUpFlies ==
  ASSUME IInv, InFlight, Send \/ Crash \/ Startup \/ UNCHANGED vars
  PROVE  InFlight' /\ FinalStep
<1>1. Types /\ Handing /\ Turns = 1..Len(pc) /\ Len(pc) \in Nat
  BY DEF IInv, Types, Turns
<1>2. CASE Send \/ StartResume
  <2>1. Grows
    BY <1>2 DEF Send, StartResume, Grows, counts
  <2>2. PICK n : n = Len(pc) + 1
    OBVIOUS
  <2>3. Turns' = Turns \cup {n} /\ journal'[n] = <<>> /\ \A u \in Turns : Same(u)
    BY <1>1, <2>1, <2>2, TurnAdded
  <2>4. FinalStep
    BY <2>3 DEF FinalStep, Same
  <2>5. ASSUME NEW u \in Turns', pc'[u] \in Live PROVE ~Ended(u)'
    <3>1. CASE u = n
      BY <2>3, <3>1 DEF Ended
    <3>2. CASE u # n
      BY <2>3, <2>5, <3>2 DEF InFlight, Ended, Same
    <3> QED BY <3>1, <3>2
  <2> QED BY <2>4, <2>5 DEF InFlight, Live
<1>3. CASE Refuse \/ StartFails \/ CloseResumed
  <2>1. lost # <<>> /\ \E as \in 0..Len(pc) : as \in Nat /\ Closes(as)
    BY <1>1, <1>3, CloseSteps
  <2>2. PICK as \in 0..Len(pc) : as \in Nat /\ Closes(as)
    BY <2>1
  <2>3. PICK o : o = Head(lost)
    OBVIOUS
  <2>4. /\ o \in Turns /\ o = lost[1] /\ 1 \in 1..Len(lost)
        /\ journal'[o] = Append(journal[o], [kind |-> "end", as |-> as])
        /\ \A u \in Turns : u # o => journal'[u] = journal[u]
    BY <1>1, <2>1, <2>2, <2>3, ClosesJournal
  <2>5. pc[o] = "gone"
    BY <2>4 DEF IInv, Lost
  <2>6. pc' = pc /\ Turns' = Turns
    BY <2>2 DEF Closes, Turns
  <2>7. FinalStep
    BY <2>4 DEF FinalStep
  <2>8. ASSUME NEW u \in Turns, pc[u] \in Live PROVE ~Ended(u)'
    <3>1. u # o
      BY <2>5, <2>8 DEF Live
    <3> QED BY <2>4, <2>8, <3>1 DEF InFlight, Ended
  <2> QED BY <2>6, <2>7, <2>8 DEF InFlight, Live
<1>4. CASE Boot \/ Serve \/ UNCHANGED vars
  <2>1. journal' = journal /\ pc' = pc /\ Turns' = Turns
    BY <1>4 DEF Boot, Serve, vars, memory, disk, Turns
  <2> QED BY <2>1 DEF InFlight, FinalStep, Ended, Live
<1>5. CASE Crash
  <2>1. pc' = [t \in Turns |-> "gone"] /\ journal' = journal
    BY <1>5 DEF Crash, disk
  <2>2. Len(pc') = Len(pc) /\ \A t \in Turns : pc'[t] = "gone"
    BY <1>1, <2>1
  <2>3. Turns' = Turns
    BY <2>2 DEF Turns
  <2> QED BY <2>1, <2>2, <2>3 DEF InFlight, FinalStep, Live
<1> QED BY <1>2, <1>3, <1>4, <1>5 DEF Startup

(* A job is closed for good: behind an `end` come only ends, of the loops that *)
(* waited for the one that ended (Writer's Drop) and of the start-up that     *)
(* handed the turn over, once for each time it began.                         *)
THEOREM ClosedForGood == Spec => EndIsFinal
<1>1. Init => InFlight
  BY DEF Init, InFlight, Turns
<1>2. IInv /\ InFlight /\ [Next]_vars => InFlight' /\ FinalStep
  BY TurnFlies, StartUpFlies DEF Next
<1>3. IInv /\ InFlight /\ [Next]_vars => [FinalStep]_vars
  BY <1>2
<1>4. Spec => [](IInv /\ InFlight)
  <2>1. IInv /\ InFlight /\ [Next]_vars /\ IInv' => InFlight'
    BY <1>2
  <2> QED BY <1>1, <2>1, Inductive, PTL DEF Spec
<1>5. Spec => [][FinalStep]_vars
  BY <1>3, <1>4, PTL DEF Spec
<1> QED BY <1>5 DEF EndIsFinal, FinalStep
=============================================================================
