-------------------------- MODULE ApprovalsProofs --------------------------
(***************************************************************************)
(* What is proved of Approvals for every set of pages, devices and         *)
(* questions and every length of its clocks: the shape of the state, that  *)
(* an allow which does not come from the desktop has its proof, that an    *)
(* answered question is open nowhere, and that a page that may view shows  *)
(* what is open.                                                           *)
(*                                                                         *)
(* AllowHasItsProof is about single steps, and needs to know four things   *)
(* of the state a step begins in.  LinkOk and ResumeOk: whoever holds an   *)
(* Operate window - a linked page, or what a dropped one left behind - has *)
(* the passkey of its device behind it, for longer than the window lasts   *)
(* by a whole allow-for-a-while.  GrantOk: a grant ends no later than the  *)
(* proof it was made under.  FeedOk: a question the driver has still to    *)
(* read is not open already, so a grant is not used on a request that      *)
(* needs an Operate window.                                                *)
(*                                                                         *)
(* AnswerOk: what is answered and open, or answered and still to be heard  *)
(* asked, has its answer further back in the feed.  CardOk: every open     *)
(* request is on the cards of a page that may view, or is the last word on *)
(* its way there.                                                          *)
(***************************************************************************)
EXTENDS Approvals, FiniteSetTheorems, TLAPS

Event == [t : {"asked", "resolved"}, q : Question]

FeedTypes == feed \in Seq(Event) /\ fed \in BOOLEAN
GateTypes ==
  /\ gate \in [Question -> {"none", "open", "allowed", "denied", "stopped"}]
  /\ desk \subseteq Question
OpenTypes == Open \subseteq Question /\ pending \in [Open -> 0..Timeout]
LinkTypes ==
  /\ Linked \subseteq Screen /\ cap \in [Linked -> Caps]
  /\ resumable \in [Device -> [cap : Caps, grace : 0..Grace + 1]]
  /\ active \subseteq Device
PageTypes ==
  /\ news \in [Screen -> [Question -> {"none", "requested", "closed"}]]
  /\ cards \in [Screen -> SUBSET Question]
RestTypes ==
  /\ online \in BOOLEAN /\ drops \in 0..MaxDrop
  /\ grant \in [Device -> 0..GrantMax]
  /\ proved \in [Device -> 0..Window + GrantMax]

LEMMA TypesInParts ==
  TypeOK <=> /\ FeedTypes /\ GateTypes /\ OpenTypes
             /\ LinkTypes /\ PageTypes /\ RestTypes
BY DEF TypeOK, FeedTypes, GateTypes, OpenTypes, LinkTypes, PageTypes, RestTypes,
       Event

\* What is asked in s is known to the gate, is not open yet, and is asked once.
AskedOk(s, known, open) ==
  /\ \A i \in 1..Len(s) : s[i].t = "asked" => s[i].q \in known \ open
  /\ \A i, j \in 1..Len(s) :
       s[i].t = "asked" /\ s[j].t = "asked" /\ s[i].q = s[j].q => i = j

Known == {q \in Question : gate[q] # "none"}

FeedOk == Open \subseteq Known /\ AskedOk(feed, Known, Open)

\* A window that lasts n more needs its passkey behind it for an allow-for-a-while more.
Backed(n, d) == n > 0 => n + GrantMax <= proved[d]

LinkOk ==
  \A s \in Linked : DeviceOf[s] \in active /\ Backed(cap[s].operate, DeviceOf[s])
ResumeOk == \A d \in Device : Backed(resumable[d].cap.operate, d)
GrantOk ==
  \A d \in Device : grant[d] <= proved[d] /\ (grant[d] > 0 => d \in active)

IInv == TypeOK /\ FeedOk /\ LinkOk /\ ResumeOk /\ GrantOk

-----------------------------------------------------------------------------
(* The feed. *)

LEMMA AskedOkWeakens ==
  ASSUME NEW s, NEW known, NEW open, NEW known2, NEW open2,
         AskedOk(s, known, open), known \subseteq known2, open2 \subseteq open
  PROVE  AskedOk(s, known2, open2)
BY DEF AskedOk

\* What is left when the first event is read.
LEMMA TailIsOk ==
  ASSUME NEW s \in Seq(Event), s # <<>>, NEW known, NEW open,
         AskedOk(s, known, open)
  PROVE  /\ Head(s) \in Event /\ Tail(s) \in Seq(Event)
         /\ AskedOk(Tail(s), known, open)
         /\ Head(s).t = "asked" =>
              /\ Head(s).q \in known \ open
              /\ AskedOk(Tail(s), known, open \cup {Head(s).q})
<1>1. /\ Head(s) = s[1] /\ Head(s) \in Event /\ Tail(s) \in Seq(Event)
      /\ Len(s) \in Nat \ {0} /\ Len(Tail(s)) = Len(s) - 1
  OBVIOUS
<1>2. \A i \in 1..Len(Tail(s)) :
        i + 1 \in 1..Len(s) /\ i + 1 # 1 /\ Tail(s)[i] = s[i + 1]
  BY <1>1
<1>3. \A i, j \in 1..Len(Tail(s)) : i + 1 = j + 1 => i = j
  BY <1>1
<1>4. 1 \in 1..Len(s)
  BY <1>1
<1>5. AskedOk(Tail(s), known, open)
  BY <1>2, <1>3 DEF AskedOk
<1>6. ASSUME Head(s).t = "asked"
      PROVE  Head(s).q \in known \ open /\ AskedOk(Tail(s), known, open \cup {Head(s).q})
  <2>1. s[1].t = "asked" /\ s[1].q \in known \ open
    BY <1>1, <1>4, <1>6 DEF AskedOk
  <2>2. \A i \in 1..Len(Tail(s)) : Tail(s)[i].t = "asked" => Tail(s)[i].q # s[1].q
    BY <1>2, <1>4, <2>1 DEF AskedOk
  <2> QED BY <1>1, <1>5, <2>1, <2>2 DEF AskedOk
<1> QED BY <1>1, <1>5, <1>6

\* What Broadcast makes of the feed: a part of said is put behind unread.
LEMMA BroadcastAppends ==
  ASSUME NEW unread \in Seq(Event), NEW said \in Seq(Event), fed \in BOOLEAN,
         Broadcast(unread, said)
  PROVE  /\ fed' \in BOOLEAN /\ feed' \in Seq(Event)
         /\ Len(unread) <= Len(feed') /\ Len(feed') <= Len(unread) + Len(said)
         /\ \A i \in 1..Len(feed') :
              feed'[i] = IF i <= Len(unread) THEN unread[i] ELSE said[i - Len(unread)]
<1> DEFINE room == MaxBacklog - Len(unread)
<1>1. /\ MaxBacklog \in Nat /\ Len(unread) \in Nat /\ Len(said) \in Nat
      /\ room \in Int
  BY ApprovalsAssumption
<1>2. fed' \in BOOLEAN
  BY DEF Broadcast
<1>3. CASE feed' = unread
  BY <1>1, <1>2, <1>3
<1>4. CASE feed' = unread \o said
  BY <1>1, <1>2, <1>4
<1>5. CASE feed' = unread \o SubSeq(said, 1, room) /\ ~(Len(said) <= room)
  <2> DEFINE part == SubSeq(said, 1, room)
  <2>1. CASE room < 1
    <3>1. part = <<>>
      BY <1>1, <2>1
    <3> QED BY <1>1, <1>2, <1>5, <3>1
  <2>2. CASE room >= 1
    <3>1. /\ part \in Seq(Event) /\ Len(part) = room
          /\ \A i \in 1..room : part[i] = said[i]
      BY <1>1, <1>5, <2>2
    <3> HIDE DEF part
    <3> QED BY <1>1, <1>2, <1>5, <3>1, <2>2
  <2> QED BY <1>1, <2>1, <2>2
<1> QED BY <1>3, <1>4, <1>5 DEF Broadcast

\* Saying that something is resolved asks nothing.
LEMMA BroadcastIsOk ==
  ASSUME NEW unread \in Seq(Event), NEW said \in Seq(Event), fed \in BOOLEAN,
         Broadcast(unread, said), NEW known, NEW open, AskedOk(unread, known, open),
         \A i \in 1..Len(said) : said[i].t = "resolved"
  PROVE  AskedOk(feed', known, open)
<1>1. /\ Len(unread) \in Nat /\ Len(said) \in Nat /\ Len(feed') \in Nat
      /\ Len(feed') <= Len(unread) + Len(said)
      /\ \A i \in 1..Len(feed') :
           feed'[i] = IF i <= Len(unread) THEN unread[i] ELSE said[i - Len(unread)]
  BY BroadcastAppends
<1>2. ASSUME NEW i \in 1..Len(feed'), feed'[i].t = "asked"
      PROVE  i \in 1..Len(unread) /\ feed'[i] = unread[i]
  <2>1. CASE i <= Len(unread)
    BY <1>1, <2>1
  <2>2. CASE ~(i <= Len(unread))
    <3>1. i - Len(unread) \in 1..Len(said)
      BY <1>1, <2>2
    <3>2. feed'[i].t = "resolved"
      BY <1>1, <2>2, <3>1
    <3> QED BY <1>2, <3>2
  <2> QED BY <2>1, <2>2
<1> QED BY <1>2 DEF AskedOk

LEMMA EventsAreEvents ==
  ASSUME NEW q \in Question, NEW t \in {"asked", "resolved"}
  PROVE  /\ <<[t |-> t, q |-> q]>> \in Seq(Event)
         /\ Len(<<[t |-> t, q |-> q]>>) = 1
         /\ <<[t |-> t, q |-> q]>>[1] = [t |-> t, q |-> q]
         /\ \A i \in 1..Len(<<[t |-> t, q |-> q]>>) : <<[t |-> t, q |-> q]>>[i].t = t
BY DEF Event

\* The clock's refusals, in whatever order.
LEMMA OrdersAreEvents ==
  ASSUME NEW S \in SUBSET Question, NEW order \in SetToSeqs(S),
         NEW said, said = [i \in DOMAIN order |-> [t |-> "resolved", q |-> order[i]]]
  PROVE  said \in Seq(Event) /\ \A i \in 1..Len(said) : said[i].t = "resolved"
<1>1. Cardinality(S) \in Nat
  BY ApprovalsAssumption, FS_Subset, FS_CardinalityType
<1>2. PICK n \in Nat : order \in [1..n -> S]
  BY <1>1 DEF SetToSeqs
<1>3. said \in [1..n -> Event]
  BY <1>2 DEF Event
<1>4. said \in Seq(Event) /\ Len(said) = n
  BY <1>2, <1>3
<1> QED BY <1>2, <1>4

-----------------------------------------------------------------------------
(* Types: what the parts of an action make of the parts of the state. *)

LEMMA ResolveTypes ==
  ASSUME GateTypes, NEW q \in Question, NEW answer, Resolve(q, answer)
  PROVE  gate' \in [Question -> {"none", "open", "allowed", "denied", "stopped"}]
BY DEF GateTypes, Resolve

LEMMA TellTypes ==
  ASSUME PageTypes, NEW screens, NEW about, NEW word \in {"requested", "closed"},
         Tell(screens, word, about)
  PROVE  news' \in [Screen -> [Question -> {"none", "requested", "closed"}]]
BY DEF PageTypes, Tell

LEMMA UnlinkTypes ==
  ASSUME LinkTypes, PageTypes, NEW screens, Unlink(screens)
  PROVE  /\ Linked' = Linked \ screens
         /\ cap' \in [Linked' -> Caps]
         /\ \A s \in Linked' : cap'[s] = cap[s]
         /\ news' \in [Screen -> [Question -> {"none", "requested", "closed"}]]
BY DEF LinkTypes, PageTypes, Unlink, Linked, Without, NoNews

LEMMA RememberedTypes ==
  ASSUME LinkTypes, NEW screens \in SUBSET Linked, resumable' \in Remembered(screens)
  PROVE  /\ resumable' \in [Device -> [cap : Caps, grace : 0..Grace + 1]]
         /\ \A d \in Device :
              \/ resumable'[d] = resumable[d]
              \/ \E s \in screens : DeviceOf[s] = d /\ resumable'[d].cap = cap[s]
<1>1. Grace + 1 \in 0..Grace + 1
  BY ApprovalsAssumption
<1>2. \A d \in Device :
        \/ resumable'[d] = resumable[d]
        \/ \E s \in screens : /\ DeviceOf[s] = d
                              /\ resumable'[d] = [cap |-> cap[s], grace |-> Grace + 1]
  BY DEF Remembered, Seeing
<1>3. /\ resumable \in [Device -> [cap : Caps, grace : 0..Grace + 1]]
      /\ \A s \in screens : cap[s] \in Caps
  BY DEF LinkTypes
<1>4. ASSUME NEW d \in Device
      PROVE  resumable'[d] \in [cap : Caps, grace : 0..Grace + 1]
  <2>1. CASE resumable'[d] = resumable[d]
    BY <1>3, <2>1
  <2>2. ASSUME NEW s \in screens, resumable'[d] = [cap |-> cap[s], grace |-> Grace + 1]
        PROVE  resumable'[d] \in [cap : Caps, grace : 0..Grace + 1]
    <3>1. cap[s] \in Caps
      BY <1>3
    <3> QED BY <1>1, <2>2, <3>1
  <2> QED BY <1>2, <2>1, <2>2
<1>5. resumable' = [d \in Device |-> resumable'[d]]
  BY DEF Remembered
<1> QED BY <1>2, <1>4, <1>5

LEMMA CapsAreCaps ==
  /\ NoCap \in Caps /\ NoResume \in [cap : Caps, grace : 0..Grace + 1]
  /\ \A c \in Caps : /\ Touched(c) \in Caps /\ Touched(c).operate = c.operate
                     /\ Aged(c) \in Caps
                     /\ Aged(c).operate = Less(c.operate)
                     /\ c.operate \in Nat /\ c.operate <= Window
<1>1. Idle \in Nat /\ Window \in Nat /\ Grace \in Nat
  BY ApprovalsAssumption
<1>2. NoCap \in Caps
  BY <1>1 DEF NoCap, Caps
<1>3. ASSUME NEW c \in Caps PROVE Touched(c) \in Caps /\ Touched(c).operate = c.operate
  BY <1>1, <1>3 DEF Touched, Caps
<1>4. ASSUME NEW c \in Caps
      PROVE  Aged(c) \in Caps /\ Aged(c).operate = Less(c.operate)
  <2>1. Less(c.awake) \in 0..Idle /\ Less(c.operate) \in 0..Window
    BY <1>1 DEF Less, Caps
  <2> DEFINE half == [c EXCEPT !.awake = Less(c.awake)]
  <2>2. half \in Caps
    BY <2>1 DEF Caps
  <2>3. Aged(c) = [half EXCEPT !.operate = Less(c.operate)]
    BY DEF Aged
  <2> HIDE DEF half
  <2> QED BY <2>1, <2>2, <2>3 DEF Caps
<1>5. \A c \in Caps : c.operate \in Nat /\ c.operate <= Window
  BY <1>1 DEF Caps
<1> QED BY <1>1, <1>2, <1>3, <1>4, <1>5 DEF NoResume

\* The parts an action leaves alone.
LEMMA UnchangedTypes ==
  ASSUME TypeOK
  PROVE  /\ UNCHANGED feedVars => FeedTypes'
         /\ UNCHANGED gateVars => GateTypes'
         /\ UNCHANGED pending => OpenTypes'
         /\ UNCHANGED linkVars => LinkTypes'
         /\ UNCHANGED pageVars => PageTypes'
         /\ UNCHANGED <<online, drops, grant, proved>> => RestTypes'
<1> USE TypesInParts
<1>1. UNCHANGED feedVars => FeedTypes'
  BY DEF feedVars, FeedTypes
<1>2. UNCHANGED gateVars => GateTypes'
  BY DEF gateVars, GateTypes
<1>3. UNCHANGED pending => OpenTypes'
  BY DEF OpenTypes, Open
<1>4. UNCHANGED linkVars => LinkTypes'
  BY DEF linkVars, LinkTypes, Linked
<1>5. UNCHANGED pageVars => PageTypes'
  BY DEF pageVars, PageTypes
<1>6. UNCHANGED <<online, drops, grant, proved>> => RestTypes'
  BY DEF RestTypes
<1> QED BY <1>1, <1>2, <1>3, <1>4, <1>5, <1>6

\* Broadcasting one event.
LEMMA SayTypes ==
  ASSUME NEW unread \in Seq(Event), fed \in BOOLEAN, NEW q \in Question,
         NEW t \in {"asked", "resolved"}, Broadcast(unread, <<[t |-> t, q |-> q]>>)
  PROVE  FeedTypes'
<1> DEFINE said == <<[t |-> t, q |-> q]>>
<1>1. said \in Seq(Event) /\ Broadcast(unread, said)
  BY EventsAreEvents
<1> HIDE DEF said
<1> QED BY <1>1, BroadcastAppends DEF FeedTypes

-----------------------------------------------------------------------------
(* Types: a step for each action, and in it one for each part it changes. *)

LEMMA PartsMakeTypes ==
  ASSUME FeedTypes', GateTypes', OpenTypes', LinkTypes', PageTypes', RestTypes'
  PROVE  TypeOK'
BY DEF TypeOK, FeedTypes, GateTypes, OpenTypes, LinkTypes, PageTypes, RestTypes, Event

LEMMA QuestionTypes ==
  ASSUME TypeOK, NEW q \in Question
  PROVE  /\ Ask(q) => TypeOK'
         /\ Stop(q) => TypeOK'
         /\ \A answer \in Answers : DesktopAnswers(q, answer) => TypeOK'
<1> USE TypesInParts
<1>1. ASSUME Ask(q) PROVE TypeOK'
  <2>1. FeedTypes'
    BY <1>1, SayTypes DEF Ask, FeedTypes
  <2>2. GateTypes'
    BY <1>1 DEF Ask, GateTypes
  <2> QED BY <1>1, <2>1, <2>2, UnchangedTypes, PartsMakeTypes DEF Ask
<1>2. ASSUME Stop(q) PROVE TypeOK'
  <2>1. GateTypes'
    BY <1>2 DEF Stop, GateTypes
  <2> QED BY <1>2, <2>1, UnchangedTypes, PartsMakeTypes DEF Stop
<1>3. ASSUME NEW answer \in Answers, DesktopAnswers(q, answer) PROVE TypeOK'
  <2>1. FeedTypes'
    BY <1>3, SayTypes DEF DesktopAnswers, FeedTypes
  <2>2. GateTypes'
    BY <1>3, ResolveTypes DEF DesktopAnswers, GateTypes
  <2> QED BY <1>3, <2>1, <2>2, UnchangedTypes, PartsMakeTypes DEF DesktopAnswers
<1> QED BY <1>1, <1>2, <1>3

LEMMA LoopTypesKept ==
  ASSUME TypeOK, Loop
  PROVE  TypeOK'
<1> USE TypesInParts
<1>0. feed \in Seq(Event) /\ fed \in BOOLEAN
  BY DEF FeedTypes
<1>h. ASSUME feed # <<>> PROVE Head(feed).q \in Question /\ Tail(feed) \in Seq(Event)
  <2>1. Head(feed) \in Event /\ Tail(feed) \in Seq(Event)
    BY <1>0, <1>h
  <2> QED BY <2>1 DEF Event
<1>1. ASSUME HearAsked PROVE TypeOK'
  <2> DEFINE q == Head(feed).q
  <2>1. q \in Question /\ Tail(feed) \in Seq(Event)
    BY <1>1, <1>h DEF HearAsked
  <2>2. CASE /\ Resolve(q, "allow")
             /\ Broadcast(Tail(feed), <<[t |-> "resolved", q |-> q]>>)
             /\ UNCHANGED <<pending, pageVars>>
    <3>1. FeedTypes'
      BY <1>0, <2>1, <2>2, SayTypes
    <3>2. GateTypes'
      BY <1>1, <2>1, <2>2, ResolveTypes DEF HearAsked, GateTypes
    <3> QED BY <1>1, <2>2, <3>1, <3>2, UnchangedTypes, PartsMakeTypes DEF HearAsked
  <2>3. CASE /\ pending' = [x \in Open \cup {q} |-> IF x = q THEN Timeout ELSE pending[x]]
             /\ Tell(Seeing(Linked), "requested", {q})
             /\ feed' = Tail(feed)
             /\ UNCHANGED <<fed, gate, cards>>
    <3>1. FeedTypes'
      BY <1>0, <2>1, <2>3 DEF FeedTypes
    <3>2. OpenTypes'
      <4>1. Timeout \in 0..Timeout
        BY ApprovalsAssumption
      <4> QED BY <2>1, <2>3, <4>1 DEF OpenTypes, Open
    <3>3. PageTypes'
      BY <2>3, TellTypes DEF PageTypes
    <3>4. UNCHANGED gateVars
      BY <1>1, <2>3 DEF HearAsked, gateVars
    <3> QED BY <1>1, <3>1, <3>2, <3>3, <3>4, UnchangedTypes, PartsMakeTypes
            DEF HearAsked
  <2> QED BY <1>1, <2>2, <2>3 DEF HearAsked
<1>2. ASSUME HearResolved PROVE TypeOK'
  <2>1. FeedTypes'
    BY <1>0, <1>2, <1>h DEF HearResolved, FeedTypes
  <2>2. OpenTypes'
    BY <1>2 DEF HearResolved, OpenTypes, Open, Without
  <2>3. PageTypes'
    <3>1. CASE UNCHANGED news
      BY <1>2, <3>1 DEF HearResolved, PageTypes
    <3>2. CASE Tell(Seeing(Linked), "closed", {Head(feed).q})
      BY <1>2, <3>2, TellTypes DEF HearResolved, PageTypes
    <3> QED BY <1>2, <3>1, <3>2 DEF HearResolved
  <2> QED BY <1>2, <2>1, <2>2, <2>3, UnchangedTypes, PartsMakeTypes DEF HearResolved
<1>3. ASSUME Expire PROVE TypeOK'
  <2>1. FeedTypes'
    <3>1. Overdue \in SUBSET Question
      BY DEF Overdue, Dead, OpenTypes
    <3>2. PICK order \in SetToSeqs(Overdue) :
            Broadcast(feed, [i \in DOMAIN order |-> [t |-> "resolved", q |-> order[i]]])
      BY <1>3 DEF Expire
    <3> QED BY <1>0, <3>1, <3>2, OrdersAreEvents, BroadcastAppends DEF FeedTypes
  <2>2. GateTypes'
    BY <1>3 DEF Expire, GateTypes
  <2>3. OpenTypes'
    BY <1>3 DEF Expire, OpenTypes, Open, Without
  <2>4. PageTypes'
    BY <1>3, TellTypes DEF Expire, PageTypes
  <2> QED BY <1>3, <2>1, <2>2, <2>3, <2>4, UnchangedTypes, PartsMakeTypes DEF Expire
<1>4. ASSUME LinkUp PROVE TypeOK'
  <2>1. RestTypes'
    BY <1>4 DEF LinkUp, RestTypes
  <2> QED BY <1>4, <2>1, UnchangedTypes, PartsMakeTypes DEF LinkUp
<1>5. ASSUME FeedEnds PROVE TypeOK'
  <2>1. RestTypes'
    BY <1>5 DEF FeedEnds, RestTypes
  <2>2. LinkTypes'
    BY <1>5, UnlinkTypes, RememberedTypes DEF FeedEnds, LinkTypes
  <2>3. PageTypes'
    BY <1>5, UnlinkTypes DEF FeedEnds, PageTypes
  <2> QED BY <1>5, <2>1, <2>2, <2>3, UnchangedTypes, PartsMakeTypes DEF FeedEnds
<1> QED BY <1>1, <1>2, <1>3, <1>4, <1>5 DEF Loop

LEMMA OutsideTypes ==
  ASSUME TypeOK
  PROVE  /\ LinkDown => TypeOK'
         /\ Advance => TypeOK'
         /\ \A d \in Device : Revoke(d) => TypeOK'
<1> USE TypesInParts
<1>1. ASSUME LinkDown PROVE TypeOK'
  <2>1. RestTypes'
    <3>1. MaxDrop \in Nat /\ drops \in 0..MaxDrop /\ drops < MaxDrop /\ drops' = drops + 1
      BY <1>1, ApprovalsAssumption DEF LinkDown, RestTypes
    <3>2. drops' \in 0..MaxDrop
      BY <3>1
    <3> QED BY <1>1, <3>2 DEF LinkDown, RestTypes
  <2>2. LinkTypes'
    BY <1>1, UnlinkTypes, RememberedTypes DEF LinkDown, LinkTypes
  <2>3. PageTypes'
    BY <1>1, UnlinkTypes DEF LinkDown, PageTypes
  <2> QED BY <1>1, <2>1, <2>2, <2>3, UnchangedTypes, PartsMakeTypes DEF LinkDown
<1>2. ASSUME Advance PROVE TypeOK'
  <2>0. \A m \in Nat : \A n \in 0..m : Less(n) \in 0..m
    BY DEF Less
  <2>1. {Timeout, Grace, GrantMax, Window + GrantMax} \subseteq Nat
    BY ApprovalsAssumption
  <2>2. OpenTypes'
    BY <1>2, <2>0, <2>1 DEF Advance, OpenTypes, Open
  <2>3. RestTypes'
    BY <1>2, <2>0, <2>1 DEF Advance, RestTypes
  <2>4. LinkTypes'
    <3>1. Linked' = Linked /\ cap' \in [Linked -> Caps]
      BY <1>2, CapsAreCaps DEF Advance, LinkTypes, Linked
    <3>2. ASSUME NEW d \in Device
          PROVE  AgedResume(resumable[d]) \in [cap : Caps, grace : 0..Grace + 1]
      <4>1. resumable[d].cap \in Caps /\ resumable[d].grace \in 0..Grace + 1
        BY DEF LinkTypes
      <4>2. CASE resumable[d].grace > 1
        <5>1. resumable[d].grace - 1 \in 0..Grace + 1
          BY <2>1, <4>1, <4>2
        <5> QED BY <4>1, <5>1, CapsAreCaps DEF AgedResume
      <4>3. CASE ~(resumable[d].grace > 1)
        BY <4>3, CapsAreCaps DEF AgedResume
      <4> QED BY <4>2, <4>3
    <3>3. resumable' \in [Device -> [cap : Caps, grace : 0..Grace + 1]]
      BY <1>2, <3>2 DEF Advance
    <3> QED BY <1>2, <3>1, <3>3 DEF Advance, LinkTypes
  <2> QED BY <1>2, <2>2, <2>3, <2>4, UnchangedTypes, PartsMakeTypes DEF Advance
<1>3. ASSUME NEW d \in Device, Revoke(d) PROVE TypeOK'
  <2>1. RestTypes'
    BY <1>3, ApprovalsAssumption DEF Revoke, RestTypes
  <2>2. LinkTypes'
    BY <1>3, UnlinkTypes DEF Revoke, LinkTypes
  <2>3. PageTypes'
    BY <1>3, UnlinkTypes DEF Revoke, PageTypes
  <2> QED BY <1>3, <2>1, <2>2, <2>3, UnchangedTypes, PartsMakeTypes DEF Revoke
<1> QED BY <1>1, <1>2, <1>3

LEMMA PageTypesKept ==
  ASSUME TypeOK, NEW s \in Screen
  PROVE  /\ Connect(s) => TypeOK'
         /\ Drop(s) => TypeOK'
         /\ Lock(s) => TypeOK'
         /\ Browse(s) => TypeOK'
         /\ \A q \in Question : Receive(s, q) => TypeOK'
         /\ \A level \in {"view", "operate"} : Unlock(s, level) => TypeOK'
<1> USE TypesInParts
<1>0. DeviceOf \in [Screen -> Device] /\ {Idle, Window} \subseteq Nat
  BY ApprovalsAssumption
<1>1. ASSUME Connect(s) PROVE TypeOK'
  <2> DEFINE old == resumable[DeviceOf[s]]
             mine == IF LevelOf(old.cap) # "locked" THEN old.cap ELSE NoCap
  <2>1. mine \in Caps
    BY <1>0, CapsAreCaps DEF LinkTypes
  <2>2. LinkTypes'
    <3>1. cap' = [x \in Linked \cup {s} |-> IF x = s THEN mine ELSE cap[x]]
      BY <1>1 DEF Connect
    <3> HIDE DEF mine
    <3>2. Linked' = Linked \cup {s} /\ cap' \in [Linked' -> Caps]
      BY <2>1, <3>1 DEF LinkTypes, Linked
    <3>3. resumable' \in [Device -> [cap : Caps, grace : 0..Grace + 1]]
      BY <1>1, CapsAreCaps DEF Connect, LinkTypes
    <3> QED BY <1>1, <3>2, <3>3 DEF Connect, LinkTypes
  <2>3. PageTypes'
    <3>1. CASE UNCHANGED news
      BY <1>1, <3>1 DEF Connect, PageTypes
    <3>2. CASE Tell({s}, "requested", Open)
      BY <1>1, <3>2, TellTypes DEF Connect, PageTypes
    <3> QED BY <1>1, <3>1, <3>2 DEF Connect
  <2> QED BY <1>1, <2>2, <2>3, UnchangedTypes, PartsMakeTypes DEF Connect
<1>2. ASSUME Drop(s) PROVE TypeOK'
  <2>1. LinkTypes'
    BY <1>2, UnlinkTypes, RememberedTypes DEF Drop, LinkTypes
  <2>2. PageTypes'
    BY <1>2, UnlinkTypes DEF Drop, PageTypes
  <2> QED BY <1>2, <2>1, <2>2, UnchangedTypes, PartsMakeTypes DEF Drop
<1>3. ASSUME Lock(s) PROVE TypeOK'
  <2>1. LinkTypes'
    BY <1>3, CapsAreCaps DEF Lock, LinkTypes, Linked
  <2> QED BY <1>3, <2>1, UnchangedTypes, PartsMakeTypes DEF Lock
<1>4. ASSUME Browse(s) PROVE TypeOK'
  <2>1. LinkTypes'
    BY <1>4, CapsAreCaps DEF Browse, LinkTypes, Linked
  <2> QED BY <1>4, <2>1, UnchangedTypes, PartsMakeTypes DEF Browse
<1>5. ASSUME NEW q \in Question, Receive(s, q) PROVE TypeOK'
  <2>1. PageTypes'
    BY <1>5 DEF Receive, PageTypes
  <2> QED BY <1>5, <2>1, UnchangedTypes, PartsMakeTypes DEF Receive
<1>6. ASSUME NEW level \in {"view", "operate"}, Unlock(s, level) PROVE TypeOK'
  <2> DEFINE c == [viewing |-> TRUE, awake |-> Idle,
                   operate |-> IF level = "operate" THEN Window ELSE cap[s].operate]
  <2>1. s \in Linked /\ cap' = [cap EXCEPT ![s] = c]
    BY <1>6 DEF Unlock
  <2>2. c \in Caps
    <3>1. cap[s].operate \in 0..Window
      BY <2>1 DEF LinkTypes, Caps
    <3> QED BY <1>0, <3>1 DEF Caps
  <2> HIDE DEF c
  <2>3. LinkTypes'
    BY <1>6, <2>1, <2>2 DEF Unlock, LinkTypes, Linked
  <2>4. RestTypes'
    <3>1. Window + GrantMax \in 0..Window + GrantMax
      BY ApprovalsAssumption
    <3> QED BY <1>0, <1>6, <3>1 DEF Unlock, RestTypes
  <2>5. PageTypes'
    BY <1>6, TellTypes DEF Unlock, PageTypes
  <2> QED BY <1>6, <2>3, <2>4, <2>5, UnchangedTypes, PartsMakeTypes DEF Unlock
<1> QED BY <1>1, <1>2, <1>3, <1>4, <1>5, <1>6

LEMMA DecisionTypes ==
  ASSUME TypeOK, NEW s \in Screen, NEW q \in Question,
         NEW decision \in {"allow", "scoped", "deny"}
  PROVE  /\ Decide(s, q, decision) => TypeOK'
         /\ Refused(s, q, decision) => TypeOK'
<1> USE TypesInParts
<1>1. ASSUME Decide(s, q, decision) PROVE TypeOK'
  <2>1. FeedTypes'
    BY <1>1, SayTypes DEF Decide, FeedTypes
  <2>2. GateTypes'
    BY <1>1, ResolveTypes DEF Decide, GateTypes
  <2>3. OpenTypes'
    BY <1>1 DEF Decide, OpenTypes, Open, Without
  <2>4. LinkTypes'
    BY <1>1, CapsAreCaps DEF Decide, LinkTypes, Linked
  <2>5. RestTypes'
    <3>1. GrantMax \in 0..GrantMax /\ DeviceOf \in [Screen -> Device]
      BY ApprovalsAssumption
    <3> QED BY <1>1, <3>1 DEF Decide, RestTypes
  <2>6. PageTypes'
    BY <1>1, TellTypes DEF Decide, PageTypes
  <2> QED BY <2>1, <2>2, <2>3, <2>4, <2>5, <2>6, PartsMakeTypes
<1>2. ASSUME Refused(s, q, decision) PROVE TypeOK'
  <2>1. LinkTypes'
    BY <1>2, CapsAreCaps DEF Refused, LinkTypes, Linked
  <2> QED BY <1>2, <2>1, UnchangedTypes, PartsMakeTypes DEF Refused
<1> QED BY <1>1, <1>2

LEMMA InitTypes == Init => TypeOK
<1> SUFFICES ASSUME Init PROVE TypeOK
  OBVIOUS
<1>0. {Timeout, Window, Idle, Grace, GrantMax, MaxDrop} \subseteq Nat
  BY ApprovalsAssumption
<1>1. FeedTypes /\ GateTypes
  BY DEF Init, FeedTypes, GateTypes
<1>2. OpenTypes
  BY DEF Init, OpenTypes, Open
<1>3. LinkTypes
  BY CapsAreCaps DEF Init, LinkTypes, Linked
<1>4. PageTypes
  BY DEF Init, PageTypes, NoNews
<1>5. RestTypes
  BY <1>0 DEF Init, RestTypes
<1> QED BY <1>1, <1>2, <1>3, <1>4, <1>5, TypesInParts

LEMMA StepKeepsTypes ==
  ASSUME TypeOK, [Next]_vars
  PROVE  TypeOK'
<1>1. CASE Next
  BY <1>1, LoopTypesKept, OutsideTypes, QuestionTypes, PageTypesKept, DecisionTypes
     DEF Next
<1>2. CASE UNCHANGED vars
  <2>1. /\ UNCHANGED feedVars /\ UNCHANGED gateVars /\ UNCHANGED pending
        /\ UNCHANGED linkVars /\ UNCHANGED pageVars
        /\ UNCHANGED <<online, drops, grant, proved>>
    BY <1>2 DEF vars
  <2> QED BY <2>1, UnchangedTypes, PartsMakeTypes
<1> QED BY <1>1, <1>2

(* Every state has the shape the code keeps it in.                         *)
THEOREM Shape == Spec => []TypeOK
<1>1. Init => TypeOK
  BY InitTypes
<1>2. TypeOK /\ [Next]_vars => TypeOK'
  BY StepKeepsTypes
<1> QED BY <1>1, <1>2, PTL DEF Spec

-----------------------------------------------------------------------------
(* The feed: who is asked about is known to the gate and not open yet. *)

LEMMA AnswerKeepsKnown ==
  ASSUME GateTypes, NEW q \in Question, NEW answer, Resolve(q, answer)
  PROVE  Known' = Known
BY DEF GateTypes, Resolve, Known

LEMMA SaidKeepsFeed ==
  ASSUME TypeOK, FeedOk, NEW q \in Question, Open' \subseteq Open, Known' = Known,
         Broadcast(feed, <<[t |-> "resolved", q |-> q]>>)
  PROVE  FeedOk'
<1>1. feed \in Seq(Event) /\ fed \in BOOLEAN
  BY TypesInParts DEF FeedTypes
<1> DEFINE said == <<[t |-> "resolved", q |-> q]>>
<1>2. said \in Seq(Event) /\ \A i \in 1..Len(said) : said[i].t = "resolved"
  BY EventsAreEvents
<1>3. Broadcast(feed, said)
  OBVIOUS
<1> HIDE DEF said
<1>4. AskedOk(feed', Known, Open)
  BY <1>1, <1>2, <1>3, BroadcastIsOk DEF FeedOk
<1> QED BY <1>4, AskedOkWeakens DEF FeedOk

LEMMA QuietKeepsFeed ==
  ASSUME FeedOk, UNCHANGED feed, UNCHANGED gate, Open' = Open
  PROVE  FeedOk'
<1>1. Known' = Known
  BY DEF Known
<1> QED BY <1>1 DEF FeedOk

LEMMA LoopKeepsFeed ==
  ASSUME TypeOK, FeedOk, Loop
  PROVE  FeedOk'
<1>0. /\ feed \in Seq(Event) /\ fed \in BOOLEAN
      /\ gate \in [Question -> {"none", "open", "allowed", "denied", "stopped"}]
  BY TypesInParts DEF FeedTypes, GateTypes
<1>1. ASSUME HearAsked PROVE FeedOk'
  <2> DEFINE q == Head(feed).q
             said == <<[t |-> "resolved", q |-> q]>>
  <2>1. /\ Head(feed) \in Event /\ Tail(feed) \in Seq(Event)
        /\ q \in Known \ Open
        /\ AskedOk(Tail(feed), Known, Open)
        /\ AskedOk(Tail(feed), Known, Open \cup {q})
    BY <1>0, <1>1, TailIsOk DEF HearAsked, FeedOk
  <2>2. CASE /\ Resolve(q, "allow")
             /\ Broadcast(Tail(feed), said)
             /\ UNCHANGED pending
    <3>1. q \in Question
      BY <2>1 DEF Known
    <3>2. Open' = Open /\ Known' = Known
      BY <2>2, <3>1, AnswerKeepsKnown, TypesInParts DEF Open
    <3>3. said \in Seq(Event) /\ \A i \in 1..Len(said) : said[i].t = "resolved"
      BY <3>1, EventsAreEvents
    <3>4. Broadcast(Tail(feed), said)
      BY <2>2
    <3> HIDE DEF said
    <3>5. AskedOk(feed', Known, Open)
      BY <1>0, <2>1, <3>3, <3>4, BroadcastIsOk
    <3> QED BY <3>2, <3>5 DEF FeedOk
  <2>3. CASE /\ pending' = [x \in Open \cup {q} |-> IF x = q THEN Timeout ELSE pending[x]]
             /\ feed' = Tail(feed)
             /\ UNCHANGED gate
    <3>1. Open' = Open \cup {q} /\ Known' = Known
      BY <2>3 DEF Open, Known
    <3> HIDE DEF q
    <3> QED BY <2>1, <2>3, <3>1 DEF FeedOk
  <2> QED BY <1>1, <2>2, <2>3 DEF HearAsked, pageVars
<1>2. ASSUME HearResolved PROVE FeedOk'
  <2>1. feed' = Tail(feed) /\ AskedOk(Tail(feed), Known, Open)
    BY <1>0, <1>2, TailIsOk DEF HearResolved, FeedOk
  <2>2. Open' \subseteq Open /\ Known' = Known
    BY <1>2 DEF HearResolved, Open, Without, Known, gateVars
  <2> QED BY <2>1, <2>2, AskedOkWeakens DEF FeedOk
<1>3. ASSUME Expire PROVE FeedOk'
  <2>1. Overdue \in SUBSET Question
    BY TypesInParts DEF Overdue, Dead, OpenTypes
  <2>2. PICK order \in SetToSeqs(Overdue) :
          Broadcast(feed, [i \in DOMAIN order |-> [t |-> "resolved", q |-> order[i]]])
    BY <1>3 DEF Expire
  <2> DEFINE said == [i \in DOMAIN order |-> [t |-> "resolved", q |-> order[i]]]
  <2>3. said \in Seq(Event) /\ \A i \in 1..Len(said) : said[i].t = "resolved"
    BY <2>1, OrdersAreEvents
  <2>4. Broadcast(feed, said)
    BY <2>2
  <2> HIDE DEF said
  <2>5. AskedOk(feed', Known, Open)
    BY <1>0, <2>3, <2>4, BroadcastIsOk DEF FeedOk
  <2>6. Open' \subseteq Open /\ Known' = Known
    BY <1>0, <1>3 DEF Expire, Open, Without, Known
  <2> QED BY <2>5, <2>6, AskedOkWeakens DEF FeedOk
<1>4. CASE LinkUp \/ FeedEnds
  BY <1>4, QuietKeepsFeed DEF LinkUp, FeedEnds, feedVars, gateVars, Open
<1> QED BY <1>1, <1>2, <1>3, <1>4 DEF Loop

LEMMA StepKeepsFeed ==
  ASSUME TypeOK, FeedOk, [Next]_vars
  PROVE  FeedOk'
<1>0. /\ feed \in Seq(Event) /\ fed \in BOOLEAN /\ Open \subseteq Question
      /\ gate \in [Question -> {"none", "open", "allowed", "denied", "stopped"}]
  BY TypesInParts DEF FeedTypes, GateTypes, OpenTypes
<1>1. ASSUME NEW q \in Question, Ask(q) PROVE FeedOk'
  <2> DEFINE said == <<[t |-> "asked", q |-> q]>>
  <2>1. /\ said \in Seq(Event) /\ Len(said) = 1 /\ said[1].q = q /\ said[1].t = "asked"
    BY EventsAreEvents
  <2>2. Broadcast(feed, said)
    BY <1>1 DEF Ask
  <2> HIDE DEF said
  <2>3. /\ Len(feed) \in Nat /\ Len(feed') \in Nat
        /\ Len(feed') <= Len(feed) + Len(said)
        /\ \A i \in 1..Len(feed') :
             feed'[i] = IF i <= Len(feed) THEN feed[i] ELSE said[i - Len(feed)]
    <3>1. said \in Seq(Event)
      BY <2>1
    <3> QED BY <1>0, <3>1, <2>2, BroadcastAppends
  <2>4. \A i \in 1..Len(feed') :
          \/ i \in 1..Len(feed) /\ feed'[i] = feed[i]
          \/ i = Len(feed) + 1 /\ feed'[i].q = q
    <3> SUFFICES ASSUME NEW i \in 1..Len(feed'), ~(i <= Len(feed))
                 PROVE  i = Len(feed) + 1 /\ feed'[i].q = q
      BY <2>3
    <3>1. i = Len(feed) + 1 /\ i - Len(feed) = 1
      BY <2>1, <2>3
    <3>2. feed'[i] = said[1]
      BY <2>3, <3>1
    <3> QED BY <2>1, <3>1, <3>2
  <2>5. Known' = Known \cup {q} /\ q \notin Known /\ Open' = Open
    BY <1>0, <1>1 DEF Ask, Known, Open
  <2>6. \A i \in 1..Len(feed) : feed[i].t = "asked" => feed[i].q \in Known \ Open
    BY DEF FeedOk, AskedOk
  <2>7. q \notin Open
    BY <2>5 DEF FeedOk
  <2>8. \A i \in 1..Len(feed') : feed'[i].t = "asked" => feed'[i].q \in Known' \ Open'
    BY <2>4, <2>5, <2>6, <2>7
  <2>9. \A i, j \in 1..Len(feed') :
          feed'[i].t = "asked" /\ feed'[j].t = "asked" /\ feed'[i].q = feed'[j].q
            => i = j
    BY <2>4, <2>5, <2>6 DEF FeedOk, AskedOk
  <2> QED BY <2>5, <2>8, <2>9 DEF FeedOk, AskedOk
<1>2. ASSUME NEW q \in Question, Stop(q) PROVE FeedOk'
  <2>1. Known' = Known /\ Open' = Open /\ feed' = feed
    BY <1>0, <1>2 DEF Stop, Known, Open, feedVars
  <2> QED BY <2>1 DEF FeedOk
<1>3. ASSUME NEW q \in Question, NEW answer \in Answers, DesktopAnswers(q, answer)
      PROVE  FeedOk'
  <2>1. Known' = Known /\ Open' = Open
    BY <1>3, AnswerKeepsKnown, TypesInParts DEF DesktopAnswers, Open
  <2> QED BY <1>3, <2>1, SaidKeepsFeed DEF DesktopAnswers
<1>4. ASSUME NEW s \in Screen, NEW q \in Question,
             NEW decision \in {"allow", "scoped", "deny"}, Decide(s, q, decision)
      PROVE  FeedOk'
  <2>1. Known' = Known
    BY <1>4, AnswerKeepsKnown, TypesInParts DEF Decide
  <2>2. Open' \subseteq Open
    BY <1>4 DEF Decide, Open, Without
  <2> QED BY <1>4, <2>1, <2>2, SaidKeepsFeed DEF Decide
<1>5. CASE LinkDown \/ \E d \in Device : Revoke(d)
  BY <1>5, QuietKeepsFeed DEF LinkDown, Revoke, feedVars, gateVars, Open
<1>6. ASSUME Advance PROVE FeedOk'
  BY <1>6, QuietKeepsFeed DEF Advance, feedVars, gateVars, Open
<1>7. ASSUME NEW s \in Screen,
             \/ Connect(s) \/ Drop(s) \/ Lock(s) \/ Browse(s)
             \/ \E q \in Question : Receive(s, q)
             \/ \E level \in {"view", "operate"} : Unlock(s, level)
             \/ \E q \in Question, decision \in {"allow", "scoped", "deny"} :
                  Refused(s, q, decision)
      PROVE  FeedOk'
  <2>1. UNCHANGED feed /\ UNCHANGED gate /\ UNCHANGED pending
    BY <1>7 DEF Connect, Drop, Lock, Browse, Receive, Unlock, Refused, feedVars, gateVars
  <2> QED BY <2>1, QuietKeepsFeed DEF Open
<1>8. CASE UNCHANGED vars
  BY <1>8, QuietKeepsFeed DEF vars, feedVars, gateVars, Open
<1> QED BY <1>1, <1>2, <1>3, <1>4, <1>5, <1>6, <1>7, <1>8, LoopKeepsFeed DEF Next

-----------------------------------------------------------------------------
(* The proof behind a window and behind an allow-for-a-while. *)

ProofOk == LinkOk /\ ResumeOk /\ GrantOk

\* Numbers the steps below compare.
LEMMA Counts ==
  ASSUME TypeOK
  PROVE  /\ {GrantMax, Window} \subseteq Nat /\ GrantMax > 0
         /\ DeviceOf \in [Screen -> Device] /\ Linked \subseteq Screen
         /\ \A d \in Device : /\ proved[d] \in Nat /\ grant[d] \in Nat /\ grant[d] <= GrantMax
                              /\ resumable[d].cap \in Caps
                              /\ resumable[d].cap.operate \in Nat
                              /\ resumable[d].cap.operate <= Window
         /\ \A s \in Linked : /\ cap[s] \in Caps /\ DeviceOf[s] \in Device
                              /\ cap[s].operate \in Nat /\ cap[s].operate <= Window
<1>1. /\ {GrantMax, Window} \subseteq Nat /\ GrantMax > 0
      /\ DeviceOf \in [Screen -> Device]
  BY ApprovalsAssumption
<1>2. /\ Linked \subseteq Screen /\ \A s \in Linked : cap[s] \in Caps
      /\ \A d \in Device : resumable[d].cap \in Caps
  BY TypesInParts DEF LinkTypes
<1>3. \A d \in Device : proved[d] \in Nat /\ grant[d] \in Nat /\ grant[d] <= GrantMax
  BY <1>1, TypesInParts DEF RestTypes
<1> QED BY <1>1, <1>2, <1>3, CapsAreCaps

\* A window held as long as before, or not at all, is as well backed as before.
LEMMA SameProof ==
  ASSUME ProofOk, UNCHANGED <<proved, grant, active>>,
         \A s \in Linked' :
           \/ s \in Linked /\ cap'[s].operate = cap[s].operate
           \/ DeviceOf[s] \in active /\ cap'[s].operate = 0
           \/ DeviceOf[s] \in active \cap Device
                /\ cap'[s].operate = resumable[DeviceOf[s]].cap.operate,
         \A d \in Device :
           \/ resumable'[d].cap.operate = resumable[d].cap.operate
           \/ resumable'[d].cap.operate = 0
           \/ \E s \in Linked :
                DeviceOf[s] = d /\ resumable'[d].cap.operate = cap[s].operate
  PROVE  ProofOk'
<1>1. LinkOk'
  BY DEF ProofOk, LinkOk, ResumeOk, Backed
<1>2. ResumeOk'
  BY DEF ProofOk, LinkOk, ResumeOk, Backed
<1>3. GrantOk'
  BY DEF ProofOk, GrantOk
<1> QED BY <1>1, <1>2, <1>3 DEF ProofOk

\* Sessions that end leave their windows behind.
LEMMA EndedSessions ==
  ASSUME TypeOK, ProofOk, UNCHANGED <<proved, grant, active>>,
         NEW screens \in SUBSET Linked, Unlink(screens),
         resumable' \in Remembered(screens)
  PROVE  ProofOk'
<1>1. LinkTypes /\ PageTypes
  BY TypesInParts
<1>2. \A s \in Linked' : s \in Linked /\ cap'[s].operate = cap[s].operate
  BY <1>1, UnlinkTypes
<1>3. \A d \in Device :
        \/ resumable'[d].cap.operate = resumable[d].cap.operate
        \/ \E s \in Linked : DeviceOf[s] = d /\ resumable'[d].cap.operate = cap[s].operate
  BY <1>1, RememberedTypes
<1> QED BY <1>2, <1>3, SameProof

LEMMA PageKeepsProof ==
  ASSUME TypeOK, ProofOk, NEW s \in Screen
  PROVE  /\ Connect(s) => ProofOk'
         /\ Drop(s) => ProofOk'
         /\ Lock(s) => ProofOk'
         /\ Browse(s) => ProofOk'
         /\ \A q \in Question : Receive(s, q) => ProofOk'
         /\ \A level \in {"view", "operate"} : Unlock(s, level) => ProofOk'
<1>0. NoCap.operate = 0 /\ NoResume.cap.operate = 0
  BY DEF NoCap, NoResume
<1>1. ASSUME Connect(s) PROVE ProofOk'
  <2> DEFINE d == DeviceOf[s]
             old == resumable[d]
             mine == IF LevelOf(old.cap) # "locked" THEN old.cap ELSE NoCap
  <2>1. cap' = [x \in Linked \cup {s} |-> IF x = s THEN mine ELSE cap[x]]
    BY <1>1 DEF Connect
  <2>2. d \in active \cap Device
    BY <1>1, Counts DEF Connect
  <2>3. mine.operate \in {0, old.cap.operate}
    BY <1>0
  <2> HIDE DEF mine
  <2>4. \A x \in Linked' :
           \/ x \in Linked /\ cap'[x].operate = cap[x].operate
           \/ x = s /\ cap'[x].operate = mine.operate
    BY <2>1 DEF Linked
  <2>5. \A x \in Linked' :
           \/ x \in Linked /\ cap'[x].operate = cap[x].operate
           \/ DeviceOf[x] \in active /\ cap'[x].operate = 0
           \/ DeviceOf[x] \in active \cap Device
                /\ cap'[x].operate = resumable[DeviceOf[x]].cap.operate
    BY <2>2, <2>3, <2>4
  <2>6. \A e \in Device : \/ resumable'[e].cap.operate = resumable[e].cap.operate
                          \/ resumable'[e].cap.operate = 0
    BY <1>0, <1>1, TypesInParts DEF Connect, LinkTypes
  <2> QED BY <1>1, <2>5, <2>6, SameProof DEF Connect
<1>2. ASSUME Drop(s) PROVE ProofOk'
  BY <1>2, EndedSessions DEF Drop
<1>3. ASSUME Lock(s) PROVE ProofOk'
  <2>1. s \in Linked /\ cap' = [cap EXCEPT ![s] = NoCap]
    BY <1>3 DEF Lock
  <2>2. \A x \in Linked' :
           \/ x \in Linked /\ cap'[x].operate = cap[x].operate
           \/ DeviceOf[x] \in active /\ cap'[x].operate = 0
    BY <1>0, <2>1 DEF Linked, ProofOk, LinkOk
  <2> QED BY <1>3, <2>2, SameProof DEF Lock
<1>4. ASSUME Browse(s) PROVE ProofOk'
  <2>1. /\ s \in Linked /\ cap' = [cap EXCEPT ![s] = Touched(cap[s])]
        /\ Touched(cap[s]).operate = cap[s].operate
    BY <1>4, Counts, CapsAreCaps DEF Browse
  <2>2. \A x \in Linked' : x \in Linked /\ cap'[x].operate = cap[x].operate
    BY <2>1 DEF Linked
  <2> QED BY <1>4, <2>2, SameProof DEF Browse
<1>5. ASSUME NEW q \in Question, Receive(s, q) PROVE ProofOk'
  BY <1>5, SameProof DEF Receive, linkVars, Linked
<1>6. ASSUME NEW level \in {"view", "operate"}, Unlock(s, level) PROVE ProofOk'
  <2> DEFINE d == DeviceOf[s]
             c == [viewing |-> TRUE, awake |-> Idle,
                   operate |-> IF level = "operate" THEN Window ELSE cap[s].operate]
  <2>1. s \in Linked /\ cap' = [cap EXCEPT ![s] = c] /\ UNCHANGED <<grant, active, resumable>>
    BY <1>6 DEF Unlock
  <2>2. d \in Device /\ d \in active
    BY <2>1, Counts DEF ProofOk, LinkOk
  <2>3. c.operate = IF level = "operate" THEN Window ELSE cap[s].operate
    OBVIOUS
  <2> HIDE DEF c
  <2>4. Linked' = Linked /\ \A x \in Linked : cap'[x] = IF x = s THEN c ELSE cap[x]
    BY <2>1 DEF Linked
  <2>5. CASE level # "operate"
    <3>1. UNCHANGED proved
      BY <1>6, <2>5 DEF Unlock
    <3>2. \A x \in Linked' : x \in Linked /\ cap'[x].operate = cap[x].operate
      BY <2>3, <2>4, <2>5
    <3> QED BY <2>1, <3>1, <3>2, SameProof
  <2>6. CASE level = "operate"
    <3>1. /\ proved' = [proved EXCEPT ![d] = Window + GrantMax]
          /\ \A e \in Device : proved'[e] = IF e = d THEN Window + GrantMax ELSE proved[e]
      BY <1>6, <2>2, <2>6, TypesInParts DEF Unlock, RestTypes
    <3>2. LinkOk'
      <4> SUFFICES ASSUME NEW x \in Linked
                   PROVE  /\ DeviceOf[x] \in active
                          /\ cap'[x].operate > 0
                               => cap'[x].operate + GrantMax <= proved'[DeviceOf[x]]
        BY <2>1, <2>4 DEF LinkOk, Backed
      <4>1. /\ DeviceOf[x] \in active /\ DeviceOf[x] \in Device
            /\ cap[x].operate > 0 => cap[x].operate + GrantMax <= proved[DeviceOf[x]]
        BY Counts DEF ProofOk, LinkOk, Backed
      <4>2. cap'[x].operate = IF x = s THEN Window ELSE cap[x].operate
        BY <2>3, <2>4, <2>6
      <4>3. cap'[x].operate \in Nat /\ cap'[x].operate <= Window
        BY <4>2, Counts
      <4>4. cap'[x].operate > 0 => cap'[x].operate + GrantMax <= proved'[DeviceOf[x]]
        BY <3>1, <4>1, <4>2, <4>3, Counts
      <4> QED BY <4>1, <4>4
    <3>3. ResumeOk'
      <4> SUFFICES ASSUME NEW e \in Device
                   PROVE  Backed(resumable[e].cap.operate, e)'
        BY <2>1 DEF ResumeOk
      <4>1. resumable[e].cap.operate > 0 => resumable[e].cap.operate + GrantMax <= proved[e]
        BY DEF ProofOk, ResumeOk, Backed
      <4>2. resumable[e].cap.operate > 0 => resumable[e].cap.operate + GrantMax <= proved'[e]
        BY <3>1, <4>1, Counts
      <4> QED BY <2>1, <4>2 DEF Backed
    <3>4. GrantOk'
      <4>1. \A e \in Device : grant[e] <= proved[e] /\ (grant[e] > 0 => e \in active)
        BY DEF ProofOk, GrantOk
      <4>2. \A e \in Device : grant[e] <= proved'[e]
        BY <3>1, <4>1, Counts
      <4> QED BY <2>1, <4>1, <4>2 DEF GrantOk
    <3> QED BY <3>2, <3>3, <3>4 DEF ProofOk
  <2> QED BY <2>5, <2>6
<1> QED BY <1>1, <1>2, <1>3, <1>4, <1>5, <1>6

LEMMA DecisionKeepsProof ==
  ASSUME TypeOK, ProofOk, NEW s \in Screen, NEW q \in Question,
         NEW decision \in {"allow", "scoped", "deny"}
  PROVE  /\ Decide(s, q, decision) => ProofOk'
         /\ Refused(s, q, decision) => ProofOk'
<1> DEFINE d == DeviceOf[s]
<1>1. ASSUME s \in Linked, cap' = [cap EXCEPT ![s] = Touched(cap[s])]
      PROVE  \A x \in Linked' : x \in Linked /\ cap'[x].operate = cap[x].operate
  <2>1. Touched(cap[s]).operate = cap[s].operate
    BY <1>1, Counts, CapsAreCaps
  <2> QED BY <1>1, <2>1 DEF Linked
<1>2. ASSUME Decide(s, q, decision) PROVE ProofOk'
  <2>1. /\ s \in Linked /\ Accepts(s, q, decision) /\ UNCHANGED <<proved, active, resumable>>
        /\ cap' = [cap EXCEPT ![s] = Touched(cap[s])]
        /\ grant' = IF decision = "scoped" THEN [grant EXCEPT ![d] = GrantMax] ELSE grant
    BY <1>2 DEF Decide
  <2>2. \A x \in Linked' : x \in Linked /\ cap'[x].operate = cap[x].operate
    BY <1>1, <2>1
  <2>3. CASE decision # "scoped"
    BY <2>1, <2>2, <2>3, SameProof
  <2>4. CASE decision = "scoped"
    <3>1. LevelOf(cap[s]) = "operate"
      BY <2>1, <2>4 DEF Accepts, Allows
    <3>2. cap[s].operate > 0
      BY <3>1 DEF LevelOf
    <3>3. d \in Device /\ d \in active /\ GrantMax <= proved[d]
      BY <2>1, <3>2, Counts DEF ProofOk, LinkOk, Backed
    <3>4. \A e \in Device : grant'[e] = IF e = d THEN GrantMax ELSE grant[e]
      BY <2>1, <2>4, <3>3, TypesInParts DEF RestTypes
    <3>5. GrantOk'
      BY <2>1, <3>3, <3>4 DEF ProofOk, GrantOk
    <3>6. LinkOk'
      BY <2>1, <2>2 DEF ProofOk, LinkOk, Backed
    <3>7. ResumeOk'
      BY <2>1 DEF ProofOk, ResumeOk, Backed
    <3> QED BY <3>5, <3>6, <3>7 DEF ProofOk
  <2> QED BY <2>3, <2>4
<1>3. ASSUME Refused(s, q, decision) PROVE ProofOk'
  <2>1. /\ s \in Linked /\ UNCHANGED <<proved, grant, active, resumable>>
        /\ cap' = [cap EXCEPT ![s] = Touched(cap[s])]
    BY <1>3 DEF Refused
  <2> QED BY <1>1, <2>1, SameProof
<1> QED BY <1>2, <1>3

LEMMA OutsideKeepsProof ==
  ASSUME TypeOK, ProofOk
  PROVE  /\ Advance => ProofOk'
         /\ \A d \in Device : Revoke(d) => ProofOk'
<1>1. ASSUME Advance PROVE ProofOk'
  <2>1. /\ Linked' = Linked /\ UNCHANGED active
        /\ \A s \in Linked : cap'[s].operate = Less(cap[s].operate)
        /\ \A d \in Device : /\ proved'[d] = Less(proved[d])
                             /\ grant'[d] = Less(grant[d])
    BY <1>1, Counts, CapsAreCaps DEF Advance, Linked
  <2>2. \A d \in Device : resumable'[d].cap.operate \in {0, Less(resumable[d].cap.operate)}
    <3> SUFFICES ASSUME NEW d \in Device
                 PROVE  resumable'[d].cap.operate \in {0, Less(resumable[d].cap.operate)}
      OBVIOUS
    <3>1. resumable'[d] = AgedResume(resumable[d])
      BY <1>1 DEF Advance
    <3>2. Aged(resumable[d].cap).operate = Less(resumable[d].cap.operate)
      BY Counts, CapsAreCaps
    <3>3. \/ resumable'[d] = NoResume
          \/ resumable'[d].cap = Aged(resumable[d].cap)
      BY <3>1 DEF AgedResume
    <3> QED BY <3>2, <3>3 DEF NoResume, NoCap
  <2>3. \A m, n, k \in Nat :
          /\ (n > 0 => n + k <= m) => (Less(n) > 0 => Less(n) + k <= Less(m))
          /\ n <= m => Less(n) <= Less(m) /\ (Less(n) > 0 => n > 0)
    BY DEF Less
  <2>4. LinkOk'
    <3> SUFFICES ASSUME NEW s \in Linked
                 PROVE  /\ DeviceOf[s] \in active
                        /\ cap'[s].operate > 0
                             => cap'[s].operate + GrantMax <= proved'[DeviceOf[s]]
      BY <2>1 DEF LinkOk, Backed
    <3>1. /\ DeviceOf[s] \in active /\ DeviceOf[s] \in Device
          /\ cap[s].operate > 0 => cap[s].operate + GrantMax <= proved[DeviceOf[s]]
      BY Counts DEF ProofOk, LinkOk, Backed
    <3>2. /\ cap[s].operate \in Nat /\ proved[DeviceOf[s]] \in Nat /\ GrantMax \in Nat
      BY <3>1, Counts
    <3> QED BY <2>1, <2>3, <3>1, <3>2
  <2>5. ResumeOk'
    <3> SUFFICES ASSUME NEW d \in Device
                 PROVE  resumable'[d].cap.operate > 0
                          => resumable'[d].cap.operate + GrantMax <= proved'[d]
      BY DEF ResumeOk, Backed
    <3>1. resumable[d].cap.operate > 0 => resumable[d].cap.operate + GrantMax <= proved[d]
      BY DEF ProofOk, ResumeOk, Backed
    <3>2. resumable[d].cap.operate \in Nat /\ proved[d] \in Nat /\ GrantMax \in Nat
      BY Counts
    <3>3. Less(resumable[d].cap.operate) > 0
            => Less(resumable[d].cap.operate) + GrantMax <= Less(proved[d])
      BY <2>3, <3>1, <3>2
    <3> QED BY <2>1, <2>2, <3>3
  <2>6. GrantOk'
    BY <2>1, <2>3, Counts DEF ProofOk, GrantOk
  <2> QED BY <2>4, <2>5, <2>6 DEF ProofOk
<1>2. ASSUME NEW d \in Device, Revoke(d) PROVE ProofOk'
  <2>1. /\ active' = active \ {d} /\ UNCHANGED <<proved, resumable>>
        /\ grant' = [grant EXCEPT ![d] = 0]
        /\ Unlink({s \in Linked : DeviceOf[s] = d})
    BY <1>2 DEF Revoke
  <2>2. /\ Linked' = Linked \ {s \in Linked : DeviceOf[s] = d}
        /\ \A s \in Linked' : cap'[s] = cap[s]
    BY <2>1, UnlinkTypes, TypesInParts
  <2>3. LinkOk'
    BY <2>1, <2>2 DEF ProofOk, LinkOk, Backed
  <2>4. ResumeOk'
    BY <2>1 DEF ProofOk, ResumeOk, Backed
  <2>5. \A e \in Device : grant'[e] = IF e = d THEN 0 ELSE grant[e]
    BY <2>1, TypesInParts DEF RestTypes
  <2>6. GrantOk'
    BY <2>1, <2>5, Counts DEF ProofOk, GrantOk
  <2> QED BY <2>3, <2>4, <2>6 DEF ProofOk
<1> QED BY <1>1, <1>2

LEMMA StepKeepsProof ==
  ASSUME TypeOK, ProofOk, [Next]_vars
  PROVE  ProofOk'
<1>1. ASSUME UNCHANGED linkVars, UNCHANGED <<grant, proved>> PROVE ProofOk'
  BY <1>1, SameProof DEF linkVars, Linked
<1>2. CASE HearAsked \/ HearResolved \/ Expire \/ LinkUp
  BY <1>1, <1>2 DEF HearAsked, HearResolved, Expire, LinkUp
<1>3. CASE FeedEnds \/ LinkDown
  BY <1>3, EndedSessions DEF FeedEnds, LinkDown
<1>4. ASSUME NEW q \in Question,
             Ask(q) \/ Stop(q) \/ \E answer \in Answers : DesktopAnswers(q, answer)
      PROVE  ProofOk'
  BY <1>1, <1>4 DEF Ask, Stop, DesktopAnswers
<1>5. CASE UNCHANGED vars
  BY <1>1, <1>5 DEF vars, linkVars
<1> QED BY <1>2, <1>3, <1>4, <1>5, PageKeepsProof, DecisionKeepsProof, OutsideKeepsProof
        DEF Next, Loop

-----------------------------------------------------------------------------
(* The theorem. *)

\* A question is allowed by the desktop, by a grant, or by a page's decision.
AllowedWithProof(q) ==
  gate[q] = "open" /\ gate'[q] = "allowed" /\ q \notin desk' =>
    \E d \in active :
      IF q \in Dangerous
      THEN \E s \in Linked : DeviceOf[s] = d /\ q \in cards[s] /\ q \in Open
      ELSE proved[d] > IF q \in Open THEN GrantMax ELSE 0

LEMMA GrantHasItsProof ==
  ASSUME TypeOK, FeedOk, ProofOk, NEW q \in Question, HearAsked
  PROVE  AllowedWithProof(q)
<1> SUFFICES ASSUME gate[q] = "open", gate'[q] = "allowed" PROVE AllowedWithProof(q)
  BY DEF AllowedWithProof
<1>1. /\ Covering(Head(feed).q) # {} /\ Resolve(Head(feed).q, "allow")
  BY DEF HearAsked
<1>2. q = Head(feed).q
  BY <1>1, TypesInParts DEF Resolve, GateTypes
<1>3. q \notin Open
  BY <1>2, TailIsOk, TypesInParts DEF HearAsked, FeedOk, FeedTypes
<1>4. PICK d \in Device : q \notin Dangerous /\ grant[d] > 0
  BY <1>1, <1>2 DEF Covering
<1>5. d \in active /\ proved[d] > 0
  BY <1>4, Counts DEF ProofOk, GrantOk
<1> QED BY <1>3, <1>4, <1>5 DEF AllowedWithProof

LEMMA DecisionHasItsProof ==
  ASSUME TypeOK, ProofOk, NEW q \in Question, NEW s \in Screen, NEW p \in Question,
         NEW decision \in {"allow", "scoped", "deny"}, Decide(s, p, decision)
  PROVE  AllowedWithProof(q)
<1> SUFFICES ASSUME gate[q] = "open", gate'[q] = "allowed" PROVE AllowedWithProof(q)
  BY DEF AllowedWithProof
<1>1. /\ s \in Linked /\ p \in cards[s] /\ Accepts(s, p, decision)
      /\ Resolve(p, IF Allows(decision) THEN "allow" ELSE "deny")
  BY DEF Decide
<1>2. q = p /\ Allows(decision)
  BY <1>1, TypesInParts DEF Resolve, GateTypes
<1>3. q \in Open /\ DeviceOf[s] \in active
  BY <1>1, <1>2 DEF Accepts, ProofOk, LinkOk
<1>4. CASE q \in Dangerous
  BY <1>1, <1>2, <1>3, <1>4 DEF AllowedWithProof
<1>5. CASE q \notin Dangerous
  <2>1. LevelOf(cap[s]) = "operate"
    BY <1>1, <1>2, <1>5 DEF Accepts
  <2>2. cap[s].operate > 0
    BY <2>1 DEF LevelOf
  <2>3. proved[DeviceOf[s]] > GrantMax
    BY <1>1, <2>2, Counts DEF ProofOk, LinkOk, Backed
  <2> QED BY <1>3, <1>5, <2>3 DEF AllowedWithProof
<1> QED BY <1>4, <1>5

LEMMA StepHasItsProof ==
  ASSUME TypeOK, FeedOk, ProofOk, [Next]_vars, NEW q \in Question
  PROVE  AllowedWithProof(q)
<1>0. gate \in [Question -> {"none", "open", "allowed", "denied", "stopped"}]
  BY TypesInParts DEF GateTypes
<1>1. ASSUME UNCHANGED gate PROVE AllowedWithProof(q)
  BY <1>1 DEF AllowedWithProof
<1>2. CASE Loop
  <2>1. CASE HearResolved \/ LinkUp \/ FeedEnds
    BY <1>1, <2>1 DEF HearResolved, LinkUp, FeedEnds, gateVars
  <2>2. CASE Expire
    BY <1>0, <2>2 DEF Expire, AllowedWithProof
  <2> QED BY <1>2, <2>1, <2>2, GrantHasItsProof DEF Loop
<1>3. ASSUME NEW p \in Question, Ask(p) \/ Stop(p) PROVE AllowedWithProof(q)
  BY <1>0, <1>3 DEF Ask, Stop, AllowedWithProof
<1>4. ASSUME NEW p \in Question, NEW answer \in Answers, DesktopAnswers(p, answer)
      PROVE  AllowedWithProof(q)
  BY <1>0, <1>4 DEF DesktopAnswers, Resolve, AllowedWithProof
<1>5. CASE \/ LinkDown \/ Advance \/ \E d \in Device : Revoke(d)
  BY <1>1, <1>5 DEF LinkDown, Advance, Revoke, gateVars
<1>6. ASSUME NEW s \in Screen,
             \/ Connect(s) \/ Drop(s) \/ Lock(s) \/ Browse(s)
             \/ \E p \in Question : Receive(s, p)
             \/ \E level \in {"view", "operate"} : Unlock(s, level)
             \/ \E p \in Question, decision \in {"allow", "scoped", "deny"} :
                  Refused(s, p, decision)
      PROVE  AllowedWithProof(q)
  BY <1>1, <1>6 DEF Connect, Drop, Lock, Browse, Receive, Unlock, Refused, gateVars
<1>7. CASE UNCHANGED vars
  BY <1>1, <1>7 DEF vars, gateVars
<1> QED BY <1>2, <1>3, <1>4, <1>5, <1>6, <1>7, DecisionHasItsProof DEF Next

LEMMA InitProof == Init => FeedOk /\ ProofOk
<1> SUFFICES ASSUME Init PROVE FeedOk /\ ProofOk
  OBVIOUS
<1>1. Open = {} /\ Linked = {} /\ feed = <<>>
  BY DEF Init, Open, Linked
<1>2. FeedOk
  BY <1>1 DEF FeedOk, AskedOk
<1>3. ProofOk
  BY <1>1 DEF Init, ProofOk, LinkOk, ResumeOk, GrantOk, Backed, NoResume, NoCap
<1> QED BY <1>2, <1>3

(* The strengthening is inductive.                                         *)
THEOREM Inductive == Spec => []IInv
<1>1. Init => IInv
  BY InitTypes, InitProof DEF IInv, ProofOk
<1>2. IInv /\ [Next]_vars => IInv'
  BY StepKeepsTypes, StepKeepsFeed, StepKeepsProof DEF IInv, ProofOk
<1> QED BY <1>1, <1>2, PTL DEF Spec

(* What lets an action run is the desktop, or a device that is not revoked *)
(* and whose passkey stands behind it (router.rs, session.rs).             *)
THEOREM AllowIsProved == Spec => AllowHasItsProof
<1>1. IInv /\ [Next]_vars => \A q \in Question : AllowedWithProof(q)
  BY StepHasItsProof DEF IInv, ProofOk
<1>2. IInv /\ [Next]_vars =>
        [\A q \in Question :
           gate[q] = "open" /\ gate'[q] = "allowed" /\ q \notin desk' =>
             \E d \in active :
               IF q \in Dangerous
               THEN \E s \in Linked : DeviceOf[s] = d /\ q \in cards[s] /\ q \in Open
               ELSE proved[d] > IF q \in Open THEN GrantMax ELSE 0]_vars
  BY <1>1 DEF AllowedWithProof
<1> QED BY <1>2, Inductive, PTL DEF Spec, AllowHasItsProof

-----------------------------------------------------------------------------
(* An answered question is open nowhere, once the feed is read. *)

AnsweredAt(g) == {q \in Question : g[q] \in {"allowed", "denied"}}

Says(s, i, word, q) == s[i].t = word /\ s[i].q = q

\* The driver has still to hear that these are answered: each that is open, and each
\* it has still to hear asked.
AnswersOk(s, answered, open) ==
  \A q \in answered :
    /\ q \in open => \E j \in 1..Len(s) : Says(s, j, "resolved", q)
    /\ \A i \in 1..Len(s) : Says(s, i, "asked", q) =>
         \E j \in 1..Len(s) : i < j /\ Says(s, j, "resolved", q)

AnswerOk == fed => AnswersOk(feed, AnsweredAt(gate), Open)

LEMMA BroadcastFits ==
  ASSUME NEW unread \in Seq(Event), NEW said \in Seq(Event),
         Broadcast(unread, said), fed \in BOOLEAN, fed'
  PROVE  fed /\ feed' = unread \o said
BY DEF Broadcast

LEMMA AnswersWeaken ==
  ASSUME NEW s, NEW answered, NEW open, NEW answered2, NEW open2,
         AnswersOk(s, answered, open), answered2 \subseteq answered, open2 \subseteq open
  PROVE  AnswersOk(s, answered2, open2)
BY DEF AnswersOk

\* More is said; what it says is resolved is answered now.
LEMMA SayingIsOk ==
  ASSUME NEW s \in Seq(Event), NEW said \in Seq(Event),
         NEW answered, NEW open, NEW more,
         AnswersOk(s, answered, open),
         \A i \in 1..Len(said) : said[i].t = "asked" => said[i].q \notin answered \cup more,
         \A q \in more \ answered : \E i \in 1..Len(said) : Says(said, i, "resolved", q)
  PROVE  AnswersOk(s \o said, answered \cup more, open)
<1> DEFINE all == s \o said
<1>1. /\ Len(s) \in Nat /\ Len(said) \in Nat /\ Len(all) = Len(s) + Len(said)
      /\ \A i \in 1..Len(s) : i \in 1..Len(all) /\ all[i] = s[i]
      /\ \A i \in 1..Len(said) : Len(s) + i \in 1..Len(all) /\ all[Len(s) + i] = said[i]
      /\ \A i \in 1..Len(all) : \/ i \in 1..Len(s)
                                \/ ~(i <= Len(s)) /\ i - Len(s) \in 1..Len(said)
                                   /\ all[i] = said[i - Len(s)]
  OBVIOUS
<1> HIDE DEF all
<1> SUFFICES ASSUME NEW q \in answered \cup more
             PROVE  /\ q \in open => \E j \in 1..Len(all) : Says(all, j, "resolved", q)
                    /\ \A i \in 1..Len(all) : Says(all, i, "asked", q) =>
                         \E j \in 1..Len(all) : i < j /\ Says(all, j, "resolved", q)
  BY DEF AnswersOk, all
<1>2. ASSUME NEW i \in 1..Len(all), Says(all, i, "asked", q)
      PROVE  i \in 1..Len(s) /\ Says(s, i, "asked", q)
  BY <1>1, <1>2 DEF Says
<1>3. CASE q \in answered
  <2>1. \A j \in 1..Len(s) : Says(s, j, "resolved", q) =>
          j \in 1..Len(all) /\ Says(all, j, "resolved", q)
    BY <1>1 DEF Says
  <2>2. q \in open => \E j \in 1..Len(s) : Says(s, j, "resolved", q)
    BY <1>3 DEF AnswersOk
  <2>3. ASSUME NEW i \in 1..Len(all), Says(all, i, "asked", q)
        PROVE  \E j \in 1..Len(s) : i < j /\ Says(s, j, "resolved", q)
    BY <1>2, <1>3, <2>3 DEF AnswersOk
  <2> QED BY <2>1, <2>2, <2>3
<1>4. CASE q \notin answered
  <2>1. PICK k \in 1..Len(said) : Says(said, k, "resolved", q)
    BY <1>4
  <2>2. Len(s) + k \in 1..Len(all) /\ Says(all, Len(s) + k, "resolved", q)
    BY <1>1, <2>1 DEF Says
  <2>3. \A i \in 1..Len(s) : i < Len(s) + k
    BY <1>1
  <2> QED BY <1>2, <2>2, <2>3
<1> QED BY <1>3, <1>4

\* The first event is read.
LEMMA ReadingIsOk ==
  ASSUME NEW s \in Seq(Event), s # <<>>, NEW answered, NEW open,
         AnswersOk(s, answered, open)
  PROVE  /\ Head(s).t = "asked" => AnswersOk(Tail(s), answered, open \cup {Head(s).q})
         /\ Head(s).t = "resolved" => AnswersOk(Tail(s), answered, open \ {Head(s).q})
<1>1. /\ Head(s) = s[1] /\ Len(s) \in Nat \ {0} /\ Len(Tail(s)) = Len(s) - 1
      /\ \A i \in 1..Len(Tail(s)) : i + 1 \in 1..Len(s) /\ Tail(s)[i] = s[i + 1]
      /\ \A i \in 1..Len(s) : i # 1 => i - 1 \in 1..Len(Tail(s)) /\ Tail(s)[i - 1] = s[i]
      /\ 1 \in 1..Len(s)
  OBVIOUS
<1>2. ASSUME NEW q \in answered, NEW i \in 1..Len(Tail(s)), Says(Tail(s), i, "asked", q)
      PROVE  \E j \in 1..Len(Tail(s)) : i < j /\ Says(Tail(s), j, "resolved", q)
  <2>1. Says(s, i + 1, "asked", q)
    BY <1>1, <1>2 DEF Says
  <2>2. PICK j \in 1..Len(s) : i + 1 < j /\ Says(s, j, "resolved", q)
    BY <1>1, <2>1 DEF AnswersOk
  <2>3. j # 1 /\ i < j - 1
    BY <1>1, <2>2
  <2> QED BY <1>1, <2>2, <2>3 DEF Says
<1>3. ASSUME Head(s).t = "asked", NEW q \in answered, q \in open \cup {Head(s).q}
      PROVE  \E j \in 1..Len(Tail(s)) : Says(Tail(s), j, "resolved", q)
  <2>1. PICK j \in 1..Len(s) : Says(s, j, "resolved", q)
    BY <1>1, <1>3 DEF AnswersOk, Says
  <2>2. j # 1
    BY <1>1, <1>3, <2>1 DEF Says
  <2> QED BY <1>1, <2>1, <2>2 DEF Says
<1>4. ASSUME NEW q \in answered, q \in open, q # Head(s).q
      PROVE  \E j \in 1..Len(Tail(s)) : Says(Tail(s), j, "resolved", q)
  <2>1. PICK j \in 1..Len(s) : Says(s, j, "resolved", q)
    BY <1>4 DEF AnswersOk
  <2>2. j # 1
    BY <1>1, <1>4, <2>1 DEF Says
  <2> QED BY <1>1, <2>1, <2>2 DEF Says
<1> QED BY <1>2, <1>3, <1>4 DEF AnswersOk

\* A step that says one question is resolved, and lets nothing else be answered.
LEMMA ResolvedKeepsAnswers ==
  ASSUME GateTypes, NEW q \in Question, NEW s \in Seq(Event), fed \in BOOLEAN,
         fed => AnswersOk(s, AnsweredAt(gate), Open),
         AnsweredAt(gate') \subseteq AnsweredAt(gate) \cup {q}, Open' \subseteq Open,
         Broadcast(s, <<[t |-> "resolved", q |-> q]>>)
  PROVE  AnswerOk'
<1> DEFINE said == <<[t |-> "resolved", q |-> q]>>
<1>a. said \in Seq(Event) /\ \A i \in 1..Len(said) : said[i].t = "resolved"
  BY EventsAreEvents
<1>b. 1 \in 1..Len(said) /\ Says(said, 1, "resolved", q)
  BY DEF Says
<1>c. Broadcast(s, said)
  OBVIOUS
<1>1. /\ said \in Seq(Event) /\ Broadcast(s, said)
      /\ 1 \in 1..Len(said) /\ Says(said, 1, "resolved", q)
      /\ \A i \in 1..Len(said) : said[i].t = "resolved"
  BY <1>a, <1>b, <1>c
<1> HIDE DEF said
<1> SUFFICES ASSUME fed' PROVE AnswersOk(feed', AnsweredAt(gate'), Open')
  BY DEF AnswerOk
<1>2. fed /\ feed' = s \o said
  BY <1>1, BroadcastFits
<1>3. \A i \in 1..Len(said) :
        said[i].t = "asked" => said[i].q \notin AnsweredAt(gate) \cup {q}
  BY <1>1
<1>4. \A p \in {q} \ AnsweredAt(gate) :
        \E i \in 1..Len(said) : Says(said, i, "resolved", p)
  BY <1>1
<1>5. AnswersOk(s \o said, AnsweredAt(gate) \cup {q}, Open)
  BY <1>1, <1>2, <1>3, <1>4, SayingIsOk
<1> QED BY <1>2, <1>5, AnswersWeaken

LEMMA AnsweredByResolve ==
  ASSUME GateTypes, NEW q \in Question, NEW answer, Resolve(q, answer)
  PROVE  AnsweredAt(gate') \subseteq AnsweredAt(gate) \cup {q}
BY DEF GateTypes, Resolve, AnsweredAt

LEMMA LoopKeepsAnswers ==
  ASSUME TypeOK, FeedOk, AnswerOk, Loop
  PROVE  AnswerOk'
<1>0. feed \in Seq(Event) /\ fed \in BOOLEAN /\ GateTypes
  BY TypesInParts DEF FeedTypes
<1>e. ASSUME feed # <<>>
      PROVE  Head(feed) \in Event /\ Tail(feed) \in Seq(Event) /\ Head(feed).q \in Question
  <2>1. Head(feed) \in Event /\ Tail(feed) \in Seq(Event)
    BY <1>0, <1>e
  <2> QED BY <2>1 DEF Event
<1>1. ASSUME HearAsked PROVE AnswerOk'
  <2> DEFINE q == Head(feed).q
             said == <<[t |-> "resolved", q |-> q]>>
  <2>1. /\ q \in Question /\ Tail(feed) \in Seq(Event)
        /\ fed => AnswersOk(Tail(feed), AnsweredAt(gate), Open \cup {q})
    BY <1>0, <1>1, <1>e, ReadingIsOk DEF HearAsked, AnswerOk
  <2>2. fed => AnswersOk(Tail(feed), AnsweredAt(gate), Open)
    BY <2>1, AnswersWeaken
  <2>3. CASE Resolve(q, "allow") /\ Broadcast(Tail(feed), said) /\ UNCHANGED pending
    <3>1. Open' \subseteq Open
      BY <2>3 DEF Open
    <3> QED BY <1>0, <2>1, <2>2, <2>3, <3>1, AnsweredByResolve, ResolvedKeepsAnswers
  <2>4. CASE /\ pending' = [x \in Open \cup {q} |-> IF x = q THEN Timeout ELSE pending[x]]
             /\ feed' = Tail(feed) /\ UNCHANGED <<fed, gate>>
    <3>1. Open' = Open \cup {q}
      BY <2>4 DEF Open
    <3> QED BY <2>1, <2>4, <3>1 DEF AnswerOk
  <2> QED BY <1>1, <2>3, <2>4 DEF HearAsked
<1>2. ASSUME HearResolved PROVE AnswerOk'
  <2>1. /\ feed' = Tail(feed) /\ UNCHANGED <<fed, gate>>
        /\ fed => AnswersOk(Tail(feed), AnsweredAt(gate), Open \ {Head(feed).q})
    BY <1>0, <1>2, ReadingIsOk DEF HearResolved, AnswerOk, gateVars
  <2>2. Open' = Open \ {Head(feed).q}
    BY <1>2 DEF HearResolved, Open, Without
  <2> QED BY <2>1, <2>2 DEF AnswerOk
<1>3. ASSUME Expire PROVE AnswerOk'
  <2>1. Overdue \in SUBSET Question /\ Overdue \subseteq Dead
    BY TypesInParts DEF Overdue, Dead, OpenTypes
  <2>2. PICK order \in SetToSeqs(Overdue) :
          Broadcast(feed, [i \in DOMAIN order |-> [t |-> "resolved", q |-> order[i]]])
    BY <1>3 DEF Expire
  <2> DEFINE said == [i \in DOMAIN order |-> [t |-> "resolved", q |-> order[i]]]
  <2>3. said \in Seq(Event) /\ \A i \in 1..Len(said) : said[i].t = "resolved"
    BY <2>1, OrdersAreEvents
  <2>4. Broadcast(feed, said)
    BY <2>2
  <2> HIDE DEF said
  <2>5. AnsweredAt(gate') \subseteq AnsweredAt(gate) \cup Overdue
    BY <1>0, <1>3 DEF Expire, AnsweredAt, GateTypes
  <2>6. Open' = Open \ Dead
    BY <1>3 DEF Expire, Open, Without
  <2> SUFFICES ASSUME fed' PROVE AnswersOk(feed', AnsweredAt(gate'), Open')
    BY DEF AnswerOk
  <2>7. fed /\ feed' = feed \o said
    BY <1>0, <2>3, <2>4, BroadcastFits
  <2>8. AnswersOk(feed, AnsweredAt(gate), Open)
    BY <2>7 DEF AnswerOk
  <2>9. AnswersOk(feed \o said, AnsweredAt(gate), Open)
    <3>1. \A i \in 1..Len(said) :
            said[i].t = "asked" => said[i].q \notin AnsweredAt(gate) \cup {}
      BY <2>3
    <3>2. AnswersOk(feed \o said, AnsweredAt(gate) \cup {}, Open)
      BY <1>0, <2>3, <2>8, <3>1, SayingIsOk
    <3> QED BY <3>2, AnswersWeaken
  <2> SUFFICES ASSUME NEW p \in AnsweredAt(gate')
               PROVE  /\ p \in Open' => \E j \in 1..Len(feed') : Says(feed', j, "resolved", p)
                      /\ \A i \in 1..Len(feed') : Says(feed', i, "asked", p) =>
                           \E j \in 1..Len(feed') : i < j /\ Says(feed', j, "resolved", p)
    BY DEF AnswersOk
  <2>10. CASE p \in AnsweredAt(gate)
    BY <2>6, <2>7, <2>9, <2>10 DEF AnswersOk
  <2>11. CASE p \in Overdue
    <3>1. p \in Open /\ p \notin Open'
      BY <2>1, <2>6, <2>11 DEF Dead
    <3>2. \A i \in 1..Len(feed) : ~Says(feed, i, "asked", p)
      BY <3>1 DEF FeedOk, AskedOk, Says
    <3>3. \A i \in 1..Len(feed \o said) :
            \/ i \in 1..Len(feed) /\ (feed \o said)[i] = feed[i]
            \/ i - Len(feed) \in 1..Len(said) /\ (feed \o said)[i] = said[i - Len(feed)]
      BY <1>0, <2>3
    <3>4. \A i \in 1..Len(feed \o said) : ~Says(feed \o said, i, "asked", p)
      BY <2>3, <3>2, <3>3 DEF Says
    <3> QED BY <2>7, <3>1, <3>4
  <2> QED BY <2>5, <2>10, <2>11
<1>4. CASE LinkUp \/ FeedEnds
  BY <1>4 DEF LinkUp, FeedEnds, feedVars, gateVars, Open, AnswerOk
<1> QED BY <1>1, <1>2, <1>3, <1>4 DEF Loop

LEMMA QuietKeepsAnswers ==
  ASSUME AnswerOk, UNCHANGED <<feed, fed>>, AnsweredAt(gate') \subseteq AnsweredAt(gate),
         Open' \subseteq Open
  PROVE  AnswerOk'
<1> SUFFICES ASSUME fed' PROVE AnswersOk(feed', AnsweredAt(gate'), Open')
  BY DEF AnswerOk
<1>1. AnswersOk(feed, AnsweredAt(gate), Open)
  BY DEF AnswerOk
<1> QED BY <1>1, AnswersWeaken

LEMMA StepKeepsAnswers ==
  ASSUME TypeOK, FeedOk, AnswerOk, [Next]_vars
  PROVE  AnswerOk'
<1>0. /\ feed \in Seq(Event) /\ fed \in BOOLEAN /\ GateTypes
      /\ gate \in [Question -> {"none", "open", "allowed", "denied", "stopped"}]
  BY TypesInParts DEF FeedTypes, GateTypes
<1>1. ASSUME NEW q \in Question, Ask(q) PROVE AnswerOk'
  <2> DEFINE said == <<[t |-> "asked", q |-> q]>>
  <2>1. said \in Seq(Event) /\ Len(said) = 1 /\ said[1].q = q /\ said[1].t = "asked"
    BY EventsAreEvents
  <2>2. Broadcast(feed, said)
    BY <1>1 DEF Ask
  <2> HIDE DEF said
  <2>3. AnsweredAt(gate') \subseteq AnsweredAt(gate) /\ q \notin AnsweredAt(gate)
    BY <1>0, <1>1 DEF Ask, AnsweredAt
  <2>4. Open' = Open
    BY <1>1 DEF Ask, Open
  <2> SUFFICES ASSUME fed' PROVE AnswersOk(feed', AnsweredAt(gate'), Open')
    BY DEF AnswerOk
  <2>5. fed /\ feed' = feed \o said
    BY <1>0, <2>1, <2>2, BroadcastFits
  <2>6. AnswersOk(feed, AnsweredAt(gate), Open)
    BY <2>5 DEF AnswerOk
  <2>7. \A i \in 1..Len(said) :
          said[i].t = "asked" => said[i].q \notin AnsweredAt(gate) \cup {}
    BY <2>1, <2>3
  <2>8. AnswersOk(feed \o said, AnsweredAt(gate) \cup {}, Open)
    BY <1>0, <2>1, <2>6, <2>7, SayingIsOk
  <2> QED BY <2>3, <2>4, <2>5, <2>8, AnswersWeaken
<1>2. ASSUME NEW q \in Question, Stop(q) PROVE AnswerOk'
  <2>1. /\ UNCHANGED <<feed, fed>> /\ AnsweredAt(gate') \subseteq AnsweredAt(gate)
        /\ Open' \subseteq Open
    BY <1>0, <1>2 DEF Stop, feedVars, AnsweredAt, Open
  <2> QED BY <2>1, QuietKeepsAnswers
<1>3. ASSUME NEW q \in Question, NEW answer \in Answers, DesktopAnswers(q, answer)
      PROVE  AnswerOk'
  <2>1. /\ Resolve(q, answer) /\ Open' \subseteq Open
        /\ Broadcast(feed, <<[t |-> "resolved", q |-> q]>>)
    BY <1>3 DEF DesktopAnswers, Open
  <2> QED BY <1>0, <2>1, AnsweredByResolve, ResolvedKeepsAnswers DEF AnswerOk
<1>4. ASSUME NEW s \in Screen, NEW q \in Question,
             NEW decision \in {"allow", "scoped", "deny"}, Decide(s, q, decision)
      PROVE  AnswerOk'
  <2>1. /\ Resolve(q, IF Allows(decision) THEN "allow" ELSE "deny") /\ Open' \subseteq Open
        /\ Broadcast(feed, <<[t |-> "resolved", q |-> q]>>)
    BY <1>4 DEF Decide, Open, Without
  <2> QED BY <1>0, <2>1, AnsweredByResolve, ResolvedKeepsAnswers DEF AnswerOk
<1>5. CASE LinkDown \/ Advance \/ \E d \in Device : Revoke(d)
  <2>1. UNCHANGED <<feed, fed, gate>> /\ Open' = Open
    BY <1>5 DEF LinkDown, Advance, Revoke, feedVars, gateVars, Open
  <2> QED BY <2>1, QuietKeepsAnswers
<1>6. ASSUME NEW s \in Screen,
             \/ Connect(s) \/ Drop(s) \/ Lock(s) \/ Browse(s)
             \/ \E p \in Question : Receive(s, p)
             \/ \E level \in {"view", "operate"} : Unlock(s, level)
             \/ \E p \in Question, decision \in {"allow", "scoped", "deny"} :
                  Refused(s, p, decision)
      PROVE  AnswerOk'
  <2>1. UNCHANGED <<feed, fed, gate>> /\ Open' = Open
    BY <1>6 DEF Connect, Drop, Lock, Browse, Receive, Unlock, Refused, feedVars, gateVars,
       Open
  <2> QED BY <2>1, QuietKeepsAnswers
<1>7. CASE UNCHANGED vars
  <2>1. UNCHANGED <<feed, fed, gate>> /\ Open' = Open
    BY <1>7 DEF vars, feedVars, gateVars, Open
  <2> QED BY <2>1, QuietKeepsAnswers
<1> QED BY LoopKeepsAnswers, <1>1, <1>2, <1>3, <1>4, <1>5, <1>6, <1>7 DEF Next

(* Once the core has read everything, a question that was answered is open *)
(* nowhere: an answer is said behind the question it answers, and whoever  *)
(* closes a request without saying so closes it in the same step           *)
(* (router.rs, relay.rs).                                                  *)
THEOREM AnsweredIsClosedAlways == Spec => []AnsweredIsClosed
<1>1. Init => AnswerOk
  <2> SUFFICES ASSUME Init PROVE AnswerOk
    OBVIOUS
  <2>1. AnsweredAt(gate) = {}
    BY DEF Init, AnsweredAt
  <2> QED BY <2>1 DEF AnswerOk, AnswersOk
<1>2. IInv /\ AnswerOk /\ [Next]_vars => AnswerOk'
  BY StepKeepsAnswers DEF IInv
<1>3. IInv /\ AnswerOk => AnsweredIsClosed
  <2> SUFFICES ASSUME IInv, AnswerOk, feed = <<>>, fed, NEW q \in Open
               PROVE  gate[q] \in {"open", "stopped"}
    BY DEF AnsweredIsClosed
  <2>1. /\ q \in Question /\ gate[q] # "none"
        /\ gate[q] \in {"none", "open", "allowed", "denied", "stopped"}
    BY TypesInParts DEF IInv, FeedOk, Known, GateTypes, OpenTypes
  <2>2. AnswersOk(<<>>, AnsweredAt(gate), Open)
    BY DEF AnswerOk
  <2>3. q \notin AnsweredAt(gate)
    BY <2>2 DEF AnswersOk
  <2> QED BY <2>1, <2>3 DEF AnsweredAt
<1> QED BY <1>1, <1>2, <1>3, Inductive, PTL DEF Spec

-----------------------------------------------------------------------------
(* A page that may view shows what is open. *)

SeeingNow == Seeing(Linked)

\* The last word on its way to such a page is that it is open, or nothing is on its
\* way and the page has the card.
CardOk ==
  \A s \in SeeingNow, q \in Open :
    news[s][q] = "requested" \/ (news[s][q] = "none" /\ q \in cards[s])

LEMMA SeeingIsLinked == SeeingNow \subseteq Linked
BY DEF SeeingNow, Seeing

\* Nobody new may view, nothing new is open, and nobody who may view is told anything.
LEMMA QuietKeepsCards ==
  ASSUME CardOk, SeeingNow' \subseteq SeeingNow, Open' \subseteq Open,
         \A s \in SeeingNow' : news'[s] = news[s] /\ cards'[s] = cards[s]
  PROVE  CardOk'
BY DEF CardOk

LEMMA TellSays ==
  ASSUME PageTypes, NEW screens, NEW word, NEW about, Tell(screens, word, about),
         NEW s \in Screen
  PROVE  /\ s \notin screens => news'[s] = news[s]
         /\ \A q \in Question :
              s \in screens => news'[s][q] = IF q \in about THEN word ELSE news[s][q]
BY DEF Tell, PageTypes

\* The question is open for everyone who may view.
LEMMA TellingOpens ==
  ASSUME PageTypes, CardOk, NEW q \in Question, SeeingNow \subseteq Screen,
         Open \subseteq Question,
         Tell(SeeingNow, "requested", {q}), Open' = Open \cup {q},
         SeeingNow' = SeeingNow, UNCHANGED cards
  PROVE  CardOk'
<1> SUFFICES ASSUME NEW s \in SeeingNow, NEW p \in Open \cup {q}
             PROVE  news'[s][p] = "requested" \/ (news'[s][p] = "none" /\ p \in cards[s])
  BY DEF CardOk
<1>1. news'[s][p] = IF p \in {q} THEN "requested" ELSE news[s][p]
  BY TellSays
<1> QED BY <1>1 DEF CardOk

\* What is closed is closed for everyone it is told to.
LEMMA TellingCloses ==
  ASSUME PageTypes, CardOk, NEW gone, NEW screens, SeeingNow \subseteq Screen,
         Open \subseteq Question,
         Tell(screens, "closed", gone), Open' = Open \ gone,
         SeeingNow' \subseteq SeeingNow, UNCHANGED cards
  PROVE  CardOk'
<1> SUFFICES ASSUME NEW s \in SeeingNow, NEW p \in Open \ gone
             PROVE  news'[s][p] = "requested" \/ (news'[s][p] = "none" /\ p \in cards[s])
  BY DEF CardOk
<1>1. news'[s][p] = news[s][p]
  BY TellSays
<1> QED BY <1>1 DEF CardOk

\* One page is shown all that is open.
LEMMA ShowingAll ==
  ASSUME PageTypes, CardOk, NEW s \in Screen, SeeingNow \subseteq Screen,
         Open \subseteq Question,
         Tell({s}, "requested", Open), Open' = Open,
         SeeingNow' \subseteq SeeingNow \cup {s}, UNCHANGED cards
  PROVE  CardOk'
<1> SUFFICES ASSUME NEW x \in SeeingNow \cup {s}, NEW p \in Open
             PROVE  news'[x][p] = "requested" \/ (news'[x][p] = "none" /\ p \in cards[x])
  BY DEF CardOk
<1>1. CASE x = s
  BY <1>1, TellSays
<1>2. CASE x # s
  BY <1>2, TellSays DEF CardOk
<1> QED BY <1>1, <1>2

LEMMA LevelKept ==
  ASSUME NEW c \in Caps
  PROVE  /\ LevelOf(Touched(c)) = "locked" <=> LevelOf(c) = "locked"
         /\ LevelOf(Aged(c)) # "locked" => LevelOf(c) # "locked"
         /\ LevelOf(NoCap) = "locked"
<1>0. c.awake \in Nat /\ c.operate \in Nat /\ Idle \in Nat \ {0}
  BY ApprovalsAssumption DEF Caps
<1>1. LevelOf(Touched(c)) = "locked" <=> LevelOf(c) = "locked"
  <2>1. CASE LevelOf(c) = "locked"
    BY <2>1 DEF Touched
  <2>2. CASE LevelOf(c) # "locked"
    <3>1. /\ Touched(c).viewing = c.viewing /\ Touched(c).awake = Idle
          /\ c.viewing
      BY <2>2 DEF Touched, Caps, LevelOf
    <3> QED BY <1>0, <2>2, <3>1 DEF LevelOf
  <2> QED BY <2>1, <2>2
<1>2. ASSUME LevelOf(Aged(c)) # "locked" PROVE LevelOf(c) # "locked"
  <2>1. Aged(c).viewing = c.viewing /\ Aged(c).awake = Less(c.awake)
    BY DEF Aged, Caps
  <2>2. c.viewing /\ Less(c.awake) # 0
    BY <1>2, <2>1 DEF LevelOf
  <2>3. c.awake # 0
    BY <1>0, <2>2 DEF Less
  <2> QED BY <2>2, <2>3 DEF LevelOf
<1>3. LevelOf(NoCap) = "locked"
  BY DEF LevelOf, NoCap
<1> QED BY <1>1, <1>2, <1>3

\* Sessions that end take nobody else's news.
LEMMA UnlinkKeepsCards ==
  ASSUME TypeOK, CardOk, NEW screens, Unlink(screens), UNCHANGED <<pending, cards>>
  PROVE  CardOk'
<1>0. Linked \subseteq Screen
  BY TypesInParts DEF LinkTypes
<1>1. Linked' = Linked \ screens /\ \A s \in Linked' : cap'[s] = cap[s]
  BY DEF Unlink, Without, Linked
<1>2. SeeingNow' \subseteq SeeingNow /\ SeeingNow' \cap screens = {}
  BY <1>1 DEF SeeingNow, Seeing
<1>3. Open' \subseteq Open
  BY DEF Open
<1>4. \A s \in SeeingNow' : news'[s] = news[s] /\ cards'[s] = cards[s]
  BY <1>0, <1>1, <1>2 DEF Unlink, SeeingNow, Seeing
<1> QED BY <1>2, <1>3, <1>4, QuietKeepsCards

\* A session that changes hides no more than it did.
LEMMA SessionKeepsCards ==
  ASSUME TypeOK, CardOk, NEW s \in Linked, NEW c,
         LevelOf(c) # "locked" => LevelOf(cap[s]) # "locked",
         cap' = [cap EXCEPT ![s] = c]
  PROVE  SeeingNow' \subseteq SeeingNow /\ Linked' = Linked
<1>1. Linked' = Linked /\ \A x \in Linked : cap'[x] = IF x = s THEN c ELSE cap[x]
  BY TypesInParts DEF LinkTypes, Linked
<1> QED BY <1>1 DEF SeeingNow, Seeing

LEMMA LoopKeepsCards ==
  ASSUME TypeOK, CardOk, Loop
  PROVE  CardOk'
<1>0. /\ PageTypes /\ SeeingNow \subseteq Screen /\ Open \subseteq Question
      /\ feed \in Seq(Event)
  BY SeeingIsLinked, TypesInParts DEF LinkTypes, OpenTypes, FeedTypes
<1>1. ASSUME HearAsked PROVE CardOk'
  <2> DEFINE q == Head(feed).q
  <2>1. q \in Question
    <3>1. Head(feed) \in Event
      BY <1>0, <1>1 DEF HearAsked
    <3> QED BY <3>1 DEF Event
  <2>2. SeeingNow' = SeeingNow
    BY <1>1 DEF HearAsked, linkVars, SeeingNow, Seeing, Linked
  <2>3. CASE UNCHANGED <<pending, pageVars>>
    <3>1. Open' = Open /\ UNCHANGED <<news, cards>>
      BY <2>3 DEF Open, pageVars
    <3> QED BY <2>2, <3>1, QuietKeepsCards
  <2>4. CASE /\ pending' = [x \in Open \cup {q} |-> IF x = q THEN Timeout ELSE pending[x]]
             /\ Tell(Seeing(Linked), "requested", {q}) /\ UNCHANGED cards
    <3>1. Open' = Open \cup {q} /\ Tell(SeeingNow, "requested", {q})
      BY <2>4 DEF Open, SeeingNow
    <3> QED BY <1>0, <2>1, <2>2, <2>4, <3>1, TellingOpens
  <2> QED BY <1>1, <2>3, <2>4 DEF HearAsked
<1>2. ASSUME HearResolved PROVE CardOk'
  <2>1. /\ SeeingNow' = SeeingNow /\ UNCHANGED cards
        /\ Open' = Open \ {Head(feed).q}
    BY <1>2 DEF HearResolved, linkVars, SeeingNow, Seeing, Linked, Open, Without
  <2>2. CASE Tell(SeeingNow, "closed", {Head(feed).q})
    BY <1>0, <2>1, <2>2, TellingCloses
  <2>3. CASE UNCHANGED news
    BY <2>1, <2>3, QuietKeepsCards
  <2> QED BY <1>2, <2>2, <2>3 DEF HearResolved, SeeingNow
<1>3. ASSUME Expire PROVE CardOk'
  <2>1. /\ SeeingNow' = SeeingNow /\ UNCHANGED cards
        /\ Open' = Open \ Dead /\ Tell(SeeingNow, "closed", Dead)
    BY <1>3 DEF Expire, linkVars, SeeingNow, Seeing, Linked, Open, Without
  <2> QED BY <1>0, <2>1, TellingCloses
<1>4. CASE LinkUp
  <2>1. SeeingNow' = SeeingNow /\ Open' = Open /\ UNCHANGED <<news, cards>>
    BY <1>4 DEF LinkUp, linkVars, pageVars, SeeingNow, Seeing, Linked, Open
  <2> QED BY <2>1, QuietKeepsCards
<1>5. CASE FeedEnds
  BY <1>5, UnlinkKeepsCards DEF FeedEnds
<1> QED BY <1>1, <1>2, <1>3, <1>4, <1>5 DEF Loop

LEMMA StepKeepsCards ==
  ASSUME TypeOK, CardOk, [Next]_vars
  PROVE  CardOk'
<1>0. /\ PageTypes /\ SeeingNow \subseteq Screen /\ Open \subseteq Question
      /\ Linked \subseteq Screen /\ cap \in [Linked -> Caps]
      /\ pending \in [Open -> 0..Timeout]
  BY SeeingIsLinked, TypesInParts DEF LinkTypes, OpenTypes
<1>c. \A s \in Linked : cap[s] \in Caps
  BY <1>0
<1>1. CASE \/ \E q \in Question :
                \/ Ask(q) \/ Stop(q)
                \/ \E answer \in Answers : DesktopAnswers(q, answer)
           \/ UNCHANGED vars
  <2>1. SeeingNow' = SeeingNow /\ Open' = Open /\ UNCHANGED <<news, cards>>
    BY <1>1 DEF Ask, Stop, DesktopAnswers, vars, linkVars, pageVars, SeeingNow, Seeing,
       Linked, Open
  <2> QED BY <2>1, QuietKeepsCards
<1>2. CASE LinkDown
  BY <1>2, UnlinkKeepsCards DEF LinkDown
<1>3. CASE Advance
  <2>1. Linked' = Linked /\ \A s \in Linked : cap'[s] = Aged(cap[s])
    BY <1>3 DEF Advance, Linked
  <2>2. SeeingNow' \subseteq SeeingNow
    BY <1>c, <2>1, LevelKept DEF SeeingNow, Seeing
  <2>3. Open' = Open /\ UNCHANGED <<news, cards>>
    BY <1>3 DEF Advance, Open, pageVars
  <2> QED BY <2>2, <2>3, QuietKeepsCards
<1>4. ASSUME NEW d \in Device, Revoke(d) PROVE CardOk'
  BY <1>4, UnlinkKeepsCards DEF Revoke
<1>5. ASSUME NEW s \in Screen, Connect(s) PROVE CardOk'
  <2> DEFINE d == DeviceOf[s]
             old == resumable[d]
             mine == IF LevelOf(old.cap) # "locked" THEN old.cap ELSE NoCap
  <2>1. /\ cap' = [x \in Linked \cup {s} |-> IF x = s THEN mine ELSE cap[x]]
        /\ s \notin Linked /\ UNCHANGED <<pending, cards>>
        /\ LevelOf(mine) # "locked" => Tell({s}, "requested", Open)
        /\ LevelOf(mine) = "locked" => UNCHANGED news
    BY <1>5 DEF Connect
  <2> HIDE DEF mine
  <2>2. Linked' = Linked \cup {s} /\ Open' = Open
    BY <2>1 DEF Linked, Open
  <2>3. \A x \in Linked' : x # s => cap'[x] = cap[x]
    BY <2>1, <2>2
  <2>4. cap'[s] = mine
    BY <2>1
  <2>5. SeeingNow' \subseteq SeeingNow \cup {s}
    BY <2>2, <2>3 DEF SeeingNow, Seeing
  <2>6. CASE LevelOf(mine) # "locked"
    BY <1>0, <2>1, <2>2, <2>5, <2>6, ShowingAll
  <2>7. CASE LevelOf(mine) = "locked"
    <3>1. s \notin SeeingNow'
      BY <2>4, <2>7 DEF SeeingNow, Seeing
    <3> QED BY <2>1, <2>2, <2>5, <2>7, <3>1, QuietKeepsCards
  <2> QED BY <2>6, <2>7
<1>6. ASSUME NEW s \in Screen, Drop(s) PROVE CardOk'
  BY <1>6, UnlinkKeepsCards DEF Drop
<1>7. ASSUME NEW s \in Screen, NEW level \in {"view", "operate"}, Unlock(s, level)
      PROVE  CardOk'
  <2>1. PICK c : cap' = [cap EXCEPT ![s] = c]
    BY <1>7 DEF Unlock
  <2>2. s \in Linked /\ UNCHANGED <<pending, cards>> /\ Tell({s}, "requested", Open)
    BY <1>7 DEF Unlock
  <2>3. Linked' = Linked /\ \A x \in Linked : x # s => cap'[x] = cap[x]
    BY <1>0, <2>1 DEF Linked
  <2>4. SeeingNow' \subseteq SeeingNow \cup {s}
    BY <2>3 DEF SeeingNow, Seeing
  <2>5. Open' = Open
    BY <2>2 DEF Open
  <2> QED BY <1>0, <2>2, <2>4, <2>5, ShowingAll
<1>8. ASSUME NEW s \in Screen, Lock(s) PROVE CardOk'
  <2>1. s \in Linked /\ cap' = [cap EXCEPT ![s] = NoCap] /\ UNCHANGED <<pending, news, cards>>
    BY <1>8 DEF Lock, pageVars
  <2>2. SeeingNow' \subseteq SeeingNow
    BY <1>c, <2>1, LevelKept, SessionKeepsCards
  <2>3. Open' = Open
    BY <2>1 DEF Open
  <2> QED BY <2>1, <2>2, <2>3, QuietKeepsCards
<1>9. ASSUME NEW s \in Screen,
             \/ Browse(s)
             \/ \E q \in Question, decision \in {"allow", "scoped", "deny"} :
                  Refused(s, q, decision)
      PROVE  CardOk'
  <2>1. /\ s \in Linked /\ cap' = [cap EXCEPT ![s] = Touched(cap[s])]
        /\ UNCHANGED <<pending, news, cards>>
    BY <1>9 DEF Browse, Refused, pageVars
  <2>2. SeeingNow' \subseteq SeeingNow
    BY <1>c, <2>1, LevelKept, SessionKeepsCards
  <2>3. Open' = Open
    BY <2>1 DEF Open
  <2> QED BY <2>1, <2>2, <2>3, QuietKeepsCards
<1>10. ASSUME NEW s \in Screen, NEW q \in Question, Receive(s, q) PROVE CardOk'
  <2>1. /\ cards' = [cards EXCEPT ![s] = IF news[s][q] = "requested" THEN cards[s] \cup {q}
                                                                     ELSE cards[s] \ {q}]
        /\ news' = [news EXCEPT ![s][q] = "none"] /\ news[s][q] # "none"
    BY <1>10 DEF Receive
  <2>2. SeeingNow' = SeeingNow /\ Open' = Open
    BY <1>10 DEF Receive, linkVars, SeeingNow, Seeing, Linked, Open
  <2> SUFFICES ASSUME NEW x \in SeeingNow, NEW p \in Open
               PROVE  news'[x][p] = "requested" \/ (news'[x][p] = "none" /\ p \in cards'[x])
    BY <2>2 DEF CardOk
  <2>3. x \in Screen /\ p \in Question
    BY <1>0
  <2>4. news[x][p] = "requested" \/ (news[x][p] = "none" /\ p \in cards[x])
    BY DEF CardOk
  <2>5. CASE x = s /\ p = q
    <3>1. news'[s][q] = "none"
      BY <1>0, <2>1 DEF PageTypes
    <3>2. news[s][q] = "requested"
      BY <2>1, <2>4, <2>5
    <3>3. q \in cards'[s]
      BY <1>0, <2>1, <3>2 DEF PageTypes
    <3> QED BY <2>5, <3>1, <3>3
  <2>6. CASE x # s \/ p # q
    <3>1. news'[x][p] = news[x][p]
      BY <1>0, <2>1, <2>3, <2>6 DEF PageTypes
    <3>2. p \in cards[x] => p \in cards'[x]
      BY <1>0, <2>1, <2>3, <2>6 DEF PageTypes
    <3> QED BY <2>4, <3>1, <3>2
  <2> QED BY <2>5, <2>6
<1>11. ASSUME NEW s \in Screen, NEW q \in Question,
              NEW decision \in {"allow", "scoped", "deny"}, Decide(s, q, decision)
       PROVE  CardOk'
  <2>1. /\ s \in Linked /\ cap' = [cap EXCEPT ![s] = Touched(cap[s])]
        /\ UNCHANGED cards /\ Tell({s} \cup SeeingNow, "closed", {q})
        /\ pending' = Without(pending, {q})
    BY <1>11 DEF Decide, SeeingNow
  <2>2. SeeingNow' \subseteq SeeingNow
    BY <1>c, <2>1, LevelKept, SessionKeepsCards
  <2>3. Open' = Open \ {q}
    BY <2>1 DEF Open, Without
  <2> QED BY <1>0, <2>1, <2>2, <2>3, TellingCloses
<1>12. ASSUME NEW s \in Screen,
              \/ Connect(s) \/ Drop(s) \/ Lock(s) \/ Browse(s)
              \/ \E q \in Question : Receive(s, q)
              \/ \E level \in {"view", "operate"} : Unlock(s, level)
       PROVE  CardOk'
  BY <1>5, <1>6, <1>7, <1>8, <1>9, <1>10, <1>12
<1>13. ASSUME NEW s \in Screen, NEW q \in Question,
              NEW decision \in {"allow", "scoped", "deny"},
              Decide(s, q, decision) \/ Refused(s, q, decision)
       PROVE  CardOk'
  BY <1>9, <1>11, <1>13
<1> QED BY LoopKeepsCards, <1>1, <1>2, <1>3, <1>4, <1>12, <1>13 DEF Next

(* A page that may view, with nothing left on the way to it, shows every   *)
(* open request: what it missed while it was locked, dropped or away is    *)
(* sent when it comes back (core.rs, session.rs).                          *)
THEOREM OpenCardsAreShownAlways == Spec => []OpenCardsAreShown
<1>1. Init => CardOk
  BY DEF Init, CardOk, Open
<1>2. IInv /\ CardOk /\ [Next]_vars => CardOk'
  BY StepKeepsCards DEF IInv
<1>3. IInv /\ CardOk => OpenCardsAreShown
  <2> SUFFICES ASSUME IInv, CardOk, NEW s \in SeeingNow, news[s] = NoNews, NEW q \in Open
               PROVE  q \in cards[s]
    BY DEF OpenCardsAreShown, SeeingNow
  <2>1. q \in Question
    BY TypesInParts DEF IInv, OpenTypes
  <2>2. news[s][q] = "none"
    BY <2>1 DEF NoNews
  <2> QED BY <2>2 DEF CardOk
<1> QED BY <1>1, <1>2, <1>3, Inductive, PTL DEF Spec
=============================================================================
