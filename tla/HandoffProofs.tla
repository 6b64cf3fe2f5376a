--------------------------- MODULE HandoffProofs ---------------------------
(***************************************************************************)
(* What is proved of Handoff for any finite set of screens and any bounds: *)
(* the shape of the state, that a stamped frame the relay passes on is of  *)
(* the lease that stands, that relay and daemon agree at rest, and that    *)
(* at rest no page believes itself the driver under another's lease.       *)
(*                                                                         *)
(* Types carries the shape of everything that waits in a queue, and that   *)
(* every lease anybody holds or stamps with is one the relay granted       *)
(* (Known): no higher a fence than the number of its grant, and the grant  *)
(* that stands is one lease.                                               *)
(* Heeded: while the link is up, the daemon's copy is the relay's row, or  *)
(* it has none and the row is not live, or it has still to hear the        *)
(* answer it asked for when it signed in, or the relay's word went into a  *)
(* socket that had been replaced.                                          *)
(*                                                                         *)
(* TalkOk follows the news to the page.  ConnsOk, GoneOk: connections are  *)
(* numbered as they are opened, and a page whose socket the relay has      *)
(* closed will read so.  The rest is about a relay that holds no replaced  *)
(* socket: when the last of them closes, every page's does with it.        *)
(* LinkedOk: a socket the daemon has no session on has its close on the    *)
(* way.  SaidOk: the last notice still to come to a screen (Word: what     *)
(* waits in the queue to the relay, then what waits to be sealed) is of    *)
(* the lease the daemon holds.  StrayedOk: while the daemon does not know  *)
(* the lease, no screen that does not hold it is to be told of one.        *)
(* ToldOk: a page that does not hold the live lease is still to be told,   *)
(* or the last it will read (down, then what it shows) is not that it      *)
(* drives.                                                                 *)
(***************************************************************************)
EXTENDS Handoff, SequenceLemmas, FiniteSetTheorems, SequenceTheorems

Body == [shows : {"reply", "nothing", "mine", "other"}, fence : Nat]

\* What either end may take for a lease: it was granted, its fence is no higher than
\* the number of its grant, and if that is the grant that stands, it is the one lease.
Known ==
  {NoLease} \cup
  {L \in Lease : /\ L.fence <= L.grant
                 /\ lease # NoLease /\ L.grant = lease.grant => L = lease}

Kinds == {"welcome", "f", "close", "claim", "release"}
Message ==
  [kind : Kinds, s : Screen, conn : 0..MaxConn, stamp : Known, body : Body]
    \cup [kind : {"state"}, s : {"nobody"}, conn : {0}, stamp : {NoLease}, body : {Reply}]
PageMessage ==
  [kind : {"welcome", "f", "refused", "gone"}, fence : Nat, whole : BOOLEAN,
   body : Body]
Page ==
  [conn : 0..MaxConn, welcomed : BOOLEAN, fence : Nat,
   shows : {"nothing", "mine", "other"}]

RelayTypes ==
  /\ lease \in Known /\ (lease # NoLease => lease.grant = grants)
  /\ over \subseteq 1..grants
  /\ socket \in [Screen -> 0..MaxConn]
  /\ holedUp \subseteq Screen /\ holedDown \subseteq Screen
  /\ net \in {"up", "lost", "gone"}
DownTypes == down \in [Screen -> Seq(PageMessage)]
HubTypes == toHub \in Seq(Message)
LateTypes ==
  /\ late \in [DOMAIN late -> Seq(Message)] /\ DOMAIN late \subseteq 1..downs
  /\ net = "lost" => downs # 0
  /\ strayed \in BOOLEAN
DaemonTypes ==
  /\ held \in Known /\ overHere \subseteq 1..grants
  /\ linked \in [Screen -> 0..MaxConn] /\ holedHere \subseteq Screen
  /\ queued \in [Screen -> Seq(Body)]
PageTypes == page \in [Screen -> Page]
CountTypes ==
  /\ opened \in 1..MaxConn /\ grants \in Nat /\ presses \in 0..MaxPress
  /\ drops \in 0..MaxLoss /\ downs \in 0..MaxLoss

Types ==
  RelayTypes /\ HubTypes /\ LateTypes /\ DownTypes /\ DaemonTypes /\ PageTypes /\ CountTypes

NoState(q) == \A i \in 1..Len(q) : q[i].kind # "state"

\* The daemon has heard of the lease that stands, unless it has still to ask, or it
\* was told so in a socket it has given up.
Heeded ==
  net = "up" /\ NoState(toHub) /\ ~strayed => held = lease \/ (held = NoLease /\ ~Live)

IInv == Types /\ Heeded

-----------------------------------------------------------------------------
(* What the daemon seals. *)

LEMMA Shapes ==
  /\ NoLease \in Known /\ Reply \in Body
  /\ \A L \in Known : L \in Lease /\ L.fence \in Nat
  /\ \A kind \in Kinds, s \in Screen, conn \in 0..MaxConn, stamp \in Known, body \in Body :
       /\ ToHub(kind, s, conn, stamp, body) \in Message
       /\ ToHub(kind, s, conn, stamp, body).kind = kind
<1>1. NoLease \in Known
  BY DEF Known
<1>2. Reply \in Body
  BY DEF Reply, Body
<1>3. \A L \in Known : L \in Lease /\ L.fence \in Nat
  BY DEF Known, Lease, NoLease
<1>4. \A kind \in Kinds, s \in Screen, conn \in 0..MaxConn, stamp \in Known, body \in Body :
        /\ ToHub(kind, s, conn, stamp, body) \in Message
        /\ ToHub(kind, s, conn, stamp, body).kind = kind
  BY DEF ToHub, Message
<1> QED BY <1>1, <1>2, <1>3, <1>4

LEMMA NoticesAreBodies ==
  ASSUME NEW s \in Screen, NEW of \in Known
  PROVE  Notice(s, of) \in Body
BY Shapes DEF Notice, Body

LEMMA StampIsKnown ==
  ASSUME DaemonTypes
  PROVE  Stamp \in Known
BY Shapes DEF DaemonTypes, Stamp

LEMMA IndexedIsSequence ==
  ASSUME NEW S, NEW n \in Nat, NEW f \in [1..n -> S]
  PROVE  f \in Seq(S) /\ Len(f) = n
OBVIOUS

\* Whatever can be said of each frame can be said of all.
LEMMA SealedAreOver ==
  ASSUME NEW q \in [Screen -> Seq(Body)], NEW conns, NEW X, NEW frames \in Sealed(q, conns),
         \A s \in Screen : \A i \in 1..Len(q[s]) : ToHub("f", s, conns[s], Stamp, q[s][i]) \in X
  PROVE  frames \in Seq(X)
<1> DEFINE of(s) == [i \in 1..Len(q[s]) |-> ToHub("f", s, conns[s], Stamp, q[s][i])]
           waiting == {s \in Screen : q[s] # <<>>}
<1>1. PICK o \in SetToSeqs(waiting) : frames = FlattenSeq([i \in DOMAIN o |-> of(o[i])])
  BY DEF Sealed
<1>2. \A s \in Screen : of(s) \in Seq(X)
  <2> TAKE s \in Screen
  <2>1. Len(q[s]) \in Nat /\ of(s) \in [1..Len(q[s]) -> X]
    OBVIOUS
  <2> HIDE DEF of
  <2> QED BY <2>1, IndexedIsSequence
<1> HIDE DEF of
<1>3. IsFiniteSet(waiting) /\ Cardinality(waiting) \in Nat
  BY HandoffAssumption, FS_Subset, FS_CardinalityType
<1>4. PICK n \in Nat : o \in [1..n -> waiting]
  BY <1>1, <1>3 DEF SetToSeqs
<1>5. [i \in DOMAIN o |-> of(o[i])] \in Seq(Seq(X))
  <2>1. [i \in DOMAIN o |-> of(o[i])] \in [1..n -> Seq(X)]
    BY <1>2, <1>4
  <2> QED BY <2>1
<1> QED BY <1>1, <1>5, FlattenIsSequence

Frames == {m \in Message : m.kind = "f"}

LEMMA SealedAreFrames ==
  ASSUME DaemonTypes, NEW q \in [Screen -> Seq(Body)], NEW conns \in [Screen -> 0..MaxConn],
         NEW frames \in Sealed(q, conns)
  PROVE  frames \in Seq(Frames)
<1>1. \A s \in Screen : \A i \in 1..Len(q[s]) :
        ToHub("f", s, conns[s], Stamp, q[s][i]) \in Frames
  <2> TAKE s \in Screen
  <2> TAKE i \in 1..Len(q[s])
  <2>1. q[s][i] \in Body
    OBVIOUS
  <2> QED BY <2>1, Shapes, StampIsKnown DEF Frames, Kinds
<1> QED BY <1>1, SealedAreOver

LEMMA BehindEachOther ==
  ASSUME NEW S, NEW q \in Seq(S), NEW r \in Seq(S)
  PROVE  /\ q \o r \in Seq(S)
         /\ \A i \in 1..Len(q \o r) :
              \/ i \in 1..Len(q) /\ (q \o r)[i] = q[i]
              \/ i - Len(q) \in 1..Len(r) /\ (q \o r)[i] = r[i - Len(q)]
OBVIOUS

\* now is before, and more behind it.
Grows(before, now) == \E more \in Seq(Message) : now = before \o more

LEMMA EmitTypes ==
  ASSUME DaemonTypes, NEW q \in [Screen -> Seq(Body)], NEW conns \in [Screen -> 0..MaxConn],
         NEW rest \in Seq(Message), NEW first \in Seq(Message), NEW asks \in Seq(Message),
         Emit(rest, first, q, conns, asks)
  PROVE  Grows(rest, toHub') /\ queued' \in [Screen -> Seq(Body)]
<1>1. PICK frames \in Sealed(q, conns) : toHub' = rest \o first \o frames \o asks
  BY DEF Emit
<1>2. frames \in Seq(Message)
  <2>1. frames \in Seq(Frames)
    BY SealedAreFrames
  <2> QED BY <2>1 DEF Frames
<1> DEFINE front == first \o frames
<1>3. front \in Seq(Message)
  BY <1>2
<1>4. toHub' = (rest \o front) \o asks
  <2>1. rest \o first \o frames = rest \o front
    BY <1>2, ConcatAssociative
  <2> QED BY <1>1, <2>1
<1> HIDE DEF front
<1>5. toHub' = rest \o (front \o asks)
  BY ONLY <1>3, <1>4, rest \in Seq(Message), asks \in Seq(Message), ConcatAssociative
<1>6. front \o asks \in Seq(Message)
  BY <1>3
<1>7. queued' \in [Screen -> Seq(Body)]
  BY DEF Emit
<1> QED BY <1>5, <1>6, <1>7 DEF Grows

-----------------------------------------------------------------------------
(* The daemon's handlers. *)

LEMMA NothingSaid ==
  ASSUME NEW before \in Seq(Message)
  PROVE  Grows(before, before)
<1>1. <<>> \in Seq(Message) /\ before = before \o <<>>
  OBVIOUS
<1> QED BY <1>1 DEF Grows

LEMMA OneMessage ==
  ASSUME NEW kind \in Kinds, NEW s \in Screen, NEW conn \in 0..MaxConn, NEW stamp \in Known,
         NEW body \in Body
  PROVE  <<ToHub(kind, s, conn, stamp, body)>> \in Seq(Message)
<1>1. ToHub(kind, s, conn, stamp, body) \in Message
  BY Shapes
<1> QED BY <1>1

LEMMA HelloTypes ==
  ASSUME DaemonTypes, NEW s \in Screen, NEW rest \in Seq(Message),
         opened + 1 \in 0..MaxConn, OnHello(s, rest)
  PROVE  /\ Grows(rest, toHub') /\ UNCHANGED <<held, overHere>>
         /\ linked' \in [Screen -> 0..MaxConn] /\ holedHere' \subseteq Screen
         /\ queued' \in [Screen -> Seq(Body)]
<1> DEFINE first == <<ToHub("welcome", s, opened + 1, Stamp, Reply)>>
           q == [queued EXCEPT ![s] = <<Reply>>]
<1>1. first \in Seq(Message)
  <2>1. "welcome" \in Kinds
    BY DEF Kinds
  <2> QED BY <2>1, OneMessage, Shapes, StampIsKnown
<1>2. q \in [Screen -> Seq(Body)] /\ linked' \in [Screen -> 0..MaxConn]
      /\ holedHere' \subseteq Screen
  BY Shapes DEF DaemonTypes, OnHello
<1>3. <<>> \in Seq(Message)
  OBVIOUS
<1>4. Emit(rest, first, q, linked', <<>>) /\ UNCHANGED <<held, overHere>>
  BY DEF OnHello
<1> HIDE DEF first, q
<1> QED BY <1>1, <1>2, <1>3, <1>4, EmitTypes

LEMMA CloseTypes ==
  ASSUME DaemonTypes, NEW s \in Screen, NEW rest \in Seq(Message), OnClose(s, rest)
  PROVE  /\ Grows(rest, toHub') /\ UNCHANGED <<held, overHere>>
         /\ linked' \in [Screen -> 0..MaxConn] /\ holedHere' \subseteq Screen
         /\ queued' \in [Screen -> Seq(Body)]
<1>1. toHub' = rest
  BY DEF OnClose
<1>2. /\ linked' \in [Screen -> 0..MaxConn] /\ holedHere' \subseteq Screen
      /\ queued' \in [Screen -> Seq(Body)] /\ UNCHANGED <<held, overHere>>
  BY HandoffAssumption DEF OnClose, DaemonTypes, Without
<1> QED BY <1>1, <1>2, NothingSaid

LEMMA FrameTypes ==
  ASSUME DaemonTypes, NEW s \in Screen, NEW kind \in {"claim", "release", "say"}, NEW fence,
         NEW rest \in Seq(Message), page[s].conn \in 0..MaxConn, OnFrame(s, kind, fence, rest)
  PROVE  /\ Grows(rest, toHub') /\ UNCHANGED <<held, overHere>>
         /\ linked' \in [Screen -> 0..MaxConn] /\ holedHere' \subseteq Screen
         /\ queued' \in [Screen -> Seq(Body)]
<1> DEFINE close == <<ToHub("close", s, page[s].conn, NoLease, Reply)>>
           q == [queued EXCEPT ![s] = queued[s] \o Answered(s, kind)]
           conns == [linked EXCEPT ![s] = 0]
<1>0. queued \in [Screen -> Seq(Body)] /\ linked \in [Screen -> 0..MaxConn]
      /\ holedHere \subseteq Screen /\ UNCHANGED <<held, overHere>>
  BY DEF DaemonTypes, OnFrame
<1>1. close \in Seq(Message)
  <2>1. "close" \in Kinds
    BY DEF Kinds
  <2> QED BY <2>1, OneMessage, Shapes
<1>2. q \in [Screen -> Seq(Body)]
  <2>1. Answered(s, kind) \in Seq(Body)
    BY Shapes, NoticesAreBodies DEF Answered, DaemonTypes
  <2> QED BY <1>0, <2>1
<1>3. Without(s) \in [Screen -> Seq(Body)] /\ conns \in [Screen -> 0..MaxConn]
  BY <1>0, HandoffAssumption DEF Without
<1>4. <<>> \in Seq(Message)
  OBVIOUS
<1>5. Asks(s, kind) \in Seq(Message)
  <2>1. CASE Asks(s, kind) = <<>>
    BY <2>1
  <2>2. CASE Asks(s, kind) = <<ToHub(kind, s, 0, Stamp, Reply)>> /\ kind # "say"
    <3>1. kind \in Kinds /\ 0 \in 0..MaxConn
      BY <2>2, HandoffAssumption DEF Kinds
    <3> QED BY <2>2, <3>1, OneMessage, Shapes, StampIsKnown
  <2> QED BY <2>1, <2>2 DEF Asks
<1> HIDE DEF close, q, conns
<1>6. CASE /\ holedHere' = holedHere \cup {s} /\ UNCHANGED linked
           /\ Emit(rest, <<>>, queued, linked, <<>>)
  BY <1>0, <1>4, <1>6, EmitTypes
<1>7. CASE Emit(rest, <<>>, q, linked, Asks(s, kind)) /\ UNCHANGED <<linked, holedHere>>
  BY <1>0, <1>2, <1>4, <1>5, <1>7, EmitTypes
<1>8. CASE linked' = conns /\ Emit(rest, close, Without(s), linked, <<>>)
           /\ UNCHANGED holedHere
  BY <1>0, <1>1, <1>3, <1>4, <1>8, EmitTypes
<1>9. CASE Emit(rest, close, queued, linked, <<>>) /\ UNCHANGED <<linked, holedHere>>
  BY <1>0, <1>1, <1>4, <1>9, EmitTypes
<1> QED BY <1>6, <1>7, <1>8, <1>9 DEF OnFrame, close, q, conns

-----------------------------------------------------------------------------
(* What a step does to the types. *)

LEMMA PageShapes ==
  ASSUME PageTypes, NEW s \in Screen
  PROVE  /\ \A v \in 0..MaxConn : [page EXCEPT ![s].conn = v] \in [Screen -> Page]
         /\ \A v \in BOOLEAN : [page EXCEPT ![s].welcomed = v] \in [Screen -> Page]
         /\ \A v \in Nat : [page EXCEPT ![s].fence = v] \in [Screen -> Page]
         /\ \A v \in Nat, w \in {"nothing", "mine", "other"} :
              [page EXCEPT ![s].fence = v, ![s].shows = w] \in [Screen -> Page]
         /\ Closed(s) \in [Screen -> Page]
<1>1. page[s] \in Page
  BY DEF PageTypes
<1>2. \A r \in Page : [page EXCEPT ![s] = r] \in [Screen -> Page]
  BY DEF PageTypes
<1>3. \A v \in 0..MaxConn : [page[s] EXCEPT !.conn = v] \in Page
  BY <1>1 DEF Page
<1>4. \A v \in BOOLEAN : [page[s] EXCEPT !.welcomed = v] \in Page
  BY <1>1 DEF Page
<1>5. \A v \in Nat : [page[s] EXCEPT !.fence = v] \in Page
  BY <1>1 DEF Page
<1>6. \A v \in 0..MaxConn : [page EXCEPT ![s].conn = v] \in [Screen -> Page]
  BY <1>2, <1>3
<1>7. \A v \in BOOLEAN : [page EXCEPT ![s].welcomed = v] \in [Screen -> Page]
  BY <1>2, <1>4
<1>8. \A v \in Nat : [page EXCEPT ![s].fence = v] \in [Screen -> Page]
  BY <1>2, <1>5
<1>9. ASSUME NEW v \in Nat, NEW w \in {"nothing", "mine", "other"}
      PROVE  [page EXCEPT ![s].fence = v, ![s].shows = w] \in [Screen -> Page]
  <2> DEFINE half == [page EXCEPT ![s].fence = v]
  <2>1. half \in [Screen -> Page]
    BY <1>8
  <2>2. [page EXCEPT ![s].fence = v, ![s].shows = w] = [half EXCEPT ![s].shows = w]
    OBVIOUS
  <2> HIDE DEF half
  <2>3. [half[s] EXCEPT !.shows = w] \in Page
    BY <2>1 DEF Page
  <2>4. [half EXCEPT ![s].shows = w] \in [Screen -> Page]
    BY <2>1, <2>3
  <2> QED BY <2>2, <2>4
<1>10. Closed(s) \in [Screen -> Page]
  <2> DEFINE half == [page EXCEPT ![s].conn = 0]
  <2>1. half \in [Screen -> Page]
    BY <1>6, HandoffAssumption
  <2>2. Closed(s) = [half EXCEPT ![s].welcomed = FALSE]
    BY DEF Closed
  <2> HIDE DEF half
  <2>3. [half[s] EXCEPT !.welcomed = FALSE] \in Page
    BY <2>1 DEF Page
  <2>4. [half EXCEPT ![s].welcomed = FALSE] \in [Screen -> Page]
    BY <2>1, <2>3
  <2> QED BY <2>2, <2>4
<1> QED BY <1>6, <1>7, <1>8, <1>9, <1>10

LEMMA SameLeases ==
  ASSUME UNCHANGED <<lease, grants>>
  PROVE  Known' = Known /\ Message' = Message
BY DEF Known, Lease, Message

\* A step that grants nothing, drops no replaced socket and loses no message.
LEMMA Growing ==
  ASSUME HubTypes, LateTypes, Grows(toHub, toHub'),
         UNCHANGED <<lease, grants, late, strayed, net, downs>>
  PROVE  HubTypes' /\ LateTypes'
<1>1. Message' = Message
  BY SameLeases
<1>2. HubTypes'
  BY <1>1 DEF HubTypes, Grows
<1>3. LateTypes'
  BY <1>1 DEF LateTypes
<1> QED BY <1>2, <1>3

LEMMA PageIsTold ==
  ASSUME NEW d \in [Screen -> Seq(PageMessage)], NEW s \in Screen, NEW m \in PageMessage
  PROVE  [d EXCEPT ![s] = Append(d[s], m)] \in [Screen -> Seq(PageMessage)]
<1>1. Append(d[s], m) \in Seq(PageMessage)
  OBVIOUS
<1> QED BY <1>1

\* A frame of a page, as far as the relay.
LEMMA DeviceTypes ==
  ASSUME RelayTypes, HubTypes, DaemonTypes, PageTypes, NEW s \in Screen,
         NEW kind \in {"claim", "release", "say"}, NEW fence,
         NEW d \in [Screen -> Seq(PageMessage)], FromDevice(s, kind, fence, d)
  PROVE  /\ Grows(toHub, toHub') /\ UNCHANGED <<held, overHere>>
         /\ linked' \in [Screen -> 0..MaxConn] /\ holedHere' \subseteq Screen
         /\ queued' \in [Screen -> Seq(Body)]
         /\ holedUp' \subseteq Screen /\ down' \in [Screen -> Seq(PageMessage)]
<1>1. toHub \in Seq(Message) /\ page[s].conn \in 0..MaxConn /\ holedUp \subseteq Screen
  BY DEF HubTypes, RelayTypes, PageTypes, Page
<1>2. Grows(toHub, toHub)
  BY <1>1, NothingSaid
<1>3. ASSUME UNCHANGED <<daemon, toHub>>
      PROVE  /\ Grows(toHub, toHub') /\ UNCHANGED <<held, overHere>>
             /\ linked' \in [Screen -> 0..MaxConn] /\ holedHere' \subseteq Screen
             /\ queued' \in [Screen -> Seq(Body)]
  BY <1>2, <1>3 DEF daemon, DaemonTypes
<1>4. CASE holedUp' \in {holedUp, holedUp \cup {s}} /\ down' = d /\ UNCHANGED <<daemon, toHub>>
  BY <1>1, <1>3, <1>4
<1>5. CASE OnFrame(s, kind, fence, toHub) /\ down' = d /\ UNCHANGED holedUp
  BY <1>1, <1>5, FrameTypes
<1>6. CASE /\ holedUp' = holedUp \cup {s} /\ UNCHANGED <<daemon, toHub>>
           /\ down' = [d EXCEPT ![s] = Append(d[s], ToPage("refused", lease.fence, TRUE, Reply))]
  <2>1. ToPage("refused", lease.fence, TRUE, Reply) \in PageMessage
    BY Shapes DEF RelayTypes, PageMessage, ToPage
  <2>2. down' \in [Screen -> Seq(PageMessage)]
    BY <1>6, <2>1, PageIsTold
  <2> QED BY <1>1, <1>3, <1>6, <2>2
<1> QED BY <1>4, <1>5, <1>6 DEF FromDevice, Lost

LEMMA SocketTypes ==
  ASSUME RelayTypes, HubTypes, DaemonTypes, NEW s \in Screen, SocketClosed(s)
  PROVE  /\ Grows(toHub, toHub') /\ UNCHANGED <<held, overHere>>
         /\ linked' \in [Screen -> 0..MaxConn] /\ holedHere' \subseteq Screen
         /\ queued' \in [Screen -> Seq(Body)]
         /\ socket' \in [Screen -> 0..MaxConn]
<1>1. toHub \in Seq(Message) /\ socket \in [Screen -> 0..MaxConn]
  BY DEF HubTypes, RelayTypes
<1>2. Grows(toHub, toHub)
  BY <1>1, NothingSaid
<1>3. socket' \in [Screen -> 0..MaxConn]
  BY <1>1, HandoffAssumption DEF SocketClosed
<1>4. CASE UNCHANGED <<daemon, toHub>>
  BY <1>2, <1>3, <1>4 DEF daemon, DaemonTypes
<1>5. CASE OnClose(s, toHub)
  BY <1>1, <1>3, <1>5, CloseTypes
<1> QED BY <1>4, <1>5 DEF SocketClosed, Heard, Lost

\* The relay's row and the daemon's copy of it stay as they are, and nothing that was
\* on its way is lost.
SaysMore ==
  UNCHANGED <<lease, over, net, held, late, strayed>> /\ Grows(toHub, toHub')

LEMMA PageStepTypes ==
  ASSUME Types, NEW s \in Screen, Connect(s) \/ PageDrop(s) \/ Press(s)
  PROVE  Types' /\ SaysMore
<1>0. /\ RelayTypes /\ HubTypes /\ LateTypes /\ DownTypes /\ DaemonTypes /\ PageTypes
      /\ CountTypes
  BY DEF Types
<1>n. /\ MaxConn \in Nat \ {0} /\ MaxPress \in Nat /\ MaxLoss \in Nat
  BY HandoffAssumption
\* What is left to show of each case.
<1>4. ASSUME UNCHANGED <<lease, over, net, late, strayed, grants, downs>>,
             Grows(toHub, toHub'), UNCHANGED <<held, overHere>>,
             linked' \in [Screen -> 0..MaxConn], holedHere' \subseteq Screen,
             queued' \in [Screen -> Seq(Body)], socket' \in [Screen -> 0..MaxConn],
             holedUp' \subseteq Screen, holedDown' \subseteq Screen,
             down' \in [Screen -> Seq(PageMessage)], PageTypes', CountTypes'
      PROVE  Types' /\ SaysMore
  <2>1. HubTypes' /\ LateTypes'
    BY <1>0, <1>4, Growing
  <2>2. Known' = Known
    BY <1>4, SameLeases
  <2>3. RelayTypes' /\ DownTypes' /\ DaemonTypes'
    BY <1>0, <1>4, <2>2 DEF RelayTypes, DownTypes, DaemonTypes
  <2>4. SaysMore
    BY <1>4 DEF SaysMore
  <2> QED BY <1>4, <2>1, <2>3, <2>4 DEF Types
<1>1. CASE Connect(s)
  <2>1. /\ opened' = opened + 1 /\ opened + 1 \in 0..MaxConn /\ opened + 1 \in 1..MaxConn
        /\ UNCHANGED <<lease, over, down, net, late, strayed, grants, presses, drops, downs>>
        /\ page' = [page EXCEPT ![s].conn = opened + 1]
        /\ socket' = [socket EXCEPT ![s] = opened + 1]
        /\ holedUp' = holedUp \ {s} /\ holedDown' = holedDown \ {s}
        /\ Heard(OnHello(s, toHub), toHub)
    BY <1>0, <1>1, <1>n DEF Connect, CountTypes
  <2>2. /\ Grows(toHub, toHub') /\ UNCHANGED <<held, overHere>>
        /\ linked' \in [Screen -> 0..MaxConn] /\ holedHere' \subseteq Screen
        /\ queued' \in [Screen -> Seq(Body)]
    <3>1. CASE OnHello(s, toHub)
      BY <1>0, <2>1, <3>1, HelloTypes DEF HubTypes
    <3>2. CASE toHub' = toHub /\ UNCHANGED daemon
      BY <1>0, <3>2, NothingSaid DEF HubTypes, daemon, DaemonTypes
    <3> QED BY <2>1, <3>1, <3>2 DEF Heard, Lost
  <2>3. /\ socket' \in [Screen -> 0..MaxConn] /\ holedUp' \subseteq Screen
        /\ holedDown' \subseteq Screen /\ down' \in [Screen -> Seq(PageMessage)]
    BY <1>0, <2>1 DEF RelayTypes, DownTypes
  <2>4. PageTypes'
    BY <1>0, <2>1, PageShapes DEF PageTypes
  <2>5. CountTypes'
    BY <1>0, <2>1 DEF CountTypes
  <2> QED BY <1>4, <2>1, <2>2, <2>3, <2>4, <2>5
<1>2. CASE PageDrop(s)
  <2>1. /\ UNCHANGED <<lease, over, holedUp, holedDown, down, net, late, strayed, grants,
                        presses, opened, downs>>
        /\ drops' = drops + 1 /\ drops + downs < MaxLoss
        /\ page' = Closed(s) /\ SocketClosed(s)
    BY <1>2 DEF PageDrop
  <2>2. /\ Grows(toHub, toHub') /\ UNCHANGED <<held, overHere>>
        /\ linked' \in [Screen -> 0..MaxConn] /\ holedHere' \subseteq Screen
        /\ queued' \in [Screen -> Seq(Body)]
        /\ socket' \in [Screen -> 0..MaxConn]
    BY <1>0, <2>1, SocketTypes
  <2>3. /\ holedUp' \subseteq Screen /\ holedDown' \subseteq Screen
        /\ down' \in [Screen -> Seq(PageMessage)]
    BY <1>0, <2>1 DEF RelayTypes, DownTypes
  <2>4. PageTypes'
    BY <1>0, <2>1, PageShapes DEF PageTypes
  <2>5. CountTypes'
    BY <1>0, <1>n, <2>1 DEF CountTypes
  <2> QED BY <1>4, <2>1, <2>2, <2>3, <2>4, <2>5
<1>3. CASE Press(s)
  <2>1. /\ UNCHANGED <<lease, over, socket, holedDown, net, late, strayed, page, grants,
                        opened, drops, downs>>
        /\ presses' = presses + 1 /\ presses < MaxPress
    BY <1>3 DEF Press
  <2>k. PICK kind \in {"claim", "release", "say"} : FromDevice(s, kind, page[s].fence, down)
    BY <1>3 DEF Press
  <2>2. /\ Grows(toHub, toHub') /\ UNCHANGED <<held, overHere>>
        /\ linked' \in [Screen -> 0..MaxConn] /\ holedHere' \subseteq Screen
        /\ queued' \in [Screen -> Seq(Body)]
        /\ holedUp' \subseteq Screen /\ down' \in [Screen -> Seq(PageMessage)]
    BY <1>0, <2>k, DeviceTypes DEF DownTypes
  <2>3. socket' \in [Screen -> 0..MaxConn] /\ holedDown' \subseteq Screen
    BY <1>0, <2>1 DEF RelayTypes
  <2>4. PageTypes'
    BY <1>0, <2>1 DEF PageTypes
  <2>5. CountTypes'
    BY <1>0, <1>n, <2>1 DEF CountTypes
  <2> QED BY <1>4, <2>1, <2>2, <2>3, <2>4, <2>5
<1> QED BY <1>1, <1>2, <1>3

LEMMA PageReadTypes ==
  ASSUME Types, NEW s \in Screen, PageReads(s)
  PROVE  Types' /\ SaysMore
<1>0. /\ RelayTypes /\ HubTypes /\ LateTypes /\ DownTypes /\ DaemonTypes /\ PageTypes
      /\ CountTypes
  BY DEF Types
<1> DEFINE m == Head(down[s])
           d == [down EXCEPT ![s] = Tail(down[s])]
           quiet == down' = d /\ UNCHANGED <<socket, holedUp, daemon, toHub>>
<1>1. /\ UNCHANGED <<lease, over, holedDown, net, late, strayed, grants, counts, downs>>
      /\ m \in PageMessage /\ d \in [Screen -> Seq(PageMessage)]
  BY <1>0 DEF PageReads, DownTypes, counts
<1>2. Known' = Known
  BY <1>1, SameLeases
<1>3. CountTypes'
  BY <1>0, <1>1 DEF CountTypes, counts
\* What is left to show of each case.
<1>4. ASSUME Grows(toHub, toHub'), UNCHANGED <<held, overHere>>,
             linked' \in [Screen -> 0..MaxConn], holedHere' \subseteq Screen,
             queued' \in [Screen -> Seq(Body)], socket' \in [Screen -> 0..MaxConn],
             holedUp' \subseteq Screen, down' \in [Screen -> Seq(PageMessage)], PageTypes'
      PROVE  Types' /\ SaysMore
  <2>1. HubTypes' /\ LateTypes'
    BY <1>0, <1>1, <1>4, Growing
  <2>2. RelayTypes' /\ DownTypes'
    BY <1>0, <1>1, <1>2, <1>4 DEF RelayTypes, DownTypes
  <2>3. DaemonTypes'
    BY <1>0, <1>1, <1>2, <1>4 DEF DaemonTypes
  <2>4. SaysMore
    BY <1>1, <1>4 DEF SaysMore
  <2> QED BY <1>3, <1>4, <2>1, <2>2, <2>3, <2>4 DEF Types
<1>5. ASSUME quiet, PageTypes' PROVE Types' /\ SaysMore
  <2>1. Grows(toHub, toHub')
    BY <1>0, <1>5, NothingSaid DEF HubTypes
  <2>2. /\ UNCHANGED <<held, overHere>>
        /\ linked' \in [Screen -> 0..MaxConn] /\ holedHere' \subseteq Screen
        /\ queued' \in [Screen -> Seq(Body)] /\ socket' \in [Screen -> 0..MaxConn]
        /\ holedUp' \subseteq Screen
    BY <1>0, <1>5 DEF daemon, DaemonTypes, RelayTypes
  <2> QED BY <1>1, <1>4, <1>5, <2>1, <2>2
<1>6. CASE page' = [page EXCEPT ![s].welcomed = TRUE]
           /\ FromDevice(s, "say", page[s].fence, d) /\ UNCHANGED socket
  <2>1. PageTypes'
    BY <1>0, <1>6, PageShapes DEF PageTypes
  <2>2. socket' \in [Screen -> 0..MaxConn]
    BY <1>0, <1>6 DEF RelayTypes
  <2>3. /\ Grows(toHub, toHub') /\ UNCHANGED <<held, overHere>>
        /\ linked' \in [Screen -> 0..MaxConn] /\ holedHere' \subseteq Screen
        /\ queued' \in [Screen -> Seq(Body)]
        /\ holedUp' \subseteq Screen /\ down' \in [Screen -> Seq(PageMessage)]
    BY <1>0, <1>1, <1>6, DeviceTypes
  <2> QED BY <1>4, <2>1, <2>2, <2>3
<1>7. CASE m.kind = "f" /\ page' = Told(s, m) /\ quiet
  <2>1. PageTypes'
    <3> DEFINE stamp == Stamped(s, m)
               f == m.body.fence
               high == IF f > stamp THEN f ELSE stamp
    <3>1. /\ stamp \in Nat /\ high \in Nat
          /\ m.body.shows \in {"reply", "nothing", "mine", "other"}
      BY <1>0, <1>1 DEF Stamped, PageMessage, Body, PageTypes, Page
    <3>2. page' = IF m.body.shows = "reply" THEN [page EXCEPT ![s].fence = stamp]
                  ELSE [page EXCEPT ![s].fence = high, ![s].shows = m.body.shows]
      BY <1>7 DEF Told
    <3> HIDE DEF stamp, high
    <3>3. CASE m.body.shows = "reply"
      BY <1>0, <3>1, <3>2, <3>3, PageShapes DEF PageTypes
    <3>4. CASE m.body.shows # "reply"
      <4>1. m.body.shows \in {"nothing", "mine", "other"}
        BY <3>1, <3>4
      <4> QED BY <1>0, <3>1, <3>2, <3>4, <4>1, PageShapes DEF PageTypes
    <3> QED BY <3>3, <3>4
  <2> QED BY <1>5, <1>7, <2>1
<1>8. CASE page' = Closed(s) /\ SocketClosed(s) /\ down' = d /\ UNCHANGED holedUp
  <2>1. PageTypes'
    BY <1>0, <1>8, PageShapes DEF PageTypes
  <2>2. holedUp' \subseteq Screen /\ down' \in [Screen -> Seq(PageMessage)]
    BY <1>0, <1>1, <1>8 DEF RelayTypes
  <2>3. /\ Grows(toHub, toHub') /\ UNCHANGED <<held, overHere>>
        /\ linked' \in [Screen -> 0..MaxConn] /\ holedHere' \subseteq Screen
        /\ queued' \in [Screen -> Seq(Body)]
        /\ socket' \in [Screen -> 0..MaxConn]
    BY <1>0, <1>8, SocketTypes
  <2> QED BY <1>4, <2>1, <2>2, <2>3
<1>9. CASE page' = [page EXCEPT ![s].fence = m.fence, ![s].shows = "other"] /\ quiet
  <2>1. m.fence \in Nat
    BY <1>1 DEF PageMessage
  <2>2. PageTypes'
    BY <1>0, <1>9, <2>1, PageShapes DEF PageTypes
  <2> QED BY <1>5, <1>9, <2>2
<1>10. CASE /\ page' = [Closed(s) EXCEPT ![s].fence = Stamped(s, m)] /\ SocketClosed(s)
            /\ down' = d /\ UNCHANGED holedUp
  <2>1. PageTypes'
    <3> DEFINE stamp == Stamped(s, m)
               half == Closed(s)
    <3>1. stamp \in Nat
      BY <1>0, <1>1 DEF Stamped, PageMessage, PageTypes, Page
    <3>2. half \in [Screen -> Page] /\ page' = [half EXCEPT ![s].fence = stamp]
      BY <1>0, <1>10, PageShapes DEF PageTypes
    <3> HIDE DEF stamp, half
    <3>3. [half[s] EXCEPT !.fence = stamp] \in Page
      BY <3>1, <3>2 DEF Page
    <3> QED BY <3>2, <3>3 DEF PageTypes
  <2>2. holedUp' \subseteq Screen /\ down' \in [Screen -> Seq(PageMessage)]
    BY <1>0, <1>1, <1>10 DEF RelayTypes
  <2>3. /\ Grows(toHub, toHub') /\ UNCHANGED <<held, overHere>>
        /\ linked' \in [Screen -> 0..MaxConn] /\ holedHere' \subseteq Screen
        /\ queued' \in [Screen -> Seq(Body)]
        /\ socket' \in [Screen -> 0..MaxConn]
    BY <1>0, <1>10, SocketTypes
  <2> QED BY <1>4, <2>1, <2>2, <2>3
<1>11. CASE UNCHANGED page /\ quiet
  <2>1. PageTypes'
    BY <1>0, <1>11 DEF PageTypes
  <2> QED BY <1>5, <1>11, <2>1
<1> HIDE DEF m, d, quiet
<1> QED BY <1>6, <1>7, <1>8, <1>9, <1>10, <1>11 DEF PageReads, m, d, quiet

\* A message is read: what is left, and who it was from.
LEMMA HeadTypes ==
  ASSUME NEW q \in Seq(Message), q # <<>>
  PROVE  /\ Head(q) \in Message /\ Tail(q) \in Seq(Message)
         /\ Head(q).stamp \in Known /\ Head(q).body \in Body
         /\ Head(q).kind # "state" => Head(q).s \in Screen
<1>1. Head(q) \in Message /\ Tail(q) \in Seq(Message)
  OBVIOUS
<1>2. \A m \in Message : /\ m.stamp \in Known /\ m.body \in Body
                         /\ m.kind # "state" => m.s \in Screen
  BY Shapes DEF Message, Kinds
<1> QED BY <1>1, <1>2

\* What the relay's handling of one message leaves: the queues are the callers'.
Handled ==
  /\ RelayTypes' /\ DownTypes' /\ DaemonTypes' /\ PageTypes' /\ CountTypes'
  /\ strayed' \in BOOLEAN /\ Message \subseteq Message'

LEMMA PassTypes ==
  ASSUME Types, NEW m \in Message, NEW rest \in Seq(Message), PassOn(m, rest),
         UNCHANGED <<over, holedUp, net, page, counts>>
  PROVE  Handled /\ toHub' = rest
<1>0. RelayTypes /\ LateTypes /\ DownTypes /\ DaemonTypes /\ PageTypes /\ CountTypes
  BY DEF Types
<1>1. /\ UNCHANGED <<lease, daemon, grants, strayed>> /\ toHub' = rest
      /\ m.kind \in {"welcome", "f", "close"}
  BY DEF PassOn
<1>2. m.s \in Screen /\ m.stamp \in Known /\ m.body \in Body /\ m.stamp.fence \in Nat
  BY <1>1, Shapes DEF Message, Kinds
<1>3. Known' = Known /\ Message' = Message
  BY <1>1, SameLeases
<1>4. /\ down' \in [Screen -> Seq(PageMessage)] /\ socket' \in [Screen -> 0..MaxConn]
      /\ holedDown' \subseteq Screen
  <2>1. CASE UNCHANGED <<socket, holedDown, down>>
    BY <1>0, <2>1 DEF RelayTypes, DownTypes
  <2>2. CASE /\ socket' = [socket EXCEPT ![m.s] = 0] /\ UNCHANGED holedDown
             /\ down' = [down EXCEPT ![m.s] =
                           Append(down[m.s], ToPage("gone", 0, TRUE, Reply))]
    <3>1. ToPage("gone", 0, TRUE, Reply) \in PageMessage
      BY Shapes, HandoffAssumption DEF ToPage, PageMessage
    <3>2. down' \in [Screen -> Seq(PageMessage)]
      BY <1>0, <1>2, <2>2, <3>1, PageIsTold DEF DownTypes
    <3>3. socket \in [Screen -> 0..MaxConn] /\ holedDown \subseteq Screen /\ 0 \in 0..MaxConn
      BY <1>0, HandoffAssumption DEF RelayTypes
    <3>4. socket' \in [Screen -> 0..MaxConn] /\ holedDown' \subseteq Screen
      BY <2>2, <3>3
    <3> QED BY <3>2, <3>4
  <2>3. CASE holedDown' = holedDown \cup {m.s} /\ UNCHANGED <<socket, down>>
    BY <1>0, <1>2, <2>3 DEF RelayTypes, DownTypes
  <2>4. CASE /\ m.kind # "close" /\ UNCHANGED <<socket, holedDown>>
             /\ down' = [down EXCEPT ![m.s] =
                  Append(down[m.s],
                         ToPage(m.kind, m.stamp.fence, m.s \notin holedDown, m.body))]
    <3>1. ToPage(m.kind, m.stamp.fence, m.s \notin holedDown, m.body) \in PageMessage
      BY <1>1, <1>2, <2>4 DEF ToPage, PageMessage
    <3>2. down' \in [Screen -> Seq(PageMessage)]
      BY <1>0, <1>2, <2>4, <3>1, PageIsTold DEF DownTypes
    <3> QED BY <1>0, <2>4, <3>2 DEF RelayTypes
  <2> QED BY <2>1, <2>2, <2>3, <2>4 DEF PassOn
<1>5. RelayTypes' /\ DownTypes'
  BY <1>0, <1>1, <1>2, <1>3, <1>4 DEF RelayTypes, DownTypes
<1>6. DaemonTypes' /\ PageTypes' /\ CountTypes'
  BY <1>0, <1>1, <1>3 DEF DaemonTypes, PageTypes, CountTypes, daemon, counts
<1>7. strayed' \in BOOLEAN
  BY <1>0, <1>1 DEF LateTypes
<1> QED BY <1>1, <1>3, <1>5, <1>6, <1>7 DEF Handled

\* The relay's answer to the daemon, its row being lease' now.
LEMMA AnswerTypes ==
  ASSUME Types, NEW rest \in Seq(Message), NEW kind, NEW of, of \in Known',
         Answer(kind, of, rest),
         Known \subseteq Known', Message \subseteq Message',
         lease' \in Known', lease' # NoLease => lease'.grant = grants',
         grants' \in Nat, grants' >= grants,
         UNCHANGED <<over, socket, holedUp, holedDown, down, net, page, counts>>
  PROVE  Handled /\ toHub' = rest
<1>0. RelayTypes /\ LateTypes /\ DownTypes /\ DaemonTypes /\ PageTypes /\ CountTypes
  BY DEF Types
<1>1. toHub' = rest
  BY DEF Answer, Lost, OnHandoff
<1>2. DaemonTypes'
  <2>1. CASE OnHandoff(kind, of, rest)
    <3>1. queued' \in [Screen -> Seq(Body)]
      <4>1. CASE kind = "refused"
        BY <1>0, <2>1, <4>1 DEF OnHandoff, DaemonTypes
      <4>2. CASE kind # "refused"
        <5>1. \A s \in Screen : Notice(s, of) \in Body
          BY HandoffAssumption DEF Notice, Body, Known, Lease, NoLease
        <5>2. queued' = [s \in Screen |-> IF linked[s] = 0 THEN queued[s]
                                          ELSE Append(queued[s], Notice(s, of))]
          BY <2>1, <4>2 DEF OnHandoff
        <5>3. \A s \in Screen : queued[s] \in Seq(Body)
                                /\ Append(queued[s], Notice(s, of)) \in Seq(Body)
          BY <1>0, <5>1 DEF DaemonTypes
        <5> QED BY <5>2, <5>3
      <4> QED BY <4>1, <4>2
    <3>2. /\ held' \in {held, of} /\ overHere' \subseteq overHere
          /\ UNCHANGED <<linked, holedHere>>
      BY <2>1 DEF OnHandoff
    <3>3. overHere' \subseteq 1..grants'
      BY <1>0, <3>2 DEF DaemonTypes, CountTypes
    <3> QED BY <1>0, <3>1, <3>2, <3>3 DEF DaemonTypes
  <2>2. CASE UNCHANGED daemon
    <3>1. overHere' \subseteq 1..grants'
      BY <1>0, <2>2 DEF daemon, DaemonTypes, CountTypes
    <3> QED BY <1>0, <2>2, <3>1 DEF daemon, DaemonTypes
  <2> QED BY <2>1, <2>2 DEF Answer, Lost
<1>3. RelayTypes'
  <2>1. over' \subseteq 1..grants'
    BY <1>0 DEF RelayTypes, CountTypes
  <2> QED BY <1>0, <2>1 DEF RelayTypes
<1>4. DownTypes' /\ PageTypes' /\ CountTypes'
  BY <1>0 DEF DownTypes, PageTypes, CountTypes, counts
<1>5. strayed' \in BOOLEAN
  BY <1>0 DEF Answer, LateTypes
<1> QED BY <1>1, <1>2, <1>3, <1>4, <1>5 DEF Handled

LEMMA ClaimTypes ==
  ASSUME Types, NEW m \in Message, NEW rest \in Seq(Message), Claim(m, rest),
         UNCHANGED <<over, holedUp, net, page, counts>>
  PROVE  Handled /\ toHub' = rest
<1>0. RelayTypes /\ CountTypes
  BY DEF Types
<1> DEFINE L == [holder |-> m.s, fence |-> lease.fence + 1, grant |-> grants + 1]
<1>1. /\ lease' = L /\ grants' = grants + 1 /\ m.kind = "claim"
      /\ Answer("claimed", lease', rest)
      /\ UNCHANGED <<socket, holedDown, down>>
  BY DEF Claim
<1>2. m.s \in Screen
  BY <1>1 DEF Message, Kinds
<1>3. grants \in Nat
  BY <1>0 DEF CountTypes
<1>4. lease.fence \in Nat /\ lease.fence <= grants
  BY <1>0, <1>3 DEF RelayTypes, Known, Lease, NoLease
<1>5. lease.fence + 1 \in 1..grants + 1 /\ grants + 1 \in 1..grants + 1
  BY <1>3, <1>4
<1>6. L \in Lease' /\ L.grant = grants + 1 /\ L.fence <= L.grant
  BY <1>1, <1>2, <1>3, <1>4, <1>5 DEF Lease
<1> HIDE DEF L
<1>7. lease' \in Known' /\ lease'.grant = grants'
  BY <1>1, <1>6 DEF Known
<1>8. Known \subseteq Known'
  <2> SUFFICES ASSUME NEW K \in Known, K # NoLease PROVE K \in Known'
    BY DEF Known
  <2>1. /\ K \in [holder : Screen, fence : 1..grants, grant : 1..grants]
        /\ K.fence <= K.grant /\ K.grant <= grants /\ K.grant \in Nat
    BY <1>3 DEF Known, Lease
  <2>2. K \in [holder : Screen, fence : 1..grants', grant : 1..grants']
    <3>1. 1..grants \subseteq 1..grants'
      BY <1>1, <1>3
    <3> QED BY <2>1, <3>1
  <2>3. K.grant # lease'.grant
    BY <1>1, <1>3, <1>7, <2>1
  <2> QED BY <2>1, <2>2, <2>3 DEF Known, Lease
<1>9. Message \subseteq Message'
  BY <1>8 DEF Message
<1>10. grants' \in Nat /\ grants' >= grants
  BY <1>1, <1>3
<1> QED BY <1>1, <1>7, <1>8, <1>9, <1>10, AnswerTypes

LEMMA ReleaseTypes ==
  ASSUME Types, NEW m \in Message, NEW rest \in Seq(Message), Release(m, rest),
         UNCHANGED <<over, holedUp, net, page, counts>>
  PROVE  Handled /\ toHub' = rest
<1>0. RelayTypes /\ CountTypes
  BY DEF Types
<1> DEFINE mine == lease.holder = m.s /\ lease.fence = m.stamp.fence
           kind == IF mine THEN "released" ELSE "refused"
<1>1. /\ lease' = IF mine THEN NoLease ELSE lease
      /\ UNCHANGED <<socket, holedDown, down, grants>>
      /\ Answer(kind, NoLease, rest)
  BY DEF Release
<1> HIDE DEF mine, kind
<1>2. grants \in Nat
  BY <1>0 DEF CountTypes
<1>3. /\ Known \subseteq Known' /\ NoLease \in Known'
      /\ lease' \in Known' /\ (lease' # NoLease => lease'.grant = grants')
  <2>1. CASE lease' = NoLease
    BY <1>1, <2>1 DEF Known, Lease
  <2>2. CASE lease' = lease
    BY <1>0, <1>1, <2>2, SameLeases DEF RelayTypes, Known
  <2> QED BY <1>1, <2>1, <2>2
<1>4. Message \subseteq Message'
  BY <1>3 DEF Message
<1> QED BY <1>1, <1>2, <1>3, <1>4, AnswerTypes

LEMMA StateTypes ==
  ASSUME Types, NEW m \in Message, NEW rest \in Seq(Message), State(m, rest),
         UNCHANGED <<over, holedUp, net, page, counts>>
  PROVE  Handled /\ toHub' = rest
<1>0. RelayTypes /\ CountTypes
  BY DEF Types
<1> DEFINE of == IF Live THEN lease ELSE NoLease
<1>1. /\ UNCHANGED <<lease, socket, holedDown, down, grants>>
      /\ Answer("state", of, rest)
  BY DEF State
<1>2. Known' = Known /\ Message' = Message
  BY <1>1, SameLeases
<1>3. of \in Known' /\ lease' \in Known' /\ (lease' # NoLease => lease'.grant = grants')
  BY <1>0, <1>1, <1>2, Shapes DEF RelayTypes
<1>4. grants \in Nat
  BY <1>0 DEF CountTypes
<1> HIDE DEF of
<1> QED BY <1>1, <1>2, <1>3, <1>4, AnswerTypes

LEMMA HubReadsTypes ==
  ASSUME Types, NEW m \in Message, NEW rest \in Seq(Message), HubReads(m, rest)
  PROVE  Handled /\ toHub' = rest /\ UNCHANGED <<net, downs>>
BY PassTypes, ClaimTypes, ReleaseTypes, StateTypes DEF HubReads, counts

LEMMA FromDaemonTypes ==
  ASSUME Types, FromDaemon
  PROVE  Types'
<1>0. HubTypes /\ LateTypes
  BY DEF Types
<1>1. /\ Head(toHub) \in Message /\ Tail(toHub) \in Seq(Message)
      /\ HubReads(Head(toHub), Tail(toHub)) /\ UNCHANGED late
  BY <1>0, HeadTypes DEF FromDaemon, HubTypes
<1>2. Handled /\ toHub' = Tail(toHub) /\ UNCHANGED <<net, downs>>
  BY <1>1, HubReadsTypes
<1>3. \A q \in Seq(Message) : q \in Seq(Message')
  BY <1>2, SeqMonotonic DEF Handled
<1>4. HubTypes'
  BY <1>1, <1>2, <1>3 DEF HubTypes
<1>5. LateTypes'
  BY <1>0, <1>1, <1>2, <1>3 DEF LateTypes, Handled
<1> QED BY <1>2, <1>4, <1>5 DEF Types, Handled

LEMMA FromReplacedTypes ==
  ASSUME Types, NEW k, FromReplaced(k)
  PROVE  Types'
<1>0. HubTypes /\ LateTypes
  BY DEF Types
<1>1. k \in DOMAIN late /\ late[k] # <<>> /\ late[k] \in Seq(Message)
  BY <1>0 DEF FromReplaced, LateTypes
<1>2. /\ Head(late[k]) \in Message /\ Tail(late[k]) \in Seq(Message)
      /\ toHub \in Seq(Message)
      /\ HubReads(Head(late[k]), toHub) /\ late' = [late EXCEPT ![k] = Tail(late[k])]
  BY <1>0, <1>1, HeadTypes DEF FromReplaced, HubTypes
<1>3. Handled /\ toHub' = toHub /\ UNCHANGED <<net, downs>>
  BY <1>2, HubReadsTypes
<1>4. \A q \in Seq(Message) : q \in Seq(Message')
  BY <1>3, SeqMonotonic DEF Handled
<1>5. HubTypes'
  BY <1>2, <1>3, <1>4 DEF HubTypes
<1>6. LateTypes'
  <2>1. DOMAIN late' = DOMAIN late /\ \A j \in DOMAIN late : late'[j] \in Seq(Message)
    BY <1>0, <1>1, <1>2 DEF LateTypes
  <2>2. late' = [j \in DOMAIN late |-> late'[j]]
    BY <1>2
  <2>3. late' \in [DOMAIN late' -> Seq(Message')]
    BY <1>4, <2>1, <2>2
  <2> QED BY <1>0, <1>3, <2>1, <2>3 DEF LateTypes, Handled
<1> QED BY <1>3, <1>5, <1>6 DEF Types, Handled

LEMMA PagesClosedTypes ==
  ASSUME Types, PagesClosed, net' \in {"up", "lost", "gone"}
  PROVE  /\ RelayTypes' /\ DownTypes' /\ DaemonTypes' /\ PageTypes'
         /\ UNCHANGED <<lease, grants, presses, opened, downs>>
<1>0. RelayTypes /\ DownTypes /\ DaemonTypes /\ PageTypes
  BY DEF Types
<1>1. /\ UNCHANGED <<lease, over, holedUp, holedDown, daemon, page, grants, presses,
                      opened, downs>>
      /\ socket' = [s \in Screen |-> 0]
  BY DEF PagesClosed
<1>2. Known' = Known
  BY <1>1, SameLeases
<1>3. down' \in [Screen -> Seq(PageMessage)]
  <2> DEFINE gone == ToPage("gone", 0, TRUE, Reply)
  <2>1. gone \in PageMessage
    BY Shapes, HandoffAssumption DEF ToPage, PageMessage
  <2>2. down' = [s \in Screen |-> IF socket[s] = 0 THEN down[s] ELSE Append(down[s], gone)]
    BY DEF PagesClosed
  <2> HIDE DEF gone
  <2>3. \A s \in Screen : /\ down[s] \in Seq(PageMessage)
                          /\ Append(down[s], gone) \in Seq(PageMessage)
    BY <1>0, <2>1 DEF DownTypes
  <2> QED BY <2>2, <2>3
<1>4. RelayTypes'
  BY <1>0, <1>1, <1>2, HandoffAssumption DEF RelayTypes
<1>5. DownTypes' /\ DaemonTypes' /\ PageTypes'
  BY <1>0, <1>1, <1>2, <1>3 DEF DownTypes, DaemonTypes, PageTypes, daemon
<1> QED BY <1>1, <1>4, <1>5

\* The link: a socket closes, or the daemon signs in.
LEMMA LinkTypes ==
  ASSUME Types, \/ DaemonGone \/ DialFails \/ LinkUp \/ Redial
                \/ \E k \in 1..MaxLoss : ReplacedClosed(k)
  PROVE  Types'
<1>0. /\ RelayTypes /\ HubTypes /\ LateTypes /\ DownTypes /\ DaemonTypes /\ PageTypes
      /\ CountTypes /\ MaxLoss \in Nat
  BY HandoffAssumption DEF Types
<1>1. UNCHANGED <<lease, grants>>
  BY DEF DaemonGone, DialFails, LinkUp, Redial, ReplacedClosed, PagesClosed, SignIn
<1>2. Known' = Known /\ Message' = Message
  BY <1>1, SameLeases
<1>3. CASE DaemonGone
  <2>1. /\ PagesClosed /\ net' = "gone" /\ toHub' = <<>> /\ UNCHANGED <<late, strayed, drops>>
    BY <1>3 DEF DaemonGone
  <2>2. /\ RelayTypes' /\ DownTypes' /\ DaemonTypes' /\ PageTypes'
        /\ UNCHANGED <<lease, grants, presses, opened, downs>>
    BY <2>1, PagesClosedTypes
  <2>3. HubTypes' /\ LateTypes' /\ CountTypes'
    BY <1>0, <1>2, <2>1, <2>2 DEF HubTypes, LateTypes, CountTypes
  <2> QED BY <2>2, <2>3 DEF Types
<1>4. CASE DialFails
  <2>1. /\ PagesClosed /\ UNCHANGED <<net, toHub, late, strayed>>
        /\ drops' = drops + 1 /\ drops + downs < MaxLoss /\ net \in {"up", "lost", "gone"}
    BY <1>0, <1>4 DEF DialFails, RelayTypes
  <2>2. /\ RelayTypes' /\ DownTypes' /\ DaemonTypes' /\ PageTypes'
        /\ UNCHANGED <<lease, grants, presses, opened, downs>>
    BY <2>1, PagesClosedTypes
  <2>3. HubTypes' /\ LateTypes' /\ CountTypes'
    BY <1>0, <1>2, <2>1, <2>2 DEF HubTypes, LateTypes, CountTypes
  <2> QED BY <2>2, <2>3 DEF Types
<1>5. CASE \E k \in 1..MaxLoss : ReplacedClosed(k)
  <2>1. PICK k \in 1..MaxLoss : ReplacedClosed(k)
    BY <1>5
  <2>2. /\ PagesClosed /\ UNCHANGED <<net, toHub, strayed, drops>>
        /\ late' = [j \in DOMAIN late \ {k} |-> late[j]] /\ net \in {"up", "lost", "gone"}
    BY <1>0, <2>1 DEF ReplacedClosed, Restrict, RelayTypes
  <2>3. /\ RelayTypes' /\ DownTypes' /\ DaemonTypes' /\ PageTypes'
        /\ UNCHANGED <<lease, grants, presses, opened, downs>>
    BY <2>2, PagesClosedTypes
  <2>4. HubTypes' /\ CountTypes'
    BY <1>0, <1>2, <2>2, <2>3 DEF HubTypes, CountTypes
  <2>5. LateTypes'
    BY <1>0, <1>2, <2>2, <2>3 DEF LateTypes
  <2> QED BY <2>3, <2>4, <2>5 DEF Types
<1>6. CASE LinkUp \/ Redial
  <2>1. /\ net' = "up" /\ strayed' = FALSE
        /\ toHub' = <<ToHub("state", "nobody", 0, NoLease, Reply)>>
        /\ UNCHANGED <<lease, over, socket, holedUp, holedDown, down, daemon, page,
                        grants, counts>>
    BY <1>6 DEF LinkUp, Redial, SignIn
  <2>2. HubTypes'
    <3>1. ToHub("state", "nobody", 0, NoLease, Reply) \in Message
      BY DEF ToHub, Message
    <3> QED BY <1>2, <2>1, <3>1 DEF HubTypes
  <2>3. RelayTypes' /\ DownTypes' /\ DaemonTypes' /\ PageTypes' /\ CountTypes'
    BY <1>0, <1>2, <2>1 DEF RelayTypes, DownTypes, DaemonTypes, PageTypes, CountTypes,
       daemon, counts
  <2>4. LateTypes'
    <3>1. CASE LinkUp
      BY <1>0, <1>2, <2>1, <3>1 DEF LinkUp, LateTypes, counts
    <3>2. CASE Redial
      <4>1. /\ late' = [k \in DOMAIN late \cup {downs} |-> IF k = downs THEN toHub ELSE late[k]]
            /\ downs # 0 /\ downs \in Nat
        BY <1>0, <3>2, HandoffAssumption DEF Redial, LateTypes, CountTypes
      <4>2. \A k \in DOMAIN late : late[k] \in Seq(Message)
        BY <1>0 DEF LateTypes
      <4>3. late' \in [DOMAIN late' -> Seq(Message)]
        BY <1>0, <4>1, <4>2 DEF HubTypes
      <4>4. DOMAIN late' \subseteq 1..downs
        BY <1>0, <4>1 DEF LateTypes
      <4> QED BY <1>2, <2>1, <4>3, <4>4 DEF LateTypes, counts
    <3> QED BY <1>6, <3>1, <3>2
  <2> QED BY <2>2, <2>3, <2>4 DEF Types
<1> QED BY <1>3, <1>4, <1>5, <1>6

LEMMA OtherTypes ==
  ASSUME Types, HubLapse \/ Flush \/ DaemonLapse \/ LinkLost \/ UNCHANGED vars
  PROVE  Types'
<1>0. /\ RelayTypes /\ HubTypes /\ LateTypes /\ DownTypes /\ DaemonTypes /\ PageTypes
      /\ CountTypes
  BY DEF Types
<1>1. UNCHANGED <<lease, late, strayed, grants>>
  BY DEF HubLapse, Flush, DaemonLapse, LinkLost, vars
<1>2. Known' = Known /\ Message' = Message
  BY <1>1, SameLeases
<1>3. CASE HubLapse
  <2>1. lease.grant \in 1..grants
    BY <1>0, <1>3 DEF HubLapse, Live, RelayTypes, Known, Lease, CountTypes
  <2>2. RelayTypes'
    BY <1>0, <1>1, <1>2, <1>3, <2>1 DEF HubLapse, RelayTypes
  <2> QED BY <1>0, <1>1, <1>2, <1>3, <2>2 DEF HubLapse, Types, HubTypes, LateTypes, DownTypes,
          DaemonTypes, PageTypes, CountTypes, counts, daemon
<1>4. CASE Flush
  <2>1. Emit(toHub, <<>>, queued, linked, <<>>) /\ UNCHANGED <<lease, grants, late, strayed,
                                                              net, downs>>
    BY <1>4 DEF Flush, counts
  <2>2. <<>> \in Seq(Message)
    OBVIOUS
  <2>3. Grows(toHub, toHub') /\ queued' \in [Screen -> Seq(Body)]
    BY <1>0, <2>1, <2>2, EmitTypes DEF DaemonTypes, HubTypes
  <2>4. HubTypes' /\ LateTypes'
    BY <1>0, <2>1, <2>3, Growing
  <2>5. RelayTypes' /\ DownTypes' /\ PageTypes' /\ CountTypes'
    BY <1>0, <1>2, <1>4 DEF Flush, RelayTypes, DownTypes, PageTypes, CountTypes, counts
  <2>6. DaemonTypes'
    BY <1>0, <1>2, <1>4, <2>3 DEF Flush, DaemonTypes
  <2> QED BY <2>4, <2>5, <2>6 DEF Types
<1>5. CASE DaemonLapse
  <2>1. held.grant \in 1..grants
    BY <1>0, <1>5 DEF DaemonLapse, LiveHere, DaemonTypes, Known, Lease, CountTypes
  <2>2. DaemonTypes'
    BY <1>0, <1>1, <1>2, <1>5, <2>1 DEF DaemonLapse, DaemonTypes
  <2> QED BY <1>0, <1>1, <1>2, <1>5, <2>2 DEF DaemonLapse, Types, HubTypes, LateTypes,
          DownTypes, RelayTypes, PageTypes, CountTypes, counts
<1>6. CASE LinkLost
  <2>1. DaemonTypes'
    BY <1>0, <1>2, <1>6, Shapes, HandoffAssumption DEF LinkLost, DaemonTypes
  <2>2. RelayTypes' /\ HubTypes' /\ DownTypes' /\ PageTypes'
    BY <1>0, <1>1, <1>2, <1>6 DEF LinkLost, RelayTypes, HubTypes, DownTypes, PageTypes
  <2>3. CountTypes' /\ downs' = downs + 1 /\ downs \in Nat
    BY <1>0, <1>6, HandoffAssumption DEF LinkLost, CountTypes
  <2>4. LateTypes'
    BY <1>0, <1>1, <1>2, <2>3 DEF LateTypes
  <2> QED BY <2>1, <2>2, <2>3, <2>4 DEF Types
<1>7. CASE UNCHANGED vars
  BY <1>0, <1>1, <1>2, <1>7 DEF vars, daemon, counts, Types, RelayTypes, HubTypes, LateTypes,
     DownTypes, DaemonTypes, PageTypes, CountTypes
<1> QED BY <1>3, <1>4, <1>5, <1>6, <1>7

LEMMA StepTypes ==
  ASSUME Types, [Next]_vars
  PROVE  Types'
BY PageStepTypes, PageReadTypes, FromDaemonTypes, FromReplacedTypes, LinkTypes, OtherTypes
   DEF Next

LEMMA InitTypes == Init => Types
<1> SUFFICES ASSUME Init PROVE Types
  OBVIOUS
<1>n. MaxConn \in Nat \ {0} /\ MaxPress \in Nat /\ MaxLoss \in Nat
  BY HandoffAssumption
<1>1. RelayTypes /\ DownTypes /\ HubTypes
  BY <1>n, Shapes DEF Init, RelayTypes, DownTypes, HubTypes
<1>2. DaemonTypes
  BY <1>n, Shapes DEF Init, DaemonTypes
<1>3. PageTypes /\ CountTypes
  BY <1>n DEF Init, PageTypes, Page, CountTypes
<1>4. LateTypes
  BY DEF Init, LateTypes
<1> QED BY <1>1, <1>2, <1>3, <1>4 DEF Types

-----------------------------------------------------------------------------
(* The daemon heeds the relay. *)

LEMMA SayingKeepsHeeded ==
  ASSUME HubTypes, Heeded, SaysMore
  PROVE  Heeded'
<1>1. PICK more \in Seq(Message) : toHub' = toHub \o more
  BY DEF SaysMore, Grows
<1>2. \A i \in 1..Len(toHub) : i \in 1..Len(toHub') /\ toHub'[i] = toHub[i]
  BY <1>1 DEF HubTypes
<1>3. NoState(toHub') => NoState(toHub)
  BY <1>2 DEF NoState
<1>4. UNCHANGED <<lease, over, net, held, strayed>> /\ Live' = Live
  BY DEF SaysMore, Live
<1>5. Heeded' = (net' = "up" /\ NoState(toHub') /\ ~strayed' =>
                   held' = lease' \/ (held' = NoLease /\ ~Live'))
  BY DEF Heeded, NoState
<1> QED BY <1>3, <1>4, <1>5 DEF Heeded

LEMMA StateLeft ==
  ASSUME HubTypes, toHub # <<>>, NoState(Tail(toHub)), Head(toHub).kind # "state"
  PROVE  NoState(toHub)
<1>1. /\ Len(toHub) \in Nat /\ Head(toHub) = toHub[1]
      /\ \A i \in 1..Len(toHub) :
           i # 1 => i - 1 \in 1..Len(Tail(toHub)) /\ toHub[i] = Tail(toHub)[i - 1]
  BY DEF HubTypes
<1> QED BY <1>1 DEF NoState

\* An answer that is heard leaves the daemon with the row, one that strays leaves that
\* on record, and a refusal changes nothing.
LEMMA ReadingKeepsHeeded ==
  ASSUME Heeded, NEW m, NEW rest, HubReads(m, rest),
         NoState(rest) /\ m.kind # "state" => NoState(toHub)
  PROVE  Heeded'
<1>0. UNCHANGED <<over, net>>
  BY DEF HubReads
<1> SUFFICES ASSUME net' = "up", NoState(toHub'), ~strayed'
             PROVE  held' = lease' \/ (held' = NoLease /\ ~Live')
  BY DEF Heeded, NoState
<1>1. net = "up"
  BY <1>0
<1>2. CASE PassOn(m, rest)
  <2>1. toHub' = rest /\ m.kind # "state" /\ UNCHANGED <<lease, held, strayed>>
    BY <1>2 DEF PassOn, daemon
  <2>2. NoState(toHub) /\ Live' = Live
    BY <1>0, <2>1 DEF Live
  <2> QED BY <1>1, <2>1, <2>2 DEF Heeded
<1>3. CASE Claim(m, rest)
  BY <1>1, <1>3 DEF Claim, Answer, OnHandoff
<1>4. CASE Release(m, rest)
  <2> DEFINE mine == lease.holder = m.s /\ lease.fence = m.stamp.fence
  <2>1. /\ m.kind = "release" /\ toHub' = rest
        /\ mine => lease' = NoLease /\ held' = NoLease
        /\ ~mine => UNCHANGED <<lease, held>> /\ ~strayed
    BY <1>1, <1>4 DEF Release, Answer, Lost, OnHandoff, daemon
  <2>2. NoState(toHub)
    BY <2>1
  <2>3. ~mine => Live' = Live
    BY <1>0, <2>1 DEF Live
  <2>4. mine => ~Live'
    BY <2>1 DEF Live
  <2> QED BY <1>1, <2>1, <2>2, <2>3, <2>4 DEF Heeded
<1>5. CASE State(m, rest)
  <2>1. held' = (IF Live THEN lease ELSE NoLease) /\ lease' = lease
    BY <1>1, <1>5 DEF State, Answer, OnHandoff
  <2>2. Live' = Live
    BY <1>0, <2>1 DEF Live
  <2> QED BY <2>1, <2>2
<1> QED BY <1>2, <1>3, <1>4, <1>5 DEF HubReads

LEMMA StepHeeds ==
  ASSUME Types, Heeded, [Next]_vars
  PROVE  Heeded'
<1>0. HubTypes
  BY DEF Types
<1>1. ASSUME NEW s \in Screen, Connect(s) \/ PageDrop(s) \/ Press(s) \/ PageReads(s)
      PROVE  Heeded'
  BY <1>0, <1>1, PageStepTypes, PageReadTypes, SayingKeepsHeeded
<1>2. CASE Flush
  <2>1. Emit(toHub, <<>>, queued, linked, <<>>)
    BY <1>2 DEF Flush
  <2>2. <<>> \in Seq(Message)
    OBVIOUS
  <2>3. Grows(toHub, toHub')
    BY <1>0, <2>1, <2>2, EmitTypes DEF Types, DaemonTypes, HubTypes
  <2> QED BY <1>0, <1>2, <2>3, SayingKeepsHeeded DEF Flush, SaysMore
<1>3. CASE HubLapse
  <2>1. /\ UNCHANGED <<lease, net, held, toHub, strayed>> /\ ~Live'
    BY <1>3 DEF HubLapse, daemon, Live
  <2>2. (held' = lease') = (held = lease) /\ (held' = NoLease) = (held = NoLease)
        /\ NoState(toHub') = NoState(toHub)
    BY <2>1
  <2> QED BY <1>3, <2>1, <2>2 DEF Heeded, HubLapse, NoState
<1>4. CASE DaemonLapse \/ UNCHANGED vars
  <2>1. UNCHANGED <<lease, over, net, held, toHub, strayed>>
    BY <1>4 DEF DaemonLapse, vars, daemon
  <2> QED BY <2>1 DEF Heeded, Live, NoState
<1>5. CASE LinkLost \/ DaemonGone
  BY <1>5 DEF LinkLost, DaemonGone, Heeded
<1>6. CASE LinkUp \/ Redial
  <2>1. ~NoState(toHub')
    BY <1>6 DEF LinkUp, Redial, SignIn, NoState, ToHub
  <2> QED BY <2>1 DEF Heeded, NoState
<1>7. CASE DialFails \/ \E k \in 1..MaxLoss : ReplacedClosed(k)
  <2>1. UNCHANGED <<lease, over, net, held, toHub, strayed>>
    BY <1>7 DEF DialFails, ReplacedClosed, PagesClosed, daemon
  <2> QED BY <2>1 DEF Heeded, Live, NoState
<1>8. CASE FromDaemon
  <2>1. NoState(Tail(toHub)) /\ Head(toHub).kind # "state" => NoState(toHub)
    BY <1>0, <1>8, StateLeft DEF FromDaemon
  <2> QED BY <1>8, <2>1, ReadingKeepsHeeded DEF FromDaemon
<1>9. ASSUME NEW k \in 1..MaxLoss, FromReplaced(k) PROVE Heeded'
  BY <1>9, ReadingKeepsHeeded DEF FromReplaced
<1> QED BY <1>1, <1>2, <1>3, <1>4, <1>5, <1>6, <1>7, <1>8, <1>9 DEF Next

(* The strengthening is inductive.                                         *)
THEOREM Inductive == Spec => []IInv
<1>1. Init => IInv
  BY InitTypes DEF Init, Heeded, IInv
<1>2. IInv /\ [Next]_vars => IInv'
  BY StepTypes, StepHeeds DEF IInv
<1> QED BY <1>1, <1>2, PTL DEF Spec

(* The state is of the shape the code keeps it in, and neither end has     *)
(* seen a lease lapse, or stamps a frame with one, that was not granted    *)
(* (leases.ts, core.rs).                                                   *)
THEOREM Shape == Spec => []TypeOK
<1>1. Types => TypeOK
  <2> SUFFICES ASSUME Types PROVE TypeOK
    OBVIOUS
  <2>0. RelayTypes /\ HubTypes /\ LateTypes /\ DaemonTypes /\ PageTypes /\ CountTypes
    BY DEF Types
  <2>1. {lease, held} \subseteq Lease
    BY <2>0, Shapes DEF RelayTypes, DaemonTypes
  <2>2. \A q \in {toHub} \cup Range(late) : \A i \in 1..Len(q) : q[i].stamp \in Lease
    <3>1. \A m \in Message : m.stamp \in Known
      BY Shapes DEF Message
    <3>2. \A q \in {toHub} \cup Range(late) : q \in Seq(Message)
      BY <2>0 DEF HubTypes, LateTypes, Range
    <3>3. \A q \in Seq(Message) : \A i \in 1..Len(q) : q[i] \in Message
      OBVIOUS
    <3> QED BY <3>1, <3>2, <3>3, Shapes
  <2>3. \A s \in Screen :
          /\ {socket[s], linked[s], page[s].conn} \subseteq 0..MaxConn
          /\ page[s].welcomed \in BOOLEAN /\ page[s].fence \in Nat
          /\ page[s].shows \in {"nothing", "mine", "other"}
    BY <2>0 DEF RelayTypes, DaemonTypes, PageTypes, Page
  <2> QED BY <2>0, <2>1, <2>2, <2>3 DEF TypeOK, RelayTypes, LateTypes, DaemonTypes, CountTypes
<1> QED BY <1>1, Inductive, PTL DEF IInv

(* As long as nobody has given the session back, a stamped frame the relay *)
(* passes on under a live lease was sealed under that very lease           *)
(* (relay.rs stamps it, hub.ts lets it through), on whichever of the       *)
(* daemon's sockets it came.                                               *)
THEOREM StampsAreCurrent == Spec => []StampIsCurrent
<1>1. Types => StampIsCurrent
  <2> SUFFICES ASSUME Types, NEW m \in Arriving, Passing(m), lease.fence = lease.grant
               PROVE  m.stamp = lease
    BY DEF StampIsCurrent
  <2> DEFINE L == m.stamp
  <2>0. RelayTypes /\ HubTypes /\ LateTypes
    BY DEF Types
  <2>1. L \in Known
    <3>1. PICK q \in ({toHub} \cup Range(late)) \ {<<>>} : m = Head(q)
      BY DEF Arriving
    <3>2. q \in Seq(Message) /\ q # <<>>
      BY <2>0, <3>1 DEF HubTypes, LateTypes, Range
    <3> QED BY <3>1, <3>2, HeadTypes
  <2>2. lease # NoLease /\ L # NoLease /\ ~(L.fence < lease.fence)
    BY DEF Passing, Live, Stale
  <2>3. /\ L \in Lease /\ L.fence <= L.grant /\ L.grant <= grants
        /\ L.grant = lease.grant => L = lease
    BY <2>1, <2>2 DEF Known, Lease
  <2>4. lease.grant = grants /\ lease \in Lease
    BY <2>0, <2>2, Shapes DEF RelayTypes
  <2>5. {L.fence, L.grant, lease.fence, lease.grant} \subseteq Nat
    BY <2>2, <2>3, <2>4 DEF Lease
  <2> QED BY <2>2, <2>3, <2>4, <2>5
<1> QED BY <1>1, Inductive, PTL DEF IInv

(* When nothing is on its way, the daemon knows the relay's live lease and *)
(* believes in no other: signing in it asks where the handoff stands, and  *)
(* every answer of the relay is the row of that moment (hub.ts, core.rs).  *)
(* Not so only if the relay said its last word on the lease into a socket  *)
(* of the daemon's that had been replaced.                                 *)
THEOREM Agrees == Spec => []Agreement
<1>1. Heeded => Agreement
  BY DEF Heeded, Agreement, AtRest, NoState, LiveHere
<1> QED BY <1>1, Inductive, PTL DEF IInv

-----------------------------------------------------------------------------
(* What is still to come to a screen. *)

\* A notice for screen s on its connection c.
Notifies(m, s, c) == m.kind = "f" /\ m.s = s /\ m.conn = c /\ m.body.shows # "reply"
Silent(h, s, c) == \A i \in 1..Len(h) : ~Notifies(h[i], s, c)

\* The last notice in h is of the lease L, and no fence behind it is on it.
Right(m, s, L) == m.body = Notice(s, L) /\ m.stamp \in {NoLease, L}
EndsRight(h, s, c, L) ==
  \A i \in 1..Len(h) : Notifies(h[i], s, c) =>
    \/ Right(h[i], s, L)
    \/ \E j \in 1..Len(h) : i < j /\ Notifies(h[j], s, c)

\* What waits for s, as it will be sealed.
Block(s, q, c, stamp) == [i \in 1..Len(q) |-> ToHub("f", s, c, stamp, q[i])]

\* All that is still to come to s from the daemon's side: on its way, and waiting.
Word(s) == toHub \o Block(s, queued[s], linked[s], NoLease)

LEMMA SilentJoin ==
  ASSUME NEW S, NEW x \in Seq(S), NEW y \in Seq(S), NEW s, NEW c
  PROVE  Silent(x \o y, s, c) <=> Silent(x, s, c) /\ Silent(y, s, c)
<1>1. /\ Len(x) \in Nat /\ Len(y) \in Nat /\ Len(x \o y) = Len(x) + Len(y)
      /\ \A i \in 1..Len(x) : i \in 1..Len(x \o y) /\ (x \o y)[i] = x[i]
      /\ \A i \in 1..Len(y) : Len(x) + i \in 1..Len(x \o y) /\ (x \o y)[Len(x) + i] = y[i]
  OBVIOUS
<1>2. \A i \in 1..Len(x \o y) : i \in 1..Len(x) \/ i - Len(x) \in 1..Len(y)
  BY <1>1
<1>3. \A i \in 1..Len(x \o y) : i - Len(x) \in 1..Len(y) => (x \o y)[i] = y[i - Len(x)]
  BY <1>1
<1> QED BY <1>1, <1>2, <1>3 DEF Silent

LEMMA EndsJoin ==
  ASSUME NEW S, NEW x \in Seq(S), NEW y \in Seq(S), NEW s, NEW c, NEW L
  PROVE  /\ Silent(y, s, c) => (EndsRight(x \o y, s, c, L) <=> EndsRight(x, s, c, L))
         /\ ~Silent(y, s, c) => (EndsRight(x \o y, s, c, L) <=> EndsRight(y, s, c, L))
<1> DEFINE h == x \o y
           n == Len(x)
<1>1. /\ n \in Nat /\ Len(y) \in Nat /\ Len(h) = n + Len(y)
      /\ \A i \in 1..n : i \in 1..Len(h) /\ h[i] = x[i]
      /\ \A i \in 1..Len(y) : n + i \in 1..Len(h) /\ h[n + i] = y[i]
  OBVIOUS
<1>2. \A i \in 1..Len(h) : \/ i \in 1..n /\ h[i] = x[i]
                           \/ \E k \in 1..Len(y) : i = n + k /\ h[i] = y[k]
  <2> SUFFICES ASSUME NEW i \in 1..Len(h), i \notin 1..n
               PROVE  \E k \in 1..Len(y) : i = n + k /\ h[i] = y[k]
    BY <1>1
  <2>1. i - n \in 1..Len(y) /\ i = n + (i - n)
    BY <1>1
  <2> HIDE DEF h
  <2> QED BY <1>1, <2>1
<1> HIDE DEF h, n
<1>3. ASSUME Silent(y, s, c) PROVE EndsRight(h, s, c, L) <=> EndsRight(x, s, c, L)
  <2>1. \A i \in 1..Len(h) : Notifies(h[i], s, c) => i \in 1..n /\ h[i] = x[i]
    BY <1>2, <1>3 DEF Silent
  <2> QED BY <1>1, <2>1 DEF EndsRight, n
<1>4. ASSUME ~Silent(y, s, c) PROVE EndsRight(h, s, c, L) <=> EndsRight(y, s, c, L)
  <2>1. PICK k \in 1..Len(y) : Notifies(y[k], s, c)
    BY <1>4 DEF Silent
  <2>2. ASSUME EndsRight(h, s, c, L), NEW i \in 1..Len(y), Notifies(y[i], s, c),
               ~Right(y[i], s, L)
        PROVE  \E j \in 1..Len(y) : i < j /\ Notifies(y[j], s, c)
    <3>1. n + i \in 1..Len(h) /\ h[n + i] = y[i]
      BY <1>1
    <3>2. PICK j \in 1..Len(h) : n + i < j /\ Notifies(h[j], s, c)
      BY <2>2, <3>1 DEF EndsRight
    <3>3. j \notin 1..n
      BY <1>1, <3>2
    <3>4. PICK l \in 1..Len(y) : j = n + l /\ h[j] = y[l]
      BY <1>2, <3>3
    <3>5. i < l
      BY <1>1, <3>2, <3>4
    <3> QED BY <3>2, <3>4, <3>5
  <2>3. ASSUME EndsRight(y, s, c, L), NEW i \in 1..Len(h), Notifies(h[i], s, c),
               ~Right(h[i], s, L)
        PROVE  \E j \in 1..Len(h) : i < j /\ Notifies(h[j], s, c)
    <3>1. CASE i \in 1..n
      <4>1. n + k \in 1..Len(h) /\ h[n + k] = y[k] /\ i < n + k
        BY <1>1, <3>1
      <4> QED BY <2>1, <4>1
    <3>2. CASE i \notin 1..n
      <4>1. PICK l \in 1..Len(y) : i = n + l /\ h[i] = y[l]
        BY <1>2, <3>2
      <4>2. PICK j \in 1..Len(y) : l < j /\ Notifies(y[j], s, c)
        BY <2>3, <4>1 DEF EndsRight
      <4>3. n + j \in 1..Len(h) /\ h[n + j] = y[j] /\ i < n + j
        BY <1>1, <4>1, <4>2
      <4> QED BY <4>2, <4>3
    <3> QED BY <3>1, <3>2
  <2> QED BY <2>2, <2>3 DEF EndsRight
<1> QED BY <1>3, <1>4 DEF h

LEMMA SilentEnds ==
  ASSUME NEW h, NEW s, NEW c, NEW L, Silent(h, s, c)
  PROVE  EndsRight(h, s, c, L)
BY DEF Silent, EndsRight

\* Reading the first message.
LEMMA WordLeft ==
  ASSUME NEW S, NEW h \in Seq(S), h # <<>>, NEW s, NEW c, NEW L
  PROVE  /\ EndsRight(h, s, c, L) => EndsRight(Tail(h), s, c, L)
         /\ ~Notifies(Head(h), s, c) => (Silent(Tail(h), s, c) <=> Silent(h, s, c))
         /\ Notifies(Head(h), s, c) /\ EndsRight(h, s, c, L) /\ Silent(Tail(h), s, c)
              => Right(Head(h), s, L)
<1> DEFINE x == <<Head(h)>>
           y == Tail(h)
<1>1. x \in Seq(S) /\ y \in Seq(S) /\ h = x \o y /\ Len(x) = 1 /\ x[1] = Head(h)
  OBVIOUS
<1> HIDE DEF x, y
<1>2. Silent(h, s, c) <=> Silent(x, s, c) /\ Silent(y, s, c)
  BY <1>1, SilentJoin
<1>3. /\ Silent(y, s, c) => (EndsRight(h, s, c, L) <=> EndsRight(x, s, c, L))
      /\ ~Silent(y, s, c) => (EndsRight(h, s, c, L) <=> EndsRight(y, s, c, L))
  BY <1>1, EndsJoin
<1>4. Silent(x, s, c) <=> ~Notifies(Head(h), s, c)
  BY <1>1 DEF Silent
<1>5. Notifies(Head(h), s, c) /\ EndsRight(x, s, c, L) => Right(Head(h), s, L)
  <2>1. ~(\E j \in 1..Len(x) : 1 < j)
    BY <1>1
  <2> QED BY <1>1, <2>1 DEF EndsRight
<1> QED BY <1>2, <1>3, <1>4, <1>5, SilentEnds DEF y


LEMMA BlockIs ==
  ASSUME NEW s \in Screen, NEW q \in Seq(Body), NEW c \in 0..MaxConn, NEW stamp \in Known
  PROVE  /\ Block(s, q, c, stamp) \in Seq(Message) /\ Block(s, q, c, stamp) \in Seq(Frames)
         /\ Len(Block(s, q, c, stamp)) = Len(q)
         /\ \A i \in 1..Len(q) : Block(s, q, c, stamp)[i] = ToHub("f", s, c, stamp, q[i])
<1>1. Len(q) \in Nat /\ \A i \in 1..Len(q) : q[i] \in Body
  OBVIOUS
<1>2. \A i \in 1..Len(q) : ToHub("f", s, c, stamp, q[i]) \in Frames
  BY <1>1, Shapes DEF Frames, Kinds
<1>3. \A i \in 1..Len(q) : ToHub("f", s, c, stamp, q[i]) \in Message
  BY <1>2 DEF Frames
<1> QED BY <1>1, <1>2, <1>3 DEF Block

\* Which stamp is on it matters to nothing as long as it is not of another lease.
LEMMA BlockStamps ==
  ASSUME NEW s \in Screen, NEW q \in Seq(Body), NEW c \in 0..MaxConn, NEW stamp \in Known,
         NEW L, stamp \in {NoLease, L}
  PROVE  /\ Silent(Block(s, q, c, stamp), s, c) <=> Silent(Block(s, q, c, NoLease), s, c)
         /\ EndsRight(Block(s, q, c, stamp), s, c, L)
              <=> EndsRight(Block(s, q, c, NoLease), s, c, L)
<1> DEFINE x == Block(s, q, c, stamp)
           y == Block(s, q, c, NoLease)
<1>1. /\ Len(x) = Len(q) /\ \A i \in 1..Len(q) : x[i] = ToHub("f", s, c, stamp, q[i])
      /\ Len(y) = Len(q) /\ \A i \in 1..Len(q) : y[i] = ToHub("f", s, c, NoLease, q[i])
  BY BlockIs, Shapes
<1> HIDE DEF x, y
<1>2. \A i \in 1..Len(q) : /\ Notifies(x[i], s, c) <=> Notifies(y[i], s, c)
                           /\ Right(x[i], s, L) <=> Right(y[i], s, L)
  <2> TAKE i \in 1..Len(q)
  <2>1. /\ x[i].kind = "f" /\ x[i].s = s /\ x[i].conn = c /\ x[i].body = q[i]
        /\ x[i].stamp = stamp
        /\ y[i].kind = "f" /\ y[i].s = s /\ y[i].conn = c /\ y[i].body = q[i]
        /\ y[i].stamp = NoLease
    <3>1. \A st, b : /\ ToHub("f", s, c, st, b).kind = "f" /\ ToHub("f", s, c, st, b).s = s
                     /\ ToHub("f", s, c, st, b).conn = c /\ ToHub("f", s, c, st, b).body = b
                     /\ ToHub("f", s, c, st, b).stamp = st
      BY DEF ToHub
    <3> QED BY <1>1, <3>1
  <2> QED BY <2>1 DEF Notifies, Right
<1>3. Silent(x, s, c) <=> Silent(y, s, c)
  BY <1>1, <1>2 DEF Silent
<1>4. EndsRight(x, s, c, L) <=> EndsRight(y, s, c, L)
  BY <1>1, <1>2 DEF EndsRight
<1> QED BY <1>3, <1>4 DEF x, y

LEMMA BlockJoins ==
  \A s, c, stamp : \A q, r \in Seq(Body) :
    Block(s, q \o r, c, stamp) = Block(s, q, c, stamp) \o Block(s, r, c, stamp)
<1> TAKE s, c, stamp
<1> TAKE q, r \in Seq(Body)
<1> DEFINE F(b) == ToHub("f", s, c, stamp, b)
           x == [i \in 1..Len(q) |-> F(q[i])]
           y == [i \in 1..Len(r) |-> F(r[i])]
<1>1. /\ Len(q) \in Nat /\ Len(r) \in Nat /\ Len(q \o r) = Len(q) + Len(r)
      /\ \A i \in 1..Len(q \o r) : (q \o r)[i] = IF i <= Len(q) THEN q[i] ELSE r[i - Len(q)]
  OBVIOUS
<1> HIDE DEF F
<1>2. x \o y = [i \in 1..(Len(q) + Len(r)) |->
                  IF i <= Len(q) THEN F(q[i]) ELSE F(r[i - Len(q)])]
  BY <1>1
<1>3. [i \in 1..Len(q \o r) |-> F((q \o r)[i])] = x \o y
  BY <1>1, <1>2
<1> QED BY <1>3 DEF Block, F

LEMMA EmptyBlock == \A s, c, stamp : Block(s, <<>>, c, stamp) = <<>>
BY DEF Block

-----------------------------------------------------------------------------
(* Sealing. *)

Others(s) == {m \in Frames : m.s # s}

LEMMA OthersAreSilent ==
  ASSUME NEW s, NEW c, NEW h \in Seq(Others(s))
  PROVE  Silent(h, s, c)
<1>1. \A i \in 1..Len(h) : h[i] \in Others(s)
  OBVIOUS
<1> QED BY <1>1 DEF Others, Silent, Notifies

\* In what the daemon seals, what waits for a screen is one piece.
LEMMA SealedHas ==
  ASSUME DaemonTypes, NEW q \in [Screen -> Seq(Body)], NEW conns \in [Screen -> 0..MaxConn],
         NEW frames \in Sealed(q, conns), NEW s \in Screen
  PROVE  Between(Others(s), Block(s, q[s], conns[s], Stamp), frames)
<1> DEFINE of(t) == Block(t, q[t], conns[t], Stamp)
           waiting == {t \in Screen : q[t] # <<>>}
           D == 1..Cardinality(waiting)
<1>1. PICK o \in SetToSeqs(waiting) : frames = FlattenSeq([i \in DOMAIN o |-> of(o[i])])
  BY DEF Sealed, Block
<1>2. \A t \in Screen : of(t) \in Seq(Frames) /\ (t # s => of(t) \in Seq(Others(s)))
  <2> SUFFICES ASSUME NEW t \in Screen
               PROVE  of(t) \in Seq(Frames) /\ (t # s => of(t) \in Seq(Others(s)))
    OBVIOUS
  <2>1. Stamp \in Known /\ q[t] \in Seq(Body) /\ conns[t] \in 0..MaxConn
    BY StampIsKnown
  <2>2. /\ of(t) \in Seq(Frames) /\ Len(of(t)) = Len(q[t]) /\ Len(q[t]) \in Nat
        /\ \A i \in 1..Len(q[t]) : of(t)[i] = ToHub("f", t, conns[t], Stamp, q[t][i])
    BY <2>1, BlockIs
  <2> HIDE DEF of
  <2>3. ASSUME t # s PROVE of(t) \in Seq(Others(s))
    <3>1. \A i \in 1..Len(of(t)) : of(t)[i] \in Others(s)
      <4> SUFFICES ASSUME NEW i \in 1..Len(of(t)) PROVE of(t)[i] \in Others(s)
        OBVIOUS
      <4>1. of(t)[i] \in Frames
        BY <2>2
      <4>2. of(t)[i] = ToHub("f", t, conns[t], Stamp, q[t][i])
        BY <2>2
      <4>3. of(t)[i].s = t
        BY <4>2 DEF ToHub
      <4> QED BY <2>3, <4>1, <4>3 DEF Others
    <3> QED BY <2>2, <3>1
  <2> QED BY <2>2, <2>3
<1> HIDE DEF of
<1>3. /\ IsFiniteSet(waiting) /\ Cardinality(waiting) \in Nat
      /\ o \in [D -> waiting] /\ \A i, j \in D : i # j => o[i] # o[j]
  BY <1>1, HandoffAssumption, FS_Subset, FS_CardinalityType DEF SetToSeqs
<1> DEFINE ss == [i \in D |-> of(o[i])]
<1>4. /\ ss \in Seq(Seq(Frames)) /\ Len(ss) = Cardinality(waiting)
      /\ \A i \in D : ss[i] = of(o[i])
      /\ frames = FlattenSeq(ss)
  <2>1. ss \in [D -> Seq(Frames)] /\ DOMAIN o = D /\ \A i \in D : ss[i] = of(o[i])
    BY <1>2, <1>3
  <2>2. frames = FlattenSeq(ss)
    BY <1>1, <2>1
  <2> HIDE DEF ss, waiting
  <2>3. ss \in Seq(Seq(Frames)) /\ Len(ss) = Cardinality(waiting)
    BY <1>3, <2>1, IndexedIsSequence
  <2> QED BY <2>1, <2>2, <2>3
<1>5. Others(s) \subseteq Frames
  BY DEF Others
<1>6. CASE s \in waiting
  <2>1. PICK k \in D : o[k] = s
    <3>1. o \in Injection(D, waiting)
      BY <1>3 DEF Injection, IsInjective
    <3>2. IsFiniteSet(D) /\ Cardinality(D) = Cardinality(waiting)
      BY <1>3, FS_Interval
    <3>3. o \in Surjection(D, waiting)
      <4> HIDE DEF D, waiting
      <4> QED BY <1>3, <3>1, <3>2, FS_Injection
    <3> QED BY <1>6, <3>3 DEF Surjection
  <2>2. k \in 1..Len(ss) /\ ss[k] = of(s)
    BY <1>4, <2>1
  <2>3. \A i \in 1..Len(ss) : i # k => ss[i] \in Seq(Others(s))
    <3> SUFFICES ASSUME NEW i \in D, i # k PROVE ss[i] \in Seq(Others(s))
      BY <1>4
    <3>1. o[i] \in Screen /\ o[i] # s
      BY <1>3, <2>1
    <3> QED BY <1>2, <1>4, <3>1
  <2> HIDE DEF ss
  <2>4. Between(Others(s), ss[k], FlattenSeq(ss))
    BY <1>4, <1>5, <2>2, <2>3, FlattenAround
  <2> QED BY <1>4, <2>2, <2>4 DEF of
<1>7. CASE s \notin waiting
  <2>1. Block(s, q[s], conns[s], Stamp) = <<>>
    BY <1>7, EmptyBlock
  <2>2. \A i \in D : ss[i] \in Seq(Others(s))
    <3> SUFFICES ASSUME NEW i \in D PROVE ss[i] \in Seq(Others(s))
      OBVIOUS
    <3>1. o[i] \in Screen /\ o[i] # s
      BY <1>3, <1>7
    <3> QED BY <1>2, <1>4, <3>1
  <2>3. ss \in Seq(Seq(Others(s)))
    <3>1. ss \in [D -> Seq(Others(s))]
      BY <2>2
    <3> HIDE DEF ss, waiting
    <3> QED BY <1>3, <3>1, IndexedIsSequence
  <2> HIDE DEF ss
  <2>4. frames \in Seq(Others(s))
    BY <1>4, <2>3, FlattenIsSequence
  <2>5. <<>> \in Seq(Frames) /\ frames \o <<>> = frames
    BY <2>4, ConcatEmptySeq
  <2>6. Between(Others(s), <<>>, frames \o <<>>)
    BY <1>5, <2>4, <2>5, BetweenBegins
  <2> QED BY <2>1, <2>5, <2>6
<1> QED BY <1>6, <1>7

Unsaid == {m \in Message : m.kind # "f"}

LEMMA UnsaidIsSilent ==
  ASSUME NEW h \in Seq(Unsaid), NEW s, NEW c
  PROVE  Silent(h, s, c) /\ h \in Seq(Message)
<1>1. \A i \in 1..Len(h) : h[i] \in Unsaid
  OBVIOUS
<1> QED BY <1>1 DEF Unsaid, Silent, Notifies

\* Sealing and sending leaves what is still to come to a screen as it is.
LEMMA EmitSays ==
  ASSUME DaemonTypes, NEW q \in [Screen -> Seq(Body)], NEW conns \in [Screen -> 0..MaxConn],
         NEW rest \in Seq(Message), NEW first \in Seq(Unsaid), NEW asks \in Seq(Unsaid),
         Emit(rest, first, q, conns, asks), NEW s \in Screen, NEW c, conns[s] = c
  PROVE  LET word == rest \o Block(s, q[s], c, NoLease)
         IN  /\ Silent(toHub', s, c) <=> Silent(word, s, c)
             /\ EndsRight(toHub', s, c, held) <=> EndsRight(word, s, c, held)
<1> DEFINE x == Block(s, q[s], c, Stamp)
           y == Block(s, q[s], c, NoLease)
<1>1. PICK frames \in Sealed(q, conns) : toHub' = rest \o first \o frames \o asks
  BY DEF Emit
<1>2. Stamp \in Known /\ Stamp \in {NoLease, held} /\ q[s] \in Seq(Body) /\ c \in 0..MaxConn
      /\ NoLease \in Known
  BY StampIsKnown, Shapes DEF Stamp
<1>3. x \in Seq(Frames) /\ x \in Seq(Message) /\ y \in Seq(Message)
  BY <1>2, BlockIs
<1>4. PICK a, b \in Seq(Others(s)) : frames = (a \o x) \o b
  BY SealedHas DEF Between
<1>5. /\ Silent(a, s, c) /\ Silent(b, s, c) /\ a \in Seq(Message) /\ b \in Seq(Message)
  <2>1. Others(s) \subseteq Message
    BY DEF Others, Frames
  <2>2. a \in Seq(Message) /\ b \in Seq(Message)
    BY <2>1
  <2> QED BY <2>2, OthersAreSilent
<1>6. Silent(first, s, c) /\ Silent(asks, s, c) /\ first \in Seq(Message) /\ asks \in Seq(Message)
  BY UnsaidIsSilent
<1>7. /\ Silent(x, s, c) <=> Silent(y, s, c)
      /\ EndsRight(x, s, c, held) <=> EndsRight(y, s, c, held)
  BY <1>2, BlockStamps
<1> HIDE DEF x, y
<1> DEFINE ax == a \o x
           f == ax \o b
           r == rest \o first
           rf == r \o f
           all == rf \o asks
           word == rest \o y
<1>8. ax \in Seq(Message)
  BY <1>3, <1>5
<1>9. /\ Silent(ax, s, c) <=> Silent(x, s, c)
      /\ EndsRight(ax, s, c, held) <=> EndsRight(x, s, c, held)
  <2>1. Silent(ax, s, c) <=> Silent(a, s, c) /\ Silent(x, s, c)
    BY <1>3, <1>5, SilentJoin
  <2>2. /\ Silent(x, s, c) => (EndsRight(ax, s, c, held) <=> EndsRight(a, s, c, held))
        /\ ~Silent(x, s, c) => (EndsRight(ax, s, c, held) <=> EndsRight(x, s, c, held))
    BY <1>3, <1>5, EndsJoin
  <2> HIDE DEF ax
  <2> QED BY <1>5, <2>1, <2>2, SilentEnds
<1> HIDE DEF ax
<1>10. f \in Seq(Message)
  BY <1>5, <1>8
<1>11. /\ Silent(f, s, c) <=> Silent(x, s, c)
       /\ EndsRight(f, s, c, held) <=> EndsRight(x, s, c, held)
  <2>1. Silent(f, s, c) <=> Silent(ax, s, c) /\ Silent(b, s, c)
    BY <1>5, <1>8, SilentJoin
  <2>2. Silent(b, s, c) => (EndsRight(f, s, c, held) <=> EndsRight(ax, s, c, held))
    BY <1>5, <1>8, EndsJoin
  <2> HIDE DEF f
  <2> QED BY <1>5, <1>9, <2>1, <2>2
<1>12. r \in Seq(Message)
  BY <1>6
<1>13. /\ Silent(r, s, c) <=> Silent(rest, s, c)
       /\ EndsRight(r, s, c, held) <=> EndsRight(rest, s, c, held)
  <2>1. Silent(r, s, c) <=> Silent(rest, s, c) /\ Silent(first, s, c)
    BY <1>6, SilentJoin
  <2>2. Silent(first, s, c) => (EndsRight(r, s, c, held) <=> EndsRight(rest, s, c, held))
    BY <1>6, EndsJoin
  <2> HIDE DEF r
  <2> QED BY <1>6, <2>1, <2>2
<1>14. toHub' = all
  BY <1>1, <1>4 DEF ax
<1> HIDE DEF f, r
<1>15. rf \in Seq(Message)
  BY <1>10, <1>12
<1>16. Silent(rf, s, c) <=> Silent(r, s, c) /\ Silent(f, s, c)
  BY <1>10, <1>12, SilentJoin
<1>17. /\ Silent(f, s, c) => (EndsRight(rf, s, c, held) <=> EndsRight(r, s, c, held))
       /\ ~Silent(f, s, c) => (EndsRight(rf, s, c, held) <=> EndsRight(f, s, c, held))
  BY <1>10, <1>12, EndsJoin
<1> HIDE DEF rf
<1>18. Silent(all, s, c) <=> Silent(rf, s, c) /\ Silent(asks, s, c)
  BY <1>6, <1>15, SilentJoin
<1>19. Silent(asks, s, c) => (EndsRight(all, s, c, held) <=> EndsRight(rf, s, c, held))
  BY <1>6, <1>15, EndsJoin
<1> HIDE DEF all
<1>20. Silent(word, s, c) <=> Silent(rest, s, c) /\ Silent(y, s, c)
  BY <1>3, SilentJoin
<1>21. /\ Silent(y, s, c) => (EndsRight(word, s, c, held) <=> EndsRight(rest, s, c, held))
       /\ ~Silent(y, s, c) => (EndsRight(word, s, c, held) <=> EndsRight(y, s, c, held))
  BY <1>3, EndsJoin
<1> HIDE DEF word
<1>22. Silent(all, s, c) <=> Silent(word, s, c)
  BY <1>6, <1>7, <1>11, <1>13, <1>16, <1>18, <1>20
<1>23. EndsRight(all, s, c, held) <=> EndsRight(word, s, c, held)
  BY <1>6, <1>7, <1>11, <1>13, <1>17, <1>19, <1>21
<1> QED BY <1>14, <1>22, <1>23 DEF word, y

-----------------------------------------------------------------------------
(* What the daemon's handlers leave of it. *)

\* A step of the daemon that has no news of the lease: what is still to come to s ends
\* as it did, no notice that was coming on its connection is lost, and a screen that
\* does not drive is sent none that was not.
TalkKept(s) ==
  /\ /\ linked'[s] # 0
     /\ linked[s] # 0 => EndsRight(Word(s), s, linked[s], held)
     => EndsRight(Word(s)', s, linked'[s], held)
  /\ /\ linked'[s] = linked[s] /\ linked[s] # 0
     /\ Silent(Word(s)', s, linked[s])
     => Silent(Word(s), s, linked[s])
  /\ /\ Live /\ lease.holder # s /\ linked'[s] # 0
     /\ linked'[s] = linked[s] => Silent(Word(s), s, linked[s])
     => Silent(Word(s)', s, linked'[s])

LEMMA SameTalk ==
  ASSUME NEW s \in Screen, toHub' = toHub, queued'[s] = queued[s], linked'[s] = linked[s]
  PROVE  TalkKept(s)
<1>1. Word(s)' = Word(s)
  BY DEF Word
<1> QED BY <1>1 DEF TalkKept

LEMMA EmitWord ==
  ASSUME DaemonTypes, HubTypes, NEW q \in [Screen -> Seq(Body)],
         NEW conns \in [Screen -> 0..MaxConn],
         NEW first \in Seq(Unsaid), NEW asks \in Seq(Unsaid),
         Emit(toHub, first, q, conns, asks), NEW s \in Screen
  PROVE  LET c == conns[s]
             word == toHub \o Block(s, q[s], c, NoLease)
         IN  /\ Silent(Word(s)', s, c) <=> Silent(word, s, c)
             /\ EndsRight(Word(s)', s, c, held) <=> EndsRight(word, s, c, held)
<1> DEFINE c == conns[s]
           word == toHub \o Block(s, q[s], c, NoLease)
<1>1. Word(s)' = toHub'
  <2>1. queued'[s] = <<>>
    BY DEF Emit
  <2>2. Word(s)' = toHub' \o <<>>
    BY <2>1, EmptyBlock DEF Word
  <2>3. toHub' \in Seq(Message)
    <3>2. PICK frames \in Sealed(q, conns) : toHub' = toHub \o first \o frames \o asks
      BY DEF Emit
    <3>3. frames \in Seq(Message)
      <4>1. frames \in Seq(Frames)
        BY SealedAreFrames
      <4> QED BY <4>1 DEF Frames
    <3>4. first \in Seq(Message) /\ asks \in Seq(Message) /\ toHub \in Seq(Message)
      BY UnsaidIsSilent DEF HubTypes
    <3> QED BY <3>2, <3>3, <3>4
  <2> QED BY <2>2, <2>3, ConcatEmptySeq
<1>2. toHub \in Seq(Message)
  BY DEF HubTypes
<1>3. /\ Silent(toHub', s, c) <=> Silent(word, s, c)
      /\ EndsRight(toHub', s, c, held) <=> EndsRight(word, s, c, held)
  BY <1>2, EmitSays
<1> QED BY <1>1, <1>3

\* Nothing of its own was put in the queue of s.
LEMMA EmitTalk ==
  ASSUME DaemonTypes, HubTypes, NEW q \in [Screen -> Seq(Body)],
         NEW conns \in [Screen -> 0..MaxConn],
         NEW first \in Seq(Unsaid), NEW asks \in Seq(Unsaid),
         Emit(toHub, first, q, conns, asks), NEW s \in Screen,
         \/ linked'[s] = 0
         \/ linked'[s] = linked[s] /\ conns[s] = linked[s] /\ q[s] = queued[s]
  PROVE  TalkKept(s)
<1>1. CASE linked'[s] = 0
  BY <1>1 DEF TalkKept
<1>2. CASE linked'[s] = linked[s] /\ conns[s] = linked[s] /\ q[s] = queued[s]
  <2>1. /\ Silent(Word(s)', s, conns[s]) <=> Silent(Word(s), s, conns[s])
        /\ EndsRight(Word(s)', s, conns[s], held) <=> EndsRight(Word(s), s, conns[s], held)
    <3>1. Word(s) = toHub \o Block(s, q[s], conns[s], NoLease)
      BY <1>2 DEF Word
    <3> QED BY <3>1, EmitWord
  <2> HIDE DEF Word
  <2> QED BY <1>2, <2>1 DEF TalkKept
<1> QED BY <1>1, <1>2

LEMMA AnswerEnds ==
  ASSUME DaemonTypes, NEW s \in Screen, NEW kind, NEW c
  PROVE  /\ Answered(s, kind) \in Seq(Body)
         /\ EndsRight(Block(s, Answered(s, kind), c, NoLease), s, c, held)
<1>1. Answered(s, kind) \in Seq(Body)
  BY Shapes, NoticesAreBodies DEF Answered, DaemonTypes
<1> DEFINE h == Block(s, Answered(s, kind), c, NoLease)
<1>2. Notice(s, held).shows # "reply"
  BY DEF Notice
<1>3. \A i \in 1..Len(h) : h[i].body \in {Reply, Notice(s, held)} /\ h[i].stamp = NoLease
  BY DEF Block, ToHub, Answered
<1>4. \A i \in 1..Len(h) : Notifies(h[i], s, c) => Right(h[i], s, held)
  BY <1>3 DEF Notifies, Right, Reply
<1> QED BY <1>1, <1>4 DEF EndsRight

Bounded(n) == {m \in Message : m.conn <= n}

LEMMA LongerWord ==
  ASSUME NEW s \in Screen, NEW h \in Seq(Message), NEW c \in 0..MaxConn,
         NEW q \in Seq(Body), NEW r \in Seq(Body)
  PROVE  LET word == h \o Block(s, q, c, NoLease)
             more == Block(s, r, c, NoLease)
         IN  /\ h \o Block(s, q \o r, c, NoLease) = word \o more
             /\ word \in Seq(Message) /\ more \in Seq(Message)
<1> DEFINE b == Block(s, q, c, NoLease)
           more == Block(s, r, c, NoLease)
<1>1. Block(s, q \o r, c, NoLease) = b \o more
  BY BlockJoins
<1>2. b \in Seq(Message) /\ more \in Seq(Message)
  BY BlockIs, Shapes
<1> HIDE DEF b, more
<1>3. h \o (b \o more) = (h \o b) \o more
  BY ONLY h \in Seq(Message), <1>2, ConcatAssociative
<1>4. h \o b \in Seq(Message)
  BY <1>2
<1> QED BY <1>1, <1>2, <1>3, <1>4 DEF b, more

LEMMA FrameTalk ==
  ASSUME DaemonTypes, HubTypes, NEW s \in Screen, NEW kind \in {"claim", "release", "say"},
         NEW fence, page[s].conn \in 0..MaxConn, Allowed(s, fence),
         OnFrame(s, kind, fence, toHub), NEW t \in Screen
  PROVE  TalkKept(t)
<1> DEFINE close == <<ToHub("close", s, page[s].conn, NoLease, Reply)>>
           q == [queued EXCEPT ![s] = queued[s] \o Answered(s, kind)]
<1>1. queued \in [Screen -> Seq(Body)] /\ linked \in [Screen -> 0..MaxConn]
  BY DEF DaemonTypes
<1>2. linked' \in [Screen -> 0..MaxConn] /\ toHub \in Seq(Message)
  BY FrameTypes DEF HubTypes
<1>3. close \in Seq(Unsaid) /\ <<>> \in Seq(Unsaid)
  <2>1. ToHub("close", s, page[s].conn, NoLease, Reply) \in Unsaid
    BY Shapes DEF Unsaid, Kinds
  <2> QED BY <2>1
<1>4. Asks(s, kind) \in Seq(Unsaid)
  <2>1. ASSUME kind # "say" PROVE ToHub(kind, s, 0, Stamp, Reply) \in Unsaid
    BY <2>1, Shapes, StampIsKnown, HandoffAssumption DEF Unsaid, Kinds
  <2> QED BY <1>3, <2>1 DEF Asks
<1>5. q \in [Screen -> Seq(Body)]
  <2>1. Answered(s, kind) \in Seq(Body)
    BY AnswerEnds
  <2> QED BY <1>1, <2>1
<1>6. Without(s) \in [Screen -> Seq(Body)]
  BY <1>1 DEF Without
<1> HIDE DEF close
<1>7. CASE UNCHANGED linked /\ Emit(toHub, <<>>, queued, linked, <<>>)
  BY <1>1, <1>3, <1>7, EmitTalk
<1>8. CASE UNCHANGED linked /\ Emit(toHub, close, queued, linked, <<>>)
  BY <1>1, <1>3, <1>8, EmitTalk
<1>9. CASE linked' = [linked EXCEPT ![s] = 0] /\ Emit(toHub, close, Without(s), linked, <<>>)
  <2>1. linked'[t] = 0 \/ (linked'[t] = linked[t] /\ Without(s)[t] = queued[t])
    BY <1>1, <1>9 DEF Without
  <2> QED BY <1>1, <1>3, <1>6, <1>9, <2>1, EmitTalk
<1>10. CASE UNCHANGED linked /\ Emit(toHub, <<>>, q, linked, Asks(s, kind))
  <2>1. CASE t # s
    <3>1. q[t] = queued[t]
      BY <1>1, <2>1
    <3> HIDE DEF q
    <3> QED BY <1>1, <1>3, <1>4, <1>5, <1>10, <3>1, EmitTalk
  <2>2. CASE t = s
    <3> DEFINE c == linked[s]
               r == Block(s, Answered(s, kind), c, NoLease)
               word == toHub \o Block(s, q[s], c, NoLease)
    <3>1. word = Word(s) \o r /\ Word(s) \in Seq(Message) /\ r \in Seq(Message)
      <4>1. queued[s] \in Seq(Body) /\ Answered(s, kind) \in Seq(Body) /\ c \in 0..MaxConn
        BY <1>1, AnswerEnds
      <4>2. /\ q[s] = queued[s] \o Answered(s, kind)
            /\ Word(s) = toHub \o Block(s, queued[s], c, NoLease)
        BY <1>1 DEF Word
      <4> DEFINE u == queued[s]
                 v == Answered(s, kind)
      <4>3. u \in Seq(Body) /\ v \in Seq(Body) /\ c \in 0..MaxConn
        BY <4>1
      <4> HIDE DEF u, v, c
      <4>4. LET w == toHub \o Block(s, u, c, NoLease)
                more == Block(s, v, c, NoLease)
            IN  /\ toHub \o Block(s, u \o v, c, NoLease) = w \o more
                /\ w \in Seq(Message) /\ more \in Seq(Message)
        BY <1>2, <4>3, LongerWord
      <4>5. word = toHub \o Block(s, u \o v, c, NoLease) /\ r = Block(s, v, c, NoLease)
            /\ Word(s) = toHub \o Block(s, u, c, NoLease)
        BY <4>2 DEF u, v, c
      <4> HIDE DEF word, r
      <4> QED BY <4>4, <4>5
    <3>2. EndsRight(r, s, c, held)
      BY AnswerEnds
    <3>3. /\ Silent(Word(s)', s, c) <=> Silent(word, s, c)
          /\ EndsRight(Word(s)', s, c, held) <=> EndsRight(word, s, c, held)
      <4> HIDE DEF q
      <4> QED BY <1>1, <1>3, <1>4, <1>5, <1>10, EmitWord
    <3> HIDE DEF r, word, c
    <3>4. Silent(Word(s) \o r, s, c) <=> Silent(Word(s), s, c) /\ Silent(r, s, c)
      BY <3>1, SilentJoin
    <3>5. /\ Silent(r, s, c) =>
               (EndsRight(Word(s) \o r, s, c, held) <=> EndsRight(Word(s), s, c, held))
          /\ ~Silent(r, s, c) =>
               (EndsRight(Word(s) \o r, s, c, held) <=> EndsRight(r, s, c, held))
      BY <3>1, EndsJoin
    <3>6. linked'[s] = c /\ linked[s] = c
      BY <1>10 DEF c
    <3>7. EndsRight(Word(s), s, c, held) => EndsRight(Word(s)', s, c, held)
      BY <3>1, <3>2, <3>3, <3>5
    <3>8. Silent(Word(s)', s, c) => Silent(Word(s), s, c)
      BY <3>1, <3>3, <3>4
    <3>9. TalkKept(s)
      BY <3>6, <3>7, <3>8 DEF TalkKept, Allowed
    <3> QED BY <2>2, <3>9
  <2> QED BY <2>1, <2>2
<1> HIDE DEF q
<1> QED BY <1>7, <1>8, <1>9, <1>10 DEF OnFrame, close, q

LEMMA HelloTalk ==
  ASSUME DaemonTypes, NEW s \in Screen, OnHello(s, toHub), opened + 1 \in 0..MaxConn,
         opened \in Nat, toHub \in Seq(Bounded(opened)), linked[s] <= opened, NEW t \in Screen
  PROVE  TalkKept(t)
<1> DEFINE n == opened + 1
           first == <<ToHub("welcome", s, n, Stamp, Reply)>>
           q == [queued EXCEPT ![s] = <<Reply>>]
<1>1. queued \in [Screen -> Seq(Body)] /\ linked \in [Screen -> 0..MaxConn]
  BY DEF DaemonTypes
<1>2. /\ Emit(toHub, first, q, linked', <<>>) /\ linked' = [linked EXCEPT ![s] = n]
      /\ q \in [Screen -> Seq(Body)] /\ linked' \in [Screen -> 0..MaxConn]
      /\ linked'[s] = n /\ q[s] = <<Reply>>
      /\ t # s => linked'[t] = linked[t] /\ q[t] = queued[t]
  BY <1>1, Shapes DEF OnHello
<1>3. first \in Seq(Unsaid) /\ <<>> \in Seq(Unsaid)
  <2>1. ToHub("welcome", s, n, Stamp, Reply) \in Unsaid
    BY Shapes, StampIsKnown DEF Unsaid, Kinds
  <2> QED BY <2>1
<1>4. HubTypes
  BY DEF HubTypes, Bounded
<1>5. n # linked[s] /\ \A m \in Bounded(opened) : m.conn # n
  <2>1. \A m \in Bounded(opened) : m.conn <= opened /\ m.conn \in 0..MaxConn
    BY HandoffAssumption DEF Bounded, Message
  <2> QED BY <1>1, <2>1
<1> HIDE DEF first, q
<1>6. CASE t # s
  BY <1>2, <1>3, <1>4, <1>6, EmitTalk
<1>7. CASE t = s
  <2> HIDE DEF n
  <2> DEFINE b == Block(s, <<Reply>>, n, NoLease)
  <2>1. b \in Seq(Message) /\ Len(b) = 1 /\ b[1] = ToHub("f", s, n, NoLease, Reply)
    <3>1. <<Reply>> \in Seq(Body) /\ Len(<<Reply>>) = 1 /\ <<Reply>>[1] = Reply
      BY Shapes
    <3>2. n \in 0..MaxConn /\ NoLease \in Known
      BY <1>2, Shapes
    <3> HIDE DEF n
    <3>3. /\ b \in Seq(Message) /\ Len(b) = Len(<<Reply>>)
          /\ \A i \in 1..Len(<<Reply>>) : b[i] = ToHub("f", s, n, NoLease, <<Reply>>[i])
      BY ONLY <3>1, <3>2, s \in Screen, BlockIs DEF b
    <3> QED BY <3>1, <3>3
  <2> HIDE DEF b
  <2>2. Silent(b, s, n)
    BY <2>1 DEF Silent, Notifies, ToHub, Reply
  <2>3. Silent(toHub, s, n)
    <3>1. \A i \in 1..Len(toHub) : toHub[i] \in Bounded(opened)
      OBVIOUS
    <3> QED BY <1>5, <3>1 DEF Silent, Notifies
  <2>4. toHub \in Seq(Message)
    BY <1>4 DEF HubTypes
  <2>5. Silent(toHub \o b, s, n)
    BY <2>1, <2>2, <2>3, <2>4, SilentJoin
  <2>6. Silent(Word(s)', s, n) <=> Silent(toHub \o b, s, n)
    <3>1. toHub \o b = toHub \o Block(s, q[s], linked'[s], NoLease)
      BY <1>2 DEF b
    <3> QED BY <1>2, <1>3, <1>4, <3>1, EmitWord
  <2>7. EndsRight(Word(s)', s, n, held)
    BY <2>5, <2>6, SilentEnds
  <2>8. TalkKept(s)
    BY <1>2, <1>5, <2>5, <2>6, <2>7 DEF TalkKept
  <2> QED BY <1>7, <2>8
<1> QED BY <1>6, <1>7

LEMMA CloseTalk ==
  ASSUME DaemonTypes, NEW s \in Screen, OnClose(s, toHub), NEW t \in Screen
  PROVE  TalkKept(t)
<1>1. CASE t = s
  BY <1>1 DEF OnClose, DaemonTypes, TalkKept
<1>2. CASE t # s
  <2>1. toHub' = toHub /\ queued'[t] = queued[t] /\ linked'[t] = linked[t]
    BY <1>2 DEF OnClose, DaemonTypes, Without
  <2> QED BY <2>1, SameTalk
<1> QED BY <1>1, <1>2

-----------------------------------------------------------------------------
(* What every connected page is told. *)

\* The relay holds one socket of the daemon's, the one on which the daemon is.
Alone == net = "up" /\ DOMAIN late = {}

\* Connections are numbered as they are opened, and without the daemon there is none.
ConnsOk ==
  /\ \A s \in Screen :
       /\ socket[s] <= opened /\ linked[s] <= opened /\ page[s].conn <= opened
       /\ socket[s] # 0 => page[s].conn = socket[s]
  /\ \A i \in 1..Len(toHub) : toHub[i].conn <= opened
  /\ net = "gone" /\ DOMAIN late = {} => \A s \in Screen : socket[s] = 0

\* A page whose socket the relay has closed will read that it is gone.
HasGone(q) == \E i \in 1..Len(q) : q[i].kind = "gone"
GoneOk ==
  \A s \in Screen :
    /\ page[s].welcomed => page[s].conn # 0
    /\ page[s].conn # 0 /\ socket[s] = 0 => HasGone(down[s])

\* A socket the daemon has no session on is about to be closed.
CloseComes(h, s, c) == \E i \in 1..Len(h) : h[i].kind = "close" /\ h[i].s = s /\ h[i].conn = c
LinkedOk ==
  Alone =>
    \A s \in Screen : socket[s] # 0 => linked[s] = socket[s] \/ CloseComes(toHub, s, socket[s])

\* The last that a screen is still to hear of the lease is what the daemon holds.
SaidOk ==
  \A s \in Screen : linked[s] # 0 => EndsRight(Word(s), s, linked[s], held)

\* A message after which the page shows no lease of its own, and one after which it does.
Undeceives(m) ==
  \/ m.kind \in {"gone", "refused"}
  \/ m.kind = "f" /\ (~m.whole \/ m.body.shows \in {"nothing", "other"})
Deceives(m) == m.kind = "f" /\ m.whole /\ m.body.shows = "mine"
Corrected(q, shows) ==
  /\ shows = "mine" => \E j \in 1..Len(q) : Undeceives(q[j])
  /\ \A i \in 1..Len(q) : Deceives(q[i]) => \E j \in 1..Len(q) : i < j /\ Undeceives(q[j])

\* A screen with a session that does not drive while another does.
Driven(s) ==
  /\ Alone /\ NoState(toHub) /\ Live /\ lease.holder # s
  /\ socket[s] # 0 /\ linked[s] = socket[s]

\* Until the daemon knows the lease it has nothing to say of it to such a screen.
StrayedOk == \A s \in Screen : Driven(s) /\ strayed => Silent(Word(s), s, linked[s])

\* Such a screen is still to hear so, from the daemon or from what waits in its queue,
\* or shows it already.
TellsIt(s) ==
  \/ ~strayed /\ ~Silent(Word(s), s, linked[s])
  \/ Corrected(down[s], page[s].shows)
ToldOk == \A s \in Screen : Driven(s) /\ page[s].welcomed => TellsIt(s)

TalkOk == ConnsOk /\ GoneOk /\ LinkedOk /\ SaidOk /\ StrayedOk /\ ToldOk

-----------------------------------------------------------------------------
(* Reading from a queue, and adding to one. *)

LEMMA CorrectedTail ==
  ASSUME NEW S, NEW q \in Seq(S), q # <<>>, NEW shows, NEW now, Corrected(q, shows),
         now = "mine" => Deceives(Head(q)) \/ (shows = "mine" /\ ~Undeceives(Head(q)))
  PROVE  Corrected(Tail(q), now)
<1> DEFINE r == Tail(q)
<1>1. /\ Len(q) \in Nat /\ Len(r) = Len(q) - 1 /\ Head(q) = q[1] /\ 1 \in 1..Len(q)
      /\ \A i \in 1..Len(r) : i + 1 \in 1..Len(q) /\ r[i] = q[i + 1]
  OBVIOUS
<1> HIDE DEF r
<1>2. \A j \in 1..Len(q) : j # 1 => \E k \in 1..Len(r) : j = k + 1 /\ r[k] = q[j]
  <2> SUFFICES ASSUME NEW j \in 1..Len(q), j # 1
               PROVE  \E k \in 1..Len(r) : j = k + 1 /\ r[k] = q[j]
    OBVIOUS
  <2>1. j - 1 \in 1..Len(r) /\ j = (j - 1) + 1
    BY <1>1
  <2> QED BY <1>1, <2>1
<1>3. ASSUME now = "mine" PROVE \E k \in 1..Len(r) : Undeceives(r[k])
  <2>1. \E j \in 1..Len(q) : j # 1 /\ Undeceives(q[j])
    <3>1. CASE Deceives(Head(q))
      <4>1. PICK j \in 1..Len(q) : 1 < j /\ Undeceives(q[j])
        BY <1>1, <3>1 DEF Corrected
      <4> QED BY <4>1
    <3>2. CASE shows = "mine" /\ ~Undeceives(Head(q))
      <4>1. PICK j \in 1..Len(q) : Undeceives(q[j])
        BY <3>2 DEF Corrected
      <4> QED BY <1>1, <3>2, <4>1
    <3> QED BY <1>3, <3>1, <3>2
  <2> QED BY <1>2, <2>1
<1>4. ASSUME NEW i \in 1..Len(r), Deceives(r[i])
      PROVE  \E k \in 1..Len(r) : i < k /\ Undeceives(r[k])
  <2>1. i + 1 \in 1..Len(q) /\ Deceives(q[i + 1])
    BY <1>1, <1>4
  <2>2. PICK j \in 1..Len(q) : i + 1 < j /\ Undeceives(q[j])
    BY <2>1 DEF Corrected
  <2>3. PICK k \in 1..Len(r) : j = k + 1 /\ r[k] = q[j]
    BY <1>2, <2>2
  <2>4. i < k
    BY <2>2, <2>3
  <2> QED BY <2>2, <2>3, <2>4
<1> QED BY <1>3, <1>4 DEF Corrected, r

LEMMA CorrectedMore ==
  ASSUME NEW S, NEW q \in Seq(S), NEW m \in S, ~Deceives(m), NEW shows,
         Corrected(q, shows) \/ Undeceives(m)
  PROVE  Corrected(Append(q, m), shows)
<1> DEFINE r == Append(q, m)
           n == Len(q) + 1
<1>1. /\ Len(q) \in Nat /\ Len(r) = n /\ n \in 1..Len(r) /\ r[n] = m
      /\ \A i \in 1..Len(q) : i \in 1..Len(r) /\ r[i] = q[i] /\ i < n
      /\ \A i \in 1..Len(r) : i \in 1..Len(q) \/ i = n
  OBVIOUS
<1> HIDE DEF r, n
<1>2. CASE Corrected(q, shows)
  BY <1>1, <1>2 DEF Corrected, r
<1>3. CASE Undeceives(m)
  BY <1>1, <1>3 DEF Corrected, r
<1> QED BY <1>2, <1>3

LEMMA GoneStays ==
  ASSUME NEW S, NEW q \in Seq(S)
  PROVE  /\ \A m \in S : HasGone(q) \/ m.kind = "gone" => HasGone(Append(q, m))
         /\ q # <<>> /\ HasGone(q) /\ Head(q).kind # "gone" => HasGone(Tail(q))
<1>1. ASSUME NEW m \in S, HasGone(q) \/ m.kind = "gone" PROVE HasGone(Append(q, m))
  <2>1. /\ Len(q) + 1 \in 1..Len(Append(q, m)) /\ Append(q, m)[Len(q) + 1] = m
        /\ \A i \in 1..Len(q) : i \in 1..Len(Append(q, m)) /\ Append(q, m)[i] = q[i]
    OBVIOUS
  <2> QED BY <1>1, <2>1 DEF HasGone
<1>2. ASSUME q # <<>>, HasGone(q), Head(q).kind # "gone" PROVE HasGone(Tail(q))
  <2>1. PICK i \in 1..Len(q) : q[i].kind = "gone"
    BY <1>2 DEF HasGone
  <2>2. i # 1 /\ i - 1 \in 1..Len(Tail(q)) /\ Tail(q)[i - 1] = q[i]
    BY <1>2, <2>1
  <2> QED BY <2>1, <2>2 DEF HasGone
<1> QED BY <1>1, <1>2

LEMMA CloseStays ==
  ASSUME NEW S, NEW h \in Seq(S), NEW more \in Seq(S), NEW s, NEW c
  PROVE  /\ CloseComes(h, s, c) => CloseComes(h \o more, s, c)
         /\ CloseComes(more, s, c) => CloseComes(h \o more, s, c)
<1>1. /\ \A i \in 1..Len(h) : i \in 1..Len(h \o more) /\ (h \o more)[i] = h[i]
      /\ \A i \in 1..Len(more) : /\ Len(h) + i \in 1..Len(h \o more)
                                 /\ (h \o more)[Len(h) + i] = more[i]
  OBVIOUS
<1> QED BY <1>1 DEF CloseComes

LEMMA CloseIsRead ==
  ASSUME NEW S, NEW h \in Seq(S), h # <<>>, NEW s, NEW c, CloseComes(h, s, c),
         ~(Head(h).kind = "close" /\ Head(h).s = s /\ Head(h).conn = c)
  PROVE  CloseComes(Tail(h), s, c)
<1>1. PICK i \in 1..Len(h) : h[i].kind = "close" /\ h[i].s = s /\ h[i].conn = c
  BY DEF CloseComes
<1>2. i # 1 /\ i - 1 \in 1..Len(Tail(h)) /\ Tail(h)[i - 1] = h[i]
  BY <1>1
<1> QED BY <1>1, <1>2 DEF CloseComes

-----------------------------------------------------------------------------
(* Connections and the daemon's sessions. *)

LEMMA EmitConns ==
  ASSUME DaemonTypes, NEW q \in [Screen -> Seq(Body)], NEW conns \in [Screen -> 0..MaxConn],
         NEW n, \A s \in Screen : conns[s] <= n,
         NEW rest \in Seq(Bounded(n)), NEW first \in Seq(Bounded(n)), NEW asks \in Seq(Bounded(n)),
         Emit(rest, first, q, conns, asks)
  PROVE  /\ toHub' \in Seq(Bounded(n))
         /\ \A s, c : CloseComes(first, s, c) => CloseComes(toHub', s, c)
<1>1. PICK frames \in Sealed(q, conns) : toHub' = rest \o first \o frames \o asks
  BY DEF Emit
<1>2. frames \in Seq(Bounded(n))
  <2>1. \A s \in Screen : \A i \in 1..Len(q[s]) :
          ToHub("f", s, conns[s], Stamp, q[s][i]) \in Bounded(n)
    <3> TAKE s \in Screen
    <3> TAKE i \in 1..Len(q[s])
    <3>1. q[s][i] \in Body /\ conns[s] \in 0..MaxConn
      OBVIOUS
    <3>2. ToHub("f", s, conns[s], Stamp, q[s][i]) \in Message
      BY <3>1, Shapes, StampIsKnown DEF Kinds
    <3>3. ToHub("f", s, conns[s], Stamp, q[s][i]).conn = conns[s]
      BY DEF ToHub
    <3> QED BY <3>2, <3>3 DEF Bounded
  <2> QED BY <2>1, SealedAreOver
<1> DEFINE r == rest \o first
           rf == r \o frames
<1>3. r \in Seq(Bounded(n)) /\ \A s, c : CloseComes(first, s, c) => CloseComes(r, s, c)
  BY CloseStays
<1> HIDE DEF r
<1>4. rf \in Seq(Bounded(n)) /\ \A s, c : CloseComes(r, s, c) => CloseComes(rf, s, c)
  BY <1>2, <1>3, CloseStays
<1> HIDE DEF rf
<1>5. /\ rf \o asks \in Seq(Bounded(n))
      /\ \A s, c : CloseComes(rf, s, c) => CloseComes(rf \o asks, s, c)
  BY <1>4, CloseStays
<1> QED BY <1>1, <1>3, <1>4, <1>5 DEF rf, r

HubConns == toHub \in Seq(Bounded(opened))

LEMMA HubConnsIs ==
  ASSUME HubTypes, ConnsOk
  PROVE  HubConns /\ \A s \in Screen : linked[s] <= opened
<1>1. \A i \in 1..Len(toHub) : toHub[i] \in Bounded(opened)
  BY DEF HubTypes, ConnsOk, Bounded
<1> QED BY <1>1 DEF HubTypes, ConnsOk, HubConns

\* Given the link is up, how the daemon's session on t may have changed.
LinkKept(t) ==
  \/ linked'[t] = linked[t]
  \/ linked'[t] = 0 /\ net = "up" /\ (socket[t] # 0 => CloseComes(toHub', t, socket[t]))

LEMMA FrameLinks ==
  ASSUME DaemonTypes, NEW s \in Screen, NEW kind \in {"claim", "release", "say"}, NEW fence,
         page[s].conn \in 0..MaxConn, opened \in Nat, HubConns, net = "up",
         \A t \in Screen : linked[t] <= opened, page[s].conn <= opened,
         socket[s] # 0 => page[s].conn = socket[s],
         OnFrame(s, kind, fence, toHub)
  PROVE  /\ toHub' \in Seq(Bounded(opened))
         /\ \A t \in Screen : LinkKept(t)
<1> DEFINE close == <<ToHub("close", s, page[s].conn, NoLease, Reply)>>
           q == [queued EXCEPT ![s] = queued[s] \o Answered(s, kind)]
<1>1. /\ queued \in [Screen -> Seq(Body)] /\ linked \in [Screen -> 0..MaxConn]
      /\ toHub \in Seq(Bounded(opened)) /\ <<>> \in Seq(Bounded(opened))
  BY DEF DaemonTypes, HubConns
<1>2. close \in Seq(Bounded(opened)) /\ CloseComes(close, s, page[s].conn)
  <2> DEFINE m == ToHub("close", s, page[s].conn, NoLease, Reply)
  <2>1. m \in Message
    BY Shapes DEF Kinds
  <2>2. m.kind = "close" /\ m.s = s /\ m.conn = page[s].conn
    BY DEF ToHub
  <2> HIDE DEF m
  <2>3. m \in Bounded(opened)
    BY <2>1, <2>2 DEF Bounded
  <2>4. Len(<<m>>) = 1 /\ <<m>>[1] = m /\ <<m>> \in Seq(Bounded(opened))
    BY <2>3
  <2>5. CloseComes(<<m>>, s, page[s].conn)
    BY <2>2, <2>4 DEF CloseComes
  <2> QED BY <2>4, <2>5 DEF m
<1>3. Asks(s, kind) \in Seq(Bounded(opened))
  <2> DEFINE m == ToHub(kind, s, 0, Stamp, Reply)
  <2>1. ASSUME kind # "say" PROVE m \in Bounded(opened)
    <3>1. m \in Message
      BY <2>1, Shapes, StampIsKnown, HandoffAssumption DEF Kinds
    <3>2. m.conn = 0
      BY DEF ToHub
    <3> HIDE DEF m
    <3> QED BY <3>1, <3>2 DEF Bounded
  <2> QED BY <1>1, <2>1 DEF Asks
<1>4. q \in [Screen -> Seq(Body)] /\ Without(s) \in [Screen -> Seq(Body)]
  <2>1. Answered(s, kind) \in Seq(Body)
    BY AnswerEnds
  <2> QED BY <1>1, <2>1 DEF Without
<1> HIDE DEF close, q
<1>5. CASE UNCHANGED linked /\ Emit(toHub, <<>>, queued, linked, <<>>)
  BY <1>1, <1>5, EmitConns DEF LinkKept
<1>6. CASE UNCHANGED linked /\ Emit(toHub, close, queued, linked, <<>>)
  BY <1>1, <1>2, <1>6, EmitConns DEF LinkKept
<1>7. CASE UNCHANGED linked /\ Emit(toHub, <<>>, q, linked, Asks(s, kind))
  BY <1>1, <1>3, <1>4, <1>7, EmitConns DEF LinkKept
<1>8. CASE linked' = [linked EXCEPT ![s] = 0] /\ Emit(toHub, close, Without(s), linked, <<>>)
  <2>1. /\ toHub' \in Seq(Bounded(opened))
        /\ \A t, c : CloseComes(close, t, c) => CloseComes(toHub', t, c)
    BY <1>1, <1>2, <1>4, <1>8, EmitConns
  <2>2. linked'[s] = 0 /\ \A t \in Screen : t # s => linked'[t] = linked[t]
    BY <1>1, <1>8
  <2> QED BY <1>2, <2>1, <2>2 DEF LinkKept
<1> QED BY <1>5, <1>6, <1>7, <1>8 DEF OnFrame, close, q

LEMMA HelloLinks ==
  ASSUME DaemonTypes, NEW s \in Screen, OnHello(s, toHub), opened + 1 \in 0..MaxConn,
         opened \in Nat, HubConns, \A t \in Screen : linked[t] <= opened
  PROVE  /\ toHub' \in Seq(Bounded(opened + 1))
         /\ linked'[s] = opened + 1
         /\ \A t \in Screen : t # s => linked'[t] = linked[t]
<1> DEFINE n == opened + 1
           m == ToHub("welcome", s, n, Stamp, Reply)
           q == [queued EXCEPT ![s] = <<Reply>>]
<1>1. queued \in [Screen -> Seq(Body)] /\ linked \in [Screen -> 0..MaxConn]
  BY DEF DaemonTypes
<1>2. /\ Emit(toHub, <<m>>, q, linked', <<>>) /\ linked' = [linked EXCEPT ![s] = n]
      /\ q \in [Screen -> Seq(Body)] /\ linked' \in [Screen -> 0..MaxConn]
      /\ linked'[s] = n /\ \A t \in Screen : t # s => linked'[t] = linked[t]
  BY <1>1, Shapes DEF OnHello
<1>3. \A t \in Screen : linked'[t] <= n
  BY <1>1, <1>2
<1>4. <<m>> \in Seq(Bounded(n)) /\ <<>> \in Seq(Bounded(n))
  <2>1. m \in Message
    BY Shapes, StampIsKnown DEF Kinds
  <2>2. m.conn = n
    BY DEF ToHub
  <2> HIDE DEF m
  <2>3. m \in Bounded(n)
    BY <2>1, <2>2 DEF Bounded
  <2> QED BY <2>3
<1>5. toHub \in Seq(Bounded(n))
  <2>1. Bounded(opened) \subseteq Bounded(n)
    <3>1. \A k \in Message : k.conn \in Nat
      BY HandoffAssumption DEF Message
    <3> QED BY <3>1 DEF Bounded
  <2> HIDE DEF n
  <2> QED BY <2>1 DEF HubConns
<1> HIDE DEF n, m, q
<1>6. toHub' \in Seq(Bounded(n))
  BY <1>2, <1>3, <1>4, <1>5, EmitConns
<1> QED BY <1>2, <1>6 DEF n

\* What the steps of a page do to the daemon's side of t.
DaemonKept(t) == TalkKept(t) /\ LinkKept(t)

LEMMA DaemonSame ==
  ASSUME UNCHANGED <<daemon, toHub>>, NEW t \in Screen
  PROVE  DaemonKept(t)
<1>1. toHub' = toHub /\ queued'[t] = queued[t] /\ linked'[t] = linked[t]
  BY DEF daemon
<1> QED BY <1>1, SameTalk DEF DaemonKept, LinkKept

LEMMA DeviceKeeps ==
  ASSUME RelayTypes, HubTypes, DaemonTypes, PageTypes, CountTypes, ConnsOk, NEW s \in Screen,
         NEW kind \in {"claim", "release", "say"}, NEW fence, NEW d,
         FromDevice(s, kind, fence, d)
  PROVE  /\ toHub' \in Seq(Bounded(opened)) /\ \A t \in Screen : DaemonKept(t)
         /\ \/ down' = d /\ (socket[s] = 0 \/ Allowed(s, fence))
            \/ down' = [d EXCEPT ![s] = Append(d[s], ToPage("refused", lease.fence, TRUE, Reply))]
<1>1. /\ HubConns /\ opened \in Nat /\ (\A t \in Screen : linked[t] <= opened)
      /\ page[s].conn <= opened /\ page[s].conn \in 0..MaxConn
      /\ socket[s] # 0 => page[s].conn = socket[s]
  BY HubConnsIs DEF ConnsOk, PageTypes, Page, CountTypes
<1>2. ASSUME UNCHANGED <<daemon, toHub>>
      PROVE  toHub' \in Seq(Bounded(opened)) /\ \A t \in Screen : DaemonKept(t)
  BY <1>1, <1>2, DaemonSame DEF HubConns
<1>3. ASSUME net = "up", Allowed(s, fence), OnFrame(s, kind, fence, toHub)
      PROVE  toHub' \in Seq(Bounded(opened)) /\ \A t \in Screen : DaemonKept(t)
  <2>1. toHub' \in Seq(Bounded(opened)) /\ \A t \in Screen : LinkKept(t)
    BY <1>1, <1>3, FrameLinks
  <2>2. \A t \in Screen : TalkKept(t)
    BY <1>1, <1>3, FrameTalk
  <2> QED BY <2>1, <2>2 DEF DaemonKept
<1>4. toHub' \in Seq(Bounded(opened)) /\ \A t \in Screen : DaemonKept(t)
  BY <1>2, <1>3 DEF FromDevice, Lost
<1>5. \/ down' = d /\ (socket[s] = 0 \/ Allowed(s, fence))
      \/ down' = [d EXCEPT ![s] = Append(d[s], ToPage("refused", lease.fence, TRUE, Reply))]
  BY DEF FromDevice
<1> QED BY <1>4, <1>5

LEMMA SocketKeeps ==
  ASSUME RelayTypes, HubTypes, DaemonTypes, CountTypes, ConnsOk, NEW s \in Screen,
         SocketClosed(s)
  PROVE  /\ toHub' \in Seq(Bounded(opened)) /\ \A t \in Screen : TalkKept(t)
         /\ \A t \in Screen : linked'[t] \in {0, linked[t]}
         /\ socket'[s] = 0
         /\ \A t \in Screen : t # s => socket'[t] = socket[t] /\ linked'[t] = linked[t]
<1>1. HubConns /\ socket \in [Screen -> 0..MaxConn] /\ linked \in [Screen -> 0..MaxConn]
  BY HubConnsIs DEF RelayTypes, DaemonTypes
<1>2. socket'[s] = 0 /\ \A t \in Screen : t # s => socket'[t] = socket[t]
  BY <1>1 DEF SocketClosed
<1>3. CASE UNCHANGED <<daemon, toHub>>
  <2>1. UNCHANGED <<linked, toHub>>
    BY <1>3 DEF daemon
  <2> QED BY <1>1, <1>2, <1>3, <2>1, DaemonSame DEF DaemonKept, HubConns
<1>4. CASE OnClose(s, toHub)
  <2>1. toHub' = toHub /\ linked' = [linked EXCEPT ![s] = 0]
    BY <1>4 DEF OnClose
  <2>2. \A t \in Screen : TalkKept(t)
    BY <1>4, CloseTalk
  <2> QED BY <1>1, <1>2, <2>1, <2>2 DEF HubConns
<1> QED BY <1>3, <1>4 DEF SocketClosed, Heard, Lost

-----------------------------------------------------------------------------
(* A step that keeps all of it. *)

\* What they say of the next state.
LEMMA SaidNext ==
  SaidOk' <=> \A s \in Screen : linked'[s] # 0 => EndsRight(Word(s)', s, linked'[s], held')
BY DEF SaidOk, EndsRight, Notifies, Right, Notice

LEMMA ToldNext ==
  /\ StrayedOk' <=> \A s \in Screen : Driven(s)' /\ strayed' => Silent(Word(s)', s, linked'[s])
  /\ ToldOk' <=>
       \A s \in Screen : Driven(s)' /\ page'[s].welcomed =>
         \/ ~strayed' /\ ~Silent(Word(s)', s, linked'[s])
         \/ Corrected(down'[s], page'[s].shows)
  /\ \A s \in Screen : Driven(s)' <=>
       /\ net' = "up" /\ DOMAIN late' = {} /\ NoState(toHub') /\ Live' /\ lease'.holder # s
       /\ socket'[s] # 0 /\ linked'[s] = socket'[s]
BY DEF StrayedOk, ToldOk, TellsIt, Driven, Alone, NoState, Silent, Notifies, Corrected,
       Deceives, Undeceives

LEMMA LinkedNext ==
  /\ LinkedOk' <=>
       (net' = "up" /\ DOMAIN late' = {} => \A s \in Screen : socket'[s] # 0 =>
          linked'[s] = socket'[s] \/ CloseComes(toHub', s, socket'[s]))
  /\ GoneOk' <=>
       \A s \in Screen :
         /\ page'[s].welcomed => page'[s].conn # 0
         /\ page'[s].conn # 0 /\ socket'[s] = 0 => HasGone(down'[s])
BY DEF LinkedOk, Alone, CloseComes, GoneOk, HasGone

PageKept(t) ==
  /\ Live' /\ lease.holder # t /\ page'[t].welcomed
  /\ socket'[t] # 0 /\ linked'[t] = socket'[t]
  => \/ Corrected(down'[t], page'[t].shows)
     \/ /\ page[t].welcomed /\ socket'[t] = socket[t] /\ linked'[t] = linked[t]
        /\ Corrected(down[t], page[t].shows) => Corrected(down'[t], page'[t].shows)

ConnKept(t) ==
  /\ socket'[t] <= opened' /\ linked'[t] <= opened' /\ page'[t].conn <= opened'
  /\ socket'[t] # 0 => page'[t].conn = socket'[t]
  /\ socket'[t] # 0 /\ socket'[t] = linked[t] => socket'[t] = socket[t]
  /\ net = "gone" /\ DOMAIN late = {} => socket'[t] = 0
  /\ page'[t].welcomed => page'[t].conn # 0
  /\ page'[t].conn # 0 /\ socket'[t] = 0 => HasGone(down'[t])
  /\ Alone => \/ socket'[t] = 0 \/ linked'[t] = socket'[t]
              \/ socket'[t] = socket[t] /\ LinkKept(t)

\* A step without news of the lease, that keeps what was on its way.
LEMMA QuietStep ==
  ASSUME HubTypes, TalkOk, UNCHANGED <<lease, net, late, strayed, held>>, Live' => Live,
         Grows(toHub, toHub'), toHub' \in Seq(Bounded(opened')),
         \A t \in Screen : TalkKept(t) /\ PageKept(t) /\ ConnKept(t)
  PROVE  TalkOk'
<1>1. PICK more \in Seq(Message) : toHub' = toHub \o more
  BY DEF Grows
<1>2. toHub \in Seq(Message)
  BY DEF HubTypes
<1>3. ConnsOk'
  <2>1. \A i \in 1..Len(toHub') : toHub'[i].conn <= opened'
    <3>1. \A i \in 1..Len(toHub') : toHub'[i] \in Bounded(opened')
      OBVIOUS
    <3> QED BY <3>1 DEF Bounded
  <2> QED BY <2>1 DEF ConnsOk, ConnKept
<1>4. GoneOk'
  BY LinkedNext DEF ConnKept
<1>5. LinkedOk'
  <2> SUFFICES ASSUME Alone, NEW s \in Screen, socket'[s] # 0, linked'[s] # socket'[s]
               PROVE  CloseComes(toHub', s, socket'[s])
    BY LinkedNext DEF Alone
  <2>1. socket'[s] = socket[s] /\ LinkKept(s)
    BY DEF ConnKept
  <2>2. CASE linked'[s] = linked[s]
    <3>1. CloseComes(toHub, s, socket[s])
      BY <2>1, <2>2 DEF TalkOk, LinkedOk
    <3> QED BY <1>1, <1>2, <2>1, <3>1, CloseStays
  <2> QED BY <2>1, <2>2 DEF LinkKept
<1>6. SaidOk'
  BY SaidNext DEF TalkOk, SaidOk, TalkKept
<1>s. NoState(toHub') => NoState(toHub)
  <2>1. \A i \in 1..Len(toHub) : i \in 1..Len(toHub') /\ toHub'[i] = toHub[i]
    BY <1>1, <1>2
  <2> QED BY <2>1 DEF NoState
\* A screen that does not drive now did not before, if it has the same session.
<1>d. \A s \in Screen : Driven(s)' /\ linked'[s] = linked[s] =>
                          Driven(s) /\ socket'[s] = socket[s]
  <2> SUFFICES ASSUME NEW s \in Screen, Driven(s)', linked'[s] = linked[s]
               PROVE  Driven(s) /\ socket'[s] = socket[s]
    OBVIOUS
  <2>1. socket'[s] = socket[s]
    BY ToldNext DEF ConnKept
  <2> QED BY <1>s, <2>1, ToldNext DEF Driven, Alone
<1>7. StrayedOk'
  <2> SUFFICES ASSUME NEW s \in Screen, Driven(s)', strayed
               PROVE  Silent(Word(s)', s, linked'[s])
    BY ToldNext
  <2>1. linked'[s] # 0 /\ Live /\ lease.holder # s
    BY ToldNext
  <2>2. linked'[s] = linked[s] => Silent(Word(s), s, linked[s])
    BY <1>d DEF TalkOk, StrayedOk
  <2> QED BY <2>1, <2>2 DEF TalkKept
<1>8. ToldOk'
  <2> SUFFICES ASSUME NEW s \in Screen, Driven(s)', page'[s].welcomed,
                      ~Corrected(down'[s], page'[s].shows)
               PROVE  ~strayed /\ ~Silent(Word(s)', s, linked'[s])
    BY ToldNext
  <2>1. /\ page[s].welcomed /\ socket'[s] = socket[s] /\ linked'[s] = linked[s]
        /\ ~Corrected(down[s], page[s].shows) /\ linked[s] # 0
    BY ToldNext DEF PageKept
  <2>2. ~strayed /\ ~Silent(Word(s), s, linked[s])
    BY <1>d, <2>1 DEF TalkOk, ToldOk, TellsIt
  <2> QED BY <2>1, <2>2 DEF TalkKept
<1> QED BY <1>3, <1>4, <1>5, <1>6, <1>7, <1>8 DEF TalkOk

\* Of a page that the step does not concern.
LEMMA OtherPage ==
  ASSUME TalkOk, opened \in Nat, opened' \in Nat, opened' >= opened, NEW t \in Screen,
         socket[t] \in Nat, linked[t] \in Nat, page[t].conn \in Nat,
         page'[t] = page[t], socket'[t] = socket[t], down'[t] = down[t],
         LinkKept(t)
  PROVE  PageKept(t) /\ ConnKept(t)
<1>1. /\ socket[t] <= opened /\ linked[t] <= opened /\ page[t].conn <= opened
      /\ socket[t] # 0 => page[t].conn = socket[t]
      /\ net = "gone" /\ DOMAIN late = {} => socket[t] = 0
  BY DEF TalkOk, ConnsOk
<1>2. linked'[t] \in {0, linked[t]}
  BY DEF LinkKept
<1>3. socket'[t] <= opened' /\ linked'[t] <= opened' /\ page'[t].conn <= opened'
  BY <1>1, <1>2
<1>4. ConnKept(t)
  BY <1>1, <1>3 DEF TalkOk, GoneOk, ConnKept
<1>5. PageKept(t)
  BY <1>2 DEF PageKept
<1> QED BY <1>4, <1>5

-----------------------------------------------------------------------------
(* The pages. *)

\* What the lemmas on the steps of a page start from.
LEMMA Numbers ==
  ASSUME Types, TalkOk
  PROVE  /\ RelayTypes /\ HubTypes /\ DownTypes /\ DaemonTypes /\ PageTypes /\ CountTypes
         /\ ConnsOk /\ GoneOk /\ HubConns
         /\ opened \in Nat /\ opened # 0
         /\ \A t \in Screen : /\ socket[t] \in Nat /\ linked[t] \in Nat
                              /\ socket[t] <= opened /\ linked[t] <= opened
                              /\ socket[t] \in 0..MaxConn /\ page[t].conn \in Nat
                              /\ page[t].conn <= opened
                              /\ socket[t] # 0 => page[t].conn = socket[t]
                              /\ net = "gone" /\ DOMAIN late = {} => socket[t] = 0
                              /\ page[t].welcomed => page[t].conn # 0
                              /\ page[t].conn # 0 /\ socket[t] = 0 => HasGone(down[t])
<1>1. /\ RelayTypes /\ HubTypes /\ DownTypes /\ DaemonTypes /\ PageTypes /\ CountTypes
      /\ ConnsOk /\ GoneOk
  BY DEF Types, TalkOk
<1>2. HubConns
  BY <1>1, HubConnsIs
<1>3. opened \in Nat /\ opened # 0
  BY <1>1, HandoffAssumption DEF CountTypes
<1>4. \A t \in Screen : /\ socket[t] \in Nat /\ linked[t] \in Nat /\ page[t].conn \in Nat
                        /\ socket[t] \in 0..MaxConn
  BY <1>1, HandoffAssumption DEF RelayTypes, DaemonTypes, PageTypes, Page
<1> QED BY <1>1, <1>2, <1>3, <1>4 DEF ConnsOk, GoneOk

LEMMA ConnectTalks ==
  ASSUME Types, TalkOk, NEW s \in Screen, Connect(s)
  PROVE  TalkOk'
<1>0. /\ RelayTypes /\ HubTypes /\ DaemonTypes /\ PageTypes /\ CountTypes /\ HubConns
      /\ opened \in Nat
      /\ \A t \in Screen : /\ socket[t] \in Nat /\ linked[t] \in Nat
                           /\ socket[t] <= opened /\ linked[t] <= opened
                           /\ page[t].welcomed => page[t].conn # 0
                           /\ page[t].conn \in Nat
  BY Numbers
<1>1. /\ opened' = opened + 1 /\ opened + 1 \in 0..MaxConn
      /\ net # "gone" \/ DOMAIN late # {}
      /\ page[s].conn = 0 /\ UNCHANGED <<lease, over, down, net>>
      /\ page' = [page EXCEPT ![s].conn = opened + 1]
      /\ socket' = [socket EXCEPT ![s] = opened + 1]
      /\ Heard(OnHello(s, toHub), toHub)
  BY <1>0, HandoffAssumption DEF Connect, CountTypes
<1>2. Grows(toHub, toHub') /\ UNCHANGED <<late, strayed, held>>
  BY PageStepTypes DEF SaysMore
<1>3. /\ socket'[s] = opened + 1 /\ page'[s].conn = opened + 1
      /\ page'[s].welcomed = page[s].welcomed
      /\ \A t \in Screen : t # s => socket'[t] = socket[t] /\ page'[t] = page[t]
  BY <1>0, <1>1 DEF RelayTypes, PageTypes, Page
<1>4. CASE net = "up" /\ OnHello(s, toHub)
  <2>1. /\ toHub' \in Seq(Bounded(opened')) /\ linked'[s] = opened + 1
        /\ \A t \in Screen : t # s => linked'[t] = linked[t]
    BY <1>0, <1>1, <1>4, HelloLinks
  <2>2. \A t \in Screen : TalkKept(t)
    BY <1>0, <1>1, <1>4, HelloTalk DEF HubConns
  <2>3. \A t \in Screen : PageKept(t) /\ ConnKept(t)
    <3> SUFFICES ASSUME NEW t \in Screen PROVE PageKept(t) /\ ConnKept(t)
      OBVIOUS
    <3>1. CASE t = s
      BY <1>0, <1>1, <1>3, <2>1, <3>1 DEF PageKept, ConnKept
    <3>2. CASE t # s
      BY <1>0, <1>1, <1>3, <2>1, <3>2, OtherPage DEF LinkKept
    <3> QED BY <3>1, <3>2
  <2>4. Live' => Live
    BY <1>1 DEF Live
  <2> QED BY <1>0, <1>1, <1>2, <2>1, <2>2, <2>3, <2>4, QuietStep
<1>5. CASE (net # "up" \/ DOMAIN late # {}) /\ toHub' = toHub /\ UNCHANGED daemon
  <2>1. toHub' \in Seq(Bounded(opened')) /\ \A t \in Screen : linked'[t] = linked[t]
    <3>1. Bounded(opened) \subseteq Bounded(opened + 1)
      <4>1. \A k \in Message : k.conn \in Nat
        BY HandoffAssumption DEF Message
      <4> QED BY <1>0, <4>1 DEF Bounded
    <3>2. toHub \in Seq(Bounded(opened + 1))
      BY <1>0, <3>1 DEF HubConns
    <3>3. toHub' \in Seq(Bounded(opened'))
      BY <1>1, <1>5, <3>2
    <3> QED BY <1>5, <3>3 DEF daemon
  <2>2. \A t \in Screen : TalkKept(t)
    BY <1>5, DaemonSame DEF DaemonKept
  <2>3. \A t \in Screen : PageKept(t) /\ ConnKept(t)
    <3> SUFFICES ASSUME NEW t \in Screen PROVE PageKept(t) /\ ConnKept(t)
      OBVIOUS
    <3>1. CASE t = s
      BY <1>0, <1>1, <1>3, <1>5, <2>1, <3>1 DEF PageKept, ConnKept, Alone
    <3>2. CASE t # s
      BY <1>0, <1>1, <1>3, <2>1, <3>2, OtherPage DEF LinkKept
    <3> QED BY <3>1, <3>2
  <2>4. Live' => Live
    BY <1>1 DEF Live
  <2> QED BY <1>0, <1>1, <1>2, <2>1, <2>2, <2>3, <2>4, QuietStep
<1> QED BY <1>1, <1>4, <1>5 DEF Heard, Lost

LEMMA DropTalks ==
  ASSUME Types, TalkOk, NEW s \in Screen, PageDrop(s)
  PROVE  TalkOk'
<1>0. /\ RelayTypes /\ HubTypes /\ DaemonTypes /\ PageTypes /\ CountTypes /\ ConnsOk
      /\ opened \in Nat
      /\ \A t \in Screen : /\ socket[t] \in Nat /\ linked[t] \in Nat
                           /\ socket[t] <= opened /\ linked[t] <= opened
                           /\ page[t].conn \in Nat /\ page[t].conn <= opened
  BY Numbers
<1>1. /\ page' = Closed(s) /\ SocketClosed(s)
      /\ UNCHANGED <<lease, over, down, net, opened>>
  BY DEF PageDrop
<1>2. Grows(toHub, toHub') /\ UNCHANGED <<late, strayed, held>>
  BY PageStepTypes DEF SaysMore
<1>3. page'[s].conn = 0 /\ ~page'[s].welcomed /\ \A t \in Screen : t # s => page'[t] = page[t]
  BY <1>0, <1>1 DEF PageTypes, Page, Closed
<1>4. /\ toHub' \in Seq(Bounded(opened)) /\ \A t \in Screen : TalkKept(t)
      /\ \A t \in Screen : linked'[t] \in {0, linked[t]}
      /\ socket'[s] = 0
      /\ \A t \in Screen : t # s => socket'[t] = socket[t] /\ linked'[t] = linked[t]
  BY <1>0, <1>1, SocketKeeps
<1>5. \A t \in Screen : PageKept(t) /\ ConnKept(t)
  <2> SUFFICES ASSUME NEW t \in Screen PROVE PageKept(t) /\ ConnKept(t)
    OBVIOUS
  <2>1. CASE t = s
    BY <1>0, <1>1, <1>3, <1>4, <2>1 DEF PageKept, ConnKept
  <2>2. CASE t # s
    BY <1>0, <1>1, <1>3, <1>4, <2>2, OtherPage DEF LinkKept
  <2> QED BY <2>1, <2>2
<1>6. Live' => Live
  BY <1>1 DEF Live
<1> QED BY <1>0, <1>1, <1>2, <1>4, <1>5, <1>6, QuietStep

LEMMA RefusalCorrects ==
  ASSUME NEW q \in Seq(PageMessage), NEW fence \in Nat, NEW shows
  PROVE  LET r == Append(q, ToPage("refused", fence, TRUE, Reply))
         IN  Corrected(r, shows) /\ (HasGone(q) => HasGone(r))
<1> DEFINE m == ToPage("refused", fence, TRUE, Reply)
<1>1. m \in PageMessage /\ m.kind = "refused"
  BY Shapes DEF ToPage, PageMessage
<1>2. Undeceives(m) /\ ~Deceives(m)
  BY <1>1 DEF Undeceives, Deceives
<1> HIDE DEF m
<1>3. Corrected(Append(q, m), shows)
  BY <1>1, <1>2, CorrectedMore
<1>4. HasGone(q) => HasGone(Append(q, m))
  BY <1>1, GoneStays
<1> QED BY <1>3, <1>4 DEF m

LEMMA PressTalks ==
  ASSUME Types, TalkOk, NEW s \in Screen, Press(s)
  PROVE  TalkOk'
<1>0. /\ RelayTypes /\ HubTypes /\ DownTypes /\ DaemonTypes /\ PageTypes /\ CountTypes /\ ConnsOk
      /\ opened \in Nat
      /\ \A t \in Screen : /\ socket[t] \in Nat /\ linked[t] \in Nat
                           /\ socket[t] <= opened /\ linked[t] <= opened
                           /\ page[t].conn \in Nat /\ page[t].conn <= opened
                           /\ socket[t] # 0 => page[t].conn = socket[t]
                           /\ net = "gone" /\ DOMAIN late = {} => socket[t] = 0
                           /\ page[t].welcomed => page[t].conn # 0
                           /\ page[t].conn # 0 /\ socket[t] = 0 => HasGone(down[t])
  BY Numbers
<1>1. UNCHANGED <<lease, over, socket, net, page, opened>>
  BY DEF Press
<1>2. Grows(toHub, toHub') /\ UNCHANGED <<late, strayed, held>>
  BY PageStepTypes DEF SaysMore
<1>3. PICK kind \in {"claim", "release", "say"} : FromDevice(s, kind, page[s].fence, down)
  BY DEF Press
<1> DEFINE told == Append(down[s], ToPage("refused", lease.fence, TRUE, Reply))
<1>4. /\ toHub' \in Seq(Bounded(opened)) /\ \A t \in Screen : DaemonKept(t)
      /\ down' = down \/ down' = [down EXCEPT ![s] = told]
  BY <1>0, <1>3, DeviceKeeps
<1>5. \A shows : Corrected(told, shows) /\ (HasGone(down[s]) => HasGone(told))
  <2>1. down[s] \in Seq(PageMessage) /\ lease.fence \in Nat
    BY <1>0, Shapes DEF DownTypes, RelayTypes
  <2> QED BY <2>1, RefusalCorrects
<1> HIDE DEF told
<1>6. \A t \in Screen : PageKept(t) /\ ConnKept(t)
  <2> SUFFICES ASSUME NEW t \in Screen PROVE PageKept(t) /\ ConnKept(t)
    OBVIOUS
  <2>1. LinkKept(t) /\ linked'[t] <= opened
    BY <1>0, <1>4 DEF DaemonKept, LinkKept
  <2>2. CASE down'[t] = down[t]
    BY <1>0, <1>1, <2>1, <2>2, OtherPage
  <2>3. CASE t = s /\ down'[s] = told
    <3>1. PageKept(s)
      BY <1>5, <2>3 DEF PageKept
    <3>2. ConnKept(s)
      BY <1>0, <1>1, <1>5, <2>1, <2>3 DEF ConnKept
    <3> QED BY <2>3, <3>1, <3>2
  <2> QED BY <1>0, <1>4, <2>2, <2>3 DEF DownTypes
<1>7. Live' => Live
  BY <1>1 DEF Live
<1>8. \A t \in Screen : TalkKept(t)
  BY <1>4 DEF DaemonKept
<1> QED BY <1>0, <1>1, <1>2, <1>4, <1>6, <1>7, <1>8, QuietStep

LEMMA ReadTalks ==
  ASSUME Types, TalkOk, NEW s \in Screen, PageReads(s)
  PROVE  TalkOk'
<1> DEFINE m == Head(down[s])
           d == [down EXCEPT ![s] = Tail(down[s])]
           quiet == down' = d /\ UNCHANGED <<socket, holedUp, daemon, toHub>>
<1>0. /\ RelayTypes /\ HubTypes /\ DownTypes /\ DaemonTypes /\ PageTypes /\ CountTypes
      /\ ConnsOk /\ HubConns /\ opened \in Nat
      /\ \A t \in Screen : /\ socket[t] \in Nat /\ linked[t] \in Nat
                           /\ socket[t] <= opened /\ linked[t] <= opened
                           /\ page[t].conn \in Nat /\ page[t].conn <= opened
                           /\ socket[t] # 0 => page[t].conn = socket[t]
                           /\ net = "gone" /\ DOMAIN late = {} => socket[t] = 0
                           /\ page[t].welcomed => page[t].conn # 0
                           /\ page[t].conn # 0 /\ socket[t] = 0 => HasGone(down[t])
  BY Numbers
<1>1. /\ UNCHANGED <<lease, over, net, opened>> /\ down[s] # <<>>
      /\ down[s] \in Seq(PageMessage) /\ m \in PageMessage
      /\ d[s] = Tail(down[s]) /\ d[s] \in Seq(PageMessage)
      /\ \A t \in Screen : t # s => d[t] = down[t]
  BY <1>0 DEF PageReads, DownTypes, counts
<1>2. Grows(toHub, toHub') /\ UNCHANGED <<late, strayed, held>>
  BY PageReadTypes DEF SaysMore
<1>3. Live' => Live
  BY <1>1 DEF Live
<1>g. m.kind # "gone" /\ HasGone(down[s]) => HasGone(d[s])
  BY <1>1, GoneStays
\* The page read it and said nothing.
<1>4. ASSUME quiet, \A t \in Screen : t # s => page'[t] = page[t],
             page'[s].conn = page[s].conn, m.kind # "gone",
             page'[s].welcomed => page[s].welcomed,
             page'[s].welcomed /\ page'[s].shows = "mine" =>
               Deceives(m) \/ (page[s].shows = "mine" /\ ~Undeceives(m))
      PROVE  TalkOk'
  <2>1. /\ \A t \in Screen : DaemonKept(t) /\ linked'[t] = linked[t]
        /\ toHub' \in Seq(Bounded(opened')) /\ UNCHANGED socket /\ down' = d
    BY <1>0, <1>1, <1>4, DaemonSame DEF HubConns, daemon
  <2>2. PageKept(s)
    <3> SUFFICES ASSUME page'[s].welcomed, Corrected(down[s], page[s].shows)
                 PROVE  Corrected(d[s], page'[s].shows)
      BY <1>4, <2>1 DEF PageKept
    <3> DEFINE shows == page[s].shows
               now == page'[s].shows
    <3>1. now = "mine" => Deceives(m) \/ (shows = "mine" /\ ~Undeceives(m))
      BY <1>4
    <3> HIDE DEF now
    <3>2. Corrected(Tail(down[s]), now)
      BY <1>1, <3>1, CorrectedTail
    <3> QED BY <1>1, <3>2 DEF now
  <2>3. ConnKept(s)
    BY <1>0, <1>1, <1>4, <1>g, <2>1 DEF ConnKept, LinkKept
  <2>4. ASSUME NEW t \in Screen, t # s PROVE PageKept(t) /\ ConnKept(t)
    BY <1>0, <1>1, <1>4, <2>1, <2>4, OtherPage DEF LinkKept
  <2>5. \A t \in Screen : TalkKept(t) /\ PageKept(t) /\ ConnKept(t)
    BY <2>1, <2>2, <2>3, <2>4 DEF DaemonKept
  <2> HIDE DEF d
  <2> QED BY <1>0, <1>1, <1>2, <1>3, <2>1, <2>5, QuietStep
<1>5. CASE m.kind = "welcome" /\ page[s].conn # 0 /\ UNCHANGED socket
           /\ page' = [page EXCEPT ![s].welcomed = TRUE]
           /\ FromDevice(s, "say", page[s].fence, d)
  <2> DEFINE told == Append(d[s], ToPage("refused", lease.fence, TRUE, Reply))
  <2>1. /\ toHub' \in Seq(Bounded(opened)) /\ \A t \in Screen : DaemonKept(t)
        /\ \/ down' = d /\ (socket[s] = 0 \/ Allowed(s, page[s].fence))
           \/ down' = [d EXCEPT ![s] = told]
    <3> HIDE DEF d
    <3> QED BY <1>0, <1>5, DeviceKeeps
  <2>2. \A shows : Corrected(told, shows) /\ (HasGone(d[s]) => HasGone(told))
    <3>1. lease.fence \in Nat
      BY <1>0, Shapes DEF RelayTypes
    <3> QED BY <1>1, <3>1, RefusalCorrects
  <2> HIDE DEF told
  <2>3. /\ page'[s].conn = page[s].conn
        /\ \A t \in Screen : t # s => page'[t] = page[t] /\ down'[t] = down[t]
        /\ down'[s] = told \/ (down'[s] = d[s] /\ (socket[s] = 0 \/ Allowed(s, page[s].fence)))
    BY <1>0, <1>1, <1>5, <2>1 DEF PageTypes, Page, DownTypes
  <2>4. \A t \in Screen : LinkKept(t) /\ linked'[t] <= opened
    BY <1>0, <2>1 DEF DaemonKept, LinkKept
  <2>5. PageKept(s)
    BY <1>3, <1>5, <2>2, <2>3 DEF PageKept, Allowed
  <2>6. ConnKept(s)
    BY <1>0, <1>1, <1>5, <1>g, <2>2, <2>3, <2>4 DEF ConnKept
  <2>7. ASSUME NEW t \in Screen, t # s PROVE PageKept(t) /\ ConnKept(t)
    BY <1>0, <1>1, <1>5, <2>3, <2>4, <2>7, OtherPage
  <2>8. \A t \in Screen : TalkKept(t) /\ PageKept(t) /\ ConnKept(t)
    BY <2>1, <2>5, <2>6, <2>7 DEF DaemonKept
  <2> HIDE DEF d
  <2> QED BY <1>0, <1>1, <1>2, <1>3, <2>1, <2>8, QuietStep
<1>6. CASE m.kind = "f" /\ page[s].welcomed /\ m.whole /\ page' = Told(s, m) /\ quiet
  <2>1. /\ \A t \in Screen : t # s => page'[t] = page[t]
        /\ page'[s].welcomed = page[s].welcomed /\ page'[s].conn = page[s].conn
        /\ page'[s].shows = IF m.body.shows = "reply" THEN page[s].shows ELSE m.body.shows
    BY <1>0, <1>6 DEF Told, PageTypes, Page
  <2>2. page'[s].shows = "mine" => Deceives(m) \/ (page[s].shows = "mine" /\ ~Undeceives(m))
    BY <1>6, <2>1 DEF Deceives, Undeceives
  <2> HIDE DEF m, quiet
  <2> QED BY <1>0, <1>4, <1>6, <2>1, <2>2
\* The page closed its socket.
<1>7. ASSUME SocketClosed(s), down' = d, page'[s].conn = 0, ~page'[s].welcomed,
             \A t \in Screen : t # s => page'[t] = page[t]
      PROVE  TalkOk'
  <2>1. page'[s].conn = 0 /\ ~page'[s].welcomed /\ \A t \in Screen : t # s => page'[t] = page[t]
    BY <1>7
  <2>2. /\ toHub' \in Seq(Bounded(opened)) /\ \A t \in Screen : TalkKept(t)
        /\ \A t \in Screen : linked'[t] \in {0, linked[t]}
        /\ socket'[s] = 0
        /\ \A t \in Screen : t # s => socket'[t] = socket[t] /\ linked'[t] = linked[t]
    BY <1>0, <1>7, SocketKeeps
  <2>3. PageKept(s) /\ ConnKept(s)
    BY <1>0, <1>1, <2>1, <2>2 DEF PageKept, ConnKept
  <2>4. ASSUME NEW t \in Screen, t # s PROVE PageKept(t) /\ ConnKept(t)
    BY <1>0, <1>1, <1>7, <2>1, <2>2, <2>4, OtherPage DEF LinkKept
  <2>5. \A t \in Screen : TalkKept(t) /\ PageKept(t) /\ ConnKept(t)
    BY <2>2, <2>3, <2>4
  <2> HIDE DEF d
  <2> QED BY <1>0, <1>1, <1>2, <1>3, <2>2, <2>5, QuietStep
<1>8. CASE m.kind = "refused" /\ page[s].welcomed /\ quiet
           /\ page' = [page EXCEPT ![s].fence = m.fence, ![s].shows = "other"]
  <2>1. /\ \A t \in Screen : t # s => page'[t] = page[t]
        /\ page'[s].conn = page[s].conn /\ page'[s].shows = "other"
    BY <1>0, <1>8 DEF PageTypes, Page
  <2> HIDE DEF m, quiet
  <2> QED BY <1>0, <1>4, <1>8, <2>1
<1>9. CASE /\ page' \in {Closed(s), [Closed(s) EXCEPT ![s].fence = Stamped(s, m)]}
           /\ SocketClosed(s) /\ down' = d
  <2>1. page'[s].conn = 0 /\ ~page'[s].welcomed /\ \A t \in Screen : t # s => page'[t] = page[t]
    BY <1>0, <1>9 DEF PageTypes, Page, Closed
  <2> HIDE DEF m, d, quiet
  <2> QED BY <1>7, <1>9, <2>1
<1>10. CASE UNCHANGED page /\ quiet
            /\ \/ m.kind = "welcome" /\ page[s].conn = 0
               \/ m.kind \in {"f", "refused"} /\ ~page[s].welcomed
  <2> HIDE DEF m, quiet
  <2> QED BY <1>0, <1>4, <1>10
<1> HIDE DEF m, d, quiet
<1> QED BY <1>5, <1>6, <1>8, <1>9, <1>10 DEF PageReads, m, d, quiet

LEMMA FlushTalks ==
  ASSUME Types, TalkOk, Flush
  PROVE  TalkOk'
<1>0. /\ HubTypes /\ DaemonTypes /\ HubConns /\ opened \in Nat
      /\ \A t \in Screen : /\ socket[t] \in Nat /\ linked[t] \in Nat
                           /\ linked[t] <= opened /\ page[t].conn \in Nat
  BY Numbers
<1>1. /\ Emit(toHub, <<>>, queued, linked, <<>>)
      /\ UNCHANGED <<lease, over, socket, down, net, late, strayed, held, linked, page,
                      opened>>
  BY DEF Flush, counts
<1>2. /\ queued \in [Screen -> Seq(Body)] /\ linked \in [Screen -> 0..MaxConn]
      /\ toHub \in Seq(Message) /\ toHub \in Seq(Bounded(opened))
      /\ <<>> \in Seq(Message) /\ <<>> \in Seq(Unsaid) /\ <<>> \in Seq(Bounded(opened))
  BY <1>0 DEF DaemonTypes, HubTypes, HubConns
<1>3. Grows(toHub, toHub')
  BY <1>0, <1>1, <1>2, EmitTypes
<1>4. toHub' \in Seq(Bounded(opened))
  BY <1>0, <1>1, <1>2, EmitConns
<1>5. \A t \in Screen : TalkKept(t)
  BY <1>0, <1>1, <1>2, EmitTalk
<1>6. \A t \in Screen : PageKept(t) /\ ConnKept(t)
  BY <1>0, <1>1, OtherPage DEF LinkKept
<1>7. Live' => Live
  BY <1>1 DEF Live
<1> QED BY <1>0, <1>1, <1>3, <1>4, <1>5, <1>6, <1>7, QuietStep

LEMMA LapseTalks ==
  ASSUME Types, TalkOk, HubLapse \/ DaemonLapse \/ UNCHANGED vars
  PROVE  TalkOk'
<1>0. /\ HubTypes /\ HubConns /\ opened \in Nat
      /\ \A t \in Screen : socket[t] \in Nat /\ linked[t] \in Nat /\ page[t].conn \in Nat
  BY Numbers
<1>1. /\ UNCHANGED <<lease, net, late, strayed, held, toHub, linked, queued, socket, down,
                      page, opened>>
      /\ Live' => Live
  BY DEF HubLapse, DaemonLapse, vars, daemon, counts, Live
<1>2. Grows(toHub, toHub') /\ toHub' \in Seq(Bounded(opened'))
  BY <1>0, <1>1, NothingSaid DEF HubTypes, HubConns
<1>3. \A t \in Screen : TalkKept(t) /\ PageKept(t) /\ ConnKept(t)
  BY <1>0, <1>1, SameTalk, OtherPage DEF LinkKept
<1> QED BY <1>0, <1>1, <1>2, <1>3, QuietStep

-----------------------------------------------------------------------------
(* The relay reads. *)

LEMMA WordIs ==
  ASSUME HubTypes, DaemonTypes, NEW s \in Screen
  PROVE  /\ toHub \in Seq(Message)
         /\ Block(s, queued[s], linked[s], NoLease) \in Seq(Message)
         /\ Word(s) \in Seq(Message)
<1>1. toHub \in Seq(Message) /\ queued[s] \in Seq(Body) /\ linked[s] \in 0..MaxConn
  BY DEF HubTypes, DaemonTypes
<1>2. Block(s, queued[s], linked[s], NoLease) \in Seq(Message)
  BY <1>1, BlockIs, Shapes
<1> QED BY <1>1, <1>2 DEF Word

\* One message of the daemon's is read, and nothing else happens to what comes to s.
LEMMA WordIsRead ==
  ASSUME HubTypes, DaemonTypes, toHub # <<>>, toHub' = Tail(toHub), UNCHANGED daemon,
         NEW s \in Screen, NEW c, c = linked[s]
  PROVE  /\ EndsRight(Word(s), s, c, held) => EndsRight(Word(s)', s, c, held)
         /\ ~Notifies(Head(toHub), s, c)
              => (Silent(Word(s)', s, c) <=> Silent(Word(s), s, c))
         /\ Silent(Word(s), s, c) => ~Notifies(Head(toHub), s, c)
         /\ Notifies(Head(toHub), s, c) /\ EndsRight(Word(s), s, c, held)
              /\ Silent(Word(s)', s, c) => Right(Head(toHub), s, held)
<1> DEFINE b == Block(s, queued[s], linked[s], NoLease)
           w == toHub \o b
<1>1. toHub \in Seq(Message) /\ b \in Seq(Message)
  BY WordIs
<1>2. Word(s) = w /\ Word(s)' = Tail(toHub) \o b
  BY DEF Word, daemon
<1> HIDE DEF b
<1>3. w \in Seq(Message) /\ w # <<>> /\ Head(w) = Head(toHub) /\ Tail(w) = Tail(toHub) \o b
  BY <1>1
<1> HIDE DEF w
<1>4. /\ EndsRight(w, s, c, held) => EndsRight(Tail(w), s, c, held)
      /\ ~Notifies(Head(w), s, c) => (Silent(Tail(w), s, c) <=> Silent(w, s, c))
      /\ Notifies(Head(w), s, c) /\ EndsRight(w, s, c, held) /\ Silent(Tail(w), s, c)
           => Right(Head(w), s, held)
  BY <1>3, WordLeft
<1>5. Silent(w, s, c) => ~Notifies(Head(w), s, c)
  BY <1>3 DEF Silent
<1> QED BY <1>2, <1>3, <1>4, <1>5

\* Nothing of what comes on is news to s, and what waits for it is as before.
LEMMA OnlyWaiting ==
  ASSUME NEW S, NEW h \in Seq(S), NEW b \in Seq(S), NEW s, NEW c, NEW L,
         EndsRight(h \o b, s, c, L)
  PROVE  \A x \in Seq(S) : Silent(x, s, c) => EndsRight(x \o b, s, c, L)
<1> TAKE x \in Seq(S)
<1> HAVE Silent(x, s, c)
<1>1. CASE Silent(b, s, c)
  <2>1. Silent(x \o b, s, c)
    BY <1>1, SilentJoin
  <2> QED BY <2>1, SilentEnds
<1>2. CASE ~Silent(b, s, c)
  <2>1. EndsRight(b, s, c, L)
    BY <1>2, EndsJoin
  <2> QED BY <1>2, <2>1, EndsJoin
<1> QED BY <1>1, <1>2

\* What the relay reads next, and what it leaves in the queue the daemon writes to now:
\* a message from there, or one of a socket that has been replaced.
Reads(m, rest) ==
  \/ toHub # <<>> /\ m = Head(toHub) /\ rest = Tail(toHub)
  \/ DOMAIN late # {} /\ rest = toHub

LEMMA ReadsConns ==
  ASSUME Types, TalkOk, NEW m, NEW rest, Reads(m, rest), toHub' = rest, opened' = opened,
         UNCHANGED <<linked, net, page>>, DOMAIN late' = DOMAIN late,
         \A t \in Screen : socket'[t] \in {0, socket[t]}
  PROVE  ConnsOk'
<1>0. /\ HubTypes /\ HubConns /\ ConnsOk /\ opened \in Nat
      /\ \A t \in Screen : /\ socket[t] \in Nat /\ linked[t] \in Nat
                           /\ socket[t] <= opened /\ linked[t] <= opened
                           /\ page[t].conn \in Nat /\ page[t].conn <= opened
                           /\ socket[t] # 0 => page[t].conn = socket[t]
                           /\ net = "gone" /\ DOMAIN late = {} => socket[t] = 0
  BY Numbers
<1>1. toHub' \in Seq(Bounded(opened))
  <2>1. toHub \in Seq(Bounded(opened))
    BY <1>0 DEF HubConns
  <2>2. CASE toHub # <<>> /\ rest = Tail(toHub)
    BY <2>1, <2>2
  <2>3. CASE rest = toHub
    BY <2>1, <2>3
  <2> QED BY <2>2, <2>3 DEF Reads
<1>2. \A i \in 1..Len(toHub') : toHub'[i] \in Bounded(opened)
  BY <1>1
<1>3. \A i \in 1..Len(toHub') : toHub'[i].conn <= opened'
  BY <1>2 DEF Bounded
<1> QED BY <1>0, <1>3 DEF ConnsOk

\* A message that is read takes nothing from what comes to s but itself.
LEMMA ReadsWord ==
  ASSUME Types, TalkOk, NEW m, NEW rest, Reads(m, rest), toHub' = rest, UNCHANGED daemon
  PROVE  SaidOk'
<1>0. HubTypes /\ DaemonTypes
  BY Numbers
<1> SUFFICES ASSUME NEW s \in Screen, linked[s] # 0
             PROVE  EndsRight(Word(s)', s, linked[s], held)
  BY SaidNext DEF daemon
<1>1. EndsRight(Word(s), s, linked[s], held)
  BY DEF TalkOk, SaidOk
<1>2. CASE rest = toHub
  <2>1. Word(s)' = Word(s)
    BY <1>2 DEF Word, daemon
  <2> QED BY <1>1, <2>1
<1>3. CASE toHub # <<>> /\ rest = Tail(toHub)
  BY <1>0, <1>1, <1>3, WordIsRead
<1> QED BY <1>2, <1>3 DEF Reads

LEMMA PassTalks ==
  ASSUME Types, Heeded, TalkOk, NEW m \in Message, NEW rest, Reads(m, rest), PassOn(m, rest),
         UNCHANGED <<over, holedUp, net, page, counts>>, DOMAIN late' = DOMAIN late
  PROVE  TalkOk'
<1> DEFINE gone == ToPage("gone", 0, TRUE, Reply)
           note == ToPage(m.kind, m.stamp.fence, m.s \notin holedDown, m.body)
<1>0. /\ RelayTypes /\ HubTypes /\ DownTypes /\ DaemonTypes /\ PageTypes
      /\ ConnsOk /\ HubConns /\ opened \in Nat
      /\ \A t \in Screen : /\ socket[t] \in Nat /\ linked[t] \in Nat
                           /\ page[t].welcomed => page[t].conn # 0
                           /\ page[t].conn # 0 /\ socket[t] = 0 => HasGone(down[t])
  BY Numbers
<1>1. /\ UNCHANGED <<lease, daemon, held, linked, over, net, page, opened, strayed>>
      /\ toHub' = rest /\ m.kind \in {"welcome", "f", "close"}
      /\ m.s \in Screen
      /\ gone \in PageMessage /\ (m.kind # "close" => note \in PageMessage)
  <2>1. m.kind \in {"welcome", "f", "close"} /\ toHub' = rest
        /\ UNCHANGED <<lease, daemon, held, linked, over, net, page, opened, strayed>>
    BY DEF PassOn, daemon, counts
  <2>2. m.s \in Screen /\ m.stamp \in Known /\ m.body \in Body /\ m.stamp.fence \in Nat
    BY <2>1, Shapes DEF Message, Kinds
  <2>3. gone \in PageMessage
    BY Shapes, HandoffAssumption DEF ToPage, PageMessage
  <2>4. m.kind # "close" => note \in PageMessage
    BY <2>1, <2>2 DEF ToPage, PageMessage
  <2> QED BY <2>1, <2>2, <2>3, <2>4
<1>2. gone.kind = "gone" /\ note.kind = m.kind /\ note.body = m.body
  BY DEF ToPage
<1>3. \A t \in Screen :
        \/ UNCHANGED <<socket[t], down[t]>> /\ (m.s # t \/ socket[t] # m.conn)
        \/ UNCHANGED <<socket[t], down[t]>> /\ m.kind # "close" /\ Stale(m)
        \/ socket'[t] = 0 /\ down'[t] = Append(down[t], gone)
        \/ /\ m.s = t /\ socket[t] = m.conn /\ m.kind # "close"
           /\ socket'[t] = socket[t] /\ down'[t] = Append(down[t], note)
  <2> HIDE DEF gone, note
  <2>1. /\ socket \in [Screen -> 0..MaxConn] /\ down \in [Screen -> Seq(PageMessage)]
    BY <1>0 DEF RelayTypes, DownTypes
  <2>2. CASE socket[m.s] # m.conn /\ UNCHANGED <<socket, holedDown, down>>
    BY <2>2
  <2>3. CASE socket' = [socket EXCEPT ![m.s] = 0] /\ socket[m.s] = m.conn
             /\ down' = [down EXCEPT ![m.s] = Append(down[m.s], gone)]
    BY <1>1, <2>1, <2>3
  <2>4. CASE UNCHANGED <<socket, down>> /\ m.kind # "close" /\ Stale(m)
    BY <2>4
  <2>5. CASE /\ socket[m.s] = m.conn /\ m.kind # "close" /\ UNCHANGED socket
             /\ down' = [down EXCEPT ![m.s] = Append(down[m.s], note)]
    BY <1>1, <2>1, <2>5
  <2> QED BY <2>2, <2>3, <2>4, <2>5 DEF PassOn, gone, note
<1> HIDE DEF gone, note
<1>d. \A t \in Screen : down[t] \in Seq(PageMessage)
  BY <1>0 DEF DownTypes
\* What is said of a relay without a replaced socket is about the daemon's own queue.
<1>a. Alone => toHub # <<>> /\ m = Head(toHub) /\ toHub' = Tail(toHub)
  BY <1>1 DEF Reads, Alone
<1>4. ConnsOk'
  BY <1>1, <1>3, ReadsConns
<1>5. GoneOk'
  <2> SUFFICES ASSUME NEW t \in Screen, page[t].conn # 0, socket'[t] = 0
               PROVE  HasGone(down'[t])
    BY <1>0, <1>1, LinkedNext
  <2>1. socket[t] = 0 => HasGone(down[t])
    BY <1>0
  <2>2. CASE down'[t] = Append(down[t], gone)
    BY <1>1, <1>2, <1>d, <2>2, GoneStays
  <2>3. CASE m.kind # "close" /\ down'[t] = Append(down[t], note) /\ socket'[t] = socket[t]
    BY <1>1, <1>d, <2>1, <2>3, GoneStays
  <2> QED BY <1>3, <2>1, <2>2, <2>3
<1>6. LinkedOk'
  <2> SUFFICES ASSUME Alone, NEW t \in Screen, socket'[t] # 0, linked[t] # socket'[t]
               PROVE  CloseComes(toHub', t, socket'[t])
    BY <1>1, LinkedNext DEF Alone
  <2>1. socket'[t] = socket[t] /\ CloseComes(toHub, t, socket[t])
    BY <1>3 DEF TalkOk, LinkedOk
  <2>2. ~(m.kind = "close" /\ m.s = t /\ m.conn = socket[t])
    BY <1>3, <2>1
  <2> QED BY <1>0, <1>a, <2>1, <2>2, CloseIsRead DEF HubTypes
<1>7. SaidOk'
  BY <1>1, ReadsWord
\* A screen that does not drive now did not before, and stays connected.
<1>v. \A t \in Screen : Driven(t)' => Driven(t) /\ Alone /\ socket'[t] = socket[t]
  <2> SUFFICES ASSUME NEW t \in Screen, Driven(t)'
               PROVE  Driven(t) /\ Alone /\ socket'[t] = socket[t]
    OBVIOUS
  <2>1. Alone /\ Live /\ NoState(toHub') /\ lease.holder # t /\ socket'[t] # 0
        /\ linked[t] = socket'[t]
    BY <1>1, ToldNext DEF Alone, Live
  <2>2. NoState(toHub)
    BY <1>0, <1>1, <1>a, <2>1, StateLeft
  <2>3. socket'[t] = socket[t]
    BY <1>3, <2>1
  <2> QED BY <2>1, <2>2, <2>3 DEF Driven
\* What the daemon is to say, when a message of its own is read.
<1>w. ASSUME Alone, NEW t \in Screen
      PROVE  /\ ~Notifies(m, t, linked[t])
                  => (Silent(Word(t)', t, linked[t]) <=> Silent(Word(t), t, linked[t]))
             /\ Silent(Word(t), t, linked[t])
                  => ~Notifies(m, t, linked[t]) /\ Silent(Word(t)', t, linked[t])
             /\ /\ Notifies(m, t, linked[t]) /\ EndsRight(Word(t), t, linked[t], held)
                /\ Silent(Word(t)', t, linked[t])
                => Right(m, t, held)
  BY <1>0, <1>1, <1>a, <1>w, WordIsRead
<1>8. StrayedOk'
  <2> SUFFICES ASSUME NEW t \in Screen, Driven(t)', strayed
               PROVE  Silent(Word(t)', t, linked[t])
    BY <1>1, ToldNext
  <2>1. Alone /\ Silent(Word(t), t, linked[t])
    BY <1>v DEF TalkOk, StrayedOk
  <2> QED BY <1>w, <2>1
<1>9. ToldOk'
  <2> SUFFICES ASSUME NEW t \in Screen, Driven(t)', page[t].welcomed,
                      strayed \/ Silent(Word(t)', t, linked[t])
               PROVE  Corrected(down'[t], page[t].shows)
    BY <1>1, ToldNext
  <2>1. /\ Driven(t) /\ Alone /\ socket'[t] = socket[t] /\ TellsIt(t) /\ Live
        /\ NoState(toHub) /\ lease.holder # t /\ linked[t] # 0 /\ linked[t] = socket[t]
        /\ net = "up"
    BY <1>v DEF TalkOk, ToldOk, Driven, Alone
  <2>2. strayed => Silent(Word(t), t, linked[t])
    BY <2>1 DEF TalkOk, StrayedOk
  <2>3. Silent(Word(t)', t, linked[t])
    BY <1>w, <2>1, <2>2
  <2>4. CASE Notifies(m, t, linked[t])
    <3>1. ~strayed /\ Right(m, t, held)
      <4>1. EndsRight(Word(t), t, linked[t], held)
        BY <2>1 DEF TalkOk, SaidOk
      <4> QED BY <1>w, <2>1, <2>2, <2>3, <2>4, <4>1
    <3>2. held = lease /\ lease # NoLease
      BY <2>1, <3>1 DEF Heeded, Live
    <3>3. m.body = Notice(t, lease) /\ m.stamp \in {NoLease, lease}
      BY <3>1, <3>2 DEF Right
    <3>4. ~Stale(m)
      <4>1. lease.fence \in Nat
        BY <1>0, HandoffAssumption, Shapes DEF RelayTypes
      <4> QED BY <3>3, <4>1 DEF Stale
    <3>5. down'[t] = Append(down[t], note) /\ m.kind = "f"
      BY <1>3, <2>1, <2>4, <3>4 DEF Notifies
    <3>6. note.kind = "f" /\ note.body.shows = "other"
      BY <1>2, <2>1, <3>2, <3>3, <3>5 DEF Notice
    <3>7. Undeceives(note) /\ ~Deceives(note)
      BY <3>6 DEF Undeceives, Deceives
    <3> QED BY <1>1, <1>d, <3>5, <3>7, CorrectedMore
  <2>5. CASE ~Notifies(m, t, linked[t])
    <3>1. Silent(Word(t), t, linked[t])
      BY <1>w, <2>1, <2>3, <2>5
    <3>2. Corrected(down[t], page[t].shows)
      BY <2>1, <3>1 DEF TellsIt
    <3>3. CASE m.s = t /\ socket[t] = m.conn /\ m.kind # "close" /\ down'[t] = Append(down[t], note)
      <4>1. ~Deceives(note)
        BY <1>1, <1>2, <2>1, <2>5, <3>3 DEF Deceives, Notifies
      <4> QED BY <1>1, <1>d, <3>2, <3>3, <4>1, CorrectedMore
    <3> QED BY <1>3, <2>1, <3>2, <3>3
  <2> QED BY <2>4, <2>5
<1> QED BY <1>4, <1>5, <1>6, <1>7, <1>8, <1>9 DEF TalkOk

\* The relay's answer: every screen the daemon has a session with is told of it.
LEMMA NewsTalk ==
  ASSUME DaemonTypes, NEW rest \in Seq(Message), NEW of,
         \A s \in Screen : Notice(s, of) \in Body,
         toHub' = rest, linked' = linked,
         queued' = [s \in Screen |-> IF linked[s] = 0 THEN queued[s]
                                     ELSE Append(queued[s], Notice(s, of))],
         NEW s \in Screen, linked[s] # 0
  PROVE  EndsRight(Word(s)', s, linked[s], of) /\ ~Silent(Word(s)', s, linked[s])
<1> DEFINE n == Notice(s, of)
           q == queued[s]
           c == linked[s]
           y == Block(s, <<n>>, c, NoLease)
           w == rest \o Block(s, q, c, NoLease)
<1>1. q \in Seq(Body) /\ n \in Body /\ c \in 0..MaxConn
      /\ <<n>> \in Seq(Body) /\ Len(<<n>>) = 1 /\ <<n>>[1] = n /\ Append(q, n) = q \o <<n>>
  <2>1. q \in Seq(Body) /\ c \in 0..MaxConn
    BY DEF DaemonTypes
  <2>2. n \in Body
    OBVIOUS
  <2> HIDE DEF n, q, c
  <2>3. <<n>> \in Seq(Body) /\ Len(<<n>>) = 1 /\ <<n>>[1] = n
    BY <2>2
  <2>4. Append(q, n) = q \o <<n>>
    BY <2>1, <2>2, AppendIsConcat
  <2> QED BY <2>1, <2>2, <2>3, <2>4
<1>2. n.shows # "reply"
  BY DEF Notice
<1>3. Word(s)' = rest \o Block(s, q \o <<n>>, c, NoLease)
  <2>1. queued'[s] = q \o <<n>>
    BY <1>1
  <2> QED BY <2>1 DEF Word
<1> HIDE DEF q, c
<1>4. /\ y \in Seq(Message) /\ Len(y) = 1
      /\ y[1] = ToHub("f", s, c, NoLease, n)
  <2> HIDE DEF n
  <2>1. NoLease \in Known
    BY Shapes
  <2>2. /\ y \in Seq(Message) /\ Len(y) = Len(<<n>>)
        /\ \A i \in 1..Len(<<n>>) : y[i] = ToHub("f", s, c, NoLease, <<n>>[i])
    BY <1>1, <2>1, BlockIs
  <2> QED BY <1>1, <2>2
<1>5. /\ rest \o Block(s, q \o <<n>>, c, NoLease) = w \o y
      /\ w \in Seq(Message)
  <2> HIDE DEF n
  <2> QED BY <1>1, LongerWord
<1> HIDE DEF w, y
<1>6. Notifies(y[1], s, c) /\ Right(y[1], s, of)
  BY <1>2, <1>4 DEF Notifies, Right, ToHub
<1>7. ~Silent(y, s, c) /\ EndsRight(y, s, c, of)
  BY <1>4, <1>6 DEF Silent, EndsRight
<1>8. EndsRight(w \o y, s, c, of) /\ ~Silent(w \o y, s, c)
  BY <1>4, <1>5, <1>7, EndsJoin, SilentJoin
<1> QED BY <1>3, <1>5, <1>8 DEF c

\* Of the relay's answers: what does not hang on the answer.
LEMMA AnswerKeeps ==
  ASSUME Types, TalkOk, NEW m, NEW rest, Reads(m, rest), toHub' = rest, linked' = linked,
         m.kind \in {"claim", "release", "state"},
         UNCHANGED <<socket, down, net, page, opened>>, DOMAIN late' = DOMAIN late
  PROVE  ConnsOk' /\ GoneOk' /\ LinkedOk'
<1>0. /\ HubTypes
      /\ \A t \in Screen : /\ page[t].welcomed => page[t].conn # 0
                           /\ page[t].conn # 0 /\ socket[t] = 0 => HasGone(down[t])
  BY Numbers
<1>1. ConnsOk'
  BY ReadsConns
<1>2. GoneOk'
  BY <1>0, LinkedNext
<1>3. LinkedOk'
  <2> SUFFICES ASSUME Alone, NEW t \in Screen, socket[t] # 0, linked[t] # socket[t]
               PROVE  CloseComes(toHub', t, socket[t])
    BY LinkedNext DEF Alone
  <2>1. CloseComes(toHub, t, socket[t])
    BY DEF TalkOk, LinkedOk
  <2>2. toHub # <<>> /\ m = Head(toHub) /\ toHub' = Tail(toHub)
    BY DEF Reads, Alone
  <2> QED BY <1>0, <2>1, <2>2, CloseIsRead DEF HubTypes
<1> QED BY <1>1, <1>2, <1>3

\* The relay answers the daemon.
LEMMA AnswerTalks ==
  ASSUME Types, TalkOk, NEW m, NEW rest \in Seq(Message), Reads(m, rest),
         m.kind \in {"claim", "release", "state"},
         NEW kind, NEW of, \A s \in Screen : Notice(s, of) \in Body,
         Answer(kind, of, rest),
         kind = "refused" => lease' = lease /\ m.kind = "release",
         UNCHANGED <<over, socket, down, net, page, opened>>, DOMAIN late' = DOMAIN late
  PROVE  TalkOk'
<1>0. HubTypes /\ DaemonTypes
  BY Numbers
<1>1. toHub' = rest /\ linked' = linked
  BY DEF Answer, Lost, OnHandoff, daemon
<1>2. ConnsOk' /\ GoneOk' /\ LinkedOk'
  BY <1>1, AnswerKeeps
<1>3. CASE net = "up" /\ kind # "refused" /\ OnHandoff(kind, of, rest) /\ ~strayed'
  <2>1. /\ held' = of
        /\ queued' = [s \in Screen |-> IF linked[s] = 0 THEN queued[s]
                                       ELSE Append(queued[s], Notice(s, of))]
    BY <1>3 DEF OnHandoff
  <2>2. \A s \in Screen : linked[s] # 0 =>
          EndsRight(Word(s)', s, linked[s], of) /\ ~Silent(Word(s)', s, linked[s])
    BY <1>0, <1>1, <2>1, NewsTalk
  <2>3. SaidOk'
    BY <1>1, <2>1, <2>2, SaidNext
  <2>4. StrayedOk' /\ ToldOk'
    BY <1>1, <1>3, <2>2, ToldNext
  <2> QED BY <1>2, <2>3, <2>4 DEF TalkOk
<1>4. CASE UNCHANGED daemon /\ (~Alone \/ (kind = "refused" /\ strayed' = strayed))
  <2>1. held' = held
    BY <1>4 DEF daemon
  <2>2. SaidOk'
    BY <1>1, <1>4, ReadsWord
  \* Only a refusal, of which nobody else hears, matters to a screen that does not drive.
  <2>3. ASSUME NEW s \in Screen, Driven(s)'
        PROVE  /\ Driven(s) /\ strayed' = strayed
               /\ Silent(Word(s)', s, linked[s]) <=> Silent(Word(s), s, linked[s])
    <3>1. /\ Alone /\ NoState(toHub') /\ Live' /\ lease'.holder # s
          /\ socket[s] # 0 /\ linked[s] = socket[s]
      BY <1>1, <2>3, ToldNext DEF Alone
    <3>2. lease' = lease /\ m.kind = "release" /\ strayed' = strayed
      BY <1>4, <3>1
    <3>3. toHub # <<>> /\ m = Head(toHub) /\ toHub' = Tail(toHub)
      BY <1>1, <3>1 DEF Reads, Alone
    <3>4. NoState(toHub) /\ Live
      BY <1>0, <3>1, <3>2, <3>3, StateLeft DEF Live
    <3>5. ~Notifies(Head(toHub), s, linked[s])
      BY <3>2, <3>3 DEF Notifies
    <3>6. Silent(Word(s)', s, linked[s]) <=> Silent(Word(s), s, linked[s])
      BY <1>0, <1>4, <3>3, <3>5, WordIsRead
    <3> QED BY <3>1, <3>2, <3>4, <3>6 DEF Driven
  <2>4. StrayedOk'
    BY <1>1, <2>3, ToldNext DEF TalkOk, StrayedOk
  <2>5. ToldOk'
    BY <1>1, <2>3, ToldNext DEF TalkOk, ToldOk, TellsIt
  <2> QED BY <1>2, <2>2, <2>4, <2>5 DEF TalkOk
<1>5. ASSUME OnHandoff(kind, of, rest), kind = "refused" PROVE UNCHANGED daemon
  BY <1>5 DEF OnHandoff, daemon
<1>6. Lost(rest) => UNCHANGED daemon /\ ~Alone
  BY DEF Lost, Alone
<1>7. CASE net = "up" /\ OnHandoff(kind, of, rest) /\ strayed' = (strayed /\ kind = "refused")
  <2>1. CASE kind = "refused"
    <3>1. strayed' = strayed
      BY <1>7, <2>1, HandoffAssumption DEF Types, LateTypes
    <3> QED BY <1>4, <1>5, <1>7, <2>1, <3>1
  <2>2. CASE kind # "refused"
    <3>1. ~strayed'
      BY <1>7, <2>2
    <3> QED BY <1>3, <1>7, <2>2, <3>1
  <2> QED BY <2>1, <2>2
<1> QED BY <1>4, <1>6, <1>7 DEF Answer

LEMMA HubTalks ==
  ASSUME Types, Heeded, TalkOk, Types', NEW m \in Message, NEW rest \in Seq(Message),
         Reads(m, rest), HubReads(m, rest), DOMAIN late' = DOMAIN late
  PROVE  TalkOk'
<1>0. UNCHANGED <<over, holedUp, net, page, counts>> /\ UNCHANGED opened
  BY DEF HubReads, counts
<1>1. \A of \in Known' : \A s \in Screen : Notice(s, of) \in Body
  BY HandoffAssumption DEF Notice, Body, Known, Lease, NoLease
<1>2. lease' \in Known' /\ NoLease \in Known'
  BY DEF Types, RelayTypes, Known
<1>3. CASE PassOn(m, rest)
  BY <1>0, <1>3, PassTalks
<1>4. CASE Claim(m, rest)
  <2>1. /\ m.kind = "claim" /\ UNCHANGED <<socket, down>>
        /\ Answer("claimed", lease', rest)
    BY <1>4 DEF Claim
  <2>2. \A s \in Screen : Notice(s, lease') \in Body
    BY <1>1, <1>2
  <2> QED BY <1>0, <2>1, <2>2, AnswerTalks
<1>5. CASE Release(m, rest)
  <2> DEFINE mine == lease.holder = m.s /\ lease.fence = m.stamp.fence
             kind == IF mine THEN "released" ELSE "refused"
  <2>1. /\ m.kind = "release" /\ UNCHANGED <<socket, down>>
        /\ kind = "refused" => lease' = lease
        /\ Answer(kind, NoLease, rest)
    BY <1>5 DEF Release
  <2>2. \A s \in Screen : Notice(s, NoLease) \in Body
    BY <1>1, <1>2
  <2> HIDE DEF kind
  <2> QED BY <1>0, <2>1, <2>2, AnswerTalks
<1>6. CASE State(m, rest)
  <2> DEFINE of == IF Live THEN lease ELSE NoLease
  <2>1. /\ m.kind = "state" /\ UNCHANGED <<lease, socket, down>>
        /\ Answer("state", of, rest)
    BY <1>6 DEF State
  <2>2. of \in Known'
    BY <1>2, <2>1
  <2> HIDE DEF of
  <2>3. \A s \in Screen : Notice(s, of) \in Body
    BY <1>1, <2>2
  <2> QED BY <1>0, <2>1, <2>3, AnswerTalks
<1> QED BY <1>3, <1>4, <1>5, <1>6 DEF HubReads

LEMMA DaemonReadTalks ==
  ASSUME Types, Heeded, TalkOk, FromDaemon
  PROVE  TalkOk'
<1>1. Types'
  BY FromDaemonTypes
<1>2. /\ toHub # <<>> /\ Head(toHub) \in Message /\ Tail(toHub) \in Seq(Message)
      /\ HubReads(Head(toHub), Tail(toHub)) /\ DOMAIN late' = DOMAIN late
  BY HeadTypes DEF FromDaemon, Types, HubTypes
<1>3. Reads(Head(toHub), Tail(toHub))
  BY <1>2 DEF Reads
<1> QED BY <1>1, <1>2, <1>3, HubTalks

LEMMA ReplacedReadTalks ==
  ASSUME Types, Heeded, TalkOk, NEW k, FromReplaced(k)
  PROVE  TalkOk'
<1>1. Types'
  BY FromReplacedTypes
<1>2. /\ k \in DOMAIN late /\ late[k] # <<>> /\ late[k] \in Seq(Message)
      /\ toHub \in Seq(Message)
  BY DEF FromReplaced, Types, HubTypes, LateTypes
<1>3. /\ Head(late[k]) \in Message /\ HubReads(Head(late[k]), toHub)
      /\ DOMAIN late' = DOMAIN late
  BY <1>2, HeadTypes DEF FromReplaced
<1>4. Reads(Head(late[k]), toHub)
  BY <1>2 DEF Reads
<1> QED BY <1>1, <1>2, <1>3, <1>4, HubTalks

-----------------------------------------------------------------------------
(* The link goes and comes. *)

LEMMA LostTalks ==
  ASSUME Types, TalkOk, LinkLost
  PROVE  TalkOk'
<1>0. /\ ConnsOk /\ opened \in Nat
      /\ \A t \in Screen : /\ page[t].welcomed => page[t].conn # 0
                           /\ page[t].conn # 0 /\ socket[t] = 0 => HasGone(down[t])
  BY Numbers
<1>1. /\ net' = "lost" /\ UNCHANGED <<socket, toHub, down, page, opened>>
      /\ \A t \in Screen : linked'[t] = 0
  BY DEF LinkLost
<1>2. ConnsOk'
  BY <1>0, <1>1 DEF ConnsOk
<1>3. GoneOk' /\ LinkedOk' /\ SaidOk' /\ StrayedOk' /\ ToldOk'
  BY <1>0, <1>1, LinkedNext, SaidNext, ToldNext
<1> QED BY <1>2, <1>3 DEF TalkOk

\* The queue to the relay is emptied, and what waits for the screens is kept.
LEMMA AnotherHub ==
  ASSUME Types, TalkOk, UNCHANGED <<held, linked, queued>>, toHub' \in Seq(Message),
         \A s \in Screen : Silent(toHub', s, linked[s])
  PROVE  SaidOk'
<1>0. HubTypes /\ DaemonTypes
  BY Numbers
<1> SUFFICES ASSUME NEW s \in Screen, linked[s] # 0
             PROVE  EndsRight(Word(s)', s, linked[s], held)
  BY SaidNext
<1> DEFINE b == Block(s, queued[s], linked[s], NoLease)
           x == toHub'
<1>1. toHub \in Seq(Message) /\ b \in Seq(Message)
  BY <1>0, WordIs
<1>2. Word(s) = toHub \o b /\ Word(s)' = x \o b
  BY DEF Word
<1>3. EndsRight(toHub \o b, s, linked[s], held) /\ Silent(x, s, linked[s]) /\ x \in Seq(Message)
  BY <1>2 DEF TalkOk, SaidOk
<1> HIDE DEF b, x
<1>4. EndsRight(x \o b, s, linked[s], held)
  BY <1>1, <1>3, OnlyWaiting
<1> QED BY <1>2, <1>4

\* A socket of the daemon's closes, and with it every page's.
LEMMA ClosedTalks ==
  ASSUME Types, TalkOk, DaemonGone \/ DialFails \/ \E k \in 1..MaxLoss : ReplacedClosed(k)
  PROVE  TalkOk'
<1> DEFINE gone == ToPage("gone", 0, TRUE, Reply)
<1>0. /\ HubTypes /\ DownTypes /\ DaemonTypes /\ ConnsOk /\ opened \in Nat
      /\ \A t \in Screen : /\ linked[t] <= opened /\ page[t].conn <= opened
                           /\ page[t].welcomed => page[t].conn # 0
                           /\ page[t].conn # 0 /\ socket[t] = 0 => HasGone(down[t])
  BY Numbers
<1>1. /\ UNCHANGED <<daemon, held, linked, queued, page, opened>> /\ toHub' \in {<<>>, toHub}
      /\ \A t \in Screen :
           /\ socket'[t] = 0
           /\ down'[t] = IF socket[t] = 0 THEN down[t] ELSE Append(down[t], gone)
  BY DEF DaemonGone, DialFails, ReplacedClosed, PagesClosed, daemon
<1>2. gone \in PageMessage /\ gone.kind = "gone"
  BY Shapes, HandoffAssumption DEF ToPage, PageMessage
<1> HIDE DEF gone
<1>3. \A t \in Screen : socket[t] # 0 => HasGone(down'[t])
  BY <1>0, <1>1, <1>2, GoneStays DEF DownTypes
<1>4. ConnsOk'
  <2>1. \A i \in 1..Len(toHub') : toHub'[i].conn <= opened
    BY <1>0, <1>1 DEF ConnsOk
  <2> QED BY <1>0, <1>1, <2>1 DEF ConnsOk
<1>5. GoneOk' /\ LinkedOk' /\ StrayedOk' /\ ToldOk'
  BY <1>0, <1>1, <1>3, LinkedNext, ToldNext
<1>6. SaidOk'
  <2>1. CASE toHub' = <<>>
    <3>1. <<>> \in Seq(Message) /\ \A s, c : Silent(<<>>, s, c)
      BY DEF Silent
    <3> QED BY <1>1, <2>1, <3>1, AnotherHub
  <2>2. CASE toHub' = toHub
    <3>1. \A s : Word(s)' = Word(s)
      BY <1>1, <2>2 DEF Word
    <3> QED BY <1>1, <3>1, SaidNext DEF TalkOk, SaidOk
  <2> QED BY <1>1, <2>1, <2>2
<1> QED BY <1>4, <1>5, <1>6 DEF TalkOk

\* The daemon signs in: there is no page yet, or a replaced socket.
LEMMA UpTalks ==
  ASSUME Types, TalkOk, LinkUp \/ Redial
  PROVE  TalkOk'
<1> DEFINE m == ToHub("state", "nobody", 0, NoLease, Reply)
<1>0. /\ ConnsOk /\ opened \in Nat
      /\ \A t \in Screen : /\ page[t].welcomed => page[t].conn # 0
                           /\ page[t].conn # 0 /\ socket[t] = 0 => HasGone(down[t])
  BY Numbers
<1>1. /\ toHub' = <<m>> /\ net' = "up"
      /\ UNCHANGED <<held, linked, queued, socket, down, page, opened>>
  BY DEF LinkUp, Redial, SignIn, daemon, counts
<1>2. DOMAIN late' = {} => \A t \in Screen : socket[t] = 0
  <2>1. CASE LinkUp
    BY <1>0, <2>1 DEF LinkUp, ConnsOk
  <2>2. CASE Redial
    BY <2>2 DEF Redial
  <2> QED BY <2>1, <2>2
<1>3. m \in Message /\ m.kind = "state" /\ m.conn = 0
  BY DEF ToHub, Message
<1> HIDE DEF m
<1>4. /\ <<m>> \in Seq(Message) /\ Len(<<m>>) = 1 /\ <<m>>[1] = m
  BY <1>3
<1>5. ConnsOk'
  BY <1>0, <1>1, <1>3, <1>4 DEF ConnsOk
<1>6. GoneOk' /\ LinkedOk'
  BY <1>0, <1>1, <1>2, LinkedNext
<1>7. SaidOk'
  <2>1. \A s, c : Silent(<<m>>, s, c)
    BY <1>3, <1>4 DEF Silent, Notifies
  <2> QED BY <1>1, <1>4, <2>1, AnotherHub
<1>8. StrayedOk' /\ ToldOk'
  BY <1>1, <1>2, ToldNext
<1> QED BY <1>5, <1>6, <1>7, <1>8 DEF TalkOk

-----------------------------------------------------------------------------
(* All steps. *)

LEMMA StepTalks ==
  ASSUME Types, Heeded, TalkOk, [Next]_vars
  PROVE  TalkOk'
<1>1. CASE FromDaemon \/ \E k \in 1..MaxLoss : FromReplaced(k)
  BY <1>1, DaemonReadTalks, ReplacedReadTalks
<1>2. ASSUME NEW s \in Screen, Connect(s) \/ PageDrop(s) \/ Press(s) \/ PageReads(s)
      PROVE  TalkOk'
  BY <1>2, ConnectTalks, DropTalks, PressTalks, ReadTalks
<1>3. CASE Flush \/ HubLapse \/ DaemonLapse \/ UNCHANGED vars
  BY <1>3, FlushTalks, LapseTalks
<1>4. CASE \/ LinkLost \/ DaemonGone \/ LinkUp \/ Redial \/ DialFails
           \/ \E k \in 1..MaxLoss : ReplacedClosed(k)
  BY <1>4, LostTalks, ClosedTalks, UpTalks
<1> QED BY <1>1, <1>2, <1>3, <1>4 DEF Next

LEMMA EmptyWord ==
  ASSUME NEW s \in Screen, toHub = <<>>, queued[s] = <<>>
  PROVE  Word(s) = <<>>
<1>1. Block(s, queued[s], linked[s], NoLease) = <<>>
  BY DEF Block
<1> QED BY <1>1 DEF Word

LEMMA InitTalks == Init => TalkOk
<1> SUFFICES ASSUME Init PROVE TalkOk
  OBVIOUS
<1>1. /\ toHub = <<>> /\ held = NoLease /\ net = "up" /\ opened = 1 /\ ~strayed
      /\ \A s \in Screen :
           /\ socket[s] = 1 /\ linked[s] = 1 /\ queued[s] = <<>> /\ down[s] = <<>>
           /\ page[s].conn = 1 /\ page[s].shows = "nothing"
  BY DEF Init
<1>2. ConnsOk /\ GoneOk /\ LinkedOk
  BY <1>1 DEF ConnsOk, GoneOk, LinkedOk
<1>3. SaidOk
  <2> SUFFICES ASSUME NEW s \in Screen PROVE EndsRight(Word(s), s, linked[s], held)
    BY DEF SaidOk
  <2>1. Word(s) = <<>>
    BY <1>1, EmptyWord
  <2> QED BY <2>1 DEF EndsRight
<1>4. StrayedOk /\ ToldOk
  BY <1>1 DEF StrayedOk, ToldOk, TellsIt, Corrected
<1> QED BY <1>2, <1>3, <1>4 DEF TalkOk

(* What follows the news to the page is inductive, given that the daemon   *)
(* heeds the relay.                                                        *)
THEOREM Talks == Spec => []TalkOk
<1>1. Init => TalkOk
  BY InitTalks
<1>2. IInv /\ TalkOk /\ [Next]_vars => TalkOk'
  BY StepTalks DEF IInv
<1> QED BY <1>1, <1>2, Inductive, PTL DEF Spec

(* When nothing is on its way, no connected page says that it is driving   *)
(* while another screen's lease is live: the news the daemon sends, the    *)
(* relay's refusals and the closing of sockets, that of a replaced one     *)
(* too, leave no page in the belief (core.rs, hub.ts, link.ts).            *)
THEOREM OneDriver == Spec => []OneDriverShown
<1>1. IInv /\ TalkOk => OneDriverShown
  <2> SUFFICES ASSUME IInv, TalkOk, AtRest, NEW s \in Screen, page[s].welcomed,
                      page[s].shows = "mine", Live, lease.holder # s
               PROVE  FALSE
    BY DEF OneDriverShown
  <2>1. /\ Alone /\ toHub = <<>> /\ queued[s] = <<>> /\ down[s] = <<>>
    BY DEF AtRest, Alone
  <2>2. NoState(toHub)
    BY <2>1 DEF NoState
  <2>3. socket[s] # 0
    BY <2>1 DEF TalkOk, GoneOk, HasGone
  <2>4. linked[s] = socket[s]
    BY <2>1, <2>3 DEF TalkOk, LinkedOk, CloseComes
  <2>5. TellsIt(s)
    BY <2>1, <2>2, <2>3, <2>4 DEF TalkOk, ToldOk, Driven
  <2>6. Silent(Word(s), s, linked[s])
    <3>1. Word(s) = <<>>
      BY <2>1, EmptyWord
    <3> QED BY <3>1 DEF Silent
  <2>7. Corrected(<<>>, "mine")
    BY <2>1, <2>5, <2>6 DEF TellsIt
  <2> QED BY <2>7 DEF Corrected
<1> QED BY <1>1, Inductive, Talks, PTL
=============================================================================
