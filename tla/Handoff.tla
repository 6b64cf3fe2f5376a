------------------------------ MODULE Handoff ------------------------------
(***************************************************************************)
(* Who drives the session when two of a person's screens are open: the     *)
(* relay's lease and what it lets through in each direction (cloud/src/    *)
(* leases.ts, hub.ts), the daemon's copy of the lease, its check of every  *)
(* frame and the stamp on its own (anywhere/core.rs, relay.rs), and the    *)
(* page (web/src/transport/link.ts).                                       *)
(*                                                                         *)
(* Pages, relay and daemon form a tree whose edges are FIFO both ways.  A  *)
(* party can be slow in reading or slow in sending, and nobody can tell    *)
(* which: what goes towards the daemon is therefore heard at once (each    *)
(* step sends at most one such message), what comes from it waits in the   *)
(* queues toHub and down.  While the link is lost the daemon hears         *)
(* nothing, but the relay still reads what is in toHub.                    *)
(*                                                                         *)
(* The daemon may be back before the relay has noticed: its new socket     *)
(* replaces the old one, which the relay has closed but still holds until  *)
(* webSocketClose runs for it.  Until then the relay reads what comes from *)
(* it (late) and, sending to whichever ready socket the platform lists     *)
(* first, may say into it what the daemon should hear.                     *)
(*                                                                         *)
(* Sealed frames are numbered and opened strictly in order: a frame thrown *)
(* away on its way leaves a hole, and the next one of that connection does *)
(* not open.  A connection with a hole is a member of holedUp, holedHere   *)
(* or holedDown, by who threw the frame away.                              *)
(*                                                                         *)
(* A lease is its holder, its fence and the number of its grant, which     *)
(* stands for its expiry; relay and daemon have clocks of their own, so    *)
(* each sees a grant lapse at a time of its own.  A screen is a device     *)
(* with one page, unlocked; it reconnects when its old connection has been *)
(* read out.                                                               *)
(***************************************************************************)
EXTENDS Naturals, Sequences, FiniteSets, SequencesExt

CONSTANTS
  Screen,
  MaxConn,     \* bound: connection numbers; each page begins on the first
  MaxPress,    \* bound: frames the pages send of their own accord
  MaxLoss      \* bound: pages dropped, dials of the daemon's that fail, and losses
               \* of its link to the relay, together

ASSUME HandoffAssumption ==
  IsFiniteSet(Screen) /\ MaxConn \in Nat \ {0} /\ {MaxPress, MaxLoss} \subseteq Nat

VARIABLES
  lease,       \* the relay's row: NoLease, or holder, fence and grant
  over,        \* grants that have lapsed by the relay's clock
  socket,      \* the relay's open connection of each page, or 0
  holedUp,     \* screens of which the relay refused a frame on this connection
  holedDown,   \* screens to which the relay did not pass one on
  toHub, down, \* the queues away from the daemon
  net,         \* the daemon's link: up, lost (the relay has not noticed), gone
  late,        \* of each replaced socket the relay still holds, what is to come from it
  strayed,     \* history: since the daemon signed in, a word of the relay's about the
               \* lease went into a replaced socket, and it has heard none after it
  held,        \* the daemon's copy of the lease
  overHere,    \* grants that have lapsed by the daemon's clock
  linked,      \* the connection of each screen the daemon has a session on, or 0
  holedHere,   \* screens of which the daemon dropped a frame
  queued,      \* what waits to be sealed for each screen
  page,        \* each page: connection, welcomed, fence, what it shows
  grants, presses, opened, drops, downs    \* counts, for the bounds

daemon == <<held, overHere, linked, holedHere, queued>>
counts == <<presses, opened, drops, downs>>
vars == <<lease, over, socket, holedUp, holedDown, toHub, down, net, late, strayed,
          daemon, page, grants, counts>>

NoLease == [holder |-> "nobody", fence |-> 0, grant |-> 0]
Reply == [shows |-> "reply", fence |-> 0]

\* lease.expires > now, at the relay; held.live(now), at the daemon.
Live == lease # NoLease /\ lease.grant \notin over
LiveHere == held # NoLease /\ held.grant \notin overHere

\* Every page connected once, nobody driving.
Init ==
  /\ lease = NoLease /\ over = {} /\ held = NoLease /\ overHere = {}
  /\ socket = [s \in Screen |-> 1] /\ linked = [s \in Screen |-> 1]
  /\ holedUp = {} /\ holedDown = {} /\ holedHere = {}
  /\ toHub = <<>> /\ down = [s \in Screen |-> <<>>] /\ net = "up"
  /\ late = [k \in {} |-> <<>>] /\ strayed = FALSE
  /\ queued = [s \in Screen |-> <<>>]
  /\ page = [s \in Screen |->
               [conn |-> 1, welcomed |-> TRUE, fence |-> 0, shows |-> "nothing"]]
  /\ opened = 1 /\ grants = 0 /\ presses = 0 /\ drops = 0 /\ downs = 0

-----------------------------------------------------------------------------
(* The daemon. *)

ToHub(kind, s, conn, stamp, body) ==
  [kind |-> kind, s |-> s, conn |-> conn, stamp |-> stamp, body |-> body]

Stamp == IF LiveHere THEN held ELSE NoLease

\* handoff_frame.
Notice(s, of) ==
  IF of = NoLease THEN [shows |-> "nothing", fence |-> 0]
  ELSE [shows |-> IF of.holder = s THEN "mine" ELSE "other", fence |-> of.fence]

\* Everything that waits is sealed, screen by screen in some order, and stamped
\* with the lease of this moment.
Sealed(q, conns) ==
  LET of(s) == [i \in 1..Len(q[s]) |-> ToHub("f", s, conns[s], Stamp, q[s][i])]
      waiting == {s \in Screen : q[s] # <<>>}
  IN  {FlattenSeq([i \in DOMAIN o |-> of(o[i])]) : o \in SetToSeqs(waiting)}

\* What leaves: the handler's own message, the sealed frames, then what it asks
\* of the relay.
Emit(rest, first, q, conns, asks) ==
  /\ \E frames \in Sealed(q, conns) : toHub' = rest \o first \o frames \o asks
  /\ queued' = [s \in Screen |-> <<>>]

Without(s) == [queued EXCEPT ![s] = <<>>]

OnHello(s, rest) ==
  /\ linked' = [linked EXCEPT ![s] = opened + 1]
  /\ holedHere' = holedHere \ {s}
  /\ Emit(rest, <<ToHub("welcome", s, opened + 1, Stamp, Reply)>>,
          [queued EXCEPT ![s] = <<Reply>>], linked', <<>>)
  /\ UNCHANGED <<held, overHere>>

OnClose(s, rest) ==
  /\ linked' = [linked EXCEPT ![s] = 0] /\ queued' = Without(s) /\ toHub' = rest
  /\ UNCHANGED <<held, overHere, holedHere>>

\* What an open frame puts in its screen's queue, and what it asks of the relay.
Answered(s, kind) ==
  IF kind = "claim" /\ LiveHere /\ held.holder = s
  THEN <<Notice(s, held), Reply>> ELSE <<Reply>>

Asks(s, kind) ==
  IF \/ kind = "claim" /\ ~(LiveHere /\ held.holder = s)
     \/ kind = "release" /\ LiveHere /\ held.holder = s
  THEN <<ToHub(kind, s, 0, Stamp, Reply)>> ELSE <<>>

\* A frame behind the live lease is dropped unopened; one that does not open
\* ends the connection, as does one of a connection the daemon does not have.
OnFrame(s, kind, fence, rest) ==
  LET known == linked[s] = page[s].conn
      behind == LiveHere /\ fence < held.fence
      opens == s \notin holedUp \cup holedHere
      close == <<ToHub("close", s, page[s].conn, NoLease, Reply)>>
  IN  /\ \/ /\ known /\ behind
            /\ holedHere' = holedHere \cup {s}
            /\ Emit(rest, <<>>, queued, linked, <<>>) /\ UNCHANGED linked
         \/ /\ known /\ ~behind /\ opens
            /\ Emit(rest, <<>>, [queued EXCEPT ![s] = @ \o Answered(s, kind)],
                    linked, Asks(s, kind))
            /\ UNCHANGED <<linked, holedHere>>
         \/ /\ known /\ ~behind /\ ~opens
            /\ linked' = [linked EXCEPT ![s] = 0]
            /\ Emit(rest, close, Without(s), linked, <<>>)
            /\ UNCHANGED holedHere
         \/ /\ ~known /\ Emit(rest, close, queued, linked, <<>>)
            /\ UNCHANGED <<linked, holedHere>>
      /\ UNCHANGED <<held, overHere>>

\* Slip: only the screen that drives is told.
OnHandoffOne(kind, of, rest) ==
  /\ toHub' = rest
  /\ IF kind = "refused"
     THEN UNCHANGED <<held, overHere, queued>>
     ELSE /\ held' = of /\ overHere' = overHere \ {of.grant}
          /\ queued' = [s \in Screen |->
                          IF linked[s] = 0 \/ of.holder # s THEN queued[s]
                          ELSE Append(queued[s], Notice(s, of))]
  /\ UNCHANGED <<linked, holedHere>>

\* The relay's word on the lease: every screen is told, at the next flush.
OnHandoff(kind, of, rest) ==
  /\ toHub' = rest
  /\ IF kind = "refused"
     THEN UNCHANGED <<held, overHere, queued>>
     ELSE /\ held' = of /\ overHere' = overHere \ {of.grant}
          /\ queued' = [s \in Screen |->
                          IF linked[s] = 0 THEN queued[s]
                          ELSE Append(queued[s], Notice(s, of))]
  /\ UNCHANGED <<linked, holedHere>>

\* The pump.
Flush ==
  /\ \E s \in Screen : queued[s] # <<>>
  /\ Emit(toHub, <<>>, queued, linked, <<>>)
  /\ UNCHANGED <<lease, over, socket, holedUp, holedDown, down, net, late, strayed, held,
                 overHere, linked, holedHere, page, grants, counts>>

DaemonLapse ==
  /\ LiveHere /\ overHere' = overHere \cup {held.grant}
  /\ UNCHANGED <<lease, over, socket, holedUp, holedDown, toHub, down, net, late, strayed, held,
                 linked, holedHere, queued, page, grants, counts>>

-----------------------------------------------------------------------------
(* The relay. *)

\* What the relay sends to the daemon is lost while the link is not up, and may be
\* lost in a socket that has been replaced: the first ready one of its list takes it.
Lost(rest) == (net # "up" \/ DOMAIN late # {}) /\ toHub' = rest /\ UNCHANGED daemon

Heard(handled, rest) == (net = "up" /\ handled) \/ Lost(rest)

\* Its word on the lease; a refusal changes nothing for the daemon.
Answer(kind, of, rest) ==
  \/ /\ net = "up" /\ OnHandoff(kind, of, rest)
     /\ strayed' = (strayed /\ kind = "refused")
  \/ /\ Lost(rest)
     /\ strayed' = (strayed \/ (net = "up" /\ kind # "refused"))

\* allow(): while a lease is live only its holder passes, and not from behind.
Allowed(s, fence) == ~Live \/ (fence >= lease.fence /\ lease.holder = s)

ToPage(kind, fence, whole, body) ==
  [kind |-> kind, fence |-> fence, whole |-> whole, body |-> body]

\* A frame of a page, whose other unread messages are d.  From a socket that the relay
\* has closed it may still come in, which matters if the daemon has a session on it.
FromDevice(s, kind, fence, d) ==
  \/ /\ socket[s] = 0
     /\ holedUp' = holedUp \cup {s} /\ down' = d /\ UNCHANGED <<daemon, toHub>>
  \/ /\ page[s].conn \in {socket[s], linked[s]} /\ Allowed(s, fence) /\ down' = d
     /\ \/ net = "up" /\ OnFrame(s, kind, fence, toHub) /\ UNCHANGED holedUp
        \/ Lost(toHub) /\ holedUp' = holedUp \cup {s}
  \/ /\ socket[s] # 0 /\ ~Allowed(s, fence)
     /\ holedUp' = holedUp \cup {s}
     /\ down' = [d EXCEPT ![s] = Append(@, ToPage("refused", lease.fence, TRUE, Reply))]
     /\ UNCHANGED <<daemon, toHub>>

\* The page's socket closed.
SocketClosed(s) ==
  /\ socket' = [socket EXCEPT ![s] = 0]
  /\ IF page[s].conn # 0 /\ linked[s] = page[s].conn
     THEN Heard(OnClose(s, toHub), toHub)
     ELSE UNCHANGED <<daemon, toHub>>

\* Slip: a daemon's frame is passed on whatever its stamp.
StaleNever(m) == FALSE

\* A frame stamped behind the live lease answers a screen that has been taken
\* over: it is not passed on.
Stale(m) == Live /\ m.stamp # NoLease /\ m.stamp.fence < lease.fence

PassOn(m, rest) ==
  /\ m.kind \in {"welcome", "f", "close"}
  /\ \/ socket[m.s] # m.conn /\ UNCHANGED <<socket, holedDown, down>>
     \/ /\ socket[m.s] = m.conn /\ m.kind = "close"
        /\ socket' = [socket EXCEPT ![m.s] = 0]
        /\ down' = [down EXCEPT ![m.s] = Append(@, ToPage("gone", 0, TRUE, Reply))]
        /\ UNCHANGED holedDown
     \/ /\ socket[m.s] = m.conn /\ m.kind # "close" /\ Stale(m)
        /\ holedDown' = holedDown \cup {m.s}
        /\ UNCHANGED <<socket, down>>
     \/ /\ socket[m.s] = m.conn /\ m.kind # "close" /\ ~Stale(m)
        /\ down' = [down EXCEPT ![m.s] =
             Append(@, ToPage(m.kind, m.stamp.fence, m.s \notin holedDown, m.body))]
        /\ UNCHANGED <<socket, holedDown>>
  /\ toHub' = rest
  /\ UNCHANGED <<lease, daemon, grants, strayed>>

\* One more than the last fence, whether or not that lease is still live.
Claim(m, rest) ==
  /\ m.kind = "claim"
  /\ lease' = [holder |-> m.s, fence |-> lease.fence + 1, grant |-> grants + 1]
  /\ grants' = grants + 1
  /\ Answer("claimed", lease', rest)
  /\ UNCHANGED <<socket, holedDown, down>>

\* Slip: the row is kept, with no fence.
ReleaseKeepsRow(m, rest) ==
  LET mine == lease.holder = m.s /\ lease.fence = m.stamp.fence
  IN  /\ m.kind = "release"
      /\ lease' = IF mine THEN [lease EXCEPT !.fence = 0] ELSE lease
      /\ Answer(IF mine THEN "released" ELSE "refused", NoLease, rest)
      /\ UNCHANGED <<socket, holedDown, down, grants>>

\* Only the holder's own fence releases; the row is deleted.
Release(m, rest) ==
  LET mine == lease.holder = m.s /\ lease.fence = m.stamp.fence
  IN  /\ m.kind = "release"
      /\ lease' = IF mine THEN NoLease ELSE lease
      /\ Answer(IF mine THEN "released" ELSE "refused", NoLease, rest)
      /\ UNCHANGED <<socket, holedDown, down, grants>>

State(m, rest) ==
  /\ m.kind = "state"
  /\ Answer("state", IF Live THEN lease ELSE NoLease, rest)
  /\ UNCHANGED <<lease, socket, holedDown, down, grants>>

HubReads(m, rest) ==
  /\ PassOn(m, rest) \/ Claim(m, rest) \/ Release(m, rest) \/ State(m, rest)
  /\ UNCHANGED <<over, holedUp, net, page, counts>>

FromDaemon ==
  toHub # <<>> /\ HubReads(Head(toHub), Tail(toHub)) /\ UNCHANGED late

\* A replaced socket is ready still, and what comes from it is handled like the rest.
FromReplaced(k) ==
  /\ k \in DOMAIN late /\ late[k] # <<>> /\ HubReads(Head(late[k]), toHub)
  /\ late' = [late EXCEPT ![k] = Tail(@)]

HubLapse ==
  /\ Live /\ over' = over \cup {lease.grant}
  /\ UNCHANGED <<lease, socket, holedUp, holedDown, toHub, down, net, late, strayed, daemon,
                 page, grants, counts>>

-----------------------------------------------------------------------------
(* The page. *)

\* The relay lets a device in only while it holds a socket of the daemon's; the hello
\* is the first thing the page sends.
Connect(s) ==
  /\ page[s].conn = 0 /\ down[s] = <<>> /\ opened < MaxConn
  /\ net # "gone" \/ DOMAIN late # {}
  /\ opened' = opened + 1
  /\ page' = [page EXCEPT ![s].conn = opened + 1]
  /\ socket' = [socket EXCEPT ![s] = opened + 1]
  /\ holedUp' = holedUp \ {s} /\ holedDown' = holedDown \ {s}
  /\ Heard(OnHello(s, toHub), toHub)
  /\ UNCHANGED <<lease, over, down, net, late, strayed, grants, presses, drops, downs>>

\* A closed page keeps its fence, and the banner it showed.
Closed(s) == [page EXCEPT ![s].conn = 0, ![s].welcomed = FALSE]

\* The network drops the page, or the person closes it.
PageDrop(s) ==
  /\ page[s].conn # 0 /\ drops + downs < MaxLoss
  /\ drops' = drops + 1
  /\ page' = Closed(s) /\ SocketClosed(s)
  /\ UNCHANGED <<lease, over, holedUp, holedDown, down, net, late, strayed, grants,
                 presses, opened, downs>>

\* "Drive here", "give it back", or anything else: an acknowledgement, a call,
\* the stop button.
Press(s) ==
  /\ page[s].welcomed /\ presses < MaxPress
  /\ presses' = presses + 1
  /\ \E kind \in {"claim", "release", "say"} : FromDevice(s, kind, page[s].fence, down)
  /\ UNCHANGED <<lease, over, socket, holedDown, net, late, strayed, page, grants, opened,
                 drops, downs>>

\* The relay's stamp becomes the page's fence, whether or not the frame opens; a
\* handoff.state may only raise it.
Stamped(s, m) == IF m.fence # 0 THEN m.fence ELSE page[s].fence

Told(s, m) ==
  LET stamp == Stamped(s, m)
      f == m.body.fence
  IN  IF m.body.shows = "reply"
      THEN [page EXCEPT ![s].fence = stamp]
      ELSE [page EXCEPT ![s].fence = IF f > stamp THEN f ELSE stamp,
                        ![s].shows = m.body.shows]

\* The page reads one message.  A frame behind a hole does not open: the page
\* closes the socket.
PageReads(s) ==
  /\ down[s] # <<>>
  /\ LET m == Head(down[s])
         d == [down EXCEPT ![s] = Tail(@)]
         quiet == down' = d /\ UNCHANGED <<socket, holedUp, daemon, toHub>>
     IN  \/ /\ m.kind = "welcome" /\ page[s].conn # 0
            /\ page' = [page EXCEPT ![s].welcomed = TRUE]
            /\ FromDevice(s, "say", page[s].fence, d) /\ UNCHANGED socket
         \/ /\ m.kind = "f" /\ page[s].welcomed /\ m.whole
            /\ page' = Told(s, m) /\ quiet
         \/ /\ m.kind = "f" /\ page[s].welcomed /\ ~m.whole
            /\ page' = [Closed(s) EXCEPT ![s].fence = Stamped(s, m)] /\ SocketClosed(s)
            /\ down' = d /\ UNCHANGED holedUp
         \/ /\ m.kind = "refused" /\ page[s].welcomed
            /\ page' = [page EXCEPT ![s].fence = m.fence, ![s].shows = "other"]
            /\ quiet
         \/ /\ m.kind = "gone" /\ page' = Closed(s) /\ SocketClosed(s)
            /\ down' = d /\ UNCHANGED holedUp
         \/ /\ m.kind = "welcome" /\ page[s].conn = 0
            /\ UNCHANGED page /\ quiet
         \/ /\ m.kind \in {"f", "refused"} /\ ~page[s].welcomed
            /\ UNCHANGED page /\ quiet
  /\ UNCHANGED <<lease, over, holedDown, net, late, strayed, grants, counts>>

-----------------------------------------------------------------------------
(* The daemon's link to the relay. *)

\* The daemon's end of the link goes: it forgets its connections, and if it was
\* the daemon itself that went, the lease.
LinkLost ==
  /\ net = "up" /\ drops + downs < MaxLoss
  /\ downs' = downs + 1 /\ net' = "lost"
  /\ linked' = [s \in Screen |-> 0] /\ queued' = [s \in Screen |-> <<>>]
  /\ held' \in {held, NoLease}
  /\ UNCHANGED <<lease, over, socket, holedUp, holedDown, toHub, down, late, strayed,
                 overHere, holedHere, page, grants, presses, opened, drops>>

\* Whenever a socket of the daemon's closes, the relay closes every page's connection.
PagesClosed ==
  /\ socket' = [s \in Screen |-> 0]
  /\ down' = [s \in Screen |->
                IF socket[s] = 0 THEN down[s]
                ELSE Append(down[s], ToPage("gone", 0, TRUE, Reply))]
  /\ UNCHANGED <<lease, over, holedUp, holedDown, daemon, page, grants, presses, opened,
                 downs>>

\* The relay's end of a lost link.
DaemonGone ==
  /\ net = "lost" /\ net' = "gone" /\ toHub' = <<>>
  /\ PagesClosed /\ UNCHANGED <<late, strayed, drops>>

\* A replaced socket, however late: what has not come by then is lost.
ReplacedClosed(k) ==
  /\ k \in DOMAIN late /\ late' = Restrict(late, DOMAIN late \ {k})
  /\ PagesClosed /\ UNCHANGED <<toHub, net, strayed, drops>>

\* A socket on which the daemon did not get as far as signing in: however late, too.
DialFails ==
  /\ drops + downs < MaxLoss /\ drops' = drops + 1
  /\ PagesClosed /\ UNCHANGED <<toHub, net, late, strayed>>

\* Slip: signing in, the daemon does not ask.
SignInSilent ==
  /\ net' = "up" /\ toHub' = <<>> /\ strayed' = FALSE
  /\ UNCHANGED <<lease, over, socket, holedUp, holedDown, down, daemon, page,
                 grants, counts>>

\* Signing in, the daemon asks where the handoff stands.
SignIn ==
  /\ net' = "up" /\ strayed' = FALSE
  /\ toHub' = <<ToHub("state", "nobody", 0, NoLease, Reply)>>
  /\ UNCHANGED <<lease, over, socket, holedUp, holedDown, down, daemon, page,
                 grants, counts>>

\* The daemon is back: the relay had noticed, or it still holds the old socket.
LinkUp == net = "gone" /\ SignIn /\ UNCHANGED late

Redial ==
  /\ net = "lost" /\ SignIn
  /\ late' = [k \in DOMAIN late \cup {downs} |-> IF k = downs THEN toHub ELSE late[k]]

-----------------------------------------------------------------------------
Next ==
  \/ \E s \in Screen : Connect(s) \/ PageDrop(s) \/ Press(s) \/ PageReads(s)
  \/ \E k \in 1..MaxLoss : FromReplaced(k) \/ ReplacedClosed(k)
  \/ FromDaemon \/ HubLapse \/ Flush \/ DaemonLapse
  \/ LinkLost \/ DaemonGone \/ LinkUp \/ Redial \/ DialFails

Spec == Init /\ [][Next]_vars

-----------------------------------------------------------------------------
(* Properties. *)

Lease == {NoLease} \cup [holder : Screen, fence : 1..grants, grant : 1..grants]

\* The types, and that both ends count grants alike: nobody holds a lease, stamps with
\* one or has seen one lapse that was not granted.
TypeOK ==
  /\ {lease, held} \subseteq Lease
  /\ over \subseteq 1..grants /\ overHere \subseteq 1..grants
  /\ \A s \in Screen :
       /\ {socket[s], linked[s], page[s].conn} \subseteq 0..MaxConn
       /\ page[s].welcomed \in BOOLEAN /\ page[s].fence \in Nat
       /\ page[s].shows \in {"nothing", "mine", "other"}
  /\ holedUp \cup holedDown \cup holedHere \subseteq Screen
  /\ \A q \in {toHub} \cup Range(late) : \A i \in 1..Len(q) : q[i].stamp \in Lease
  /\ net \in {"up", "lost", "gone"} /\ strayed \in BOOLEAN
  /\ DOMAIN late \subseteq 1..downs
  /\ opened \in 1..MaxConn
  /\ grants \in Nat /\ presses \in 0..MaxPress
  /\ drops \in 0..MaxLoss /\ downs \in 0..MaxLoss

\* The messages the relay may read next.
Arriving == {Head(q) : q \in ({toHub} \cup Range(late)) \ {<<>>}}

\* The relay is about to pass on a stamped frame under a live lease.
Passing(m) ==
  Live /\ m.kind \in {"welcome", "f"} /\ m.stamp # NoLease /\ ~Stale(m)

\* As long as nobody has given the session back (a fence is then as high as the
\* number of its grant), a stamped frame the relay passes on under a live lease
\* was sealed under that very lease and not under one before it.
StampIsCurrent ==
  lease.fence = lease.grant => \A m \in Arriving : Passing(m) => m.stamp = lease

\* The same without the condition: the screen that is driving never sees work
\* from the lease before it, for a fence only ever goes up.
NeverTheLeaseBefore == \A m \in Arriving : Passing(m) => m.stamp = lease

AtRest ==
  /\ net = "up" /\ toHub = <<>> /\ DOMAIN late = {}
  /\ \A s \in Screen : down[s] = <<>> /\ queued[s] = <<>>

\* When nothing is on its way, the daemon knows the relay's live lease and
\* believes in no other, whatever was lost with the link - unless the relay's last
\* word on it went into a replaced socket.
Agreement ==
  AtRest /\ ~strayed => (Live \/ LiveHere => held = lease)

\* The same without the exception: a daemon that signs in takes back the fence.
AlwaysAgreed == AtRest => (Live \/ LiveHere => held = lease)

\* When nothing is on its way, no connected page says that it is driving while
\* another screen's lease is live.
OneDriverShown ==
  AtRest => \A s \in Screen :
              (page[s].welcomed /\ page[s].shows = "mine" /\ Live)
                => lease.holder = s
=============================================================================
