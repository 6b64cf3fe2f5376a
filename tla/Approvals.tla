----------------------------- MODULE Approvals -----------------------------
(***************************************************************************)
(* A permission question and the people who may answer it: the gate an     *)
(* engine blocks on (agent/gate.rs), the window on the desktop             *)
(* (sdcp/guard_methods.rs), and the browsers reached through the relay -   *)
(* the approval router and the capability state machine of SDC Anywhere    *)
(* (anywhere/router.rs, session.rs, core.rs), the driver that feeds them   *)
(* the daemon's events (anywhere/relay.rs) and the page that keeps the     *)
(* cards (web/src/transport/link.ts).                                      *)
(*                                                                         *)
(* Clocks are kept as what is left of them: Advance is a unit of time, and *)
(* it shortens every deadline the code stores as a moment.                 *)
(*                                                                         *)
(* A handler runs under the core's lock, so it is one step; between two    *)
(* handlers anything may happen, and an event waits in the daemon's feed   *)
(* (feed) or on the way to a page (news) in between.                       *)
(*                                                                         *)
(* Signatures and passkeys are taken to verify: a page only sends what its *)
(* person did.  Deny with a reason, deny and pause, and an edited command  *)
(* are one "deny": the gate refuses, and the words do not matter here.     *)
(* All questions are of one kind, so a grant covers every one of them that *)
(* may be covered.  The feed holds events about questions only: the lines  *)
(* of everything else the daemon says fill it sooner.                      *)
(***************************************************************************)
EXTENDS Naturals, Sequences, FiniteSets, SequencesExt

CONSTANTS
  Screen,      \* open pages; several may belong to one paired device
  Device,
  DeviceOf,    \* [Screen -> Device]
  Question,    \* permission ids
  Dangerous,   \* the questions that need a fresh passkey each time
  Timeout,     \* approval_timeout_ms
  Window,      \* operate_window_ms
  Idle,        \* view_idle_ms
  Grace,       \* RESUME_GRACE_MS
  OnTimeout,   \* settings.on_timeout
  GrantMax,    \* max_scoped_grant_ms
  MaxBacklog,  \* MAX_BACKLOG: lines a slow reader may have waiting
  MaxDrop      \* bound: times the relay link is lost

ASSUME ApprovalsAssumption ==
  /\ IsFiniteSet(Question)
  /\ DeviceOf \in [Screen -> Device]
  /\ Dangerous \subseteq Question
  /\ OnTimeout \in {"pause", "deny"}
  /\ {Timeout, Window, Idle, Grace, GrantMax, MaxBacklog} \subseteq Nat \ {0}
  /\ MaxDrop \in Nat

VARIABLES
  gate,        \* what became of each question at agent::gate
  desk,        \* the questions answered at the desktop
  feed,        \* events broadcast to the relay driver and not yet read
  fed,         \* the driver is still in the broadcaster's registry
  pending,     \* router.pending: for each open request, how long it may still be answered
  online,      \* the relay link is up
  drops,       \* times it was lost
  active,      \* devices not revoked
  cap,         \* each linked page's Capability, NoCap when not linked
  resumable,   \* what a dropped session left behind, per device
  grant,       \* how long the device's time-limited allow still lasts
  news,        \* for each page, the last word on each question it has not opened yet
  cards,       \* the cards each page keeps
  \* history, read by no action:
  proved       \* what is left of Window + GrantMax since the device's passkey last opened
               \* an Operate window

gateVars == <<gate, desk>>
feedVars == <<feed, fed>>
linkVars == <<cap, resumable, active>>
pageVars == <<news, cards>>
vars == <<feedVars, pending, online, drops, grant, proved,
          gateVars, linkVars, pageVars>>

NoCap == [viewing |-> FALSE, awake |-> 0, operate |-> 0]
NoNews == [q \in Question |-> "none"]
NoResume == [cap |-> NoCap, grace |-> 0]
Answers == {"allow", "deny"}

Init ==
  /\ gate = [q \in Question |-> "none"]
  /\ desk = {}
  /\ feed = <<>> /\ fed = TRUE
  /\ pending = [q \in {} |-> 0]
  /\ online = TRUE /\ drops = 0
  /\ active = Device
  /\ cap = [s \in {} |-> NoCap]
  /\ resumable = [d \in Device |-> NoResume]
  /\ grant = [d \in Device |-> 0]
  /\ news = [s \in Screen |-> NoNews]
  /\ cards = [s \in Screen |-> {}]
  /\ proved = [d \in Device |-> 0]

-----------------------------------------------------------------------------
(* Capability: the level a session has at this moment. *)

Linked == DOMAIN cap
Open == DOMAIN pending
Without(f, gone) == [x \in DOMAIN f \ gone |-> f[x]]

LevelOf(c) ==
  IF ~c.viewing \/ c.awake = 0 THEN "locked"
  ELSE IF c.operate > 0 THEN "operate" ELSE "view"

\* Any frame but a heartbeat keeps an unlocked session awake.
Touched(c) == IF LevelOf(c) = "locked" THEN c ELSE [c EXCEPT !.awake = Idle]

Seeing(screens) == {s \in screens : LevelOf(cap[s]) # "locked"}

\* A message to these pages.  A page opens its messages in order, so a later word on
\* a question takes the place of one it has not opened.
Tell(screens, word, about) ==
  news' = [s \in Screen |->
             IF s \notin screens THEN news[s]
             ELSE [q \in Question |-> IF q \in about THEN word ELSE news[s][q]]]

-----------------------------------------------------------------------------
(* The gate: the first answer takes the question, a later one finds nobody. *)

Resolve(q, answer) ==
  gate' = IF gate[q] # "open" THEN gate
          ELSE [gate EXCEPT ![q] = IF answer = "allow" THEN "allowed" ELSE "denied"]

\* Events are queued behind what the driver has not read.  A reader that is too far
\* behind is let go: it gets no further line.
Broadcast(unread, said) ==
  LET room == MaxBacklog - Len(unread)
      fits == Len(said) <= room
  IN  /\ fed' = (fed /\ fits)
      /\ feed' = IF ~fed THEN unread
                  ELSE IF fits THEN unread \o said ELSE unread \o SubSeq(said, 1, room)

\* An engine asks and blocks.
Ask(q) ==
  /\ gate[q] = "none"
  /\ gate' = [gate EXCEPT ![q] = "open"]
  /\ Broadcast(feed, <<[t |-> "asked", q |-> q]>>)
  /\ UNCHANGED <<desk, pending, online, drops, grant,
                 proved, linkVars, pageVars>>

\* The turn is stopped while it waits: the wait ends and nothing is said of it.
Stop(q) ==
  /\ gate[q] = "open"
  /\ gate' = [gate EXCEPT ![q] = "stopped"]
  /\ UNCHANGED <<desk, feedVars, pending, online, drops, grant,
                 proved, linkVars, pageVars>>

\* permission.resolve from the window.
DesktopAnswers(q, answer) ==
  /\ gate[q] # "none" /\ q \notin desk
  /\ desk' = desk \cup {q}
  /\ Resolve(q, answer)
  /\ Broadcast(feed, <<[t |-> "resolved", q |-> q]>>)
  /\ UNCHANGED <<pending, online, drops, grant, proved,
                 linkVars, pageVars>>

-----------------------------------------------------------------------------
(* The core: the daemon's events. *)

\* Slip: a grant covers a dangerous question too.
CoveringAll(q) == {d \in Device : grant[d] > 0}

Covering(q) == IF q \in Dangerous THEN {} ELSE {d \in Device : grant[d] > 0}

\* A question: a live grant answers it, else it is kept and shown.
HearAsked ==
  /\ online /\ feed # <<>> /\ Head(feed).t = "asked"
  /\ LET q == Head(feed).q IN
       \/ /\ Covering(q) # {}
          /\ Resolve(q, "allow")
          /\ Broadcast(Tail(feed), <<[t |-> "resolved", q |-> q]>>)
          /\ UNCHANGED <<pending, pageVars>>
       \/ /\ Covering(q) = {}
          /\ pending' = [x \in Open \cup {q} |-> IF x = q THEN Timeout ELSE pending[x]]
          /\ Tell(Seeing(Linked), "requested", {q})
          /\ feed' = Tail(feed)
          /\ UNCHANGED <<fed, gate, cards>>
  /\ UNCHANGED <<desk, online, drops, grant, proved, linkVars>>

\* Slip: an answer given at the desktop leaves the request open.
HearResolvedKeeps ==
  /\ online /\ feed # <<>> /\ Head(feed).t = "resolved"
  /\ feed' = Tail(feed)
  /\ UNCHANGED <<fed, pending, online, drops, grant, proved, gateVars, linkVars, pageVars>>

\* An answer given somewhere: the request, if it is still open here, is closed.
HearResolved ==
  /\ online /\ feed # <<>> /\ Head(feed).t = "resolved"
  /\ LET q == Head(feed).q IN
       /\ pending' = Without(pending, {q})
       /\ IF q \in Open THEN Tell(Seeing(Linked), "closed", {q}) ELSE UNCHANGED news
  /\ feed' = Tail(feed)
  /\ UNCHANGED <<fed, online, drops, grant, proved, cards, gateVars, linkVars>>

\* The tick: what nobody answered in time is closed, and refused if the policy says so.
Dead == {q \in Open : pending[q] = 0}

\* Slip: nobody is told that the time is up.
OverdueNone == {}

\* Those of them the policy refuses.
Overdue == IF OnTimeout = "deny" THEN Dead ELSE {}

Expire ==
  /\ online /\ Dead # {}
  /\ gate' = [q \in Question |->
                IF q \in Overdue /\ gate[q] = "open" THEN "denied" ELSE gate[q]]
  /\ \E order \in SetToSeqs(Overdue) :
       Broadcast(feed, [i \in DOMAIN order |-> [t |-> "resolved", q |-> order[i]]])
  /\ pending' = Without(pending, Dead)
  /\ Tell(Seeing(Linked), "closed", Dead)
  /\ UNCHANGED <<desk, online, drops, grant, proved, cards, linkVars>>

-----------------------------------------------------------------------------
(* A page's session. *)

\* A hello: a session dropped a moment ago comes back as it was, else it starts locked.
Connect(s) ==
  LET d == DeviceOf[s]
      old == resumable[d]
      back == LevelOf(old.cap) # "locked"
      mine == IF back THEN old.cap ELSE NoCap
  IN /\ online /\ s \notin Linked /\ d \in active
     /\ cap' = [x \in Linked \cup {s} |-> IF x = s THEN mine ELSE cap[x]]
     /\ resumable' = [resumable EXCEPT ![d] = NoResume]
     /\ IF LevelOf(mine) # "locked" THEN Tell({s}, "requested", Open) ELSE UNCHANGED news
     /\ UNCHANGED <<feedVars, pending, online, drops, grant, proved,
                    cards, active, gateVars>>

\* What the sessions that end now leave behind, taken in some order.
Remembered(screens) ==
  {r \in [Device -> {resumable[d] : d \in Device}
                    \cup {[cap |-> cap[s], grace |-> Grace + 1] : s \in screens}] :
     \A d \in Device :
       LET mine == {s \in Seeing(screens) : DeviceOf[s] = d} IN
         IF mine = {} THEN r[d] = resumable[d]
         ELSE r[d] \in {[cap |-> cap[s], grace |-> Grace + 1] : s \in mine}}

Unlink(screens) ==
  /\ cap' = Without(cap, screens)
  /\ news' = [s \in Screen |-> IF s \in screens THEN NoNews ELSE news[s]]

\* The page's connection ends, and with it what was on its way.
Drop(s) ==
  /\ s \in Linked
  /\ Unlink({s})
  /\ resumable' \in Remembered({s})
  /\ UNCHANGED <<feedVars, pending, online, drops, grant, proved,
                 cards, active, gateVars>>

\* The relay link is lost: every session goes with it, and the core hears nothing
\* and its tick does not run until the link is back.
LinkDown ==
  /\ online /\ drops < MaxDrop
  /\ online' = FALSE /\ drops' = drops + 1
  /\ Unlink(Linked)
  /\ resumable' \in Remembered(Linked)
  /\ UNCHANGED <<feedVars, pending, grant, proved, cards,
                 active, gateVars>>

\* The feed of a driver that was let go has ended: it gives the link up and dials
\* again, with the same feed.
FeedEnds ==
  /\ online /\ feed = <<>> /\ ~fed
  /\ online' = FALSE
  /\ Unlink(Linked)
  /\ resumable' \in Remembered(Linked)
  /\ UNCHANGED <<feedVars, drops, pending, grant, proved, cards,
                 active, gateVars>>

LinkUp ==
  /\ ~online
  /\ online' = TRUE
  /\ UNCHANGED <<feedVars, pending, drops, grant, proved, gateVars,
                 linkVars, pageVars>>

\* Slip: what came while the page was locked is not shown.
UnlockSilent(s, level) ==
  LET c == [viewing |-> TRUE, awake |-> Idle,
            operate |-> IF level = "operate" THEN Window ELSE cap[s].operate]
  IN /\ s \in Linked
     /\ cap' = [cap EXCEPT ![s] = c]
     /\ proved' = IF level = "operate" THEN [proved EXCEPT ![DeviceOf[s]] = Window + GrantMax]
                                         ELSE proved
     /\ UNCHANGED <<feedVars, pending, online, drops, grant, news, cards,
                    resumable, active, gateVars>>

\* A passkey opens View or Operate; what is open is then shown.
Unlock(s, level) ==
  LET c == [viewing |-> TRUE, awake |-> Idle,
            operate |-> IF level = "operate" THEN Window ELSE cap[s].operate]
  IN /\ s \in Linked
     /\ cap' = [cap EXCEPT ![s] = c]
     /\ proved' = IF level = "operate" THEN [proved EXCEPT ![DeviceOf[s]] = Window + GrantMax]
                                         ELSE proved
     /\ Tell({s}, "requested", Open)
     /\ UNCHANGED <<feedVars, pending, online, drops, grant, cards,
                    resumable, active, gateVars>>

Lock(s) ==
  /\ s \in Linked /\ cap[s].viewing
  /\ cap' = [cap EXCEPT ![s] = NoCap]
  /\ UNCHANGED <<feedVars, pending, online, drops, grant, proved,
                 resumable, active, gateVars, pageVars>>

\* Any other frame.
Browse(s) ==
  /\ s \in Linked /\ LevelOf(cap[s]) # "locked"
  /\ cap' = [cap EXCEPT ![s] = Touched(@)]
  /\ UNCHANGED <<feedVars, pending, online, drops, grant, proved,
                 resumable, active, gateVars, pageVars>>

-----------------------------------------------------------------------------
(* A decision. *)

Allows(d) == d \in {"allow", "scoped"}

\* What router.check asks of it.
Accepts(s, q, decision) ==
  /\ q \in Open /\ pending[q] > 0
  /\ q \in Dangerous => decision # "scoped"
  /\ IF ~Allows(decision) THEN LevelOf(cap[s]) # "locked"
     ELSE q \in Dangerous \/ LevelOf(cap[s]) = "operate"

\* The page answers one of its cards and the router takes it: the gate is told, the
\* request is closed, and every other session that may view is told so.
Decide(s, q, decision) ==
  LET d == DeviceOf[s]
  IN /\ s \in Linked /\ q \in cards[s]
     /\ Accepts(s, q, decision)
     /\ cap' = [cap EXCEPT ![s] = Touched(@)]
     /\ grant' = IF decision = "scoped" THEN [grant EXCEPT ![d] = GrantMax] ELSE grant
     /\ Resolve(q, IF Allows(decision) THEN "allow" ELSE "deny")
     /\ Broadcast(feed, <<[t |-> "resolved", q |-> q]>>)
     /\ pending' = Without(pending, {q})
     /\ Tell({s} \cup Seeing(Linked), "closed", {q})
     /\ UNCHANGED <<desk, online, drops, proved, cards, resumable, active>>

\* The router refuses it: the page keeps its card.
Refused(s, q, decision) ==
  /\ s \in Linked /\ q \in cards[s]
  /\ ~Accepts(s, q, decision)
  /\ cap' = [cap EXCEPT ![s] = Touched(@)]
  /\ UNCHANGED <<feedVars, pending, online, drops, grant, proved,
                 resumable, active, gateVars, pageVars>>

\* The page opens what is said of a question.  Its cards outlive the connection.
Receive(s, q) ==
  /\ news[s][q] # "none"
  /\ cards' = [cards EXCEPT ![s] = IF news[s][q] = "requested" THEN @ \cup {q} ELSE @ \ {q}]
  /\ news' = [news EXCEPT ![s][q] = "none"]
  /\ UNCHANGED <<feedVars, pending, online, drops, grant, proved, gateVars, linkVars>>

\* The person revokes a device at the desktop.
Revoke(d) ==
  /\ d \in active
  /\ active' = active \ {d}
  /\ Unlink({s \in Linked : DeviceOf[s] = d})
  /\ grant' = [grant EXCEPT ![d] = 0]
  /\ UNCHANGED <<feedVars, pending, online, drops, proved, cards,
                 resumable, gateVars>>

\* A unit of time: every clock that runs is a unit nearer its end.
Less(n) == IF n > 0 THEN n - 1 ELSE 0
Aged(c) == [c EXCEPT !.awake = Less(@), !.operate = Less(@)]
\* What can no longer come back is forgotten.
AgedResume(r) ==
  IF r.grace > 1 /\ LevelOf(Aged(r.cap)) # "locked"
  THEN [cap |-> Aged(r.cap), grace |-> r.grace - 1] ELSE NoResume

Advance ==
  /\ pending' = [q \in Open |-> Less(pending[q])]
  /\ cap' = [s \in Linked |-> Aged(cap[s])]
  /\ resumable' = [d \in Device |-> AgedResume(resumable[d])]
  /\ grant' = [d \in Device |-> Less(grant[d])]
  /\ proved' = [d \in Device |-> Less(proved[d])]
  /\ UNCHANGED <<feedVars, online, drops, active, gateVars, pageVars>>

-----------------------------------------------------------------------------
\* The driver's loop: it reads the feed, ticks, and dials again.
Loop == HearAsked \/ HearResolved \/ Expire \/ LinkUp \/ FeedEnds

Next ==
  \/ Loop \/ LinkDown \/ Advance
  \/ \E q \in Question :
       \/ Ask(q) \/ Stop(q)
       \/ \E answer \in Answers : DesktopAnswers(q, answer)
  \/ \E s \in Screen :
       \/ Connect(s) \/ Drop(s) \/ Lock(s) \/ Browse(s)
       \/ \E q \in Question : Receive(s, q)
       \/ \E level \in {"view", "operate"} : Unlock(s, level)
       \/ \E q \in Question, decision \in {"allow", "scoped", "deny"} :
            Decide(s, q, decision) \/ Refused(s, q, decision)
  \/ \E d \in Device : Revoke(d)

Spec == Init /\ [][Next]_vars
\* Its select takes any branch that is ready, so a tick that keeps being due is not
\* passed over for ever.
FairSpec == Spec /\ WF_vars(Loop) /\ SF_vars(Expire) /\ WF_vars(Advance)

-----------------------------------------------------------------------------
Caps == [viewing : BOOLEAN, awake : 0..Idle, operate : 0..Window]

\* The state is of the shape the code keeps it in.
TypeOK ==
  /\ {online, fed} \subseteq BOOLEAN /\ drops \in 0..MaxDrop
  /\ gate \in [Question -> {"none", "open", "allowed", "denied", "stopped"}]
  /\ desk \subseteq Question /\ active \subseteq Device
  /\ feed \in Seq([t : {"asked", "resolved"}, q : Question])
  /\ Open \subseteq Question /\ pending \in [Open -> 0..Timeout]
  /\ Linked \subseteq Screen /\ cap \in [Linked -> Caps]
  /\ resumable \in [Device -> [cap : Caps, grace : 0..Grace + 1]]
  /\ grant \in [Device -> 0..GrantMax]
  /\ news \in [Screen -> [Question -> {"none", "requested", "closed"}]]
  /\ cards \in [Screen -> SUBSET Question]
  /\ proved \in [Device -> 0..Window + GrantMax]

(* A page that may view, with nothing left on the way to it, shows every   *)
(* open request: whoever asked while it was locked, dropped or away.       *)
OpenCardsAreShown ==
  \A s \in Seeing(Linked) : news[s] = NoNews => Open \subseteq cards[s]

(* Once the core has read everything, a question that was answered - here, *)
(* at the desktop, by a grant or by the clock - is open nowhere.  (A       *)
(* driver that was let go never reads everything.)                         *)
AnsweredIsClosed ==
  feed = <<>> /\ fed => \A q \in Open : gate[q] \in {"open", "stopped"}

(* A page on a live link shows only requests that are open, once it has    *)
(* opened what was sent to it (core.rs tells "every other session" that a  *)
(* request is closed).                                                     *)
NoStaleCard ==
  \A s \in Seeing(Linked) : news[s] = NoNews => cards[s] \subseteq Open

(* What lets an action run is the desktop, or a device that is not         *)
(* revoked: for an ordinary action an Operate window its passkey opened no *)
(* longer than Window ago - dropped and resumed sessions included - or an  *)
(* allow-for-a-while, no longer than GrantMax, made in such a window; for  *)
(* a dangerous one the card it was shown and nothing granted before.       *)
AllowHasItsProof ==
  [][\A q \in Question :
       gate[q] = "open" /\ gate'[q] = "allowed" /\ q \notin desk' =>
         \E d \in active :
           IF q \in Dangerous
           THEN \E s \in Linked : DeviceOf[s] = d /\ q \in cards[s] /\ q \in Open
           ELSE proved[d] > IF q \in Open THEN GrantMax ELSE 0]_vars

(* A request is not left open: it is answered or it expires, however often *)
(* the relay link is lost in between; and where the policy is to deny, the *)
(* engine does not wait for ever.                                          *)
EveryRequestEnds ==
  \A q \in Question :
    /\ q \in Open ~> q \notin Open
    /\ (gate[q] = "open" /\ OnTimeout = "deny") ~> gate[q] # "open"

(* A question an engine asks is heard: it is shown as a request, or it is  *)
(* answered.  A driver too far behind is no exception: "a dropped          *)
(* connection is not a lost event: the client reconnects and replays what  *)
(* it missed" (sdcp/notifications.rs).                                     *)
EveryQuestionIsHeard ==
  \A q \in Question : gate[q] = "open" ~> gate[q] # "open" \/ q \in Open
=============================================================================
