---------------------------- MODULE EventStream ----------------------------
(***************************************************************************)
(* The event log and the window that folds it.                             *)
(*                                                                         *)
(* The daemon numbers every event, writes it to the database, keeps it in  *)
(* memory and broadcasts it to the connected sockets (sdcp/events.rs,      *)
(* sdcp/notifications.rs).  The desktop bridge reads one socket and hands  *)
(* each line to the page; after a lost connection it asks for what came    *)
(* after the last number it forwarded (app/src-tauri/src/sdcp.rs).  The    *)
(* page keeps the daemon's number it has reached, drops what it has, holds *)
(* what comes too early and asks event.list for a gap (app/lib/sdcp.ts).   *)
(*                                                                         *)
(* An event carries its words: the births it holds.  Each event is born    *)
(* with one; compaction joins a finished turn's runs of deltas into their  *)
(* first event.  What the window shows is the words it has folded.         *)
(* Events sent live only (drafts) are in no log and are left out.          *)
(***************************************************************************)
EXTENDS Naturals, Sequences, FiniteSets, SequencesExt

CONSTANTS
  OldEvents,  \* events of the log before the window first opens
  MaxEvents,  \* bound: events ever appended
  MaxRefuse,  \* bound: appends the database refuses
  MaxDrop,    \* bound: times the notification socket is lost
  MaxCrash,   \* bound: times the daemon dies
  MaxReload   \* bound: times the page is reloaded

ASSUME BoundsAssumption ==
  /\ {OldEvents, MaxEvents, MaxRefuse, MaxDrop, MaxCrash, MaxReload} \subseteq Nat
  /\ OldEvents \leq MaxEvents

(* "delta": a streamed piece; "note": any other event of the turn;         *)
(* "end": TurnCompleted.  One turn streams, notes follow it.               *)
Kinds == {"delta", "note", "end"}
Event == [seq: 1..(MaxEvents + 2), kind: Kinds, words: SUBSET (1..(MaxEvents + 2))]

NoAsk == [state |-> "none", since |-> 0, events |-> <<>>]

VARIABLES
  up,        \* the daemon runs
  next,      \* EventLog.next
  entries,   \* EventLog.entries: the projection event.list answers from
  unsaved,   \* EventLog.unsaved: refused by the database, oldest first
  disk,      \* the events table
  turn,      \* the turn's row in the store, and whether its log was compacted
  born,      \* history: events ever appended
  linked,    \* the bridge's notification socket is up and subscribed
  socket,    \* lines on that socket, not yet read
  replay,    \* the bridge's event.list, asked and not yet answered: its since
  lastSeq,   \* SdcpBridge.last_seq
  daemonSeq, replayed, catching, held, \* sdcp.ts
  ask,       \* the page's event.list on its way, and its answer
  retry,     \* the page's one-second timer after a failed event.list
  shown,     \* the words of each event the page has folded
  lapses,    \* history: the ways an event was lost to the page so far
  refused, drops, crashes, reloads     \* bound counters

logVars    == <<up, next, entries, unsaved, disk, turn, born>>
bridgeVars == <<linked, socket, replay, lastSeq>>
pageVars   == <<daemonSeq, replayed, catching, held, ask, retry, shown>>
bounds     == <<refused, drops, crashes, reloads>>
vars == <<logVars, bridgeVars, pageVars, lapses, bounds>>

NoReplay == [state |-> "none", since |-> 0]

TypeOK ==
  /\ {up, linked, replayed, catching, retry} \subseteq BOOLEAN
  /\ turn \in {"running", "ended", "compacted"}
  /\ lapses \subseteq {"forgotten", "astray", "skipped"}
  /\ next \in 1..(MaxEvents + 3) /\ born \in 0..(MaxEvents + 2)
  /\ {entries, disk, unsaved, held} \cup ToSet(socket) \subseteq Seq(Event)
  /\ replay.state \in {"none", "asked", "live"}
  /\ lastSeq \in 0..(MaxEvents + 2) /\ daemonSeq \in 0..(MaxEvents + 2)
  /\ ask.state \in {"none", "asked", "answered"} /\ ask.events \in Seq(Event)
  /\ shown \in Seq(SUBSET (1..(MaxEvents + 2)))

-----------------------------------------------------------------------------
(* The log.                                                                *)

Words(s)   == UNION {s[i].words : i \in DOMAIN s}
LastSeq(s) == IF s = <<>> THEN 0 ELSE Last(s).seq
SeqsOf(s)  == {s[i].seq : i \in DOMAIN s}

(* The values of f, a function on some of the numbers 1 to top, in order.  *)
Listed(f, top) ==
  LET upto[n \in 0..top] == IF n = 0 THEN <<>>
                            ELSE IF n \in DOMAIN f THEN Append(upto[n - 1], f[n])
                            ELSE upto[n - 1]
  IN  upto[top]

After(s, n) == Listed([i \in {j \in DOMAIN s : s[j].seq > n} |-> s[i]], Len(s))

(* compaction: a run of deltas nothing else separates becomes its first    *)
(* event, with the words of all.                                           *)
Joins(s, i) == i > 1 /\ s[i - 1].kind = "delta" /\ s[i].kind = "delta"
Run(s, i) == {k \in i..Len(s) : \A j \in (i + 1)..k : Joins(s, j)}
Deletes(s) == {s[i].seq : i \in {j \in DOMAIN s : Joins(s, j)}}
JoinedTo(s, n) == UNION {UNION {s[k].words : k \in Run(s, i)} : i \in {j \in DOMAIN s : s[j].seq = n}}

(* What compact_turn makes of a copy of the log, the compaction computed   *)
(* from what the database holds.                                           *)
Apply(s, onDisk) ==
  Listed([i \in {j \in DOMAIN s : s[j].seq \notin Deletes(onDisk)} |->
            [s[i] EXCEPT !.words = @ \cup JoinedTo(onDisk, s[i].seq)]], Len(s))
Compaction(s) == Apply(s, s)

Broadcast(e) == socket' = IF linked THEN Append(socket, <<e>>) ELSE socket

(* Slip: a refused event is dropped, as before 0.16.1.                     *)
PersistDrops(waiting, written) ==
  /\ disk' = disk \o SubSeq(waiting, 1, written)
  /\ unsaved' = <<>>

(* EventLog::persist writes what waits, in order, up to the first refusal. *)
Persist(waiting, written) ==
  /\ disk' = disk \o SubSeq(waiting, 1, written)
  /\ unsaved' = SubSeq(waiting, written + 1, Len(waiting))

(* Where a new log goes on (hydrate); the slip counts the events instead   *)
(* of reading the last number.                                             *)
NextAfterCount(table) == Len(table) + 1
NextAfter(table) == LastSeq(table) + 1

(* The number an event takes (append); the slip counts it twice.           *)
NumberedTwice == next' = next + 2
Numbered == next' = next + 1

(* ChannelNotifier::push: number, persist, record, broadcast, under the    *)
(* publish lock.                                                           *)
Push(kind) ==
  LET e == [seq |-> next, kind |-> kind, words |-> {born + 1}]
      waiting == Append(unsaved, e)
  IN  /\ up /\ born < MaxEvents
      /\ kind # "note" => turn = "running"
      /\ turn' = IF kind = "end" THEN "ended" ELSE turn
      /\ Numbered
      /\ born' = born + 1
      /\ entries' = Append(entries, e)
      /\ Broadcast(e)
      /\ \E written \in 0..Len(waiting) :
           /\ Persist(waiting, written)
           /\ refused' = IF written < Len(waiting) THEN refused + 1 ELSE refused
      /\ refused' \leq MaxRefuse
      /\ UNCHANGED <<up, linked, replay, lastSeq, pageVars, lapses, drops, crashes,
                     reloads>>

(* compact_turn, once at the turn's end: its runs are joined, in the       *)
(* database and in the projection.                                         *)
CompactTurn ==
  /\ up /\ turn = "ended"
  /\ turn' = "compacted"
  /\ disk' = Apply(disk, disk)
  /\ entries' = Apply(entries, disk)
  /\ UNCHANGED <<up, next, unsaved, born, bridgeVars, pageVars, lapses, bounds>>

(* A first connection is lost before it knows its place in the stream, or  *)
(* knows one whose line was still to come: the reconnect asks too little.  *)
Overtaken == \E i \in DOMAIN socket : \E e \in ToSet(socket[i]) : e.seq \leq lastSeq
Astray == IF linked /\ replay.since = 0 /\ (lastSeq = 0 \/ Overtaken) THEN {"astray"} ELSE {}

(* The notification socket is lost, with what was on it.                   *)
Unlinked == linked' = FALSE /\ socket' = <<>> /\ replay' = NoReplay

(* The daemon dies: its memory and its connections go.                     *)
Crash ==
  /\ up /\ crashes < MaxCrash
  /\ crashes' = crashes + 1
  /\ up' = FALSE
  /\ entries' = <<>> /\ unsaved' = <<>>
  /\ Unlinked
  /\ lapses' = lapses \cup Astray \cup (IF unsaved = <<>> THEN {} ELSE {"forgotten"})
  /\ UNCHANGED <<next, disk, turn, born, lastSeq, pageVars, refused, drops, reloads>>

(* A new daemon: close_interrupted_turns appends the end of a turn the     *)
(* crash cut off, for the record and to nobody; an ended turn on disk is   *)
(* compacted (hydrate, compact_turn); the log goes on after the last row.  *)
Restart ==
  /\ ~up
  /\ up' = TRUE
  /\ turn' = "compacted"
  /\ born' = IF turn # "running" THEN born ELSE born + 2
  /\ UNCHANGED <<unsaved, bridgeVars, pageVars, lapses, bounds>>
  /\ LET last  == LastSeq(disk)
         ended == [seq |-> last + 1, kind |-> "end", words |-> {born + 1}]
         note  == [seq |-> last + 2, kind |-> "note", words |-> {born + 2}]
     IN  \E kept \in {IF turn # "running" THEN disk ELSE disk \o <<ended, note>>} :
         \E table \in {IF \E e \in ToSet(kept) : e.kind = "end" THEN Compaction(kept) ELSE kept} :
           /\ disk' = table
           /\ entries' = table
           /\ next' = NextAfter(table)

-----------------------------------------------------------------------------
(* The bridge.                                                             *)

(* subscribe: the socket registers with the fanout; a first connect asks   *)
(* where the stream starts, a later one for what it missed.                *)
Connect ==
  /\ up /\ ~linked
  /\ linked' = TRUE
  /\ socket' = <<>>
  /\ replay' = [state |-> IF lastSeq = 0 THEN "live" ELSE "asked", since |-> lastSeq]
  /\ UNCHANGED <<logVars, lastSeq, pageVars, lapses, bounds>>

(* The answer to a first connect: fromSeq sets a number still at zero.     *)
AnswerLive ==
  /\ up /\ linked /\ replay.state = "live"
  /\ replay' = [replay EXCEPT !.state = "none"]
  /\ lastSeq' = IF lastSeq = 0 THEN next - 1 ELSE lastSeq
  /\ UNCHANGED <<logVars, linked, socket, pageVars, lapses, bounds>>

(* The answer to a reconnect is written by another task than the live      *)
(* lines: it may overtake those that wait.                                 *)
AnswerReplay ==
  /\ up /\ linked /\ replay.state = "asked"
  /\ replay' = [replay EXCEPT !.state = "none"]
  /\ \E place \in 1..(Len(socket) + 1) :
       socket' = InsertAt(socket, place, After(entries, replay.since))
  /\ UNCHANGED <<logVars, linked, lastSeq, pageVars, lapses, bounds>>

(* The socket is lost with what was on it (a broken link, or a reader      *)
(* MAX_BACKLOG lines behind, let go by the fanout).                        *)
Drop ==
  /\ linked /\ drops < MaxDrop
  /\ drops' = drops + 1
  /\ Unlinked
  /\ lapses' = lapses \cup Astray
  /\ UNCHANGED <<logVars, lastSeq, pageVars, refused, crashes, reloads>>

-----------------------------------------------------------------------------
(* The page (sdcp.ts).                                                     *)

page == [seq |-> daemonSeq, shown |-> shown]

(* Folding a batch, in seq order, skipping what the page has.              *)
Folded(state, s) ==
  LET new == After(s, state.seq)
  IN  [seq |-> IF new = <<>> THEN state.seq ELSE LastSeq(new),
       shown |-> state.shown \o [i \in DOMAIN new |-> new[i].words]]

SetPage(state) == daemonSeq' = state.seq /\ shown' = state.shown

(* catchUp(since): one request at a time.                                  *)
CatchUp(since) ==
  IF catching THEN UNCHANGED <<catching, ask>>
  ELSE catching' = TRUE /\ ask' = [NoAsk EXCEPT !.state = "asked", !.since = since]

(* Slips: a duplicate is folded again; a gap is folded over.               *)
NotifiedAgain(e) ==
  IF replayed
  THEN /\ daemonSeq' = e.seq /\ shown' = Append(shown, e.words)
       /\ UNCHANGED <<catching, ask, held>>
  ELSE /\ held' = Append(held, e)
       /\ UNCHANGED <<daemonSeq, shown, catching, ask>>
NotifiedOver(e) ==
  IF replayed
  THEN /\ SetPage(Folded(page, <<e>>))
       /\ UNCHANGED <<catching, ask, held>>
  ELSE /\ held' = Append(held, e)
       /\ UNCHANGED <<daemonSeq, shown, catching, ask>>

(* A notification reaches the page: held before the first replay, dropped  *)
(* when its number is passed, held and asked about when numbers are        *)
(* missing before it, folded otherwise.                                    *)
Notified(e) ==
  \/ /\ ~replayed
     /\ held' = Append(held, e)
     /\ UNCHANGED <<daemonSeq, shown, catching, ask>>
  \/ /\ replayed /\ e.seq \leq daemonSeq
     /\ UNCHANGED <<daemonSeq, shown, catching, ask, held>>
  \/ /\ replayed /\ e.seq > daemonSeq + 1
     /\ held' = Append(held, e)
     /\ CatchUp(daemonSeq)
     /\ UNCHANGED <<daemonSeq, shown>>
  \/ /\ replayed /\ e.seq = daemonSeq + 1
     /\ SetPage(Folded(page, <<e>>))
     /\ UNCHANGED <<catching, ask, held>>

(* The bridge forwards the next event of the line it reads.                *)
BridgeRead ==
  /\ linked /\ socket # <<>>
  /\ LET line == Head(socket)
     IN  IF line = <<>>
         THEN /\ socket' = Tail(socket)
              /\ UNCHANGED <<lastSeq, pageVars>>
         ELSE /\ socket' = IF Len(line) = 1 THEN Tail(socket)
                           ELSE [socket EXCEPT ![1] = Tail(line)]
              /\ lastSeq' = Head(line).seq
              /\ Notified(Head(line))
              /\ UNCHANGED <<replayed, retry>>
  /\ UNCHANGED <<logVars, linked, replay, lapses, bounds>>

(* event.list is answered from the projection as it is now.                *)
AnswerList ==
  /\ up /\ linked /\ ask.state = "asked"
  /\ ask' = [ask EXCEPT !.state = "answered", !.events = After(entries, ask.since)]
  /\ UNCHANGED <<logVars, bridgeVars, daemonSeq, replayed, catching, held, retry, shown,
                 lapses, bounds>>

(* Slip: the failed request keeps its mark, as before 0.15.                *)
ListFailsMarked ==
  /\ ask.state = "asked" /\ ~(up /\ linked)
  /\ ask' = NoAsk
  /\ retry' = TRUE
  /\ UNCHANGED <<logVars, bridgeVars, daemonSeq, replayed, catching, held, shown, lapses,
                 bounds>>

(* The call fails: the page tries again in a second.                       *)
ListFails ==
  /\ ask.state = "asked" /\ ~(up /\ linked)
  /\ ask' = NoAsk
  /\ catching' = FALSE
  /\ retry' = TRUE
  /\ UNCHANGED <<logVars, bridgeVars, daemonSeq, replayed, held, shown, lapses, bounds>>

Retry ==
  /\ retry
  /\ retry' = FALSE
  /\ CatchUp(daemonSeq)
  /\ UNCHANGED <<logVars, bridgeVars, daemonSeq, replayed, held, shown, lapses, bounds>>

(* The held event of a number: the first that came.                        *)
Held(n) == held[CHOOSE i \in DOMAIN held : /\ held[i].seq = n
                                           /\ \A k \in 1..(i - 1) : held[k].seq # n]

(* catchUp's answer: the backlog is folded, then what was held, in order;  *)
(* what comes after a number missing among the held is folded all the same.*)
ListArrives ==
  /\ ask.state = "answered"
  /\ held' = <<>>
  /\ ask' = NoAsk
  /\ catching' = FALSE
  /\ replayed' = TRUE
  /\ UNCHANGED <<logVars, bridgeVars, retry, bounds>>
  /\ \E caught \in {Folded(page, ask.events)} :
       \E late \in {{n \in SeqsOf(held) : n > caught.seq}} :
         LET last == IF late = {} THEN caught.seq ELSE Max(late)
         IN  /\ daemonSeq' = last
             /\ shown' = caught.shown
                           \o Listed([n \in late |-> Held(n).words], MaxEvents + 2)
             /\ lapses' = IF last > caught.seq + Cardinality(late)
                          THEN lapses \cup {"skipped"} ELSE lapses

(* The page is loaded anew; the bridge stays as it was.                    *)
Reload ==
  /\ reloads < MaxReload
  /\ reloads' = reloads + 1
  /\ daemonSeq' = 0 /\ shown' = <<>> /\ held' = <<>>
  /\ replayed' = FALSE /\ retry' = FALSE
  /\ catching' = TRUE /\ ask' = [NoAsk EXCEPT !.state = "asked"]
  /\ UNCHANGED <<logVars, bridgeVars, lapses, refused, drops, crashes>>

-----------------------------------------------------------------------------
(* A daemon with a log, and a page that has just been opened.              *)
Init ==
  /\ up = TRUE
  /\ entries = [n \in 1..OldEvents |-> [seq |-> n, kind |-> "note", words |-> {n}]]
  /\ disk = entries /\ unsaved = <<>>
  /\ next = OldEvents + 1 /\ born = OldEvents
  /\ turn = "running"
  /\ linked = FALSE /\ socket = <<>> /\ replay = NoReplay /\ lastSeq = 0
  /\ daemonSeq = 0 /\ shown = <<>> /\ held = <<>>
  /\ replayed = FALSE /\ retry = FALSE
  /\ catching = TRUE /\ ask = [NoAsk EXCEPT !.state = "asked"]
  /\ lapses = {}
  /\ refused = 0 /\ drops = 0 /\ crashes = 0 /\ reloads = 0

Delivery ==
  \/ AnswerLive \/ AnswerReplay \/ BridgeRead
  \/ AnswerList \/ ListFails \/ Retry \/ ListArrives

Next ==
  \/ \E kind \in Kinds : Push(kind)
  \/ CompactTurn \/ Crash \/ Restart
  \/ Connect \/ Drop \/ Reload
  \/ Delivery

(* The bridge reconnects on its heartbeat and starts a daemon that is      *)
(* gone; the daemon, the bridge and the page go on with what they have     *)
(* been handed.  Nothing is assumed of the turns.                          *)
Fairness == WF_vars(Restart \/ Connect) /\ WF_vars(Delivery)

Spec == Init /\ [][Next]_vars
FairSpec == Spec /\ Fairness

-----------------------------------------------------------------------------
(* Properties.                                                             *)

(* Nothing is on its way to the page, and it has asked for nothing.        *)
Quiet ==
  /\ up /\ linked /\ socket = <<>> /\ replay.state = "none"
  /\ replayed /\ ~catching /\ ~retry /\ ask = NoAsk

Compacted == \E e \in ToSet(entries) \cup ToSet(disk) : Cardinality(e.words) > 1

(* A connection was lost, and a turn compacted: the page may hold part of  *)
(* a run and be sent the rest of it joined to that part.                   *)
Straddled == drops + crashes > 0 /\ Compacted

(* Every word of the log, and none else.                                   *)
Shows(s) == UNION ToSet(shown) = Words(s)

(* What the database holds and what it refused is the log, compaction and  *)
(* refused writes interleaved as they may be (persist, compact_turn).      *)
DiskIsLog == up => disk \o unsaved = entries

(* The page folds nothing twice and nothing out of order, whatever of the  *)
(* replays, held events and reconnects overlap - as long as no number was  *)
(* handed out twice and no run was joined under a reconnect (sdcp.ts).     *)
ShownInOrder ==
  "forgotten" \notin lapses /\ ~Straddled =>
    \A i, j \in DOMAIN shown : i < j =>
      \A a \in shown[i], b \in shown[j] : a < b

(* A page at rest shows the whole log: nothing else loses an event than    *)
(* the three lapses and a connection lost around a compaction (sdcp.ts).   *)
Converged ==
  Quiet /\ lapses = {} /\ ~Straddled => Shows(entries)

(* The page always comes to rest again (catchUp and its retry).            *)
Settles == []<>Quiet

(* events.rs: after a restart the log does not hand a number the window    *)
(* has seen to a different event.                                          *)
NextIsNew == up => next > daemonSeq

(* ... which holds as long as no crash took what the database refused.     *)
NextIsNewSaved == up /\ "forgotten" \notin lapses => next > daemonSeq

(* events.rs: compaction "changes no fold": a page at rest shows the log.  *)
SameFold == Quiet /\ lapses = {} => Shows(entries)

(* sdcp.ts: "a gap is answered with another event.list", so a page at rest *)
(* has no gap.                                                             *)
NoGap == Quiet /\ lapses \subseteq {"skipped"} /\ ~Compacted => Shows(entries)

=============================================================================
