------------------------------ MODULE JobJournal ------------------------------
(* The job journal of the SDC Agent (v3/journal.rs) and the resume of turns  *)
(* lost with the daemon, for one chat whose tools run on this machine: what  *)
(* a turn writes ahead (agent/mod.rs), what a restart rebuilds from it, how  *)
(* each interrupted call is settled, and how the lost turn is handed to a    *)
(* new one.                                                                  *)
(*                                                                           *)
(* The loop (drive) may call itself: on the next model of v3.failoverOrder   *)
(* when a provider failed for good, on the strong model of the cascade when  *)
(* the draft is stuck.  The inner loop goes on from a capsule under the same *)
(* turn id and opens a Writer of its own: a second `start`.  Each Writer     *)
(* writes its `end` as its loop returns.                                     *)
(*                                                                           *)
(* A call is one of a model's reply; what it does to the machine is how      *)
(* often its effect was made.  Its kind is what `settle` tells apart:        *)
(*   "read"     one of READ_ONLY;                                            *)
(*   "write"    write_file: the file holds the content once it was made;     *)
(*   "edit"     edit_file whose new text does not contain the old;           *)
(*   "append"   edit_file whose new text contains the old (a line added      *)
(*              after another): the old text is there before and after;      *)
(*   "command"  everything else, and an edit of a file that moved on.        *)
EXTENDS Integers, Sequences, FiniteSets, SequencesExt

CONSTANTS
  Kinds,       \* the kinds of calls the model makes
  MaxCalls,    \* bound: calls in one reply
  MaxReply,    \* bound: replies the model gives
  MaxTurn,     \* bound: turns of the chat
  MaxCrash,    \* bound: times the daemon dies
  MaxFail,     \* bound: resumes refused, and turns that end before they begin
  Moves,       \* ways a turn goes on with another model: "failover", "takeover"
  MaxMove,     \* bound: how often one does
  MaxTrouble   \* bound: deaths, failures and changes of model together

ASSUME JobJournalAssumption ==
  /\ Kinds \subseteq {"read", "write", "edit", "append", "command"}
  /\ MaxCalls \in Nat /\ MaxReply \in Nat /\ MaxTurn \in Nat
  /\ MaxCrash \in Nat /\ MaxFail \in Nat
  /\ Moves \subseteq {"failover", "takeover"} /\ MaxMove \in Nat /\ MaxTrouble \in Nat

VARIABLES
  journal,     \* job_events, one sequence of records for each turn
  starts,      \* ... and the turns of its `start` records, oldest first
  pc,          \* where each turn of the chat is
  conv,        \* its conversation in memory
  sent,        \* how much of it is in the journal already
  todo,        \* calls of the newest reply, or of a resume, still to run
  answers,     \* what the others of them answered
  depth,       \* resumes before this turn
  nest,        \* loops waiting for the one at work to return
  offered,     \* PENDING: the turn whose rebuilt conversation waits, or 0
  lost,        \* turns resume_lost_turns still has to handle, in order
  closing,     \* the successor just started for Head(lost), or 0
  up,          \* windows are served; otherwise the daemon is starting
  booted,      \* ... and has read what was lost
  effect,      \* how often each call was made
  replies, crashes, fails, moves \* how often, for the bounds

disk    == <<journal, starts>>
memory  == <<pc, conv, sent, todo, answers, depth, nest>>
startup == <<lost, closing, up, booted>>
counts  == <<replies, crashes, fails, moves>>
vars == <<disk, memory, offered, startup, effect, counts>>

MAX_RESUMES == 3

Turns == 1..Len(pc)
Call == [reply : 1..MaxReply, at : 1..MaxCalls, kind : Kinds]
Live == {"starting", "rerun", "open", "ask", "reply", "run", "result"}

Ask(t)       == [role |-> "user", words |-> t]
Reply(calls) == [role |-> "assistant", calls |-> calls]
Tools(known) == [role |-> "tool", of |-> known]

Record(t, rec) == journal' = [journal EXCEPT ![t] = Append(@, rec)]
Ended(t)   == \E i \in DOMAIN journal[t] : journal[t][i].kind = "end"
Started(t) == \E i \in DOMAIN journal[t] : journal[t][i].kind = "start"

\* unfinished: the `start` records of turns without an `end`, each its own row.
Unfinished == {i \in DOMAIN starts : ~Ended(starts[i])}

\* rebuild: the conversation a journal holds, and the newest reply's calls
\* with the answers known for them.
Nothing == [messages |-> <<>>, calls |-> <<>>, answered |-> <<>>, depth |-> 0]

\* One answer more.
Answering(known, call, answer) ==
  [c \in DOMAIN known \cup {call} |-> IF c = call THEN answer ELSE known[c]]

\* Slip listed in PROJECT.json: the tools' messages leave the calls open.
HeardKeepsCalls(state, added) == [state EXCEPT !.messages = @ \o added]

\* Messages the loop added: tool messages close the reply's calls.
Heard(state, added) ==
  IF \E i \in DOMAIN added : added[i].role = "tool"
  THEN [state EXCEPT !.messages = @ \o added, !.calls = <<>>, !.answered = <<>>]
  ELSE [state EXCEPT !.messages = @ \o added]

\* One record read back.
Read(state, rec) ==
  CASE rec.kind = "start" ->
         [state EXCEPT !.messages = rec.messages, !.depth = rec.depth]
    [] rec.kind = "model" ->
         [state EXCEPT !.messages = Append(@, Reply(rec.calls)),
                       !.calls = rec.calls, !.answered = <<>>]
    [] rec.kind = "result" ->
         [state EXCEPT !.answered = Answering(@, rec.call, rec.answer)]
    [] rec.kind = "messages" -> Heard(state, rec.added)
    [] OTHER -> state

Rebuild(records) ==
  LET read[n \in 0..Len(records)] ==
        IF n = 0 THEN Nothing ELSE Read(read[n - 1], records[n])
  IN  read[Len(records)]

Rebuilt(t) == Rebuild(journal[t])

\* Slips: everything runs again, or only what reads.
RunsAgainAlways(call) == TRUE
RunsAgainReads(call) == call.kind = "read"

\* reconcile_write and settle: a call without an answer runs again, or is
\* answered from what the disk shows.
RunsAgain(call) == \/ call.kind = "read"
                   \/ call.kind \in {"write", "edit"} /\ effect[call] = 0
                   \/ call.kind = "append"
Settled(call) == IF call.kind = "command" THEN "unknown" ELSE "already"

Rerun(old) ==
  {c \in Range(old.calls) : c \notin DOMAIN old.answered /\ RunsAgain(c)}
Known(old) ==
  [c \in Range(old.calls) \ Rerun(old) |->
     IF c \in DOMAIN old.answered THEN old.answered[c] ELSE Settled(c)]

\* The ways to go through a set, each member once.
Listings(set) == {s \in [1..Cardinality(set) -> set] : Range(s) = set}
-----------------------------------------------------------------------------
Init ==
  /\ journal = <<>> /\ starts = <<>>
  /\ pc = <<>> /\ conv = <<>> /\ sent = <<>>
  /\ todo = <<>> /\ answers = <<>> /\ depth = <<>> /\ nest = <<>>
  /\ offered = 0
  /\ lost = <<>> /\ closing = 0 /\ up = TRUE /\ booted = TRUE
  /\ effect = [c \in Call |-> 0]
  /\ replies = 0 /\ crashes = 0 /\ fails = 0 /\ moves = 0

\* engine.start answered with a new turn id; the agent starts on its own.
NewTurn ==
  /\ pc' = Append(pc, "starting")
  /\ conv' = Append(conv, <<Ask(Len(pc) + 1)>>)
  /\ sent' = Append(sent, 0) /\ depth' = Append(depth, 0)
  /\ todo' = Append(todo, <<>>) /\ answers' = Append(answers, <<>>)
  /\ nest' = Append(nest, 0)
  /\ journal' = Append(journal, <<>>)

\* A person asks.
Send ==
  /\ up /\ Len(pc) < MaxTurn
  /\ \A t \in Turns : pc[t] = "gone"
  /\ NewTurn
  /\ UNCHANGED <<starts, offered, startup, effect, counts>>

Goto(t, place) == pc' = [pc EXCEPT ![t] = place]

\* Slip: an inner loop ends early, and those waiting for it with it.
FailEarlyAnywhere(t) ==
  /\ pc[t] = "starting" /\ fails < MaxFail /\ crashes + fails + moves < MaxTrouble
  /\ fails' = fails + 1
  /\ Goto(t, "gone")
  /\ UNCHANGED <<disk, conv, sent, todo, answers, depth, nest, offered, startup,
                 effect, replies, crashes, moves>>

\* A turn that ends before its loop begins and reads the offer (no folder, no
\* key, no model): what was offered stays.
FailEarly(t) ==
  /\ pc[t] = "starting" /\ nest[t] = 0
  /\ fails < MaxFail /\ crashes + fails + moves < MaxTrouble
  /\ fails' = fails + 1
  /\ Goto(t, "gone")
  /\ UNCHANGED <<disk, conv, sent, todo, answers, depth, nest, offered, startup,
                 effect, replies, crashes, moves>>

\* journal::take: the conversation offered to this chat replaces the turn's.
TakeOffer(t) ==
  /\ pc[t] = "starting" /\ offered # 0
  /\ LET old == Rebuilt(offered)
     IN  /\ conv' = [conv EXCEPT ![t] = old.messages]
         /\ depth' = [depth EXCEPT ![t] = old.depth + 1]
         /\ \E again \in Listings(Rerun(old)) :
              /\ \A i, j \in DOMAIN again : i < j => again[i].at < again[j].at
              /\ todo' = [todo EXCEPT ![t] = again]
         /\ answers' = [answers EXCEPT ![t] = Known(old)]
  /\ offered' = 0
  /\ Goto(t, "rerun")
  /\ UNCHANGED <<disk, sent, nest, startup, effect, counts>>

NoOffer(t) ==
  /\ pc[t] = "starting" /\ offered = 0
  /\ Goto(t, "open")
  /\ UNCHANGED <<disk, conv, sent, todo, answers, depth, nest, offered, startup,
                 effect, counts>>

\* An edit whose old text is no longer there fails.
Lands(call) == call.kind = "edit" => effect[call] = 0

\* The interrupted calls that run again, before the new turn's `start`.
RunAgain(t) ==
  /\ pc[t] = "rerun" /\ todo[t] # <<>>
  /\ LET call == Head(todo[t])
     IN  /\ effect' = [effect EXCEPT ![call] = IF Lands(call) THEN @ + 1 ELSE @]
         /\ answers' = [answers EXCEPT ![t] =
                          Answering(@, call, IF Lands(call) THEN "ok" ELSE "failed")]
  /\ todo' = [todo EXCEPT ![t] = Tail(@)]
  /\ UNCHANGED <<disk, pc, conv, sent, depth, nest, offered, startup, counts>>

RunAgainDone(t) ==
  /\ pc[t] = "rerun" /\ todo[t] = <<>>
  /\ conv' = [conv EXCEPT ![t] =
                IF answers[t] = <<>> THEN @ ELSE Append(@, Tools(answers[t]))]
  /\ answers' = [answers EXCEPT ![t] = <<>>]
  /\ Goto(t, "open")
  /\ UNCHANGED <<disk, sent, todo, depth, nest, offered, startup, effect, counts>>

\* Writer::open.
Open(t) ==
  /\ pc[t] = "open"
  /\ Record(t, [kind |-> "start", messages |-> conv[t], depth |-> depth[t]])
  /\ starts' = Append(starts, t)
  /\ sent' = [sent EXCEPT ![t] = Len(conv[t])]
  /\ Goto(t, "ask")
  /\ UNCHANGED <<conv, todo, answers, depth, nest, offered, startup, effect, counts>>

\* The top of a step: what the loop added since the last record, then the
\* request.
Request(t) ==
  /\ pc[t] = "ask"
  /\ IF sent[t] < Len(conv[t])
     THEN Record(t, [kind |-> "messages",
                     added |-> SubSeq(conv[t], sent[t] + 1, Len(conv[t]))])
     ELSE UNCHANGED journal
  /\ sent' = [sent EXCEPT ![t] = Len(conv[t])]
  /\ Goto(t, "reply")
  /\ UNCHANGED <<starts, conv, todo, answers, depth, nest, offered, startup, effect,
                 counts>>

\* Slip: nothing is written ahead.
IntentsNone(calls) == <<>>

Intents(calls) == [i \in DOMAIN calls |-> [kind |-> "intent", call |-> calls[i]]]

\* The reply and the intent of every call of it, before any of them runs.
Answered(t) ==
  /\ pc[t] = "reply" /\ replies < MaxReply
  /\ replies' = replies + 1
  /\ \E n \in 1..MaxCalls : \E kinds \in [1..n -> Kinds] :
       LET calls == [i \in 1..n |-> [reply |-> replies + 1, at |-> i, kind |-> kinds[i]]]
       IN  /\ journal' = [journal EXCEPT ![t] =
                            @ \o <<[kind |-> "model", calls |-> calls]>> \o Intents(calls)]
           /\ conv' = [conv EXCEPT ![t] = Append(@, Reply(calls))]
           /\ todo' = [todo EXCEPT ![t] = calls]
  /\ sent' = [sent EXCEPT ![t] = @ + 1]
  /\ answers' = [answers EXCEPT ![t] = <<>>]
  /\ Goto(t, "run")
  /\ UNCHANGED <<starts, depth, nest, offered, startup, effect, crashes, fails, moves>>

\* tools::execute; the answer is journaled afterwards.
Execute(t) ==
  /\ pc[t] = "run" /\ todo[t] # <<>>
  /\ effect' = [effect EXCEPT ![Head(todo[t])] = @ + 1]
  /\ Goto(t, "result")
  /\ UNCHANGED <<disk, conv, sent, todo, answers, depth, nest, offered, startup, counts>>

Result(t) ==
  /\ pc[t] = "result"
  /\ LET call == Head(todo[t])
     IN  /\ Record(t, [kind |-> "result", call |-> call, answer |-> "ok"])
         /\ answers' = [answers EXCEPT ![t] = Answering(@, call, "ok")]
  /\ todo' = [todo EXCEPT ![t] = Tail(@)]
  /\ Goto(t, "run")
  /\ UNCHANGED <<starts, conv, sent, depth, nest, offered, startup, effect, counts>>

StepDone(t) ==
  /\ pc[t] = "run" /\ todo[t] = <<>>
  /\ conv' = [conv EXCEPT ![t] = Append(@, Tools(answers[t]))]
  /\ answers' = [answers EXCEPT ![t] = <<>>]
  /\ Goto(t, "ask")
  /\ UNCHANGED <<disk, sent, todo, depth, nest, offered, startup, effect, counts>>

\* The loop calls itself with a capsule for its prompt; it waits behind the
\* inner one, its Writer open.
Nested(t) ==
  /\ moves < MaxMove /\ crashes + fails + moves < MaxTrouble
  /\ moves' = moves + 1
  /\ nest' = [nest EXCEPT ![t] = @ + 1]
  /\ conv' = [conv EXCEPT ![t] = <<Ask(t)>>]
  /\ sent' = [sent EXCEPT ![t] = 0] /\ depth' = [depth EXCEPT ![t] = 0]
  /\ todo' = [todo EXCEPT ![t] = <<>>] /\ answers' = [answers EXCEPT ![t] = <<>>]
  /\ Goto(t, "starting")
  /\ UNCHANGED <<disk, offered, startup, effect, replies, crashes, fails>>

\* The provider failed for good.
FailOver(t) == "failover" \in Moves /\ pc[t] = "reply" /\ Nested(t)

\* The draft model is stuck, its last step's answers not yet journaled.
TakeOver(t) ==
  "takeover" \in Moves /\ pc[t] = "ask" /\ sent[t] < Len(conv[t]) /\ Nested(t)

\* Every way out that runs code - the last answer, a failure, a stop between
\* two calls - drops the Writer, which writes `end`.
End(t) ==
  /\ pc[t] \in {"ask", "reply", "run"}
  /\ Record(t, [kind |-> "end", as |-> 0])
  /\ Goto(t, IF nest[t] = 0 THEN "gone" ELSE "unwind")
  /\ UNCHANGED <<starts, conv, sent, todo, answers, depth, nest, offered, startup, effect,
                 counts>>

\* ... and each loop that waited for this one returns and drops its own.
Unwind(t) ==
  /\ pc[t] = "unwind"
  /\ Record(t, [kind |-> "end", as |-> 0])
  /\ nest' = [nest EXCEPT ![t] = @ - 1]
  /\ Goto(t, IF nest[t] = 1 THEN "gone" ELSE "unwind")
  /\ UNCHANGED <<starts, conv, sent, todo, answers, depth, offered, startup, effect,
                 counts>>
-----------------------------------------------------------------------------
(* The daemon dies and starts again.                                        *)
Crash ==
  /\ crashes < MaxCrash /\ crashes + fails + moves < MaxTrouble
  /\ Len(pc) + Cardinality(Unfinished) <= MaxTurn
  /\ crashes' = crashes + 1
  /\ pc' = [t \in Turns |-> "gone"]
  /\ todo' = [t \in Turns |-> <<>>] /\ answers' = [t \in Turns |-> <<>>]
  /\ conv' = [t \in Turns |-> <<>>] /\ sent' = [t \in Turns |-> 0]
  /\ depth' = [t \in Turns |-> 0] /\ nest' = [t \in Turns |-> 0]
  /\ offered' = 0 /\ lost' = <<>> /\ closing' = 0
  /\ up' = FALSE /\ booted' = FALSE
  /\ UNCHANGED <<disk, effect, replies, fails, moves>>

\* A turn that began twice is found, and handed over, twice.
Boot ==
  /\ ~booted
  /\ booted' = TRUE
  /\ \E rows \in Listings(Unfinished) :
       /\ \A i, j \in DOMAIN rows : i < j => rows[i] < rows[j]
       /\ lost' = [i \in DOMAIN rows |-> starts[rows[i]]]
  /\ UNCHANGED <<disk, memory, offered, closing, up, effect, counts>>

\* The lost turn was resumed too often in a row, resume is off, or its folder
\* is gone.
Refuse ==
  /\ booted /\ lost # <<>> /\ closing = 0
  /\ \/ Rebuilt(Head(lost)).depth + 1 >= MAX_RESUMES /\ UNCHANGED fails
     \/ /\ fails < MaxFail /\ crashes + fails + moves < MaxTrouble
        /\ fails' = fails + 1
  /\ Record(Head(lost), [kind |-> "end", as |-> 0])
  /\ lost' = Tail(lost)
  /\ UNCHANGED <<starts, memory, offered, closing, up, booted, effect, replies, crashes,
                 moves>>

\* offer, then engine.start...
StartResume ==
  /\ booted /\ lost # <<>> /\ closing = 0
  /\ Rebuilt(Head(lost)).depth + 1 < MAX_RESUMES
  /\ offered' = Head(lost)
  /\ NewTurn
  /\ closing' = Len(pc) + 1
  /\ UNCHANGED <<starts, lost, up, booted, effect, counts>>

\* ... which may refuse: the offer is taken back, whatever lay there before.
StartFails ==
  /\ booted /\ lost # <<>> /\ closing = 0
  /\ Rebuilt(Head(lost)).depth + 1 < MAX_RESUMES
  /\ fails < MaxFail /\ crashes + fails + moves < MaxTrouble
  /\ fails' = fails + 1
  /\ offered' = 0
  /\ Record(Head(lost), [kind |-> "end", as |-> 0])
  /\ lost' = Tail(lost)
  /\ UNCHANGED <<starts, memory, closing, up, booted, effect, replies, crashes, moves>>

\* Slip: the journal of a turn that was handed over is never closed.
CloseResumedNot ==
  /\ booted /\ closing # 0
  /\ lost' = Tail(lost) /\ closing' = 0
  /\ UNCHANGED <<disk, memory, offered, up, booted, effect, counts>>

\* ... then the lost turn is closed as "resumed as".
CloseResumed ==
  /\ booted /\ closing # 0
  /\ Record(Head(lost), [kind |-> "end", as |-> closing])
  /\ lost' = Tail(lost) /\ closing' = 0
  /\ UNCHANGED <<starts, memory, offered, up, booted, effect, counts>>

Serve ==
  /\ booted /\ ~up /\ lost = <<>>
  /\ up' = TRUE
  /\ UNCHANGED <<disk, memory, offered, lost, closing, booted, effect, counts>>
-----------------------------------------------------------------------------
TurnStep(t) ==
  \/ TakeOffer(t) \/ NoOffer(t) \/ RunAgain(t) \/ RunAgainDone(t) \/ Open(t)
  \/ Request(t) \/ Answered(t) \/ Execute(t) \/ Result(t) \/ StepDone(t)
  \/ FailOver(t) \/ TakeOver(t) \/ End(t) \/ Unwind(t)

Startup == Boot \/ Refuse \/ StartResume \/ StartFails \/ CloseResumed \/ Serve

Next ==
  \/ Send
  \/ \E t \in Turns : TurnStep(t) \/ FailEarly(t)
  \/ Crash
  \/ Startup

Spec == Init /\ [][Next]_vars

\* The daemon runs on while it has something to do: a turn's thread, whose
\* requests and tools end (by their time limits, if need be), or its start-up.
Runs == Startup \/ \E t \in Turns : TurnStep(t)
FairSpec == Spec /\ WF_vars(Runs)
-----------------------------------------------------------------------------
(* Properties.                                                              *)
Outcomes == {"ok", "failed", "unknown", "already"}
AnswersOk(known) ==
  DOMAIN known \subseteq Call /\ \A c \in DOMAIN known : known[c] \in Outcomes

\* Every variable has its type; what is handed over is a turn that had begun,
\* and no loop waits for a turn that is gone.
TypeOK ==
  /\ pc \in Seq(Live \cup {"unwind", "gone"}) /\ Len(pc) <= MaxTurn
  /\ Len(journal) = Len(pc) /\ Len(conv) = Len(pc) /\ Len(sent) = Len(pc)
  /\ Len(todo) = Len(pc) /\ Len(answers) = Len(pc) /\ Len(depth) = Len(pc)
  /\ nest \in [Turns -> Nat]
  /\ \A t \in Turns :
       /\ \A i \in DOMAIN conv[t] :
            IF conv[t][i].role = "tool" THEN AnswersOk(conv[t][i].of)
            ELSE conv[t][i].role = "user" \/ Range(conv[t][i].calls) \subseteq Call
       /\ Range(todo[t]) \subseteq Call /\ AnswersOk(answers[t])
       /\ sent[t] \in 0..Len(conv[t]) /\ depth[t] \in Nat
       /\ pc[t] = "result" => todo[t] # <<>>
       /\ pc[t] = "gone" => nest[t] = 0
       /\ pc[t] = "unwind" => nest[t] > 0
  /\ offered \in 0..Len(pc) /\ closing \in 0..Len(pc)
  /\ Range(starts) = {t \in Turns : Started(t)} /\ Range(lost) \subseteq Range(starts)
  /\ up \in BOOLEAN /\ booted \in BOOLEAN /\ (up => booted)
  /\ effect \in [Call -> Nat]
  /\ replies \in 0..MaxReply /\ crashes \in 0..MaxCrash /\ fails \in 0..MaxFail
  /\ moves \in 0..MaxMove

\* A command, and an edit whose old text it removes, is made at most once
\* however often the daemon dies and the turn is resumed.
NotRepeated ==
  \A c \in Call : c.kind \in {"command", "edit"} => effect[c] <= 1

\* Nothing runs whose intent is not on disk: after any crash each effect that
\* was made is one the journal names.
WrittenAhead ==
  \A c \in Call : effect[c] > 0 =>
    \E t \in Turns : \E i \in DOMAIN journal[t] :
      journal[t][i].kind = "intent" /\ journal[t][i].call = c

\* A conversation a model's provider accepts: each reply's calls are answered,
\* all and only they, by the message right after it.
Accepted(talk) ==
  \A i \in DOMAIN talk :
    /\ talk[i].role = "assistant" =>
         /\ i < Len(talk) /\ talk[i + 1].role = "tool"
         /\ DOMAIN talk[i + 1].of = Range(talk[i].calls)
    /\ talk[i].role = "tool" => i > 1 /\ talk[i - 1].role = "assistant"

\* A loop began over a reply whose calls no record had closed yet.
BegunOver(records) ==
  \E i, j \in DOMAIN records :
    /\ i < j /\ records[i].kind = "model" /\ records[j].kind = "start"
    /\ \A k \in (i + 1)..(j - 1) : records[k].kind # "messages"

\* The conversation of every request, rebuilt ones included, is one a provider
\* accepts, unless the strong model took over from a draft in the meantime.
EveryCallAnswered ==
  \A t \in Turns : pc[t] = "reply" =>
    Accepted(conv[t]) \/ \E u \in Turns : BegunOver(journal[u])

\* journal.rs:402: the open calls are those of the newest reply only; the
\* same without the exception.
EveryRequestAccepted == \A t \in Turns : pc[t] = "reply" => Accepted(conv[t])

\* No answer claims a change that was not made, and only a command's outcome
\* is left unknown.
AnswersAreHonest ==
  \A t \in Turns : \A i \in DOMAIN conv[t] : conv[t][i].role = "tool" =>
    \A c \in DOMAIN conv[t][i].of :
      /\ conv[t][i].of[c] = "unknown" => c.kind = "command"
      /\ conv[t][i].of[c] \in {"ok", "already"} => effect[c] >= 1

\* A turn closed is closed for good: behind an `end` come only the ends of the
\* loops that waited for it, and of the start-up that handed it over.
EndIsFinal ==
  [][\A t \in Turns : Ended(t) =>
       \/ journal'[t] = journal[t]
       \/ \E n \in 0..Len(pc) : journal'[t] = Append(journal[t], [kind |-> "end", as |-> n])]_vars

\* How often a turn was closed as resumed, and how often it began.
Resumed(t) == Cardinality({i \in DOMAIN journal[t] :
                             journal[t][i].kind = "end" /\ journal[t][i].as # 0})
Begun(t) == Cardinality({i \in DOMAIN starts : starts[i] = t})

\* However often the daemon dies, a turn is closed as resumed at most once for
\* each time it began.
ResumedPerStart == \A t \in Turns : Resumed(t) <= Begun(t)

\* journal.rs:12: a turn lost with the daemon is continued as a new turn, one.
ResumedOnce == \A t \in Turns : Resumed(t) <= 1

\* Every journal is closed at last: by its turn, or after a crash by the start
\* that refuses the turn or resumes it as one whose journal is closed in turn.
EveryJobEnds ==
  (Unfinished # {}) ~> (Unfinished = {})

\* journal.rs:14: an edit that never answered is not repeated blindly.
EditsNotRepeated ==
  \A c \in Call : c.kind \in {"edit", "append"} => effect[c] <= 1

\* journal.rs:508: a turn lost with the daemon is continued as a new turn in
\* its chat, or closed with the reason it is not: the turn it was closed for
\* is at work, or its own journal was begun.
NoJobForgotten ==
  \A t, n \in Turns : \A i \in DOMAIN journal[t] :
    journal[t][i] = [kind |-> "end", as |-> n] => Started(n) \/ pc[n] \in Live
=============================================================================
