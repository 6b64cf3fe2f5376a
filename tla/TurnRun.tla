------------------------------ MODULE TurnRun ------------------------------
(***************************************************************************)
(* One chat's turns as the daemon runs them.                               *)
(*                                                                         *)
(* Four tasks share a turn.  engine_start answers the window and spawns    *)
(* run_turn; run_turn spawns steer::drive, which runs the engine and       *)
(* writes into a channel; run_turn's loop reads the channel and pushes     *)
(* events to the window; and the person's calls (engine.steer,             *)
(* engine.cancel, kill.all, permission.resolve) come in on tasks of their  *)
(* own.  What they share is process-wide: the mailboxes, the cancel marks, *)
(* the kill register and the gate of open questions.                       *)
(*                                                                         *)
(* The window is the fold of the pushed events: a turn's card, whether one *)
(* of its tool cards still spins, and the one permission dialog.           *)
(***************************************************************************)
EXTENDS Naturals, Sequences

CONSTANTS
  Turn,       \* the turns a chat may run
  Kinds,      \* engine kinds of the instance, a subset of AllKinds
  NoTurn,     \* the permission dialog is closed
  MaxEmit,    \* bound: events an engine (or drive) emits by itself, per turn
  MaxSteer,   \* bound: messages the person sends into running turns
  MaxStop     \* bound: engine.cancel and kill.all calls

(* "cli": a child process, stopped only by killing it (Codex, Gemini).     *)
(* "stdin": one that takes messages on its stdin meanwhile (Claude Code).  *)
(* "http": a plain API or Ollama chat; its read loop polls the marks.      *)
(* "agent": SDC's agent loop; polls the cancel mark, reads its own mail.   *)
AllKinds == {"cli", "stdin", "http", "agent"}
Process == {"cli", "stdin"}

ASSUME ConstantsAssumption ==
  /\ Kinds \subseteq AllKinds
  /\ NoTurn \notin Turn
  /\ MaxEmit \in Nat /\ MaxSteer \in Nat /\ MaxStop \in Nat

Stages  == {"idle", "preparing", "running", "settling", "finishing", "over"}
Engines == {"off", "starting", "working", "asking", "ended", "closing", "gone"}
Cards   == {"none", "running", "done", "failed"}
Endings == {"done", "failed"}
Items   == {"delta", "tool", "toolDone", "usage", "ask", "steer"} \cup Endings
Nothing == "nothing"
Shut    == [msgs |-> <<>>, open |-> FALSE, live |-> FALSE, interrupting |-> FALSE]

VARIABLES
  kind,      \* which engine runs the turn
  stage,     \* where engine_start / run_turn is
  engine,    \* where drive and its engine are
  ending,    \* drive: the engine's terminal event, held back
  mailbox,   \* engines::steer, MAILBOXES
  marks,     \* engines::cancel, the set of stopped turns
  register,  \* trust::kill, what is running
  children,  \* CliEngine.children: turns whose process can be killed
  killed,    \* turns whose process was sent the signal
  input,     \* Steering.stdin: turns whose process still takes messages
  kills,     \* spawned `engine.cancel` tasks that have not run yet
  stream,    \* the channel from the engine to run_turn's loop
  hand,      \* the event the loop has received and not handled
  said,      \* the loop's `answer` is not empty
  pending,   \* deltas gathered and not pushed
  completed, \* the TurnCompleted that run_turn keeps for its end
  halted,    \* the kernel stopped the turn
  gate,      \* agent::gate, the turn's question
  calls,     \* engine: a tool call it started and has not completed
  emitted,   \* bound counter
  stopping,  \* a stop has marked the turn and not yet said TurnCompleted
  card, spinning, dialog, attention,   \* the window, and the chat's amber mark
  sent, stops,                         \* bound counters
  accepted, joined,                    \* history: messages per turn, in order
  broken,                              \* history: a message could not be written
  stopped, drained                     \* history: who was stopped, and by kill.all

engineVars == <<engine, ending, children, killed, input, calls, emitted, gate>>
steered    == <<joined, broken>>
loopVars   == <<hand, said, pending, completed, halted>>
windowVars == <<card, spinning, dialog, attention>>
personVars == <<sent, stops, accepted, stopped, drained, stopping>>
vars == <<kind, stage, mailbox, marks, register, kills, stream, steered,
          engineVars, loopVars, windowVars, personVars>>

TypeOK ==
  /\ kind \in [Turn -> Kinds]
  /\ stage \in [Turn -> Stages]
  /\ engine \in [Turn -> Engines]
  /\ ending \in [Turn -> Endings \cup {Nothing}]
  /\ mailbox \in [Turn -> [msgs: Seq(1..MaxSteer), open: BOOLEAN,
                           live: BOOLEAN, interrupting: BOOLEAN]]
  /\ {marks, register, children, killed, input, kills, stopping, stopped, drained, broken}
       \subseteq SUBSET Turn
  /\ stream \in [Turn -> Seq(Items)]
  /\ hand \in [Turn -> Items \cup {Nothing}]
  /\ {said, pending, completed, halted, calls, spinning} \subseteq [Turn -> BOOLEAN]
  /\ gate \in [Turn -> {"shut", "open", "answered"}]
  /\ emitted \in [Turn -> 0..MaxEmit]
  /\ card \in [Turn -> Cards]
  /\ dialog \in Turn \cup {NoTurn}
  /\ attention \in BOOLEAN
  /\ sent \in 0..MaxSteer /\ stops \in 0..MaxStop
  /\ {accepted, joined} \subseteq [Turn -> Seq(1..MaxSteer)]

Init ==
  /\ kind \in [Turn -> Kinds]
  /\ stage = [t \in Turn |-> "idle"]
  /\ engine = [t \in Turn |-> "off"]
  /\ ending = [t \in Turn |-> Nothing]
  /\ mailbox = [t \in Turn |-> Shut]
  /\ marks = {} /\ register = {} /\ children = {} /\ killed = {} /\ kills = {}
  /\ input = {} /\ broken = {}
  /\ stream = [t \in Turn |-> <<>>]
  /\ hand = [t \in Turn |-> Nothing]
  /\ said = [t \in Turn |-> FALSE]
  /\ pending = [t \in Turn |-> FALSE]
  /\ completed = [t \in Turn |-> FALSE]
  /\ halted = [t \in Turn |-> FALSE]
  /\ gate = [t \in Turn |-> "shut"]
  /\ calls = [t \in Turn |-> FALSE]
  /\ emitted = [t \in Turn |-> 0]
  /\ stopping = {}
  /\ card = [t \in Turn |-> "none"]
  /\ spinning = [t \in Turn |-> FALSE]
  /\ dialog = NoTurn
  /\ attention = FALSE
  /\ sent = 0 /\ stops = 0
  /\ accepted = [t \in Turn |-> <<>>]
  /\ joined = [t \in Turn |-> <<>>]
  /\ stopped = {} /\ drained = {}

-----------------------------------------------------------------------------
(* What a pushed event does in the window.                                 *)

(* TurnDelta, ThinkingDelta: whatever the card said, the turn is running.  *)
ShowDelta(t) == card' = [card EXCEPT ![t] = "running"]

(* TurnCompleted: a failed card stays failed; tools and the dialog end.    *)
ShowCompleted(t) ==
  /\ card' = [card EXCEPT ![t] = IF @ = "failed" THEN @ ELSE "done"]
  /\ spinning' = [spinning EXCEPT ![t] = FALSE]
  /\ dialog' = IF dialog = t THEN NoTurn ELSE dialog

(* The shared half of Engine::cancel: a CLI's child is killed when it is   *)
(* registered, the agent marks its turn, an HTTP engine does nothing.      *)
CancelEngine(t) ==
  /\ children' = children \ {t}
  /\ killed' = IF t \in children THEN killed \cup {t} ELSE killed
  /\ marks' = IF kind[t] = "agent" THEN marks \cup {t} ELSE marks

(* The stop check of the running engine.                                   *)
StopSignal(t) ==
  CASE kind[t] \in Process -> t \in killed
    [] kind[t] = "http"     -> t \in marks \/ mailbox[t].interrupting
    [] kind[t] = "agent"    -> t \in marks

-----------------------------------------------------------------------------
(* engine_start and the head of run_turn.                                  *)

(* engine.start up to its answer: TurnStarted is pushed, then the rest of  *)
(* the turn is prepared.  The window sends a chat's next prompt only when  *)
(* no card of the chat is running.                                         *)
EngineStart(t) ==
  /\ stage[t] = "idle"
  /\ \A u \in Turn : card[u] # "running"
  /\ stage' = [stage EXCEPT ![t] = "preparing"]
  /\ card' = [card EXCEPT ![t] = "running"]
  /\ UNCHANGED <<kind, mailbox, marks, register, kills, stream, steered, engineVars,
                 loopVars, personVars, spinning, dialog, attention>>

(* The spawned run_turn: the turn enters the kill register.                *)
RunTurn(t) ==
  /\ stage[t] = "preparing"
  /\ stage' = [stage EXCEPT ![t] = "running"]
  /\ register' = register \cup {t}
  /\ UNCHANGED <<kind, mailbox, marks, kills, stream, steered, engineVars, loopVars,
                 windowVars, personVars>>

-----------------------------------------------------------------------------
(* steer::drive and the engine it runs.                                    *)

(* drive begins: the mailbox is open from here on.                         *)
DriveOpen(t) ==
  /\ stage[t] = "running" /\ engine[t] = "off"
  /\ mailbox' = [mailbox EXCEPT ![t] = [Shut EXCEPT !.open = TRUE]]
  /\ engine' = [engine EXCEPT ![t] = "starting"]
  /\ UNCHANGED <<kind, stage, marks, register, kills, stream, steered, ending, children,
                 killed, calls, emitted, gate, loopVars, windowVars, personVars, input>>

(* The engine is up; a CLI's child is now known by its turn.               *)
EngineUp(t) ==
  /\ engine[t] = "starting"
  /\ engine' = [engine EXCEPT ![t] = "working"]
  /\ children' = IF kind[t] \in Process THEN children \cup {t} ELSE children
  /\ UNCHANGED <<kind, stage, mailbox, marks, register, kills, stream, steered, ending,
                 killed, calls, emitted, gate, loopVars, windowVars, personVars, input>>

(* What each kind of engine can say, given its open tool call.             *)
CanEmit(t) ==
  IF kind[t] = "stdin" /\ ~mailbox[t].live THEN {}
  ELSE {"delta", "usage"} \cup
       (IF kind[t] = "http" THEN {} ELSE IF calls[t] THEN {"toolDone"} ELSE {"tool"})

(* The engine says something; it goes into the channel.                    *)
Emit(t) ==
  /\ engine[t] = "working"
  /\ emitted[t] < MaxEmit
  /\ \E e \in CanEmit(t) :
       /\ stream' = [stream EXCEPT ![t] = Append(@, e)]
       /\ calls' = [calls EXCEPT ![t] = IF e = "tool" THEN TRUE
                                        ELSE IF e = "toolDone" THEN FALSE ELSE @]
  /\ emitted' = [emitted EXCEPT ![t] = @ + 1]
  /\ UNCHANGED <<kind, stage, mailbox, marks, register, kills, steered, engine, ending,
                 children, killed, gate, loopVars, windowVars, personVars, input>>

(* steer::go_live: the agent's loop reads its messages itself, and so does *)
(* Claude Code once its prompt is written.                                 *)
GoLive(t) ==
  /\ kind[t] \in {"agent", "stdin"} /\ engine[t] = "working"
  /\ ~mailbox[t].live
  /\ mailbox' = [mailbox EXCEPT ![t].live = TRUE]
  /\ input' = IF kind[t] = "stdin" THEN input \cup {t} ELSE input
  /\ UNCHANGED <<kind, stage, marks, register, kills, stream, steered, engine, ending,
                 children, killed, calls, emitted, gate, loopVars, windowVars, personVars>>

(* Steered events for a batch of messages, and what drive says after them. *)
Steered(t, batch, after) ==
  /\ stream' = [stream EXCEPT ![t] = @ \o [i \in 1..Len(batch) |-> "steer"] \o after]
  /\ joined' = [joined EXCEPT ![t] = @ \o batch]

(* The agent takes what arrived, between its steps.                        *)
AgentTake(t) ==
  /\ kind[t] = "agent" /\ engine[t] = "working" /\ mailbox[t].live
  /\ mailbox[t].msgs # <<>>
  /\ Steered(t, mailbox[t].msgs, <<>>)
  /\ mailbox' = [mailbox EXCEPT ![t].msgs = <<>>]
  /\ UNCHANGED <<kind, stage, marks, register, kills, broken, engineVars, loopVars,
                 windowVars, personVars>>

(* Steering: the process's stdin gets what arrived.  A write that fails    *)
(* closes it, and the rest of the batch, out of the mailbox already, is    *)
(* gone.                                                                   *)
StdinTake(t) ==
  /\ engine[t] = "working" /\ t \in input
  /\ mailbox[t].msgs # <<>>
  /\ mailbox' = [mailbox EXCEPT ![t].msgs = <<>>]
  /\ \E written \in 0..Len(mailbox[t].msgs) :
       /\ Steered(t, SubSeq(mailbox[t].msgs, 1, written), <<>>)
       /\ IF written = Len(mailbox[t].msgs)
          THEN UNCHANGED <<input, broken>>
          ELSE input' = input \ {t} /\ broken' = broken \cup {t}
  /\ UNCHANGED <<kind, stage, marks, register, kills, engine, ending, children, killed,
                 calls, emitted, gate, loopVars, windowVars, personVars>>

(* gate::ask: the question is registered first, then sent.                 *)
Ask(t) ==
  /\ kind[t] = "agent" /\ engine[t] = "working" /\ mailbox[t].live
  /\ emitted[t] < MaxEmit
  /\ gate' = [gate EXCEPT ![t] = "open"]
  /\ stream' = [stream EXCEPT ![t] = Append(@, "ask")]
  /\ engine' = [engine EXCEPT ![t] = "asking"]
  /\ emitted' = [emitted EXCEPT ![t] = @ + 1]
  /\ UNCHANGED <<kind, stage, mailbox, marks, register, kills, steered, ending, children,
                 killed, input, calls, loopVars, windowVars, personVars>>

AskReturns(t) ==
  /\ engine' = [engine EXCEPT ![t] = "working"]
  /\ gate' = [gate EXCEPT ![t] = "shut"]
  /\ UNCHANGED <<kind, stage, mailbox, marks, register, kills, stream, steered, ending,
                 children, killed, calls, emitted, loopVars, windowVars, personVars, input>>

(* The answer reached the waiting agent.                                   *)
AskAnswered(t) == engine[t] = "asking" /\ gate[t] = "answered" /\ AskReturns(t)

(* Slip: the wait for an answer never looks at the mark.                   *)
AskStoppedNever(t) == engine[t] = "asking" /\ t \in marks /\ FALSE /\ AskReturns(t)

(* The quarter-second poll found the mark; an answer sent after the        *)
(* timeout and before the mark was read is thrown away with the receiver.  *)
AskStopped(t) == engine[t] = "asking" /\ t \in marks /\ AskReturns(t)

(* Slip: the engine's terminal event goes straight into the channel.       *)
EngineReturnsLoud(t) ==
  /\ \E e \in Endings :
       /\ ending' = [ending EXCEPT ![t] = e]
       /\ stream' = [stream EXCEPT ![t] = Append(@, e)]
  /\ engine' = [engine EXCEPT ![t] = "ended"]
  /\ children' = children \ {t}
  /\ input' = input \ {t}
  /\ calls' = [calls EXCEPT ![t] = FALSE]
  /\ UNCHANGED <<kind, stage, mailbox, marks, register, kills, steered, killed, emitted,
                 gate, loopVars, windowVars, personVars>>

(* Slip: an engine returns and has said neither Done nor Failed.           *)
EngineReturnsMute(t) ==
  /\ engine' = [engine EXCEPT ![t] = "ended"]
  /\ children' = children \ {t}
  /\ input' = input \ {t}
  /\ calls' = [calls EXCEPT ![t] = FALSE]
  /\ UNCHANGED <<kind, stage, mailbox, marks, register, kills, stream, steered, killed,
                 ending, emitted, gate, loopVars, windowVars, personVars>>

(* engine.start returns; drive holds the terminal event.                   *)
EngineReturns(t) ==
  /\ \E e \in Endings : ending' = [ending EXCEPT ![t] = e]
  /\ engine' = [engine EXCEPT ![t] = "ended"]
  /\ children' = children \ {t}
  /\ input' = input \ {t}
  /\ calls' = [calls EXCEPT ![t] = FALSE]
  /\ UNCHANGED <<kind, stage, mailbox, marks, register, kills, stream, steered, killed,
                 emitted, gate, loopVars, windowVars, personVars>>

EngineEnds(t)  == engine[t] = "working" /\ ~StopSignal(t) /\ EngineReturns(t)
EngineStops(t) == engine[t] = "working" /\ StopSignal(t) /\ EngineReturns(t)

(* drive's watcher, every quarter second while the engine runs.            *)
Watch(t) ==
  /\ engine[t] \in {"starting", "working", "asking"}
  /\ ~mailbox[t].live /\ ~mailbox[t].interrupting /\ mailbox[t].msgs # <<>>
  /\ mailbox' = [mailbox EXCEPT ![t].interrupting = TRUE]
  /\ CancelEngine(t)
  /\ UNCHANGED <<kind, stage, register, kills, stream, steered, engine, ending, calls,
                 emitted, gate, loopVars, windowVars, personVars, input>>

(* A new paragraph, when the engine had said something before it stopped;  *)
(* it counts as one of the turn's MaxEmit events.                          *)
Paragraph(t) == {<<>>} \cup (IF emitted[t] \in 1..(MaxEmit - 1) THEN {<<"delta">>} ELSE {})

(* Slip: drive reads the messages and leaves them in the mailbox.          *)
DriveOnKeeps(t) ==
  /\ engine[t] = "ended"
  /\ t \notin marks /\ mailbox[t].msgs # <<>>
  /\ \E after \in Paragraph(t) :
       /\ Steered(t, mailbox[t].msgs, after)
       /\ emitted' = [emitted EXCEPT ![t] = @ + Len(after)]
  /\ mailbox' = [mailbox EXCEPT ![t].live = FALSE, ![t].interrupting = FALSE]
  /\ engine' = [engine EXCEPT ![t] = "starting"]
  /\ ending' = [ending EXCEPT ![t] = Nothing]
  /\ killed' = killed \ {t}
  /\ UNCHANGED <<kind, stage, marks, register, kills, children, calls, gate, loopVars,
                 windowVars, personVars, input, broken>>

(* The engine returned and a message is waiting: the same turn goes on     *)
(* with it, the ending forgotten and the mailbox's flags reset.            *)
DriveOn(t) ==
  /\ engine[t] = "ended"
  /\ t \notin marks /\ mailbox[t].msgs # <<>>
  /\ \E after \in Paragraph(t) :
       /\ Steered(t, mailbox[t].msgs, after)
       /\ emitted' = [emitted EXCEPT ![t] = @ + Len(after)]
  /\ mailbox' = [mailbox EXCEPT ![t] = [Shut EXCEPT !.open = TRUE]]
  /\ engine' = [engine EXCEPT ![t] = "starting"]
  /\ ending' = [ending EXCEPT ![t] = Nothing]
  /\ killed' = killed \ {t}
  /\ UNCHANGED <<kind, stage, marks, register, kills, children, calls, gate, loopVars,
                 windowVars, personVars, input, broken>>

(* No message was waiting, or the turn was stopped: the ending goes out.   *)
DriveEnd(t) ==
  /\ engine[t] = "ended"
  /\ t \in marks \/ mailbox[t].msgs = <<>>
  /\ stream' = [stream EXCEPT ![t] = Append(@, ending[t])]
  /\ engine' = [engine EXCEPT ![t] = "closing"]
  /\ UNCHANGED <<kind, stage, mailbox, marks, register, kills, steered, ending, children,
                 killed, calls, emitted, gate, loopVars, windowVars, personVars, input>>

(* drive returns: the Inbox guard closes the mailbox, the sink is dropped. *)
DriveClose(t) ==
  /\ engine[t] = "closing"
  /\ mailbox' = [mailbox EXCEPT ![t] = Shut]
  /\ engine' = [engine EXCEPT ![t] = "gone"]
  /\ UNCHANGED <<kind, stage, marks, register, kills, stream, steered, ending, children,
                 killed, calls, emitted, gate, loopVars, windowVars, personVars, input>>

-----------------------------------------------------------------------------
(* run_turn's loop over the channel.                                       *)

loopRest == <<kind, mailbox, register, steered, engineVars, personVars>>

(* The loop receives an event; one of a stopped turn is dropped, and what  *)
(* was gathered with it.                                                   *)
Receive(t) ==
  /\ stage[t] = "running" /\ hand[t] = Nothing
  /\ stream[t] # <<>>
  /\ stream' = [stream EXCEPT ![t] = Tail(@)]
  /\ IF t \in marks
     THEN hand' = hand /\ pending' = [pending EXCEPT ![t] = FALSE]
     ELSE hand' = [hand EXCEPT ![t] = Head(stream[t])] /\ pending' = pending
  /\ UNCHANGED <<loopRest, stage, marks, kills, said, completed, halted, windowVars>>

(* The delta window ran out: what was gathered is pushed.                  *)
FlushTimer(t) ==
  /\ stage[t] = "running" /\ hand[t] = Nothing /\ pending[t]
  /\ ShowDelta(t)
  /\ pending' = [pending EXCEPT ![t] = FALSE]
  /\ UNCHANGED <<loopRest, stage, marks, kills, stream, hand, said, completed, halted,
                 spinning, dialog, attention>>

(* The first words go out at once, later ones are gathered.                *)
HandleDelta(t) ==
  /\ hand[t] = "delta"
  /\ hand' = [hand EXCEPT ![t] = Nothing]
  /\ said' = [said EXCEPT ![t] = TRUE]
  /\ IF said[t] THEN pending' = [pending EXCEPT ![t] = TRUE] /\ card' = card
                ELSE pending' = pending /\ ShowDelta(t)
  /\ UNCHANGED <<loopRest, stage, marks, kills, stream, completed, halted, spinning,
                 dialog, attention>>

(* Every other event pushes what was gathered before it.                   *)
Flushed(t) == IF pending[t] THEN "running" ELSE card[t]

TakeHand(t, e) ==
  /\ hand[t] = e
  /\ hand' = [hand EXCEPT ![t] = Nothing]
  /\ pending' = [pending EXCEPT ![t] = FALSE]
  /\ UNCHANGED <<loopRest, stage, stream, said>>

(* halt: the mark, a spawned engine.cancel, and the kernel's TurnCompleted.*)
Halt(t) ==
  /\ ~halted[t]
  /\ halted' = [halted EXCEPT ![t] = TRUE]
  /\ marks' = marks \cup {t}
  /\ kills' = kills \cup {t}
  /\ card' = [card EXCEPT ![t] = IF Flushed(t) = "failed" THEN @ ELSE "done"]
  /\ dialog' = IF dialog = t THEN NoTurn ELSE dialog

KeepGoing(t) ==
  /\ card' = [card EXCEPT ![t] = Flushed(t)]
  /\ UNCHANGED <<marks, kills, halted>>

(* A tool call opens its card; the kernel may have stopped the turn for it *)
(* (a runaway, a policy violation), and the card is opened all the same.   *)
HandleTool(t) ==
  /\ TakeHand(t, "tool")
  /\ Halt(t) \/ (KeepGoing(t) /\ dialog' = dialog)
  /\ spinning' = [spinning EXCEPT ![t] = TRUE]
  /\ UNCHANGED <<completed, attention>>

(* Usage may cross the turn's budget.                                      *)
HandleUsage(t) ==
  /\ TakeHand(t, "usage")
  /\ \/ Halt(t) /\ spinning' = [spinning EXCEPT ![t] = FALSE]
     \/ KeepGoing(t) /\ dialog' = dialog /\ spinning' = spinning
  /\ UNCHANGED <<completed, attention>>

HandleToolDone(t) ==
  /\ TakeHand(t, "toolDone") /\ KeepGoing(t)
  /\ spinning' = [spinning EXCEPT ![t] = FALSE]
  /\ UNCHANGED <<completed, dialog, attention>>

(* A question: the chat waits on the person, and the dialog opens.         *)
HandleAsk(t) ==
  /\ TakeHand(t, "ask") /\ KeepGoing(t)
  /\ attention' = TRUE
  /\ dialog' = t
  /\ UNCHANGED <<completed, spinning>>

HandleSteer(t) ==
  /\ TakeHand(t, "steer") /\ KeepGoing(t)
  /\ UNCHANGED <<completed, spinning, dialog, attention>>

(* Done is kept for the end of run_turn.                                   *)
HandleDone(t) ==
  /\ TakeHand(t, "done") /\ KeepGoing(t)
  /\ completed' = [completed EXCEPT ![t] = TRUE]
  /\ UNCHANGED <<spinning, dialog, attention>>

(* Failed is shown at once, as ErrorRaised.                                *)
HandleFailed(t) ==
  /\ TakeHand(t, "failed")
  /\ card' = [card EXCEPT ![t] = "failed"]
  /\ UNCHANGED <<marks, kills, halted, completed, spinning, dialog, attention>>

Handle(t) == \/ HandleDelta(t) \/ HandleTool(t) \/ HandleUsage(t) \/ HandleToolDone(t)
             \/ HandleAsk(t) \/ HandleSteer(t) \/ HandleDone(t) \/ HandleFailed(t)

(* The channel is closed and empty: the rest is flushed, drive is joined.  *)
LoopEnd(t) ==
  /\ stage[t] = "running" /\ hand[t] = Nothing
  /\ engine[t] = "gone" /\ stream[t] = <<>>
  /\ card' = [card EXCEPT ![t] = Flushed(t)]
  /\ pending' = [pending EXCEPT ![t] = FALSE]
  /\ stage' = [stage EXCEPT ![t] = "settling"]
  /\ UNCHANGED <<loopRest, marks, kills, stream, hand, said, completed, halted, spinning,
                 dialog, attention>>

(* The mark is cleared, the turn leaves the kill register.                 *)
Settle(t) ==
  /\ stage[t] = "settling"
  /\ marks' = marks \ {t}
  /\ register' = register \ {t}
  /\ stage' = [stage EXCEPT ![t] = "finishing"]
  /\ UNCHANGED <<kind, mailbox, kills, stream, steered, engineVars, loopVars, windowVars,
                 personVars>>

(* Slip: a turn that ends past an unanswered question leaves the mark on.  *)
FinishMarked(t) ==
  /\ stage[t] = "finishing"
  /\ stage' = [stage EXCEPT ![t] = "over"]
  /\ IF completed[t] THEN ShowCompleted(t) ELSE UNCHANGED <<card, spinning, dialog>>
  /\ UNCHANGED <<kind, mailbox, marks, register, kills, stream, steered, engineVars,
                 loopVars, attention, personVars>>

(* The turn is stored, the amber mark comes off the chat, and a kept       *)
(* TurnCompleted is pushed.                                                *)
Finish(t) ==
  /\ stage[t] = "finishing"
  /\ stage' = [stage EXCEPT ![t] = "over"]
  /\ attention' = FALSE
  /\ IF completed[t] THEN ShowCompleted(t) ELSE UNCHANGED <<card, spinning, dialog>>
  /\ UNCHANGED <<kind, mailbox, marks, register, kills, stream, steered, engineVars,
                 loopVars, personVars>>

-----------------------------------------------------------------------------
(* The person.                                                             *)

(* engine.steer: accepted while the mailbox is open (steer::push); a       *)
(* message that is not accepted changes nothing.                           *)
Steer(t) ==
  /\ card[t] = "running" /\ sent < MaxSteer
  /\ mailbox[t].open
  /\ sent' = sent + 1
  /\ mailbox' = [mailbox EXCEPT ![t].msgs = Append(@, sent + 1)]
  /\ accepted' = [accepted EXCEPT ![t] = Append(@, sent + 1)]
  /\ UNCHANGED <<kind, stage, marks, register, kills, stream, steered, engineVars, loopVars,
                 windowVars, stops, stopped, drained, stopping>>

(* Slip: the window is told and the engine is not.                         *)
StopMarkSilent(t) ==
  /\ card[t] = "running" /\ stops < MaxStop /\ t \notin stopping
  /\ stops' = stops + 1
  /\ stopping' = stopping \cup {t}
  /\ stopped' = stopped \cup {t}
  /\ UNCHANGED <<kind, stage, mailbox, marks, register, kills, stream, steered, engineVars,
                 loopVars, windowVars, sent, accepted, drained>>

(* Slip: a stopped turn leaves the register at once, as with kill.all.     *)
StopMarkUnlists(t) ==
  /\ card[t] = "running" /\ stops < MaxStop /\ t \notin stopping
  /\ stops' = stops + 1
  /\ marks' = marks \cup {t}
  /\ kills' = kills \cup {t}
  /\ register' = register \ {t}
  /\ stopping' = stopping \cup {t}
  /\ stopped' = stopped \cup {t}
  /\ UNCHANGED <<kind, stage, mailbox, stream, steered, engineVars, loopVars, windowVars,
                 sent, accepted, drained>>

(* engine.cancel, engine.kill: the mark first, the engine's cancel on a    *)
(* task of its own; TurnCompleted follows.                                 *)
StopMark(t) ==
  /\ card[t] = "running" /\ stops < MaxStop /\ t \notin stopping
  /\ stops' = stops + 1
  /\ marks' = marks \cup {t}
  /\ kills' = kills \cup {t}
  /\ stopping' = stopping \cup {t}
  /\ stopped' = stopped \cup {t}
  /\ UNCHANGED <<kind, stage, mailbox, register, stream, steered, engineVars, loopVars,
                 windowVars, sent, accepted, drained>>

(* kill.all: everything registered is marked and leaves the register.      *)
KillAll ==
  /\ register # {} /\ stops < MaxStop
  /\ stops' = stops + 1
  /\ marks' = marks \cup register
  /\ kills' = kills \cup register
  /\ stopping' = stopping \cup register
  /\ stopped' = stopped \cup register
  /\ drained' = drained \cup register
  /\ register' = {}
  /\ UNCHANGED <<kind, stage, mailbox, stream, steered, engineVars, loopVars, windowVars,
                 sent, accepted>>

(* ... and the turn's TurnCompleted.                                       *)
StopSay(t) ==
  /\ t \in stopping
  /\ stopping' = stopping \ {t}
  /\ ShowCompleted(t)
  /\ UNCHANGED <<kind, stage, mailbox, marks, register, kills, stream, steered, engineVars,
                 loopVars, attention, sent, stops, accepted, stopped, drained>>

(* The spawned engine.cancel.  halt has the turn's own engine; the calls   *)
(* have the registered one, which for an agent's turn does nothing.        *)
KillTask(t) ==
  /\ t \in kills
  /\ kills' = kills \ {t}
  /\ IF kind[t] = "agent" /\ ~halted[t]
     THEN UNCHANGED <<children, killed, marks>>
     ELSE CancelEngine(t)
  /\ UNCHANGED <<kind, stage, mailbox, register, stream, steered, engine, ending, calls,
                 emitted, gate, loopVars, windowVars, personVars, input>>

(* permission.resolve: the gate's question gets its answer if it is still  *)
(* there; the dialog closes and the amber mark comes off.                  *)
Answer(t) ==
  /\ dialog = t
  /\ gate' = [gate EXCEPT ![t] = IF @ = "open" THEN "answered" ELSE @]
  /\ dialog' = NoTurn
  /\ attention' = FALSE
  /\ UNCHANGED <<kind, stage, mailbox, marks, register, kills, stream, steered, engine,
                 ending, children, killed, calls, emitted, loopVars, card, spinning,
                 personVars, input>>

-----------------------------------------------------------------------------
EngineStep(t) ==
  \/ DriveOpen(t) \/ EngineUp(t) \/ Emit(t) \/ GoLive(t) \/ AgentTake(t)
  \/ StdinTake(t) \/ Ask(t) \/ AskAnswered(t) \/ AskStopped(t)
  \/ EngineEnds(t) \/ EngineStops(t)
  \/ Watch(t) \/ DriveOn(t) \/ DriveEnd(t) \/ DriveClose(t)

LoopStep(t) ==
  \/ EngineStart(t) \/ RunTurn(t) \/ Receive(t) \/ FlushTimer(t) \/ Handle(t)
  \/ LoopEnd(t) \/ Settle(t) \/ Finish(t)

PersonStep(t) ==
  \/ Steer(t) \/ StopMark(t) \/ StopSay(t) \/ KillTask(t) \/ Answer(t)

Next == KillAll \/ \E t \in Turn : EngineStep(t) \/ LoopStep(t) \/ PersonStep(t)

(* The daemon's tasks are scheduled: the one that runs drive and the       *)
(* engine, in what they owe (a stopped engine notices, since its read loop *)
(* polls or its process dies, and a question polls its mark), run_turn's,  *)
(* and those of the calls.  Nothing is assumed of the person, nor that an  *)
(* engine ends by itself.                                                  *)
DriveTask(t) ==
  \/ DriveOpen(t) \/ EngineUp(t) \/ AskAnswered(t) \/ AskStopped(t) \/ EngineStops(t)
  \/ DriveOn(t) \/ DriveEnd(t) \/ DriveClose(t)

LoopTask(t) ==
  \/ RunTurn(t) \/ Receive(t) \/ Handle(t) \/ FlushTimer(t) \/ LoopEnd(t) \/ Settle(t) \/ Finish(t)

Fairness ==
  \A t \in Turn : /\ WF_vars(DriveTask(t)) /\ WF_vars(LoopTask(t))
                  /\ WF_vars(KillTask(t)) /\ WF_vars(StopSay(t))

Spec == Init /\ [][Next]_vars
FairSpec == Spec /\ Fairness

-----------------------------------------------------------------------------
(* Properties.                                                             *)

(* While an engine may still write to the folder, its turn is in the       *)
(* register that refuse_while_running reads before a rewind - unless the   *)
(* kill switch emptied it (kernel.rs, kill.rs).                            *)
WritingIsRegistered ==
  \A t \in Turn : engine[t] \in {"starting", "working", "asking", "ended"}
                    => t \in register \cup drained

(* A turn's messages: those that have joined it, then those still waiting. *)
Way(t) == joined[t] \o mailbox[t].msgs

InOrder(t) ==
  /\ \A i, j \in DOMAIN Way(t) : i < j => Way(t)[i] < Way(t)[j]
  /\ mailbox[t].open /\ t \notin broken => Way(t) = accepted[t]

(* No message is repeated or overtaken on its way into its turn, whoever   *)
(* reads it - the agent, the process, or drive when the engine returns -   *)
(* and none is lost while the mailbox is open, except with a stdin that    *)
(* broke (steer.rs, cli.rs Steering).                                      *)
SteeredInOrder == \A t \in Turn : InOrder(t)

(* A turn nobody stopped ends in the window only when its drive has looked *)
(* for a last message: one turn that changed course, not two (drive).      *)
EndsOnce ==
  \A t \in Turn : card[t] \in {"done", "failed"}
                    => engine[t] \in {"closing", "gone"} \/ halted[t] \/ t \in stopped

(* An agent waiting on the person can be released: its question is on its  *)
(* way to the window, on the screen, answered, or the turn is stopped      *)
(* (gate.rs; reducer.ts closes the dialog with the turn).                  *)
WaitIsReleasable ==
  \A t \in Turn : engine[t] = "asking" =>
    \/ dialog = t \/ gate[t] = "answered" \/ t \in marks
    \/ hand[t] = "ask" \/ \E i \in DOMAIN stream[t] : stream[t][i] = "ask"

(* When every turn of the chat is over, nothing marks it as waiting on the *)
(* person (note_waiting: the amber mark with nothing behind it).           *)
QuietChat == (\A t \in Turn : stage[t] \in {"idle", "over"}) => ~attention

(* A stop that can reach the engine ends the turn: run_turn returns.  For  *)
(* a CLI that is a kill of a registered child (engine_stop, cancel.rs).    *)
StopEnds ==
  \A t \in Turn :
    (t \in stopped /\ t \in marks /\ (kind[t] \in Process => t \in killed))
      ~> stage[t] = "over"

(* methods.rs, run_turn: "A stopped turn is over as far as the window is   *)
(* concerned": once run_turn has returned, its card is not running again.  *)
StoppedStaysClosed ==
  \A t \in Turn : t \in stopped /\ stage[t] = "over" /\ t \notin stopping
                    => card[t] # "running"

(* cancel.rs: the marks are the turns somebody stopped, the person or the  *)
(* kernel.                                                                 *)
OnlyStopsMark ==
  \A t \in Turn : t \in marks => t \in stopped \/ halted[t]

-----------------------------------------------------------------------------
(* The inductive invariant behind the properties that are proved.          *)

(* drive lives inside the loop: it begins after run_turn and is gone       *)
(* before the turn settles; only a running loop holds an event.            *)
DriveInLoop(t) ==
  /\ stage[t] \in {"idle", "preparing"} => engine[t] = "off"
  /\ stage[t] \in {"settling", "finishing", "over"} => engine[t] = "gone"
  /\ hand[t] # Nothing => stage[t] = "running"

Registered(t) == stage[t] = "running" => t \in register \cup drained

(* No ending is under way before drive has sent the one it held.           *)
NoEnding(events) == \A i \in DOMAIN events : events[i] \notin Endings

EndingHeld(t) ==
  engine[t] \notin {"closing", "gone"} => hand[t] \notin Endings /\ NoEnding(stream[t])

EndedOnce(t) ==
  /\ card[t] \in Endings => engine[t] \in {"closing", "gone"} \/ halted[t] \/ t \in stopped
  /\ t \in stopping => t \in stopped

(* The mailbox is open exactly while drive runs, and empty otherwise.      *)
MailboxOfDrive(t) ==
  /\ mailbox[t].open <=> engine[t] \notin {"off", "gone"}
  /\ ~mailbox[t].open => mailbox[t].msgs = <<>>
  /\ engine[t] = "off" => accepted[t] = <<>> /\ joined[t] = <<>>
  /\ \A i \in DOMAIN Way(t) : Way(t)[i] <= sent

WaitingTurn == attention => \E t \in Turn : stage[t] \in {"running", "settling", "finishing"}

Control ==
  /\ \A t \in Turn : DriveInLoop(t) /\ Registered(t) /\ EndingHeld(t) /\ EndedOnce(t)
  /\ WaitingTurn

Messages == \A t \in Turn : MailboxOfDrive(t) /\ InOrder(t)

TurnInv == Control /\ Messages

=============================================================================
