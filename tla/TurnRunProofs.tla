--------------------------- MODULE TurnRunProofs ---------------------------
(***************************************************************************)
(* Theorems about TurnRun, for any set of turns, any mix of engine kinds   *)
(* and any bounds: what TurnRun.cfg checks for one turn holds for many at  *)
(* once.  Types first, then the two halves of TurnInv: where a turn is     *)
(* (Control), and where its messages are (Messages); last, what an agent   *)
(* that waits on the person rests on (Waits).                              *)
(***************************************************************************)
EXTENDS TurnRun, SequenceTheorems, TLAPS

(* TypeOK, parted by who changes what.                                     *)

Message == 1..MaxSteer
Mailbox == [msgs: Seq(Message), open: BOOLEAN, live: BOOLEAN, interrupting: BOOLEAN]

EngineTypes ==
  /\ kind \in [Turn -> Kinds]
  /\ engine \in [Turn -> Engines]
  /\ ending \in [Turn -> Endings \cup {Nothing}]
  /\ children \in SUBSET Turn
  /\ killed \in SUBSET Turn
  /\ input \in SUBSET Turn
  /\ calls \in [Turn -> BOOLEAN]
  /\ emitted \in [Turn -> 0..MaxEmit]
  /\ gate \in [Turn -> {"shut", "open", "answered"}]

LoopTypes ==
  /\ stage \in [Turn -> Stages]
  /\ hand \in [Turn -> Items \cup {Nothing}]
  /\ said \in [Turn -> BOOLEAN]
  /\ pending \in [Turn -> BOOLEAN]
  /\ completed \in [Turn -> BOOLEAN]
  /\ halted \in [Turn -> BOOLEAN]
  /\ stream \in [Turn -> Seq(Items)]

WindowTypes ==
  /\ card \in [Turn -> Cards]
  /\ spinning \in [Turn -> BOOLEAN]
  /\ dialog \in Turn \cup {NoTurn}
  /\ attention \in BOOLEAN

StopTypes ==
  /\ marks \in SUBSET Turn
  /\ register \in SUBSET Turn
  /\ kills \in SUBSET Turn
  /\ stopping \in SUBSET Turn
  /\ stopped \in SUBSET Turn
  /\ drained \in SUBSET Turn
  /\ stops \in 0..MaxStop

MessageTypes ==
  /\ mailbox \in [Turn -> Mailbox]
  /\ accepted \in [Turn -> Seq(Message)]
  /\ joined \in [Turn -> Seq(Message)]
  /\ broken \in SUBSET Turn
  /\ sent \in 0..MaxSteer

(* drive holds an ending from the engine's return until it goes out.       *)
EndingKept == \A t \in Turn : engine[t] = "ended" => ending[t] \in Endings

Types == EngineTypes /\ LoopTypes /\ WindowTypes /\ StopTypes /\ MessageTypes

-----------------------------------------------------------------------------
(* Types.                                                                  *)

LEMMA TypesAreTypeOK == Types <=> TypeOK
BY DEF Types, TypeOK, EngineTypes, LoopTypes, WindowTypes, StopTypes, MessageTypes, Mailbox, Message

LEMMA InitTypes == Init => Types /\ EndingKept
<1> SUFFICES ASSUME Init PROVE Types /\ EndingKept
  OBVIOUS
<1>1. EngineTypes /\ EndingKept
  BY ConstantsAssumption DEF Init, EngineTypes, EndingKept, Engines, Endings
<1>2. LoopTypes
  BY EmptySeq DEF Init, LoopTypes, Stages, Items
<1>3. WindowTypes
  BY DEF Init, WindowTypes, Cards
<1>4. StopTypes
  BY ConstantsAssumption DEF Init, StopTypes
<1>5. MessageTypes
  BY ConstantsAssumption, EmptySeq DEF Init, MessageTypes, Mailbox, Shut
<1> QED
  BY <1>1, <1>2, <1>3, <1>4, <1>5 DEF Types

LEMMA PrefixIsSeq ==
  ASSUME NEW S, NEW s \in Seq(S), NEW n \in 0..Len(s)
  PROVE  SubSeq(s, 1, n) \in Seq(S)
<1>1. Len(s) \in Nat /\ n \in Int
  BY LenProperties
<1>2. \A i \in 1..n : s[i] \in S
  BY <1>1, ElementOfSeq
<1> QED
  BY <1>1, <1>2, SubSeqProperties

LEMMA ParagraphIsItems == ASSUME NEW t, NEW after \in Paragraph(t) PROVE after \in Seq(Items)
<1>1. <<>> \in Seq(Items) /\ <<"delta">> \in Seq(Items)
  BY EmptySeq DEF Items
<1> QED
  BY <1>1 DEF Paragraph

(* A batch of messages joins the turn: one Steered event for each.         *)
LEMMA SteeredTypes ==
  ASSUME Types, NEW t \in Turn, NEW batch \in Seq(Message), NEW after \in Seq(Items),
         Steered(t, batch, after)
  PROVE  /\ stream' \in [Turn -> Seq(Items)]
         /\ joined' \in [Turn -> Seq(Message)]
<1> DEFINE told == [i \in 1..Len(batch) |-> "steer"]
<1>1. Len(batch) \in Nat
  BY LenProperties
<1>2. told \in Seq(Items)
  BY <1>1, SeqDef DEF Items
<1>3. stream[t] \in Seq(Items) /\ joined[t] \in Seq(Message)
  BY DEF Types, LoopTypes, MessageTypes
<1>4. stream[t] \o told \in Seq(Items) /\ joined[t] \o batch \in Seq(Message)
  BY <1>2, <1>3, ConcatProperties
<1>5. stream[t] \o told \o after \in Seq(Items)
  BY <1>4, ConcatProperties
<1> QED
  BY <1>4, <1>5 DEF Steered, Types, LoopTypes, MessageTypes

LEMMA EngineStepTypes ==
  ASSUME Types, EndingKept, NEW t \in Turn, EngineStep(t)
  PROVE  Types' /\ EndingKept'
<1> USE DEF Types
<1>1. CASE DriveOpen(t)
  <2>1. EngineTypes' /\ EndingKept'
    BY <1>1 DEF DriveOpen, EngineTypes, EndingKept, Engines
  <2>2. MessageTypes'
    BY <1>1, EmptySeq DEF DriveOpen, MessageTypes, Mailbox, Shut, steered, personVars
  <2> QED
    BY <1>1, <2>1, <2>2 DEF DriveOpen, LoopTypes, WindowTypes, StopTypes, loopVars, windowVars, personVars
<1>2. CASE EngineUp(t)
  <2>1. EngineTypes' /\ EndingKept'
    BY <1>2 DEF EngineUp, EngineTypes, EndingKept, Engines
  <2> QED
    BY <1>2, <2>1 DEF EngineUp, LoopTypes, WindowTypes, StopTypes, MessageTypes, loopVars, windowVars, steered, personVars
<1>3. CASE Emit(t)
  <2>1. stream' \in [Turn -> Seq(Items)]
    BY <1>3, AppendProperties DEF Emit, LoopTypes, CanEmit, Items
  <2>2. calls' \in [Turn -> BOOLEAN]
    BY <1>3 DEF Emit, EngineTypes
  <2>3. emitted' \in [Turn -> 0..MaxEmit]
    BY <1>3, ConstantsAssumption DEF Emit, EngineTypes
  <2>4. EngineTypes' /\ EndingKept'
    BY <1>3, <2>2, <2>3 DEF Emit, EngineTypes, EndingKept
  <2> QED
    BY <1>3, <2>1, <2>4 DEF Emit, LoopTypes, WindowTypes, StopTypes, MessageTypes, loopVars, windowVars, steered, personVars
<1>4. CASE GoLive(t)
  <2>1. EngineTypes' /\ EndingKept'
    BY <1>4 DEF GoLive, EngineTypes, EndingKept
  <2>2. MessageTypes'
    BY <1>4 DEF GoLive, MessageTypes, Mailbox, steered, personVars
  <2> QED
    BY <1>4, <2>1, <2>2 DEF GoLive, LoopTypes, WindowTypes, StopTypes, loopVars, windowVars, personVars
<1>5. CASE AgentTake(t)
  <2>1. mailbox[t].msgs \in Seq(Message)
    BY DEF MessageTypes, Mailbox
  <2>2. stream' \in [Turn -> Seq(Items)] /\ joined' \in [Turn -> Seq(Message)]
    BY <1>5, <2>1, EmptySeq, SteeredTypes DEF AgentTake
  <2>3. MessageTypes'
    BY <1>5, <2>2, EmptySeq DEF AgentTake, MessageTypes, Mailbox, personVars
  <2>4. EngineTypes' /\ EndingKept'
    BY <1>5 DEF AgentTake, EngineTypes, EndingKept, engineVars
  <2> QED
    BY <1>5, <2>2, <2>3, <2>4 DEF AgentTake, LoopTypes, WindowTypes, StopTypes, loopVars, windowVars, personVars
<1>6. CASE StdinTake(t)
  <2>1. mailbox[t].msgs \in Seq(Message)
    BY DEF MessageTypes, Mailbox
  <2>2. PICK written \in 0..Len(mailbox[t].msgs) :
          /\ Steered(t, SubSeq(mailbox[t].msgs, 1, written), <<>>)
          /\ IF written = Len(mailbox[t].msgs)
             THEN UNCHANGED <<input, broken>>
             ELSE input' = input \ {t} /\ broken' = broken \cup {t}
    BY <1>6 DEF StdinTake
  <2>3. SubSeq(mailbox[t].msgs, 1, written) \in Seq(Message)
    BY <2>1, PrefixIsSeq
  <2>4. stream' \in [Turn -> Seq(Items)] /\ joined' \in [Turn -> Seq(Message)]
    BY <2>2, <2>3, EmptySeq, SteeredTypes
  <2>5. input' \in SUBSET Turn /\ broken' \in SUBSET Turn
    BY <2>2 DEF EngineTypes, MessageTypes
  <2>6. MessageTypes'
    BY <1>6, <2>4, <2>5, EmptySeq DEF StdinTake, MessageTypes, Mailbox, personVars
  <2>7. EngineTypes' /\ EndingKept'
    BY <1>6, <2>5 DEF StdinTake, EngineTypes, EndingKept
  <2> QED
    BY <1>6, <2>4, <2>6, <2>7 DEF StdinTake, LoopTypes, WindowTypes, StopTypes, loopVars, windowVars, personVars
<1>7. CASE Ask(t)
  <2>1. stream' \in [Turn -> Seq(Items)]
    BY <1>7, AppendProperties DEF Ask, LoopTypes, Items
  <2>2. emitted' \in [Turn -> 0..MaxEmit]
    BY <1>7, ConstantsAssumption DEF Ask, EngineTypes
  <2>3. EngineTypes' /\ EndingKept'
    BY <1>7, <2>2 DEF Ask, EngineTypes, EndingKept, Engines
  <2> QED
    BY <1>7, <2>1, <2>3 DEF Ask, LoopTypes, WindowTypes, StopTypes, MessageTypes, loopVars, windowVars, steered, personVars
<1>8. ASSUME AskReturns(t) PROVE Types' /\ EndingKept'
  <2>1. EngineTypes' /\ EndingKept'
    BY <1>8 DEF AskReturns, EngineTypes, EndingKept, Engines
  <2> QED
    BY <1>8, <2>1 DEF AskReturns, LoopTypes, WindowTypes, StopTypes, MessageTypes, loopVars, windowVars, steered, personVars
<1>9. ASSUME EngineReturns(t) PROVE Types' /\ EndingKept'
  <2>1. EngineTypes' /\ EndingKept'
    BY <1>9 DEF EngineReturns, EngineTypes, EndingKept, Engines
  <2> QED
    BY <1>9, <2>1 DEF EngineReturns, LoopTypes, WindowTypes, StopTypes, MessageTypes, loopVars, windowVars, steered, personVars
<1>10. CASE Watch(t)
  <2>1. EngineTypes' /\ EndingKept'
    BY <1>10 DEF Watch, CancelEngine, EngineTypes, EndingKept
  <2>2. MessageTypes'
    BY <1>10 DEF Watch, MessageTypes, Mailbox, steered, personVars
  <2>3. StopTypes'
    BY <1>10 DEF Watch, CancelEngine, StopTypes, personVars
  <2> QED
    BY <1>10, <2>1, <2>2, <2>3 DEF Watch, LoopTypes, WindowTypes, loopVars, windowVars
<1>11. CASE DriveOn(t)
  <2>1. mailbox[t].msgs \in Seq(Message)
    BY DEF MessageTypes, Mailbox
  <2>2. stream' \in [Turn -> Seq(Items)] /\ joined' \in [Turn -> Seq(Message)]
    BY <1>11, <2>1, ParagraphIsItems, SteeredTypes DEF DriveOn
  <2>3. MessageTypes'
    BY <1>11, <2>2, EmptySeq DEF DriveOn, MessageTypes, Mailbox, Shut, personVars
  <2>4. emitted' \in [Turn -> 0..MaxEmit]
    <3>1. PICK after \in Paragraph(t) : emitted' = [emitted EXCEPT ![t] = @ + Len(after)]
      BY <1>11 DEF DriveOn
    <3>2. emitted[t] + Len(after) \in 0..MaxEmit
      <4>1. CASE after = <<>>
        BY <4>1 DEF EngineTypes
      <4>2. CASE after = <<"delta">> /\ emitted[t] \in 1..(MaxEmit - 1)
        <5>1. Len(after) = 1
          BY <4>2
        <5> QED
          BY <4>2, <5>1, ConstantsAssumption
      <4> QED
        BY <4>1, <4>2 DEF Paragraph
    <3> QED
      BY <3>1, <3>2 DEF EngineTypes
  <2>5. EngineTypes' /\ EndingKept'
    BY <1>11, <2>4 DEF DriveOn, EngineTypes, EndingKept, Engines
  <2> QED
    BY <1>11, <2>2, <2>3, <2>5 DEF DriveOn, LoopTypes, WindowTypes, StopTypes, loopVars, windowVars, personVars
<1>12. CASE DriveEnd(t)
  <2>1. ending[t] \in Items
    BY <1>12 DEF DriveEnd, EndingKept, Items
  <2>2. stream' \in [Turn -> Seq(Items)]
    BY <1>12, <2>1, AppendProperties DEF DriveEnd, LoopTypes
  <2>3. EngineTypes' /\ EndingKept'
    BY <1>12 DEF DriveEnd, EngineTypes, EndingKept, Engines
  <2> QED
    BY <1>12, <2>2, <2>3 DEF DriveEnd, LoopTypes, WindowTypes, StopTypes, MessageTypes, loopVars, windowVars, steered, personVars
<1>13. CASE DriveClose(t)
  <2>1. EngineTypes' /\ EndingKept'
    BY <1>13 DEF DriveClose, EngineTypes, EndingKept, Engines
  <2>2. MessageTypes'
    BY <1>13, EmptySeq DEF DriveClose, MessageTypes, Mailbox, Shut, steered, personVars
  <2> QED
    BY <1>13, <2>1, <2>2 DEF DriveClose, LoopTypes, WindowTypes, StopTypes, loopVars, windowVars, personVars
<1> QED
  BY <1>1, <1>2, <1>3, <1>4, <1>5, <1>6, <1>7, <1>8, <1>9, <1>10, <1>11, <1>12, <1>13
     DEF EngineStep, AskAnswered, AskStopped, EngineEnds, EngineStops

LEMMA LoopStepTypes ==
  ASSUME Types, EndingKept, NEW t \in Turn, LoopStep(t)
  PROVE  Types' /\ EndingKept'
<1> USE DEF Types
<1>1. CASE EngineStart(t)
  <2>1. LoopTypes' /\ WindowTypes'
    BY <1>1 DEF EngineStart, LoopTypes, WindowTypes, Stages, Cards, loopVars
  <2> QED
    BY <1>1, <2>1 DEF EngineStart, EngineTypes, StopTypes, MessageTypes, EndingKept, engineVars, steered, personVars
<1>2. CASE RunTurn(t)
  <2>1. LoopTypes' /\ StopTypes'
    BY <1>2 DEF RunTurn, LoopTypes, StopTypes, Stages, loopVars, personVars
  <2> QED
    BY <1>2, <2>1 DEF RunTurn, EngineTypes, WindowTypes, MessageTypes, EndingKept, engineVars, windowVars, steered, personVars
<1>3. CASE Receive(t)
  <2>1. Head(stream[t]) \in Items /\ Tail(stream[t]) \in Seq(Items)
    BY <1>3, HeadTailProperties DEF Receive, LoopTypes
  <2>2. stream' \in [Turn -> Seq(Items)] /\ stage' = stage /\ said' = said /\ completed' = completed /\ halted' = halted
    BY <1>3, <2>1 DEF Receive, LoopTypes
  <2>3. hand' \in [Turn -> Items \cup {Nothing}]
    BY <1>3, <2>1 DEF Receive, LoopTypes
  <2>4. pending' \in [Turn -> BOOLEAN]
    BY <1>3 DEF Receive, LoopTypes
  <2>5. LoopTypes'
    BY <2>2, <2>3, <2>4 DEF LoopTypes
  <2> QED
    BY <1>3, <2>5 DEF Receive, EngineTypes, WindowTypes, StopTypes, MessageTypes, EndingKept, loopRest, engineVars, windowVars, steered, personVars
<1>4. CASE FlushTimer(t)
  <2>1. LoopTypes' /\ WindowTypes'
    BY <1>4 DEF FlushTimer, ShowDelta, LoopTypes, WindowTypes, Cards
  <2> QED
    BY <1>4, <2>1 DEF FlushTimer, EngineTypes, StopTypes, MessageTypes, EndingKept, loopRest, engineVars, steered, personVars
<1>5. CASE HandleDelta(t)
  <2>1. pending' \in [Turn -> BOOLEAN] /\ card' \in [Turn -> Cards]
    BY <1>5 DEF HandleDelta, ShowDelta, LoopTypes, WindowTypes, Cards
  <2>2. LoopTypes' /\ WindowTypes'
    BY <1>5, <2>1 DEF HandleDelta, LoopTypes, WindowTypes
  <2> QED
    BY <1>5, <2>2 DEF HandleDelta, EngineTypes, StopTypes, MessageTypes, EndingKept, loopRest, engineVars, steered, personVars
<1>6. ASSUME NEW e, TakeHand(t, e)
      PROVE  /\ EngineTypes' /\ MessageTypes' /\ EndingKept'
             /\ hand' \in [Turn -> Items \cup {Nothing}] /\ pending' \in [Turn -> BOOLEAN]
             /\ stream' = stream /\ stage' = stage /\ said' = said
             /\ register' = register /\ stopping' = stopping /\ stopped' = stopped
             /\ drained' = drained /\ stops' = stops
  BY <1>6 DEF TakeHand, LoopTypes, EngineTypes, MessageTypes, EndingKept, loopRest, engineVars, steered, personVars
<1>7. Flushed(t) \in Cards
  BY DEF Flushed, WindowTypes, Cards
<1>8. ASSUME Halt(t)
      PROVE  /\ marks' \in SUBSET Turn /\ kills' \in SUBSET Turn
             /\ halted' \in [Turn -> BOOLEAN] /\ card' \in [Turn -> Cards]
             /\ dialog' \in Turn \cup {NoTurn}
  BY <1>7, <1>8 DEF Halt, LoopTypes, StopTypes, WindowTypes, Cards
<1>9. ASSUME KeepGoing(t)
      PROVE  /\ marks' \in SUBSET Turn /\ kills' \in SUBSET Turn
             /\ halted' \in [Turn -> BOOLEAN] /\ card' \in [Turn -> Cards]
  BY <1>7, <1>9 DEF KeepGoing, LoopTypes, StopTypes, WindowTypes, Cards
<1>10. CASE HandleTool(t)
  <2>1. dialog' \in Turn \cup {NoTurn} /\ spinning' \in [Turn -> BOOLEAN] /\ attention' \in BOOLEAN
    BY <1>8, <1>10 DEF HandleTool, WindowTypes
  <2>2. TakeHand(t, "tool") /\ (Halt(t) \/ KeepGoing(t)) /\ completed' = completed
    BY <1>10 DEF HandleTool
  <2> QED
    BY <1>6, <1>8, <1>9, <2>1, <2>2 DEF LoopTypes, StopTypes, WindowTypes
<1>11. CASE HandleUsage(t)
  <2>1. dialog' \in Turn \cup {NoTurn} /\ spinning' \in [Turn -> BOOLEAN] /\ attention' \in BOOLEAN
    BY <1>8, <1>11 DEF HandleUsage, WindowTypes
  <2>2. TakeHand(t, "usage") /\ (Halt(t) \/ KeepGoing(t)) /\ completed' = completed
    BY <1>11 DEF HandleUsage
  <2> QED
    BY <1>6, <1>8, <1>9, <2>1, <2>2 DEF LoopTypes, StopTypes, WindowTypes
<1>12. CASE HandleToolDone(t)
  <2>1. dialog' \in Turn \cup {NoTurn} /\ spinning' \in [Turn -> BOOLEAN] /\ attention' \in BOOLEAN
    BY <1>12 DEF HandleToolDone, WindowTypes
  <2> QED
    BY <1>6, <1>9, <1>12, <2>1 DEF HandleToolDone, LoopTypes, StopTypes, WindowTypes
<1>13. CASE HandleAsk(t)
  BY <1>6, <1>9, <1>13 DEF HandleAsk, LoopTypes, StopTypes, WindowTypes
<1>14. CASE HandleSteer(t)
  BY <1>6, <1>9, <1>14 DEF HandleSteer, LoopTypes, StopTypes, WindowTypes
<1>15. CASE HandleDone(t)
  <2>1. completed' \in [Turn -> BOOLEAN]
    BY <1>15 DEF HandleDone, LoopTypes
  <2> QED
    BY <1>6, <1>9, <1>15, <2>1 DEF HandleDone, LoopTypes, StopTypes, WindowTypes
<1>16. CASE HandleFailed(t)
  <2>1. card' \in [Turn -> Cards]
    BY <1>16 DEF HandleFailed, WindowTypes, Cards
  <2> QED
    BY <1>6, <1>16, <2>1 DEF HandleFailed, LoopTypes, StopTypes, WindowTypes
<1>17. CASE LoopEnd(t)
  <2>1. LoopTypes' /\ WindowTypes'
    BY <1>7, <1>17 DEF LoopEnd, LoopTypes, WindowTypes, Stages
  <2> QED
    BY <1>17, <2>1 DEF LoopEnd, EngineTypes, StopTypes, MessageTypes, EndingKept, loopRest, engineVars, steered, personVars
<1>18. CASE Settle(t)
  <2>1. LoopTypes' /\ StopTypes'
    BY <1>18 DEF Settle, LoopTypes, StopTypes, Stages, loopVars, personVars
  <2> QED
    BY <1>18, <2>1 DEF Settle, EngineTypes, WindowTypes, MessageTypes, EndingKept, engineVars, windowVars, steered, personVars
<1>19. CASE Finish(t)
  <2>1. card' \in [Turn -> Cards] /\ dialog' \in Turn \cup {NoTurn}
    BY <1>19 DEF Finish, ShowCompleted, WindowTypes, Cards
  <2>2. spinning' \in [Turn -> BOOLEAN]
    BY <1>19 DEF Finish, ShowCompleted, WindowTypes
  <2>3. LoopTypes' /\ attention' \in BOOLEAN
    BY <1>19 DEF Finish, LoopTypes, Stages, loopVars
  <2> QED
    BY <1>19, <2>1, <2>2, <2>3 DEF Finish, EngineTypes, WindowTypes, StopTypes, MessageTypes, EndingKept, engineVars, steered, personVars
<1> QED
  BY <1>1, <1>2, <1>3, <1>4, <1>5, <1>10, <1>11, <1>12, <1>13, <1>14, <1>15, <1>16, <1>17, <1>18, <1>19
     DEF LoopStep, Handle

LEMMA PersonStepTypes ==
  ASSUME Types, EndingKept, NEW t \in Turn, PersonStep(t)
  PROVE  Types' /\ EndingKept'
<1> USE DEF Types
<1>1. CASE Steer(t)
  <2>1. mailbox[t].msgs \in Seq(Message) /\ accepted[t] \in Seq(Message)
    BY DEF MessageTypes, Mailbox
  <2>2. sent + 1 \in Message /\ sent' \in 0..MaxSteer
    BY <1>1, ConstantsAssumption DEF Steer, MessageTypes, Message
  <2>3. Append(mailbox[t].msgs, sent + 1) \in Seq(Message) /\ Append(accepted[t], sent + 1) \in Seq(Message)
    BY <2>1, <2>2, AppendProperties
  <2>4. MessageTypes'
    BY <1>1, <2>2, <2>3 DEF Steer, MessageTypes, Mailbox, steered
  <2> QED
    BY <1>1, <2>4 DEF Steer, EngineTypes, LoopTypes, WindowTypes, StopTypes, EndingKept, engineVars, loopVars, windowVars
<1>2. CASE StopMark(t)
  <2>1. stops' \in 0..MaxStop
    BY <1>2, ConstantsAssumption DEF StopMark, StopTypes
  <2>2. StopTypes'
    BY <1>2, <2>1 DEF StopMark, StopTypes
  <2> QED
    BY <1>2, <2>2 DEF StopMark, EngineTypes, LoopTypes, WindowTypes, MessageTypes, EndingKept, engineVars, loopVars, windowVars, steered
<1>3. CASE StopSay(t)
  <2>1. card' \in [Turn -> Cards] /\ dialog' \in Turn \cup {NoTurn}
    BY <1>3 DEF StopSay, ShowCompleted, WindowTypes, Cards
  <2>2. spinning' \in [Turn -> BOOLEAN] /\ attention' \in BOOLEAN
    BY <1>3 DEF StopSay, ShowCompleted, WindowTypes
  <2>3. StopTypes'
    BY <1>3 DEF StopSay, StopTypes
  <2> QED
    BY <1>3, <2>1, <2>2, <2>3 DEF StopSay, EngineTypes, LoopTypes, WindowTypes, MessageTypes, EndingKept, engineVars, loopVars, steered
<1>4. CASE KillTask(t)
  <2>1. children' \in SUBSET Turn /\ killed' \in SUBSET Turn /\ marks' \in SUBSET Turn
    BY <1>4 DEF KillTask, CancelEngine, EngineTypes, StopTypes
  <2> QED
    BY <1>4, <2>1 DEF KillTask, EngineTypes, LoopTypes, WindowTypes, StopTypes, MessageTypes, EndingKept, loopVars, windowVars, steered, personVars
<1>5. CASE Answer(t)
  <2>1. gate' \in [Turn -> {"shut", "open", "answered"}]
    BY <1>5 DEF Answer, EngineTypes
  <2> QED
    BY <1>5, <2>1 DEF Answer, EngineTypes, LoopTypes, WindowTypes, StopTypes, MessageTypes, EndingKept, loopVars, steered, personVars
<1> QED
  BY <1>1, <1>2, <1>3, <1>4, <1>5 DEF PersonStep

LEMMA KillAllTypes ==
  ASSUME Types, EndingKept, KillAll
  PROVE  Types' /\ EndingKept'
<1> USE DEF Types
<1>1. stops' \in 0..MaxStop
  BY ConstantsAssumption DEF KillAll, StopTypes
<1>2. StopTypes'
  BY <1>1 DEF KillAll, StopTypes
<1> QED
  BY <1>2 DEF KillAll, EngineTypes, LoopTypes, WindowTypes, MessageTypes, EndingKept, engineVars, loopVars, windowVars, steered

LEMMA StutterTypes ==
  ASSUME Types, EndingKept, UNCHANGED vars
  PROVE  Types' /\ EndingKept'
BY DEF Types, EngineTypes, LoopTypes, WindowTypes, StopTypes, MessageTypes, EndingKept, vars, engineVars, loopVars, windowVars, personVars, steered

(* Every variable keeps its type, and drive never loses the ending it      *)
(* holds: without that the channel would get what no loop handles.         *)
THEOREM TypeCorrect == Spec => [](TypeOK /\ EndingKept)
<1>1. Types /\ EndingKept /\ [Next]_vars => Types' /\ EndingKept'
  BY EngineStepTypes, LoopStepTypes, PersonStepTypes, KillAllTypes, StutterTypes DEF Next
<1>2. Types /\ EndingKept => TypeOK /\ EndingKept
  BY TypesAreTypeOK
<1> QED
  BY InitTypes, <1>1, <1>2, PTL DEF Spec

-----------------------------------------------------------------------------
(* Control: where a turn is, and what its window may say about it.         *)

LEMMA InitControl == ASSUME Init PROVE Control
<1>1. NoEnding(<<>>)
  BY DEF NoEnding
<1>2. \A t \in Turn : DriveInLoop(t) /\ Registered(t) /\ EndedOnce(t)
  BY DEF Init, DriveInLoop, Registered, EndedOnce, Endings
<1>3. \A t \in Turn : EndingHeld(t)
  BY <1>1 DEF Init, EndingHeld, Endings, Nothing
<1> QED
  BY <1>2, <1>3 DEF Control, Init, WaitingTurn

LEMMA NoEndingAppend ==
  ASSUME NEW events \in Seq(Items), NoEnding(events), NEW e \in Items, e \notin Endings
  PROVE  NoEnding(Append(events, e))
<1>1. /\ DOMAIN events = 1..Len(events) /\ Len(events) \in Nat
      /\ DOMAIN Append(events, e) = 1..(Len(events) + 1)
  BY LenProperties, AppendProperties
<1>2. \A i \in 1..Len(events) : Append(events, e)[i] = events[i]
  BY AppendProperties
<1>3. Append(events, e)[Len(events) + 1] = e
  BY AppendProperties
<1> QED
  BY <1>1, <1>2, <1>3 DEF NoEnding

LEMMA NoEndingTail ==
  ASSUME NEW events \in Seq(Items), events # <<>>, NoEnding(events)
  PROVE  Head(events) \notin Endings /\ NoEnding(Tail(events))
<1>1. Len(events) \in Nat \ {0} /\ DOMAIN events = 1..Len(events)
  BY LenProperties, EmptySeq
<1>2. DOMAIN Tail(events) = 1..(Len(events) - 1)
  BY LenProperties, HeadTailProperties
<1>3. \A i \in 1..(Len(events) - 1) : Tail(events)[i] = events[i + 1]
  BY HeadTailProperties
<1>4. NoEnding(Tail(events))
  BY <1>1, <1>2, <1>3 DEF NoEnding
<1>5. Head(events) = events[1]
  BY <1>1, HeadTailOfSubSeq, SubSeqFull
<1> QED
  BY <1>1, <1>4, <1>5 DEF NoEnding

LEMMA NoEndingConcat ==
  ASSUME NEW events \in Seq(Items), NEW more \in Seq(Items), NoEnding(events), NoEnding(more)
  PROVE  events \o more \in Seq(Items) /\ NoEnding(events \o more)
<1>1. /\ Len(events) \in Nat /\ DOMAIN events = 1..Len(events)
      /\ Len(more) \in Nat /\ DOMAIN more = 1..Len(more)
  BY LenProperties
<1>2. events \o more \in Seq(Items) /\ Len(events \o more) = Len(events) + Len(more)
  BY ConcatProperties
<1>3. DOMAIN (events \o more) = 1..(Len(events) + Len(more))
  BY <1>2, LenProperties
<1>4. \A i \in 1..(Len(events) + Len(more)) :
        (events \o more)[i] = IF i <= Len(events) THEN events[i] ELSE more[i - Len(events)]
  BY ConcatProperties
<1> QED
  BY <1>1, <1>2, <1>3, <1>4 DEF NoEnding

LEMMA SteeredNoEnding ==
  ASSUME Types, NEW t \in Turn, NEW batch \in Seq(Message), NEW after \in {<<>>, <<"delta">>},
         Steered(t, batch, after), NoEnding(stream[t])
  PROVE  NoEnding(stream'[t])
<1> DEFINE told == [i \in 1..Len(batch) |-> "steer"]
<1>1. Len(batch) \in Nat
  BY LenProperties
<1>2. told \in Seq(Items) /\ NoEnding(told)
  BY <1>1, SeqDef DEF Items, NoEnding, Endings
<1>3. after \in Seq(Items) /\ NoEnding(after)
  <2>1. CASE after = <<>>
    BY <2>1, EmptySeq DEF NoEnding
  <2>2. CASE after = <<"delta">>
    <3>1. after \in Seq(Items) /\ Len(after) = 1 /\ after[1] = "delta"
      BY <2>2 DEF Items
    <3>2. DOMAIN after = 1..1
      BY <3>1, LenProperties
    <3> QED
      BY <3>1, <3>2 DEF NoEnding, Endings
  <2> QED
    BY <2>1, <2>2
<1>4. stream[t] \in Seq(Items) /\ stream'[t] = (stream[t] \o told) \o after
  BY DEF Types, LoopTypes, Steered
<1> HIDE DEF told
<1>5. stream[t] \o told \in Seq(Items) /\ NoEnding(stream[t] \o told)
  BY <1>2, <1>4, NoEndingConcat
<1> QED
  BY <1>3, <1>4, <1>5, NoEndingConcat

(* What a step of drive leaves alone, and where it may take the engine.    *)
LEMMA DriveMoves ==
  ASSUME Types, NEW t \in Turn, EngineStep(t)
  PROVE  /\ UNCHANGED <<stage, register, loopVars, windowVars, personVars>>
         /\ \A u \in Turn \ {t} : engine'[u] = engine[u]
         /\ engine[t] = "off" => engine'[t] = "off" \/ stage[t] = "running"
         /\ engine[t] = "closing" => engine'[t] \in {"closing", "gone"}
         /\ engine[t] = "gone" => engine'[t] = "gone"
<1>1. UNCHANGED <<stage, register, loopVars, windowVars, personVars>>
  BY DEF EngineStep, DriveOpen, EngineUp, Emit, GoLive, AgentTake, StdinTake, Ask, AskAnswered,
         AskStopped, AskReturns, EngineEnds, EngineStops, EngineReturns, Watch, DriveOn, DriveEnd,
         DriveClose
<1>2. CASE engine' = engine
  BY <1>1, <1>2
<1>3. CASE DriveOpen(t) \/ EngineUp(t) \/ Ask(t) \/ AskAnswered(t) \/ AskStopped(t)
  BY <1>1, <1>3 DEF Types, EngineTypes, DriveOpen, EngineUp, Ask, AskAnswered, AskStopped, AskReturns
<1>4. CASE EngineEnds(t) \/ EngineStops(t) \/ DriveOn(t) \/ DriveEnd(t) \/ DriveClose(t)
  BY <1>1, <1>4 DEF Types, EngineTypes, EngineEnds, EngineStops, EngineReturns, DriveOn, DriveEnd,
                    DriveClose
<1> QED
  BY <1>2, <1>3, <1>4 DEF EngineStep, Emit, GoLive, AgentTake, StdinTake, Watch, engineVars

LEMMA EngineStepEndings ==
  ASSUME Types, Types', EndingKept, NEW t \in Turn, EngineStep(t), EndingHeld(t),
         engine'[t] \notin {"closing", "gone"}
  PROVE  NoEnding(stream'[t])
<1>1. stream[t] \in Seq(Items) /\ mailbox[t].msgs \in Seq(Message)
  BY DEF Types, LoopTypes, MessageTypes, Mailbox
<1>2. engine[t] \notin {"closing", "gone"}
  BY DriveMoves
<1>3. NoEnding(stream[t])
  BY <1>2 DEF EndingHeld
<1>4. CASE stream' = stream
  BY <1>3, <1>4
<1>5. CASE Emit(t)
  <2>1. PICK e \in CanEmit(t) : stream' = [stream EXCEPT ![t] = Append(@, e)]
    BY <1>5 DEF Emit
  <2>2. e \in Items /\ e \notin Endings
    BY <2>1 DEF CanEmit, Items, Endings
  <2> QED
    BY <1>1, <1>3, <2>1, <2>2, NoEndingAppend DEF Types, LoopTypes
<1>6. CASE Ask(t)
  <2>1. "ask" \in Items /\ "ask" \notin Endings
    BY DEF Items, Endings
  <2> QED
    BY <1>1, <1>3, <1>6, <2>1, NoEndingAppend DEF Ask, Types, LoopTypes
<1>7. CASE AgentTake(t) \/ DriveOn(t)
  BY <1>1, <1>3, <1>7, SteeredNoEnding DEF AgentTake, DriveOn, Paragraph
<1>8. CASE StdinTake(t)
  <2>1. PICK written \in 0..Len(mailbox[t].msgs) :
          Steered(t, SubSeq(mailbox[t].msgs, 1, written), <<>>)
    BY <1>8 DEF StdinTake
  <2> QED
    BY <1>1, <1>3, <2>1, PrefixIsSeq, SteeredNoEnding
<1>9. CASE DriveEnd(t)
  BY <1>9 DEF DriveEnd, Types, EngineTypes
<1> QED
  BY <1>4, <1>5, <1>6, <1>7, <1>8, <1>9
     DEF EngineStep, DriveOpen, EngineUp, GoLive, AskAnswered, AskStopped, AskReturns,
         EngineEnds, EngineStops, EngineReturns, Watch, DriveClose

LEMMA EngineStepControl ==
  ASSUME Types, Types', EndingKept, Control, NEW t \in Turn, EngineStep(t)
  PROVE  Control'
<1>1. /\ UNCHANGED <<stage, register, loopVars, windowVars, personVars>>
      /\ \A u \in Turn \ {t} : engine'[u] = engine[u]
      /\ engine[t] = "off" => engine'[t] = "off" \/ stage[t] = "running"
      /\ engine[t] = "closing" => engine'[t] \in {"closing", "gone"}
      /\ engine[t] = "gone" => engine'[t] = "gone"
  BY DriveMoves
<1>2. WaitingTurn' /\ \A u \in Turn : Registered(u)'
  BY <1>1 DEF Control, Registered, WaitingTurn, windowVars, personVars
<1>3. \A u \in Turn : DriveInLoop(u)'
  BY <1>1 DEF Control, DriveInLoop, loopVars
<1>4. \A u \in Turn : EndedOnce(u)'
  BY <1>1 DEF Control, EndedOnce, loopVars, windowVars, personVars
<1>5. EndingHeld(t)'
  BY <1>1, EngineStepEndings DEF Control, EndingHeld, loopVars
<1>6. \A u \in Turn \ {t} : stream'[u] = stream[u]
  BY DEF EngineStep, DriveOpen, EngineUp, Emit, GoLive, AgentTake, StdinTake, Steered, Ask,
         AskAnswered, AskStopped, AskReturns, EngineEnds, EngineStops, EngineReturns, Watch,
         DriveOn, DriveEnd, DriveClose, Types, LoopTypes
<1>7. \A u \in Turn \ {t} : EndingHeld(u)'
  BY <1>1, <1>6 DEF Control, EndingHeld, loopVars
<1> QED
  BY <1>2, <1>3, <1>4, <1>5, <1>7 DEF Control

(* What a step of the loop leaves alone.                                   *)
LEMMA LoopMoves ==
  ASSUME Types, NEW t \in Turn, LoopStep(t)
  PROVE  /\ engine' = engine /\ personVars' = personVars
         /\ \A u \in Turn \ {t} :
              /\ stage'[u] = stage[u] /\ hand'[u] = hand[u] /\ stream'[u] = stream[u]
              /\ card'[u] = card[u] /\ halted'[u] = halted[u]
              /\ u \in register <=> u \in register'
<1> USE DEF Types, LoopTypes, WindowTypes, loopRest, engineVars
<1>1. CASE EngineStart(t) \/ RunTurn(t) \/ Settle(t) \/ Finish(t)
  BY <1>1 DEF EngineStart, RunTurn, Settle, Finish, ShowCompleted, loopVars, windowVars
<1>2. CASE Receive(t) \/ FlushTimer(t) \/ LoopEnd(t)
  BY <1>2 DEF Receive, FlushTimer, LoopEnd, ShowDelta, windowVars
<1>3. CASE HandleDelta(t)
  BY <1>3 DEF HandleDelta, ShowDelta
<1>4. CASE HandleTool(t) \/ HandleUsage(t)
  BY <1>4 DEF HandleTool, HandleUsage, TakeHand, Halt, KeepGoing
<1>5. CASE HandleToolDone(t) \/ HandleAsk(t) \/ HandleSteer(t) \/ HandleDone(t) \/ HandleFailed(t)
  BY <1>5 DEF HandleToolDone, HandleAsk, HandleSteer, HandleDone, HandleFailed, TakeHand, KeepGoing
<1> QED
  BY <1>1, <1>2, <1>3, <1>4, <1>5 DEF LoopStep, Handle

(* The card of a turn that goes on is not one that ended.                  *)
LEMMA FlushedNotEnded == ASSUME NEW t \in Turn, Flushed(t) \in Endings PROVE Flushed(t) = card[t]
BY DEF Flushed, Endings

LEMMA HandleControl ==
  ASSUME Types, Control, NEW t \in Turn, Handle(t)
  PROVE  /\ DriveInLoop(t)' /\ Registered(t)' /\ EndingHeld(t)' /\ EndedOnce(t)' /\ WaitingTurn'
<1>1. hand[t] \in Items /\ hand'[t] = Nothing
  BY DEF Handle, HandleDelta, HandleTool, HandleUsage, HandleToolDone, HandleAsk, HandleSteer,
         HandleDone, HandleFailed, TakeHand, Types, LoopTypes, Items, Endings
<1>2. /\ stage' = stage /\ register' = register /\ stream' = stream
      /\ engine' = engine /\ personVars' = personVars
  BY DEF Handle, HandleDelta, HandleTool, HandleUsage, HandleToolDone, HandleAsk, HandleSteer,
         HandleDone, HandleFailed, TakeHand, loopRest, engineVars
<1>3. stage[t] = "running"
  BY <1>1 DEF Control, DriveInLoop, Items, Endings, Nothing
<1>4. DriveInLoop(t)' /\ Registered(t)' /\ EndingHeld(t)'
  BY <1>1, <1>2 DEF Control, DriveInLoop, Registered, EndingHeld, personVars, Endings, Nothing
<1>5. WaitingTurn'
  BY <1>2, <1>3 DEF WaitingTurn
<1>6. EndedOnce(t)'
  <2>1. /\ card[t] \in Endings => engine[t] \in {"closing", "gone"} \/ halted[t] \/ t \in stopped
        /\ t \in stopping => t \in stopped
    BY DEF Control, EndedOnce
  <2>2. SUFFICES ASSUME card'[t] \in Endings
                 PROVE  engine[t] \in {"closing", "gone"} \/ halted'[t] \/ t \in stopped
    BY <1>2, <2>1 DEF EndedOnce, personVars
  <2>3. CASE Halt(t)
    BY <2>3 DEF Halt, Types, LoopTypes
  <2>4. CASE KeepGoing(t)
    BY <2>1, <2>2, <2>4, FlushedNotEnded DEF KeepGoing, Types, LoopTypes, WindowTypes
  <2>5. CASE HandleDelta(t)
    BY <2>1, <2>2, <2>5 DEF HandleDelta, ShowDelta, Types, LoopTypes, WindowTypes, Endings
  <2>6. CASE HandleFailed(t)
    BY <2>6 DEF HandleFailed, TakeHand, Control, EndingHeld, Endings
  <2> QED
    BY <2>3, <2>4, <2>5, <2>6
       DEF Handle, HandleTool, HandleUsage, HandleToolDone, HandleAsk, HandleSteer, HandleDone
<1> QED
  BY <1>4, <1>5, <1>6

LEMMA LoopStepControl ==
  ASSUME Types, Control, NEW t \in Turn, LoopStep(t)
  PROVE  Control'
<1> USE DEF Types, LoopTypes, WindowTypes
<1>1. /\ engine' = engine /\ personVars' = personVars
      /\ \A u \in Turn \ {t} :
           /\ stage'[u] = stage[u] /\ hand'[u] = hand[u] /\ stream'[u] = stream[u]
           /\ card'[u] = card[u] /\ halted'[u] = halted[u]
           /\ u \in register <=> u \in register'
  BY LoopMoves
<1>2. \A u \in Turn \ {t} : DriveInLoop(u)' /\ Registered(u)' /\ EndingHeld(u)' /\ EndedOnce(u)'
  BY <1>1 DEF Control, DriveInLoop, Registered, EndingHeld, EndedOnce, personVars
<1>3. SUFFICES /\ DriveInLoop(t)' /\ Registered(t)' /\ EndingHeld(t)' /\ EndedOnce(t)'
               /\ WaitingTurn'
  BY <1>2 DEF Control
<1>4. CASE EngineStart(t)
  <2>1. DriveInLoop(t)' /\ Registered(t)' /\ EndingHeld(t)' /\ EndedOnce(t)'
    BY <1>1, <1>4 DEF Control, EngineStart, DriveInLoop, Registered, EndingHeld, EndedOnce, loopVars,
                      personVars, Endings
  <2>2. WaitingTurn'
    BY <1>4 DEF Control, EngineStart, WaitingTurn
  <2> QED
    BY <2>1, <2>2
<1>5. CASE RunTurn(t)
  <2>1. DriveInLoop(t)' /\ Registered(t)' /\ EndingHeld(t)' /\ EndedOnce(t)'
    BY <1>1, <1>5 DEF Control, RunTurn, DriveInLoop, Registered, EndingHeld, EndedOnce, loopVars,
                      windowVars, personVars
  <2>2. WaitingTurn'
    BY <1>5 DEF Control, RunTurn, WaitingTurn, windowVars
  <2> QED
    BY <2>1, <2>2
<1>6. CASE Receive(t)
  <2>1. stage' = stage /\ register' = register /\ card' = card /\ halted' = halted /\ attention' = attention
    BY <1>6 DEF Receive, loopRest, windowVars
  <2>2. DriveInLoop(t)' /\ Registered(t)' /\ EndedOnce(t)' /\ WaitingTurn'
    BY <1>1, <1>6, <2>1 DEF Control, Receive, DriveInLoop, Registered, EndedOnce, WaitingTurn,
                            personVars
  <2>3. ASSUME engine[t] \notin {"closing", "gone"}
        PROVE  hand'[t] \notin Endings /\ NoEnding(stream'[t])
    <3>1. hand[t] \notin Endings /\ NoEnding(stream[t]) /\ stream[t] \in Seq(Items) /\ stream[t] # <<>>
      BY <1>6, <2>3 DEF Control, EndingHeld, Receive
    <3>2. Head(stream[t]) \notin Endings /\ NoEnding(Tail(stream[t]))
      BY <3>1, NoEndingTail
    <3>3. stream'[t] = Tail(stream[t]) /\ (hand'[t] = hand[t] \/ hand'[t] = Head(stream[t]))
      BY <1>6 DEF Receive
    <3> QED
      BY <3>1, <3>2, <3>3
  <2>4. EndingHeld(t)'
    BY <1>1, <2>3 DEF EndingHeld
  <2> QED
    BY <2>2, <2>4
<1>7. CASE FlushTimer(t)
  <2>1. /\ stage' = stage /\ register' = register /\ stream' = stream /\ hand' = hand
        /\ attention' = attention /\ card'[t] = "running"
    BY <1>7 DEF FlushTimer, ShowDelta, loopRest
  <2> QED
    BY <1>1, <2>1 DEF Control, DriveInLoop, Registered, EndingHeld, EndedOnce, WaitingTurn, personVars,
                      Endings
<1>8. CASE Handle(t)
  BY <1>8, HandleControl
<1>9. CASE LoopEnd(t)
  <2>1. /\ register' = register /\ stream' = stream /\ hand' = hand /\ halted' = halted
        /\ attention' = attention /\ card'[t] = Flushed(t) /\ stage'[t] = "settling"
        /\ hand[t] = Nothing /\ engine[t] = "gone"
    BY <1>9 DEF LoopEnd, loopRest
  <2>2. DriveInLoop(t)' /\ Registered(t)' /\ EndingHeld(t)'
    BY <1>1, <2>1 DEF DriveInLoop, Registered, EndingHeld
  <2>3. EndedOnce(t)' /\ WaitingTurn'
    BY <1>1, <2>1 DEF Control, EndedOnce, WaitingTurn, personVars
  <2> QED
    BY <2>2, <2>3
<1>10. CASE Settle(t)
  <2>1. /\ stage[t] = "settling" /\ stage'[t] = "finishing"
        /\ stream' = stream /\ hand' = hand /\ halted' = halted /\ card' = card /\ attention' = attention
    BY <1>10 DEF Settle, loopVars, windowVars
  <2> QED
    BY <1>1, <2>1 DEF Control, DriveInLoop, Registered, EndingHeld, EndedOnce, WaitingTurn, personVars
<1>11. CASE Finish(t)
  <2>1. /\ stage[t] = "finishing" /\ stage'[t] = "over" /\ attention' = FALSE
        /\ stream' = stream /\ hand' = hand /\ halted' = halted
    BY <1>11 DEF Finish, loopVars
  <2>2. engine[t] = "gone" /\ DriveInLoop(t)' /\ Registered(t)'
    BY <1>1, <2>1 DEF Control, DriveInLoop, Registered
  <2>3. EndingHeld(t)' /\ EndedOnce(t)' /\ WaitingTurn'
    BY <1>1, <2>1, <2>2 DEF Control, EndingHeld, EndedOnce, WaitingTurn, personVars
  <2> QED
    BY <2>2, <2>3
<1> QED
  BY <1>4, <1>5, <1>6, <1>7, <1>8, <1>9, <1>10, <1>11 DEF LoopStep

(* What the person's calls leave alone.                                    *)
LEMMA PersonStepControl ==
  ASSUME Types, Control, NEW t \in Turn, PersonStep(t)
  PROVE  Control'
<1>1. /\ stage' = stage /\ engine' = engine /\ stream' = stream /\ hand' = hand /\ halted' = halted
      /\ register' = register /\ drained' = drained
      /\ attention' = attention \/ attention' = FALSE
  BY DEF PersonStep, Steer, StopMark, StopSay, KillTask, Answer, engineVars, loopVars, windowVars,
         personVars
<1>2. \A u \in Turn : DriveInLoop(u)' /\ Registered(u)' /\ EndingHeld(u)'
  BY <1>1 DEF Control, DriveInLoop, Registered, EndingHeld
<1>3. WaitingTurn'
  BY <1>1 DEF Control, WaitingTurn
<1>4. \A u \in Turn : EndedOnce(u)'
  <2>1. CASE StopSay(t)
    <3>1. t \in stopped
      BY <2>1 DEF Control, EndedOnce, StopSay
    <3>2. \A u \in Turn \ {t} : card'[u] = card[u]
      BY <2>1 DEF StopSay, ShowCompleted, Types, WindowTypes
    <3> QED
      BY <1>1, <2>1, <3>1, <3>2 DEF Control, EndedOnce, StopSay
  <2>2. CASE StopMark(t)
    BY <1>1, <2>2 DEF Control, EndedOnce, StopMark, windowVars
  <2>3. CASE Steer(t) \/ KillTask(t) \/ Answer(t)
    BY <1>1, <2>3 DEF Control, EndedOnce, Steer, KillTask, Answer, windowVars, personVars
  <2> QED
    BY <2>1, <2>2, <2>3 DEF PersonStep
<1> QED
  BY <1>2, <1>3, <1>4 DEF Control

LEMMA KillAllControl == ASSUME Types, Control, KillAll PROVE Control'
<1>1. /\ stage' = stage /\ engine' = engine /\ stream' = stream /\ hand' = hand /\ halted' = halted
      /\ card' = card /\ attention' = attention
  BY DEF KillAll, engineVars, loopVars, windowVars
<1>2. \A u \in Turn : DriveInLoop(u)' /\ EndingHeld(u)'
  BY <1>1 DEF Control, DriveInLoop, EndingHeld
<1>3. \A u \in Turn : Registered(u)' /\ EndedOnce(u)'
  BY <1>1 DEF Control, Registered, EndedOnce, KillAll
<1> QED
  BY <1>1, <1>2, <1>3 DEF Control, WaitingTurn

-----------------------------------------------------------------------------
(* Messages: the way of each one from engine.steer into its turn.          *)

LEMMA WayTypes ==
  ASSUME Types, NEW t \in Turn
  PROVE  /\ joined[t] \in Seq(Message) /\ mailbox[t].msgs \in Seq(Message)
         /\ Way(t) \in Seq(Message) /\ DOMAIN Way(t) = 1..Len(Way(t)) /\ Len(Way(t)) \in Nat
         /\ \A i \in DOMAIN Way(t) : Way(t)[i] \in Nat
         /\ sent \in Nat
<1>1. joined[t] \in Seq(Message) /\ mailbox[t].msgs \in Seq(Message) /\ sent \in Nat
  BY ConstantsAssumption DEF Types, MessageTypes, Mailbox
<1>2. Way(t) \in Seq(Message)
  BY <1>1, ConcatProperties DEF Way
<1>3. DOMAIN Way(t) = 1..Len(Way(t)) /\ Len(Way(t)) \in Nat
  BY <1>2, LenProperties
<1>4. \A i \in DOMAIN Way(t) : Way(t)[i] \in Message
  BY <1>2, <1>3, ElementOfSeq
<1> QED
  BY <1>1, <1>2, <1>3, <1>4, ConstantsAssumption DEF Message

LEMMA InitMessages == ASSUME Init PROVE Messages
<1>1. \A t \in Turn : Way(t) = <<>>
  <2>1. <<>> \in Seq(Message)
    BY EmptySeq
  <2> QED
    BY <2>1, ConcatEmptySeq DEF Init, Way, Shut
<1>2. DOMAIN <<>> = {}
  OBVIOUS
<1> QED
  BY <1>1, <1>2 DEF Init, Messages, MailboxOfDrive, InOrder, Shut

(* A turn whose messages stay in place, be they read or not.               *)
LEMMA SameWay ==
  ASSUME Types, Messages, NEW t \in Turn,
         (Way(t))' = Way(t), accepted'[t] = accepted[t],
         mailbox'[t].open = mailbox[t].open,
         ~mailbox'[t].open => mailbox'[t].msgs = mailbox[t].msgs,
         engine'[t] \in {"off", "gone"} <=> engine[t] \in {"off", "gone"},
         engine'[t] = "off" => engine[t] = "off" /\ joined'[t] = joined[t],
         t \in broken => t \in broken',
         sent' \in Nat, sent' >= sent
  PROVE  MailboxOfDrive(t)' /\ InOrder(t)'
<1>1. MailboxOfDrive(t) /\ InOrder(t)
  BY DEF Messages
<1>2. InOrder(t)'
  BY <1>1 DEF InOrder
<1>3. \A i \in DOMAIN Way(t) : Way(t)[i] \in Nat /\ Way(t)[i] <= sent /\ sent \in Nat
  BY <1>1, WayTypes DEF MailboxOfDrive
<1>4. \A i \in DOMAIN Way(t) : Way(t)[i] <= sent'
  BY <1>3
<1> QED
  BY <1>1, <1>2, <1>4 DEF MailboxOfDrive

(* A turn that loses the messages it has not read.                         *)
LEMMA ShorterWay ==
  ASSUME Types, Messages, NEW t \in Turn, NEW n \in 0..Len(mailbox[t].msgs),
         (Way(t))' = joined[t] \o SubSeq(mailbox[t].msgs, 1, n)
  PROVE  /\ \A i, j \in DOMAIN (Way(t))' : i < j => (Way(t))'[i] < (Way(t))'[j]
         /\ \A i \in DOMAIN (Way(t))' : (Way(t))'[i] <= sent
<1> DEFINE s == joined[t]
           q == mailbox[t].msgs
           r == SubSeq(q, 1, n)
<1>1. /\ s \in Seq(Message) /\ q \in Seq(Message) /\ Len(s) \in Nat /\ Len(q) \in Nat
      /\ n \in Nat /\ n <= Len(q)
  BY WayTypes, LenProperties
<1>2. \A i \in 1..n : q[i] \in Message
  BY <1>1, ElementOfSeq
<1>3. r \in Seq(Message) /\ Len(r) = n /\ \A i \in 1..n : r[i] = q[i]
  BY <1>1, <1>2, SubSeqProperties
<1> HIDE DEF s, q, r
<1>4. /\ s \o q \in Seq(Message) /\ Len(s \o q) = Len(s) + Len(q)
      /\ \A i \in 1..(Len(s) + Len(q)) :
           (s \o q)[i] = IF i <= Len(s) THEN s[i] ELSE q[i - Len(s)]
  BY <1>1, ConcatProperties
<1>5. /\ s \o r \in Seq(Message) /\ Len(s \o r) = Len(s) + n
      /\ \A i \in 1..(Len(s) + n) :
           (s \o r)[i] = IF i <= Len(s) THEN s[i] ELSE r[i - Len(s)]
  BY <1>1, <1>3, ConcatProperties
<1>6. DOMAIN (s \o r) = 1..(Len(s) + n) /\ DOMAIN (s \o q) = 1..(Len(s) + Len(q))
  BY <1>4, <1>5, LenProperties
<1>7. \A i \in 1..(Len(s) + n) : i \in 1..(Len(s) + Len(q)) /\ (s \o r)[i] = (s \o q)[i]
  BY <1>1, <1>3, <1>4, <1>5
<1>8. /\ \A i, j \in DOMAIN (s \o q) : i < j => (s \o q)[i] < (s \o q)[j]
      /\ \A i \in DOMAIN (s \o q) : (s \o q)[i] <= sent
  BY DEF Messages, MailboxOfDrive, InOrder, Way, s, q
<1>9. \A i \in DOMAIN (s \o r) : i \in DOMAIN (s \o q) /\ (s \o r)[i] = (s \o q)[i]
  BY <1>6, <1>7
<1>10. ASSUME NEW i \in DOMAIN (s \o r), NEW j \in DOMAIN (s \o r), i < j
       PROVE  (s \o r)[i] < (s \o r)[j]
  BY <1>8, <1>9, <1>10
<1>11. \A i \in DOMAIN (s \o r) : (s \o r)[i] <= sent
  BY <1>8, <1>9
<1> QED
  BY <1>10, <1>11 DEF s, q, r

(* Everything that arrived is read, and nothing is left.                   *)
LEMMA TakenWay ==
  ASSUME Types, NEW t \in Turn, NEW after, Steered(t, mailbox[t].msgs, after),
         mailbox'[t].msgs = <<>>
  PROVE  (Way(t))' = Way(t)
<1>1. joined'[t] = Way(t)
  BY DEF Steered, Types, MessageTypes, Way
<1>2. Way(t) \o <<>> = Way(t)
  BY WayTypes, ConcatEmptySeq
<1> QED
  BY <1>1, <1>2 DEF Way

LEMMA EngineStepMessages ==
  ASSUME Types, Types', Messages, NEW t \in Turn, EngineStep(t)
  PROVE  Messages'
<1>0. sent \in Nat /\ personVars' = personVars /\ \A u \in Turn \ {t} : engine'[u] = engine[u]
  BY DriveMoves, WayTypes
<1>1. /\ accepted' = accepted /\ sent' = sent /\ sent \in Nat /\ sent' >= sent
      /\ \A u \in Turn \ {t} : engine'[u] = engine[u]
  BY <1>0 DEF personVars
<1>taken. ASSUME NEW after, Steered(t, mailbox[t].msgs, after), mailbox'[t].msgs = <<>>
          PROVE  (Way(t))' = Way(t)
  BY <1>taken, TakenWay
<1> USE DEF Types, EngineTypes, MessageTypes, Mailbox
<1>2. \A u \in Turn \ {t} :
        joined'[u] = joined[u] /\ mailbox'[u] = mailbox[u] /\ (u \in broken => u \in broken')
  <2>1. CASE AgentTake(t)
    BY <2>1 DEF AgentTake, Steered
  <2>4. CASE DriveOn(t)
    BY <2>4 DEF DriveOn, Steered
  <2>2. CASE StdinTake(t)
    BY <2>2 DEF StdinTake, Steered
  <2>3. CASE ~(AgentTake(t) \/ DriveOn(t) \/ StdinTake(t))
    BY <2>3 DEF EngineStep, DriveOpen, EngineUp, Emit, GoLive, Ask, AskAnswered, AskStopped,
                AskReturns, EngineEnds, EngineStops, EngineReturns, Watch, DriveEnd, DriveClose, steered
  <2> QED
    BY <2>1, <2>2, <2>3, <2>4
<1>3. \A u \in Turn \ {t} : MailboxOfDrive(u)' /\ InOrder(u)'
  <2> SUFFICES ASSUME NEW u \in Turn \ {t} PROVE MailboxOfDrive(u)' /\ InOrder(u)'
    OBVIOUS
  <2>1. (Way(u))' = Way(u)
    BY <1>2 DEF Way
  <2> QED
    BY <1>1, <1>2, <2>1, SameWay
<1>4. SUFFICES MailboxOfDrive(t)' /\ InOrder(t)'
  BY <1>3 DEF Messages
<1>5. MailboxOfDrive(t) /\ InOrder(t)
  BY DEF Messages
<1>6. CASE DriveOpen(t)
  <2>1. joined'[t] = <<>> /\ mailbox'[t].msgs = <<>> /\ accepted'[t] = <<>>
        /\ engine'[t] = "starting" /\ mailbox'[t].open
    BY <1>1, <1>5, <1>6 DEF DriveOpen, MailboxOfDrive, Shut, steered
  <2>2. (Way(t))' = <<>>
    BY <2>1, EmptySeq, ConcatEmptySeq DEF Way
  <2>3. DOMAIN <<>> = {}
    OBVIOUS
  <2> QED
    BY <2>1, <2>2, <2>3 DEF MailboxOfDrive, InOrder
<1>7. ASSUME steered' = steered, mailbox'[t].msgs = mailbox[t].msgs,
             mailbox'[t].open = mailbox[t].open,
             engine'[t] = engine[t] \/ {engine[t], engine'[t]} \cap {"off", "gone"} = {}
      PROVE  MailboxOfDrive(t)' /\ InOrder(t)'
  <2>1. (Way(t))' = Way(t)
    BY <1>7 DEF Way, steered
  <2> QED
    BY <1>1, <1>7, <2>1, SameWay DEF steered
<1>8. CASE EngineUp(t) \/ Emit(t) \/ GoLive(t) \/ Watch(t)
  <2>1. CASE EngineUp(t) \/ Emit(t)
    BY <1>7, <2>1 DEF EngineUp, Emit
  <2>2. CASE GoLive(t) \/ Watch(t)
    <3>1. /\ steered' = steered /\ engine' = engine
          /\ mailbox'[t].msgs = mailbox[t].msgs /\ mailbox'[t].open = mailbox[t].open
      BY <2>2 DEF GoLive, Watch
    <3> QED
      BY <1>7, <3>1
  <2> QED
    BY <1>8, <2>1, <2>2
<1>9. CASE Ask(t) \/ AskAnswered(t) \/ AskStopped(t)
  BY <1>7, <1>9 DEF Ask, AskAnswered, AskStopped, AskReturns
<1>10. CASE EngineEnds(t) \/ EngineStops(t) \/ DriveEnd(t)
  BY <1>7, <1>10 DEF EngineEnds, EngineStops, EngineReturns, DriveEnd
<1>11. CASE AgentTake(t)
  <2>0. PICK after : Steered(t, mailbox[t].msgs, after) /\ mailbox'[t].msgs = <<>>
    BY <1>11 DEF AgentTake
  <2>1. (Way(t))' = Way(t)
    BY <2>0, <1>taken
  <2>2. engine' = engine /\ broken' = broken /\ mailbox'[t].open = mailbox[t].open
        /\ engine[t] = "working" /\ mailbox'[t].msgs = <<>>
    BY <1>11 DEF AgentTake, engineVars
  <2> QED
    BY <1>1, <1>5, <2>1, <2>2, SameWay DEF MailboxOfDrive
<1>12. CASE DriveOn(t)
  <2>0. PICK after : Steered(t, mailbox[t].msgs, after) /\ mailbox'[t].msgs = <<>>
    BY <1>12 DEF DriveOn, Shut
  <2>1. (Way(t))' = Way(t)
    BY <2>0, <1>taken
  <2>2. mailbox[t].open /\ mailbox'[t].open /\ engine'[t] = "starting" /\ broken' = broken
    BY <1>5, <1>12 DEF DriveOn, Shut, MailboxOfDrive
  <2> QED
    BY <1>1, <1>12, <2>1, <2>2, SameWay DEF DriveOn
<1>13. CASE StdinTake(t)
  <2>1. PICK n \in 0..Len(mailbox[t].msgs) :
          /\ Steered(t, SubSeq(mailbox[t].msgs, 1, n), <<>>)
          /\ n # Len(mailbox[t].msgs) => t \in broken'
          /\ t \in broken => t \in broken'
    BY <1>13 DEF StdinTake
  <2>2. engine' = engine /\ engine[t] = "working" /\ mailbox'[t].msgs = <<>> /\ mailbox'[t].open = mailbox[t].open
    BY <1>13 DEF StdinTake
  <2>3. CASE n = Len(mailbox[t].msgs)
    <3>1. SubSeq(mailbox[t].msgs, 1, n) = mailbox[t].msgs
      BY <2>3, SubSeqFull
    <3>2. (Way(t))' = Way(t)
      BY <2>1, <2>2, <3>1, <1>taken
    <3> QED
      BY <1>1, <1>5, <2>1, <2>2, <3>2, SameWay DEF MailboxOfDrive
  <2>4. CASE n # Len(mailbox[t].msgs)
    <3>1. joined'[t] = joined[t] \o SubSeq(mailbox[t].msgs, 1, n)
      BY <2>1 DEF Steered
    <3>2. joined'[t] \o <<>> = joined'[t]
      BY ConcatEmptySeq
    <3>3. (Way(t))' = joined[t] \o SubSeq(mailbox[t].msgs, 1, n)
      BY <2>2, <3>1, <3>2 DEF Way
    <3>4. /\ \A i, j \in DOMAIN (Way(t))' : i < j => (Way(t))'[i] < (Way(t))'[j]
          /\ \A i \in DOMAIN (Way(t))' : (Way(t))'[i] <= sent
      BY <3>3, ShorterWay
    <3> QED
      BY <1>1, <1>5, <2>1, <2>2, <2>4, <3>4 DEF MailboxOfDrive, InOrder
  <2> QED
    BY <2>3, <2>4
<1>14. CASE DriveClose(t)
  <2>1. joined' = joined /\ mailbox'[t].msgs = <<>> /\ ~mailbox'[t].open /\ engine'[t] = "gone"
    BY <1>14 DEF DriveClose, Shut, steered
  <2>2. SubSeq(mailbox[t].msgs, 1, 0) = <<>> /\ 0 \in 0..Len(mailbox[t].msgs)
    BY SubSeqEmpty, LenProperties
  <2>3. (Way(t))' = joined[t] \o SubSeq(mailbox[t].msgs, 1, 0)
    BY <2>1, <2>2 DEF Way
  <2>4. /\ \A i, j \in DOMAIN (Way(t))' : i < j => (Way(t))'[i] < (Way(t))'[j]
        /\ \A i \in DOMAIN (Way(t))' : (Way(t))'[i] <= sent
    BY <2>2, <2>3, ShorterWay
  <2> QED
    BY <1>1, <2>1, <2>4 DEF MailboxOfDrive, InOrder
<1> QED
  BY <1>6, <1>8, <1>9, <1>10, <1>11, <1>12, <1>13, <1>14 DEF EngineStep

(* Nothing else than drive and engine.steer touches a message.             *)
LEMMA MessagesUntouched ==
  ASSUME Types, Messages, mailbox' = mailbox, steered' = steered, engine' = engine,
         accepted' = accepted, sent' = sent
  PROVE  Messages'
<1> SUFFICES ASSUME NEW t \in Turn PROVE MailboxOfDrive(t)' /\ InOrder(t)'
  BY DEF Messages
<1>1. (Way(t))' = Way(t)
  BY DEF Way, steered
<1>2. sent' \in Nat /\ sent' >= sent
  BY WayTypes
<1> QED
  BY <1>1, <1>2, SameWay DEF steered

LEMMA LoopStepMessages ==
  ASSUME Types, Messages, NEW t \in Turn, LoopStep(t)
  PROVE  Messages'
<1>1. mailbox' = mailbox /\ steered' = steered
  BY DEF LoopStep, EngineStart, RunTurn, Receive, FlushTimer, Handle, HandleDelta, HandleTool,
         HandleUsage, HandleToolDone, HandleAsk, HandleSteer, HandleDone, HandleFailed, TakeHand,
         LoopEnd, Settle, Finish, loopRest
<1>2. engine' = engine /\ accepted' = accepted /\ sent' = sent
  BY LoopMoves DEF personVars
<1> QED
  BY <1>1, <1>2, MessagesUntouched

(* A new message is the largest: it goes to the end of the way.            *)
LEMMA LongerWay ==
  ASSUME Types, Messages, NEW t \in Turn, sent + 1 \in Message,
         (Way(t))' = Append(Way(t), sent + 1), sent' = sent + 1
  PROVE  /\ \A i, j \in DOMAIN (Way(t))' : i < j => (Way(t))'[i] < (Way(t))'[j]
         /\ \A i \in DOMAIN (Way(t))' : (Way(t))'[i] <= sent'
<1> DEFINE w == Way(t)
           n == Len(w)
           v == Append(w, sent + 1)
<1>1. w \in Seq(Message) /\ n \in Nat /\ DOMAIN w = 1..n /\ sent \in Nat
  BY WayTypes
<1>2. DOMAIN v = 1..(n + 1) /\ v[n + 1] = sent + 1 /\ \A i \in 1..n : v[i] = w[i]
  <2>1. v \in Seq(Message) /\ Len(v) = n + 1
    BY <1>1, AppendProperties
  <2>2. v[n + 1] = sent + 1 /\ \A i \in 1..n : v[i] = w[i]
    BY <1>1, AppendProperties
  <2> QED
    BY <2>1, <2>2, LenProperties
<1>3. /\ \A i, j \in 1..n : i < j => w[i] < w[j]
      /\ \A i \in 1..n : w[i] \in Nat /\ w[i] <= sent
  BY <1>1, WayTypes DEF Messages, MailboxOfDrive, InOrder
<1>4. (Way(t))' = v
  OBVIOUS
<1> HIDE DEF w, n, v
<1>5. ASSUME NEW i \in 1..(n + 1), NEW j \in 1..(n + 1), i < j
      PROVE  v[i] < v[j]
  <2>1. i \in 1..n
    BY <1>1, <1>5
  <2>2. CASE j \in 1..n
    BY <1>2, <1>3, <1>5, <2>1, <2>2
  <2>3. CASE j = n + 1
    BY <1>1, <1>2, <1>3, <2>1, <2>3
  <2> QED
    BY <1>1, <2>2, <2>3
<1>6. \A i \in 1..(n + 1) : v[i] <= sent + 1
  BY <1>1, <1>2, <1>3
<1> QED
  BY <1>2, <1>4, <1>5, <1>6

LEMMA SteerMessages ==
  ASSUME Types, Types', Messages, NEW t \in Turn, Steer(t)
  PROVE  Messages'
<1>1. /\ joined' = joined /\ broken' = broken /\ engine' = engine /\ sent' = sent + 1
      /\ \A u \in Turn \ {t} : mailbox'[u] = mailbox[u] /\ accepted'[u] = accepted[u]
  BY DEF Steer, steered, engineVars, Types, MessageTypes, Mailbox
<1>2. /\ mailbox[t].open /\ mailbox'[t].open
      /\ mailbox'[t].msgs = Append(mailbox[t].msgs, sent + 1)
      /\ accepted'[t] = Append(accepted[t], sent + 1)
  BY DEF Steer, Types, MessageTypes, Mailbox
<1>3. sent + 1 \in Message /\ sent \in Nat
  BY WayTypes DEF Steer, Message, Types, MessageTypes
<1>4. (Way(t))' = Append(Way(t), sent + 1)
  <2>1. joined[t] \in Seq(Message) /\ mailbox[t].msgs \in Seq(Message) /\ Way(t) \in Seq(Message)
    BY WayTypes
  <2>2. Append(mailbox[t].msgs, sent + 1) = mailbox[t].msgs \o <<sent + 1>>
    BY <1>3, <2>1, AppendIsConcat
  <2>3. Append(Way(t), sent + 1) = Way(t) \o <<sent + 1>>
    BY <1>3, <2>1, AppendIsConcat
  <2>4. <<sent + 1>> \in Seq(Message)
    BY <1>3
  <2>5. \A a, b, c \in Seq(Message) : (a \o b) \o c = a \o (b \o c)
    BY ConcatAssociative
  <2>6. (joined[t] \o mailbox[t].msgs) \o <<sent + 1>> = joined[t] \o (mailbox[t].msgs \o <<sent + 1>>)
    <3>1. \A b, c \in Seq(Message) : (joined[t] \o b) \o c = joined[t] \o (b \o c)
      BY <2>1, <2>5, Zenon
    <3>2. \A c \in Seq(Message) : (joined[t] \o mailbox[t].msgs) \o c = joined[t] \o (mailbox[t].msgs \o c)
      BY <2>1, <3>1, Zenon
    <3> QED
      BY <2>4, <3>2, Zenon
  <2> QED
    BY <1>1, <1>2, <2>2, <2>3, <2>6 DEF Way
<1>5. MailboxOfDrive(t)' /\ InOrder(t)'
  <2>1. MailboxOfDrive(t) /\ InOrder(t)
    BY DEF Messages
  <2>2. /\ \A i, j \in DOMAIN (Way(t))' : i < j => (Way(t))'[i] < (Way(t))'[j]
        /\ \A i \in DOMAIN (Way(t))' : (Way(t))'[i] <= sent'
    BY <1>1, <1>3, <1>4, LongerWay
  <2>3. t \notin broken => (Way(t))' = accepted'[t]
    BY <1>2, <1>4, <2>1 DEF InOrder
  <2> QED
    BY <1>1, <1>2, <2>1, <2>2, <2>3 DEF MailboxOfDrive, InOrder
<1>6. \A u \in Turn \ {t} : MailboxOfDrive(u)' /\ InOrder(u)'
  <2> SUFFICES ASSUME NEW u \in Turn \ {t} PROVE MailboxOfDrive(u)' /\ InOrder(u)'
    OBVIOUS
  <2>1. (Way(u))' = Way(u)
    BY <1>1 DEF Way
  <2>2. sent' \in Nat /\ sent' >= sent
    BY <1>1, <1>3
  <2> QED
    BY <1>1, <2>1, <2>2, SameWay
<1> QED
  BY <1>5, <1>6 DEF Messages

LEMMA PersonStepMessages ==
  ASSUME Types, Types', Messages, NEW t \in Turn, PersonStep(t)
  PROVE  Messages'
<1>1. CASE Steer(t)
  BY <1>1, SteerMessages
<1>2. CASE StopMark(t) \/ StopSay(t) \/ KillTask(t) \/ Answer(t)
  <2>1. mailbox' = mailbox /\ steered' = steered /\ engine' = engine /\ accepted' = accepted /\ sent' = sent
    BY <1>2 DEF StopMark, StopSay, KillTask, Answer, engineVars, personVars
  <2> QED
    BY <2>1, MessagesUntouched
<1> QED
  BY <1>1, <1>2 DEF PersonStep

LEMMA KillAllMessages == ASSUME Types, Messages, KillAll PROVE Messages'
BY MessagesUntouched DEF KillAll, engineVars

-----------------------------------------------------------------------------
(* The theorems.                                                           *)

LEMMA StutterInv ==
  ASSUME Types, TurnInv, UNCHANGED vars
  PROVE  TurnInv'
<1>1. Control'
  BY DEF TurnInv, Control, DriveInLoop, Registered, EndingHeld, EndedOnce, WaitingTurn, vars, engineVars,
         loopVars, windowVars, personVars
<1>2. Messages'
  BY MessagesUntouched DEF TurnInv, vars, engineVars, personVars
<1> QED
  BY <1>1, <1>2 DEF TurnInv

LEMMA StepInv ==
  ASSUME Types, Types', EndingKept, TurnInv, [Next]_vars
  PROVE  TurnInv'
<1>1. CASE KillAll
  BY <1>1, KillAllControl, KillAllMessages DEF TurnInv
<1>2. ASSUME NEW t \in Turn, EngineStep(t) PROVE TurnInv'
  BY <1>2, EngineStepControl, EngineStepMessages DEF TurnInv
<1>3. ASSUME NEW t \in Turn, LoopStep(t) PROVE TurnInv'
  BY <1>3, LoopStepControl, LoopStepMessages DEF TurnInv
<1>4. ASSUME NEW t \in Turn, PersonStep(t) PROVE TurnInv'
  BY <1>4, PersonStepControl, PersonStepMessages DEF TurnInv
<1> QED
  BY <1>1, <1>2, <1>3, <1>4, StutterInv DEF Next

(* The inductive invariant: where the turn, its drive and its messages are *)
(* at every point between engine.start and the turn's end.                 *)
THEOREM Inductive == Spec => [](Types /\ EndingKept /\ TurnInv)
<1>1. Init => Types /\ EndingKept /\ TurnInv
  BY InitTypes, InitControl, InitMessages DEF TurnInv
<1>2. Types /\ EndingKept /\ [Next]_vars => Types' /\ EndingKept'
  BY EngineStepTypes, LoopStepTypes, PersonStepTypes, KillAllTypes, StutterTypes DEF Next
<1>3. Types /\ EndingKept /\ TurnInv /\ [Next]_vars => (Types /\ EndingKept /\ TurnInv)'
  BY <1>2, StepInv
<1> QED
  BY <1>1, <1>3, PTL DEF Spec

(* A turn whose engine may still write to the folder is in the register a  *)
(* rewind looks at, unless the kill switch emptied it.                     *)
THEOREM WritersAreRegistered == Spec => []WritingIsRegistered
<1>1. Types /\ TurnInv => WritingIsRegistered
  BY DEF Types, LoopTypes, Stages, TurnInv, Control, DriveInLoop, Registered, WritingIsRegistered
<1> QED
  BY <1>1, Inductive, PTL

(* Messages keep their order and none is dropped or doubled while the      *)
(* mailbox is open and the process's stdin takes what it is given.         *)
THEOREM MessagesInOrder == Spec => []SteeredInOrder
<1>1. TurnInv => SteeredInOrder
  BY DEF TurnInv, Messages, SteeredInOrder
<1> QED
  BY <1>1, Inductive, PTL

(* A turn nobody stopped is shown as ended only after drive has looked for *)
(* one more message.                                                       *)
THEOREM OneEnding == Spec => []EndsOnce
<1>1. TurnInv => EndsOnce
  BY DEF TurnInv, Control, EndedOnce, EndsOnce, Endings
<1> QED
  BY <1>1, Inductive, PTL

(* The amber mark never outlives the chat's turns.                         *)
THEOREM NoMarkOutlives == Spec => []QuietChat
<1>1. Types /\ TurnInv => QuietChat
  BY DEF Types, LoopTypes, Stages, WindowTypes, TurnInv, Control, WaitingTurn, QuietChat
<1> QED
  BY <1>1, Inductive, PTL

-----------------------------------------------------------------------------
(* A question and who can release the agent that asked it.                 *)

(* The question is on its way to the window.                               *)
OnItsWay(t) == hand[t] = "ask" \/ \E i \in DOMAIN stream[t] : stream[t][i] = "ask"

Releasable(t) == dialog = t \/ gate[t] = "answered" \/ t \in marks \/ OnItsWay(t)

(* An agent that waits has its question in the gate; a stop has marked its *)
(* turn until nothing is left of the turn's engine.                        *)
Waits(t) ==
  /\ engine[t] = "asking" => gate[t] # "shut"
  /\ t \in stopping => t \in marks \/ engine[t] = "gone"

(* What a step of drive does to the other turns, to the marks and the gate.*)
LEMMA DriveLeaves ==
  ASSUME Types, NEW t \in Turn, EngineStep(t)
  PROVE  /\ marks \subseteq marks' /\ hand' = hand /\ dialog' = dialog /\ stopping' = stopping
         /\ \A u \in Turn \ {t} : /\ engine'[u] = engine[u] /\ stream'[u] = stream[u]
                                  /\ gate'[u] = gate[u]
         /\ engine[t] = "gone" => engine'[t] = "gone"
         /\ engine'[t] = "asking" => \/ Ask(t)
                                     \/ /\ engine[t] = "asking" /\ gate' = gate /\ stream' = stream
<1>1. /\ UNCHANGED <<stage, register, loopVars, windowVars, personVars>>
      /\ \A u \in Turn \ {t} : engine'[u] = engine[u]
      /\ engine[t] = "gone" => engine'[t] = "gone"
  BY DriveMoves
<1>2. \A u \in Turn \ {t} : stream'[u] = stream[u]
  BY DEF EngineStep, DriveOpen, EngineUp, Emit, GoLive, AgentTake, StdinTake, Steered, Ask,
         AskAnswered, AskStopped, AskReturns, EngineEnds, EngineStops, EngineReturns, Watch,
         DriveOn, DriveEnd, DriveClose, Types, LoopTypes
<1>3. \A u \in Turn \ {t} : gate'[u] = gate[u]
  BY DEF EngineStep, DriveOpen, EngineUp, Emit, GoLive, AgentTake, StdinTake, Ask,
         AskAnswered, AskStopped, AskReturns, EngineEnds, EngineStops, EngineReturns, Watch,
         DriveOn, DriveEnd, DriveClose, Types, EngineTypes, engineVars
<1>4. marks \subseteq marks'
  BY DEF EngineStep, DriveOpen, EngineUp, Emit, GoLive, AgentTake, StdinTake, Ask,
         AskAnswered, AskStopped, AskReturns, EngineEnds, EngineStops, EngineReturns, Watch,
         CancelEngine, DriveOn, DriveEnd, DriveClose
<1>5. ASSUME engine'[t] = "asking"
      PROVE  Ask(t) \/ (engine[t] = "asking" /\ gate' = gate /\ stream' = stream)
  <2>1. CASE DriveOpen(t) \/ EngineUp(t) \/ AskAnswered(t) \/ AskStopped(t)
    BY <1>5, <2>1 DEF DriveOpen, EngineUp, AskAnswered, AskStopped, AskReturns, Types, EngineTypes
  <2>2. CASE EngineEnds(t) \/ EngineStops(t) \/ DriveOn(t) \/ DriveEnd(t) \/ DriveClose(t)
    BY <1>5, <2>2 DEF EngineEnds, EngineStops, EngineReturns, DriveOn, DriveEnd, DriveClose, Types, EngineTypes
  <2>3. CASE Emit(t) \/ GoLive(t) \/ AgentTake(t) \/ StdinTake(t)
    BY <1>5, <2>3 DEF Emit, GoLive, AgentTake, StdinTake, engineVars
  <2>4. CASE Watch(t)
    BY <1>5, <2>4 DEF Watch
  <2>5. CASE Ask(t)
    BY <2>5
  <2> QED
    BY <2>1, <2>2, <2>3, <2>4, <2>5 DEF EngineStep
<1> QED
  BY <1>1, <1>2, <1>3, <1>4, <1>5 DEF loopVars, windowVars, personVars

(* What a step of the loop does to the other turns.                        *)
LEMMA LoopLeaves ==
  ASSUME Types, NEW t \in Turn, LoopStep(t)
  PROVE  /\ UNCHANGED <<engine, gate, stopping>>
         /\ \A u \in Turn \ {t} : /\ hand'[u] = hand[u] /\ stream'[u] = stream[u]
                                  /\ u \in marks => u \in marks'
                                  /\ dialog = u => dialog' = u \/ HandleAsk(t)
         /\ ~Settle(t) => marks \subseteq marks'
<1>1. UNCHANGED <<engine, gate, stopping>>
  BY DEF LoopStep, EngineStart, RunTurn, Settle, Finish, Receive, FlushTimer, LoopEnd, Handle, HandleDelta,
         HandleTool, HandleUsage, HandleToolDone, HandleAsk, HandleSteer, HandleDone, HandleFailed,
         TakeHand, loopRest, engineVars, personVars
<1>2. \A u \in Turn \ {t} : hand'[u] = hand[u] /\ stream'[u] = stream[u]
  BY LoopMoves
<1>3. CASE EngineStart(t) \/ RunTurn(t) \/ Settle(t) \/ Finish(t)
  <2>1. \A u \in Turn \ {t} : (u \in marks => u \in marks') /\ (dialog = u => dialog' = u)
    BY <1>3 DEF EngineStart, RunTurn, Settle, Finish, ShowCompleted, windowVars
  <2>2. ~Settle(t) => marks \subseteq marks'
    BY <1>3 DEF EngineStart, RunTurn, Finish
  <2> QED
    BY <1>1, <1>2, <2>1, <2>2
<1>4. CASE Receive(t) \/ FlushTimer(t) \/ LoopEnd(t) \/ HandleDelta(t) \/ HandleFailed(t)
  BY <1>1, <1>2, <1>4 DEF Receive, FlushTimer, LoopEnd, HandleDelta, HandleFailed, windowVars
<1>5. CASE HandleTool(t) \/ HandleUsage(t)
  BY <1>1, <1>2, <1>5 DEF HandleTool, HandleUsage, Halt, KeepGoing
<1>6. CASE HandleToolDone(t) \/ HandleAsk(t) \/ HandleSteer(t) \/ HandleDone(t)
  BY <1>1, <1>2, <1>6 DEF HandleToolDone, HandleAsk, HandleSteer, HandleDone, KeepGoing
<1> QED
  BY <1>3, <1>4, <1>5, <1>6 DEF LoopStep, Handle

(* Every step keeps what a waiting agent rests on.                         *)
LEMMA StepWaits ==
  ASSUME Types, Types', Control, \A t \in Turn : Waits(t), [Next]_vars
  PROVE  (\A t \in Turn : Waits(t))'
<1>1. CASE KillAll
  <2>1. UNCHANGED <<engine, gate>> /\ marks' = marks \cup register /\ stopping' = stopping \cup register
    BY <1>1 DEF KillAll, engineVars
  <2> QED
    BY <2>1 DEF Waits
<1>2. ASSUME NEW t \in Turn, EngineStep(t) PROVE \A u \in Turn : Waits(u)'
  <2>1. Ask(t) => gate'[t] = "open"
    BY DEF Ask, Types, EngineTypes
  <2> QED
    BY <1>2, <2>1, DriveLeaves DEF Waits
<1>3. ASSUME NEW t \in Turn, LoopStep(t) PROVE \A u \in Turn : Waits(u)'
  <2>1. Settle(t) => engine[t] = "gone"
    BY DEF Settle, Control, DriveInLoop
  <2> QED
    BY <1>3, <2>1, LoopLeaves DEF Waits
<1>4. ASSUME NEW t \in Turn, PersonStep(t) PROVE \A u \in Turn : Waits(u)'
  <2>1. CASE Steer(t) \/ KillTask(t)
    BY <2>1 DEF Steer, KillTask, CancelEngine, engineVars, personVars, Waits
  <2>2. CASE StopMark(t) \/ StopSay(t)
    BY <2>2 DEF StopMark, StopSay, engineVars, Waits
  <2>3. CASE Answer(t)
    BY <2>3 DEF Answer, personVars, Waits, Types, EngineTypes
  <2> QED
    BY <1>4, <2>1, <2>2, <2>3 DEF PersonStep
<1>5. CASE UNCHANGED vars
  BY <1>5 DEF vars, engineVars, personVars, Waits
<1> QED
  BY <1>1, <1>2, <1>3, <1>4, <1>5 DEF Next

(* A question that comes out of the channel is in the loop's hand.         *)
LEMMA TakenOut ==
  ASSUME NEW events \in Seq(Items), events # <<>>, NEW i \in DOMAIN events, events[i] = "ask"
  PROVE  Head(events) = "ask" \/ \E j \in DOMAIN Tail(events) : Tail(events)[j] = "ask"
<1>1. Len(events) \in Nat \ {0} /\ DOMAIN events = 1..Len(events)
  BY LenProperties, EmptySeq
<1>2. DOMAIN Tail(events) = 1..(Len(events) - 1)
  BY LenProperties, HeadTailProperties
<1>3. \A j \in 1..(Len(events) - 1) : Tail(events)[j] = events[j + 1]
  BY HeadTailProperties
<1>4. Head(events) = events[1]
  BY <1>1, HeadTailOfSubSeq, SubSeqFull
<1>5. CASE i = 1
  BY <1>4, <1>5
<1>6. CASE i # 1
  <2> DEFINE j == i - 1
  <2>1. j \in 1..(Len(events) - 1) /\ j + 1 = i
    BY <1>1, <1>6
  <2> HIDE DEF j
  <2> QED
    BY <1>2, <1>3, <2>1
<1> QED
  BY <1>5, <1>6

(* The question of a turn, through a step of its own loop.                 *)
LEMMA LoopReleases ==
  ASSUME Types, Control, NEW t \in Turn, LoopStep(t), engine[t] = "asking", Releasable(t)
  PROVE  Releasable(t)'
<1>1. stage[t] = "running" /\ gate' = gate
  BY LoopLeaves DEF Control, DriveInLoop, Types, LoopTypes, Stages
<1>2. CASE Receive(t)
  <2>1. stream[t] \in Seq(Items) /\ stream[t] # <<>> /\ hand[t] = Nothing
    BY <1>2 DEF Receive, Types, LoopTypes
  <2>2. /\ UNCHANGED <<dialog, marks>> /\ stream'[t] = Tail(stream[t])
        /\ t \notin marks => hand'[t] = Head(stream[t])
    BY <1>2 DEF Receive, windowVars, Types, LoopTypes
  <2>3. hand[t] # "ask"
    BY <2>1 DEF Nothing
  <2>4. OnItsWay(t) => Head(stream[t]) = "ask" \/ \E j \in DOMAIN Tail(stream[t]) : Tail(stream[t])[j] = "ask"
    BY <2>1, <2>3, TakenOut DEF OnItsWay
  <2> QED
    BY <1>1, <2>2, <2>4 DEF Releasable, OnItsWay
<1>3. CASE FlushTimer(t)
  BY <1>1, <1>3 DEF FlushTimer, Releasable, OnItsWay
<1>4. CASE HandleAsk(t)
  BY <1>4 DEF HandleAsk, Releasable
<1>5. ASSUME hand[t] # "ask", UNCHANGED <<stream, dialog, marks>> PROVE Releasable(t)'
  BY <1>1, <1>5 DEF Releasable, OnItsWay
<1>6. CASE HandleDelta(t) \/ HandleToolDone(t) \/ HandleSteer(t) \/ HandleDone(t) \/ HandleFailed(t)
  BY <1>5, <1>6 DEF HandleDelta, HandleToolDone, HandleSteer, HandleDone, HandleFailed, TakeHand, KeepGoing
<1>7. CASE HandleTool(t) \/ HandleUsage(t)
  <2>1. CASE Halt(t)
    BY <2>1 DEF Halt, Releasable
  <2>2. CASE ~Halt(t)
    BY <1>5, <1>7, <2>2 DEF HandleTool, HandleUsage, TakeHand, KeepGoing
  <2> QED
    BY <2>1, <2>2
<1>8. ~EngineStart(t) /\ ~RunTurn(t) /\ ~LoopEnd(t) /\ ~Settle(t) /\ ~Finish(t)
  BY <1>1 DEF EngineStart, RunTurn, LoopEnd, Settle, Finish
<1> QED
  BY <1>2, <1>3, <1>4, <1>6, <1>7, <1>8 DEF LoopStep, Handle

(* Only another turn's question can take an agent's release away.          *)
LEMMA StepReleases ==
  ASSUME Types, Control, \A u \in Turn : Waits(u), [Next]_vars,
         NEW t \in Turn, engine[t] = "asking" => Releasable(t), engine'[t] = "asking"
  PROVE  Releasable(t)' \/ \E u \in Turn \ {t} : HandleAsk(u)
<1>1. ASSUME engine[t] = "asking", marks \subseteq marks', UNCHANGED <<dialog, gate[t], hand[t], stream[t]>>
      PROVE  Releasable(t)'
  BY <1>1 DEF Releasable, OnItsWay
<1>2. CASE KillAll \/ UNCHANGED vars
  BY <1>1, <1>2 DEF KillAll, vars, engineVars, loopVars, windowVars, personVars
<1>3. CASE EngineStep(t)
  <2>1. CASE Ask(t)
    <3>1. stream[t] \in Seq(Items) /\ stream'[t] = Append(stream[t], "ask")
      BY <2>1 DEF Ask, Types, LoopTypes
    <3> DEFINE s == stream[t]
    <3>2. /\ Len(s) \in Nat /\ Append(s, "ask")[Len(s) + 1] = "ask"
          /\ DOMAIN Append(s, "ask") = 1..(Len(s) + 1)
      BY <3>1, LenProperties, AppendProperties DEF Items
    <3> HIDE DEF s
    <3>3. Len(s) + 1 \in DOMAIN Append(s, "ask")
      BY <3>2
    <3> QED
      BY <3>1, <3>2, <3>3 DEF s, Releasable, OnItsWay
  <2>2. CASE ~Ask(t)
    BY <1>1, <1>3, <2>2, DriveLeaves
  <2> QED
    BY <2>1, <2>2
<1>4. ASSUME NEW u \in Turn \ {t}, EngineStep(u) PROVE Releasable(t)'
  BY <1>1, <1>4, DriveLeaves
<1>5. CASE LoopStep(t)
  BY <1>5, LoopLeaves, LoopReleases
<1>6. ASSUME NEW u \in Turn \ {t}, LoopStep(u), ~HandleAsk(u) PROVE Releasable(t)'
  <2>1. /\ engine' = engine /\ gate' = gate /\ hand'[t] = hand[t] /\ stream'[t] = stream[t]
        /\ t \in marks => t \in marks'
        /\ dialog = t => dialog' = t
    BY <1>6, LoopLeaves
  <2> QED
    BY <2>1 DEF Releasable, OnItsWay
<1>7. ASSUME NEW u \in Turn, PersonStep(u) PROVE Releasable(t)'
  <2>1. UNCHANGED <<engine, hand, stream>> /\ Releasable(t)
    BY <1>7 DEF PersonStep, Steer, StopMark, StopSay, KillTask, Answer, engineVars, loopVars
  <2>2. CASE Steer(u) \/ StopMark(u) \/ KillTask(u)
    BY <1>1, <2>1, <2>2 DEF Steer, StopMark, KillTask, CancelEngine, engineVars, windowVars, personVars
  <2>3. CASE StopSay(u)
    <3>1. marks' = marks /\ gate' = gate /\ (dialog = t /\ u # t => dialog' = t)
      BY <2>3 DEF StopSay, ShowCompleted, engineVars
    <3>2. u = t => t \in marks
      BY <2>1, <2>3 DEF StopSay, Waits
    <3> QED
      BY <2>1, <3>1, <3>2 DEF Releasable, OnItsWay
  <2>4. CASE Answer(u)
    <3>1. marks' = marks /\ dialog = u /\ gate'[t] = IF u = t /\ gate[t] = "open" THEN "answered" ELSE gate[t]
      BY <2>4 DEF Answer, personVars, Types, EngineTypes
    <3>2. gate[t] \in {"open", "answered"}
      BY <2>1 DEF Waits, Types, EngineTypes
    <3> QED
      BY <2>1, <3>1, <3>2 DEF Releasable, OnItsWay
  <2> QED
    BY <1>7, <2>2, <2>3, <2>4 DEF PersonStep
<1> QED
  BY <1>2, <1>3, <1>4, <1>5, <1>6, <1>7 DEF Next

(* What a waiting agent rests on, with the rest of the invariant.          *)
LEMMA WaitsHold == Spec => [](Types /\ Control /\ \A t \in Turn : Waits(t))
<1>1. Init => \A t \in Turn : Waits(t)
  BY DEF Init, Waits
<1>2. (Types /\ EndingKept /\ TurnInv) /\ (Types /\ EndingKept /\ TurnInv)' /\ (\A t \in Turn : Waits(t))
        /\ [Next]_vars => (\A t \in Turn : Waits(t))'
  BY StepWaits DEF TurnInv
<1>3. Types /\ EndingKept /\ TurnInv => Types /\ Control
  BY DEF TurnInv
<1> QED
  BY <1>1, <1>2, <1>3, Inductive, PTL DEF Spec

(* gate.rs, kernel.rs and reducer.ts, for any number of turns: an agent    *)
(* that waits on the person can be released after every step after which   *)
(* it waits, unless another turn's question has just taken the window's    *)
(* one dialog.                                                             *)
THEOREM OnlyAQuestionTakes ==
  Spec => [][\A t \in Turn :
               (engine[t] = "asking" => Releasable(t)) /\ engine'[t] = "asking"
                 => Releasable(t)' \/ \E u \in Turn \ {t} : HandleAsk(u)]_vars
<1>1. (Types /\ Control /\ \A t \in Turn : Waits(t)) /\ [Next]_vars
        => [\A t \in Turn :
               (engine[t] = "asking" => Releasable(t)) /\ engine'[t] = "asking"
                 => Releasable(t)' \/ \E u \in Turn \ {t} : HandleAsk(u)]_vars
  BY StepReleases
<1> QED
  BY <1>1, WaitsHold, PTL DEF Spec

(* gate.rs and reducer.ts: an agent waiting on the person can always be    *)
(* released, when there is no other turn whose question could replace its  *)
(* own.                                                                    *)
THEOREM WaitEnds == (\A t, u \in Turn : t = u) => (Spec => []WaitIsReleasable)
<1> SUFFICES ASSUME \A t, u \in Turn : t = u PROVE Spec => []WaitIsReleasable
  OBVIOUS
<1>1. Init => WaitIsReleasable
  BY DEF Init, WaitIsReleasable
<1>2. (Types /\ Control /\ \A t \in Turn : Waits(t)) /\ WaitIsReleasable /\ [Next]_vars => WaitIsReleasable'
  <2> SUFFICES ASSUME Types, Control, \A t \in Turn : Waits(t), WaitIsReleasable, [Next]_vars,
                      NEW t \in Turn, engine'[t] = "asking"
               PROVE  \/ dialog' = t \/ gate'[t] = "answered" \/ t \in marks' \/ hand'[t] = "ask"
                      \/ \E i \in DOMAIN stream'[t] : stream'[t][i] = "ask"
    BY DEF WaitIsReleasable
  <2>1. engine[t] = "asking" => Releasable(t)
    BY DEF WaitIsReleasable, Releasable, OnItsWay
  <2>2. Releasable(t)' \/ \E u \in Turn \ {t} : HandleAsk(u)
    BY <2>1, StepReleases
  <2> QED
    BY <2>2 DEF Releasable, OnItsWay
<1> QED
  BY <1>1, <1>2, WaitsHold, PTL DEF Spec

=============================================================================
