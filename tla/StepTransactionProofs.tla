----------------------- MODULE StepTransactionProofs -----------------------
(***************************************************************************)
(* Theorems about StepTransaction, for every set of files, texts and       *)
(* turns, in an environment that crashes the process at any point.  Each   *)
(* names the races it stands: the types all of them, NothingLeftBehind all *)
(* but turns that overlap, what a commit spares all but overlap and edits  *)
(* during a commit, the others none (Races = {}).  StepOverlap.cfg,        *)
(* StepEdit.cfg, StepWait.cfg and StepIo.cfg show what each race costs.    *)
(***************************************************************************)
EXTENDS StepTransaction, TLAPS

(* A commit leaves every file with a text or without one.                  *)
LEMMA OverlayType ==
  ASSUME NEW old \in [File -> Value], NEW new \in [File -> Value \cup {Untouched}]
  PROVE  Overlay(old, new) \in [File -> Value]
BY DEF Overlay

(* A commit visits only files its step has named.                          *)
TodoInv == \A t \in Turn : pc[t] \in {"save", "apply"} => todo[t] \subseteq Touched(t)

LEMMA StepKeepsTodo == ASSUME TypeOK, TypeOK', TodoInv, [Next]_vars PROVE TodoInv'
<1> SUFFICES ASSUME NEW t \in Turn, pc'[t] \in {"save", "apply"}, NEW f \in todo'[t]
             PROVE  f \in File /\ edits'[t][f] # Untouched
  BY DEF TodoInv, Touched
<1>0. f \in File
  BY DEF TypeOK
<1> USE DEF disk, memory, history
<1>1. CASE pc'[t] = pc[t] /\ todo'[t] \subseteq todo[t] /\ edits'[t] = edits[t]
  BY <1>0, <1>1 DEF TodoInv, Touched
<1>2. CASE todo'[t] = Touched(t) /\ edits'[t] = edits[t]
  BY <1>0, <1>2 DEF Touched
<1>3. ASSUME NEW u \in Turn, CheckBase(u) \/ WriteJournal(u) PROVE f \in File /\ edits'[t][f] # Untouched
  <2>1. edits' = edits
    BY <1>3 DEF CheckBase, WriteJournal
  <2>2. CASE u = t
    BY <1>2, <1>3, <2>1, <2>2 DEF CheckBase, WriteJournal, TypeOK
  <2>3. CASE u # t
    <3>1. pc'[t] = pc[t] /\ todo'[t] = todo[t]
      BY <1>3, <2>3 DEF CheckBase, WriteJournal, TypeOK
    <3> QED BY <1>1, <2>1, <3>1
  <2> QED BY <2>2, <2>3
<1>4. ASSUME NEW u \in Turn, NEW g \in File, SaveOne(u, g) PROVE f \in File /\ edits'[t][f] # Untouched
  BY <1>1, <1>4 DEF SaveOne, TypeOK
<1>5. ASSUME NEW u \in Turn, NEW g \in File, ApplyOne(u, g) PROVE f \in File /\ edits'[t][f] # Untouched
  BY <1>1, <1>5 DEF ApplyOne, TypeOK
<1>6. ASSUME NEW u \in Turn, NEW g \in File, Undo(u, g) PROVE f \in File /\ edits'[t][f] # Untouched
  BY <1>1, <1>6 DEF Undo, TypeOK
<1>7. ASSUME NEW u \in Turn, NEW x \in Tx, RecoverNext(u, x) PROVE f \in File /\ edits'[t][f] # Untouched
  <2>1. u # t
    BY <1>7 DEF RecoverNext, TypeOK
  <2>2. pc'[t] = pc[t] /\ todo'[t] = todo[t] /\ edits' = edits
    BY <1>7, <2>1 DEF RecoverNext, TypeOK
  <2> QED BY <1>1, <2>2
<1>8. ASSUME NEW u \in Turn, NEW g \in File, NEW v \in Value, Stage(u, g, v) PROVE f \in File /\ edits'[t][f] # Untouched
  <2>1. u # t
    BY <1>8 DEF Stage
  <2>2. pc' = pc /\ todo' = todo /\ edits'[t] = edits[t]
    BY <1>8, <2>1 DEF Stage, TypeOK
  <2> QED BY <1>1, <2>2
<1>9. ASSUME NEW u \in Turn, StageRefused(u) \/ GiveUp(u) \/ MarkCommitted(u) \/ Fail(u)
      PROVE f \in File /\ edits'[t][f] # Untouched
  <2>1. u # t
    BY <1>9 DEF StageRefused, GiveUp, MarkCommitted, Fail, TypeOK
  <2>2. Forget(u) /\ pc'[t] = pc[t] /\ todo'[t] \subseteq todo[t]
    BY <1>9, <2>1 DEF StageRefused, GiveUp, MarkCommitted, Fail, TypeOK
  <2>3. edits'[t] = edits[t]
    BY <2>1, <2>2 DEF Forget, TypeOK
  <2> QED BY <1>1, <2>2, <2>3
<1>10. ASSUME NEW u \in Turn,
              \/ Start(u) \/ UndoDone(u) \/ Recovered(u) \/ SweepOne(u) \/ SweepDone(u)
              \/ SweepFails(u) \/ Begin(u) \/ EndTurn(u)
       PROVE f \in File /\ edits'[t][f] # Untouched
  <2>1. pc'[t] = pc[t] /\ todo' = todo /\ edits' = edits
    BY <1>10 DEF Start, UndoDone, Recovered, SweepOne, SweepDone, SweepFails, Begin, EndTurn, TypeOK
  <2> QED BY <1>1, <2>1
<1>11. CASE Crash
  BY <1>11 DEF Crash
<1>12. ASSUME NEW g \in File, NEW v \in Value, PersonEdit(g, v) PROVE f \in File /\ edits'[t][f] # Untouched
  BY <1>1, <1>12 DEF PersonEdit
<1>13. CASE UNCHANGED vars
  BY <1>1, <1>13 DEF vars
<1> QED BY <1>3, <1>4, <1>5, <1>6, <1>7, <1>8, <1>9, <1>10, <1>11, <1>12, <1>13 DEF Next

(* Every variable keeps its type, whatever races the environment plays.    *)
THEOREM TypeCorrect == Spec => []TypeOK
<1>0. 0 \in 0..MaxSteps
  BY StepsAssumption
<1>1. Init => TypeOK
  <2> SUFFICES ASSUME Init PROVE TypeOK
    OBVIOUS
  <2> USE DEF Init
  <2>1. base \in [Turn -> [File -> Value \cup {Untouched}]] /\ edits \in [Turn -> [File -> Value \cup {Untouched}]]
    BY DEF Nothing
  <2>2. pre \in [Tx -> [File -> Value]]
    BY DEF Value
  <2>3. journal \in [Tx -> JournalStates] /\ entry \in [Tx -> [File -> EntryKinds]]
    BY DEF JournalStates, EntryKinds
  <2>4. pc \in [Turn -> PcStates] /\ \A t \in Turn : pc[t] \notin Busy
    BY DEF PcStates, Busy
  <2>5. calls \in [Turn -> 0..MaxSteps]
    BY <1>0
  <2> QED
    BY <2>1, <2>2, <2>3, <2>4, <2>5 DEF TypeOK
<1>2. TypeOK /\ TodoInv /\ [Next]_vars => TypeOK'
  <2> SUFFICES ASSUME TypeOK, TodoInv, [Next]_vars PROVE TypeOK'
    OBVIOUS
  <2> USE DEF TypeOK, disk, memory, history, PcStates, Active, JournalStates, EntryKinds, Busy
  <2>1. ASSUME NEW t \in Turn, Start(t) PROVE TypeOK'
    BY <2>1 DEF Start
  <2>2. ASSUME NEW t \in Turn, UndoDone(t) \/ Recovered(t) \/ EndTurn(t) PROVE TypeOK'
    BY <2>2 DEF UndoDone, Recovered, EndTurn
  <2>3. ASSUME NEW t \in Turn, SweepOne(t) PROVE TypeOK'
    <3>1. target[t] \in Tx
      BY <2>3 DEF SweepOne
    <3>2. CASE UNCHANGED pre
      <4>1. journal' = [journal EXCEPT ![target[t]] = "no journal"] \/ journal' = journal
        BY <2>3 DEF SweepOne
      <4>2. journal' \in [Tx -> JournalStates]
        BY <4>1
      <4> QED BY <2>3, <3>2, <4>2 DEF SweepOne
    <3>3. CASE UNCHANGED journal
      <4>1. PICK f \in File : pre' = [pre EXCEPT ![target[t]][f] = Absent]
        BY <2>3, <3>3 DEF SweepOne
      <4>2. pre' \in [Tx -> [File -> Value]]
        BY <3>1, <4>1 DEF Value
      <4> QED BY <2>3, <3>3, <4>2 DEF SweepOne
    <3> QED BY <2>3, <3>2, <3>3 DEF SweepOne
  <2>4. ASSUME NEW t \in Turn, SweepDone(t) PROVE TypeOK'
    BY <2>4 DEF SweepDone
  <2>17. ASSUME NEW t \in Turn, SweepFails(t) PROVE TypeOK'
    <3>1. target[t] \in Tx
      BY <2>17 DEF SweepFails
    <3>2. kept' \in [Turn -> SUBSET Tx]
      BY <2>17, <3>1 DEF SweepFails
    <3> QED BY <2>17, <3>2 DEF SweepFails
  <2>5. ASSUME NEW t \in Turn, Begin(t) PROVE TypeOK'
    <3>1. <<t, calls[t] + 1>> \in Tx /\ calls[t] + 1 \in 0..MaxSteps
      <4> HIDE DEF TypeOK
      <4>1. calls[t] \in 0..MaxSteps /\ calls[t] < MaxSteps
        BY <2>5 DEF Begin, TypeOK
      <4>2. calls[t] + 1 \in 1..MaxSteps
        BY <4>1, StepsAssumption
      <4> QED BY <4>2 DEF Tx
    <3> QED BY <2>5, <3>1 DEF Begin
  <2>6. ASSUME NEW t \in Turn, StageRefused(t) \/ GiveUp(t) \/ Fail(t) PROVE TypeOK'
    <3>1. base' \in [Turn -> [File -> Value \cup {Untouched}]] /\ edits' \in [Turn -> [File -> Value \cup {Untouched}]]
      <4>1. Forget(t)
        BY <2>6 DEF StageRefused, GiveUp, Fail
      <4> QED BY <4>1 DEF Forget, Nothing
    <3>2. CASE StageRefused(t)
      BY <3>1, <3>2 DEF StageRefused
    <3>3. CASE GiveUp(t)
      BY <3>1, <3>3 DEF GiveUp
    <3>4. CASE Fail(t)
      BY <3>1, <3>4 DEF Fail
    <3> QED BY <2>6, <3>2, <3>3, <3>4
  <2>7. ASSUME NEW t \in Turn, CheckBase(t) \/ WriteJournal(t) PROVE TypeOK'
    <3>1. CASE CheckBase(t)
      BY <3>1 DEF CheckBase, Touched
    <3>2. CASE WriteJournal(t)
      BY <3>2 DEF WriteJournal, Touched
    <3> QED BY <2>7, <3>1, <3>2
  <2>8. ASSUME NEW t \in Turn, MarkCommitted(t) PROVE TypeOK'
    BY <2>8, OverlayType DEF MarkCommitted, Forget, Nothing
  <2>9. ASSUME NEW t \in Turn, NEW x \in Tx, RecoverNext(t, x) PROVE TypeOK'
    <3>1. CASE journal[x] = "committing"
      <4>1. todo' = [todo EXCEPT ![t] = Listed(x)] /\ Listed(x) \in SUBSET File
        BY <2>9, <3>1 DEF RecoverNext, Listed
      <4> QED BY <2>9, <3>1, <4>1 DEF RecoverNext
    <3>2. CASE journal[x] # "committing"
      BY <2>9, <3>2 DEF RecoverNext
    <3> QED BY <3>1, <3>2
  <2>10. ASSUME NEW t \in Turn, NEW f \in File, Undo(t, f) PROVE TypeOK'
    <3>1. entry[target[t]][f] \in EntryKinds /\ pre[target[t]][f] \in Value
      BY <2>10 DEF Undo
    <3>2. tree' \in [File -> Value]
      BY <2>10, <3>1 DEF Undo, Value
    <3> QED BY <2>10, <3>2 DEF Undo
  <2>11. ASSUME NEW t \in Turn, NEW f \in File, SaveOne(t, f) PROVE TypeOK'
    BY <2>11 DEF SaveOne
  <2>12. ASSUME NEW t \in Turn, NEW f \in File, ApplyOne(t, f) PROVE TypeOK'
    <3>1. tree' \in [File -> Value]
      <4>1. edits[t][f] # Untouched
        BY <2>12 DEF ApplyOne, First, TodoInv, Touched
      <4>2. edits[t][f] \in Value
        <5>1. edits \in [Turn -> [File -> Value \cup {Untouched}]]
          OBVIOUS
        <5> HIDE DEF TypeOK
        <5> QED BY <4>1, <5>1
      <4>3. tree' = [tree EXCEPT ![f] = edits[t][f]] \/ tree' = tree
        BY <2>12 DEF ApplyOne
      <4>4. tree \in [File -> Value]
        OBVIOUS
      <4> HIDE DEF TypeOK
      <4> QED BY <4>2, <4>3, <4>4
    <3> QED BY <2>12, <3>1 DEF ApplyOne
  <2>13. ASSUME NEW t \in Turn, NEW f \in File, NEW v \in Value, Stage(t, f, v) PROVE TypeOK'
    <3>1. base[t][f] \in Value \cup {Untouched} /\ tree[f] \in Value
      OBVIOUS
    <3>2. base' \in [Turn -> [File -> Value \cup {Untouched}]]
      BY <2>13, <3>1 DEF Stage
    <3>3. edits' \in [Turn -> [File -> Value \cup {Untouched}]]
      BY <2>13 DEF Stage
    <3>4. work' \in SUBSET File
      BY <2>13 DEF Stage
    <3> QED BY <2>13, <3>2, <3>3, <3>4 DEF Stage
  <2>14. CASE Crash
    BY <2>14 DEF Crash, Nothing
  <2>15. ASSUME NEW f \in File, NEW v \in Value, PersonEdit(f, v) PROVE TypeOK'
    BY <2>15 DEF PersonEdit
  <2>16. CASE UNCHANGED vars
    BY <2>16 DEF vars
  <2> QED BY <2>1, <2>2, <2>3, <2>4, <2>5, <2>6, <2>7, <2>8, <2>9, <2>10, <2>11, <2>12, <2>13, <2>14, <2>15, <2>16, <2>17 DEF Next
<1>3. Init => TodoInv
  BY DEF Init, TodoInv
<1>4. TypeOK /\ TypeOK' /\ TodoInv /\ [Next]_vars => TodoInv'
  BY StepKeepsTodo
<1> QED BY <1>1, <1>2, <1>3, <1>4, PTL DEF Spec

-----------------------------------------------------------------------------
(* Every action keeps the inductive invariant when the environment only    *)
(* crashes: one lemma per action, one step per conjunct.  In each, <1>a is *)
(* the types of what the action changes, <1>b that the turn has a          *)
(* directory, <1>c that the other turns are new or over, <1>h that no      *)
(* commit becomes or stops being half-done.                                *)

(* A turn that begins recovers alone: every other turn is new or over, and *)
(* whatever half-done commit exists is in the list recover has just read.  *)
LEMMA StartKeepsIInv ==
  ASSUME Races = {}, TypeOK, TypeOK', IInv, NEW t \in Turn, Start(t)
  PROVE  IInv'
<1> USE DEF IInv, disk, memory, history
<1>a. /\ pc \in [Turn -> PcStates]
      /\ scan \in [Turn -> SUBSET Tx]
  BY DEF TypeOK
<1>c. \A u \in Turn : pc[u] \in {"new", "over"}
  BY DEF Start, TypeOK, PcStates
<1>h. HalfDone' = HalfDone
  BY DEF HalfDone, Start
<1>1. OneTurnAtATime'
  BY <1>a, <1>c DEF Start, OneTurnAtATime, Active
<1>2. TargetInv'
  <2>1. calls[t] = 0
    BY DEF Start, TargetInv
  <2>2. \A x \in Tx : Present(x) => x[1] # t
    <3> SUFFICES ASSUME NEW x \in Tx, Present(x), x[1] = t PROVE FALSE
      OBVIOUS
    <3>1. PICK n \in 1..MaxSteps : x = <<t, n>>
      BY DEF Tx
    <3>2. NotBegun(x)
      BY <2>1, <3>1, StepsAssumption DEF NotBegun
    <3> QED BY <3>2 DEF CallInv, Present
  <2> QED BY <1>a, <1>c, <2>2 DEF Start, TargetInv
<1>3. CallInv'
  BY DEF Start, CallInv, NotBegun
<1>4. DirInv'
  BY DEF Start, DirInv
<1>5. HalfDoneInv'
  <2>1. HalfDone \subseteq {x \in Tx : Present(x)}
    BY DEF HalfDone, Present
  <2> QED BY <1>a, <1>c, <1>h, <2>1 DEF Start, HalfDoneInv
<1>6. GoodInv'
  BY DEF Start, GoodInv, Undoable
<1>7. MemoryInv'
  BY <1>a, <1>c DEF Start, MemoryInv
<1>8. StageInv'
  <2>1. \A u \in Turn : pc'[u] # "stage"
    BY <1>a, <1>c DEF Start
  <2> QED BY <2>1 DEF StageInv
<1>9. SaveInv'
  <2>1. \A u \in Turn : pc'[u] # "save"
    BY <1>a, <1>c DEF Start
  <2> QED BY <2>1 DEF SaveInv
<1>10. ApplyInv'
  <2>1. \A u \in Turn : pc'[u] # "apply"
    BY <1>a, <1>c DEF Start
  <2> QED BY <2>1 DEF ApplyInv
<1>11. UndoInv'
  BY <1>a, <1>c, <1>h DEF Start, UndoInv, Listed
<1>12. WorkInv'
  BY <1>h DEF Start, WorkInv, Listed
<1> QED BY <1>1, <1>2, <1>3, <1>4, <1>5, <1>6, <1>7, <1>8, <1>9, <1>10, <1>11, <1>12 DEF IInv

(* recover takes the next directory: a half-done one is undone, any other  *)
(* is only removed.                                                        *)
LEMMA RecoverNextKeepsIInv ==
  ASSUME Races = {}, TypeOK, TypeOK', IInv, NEW t \in Turn, NEW x \in Tx, RecoverNext(t, x)
  PROVE  IInv'
<1> USE DEF IInv, disk, memory, history
<1>a. /\ scan \in [Turn -> SUBSET Tx]
      /\ target \in [Turn -> Tx \cup {NoTx}]
      /\ pc \in [Turn -> PcStates]
      /\ todo \in [Turn -> SUBSET File]
  BY DEF TypeOK
<1>c. \A u \in Turn : u # t => pc[u] \in {"new", "over"}
  BY DEF RecoverNext, OneTurnAtATime, Active, TypeOK, PcStates
<1>h. HalfDone' = HalfDone
  BY DEF HalfDone, RecoverNext
<1>1. OneTurnAtATime'
  BY <1>a, <1>c DEF RecoverNext, OneTurnAtATime, Active
<1>2. TargetInv'
  BY <1>a, <1>c DEF RecoverNext, TargetInv
<1>3. CallInv'
  BY DEF RecoverNext, CallInv, NotBegun
<1>4. DirInv'
  BY DEF RecoverNext, DirInv
<1>5. HalfDoneInv'
  BY <1>a, <1>c, <1>h DEF RecoverNext, HalfDoneInv, TargetInv, HalfDone
<1>6. GoodInv'
  BY DEF RecoverNext, GoodInv, Undoable
<1>7. MemoryInv'
  BY <1>a, <1>c DEF RecoverNext, MemoryInv
<1>8. StageInv'
  <2>1. \A u \in Turn : pc'[u] # "stage"
    BY <1>a, <1>c DEF RecoverNext
  <2> QED BY <2>1 DEF StageInv
<1>9. SaveInv'
  <2>1. \A u \in Turn : pc'[u] # "save"
    BY <1>a, <1>c DEF RecoverNext
  <2> QED BY <2>1 DEF SaveInv
<1>10. ApplyInv'
  <2>1. \A u \in Turn : pc'[u] # "apply"
    BY <1>a, <1>c DEF RecoverNext
  <2> QED BY <2>1 DEF ApplyInv
<1>11. UndoInv'
  BY <1>a, <1>c, <1>h DEF RecoverNext, UndoInv, Listed, HalfDone
<1>12. WorkInv'
  BY <1>h DEF RecoverNext, WorkInv, Listed
<1> QED BY <1>1, <1>2, <1>3, <1>4, <1>5, <1>6, <1>7, <1>8, <1>9, <1>10, <1>11, <1>12 DEF IInv

(* One entry of the journal is put back: the file gets the good text, from *)
(* its pre-image or by removing what the step created.                     *)
LEMMA UndoKeepsIInv ==
  ASSUME Races = {}, TypeOK, TypeOK', IInv, NEW t \in Turn, NEW f \in File, Undo(t, f)
  PROVE  IInv'
<1> USE DEF IInv, disk, memory, history
<1>a. /\ tree \in [File -> Value]
      /\ todo \in [Turn -> SUBSET File]
      /\ work \in SUBSET File
  BY DEF TypeOK
<1>b. target[t] \in Tx
  BY DEF TypeOK, Busy, Undo
<1>c. \A u \in Turn : u # t => pc[u] \in {"new", "over"}
  BY DEF Undo, OneTurnAtATime, Active, TypeOK, PcStates
<1>h. HalfDone' = HalfDone
  BY DEF HalfDone, Undo
<1>d. target[t] \in HalfDone /\ HalfDone = {target[t]} /\ f \in Listed(target[t]) /\ f \notin work
  BY DEF Undo, HalfDoneInv, UndoInv, WorkInv, First
<1>e. \A g \in File : g # f => tree'[g] = tree[g]
  BY <1>a DEF Undo
<1>f. tree'[f] = good[f]
  <2>1. CASE entry[target[t]][f] = "created"
    <3>1. tree'[f] = Absent
      BY <1>a, <2>1 DEF Undo
    <3>2. Undoable(target[t], f) /\ pre[target[t]][f] = Absent
      BY <1>b, <1>d, <2>1 DEF Undoable, HalfDone, DirInv
    <3> QED BY <1>b, <3>1, <3>2 DEF GoodInv
  <2>2. CASE entry[target[t]][f] # "created" /\ pre[target[t]][f] # Absent
    <3>1. tree'[f] = pre[target[t]][f]
      BY <1>a, <2>2 DEF Undo
    <3>2. Undoable(target[t], f)
      BY <1>b, <1>d, <2>2 DEF Undoable, HalfDone, DirInv
    <3> QED BY <1>b, <3>1, <3>2 DEF GoodInv
  <2>3. CASE entry[target[t]][f] # "created" /\ pre[target[t]][f] = Absent
    <3>1. tree'[f] = tree[f]
      BY <1>a, <2>3 DEF Undo
    <3>2. \A x \in Tx : ~Undoable(x, f)
      BY <1>d, <2>3 DEF Undoable, HalfDone
    <3> QED BY <3>1, <3>2 DEF GoodInv
  <2> QED BY <2>1, <2>2, <2>3
<1>g. good' = good /\ work' = work
  BY <1>d DEF Undo
<1>1. OneTurnAtATime'
  BY DEF Undo, OneTurnAtATime, Active
<1>2. TargetInv'
  BY DEF Undo, TargetInv
<1>3. CallInv'
  BY DEF Undo, CallInv, NotBegun
<1>4. DirInv'
  BY DEF Undo, DirInv
<1>5. HalfDoneInv'
  BY <1>h DEF Undo, HalfDoneInv
<1>6. GoodInv'
  <2>1. \A x \in Tx, g \in File : Undoable(x, g)' <=> Undoable(x, g)
    BY DEF Undoable, Undo
  <2>2. pre' = pre
    BY DEF Undo
  <2> QED BY <1>e, <1>f, <1>g, <2>1, <2>2 DEF GoodInv
<1>7. MemoryInv'
  BY DEF Undo, MemoryInv
<1>8. StageInv'
  <2>1. \A u \in Turn : pc'[u] # "stage"
    BY <1>a, <1>c DEF Undo
  <2> QED BY <2>1 DEF StageInv
<1>9. SaveInv'
  <2>1. \A u \in Turn : pc'[u] # "save"
    BY <1>a, <1>c DEF Undo
  <2> QED BY <2>1 DEF SaveInv
<1>10. ApplyInv'
  <2>1. \A u \in Turn : pc'[u] # "apply"
    BY <1>a, <1>c DEF Undo
  <2> QED BY <2>1 DEF ApplyInv
<1>11. UndoInv'
  <2>1. \A u \in Turn : pc'[u] \in {"undo", "sweep"} => u = t /\ pc'[u] = "undo"
    BY <1>c DEF Undo
  <2>2. todo'[t] = todo[t] \ {f} /\ Listed(target[t])' = Listed(target[t]) /\ target' = target
    BY <1>a DEF Undo, Listed
  <2>3. \A g \in Listed(target[t]) \ todo'[t] : tree'[g] = good[g]
    BY <1>e, <1>f, <2>2 DEF Undo, UndoInv, Listed
  <2>4. todo'[t] \subseteq Listed(target[t])
    BY <2>2 DEF Undo, UndoInv
  <2> QED BY <1>g, <2>1, <2>2, <2>3, <2>4 DEF UndoInv
<1>12. WorkInv'
  BY <1>g, <1>h DEF Undo, WorkInv, Listed
<1> QED BY <1>1, <1>2, <1>3, <1>4, <1>5, <1>6, <1>7, <1>8, <1>9, <1>10, <1>11, <1>12 DEF IInv

(* When every entry is put back the whole tree is good again.              *)
LEMMA UndoDoneKeepsIInv ==
  ASSUME Races = {}, TypeOK, TypeOK', IInv, NEW t \in Turn, UndoDone(t)
  PROVE  IInv'
<1> USE DEF IInv, disk, memory, history
<1>a. /\ pc \in [Turn -> PcStates]
  BY DEF TypeOK
<1>c. \A u \in Turn : u # t => pc[u] \in {"new", "over"}
  BY DEF UndoDone, OneTurnAtATime, Active, TypeOK, PcStates
<1>h. HalfDone' = HalfDone
  BY DEF HalfDone, UndoDone
<1>1. OneTurnAtATime'
  BY <1>a, <1>c DEF UndoDone, OneTurnAtATime, Active
<1>2. TargetInv'
  BY <1>a, <1>c DEF UndoDone, TargetInv
<1>3. CallInv'
  BY DEF UndoDone, CallInv, NotBegun
<1>4. DirInv'
  BY DEF UndoDone, DirInv
<1>5. HalfDoneInv'
  BY <1>a, <1>c, <1>h DEF UndoDone, HalfDoneInv, TargetInv
<1>6. GoodInv'
  BY DEF UndoDone, GoodInv, Undoable
<1>7. MemoryInv'
  BY <1>a, <1>c DEF UndoDone, MemoryInv
<1>8. StageInv'
  <2>1. \A u \in Turn : pc'[u] # "stage"
    BY <1>a, <1>c DEF UndoDone
  <2> QED BY <2>1 DEF StageInv
<1>9. SaveInv'
  <2>1. \A u \in Turn : pc'[u] # "save"
    BY <1>a, <1>c DEF UndoDone
  <2> QED BY <2>1 DEF SaveInv
<1>10. ApplyInv'
  <2>1. \A u \in Turn : pc'[u] # "apply"
    BY <1>a, <1>c DEF UndoDone
  <2> QED BY <2>1 DEF ApplyInv
<1>11. UndoInv'
  <2> SUFFICES \A f \in File : tree[f] = good[f]
    BY <1>a, <1>c DEF UndoDone, UndoInv, Listed
  <2> TAKE f \in File
  <2>1. CASE f \in Listed(target[t])
    BY <2>1 DEF UndoDone, UndoInv
  <2>2. CASE f \notin Listed(target[t])
    <3>1. HalfDone = {target[t]}
      BY DEF UndoDone, HalfDoneInv
    <3>2. \A x \in Tx : ~Undoable(x, f)
      BY <2>2, <3>1 DEF Undoable, HalfDone, Listed
    <3> QED BY <3>2 DEF GoodInv
  <2> QED BY <2>1, <2>2
<1>12. WorkInv'
  BY <1>h DEF UndoDone, WorkInv, Listed
<1> QED BY <1>1, <1>2, <1>3, <1>4, <1>5, <1>6, <1>7, <1>8, <1>9, <1>10, <1>11, <1>12 DEF IInv

(* With nothing left to look at there is no half-done commit.              *)
LEMMA RecoveredKeepsIInv ==
  ASSUME Races = {}, TypeOK, TypeOK', IInv, NEW t \in Turn, Recovered(t)
  PROVE  IInv'
<1> USE DEF IInv, disk, memory, history
<1>a. /\ pc \in [Turn -> PcStates]
  BY DEF TypeOK
<1>c. \A u \in Turn : u # t => pc[u] \in {"new", "over"}
  BY DEF Recovered, OneTurnAtATime, Active, TypeOK, PcStates
<1>h. HalfDone' = HalfDone
  BY DEF HalfDone, Recovered
<1>1. OneTurnAtATime'
  BY <1>a, <1>c DEF Recovered, OneTurnAtATime, Active
<1>2. TargetInv'
  BY <1>a, <1>c DEF Recovered, TargetInv
<1>3. CallInv'
  BY DEF Recovered, CallInv, NotBegun
<1>4. DirInv'
  BY DEF Recovered, DirInv
<1>5. HalfDoneInv'
  BY <1>a, <1>c, <1>h DEF Recovered, HalfDoneInv
<1>6. GoodInv'
  BY DEF Recovered, GoodInv, Undoable
<1>7. MemoryInv'
  BY <1>a, <1>c DEF Recovered, MemoryInv
<1>8. StageInv'
  <2>1. \A u \in Turn : pc'[u] # "stage"
    BY <1>a, <1>c DEF Recovered
  <2> QED BY <2>1 DEF StageInv
<1>9. SaveInv'
  <2>1. \A u \in Turn : pc'[u] # "save"
    BY <1>a, <1>c DEF Recovered
  <2> QED BY <2>1 DEF SaveInv
<1>10. ApplyInv'
  <2>1. \A u \in Turn : pc'[u] # "apply"
    BY <1>a, <1>c DEF Recovered
  <2> QED BY <2>1 DEF ApplyInv
<1>11. UndoInv'
  BY <1>a, <1>c, <1>h DEF Recovered, UndoInv, Listed
<1>12. WorkInv'
  BY <1>h DEF Recovered, WorkInv, Listed
<1> QED BY <1>1, <1>2, <1>3, <1>4, <1>5, <1>6, <1>7, <1>8, <1>9, <1>10, <1>11, <1>12 DEF IInv

(* Removing a directory piece by piece loses nothing, whichever piece goes *)
(* first: either the commit is no longer half-done or the tree is good.    *)
LEMMA SweepOneKeepsIInv ==
  ASSUME Races = {}, TypeOK, TypeOK', IInv, NEW t \in Turn, SweepOne(t)
  PROVE  IInv'
<1> USE DEF IInv, disk, memory, history
<1>a. /\ journal \in [Tx -> JournalStates]
      /\ pre \in [Tx -> [File -> Value]]
  BY DEF TypeOK
<1>b. target[t] \in Tx
  BY DEF TypeOK, Busy, SweepOne
<1>c. \A u \in Turn : u # t => pc[u] \in {"new", "over"}
  BY DEF SweepOne, OneTurnAtATime, Active, TypeOK, PcStates
<1>d. \A x \in Tx : x # target[t] => journal'[x] = journal[x] /\ pre'[x] = pre[x]
  BY <1>a DEF SweepOne
<1>e. \A x \in Tx : /\ journal'[x] = journal[x] \/ journal'[x] = "no journal"
                    /\ journal'[x] = "no dir" <=> journal[x] = "no dir"
  BY <1>a, <1>b DEF SweepOne
<1>f. \A x \in Tx, f \in File : pre'[x][f] = pre[x][f] \/ pre'[x][f] = Absent
  <2>1. pre' = pre \/ \E g \in File : pre' = [pre EXCEPT ![target[t]][g] = Absent]
    BY DEF SweepOne
  <2>2. ASSUME NEW g \in File, pre' = [pre EXCEPT ![target[t]][g] = Absent],
               NEW x \in Tx, NEW f \in File
        PROVE  pre'[x][f] = pre[x][f] \/ pre'[x][f] = Absent
    BY <1>a, <1>b, <2>2
  <2> QED
    BY <2>1, <2>2
<1>g. /\ HalfDone' \subseteq HalfDone
      /\ \A x \in HalfDone : x # target[t] => x \in HalfDone'
  BY <1>d, <1>e DEF HalfDone
<1>k. entry' = entry /\ tree' = tree /\ good' = good /\ pc' = pc /\ scan' = scan /\ target' = target /\ calls' = calls /\ work' = work
  BY DEF SweepOne
<1>1. OneTurnAtATime'
  BY DEF SweepOne, OneTurnAtATime, Active
<1>2. TargetInv'
  BY DEF SweepOne, TargetInv
<1>3. CallInv'
  <2>1. \A x \in Tx : (NotBegun(x)' => NotBegun(x)) /\ (journal[x] = "no dir" => journal'[x] = "no dir")
    BY <1>e, <1>k DEF NotBegun
  <2> QED BY <2>1 DEF CallInv
<1>4. DirInv'
  <2> SUFFICES ASSUME NEW x \in Tx, NEW g \in File
               PROVE  /\ journal'[x] = "no dir" => entry'[x][g] = "untouched"
                      /\ entry'[x][g] # "existed" => pre'[x][g] = Absent
    BY DEF DirInv
  <2>1. journal[x] = "no dir" <=> journal'[x] = "no dir"
    BY <1>e
  <2>2. entry[x][g] # "existed" => pre'[x][g] = Absent
    BY <1>f DEF DirInv
  <2> QED BY <1>k, <2>1, <2>2 DEF DirInv
<1>5. HalfDoneInv'
  BY <1>c, <1>g, <1>k DEF HalfDoneInv, SweepOne
<1>6. GoodInv'
  <2> SUFFICES ASSUME NEW f \in File
               PROVE  /\ \A x \in Tx : Undoable(x, f)' => pre'[x][f] = good[f]
                      /\ (\A x \in Tx : ~Undoable(x, f)') => tree[f] = good[f]
    BY <1>k DEF GoodInv
  <2>1. ASSUME NEW x \in Tx, Undoable(x, f)' PROVE Undoable(x, f) /\ pre'[x][f] = pre[x][f]
    BY <2>1, <1>e, <1>f, <1>k DEF Undoable, DirInv
  <2>2. CASE target[t] \in HalfDone
    BY <2>1, <2>2 DEF UndoInv, GoodInv, SweepOne
  <2>3. CASE target[t] \notin HalfDone
    <3>1. \A x \in Tx : Undoable(x, f) => x # target[t]
      BY <2>3 DEF Undoable, HalfDone
    <3>2. \A x \in Tx : Undoable(x, f) => Undoable(x, f)'
      BY <3>1, <1>d, <1>k DEF Undoable
    <3> QED BY <2>1, <3>2 DEF GoodInv
  <2> QED BY <2>2, <2>3
<1>7. MemoryInv'
  BY DEF SweepOne, MemoryInv
<1>8. StageInv'
  <2>1. \A u \in Turn : pc'[u] # "stage"
    BY <1>a, <1>c DEF SweepOne
  <2> QED BY <2>1 DEF StageInv
<1>9. SaveInv'
  <2>1. \A u \in Turn : pc'[u] # "save"
    BY <1>a, <1>c DEF SweepOne
  <2> QED BY <2>1 DEF SaveInv
<1>10. ApplyInv'
  <2>1. \A u \in Turn : pc'[u] # "apply"
    BY <1>a, <1>c DEF SweepOne
  <2> QED BY <2>1 DEF ApplyInv
<1>11. UndoInv'
  <2>1. \A u \in Turn : pc[u] \in {"undo", "sweep"} => u = t /\ pc[u] = "sweep"
    BY <1>c DEF SweepOne
  <2> QED BY <2>1, <1>g, <1>k DEF UndoInv
<1>12. WorkInv'
  BY <1>g, <1>k DEF WorkInv, Listed
<1> QED BY <1>1, <1>2, <1>3, <1>4, <1>5, <1>6, <1>7, <1>8, <1>9, <1>10, <1>11, <1>12 DEF IInv

(* The last piece of the directory.                                        *)
LEMMA SweepDoneKeepsIInv ==
  ASSUME Races = {}, TypeOK, TypeOK', IInv, NEW t \in Turn, SweepDone(t)
  PROVE  IInv'
<1> USE DEF IInv, disk, memory, history
<1>a. /\ journal \in [Tx -> JournalStates]
      /\ entry \in [Tx -> [File -> EntryKinds]]
      /\ target \in [Turn -> Tx \cup {NoTx}]
      /\ pc \in [Turn -> PcStates]
  BY DEF TypeOK
<1>b. target[t] \in Tx
  BY DEF TypeOK, Busy, SweepDone
<1>c. \A u \in Turn : u # t => pc[u] \in {"new", "over"}
  BY DEF SweepDone, OneTurnAtATime, Active, TypeOK, PcStates
<1>d. /\ HalfDone' = HalfDone
      /\ target[t] \notin HalfDone
  BY <1>a, <1>b DEF SweepDone, HalfDone
<1>e. /\ \A x \in Tx : x # target[t] => journal'[x] = journal[x] /\ entry'[x] = entry[x]
      /\ journal'[target[t]] = "no dir"
      /\ \A f \in File : entry'[target[t]][f] = "untouched" /\ pre[target[t]][f] = Absent
      /\ pre' = pre /\ calls' = calls
  BY <1>a, <1>b DEF SweepDone
<1>1. OneTurnAtATime'
  <2>1. \A u \in Turn : u # t => pc'[u] = pc[u]
    BY <1>a DEF SweepDone
  <2>2. \A u \in Turn : u # t => pc'[u] \notin Active
    BY <1>c, <2>1 DEF Active
  <2> QED
    BY <2>2 DEF OneTurnAtATime
<1>2. TargetInv'
  BY <1>a, <1>b, <1>c DEF SweepDone, TargetInv
<1>3. CallInv'
  <2>1. \A x \in Tx : (NotBegun(x)' => NotBegun(x)) /\ (journal[x] = "no dir" => journal'[x] = "no dir")
    BY <1>e DEF NotBegun
  <2> QED BY <2>1 DEF CallInv
<1>4. DirInv'
  <2> SUFFICES ASSUME NEW x \in Tx, NEW g \in File
               PROVE  /\ journal'[x] = "no dir" => entry'[x][g] = "untouched"
                      /\ entry'[x][g] # "existed" => pre'[x][g] = Absent
    BY DEF DirInv
  <2>1. CASE x = target[t]
    BY <1>e, <2>1
  <2>2. CASE x # target[t]
    <3>1. journal'[x] = journal[x] /\ entry'[x] = entry[x] /\ pre'[x] = pre[x]
      BY <1>e, <2>2
    <3> QED BY <3>1 DEF DirInv
  <2> QED BY <2>1, <2>2
<1>5. HalfDoneInv'
  <2>1. \A u \in Turn : u # t => pc'[u] = pc[u]
    BY <1>a DEF SweepDone
  <2>2. pc'[t] = IF target[t][1] = t THEN "ready" ELSE "recover"
    BY <1>a DEF SweepDone
  <2>3. scan' = scan /\ pc[t] = "sweep"
    BY DEF SweepDone
  <2> QED BY <1>c, <1>d, <2>1, <2>2, <2>3 DEF HalfDoneInv
<1>6. GoodInv'
  BY <1>a, <1>b DEF SweepDone, GoodInv, Undoable
<1>7. MemoryInv'
  BY <1>a, <1>c DEF SweepDone, MemoryInv
<1>8. StageInv'
  <2>1. \A u \in Turn : pc'[u] # "stage"
    BY <1>a, <1>c DEF SweepDone
  <2> QED BY <2>1 DEF StageInv
<1>9. SaveInv'
  <2>1. \A u \in Turn : pc'[u] # "save"
    BY <1>a, <1>c DEF SweepDone
  <2> QED BY <2>1 DEF SaveInv
<1>10. ApplyInv'
  <2>1. \A u \in Turn : pc'[u] # "apply"
    BY <1>a, <1>c DEF SweepDone
  <2> QED BY <2>1 DEF ApplyInv
<1>11. UndoInv'
  BY <1>a, <1>b, <1>c DEF SweepDone, UndoInv, Listed, HalfDone
<1>12. WorkInv'
  BY <1>a, <1>b DEF SweepDone, WorkInv, HalfDone, Listed
<1> QED BY <1>1, <1>2, <1>3, <1>4, <1>5, <1>6, <1>7, <1>8, <1>9, <1>10, <1>11, <1>12 DEF IInv

(* A step gets a directory no other step has had.                          *)
LEMMA BeginKeepsIInv ==
  ASSUME Races = {}, TypeOK, TypeOK', IInv, NEW t \in Turn, Begin(t)
  PROVE  IInv'
<1> USE DEF IInv, disk, memory, history
<1>a. /\ calls \in [Turn -> 0..MaxSteps]
      /\ target \in [Turn -> Tx \cup {NoTx}]
      /\ journal \in [Tx -> JournalStates]
      /\ pc \in [Turn -> PcStates]
  BY DEF TypeOK
<1>c. \A u \in Turn : u # t => pc[u] \in {"new", "over"}
  BY DEF Begin, OneTurnAtATime, Active, TypeOK, PcStates
<1>x. <<t, calls[t] + 1>> \in Tx /\ calls[t] + 1 \in 1..MaxSteps /\ calls[t] + 1 > calls[t]
  <2>1. calls[t] \in 0..MaxSteps /\ calls[t] < MaxSteps
    BY <1>a DEF Begin
  <2>2. calls[t] + 1 \in 1..MaxSteps /\ calls[t] + 1 > calls[t]
    BY <2>1, StepsAssumption
  <2> QED BY <2>2 DEF Tx
<1>d. journal[<<t, calls[t] + 1>>] = "no dir"
  <2> DEFINE x == <<t, calls[t] + 1>>
  <2>1. x \in Tx /\ NotBegun(x)
    BY <1>x DEF NotBegun
  <2> QED BY <2>1 DEF CallInv
<1>e. /\ \A x \in Tx : x # <<t, calls[t] + 1>> => journal'[x] = journal[x]
      /\ journal'[<<t, calls[t] + 1>>] = "no journal"
      /\ calls'[t] = calls[t] + 1 /\ \A u \in Turn : u # t => calls'[u] = calls[u]
      /\ entry' = entry /\ pre' = pre /\ tree' = tree /\ good' = good
  BY <1>a, <1>x DEF Begin
<1>g. HalfDone' = HalfDone
  BY <1>d, <1>e DEF HalfDone
<1>1. OneTurnAtATime'
  BY <1>a, <1>c DEF Begin, OneTurnAtATime, Active
<1>2. TargetInv'
  BY <1>a, <1>c DEF Begin, TargetInv
<1>3. CallInv'
  <2> SUFFICES ASSUME NEW x \in Tx PROVE NotBegun(x)' => journal'[x] = "no dir"
    BY DEF CallInv
  <2>1. CASE x = <<t, calls[t] + 1>>
    <3>1. x[1] = t /\ x[2] = calls[t] + 1
      BY <2>1
    <3>2. calls'[x[1]] = x[2]
      BY <1>e, <3>1
    <3>3. x[2] \in 1..MaxSteps
      BY DEF Tx
    <3>4. ~NotBegun(x)'
      <4> DEFINE n == x[2]
      <4>1. n \in Nat
        BY <3>3, StepsAssumption
      <4>2. ~(n > n)
        BY <4>1
      <4> QED BY <3>2, <4>2 DEF NotBegun
    <3> QED BY <3>4
  <2>2. CASE x # <<t, calls[t] + 1>>
    <3>1. journal'[x] = journal[x]
      BY <1>e, <2>2
    <3>2. NotBegun(x)' => NotBegun(x)
      <4>1. x[1] \in Turn /\ x[2] \in 1..MaxSteps
        BY DEF Tx
      <4>2. CASE x[1] = t
        <5>1. calls'[x[1]] = calls[x[1]] + 1 /\ calls[x[1]] \in 0..MaxSteps
          BY <1>e, <4>2 DEF TypeOK
        <5> QED BY <4>1, <5>1, StepsAssumption DEF NotBegun
      <4>3. CASE x[1] # t
        BY <1>e, <4>1, <4>3 DEF NotBegun
      <4> QED BY <4>2, <4>3
    <3> QED BY <3>1, <3>2 DEF CallInv
  <2> QED BY <2>1, <2>2
<1>4. DirInv'
  <2> SUFFICES ASSUME NEW x \in Tx, NEW g \in File
               PROVE  /\ journal'[x] = "no dir" => entry'[x][g] = "untouched"
                      /\ entry'[x][g] # "existed" => pre'[x][g] = Absent
    BY DEF DirInv
  <2>1. journal'[x] = "no dir" => journal[x] = "no dir"
    BY <1>e
  <2> QED BY <1>e, <2>1 DEF DirInv
<1>5. HalfDoneInv'
  BY <1>a, <1>c, <1>g DEF Begin, HalfDoneInv, HalfDone
<1>6. GoodInv'
  <2>1. \A x \in Tx, f \in File : Undoable(x, f)' <=> Undoable(x, f)
    BY <1>d, <1>e DEF Undoable
  <2> QED BY <1>e, <2>1 DEF GoodInv
<1>7. MemoryInv'
  BY <1>a, <1>c DEF Begin, MemoryInv
<1>8. StageInv'
  <2>1. \A u \in Turn : pc'[u] = "stage" => u = t
    BY <1>a, <1>c DEF Begin
  <2>2. \A f \in File : entry[<<t, calls[t] + 1>>][f] = "untouched"
    BY <1>x, <1>d DEF DirInv
  <2>3. ASSUME NEW f \in File PROVE base[t][f] = Untouched /\ tree[f] # Untouched
    <3>1. base[t][f] = Untouched
      BY DEF Begin, MemoryInv
    <3>2. tree[f] \in Content \cup {Absent}
      BY DEF TypeOK, Value
    <3> QED BY <3>1, <3>2, ValueAssumption
  <2>4. target'[t] = <<t, calls[t] + 1>> /\ base' = base
    BY <1>a DEF Begin
  <2> SUFFICES ASSUME NEW f \in File
               PROVE  /\ journal'[target'[t]] = "no journal"
                      /\ entry'[target'[t]][f] = "untouched"
                      /\ tree'[f] # base'[t][f]
    BY <2>1 DEF StageInv
  <2> QED BY <1>e, <2>2, <2>3, <2>4
<1>9. SaveInv'
  <2>1. \A u \in Turn : pc'[u] # "save"
    BY <1>a, <1>c DEF Begin
  <2> QED BY <2>1 DEF SaveInv
<1>10. ApplyInv'
  <2>1. \A u \in Turn : pc'[u] # "apply"
    BY <1>a, <1>c DEF Begin
  <2> QED BY <2>1 DEF ApplyInv
<1>11. UndoInv'
  BY <1>a, <1>c DEF Begin, UndoInv, Listed, HalfDone
<1>12. WorkInv'
  BY <1>e, <1>g DEF WorkInv, Listed, Begin
<1> QED BY <1>1, <1>2, <1>3, <1>4, <1>5, <1>6, <1>7, <1>8, <1>9, <1>10, <1>11, <1>12 DEF IInv

(* Staging an edit touches memory only; it is the moment a text is read.   *)
LEMMA StageKeepsIInv ==
  ASSUME Races = {}, TypeOK, TypeOK', IInv, NEW t \in Turn, NEW f \in File, NEW v \in Value, Stage(t, f, v)
  PROVE  IInv'
<1> USE DEF IInv, disk, memory, history
<1>a. /\ base \in [Turn -> [File -> Value \cup {Untouched}]]
      /\ edits \in [Turn -> [File -> Value \cup {Untouched}]]
      /\ work \in SUBSET File
  BY DEF TypeOK
<1>c. \A u \in Turn : u # t => pc[u] \in {"new", "over"}
  BY DEF Stage, OneTurnAtATime, Active, TypeOK, PcStates
<1>h. HalfDone' = HalfDone
  BY DEF HalfDone, Stage
<1>d. tree[f] # Untouched /\ v # Untouched
  BY ValueAssumption DEF TypeOK, Value
<1>1. OneTurnAtATime'
  BY DEF Stage, OneTurnAtATime, Active
<1>2. TargetInv'
  BY DEF Stage, TargetInv
<1>3. CallInv'
  BY DEF Stage, CallInv, NotBegun
<1>4. DirInv'
  BY DEF Stage, DirInv
<1>5. HalfDoneInv'
  BY <1>h DEF Stage, HalfDoneInv
<1>6. GoodInv'
  BY DEF Stage, GoodInv, Undoable
<1>7. MemoryInv'
  BY <1>a, <1>c, <1>d DEF Stage, MemoryInv
<1>8. StageInv'
  <2>1. \A g \in File : g \in work' => g \in work /\ base'[t][g] = base[t][g]
    <3> TAKE g \in File
    <3>1. CASE g # f
      BY <1>a, <3>1 DEF Stage
    <3>2. CASE g = f /\ base[t][f] = Untouched
      BY <1>a, <3>2 DEF Stage
    <3>3. CASE g = f /\ base[t][f] # Untouched
      BY <1>a, <3>3 DEF Stage
    <3> QED BY <3>1, <3>2, <3>3
  <2>2. \A u \in Turn : pc'[u] = "stage" => u = t
    <3>1. pc' = pc
      BY DEF Stage
    <3> QED BY <1>c, <3>1
  <2>3. pc[t] = "stage" /\ tree' = tree /\ journal' = journal /\ target' = target /\ entry' = entry
    BY DEF Stage
  <2> SUFFICES ASSUME NEW g \in File
               PROVE  /\ journal'[target'[t]] = "no journal"
                      /\ entry'[target'[t]][g] = "untouched"
                      /\ g \in work' => tree'[g] # base'[t][g]
    BY <2>2 DEF StageInv
  <2>4. /\ journal[target[t]] = "no journal"
        /\ entry[target[t]][g] = "untouched"
        /\ g \in work => tree[g] # base[t][g]
    BY <2>3 DEF StageInv
  <2> QED BY <2>1, <2>3, <2>4
<1>9. SaveInv'
  <2>1. \A u \in Turn : pc'[u] # "save"
    BY <1>a, <1>c DEF Stage
  <2> QED BY <2>1 DEF SaveInv
<1>10. ApplyInv'
  <2>1. \A u \in Turn : pc'[u] # "apply"
    BY <1>a, <1>c DEF Stage
  <2> QED BY <2>1 DEF ApplyInv
<1>11. UndoInv'
  BY <1>h DEF Stage, UndoInv, Listed
<1>12. WorkInv'
  BY <1>a, <1>h DEF Stage, WorkInv, Listed
<1> QED BY <1>1, <1>2, <1>3, <1>4, <1>5, <1>6, <1>7, <1>8, <1>9, <1>10, <1>11, <1>12 DEF IInv

(* A refused path drops the step and leaves an empty directory.            *)
LEMMA StageRefusedKeepsIInv ==
  ASSUME Races = {}, TypeOK, TypeOK', IInv, NEW t \in Turn, StageRefused(t)
  PROVE  IInv'
<1> USE DEF IInv, disk, memory, history
<1>a. /\ pc \in [Turn -> PcStates]
      /\ target \in [Turn -> Tx \cup {NoTx}]
      /\ base \in [Turn -> [File -> Value \cup {Untouched}]]
      /\ edits \in [Turn -> [File -> Value \cup {Untouched}]]
  BY DEF TypeOK
<1>c. \A u \in Turn : u # t => pc[u] \in {"new", "over"}
  BY DEF StageRefused, OneTurnAtATime, Active, TypeOK, PcStates
<1>h. HalfDone' = HalfDone
  BY DEF HalfDone, StageRefused
<1>1. OneTurnAtATime'
  BY <1>a, <1>c DEF StageRefused, Forget, Nothing, OneTurnAtATime, Active
<1>2. TargetInv'
  BY <1>a, <1>c DEF StageRefused, Forget, Nothing, TargetInv
<1>3. CallInv'
  BY DEF StageRefused, Forget, Nothing, CallInv, NotBegun
<1>4. DirInv'
  BY DEF StageRefused, Forget, Nothing, DirInv
<1>5. HalfDoneInv'
  BY <1>a, <1>c, <1>h DEF StageRefused, Forget, Nothing, HalfDoneInv
<1>6. GoodInv'
  BY DEF StageRefused, Forget, Nothing, GoodInv, Undoable
<1>7. MemoryInv'
  BY <1>a, <1>c DEF StageRefused, Forget, Nothing, MemoryInv
<1>8. StageInv'
  <2>1. \A u \in Turn : pc'[u] # "stage"
    BY <1>a, <1>c DEF StageRefused
  <2> QED BY <2>1 DEF StageInv
<1>9. SaveInv'
  <2>1. \A u \in Turn : pc'[u] # "save"
    BY <1>a, <1>c DEF StageRefused
  <2> QED BY <2>1 DEF SaveInv
<1>10. ApplyInv'
  <2>1. \A u \in Turn : pc'[u] # "apply"
    BY <1>a, <1>c DEF StageRefused
  <2> QED BY <2>1 DEF ApplyInv
<1>11. UndoInv'
  BY <1>a, <1>c, <1>h DEF StageRefused, Forget, Nothing, UndoInv, Listed
<1>12. WorkInv'
  BY <1>h DEF StageRefused, Forget, Nothing, WorkInv, Listed
<1> QED BY <1>1, <1>2, <1>3, <1>4, <1>5, <1>6, <1>7, <1>8, <1>9, <1>10, <1>11, <1>12 DEF IInv

(* A step that is not applied touches nothing.                             *)
LEMMA GiveUpKeepsIInv ==
  ASSUME Races = {}, TypeOK, TypeOK', IInv, NEW t \in Turn, GiveUp(t)
  PROVE  IInv'
<1> USE DEF IInv, disk, memory, history
<1>a. /\ pc \in [Turn -> PcStates]
      /\ base \in [Turn -> [File -> Value \cup {Untouched}]]
      /\ edits \in [Turn -> [File -> Value \cup {Untouched}]]
  BY DEF TypeOK
<1>c. \A u \in Turn : u # t => pc[u] \in {"new", "over"}
  BY DEF GiveUp, OneTurnAtATime, Active, TypeOK, PcStates
<1>h. HalfDone' = HalfDone
  BY DEF HalfDone, GiveUp
<1>1. OneTurnAtATime'
  BY <1>a, <1>c DEF GiveUp, Forget, Nothing, OneTurnAtATime, Active
<1>2. TargetInv'
  BY <1>a, <1>c DEF GiveUp, Forget, Nothing, TargetInv
<1>3. CallInv'
  BY DEF GiveUp, Forget, Nothing, CallInv, NotBegun
<1>4. DirInv'
  BY DEF GiveUp, Forget, Nothing, DirInv
<1>5. HalfDoneInv'
  BY <1>a, <1>c, <1>h DEF GiveUp, Forget, Nothing, HalfDoneInv
<1>6. GoodInv'
  BY DEF GiveUp, Forget, Nothing, GoodInv, Undoable
<1>7. MemoryInv'
  BY <1>a, <1>c DEF GiveUp, Forget, Nothing, MemoryInv
<1>8. StageInv'
  <2>1. \A u \in Turn : pc'[u] # "stage"
    BY <1>a, <1>c DEF GiveUp
  <2> QED BY <2>1 DEF StageInv
<1>9. SaveInv'
  <2>1. \A u \in Turn : pc'[u] # "save"
    BY <1>a, <1>c DEF GiveUp
  <2> QED BY <2>1 DEF SaveInv
<1>10. ApplyInv'
  <2>1. \A u \in Turn : pc'[u] # "apply"
    BY <1>a, <1>c DEF GiveUp
  <2> QED BY <2>1 DEF ApplyInv
<1>11. UndoInv'
  BY <1>a, <1>c, <1>h DEF GiveUp, Forget, Nothing, UndoInv, Listed, HalfDoneInv
<1>12. WorkInv'
  BY <1>h DEF GiveUp, Forget, Nothing, WorkInv, Listed
<1> QED BY <1>1, <1>2, <1>3, <1>4, <1>5, <1>6, <1>7, <1>8, <1>9, <1>10, <1>11, <1>12 DEF IInv

(* The base check: what the step replaces is what it has read.             *)
LEMMA CheckBaseKeepsIInv ==
  ASSUME Races = {}, TypeOK, TypeOK', IInv, NEW t \in Turn, CheckBase(t)
  PROVE  IInv'
<1> USE DEF IInv, disk, memory, history
<1>a. /\ pc \in [Turn -> PcStates]
      /\ todo \in [Turn -> SUBSET File]
  BY DEF TypeOK
<1>c. \A u \in Turn : u # t => pc[u] \in {"new", "over"}
  BY DEF CheckBase, OneTurnAtATime, Active, TypeOK, PcStates
<1>d. journal' = journal
  <2>1. PICK g \in File : g \in Touched(t)
    BY DEF CheckBase, Touched
  <2>2. journal[target[t]] = "no journal"
    BY <2>1 DEF CheckBase, StageInv
  <2>3. journal \in [Tx -> JournalStates]
    BY DEF TypeOK
  <2> QED BY <2>2, <2>3 DEF CheckBase
<1>e. tree' = tree /\ entry' = entry /\ pre' = pre /\ good' = good /\ calls' = calls /\ work' = work
  BY DEF CheckBase
<1>h. HalfDone' = HalfDone
  BY <1>d DEF HalfDone
<1>1. OneTurnAtATime'
  BY <1>a, <1>c DEF CheckBase, OneTurnAtATime, Active
<1>2. TargetInv'
  BY <1>a, <1>c DEF CheckBase, TargetInv
<1>3. CallInv'
  BY <1>d, <1>e DEF CallInv, NotBegun
<1>4. DirInv'
  BY <1>d, <1>e DEF DirInv
<1>5. HalfDoneInv'
  BY <1>a, <1>c, <1>h DEF CheckBase, HalfDoneInv
<1>6. GoodInv'
  BY <1>d, <1>e DEF GoodInv, Undoable
<1>7. MemoryInv'
  BY <1>a, <1>c DEF CheckBase, MemoryInv
<1>8. StageInv'
  <2>1. \A u \in Turn : pc'[u] # "stage"
    BY <1>a, <1>c DEF CheckBase
  <2> QED BY <2>1 DEF StageInv
<1>9. SaveInv'
  <2>1. \A u \in Turn : pc'[u] = "save" => u = t
    BY <1>a, <1>c DEF CheckBase
  <2>2. /\ pc[t] = "stage" /\ todo'[t] = Touched(t) /\ Touched(t)' = Touched(t)
        /\ journal' = journal /\ target' = target /\ entry' = entry /\ tree' = tree /\ base' = base /\ work' = work
    BY <1>a, <1>d DEF CheckBase, Touched
  <2>3. ASSUME NEW g \in File PROVE SavedSoFar(t, g)'
    <3>1. entry[target[t]][g] = "untouched" /\ (g \in work => tree[g] # base[t][g])
      BY <2>2 DEF StageInv
    <3>2. g \in Touched(t) => tree[g] = base[t][g]
      BY DEF CheckBase, BaseHolds
    <3> QED BY <2>2, <3>1, <3>2 DEF SavedSoFar
  <2> SUFFICES ASSUME NEW u \in Turn, pc'[u] = "save"
               PROVE  /\ journal'[target'[u]] = "no journal"
                      /\ todo'[u] \subseteq Touched(u)'
                      /\ \A g \in File : SavedSoFar(u, g)'
    BY DEF SaveInv
  <2>4. PICK g \in File : g \in Touched(t)
    BY DEF CheckBase, Touched
  <2>5. u = t
    BY <2>1
  <2>6. journal[target[t]] = "no journal"
    BY <2>2, <2>4 DEF StageInv
  <2> QED BY <2>2, <2>3, <2>5, <2>6
<1>10. ApplyInv'
  <2>1. \A u \in Turn : pc'[u] # "apply"
    BY <1>a, <1>c DEF CheckBase
  <2> QED BY <2>1 DEF ApplyInv
<1>11. UndoInv'
  BY <1>a, <1>c, <1>h DEF CheckBase, UndoInv, Listed
<1>12. WorkInv'
  BY <1>h DEF CheckBase, WorkInv, Listed
<1> QED BY <1>1, <1>2, <1>3, <1>4, <1>5, <1>6, <1>7, <1>8, <1>9, <1>10, <1>11, <1>12 DEF IInv

(* One pre-image and its entry.                                            *)
LEMMA SaveOneKeepsIInv ==
  ASSUME Races = {}, TypeOK, TypeOK', IInv, NEW t \in Turn, NEW f \in File, SaveOne(t, f)
  PROVE  IInv'
<1> USE DEF IInv, disk, memory, history
<1>a. /\ todo \in [Turn -> SUBSET File]
      /\ pre \in [Tx -> [File -> Value]]
      /\ entry \in [Tx -> [File -> EntryKinds]]
  BY DEF TypeOK
<1>b. target[t] \in Tx
  BY DEF TypeOK, Busy, SaveOne
<1>c. \A u \in Turn : u # t => pc[u] \in {"new", "over"}
  BY DEF SaveOne, OneTurnAtATime, Active, TypeOK, PcStates
<1>h. HalfDone' = HalfDone
  BY DEF HalfDone, SaveOne
<1>d. HalfDone = {} /\ journal[target[t]] = "no journal" /\ f \in todo[t] /\ f \in Touched(t)
  BY DEF SaveOne, HalfDoneInv, SaveInv, First
<1>e. /\ \A x \in Tx : x # target[t] => pre'[x] = pre[x] /\ entry'[x] = entry[x]
      /\ \A g \in File : g # f => pre'[target[t]][g] = pre[target[t]][g] /\ entry'[target[t]][g] = entry[target[t]][g]
      /\ pre'[target[t]][f] = tree[f]
      /\ tree[f] = Absent => entry'[target[t]][f] = "created"
      /\ tree[f] # Absent => entry'[target[t]][f] = "existed"
      /\ journal' = journal /\ tree' = tree /\ good' = good /\ calls' = calls /\ work' = work
      /\ target' = target /\ base' = base /\ edits' = edits
  BY <1>a, <1>b DEF SaveOne
<1>g. \A x \in Tx, g \in File : ~Undoable(x, g) /\ ~Undoable(x, g)'
  BY <1>d, <1>h DEF Undoable, HalfDone
<1>1. OneTurnAtATime'
  BY DEF SaveOne, First, OneTurnAtATime, Active
<1>2. TargetInv'
  BY DEF SaveOne, First, TargetInv
<1>3. CallInv'
  <2>1. \A x \in Tx : (NotBegun(x)' => NotBegun(x)) /\ (journal[x] = "no dir" => journal'[x] = "no dir")
    BY <1>e DEF NotBegun
  <2> QED BY <2>1 DEF CallInv
<1>4. DirInv'
  <2> SUFFICES ASSUME NEW x \in Tx, NEW g \in File
               PROVE  /\ journal'[x] = "no dir" => entry'[x][g] = "untouched"
                      /\ entry'[x][g] # "existed" => pre'[x][g] = Absent
    BY DEF DirInv
  <2>1. CASE x = target[t]
    <3>1. journal'[x] # "no dir"
      BY <1>d, <1>e, <2>1
    <3>2. entry'[x][g] # "existed" => pre'[x][g] = Absent
      <4>1. CASE g = f
        BY <1>e, <2>1, <4>1
      <4>2. CASE g # f
        <5>1. pre'[x][g] = pre[x][g] /\ entry'[x][g] = entry[x][g]
          BY <1>e, <2>1, <4>2
        <5> QED BY <5>1 DEF DirInv
      <4> QED BY <4>1, <4>2
    <3> QED BY <3>1, <3>2
  <2>2. CASE x # target[t]
    <3>1. journal'[x] = journal[x] /\ entry'[x] = entry[x] /\ pre'[x] = pre[x]
      BY <1>e, <2>2
    <3> QED BY <3>1 DEF DirInv
  <2> QED BY <2>1, <2>2
<1>5. HalfDoneInv'
  BY <1>h DEF SaveOne, First, HalfDoneInv
<1>6. GoodInv'
  BY <1>e, <1>g DEF GoodInv
<1>7. MemoryInv'
  BY DEF SaveOne, First, MemoryInv
<1>8. StageInv'
  <2>1. \A u \in Turn : pc'[u] # "stage"
    BY <1>a, <1>c DEF SaveOne
  <2> QED BY <2>1 DEF StageInv
<1>9. SaveInv'
  <2>1. \A u \in Turn : pc'[u] = "save" => u = t
    BY <1>c DEF SaveOne
  <2>2. Touched(t)' = Touched(t) /\ todo'[t] = todo[t] \ {f} /\ pc[t] = "save"
    BY <1>a DEF SaveOne, Touched
  <2>3. todo'[t] \subseteq Touched(t)
    BY <2>2 DEF SaveInv
  <2>4. ASSUME NEW g \in File PROVE SavedSoFar(t, g)'
    <3>0. SavedSoFar(t, g)
      BY <2>2 DEF SaveInv
    <3>1. CASE g = f
      <4>1. g \notin todo'[t]
        BY <3>1, <2>2
      <4> QED BY <3>0, <3>1, <4>1, <1>d, <1>e, <2>2 DEF SavedSoFar
    <3>2. CASE g # f
      <4>1. pre'[target[t]][g] = pre[target[t]][g] /\ entry'[target[t]][g] = entry[target[t]][g]
        BY <1>e, <3>2
      <4>2. g \in todo'[t] <=> g \in todo[t]
        BY <2>2, <3>2
      <4> QED BY <1>e, <2>2, <3>0, <4>1, <4>2 DEF SavedSoFar
    <3> QED BY <3>1, <3>2
  <2> SUFFICES ASSUME NEW u \in Turn, pc'[u] = "save"
               PROVE  /\ journal'[target'[u]] = "no journal"
                      /\ todo'[u] \subseteq Touched(u)'
                      /\ \A g \in File : SavedSoFar(u, g)'
    BY DEF SaveInv
  <2>5. u = t /\ target'[t] = target[t] /\ journal'[target[t]] = "no journal"
    BY <1>d, <1>e, <2>1
  <2> QED BY <2>2, <2>3, <2>4, <2>5
<1>10. ApplyInv'
  <2>1. \A u \in Turn : pc'[u] # "apply"
    BY <1>a, <1>c DEF SaveOne
  <2> QED BY <2>1 DEF ApplyInv
<1>11. UndoInv'
  BY <1>a, <1>b, <1>c, <1>h DEF SaveOne, First, UndoInv, Listed
<1>12. WorkInv'
  BY <1>d, <1>h DEF WorkInv
<1> QED BY <1>1, <1>2, <1>3, <1>4, <1>5, <1>6, <1>7, <1>8, <1>9, <1>10, <1>11, <1>12 DEF IInv

(* The journal lists every touched file before the first one changes.      *)
LEMMA WriteJournalKeepsIInv ==
  ASSUME Races = {}, TypeOK, TypeOK', IInv, NEW t \in Turn, WriteJournal(t)
  PROVE  IInv'
<1> USE DEF IInv, disk, memory, history
<1>a. /\ journal \in [Tx -> JournalStates]
      /\ pc \in [Turn -> PcStates]
      /\ todo \in [Turn -> SUBSET File]
  BY DEF TypeOK
<1>b. target[t] \in Tx
  BY DEF TypeOK, Busy, WriteJournal
<1>c. \A u \in Turn : u # t => pc[u] \in {"new", "over"}
  BY DEF WriteJournal, OneTurnAtATime, Active, TypeOK, PcStates
<1>d. HalfDone = {} /\ journal[target[t]] = "no journal"
  BY DEF WriteJournal, HalfDoneInv, SaveInv
<1>e. /\ \A x \in Tx : x # target[t] => journal'[x] = journal[x]
      /\ journal'[target[t]] = "committing"
      /\ tree' = tree /\ good' = good /\ calls' = calls /\ work' = work /\ entry' = entry /\ pre' = pre
      /\ target' = target /\ base' = base /\ edits' = edits
  BY <1>a, <1>b DEF WriteJournal
<1>g. HalfDone' = {target[t]}
  BY <1>b, <1>d, <1>e DEF HalfDone
<1>i. \A f \in File : tree[f] = good[f]
  BY <1>d DEF GoodInv, Undoable, HalfDone
<1>j. ASSUME NEW f \in File
      PROVE  /\ f \in Touched(t) => /\ f \notin work
                                   /\ Undoable(target[t], f)'
                                   /\ pre[target[t]][f] = tree[f]
                                   /\ base[t][f] = tree[f]
             /\ f \notin Touched(t) => entry[target[t]][f] = "untouched"
  <2>1. pc[t] = "save" /\ todo[t] = {}
    BY DEF WriteJournal
  <2>2. f \in Touched(t) => /\ tree[f] = Absent => entry[target[t]][f] = "created"
                            /\ tree[f] # Absent => entry[target[t]][f] = "existed"
                            /\ pre[target[t]][f] = tree[f]
                            /\ f \notin work /\ tree[f] = base[t][f]
    BY <2>1 DEF SaveInv, SavedSoFar
  <2>3. f \notin Touched(t) => entry[target[t]][f] = "untouched"
    BY <2>1 DEF SaveInv, SavedSoFar
  <2> QED BY <1>e, <2>2, <2>3 DEF Undoable
<1>1. OneTurnAtATime'
  BY <1>a, <1>c DEF WriteJournal, OneTurnAtATime, Active
<1>2. TargetInv'
  BY <1>a, <1>c DEF WriteJournal, TargetInv
<1>3. CallInv'
  <2>1. \A x \in Tx : (NotBegun(x)' => NotBegun(x)) /\ (journal[x] = "no dir" => journal'[x] = "no dir")
    BY <1>d, <1>e DEF NotBegun
  <2> QED BY <2>1 DEF CallInv
<1>4. DirInv'
  <2> SUFFICES ASSUME NEW x \in Tx, NEW g \in File
               PROVE  /\ journal'[x] = "no dir" => entry'[x][g] = "untouched"
                      /\ entry'[x][g] # "existed" => pre'[x][g] = Absent
    BY DEF DirInv
  <2>1. journal[x] = "no dir" <=> journal'[x] = "no dir"
    BY <1>d, <1>e
  <2> QED BY <1>e, <2>1 DEF DirInv
<1>5. HalfDoneInv'
  <2>1. \A u \in Turn : u # t => pc'[u] \in {"new", "over"}
    BY <1>a, <1>c DEF WriteJournal
  <2>2. pc'[t] = "apply"
    BY <1>a DEF WriteJournal
  <2> QED BY <1>e, <1>g, <2>1, <2>2 DEF HalfDoneInv
<1>6. GoodInv'
  <2> SUFFICES ASSUME NEW x \in Tx, NEW f \in File, Undoable(x, f)' PROVE pre[x][f] = good[f]
    BY <1>e, <1>i DEF GoodInv
  <2>1. x = target[t] /\ entry[x][f] # "untouched"
    BY <1>d, <1>e DEF Undoable, HalfDone
  <2>2. f \in Touched(t)
    BY <1>j, <2>1
  <2> QED BY <1>i, <1>j, <2>1, <2>2
<1>7. MemoryInv'
  BY <1>a, <1>c DEF WriteJournal, MemoryInv
<1>8. StageInv'
  <2>1. \A u \in Turn : pc'[u] # "stage"
    BY <1>a, <1>c DEF WriteJournal
  <2> QED BY <2>1 DEF StageInv
<1>9. SaveInv'
  <2>1. \A u \in Turn : pc'[u] # "save"
    BY <1>a, <1>c DEF WriteJournal
  <2> QED BY <2>1 DEF SaveInv
<1>10. ApplyInv'
  <2>1. \A u \in Turn : pc'[u] = "apply" => u = t
    BY <1>a, <1>c DEF WriteJournal
  <2>2. Touched(t)' = Touched(t) /\ todo'[t] = Touched(t)
    BY <1>a DEF WriteJournal, Touched
  <2> QED BY <1>e, <1>j, <2>1, <2>2 DEF ApplyInv
<1>11. UndoInv'
  BY <1>a, <1>c DEF WriteJournal, UndoInv, Listed, HalfDone
<1>12. WorkInv'
  <2>1. \A f \in Listed(target[t]) : f \notin work
    BY <1>j DEF Listed
  <2> QED BY <1>e, <1>g, <2>1 DEF WorkInv, Listed
<1> QED BY <1>1, <1>2, <1>3, <1>4, <1>5, <1>6, <1>7, <1>8, <1>9, <1>10, <1>11, <1>12 DEF IInv

(* One file is renamed into place, over its pre-image.                     *)
LEMMA ApplyOneKeepsIInv ==
  ASSUME Races = {}, TypeOK, TypeOK', IInv, NEW t \in Turn, NEW f \in File, ApplyOne(t, f)
  PROVE  IInv'
<1> USE DEF IInv, disk, memory, history
<1>a. /\ tree \in [File -> Value]
      /\ todo \in [Turn -> SUBSET File]
      /\ work \in SUBSET File
  BY DEF TypeOK
<1>b. target[t] \in Tx
  BY DEF TypeOK, Busy, ApplyOne
<1>c. \A u \in Turn : u # t => pc[u] \in {"new", "over"}
  BY DEF ApplyOne, OneTurnAtATime, Active, TypeOK, PcStates
<1>h. HalfDone' = HalfDone
  BY DEF HalfDone, ApplyOne
<1>1. OneTurnAtATime'
  BY DEF ApplyOne, First, OneTurnAtATime, Active
<1>2. TargetInv'
  BY DEF ApplyOne, First, TargetInv
<1>3. CallInv'
  BY DEF ApplyOne, First, CallInv, NotBegun
<1>4. DirInv'
  BY DEF ApplyOne, First, DirInv
<1>5. HalfDoneInv'
  BY <1>h DEF ApplyOne, First, HalfDoneInv
<1>6. GoodInv'
  <2>1. Undoable(target[t], f)
    BY DEF ApplyOne, First, ApplyInv
  <2>2. \A g \in File : g # f => tree'[g] = tree[g]
    BY <1>a DEF ApplyOne
  <2>3. \A x \in Tx, g \in File : Undoable(x, g)' <=> Undoable(x, g)
    BY DEF Undoable, ApplyOne
  <2>4. pre' = pre /\ good' = good
    BY DEF ApplyOne
  <2> QED BY <1>b, <2>1, <2>2, <2>3, <2>4 DEF GoodInv
<1>7. MemoryInv'
  BY DEF ApplyOne, First, MemoryInv
<1>8. StageInv'
  <2>1. \A u \in Turn : pc'[u] # "stage"
    BY <1>a, <1>c DEF ApplyOne
  <2> QED BY <2>1 DEF StageInv
<1>9. SaveInv'
  <2>1. \A u \in Turn : pc'[u] # "save"
    BY <1>a, <1>c DEF ApplyOne
  <2> QED BY <2>1 DEF SaveInv
<1>10. ApplyInv'
  BY <1>a, <1>c DEF ApplyOne, First, ApplyInv, Touched, Undoable
<1>11. UndoInv'
  BY <1>a, <1>c, <1>h DEF ApplyOne, First, UndoInv, Listed
<1>12. WorkInv'
  BY <1>a, <1>h DEF ApplyOne, First, WorkInv, Listed
<1> QED BY <1>1, <1>2, <1>3, <1>4, <1>5, <1>6, <1>7, <1>8, <1>9, <1>10, <1>11, <1>12 DEF IInv

(* The commit point: the tree is the overlay of the step on the good text. *)
LEMMA MarkCommittedKeepsIInv ==
  ASSUME Races = {}, TypeOK, TypeOK', IInv, NEW t \in Turn, MarkCommitted(t)
  PROVE  IInv'
<1> USE DEF IInv, disk, memory, history
<1>a. /\ journal \in [Tx -> JournalStates]
      /\ good \in [File -> Value]
      /\ pc \in [Turn -> PcStates]
      /\ base \in [Turn -> [File -> Value \cup {Untouched}]]
      /\ edits \in [Turn -> [File -> Value \cup {Untouched}]]
  BY DEF TypeOK
<1>b. target[t] \in Tx
  BY DEF TypeOK, Busy, MarkCommitted
<1>c. \A u \in Turn : u # t => pc[u] \in {"new", "over"}
  BY DEF MarkCommitted, OneTurnAtATime, Active, TypeOK, PcStates
<1>d. HalfDone = {target[t]} /\ journal[target[t]] = "committing"
  BY DEF MarkCommitted, HalfDoneInv, HalfDone
<1>e. /\ \A x \in Tx : x # target[t] => journal'[x] = journal[x]
      /\ journal'[target[t]] = "committed"
      /\ tree' = tree /\ calls' = calls /\ work' = work /\ entry' = entry /\ pre' = pre /\ target' = target
  BY <1>a, <1>b DEF MarkCommitted
<1>g. HalfDone' = {}
  BY <1>d, <1>e DEF HalfDone
<1>i. \A f \in File : tree[f] = good'[f]
  <2> TAKE f \in File
  <2>1. good'[f] = IF edits[t][f] = Untouched THEN good[f] ELSE edits[t][f]
    BY DEF MarkCommitted, Overlay
  <2>2. CASE edits[t][f] # Untouched
    <3>1. f \in Touched(t) /\ f \notin todo[t]
      BY <2>2 DEF MarkCommitted, Touched
    <3>2. tree[f] = edits[t][f]
      BY <3>1 DEF MarkCommitted, ApplyInv
    <3> QED BY <2>1, <2>2, <3>2
  <2>3. CASE edits[t][f] = Untouched
    <3>1. entry[target[t]][f] = "untouched"
      BY <2>3 DEF MarkCommitted, ApplyInv, Touched
    <3>2. \A x \in Tx : ~Undoable(x, f)
      BY <1>d, <3>1 DEF Undoable, HalfDone
    <3> QED BY <2>1, <2>3, <3>2 DEF GoodInv
  <2> QED BY <2>2, <2>3
<1>1. OneTurnAtATime'
  BY <1>a, <1>c DEF MarkCommitted, Forget, Nothing, OneTurnAtATime, Active
<1>2. TargetInv'
  BY <1>a, <1>c DEF MarkCommitted, Forget, Nothing, TargetInv
<1>3. CallInv'
  <2>1. \A x \in Tx : (NotBegun(x)' => NotBegun(x)) /\ (journal[x] = "no dir" => journal'[x] = "no dir")
    BY <1>d, <1>e DEF NotBegun
  <2> QED BY <2>1 DEF CallInv
<1>4. DirInv'
  <2> SUFFICES ASSUME NEW x \in Tx, NEW g \in File
               PROVE  /\ journal'[x] = "no dir" => entry'[x][g] = "untouched"
                      /\ entry'[x][g] # "existed" => pre'[x][g] = Absent
    BY DEF DirInv
  <2>1. journal[x] = "no dir" <=> journal'[x] = "no dir"
    BY <1>d, <1>e
  <2> QED BY <1>e, <2>1 DEF DirInv
<1>5. HalfDoneInv'
  <2>1. pc'[t] = "sweep" /\ \A u \in Turn : u # t => pc'[u] \in {"new", "over"}
    BY <1>a, <1>c DEF MarkCommitted
  <2> QED BY <1>g, <2>1 DEF HalfDoneInv
<1>6. GoodInv'
  <2>1. \A x \in Tx, f \in File : ~Undoable(x, f)'
    BY <1>g DEF Undoable, HalfDone
  <2> QED BY <1>e, <1>i, <2>1 DEF GoodInv
<1>7. MemoryInv'
  BY <1>a, <1>c DEF MarkCommitted, Forget, Nothing, MemoryInv
<1>8. StageInv'
  <2>1. \A u \in Turn : pc'[u] # "stage"
    BY <1>a, <1>c DEF MarkCommitted
  <2> QED BY <2>1 DEF StageInv
<1>9. SaveInv'
  <2>1. \A u \in Turn : pc'[u] # "save"
    BY <1>a, <1>c DEF MarkCommitted
  <2> QED BY <2>1 DEF SaveInv
<1>10. ApplyInv'
  <2>1. \A u \in Turn : pc'[u] # "apply"
    BY <1>a, <1>c DEF MarkCommitted
  <2> QED BY <2>1 DEF ApplyInv
<1>11. UndoInv'
  <2>1. \A u \in Turn : pc'[u] = "undo" => FALSE
    BY <1>a, <1>c DEF MarkCommitted
  <2> QED BY <1>g, <2>1 DEF UndoInv
<1>12. WorkInv'
  BY <1>g DEF WorkInv
<1> QED BY <1>1, <1>2, <1>3, <1>4, <1>5, <1>6, <1>7, <1>8, <1>9, <1>10, <1>11, <1>12 DEF IInv

(* Without races a commit fails only before its journal exists.            *)
LEMMA FailKeepsIInv ==
  ASSUME Races = {}, TypeOK, TypeOK', IInv, NEW t \in Turn, Fail(t)
  PROVE  IInv'
<1> USE DEF IInv, disk, memory, history
<1>a. /\ pc \in [Turn -> PcStates]
      /\ todo \in [Turn -> SUBSET File]
      /\ target \in [Turn -> Tx \cup {NoTx}]
      /\ base \in [Turn -> [File -> Value \cup {Untouched}]]
      /\ edits \in [Turn -> [File -> Value \cup {Untouched}]]
  BY DEF TypeOK
<1>c. \A u \in Turn : u # t => pc[u] \in {"new", "over"}
  BY DEF Fail, OneTurnAtATime, Active, TypeOK, PcStates
<1>h. HalfDone' = HalfDone
  BY DEF HalfDone, Fail
<1>d. pc[t] = "save"
  BY DEF Fail, HalfDoneInv, HalfDone, Present
<1>1. OneTurnAtATime'
  BY <1>a, <1>c DEF Fail, Forget, Nothing, OneTurnAtATime, Active
<1>2. TargetInv'
  BY <1>a, <1>c DEF Fail, Forget, Nothing, TargetInv
<1>3. CallInv'
  BY DEF Fail, Forget, Nothing, CallInv, NotBegun
<1>4. DirInv'
  BY DEF Fail, Forget, Nothing, DirInv
<1>5. HalfDoneInv'
  BY <1>a, <1>c, <1>h, <1>d DEF Fail, Forget, Nothing, HalfDoneInv
<1>6. GoodInv'
  BY DEF Fail, Forget, Nothing, GoodInv, Undoable
<1>7. MemoryInv'
  BY <1>a, <1>c DEF Fail, Forget, Nothing, MemoryInv
<1>8. StageInv'
  <2>1. \A u \in Turn : pc'[u] # "stage"
    BY <1>a, <1>c DEF Fail
  <2> QED BY <2>1 DEF StageInv
<1>9. SaveInv'
  <2>1. \A u \in Turn : pc'[u] # "save"
    BY <1>a, <1>c DEF Fail
  <2> QED BY <2>1 DEF SaveInv
<1>10. ApplyInv'
  <2>1. \A u \in Turn : pc'[u] # "apply"
    BY <1>a, <1>c DEF Fail
  <2> QED BY <2>1 DEF ApplyInv
<1>11. UndoInv'
  BY <1>a, <1>c, <1>h DEF Fail, Forget, Nothing, UndoInv, Listed
<1>12. WorkInv'
  BY <1>h DEF Fail, Forget, Nothing, WorkInv, Listed
<1> QED BY <1>1, <1>2, <1>3, <1>4, <1>5, <1>6, <1>7, <1>8, <1>9, <1>10, <1>11, <1>12 DEF IInv

(* A turn ends with nothing of its own half-done.                          *)
LEMMA EndTurnKeepsIInv ==
  ASSUME Races = {}, TypeOK, TypeOK', IInv, NEW t \in Turn, EndTurn(t)
  PROVE  IInv'
<1> USE DEF IInv, disk, memory, history
<1>a. /\ pc \in [Turn -> PcStates]
  BY DEF TypeOK
<1>c. \A u \in Turn : u # t => pc[u] \in {"new", "over"}
  BY DEF EndTurn, OneTurnAtATime, Active, TypeOK, PcStates
<1>h. HalfDone' = HalfDone
  BY DEF HalfDone, EndTurn
<1>1. OneTurnAtATime'
  BY <1>a, <1>c DEF EndTurn, OneTurnAtATime, Active
<1>2. TargetInv'
  BY <1>a, <1>c DEF EndTurn, TargetInv
<1>3. CallInv'
  BY DEF EndTurn, CallInv, NotBegun
<1>4. DirInv'
  BY DEF EndTurn, DirInv
<1>5. HalfDoneInv'
  BY <1>a, <1>c, <1>h DEF EndTurn, HalfDoneInv
<1>6. GoodInv'
  BY DEF EndTurn, GoodInv, Undoable
<1>7. MemoryInv'
  BY <1>a, <1>c DEF EndTurn, MemoryInv
<1>8. StageInv'
  <2>1. \A u \in Turn : pc'[u] # "stage"
    BY <1>a, <1>c DEF EndTurn
  <2> QED BY <2>1 DEF StageInv
<1>9. SaveInv'
  <2>1. \A u \in Turn : pc'[u] # "save"
    BY <1>a, <1>c DEF EndTurn
  <2> QED BY <2>1 DEF SaveInv
<1>10. ApplyInv'
  <2>1. \A u \in Turn : pc'[u] # "apply"
    BY <1>a, <1>c DEF EndTurn
  <2> QED BY <2>1 DEF ApplyInv
<1>11. UndoInv'
  BY <1>a, <1>c, <1>h DEF EndTurn, UndoInv, Listed
<1>12. WorkInv'
  BY <1>h DEF EndTurn, WorkInv, Listed
<1> QED BY <1>1, <1>2, <1>3, <1>4, <1>5, <1>6, <1>7, <1>8, <1>9, <1>10, <1>11, <1>12 DEF IInv

(* A crash loses memory only.                                              *)
LEMMA CrashKeepsIInv ==
  ASSUME Races = {}, TypeOK, TypeOK', IInv, Crash
  PROVE  IInv'
<1> USE DEF IInv, disk, memory, history
<1>a. /\ pc \in [Turn -> PcStates]
      /\ todo \in [Turn -> SUBSET File]
      /\ scan \in [Turn -> SUBSET Tx]
      /\ target \in [Turn -> Tx \cup {NoTx}]
      /\ base \in [Turn -> [File -> Value \cup {Untouched}]]
      /\ edits \in [Turn -> [File -> Value \cup {Untouched}]]
  BY DEF TypeOK
<1>c. \A u \in Turn : pc'[u] \in {"new", "over"} /\ (pc'[u] = "new" => pc[u] = "new")
  BY <1>a DEF Crash, Active, PcStates
<1>h. HalfDone' = HalfDone
  BY DEF HalfDone, Crash
<1>1. OneTurnAtATime'
  BY <1>a, <1>c DEF Crash, Nothing, OneTurnAtATime, Active
<1>2. TargetInv'
  BY <1>a, <1>c DEF Crash, Nothing, TargetInv
<1>3. CallInv'
  BY DEF Crash, Nothing, CallInv, NotBegun
<1>4. DirInv'
  BY DEF Crash, Nothing, DirInv
<1>5. HalfDoneInv'
  BY <1>a, <1>c, <1>h DEF Crash, Nothing, HalfDoneInv
<1>6. GoodInv'
  BY DEF Crash, Nothing, GoodInv, Undoable
<1>7. MemoryInv'
  BY <1>a, <1>c DEF Crash, Nothing, MemoryInv
<1>8. StageInv'
  BY <1>a, <1>c DEF Crash, Nothing, StageInv
<1>9. SaveInv'
  BY <1>a, <1>c DEF Crash, Nothing, SaveInv, SavedSoFar, Touched
<1>10. ApplyInv'
  BY <1>a, <1>c DEF Crash, Nothing, ApplyInv, Touched, Undoable
<1>11. UndoInv'
  BY <1>a, <1>c, <1>h DEF Crash, Nothing, UndoInv, Listed
<1>12. WorkInv'
  BY <1>h DEF Crash, Nothing, WorkInv, Listed
<1> QED BY <1>1, <1>2, <1>3, <1>4, <1>5, <1>6, <1>7, <1>8, <1>9, <1>10, <1>11, <1>12 DEF IInv

(* An edit made while no commit is in progress.                            *)
LEMMA PersonEditKeepsIInv ==
  ASSUME Races = {}, TypeOK, TypeOK', IInv, NEW f \in File, NEW v \in Value, PersonEdit(f, v)
  PROVE  IInv'
<1> USE DEF IInv, disk, memory, history
<1>a. /\ tree \in [File -> Value]
      /\ good \in [File -> Value]
      /\ work \in SUBSET File
  BY DEF TypeOK
<1>h. HalfDone' = HalfDone
  BY DEF HalfDone, PersonEdit
<1>1. OneTurnAtATime'
  BY DEF PersonEdit, Quiet, OneTurnAtATime, Active
<1>2. TargetInv'
  BY DEF PersonEdit, Quiet, TargetInv
<1>3. CallInv'
  BY DEF PersonEdit, Quiet, CallInv, NotBegun
<1>4. DirInv'
  BY DEF PersonEdit, Quiet, DirInv
<1>5. HalfDoneInv'
  BY <1>h DEF PersonEdit, Quiet, HalfDoneInv
<1>6. GoodInv'
  <2>1. \A x \in Tx, g \in File : ~Undoable(x, g) /\ ~Undoable(x, g)'
    BY DEF PersonEdit, Quiet, HalfDone, Undoable
  <2> QED BY <1>a, <2>1 DEF PersonEdit, GoodInv
<1>7. MemoryInv'
  BY DEF PersonEdit, Quiet, MemoryInv
<1>8. StageInv'
  <2>1. \A g \in File : g # f => tree'[g] = tree[g] /\ (g \in work' => g \in work)
    BY <1>a DEF PersonEdit
  <2>2. \A u \in Turn : f \in work' => base[u][f] # tree'[f]
    <3> TAKE u \in Turn
    <3>1. tree'[f] = v
      BY <1>a DEF PersonEdit
    <3>2. base[u][f] = v => f \notin work'
      BY DEF PersonEdit
    <3> QED BY <3>1, <3>2
  <2>3. pc' = pc /\ journal' = journal /\ target' = target /\ entry' = entry /\ base' = base
    BY DEF PersonEdit
  <2> SUFFICES ASSUME NEW u \in Turn, NEW g \in File, pc'[u] = "stage"
               PROVE  /\ journal'[target'[u]] = "no journal"
                      /\ entry'[target'[u]][g] = "untouched"
                      /\ g \in work' => tree'[g] # base'[u][g]
    BY DEF StageInv
  <2>4. CASE g = f
    BY <2>2, <2>3, <2>4 DEF StageInv
  <2>5. CASE g # f
    <3>1. tree'[g] = tree[g] /\ (g \in work' => g \in work)
      BY <2>1, <2>5
    <3>2. /\ journal[target[u]] = "no journal"
          /\ entry[target[u]][g] = "untouched"
          /\ g \in work => tree[g] # base[u][g]
      BY <2>3 DEF StageInv
    <3> QED BY <2>3, <3>1, <3>2
  <2> QED BY <2>4, <2>5
<1>9. SaveInv'
  BY <1>a DEF PersonEdit, Quiet, SaveInv, SavedSoFar, Touched
<1>10. ApplyInv'
  BY <1>a DEF PersonEdit, Quiet, ApplyInv, Touched, Undoable
<1>11. UndoInv'
  BY <1>a, <1>h DEF PersonEdit, Quiet, UndoInv, Listed
<1>12. WorkInv'
  BY <1>a, <1>h DEF PersonEdit, Quiet, WorkInv, Listed
<1> QED BY <1>1, <1>2, <1>3, <1>4, <1>5, <1>6, <1>7, <1>8, <1>9, <1>10, <1>11, <1>12 DEF IInv

-----------------------------------------------------------------------------
(* A folder nobody has worked in.                                          *)
LEMMA InitIInv == Init => IInv
<1> SUFFICES ASSUME Init PROVE IInv
  OBVIOUS
<1>1. /\ \A x \in Tx : journal[x] = "no dir"
      /\ \A x \in Tx, f \in File : entry[x][f] = "untouched" /\ pre[x][f] = Absent
      /\ \A t \in Turn : pc[t] = "new" /\ calls[t] = 0 /\ scan[t] = {}
      /\ \A t \in Turn, f \in File : base[t][f] = Untouched /\ edits[t][f] = Untouched
      /\ good = tree
  BY DEF Init, Nothing
<1>2. HalfDone = {}
  BY <1>1 DEF HalfDone
<1>3. OneTurnAtATime /\ TargetInv /\ CallInv /\ DirInv
  BY <1>1 DEF OneTurnAtATime, Active, TargetInv, CallInv, DirInv
<1>4. HalfDoneInv /\ UndoInv /\ WorkInv
  BY <1>1, <1>2 DEF HalfDoneInv, UndoInv, WorkInv
<1>5. GoodInv
  BY <1>1 DEF GoodInv, Undoable
<1>6. MemoryInv /\ StageInv /\ SaveInv /\ ApplyInv
  BY <1>1 DEF MemoryInv, StageInv, SaveInv, ApplyInv
<1> QED BY <1>3, <1>4, <1>5, <1>6 DEF IInv

(* The lemmas above, over every disjunct of Next.                          *)
LEMMA StepKeepsIInv ==
  ASSUME Races = {}, TypeOK, TypeOK', IInv, [Next]_vars
  PROVE  IInv'
<1>1. ASSUME NEW t \in Turn, Start(t) PROVE IInv'
  BY <1>1, StartKeepsIInv
<1>2. ASSUME NEW t \in Turn, UndoDone(t) PROVE IInv'
  BY <1>2, UndoDoneKeepsIInv
<1>3. ASSUME NEW t \in Turn, Recovered(t) PROVE IInv'
  BY <1>3, RecoveredKeepsIInv
<1>4. ASSUME NEW t \in Turn, SweepOne(t) PROVE IInv'
  BY <1>4, SweepOneKeepsIInv
<1>5. ASSUME NEW t \in Turn, SweepDone(t) PROVE IInv'
  BY <1>5, SweepDoneKeepsIInv
<1>22. ASSUME NEW t \in Turn, SweepFails(t) PROVE IInv'
  BY <1>22 DEF SweepFails
<1>6. ASSUME NEW t \in Turn, Begin(t) PROVE IInv'
  BY <1>6, BeginKeepsIInv
<1>7. ASSUME NEW t \in Turn, StageRefused(t) PROVE IInv'
  BY <1>7, StageRefusedKeepsIInv
<1>8. ASSUME NEW t \in Turn, GiveUp(t) PROVE IInv'
  BY <1>8, GiveUpKeepsIInv
<1>9. ASSUME NEW t \in Turn, CheckBase(t) PROVE IInv'
  BY <1>9, CheckBaseKeepsIInv
<1>10. ASSUME NEW t \in Turn, WriteJournal(t) PROVE IInv'
  BY <1>10, WriteJournalKeepsIInv
<1>11. ASSUME NEW t \in Turn, MarkCommitted(t) PROVE IInv'
  BY <1>11, MarkCommittedKeepsIInv
<1>12. ASSUME NEW t \in Turn, Fail(t) PROVE IInv'
  BY <1>12, FailKeepsIInv
<1>13. ASSUME NEW t \in Turn, EndTurn(t) PROVE IInv'
  BY <1>13, EndTurnKeepsIInv
<1>14. ASSUME NEW t \in Turn, NEW x \in Tx, RecoverNext(t, x) PROVE IInv'
  BY <1>14, RecoverNextKeepsIInv
<1>15. ASSUME NEW t \in Turn, NEW f \in File, Undo(t, f) PROVE IInv'
  BY <1>15, UndoKeepsIInv
<1>16. ASSUME NEW t \in Turn, NEW f \in File, SaveOne(t, f) PROVE IInv'
  BY <1>16, SaveOneKeepsIInv
<1>17. ASSUME NEW t \in Turn, NEW f \in File, ApplyOne(t, f) PROVE IInv'
  BY <1>17, ApplyOneKeepsIInv
<1>18. ASSUME NEW t \in Turn, NEW f \in File, NEW v \in Value, Stage(t, f, v) PROVE IInv'
  BY <1>18, StageKeepsIInv
<1>19. CASE Crash
  BY <1>19, CrashKeepsIInv
<1>20. ASSUME NEW f \in File, NEW v \in Value, PersonEdit(f, v) PROVE IInv'
  BY <1>20, PersonEditKeepsIInv
<1>21. CASE UNCHANGED vars
  <2> USE <1>21 DEF IInv, vars, disk, memory, history
  <2>1. OneTurnAtATime' /\ TargetInv'
    BY DEF OneTurnAtATime, TargetInv
  <2>2. CallInv' /\ DirInv'
    BY DEF CallInv, NotBegun, DirInv
  <2>3. HalfDone' = HalfDone
    BY DEF HalfDone
  <2>4. HalfDoneInv' /\ UndoInv' /\ WorkInv'
    BY <2>3 DEF HalfDoneInv, UndoInv, WorkInv, Listed
  <2>5. GoodInv' /\ MemoryInv'
    BY DEF GoodInv, Undoable, MemoryInv
  <2>6. StageInv'
    BY DEF StageInv
  <2>8. SaveInv'
    <3>1. \A t \in Turn : Touched(t)' = Touched(t)
      BY DEF Touched
    <3>2. \A t \in Turn, f \in File : SavedSoFar(t, f)' <=> SavedSoFar(t, f)
      BY <3>1 DEF SavedSoFar
    <3> QED BY <3>1, <3>2 DEF SaveInv
  <2>7. ApplyInv'
    BY DEF ApplyInv, Touched, Undoable
  <2> QED BY <2>1, <2>2, <2>4, <2>5, <2>6, <2>7, <2>8
<1> QED BY <1>1, <1>2, <1>3, <1>4, <1>5, <1>6, <1>7, <1>8, <1>9, <1>10, <1>11, <1>12, <1>13, <1>14,
           <1>15, <1>16, <1>17, <1>18, <1>19, <1>20, <1>21, <1>22 DEF Next

(* At every moment at most one commit is half-done, every file it changed  *)
(* can be put back, and every other file is good.                          *)
THEOREM Inductive == ASSUME Races = {} PROVE Spec => []IInv
<1>1. TypeOK /\ TypeOK' /\ IInv /\ [Next]_vars => IInv'
  BY StepKeepsIInv
<1> QED BY InitIInv, <1>1, TypeCorrect, PTL DEF Spec

(* All at once or not at all: with no commit under way and none waiting to *)
(* be undone, the project is what the finished commits and the person made *)
(* of it, whatever crashed and whatever was recovered.                     *)
THEOREM Atomicity == ASSUME Races = {} PROVE Spec => []AllOrNothing
<1>1. TypeOK /\ IInv => AllOrNothing
  <2> SUFFICES ASSUME TypeOK, IInv, HalfDone = {} PROVE tree = good
    BY DEF AllOrNothing, Settled
  <2>1. \A x \in Tx, f \in File : ~Undoable(x, f)
    BY DEF Undoable, HalfDone
  <2>2. \A f \in File : tree[f] = good[f]
    BY <2>1 DEF IInv, GoodInv
  <2> QED BY <2>2 DEF TypeOK
<1> QED BY <1>1, TypeCorrect, Inductive, PTL

(* Who changes a project file: an undo, a commit and a person, nobody else. *)
LEMMA TreeMoves ==
  ASSUME [Next]_vars
  PROVE  \/ tree' = tree
         \/ \E t \in Turn, g \in File : Undo(t, g) \/ ApplyOne(t, g)
         \/ \E g \in File, v \in Value : PersonEdit(g, v)
<1>1. ASSUME NEW t \in Turn, Start(t) \/ UndoDone(t) \/ Recovered(t) \/ SweepOne(t) \/ SweepDone(t) \/ SweepFails(t)
      PROVE  tree' = tree
  BY <1>1 DEF Start, UndoDone, Recovered, SweepOne, SweepDone, SweepFails, disk, memory, history
<1>2. ASSUME NEW t \in Turn, Begin(t) \/ StageRefused(t) \/ GiveUp(t) \/ CheckBase(t) \/ WriteJournal(t)
      PROVE  tree' = tree
  BY <1>2 DEF Begin, StageRefused, GiveUp, CheckBase, WriteJournal, disk, memory, history
<1>3. ASSUME NEW t \in Turn, MarkCommitted(t) \/ Fail(t) \/ EndTurn(t) PROVE tree' = tree
  BY <1>3 DEF MarkCommitted, Fail, EndTurn, disk, memory, history
<1>4. ASSUME NEW t \in Turn, NEW x \in Tx, RecoverNext(t, x) PROVE tree' = tree
  BY <1>4 DEF RecoverNext, disk, memory, history
<1>5. ASSUME NEW t \in Turn, NEW f \in File, NEW v \in Value, SaveOne(t, f) \/ Stage(t, f, v)
      PROVE  tree' = tree
  BY <1>5 DEF SaveOne, Stage, disk, memory, history
<1>6. ASSUME Crash \/ UNCHANGED vars PROVE tree' = tree
  BY <1>6 DEF Crash, vars, disk, memory, history
<1>7. ASSUME NEW t \in Turn, tree' # tree,
             \/ Start(t) \/ UndoDone(t) \/ Recovered(t) \/ SweepOne(t) \/ SweepDone(t)
             \/ SweepFails(t) \/ Begin(t) \/ StageRefused(t) \/ GiveUp(t) \/ CheckBase(t)
             \/ WriteJournal(t) \/ MarkCommitted(t) \/ Fail(t) \/ EndTurn(t)
             \/ \E x \in Tx : RecoverNext(t, x)
             \/ \E f \in File : Undo(t, f) \/ SaveOne(t, f) \/ ApplyOne(t, f)
             \/ \E f \in File, v \in Value : Stage(t, f, v)
      PROVE  \E f \in File : Undo(t, f) \/ ApplyOne(t, f)
  <2>1. ~\E x \in Tx : RecoverNext(t, x)
    BY <1>4, <1>7
  <2>2. /\ ~\E f \in File : SaveOne(t, f)
        /\ ~\E f \in File, v \in Value : Stage(t, f, v)
    <3>1. \A f \in File, v \in Value : ~SaveOne(t, f) /\ ~Stage(t, f, v)
      BY <1>5, <1>7
    <3>2. Absent \in Value
      BY DEF Value
    <3> QED
      BY <3>1, <3>2
  <2>3. ~(Start(t) \/ UndoDone(t) \/ Recovered(t) \/ SweepOne(t) \/ SweepDone(t) \/ SweepFails(t))
    BY <1>1, <1>7
  <2>4. ~(Begin(t) \/ StageRefused(t) \/ GiveUp(t) \/ CheckBase(t) \/ WriteJournal(t))
    BY <1>2, <1>7
  <2>5. ~(MarkCommitted(t) \/ Fail(t) \/ EndTurn(t))
    BY <1>3, <1>7
  <2> QED
    BY <1>7, <2>1, <2>2, <2>3, <2>4, <2>5
<1>8. CASE Next
  BY <1>6, <1>7, <1>8 DEF Next
<1> QED
  BY <1>6, <1>8

(* Turns that follow one another leave nothing behind, even when writes    *)
(* fail: one step per action.                                              *)
LEMMA StepKeepsLeft ==
  ASSUME "overlap" \notin Races, TypeOK, TypeOK', LeftInv, [Next]_vars
  PROVE  LeftInv'
<1> USE DEF disk, memory, history
<1>a. /\ pc \in [Turn -> PcStates] /\ scan \in [Turn -> SUBSET Tx]
      /\ target \in [Turn -> Tx \cup {NoTx}] /\ calls \in [Turn -> 0..MaxSteps]
      /\ journal \in [Tx -> JournalStates] /\ kept \in [Turn -> SUBSET Tx]
  BY DEF TypeOK
<1>b. \A t \in Turn : pc[t] \in Busy => target[t] \in Tx
  BY DEF TypeOK
<1>c. /\ OneTurnAtATime /\ TargetInv /\ CallInv
      /\ \A t \in Turn, x \in HalfDone :
           /\ pc[t] \in {"ready", "stage", "save", "apply"} => x[1] = t \/ x \in kept[t]
           /\ pc[t] = "recover" => x \in scan[t] \cup kept[t]
           /\ pc[t] \in {"undo", "sweep"} /\ target[t][1] # t
                => x \in scan[t] \cup kept[t] \cup {target[t]}
           /\ pc[t] = "sweep" /\ target[t][1] = t => x[1] = t \/ x \in kept[t]
  BY DEF LeftInv
<1>d. \A t, u \in Turn : pc[t] \in Active /\ u # t => pc[u] \in {"new", "over"}
  BY <1>a, <1>c DEF OneTurnAtATime, PcStates, Active
\* A turn that has begun no step has no directory.
<1>e. \A t \in Turn, x \in Tx : calls[t] = 0 /\ Present(x) => x[1] # t
  <2> SUFFICES ASSUME NEW t \in Turn, NEW x \in Tx, calls[t] = 0, Present(x), x[1] = t
               PROVE  FALSE
    OBVIOUS
  <2>1. PICK n \in 1..MaxSteps : x = <<t, n>>
    BY DEF Tx
  <2>2. NotBegun(x)
    BY <2>1, StepsAssumption DEF NotBegun
  <2> QED BY <1>c, <2>2 DEF CallInv, Present
<1>f. HalfDone \subseteq {x \in Tx : Present(x)}
  BY DEF HalfDone, Present
<1>1. ASSUME NEW t \in Turn, Start(t) PROVE LeftInv'
  <2>1. HalfDone' = HalfDone /\ kept' = kept /\ \A u \in Turn : pc[u] \in {"new", "over"}
    BY <1>1, <1>a DEF Start, HalfDone, PcStates
  <2>2. OneTurnAtATime'
    BY <1>1, <1>a, <2>1 DEF Start, OneTurnAtATime, Active
  <2>3. TargetInv'
    BY <1>1, <1>a, <1>c, <1>e, <2>1 DEF Start, TargetInv
  <2>4. CallInv'
    BY <1>1, <1>c DEF Start, CallInv, NotBegun
  <2> QED BY <1>1, <1>a, <1>f, <2>1, <2>2, <2>3, <2>4 DEF Start, LeftInv
<1>2. ASSUME NEW t \in Turn, UndoDone(t) \/ Recovered(t) \/ EndTurn(t) PROVE LeftInv'
  <2>1. HalfDone' = HalfDone /\ UNCHANGED <<journal, calls, scan, target, kept>>
    BY <1>2 DEF HalfDone, UndoDone, Recovered, EndTurn
  <2>2. OneTurnAtATime' /\ CallInv'
    <3>1. pc[t] \in Active /\ \A u \in Turn : u # t => pc'[u] = pc[u]
      BY <1>2, <1>a DEF UndoDone, Recovered, EndTurn, Active
    <3> QED BY <1>c, <1>d, <2>1, <3>1 DEF OneTurnAtATime, Active, CallInv, NotBegun
  <2>3. TargetInv'
    BY <1>2, <1>a, <1>c, <2>1 DEF UndoDone, Recovered, EndTurn, TargetInv
  <2> QED BY <1>2, <1>a, <1>c, <1>d, <2>1, <2>2, <2>3 DEF UndoDone, Recovered, EndTurn, LeftInv, TargetInv, Active
<1>3. ASSUME NEW t \in Turn, SweepOne(t) PROVE LeftInv'
  <2>1. HalfDone' \subseteq HalfDone /\ UNCHANGED <<pc, calls, scan, target, kept>>
    BY <1>3, <1>a, <1>b DEF HalfDone, SweepOne, Busy
  <2>2. OneTurnAtATime' /\ TargetInv'
    BY <1>c, <2>1 DEF OneTurnAtATime, TargetInv
  <2>3. CallInv'
    BY <1>3, <1>a, <1>b, <1>c, <2>1 DEF SweepOne, CallInv, NotBegun, Busy
  <2> QED BY <1>c, <2>1, <2>2, <2>3 DEF LeftInv
<1>4. ASSUME NEW t \in Turn, SweepDone(t) PROVE LeftInv'
  <2>1. /\ target[t] \in Tx /\ target[t] \notin HalfDone /\ HalfDone' = HalfDone
        /\ UNCHANGED <<calls, scan, kept>>
    BY <1>4, <1>a, <1>b DEF HalfDone, SweepDone, Busy
  <2>2. OneTurnAtATime'
    <3>1. pc[t] = "sweep" /\ \A u \in Turn : u # t => pc'[u] = pc[u]
      BY <1>4, <1>a DEF SweepDone
    <3>2. \A u \in Turn : u # t => pc'[u] \in {"new", "over"}
      BY <1>d, <3>1 DEF Active
    <3> QED BY <3>2 DEF OneTurnAtATime, Active
  <2>3. TargetInv'
    BY <1>4, <1>a, <1>c, <2>1 DEF SweepDone, TargetInv
  <2>4. CallInv'
    BY <1>4, <1>a, <1>c, <2>1 DEF SweepDone, CallInv, NotBegun
  <2> QED BY <1>4, <1>a, <1>c, <1>d, <2>1, <2>2, <2>3, <2>4 DEF SweepDone, LeftInv, Active
<1>15. ASSUME NEW t \in Turn, SweepFails(t) PROVE LeftInv'
  <2>1. HalfDone' = HalfDone /\ UNCHANGED <<journal, calls, scan>>
    BY <1>15 DEF HalfDone, SweepFails
  <2>2. /\ pc[t] = "sweep" /\ target[t] \in Tx
        /\ pc'[t] = IF target[t][1] = t THEN "ready" ELSE "recover"
        /\ kept'[t] = IF target[t][1] = t THEN kept[t] ELSE kept[t] \cup {target[t]}
        /\ \A u \in Turn : u # t => pc'[u] = pc[u] /\ target'[u] = target[u] /\ kept'[u] = kept[u]
    BY <1>15, <1>a, <1>b DEF SweepFails, Busy
  <2>3. \A u \in Turn : u # t => pc'[u] \in {"new", "over"}
    BY <1>d, <2>2 DEF Active
  <2>4. OneTurnAtATime' /\ CallInv'
    <3>1. OneTurnAtATime'
      BY <2>3 DEF OneTurnAtATime, Active
    <3> QED BY <1>c, <2>1, <3>1 DEF CallInv, NotBegun
  <2>5. TargetInv'
    BY <1>c, <2>1, <2>2 DEF TargetInv
  <2>6. \A x \in HalfDone' :
          /\ pc'[t] = "ready" => x[1] = t \/ x \in kept'[t]
          /\ pc'[t] = "recover" => x \in scan'[t] \cup kept'[t]
    BY <1>c, <2>1, <2>2
  <2> QED BY <2>2, <2>3, <2>4, <2>5, <2>6 DEF LeftInv
<1>5. ASSUME NEW t \in Turn, Begin(t) PROVE LeftInv'
  <2>1. /\ calls[t] \in 0..MaxSteps /\ calls[t] < MaxSteps /\ <<t, calls[t] + 1>> \in Tx
    <3>1. calls[t] \in 0..MaxSteps /\ calls[t] < MaxSteps
      BY <1>5, <1>a DEF Begin
    <3>2. calls[t] + 1 \in 1..MaxSteps
      BY <3>1, StepsAssumption
    <3> QED BY <3>1, <3>2 DEF Tx
  <2>2. HalfDone' \subseteq HalfDone
    BY <1>5, <1>a, <2>1 DEF Begin, HalfDone
  <2>3. OneTurnAtATime'
    BY <1>5, <1>a, <1>c, <1>d DEF Begin, OneTurnAtATime, Active
  <2>4. TargetInv'
    BY <1>5, <1>a, <1>c, <2>1 DEF Begin, TargetInv
  <2>5. CallInv'
    <3> SUFFICES ASSUME NEW x \in Tx, calls'[x[1]] < x[2] PROVE journal'[x] = "no dir"
      BY <1>5, <1>a, StepsAssumption DEF CallInv, NotBegun, Tx
    <3>1. PICK u \in Turn, n \in 1..MaxSteps : x = <<u, n>>
      BY DEF Tx
    <3>2. calls'[u] < n /\ calls[u] \in 0..MaxSteps
      BY <1>a, <3>1
    <3>3. calls[u] < n /\ (u = t => n # calls[t] + 1)
      <4>1. calls'[u] = IF u = t THEN calls[t] + 1 ELSE calls[u]
        BY <1>5, <1>a DEF Begin
      <4> QED BY <2>1, <3>2, <4>1, StepsAssumption
    <3>4. NotBegun(x)
      BY <3>1, <3>3, StepsAssumption DEF NotBegun
    <3>5. x # <<t, calls[t] + 1>>
      BY <3>1, <3>3
    <3> QED BY <1>5, <1>a, <1>c, <3>4, <3>5 DEF Begin, CallInv
  <2> QED BY <1>5, <1>a, <1>c, <1>d, <2>2, <2>3, <2>4, <2>5 DEF Begin, LeftInv, Active
<1>6. ASSUME NEW t \in Turn, StageRefused(t) \/ GiveUp(t) \/ Fail(t) PROVE LeftInv'
  <2>1. HalfDone' = HalfDone /\ UNCHANGED <<journal, calls, scan, kept>>
    BY <1>6 DEF HalfDone, StageRefused, GiveUp, Fail
  <2>2. /\ pc[t] \in {"stage", "save", "apply"} /\ pc'[t] \in {"ready", "sweep"}
        /\ \A u \in Turn : u # t => pc'[u] = pc[u] /\ target'[u] = target[u]
        /\ pc'[t] = "sweep" => target'[t] = target[t]
    BY <1>6, <1>a DEF StageRefused, GiveUp, Fail
  <2>3. OneTurnAtATime' /\ CallInv'
    <3>1. \A u \in Turn : u # t => pc'[u] \in {"new", "over"}
      BY <1>d, <2>2 DEF Active
    <3>2. OneTurnAtATime'
      BY <3>1 DEF OneTurnAtATime, Active
    <3> QED BY <1>c, <2>1, <3>2 DEF CallInv, NotBegun
  <2>4. TargetInv'
    BY <1>c, <2>1, <2>2 DEF TargetInv
  <2>5. \A u \in Turn : u # t => pc'[u] \in {"new", "over"}
    BY <1>d, <2>2 DEF Active
  <2>6. target[t] = <<t, calls[t]>>
    BY <1>c, <2>2 DEF TargetInv
  <2>7. \A x \in HalfDone' : x[1] = t \/ x \in kept'[t]
    BY <1>c, <2>1, <2>2
  <2> QED BY <2>2, <2>3, <2>4, <2>5, <2>6, <2>7 DEF LeftInv
<1>7. ASSUME NEW t \in Turn, CheckBase(t) \/ WriteJournal(t) \/ MarkCommitted(t) PROVE LeftInv'
  <2>1. /\ target[t] \in Tx /\ target[t] = <<t, calls[t]>>
        /\ \A x \in Tx : x # target[t] => journal'[x] = journal[x]
        /\ UNCHANGED <<calls, scan, target, kept>>
        /\ pc[t] \in {"stage", "save", "apply"} /\ pc'[t] \in {"save", "apply", "sweep"}
        /\ \A u \in Turn : u # t => pc'[u] = pc[u]
    <3>1. /\ pc[t] \in {"stage", "save", "apply"} /\ pc'[t] \in {"save", "apply", "sweep"}
          /\ \A u \in Turn : u # t => pc'[u] = pc[u]
          /\ UNCHANGED <<calls, scan, target, kept>>
      BY <1>7, <1>a DEF CheckBase, WriteJournal, MarkCommitted
    <3>2. target[t] \in Tx /\ target[t] = <<t, calls[t]>>
      BY <1>b, <1>c, <3>1 DEF Busy, TargetInv
    <3>3. \A x \in Tx : x # target[t] => journal'[x] = journal[x]
      BY <1>7, <1>a DEF CheckBase, WriteJournal, MarkCommitted
    <3> QED BY <3>1, <3>2, <3>3
  <2>2. \A x \in HalfDone' : x \in HalfDone \/ x[1] = t
    BY <2>1 DEF HalfDone
  <2>3. OneTurnAtATime'
    BY <1>a, <1>c, <1>d, <2>1 DEF OneTurnAtATime, Active
  <2>4. TargetInv'
    BY <1>c, <2>1 DEF TargetInv
  <2>5. CallInv'
    <3>1. ~NotBegun(target[t])
      BY <1>a, <2>1 DEF NotBegun
    <3> QED BY <1>c, <2>1, <3>1 DEF CallInv, NotBegun
  <2>6. \A u \in Turn : u # t => pc'[u] \in {"new", "over"}
    BY <1>d, <2>1 DEF Active
  <2> QED BY <1>c, <2>1, <2>2, <2>3, <2>4, <2>5, <2>6 DEF LeftInv
<1>8. ASSUME NEW t \in Turn, NEW x \in Tx, RecoverNext(t, x) PROVE LeftInv'
  <2>1. /\ HalfDone' = HalfDone /\ UNCHANGED <<journal, calls, kept>>
        /\ pc[t] = "recover" /\ pc'[t] \in {"undo", "sweep"} /\ x \in scan[t]
        /\ target'[t] = x /\ scan'[t] = scan[t] \ {x}
        /\ \A u \in Turn : u # t => pc'[u] = pc[u] /\ target'[u] = target[u] /\ scan'[u] = scan[u]
    BY <1>8, <1>a DEF HalfDone, RecoverNext
  <2>2. OneTurnAtATime' /\ CallInv'
    BY <1>a, <1>c, <1>d, <2>1 DEF OneTurnAtATime, Active, CallInv, NotBegun
  <2>3. TargetInv'
    BY <1>c, <2>1 DEF TargetInv
  <2>4. x[1] # t
    BY <1>c, <2>1 DEF TargetInv
  <2>5. \A u \in Turn : u # t => pc'[u] \in {"new", "over"}
    BY <1>d, <2>1 DEF Active
  <2> QED BY <1>c, <2>1, <2>2, <2>3, <2>4, <2>5 DEF LeftInv
<1>9. ASSUME UNCHANGED <<journal, pc, calls, scan, target, kept>> PROVE LeftInv'
  <2>1. HalfDone' = HalfDone
    BY <1>9 DEF HalfDone
  <2>2. OneTurnAtATime' /\ TargetInv' /\ CallInv'
    BY <1>9, <1>c DEF OneTurnAtATime, TargetInv, CallInv, NotBegun
  <2> QED BY <1>9, <1>c, <2>1, <2>2 DEF LeftInv
<1>10. ASSUME NEW t \in Turn, NEW f \in File, Undo(t, f) \/ SaveOne(t, f) \/ ApplyOne(t, f) PROVE LeftInv'
  BY <1>9, <1>10 DEF Undo, SaveOne, ApplyOne
<1>11. ASSUME NEW t \in Turn, NEW f \in File, NEW v \in Value, Stage(t, f, v) PROVE LeftInv'
  BY <1>9, <1>11 DEF Stage
<1>12. CASE Crash
  <2>1. \A u \in Turn : pc'[u] \in {"new", "over"} /\ (pc'[u] = "new" => calls'[u] = 0) /\ scan'[u] = {}
    BY <1>12, <1>a, <1>c DEF Crash, PcStates, Active, TargetInv
  <2>2. OneTurnAtATime' /\ TargetInv'
    BY <2>1 DEF OneTurnAtATime, TargetInv, Active
  <2>3. CallInv'
    BY <1>12, <1>c DEF Crash, CallInv, NotBegun
  <2> QED BY <2>1, <2>2, <2>3 DEF LeftInv
<1>13. ASSUME NEW f \in File, NEW v \in Value, PersonEdit(f, v) PROVE LeftInv'
  BY <1>9, <1>13 DEF PersonEdit
<1>14. CASE UNCHANGED vars
  BY <1>9, <1>14 DEF vars
<1> QED BY <1>1, <1>2, <1>3, <1>4, <1>5, <1>6, <1>7, <1>8, <1>10, <1>11, <1>12, <1>13, <1>14, <1>15 DEF Next

(* Where a turn stands, every half-done commit is one of its own, one it   *)
(* is about to undo and remove, or one it could not remove.                *)
THEOREM TurnsLeave == ASSUME "overlap" \notin Races PROVE Spec => []LeftInv
<1>1. Init => LeftInv
  <2> SUFFICES ASSUME Init PROVE LeftInv
    OBVIOUS
  <2>1. OneTurnAtATime /\ TargetInv /\ CallInv
    BY DEF Init, OneTurnAtATime, TargetInv, CallInv, Active
  <2>2. HalfDone = {}
    BY DEF Init, HalfDone
  <2> QED BY <2>1, <2>2 DEF LeftInv
<1>2. TypeOK /\ TypeOK' /\ LeftInv /\ [Next]_vars => LeftInv'
  BY StepKeepsLeft
<1> QED BY <1>1, <1>2, TypeCorrect, PTL DEF Spec

(* A half-done commit of another turn lies in the folder of a working turn *)
(* only when removing its directory failed under this turn's own recover:  *)
(* none is passed over, whoever edits and whatever else fails, as long as  *)
(* turns follow one another.                                               *)
THEOREM LeavesNothing == ASSUME "overlap" \notin Races PROVE Spec => []NothingLeftBehind
<1>1. LeftInv => NothingLeftBehind
  BY DEF LeftInv, NothingLeftBehind
<1> QED BY <1>1, TurnsLeave, PTL

(* A commit keeps away from the text no step has read, also when writes    *)
(* and removals fail and the person edits over what a failed commit left:  *)
(* one step per action, those that move no file and no work first.         *)
LEMMA StepKeepsUnseen ==
  ASSUME "overlap" \notin Races, "edit" \notin Races, TypeOK, TypeOK', LeftInv, UnseenInv, [Next]_vars
  PROVE  UnseenInv'
<1> USE DEF disk, memory, history
<1>a. /\ pc \in [Turn -> PcStates] /\ todo \in [Turn -> SUBSET File] /\ work \in SUBSET File
      /\ tree \in [File -> Value]
      /\ base \in [Turn -> [File -> Value \cup {Untouched}]]
      /\ edits \in [Turn -> [File -> Value \cup {Untouched}]]
  BY DEF TypeOK
<1>b. \A t, u \in Turn : pc[t] \in Active /\ u # t => pc[u] \in {"new", "over"}
  BY <1>a DEF LeftInv, OneTurnAtATime, PcStates, Active
<1>c. /\ MemoryInv
      /\ \A t \in Turn :
           /\ pc[t] = "stage" => \A f \in work : tree[f] # base[t][f]
           /\ pc[t] \in {"save", "apply"} => Touched(t) \cap work = {} /\ todo[t] \subseteq Touched(t)
  BY DEF UnseenInv
<1>d. ASSUME NEW t \in Turn, pc[t] \notin {"stage", "save", "apply"}
      PROVE  edits[t] = Nothing /\ base[t] = Nothing
  BY <1>d, <1>a, <1>c DEF MemoryInv, Nothing
<1>e. ASSUME NEW t \in Turn, edits'[t] = edits[t] PROVE Touched(t)' = Touched(t)
  BY <1>e DEF Touched
\* No file and no work moves, and each turn stays where it is or is through with its step.
<1>1. ASSUME UNCHANGED <<tree, work>>,
             \A t \in Turn : \/ /\ pc'[t] \notin {"stage", "save", "apply"}
                                /\ edits'[t] = Nothing /\ base'[t] = Nothing
                             \/ /\ UNCHANGED <<pc[t], edits[t], base[t]>>
                                /\ todo'[t] \subseteq todo[t]
      PROVE  UnseenInv'
  <2>1. MemoryInv'
    BY <1>1, <1>c DEF MemoryInv, Nothing
  <2>2. ASSUME NEW t \in Turn, pc'[t] \in {"stage", "save", "apply"}
        PROVE  /\ pc'[t] = "stage" => \A f \in work' : tree'[f] # base'[t][f]
               /\ pc'[t] \in {"save", "apply"} => Touched(t)' \cap work' = {} /\ todo'[t] \subseteq Touched(t)'
    <3>1. UNCHANGED <<pc[t], edits[t], base[t]>> /\ todo'[t] \subseteq todo[t]
      BY <1>1, <2>2
    <3>2. Touched(t)' = Touched(t)
      BY <1>e, <3>1
    <3> QED BY <1>1, <1>c, <3>1, <3>2
  <2> QED BY <2>1, <2>2 DEF UnseenInv
\* Turns that make no step.
<1>2. ASSUME NEW t \in Turn,
             \/ Start(t) \/ UndoDone(t) \/ Recovered(t) \/ EndTurn(t)
             \/ SweepOne(t) \/ SweepDone(t) \/ SweepFails(t) \/ \E x \in Tx : RecoverNext(t, x)
      PROVE  UnseenInv'
  <2>1. /\ UNCHANGED <<tree, work, edits, base>>
        /\ pc[t] \notin {"stage", "save", "apply"} /\ pc'[t] \notin {"stage", "save", "apply"}
        /\ \A u \in Turn : u # t => pc'[u] = pc[u] /\ todo'[u] = todo[u]
    <3>1. CASE Start(t) \/ UndoDone(t) \/ Recovered(t) \/ EndTurn(t)
      BY <3>1, <1>a DEF Start, UndoDone, Recovered, EndTurn
    <3>2. CASE SweepOne(t) \/ SweepDone(t) \/ SweepFails(t)
      BY <3>2, <1>a DEF SweepOne, SweepDone, SweepFails
    <3>3. CASE \E x \in Tx : RecoverNext(t, x)
      BY <3>3, <1>a DEF RecoverNext
    <3> QED BY <1>2, <3>1, <3>2, <3>3
  <2>2. edits'[t] = Nothing /\ base'[t] = Nothing
    BY <1>d, <2>1
  <2> QED BY <1>1, <2>1, <2>2
<1>3. ASSUME NEW t \in Turn, StageRefused(t) \/ GiveUp(t) \/ Fail(t) \/ MarkCommitted(t) PROVE UnseenInv'
  <2>1. Forget(t)
    BY <1>3 DEF StageRefused, GiveUp, Fail, MarkCommitted
  <2>2. /\ UNCHANGED <<tree, work>>
        /\ pc'[t] \in {"ready", "sweep"}
        /\ \A u \in Turn : u # t => UNCHANGED <<pc[u], todo[u]>>
    BY <1>3, <1>a DEF StageRefused, GiveUp, Fail, MarkCommitted
  <2>3. \A u \in Turn : edits'[u] = IF u = t THEN Nothing ELSE edits[u]
    BY <1>a, <2>1 DEF Forget
  <2>4. \A u \in Turn : base'[u] = IF u = t THEN Nothing ELSE base[u]
    BY <1>a, <2>1 DEF Forget
  <2> QED BY <1>1, <2>2, <2>3, <2>4
<1>4. CASE Crash
  <2>1. \A u \in Turn : pc'[u] \notin {"stage", "save", "apply"}
    BY <1>4, <1>a DEF Crash, Active
  <2> QED BY <1>1, <1>4, <2>1 DEF Crash
<1>5. CASE UNCHANGED vars
  BY <1>1, <1>5 DEF vars
<1>6. ASSUME NEW t \in Turn, NEW f \in File, SaveOne(t, f) PROVE UnseenInv'
  <2>1. UNCHANGED <<tree, work, pc, edits, base>> /\ \A u \in Turn : todo'[u] \subseteq todo[u]
    BY <1>6, <1>a DEF SaveOne
  <2> QED BY <1>1, <2>1
\* A step is begun over nothing, stages a file, is checked, written and applied.
<1>7. ASSUME NEW t \in Turn, Begin(t) PROVE UnseenInv'
  <2>1. /\ UNCHANGED <<tree, work, edits, base>> /\ pc[t] = "ready" /\ pc'[t] = "stage"
        /\ \A u \in Turn : u # t => pc'[u] = pc[u]
    BY <1>7, <1>a DEF Begin
  <2>2. \A u \in Turn : u # t => pc'[u] \in {"new", "over"}
    BY <1>b, <2>1 DEF Active
  <2>3. edits[t] = Nothing /\ base[t] = Nothing
    BY <1>d, <2>1
  <2>4. MemoryInv'
    BY <1>c, <2>1 DEF MemoryInv
  <2>5. \A f \in work' : tree'[f] # base'[t][f]
    BY <1>a, <2>1, <2>3, ValueAssumption DEF Nothing, Value
  <2> QED BY <2>1, <2>2, <2>4, <2>5 DEF UnseenInv
<1>8. ASSUME NEW t \in Turn, NEW f \in File, NEW v \in Value, Stage(t, f, v) PROVE UnseenInv'
  <2>1. /\ UNCHANGED <<tree, pc, todo>> /\ pc[t] = "stage"
        /\ base'[t] = [base[t] EXCEPT ![f] = IF base[t][f] = Untouched THEN tree[f] ELSE base[t][f]]
        /\ edits'[t] = [edits[t] EXCEPT ![f] = v]
        /\ work' = IF base[t][f] = Untouched THEN work \ {f} ELSE work
        /\ \A u \in Turn : u # t => edits'[u] = edits[u] /\ base'[u] = base[u]
    BY <1>8, <1>a DEF Stage
  <2>2. \A u \in Turn : u # t => pc'[u] \in {"new", "over"}
    BY <1>b, <2>1 DEF Active
  <2>3. MemoryInv'
    <3> SUFFICES ASSUME NEW u \in Turn, NEW g \in File
                 PROVE  /\ edits'[u][g] = Untouched => base'[u][g] = Untouched
                        /\ base'[u][g] = Untouched => edits'[u][g] = Untouched
                        /\ edits'[u][g] # Untouched => pc'[u] \in {"stage", "save", "apply"}
      BY DEF MemoryInv
    <3>1. v # Untouched /\ tree[f] # Untouched
      BY <1>a, ValueAssumption DEF Value
    <3>2. CASE u = t /\ g = f
      BY <1>a, <2>1, <3>1, <3>2
    <3>3. CASE ~(u = t /\ g = f)
      <4>1. edits'[u][g] = edits[u][g] /\ base'[u][g] = base[u][g] /\ pc'[u] = pc[u]
        BY <1>a, <2>1, <3>3
      <4> QED BY <1>c, <4>1 DEF MemoryInv
    <3> QED BY <3>2, <3>3
  <2>4. \A g \in work' : tree'[g] # base'[t][g]
    <3> TAKE g \in work'
    <3>1. CASE g = f
      BY <1>a, <1>c, <2>1, <3>1
    <3>2. CASE g # f
      BY <1>a, <1>c, <2>1, <3>2
    <3> QED BY <3>1, <3>2
  <2> QED BY <2>1, <2>2, <2>3, <2>4 DEF UnseenInv
<1>9. ASSUME NEW t \in Turn, CheckBase(t) \/ WriteJournal(t) PROVE UnseenInv'
  <2>1. /\ UNCHANGED <<tree, work, edits, base>> /\ pc[t] \in {"stage", "save"} /\ pc'[t] \in {"save", "apply"}
        /\ todo'[t] = Touched(t)
        /\ \A u \in Turn : u # t => pc'[u] = pc[u]
    BY <1>9, <1>a DEF CheckBase, WriteJournal
  <2>2. \A u \in Turn : u # t => pc'[u] \in {"new", "over"}
    BY <1>b, <2>1 DEF Active
  <2>3. Touched(t)' = Touched(t)
    BY <1>e, <2>1
  <2>4. Touched(t) \cap work = {}
    <3>1. CASE CheckBase(t)
      BY <1>c, <3>1 DEF CheckBase, BaseHolds, Touched
    <3>2. CASE WriteJournal(t)
      BY <1>c, <3>2 DEF WriteJournal
    <3> QED BY <1>9, <3>1, <3>2
  <2>5. MemoryInv'
    BY <1>c, <2>1 DEF MemoryInv
  <2> QED BY <2>1, <2>2, <2>3, <2>4, <2>5 DEF UnseenInv
<1>10. ASSUME NEW t \in Turn, NEW f \in File, ApplyOne(t, f) \/ Undo(t, f) PROVE UnseenInv'
  <2>1. /\ UNCHANGED <<pc, edits, base>> /\ pc[t] \in {"apply", "undo"} /\ work' \subseteq work
        /\ \A u \in Turn : todo'[u] \subseteq todo[u]
    BY <1>10, <1>a DEF ApplyOne, Undo
  <2>2. \A u \in Turn : pc'[u] # "stage"
    BY <1>b, <2>1 DEF Active
  <2>3. \A u \in Turn : Touched(u)' = Touched(u)
    BY <1>e, <2>1
  <2>4. MemoryInv'
    BY <1>c, <2>1 DEF MemoryInv
  <2> QED BY <1>c, <2>1, <2>2, <2>3, <2>4 DEF UnseenInv
<1>11. ASSUME NEW f \in File, NEW v \in Value, PersonEdit(f, v) PROVE UnseenInv'
  <2>1. /\ UNCHANGED <<pc, edits, base, todo>>
        /\ \A t \in Turn : pc[t] \notin {"save", "apply"}
        /\ \A g \in File : tree'[g] = IF g = f THEN v ELSE tree[g]
        /\ work' \subseteq work \cup {f}
        /\ f \in work' => \A t \in Turn : base[t][f] # v
    BY <1>11, <1>a DEF PersonEdit, Quiet
  <2>2. MemoryInv'
    BY <1>c, <2>1 DEF MemoryInv
  <2>3. ASSUME NEW t \in Turn, pc'[t] = "stage", NEW g \in work' PROVE tree'[g] # base'[t][g]
    <3>1. CASE g = f
      BY <2>1, <2>3, <3>1
    <3>2. CASE g # f
      BY <1>a, <1>c, <2>1, <2>3, <3>2
    <3> QED BY <3>1, <3>2
  <2> QED BY <2>1, <2>2, <2>3 DEF UnseenInv
<1> QED BY <1>2, <1>3, <1>4, <1>5, <1>6, <1>7, <1>8, <1>9, <1>10, <1>11 DEF Next

(* No rename of a commit replaces a text of the person that no step has    *)
(* read, as long as turns follow one another and the person does not save  *)
(* while a commit is being made.  Writes and removals may fail, and the    *)
(* person may edit over the half-done commit a failure or a crash left.    *)
THEOREM CommitsSpareUnseenWork ==
  ASSUME "overlap" \notin Races, "edit" \notin Races PROVE Spec => CommitKeepsUnseenWork
<1>1. Init => UnseenInv
  <2> SUFFICES ASSUME Init PROVE UnseenInv
    OBVIOUS
  <2>1. MemoryInv
    BY DEF Init, MemoryInv, Nothing
  <2> QED BY <2>1 DEF Init, UnseenInv
<1>2. TypeOK /\ TypeOK' /\ LeftInv /\ UnseenInv /\ [Next]_vars => UnseenInv'
  BY StepKeepsUnseen
<1>3. ASSUME TypeOK, LeftInv, UnseenInv, [Next]_vars, NEW t \in Turn, NEW f \in work,
             pc[t] = "apply", f \in todo[t], f \notin todo'[t]
      PROVE  tree'[f] = tree[f]
  <2>1. f \notin todo[t]
    BY <1>3 DEF UnseenInv
  <2> QED BY <1>3, <2>1
<1>4. TypeOK /\ LeftInv /\ UnseenInv /\ [Next]_vars
        => [\A t \in Turn, f \in work :
              pc[t] = "apply" /\ f \in todo[t] /\ f \notin todo'[t] => tree'[f] = tree[f]]_vars
  BY <1>3
<1> QED BY <1>1, <1>2, <1>4, TurnsLeave, TypeCorrect, PTL DEF Spec, CommitKeepsUnseenWork

(* A text of the person that no step has read survives every commit and    *)
(* every recovery when the process crashes at any instant but the person   *)
(* waits for the next turn's recover before editing.                       *)
THEOREM UnseenWork == ASSUME Races = {} PROVE Spec => KeepsUnseenWork
<1>1. ASSUME TypeOK, IInv, [Next]_vars, NEW f \in work, tree'[f] # tree[f]
      PROVE  f \in work' \/ good'[f] # good[f]
  <2>0. f \in File /\ tree[f] = good[f]
    <3>1. f \in File
      BY <1>1 DEF TypeOK
    <3>2. \A x \in Tx : ~Undoable(x, f)
      BY <1>1, <3>1 DEF IInv, WorkInv, HalfDone, Undoable, Listed
    <3> QED BY <1>1, <3>1, <3>2 DEF IInv, GoodInv
  <2>1. ASSUME NEW t \in Turn, NEW g \in File, Undo(t, g) \/ ApplyOne(t, g) PROVE FALSE
    <3>1. g \in todo[t] /\ pc[t] \in {"undo", "apply"}
      BY <2>1 DEF Undo, ApplyOne, First
    <3>2. g \notin work
      <4>1. CASE pc[t] = "apply"
        BY <1>1, <3>1, <4>1 DEF IInv, ApplyInv
      <4>2. CASE pc[t] = "undo"
        BY <1>1, <3>1, <4>2 DEF IInv, UndoInv, HalfDoneInv, WorkInv
      <4> QED BY <3>1, <4>1, <4>2
    <3>3. tree'[f] = tree[f]
      BY <1>1, <2>0, <2>1, <3>2 DEF Undo, ApplyOne, TypeOK
    <3> QED BY <1>1, <3>3
  <2>2. ASSUME NEW g \in File, NEW v \in Value, PersonEdit(g, v) PROVE good'[f] # good[f]
    <3>1. tree'[f] = good'[f]
      BY <1>1, <2>0, <2>2 DEF PersonEdit, TypeOK
    <3> QED BY <1>1, <2>0, <3>1
  <2>3. \/ tree' = tree
        \/ \E t \in Turn, g \in File : Undo(t, g) \/ ApplyOne(t, g)
        \/ \E g \in File, v \in Value : PersonEdit(g, v)
    BY <1>1, TreeMoves
  <2> QED BY <1>1, <2>1, <2>2, <2>3
<1>2. TypeOK /\ IInv /\ [Next]_vars
        => [\A f \in work : tree'[f] # tree[f] => f \in work' \/ good'[f] # good[f]]_vars
  BY <1>1
<1> QED BY <1>2, TypeCorrect, Inductive, PTL DEF Spec, KeepsUnseenWork

(* Undoing a half-done step brings back the good text of each file and     *)
(* never undoes a step that was committed.                                 *)
THEOREM UndoIsExact == ASSUME Races = {} PROVE Spec => UndoKeepsCommitted
<1>1. ASSUME TypeOK, IInv, IInv', [Next]_vars, NEW t \in Turn, NEW f \in File,
             pc[t] = "undo", f \in todo[t], f \notin todo'[t], tree'[f] # tree[f]
      PROVE  tree'[f] = good[f]
  <2>1. ASSUME NEW u \in Turn, NEW g \in File, Undo(u, g) PROVE tree'[f] = good[f]
    <3>1. pc'[t] = "undo" /\ target' = target /\ entry' = entry /\ good' = good
      BY <1>1, <2>1 DEF Undo, disk
    <3>2. f \in Listed(target[t]) /\ Listed(target[t])' = Listed(target[t])
      BY <1>1, <3>1 DEF IInv, UndoInv, Listed
    <3> QED BY <1>1, <3>1, <3>2 DEF IInv, UndoInv
  <2>2. ASSUME NEW u \in Turn, NEW g \in File, ApplyOne(u, g) PROVE FALSE
    BY <1>1, <2>2 DEF ApplyOne, IInv, OneTurnAtATime, Active
  <2>3. ASSUME NEW g \in File, NEW v \in Value, PersonEdit(g, v) PROVE FALSE
    BY <1>1, <2>3 DEF PersonEdit, memory
  <2>4. \/ tree' = tree
        \/ \E u \in Turn, g \in File : Undo(u, g) \/ ApplyOne(u, g)
        \/ \E g \in File, v \in Value : PersonEdit(g, v)
    BY <1>1, TreeMoves
  <2> QED BY <1>1, <2>1, <2>2, <2>3, <2>4
<1>2. TypeOK /\ IInv /\ IInv' /\ [Next]_vars
        => [\A t \in Turn, f \in File :
              pc[t] = "undo" /\ f \in todo[t] /\ f \notin todo'[t] /\ tree'[f] # tree[f]
                => tree'[f] = good[f]]_vars
  BY <1>1
<1> QED BY <1>2, TypeCorrect, Inductive, PTL DEF Spec, UndoKeepsCommitted

(* Whatever a commit is about to replace is on disk, listed by a journal   *)
(* that says it is half-done.                                              *)
THEOREM JournalFirst == ASSUME Races = {} PROVE Spec => JournalBeforeTree
<1>1. IInv => \A t \in Turn, f \in File :
        pc[t] = "apply" /\ f \in todo[t]
          => /\ journal[target[t]] = "committing"
             /\ f \in Listed(target[t])
             /\ pre[target[t]][f] = tree[f]
  <2> SUFFICES ASSUME IInv, NEW t \in Turn, NEW f \in File, pc[t] = "apply", f \in todo[t]
               PROVE  /\ journal[target[t]] = "committing"
                      /\ f \in Listed(target[t])
                      /\ pre[target[t]][f] = tree[f]
    OBVIOUS
  <2>1. f \in Touched(t) /\ tree[f] = pre[target[t]][f]
    BY DEF IInv, ApplyInv
  <2>2. Undoable(target[t], f)
    BY <2>1 DEF IInv, ApplyInv
  <2> QED BY <2>1, <2>2 DEF Undoable, Listed
<1>2. IInv => [\A t \in Turn, f \in File :
                 pc[t] = "apply" /\ f \in todo[t] /\ tree'[f] # tree[f]
                   => /\ journal[target[t]] = "committing"
                      /\ f \in Listed(target[t])
                      /\ pre[target[t]][f] = tree[f]]_vars
  BY <1>1
<1> QED BY <1>2, Inductive, PTL DEF Spec, JournalBeforeTree

-----------------------------------------------------------------------------
(* Seen through what recover would put back, the project is always good.   *)
LEMMA RestoredIsGood == TypeOK /\ IInv => Restored = good
<1> SUFFICES ASSUME TypeOK, IInv PROVE Restored = good
  OBVIOUS
<1>1. ASSUME NEW f \in File PROVE Restored[f] = good[f]
  <2>1. CASE \E x \in Tx : Undoable(x, f)
    <3> DEFINE x == CHOOSE x \in Tx : Undoable(x, f)
    <3>1. x \in Tx /\ Undoable(x, f)
      BY <2>1
    <3>2. Restored[f] = pre[x][f]
      BY <2>1 DEF Restored
    <3> HIDE DEF x
    <3> QED BY <3>1, <3>2 DEF IInv, GoodInv
  <2>2. CASE \A x \in Tx : ~Undoable(x, f)
    <3>1. Restored[f] = tree[f]
      BY <2>2 DEF Restored
    <3> QED BY <2>2, <3>1 DEF IInv, GoodInv
  <2> QED BY <2>1, <2>2
<1>2. good = [f \in File |-> good[f]]
  BY DEF TypeOK
<1> QED BY <1>1, <1>2 DEF Restored

(* One step of the transaction, seen through Restored, is one step of the  *)
(* atomic specification or none.                                           *)
LEMMA StepRefines ==
  ASSUME TypeOK, IInv, Restored = good, (Restored = good)', [Next]_vars
  PROVE  [Atomic!Next]_Atomic!vars
<1>1. Restored = good /\ Restored' = good'
  OBVIOUS
<1> USE DEF disk, memory, history
<1>2. ASSUME UNCHANGED <<good, base, edits>> PROVE UNCHANGED Atomic!vars
  BY <1>1, <1>2 DEF Atomic!vars
<1>3. ASSUME NEW t \in Turn, Forget(t), good' = good PROVE Atomic!Next
  BY <1>1, <1>3 DEF Atomic!Next, Atomic!Abandon, Atomic!Forget, Atomic!Nothing, Forget, Nothing
<1>4. ASSUME NEW t \in Turn, NEW f \in File, NEW v \in Value, Stage(t, f, v) PROVE Atomic!Next
  <2>1. \A x \in Tx : ~Undoable(x, f)
    BY <1>4 DEF Stage, IInv, HalfDoneInv, HalfDone, Undoable
  <2>2. tree[f] = Restored[f]
    BY <1>1, <2>1 DEF IInv, GoodInv
  <2>3. Atomic!Stage(t, f, v)
    BY <1>1, <1>4, <2>2 DEF Stage, Atomic!Stage
  <2> QED BY <2>3 DEF Atomic!Next
<1>5. ASSUME NEW t \in Turn, MarkCommitted(t) PROVE Atomic!Next
  <2>1. ASSUME NEW f \in File, edits[t][f] # Untouched PROVE good[f] = base[t][f]
    <3>1. f \in Touched(t) /\ target[t] \in Tx
      BY <1>5, <2>1 DEF Touched, MarkCommitted, TypeOK, Busy
    <3>2. Undoable(target[t], f) /\ pre[target[t]][f] = base[t][f]
      BY <1>5, <3>1 DEF MarkCommitted, IInv, ApplyInv
    <3> QED BY <3>1, <3>2 DEF IInv, GoodInv
  <2>2. good' = Overlay(good, edits[t]) /\ Forget(t)
    BY <1>5 DEF MarkCommitted
  <2>3. Atomic!Commit(t)
    BY <1>1, <2>1, <2>2 DEF Atomic!Commit, Atomic!Overlay, Overlay, Atomic!Forget, Atomic!Nothing, Forget, Nothing
  <2> QED BY <2>3 DEF Atomic!Next
<1>6. CASE Crash
  BY <1>1, <1>6 DEF Crash, Atomic!Next, Atomic!AbandonAll, Atomic!Nothing, Nothing
<1>7. ASSUME NEW f \in File, NEW v \in Value, PersonEdit(f, v) PROVE Atomic!Next
  BY <1>1, <1>7 DEF PersonEdit, Atomic!Next, Atomic!PersonEdit
<1>8. ASSUME NEW t \in Turn,
             \/ Start(t) \/ UndoDone(t) \/ Recovered(t) \/ SweepOne(t) \/ SweepDone(t)
             \/ SweepFails(t) \/ Begin(t) \/ CheckBase(t) \/ WriteJournal(t) \/ EndTurn(t)
             \/ \E x \in Tx : RecoverNext(t, x)
             \/ \E f \in File : Undo(t, f) \/ SaveOne(t, f) \/ ApplyOne(t, f)
      PROVE  UNCHANGED Atomic!vars
  <2>1. UNCHANGED <<good, base, edits>>
    BY <1>8 DEF Start, UndoDone, Recovered, SweepOne, SweepDone, SweepFails, Begin, CheckBase, WriteJournal,
       EndTurn, RecoverNext, Undo, SaveOne, ApplyOne
  <2> QED BY <1>2, <2>1
<1>9. ASSUME NEW t \in Turn, StageRefused(t) \/ GiveUp(t) \/ Fail(t) PROVE Atomic!Next
  BY <1>3, <1>9 DEF StageRefused, GiveUp, Fail
<1>10. CASE UNCHANGED vars
  BY <1>2, <1>10 DEF vars
<1> QED BY <1>4, <1>5, <1>6, <1>7, <1>8, <1>9, <1>10 DEF Next

(* The transaction implements the atomic step, whatever crashes: the       *)
(* commit point is the rename that makes the journal say "committed".      *)
THEOREM Refinement == ASSUME Races = {} PROVE Spec => ImplementsAtomicTree
<1>1. Init => Atomic!Init
  <2> SUFFICES ASSUME Init PROVE Atomic!Init
    OBVIOUS
  <2>1. \A x \in Tx, f \in File : ~Undoable(x, f)
    BY DEF Init, Undoable
  <2>2. Restored = tree
    <3>1. \A f \in File : Restored[f] = tree[f]
      BY <2>1 DEF Restored
    <3> QED BY <3>1 DEF Restored, Init
  <2> QED BY <2>2 DEF Init, Atomic!Init, Nothing, Atomic!Nothing
<1>2. TypeOK /\ IInv /\ Restored = good /\ (Restored = good)' /\ [Next]_vars
        => [Atomic!Next]_Atomic!vars
  BY StepRefines
<1> QED BY <1>1, <1>2, RestoredIsGood, TypeCorrect, Inductive, PTL DEF Spec, ImplementsAtomicTree, Atomic!Spec

=============================================================================
