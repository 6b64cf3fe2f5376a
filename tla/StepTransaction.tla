-------------------------- MODULE StepTransaction --------------------------
(***************************************************************************)
(* The step transaction of the host daemon (runtime/transaction.rs), as    *)
(* the step runtime uses it (runtime/step.rs) and as an agent turn         *)
(* recovers it when it begins (agent/mod.rs).                              *)
(*                                                                         *)
(* A turn works in one project folder.  It first runs recover over every   *)
(* directory left under .sdc/tx, then makes steps; a step is a             *)
(* transaction: the base of each touched file is remembered, the base is   *)
(* checked, pre-images and a journal are made durable, the files are       *)
(* renamed into place one at a time, the journal is marked committed, and  *)
(* the directory is removed.  The process may die between any two of these *)
(* and a person edits the same folder.                                     *)
(*                                                                         *)
(* Abstractions: a file's text is a model value and equal hashes are equal *)
(* texts; the shadow copy (nothing of the protocol reads it) and the       *)
(* folders above a file are left out; the id of a transaction is the turn  *)
(* and the number of its call.  Races names what the environment may do    *)
(* beyond crashing: see its comment.                                       *)
(***************************************************************************)
EXTENDS Naturals

CONSTANTS
  File,      \* project-relative paths, as numbers in the order of the BTreeMap
  Content,   \* texts a file may hold
  Absent,    \* the file does not exist
  Untouched, \* the step has not named this file
  Turn,      \* agent turns that may run in the folder
  MaxSteps,  \* bound: the steps of one turn
  Races      \* a subset of RaceKinds

(* What the environment may do beyond a crash:                             *)
(*   "overlap"  a turn begins while another one works in the same folder   *)
(*              (nothing in engine.start forbids it)                       *)
(*   "edit"     the person writes a file while a commit is being made or   *)
(*              undone                                                     *)
(*   "wait"     the person writes a file while a commit that a crash or a  *)
(*              failing write cut short waits for recover                  *)
(*   "io"       writing or removing a file or a directory fails            *)
RaceKinds == {"overlap", "edit", "wait", "io"}

ASSUME FileAssumption == File \subseteq Nat
ASSUME ValueAssumption == Absent \notin Content /\ Untouched \notin Content \cup {Absent}
ASSUME StepsAssumption == MaxSteps \in Nat
ASSUME RacesAssumption == Races \subseteq RaceKinds

VARIABLES
  tree,     \* the real files
  journal,  \* per transaction: its directory and the state of its journal.json
  entry,    \* per transaction: the journal's entries (pre: none / a hash)
  pre,      \* per transaction: the bytes in pre/
  pc,       \* per turn: where it is
  calls,    \* per turn: the steps it has begun
  base,     \* per turn: Transaction.base of the step being made
  edits,    \* per turn: Transaction.edits of the step being made
  todo,     \* per turn: files the loop it is in has still to visit
  scan,     \* per turn: transactions recover has still to look at
  target,   \* per turn: the transaction it is writing, undoing or removing
  kept,     \* history, per turn: directories its recover could not remove
  good,     \* history: the files as commits and the person have made them
  work      \* history: files that hold a text of the person no step has read

disk == <<journal, entry, pre>>
memory == <<pc, calls, base, edits, todo, scan, target>>
history == <<kept, good, work>>
vars == <<tree, disk, memory, history>>

Value == Content \cup {Absent}
Tx == Turn \X (1..MaxSteps)
NoTx == <<>>

(* journal.json may be missing although the directory exists.              *)
JournalStates == {"no dir", "no journal", "committing", "committed"}
EntryKinds == {"untouched", "created", "existed"}
Active == {"recover", "undo", "sweep", "ready", "stage", "save", "apply"}
Busy == {"undo", "sweep", "stage", "save", "apply"}
PcStates == Active \cup {"new", "over"}

Nothing == [f \in File |-> Untouched]
Touched(t) == {f \in File : edits[t][f] # Untouched}
First(f, S) == f \in S /\ \A g \in S : f <= g
Overlay(old, new) == [f \in File |-> IF new[f] = Untouched THEN old[f] ELSE new[f]]

(* The files an undo of x puts back, as the journal lists them.            *)
Listed(x) == {f \in File : entry[x][f] # "untouched"}
Present(x) == journal[x] # "no dir"
HalfDone == {x \in Tx : journal[x] = "committing"}

TypeOK ==
  /\ tree \in [File -> Value]
  /\ good \in [File -> Value]
  /\ work \in SUBSET File
  /\ journal \in [Tx -> JournalStates]
  /\ entry \in [Tx -> [File -> EntryKinds]]
  /\ pre \in [Tx -> [File -> Value]]
  /\ pc \in [Turn -> PcStates]
  /\ calls \in [Turn -> 0..MaxSteps]
  /\ base \in [Turn -> [File -> Value \cup {Untouched}]]
  /\ edits \in [Turn -> [File -> Value \cup {Untouched}]]
  /\ todo \in [Turn -> SUBSET File]
  /\ scan \in [Turn -> SUBSET Tx]
  /\ target \in [Turn -> Tx \cup {NoTx}]
  /\ kept \in [Turn -> SUBSET Tx]
  /\ \A t \in Turn : pc[t] \in Busy => target[t] \in Tx

Init ==
  /\ tree \in [File -> Value]
  /\ good = tree
  /\ work = {}
  /\ kept = [t \in Turn |-> {}]
  /\ journal = [x \in Tx |-> "no dir"]
  /\ entry = [x \in Tx |-> [f \in File |-> "untouched"]]
  /\ pre = [x \in Tx |-> [f \in File |-> Absent]]
  /\ pc = [t \in Turn |-> "new"]
  /\ calls = [t \in Turn |-> 0]
  /\ base = [t \in Turn |-> Nothing]
  /\ edits = [t \in Turn |-> Nothing]
  /\ todo = [t \in Turn |-> {}]
  /\ scan = [t \in Turn |-> {}]
  /\ target = [t \in Turn |-> NoTx]

-----------------------------------------------------------------------------
(* The start of a turn: recover(root).                                     *)

(* agent/mod.rs calls recover before anything else touches the project;    *)
(* recover lists the directories under .sdc/tx.                            *)
Start(t) ==
  /\ pc[t] = "new"
  /\ "overlap" \in Races \/ \A u \in Turn : pc[u] \notin Active
  /\ pc' = [pc EXCEPT ![t] = "recover"]
  /\ scan' = [scan EXCEPT ![t] = {x \in Tx : Present(x)}]
  /\ UNCHANGED <<tree, disk, calls, base, edits, todo, target, history>>

(* Slips PROJECT.json lists as mutants: each is defined just before the    *)
(* action it would replace.  Here: recover rolls nothing back, ...         *)
RecoverRollsNothingBack(t, x) ==
  /\ pc[t] = "recover"
  /\ x \in scan[t]
  /\ scan' = [scan EXCEPT ![t] = @ \ {x}]
  /\ target' = [target EXCEPT ![t] = x]
  /\ pc' = [pc EXCEPT ![t] = "sweep"]
  /\ UNCHANGED <<tree, disk, calls, base, edits, todo, history>>

(* ... or rolls a committed journal back too.                              *)
RecoverRollsCommittedBack(t, x) ==
  /\ pc[t] = "recover"
  /\ x \in scan[t]
  /\ scan' = [scan EXCEPT ![t] = @ \ {x}]
  /\ target' = [target EXCEPT ![t] = x]
  /\ pc' = [pc EXCEPT ![t] = "undo"]
  /\ todo' = [todo EXCEPT ![t] = Listed(x)]
  /\ UNCHANGED <<tree, disk, calls, base, edits, history>>

(* One directory: a "committing" journal is rolled back, anything else is  *)
(* only removed.  The journal is read here, once.                          *)
RecoverNext(t, x) ==
  /\ pc[t] = "recover"
  /\ x \in scan[t]
  /\ scan' = [scan EXCEPT ![t] = @ \ {x}]
  /\ target' = [target EXCEPT ![t] = x]
  /\ IF journal[x] = "committing"
       THEN /\ pc' = [pc EXCEPT ![t] = "undo"]
            /\ todo' = [todo EXCEPT ![t] = Listed(x)]
       ELSE /\ pc' = [pc EXCEPT ![t] = "sweep"]
            /\ UNCHANGED todo
  /\ UNCHANGED <<tree, disk, calls, base, edits, history>>

(* One entry of a half-done journal.  A file that existed is put back from *)
(* its pre-image when the pre-image can be read, a file the step created   *)
(* is removed.  Every failure here is ignored by the code.                 *)
Undo(t, f) ==
  LET x == target[t]
      back == IF entry[x][f] = "created" THEN Absent
              ELSE IF pre[x][f] # Absent THEN pre[x][f] ELSE tree[f]
  IN  /\ pc[t] = "undo"
      /\ First(f, todo[t])
      /\ todo' = [todo EXCEPT ![t] = @ \ {f}]
      /\ \/ /\ tree' = [tree EXCEPT ![f] = back]
            /\ work' = IF back = tree[f] THEN work ELSE work \ {f}
         \/ /\ "io" \in Races
            /\ UNCHANGED <<tree, work>>
      /\ UNCHANGED <<disk, pc, calls, base, edits, scan, target, good, kept>>

(* Slip: recover stops after the first directory.                          *)
RecoveredTooSoon(t) ==
  /\ pc[t] = "recover"
  /\ pc' = [pc EXCEPT ![t] = "ready"]
  /\ UNCHANGED <<tree, disk, calls, base, edits, todo, scan, target, history>>

UndoDone(t) ==
  /\ pc[t] = "undo"
  /\ todo[t] = {}
  /\ pc' = [pc EXCEPT ![t] = "sweep"]
  /\ UNCHANGED <<tree, disk, calls, base, edits, todo, scan, target, history>>

Recovered(t) ==
  /\ pc[t] = "recover"
  /\ scan[t] = {}
  /\ pc' = [pc EXCEPT ![t] = "ready"]
  /\ UNCHANGED <<tree, disk, calls, base, edits, todo, scan, target, history>>

(* remove_dir_all: the journal and the pre-images go one by one, in an     *)
(* order nobody chooses, so a crash may leave any part of them.            *)
SweepOne(t) ==
  LET x == target[t]
  IN  /\ pc[t] = "sweep"
      /\ \/ /\ journal[x] \in {"committing", "committed"}
            /\ journal' = [journal EXCEPT ![x] = "no journal"]
            /\ UNCHANGED pre
         \/ \E f \in File :
              /\ pre[x][f] # Absent
              /\ pre' = [pre EXCEPT ![x][f] = Absent]
              /\ UNCHANGED journal
      /\ UNCHANGED <<tree, entry, memory, history>>

(* Slip: the loop is not left when the directory is gone.                  *)
SweepDoneStays(t) ==
  /\ pc[t] = "sweep"
  /\ journal' = [journal EXCEPT ![target[t]] = "no dir"]
  /\ target' = [target EXCEPT ![t] = NoTx]
  /\ UNCHANGED <<tree, entry, pre, pc, calls, base, edits, todo, scan, history>>

(* The directory is gone.  recover goes on with the next one; a step that  *)
(* removed its own directory is over.                                      *)
SweepDone(t) ==
  LET x == target[t]
  IN  /\ pc[t] = "sweep"
      /\ journal[x] \notin {"committing", "committed"}
      /\ \A f \in File : pre[x][f] = Absent
      /\ journal' = [journal EXCEPT ![x] = "no dir"]
      /\ entry' = [entry EXCEPT ![x] = [f \in File |-> "untouched"]]
      /\ target' = [target EXCEPT ![t] = NoTx]
      /\ pc' = [pc EXCEPT ![t] = IF x[1] = t THEN "ready" ELSE "recover"]
      /\ UNCHANGED <<tree, pre, calls, base, edits, todo, scan, history>>

(* remove_dir_all fails with any part of the directory still there, and    *)
(* nobody looks at the error: recover goes on and the turn begins, or the  *)
(* step is over, with a journal that a later recover finds.                *)
SweepFails(t) ==
  LET x == target[t]
  IN  /\ "io" \in Races
      /\ pc[t] = "sweep"
      /\ target' = [target EXCEPT ![t] = NoTx]
      /\ pc' = [pc EXCEPT ![t] = IF x[1] = t THEN "ready" ELSE "recover"]
      /\ kept' = [kept EXCEPT ![t] = IF x[1] = t THEN @ ELSE @ \cup {x}]
      /\ UNCHANGED <<tree, disk, calls, base, edits, todo, scan, good, work>>

-----------------------------------------------------------------------------
(* A step.                                                                 *)

(* Transaction::begin_light: an empty directory of its own.                *)
Begin(t) ==
  LET x == <<t, calls[t] + 1>>
  IN  /\ pc[t] = "ready"
      /\ calls[t] < MaxSteps
      /\ calls' = [calls EXCEPT ![t] = @ + 1]
      /\ target' = [target EXCEPT ![t] = x]
      /\ journal' = [journal EXCEPT ![x] = "no journal"]
      /\ pc' = [pc EXCEPT ![t] = "stage"]
      /\ UNCHANGED <<tree, entry, pre, base, edits, todo, scan, history>>

(* Transaction::write and Transaction::delete: the base of a file is what  *)
(* it held when the step first named it.                                   *)
Stage(t, f, v) ==
  /\ pc[t] = "stage"
  /\ base' = [base EXCEPT ![t][f] = IF @ = Untouched THEN tree[f] ELSE @]
  /\ edits' = [edits EXCEPT ![t][f] = v]
  /\ work' = IF base[t][f] = Untouched THEN work \ {f} ELSE work
  /\ UNCHANGED <<tree, disk, pc, calls, todo, scan, target, good, kept>>

(* The Transaction value is consumed: finish takes it by value.            *)
Forget(t) ==
  /\ base' = [base EXCEPT ![t] = Nothing]
  /\ edits' = [edits EXCEPT ![t] = Nothing]

(* step::apply gives up on a path it may not write: the transaction is     *)
(* dropped and its directory stays for a later recover.                    *)
StageRefused(t) ==
  /\ pc[t] = "stage"
  /\ pc' = [pc EXCEPT ![t] = "ready"]
  /\ target' = [target EXCEPT ![t] = NoTx]
  /\ Forget(t)
  /\ UNCHANGED <<tree, disk, calls, todo, scan, history>>

BaseHolds(t) == \A f \in Touched(t) : tree[f] = base[t][f]

(* finish(false), a step without edits, and a base that changed: nothing   *)
(* is written and the directory is removed.                                *)
GiveUp(t) ==
  /\ pc[t] = "stage"
  /\ pc' = [pc EXCEPT ![t] = "sweep"]
  /\ Forget(t)
  /\ UNCHANGED <<tree, disk, calls, todo, scan, target, history>>

(* Slip: the base is not compared.                                         *)
CheckNothing(t) ==
  /\ pc[t] = "stage"
  /\ Touched(t) # {}
  /\ pc' = [pc EXCEPT ![t] = "save"]
  /\ todo' = [todo EXCEPT ![t] = Touched(t)]
  /\ UNCHANGED <<tree, disk, calls, base, edits, scan, target, history>>

(* finish(true) over a base that still holds: create_dir_all makes pre/,   *)
(* and the directory above it should another turn have removed it.         *)
CheckBase(t) ==
  /\ pc[t] = "stage"
  /\ Touched(t) # {}
  /\ BaseHolds(t)
  /\ journal' = [journal EXCEPT ![target[t]] = IF @ = "no dir" THEN "no journal" ELSE @]
  /\ pc' = [pc EXCEPT ![t] = "save"]
  /\ todo' = [todo EXCEPT ![t] = Touched(t)]
  /\ UNCHANGED <<tree, entry, pre, calls, base, edits, scan, target, history>>

(* The pre-image of one file, synced, and its entry.  A file the step      *)
(* creates has no pre-image to write.                                      *)
SaveOne(t, f) ==
  LET x == target[t]
  IN  /\ pc[t] = "save"
      /\ First(f, todo[t])
      /\ Present(x) \/ tree[f] = Absent
      /\ todo' = [todo EXCEPT ![t] = @ \ {f}]
      /\ pre' = [pre EXCEPT ![x][f] = tree[f]]
      /\ entry' = [entry EXCEPT ![x][f] = IF tree[f] = Absent THEN "created" ELSE "existed"]
      /\ UNCHANGED <<tree, journal, pc, calls, base, edits, scan, target, history>>

(* Slip: the files are renamed before the journal is written.              *)
WriteNoJournal(t) ==
  /\ pc[t] = "save"
  /\ todo[t] = {}
  /\ pc' = [pc EXCEPT ![t] = "apply"]
  /\ todo' = [todo EXCEPT ![t] = Touched(t)]
  /\ UNCHANGED <<tree, disk, calls, base, edits, scan, target, history>>

(* journal.json, "committing": from here a crash is undone.                *)
WriteJournal(t) ==
  /\ pc[t] = "save"
  /\ todo[t] = {}
  /\ Present(target[t])
  /\ journal' = [journal EXCEPT ![target[t]] = "committing"]
  /\ pc' = [pc EXCEPT ![t] = "apply"]
  /\ todo' = [todo EXCEPT ![t] = Touched(t)]
  /\ UNCHANGED <<tree, entry, pre, calls, base, edits, scan, target, history>>

(* One rename (atomic) or one removal; a removal that fails is ignored.    *)
ApplyOne(t, f) ==
  /\ pc[t] = "apply"
  /\ First(f, todo[t])
  /\ todo' = [todo EXCEPT ![t] = @ \ {f}]
  /\ \/ /\ tree' = [tree EXCEPT ![f] = edits[t][f]]
        /\ work' = IF edits[t][f] = tree[f] THEN work ELSE work \ {f}
     \/ /\ "io" \in Races
        /\ edits[t][f] = Absent
        /\ UNCHANGED <<tree, work>>
  /\ UNCHANGED <<disk, pc, calls, base, edits, scan, target, good, kept>>

(* Slip: the journal says "committed" before the last file is in place.    *)
MarkCommittedEarly(t) ==
  /\ pc[t] = "apply"
  /\ Present(target[t])
  /\ journal' = [journal EXCEPT ![target[t]] = "committed"]
  /\ good' = Overlay(good, edits[t])
  /\ pc' = [pc EXCEPT ![t] = "sweep"]
  /\ Forget(t)
  /\ UNCHANGED <<tree, entry, pre, calls, todo, scan, target, work, kept>>

(* The journal says "committed".  write_journal needs the directory: when  *)
(* another turn's recover removed it the step ends with an error.          *)
MarkCommitted(t) ==
  /\ pc[t] = "apply"
  /\ todo[t] = {}
  /\ Present(target[t])
  /\ journal' = [journal EXCEPT ![target[t]] = "committed"]
  /\ good' = Overlay(good, edits[t])
  /\ pc' = [pc EXCEPT ![t] = "sweep"]
  /\ Forget(t)
  /\ UNCHANGED <<tree, entry, pre, calls, todo, scan, target, work, kept>>

(* An error of the file system leaves the commit where it stands: the      *)
(* caller is told, nothing is rolled back, the directory stays.  Before    *)
(* the journal that is harmless, so it needs no race.                      *)
Fail(t) ==
  /\ \/ pc[t] = "save"
     \/ pc[t] = "apply" /\ ("io" \in Races \/ ~Present(target[t]))
  /\ pc' = [pc EXCEPT ![t] = "ready"]
  /\ todo' = [todo EXCEPT ![t] = {}]
  /\ target' = [target EXCEPT ![t] = NoTx]
  /\ Forget(t)
  /\ UNCHANGED <<tree, disk, calls, scan, history>>

EndTurn(t) ==
  /\ pc[t] = "ready"
  /\ pc' = [pc EXCEPT ![t] = "over"]
  /\ UNCHANGED <<tree, disk, calls, base, edits, todo, scan, target, history>>

-----------------------------------------------------------------------------
(* The environment.                                                        *)

(* kill -9 at any instant: the turns of the process are gone, what the     *)
(* operating system was given stays.                                       *)
Crash ==
  /\ \E t \in Turn : pc[t] \in Active
  /\ pc' = [t \in Turn |-> IF pc[t] \in Active THEN "over" ELSE pc[t]]
  /\ todo' = [t \in Turn |-> {}]
  /\ scan' = [t \in Turn |-> {}]
  /\ target' = [t \in Turn |-> NoTx]
  /\ base' = [t \in Turn |-> Nothing]
  /\ edits' = [t \in Turn |-> Nothing]
  /\ UNCHANGED <<tree, disk, calls, history>>

(* No commit is being made or undone.                                      *)
Quiet == \A t \in Turn : pc[t] \notin {"save", "apply", "undo"}

(* The person saves, creates or removes a file in an editor.  A text a     *)
(* step has already read (undone in the editor) is not unread work.        *)
PersonEdit(f, v) ==
  /\ "edit" \in Races \/ Quiet
  /\ "wait" \in Races \/ ~Quiet \/ HalfDone = {}
  /\ v # tree[f]
  /\ tree' = [tree EXCEPT ![f] = v]
  /\ good' = [good EXCEPT ![f] = v]
  /\ work' = IF \E t \in Turn : base[t][f] = v THEN work \ {f} ELSE work \cup {f}
  /\ UNCHANGED <<disk, memory, kept>>

Next ==
  \/ \E t \in Turn :
       \/ Start(t) \/ UndoDone(t) \/ Recovered(t)
       \/ SweepOne(t) \/ SweepDone(t) \/ SweepFails(t)
       \/ Begin(t) \/ StageRefused(t) \/ GiveUp(t) \/ CheckBase(t)
       \/ WriteJournal(t) \/ MarkCommitted(t) \/ Fail(t) \/ EndTurn(t)
       \/ \E x \in Tx : RecoverNext(t, x)
       \/ \E f \in File : Undo(t, f) \/ SaveOne(t, f) \/ ApplyOne(t, f)
       \/ \E f \in File, v \in Value : Stage(t, f, v)
  \/ Crash
  \/ \E f \in File, v \in Value : PersonEdit(f, v)

Spec == Init /\ [][Next]_vars

-----------------------------------------------------------------------------
(* What the transaction promises.                                          *)

Settled == HalfDone = {} /\ \A t \in Turn : pc[t] \notin {"apply", "undo"}

(* All at once or not at all: whenever no commit is under way and none     *)
(* waits to be undone, the files are exactly what the finished commits and *)
(* the person made of them - whatever crashes, refusals and recoveries     *)
(* came between.                                                           *)
AllOrNothing == Settled => tree = good

(* A text the person wrote and no step has read is never replaced by a     *)
(* commit or by its undoing: the base check catches an edit made while the *)
(* step was being staged.  (work loses a file only when a step reads it,   *)
(* which leaves the file alone, or when the person takes it back.)         *)
(* Undoing breaks this when the person edits before recover has run.       *)
KeepsUnseenWork ==
  [][\A f \in work : tree'[f] # tree[f] => f \in work' \/ good'[f] # good[f]]_vars

(* The half of it that the base check alone promises: no rename of a       *)
(* commit replaces a text no step has read, whatever failed before and     *)
(* although the person goes on working over what a failed commit left.     *)
CommitKeepsUnseenWork ==
  [][\A t \in Turn, f \in work :
       pc[t] = "apply" /\ f \in todo[t] /\ f \notin todo'[t] => tree'[f] = tree[f]]_vars

(* recover puts a file back only to what the commits and the person made   *)
(* of it: undoing a step never undoes another step that was committed.     *)
UndoKeepsCommitted ==
  [][\A t \in Turn, f \in File :
       pc[t] = "undo" /\ f \in todo[t] /\ f \notin todo'[t] /\ tree'[f] # tree[f]
         => tree'[f] = good[f]]_vars

(* Once a turn works on the folder, a half-done commit of another turn is  *)
(* in it only because removing its directory failed under this very turn's *)
(* recover, which had looked at it and put its files back first: recover   *)
(* passes none over, whatever else fails.                                  *)
NothingLeftBehind ==
  \A t \in Turn : pc[t] \in {"ready", "stage", "save", "apply"}
                   => \A x \in HalfDone : x[1] = t \/ x \in kept[t]

(* Before a file of the project changes, what it held is on disk with a    *)
(* journal that lists it, so that a crash at this very instant is undone.  *)
JournalBeforeTree ==
  [][\A t \in Turn, f \in File :
       pc[t] = "apply" /\ f \in todo[t] /\ tree'[f] # tree[f]
         => /\ journal[target[t]] = "committing"
            /\ f \in Listed(target[t])
            /\ pre[target[t]][f] = tree[f]]_vars

-----------------------------------------------------------------------------
(* The files as a recover that ran now would leave them: what a half-done  *)
(* commit replaced and can still put back counts as not replaced.          *)
Undoable(x, f) ==
  /\ journal[x] = "committing"
  /\ entry[x][f] = "created" \/ (entry[x][f] = "existed" /\ pre[x][f] # Absent)

Restored ==
  [f \in File |-> IF \E x \in Tx : Undoable(x, f)
                  THEN pre[CHOOSE x \in Tx : Undoable(x, f)][f]
                  ELSE tree[f]]

Atomic == INSTANCE AtomicTree WITH tree <- Restored

(* The transaction implements the atomic step: seen through the pre-images *)
(* a recover would put back, every step is one change or none, made over   *)
(* the base the step was staged on.  The commit point is the rename that   *)
(* makes the journal say "committed".                                      *)
ImplementsAtomicTree == Atomic!Spec

-----------------------------------------------------------------------------
(* The inductive invariant behind the promises, for an environment that    *)
(* only crashes (Races = {}).                                              *)

OneTurnAtATime ==
  \A t, u \in Turn : pc[t] \in Active /\ pc[u] \in Active => t = u

(* A turn that still recovers has made no step, so what it removes is not  *)
(* its own; a step works on the transaction its turn began last.           *)
TargetInv ==
  \A t \in Turn :
    /\ pc[t] \in {"stage", "save", "apply"} => target[t] = <<t, calls[t]>>
    /\ pc[t] \in {"new", "recover", "undo"} => calls[t] = 0
    /\ pc[t] = "sweep" /\ target[t][1] # t => calls[t] = 0
    /\ pc[t] = "undo" => target[t][1] # t
    /\ \A x \in scan[t] : x[1] # t

NotBegun(x) == x[2] > calls[x[1]]

CallInv == \A x \in Tx : NotBegun(x) => journal[x] = "no dir"

(* What a directory may hold.                                              *)
DirInv ==
  \A x \in Tx, f \in File :
    /\ journal[x] = "no dir" => entry[x][f] = "untouched"
    /\ entry[x][f] # "existed" => pre[x][f] = Absent

(* At most one commit is half-done: the one being applied or undone, or    *)
(* one a crash left for the next turn to find.                             *)
HalfDoneInv ==
  /\ \A x, y \in HalfDone : x = y
  /\ \A t \in Turn :
       /\ pc[t] \in {"ready", "stage", "save"} => HalfDone = {}
       /\ pc[t] \in {"apply", "undo"} => target[t] \in HalfDone
       /\ pc[t] = "recover" => HalfDone \subseteq scan[t]
       /\ pc[t] = "sweep" => HalfDone \subseteq IF target[t][1] = t THEN {} ELSE scan[t] \cup {target[t]}

(* What can be put back is the good text; what cannot is good already.     *)
GoodInv ==
  \A f \in File :
    /\ \A x \in Tx : Undoable(x, f) => pre[x][f] = good[f]
    /\ (\A x \in Tx : ~Undoable(x, f)) => tree[f] = good[f]

MemoryInv ==
  \A t \in Turn, f \in File :
    /\ edits[t][f] = Untouched => base[t][f] = Untouched
    /\ base[t][f] = Untouched => edits[t][f] = Untouched
    /\ edits[t][f] # Untouched => pc[t] \in {"stage", "save", "apply"}

StageInv ==
  \A t \in Turn, f \in File : pc[t] = "stage" =>
    /\ journal[target[t]] = "no journal"
    /\ entry[target[t]][f] = "untouched"
    /\ f \in work => tree[f] # base[t][f]

(* A touched file is as the base check found it; its pre-image is on disk  *)
(* once the loop has passed it.                                            *)
SavedSoFar(t, f) ==
  /\ f \in Touched(t) => f \notin work /\ tree[f] = base[t][f]
  /\ f \notin Touched(t) \/ f \in todo[t] => entry[target[t]][f] = "untouched"
  /\ f \in Touched(t) /\ f \notin todo[t]
       => /\ tree[f] = Absent => entry[target[t]][f] = "created"
          /\ tree[f] # Absent => entry[target[t]][f] = "existed"
          /\ pre[target[t]][f] = tree[f]

SaveInv ==
  \A t \in Turn : pc[t] = "save" =>
    /\ journal[target[t]] = "no journal"
    /\ todo[t] \subseteq Touched(t)
    /\ \A f \in File : SavedSoFar(t, f)

ApplyInv ==
  \A t \in Turn : pc[t] = "apply" =>
    /\ todo[t] \subseteq Touched(t)
    /\ \A f \in File :
         /\ f \in Touched(t) => /\ f \notin work
                                /\ Undoable(target[t], f)
                                /\ pre[target[t]][f] = base[t][f]
         /\ f \notin Touched(t) => entry[target[t]][f] = "untouched"
         /\ f \in todo[t] => tree[f] = pre[target[t]][f]
         /\ f \in Touched(t) /\ f \notin todo[t] => tree[f] = edits[t][f]

UndoInv ==
  \A t \in Turn :
    /\ pc[t] = "undo" => /\ todo[t] \subseteq Listed(target[t])
                         /\ \A f \in Listed(target[t]) \ todo[t] : tree[f] = good[f]
    /\ pc[t] = "sweep" /\ target[t] \in HalfDone => \A f \in File : tree[f] = good[f]

(* No text of the person lies under a commit that may be undone.           *)
WorkInv == \A x \in HalfDone : Listed(x) \cap work = {}

IInv ==
  /\ OneTurnAtATime
  /\ TargetInv
  /\ CallInv
  /\ DirInv
  /\ HalfDoneInv
  /\ GoodInv
  /\ MemoryInv
  /\ StageInv
  /\ SaveInv
  /\ ApplyInv
  /\ UndoInv
  /\ WorkInv

-----------------------------------------------------------------------------
(* What is left of it when the file system fails and the person works at   *)
(* any time: several commits may be half-done, a file need not be good.     *)

(* Where a turn stands, every half-done commit is one of its own, one it   *)
(* has still to look at or is removing, or one it could not remove.  (With *)
(* any Races but "overlap".)                                               *)
LeftInv ==
  /\ OneTurnAtATime
  /\ TargetInv
  /\ CallInv
  /\ \A t \in Turn, x \in HalfDone :
       /\ pc[t] \in {"ready", "stage", "save", "apply"} => x[1] = t \/ x \in kept[t]
       /\ pc[t] = "recover" => x \in scan[t] \cup kept[t]
       /\ pc[t] \in {"undo", "sweep"} /\ target[t][1] # t
            => x \in scan[t] \cup kept[t] \cup {target[t]}
       /\ pc[t] = "sweep" /\ target[t][1] = t => x[1] = t \/ x \in kept[t]

(* What no step has read is not what a step being staged started from, and *)
(* a commit is made of none of it.  (With "wait" and "io".)                *)
UnseenInv ==
  /\ MemoryInv
  /\ \A t \in Turn :
       /\ pc[t] = "stage" => \A f \in work : tree[f] # base[t][f]
       /\ pc[t] \in {"save", "apply"} => Touched(t) \cap work = {} /\ todo[t] \subseteq Touched(t)
=============================================================================
