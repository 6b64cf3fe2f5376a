-------------------------- MODULE TimeMachineProofs --------------------------
(***************************************************************************)
(* What is proved of TimeMachine for every folder, any number of requests  *)
(* in flight and all bounds.                                               *)
(*                                                                         *)
(* Whole is why a folder is never half one checkpoint and half another:    *)
(* one restore at a time has it; a file that is not as wanted is still to  *)
(* be put back, by that restore or, after a crash, by an entry of the      *)
(* journal.  That the entry is there is Journaled, which needs that no two *)
(* requests share an id (OwnIds).  Rows: what a request or a frame carries *)
(* came from the tables.  Counted: every change without a row is counted.  *)
(* Reachable: a turn taken out is in a frame or in a request's hands.      *)
(***************************************************************************)
EXTENDS TimeMachine, SequenceLemmas, FiniteSetTheorems, SequenceTheorems

\* The turns a rewind took, with the state each was in; nobody takes a turn twice.
Taken == UNION {[D -> TurnState \ {"rewound"}] : D \in SUBSET TurnId}

Frames == [id : 1..(2 * MaxOp), rows : SUBSET Row, now : Tree, turns : Taken]
Entries == [id : 1..MaxOp, target : Tree, scope : SUBSET Path]

Resting == [at : {"idle"}, id : {0}]
Writing == [at : {"write"}, id : {0}, path : Path, content : 1..MaxWrite]
Committing == [at : {"commit"}, id : 1..MaxOp, op : {"rewind"}, hide : (SUBSET Row) \ {{}}]
Switching == [at : {"leave", "promote"}, id : 1..MaxOp, chosen : 1..(2 * MaxOp)]
Popping == [at : {"pop"}, id : 1..MaxOp]
Rewinding ==
  [at : {"open", "restore", "restoring", "drop"}, id : 1..MaxOp, op : {"rewind"},
   hide : (SUBSET Row) \ {{}}, now : Tree, target : Tree, scope : SUBSET Path,
   todo : SUBSET Path, back : {<<>>}]
Pushing ==
  [at : {"push"}, id : 1..MaxOp, op : {"rewind"},
   hide : (SUBSET Row) \ {{}}, now : Tree, target : Tree, scope : SUBSET Path,
   todo : SUBSET Path, back : Taken]
Redoing ==
  [at : {"open", "restore", "restoring", "back"}, id : 1..MaxOp, op : {"redo"},
   back : Taken, target : Tree, scope : SUBSET Path, todo : SUBSET Path]
Filing ==
  [at : {"open", "restore", "restoring"}, id : 1..MaxOp, op : {"file"},
   target : Tree, scope : SUBSET Path, todo : SUBSET Path]
Tasks ==
  Resting \cup Writing \cup Committing \cup Switching \cup Popping \cup Rewinding
    \cup Pushing \cup Redoing \cup Filing

Moving(k) == k.at \in {"open", "restore", "restoring"}
\* It carries rows that it hides, or turns that it may put back.
HasRows(k) == k.at \in {"commit", "drop", "push"} \/ (Moving(k) /\ k.op = "rewind")
HasTurns(k) == k.at \in {"push", "back"} \/ (Moving(k) /\ k.op = "redo")

FolderTypes == tree \in Tree /\ want \in [Path -> Content \cup {Either}]
TableTypes ==
  /\ seq \in Nat /\ rows \subseteq Row /\ stack \in Seq(Frames)
  /\ turns \in Seq(TurnState) /\ Len(turns) <= MaxWrite
QueueTypes ==
  /\ queue \in Seq(Pending) /\ batch \in Seq(Pending) /\ commit \subseteq Tree
  /\ owed \subseteq saved /\ saved \subseteq 1..written
CountTypes ==
  /\ written \in 0..MaxWrite /\ ops \in 0..MaxOp /\ fails \in 0..MaxFail
  /\ crashes \in 0..MaxCrash /\ up \in BOOLEAN /\ cut \in BOOLEAN
TaskTypes == task \in [Handler -> Tasks]
JournalTypes == journal \in Seq(Entries)
Types ==
  /\ FolderTypes /\ TableTypes /\ QueueTypes /\ CountTypes /\ TaskTypes
  /\ JournalTypes

\* The rows of a set are from the past, and one stands for one ordinal.
RowsOk(set, last, begun) ==
  /\ \A r \in set : r.turn <= last /\ r.owner <= begun /\ r.after <= begun
  /\ \A r, s \in set : r.turn = s.turn => r = s
Rows ==
  /\ RowsOk(rows, seq, Len(turns))
  /\ \A i \in 1..Len(stack) : /\ RowsOk(stack[i].rows, seq, Len(turns))
                              /\ DOMAIN stack[i].turns \subseteq 1..Len(turns)
  /\ \A h \in Handler :
       /\ HasRows(task[h]) => RowsOk(task[h].hide, seq, Len(turns))
       /\ HasTurns(task[h]) => DOMAIN task[h].back \subseteq 1..Len(turns)

\* Every change without a row waits in the queue or in the worker's hands.
Names(s) == {s[i].name : i \in 1..Len(s)}
Counted ==
  waiting = Len(queue) + Len(batch) /\ owed \subseteq Names(queue) \cup Names(batch)

OwnIds ==
  /\ \A h \in Handler : task[h].id <= ops
  /\ \A g, h \in Handler : task[g].id = task[h].id /\ task[g].id # 0 => g = h

\* An entry of the journal is its restore's, from before it moves to its end.
AtWork(k) == k.at \in {"restore", "restoring"}
EntryOf(e, k) == AtWork(k) /\ e.id = k.id /\ e.target = k.target /\ e.scope = k.scope
Journaled ==
  /\ \A i, j \in 1..Len(journal) : journal[i].id = journal[j].id => i = j
  /\ up => \A i \in 1..Len(journal) : \E h \in Handler : EntryOf(journal[i], task[h])
  /\ \A h \in Handler :
       AtWork(task[h]) => \E i \in 1..Len(journal) : EntryOf(journal[i], task[h])

\* One restore at a time has the folder; a file is as wanted, or still to be put
\* back by that restore or, after a crash, by an entry of the journal.
Fits(p) == want[p] \in {tree[p], Either}
Restoring(k) == k.at = "restoring"
Whole ==
  /\ \A g, h \in Handler : Restoring(task[g]) /\ Restoring(task[h]) => g = h
  /\ \A h \in Handler : Restoring(task[h]) =>
       /\ task[h].todo \subseteq task[h].scope
       /\ \A p \in task[h].todo : want[p] \in {task[h].target[p], Either}
  /\ up => \A p \in Path :
             Fits(p) \/ \E h \in Handler : Restoring(task[h]) /\ p \in task[h].todo
  /\ ~up => \A p \in Path : Fits(p) \/ \E i \in 1..Len(journal) : p \in journal[i].scope
Still == ~up => \A h \in Handler : task[h].at = "idle"

Redoable(t) ==
  \/ \E i \in 1..Len(stack) : t \in DOMAIN stack[i].turns
  \/ \E h \in Handler : HasTurns(task[h]) /\ t \in DOMAIN task[h].back
Reachable == ~cut => \A t \in 1..Len(turns) : turns[t] = "rewound" => Redoable(t)

\* A change that waits carries an ordinal of its past.
Dated ==
  /\ \A i \in 1..Len(queue) : queue[i].turn <= seq
  /\ \A i \in 1..Len(batch) : batch[i].turn <= seq

Consistent ==
  Types /\ Rows /\ Counted /\ OwnIds /\ Journaled /\ Whole /\ Still /\ Reachable
IInv == Consistent /\ Dated

-----------------------------------------------------------------------------
(* The kinds of task. *)

LEMMA TaskKinds ==
  ASSUME NEW k \in Tasks
  PROVE  /\ k.at \in Stages /\ k.id \in 0..MaxOp
         /\ k.at = "idle" => k \in Resting
         /\ k.at = "write" => k \in Writing
         /\ k.at = "commit" => k \in Committing
         /\ k.at \in {"leave", "promote"} => k \in Switching
         /\ k.at = "pop" => k \in Popping
         /\ k.at = "drop" => k \in Rewinding
         /\ k.at = "push" => k \in Pushing
         /\ k.at = "back" => k \in Redoing
         /\ Moving(k) => k \in Rewinding \cup Redoing \cup Filing
         /\ k.at \notin {"idle", "write"} => k.id # 0
BY TimeMachineAssumption DEF Tasks, Stages, Resting, Writing, Committing, Switching,
   Popping, Rewinding, Pushing, Redoing, Filing, Moving

LEMMA MovingKinds ==
  ASSUME NEW k \in Tasks, Moving(k)
  PROVE  /\ k.op \in {"rewind", "redo", "file"}
         /\ k.op = "rewind" => k \in Rewinding
         /\ k.op = "redo" => k \in Redoing
         /\ k.op = "file" => k \in Filing
         /\ k.target \in Tree /\ k.scope \subseteq Path /\ k.todo \subseteq Path
BY TaskKinds DEF Rewinding, Redoing, Filing

LEMMA EmptyIsTaken == <<>> \in Taken /\ DOMAIN <<>> = {}
<1>1. <<>> \in [{} -> TurnState \ {"rewound"}]
  OBVIOUS
<1>2. {} \in SUBSET TurnId
  OBVIOUS
<1>3. \E D \in SUBSET TurnId : <<>> \in [D -> TurnState \ {"rewound"}]
  BY <1>1, <1>2
<1> QED BY <1>3 DEF Taken

LEMMA TakenIs ==
  ASSUME NEW k \in Taken
  PROVE  /\ DOMAIN k \subseteq TurnId
         /\ \A t \in DOMAIN k : k[t] \in TurnState \ {"rewound"}
BY DEF Taken

LEMMA TakenFrom ==
  ASSUME NEW D, D \subseteq TurnId, NEW f, f \in [D -> TurnState \ {"rewound"}]
  PROVE  f \in Taken
BY DEF Taken

LEMMA OldestIsThere ==
  ASSUME NEW set, set \subseteq Row, set # {}
  PROVE  Oldest(set) \in set
<1> DEFINE T == {r.turn : r \in set}
<1>1. T \subseteq Nat /\ T # {}
  BY DEF Row
<1>2. PICK x \in T : \A y \in T : x <= y
  BY <1>1, LeastNumber
<1>3. \E r \in set : \A s \in set : r.turn <= s.turn
  BY <1>2
<1> QED BY <1>3 DEF Oldest

-----------------------------------------------------------------------------
(* One request goes on. *)

LEMMA OnlyItsTask ==
  ASSUME TaskTypes, NEW h \in Handler, NEW rec, Start(h, rec)
  PROVE  /\ task'[h] = rec
         /\ \A g \in Handler : g # h => task'[g] = task[g]
         /\ rec \in Tasks => TaskTypes'
BY DEF TaskTypes, Start

LEMMA RowsStayOk ==
  ASSUME NEW set, set \subseteq Row, NEW m \in Nat, NEW n \in Nat, NEW b \in Nat, NEW c \in Nat,
         RowsOk(set, m, b), m <= n, b <= c
  PROVE  RowsOk(set, n, c)
<1>1. \A r \in set : r.turn \in Nat /\ r.owner \in Nat /\ r.after \in Nat
  BY TimeMachineAssumption DEF Row
<1> QED BY <1>1 DEF RowsOk

\* What the tables and the requests hold stays from the past as time goes on.
LEMMA RowsLater ==
  ASSUME Types, Rows, seq' \in Nat, Len(turns') \in Nat, seq <= seq', Len(turns) <= Len(turns')
  PROVE  /\ RowsOk(rows, seq', Len(turns'))
         /\ \A i \in 1..Len(stack) :
              /\ stack[i] \in Frames
              /\ RowsOk(stack[i].rows, seq', Len(turns'))
              /\ DOMAIN stack[i].turns \subseteq 1..Len(turns')
         /\ \A h \in Handler :
              /\ HasRows(task[h]) => RowsOk(task[h].hide, seq', Len(turns'))
              /\ HasTurns(task[h]) => DOMAIN task[h].back \subseteq 1..Len(turns')
<1>1. seq \in Nat /\ Len(turns) \in Nat /\ rows \subseteq Row
  BY DEF Types, TableTypes
<1>2. \A i \in 1..Len(stack) : stack[i] \in Frames
  BY DEF Types, TableTypes
<1>3. \A i \in 1..Len(stack) : stack[i].rows \subseteq Row
  BY <1>2 DEF Frames
<1>4. \A h \in Handler : HasRows(task[h]) => task[h].hide \subseteq Row
  <2> TAKE h \in Handler
  <2>1. task[h] \in Tasks
    BY DEF Types, TaskTypes
  <2>2. HasRows(task[h]) => task[h] \in Committing \cup Rewinding \cup Pushing
    BY <2>1, TaskKinds, MovingKinds DEF HasRows
  <2> QED BY <2>2 DEF Committing, Rewinding, Pushing
<1>5. RowsOk(rows, seq', Len(turns'))
  BY <1>1, RowsStayOk DEF Rows
<1>6. \A i \in 1..Len(stack) : RowsOk(stack[i].rows, seq', Len(turns'))
  BY <1>1, <1>3, RowsStayOk DEF Rows
<1>7. \A h \in Handler : HasRows(task[h]) => RowsOk(task[h].hide, seq', Len(turns'))
  BY <1>1, <1>4, RowsStayOk DEF Rows
<1>8. 1..Len(turns) \subseteq 1..Len(turns')
  BY <1>1
<1> QED BY <1>2, <1>5, <1>6, <1>7, <1>8 DEF Rows

LEMMA OwnIdsKept ==
  ASSUME OwnIds, NEW h \in Handler, ops \in Nat, ops' \in Nat, ops <= ops',
         \A g \in Handler : task[g].id \in Nat,
         \A g \in Handler : g # h => task'[g] = task[g],
         \/ task'[h].id \in {0, task[h].id}
         \/ task'[h].id = ops' /\ ops' = ops + 1
  PROVE  OwnIds'
BY DEF OwnIds

LEMMA JournaledElsewhere ==
  ASSUME Journaled, NEW h \in Handler, UNCHANGED <<journal, up>>,
         \A g \in Handler : g # h => task'[g] = task[g],
         ~AtWork(task[h]), ~AtWork(task'[h])
  PROVE  Journaled'
<1>1. \A e : \A g \in Handler : EntryOf(e, task[g]) => g # h /\ EntryOf(e, task'[g])
  BY DEF EntryOf
<1>2. \A g \in Handler : AtWork(task'[g]) => g # h /\ AtWork(task[g]) /\ task'[g] = task[g]
  OBVIOUS
<1> QED BY <1>1, <1>2 DEF Journaled

LEMMA WholeElsewhere ==
  ASSUME Whole, NEW h \in Handler, UNCHANGED <<tree, want, up, journal>>,
         \A g \in Handler : g # h => task'[g] = task[g],
         ~Restoring(task[h]), ~Restoring(task'[h])
  PROVE  Whole'
<1>1. \A g \in Handler : Restoring(task[g]) => task'[g] = task[g]
  OBVIOUS
<1>2. \A g \in Handler : Restoring(task'[g]) => Restoring(task[g]) /\ task'[g] = task[g]
  OBVIOUS
<1>3. \A p \in Path : Fits(p) <=> Fits(p)'
  BY DEF Fits
<1> QED BY <1>1, <1>2, <1>3 DEF Whole

LEMMA ReachableElsewhere ==
  ASSUME Reachable, NEW h \in Handler, UNCHANGED <<stack, turns, cut>>,
         \A g \in Handler : g # h => task'[g] = task[g],
         HasTurns(task[h]) => /\ HasTurns(task'[h])
                              /\ DOMAIN task[h].back \subseteq DOMAIN task'[h].back
  PROVE  Reachable'
<1>1. ASSUME NEW t, Redoable(t) PROVE Redoable(t)'
  BY <1>1 DEF Redoable
<1> QED BY <1>1 DEF Reachable

\* A request's step that touches no table but the ordinals.
LEMMA RowsElsewhere ==
  ASSUME Types, Rows, NEW h \in Handler, UNCHANGED <<rows, stack, turns>>,
         seq' \in Nat, seq <= seq',
         \A g \in Handler : g # h => task'[g] = task[g],
         HasRows(task'[h]) => RowsOk(task'[h].hide, seq', Len(turns)),
         HasTurns(task'[h]) => DOMAIN task'[h].back \subseteq 1..Len(turns)
  PROVE  Rows'
<1>1. Len(turns) \in Nat /\ Len(turns') = Len(turns)
  BY DEF Types, TableTypes
<1> QED BY <1>1, RowsLater DEF Rows

LEMMA StateShape ==
  ASSUME Types
  PROVE  /\ \A h \in Handler : task[h] \in Tasks /\ task[h].id \in Nat
         /\ seq \in Nat /\ ops \in 0..MaxOp /\ written \in 0..MaxWrite
         /\ MaxOp \in Nat /\ MaxWrite \in Nat
         /\ Len(turns) \in 0..MaxWrite /\ Begun = Len(turns)
         /\ rows \subseteq Row /\ tree \in Tree
<1>1. \A h \in Handler : task[h] \in Tasks /\ task[h].id \in Nat
  BY TaskKinds, TimeMachineAssumption DEF Types, TaskTypes
<1> QED BY <1>1, TimeMachineAssumption DEF Types, TableTypes, CountTypes, FolderTypes, Begun

-----------------------------------------------------------------------------
(* The requests. *)

LEMMA SaveKeeps ==
  ASSUME Consistent, NEW h \in Handler, NEW p \in Path, Save(h, p)
  PROVE  Consistent'
<1> DEFINE rec == [at |-> "write", id |-> 0, path |-> p, content |-> written']
           new == [turn |-> seq, path |-> p, was |-> tree[p], name |-> written']
<1>0. /\ task[h] \in Tasks /\ task[h].at = "idle" /\ Start(h, rec) /\ up /\ up'
      /\ written' = written + 1 /\ written < MaxWrite
      /\ queue' = Append(queue, new) /\ waiting' = waiting + 1
      /\ saved' = saved \cup {written'} /\ owed' = owed \cup {written'}
      /\ UNCHANGED <<folder, database, batch, commit, journal, up, ops, fails, crashes, cut>>
  BY StateShape DEF Save, Consistent
<1>1. rec \in Tasks
  BY <1>0, StateShape DEF Consistent, Tasks, Writing
<1>2. /\ task'[h] = rec /\ TaskTypes' /\ \A g \in Handler : g # h => task'[g] = task[g]
  BY <1>0, <1>1, OnlyItsTask DEF Consistent, Types
<1>3. new \in Pending
  BY <1>0, StateShape DEF Consistent, Pending, Tree
<1>4. written \in Nat /\ written' \in 0..MaxWrite /\ Types /\ QueueTypes /\ Counted
  BY <1>0, StateShape DEF Consistent, Types
<1>a. QueueTypes'
  <2>1. queue' \in Seq(Pending)
    BY <1>0, <1>3, <1>4 DEF QueueTypes
  <2>2. owed' \subseteq saved' /\ saved' \subseteq 1..written'
    BY <1>0, <1>4 DEF QueueTypes
  <2> QED BY <2>1, <2>2, <1>0, <1>4 DEF QueueTypes
<1>5. Types'
  BY <1>0, <1>2, <1>4, <1>a
     DEF Types, FolderTypes, TableTypes, CountTypes, JournalTypes, folder, database
<1>6. Rows'
  BY <1>0, <1>2, StateShape, RowsElsewhere DEF Consistent, HasRows, HasTurns, Moving, database
<1>7. Counted'
  <2>1. Len(queue') = Len(queue) + 1 /\ Names(queue') = Names(queue) \cup {written'}
    <3> HIDE DEF new
    <3>1. /\ Len(queue') = Len(queue) + 1 /\ Len(queue) \in Nat /\ queue'[Len(queue) + 1] = new
          /\ \A i \in 1..Len(queue) : queue'[i] = queue[i]
      BY <1>0, <1>3, <1>4 DEF QueueTypes
    <3>2. new.name = written'
      BY DEF new
    <3> QED BY <3>1, <3>2 DEF Names
  <2>2. Len(queue) \in Nat /\ Len(batch) \in Nat
    BY <1>4 DEF QueueTypes
  <2> QED BY <2>1, <2>2, <1>0, <1>4 DEF Counted
<1>8. OwnIds'
  BY <1>0, <1>2, StateShape, OwnIdsKept DEF Consistent
<1>9. Journaled'
  BY <1>0, <1>2, JournaledElsewhere DEF Consistent, AtWork
<1>10. Whole'
  BY <1>0, <1>2, WholeElsewhere DEF Consistent, Restoring, folder
<1>11. Reachable'
  BY <1>0, <1>2, ReachableElsewhere DEF Consistent, HasTurns, Moving, database
<1> QED BY <1>0, <1>5, <1>6, <1>7, <1>8, <1>9, <1>10, <1>11 DEF Consistent, Still

\* A file that changes is as asked, unless a restore is under way: then either may stand.
LEMMA ChangeIsWhole ==
  ASSUME Types, Types', Whole, Journaled, up, up', journal' = journal,
         NEW p \in Path, NEW n \in Content,
         tree' = [tree EXCEPT ![p] = n], want' = Asked(p, n),
         \A g \in Handler : Restoring(task[g]) => task'[g] = task[g],
         \A g \in Handler : Restoring(task'[g]) => Restoring(task[g])
  PROVE  Whole'
<1>1. /\ tree \in Tree /\ want \in [Path -> Content \cup {Either}]
      /\ tree'[p] = n /\ \A q \in Path : q # p => tree'[q] = tree[q] /\ want'[q] = want[q]
      /\ want'[p] \in {n, Either} /\ (journal # <<>> => want'[p] = Either)
  BY DEF Types, FolderTypes, Asked, Tree
<1>2. ASSUME NEW g \in Handler, Restoring(task[g])
      PROVE  want'[p] = Either
  <2>1. \E i \in 1..Len(journal) : EntryOf(journal[i], task[g])
    BY <1>2 DEF Journaled, AtWork, Restoring
  <2>2. journal # <<>>
    BY <2>1
  <2> QED BY <1>1, <2>2
<1>3. \A q \in Path : Fits(q)' \/ (~Fits(q) /\ q # p)
  BY <1>1 DEF Fits
<1>4. \A g \in Handler : Restoring(task'[g]) => task'[g] = task[g]
  OBVIOUS
<1>5. ASSUME NEW g \in Handler, Restoring(task'[g])
      PROVE  /\ task'[g].todo \subseteq task'[g].scope
             /\ \A q \in task'[g].todo : want'[q] \in {task'[g].target[q], Either}
  <2>1. /\ task'[g] = task[g] /\ Restoring(task[g]) /\ task[g] \in Tasks
    BY <1>4, <1>5, StateShape
  <2>2. task[g].todo \subseteq Path
    BY <2>1, MovingKinds DEF Restoring, Moving
  <2> QED BY <1>1, <1>2, <2>1, <2>2 DEF Whole
<1>6. \A q \in Path : Fits(q)' \/ \E g \in Handler : Restoring(task'[g]) /\ q \in task'[g].todo
  BY <1>3 DEF Whole
<1> QED BY <1>4, <1>5, <1>6 DEF Whole

LEMMA WriteFileKeeps ==
  ASSUME Consistent, NEW h \in Handler, WriteFile(h)
  PROVE  Consistent'
<1> DEFINE p == task[h].path
           n == task[h].content
<1>0. /\ task[h] \in Tasks /\ task[h].at = "write" /\ Start(h, Idle) /\ up /\ up'
      /\ tree' = [tree EXCEPT ![p] = n] /\ want' = Asked(p, n)
      /\ UNCHANGED <<database, deferred, journal, up, counts, cut>>
  BY StateShape DEF WriteFile, Consistent
<1>1. task[h] \in Writing /\ p \in Path /\ n \in Content
  BY <1>0, TaskKinds, TimeMachineAssumption DEF Writing, Content
<1>2. /\ task'[h] = Idle /\ Idle \in Tasks /\ TaskTypes'
      /\ \A g \in Handler : g # h => task'[g] = task[g]
  <2>1. Idle \in Tasks
    BY DEF Tasks, Resting, Idle
  <2> QED BY <1>0, <2>1, OnlyItsTask DEF Consistent, Types
<1>3. FolderTypes'
  BY <1>0, <1>1 DEF Consistent, Types, FolderTypes, Tree, Asked
<1>4. Types'
  BY <1>0, <1>2, <1>3
     DEF Consistent, Types, TableTypes, QueueTypes, CountTypes, JournalTypes, database, deferred, counts
<1>5. Rows'
  BY <1>0, <1>2, StateShape, RowsElsewhere DEF Consistent, HasRows, HasTurns, Moving, database, Idle
<1>6. Counted'
  BY <1>0 DEF Consistent, Counted, Names, deferred
<1>7. OwnIds'
  BY <1>0, <1>2, StateShape, OwnIdsKept DEF Consistent, Idle, counts
<1>8. Journaled'
  BY <1>0, <1>2, JournaledElsewhere DEF Consistent, AtWork, Idle
<1>9. Whole'
  <2>1. /\ \A g \in Handler : Restoring(task[g]) => task'[g] = task[g]
        /\ \A g \in Handler : Restoring(task'[g]) => Restoring(task[g])
    BY <1>0, <1>2 DEF Restoring, Idle
  <2>2. Types /\ Whole /\ Journaled
    BY DEF Consistent
  <2> HIDE DEF p, n
  <2> QED BY <1>0, <1>1, <1>4, <2>1, <2>2, ChangeIsWhole
<1>10. Reachable'
  BY <1>0, <1>2, ReachableElsewhere DEF Consistent, HasTurns, Moving, database, Idle
<1> QED BY <1>0, <1>4, <1>5, <1>6, <1>7, <1>8, <1>9, <1>10 DEF Consistent, Still

\* A request that only goes on: nothing but its own task, and how many were begun.
LEMMA RequestGoesOn ==
  ASSUME Consistent, NEW h \in Handler, NEW rec \in Tasks, Start(h, rec), up, up',
         UNCHANGED <<folder, database, deferred, journal, cut>>, CountTypes', ops \in Nat,
         \/ rec.id \in {0, task[h].id} /\ ops' = ops
         \/ rec.id = ops' /\ ops' = ops + 1,
         UNCHANGED written,
         ~AtWork(task[h]), ~AtWork(rec),
         HasRows(rec) => RowsOk(rec.hide, seq, Len(turns)),
         HasTurns(rec) => DOMAIN rec.back \subseteq 1..Len(turns),
         HasTurns(task[h]) => /\ HasTurns(rec)
                              /\ DOMAIN task[h].back \subseteq DOMAIN rec.back
  PROVE  Consistent'
<1>1. /\ task'[h] = rec /\ TaskTypes' /\ \A g \in Handler : g # h => task'[g] = task[g]
  BY OnlyItsTask DEF Consistent, Types
<1>2. Types'
  BY <1>1 DEF Consistent, Types, FolderTypes, TableTypes, QueueTypes, JournalTypes, folder,
     database, deferred
<1>3. Rows'
  BY <1>1, StateShape, RowsElsewhere DEF Consistent, database
<1>4. Counted'
  BY DEF Consistent, Counted, Names, deferred
<1>5. OwnIds'
  <2>1. ops' \in Nat /\ ops <= ops' /\ task'[h] = rec
    BY <1>1 DEF CountTypes
  <2> QED BY <1>1, <2>1, StateShape, OwnIdsKept DEF Consistent
<1>6. Journaled'
  BY <1>1, JournaledElsewhere DEF Consistent
<1>7. Whole'
  BY <1>1, WholeElsewhere DEF Consistent, Restoring, AtWork, folder
<1>8. Reachable'
  BY <1>1, ReachableElsewhere DEF Consistent, database
<1> QED BY <1>2, <1>3, <1>4, <1>5, <1>6, <1>7, <1>8 DEF Consistent, Still

LEMMA RewindKeeps ==
  ASSUME Consistent, NEW h \in Handler, NEW r \in rows, Rewind(h, r)
  PROVE  Consistent'
<1> DEFINE rec == [at |-> "commit", id |-> ops', op |-> "rewind", hide |-> From(r.turn)]
<1>0. /\ task[h].at = "idle" /\ Start(h, rec) /\ up /\ up' /\ ops < MaxOp /\ ops' = ops + 1
      /\ UNCHANGED <<folder, database, deferred, journal, up, written, fails, crashes, cut>>
  BY DEF Rewind, Ready
<1>1. /\ r \in From(r.turn) /\ From(r.turn) \subseteq rows /\ rows \subseteq Row
      /\ ops \in 0..MaxOp /\ ops' \in 1..MaxOp
  <2>1. /\ ops \in 0..MaxOp /\ MaxOp \in Nat /\ rows \subseteq Row
    BY StateShape DEF Consistent
  <2>2. r.turn \in Nat
    BY <2>1 DEF Row
  <2> QED BY <1>0, <2>1, <2>2 DEF From
<1>2. rec \in Tasks
  <2>0. From(r.turn) \subseteq Row /\ From(r.turn) # {}
    BY <1>1
  <2>1. From(r.turn) \in (SUBSET Row) \ {{}}
    BY <2>0
  <2>2. rec \in Committing
    BY <1>1, <2>1 DEF Committing
  <2> QED BY <2>2 DEF Tasks
<1>3. RowsOk(From(r.turn), seq, Len(turns))
  BY <1>1 DEF Consistent, Rows, RowsOk
<1>4. CountTypes'
  BY <1>0, <1>1 DEF Consistent, Types, CountTypes
<1> HIDE DEF rec
<1>5. rec.id = ops' /\ rec.hide = From(r.turn) /\ rec.at = "commit"
  BY DEF rec
<1> QED
  BY <1>0, <1>1, <1>2, <1>3, <1>4, <1>5, RequestGoesOn
     DEF AtWork, HasTurns, HasRows, Moving

LEMMA CommitNowKeeps ==
  ASSUME Consistent, NEW h \in Handler, CommitNow(h)
  PROVE  Consistent'
<1> DEFINE k == task[h]
           rec == [at |-> "open", id |-> k.id, op |-> "rewind", hide |-> k.hide,
                   now |-> tree, target |-> Oldest(k.hide).held, scope |-> Path,
                   todo |-> {}, back |-> <<>>]
<1>0. /\ k \in Tasks /\ k.at = "commit" /\ Start(h, rec) /\ up /\ up'
      /\ UNCHANGED <<folder, database, deferred, journal, up, counts, cut>>
  BY StateShape DEF CommitNow, Consistent
<1>1. k \in Committing
  BY <1>0, TaskKinds
<1>2. /\ k.id \in 1..MaxOp /\ k.hide \in (SUBSET Row) \ {{}} /\ Oldest(k.hide) \in Row
      /\ tree \in Tree
  <2>1. k.id \in 1..MaxOp /\ k.hide \in (SUBSET Row) \ {{}}
    BY <1>1 DEF Committing
  <2>2. k.hide \subseteq Row /\ k.hide # {}
    BY <2>1
  <2>3. Oldest(k.hide) \in k.hide
    BY <2>2, OldestIsThere
  <2> QED BY <2>1, <2>2, <2>3, StateShape DEF Consistent
<1>3. rec \in Rewinding
  BY <1>2 DEF Rewinding, Row
<1>4. rec \in Tasks
  BY <1>3 DEF Tasks
<1>5. RowsOk(k.hide, seq, Len(turns))
  BY <1>0 DEF Consistent, Rows, HasRows
<1>6. CountTypes' /\ ops \in Nat /\ ops' = ops /\ written' = written
  BY <1>0 DEF Consistent, Types, CountTypes, counts
<1> HIDE DEF rec
<1>7. rec.id = k.id /\ rec.hide = k.hide /\ rec.at = "open" /\ rec.op = "rewind"
  BY DEF rec
<1> QED
  BY <1>0, <1>4, <1>5, <1>6, <1>7, RequestGoesOn DEF AtWork, HasTurns, HasRows, Moving

LEMMA RedoKeeps ==
  ASSUME Consistent, NEW h \in Handler, Redo(h)
  PROVE  Consistent'
<1> DEFINE rec == [at |-> "pop", id |-> ops']
<1>0. /\ task[h].at = "idle" /\ Start(h, rec) /\ up /\ up' /\ ops < MaxOp /\ ops' = ops + 1
      /\ UNCHANGED <<folder, database, deferred, journal, up, written, fails, crashes, cut>>
  BY DEF Redo, Ready
<1>1. ops \in 0..MaxOp /\ ops' \in 1..MaxOp /\ MaxOp \in Nat
  BY <1>0, StateShape DEF Consistent
<1>2. rec \in Tasks
  BY <1>1 DEF Tasks, Popping
<1>3. CountTypes'
  BY <1>0, <1>1 DEF Consistent, Types, CountTypes
<1> HIDE DEF rec
<1>4. rec.id = ops' /\ rec.at = "pop"
  BY DEF rec
<1> QED
  BY <1>0, <1>1, <1>2, <1>3, <1>4, RequestGoesOn DEF AtWork, HasTurns, HasRows, Moving

LEMMA SwitchKeeps ==
  ASSUME Consistent, NEW h \in Handler, NEW f \in Range(stack), Switch(h, f)
  PROVE  Consistent'
<1> DEFINE rec == [at |-> "leave", id |-> ops', chosen |-> f.id]
<1>0. /\ task[h].at = "idle" /\ Start(h, rec) /\ up /\ up' /\ ops < MaxOp /\ ops' = ops + 1
      /\ UNCHANGED <<folder, database, deferred, journal, up, written, fails, crashes, cut>>
  BY DEF Switch, Ready
<1>1. ops \in 0..MaxOp /\ ops' \in 1..MaxOp /\ MaxOp \in Nat
  BY <1>0, StateShape DEF Consistent
<1>2. f.id \in 1..(2 * MaxOp)
  <2>1. f \in Frames
    BY DEF Consistent, Types, TableTypes, Range
  <2> QED BY <2>1 DEF Frames
<1>3. rec \in Tasks
  BY <1>1, <1>2 DEF Tasks, Switching
<1>4. CountTypes'
  BY <1>0, <1>1 DEF Consistent, Types, CountTypes
<1> HIDE DEF rec
<1>5. rec.id = ops' /\ rec.at = "leave"
  BY DEF rec
<1> QED
  BY <1>0, <1>1, <1>3, <1>4, <1>5, RequestGoesOn DEF AtWork, HasTurns, HasRows, Moving

LEMMA NothingToRedoKeeps ==
  ASSUME Consistent, NEW h \in Handler, NothingToRedo(h)
  PROVE  Consistent'
<1>0. /\ task[h].at = "pop" /\ Start(h, Idle) /\ up /\ up'
      /\ UNCHANGED <<folder, database, deferred, journal, up, counts, cut>>
  BY DEF NothingToRedo
<1>1. Idle \in Tasks /\ Idle.at = "idle" /\ Idle.id = 0
  BY DEF Tasks, Resting, Idle
<1>2. CountTypes' /\ ops \in Nat /\ ops' = ops /\ written' = written
  BY <1>0 DEF Consistent, Types, CountTypes, counts
<1> QED BY <1>0, <1>1, <1>2, RequestGoesOn DEF AtWork, HasTurns, HasRows, Moving

-----------------------------------------------------------------------------
(* Frames. *)

\* A request's step that changes the tables and not the folder; it has no restore.
LEMMA TablesMove ==
  ASSUME Consistent, NEW h \in Handler, NEW rec \in Tasks, Start(h, rec), up, up',
         UNCHANGED <<folder, deferred, journal>>, cut' = cut, CountTypes',
         written' = written,
         \/ rec.id \in {0, task[h].id} /\ ops' = ops
         \/ rec.id = ops' /\ ops' = ops + 1,
         TableTypes', Rows', Reachable', ~AtWork(task[h]), ~AtWork(rec)
  PROVE  Consistent'
<1>1. /\ task'[h] = rec /\ TaskTypes' /\ \A g \in Handler : g # h => task'[g] = task[g]
  BY OnlyItsTask DEF Consistent, Types
<1>2. Types'
  BY <1>1 DEF Consistent, Types, FolderTypes, QueueTypes, JournalTypes, folder, deferred
<1>3. Counted'
  BY DEF Consistent, Counted, Names, deferred
<1>4. OwnIds'
  <2>1. ops' \in Nat /\ ops \in Nat /\ ops <= ops' /\ task'[h] = rec
    BY <1>1 DEF Consistent, Types, CountTypes
  <2> QED BY <1>1, <2>1, StateShape, OwnIdsKept DEF Consistent
<1>5. Journaled'
  BY <1>1, JournaledElsewhere DEF Consistent
<1>6. Whole'
  BY <1>1, WholeElsewhere DEF Consistent, Restoring, AtWork, folder
<1> QED BY <1>2, <1>3, <1>4, <1>5, <1>6 DEF Consistent, Still

LEMMA CountsAsBefore ==
  ASSUME Consistent, UNCHANGED <<counts, up, cut>>
  PROVE  CountTypes' /\ UNCHANGED <<written, ops>>
BY DEF Consistent, Types, CountTypes, counts

\* A row more, in the place of the one of its ordinal.
LEMMA RowMore ==
  ASSUME NEW set, set \subseteq Row, NEW row \in Row, NEW last, NEW begun,
         RowsOk(set, last, begun), row.turn <= last, row.owner <= begun, row.after <= begun
  PROVE  RowsOk(Insert(set, row), last, begun) /\ Insert(set, row) \subseteq Row
BY DEF Insert, RowsOk

LEMMA LeaveKeeps ==
  ASSUME Consistent, NEW h \in Handler, Leave(h)
  PROVE  Consistent'
<1> DEFINE new == [id |-> task[h].id, rows |-> {}, now |-> tree, turns |-> <<>>]
           rec == [task[h] EXCEPT !.at = "promote"]
<1>0. /\ task[h] \in Tasks /\ task[h].at = "leave" /\ Start(h, rec) /\ up /\ up'
      /\ stack' = Append(stack, new)
      /\ UNCHANGED <<folder, rows, turns, seq, deferred, journal, up, counts, cut>>
  BY StateShape DEF Leave, Consistent
<1>1. task[h] \in Switching /\ MaxOp \in Nat
  BY <1>0, TaskKinds, TimeMachineAssumption
<1>2. rec \in Tasks /\ rec.id = task[h].id /\ rec.at = "promote" /\ task[h].id \in 1..MaxOp
  BY <1>1 DEF Tasks, Switching
<1> HIDE DEF rec
<1>3. new \in Frames
  BY <1>1, <1>2, StateShape, EmptyIsTaken DEF Consistent, Frames
<1>4. new.rows = {} /\ DOMAIN new.turns = {}
  BY EmptyIsTaken
<1> HIDE DEF new
<1>5. /\ stack' \in Seq(Frames) /\ Len(stack) \in Nat /\ Len(stack') = Len(stack) + 1
      /\ stack'[Len(stack) + 1] = new /\ \A i \in 1..Len(stack) : stack'[i] = stack[i]
  BY <1>0, <1>3 DEF Consistent, Types, TableTypes
<1>6. /\ task'[h] = rec /\ \A g \in Handler : g # h => task'[g] = task[g]
  BY <1>0, <1>2, OnlyItsTask DEF Consistent, Types
<1>7. TableTypes'
  BY <1>0, <1>5 DEF Consistent, Types, TableTypes
<1>8. \A g \in Handler : /\ HasRows(task'[g]) => HasRows(task[g]) /\ task'[g] = task[g]
                         /\ HasTurns(task'[g]) => HasTurns(task[g]) /\ task'[g] = task[g]
  BY <1>2, <1>6 DEF HasRows, HasTurns, Moving
<1>9. Rows'
  <2>1. RowsOk({}, seq, Len(turns))
    BY DEF RowsOk
  <2>2. \A i \in 1..Len(stack') : stack'[i] = new \/ (i \in 1..Len(stack) /\ stack'[i] = stack[i])
    BY <1>5
  <2> QED BY <1>0, <1>4, <1>8, <2>1, <2>2 DEF Consistent, Rows
<1>10. Reachable'
  <2>1. ASSUME NEW t, Redoable(t) PROVE Redoable(t)'
    <3>1. \A g \in Handler : HasTurns(task[g]) => task'[g] = task[g]
      BY <1>0, <1>6 DEF HasTurns, Moving
    <3>2. \A i \in 1..Len(stack) : i \in 1..Len(stack') /\ stack'[i] = stack[i]
      BY <1>5
    <3> QED BY <2>1, <3>1, <3>2 DEF Redoable
  <2> QED BY <1>0, <2>1 DEF Consistent, Reachable
<1> QED
  BY <1>0, <1>2, <1>7, <1>9, <1>10, CountsAsBefore, TablesMove DEF AtWork

LEMMA PromoteKeeps ==
  ASSUME Consistent, NEW h \in Handler, Promote(h)
  PROVE  Consistent'
<1> DEFINE rec == [at |-> "pop", id |-> task[h].id]
<1>0. /\ task[h] \in Tasks /\ task[h].at = "promote" /\ Start(h, rec) /\ up /\ up'
      /\ UNCHANGED <<folder, rows, turns, seq, deferred, journal, up, counts, cut>>
  BY StateShape DEF Promote, Consistent
<1>1. task[h] \in Switching /\ MaxOp \in Nat
  BY <1>0, TaskKinds, TimeMachineAssumption
<1>2. rec \in Tasks /\ rec.id = task[h].id /\ rec.at = "pop" /\ task[h].id \in 1..MaxOp
  BY <1>1 DEF Tasks, Switching, Popping
<1> HIDE DEF rec
<1>3. /\ task'[h] = rec /\ \A g \in Handler : g # h => task'[g] = task[g]
  BY <1>0, <1>2, OnlyItsTask DEF Consistent, Types
<1>4. \A g \in Handler : /\ HasRows(task'[g]) => HasRows(task[g]) /\ task'[g] = task[g]
                         /\ HasTurns(task'[g]) => HasTurns(task[g]) /\ task'[g] = task[g]
                         /\ HasTurns(task[g]) => task'[g] = task[g]
  BY <1>0, <1>2, <1>3 DEF HasRows, HasTurns, Moving
\* Each frame is where it was or elsewhere, with the rows and turns it had.
<1>5. /\ stack' \in Seq(Frames)
      /\ \A i \in 1..Len(stack') : \E j \in 1..Len(stack) :
           stack'[i].rows = stack[j].rows /\ stack'[i].turns = stack[j].turns
      /\ \A j \in 1..Len(stack) : \E i \in 1..Len(stack') : stack'[i].turns = stack[j].turns
  <2>0. stack \in Seq(Frames)
    BY DEF Consistent, Types, TableTypes
  <2>1. CASE UNCHANGED stack
    BY <2>0, <2>1
  <2>2. CASE \E i \in DOMAIN stack :
               stack' = Append(RemoveAt(stack, i), [stack[i] EXCEPT !.id = Promoted(task[h].id)])
    <3>0. DOMAIN stack = 1..Len(stack)
      BY <2>0
    <3>1. PICK i \in 1..Len(stack) :
                 stack' = Append(RemoveAt(stack, i), [stack[i] EXCEPT !.id = Promoted(task[h].id)])
      BY <2>2, <3>0
    <3> DEFINE new == [stack[i] EXCEPT !.id = Promoted(task[h].id)]
               rest == RemoveAt(stack, i)
    <3>2. stack[i] \in Frames /\ Promoted(task[h].id) \in 1..(2 * MaxOp)
      BY <1>1, <1>2, <2>0 DEF Promoted
    <3>3. new \in Frames /\ new.rows = stack[i].rows /\ new.turns = stack[i].turns
      BY <3>2 DEF Frames
    <3> HIDE DEF new
    <3>4. /\ rest \in Seq(Frames) /\ Len(stack) \in Nat /\ Len(rest) = Len(stack) - 1
          /\ \A j \in 1..(Len(stack) - 1) : rest[j] = IF j < i THEN stack[j] ELSE stack[j + 1]
      BY <2>0, RemoveAtIs
    <3> HIDE DEF rest
    <3>5. /\ stack' \in Seq(Frames) /\ Len(stack') = Len(stack) /\ stack'[Len(stack)] = new
          /\ \A j \in 1..(Len(stack) - 1) : stack'[j] = rest[j]
      BY <3>1, <3>3, <3>4 DEF new, rest
    <3>6. \A j \in 1..Len(stack') : \E l \in 1..Len(stack) :
            stack'[j].rows = stack[l].rows /\ stack'[j].turns = stack[l].turns
      <4> TAKE j \in 1..Len(stack')
      <4>1. CASE j = Len(stack)
        BY <3>3, <3>5, <4>1
      <4>2. CASE j # Len(stack) /\ j < i
        <5>1. j \in 1..(Len(stack) - 1) /\ j \in 1..Len(stack)
          BY <3>4, <3>5, <4>2
        <5> QED BY <3>4, <3>5, <4>2, <5>1
      <4>3. CASE j # Len(stack) /\ ~(j < i)
        <5>1. j \in 1..(Len(stack) - 1) /\ j + 1 \in 1..Len(stack)
          BY <3>4, <3>5, <4>3
        <5> QED BY <3>4, <3>5, <4>3, <5>1
      <4> QED BY <4>1, <4>2, <4>3
    <3>7. \A j \in 1..Len(stack) : \E l \in 1..Len(stack') : stack'[l].turns = stack[j].turns
      <4> TAKE j \in 1..Len(stack)
      <4>1. CASE j = i
        <5>1. Len(stack) \in 1..Len(stack')
          BY <3>4, <3>5
        <5> QED BY <3>3, <3>5, <4>1, <5>1
      <4>2. CASE j < i
        <5>1. j \in 1..(Len(stack) - 1) /\ j \in 1..Len(stack')
          BY <3>4, <3>5, <4>2
        <5> QED BY <3>4, <3>5, <4>2, <5>1
      <4>3. CASE j > i
        <5>1. j - 1 \in 1..(Len(stack) - 1) /\ j - 1 \in 1..Len(stack') /\ ~(j - 1 < i)
              /\ (j - 1) + 1 = j
          BY <3>4, <3>5, <4>3
        <5> QED BY <3>4, <3>5, <4>3, <5>1
      <4> QED BY <3>4, <4>1, <4>2, <4>3
    <3> QED BY <3>5, <3>6, <3>7
  <2> QED BY <1>0, <2>1, <2>2 DEF Promote
<1>6. TableTypes'
  BY <1>0, <1>5 DEF Consistent, Types, TableTypes
<1>7. Rows'
  BY <1>0, <1>4, <1>5 DEF Consistent, Rows
<1>8. Reachable'
  <2>1. ASSUME NEW t, Redoable(t) PROVE Redoable(t)'
    BY <1>4, <1>5, <2>1 DEF Redoable
  <2> QED BY <1>0, <2>1 DEF Consistent, Reachable
<1> QED
  BY <1>0, <1>2, <1>6, <1>7, <1>8, CountsAsBefore, TablesMove DEF AtWork

LEMMA PopKeeps ==
  ASSUME Consistent, NEW h \in Handler, Pop(h)
  PROVE  Consistent'
<1> DEFINE frame == Last(stack)
           rec == [at |-> "open", id |-> task[h].id, op |-> "redo", back |-> frame.turns,
                   target |-> frame.now, scope |-> Path, todo |-> {}]
<1>0. /\ task[h] \in Tasks /\ task[h].at = "pop" /\ Start(h, rec) /\ up /\ up' /\ stack # <<>>
      /\ stack' = Front(stack)
      /\ rows' = frame.rows \cup {r \in rows : \A f \in frame.rows : f.turn # r.turn}
      /\ UNCHANGED <<folder, seq, turns, deferred, journal, up, counts, cut>>
  BY StateShape DEF Pop, Consistent
<1>1. /\ stack' \in Seq(Frames) /\ Len(stack) \in Nat /\ Len(stack') = Len(stack) - 1
      /\ \A i \in 1..Len(stack') : stack'[i] = stack[i] /\ i \in 1..Len(stack)
      /\ frame = stack[Len(stack)] /\ Len(stack) \in 1..Len(stack) /\ frame \in Frames
  <2>1. stack \in Seq(Frames) /\ stack # <<>>
    BY <1>0 DEF Consistent, Types, TableTypes
  <2>2. /\ Len(stack) \in Nat /\ Len(stack) \in 1..Len(stack)
        /\ stack' \in Seq(Frames) /\ Len(stack') = Len(stack) - 1
        /\ \A i \in 1..(Len(stack) - 1) : stack'[i] = stack[i]
    BY <1>0, <2>1, FrontIs
  <2>3. frame = stack[Len(stack)]
    BY DEF Last
  <2>4. frame \in Frames
    BY <2>1, <2>2, <2>3
  <2> QED BY <2>2, <2>3, <2>4
<1>2. /\ RowsOk(rows, seq, Len(turns)) /\ rows \subseteq Row
      /\ RowsOk(frame.rows, seq, Len(turns)) /\ frame.rows \subseteq Row
      /\ DOMAIN frame.turns \subseteq 1..Len(turns)
  BY <1>1 DEF Consistent, Rows, Types, TableTypes, Frames
<1>3. task[h] \in Popping
  BY <1>0, TaskKinds
<1>4. rec \in Redoing
  BY <1>1, <1>3 DEF Redoing, Popping, Frames
<1>5. rec \in Tasks /\ rec.id = task[h].id /\ rec.at = "open" /\ rec.op = "redo"
      /\ rec.back = frame.turns
  BY <1>4 DEF Tasks
<1> HIDE DEF rec, frame
<1>6. /\ task'[h] = rec /\ \A g \in Handler : g # h => task'[g] = task[g]
  BY <1>0, <1>5, OnlyItsTask DEF Consistent, Types
<1>7. RowsOk(rows', seq, Len(turns)) /\ rows' \subseteq Row
  BY <1>0, <1>2 DEF RowsOk
<1>8. TableTypes'
  BY <1>0, <1>1, <1>7 DEF Consistent, Types, TableTypes
<1>9. /\ \A g \in Handler : HasRows(task'[g]) => HasRows(task[g]) /\ task'[g] = task[g]
      /\ \A g \in Handler : g # h /\ HasTurns(task'[g]) => HasTurns(task[g]) /\ task'[g] = task[g]
      /\ HasTurns(task'[h]) /\ task'[h].back = frame.turns
      /\ \A g \in Handler : HasTurns(task[g]) => task'[g] = task[g]
  BY <1>0, <1>5, <1>6 DEF HasRows, HasTurns, Moving
<1>10. Rows'
  BY <1>0, <1>1, <1>2, <1>7, <1>9 DEF Consistent, Rows
<1>11. Reachable'
  <2>1. ASSUME NEW t, Redoable(t) PROVE Redoable(t)'
    <3>1. CASE \E i \in 1..Len(stack) : t \in DOMAIN stack[i].turns
      <4>1. PICK i \in 1..Len(stack) : t \in DOMAIN stack[i].turns
        BY <3>1
      <4>2. CASE i = Len(stack)
        BY <1>1, <1>9, <4>1, <4>2 DEF Redoable
      <4>3. CASE i # Len(stack)
        <5>1. i \in 1..Len(stack') /\ stack'[i] = stack[i]
          BY <1>1, <4>3
        <5> QED BY <4>1, <5>1 DEF Redoable
      <4> QED BY <4>2, <4>3
    <3> QED BY <1>9, <2>1, <3>1 DEF Redoable
  <2> QED BY <1>0, <2>1 DEF Consistent, Reachable
<1> QED
  BY <1>0, <1>5, <1>8, <1>10, <1>11, CountsAsBefore, TablesMove DEF AtWork

LEMMA DropTurnsKeeps ==
  ASSUME Consistent, NEW h \in Handler, DropTurns(h)
  PROVE  Consistent'
<1> DEFINE k == task[h]
           gone == Dropped(Oldest(k.hide))
           back == [t \in gone |-> turns[t]]
           rec == [k EXCEPT !.at = "push", !.back = back]
<1>0. /\ k \in Tasks /\ k.at = "drop" /\ Start(h, rec) /\ up /\ up'
      /\ turns' = [t \in 1..Begun |-> IF t \in gone THEN "rewound" ELSE turns[t]]
      /\ UNCHANGED <<folder, rows, stack, seq, deferred, journal, up, counts, cut>>
  BY StateShape DEF DropTurns, Consistent
<1>1. /\ turns \in Seq(TurnState) /\ Len(turns) \in 0..MaxWrite /\ Begun = Len(turns)
      /\ MaxWrite \in Nat /\ TableTypes
  BY StateShape DEF Consistent, Types, TableTypes
<1>2. gone \subseteq 1..Len(turns) /\ \A t \in gone : turns[t] \in TurnState \ {"rewound"}
  BY <1>1 DEF Dropped
<1>3. back \in Taken
  <2>1. gone \subseteq TurnId
    BY <1>1, <1>2 DEF TurnId
  <2>2. back \in [gone -> TurnState \ {"rewound"}]
    BY <1>2
  <2> HIDE DEF gone, back
  <2> QED BY <2>1, <2>2, TakenFrom
<1>4. DOMAIN back = gone
  OBVIOUS
<1> HIDE DEF back, gone
<1>5. k \in Rewinding
  BY <1>0, TaskKinds
<1>6. rec \in Pushing /\ rec.id = k.id /\ rec.at = "push" /\ rec.back = back /\ rec.hide = k.hide
  BY <1>3, <1>5 DEF Rewinding, Pushing
<1>7. rec \in Tasks
  BY <1>6 DEF Tasks
<1> HIDE DEF rec
<1>8. /\ task'[h] = rec /\ \A g \in Handler : g # h => task'[g] = task[g]
  BY <1>0, <1>7, OnlyItsTask DEF Consistent, Types
<1>9. turns' \in Seq(TurnState) /\ Len(turns') = Len(turns)
  <2>1. "rewound" \in TurnState
    BY DEF TurnState
  <2> QED BY <1>0, <1>1, <2>1
<1>10. TableTypes'
  BY <1>0, <1>1, <1>9 DEF TableTypes
<1>11. Rows'
  <2>1. RowsOk(k.hide, seq, Len(turns))
    BY <1>0 DEF Consistent, Rows, HasRows
  <2>2. \A g \in Handler : /\ HasRows(task'[g]) => RowsOk(task'[g].hide, seq, Len(turns))
                           /\ HasTurns(task'[g]) => DOMAIN task'[g].back \subseteq 1..Len(turns)
    BY <1>2, <1>4, <1>6, <1>8, <2>1 DEF Consistent, Rows
  <2> QED BY <1>0, <1>9, <2>2 DEF Consistent, Rows
<1>12. Reachable'
  <2>1. ~HasTurns(task[h]) /\ HasTurns(task'[h])
    BY <1>0, <1>6, <1>8 DEF HasTurns, Moving
  <2>2. ASSUME NEW t, Redoable(t) PROVE Redoable(t)'
    BY <1>0, <1>8, <2>1, <2>2 DEF Redoable
  <2>3. ASSUME NEW t \in gone PROVE Redoable(t)'
    BY <1>4, <1>6, <1>8, <2>1 DEF Redoable
  <2>4. ASSUME NEW t \in 1..Len(turns), t \notin gone PROVE turns'[t] = turns[t]
    BY <1>0, <1>1, <2>4
  <2> QED BY <1>0, <1>9, <2>2, <2>3, <2>4 DEF Consistent, Reachable
<1> QED
  BY <1>0, <1>6, <1>7, <1>10, <1>11, <1>12, CountsAsBefore, TablesMove DEF AtWork

LEMMA PushFrameKeeps ==
  ASSUME Consistent, NEW h \in Handler, PushFrame(h)
  PROVE  Consistent'
<1> DEFINE k == task[h]
           new == [id |-> k.id, rows |-> k.hide, now |-> k.now, turns |-> k.back]
<1>0. /\ k \in Tasks /\ k.at = "push" /\ Start(h, Idle) /\ up /\ up'
      /\ stack' = Append(stack, new)
      /\ rows' = {r \in rows : \A d \in k.hide : d.turn # r.turn} /\ seq' = seq + 2
      /\ UNCHANGED <<folder, turns, deferred, journal, up, counts, cut>>
  BY StateShape DEF PushFrame, Consistent
<1>1. k \in Pushing /\ MaxOp \in Nat
  BY <1>0, TaskKinds, TimeMachineAssumption
<1>2. new \in Frames /\ new.rows = k.hide /\ new.turns = k.back
  BY <1>1 DEF Pushing, Frames
<1> HIDE DEF new
<1>3. Idle \in Tasks /\ Idle.id = 0 /\ Idle.at = "idle"
  BY DEF Tasks, Resting, Idle
<1>4. /\ task'[h] = Idle /\ \A g \in Handler : g # h => task'[g] = task[g]
  BY <1>0, <1>3, OnlyItsTask DEF Consistent, Types
<1>5. /\ stack' \in Seq(Frames) /\ Len(stack) \in Nat /\ Len(stack') = Len(stack) + 1
      /\ stack'[Len(stack) + 1] = new /\ \A i \in 1..Len(stack) : stack'[i] = stack[i]
  BY <1>0, <1>2 DEF Consistent, Types, TableTypes
<1>6. seq \in Nat /\ seq' \in Nat /\ seq <= seq' /\ Len(turns) \in Nat
  BY <1>0, StateShape DEF Consistent
<1>7. TableTypes'
  BY <1>0, <1>5, <1>6 DEF Consistent, Types, TableTypes
<1>8. HasRows(k) /\ HasTurns(k)
  BY <1>0 DEF HasRows, HasTurns
<1>9. Rows'
  <2>1. /\ RowsOk(rows, seq', Len(turns))
        /\ \A i \in 1..Len(stack) : /\ RowsOk(stack[i].rows, seq', Len(turns))
                                    /\ DOMAIN stack[i].turns \subseteq 1..Len(turns)
        /\ \A g \in Handler :
             /\ HasRows(task[g]) => RowsOk(task[g].hide, seq', Len(turns))
             /\ HasTurns(task[g]) => DOMAIN task[g].back \subseteq 1..Len(turns)
    BY <1>0, <1>6, RowsLater DEF Consistent
  <2>2. RowsOk(rows', seq', Len(turns'))
    BY <1>0, <2>1 DEF RowsOk
  <2>3. \A i \in 1..Len(stack') : stack'[i] = new \/ (i \in 1..Len(stack) /\ stack'[i] = stack[i])
    BY <1>5
  <2>4. ~HasRows(task'[h]) /\ ~HasTurns(task'[h])
    BY <1>3, <1>4 DEF HasRows, HasTurns, Moving
  <2> QED BY <1>0, <1>2, <1>4, <1>8, <2>1, <2>2, <2>3, <2>4 DEF Rows
<1>10. Reachable'
  <2>1. ASSUME NEW t, Redoable(t) PROVE Redoable(t)'
    <3>1. /\ \A i \in 1..Len(stack) : i \in 1..Len(stack') /\ stack'[i] = stack[i]
          /\ Len(stack) + 1 \in 1..Len(stack')
      BY <1>5
    <3>2. CASE t \in DOMAIN k.back
      BY <1>2, <1>5, <3>1, <3>2 DEF Redoable
    <3>3. CASE t \notin DOMAIN k.back
      BY <1>4, <2>1, <3>1, <3>3 DEF Redoable
    <3> QED BY <3>2, <3>3
  <2> QED BY <1>0, <2>1 DEF Consistent, Reachable
<1> QED
  BY <1>0, <1>3, <1>7, <1>9, <1>10, CountsAsBefore, TablesMove DEF AtWork

LEMMA PutTurnsBackKeeps ==
  ASSUME Consistent, NEW h \in Handler, PutTurnsBack(h)
  PROVE  Consistent'
<1> DEFINE k == task[h]
<1>0. /\ k \in Tasks /\ k.at = "back" /\ Start(h, Idle) /\ up /\ up' /\ seq' = seq + 1
      /\ turns' = [t \in 1..Begun |-> IF t \in DOMAIN k.back THEN k.back[t] ELSE turns[t]]
      /\ UNCHANGED <<folder, rows, stack, deferred, journal, up, counts, cut>>
  BY StateShape DEF PutTurnsBack, Consistent
<1>1. k.back \in Taken
  BY <1>0, TaskKinds DEF Redoing
<1>2. \A t \in DOMAIN k.back : k.back[t] \in TurnState \ {"rewound"}
  BY <1>1, TakenIs
<1>3. Idle \in Tasks /\ Idle.id = 0 /\ Idle.at = "idle"
  BY DEF Tasks, Resting, Idle
<1>4. /\ task'[h] = Idle /\ \A g \in Handler : g # h => task'[g] = task[g]
  BY <1>0, <1>3, OnlyItsTask DEF Consistent, Types
<1>5. /\ turns \in Seq(TurnState) /\ Len(turns) \in 0..MaxWrite /\ Begun = Len(turns)
      /\ MaxWrite \in Nat /\ TableTypes /\ seq \in Nat
  BY StateShape DEF Consistent, Types, TableTypes
<1> HIDE DEF k
<1>6. /\ turns' \in Seq(TurnState) /\ Len(turns') = Len(turns)
      /\ seq' \in Nat /\ seq <= seq' /\ Len(turns) \in Nat
  BY <1>0, <1>2, <1>5
<1>7. TableTypes'
  BY <1>0, <1>5, <1>6 DEF TableTypes
<1>8. Rows'
  <2>1. /\ RowsOk(rows, seq', Len(turns'))
        /\ \A i \in 1..Len(stack) : /\ RowsOk(stack[i].rows, seq', Len(turns'))
                                    /\ DOMAIN stack[i].turns \subseteq 1..Len(turns')
        /\ \A g \in Handler :
             /\ HasRows(task[g]) => RowsOk(task[g].hide, seq', Len(turns'))
             /\ HasTurns(task[g]) => DOMAIN task[g].back \subseteq 1..Len(turns')
    BY <1>6, RowsLater DEF Consistent
  <2>2. ~HasRows(task'[h]) /\ ~HasTurns(task'[h])
    BY <1>3, <1>4 DEF HasRows, HasTurns, Moving
  <2> QED BY <1>0, <1>4, <2>1, <2>2 DEF Rows
<1>9. Reachable'
  <2>1. ASSUME NEW t \in 1..Len(turns), turns'[t] = "rewound"
        PROVE  turns[t] = "rewound" /\ t \notin DOMAIN k.back
    BY <1>0, <1>2, <1>5, <2>1
  <2>2. ASSUME NEW t, Redoable(t), t \notin DOMAIN k.back PROVE Redoable(t)'
    BY <1>0, <1>4, <2>2 DEF Redoable, k
  <2> QED BY <1>0, <1>6, <2>1, <2>2 DEF Consistent, Reachable
<1> QED
  BY <1>0, <1>3, <1>7, <1>8, <1>9, CountsAsBefore, TablesMove DEF AtWork, k

LEMMA RestoreFileKeeps ==
  ASSUME Consistent, NEW h \in Handler, NEW r \in rows, NEW p \in Path, RestoreFile(h, r, p)
  PROVE  Consistent'
<1> DEFINE row == [turn |-> seq, held |-> tree, owner |-> 0, after |-> Begun, of |-> {}]
           rec == [at |-> "open", id |-> ops', op |-> "file", target |-> r.held,
                   scope |-> {p}, todo |-> {}]
<1>0. /\ task[h].at = "idle" /\ Start(h, rec) /\ up /\ up' /\ ops < MaxOp /\ ops' = ops + 1
      /\ rows' = Insert(rows, row) /\ seq' = seq + 1
      /\ UNCHANGED <<folder, stack, turns, deferred, journal, up, written, fails, crashes, cut>>
  BY DEF RestoreFile, Ready
<1>1. /\ seq \in Nat /\ seq' \in Nat /\ seq <= seq' /\ ops \in 0..MaxOp /\ ops' \in 1..MaxOp
      /\ Len(turns) \in 0..MaxWrite /\ Begun = Len(turns) /\ MaxWrite \in Nat
      /\ rows \subseteq Row /\ tree \in Tree
  BY <1>0, StateShape DEF Consistent
<1>2. row \in Row
  BY <1>1 DEF Row
<1>3. row.turn = seq /\ row.owner = 0 /\ row.after = Len(turns)
  BY <1>1
<1> HIDE DEF row
<1>4. r.held \in Tree
  BY <1>1 DEF Row
<1>5. rec \in Filing /\ rec.id = ops' /\ rec.at = "open" /\ rec.op = "file"
  BY <1>1, <1>4 DEF Filing
<1>6. rec \in Tasks
  BY <1>5 DEF Tasks
<1> HIDE DEF rec
<1>7. /\ task'[h] = rec /\ \A g \in Handler : g # h => task'[g] = task[g]
  BY <1>0, <1>6, OnlyItsTask DEF Consistent, Types
<1>8. /\ RowsOk(rows, seq', Len(turns))
      /\ \A i \in 1..Len(stack) : /\ RowsOk(stack[i].rows, seq', Len(turns))
                                  /\ DOMAIN stack[i].turns \subseteq 1..Len(turns)
      /\ \A g \in Handler :
           /\ HasRows(task[g]) => RowsOk(task[g].hide, seq', Len(turns))
           /\ HasTurns(task[g]) => DOMAIN task[g].back \subseteq 1..Len(turns)
  <2>1. Len(turns) \in Nat /\ turns' = turns
    BY <1>0, <1>1
  <2> QED BY <1>1, <2>1, RowsLater DEF Consistent
<1>9. RowsOk(rows', seq', Len(turns)) /\ rows' \subseteq Row
  <2>1. row.turn <= seq' /\ row.owner <= Len(turns) /\ row.after <= Len(turns)
    BY <1>1, <1>3
  <2> QED BY <1>0, <1>1, <1>2, <1>8, <2>1, RowMore
<1>10. TableTypes'
  BY <1>0, <1>1, <1>9 DEF Consistent, Types, TableTypes
<1>11. /\ ~HasRows(task'[h]) /\ ~HasTurns(task'[h]) /\ ~HasTurns(task[h])
       /\ ~AtWork(task[h]) /\ ~AtWork(rec)
  BY <1>0, <1>5, <1>7 DEF HasRows, HasTurns, Moving, AtWork
<1>12. Rows'
  BY <1>0, <1>7, <1>8, <1>9, <1>11 DEF Rows
<1>13. Reachable'
  BY <1>0, <1>7, <1>11, ReachableElsewhere DEF Consistent
<1>14. CountTypes'
  BY <1>0, <1>1 DEF Consistent, Types, CountTypes
<1> QED
  BY <1>0, <1>1, <1>5, <1>6, <1>10, <1>11, <1>12, <1>13, <1>14, TablesMove

-----------------------------------------------------------------------------
(* A restore. *)

LEMMA OpenJournalKeeps ==
  ASSUME Consistent, NEW h \in Handler, OpenJournal(h)
  PROVE  Consistent'
<1> DEFINE k == task[h]
           entry == [id |-> k.id, target |-> k.target, scope |-> k.scope]
           rec == [k EXCEPT !.at = "restore"]
<1>0. /\ k \in Tasks /\ k.at = "open" /\ Start(h, rec) /\ up /\ up'
      /\ journal' = Append(journal, entry)
      /\ UNCHANGED <<folder, database, deferred, up, counts, cut>>
  BY StateShape DEF OpenJournal, Consistent, Entry
<1>1. /\ Moving(k) /\ k \in Rewinding \cup Redoing \cup Filing
      /\ k.target \in Tree /\ k.scope \subseteq Path
  BY <1>0, TaskKinds, MovingKinds DEF Moving
<1>2. /\ rec \in Rewinding \cup Redoing \cup Filing /\ k.id \in 1..MaxOp
      /\ rec.at = "restore" /\ rec.id = k.id /\ rec.target = k.target /\ rec.scope = k.scope
      /\ rec.op = k.op
      /\ HasRows(k) => rec.hide = k.hide
      /\ HasTurns(k) => rec.back = k.back
  BY <1>0, <1>1 DEF Rewinding, Redoing, Filing, HasRows, HasTurns, Moving
<1>3. rec \in Tasks
  BY <1>2 DEF Tasks
<1>4. entry \in Entries
  BY <1>1, <1>2 DEF Entries
<1>5. entry.id = rec.id /\ entry.target = rec.target /\ entry.scope = rec.scope
  BY <1>2
<1> HIDE DEF rec, entry
<1>6. /\ task'[h] = rec /\ TaskTypes' /\ \A g \in Handler : g # h => task'[g] = task[g]
  BY <1>0, <1>3, OnlyItsTask DEF Consistent, Types
<1>7. /\ journal \in Seq(Entries) /\ journal' \in Seq(Entries) /\ Len(journal) \in Nat
      /\ Len(journal') = Len(journal) + 1 /\ journal'[Len(journal) + 1] = entry
      /\ \A i \in 1..Len(journal) : journal'[i] = journal[i]
  BY <1>0, <1>4 DEF Consistent, Types, JournalTypes
<1>8. Types'
  BY <1>0, <1>6, <1>7
     DEF Consistent, Types, FolderTypes, TableTypes, QueueTypes, CountTypes, JournalTypes,
         folder, database, deferred, counts
<1>9. /\ HasRows(rec) => HasRows(k) /\ rec.hide = k.hide
      /\ HasTurns(rec) => HasTurns(k) /\ rec.back = k.back
      /\ HasTurns(k) => HasTurns(rec)
  BY <1>0, <1>2 DEF HasRows, HasTurns, Moving
<1>10. Rows'
  <2>1. /\ HasRows(rec) => RowsOk(rec.hide, seq, Len(turns))
        /\ HasTurns(rec) => DOMAIN rec.back \subseteq 1..Len(turns)
    BY <1>9 DEF Consistent, Rows
  <2> QED BY <1>0, <1>6, <2>1, StateShape, RowsElsewhere DEF Consistent, database
<1>11. Counted'
  BY <1>0 DEF Consistent, Counted, Names, deferred
<1>12. OwnIds'
  BY <1>0, <1>2, <1>6, StateShape, OwnIdsKept DEF Consistent, counts
<1>13. Journaled'
  <2>1. Journaled /\ OwnIds /\ up
    BY <1>0 DEF Consistent
  <2>2. \A i \in 1..Len(journal') : i = Len(journal) + 1 \/ (i \in 1..Len(journal) /\ journal'[i] = journal[i])
    BY <1>7
  <2>3. \A e : \A g \in Handler : EntryOf(e, task[g]) => EntryOf(e, task'[g]) /\ g # h
    BY <1>0, <1>6 DEF EntryOf, AtWork
  <2>4. EntryOf(entry, task'[h]) /\ k.id # 0
    BY <1>2, <1>5, <1>6 DEF EntryOf, AtWork
  <2>5. \A i \in 1..Len(journal) : journal[i].id # entry.id
    <3> TAKE i \in 1..Len(journal)
    <3>1. PICK g \in Handler : EntryOf(journal[i], task[g])
      BY <2>1 DEF Journaled
    <3>2. g # h /\ journal[i].id = task[g].id
      BY <2>3, <3>1 DEF EntryOf
    <3> QED BY <1>2, <1>5, <2>1, <2>4, <3>2 DEF OwnIds
  <2>6. \A i, j \in 1..Len(journal') : journal'[i].id = journal'[j].id => i = j
    BY <1>7, <2>1, <2>2, <2>5 DEF Journaled
  <2>7. \A i \in 1..Len(journal') : \E g \in Handler : EntryOf(journal'[i], task'[g])
    BY <1>7, <2>1, <2>2, <2>3, <2>4 DEF Journaled
  <2>8. ASSUME NEW g \in Handler, AtWork(task'[g])
        PROVE  \E i \in 1..Len(journal') : EntryOf(journal'[i], task'[g])
    <3>1. CASE g = h
      <4>1. Len(journal) + 1 \in 1..Len(journal')
        BY <1>7
      <4> QED BY <1>7, <2>4, <3>1, <4>1
    <3>2. CASE g # h
      <4>1. PICK i \in 1..Len(journal) : EntryOf(journal[i], task[g])
        BY <1>6, <2>1, <2>8, <3>2 DEF Journaled
      <4>2. i \in 1..Len(journal') /\ journal'[i] = journal[i]
        BY <1>7
      <4> QED BY <1>6, <3>2, <4>1, <4>2
    <3> QED BY <3>1, <3>2
  <2> QED BY <2>6, <2>7, <2>8 DEF Journaled
<1>14. Whole'
  <2>1. \A g \in Handler : /\ Restoring(task[g]) => task'[g] = task[g]
                           /\ Restoring(task'[g]) => Restoring(task[g])
    BY <1>0, <1>2, <1>6 DEF Restoring
  <2>2. \A p \in Path : Fits(p) <=> Fits(p)'
    BY <1>0 DEF Fits, folder
  <2> QED BY <1>0, <2>1, <2>2 DEF Consistent, Whole, folder
<1>15. Reachable'
  <2>1. HasTurns(task[h]) => /\ HasTurns(task'[h])
                             /\ DOMAIN task[h].back \subseteq DOMAIN task'[h].back
    BY <1>6, <1>9
  <2> QED BY <1>0, <1>6, <2>1, ReachableElsewhere DEF Consistent, database
<1> QED BY <1>0, <1>8, <1>10, <1>11, <1>12, <1>13, <1>14, <1>15 DEF Consistent, Still

\* A restore at work that goes on keeps its entry.
LEMMA EntryStays ==
  ASSUME Journaled, NEW h \in Handler, UNCHANGED <<journal, up>>,
         \A g \in Handler : g # h => task'[g] = task[g],
         AtWork(task[h]), AtWork(task'[h]), task'[h].id = task[h].id,
         task'[h].target = task[h].target, task'[h].scope = task[h].scope
  PROVE  Journaled'
<1>1. \A e : \A g \in Handler : EntryOf(e, task[g]) <=> EntryOf(e, task'[g])
  BY DEF EntryOf
<1>2. \A g \in Handler : AtWork(task'[g]) <=> AtWork(task[g])
  OBVIOUS
<1> QED BY <1>1, <1>2 DEF Journaled

LEMMA TakeIndexKeeps ==
  ASSUME Consistent, NEW h \in Handler, TakeIndex(h)
  PROVE  Consistent'
<1> DEFINE k == task[h]
           rec == [k EXCEPT !.at = "restoring", !.todo = k.scope]
<1>0. /\ k \in Tasks /\ k.at = "restore" /\ Start(h, rec) /\ up /\ up' /\ IndexFree
      /\ want' = Wanted(k)
      /\ UNCHANGED <<tree, database, deferred, journal, up, counts, cut>>
  BY StateShape DEF TakeIndex, Consistent
<1>1. /\ Moving(k) /\ k \in Rewinding \cup Redoing \cup Filing
      /\ k.target \in Tree /\ k.scope \subseteq Path
  BY <1>0, TaskKinds, MovingKinds DEF Moving
<1>2. /\ rec \in Rewinding \cup Redoing \cup Filing
      /\ rec.at = "restoring" /\ rec.id = k.id /\ rec.target = k.target /\ rec.scope = k.scope
      /\ rec.todo = k.scope
      /\ rec.op = k.op
      /\ HasRows(k) => rec.hide = k.hide
      /\ HasTurns(k) => rec.back = k.back
  BY <1>0, <1>1 DEF Rewinding, Redoing, Filing, HasRows, HasTurns, Moving
<1>3. rec \in Tasks
  BY <1>2 DEF Tasks
<1> HIDE DEF rec
<1>4. /\ task'[h] = rec /\ TaskTypes' /\ \A g \in Handler : g # h => task'[g] = task[g]
  BY <1>0, <1>3, OnlyItsTask DEF Consistent, Types
<1>5. /\ want \in [Path -> Content \cup {Either}] /\ want' \in [Path -> Content \cup {Either}]
      /\ \A p \in Path : want'[p] = IF p \in k.scope THEN k.target[p] ELSE want[p]
  BY <1>0, <1>1 DEF Consistent, Types, FolderTypes, Wanted, Tree
<1>6. Types'
  BY <1>0, <1>4, <1>5
     DEF Consistent, Types, FolderTypes, TableTypes, QueueTypes, CountTypes, JournalTypes,
         database, deferred, counts
<1>7. /\ HasRows(rec) => HasRows(k) /\ rec.hide = k.hide
      /\ HasTurns(rec) => HasTurns(k) /\ rec.back = k.back
      /\ HasTurns(k) => HasTurns(rec)
  BY <1>0, <1>2 DEF HasRows, HasTurns, Moving
<1>8. Rows'
  <2>1. /\ HasRows(rec) => RowsOk(rec.hide, seq, Len(turns))
        /\ HasTurns(rec) => DOMAIN rec.back \subseteq 1..Len(turns)
    BY <1>7 DEF Consistent, Rows
  <2> QED BY <1>0, <1>4, <2>1, StateShape, RowsElsewhere DEF Consistent, database
<1>9. Counted'
  BY <1>0 DEF Consistent, Counted, Names, deferred
<1>10. OwnIds'
  BY <1>0, <1>2, <1>4, StateShape, OwnIdsKept DEF Consistent, counts
<1>11. Journaled'
  BY <1>0, <1>2, <1>4, EntryStays DEF Consistent, AtWork
<1>12. Whole'
  <2>1. \A g \in Handler : Restoring(task'[g]) <=> g = h
    BY <1>0, <1>2, <1>4 DEF Restoring, IndexFree
  <2>2. \A p \in Path : Fits(p)
    BY <1>0 DEF Consistent, Whole, IndexFree, Restoring
  <2>3. \A p \in Path : Fits(p)' \/ p \in k.scope
    BY <1>0, <1>5, <2>2 DEF Fits
  <2> QED BY <1>0, <1>1, <1>2, <1>4, <1>5, <2>1, <2>3 DEF Whole
<1>13. Reachable'
  <2>1. HasTurns(task[h]) => /\ HasTurns(task'[h])
                             /\ DOMAIN task[h].back \subseteq DOMAIN task'[h].back
    BY <1>4, <1>7
  <2> QED BY <1>0, <1>4, <2>1, ReachableElsewhere DEF Consistent, database
<1> QED BY <1>0, <1>6, <1>8, <1>9, <1>10, <1>11, <1>12, <1>13 DEF Consistent, Still

LEMMA RestorePathKeeps ==
  ASSUME Consistent, NEW h \in Handler, NEW p \in Path, RestorePath(h, p)
  PROVE  Consistent'
<1> DEFINE k == task[h]
           rec == [k EXCEPT !.todo = @ \ {p}]
<1>0. /\ k \in Tasks /\ k.at = "restoring" /\ Start(h, rec) /\ up /\ up' /\ p \in k.todo
      /\ tree' = [tree EXCEPT ![p] = k.target[p]]
      /\ UNCHANGED <<want, database, deferred, journal, up, counts, cut>>
  BY StateShape DEF RestorePath, Consistent
<1>1. /\ Moving(k) /\ k \in Rewinding \cup Redoing \cup Filing
      /\ k.target \in Tree /\ k.scope \subseteq Path
  BY <1>0, TaskKinds, MovingKinds DEF Moving
<1>2. /\ rec \in Rewinding \cup Redoing \cup Filing
      /\ rec.at = "restoring" /\ rec.id = k.id /\ rec.target = k.target /\ rec.scope = k.scope
      /\ rec.todo = k.todo \ {p}
      /\ rec.op = k.op
      /\ HasRows(k) => rec.hide = k.hide
      /\ HasTurns(k) => rec.back = k.back
  BY <1>0, <1>1 DEF Rewinding, Redoing, Filing, HasRows, HasTurns, Moving
<1>3. rec \in Tasks
  BY <1>2 DEF Tasks
<1> HIDE DEF rec
<1>4. /\ task'[h] = rec /\ TaskTypes' /\ \A g \in Handler : g # h => task'[g] = task[g]
  BY <1>0, <1>3, OnlyItsTask DEF Consistent, Types
<1>5. /\ tree \in Tree /\ tree' \in Tree /\ tree'[p] = k.target[p]
      /\ \A q \in Path : q # p => tree'[q] = tree[q]
  BY <1>0, <1>1 DEF Consistent, Types, FolderTypes, Tree
<1>6. Types'
  BY <1>0, <1>4, <1>5
     DEF Consistent, Types, FolderTypes, TableTypes, QueueTypes, CountTypes, JournalTypes,
         database, deferred, counts
<1>7. /\ HasRows(rec) => HasRows(k) /\ rec.hide = k.hide
      /\ HasTurns(rec) => HasTurns(k) /\ rec.back = k.back
      /\ HasTurns(k) => HasTurns(rec)
  BY <1>0, <1>2 DEF HasRows, HasTurns, Moving
<1>8. Rows'
  <2>1. /\ HasRows(rec) => RowsOk(rec.hide, seq, Len(turns))
        /\ HasTurns(rec) => DOMAIN rec.back \subseteq 1..Len(turns)
    BY <1>7 DEF Consistent, Rows
  <2> QED BY <1>0, <1>4, <2>1, StateShape, RowsElsewhere DEF Consistent, database
<1>9. Counted'
  BY <1>0 DEF Consistent, Counted, Names, deferred
<1>10. OwnIds'
  BY <1>0, <1>2, <1>4, StateShape, OwnIdsKept DEF Consistent, counts
<1>11. Journaled'
  BY <1>0, <1>2, <1>4, EntryStays DEF Consistent, AtWork
<1>12. Whole'
  <2>1. \A g \in Handler : Restoring(task[g]) <=> g = h
    BY <1>0 DEF Consistent, Whole, Restoring
  <2>2. \A g \in Handler : Restoring(task'[g]) <=> g = h
    BY <1>2, <1>4, <2>1 DEF Restoring
  <2>3. k.todo \subseteq k.scope /\ \A q \in k.todo : want[q] \in {k.target[q], Either}
    BY <2>1 DEF Consistent, Whole
  <2>4. \A q \in Path : Fits(q) \/ q \in k.todo
    BY <1>0, <2>1 DEF Consistent, Whole
  <2>5. \A q \in Path : Fits(q)' \/ q \in k.todo \ {p}
    BY <1>0, <1>5, <2>3, <2>4 DEF Fits
  <2> QED BY <1>0, <1>2, <1>4, <2>2, <2>3, <2>5 DEF Whole
<1>13. Reachable'
  <2>1. HasTurns(task[h]) => /\ HasTurns(task'[h])
                             /\ DOMAIN task[h].back \subseteq DOMAIN task'[h].back
    BY <1>4, <1>7
  <2> QED BY <1>0, <1>4, <2>1, ReachableElsewhere DEF Consistent, database
<1> QED BY <1>0, <1>6, <1>8, <1>9, <1>10, <1>11, <1>12, <1>13 DEF Consistent, Still

\* The restore's entry is closed, and its task is done with the folder.
LEMMA EntryCloses ==
  ASSUME Types, Journaled, OwnIds, NEW h \in Handler, CloseEntry(h), up, up',
         \A g \in Handler : g # h => task'[g] = task[g],
         AtWork(task[h]), ~AtWork(task'[h])
  PROVE  Journaled' /\ journal' \in Seq(Entries)
<1>1. journal \in Seq(Entries) /\ DOMAIN journal = 1..Len(journal)
  BY DEF Types, JournalTypes
<1>2. PICK n \in 1..Len(journal) : /\ journal[n].id = task[h].id
                                   /\ journal' = RemoveAt(journal, n)
  BY <1>1 DEF CloseEntry
<1>3. /\ journal' \in Seq(Entries) /\ Len(journal) \in Nat /\ Len(journal') = Len(journal) - 1
      /\ \A j \in 1..(Len(journal) - 1) :
           journal'[j] = IF j < n THEN journal[j] ELSE journal[j + 1]
  BY <1>1, <1>2, RemoveAtIs
<1>4. ASSUME NEW j \in 1..Len(journal')
      PROVE  \E i \in 1..Len(journal) : i # n /\ i = (IF j < n THEN j ELSE j + 1)
                                        /\ journal'[j] = journal[i]
  <2>1. CASE j < n
    BY <1>3, <2>1
  <2>2. CASE ~(j < n)
    <3>1. j + 1 \in 1..Len(journal) /\ j + 1 # n
      BY <1>3, <2>2
    <3> QED BY <1>3, <2>2, <3>1
  <2> QED BY <2>1, <2>2
<1>5. ASSUME NEW i \in 1..Len(journal), i # n
      PROVE  \E j \in 1..Len(journal') : journal'[j] = journal[i]
  <2>1. CASE i < n
    <3>1. i \in 1..Len(journal')
      BY <1>3, <2>1
    <3> QED BY <1>3, <2>1, <3>1
  <2>2. CASE i > n
    <3>1. i - 1 \in 1..Len(journal') /\ ~(i - 1 < n) /\ (i - 1) + 1 = i
      BY <1>3, <2>2
    <3> QED BY <1>3, <3>1
  <2> QED BY <1>5, <2>1, <2>2
<1>6. \A i, j \in 1..Len(journal') : journal'[i].id = journal'[j].id => i = j
  <2> SUFFICES ASSUME NEW i \in 1..Len(journal'), NEW j \in 1..Len(journal'),
                      journal'[i].id = journal'[j].id
               PROVE  i = j
    OBVIOUS
  <2>1. PICK a \in 1..Len(journal) : a # n /\ a = (IF i < n THEN i ELSE i + 1)
                                     /\ journal'[i] = journal[a]
    BY <1>4
  <2>2. PICK b \in 1..Len(journal) : b # n /\ b = (IF j < n THEN j ELSE j + 1)
                                     /\ journal'[j] = journal[b]
    BY <1>4
  <2>3. a = b
    BY <2>1, <2>2 DEF Journaled
  <2> QED BY <2>1, <2>2, <2>3
<1>7. \A e : \A g \in Handler : g # h => (EntryOf(e, task[g]) <=> EntryOf(e, task'[g]))
  BY DEF EntryOf
<1>8. \A i \in 1..Len(journal) : EntryOf(journal[i], task[h]) => i = n
  BY <1>2 DEF EntryOf, Journaled
<1>9. ASSUME NEW j \in 1..Len(journal')
      PROVE  \E g \in Handler : EntryOf(journal'[j], task'[g])
  <2>1. PICK i \in 1..Len(journal) : i # n /\ journal'[j] = journal[i]
    BY <1>4
  <2>2. PICK g \in Handler : EntryOf(journal[i], task[g])
    BY DEF Journaled
  <2>3. g # h
    BY <1>8, <2>1, <2>2
  <2> QED BY <1>7, <2>1, <2>2, <2>3
<1>10. ASSUME NEW g \in Handler, AtWork(task'[g])
       PROVE  \E j \in 1..Len(journal') : EntryOf(journal'[j], task'[g])
  <2>1. g # h /\ AtWork(task[g])
    BY <1>10
  <2>2. PICK i \in 1..Len(journal) : EntryOf(journal[i], task[g])
    BY <2>1 DEF Journaled
  <2>3. i # n
    <3>1. task[g].id # task[h].id
      <4>1. task[g] \in Tasks
        BY StateShape
      <4>2. task[g].id # 0
        BY <2>1, <4>1, TaskKinds DEF AtWork
      <4> QED BY <2>1, <4>2 DEF OwnIds
    <3> QED BY <1>2, <2>2, <3>1 DEF EntryOf
  <2>4. PICK j \in 1..Len(journal') : journal'[j] = journal[i]
    BY <1>5, <2>3
  <2> QED BY <1>7, <2>1, <2>2, <2>4
<1> QED BY <1>3, <1>6, <1>9, <1>10 DEF Journaled

LEMMA RestoreEndKeeps ==
  ASSUME Consistent, NEW h \in Handler, RestoreEnd(h)
  PROVE  Consistent'
<1> DEFINE k == task[h]
<1>0. /\ k \in Tasks /\ k.at = "restoring" /\ up /\ up' /\ k.todo = {} /\ CloseEntry(h)
      /\ UNCHANGED <<folder, rows, stack, turns, deferred, up, counts, cut>>
  BY StateShape DEF RestoreEnd, Consistent
<1>1. /\ Moving(k) /\ k.op \in {"rewind", "redo", "file"}
      /\ k.op = "rewind" => k \in Rewinding
      /\ k.op = "redo" => k \in Redoing
  BY <1>0, MovingKinds DEF Moving
<1>2. PICK rec \in Tasks :
        /\ Start(h, rec) /\ seq' \in {seq, seq + 1} /\ ~AtWork(rec) /\ ~Moving(rec)
        /\ rec.id \in {0, k.id}
        /\ HasRows(rec) => HasRows(k) /\ rec.hide = k.hide
        /\ HasTurns(rec) => HasTurns(k) /\ rec.back = k.back
        /\ HasTurns(k) => HasTurns(rec)
  <2>1. CASE k.op = "rewind"
    <3> DEFINE rec == [k EXCEPT !.at = "drop"]
    <3>1. rec \in Rewinding /\ rec.at = "drop" /\ rec.id = k.id /\ rec.hide = k.hide
      BY <1>1, <2>1 DEF Rewinding
    <3>2. rec \in Tasks
      BY <3>1 DEF Tasks
    <3>3. Start(h, rec) /\ seq' = seq
      BY <2>1 DEF RestoreEnd
    <3> HIDE DEF rec
    <3> QED BY <1>0, <2>1, <3>1, <3>2, <3>3 DEF HasRows, HasTurns, Moving, AtWork
  <2>2. CASE k.op = "redo"
    <3> DEFINE rec == [k EXCEPT !.at = "back"]
    <3>1. rec \in Redoing /\ rec.at = "back" /\ rec.id = k.id /\ rec.back = k.back
      BY <1>1, <2>2 DEF Redoing
    <3>2. rec \in Tasks
      BY <3>1 DEF Tasks
    <3>3. Start(h, rec) /\ seq' = seq
      BY <2>2 DEF RestoreEnd
    <3> HIDE DEF rec
    <3> QED BY <1>0, <2>2, <3>1, <3>2, <3>3 DEF HasRows, HasTurns, Moving, AtWork
  <2>3. CASE k.op = "file"
    <3>1. Idle \in Tasks /\ Idle.at = "idle" /\ Idle.id = 0
      BY DEF Tasks, Resting, Idle
    <3>2. Start(h, Idle) /\ seq' = seq + 1
      BY <2>3 DEF RestoreEnd
    <3> QED BY <1>0, <2>3, <3>1, <3>2 DEF HasRows, HasTurns, Moving, AtWork
  <2> QED BY <1>1, <2>1, <2>2, <2>3
<1>3. /\ task'[h] = rec /\ TaskTypes' /\ \A g \in Handler : g # h => task'[g] = task[g]
  BY <1>2, OnlyItsTask DEF Consistent, Types
<1>4. seq \in Nat /\ seq' \in Nat /\ seq <= seq'
  BY <1>2, StateShape DEF Consistent
<1>5. Journaled' /\ journal' \in Seq(Entries)
  <2>1. AtWork(k)
    BY <1>0 DEF AtWork
  <2> QED BY <1>0, <1>2, <1>3, <2>1, EntryCloses DEF Consistent
<1>6. Types'
  BY <1>0, <1>3, <1>4, <1>5
     DEF Consistent, Types, FolderTypes, TableTypes, QueueTypes, CountTypes, JournalTypes,
         folder, deferred, counts
<1>7. Rows'
  <2>1. /\ RowsOk(rows, seq', Len(turns'))
        /\ \A i \in 1..Len(stack) : /\ RowsOk(stack[i].rows, seq', Len(turns'))
                                    /\ DOMAIN stack[i].turns \subseteq 1..Len(turns')
        /\ \A g \in Handler :
             /\ HasRows(task[g]) => RowsOk(task[g].hide, seq', Len(turns'))
             /\ HasTurns(task[g]) => DOMAIN task[g].back \subseteq 1..Len(turns')
    <3>1. Len(turns) \in Nat /\ Len(turns') = Len(turns)
      BY <1>0, StateShape DEF Consistent
    <3> QED BY <1>4, <3>1, RowsLater DEF Consistent
  <2> QED BY <1>0, <1>2, <1>3, <2>1 DEF Rows
<1>8. Counted'
  BY <1>0 DEF Consistent, Counted, Names, deferred
<1>9. OwnIds'
  BY <1>0, <1>2, <1>3, StateShape, OwnIdsKept DEF Consistent, counts
<1>10. Whole'
  <2>1. \A g \in Handler : Restoring(task[g]) <=> g = h
    BY <1>0 DEF Consistent, Whole, Restoring
  <2>2. \A g \in Handler : ~Restoring(task'[g])
    BY <1>2, <1>3, <2>1 DEF Restoring, AtWork
  <2>3. \A q \in Path : Fits(q)
    BY <1>0, <2>1 DEF Consistent, Whole
  <2>4. \A q \in Path : Fits(q)'
    BY <1>0, <2>3 DEF Fits, folder
  <2> QED BY <1>0, <2>2, <2>4 DEF Whole
<1>11. Reachable'
  <2>1. HasTurns(task[h]) => /\ HasTurns(task'[h])
                             /\ DOMAIN task[h].back \subseteq DOMAIN task'[h].back
    BY <1>2, <1>3
  <2> QED BY <1>0, <1>3, <2>1, ReachableElsewhere DEF Consistent
<1> QED BY <1>0, <1>5, <1>6, <1>7, <1>8, <1>9, <1>10, <1>11 DEF Consistent, Still

LEMMA RestoreFailsKeeps ==
  ASSUME Consistent, NEW h \in Handler, RestoreFails(h)
  PROVE  Consistent'
<1> DEFINE k == task[h]
<1>0. /\ k \in Tasks /\ k.at = "restoring" /\ up /\ up' /\ CloseEntry(h) /\ Start(h, Idle)
      /\ fails < MaxFail /\ fails' = fails + 1 /\ cut' = (cut \/ k.op # "file")
      /\ want' = [p \in Path |-> IF p \in k.todo THEN Either ELSE want[p]]
      /\ UNCHANGED <<tree, database, deferred, up, written, ops, crashes>>
  BY StateShape DEF RestoreFails, Consistent
<1>1. Idle \in Tasks /\ Idle.at = "idle" /\ Idle.id = 0
  BY DEF Tasks, Resting, Idle
<1>2. /\ task'[h] = Idle /\ TaskTypes' /\ \A g \in Handler : g # h => task'[g] = task[g]
  BY <1>0, <1>1, OnlyItsTask DEF Consistent, Types
<1>3. Journaled' /\ journal' \in Seq(Entries)
  <2>1. AtWork(k) /\ ~AtWork(task'[h])
    BY <1>0, <1>1, <1>2 DEF AtWork
  <2> QED BY <1>0, <1>2, <2>1, EntryCloses DEF Consistent
<1>4. Types'
  <2>1. FolderTypes'
    BY <1>0 DEF Consistent, Types, FolderTypes
  <2>2. CountTypes'
    BY <1>0, TimeMachineAssumption DEF Consistent, Types, CountTypes
  <2> QED BY <1>0, <1>2, <1>3, <2>1, <2>2
          DEF Consistent, Types, TableTypes, QueueTypes, JournalTypes, database, deferred
<1>5. ~HasRows(task'[h]) /\ ~HasTurns(task'[h])
  BY <1>1, <1>2 DEF HasRows, HasTurns, Moving
<1>6. Rows'
  BY <1>0, <1>2, <1>5, StateShape, RowsElsewhere DEF Consistent, database
<1>7. Counted'
  BY <1>0 DEF Consistent, Counted, Names, deferred
<1>8. OwnIds'
  BY <1>0, <1>1, <1>2, StateShape, OwnIdsKept DEF Consistent
<1>9. Whole'
  <2>1. \A g \in Handler : Restoring(task[g]) <=> g = h
    BY <1>0 DEF Consistent, Whole, Restoring
  <2>2. \A g \in Handler : ~Restoring(task'[g])
    BY <1>1, <1>2, <2>1 DEF Restoring
  <2>3. \A q \in Path : Fits(q) \/ q \in k.todo
    BY <1>0, <2>1 DEF Consistent, Whole
  <2>4. \A q \in Path : Fits(q)'
    BY <1>0, <2>3 DEF Fits
  <2> QED BY <1>0, <2>2, <2>4 DEF Whole
<1>10. Reachable'
  <2> SUFFICES ASSUME ~cut' PROVE Reachable'
    BY DEF Reachable
  <2>1. ~cut /\ k.op = "file" /\ ~HasTurns(task[h])
    BY <1>0 DEF HasTurns, Moving
  <2>2. ASSUME NEW t, Redoable(t) PROVE Redoable(t)'
    BY <1>0, <1>2, <2>1, <2>2 DEF Redoable, database
  <2> QED BY <1>0, <2>1, <2>2 DEF Consistent, Reachable, database
<1> QED BY <1>0, <1>3, <1>4, <1>6, <1>7, <1>8, <1>9, <1>10 DEF Consistent, Still

-----------------------------------------------------------------------------
(* The worker and the turns: no request is involved. *)

\* Nothing a restore looks at is touched.
LEMMA NoRestoreMoves ==
  ASSUME Journaled, Whole, Still, OwnIds, UNCHANGED <<tree, want, journal, task, up, ops>>
  PROVE  Journaled' /\ Whole' /\ Still' /\ OwnIds'
<1>1. \A p \in Path : Fits(p) <=> Fits(p)'
  BY DEF Fits
<1> QED BY <1>1 DEF Journaled, Whole, Still, OwnIds

LEMMA NoTurnMoves ==
  ASSUME Reachable, UNCHANGED <<stack, turns, cut, task>>
  PROVE  Reachable'
BY DEF Reachable, Redoable

LEMMA TakeBatchKeeps == Consistent /\ TakeBatch => Consistent'
<1> SUFFICES ASSUME Consistent, TakeBatch PROVE Consistent'
  OBVIOUS
<1>0. /\ batch = <<>> /\ batch' = queue /\ queue' = <<>>
      /\ UNCHANGED <<folder, database, commit, waiting, saved, owed, journal, task, up,
                     counts, cut>>
  BY DEF TakeBatch
<1>1. QueueTypes /\ Counted
  BY DEF Consistent, Types
<1>2. Types'
  BY <1>0 DEF Consistent, Types, FolderTypes, TableTypes, QueueTypes, CountTypes, TaskTypes,
     JournalTypes, folder, database, counts
<1>3. Counted'
  <2>1. Len(<<>>) = 0 /\ Names(<<>>) = {} /\ Len(queue) \in Nat
    BY <1>1 DEF Names, QueueTypes
  <2>2. Names(batch') = Names(queue) /\ Names(queue') = Names(<<>>) /\ Names(batch) = Names(<<>>)
    BY <1>0 DEF Names
  <2> QED BY <1>0, <1>1, <2>1, <2>2 DEF Counted
<1>4. Rows'
  BY <1>0 DEF Consistent, Rows, database
<1> QED
  BY <1>0, <1>2, <1>3, <1>4, NoRestoreMoves, NoTurnMoves DEF Consistent, folder, database, counts

LEMMA LastImageIsContent ==
  ASSUME QueueTypes, NEW p \in Path, ImagesOf(p) # {}
  PROVE  LastImage(p) \in Content
<1>1. /\ batch \in Seq(Pending) /\ Len(batch) \in Nat /\ DOMAIN batch = 1..Len(batch)
  BY DEF QueueTypes
<1> DEFINE T == {Len(batch) - i : i \in ImagesOf(p)}
<1>2. ImagesOf(p) \subseteq 1..Len(batch)
  BY <1>1 DEF ImagesOf
<1>3. T \subseteq Nat /\ T # {}
  BY <1>1, <1>2
<1>4. PICK x \in T : \A y \in T : x <= y
  BY <1>3, LeastNumber
<1>5. \E i \in ImagesOf(p) : \A j \in ImagesOf(p) : j <= i
  <2>1. PICK i \in ImagesOf(p) : x = Len(batch) - i
    BY <1>4
  <2>2. \A j \in ImagesOf(p) : Len(batch) - i <= Len(batch) - j
    BY <1>4, <2>1
  <2>3. \A j \in ImagesOf(p) : i \in Int /\ j \in Int
    BY <1>2, <2>1
  <2> QED BY <1>1, <2>1, <2>2, <2>3
<1>6. (CHOOSE i \in ImagesOf(p) : \A j \in ImagesOf(p) : j <= i) \in 1..Len(batch)
  BY <1>2, <1>5
<1> DEFINE n == CHOOSE i \in ImagesOf(p) : \A j \in ImagesOf(p) : j <= i
<1>7. LastImage(p) = batch[n].was
  BY DEF LastImage
<1> HIDE DEF n
<1>8. batch[n] \in Pending
  BY <1>1, <1>6 DEF n
<1> QED BY <1>7, <1>8 DEF Pending

LEMMA WalkKeeps == Consistent /\ Walk => Consistent'
<1> SUFFICES ASSUME Consistent, Walk PROVE Consistent'
  OBVIOUS
<1>0. /\ commit' = {[p \in Path |-> IF ImagesOf(p) = {} THEN tree[p] ELSE LastImage(p)]}
      /\ UNCHANGED <<folder, database, queue, batch, waiting, saved, owed, journal,
                     task, up, counts, cut>>
  BY DEF Walk
<1>1. QueueTypes /\ Counted /\ tree \in [Path -> Content]
  BY DEF Consistent, Types, FolderTypes, Tree
<1>2. commit' \subseteq Tree
  <2>1. \A p \in Path : (IF ImagesOf(p) = {} THEN tree[p] ELSE LastImage(p)) \in Content
    BY <1>1, LastImageIsContent
  <2> QED BY <1>0, <2>1 DEF Tree
<1>3. Types'
  BY <1>0, <1>2 DEF Consistent, Types, FolderTypes, TableTypes, QueueTypes, CountTypes, TaskTypes,
     JournalTypes, folder, database, counts
<1>4. Counted'
  BY <1>0, <1>1 DEF Counted, Names
<1>5. Rows'
  BY <1>0 DEF Consistent, Rows, database
<1> QED
  BY <1>0, <1>3, <1>4, <1>5, NoRestoreMoves, NoTurnMoves DEF Consistent, folder, database, counts

LEMMA WalkFailsKeeps == Consistent /\ WalkFails => Consistent'
<1> SUFFICES ASSUME Consistent, WalkFails PROVE Consistent'
  OBVIOUS
<1>0. /\ fails < MaxFail /\ fails' = fails + 1 /\ waiting' = waiting - Len(batch)
      /\ owed' = owed \ {batch[i].name : i \in DOMAIN batch} /\ batch' = <<>>
      /\ UNCHANGED <<folder, database, queue, commit, saved, journal, task, up,
                     written, ops, crashes, cut>>
  BY DEF WalkFails
<1>1. /\ QueueTypes /\ Counted /\ Len(queue) \in Nat /\ Len(batch) \in Nat
      /\ DOMAIN batch = 1..Len(batch)
  BY DEF Consistent, Types, QueueTypes
<1>2. QueueTypes'
  <2>1. batch' \in Seq(Pending)
    BY <1>0
  <2>2. owed' \subseteq saved'
    BY <1>0, <1>1 DEF QueueTypes
  <2> QED BY <1>0, <1>1, <2>1, <2>2 DEF QueueTypes
<1>3. CountTypes'
  BY <1>0, TimeMachineAssumption DEF Consistent, Types, CountTypes
<1>4. Types'
  BY <1>0, <1>2, <1>3 DEF Consistent, Types, FolderTypes, TableTypes, TaskTypes, JournalTypes,
     folder, database
<1>5. Counted'
  <2>1. Len(<<>>) = 0 /\ Names(<<>>) = {} /\ Names(queue') = Names(queue)
    BY <1>0 DEF Names
  <2>2. owed' = owed \ Names(batch)
    BY <1>0, <1>1 DEF Names
  <2>3. owed' \subseteq Names(queue') \cup Names(batch')
    BY <1>0, <1>1, <2>1, <2>2 DEF Counted
  <2> QED BY <1>0, <1>1, <2>1, <2>3 DEF Counted
<1>6. Rows'
  BY <1>0 DEF Consistent, Rows, database
<1> QED
  BY <1>0, <1>4, <1>5, <1>6, NoRestoreMoves, NoTurnMoves DEF Consistent, folder, database

LEMMA InsertRowKeeps == Consistent /\ Dated /\ InsertRow => Consistent'
<1> SUFFICES ASSUME Consistent, Dated, InsertRow PROVE Consistent'
  OBVIOUS
<1> DEFINE first == Head(batch)
<1>0. /\ batch # <<>> /\ owed' = owed \ {first.name}
      /\ seq' = seq + 1 /\ batch' = Tail(batch) /\ waiting' = waiting - 1
      /\ commit' = IF batch' = <<>> THEN {} ELSE commit
      /\ UNCHANGED <<folder, stack, turns, queue, saved, journal, task, up, counts, cut>>
  BY DEF InsertRow
<1>1. PICK c \in commit :
        rows' = Insert(rows, [turn |-> first.turn, held |-> c, owner |-> 0,
                              after |-> Begun, of |-> {first}])
  BY DEF InsertRow
<1> DEFINE row == [turn |-> first.turn, held |-> c, owner |-> 0, after |-> Begun, of |-> {first}]
<1>2. /\ QueueTypes /\ Counted /\ batch \in Seq(Pending) /\ Len(queue) \in Nat
      /\ Len(batch) \in Nat
  BY DEF Consistent, Types, QueueTypes
<1>3. /\ first \in Pending /\ batch' \in Seq(Pending) /\ Len(batch') = Len(batch) - 1
      /\ batch[1] = first /\ \A i \in 1..Len(batch') : batch'[i] = batch[i + 1]
      /\ Len(batch) >= 1
  BY <1>0, <1>2
<1>4. /\ seq \in Nat /\ seq' \in Nat /\ seq <= seq' /\ rows \subseteq Row
      /\ Len(turns) \in 0..MaxWrite /\ Begun = Len(turns) /\ MaxWrite \in Nat /\ tree \in Tree
  BY <1>0, StateShape DEF Consistent
<1>5. c \in Tree
  BY <1>2 DEF QueueTypes
<1>6. first.turn \in Nat /\ first.turn <= seq /\ first.name \in 1..MaxWrite
  BY <1>3 DEF Dated, Pending
<1>7. row \in Row
  BY <1>3, <1>4, <1>5, <1>6 DEF Row
<1>8. row.turn <= seq' /\ row.owner <= Len(turns) /\ row.after <= Len(turns)
  BY <1>4, <1>6
<1>9. rows' = Insert(rows, row)
  BY <1>1
<1> HIDE DEF row, first
<1>10. /\ RowsOk(rows, seq', Len(turns))
       /\ \A i \in 1..Len(stack) : /\ RowsOk(stack[i].rows, seq', Len(turns))
                                   /\ DOMAIN stack[i].turns \subseteq 1..Len(turns)
       /\ \A g \in Handler :
            /\ HasRows(task[g]) => RowsOk(task[g].hide, seq', Len(turns))
            /\ HasTurns(task[g]) => DOMAIN task[g].back \subseteq 1..Len(turns)
  <2>1. Len(turns) \in Nat /\ turns' = turns
    BY <1>0, <1>4
  <2> QED BY <1>4, <2>1, RowsLater DEF Consistent
<1>11. RowsOk(rows', seq', Len(turns)) /\ rows' \subseteq Row
  BY <1>4, <1>7, <1>8, <1>9, <1>10, RowMore
<1>12. Rows'
  BY <1>0, <1>10, <1>11 DEF Rows
<1>13. QueueTypes'
  <2>1. commit' \subseteq Tree
    BY <1>0, <1>2 DEF QueueTypes
  <2>2. owed' \subseteq saved'
    BY <1>0, <1>2 DEF QueueTypes
  <2>3. saved' \subseteq 1..written'
    BY <1>0, <1>2 DEF QueueTypes, counts
  <2> QED BY <1>0, <1>2, <1>3, <2>1, <2>2, <2>3 DEF QueueTypes
<1>14. Types'
  BY <1>0, <1>4, <1>11, <1>13 DEF Consistent, Types, FolderTypes, TableTypes, CountTypes,
     TaskTypes, JournalTypes, folder, counts
<1>15. Counted'
  <2>1. Names(batch) \subseteq {first.name} \cup Names(batch')
    <3>1. ASSUME NEW i \in 1..Len(batch), i # 1
          PROVE  \E j \in 1..Len(batch') : batch'[j] = batch[i]
      <4>1. i - 1 \in 1..Len(batch') /\ (i - 1) + 1 = i
        BY <1>2, <1>3, <3>1
      <4> QED BY <1>3, <4>1
    <3>2. \A i \in 1..Len(batch) : batch[i].name = first.name \/ batch[i].name \in Names(batch')
      <4> TAKE i \in 1..Len(batch)
      <4>1. CASE i = 1
        BY <1>3, <4>1
      <4>2. CASE i # 1
        BY <3>1, <4>2 DEF Names
      <4> QED BY <4>1, <4>2
    <3> QED BY <3>2 DEF Names
  <2>2. Names(queue') = Names(queue) /\ Len(queue') = Len(queue)
    BY <1>0 DEF Names
  <2>3. owed' \subseteq Names(queue') \cup Names(batch')
    BY <1>0, <1>2, <2>1, <2>2 DEF Counted
  <2>4. waiting' = Len(queue') + Len(batch')
    BY <1>0, <1>2, <1>3, <2>2 DEF Counted
  <2> QED BY <2>3, <2>4 DEF Counted
<1> QED
  BY <1>0, <1>12, <1>14, <1>15, NoRestoreMoves, NoTurnMoves DEF Consistent, folder, counts

LEMMA TurnStartKeeps == Consistent /\ TurnStart => Consistent'
<1> SUFFICES ASSUME Consistent, TurnStart PROVE Consistent'
  OBVIOUS
<1>0. /\ up /\ Begun < MaxWrite /\ turns' = Append(turns, "running") /\ seq' = seq + 1
      /\ UNCHANGED <<folder, rows, stack, deferred, journal, task, up, counts, cut>>
  BY DEF TurnStart
<1>1. /\ turns \in Seq(TurnState) /\ "running" \in TurnState /\ Len(turns) \in 0..MaxWrite
      /\ MaxWrite \in Nat /\ seq \in Nat /\ Begun = Len(turns)
  BY StateShape DEF Consistent, Types, TableTypes, TurnState
<1>2. /\ turns' \in Seq(TurnState) /\ Len(turns') = Len(turns) + 1
      /\ turns'[Len(turns) + 1] = "running" /\ \A t \in 1..Len(turns) : turns'[t] = turns[t]
      /\ seq' \in Nat /\ seq <= seq' /\ Len(turns') \in Nat /\ Len(turns') <= MaxWrite
      /\ Len(turns) <= Len(turns')
  <2>1. turns' \in Seq(TurnState)
    BY <1>0, <1>1
  <2>2. /\ Len(turns') = Len(turns) + 1 /\ turns'[Len(turns) + 1] = "running"
        /\ \A t \in 1..Len(turns) : turns'[t] = turns[t]
    BY <1>0, <1>1
  <2>3. seq' \in Nat /\ seq <= seq'
    BY <1>0, <1>1
  <2>4. Len(turns') \in Nat /\ Len(turns') <= MaxWrite /\ Len(turns) <= Len(turns')
    BY <1>0, <1>1, <2>2
  <2> QED BY <2>1, <2>2, <2>3, <2>4
<1>3. Types'
  BY <1>0, <1>2 DEF Consistent, Types, FolderTypes, TableTypes, QueueTypes, CountTypes,
     TaskTypes, JournalTypes, folder, deferred, counts
<1>4. Rows'
  BY <1>0, <1>2, RowsLater DEF Consistent, Rows
<1>5. Counted'
  BY <1>0 DEF Consistent, Counted, Names, deferred
<1>6. Reachable'
  <2>1. ASSUME NEW t, Redoable(t) PROVE Redoable(t)'
    BY <1>0, <2>1 DEF Redoable
  <2>2. ASSUME NEW t \in 1..Len(turns'), turns'[t] = "rewound"
        PROVE  t \in 1..Len(turns) /\ turns[t] = "rewound"
    BY <1>1, <1>2, <2>2
  <2> QED BY <1>0, <2>1, <2>2 DEF Consistent, Reachable
<1> QED
  BY <1>0, <1>3, <1>4, <1>5, <1>6, NoRestoreMoves DEF Consistent, folder, counts

LEMMA TurnWorkKeeps ==
  ASSUME Consistent, NEW p \in Path, TurnWork(p)
  PROVE  Consistent'
<1> DEFINE row == [turn |-> seq, held |-> tree, owner |-> Begun, after |-> Begun, of |-> {}]
<1>0. /\ up /\ up' /\ written < MaxWrite /\ written' = written + 1
      /\ rows' = Insert(rows, row) /\ seq' = seq + 1
      /\ tree' = [tree EXCEPT ![p] = written'] /\ want' = Asked(p, written')
      /\ turns' = [turns EXCEPT ![Begun] = "done"]
      /\ UNCHANGED <<stack, deferred, journal, task, up, ops, fails, crashes, cut>>
  BY DEF TurnWork
<1>1. /\ turns \in Seq(TurnState) /\ "done" \in TurnState /\ Len(turns) \in 0..MaxWrite
      /\ MaxWrite \in Nat /\ seq \in Nat /\ Begun = Len(turns) /\ rows \subseteq Row
      /\ tree \in Tree /\ written \in 0..MaxWrite /\ written' \in 1..MaxWrite
      /\ written' \in Content
  BY <1>0, StateShape DEF Consistent, Types, TableTypes, TurnState, Content
<1>2. /\ turns' \in Seq(TurnState) /\ Len(turns') = Len(turns)
      /\ \A t \in 1..Len(turns) : turns'[t] \in {"done", turns[t]}
      /\ seq' \in Nat /\ seq <= seq' /\ Len(turns') \in Nat /\ Len(turns') <= MaxWrite
      /\ Len(turns) <= Len(turns')
  <2>1. turns' \in Seq(TurnState) /\ Len(turns') = Len(turns)
    <3>1. turns \in [1..Len(turns) -> TurnState]
      BY <1>1
    <3>2. turns' \in [1..Len(turns) -> TurnState]
      BY <1>0, <1>1, <3>1
    <3>3. turns' \in Seq(TurnState)
      BY <1>1, <3>2
    <3> QED BY <1>1, <3>2, <3>3
  <2>2. \A t \in 1..Len(turns) : turns'[t] \in {"done", turns[t]}
    BY <1>0, <1>1
  <2>3. seq' \in Nat /\ seq <= seq'
    BY <1>0, <1>1
  <2> QED BY <1>1, <2>1, <2>2, <2>3
<1>3. row \in Row /\ row.turn <= seq' /\ row.owner <= Len(turns) /\ row.after <= Len(turns)
  BY <1>1, <1>2 DEF Row
<1> HIDE DEF row
<1>4. /\ RowsOk(rows, seq', Len(turns'))
      /\ \A i \in 1..Len(stack) : /\ RowsOk(stack[i].rows, seq', Len(turns'))
                                  /\ DOMAIN stack[i].turns \subseteq 1..Len(turns')
      /\ \A g \in Handler :
           /\ HasRows(task[g]) => RowsOk(task[g].hide, seq', Len(turns'))
           /\ HasTurns(task[g]) => DOMAIN task[g].back \subseteq 1..Len(turns')
  BY <1>2, RowsLater DEF Consistent
<1>5. RowsOk(rows', seq', Len(turns')) /\ rows' \subseteq Row
  BY <1>0, <1>1, <1>2, <1>3, <1>4, RowMore
<1>6. Rows'
  BY <1>0, <1>4, <1>5 DEF Rows
<1>7. FolderTypes'
  BY <1>0, <1>1 DEF Consistent, Types, FolderTypes, Tree, Asked
<1>8. QueueTypes'
  <2>1. 1..written \subseteq 1..written'
    BY <1>0, <1>1
  <2> QED BY <1>0, <2>1 DEF Consistent, Types, QueueTypes, deferred
<1>9. Types'
  BY <1>0, <1>1, <1>2, <1>5, <1>7, <1>8 DEF Consistent, Types, TableTypes, CountTypes,
     TaskTypes, JournalTypes
<1>10. Counted'
  BY <1>0 DEF Consistent, Counted, Names, deferred
<1>11. Whole'
  BY <1>0, <1>1, <1>9, ChangeIsWhole DEF Consistent
<1>12. Journaled' /\ Still' /\ OwnIds'
  BY <1>0 DEF Consistent, Journaled, Still, OwnIds
<1>13. Reachable'
  <2>1. ASSUME NEW t, Redoable(t) PROVE Redoable(t)'
    BY <1>0, <2>1 DEF Redoable
  <2> QED BY <1>0, <1>2, <2>1 DEF Consistent, Reachable
<1> QED BY <1>6, <1>9, <1>10, <1>11, <1>12, <1>13 DEF Consistent

-----------------------------------------------------------------------------
(* A crash, and the start after it. *)

LEMMA CrashKeeps == Consistent /\ Crash => Consistent'
<1> SUFFICES ASSUME Consistent, Crash PROVE Consistent'
  OBVIOUS
<1>0. /\ crashes < MaxCrash /\ crashes' = crashes + 1 /\ up' = FALSE
      /\ queue' = <<>> /\ batch' = <<>> /\ commit' = {} /\ waiting' = 0 /\ owed' = {}
      /\ cut' = (cut \/ \E h \in Handler : HalfDone(h))
      /\ task' = [h \in Handler |-> Idle]
      /\ turns' = [t \in 1..Begun |->
                     IF turns[t] = "running" THEN "interrupted" ELSE turns[t]]
      /\ seq' \in {seq, seq + 2}
      /\ UNCHANGED <<folder, rows, stack, journal, saved, written, ops, fails>>
  BY DEF Crash
<1>1. /\ turns \in Seq(TurnState) /\ Len(turns) \in Nat /\ Begun = Len(turns) /\ seq \in Nat
      /\ Len(turns) <= MaxWrite /\ ops \in Nat /\ seq' \in Nat /\ seq <= seq'
  BY <1>0, StateShape DEF Consistent, Types, TableTypes
<1>2. /\ turns' \in Seq(TurnState) /\ Len(turns') = Len(turns)
      /\ \A t \in 1..Len(turns) : turns'[t] \in {"interrupted", turns[t]}
  <2>1. \A t \in 1..Len(turns) : turns'[t] \in TurnState
    BY <1>0, <1>1 DEF TurnState
  <2>2. turns' \in [1..Len(turns) -> TurnState]
    BY <1>0, <1>1, <2>1
  <2>3. turns' \in Seq(TurnState) /\ Len(turns') = Len(turns)
    BY <1>1, <2>2
  <2> QED BY <1>0, <1>1, <2>3
<1>3. /\ \A h \in Handler : task'[h] = Idle
      /\ TaskTypes' /\ Idle.at = "idle" /\ Idle.id = 0
  BY <1>0 DEF TaskTypes, Tasks, Resting, Idle
<1>4. \A h \in Handler : /\ ~AtWork(task'[h]) /\ ~Restoring(task'[h])
                         /\ ~HasRows(task'[h]) /\ ~HasTurns(task'[h])
  BY <1>3 DEF AtWork, Restoring, HasRows, HasTurns, Moving
<1>5. QueueTypes'
  <2>1. queue' \in Seq(Pending) /\ batch' \in Seq(Pending)
    BY <1>0
  <2> QED BY <1>0, <2>1 DEF Consistent, Types, QueueTypes
<1>6. CountTypes'
  <2>1. crashes' \in 0..MaxCrash
    BY <1>0, TimeMachineAssumption DEF Consistent, Types, CountTypes
  <2>2. cut' \in BOOLEAN /\ up' \in BOOLEAN
    BY <1>0 DEF Consistent, Types, CountTypes
  <2> QED BY <1>0, <2>1, <2>2 DEF Consistent, Types, CountTypes
<1>7. Types'
  BY <1>0, <1>1, <1>2, <1>3, <1>5, <1>6
     DEF Consistent, Types, FolderTypes, TableTypes, JournalTypes, folder
<1>8. Rows'
  <2>1. /\ RowsOk(rows, seq', Len(turns'))
        /\ \A i \in 1..Len(stack) : /\ RowsOk(stack[i].rows, seq', Len(turns'))
                                    /\ DOMAIN stack[i].turns \subseteq 1..Len(turns')
    <3>1. Len(turns') \in Nat /\ Len(turns) <= Len(turns')
      BY <1>1, <1>2
    <3> QED BY <1>1, <3>1, RowsLater DEF Consistent
  <2> QED BY <1>0, <1>4, <2>1 DEF Rows
<1>9. Counted'
  <2>1. Len(<<>>) = 0
    OBVIOUS
  <2> QED BY <1>0, <2>1 DEF Counted
<1>10. OwnIds'
  BY <1>0, <1>1, <1>3 DEF OwnIds
<1>11. Journaled'
  BY <1>0, <1>4 DEF Consistent, Journaled
<1>12. Whole'
  <2>1. ASSUME NEW p \in Path
        PROVE  Fits(p) \/ \E i \in 1..Len(journal) : p \in journal[i].scope
    <3>1. CASE ~up
      BY <3>1 DEF Consistent, Whole
    <3>2. CASE up /\ ~Fits(p)
      <4>1. PICK h \in Handler : Restoring(task[h]) /\ p \in task[h].todo
        BY <3>2 DEF Consistent, Whole
      <4>2. p \in task[h].scope
        BY <4>1 DEF Consistent, Whole
      <4>3. \E i \in 1..Len(journal) : EntryOf(journal[i], task[h])
        BY <4>1 DEF Consistent, Journaled, AtWork, Restoring
      <4> QED BY <4>2, <4>3 DEF EntryOf
    <3> QED BY <3>1, <3>2 DEF Consistent, Types, CountTypes
  <2>2. \A p \in Path : Fits(p) <=> Fits(p)'
    BY <1>0 DEF Fits, folder
  <2> QED BY <1>0, <1>4, <2>1, <2>2 DEF Whole
<1>13. Reachable'
  <2> SUFFICES ASSUME ~cut', NEW t \in 1..Len(turns'), turns'[t] = "rewound"
               PROVE  Redoable(t)'
    BY DEF Reachable
  <2>1. ~cut /\ t \in 1..Len(turns) /\ turns[t] = "rewound" /\ \A h \in Handler : ~HalfDone(h)
    BY <1>0, <1>2
  <2>2. Redoable(t)
    BY <2>1 DEF Consistent, Reachable
  <2>3. ASSUME NEW h \in Handler, HasTurns(task[h]) PROVE FALSE
    <3>1. task[h] \in Tasks
      BY StateShape DEF Consistent
    <3>2. task[h].at = "push" => task[h].op = "rewind"
      BY <3>1, TaskKinds DEF Pushing
    <3>3. task[h].at = "back" => task[h].op = "redo"
      BY <3>1, TaskKinds DEF Redoing
    <3> QED BY <2>1, <2>3, <3>2, <3>3 DEF HalfDone, HasTurns, Moving
  <2> QED BY <1>0, <2>2, <2>3 DEF Redoable
<1>14. Still'
  BY <1>3 DEF Still
<1> QED BY <1>7, <1>8, <1>9, <1>10, <1>11, <1>12, <1>13, <1>14 DEF Consistent

\* While the daemon starts nobody restores; the first entry is run again.
LEMMA Starting ==
  ASSUME Consistent, ~up, journal # <<>>
  PROVE  /\ \A h \in Handler : ~Restoring(task[h]) /\ ~AtWork(task[h])
         /\ journal \in Seq(Entries) /\ Len(journal) \in Nat /\ 1 \in 1..Len(journal)
         /\ Head(journal) = journal[1] /\ Head(journal) \in Entries
         /\ Head(journal).target \in Tree /\ Head(journal).scope \subseteq Path
         /\ Tail(journal) \in Seq(Entries) /\ Len(Tail(journal)) = Len(journal) - 1
         /\ \A i \in 1..Len(Tail(journal)) : Tail(journal)[i] = journal[i + 1]
<1>1. \A h \in Handler : ~Restoring(task[h]) /\ ~AtWork(task[h])
  BY DEF Consistent, Still, Restoring, AtWork
<1>2. journal \in Seq(Entries) /\ Len(journal) \in Nat /\ 1 \in 1..Len(journal)
  BY DEF Consistent, Types, JournalTypes
<1>3. Head(journal) = journal[1] /\ journal[1] \in Entries
  BY <1>2
<1>4. journal[1].target \in Tree /\ journal[1].scope \subseteq Path
  BY <1>3 DEF Entries
<1>5. Tail(journal) \in Seq(Entries) /\ Len(Tail(journal)) = Len(journal) - 1
  BY <1>2
<1>6. \A i \in 1..Len(Tail(journal)) : Tail(journal)[i] = journal[i + 1]
  BY <1>2
<1> QED BY <1>1, <1>2, <1>3, <1>4, <1>5, <1>6

LEMMA RecoverPathKeeps ==
  ASSUME Consistent, NEW p \in Path, RecoverPath(p)
  PROVE  Consistent'
<1>0. /\ ~up /\ journal # <<>> /\ p \in Head(journal).scope
      /\ tree' = [tree EXCEPT ![p] = Head(journal).target[p]]
      /\ UNCHANGED <<want, database, deferred, journal, task, up, counts, cut>>
  BY DEF RecoverPath
<1>1. /\ \A h \in Handler : ~Restoring(task[h])
      /\ 1 \in 1..Len(journal) /\ Head(journal) = journal[1] /\ Head(journal).target \in Tree
  BY <1>0, Starting
<1>2. tree \in Tree /\ tree' \in Tree /\ \A q \in Path : q # p => tree'[q] = tree[q]
  BY <1>0, <1>1 DEF Consistent, Types, FolderTypes, Tree
<1>3. Types'
  BY <1>0, <1>2
     DEF Consistent, Types, FolderTypes, TableTypes, QueueTypes, CountTypes, TaskTypes, JournalTypes,
         database, deferred, counts
<1>4. Whole'
  <2>1. \A q \in Path : q # p => (Fits(q) <=> Fits(q)')
    BY <1>0, <1>2 DEF Fits
  <2>2. \E i \in 1..Len(journal) : p \in journal[i].scope
    BY <1>0, <1>1
  <2>3. \A q \in Path : Fits(q) \/ \E i \in 1..Len(journal) : q \in journal[i].scope
    BY <1>0 DEF Consistent, Whole
  <2> QED BY <1>0, <1>1, <2>1, <2>2, <2>3 DEF Whole
<1>5. Rows' /\ Counted'
  BY <1>0 DEF Consistent, Rows, Counted, Names, database, deferred
<1>6. OwnIds' /\ Journaled' /\ Still'
  BY <1>0 DEF Consistent, OwnIds, Journaled, Still, counts
<1> QED BY <1>0, <1>3, <1>4, <1>5, <1>6, NoTurnMoves DEF Consistent, database

\* An entry leaves the journal: its files are as wanted, or may be either.
LEMMA EntryLeaves ==
  ASSUME Consistent, ~up, journal # <<>>, journal' = Tail(journal), seq' = seq + 1,
         want' \in [Path -> Content \cup {Either}],
         \A q \in Head(journal).scope : want'[q] \in {tree[q], Either},
         \A q \in Path : q \notin Head(journal).scope => want'[q] = want[q],
         UNCHANGED <<tree, rows, stack, turns, deferred, task, up, written, ops, crashes, cut>>,
         CountTypes'
  PROVE  Consistent'
<1>1. /\ \A h \in Handler : ~Restoring(task[h]) /\ ~AtWork(task[h])
      /\ journal \in Seq(Entries) /\ Len(journal) \in Nat /\ 1 \in 1..Len(journal)
      /\ Head(journal) = journal[1]
      /\ journal' \in Seq(Entries) /\ Len(journal') = Len(journal) - 1
      /\ \A i \in 1..Len(journal') : journal'[i] = journal[i + 1]
  BY Starting
<1>2. seq \in Nat /\ seq' \in Nat /\ seq <= seq' /\ Len(turns) \in Nat /\ turns' = turns
  BY StateShape DEF Consistent
<1>3. Types'
  BY <1>1, <1>2 DEF Consistent, Types, FolderTypes, TableTypes, QueueTypes, TaskTypes, JournalTypes,
     deferred
<1>4. Rows'
  <2>1. /\ RowsOk(rows, seq', Len(turns'))
        /\ \A i \in 1..Len(stack) : /\ RowsOk(stack[i].rows, seq', Len(turns'))
                                    /\ DOMAIN stack[i].turns \subseteq 1..Len(turns')
        /\ \A g \in Handler :
             /\ HasRows(task[g]) => RowsOk(task[g].hide, seq', Len(turns'))
             /\ HasTurns(task[g]) => DOMAIN task[g].back \subseteq 1..Len(turns')
    BY <1>2, RowsLater DEF Consistent
  <2> QED BY <2>1 DEF Rows
<1>5. Counted' /\ OwnIds' /\ Still'
  BY DEF Consistent, Counted, Names, OwnIds, Still, deferred
<1>6. Journaled'
  <2>1. ASSUME NEW i \in 1..Len(journal'), NEW j \in 1..Len(journal'),
               journal'[i].id = journal'[j].id
        PROVE  i = j
    <3>1. /\ i + 1 \in 1..Len(journal) /\ j + 1 \in 1..Len(journal)
          /\ journal'[i] = journal[i + 1] /\ journal'[j] = journal[j + 1]
      BY <1>1
    <3>2. i + 1 = j + 1
      BY <2>1, <3>1 DEF Consistent, Journaled
    <3> QED BY <1>1, <3>2
  <2>2. \A h \in Handler : ~AtWork(task'[h])
    BY <1>1
  <2> QED BY <2>1, <2>2 DEF Journaled
<1>7. Whole'
  <2>1. ASSUME NEW q \in Path
        PROVE  Fits(q)' \/ \E i \in 1..Len(journal') : q \in journal'[i].scope
    <3>1. CASE q \in Head(journal).scope
      BY <3>1 DEF Fits
    <3>2. CASE q \notin Head(journal).scope /\ Fits(q)
      BY <3>2 DEF Fits
    <3>3. CASE q \notin Head(journal).scope /\ ~Fits(q)
      <4>1. PICK i \in 1..Len(journal) : q \in journal[i].scope
        BY <3>3 DEF Consistent, Whole
      <4>2. i # 1
        BY <1>1, <3>3, <4>1
      <4>3. i - 1 \in 1..Len(journal') /\ (i - 1) + 1 = i
        BY <1>1, <4>2
      <4>4. journal'[i - 1] = journal[i]
        BY <1>1, <4>3
      <4> QED BY <4>1, <4>3, <4>4
    <3> QED BY <3>1, <3>2, <3>3
  <2>2. \A h \in Handler : ~Restoring(task'[h])
    BY <1>1
  <2> QED BY <2>1, <2>2 DEF Whole
<1> QED BY <1>3, <1>4, <1>5, <1>6, <1>7, NoTurnMoves DEF Consistent

LEMMA RecoverEndKeeps == Consistent /\ RecoverEnd => Consistent'
<1> SUFFICES ASSUME Consistent, RecoverEnd PROVE Consistent'
  OBVIOUS
<1>0. /\ ~up /\ journal # <<>>
      /\ \A p \in Head(journal).scope : tree[p] = Head(journal).target[p]
      /\ want' = Wanted(Head(journal)) /\ journal' = Tail(journal) /\ seq' = seq + 1
      /\ UNCHANGED <<tree, rows, stack, turns, deferred, task, up, counts, cut>>
  BY DEF RecoverEnd
<1>1. Head(journal).target \in Tree /\ Head(journal).scope \subseteq Path
  BY <1>0, Starting
<1>2. want \in [Path -> Content \cup {Either}]
  BY DEF Consistent, Types, FolderTypes
<1>3. want' \in [Path -> Content \cup {Either}]
  BY <1>0, <1>1, <1>2 DEF Wanted, Tree
<1>4. /\ \A q \in Head(journal).scope : want'[q] \in {tree[q], Either}
      /\ \A q \in Path : q \notin Head(journal).scope => want'[q] = want[q]
  BY <1>0, <1>1 DEF Wanted
<1>5. CountTypes'
  BY <1>0 DEF Consistent, Types, CountTypes, counts
<1> QED BY <1>0, <1>3, <1>4, <1>5, EntryLeaves DEF counts

LEMMA RecoverFailsKeeps == Consistent /\ RecoverFails => Consistent'
<1> SUFFICES ASSUME Consistent, RecoverFails PROVE Consistent'
  OBVIOUS
<1>0. /\ ~up /\ journal # <<>> /\ fails < MaxFail /\ fails' = fails + 1
      /\ want' = [p \in Path |-> IF p \in Head(journal).scope THEN Either ELSE want[p]]
      /\ journal' = Tail(journal) /\ seq' = seq + 1
      /\ UNCHANGED <<tree, rows, stack, turns, deferred, task, up, written, ops, crashes, cut>>
  BY DEF RecoverFails
<1>1. Head(journal).scope \subseteq Path
  BY <1>0, Starting
<1>2. want \in [Path -> Content \cup {Either}]
  BY DEF Consistent, Types, FolderTypes
<1>3. want' \in [Path -> Content \cup {Either}]
  BY <1>0, <1>2
<1>4. /\ \A q \in Head(journal).scope : want'[q] \in {tree[q], Either}
      /\ \A q \in Path : q \notin Head(journal).scope => want'[q] = want[q]
  BY <1>0, <1>1
<1>5. CountTypes'
  BY <1>0, TimeMachineAssumption DEF Consistent, Types, CountTypes
<1> QED BY <1>0, <1>3, <1>4, <1>5, EntryLeaves

LEMMA StartUpKeeps == Consistent /\ StartUp => Consistent'
<1> SUFFICES ASSUME Consistent, StartUp PROVE Consistent'
  OBVIOUS
<1>0. /\ ~up /\ journal = <<>> /\ up' = TRUE
      /\ UNCHANGED <<folder, database, deferred, journal, task, counts, cut>>
  BY DEF StartUp
<1>1. \A h \in Handler : ~Restoring(task[h]) /\ ~AtWork(task[h])
  BY <1>0 DEF Consistent, Still, Restoring, AtWork
<1>2. 1..Len(journal) = {}
  BY <1>0
<1>3. Types'
  BY <1>0
     DEF Consistent, Types, FolderTypes, TableTypes, QueueTypes, CountTypes, TaskTypes, JournalTypes,
         folder, database, deferred, counts
<1>4. Whole'
  <2>1. \A p \in Path : Fits(p)
    BY <1>0, <1>2 DEF Consistent, Whole
  <2>2. \A p \in Path : Fits(p)'
    BY <1>0, <2>1 DEF Fits, folder
  <2> QED BY <1>0, <1>1, <2>2 DEF Whole
<1>5. Journaled'
  BY <1>0, <1>1, <1>2 DEF Journaled
<1>6. Rows' /\ Counted' /\ OwnIds' /\ Still'
  BY <1>0 DEF Consistent, Rows, Counted, Names, OwnIds, Still, database, deferred, counts
<1> QED BY <1>0, <1>3, <1>4, <1>5, <1>6, NoTurnMoves DEF Consistent, database

-----------------------------------------------------------------------------
(* The ordinals, the induction, and the properties. *)

\* No step takes the log's number back, and a change is filed under the number of its moment.
LEMMA StepDated == Types /\ Dated /\ [Next]_vars => Dated'
<1> SUFFICES ASSUME Types, Dated, [Next]_vars PROVE Dated'
  OBVIOUS
<1>0. /\ seq \in Nat /\ queue \in Seq(Pending) /\ batch \in Seq(Pending)
      /\ Len(queue) \in Nat /\ Len(batch) \in Nat
      /\ \A i \in 1..Len(queue) : queue[i].turn \in Nat
      /\ \A i \in 1..Len(batch) : batch[i].turn \in Nat
  <2>1. seq \in Nat /\ queue \in Seq(Pending) /\ batch \in Seq(Pending)
    BY DEF Types, TableTypes, QueueTypes
  <2>2. \A i \in 1..Len(queue) : queue[i] \in Pending
    BY <2>1
  <2>3. \A i \in 1..Len(batch) : batch[i] \in Pending
    BY <2>1
  <2>4. \A x \in Pending : x.turn \in Nat
    BY DEF Pending
  <2> QED BY <2>1, <2>2, <2>3, <2>4
<1>1. ASSUME UNCHANGED <<queue, batch>>, seq' \in {seq, seq + 1, seq + 2} PROVE Dated'
  BY <1>0, <1>1 DEF Dated
<1>2. ASSUME NEW h \in Handler, NEW p \in Path, Save(h, p) PROVE Dated'
  <2> DEFINE new == [turn |-> seq, path |-> p, was |-> tree[p], name |-> written']
  <2>1. queue' = Append(queue, new) /\ new.turn = seq /\ seq' = seq /\ batch' = batch
    BY <1>2 DEF Save, database
  <2> HIDE DEF new
  <2>2. /\ Len(queue') = Len(queue) + 1 /\ queue'[Len(queue) + 1] = new
        /\ \A i \in 1..Len(queue) : queue'[i] = queue[i]
    BY <1>0, <2>1
  <2>3. \A i \in 1..Len(queue') : queue'[i].turn <= seq
    <3> TAKE i \in 1..Len(queue')
    <3>1. CASE i = Len(queue) + 1
      BY <1>0, <2>1, <2>2, <3>1
    <3>2. CASE i # Len(queue) + 1
      <4>1. i \in 1..Len(queue)
        BY <1>0, <2>2, <3>2
      <4> QED BY <2>2, <4>1 DEF Dated
    <3> QED BY <3>1, <3>2
  <2> QED BY <2>1, <2>3 DEF Dated
<1>3. ASSUME TakeBatch PROVE Dated'
  BY <1>3 DEF TakeBatch, Dated, database
<1>4. ASSUME WalkFails PROVE Dated'
  BY <1>4 DEF WalkFails, Dated, database
<1>5. ASSUME InsertRow PROVE Dated'
  <2>1. batch # <<>> /\ batch' = Tail(batch) /\ seq' = seq + 1 /\ queue' = queue
    BY <1>5 DEF InsertRow
  <2>2. Len(batch') = Len(batch) - 1
    BY <1>0, <2>1
  <2>3. \A i \in 1..Len(batch') : batch'[i] = batch[i + 1] /\ i + 1 \in 1..Len(batch)
    BY <1>0, <2>1, <2>2
  <2>4. \A i \in 1..Len(batch') : batch'[i].turn <= seq /\ batch'[i].turn \in Nat
    BY <1>0, <2>3 DEF Dated
  <2> QED BY <1>0, <2>1, <2>4 DEF Dated
<1>6. ASSUME Crash PROVE Dated'
  BY <1>6 DEF Crash, Dated
<1>7. ASSUME NEW h \in Handler, NEW p \in Path, NEW r \in rows,
             RestoreFile(h, r, p)
      PROVE  Dated'
  BY <1>1, <1>7 DEF RestoreFile, deferred
<1>8. ASSUME NEW h \in Handler, NEW f \in Range(stack), Switch(h, f)
      PROVE  Dated'
  BY <1>1, <1>8 DEF Switch, database, deferred
<1>9. ASSUME NEW h \in Handler,
             \/ WriteFile(h) \/ CommitNow(h) \/ Redo(h) \/ Leave(h) \/ Promote(h) \/ Pop(h)
             \/ NothingToRedo(h) \/ OpenJournal(h) \/ TakeIndex(h)
             \/ RestoreFails(h) \/ DropTurns(h) \/ PushFrame(h) \/ PutTurnsBack(h)
             \/ \E p \in Path : RestorePath(h, p)
      PROVE  Dated'
  BY <1>1, <1>9 DEF WriteFile, CommitNow, Redo, Leave, Promote, Pop, NothingToRedo, OpenJournal,
     TakeIndex, RestoreFails, DropTurns, PushFrame, PutTurnsBack, RestorePath, database, deferred
<1>10. ASSUME NEW h \in Handler, RestoreEnd(h) PROVE Dated'
  <2>1. task[h].op \in {"rewind", "redo", "file"}
    BY <1>10, StateShape, MovingKinds DEF RestoreEnd, Moving
  <2> QED BY <1>1, <1>10, <2>1 DEF RestoreEnd, database, deferred
<1>11. ASSUME \/ Walk \/ TurnStart \/ RecoverEnd \/ StartUp \/ RecoverFails
              \/ \E p \in Path : TurnWork(p) \/ RecoverPath(p)
       PROVE  Dated'
  BY <1>1, <1>11 DEF Walk, TurnStart, RecoverEnd, StartUp, RecoverFails, TurnWork, RecoverPath,
     database, deferred
<1>12. CASE UNCHANGED vars
  BY <1>1, <1>12 DEF vars, database, deferred
<1>13. ASSUME NEW h \in Handler, Request(h) PROVE Dated'
  <2>1. CASE \E p \in Path : Save(h, p)
    BY <1>2, <2>1
  <2>2. ASSUME NEW r \in rows, NEW p \in Path, RestoreFile(h, r, p) PROVE Dated'
    BY <1>7, <2>2
  <2>3. CASE \E r \in rows : Rewind(h, r)
    BY <1>1, <2>3 DEF Rewind, database, deferred
  <2>4. CASE \E f \in Range(stack) : Switch(h, f)
    BY <1>8, <2>4
  <2>5. CASE Redo(h)
    BY <1>9, <2>5
  <2> QED BY <1>13, <2>1, <2>2, <2>3, <2>4, <2>5 DEF Request
<1>14. ASSUME NEW h \in Handler, HandlerStep(h) PROVE Dated'
  BY <1>9, <1>10, <1>14 DEF HandlerStep, RestoreStep
<1>15. ASSUME Worker \/ Recovery PROVE Dated'
  BY <1>3, <1>5, <1>11, <1>15 DEF Worker, Recovery
<1> QED BY <1>4, <1>6, <1>9, <1>11, <1>12, <1>13, <1>14, <1>15 DEF Next

LEMMA InitConsistent == Init => IInv
<1> SUFFICES ASSUME Init PROVE IInv
  OBVIOUS
<1>1. /\ MaxWrite \in Nat /\ MaxOp \in Nat /\ MaxFail \in Nat /\ MaxCrash \in Nat
      /\ Len(<<>>) = 0
  BY TimeMachineAssumption
<1>2. FolderTypes
  BY <1>1 DEF Init, FolderTypes, Tree, Content
<1>3. TableTypes
  BY <1>1 DEF Init, TableTypes
<1>4. QueueTypes
  BY <1>1 DEF Init, QueueTypes
<1>5. CountTypes
  <2>1. 0 \in 0..MaxWrite /\ 0 \in 0..MaxOp /\ 0 \in 0..MaxFail /\ 0 \in 0..MaxCrash
    BY <1>1
  <2> QED BY <2>1 DEF Init, CountTypes
<1>6. \A h \in Handler : task[h] = Idle /\ Idle.at = "idle" /\ Idle.id = 0
  BY DEF Init, Idle
<1>7. TaskTypes
  BY DEF Init, TaskTypes, Tasks, Resting, Idle
<1>8. JournalTypes
  BY DEF Init, JournalTypes
<1>9. Rows
  BY <1>1, <1>6 DEF Init, Rows, RowsOk, HasRows, HasTurns, Moving
<1>10. Counted /\ OwnIds /\ Still
  BY <1>1, <1>6 DEF Init, Counted, OwnIds, Still
<1>11. Journaled
  BY <1>1, <1>6 DEF Init, Journaled, AtWork
<1>12. Whole
  BY <1>6 DEF Init, Whole, Fits, Restoring
<1>13. Reachable /\ Dated
  BY <1>1 DEF Init, Reachable, Dated
<1> QED
  BY <1>2, <1>3, <1>4, <1>5, <1>7, <1>8, <1>9, <1>10, <1>11, <1>12, <1>13
     DEF IInv, Consistent, Types

LEMMA StutterKeeps == Consistent /\ UNCHANGED vars => Consistent'
<1> SUFFICES ASSUME Consistent, UNCHANGED vars PROVE Consistent'
  OBVIOUS
<1>1. Types' /\ Rows'
  BY DEF vars, folder, database, deferred, counts, Consistent, Types, FolderTypes, TableTypes,
     QueueTypes, CountTypes, TaskTypes, JournalTypes, Rows
<1>2. Counted'
  BY DEF vars, deferred, Consistent, Counted, Names
<1> QED
  BY <1>1, <1>2, NoRestoreMoves, NoTurnMoves DEF vars, folder, database, deferred, counts, Consistent

LEMMA RequestKeeps ==
  ASSUME Consistent, NEW h \in Handler, Request(h) \/ HandlerStep(h) \/ RestoreFails(h)
  PROVE  Consistent'
<1>1. CASE Request(h)
  BY <1>1, SaveKeeps, RewindKeeps, RestoreFileKeeps, RedoKeeps, SwitchKeeps DEF Request
<1>2. CASE RestoreStep(h)
  BY <1>2, OpenJournalKeeps, TakeIndexKeeps, RestoreEndKeeps, RestorePathKeeps DEF RestoreStep
<1>3. CASE HandlerStep(h)
  BY <1>2, <1>3, WriteFileKeeps, CommitNowKeeps, LeaveKeeps, PromoteKeeps, PopKeeps,
     NothingToRedoKeeps, DropTurnsKeeps, PushFrameKeeps, PutTurnsBackKeeps DEF HandlerStep
<1>4. CASE RestoreFails(h)
  BY <1>4, RestoreFailsKeeps
<1> QED BY <1>1, <1>3, <1>4

\* The inductive invariant, one step per group of actions.
THEOREM Inductive == Spec => []IInv
<1>1. Init => IInv
  BY InitConsistent
<1>2. IInv /\ [Next]_vars => IInv'
  <2> SUFFICES ASSUME IInv, [Next]_vars PROVE IInv'
    OBVIOUS
  <2>1. Consistent /\ Dated /\ Types
    BY DEF IInv, Consistent
  <2>2. Dated'
    BY <2>1, StepDated
  <2>3. Consistent'
    <3>1. CASE \E h \in Handler : Request(h) \/ HandlerStep(h) \/ RestoreFails(h)
      BY <2>1, <3>1, RequestKeeps
    <3>2. CASE Worker \/ WalkFails
      BY <2>1, <3>2, TakeBatchKeeps, WalkKeeps, InsertRowKeeps, WalkFailsKeeps DEF Worker
    <3>3. CASE TurnStart \/ \E p \in Path : TurnWork(p)
      BY <2>1, <3>3, TurnStartKeeps, TurnWorkKeeps
    <3>4. CASE Crash \/ Recovery \/ RecoverFails
      BY <2>1, <3>4, CrashKeeps, RecoverPathKeeps, RecoverEndKeeps, RecoverFailsKeeps, StartUpKeeps
         DEF Recovery
    <3>5. CASE UNCHANGED vars
      BY <2>1, <3>5, StutterKeeps
    <3> QED BY <3>1, <3>2, <3>3, <3>4, <3>5 DEF Next
  <2> QED BY <2>2, <2>3 DEF IInv
<1> QED BY <1>1, <1>2, PTL DEF Spec

\* "A folder that is half one checkpoint and half another" never stands
\* (rewind::journaled and rewind::recover, under the folder's index lock).
THEOREM WholeFolder == Spec => []FolderIsWhole
<1>1. IInv => FolderIsWhole
  <2> SUFFICES ASSUME IInv, up, IndexFree, NEW p \in Path
               PROVE  want[p] \in {tree[p], Either}
    BY DEF FolderIsWhole
  <2>1. \A h \in Handler : ~Restoring(task[h])
    BY DEF IndexFree, Restoring
  <2> QED BY <2>1 DEF IInv, Consistent, Whole, Fits
<1> QED BY <1>1, Inductive, PTL

\* While the daemon answers, an open entry of the restore journal is of a restore
\* at work (journal_open, journal_close), so a later start runs no old restore.
THEOREM NoOldRestore == Spec => []NoStaleEntry
<1>1. IInv => NoStaleEntry
  <2> SUFFICES ASSUME IInv, up, NEW e \in Range(journal)
               PROVE  \E h \in Handler : /\ task[h].at \in {"restore", "restoring"}
                                         /\ task[h].id = e.id /\ task[h].target = e.target
    BY DEF NoStaleEntry
  <2>1. journal \in Seq(Entries)
    BY DEF IInv, Consistent, Types, JournalTypes
  <2>2. PICK i \in 1..Len(journal) : e = journal[i]
    BY <2>1 DEF Range
  <2>3. \E h \in Handler : EntryOf(journal[i], task[h])
    BY DEF IInv, Consistent, Journaled
  <2> QED BY <2>2, <2>3 DEF EntryOf, AtWork
<1> QED BY <1>1, Inductive, PTL

\* A turn a rewind took out can be put back: its frame has it, or the request
\* that is between the two (rewind::apply, push_rewind_frame, rewind::redo).
THEOREM RewoundKept == Spec => []RewoundTurnsAreKept
<1>1. IInv => RewoundTurnsAreKept
  <2> SUFFICES ASSUME IInv, ~cut, NEW t \in 1..Begun, turns[t] = "rewound"
               PROVE  \/ \E f \in Range(stack) : t \in DOMAIN f.turns
                      \/ \E h \in Handler :
                           /\ task[h].at \in {"push", "open", "restore", "restoring", "back"}
                           /\ "back" \in DOMAIN task[h]
                           /\ t \in DOMAIN task[h].back
    BY DEF RewoundTurnsAreKept
  <2>1. Redoable(t)
    BY DEF IInv, Consistent, Reachable, Begun
  <2>2. CASE \E i \in 1..Len(stack) : t \in DOMAIN stack[i].turns
    <3>1. stack \in Seq(Frames)
      BY DEF IInv, Consistent, Types, TableTypes
    <3> QED BY <2>2, <3>1 DEF Range
  <2>3. CASE \E h \in Handler : HasTurns(task[h]) /\ t \in DOMAIN task[h].back
    <3>1. PICK h \in Handler : HasTurns(task[h]) /\ t \in DOMAIN task[h].back
      BY <2>3
    <3>2. task[h] \in Pushing \cup Redoing
      BY <3>1, StateShape, TaskKinds, MovingKinds DEF IInv, Consistent, HasTurns
    <3>3. "back" \in DOMAIN task[h]
      BY <3>2 DEF Pushing, Redoing
    <3> QED BY <3>1, <3>3 DEF HasTurns, Moving
  <2> QED BY <2>1, <2>2, <2>3 DEF Redoable
<1> QED BY <1>1, Inductive, PTL

\* drain() returns when WAITING is zero: then every change has its row or was
\* given up, and none is in the queue or in the worker's hands (deferred.rs).
THEOREM Drains == Spec => []DrainIsEnough
<1>1. IInv => DrainIsEnough
  <2> SUFFICES ASSUME IInv, waiting = 0 PROVE owed = {} /\ queue = <<>> /\ batch = <<>>
    BY DEF DrainIsEnough, Drained
  <2>1. queue \in Seq(Pending) /\ batch \in Seq(Pending)
    BY DEF IInv, Consistent, Types, QueueTypes
  <2>2. Len(queue) = 0 /\ Len(batch) = 0
    BY <2>1 DEF IInv, Consistent, Counted
  <2>3. Names(queue) = {} /\ Names(batch) = {}
    BY <2>2 DEF Names
  <2> QED BY <2>1, <2>2, <2>3 DEF IInv, Consistent, Counted
<1> QED BY <1>1, Inductive, PTL

\* Every variable has its type; a row, a frame and what a request carries are of
\* the past, and one row stands for one ordinal.
THEOREM Shape == Spec => []TypeOK
<1>1. IInv => TypeOK
  <2> SUFFICES ASSUME IInv PROVE TypeOK
    OBVIOUS
  <2>1. Types /\ Rows /\ Counted
    BY DEF IInv, Consistent
  <2>2. seq \in Nat /\ Len(turns) \in Nat /\ Begun = Len(turns) /\ rows \subseteq Row
    BY <2>1, StateShape
  <2>3. ASSUME NEW r \in rows
        PROVE  /\ r.turn \in 0..seq /\ r.held \in Tree
               /\ r.owner \in 0..Begun /\ r.after \in 0..Begun
               /\ r.of \subseteq Pending
    <3>1. r \in Row
      BY <2>2
    <3>2. r.turn \in Nat /\ r.owner \in Nat /\ r.after \in Nat
      BY <3>1, TimeMachineAssumption DEF Row
    <3>3. r.turn <= seq /\ r.owner <= Begun /\ r.after <= Begun
      BY <2>1, <2>2 DEF Rows, RowsOk
    <3>4. r.held \in Tree /\ r.of \subseteq Pending
      BY <3>1 DEF Row
    <3> QED BY <2>2, <3>2, <3>3, <3>4
  <2>4. \A r, s \in rows : r.turn = s.turn => r = s
    BY <2>1 DEF Rows, RowsOk
  <2>5. \A f \in Range(stack) : f.now \in Tree /\ DOMAIN f.turns \subseteq 1..Begun
    <3>1. stack \in Seq(Frames)
      BY <2>1 DEF Types, TableTypes
    <3>2. ASSUME NEW f \in Range(stack)
          PROVE  \E i \in 1..Len(stack) : f = stack[i] /\ stack[i] \in Frames
      BY <3>1 DEF Range
    <3>3. \A f \in Frames : f.now \in Tree
      BY DEF Frames
    <3> QED BY <2>1, <2>2, <3>2, <3>3 DEF Rows
  <2>6. waiting \in Nat
    <3>1. Len(queue) \in Nat /\ Len(batch) \in Nat
      BY <2>1 DEF Types, QueueTypes
    <3> QED BY <2>1, <3>1 DEF Counted
  <2>7. ASSUME NEW h \in Handler PROVE TaskOk(task[h])
    <3> DEFINE k == task[h]
    <3>1. k \in Tasks
      BY <2>1, StateShape
    <3>2. /\ k.at \in Stages /\ k.id \in 0..MaxOp
          /\ k.at = "write" => k \in Writing
          /\ k.at \in {"commit", "drop", "push"} => k \in Committing \cup Rewinding \cup Pushing
      BY <3>1, TaskKinds
    <3>3. /\ HasTurns(k) => DOMAIN k.back \subseteq 1..Begun
      BY <2>1, <2>2 DEF Rows
    <3>4. Moving(k) => /\ k.target \in Tree /\ k.scope \subseteq Path
                       /\ k.op \in {"rewind", "redo", "file"}
      BY <3>1, MovingKinds
    <3> HIDE DEF k
    <3>5. k.at = "write" => k.path \in Path /\ k.content \in 1..MaxWrite
      BY <3>2 DEF Writing
    <3>6. k.at \in {"commit", "drop", "push"} => k.hide # {}
      BY <3>2 DEF Committing, Rewinding, Pushing
    <3>7. k.at \in {"push", "back"} => DOMAIN k.back \subseteq 1..Begun
      BY <3>3 DEF HasTurns
    <3>8. k.at \in {"open", "restore", "restoring"} =>
            k.target \in Tree /\ k.scope \subseteq Path /\ k.op \in {"rewind", "redo", "file"}
      BY <3>4 DEF Moving
    <3>9. TaskOk(k)
      BY <3>2, <3>5, <3>6, <3>7, <3>8 DEF TaskOk
    <3> QED BY <3>9 DEF k
  <2>8. tree \in Tree /\ want \in [Path -> Content \cup {Either}]
    BY <2>1 DEF Types, FolderTypes
  <2>9. turns \in Seq(TurnState) /\ Begun <= MaxWrite
    BY <2>1, <2>2 DEF Types, TableTypes
  <2>10. /\ queue \in Seq(Pending) /\ batch \in Seq(Pending) /\ commit \subseteq Tree
         /\ owed \subseteq saved /\ saved \subseteq 1..written
    BY <2>1 DEF Types, QueueTypes
  <2>11. CountTypes
    BY <2>1 DEF Types
  <2> QED
    BY <2>3, <2>4, <2>5, <2>6, <2>7, <2>8, <2>9, <2>10, <2>11 DEF TypeOK, CountTypes
<1> QED BY <1>1, Inductive, PTL
=============================================================================
