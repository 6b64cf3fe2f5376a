----------------------------- MODULE TimeMachine -----------------------------
(* The Time Machine of one chat whose folder is on this machine: the        *)
(* checkpoints a Save, a turn or a restore takes (checkpoints/), the worker *)
(* that writes a Save's checkpoint after the answer (deferred.rs), rewind,  *)
(* redo and branch switch with their frames (rewind/mod.rs, ops_methods.rs),*)
(* one file put back (kernel.rs), and the restore journal that a restart    *)
(* finishes (rewind::recover).                                              *)
(*                                                                          *)
(* A shadow commit is the tree it recorded; its sha is that tree.  Content  *)
(* n is what the n-th change of a path left there, a missing file included; *)
(* 0 is what was there at first.  A row's place in time against the turns   *)
(* (created_at against started_at) is the number of turns begun before it.  *)
EXTENDS Integers, Sequences, FiniteSets, SequencesExt

CONSTANTS
  Path,        \* the files of the folder
  Handler,     \* window requests that may be in flight together
  MaxWrite,    \* bound: changes of a file (saves and turns)
  MaxOp,       \* bound: rewinds, redos, switches and single-file restores
  MaxFail,     \* bound: git commands that fail
  MaxCrash     \* bound: times the daemon dies

ASSUME TimeMachineAssumption ==
  /\ IsFiniteSet(Path) /\ IsFiniteSet(Handler)
  /\ MaxWrite \in Nat /\ MaxOp \in Nat /\ MaxFail \in Nat /\ MaxCrash \in Nat

VARIABLES
  tree,        \* the folder
  seq,         \* the event log's last number: a checkpoint's ordinal
  rows,        \* the checkpoints table
  stack,       \* rewind_stack, oldest first
  journal,     \* restore_journal's entries still 'started', oldest first
  turns,       \* each turn's state, in the order they began
  queue,       \* deferred changes sent to the worker
  batch,       \* the changes the worker took together
  commit,      \* the batch's commit: {} until it is made
  waiting,     \* WAITING
  task,        \* what each handler is in the middle of
  up,          \* the daemon answers; otherwise it is starting
  written, ops, fails, crashes,        \* how often, for the bounds
  want,        \* ghost: what the last change or restore of a path asked for
  saved, owed, \* ghosts: the changes submitted; those still without a row
  cut          \* ghost: a rewind, redo or switch stopped half way

folder   == <<tree, want>>
database == <<rows, stack, turns, seq>>
deferred == <<queue, batch, commit, waiting, saved, owed>>
counts   == <<written, ops, fails, crashes>>
vars == <<folder, database, deferred, journal, task, up, counts, cut>>

Content == 0..MaxWrite
Tree    == [Path -> Content]
Either  == 0 - 1     \* want: a write raced a restore, either may stand
TurnState == {"running", "done", "interrupted", "rewound"}
TurnId == 1..MaxWrite

\* A change waiting for its checkpoint: deferred.rs's Pending.
Pending == [turn : Nat, path : Path, was : Content, name : 1..MaxWrite]

\* A row of `checkpoints`: its ordinal, its commit, the turn that wrote it
\* (0: none), the turns begun before it was inserted, and the deferred
\* change its title names, if it is one's.
Row == [turn : Nat, held : Tree, owner : 0..MaxWrite, after : 0..MaxWrite,
        of : SUBSET Pending]

\* A row of rewind_stack with its frame JSON.
Frame == [id : 1..(2 * MaxOp), rows : SUBSET Row, now : Tree,
          turns : UNION {[D -> TurnState] : D \in SUBSET TurnId}]

Stages == {"idle", "write", "commit", "restore", "restoring", "drop",
           "push", "leave", "promote", "pop", "open", "back"}

Idle == [at |-> "idle", id |-> 0]

Begun == Len(turns)

\* Slip listed in PROJECT.json: the old row of an ordinal is not deleted.
InsertBeside(table, row) == table \cup {row}

\* INSERT after DELETE of the same session and turn: one row per ordinal.
Insert(table, row) == {r \in table : r.turn # row.turn} \cup {row}

\* checkpoints_from: the rows at or after an ordinal.
From(turn) == {r \in rows : r.turn >= turn}
Oldest(set) == CHOOSE r \in set : \A s \in set : r.turn <= s.turn

\* turns_after_checkpoint.
Dropped(target) ==
  {t \in 1..Begun : /\ turns[t] # "rewound"
                    /\ IF target.owner # 0 THEN t >= target.owner
                                           ELSE t > target.after}

IndexFree == \A h \in Handler : task[h].at # "restoring"
Running == \E t \in 1..Begun : turns[t] = "running"

Asked(p, n) == IF journal = <<>> THEN [want EXCEPT ![p] = n]
                                 ELSE [want EXCEPT ![p] = Either]
Wanted(entry) == [p \in Path |-> IF p \in entry.scope THEN entry.target[p]
                                                     ELSE want[p]]
Start(h, rec) == task' = [task EXCEPT ![h] = rec]
Entry(h, target, scope) == [id |-> task[h].id, target |-> target, scope |-> scope]
-----------------------------------------------------------------------------
Init ==
  /\ tree = [p \in Path |-> 0] /\ want = tree
  /\ seq = 0 /\ rows = {} /\ stack = <<>> /\ turns = <<>>
  /\ queue = <<>> /\ batch = <<>> /\ commit = {}
  /\ waiting = 0 /\ saved = {} /\ owed = {}
  /\ journal = <<>>
  /\ task = [h \in Handler |-> Idle]
  /\ up = TRUE
  /\ written = 0 /\ ops = 0 /\ fails = 0 /\ crashes = 0
  /\ cut = FALSE
-----------------------------------------------------------------------------
(* fs.write, fs.rename and fs.delete: the pre-image of the touched path is *)
(* captured and submitted under the ordinal of this moment, then the file  *)
(* changes (checkpoint_first, then fs::write).                             *)
Save(h, p) ==
  /\ up /\ task[h].at = "idle" /\ written < MaxWrite
  /\ written' = written + 1
  /\ Start(h, [at |-> "write", id |-> 0, path |-> p, content |-> written'])
  /\ queue' = Append(queue, [turn |-> seq, path |-> p, was |-> tree[p],
                             name |-> written'])
  /\ waiting' = waiting + 1
  /\ saved' = saved \cup {written'} /\ owed' = owed \cup {written'}
  /\ UNCHANGED <<folder, database, batch, commit, journal, up, ops, fails,
                 crashes, cut>>

WriteFile(h) ==
  /\ up /\ task[h].at = "write"
  /\ tree' = [tree EXCEPT ![task[h].path] = task[h].content]
  /\ want' = Asked(task[h].path, task[h].content)
  /\ Start(h, Idle)
  /\ UNCHANGED <<database, deferred, journal, up, counts, cut>>
-----------------------------------------------------------------------------
\* Slip: the changes are counted as written when they are taken.
TakeBatchDone ==
  /\ up /\ batch = <<>> /\ queue # <<>>
  /\ batch' = queue /\ queue' = <<>>
  /\ waiting' = waiting - Len(queue)
  /\ UNCHANGED <<folder, database, commit, saved, owed, journal, task, up, counts, cut>>

(* The worker of the folder.  The pre-images are put back over what the     *)
(* walk finds, in the order they came.                                      *)
TakeBatch ==
  /\ up /\ batch = <<>> /\ queue # <<>>
  /\ batch' = queue /\ queue' = <<>>
  /\ UNCHANGED <<folder, database, commit, waiting, saved, owed, journal, task,
                 up, counts, cut>>

ImagesOf(p) == {i \in DOMAIN batch : batch[i].path = p}
LastImage(p) == batch[CHOOSE i \in ImagesOf(p) : \A j \in ImagesOf(p) : j <= i].was

\* checkpoint_with: the folder as it is now, the touched paths as they were.
Walk ==
  /\ up /\ batch # <<>> /\ commit = {} /\ IndexFree
  /\ commit' = {[p \in Path |-> IF ImagesOf(p) = {} THEN tree[p] ELSE LastImage(p)]}
  /\ UNCHANGED <<folder, database, queue, batch, waiting, saved, owed, journal,
                 task, up, counts, cut>>

\* The commit failed: the whole batch is given up, and the error only logged.
WalkFails ==
  /\ up /\ batch # <<>> /\ commit = {} /\ fails < MaxFail
  /\ fails' = fails + 1
  /\ waiting' = waiting - Len(batch)
  /\ owed' = owed \ {batch[i].name : i \in DOMAIN batch}
  /\ batch' = <<>>
  /\ UNCHANGED <<folder, database, queue, commit, saved, journal, task, up,
                 written, ops, crashes, cut>>

\* insert_checkpoint for the next change of the batch; `done` pushes
\* CheckpointSaved.
InsertRow ==
  /\ up /\ batch # <<>> /\ commit # {}
  /\ LET first == Head(batch)
     IN  /\ \E c \in commit :
              rows' = Insert(rows, [turn |-> first.turn, held |-> c, owner |-> 0,
                                    after |-> Begun, of |-> {first}])
         /\ owed' = owed \ {first.name}
  /\ seq' = seq + 1
  /\ batch' = Tail(batch)
  /\ commit' = IF batch' = <<>> THEN {} ELSE commit
  /\ waiting' = waiting - 1
  /\ UNCHANGED <<folder, stack, turns, queue, saved, journal, task, up, counts, cut>>
-----------------------------------------------------------------------------
(* A turn: it begins (TurnStarted), and before its first change it takes a  *)
(* checkpoint of the folder as it is, marked with the turn.                 *)
TurnStart ==
  /\ up /\ ~Running /\ written < MaxWrite /\ Begun < MaxWrite
  /\ turns' = Append(turns, "running")
  /\ seq' = seq + 1
  /\ UNCHANGED <<folder, rows, stack, deferred, journal, task, up, counts, cut>>

TurnWork(p) ==
  /\ up /\ Running /\ IndexFree /\ written < MaxWrite
  /\ written' = written + 1
  /\ rows' = Insert(rows, [turn |-> seq, held |-> tree, owner |-> Begun,
                           after |-> Begun, of |-> {}])
  /\ seq' = seq + 1
  /\ tree' = [tree EXCEPT ![p] = written']
  /\ want' = Asked(p, written')
  /\ turns' = [turns EXCEPT ![Begun] = "done"]
  /\ UNCHANGED <<stack, deferred, journal, task, up, ops, fails, crashes, cut>>
-----------------------------------------------------------------------------
(* A request on the history.  Each is refused while a turn runs, which is   *)
(* looked at once, before anything is done (refuse_while_running).          *)
Ready(h) == up /\ task[h].at = "idle" /\ ~Running /\ ops < MaxOp

\* rewind::apply: the rows to hide are read; the oldest is the target.
Rewind(h, r) ==
  /\ Ready(h) /\ r \in rows
  /\ ops' = ops + 1
  /\ Start(h, [at |-> "commit", id |-> ops', op |-> "rewind", hide |-> From(r.turn)])
  /\ UNCHANGED <<folder, database, deferred, journal, up, written, fails,
                 crashes, cut>>

\* commit_now: the folder just before it moves.
CommitNow(h) ==
  /\ up /\ task[h].at = "commit" /\ IndexFree
  /\ LET target == Oldest(task[h].hide)
     IN  Start(h, [at |-> "open", id |-> task[h].id, op |-> "rewind",
                   hide |-> task[h].hide, now |-> tree, target |-> target.held,
                   scope |-> Path, todo |-> {}, back |-> <<>>])
  /\ UNCHANGED <<folder, database, deferred, journal, up, counts, cut>>

\* rewind.redo; the frame is taken by Pop.
Redo(h) ==
  /\ Ready(h)
  /\ ops' = ops + 1
  /\ Start(h, [at |-> "pop", id |-> ops'])
  /\ UNCHANGED <<folder, database, deferred, journal, up, written, fails,
                 crashes, cut>>

\* timeline_switch: the chosen branch is one of the chat's ...
Switch(h, f) ==
  /\ Ready(h) /\ f \in Range(stack)
  /\ ops' = ops + 1
  /\ Start(h, [at |-> "leave", id |-> ops', chosen |-> f.id])
  /\ UNCHANGED <<folder, database, deferred, journal, up, written, fails,
                 crashes, cut>>

\* ... the branch being left is pushed as a frame of its own ...
Leave(h) ==
  /\ up /\ task[h].at = "leave" /\ IndexFree
  /\ stack' = Append(stack, [id |-> task[h].id, rows |-> {}, now |-> tree,
                             turns |-> <<>>])
  /\ Start(h, [task[h] EXCEPT !.at = "promote"])
  /\ UNCHANGED <<folder, rows, turns, seq, deferred, journal, up, counts, cut>>

\* ... and the chosen one is made the newest, under a new row id, if it is
\* still there under the id it was chosen by.
Promoted(id) == MaxOp + id
Promote(h) ==
  /\ up /\ task[h].at = "promote"
  /\ \/ \E i \in DOMAIN stack :
          /\ stack[i].id = task[h].chosen
          /\ stack' = Append(RemoveAt(stack, i),
                             [stack[i] EXCEPT !.id = Promoted(task[h].id)])
     \/ /\ \A f \in Range(stack) : f.id # task[h].chosen
        /\ UNCHANGED stack
  /\ Start(h, [at |-> "pop", id |-> task[h].id])
  /\ UNCHANGED <<folder, rows, turns, seq, deferred, journal, up, counts, cut>>

\* pop_rewind_frame: the newest frame leaves the stack, its rows come back.
Pop(h) ==
  /\ up /\ task[h].at = "pop" /\ stack # <<>>
  /\ LET frame == Last(stack)
     IN  /\ rows' = frame.rows
                      \cup {r \in rows : \A f \in frame.rows : f.turn # r.turn}
         /\ Start(h, [at |-> "open", id |-> task[h].id, op |-> "redo",
                      back |-> frame.turns, target |-> frame.now, scope |-> Path,
                      todo |-> {}])
  /\ stack' = Front(stack)
  /\ UNCHANGED <<folder, seq, turns, deferred, journal, up, counts, cut>>

NothingToRedo(h) ==
  /\ up /\ task[h].at = "pop" /\ stack = <<>>
  /\ Start(h, Idle)
  /\ UNCHANGED <<folder, database, deferred, journal, up, counts, cut>>

\* checkpoint_restore_file: one file of a row, after a checkpoint of now.
RestoreFile(h, r, p) ==
  /\ Ready(h) /\ IndexFree /\ r \in rows
  /\ ops' = ops + 1
  /\ rows' = Insert(rows, [turn |-> seq, held |-> tree, owner |-> 0,
                           after |-> Begun, of |-> {}])
  /\ seq' = seq + 1
  /\ Start(h, [at |-> "open", id |-> ops', op |-> "file", target |-> r.held,
               scope |-> {p}, todo |-> {}])
  /\ UNCHANGED <<folder, stack, turns, deferred, journal, up, written, fails,
                 crashes, cut>>
-----------------------------------------------------------------------------
(* rewind::journaled: the entry is written before the folder moves and      *)
(* closed after; git works file by file under the index lock.               *)
OpenJournal(h) ==
  /\ up /\ task[h].at = "open"
  /\ journal' = Append(journal, Entry(h, task[h].target, task[h].scope))
  /\ Start(h, [task[h] EXCEPT !.at = "restore"])
  /\ UNCHANGED <<folder, database, deferred, up, counts, cut>>

\* Slip: git works without the index lock.
TakeIndexUnlocked(h) ==
  /\ up /\ task[h].at = "restore"
  /\ Start(h, [task[h] EXCEPT !.at = "restoring", !.todo = task[h].scope])
  /\ want' = Wanted(task[h])
  /\ UNCHANGED <<tree, database, deferred, journal, up, counts, cut>>

TakeIndex(h) ==
  /\ up /\ task[h].at = "restore" /\ IndexFree
  /\ Start(h, [task[h] EXCEPT !.at = "restoring", !.todo = task[h].scope])
  /\ want' = Wanted(task[h])
  /\ UNCHANGED <<tree, database, deferred, journal, up, counts, cut>>

RestorePath(h, p) ==
  /\ up /\ task[h].at = "restoring" /\ p \in task[h].todo
  /\ tree' = [tree EXCEPT ![p] = task[h].target[p]]
  /\ Start(h, [task[h] EXCEPT !.todo = @ \ {p}])
  /\ UNCHANGED <<want, database, deferred, journal, up, counts, cut>>

\* Slip: journal_close is forgotten.
CloseEntryNot(h) == UNCHANGED journal

CloseEntry(h) ==
  \E i \in DOMAIN journal : /\ journal[i].id = task[h].id
                           /\ journal' = RemoveAt(journal, i)

RestoreEnd(h) ==
  /\ up /\ task[h].at = "restoring" /\ task[h].todo = {}
  /\ CloseEntry(h)
  /\ CASE task[h].op = "rewind" ->
            Start(h, [task[h] EXCEPT !.at = "drop"]) /\ UNCHANGED seq
       [] task[h].op = "redo" ->
            Start(h, [task[h] EXCEPT !.at = "back"]) /\ UNCHANGED seq
       [] task[h].op = "file" -> Start(h, Idle) /\ seq' = seq + 1
  /\ UNCHANGED <<folder, rows, stack, turns, deferred, up, counts, cut>>

\* git failed: the entry is closed "failed" and the caller gets the error;
\* a popped frame is not put back.
RestoreFails(h) ==
  /\ up /\ task[h].at = "restoring" /\ fails < MaxFail
  /\ fails' = fails + 1
  /\ want' = [p \in Path |-> IF p \in task[h].todo THEN Either ELSE want[p]]
  /\ cut' = (cut \/ task[h].op # "file")
  /\ CloseEntry(h)
  /\ Start(h, Idle)
  /\ UNCHANGED <<tree, database, deferred, up, written, ops, crashes>>
-----------------------------------------------------------------------------
(* The conversation half.                                                   *)

\* set_turn_state "rewound" on the turns the target drops.
DropTurns(h) ==
  /\ up /\ task[h].at = "drop"
  /\ LET gone == Dropped(Oldest(task[h].hide))
     IN  /\ turns' = [t \in 1..Begun |-> IF t \in gone THEN "rewound" ELSE turns[t]]
         /\ Start(h, [task[h] EXCEPT !.at = "push", !.back = [t \in gone |-> turns[t]]])
  /\ UNCHANGED <<folder, rows, stack, seq, deferred, journal, up, counts, cut>>

\* Slip: the frame does not keep the turns it took.
PushFrameBare(h) ==
  /\ up /\ task[h].at = "push"
  /\ stack' = Append(stack, [id |-> task[h].id, rows |-> task[h].hide,
                             now |-> task[h].now, turns |-> <<>>])
  /\ rows' = {r \in rows : \A d \in task[h].hide : d.turn # r.turn}
  /\ seq' = seq + 2
  /\ Start(h, Idle)
  /\ UNCHANGED <<folder, turns, deferred, journal, up, counts, cut>>

\* push_rewind_frame, then RewindApplied and the toast.
PushFrame(h) ==
  /\ up /\ task[h].at = "push"
  /\ stack' = Append(stack, [id |-> task[h].id, rows |-> task[h].hide,
                             now |-> task[h].now, turns |-> task[h].back])
  /\ rows' = {r \in rows : \A d \in task[h].hide : d.turn # r.turn}
  /\ seq' = seq + 2
  /\ Start(h, Idle)
  /\ UNCHANGED <<folder, turns, deferred, journal, up, counts, cut>>

\* A redo puts each turn back in the state its frame kept.
PutTurnsBack(h) ==
  /\ up /\ task[h].at = "back"
  /\ turns' = [t \in 1..Begun |->
                 IF t \in DOMAIN task[h].back THEN task[h].back[t] ELSE turns[t]]
  /\ seq' = seq + 1
  /\ Start(h, Idle)
  /\ UNCHANGED <<folder, rows, stack, deferred, journal, up, counts, cut>>
-----------------------------------------------------------------------------
(* The daemon dies.  Files and tables stay; what was in memory is gone, and *)
(* a turn that ran is closed as interrupted, with two events (lib.rs), at   *)
(* the next start.                                                          *)
HalfDone(h) == /\ task[h].at \in {"open", "restore", "restoring", "drop", "push", "back"}
               /\ task[h].op # "file"

Crash ==
  /\ crashes < MaxCrash
  /\ crashes' = crashes + 1
  /\ up' = FALSE
  /\ queue' = <<>> /\ batch' = <<>> /\ commit' = {} /\ waiting' = 0
  /\ owed' = {}
  /\ cut' = (cut \/ \E h \in Handler : HalfDone(h))
  /\ task' = [h \in Handler |-> Idle]
  /\ turns' = [t \in 1..Begun |->
                 IF turns[t] = "running" THEN "interrupted" ELSE turns[t]]
  /\ seq' = IF Running THEN seq + 2 ELSE seq
  /\ UNCHANGED <<folder, rows, stack, journal, saved, written, ops, fails>>

\* rewind::recover: each open entry, oldest first, is run again to its
\* target, and a toast says so.
RecoverPath(p) ==
  /\ ~up /\ journal # <<>> /\ p \in Head(journal).scope
  /\ tree[p] # Head(journal).target[p]
  /\ tree' = [tree EXCEPT ![p] = Head(journal).target[p]]
  /\ UNCHANGED <<want, database, deferred, journal, task, up, counts, cut>>

RecoverEnd ==
  /\ ~up /\ journal # <<>>
  /\ \A p \in Head(journal).scope : tree[p] = Head(journal).target[p]
  /\ want' = Wanted(Head(journal))
  /\ journal' = Tail(journal)
  /\ seq' = seq + 1
  /\ UNCHANGED <<tree, rows, stack, turns, deferred, task, up, counts, cut>>

RecoverFails ==
  /\ ~up /\ journal # <<>> /\ fails < MaxFail
  /\ fails' = fails + 1
  /\ want' = [p \in Path |-> IF p \in Head(journal).scope THEN Either ELSE want[p]]
  /\ journal' = Tail(journal)
  /\ seq' = seq + 1
  /\ UNCHANGED <<tree, rows, stack, turns, deferred, task, up, written, ops,
                 crashes, cut>>

StartUp ==
  /\ ~up /\ journal = <<>>
  /\ up' = TRUE
  /\ UNCHANGED <<folder, database, deferred, journal, task, counts, cut>>
-----------------------------------------------------------------------------
Worker == TakeBatch \/ Walk \/ InsertRow

RestoreStep(h) ==
  \/ OpenJournal(h) \/ TakeIndex(h) \/ RestoreEnd(h)
  \/ \E p \in Path : RestorePath(h, p)

HandlerStep(h) ==
  \/ WriteFile(h) \/ CommitNow(h) \/ Leave(h) \/ Promote(h) \/ Pop(h) \/ NothingToRedo(h)
  \/ RestoreStep(h) \/ DropTurns(h) \/ PushFrame(h) \/ PutTurnsBack(h)

Request(h) ==
  \/ \E p \in Path : Save(h, p)
  \/ \E r \in rows : Rewind(h, r) \/ \E p \in Path : RestoreFile(h, r, p)
  \/ Redo(h) \/ \E f \in Range(stack) : Switch(h, f)

Recovery == RecoverEnd \/ StartUp \/ \E p \in Path : RecoverPath(p)

Next ==
  \/ \E h \in Handler : Request(h) \/ HandlerStep(h) \/ RestoreFails(h)
  \/ Worker \/ WalkFails
  \/ TurnStart \/ \E p \in Path : TurnWork(p)
  \/ Crash \/ Recovery \/ RecoverFails

Spec == Init /\ [][Next]_vars
-----------------------------------------------------------------------------
(* Properties.                                                              *)

TaskOk(k) ==
  /\ k.at \in Stages /\ k.id \in 0..MaxOp
  /\ k.at = "write" => k.path \in Path /\ k.content \in 1..MaxWrite
  /\ k.at \in {"commit", "drop", "push"} => k.hide # {}
  /\ k.at \in {"open", "restore", "restoring"} =>
       k.target \in Tree /\ k.scope \subseteq Path /\ k.op \in {"rewind", "redo", "file"}
  /\ k.at \in {"push", "back"} => DOMAIN k.back \subseteq 1..Begun

\* Every variable has its type, and one row stands for one ordinal.
TypeOK ==
  /\ tree \in Tree /\ want \in [Path -> Content \cup {Either}]
  /\ \A r \in rows : /\ r.turn \in 0..seq /\ r.held \in Tree
                     /\ r.owner \in 0..Begun /\ r.after \in 0..Begun
                     /\ r.of \subseteq Pending
  /\ \A r, s \in rows : r.turn = s.turn => r = s
  /\ \A f \in Range(stack) : f.now \in Tree /\ DOMAIN f.turns \subseteq 1..Begun
  /\ turns \in Seq(TurnState) /\ Begun <= MaxWrite
  /\ queue \in Seq(Pending) /\ batch \in Seq(Pending) /\ commit \subseteq Tree
  /\ waiting \in Nat /\ owed \subseteq saved /\ saved \subseteq 1..written
  /\ \A h \in Handler : TaskOk(task[h])
  /\ up \in BOOLEAN /\ cut \in BOOLEAN
  /\ written \in 0..MaxWrite /\ ops \in 0..MaxOp /\ fails \in 0..MaxFail
  /\ crashes \in 0..MaxCrash

\* "A folder that is half one checkpoint and half another" (rewind/mod.rs:133)
\* never stands: when no restore is at work, each file is what the last change
\* or the last restore over it asked for, across crashes, recoveries and two
\* restores at once.  A file changed while a restore ran may be either.
FolderIsWhole ==
  up /\ IndexFree => \A p \in Path : want[p] \in {tree[p], Either}

\* While the daemon answers, every open entry of the journal is a restore at
\* work now: what a crash, a failure or a recovery leaves behind is closed, so
\* no later start runs an old restore over newer work.
NoStaleEntry ==
  up => \A e \in Range(journal) : \E h \in Handler :
          /\ task[h].at \in {"restore", "restoring"}
          /\ task[h].id = e.id /\ task[h].target = e.target

\* A turn taken out of the conversation is in the frame of the rewind that
\* took it, or in the hands of the one at work, so a redo can put it back;
\* unless a crash or a failing git cut one short.
RewoundTurnsAreKept ==
  ~cut => \A t \in 1..Begun : turns[t] = "rewound" =>
            \/ \E f \in Range(stack) : t \in DOMAIN f.turns
            \/ \E h \in Handler : /\ task[h].at \in {"push", "open", "restore", "restoring", "back"}
                                  /\ "back" \in DOMAIN task[h]
                                  /\ t \in DOMAIN task[h].back

\* drain() waits for WAITING to reach zero: then no change is still without
\* its row, so a stop that waited loses none.
Drained == waiting = 0
DrainIsEnough == Drained => owed = {} /\ queue = <<>> /\ batch = <<>>

\* deferred.rs:12 and its test every_change_keeps_its_own_row_and_its_own_
\* file_as_it_was: every change has a row of its own, whose commit holds the
\* file as it was before that change.
EveryChangeKeepsItsRow ==
  Drained /\ up =>
    \A n \in saved : \E r \in rows : \E c \in r.of :
      c.name = n /\ r.held[c.path] = c.was

\* rewind/mod.rs:68: the turn that wrote a hidden checkpoint leaves the
\* conversation with it, so no engine builds on work no longer on disk.
HiddenTurnsAreRewound ==
  \A f \in Range(stack) : \A r \in f.rows :
    r.owner # 0 => turns[r.owner] = "rewound"
=============================================================================
