# SDC: a verification project for the host daemon

SDC is a local-first workbench for coding agents. A host daemon (`sdc/sdcd`,
Rust) runs chats, engines, the agent's file changes, checkpoints, deploys and
remote access; a desktop window (`sdc/app`, TypeScript, with a small Tauri
bridge in `sdc/app/src-tauri`) shows the fold of the events the daemon pushes.
All paths below are under `src/`; `sdcd/` stands for `sdc/sdcd/src/` and `app/`
for `sdc/app/src/`.

The specifications here are about what goes wrong in such a program and is hard
to test: a crash between two renames, a Stop that lands between gathering a
word and showing it, a restore the daemon died in, a resume of a resumed turn,
an answer that races a clock, a frame of a lease that is over.
`PROJECT.json` lists the components, the hazards with their lines, the runs,
the mutants that show each property can fail, the map from definitions to
source lines, the findings and the theorems.

## 1. Inventory

### What is modelled

| Component | State it keeps | Operations | What makes it hard |
|---|---|---|---|
| **Step transaction** `sdcd/runtime/transaction.rs`, `runtime/step.rs`, `recover` in `agent/mod.rs` | per transaction a directory `.sdc/tx/<id>` with `journal.json` and `pre/`; in memory `base` and `edits` | begin, write/delete, finish (check, save, journal, rename, mark), recover at turn start | crashes at any instant, failing I/O (a removal whose error nobody reads), a person editing the folder at any time, several turns in one folder |
| **Turn loop** `sdcp/methods.rs` `run_turn`, `sdcp/model_methods.rs` `engine.start/steer/cancel` | the turn's stage, the gathered delta, the received event, the kept ending | receive, flush after 50 ms, handle each event, halt, settle, finish | four tasks share a turn |
| **Steering** `engines/steer.rs` | one mailbox per turn: messages, `live`, `interrupting` | push, take, go_live, the watcher, `drive` | a message must join the turn exactly once, in order, whoever reads it |
| **Stopping** `engines/cancel.rs`, `trust/kill.rs`, `sdcp/kernel.rs` | the marks; the register of running turns | engine.cancel, kill.all, halt, the engine's own cancel | the mark is set before the engine knows; three roads to a stop |
| **Questions** `agent/gate.rs`, `sdcp/guard_methods.rs`, `app/store/reducer.ts` | one open question per turn, the window's one dialog, the chat's amber mark | ask, permission.resolve, the poll for a stop | an answer races a stop |
| **Event log** `sdcp/events.rs`, `sdcp/notifications.rs` | `next`, `entries`, `unsaved`; the events table | append, persist, compact a finished turn, list | the database refuses a write; a restart |
| **Bridge and page** `sdc/app/src-tauri/src/sdcp.rs`, `app/lib/sdcp.ts` | `last_seq`; `daemonSeq`, `held`, `catching`, `replayed` | subscribe, replay, admit, hold, catch up, retry | replay, live lines and lists overlap and overtake one another |
| **Checkpoints** `sdcd/checkpoints/`, `git/` | the checkpoints table, the deferred queue with its counter, the batch being committed | submit, wait 150 ms, walk and commit, one row for each change, drain | the answer comes before the checkpoint; several changes share a commit |
| **Rewind** `sdcd/rewind/mod.rs`, `store/trust.rs`, `sdcp/ops_methods.rs` | `restore_journal`, `rewind_stack`, each turn's state | rewind, redo, switch, one file back, recover at start-up | folder, conversation, rows and frame move in separate statements, with a crash between any two |
| **Job journal** `sdcd/v3/journal.rs`, `agent/mod.rs` | `job_events` as a write-ahead log; the offer waiting for a chat | intent, result, message, end; rebuild, settle, resume at start-up | a resumed turn is lost and resumed in its turn; a loop that calls itself begins a turn twice |
| **Anywhere: approvals** `sdcd/anywhere/` router, session, core, relay; `web/src/transport/link.ts` | open requests, grants, each session's capability, what a dropped session left, the page's cards | ask, decide, unlock, lock, resume, expire, revoke | desktop, pages, grants and the clock answer the same question; the link comes and goes |
| **Anywhere: handoff** `cloud/src/leases.ts`, `hub.ts`, `anywhere/core.rs`, `link.ts` | the relay's lease, the daemon's copy, each page's fence and banner | claim, release, state, stamp, refuse, drop | three parties, two clocks, frames of an earlier lease on their way, a daemon back on a new socket before the old one is noticed |

### What is not modelled yet

| Component | State and operations | Why it matters |
|---|---|---|
| Failover `rotation/`, `v3/rate.rs`, `v3/failover.rs` | a ledger of limits per model; when to leave and to come back | pure decisions over a ledger, with time |
| Trust Kernel `trust/` | a hash-chained ledger, a policy lattice, cost | append-only, monotone policy |
| Rest of Anywhere: pairing, gateway, uploads, accounts | cryptography, files, HTTP over a database | pairing is a protocol of its own |
| Background runs, parallel tries, fleet, automations, memory `v3/` | callers of `engine.start`; stores of notes | the journal beneath them is modelled |
| SSH, deploys, guardian, staging `ssh/`, `ops/` | a shared connection; cutover with health check and rollback | partial failure on a remote host |
| Agent tools `agent/tools.rs`, `background.rs` | tools and their effects, background commands | the loop around them is in JobJournal and TurnRun, file writes in StepTransaction |
| Store `store/` | SQLite; each statement a transaction | seen as the tables of EventStream, TimeMachine and JobJournal |
| Sign-in, terminals, guard, sandbox | external processes, text classification | little protocol of their own |
| Search, graph, verify, intent, padma, navaratna, sme, providers, mcp, preview, GitHub, telemetry | indexing, prompts, catalogues, clients | data rather than control |
| Connections and idle exit `main.rs`, `lib.rs` | ordered and read lanes per socket, one notifier | their race is visible in `EventStream` as lines that overtake |
| Window UI | React components | layout |

### How the parts meet

The window calls `engine.start`; the daemon pushes `TurnStarted`, prepares the
turn and spawns `run_turn`, which spawns `steer::drive`, which runs an engine.
The engine's events cross a channel to `run_turn`, which pushes them through
the event log to every socket. SDC's own agent first runs `recover` over the
project and then makes steps, each of them a transaction over the files. A Stop
sets a mark and pushes `TurnCompleted` at once; the engine hears of it later.
A finished turn's log is compacted. Files (StepTransaction) lie under turns
(TurnRun) under the event stream (EventStream). The agent writes its steps
ahead in a journal (JobJournal) so that the next daemon can go on; a Save, a
turn and a rewind leave checkpoints of the folder (TimeMachine). The same
events reach the relay driver, which turns questions into cards on the person's
phones (Approvals); whichever screen drives holds a lease (Handoff). The
modules share no variable in the code except through calls, and each is checked
on its own; where one needs another it keeps its boundary (a question's gate in
both TurnRun and Approvals, a turn's end in both TurnRun and JobJournal).

## 2. The modules

### AtomicTree, StepTransaction

`AtomicTree` is what `transaction.rs` promises in its first lines: a step's
edits reach the project in one instant over files that still hold what the step
started from, or never.

`StepTransaction` is how. The variables follow the disk (`tree`, and per
transaction `journal`, `entry`, `pre`) and the memory of a turn (`base`,
`edits`, and the loop it is in: `pc`, `todo`, `scan`, `target`).

| Code | Actions |
|---|---|
| `agent/mod.rs:553` `recover` at turn start | `Start`, `RecoverNext`, `Undo`, `UndoDone`, `SweepOne`, `SweepDone`, `Recovered` |
| `begin_light`, `write`, `delete` | `Begin`, `Stage`, `StageRefused` |
| `finish_with`: base check | `CheckBase`, `GiveUp` |
| pre-images, then the journal | `SaveOne`, `WriteJournal` |
| renames, one at a time | `ApplyOne` |
| journal says committed, directory removed | `MarkCommitted`, `SweepOne`, `SweepDone` |
| `remove_dir_all` fails and its error is dropped (`transaction.rs:450`) | `SweepFails`, after any part of the removal |
| a failing write, the failpoints | `Fail`, `Crash` |
| the person saves a file | `PersonEdit` |

`Races` names what the environment may do beyond crashing: `overlap` (two turns
in one folder), `edit` (the person saves while a commit is being made or undone),
`wait` (the person saves while a commit that a crash or a failing write cut short
waits for the next recover), `io` (a write or a removal fails, of the
transaction's own directory too: recover then goes on, and the turn works, with a
`journal.json` still saying `committing`). With `Races = {}`, where the person
saves only while no commit is half-done, every promise holds. Each race breaks one
(section 6), and two promises hold beside most of them (section 5). `kept` is
history: the directories a turn's own recover could not remove.

Texts are model values and two texts are equal when their hashes are. The
shadow copy, the folders above a file, `commit_with_point`'s checkpoint, path
cleaning and step.rs' syntax gate are left out. A crash is `kill -9`: what
reached the operating system stays.

### TurnRun

One chat's turns, with four kinds of engine: `cli` (stopped only by killing its
child: Codex, Gemini), `stdin` (a child too, which is given the person's
messages on its stdin: Claude Code), `http` (its read loop polls the marks) and
`agent` (polls the mark, reads its own mailbox, may ask the person).

| Code | Actions |
|---|---|
| `engine_start`, head of `run_turn` | `EngineStart`, `RunTurn` |
| `steer::drive` | `DriveOpen`, `Watch`, `DriveOn`, `DriveEnd`, `DriveClose` |
| the engine | `EngineUp`, `Emit`, `GoLive`, `AgentTake`, `StdinTake`, `Ask`, `AskAnswered`, `AskStopped`, `EngineEnds`, `EngineStops` |
| `run_turn`'s loop | `Receive`, `FlushTimer`, one `Handle...` per event, `LoopEnd` |
| its tail | `Settle` (mark and register), `Finish` (row, amber mark, kept TurnCompleted) |
| the person's calls | `Steer`, `StopMark`, `KillAll`, `StopSay`, `KillTask`, `Answer` |

A received event rests in `hand` between the mark's check and its handling,
because that is where the code can be overtaken. The window is `card`,
`spinning`, `dialog` and the chat's `attention`: what `reducer.ts` makes of the
pushed events that matter here.

A message has joined its turn (`joined`) when it is written to the process or
when `Steered` is sent for it; what the process then does with it is its own.
`StdinTake` may fail at any message of a batch.

Left out: the retry of a CLI that refused the steering flags (`stand_down`) or
could not resume its session, the instant between the watcher's look and its
cancel, the arithmetic of budgets (a halt may follow any usage or tool), the
checkpoint a tool waits for, `ask_user`'s text (a question is a question,
whether permission or `question.answer`), panics, and the other handlers of
these files. The turn's row and its `TurnCompleted` are one action, although
the code does them one after the other (a hazard without a property, below).

### EventStream

Numbers, words and sockets. An event carries the set of words it was born with;
compaction joins the words of a run of deltas into its first event, so that
"the window shows the log" is an equation between sets of words.

| Code | Actions |
|---|---|
| `ChannelNotifier::push`, `EventLog::append`, `persist` | `Push` (with `Numbered`, `Persist`, `Broadcast`) |
| `compact_turn` | `CompactTurn` |
| the daemon dies, the next one hydrates and closes interrupted turns | `Crash`, `Restart` |
| the bridge's `subscribe` | `Connect`, `AnswerLive`, `AnswerReplay`, `BridgeRead`, `Drop`, `Unlinked` |
| the page's `fold`, `admit`, `catchUp` and its retry | `Notified`, `AnswerList`, `ListArrives`, `ListFails`, `Retry` |
| a reload | `Reload` |

`AnswerReplay` may be inserted anywhere in the queued lines, since the daemon
writes answers and notifications from different tasks to one socket.
Live-only drafts, the gauges a compaction also deletes and the replayed-toast
filter are left out, as are the bridge's ordinary calls.

### TimeMachine

One chat whose folder is on this machine. Content n of a file is what the n-th
change left there, so a shadow commit is simply the tree it recorded. A handler
is a request of the window on a thread of its own; `task` is what it is in the
middle of.

| Code | Actions |
|---|---|
| `fs.write`: read the old bytes, submit, write | `Save`, `WriteFile` |
| the deferred worker | `TakeBatch`, `Walk`, `WalkFails`, `InsertRow` |
| a turn's own checkpoint and changes | `TurnStart`, `TurnWork` |
| `rewind.apply` | `Rewind`, `CommitNow`, the restore, `DropTurns`, `PushFrame` |
| `rewind.redo`; `timeline.switch` before it | `Redo`, `Pop`, `NothingToRedo`, the restore, `PutTurnsBack`; `Switch`, `Leave`, `Promote` |
| one file put back | `RestoreFile`, the restore |
| the journaled restore under the index lock | `OpenJournal`, `TakeIndex`, `RestorePath`, `RestoreEnd`, `RestoreFails` |
| the daemon dies, the next finishes what it was restoring | `Crash`, `RecoverPath`, `RecoverEnd`, `RecoverFails`, `StartUp` |

`want`, `owed`, `saved` and `cut` are history: what each file was last asked to
be, which changes wait for their row, which were saved, and whether a crash or
a failure cut an operation on the history short. A frame's `id` is its row in
`rewind_stack`: `Promote` gives the chosen frame a new one, so a second request
that chose it by the old one finds nothing and goes on to the newest.

### JobJournal

The journal of one chat's turns, record by record, and the machine's state as
the number of times each call's effect was made. A call's kind is what `settle`
tells apart.

| Code | Actions |
|---|---|
| `engine.start`; the head of the agent's `run` | `Send`, `TakeOffer`, `NoOffer`, `RunAgain`, `RunAgainDone`, `FailEarly`, `Open` |
| a step: request, reply with its intents, each call, its messages | `Request`, `Answered`, `Execute`, `Result`, `StepDone` |
| the loop calls itself: the next model after a failure, the strong one for a stuck draft | `FailOver`, `TakeOver` (both `Nested`) |
| every way out (`Writer::drop`), and that of each loop that waited | `End`, `Unwind` |
| the daemon dies and starts | `Crash`, `Boot`, `Serve` |
| `resume_lost_turns`, one lost turn at a time | `Refuse`, `StartResume`, `StartFails`, `CloseResumed` |

`Rebuild` is `rebuild`'s loop over the records (`Read` is one of them, `Rebuilt`
what a journal cut off where it is comes to), `Rerun` and `Known` what `settle`
does with the calls that never answered.

`drive` calls itself with the same turn id, on the next model of `v3.failoverOrder`
(`agent/mod.rs:2853`) or on the strong model of the cascade (`agent/mod.rs:3710`).
The inner loop has a conversation of its own, opens a Writer of its own and so
writes a second `start`; its `end` is followed by that of each loop that waited
(`nest` counts them). `starts` are the rows `unfinished` selects: one for each
`start`, so a turn cut off inside an inner loop is in the list twice, in the order
its loops began. `Moves` says which of the two may happen.

### Approvals

A permission question from the gate an engine blocks on to the pages and back.
Clocks are kept as what is left of them; `Advance` is a unit of time. A handler
of the core runs under one lock and is one step; between handlers an event
waits in `feed` (from the broadcaster to the relay driver) or `news` (to a
page).

| Code | Actions |
|---|---|
| `gate::ask`, the stop's poll, `permission.resolve` | `Ask`, `Stop`, `DesktopAnswers` |
| `on_event`; `tick` | `HearAsked`, `HearResolved`; `Expire` |
| `on_hello`, `closed`, `remember` | `Connect`, `Drop` |
| `on_unlock`, `capability.lock`, any other frame | `Unlock`, `Lock`, `Browse` |
| `on_decision`, `Router::check` | `Decide`, `Refused` |
| the link lost and dialled again, the ended feed | `LinkDown`, `LinkUp`, `FeedEnds` |
| the page's cards; revoking a device | `Receive`, `Revoke` |

`proved` is history: how long the last passkey that opened Operate still counts.

### Handoff

Who drives when two screens are open. The relay (`hub.ts`) hands out leases with
a fence; the daemon keeps a copy, stamps its frames and drops what is behind;
the page carries the fence it was told. What goes towards the daemon is heard at
once, what comes from it waits in `toHub` and `down`: between FIFO edges of a
tree a slow reader and a slow sender cannot be told apart, and this choice
leaves one queue per edge. A frame thrown away leaves a hole in the sealed
sequence; the next frame of that connection does not open and ends it, and the
page has taken its stamp for its fence by then (`link.ts:297-299`).

| Code | Actions |
|---|---|
| `fromDevice`, `on_frame`, `on_handoff_request` | `Press` (and the page's own frame after a welcome) |
| `fromDaemon` and `control` | `FromDaemon` (`PassOn`, `Claim`, `Release`, `State`); on a replaced socket `FromReplaced` |
| `on_hello`; a page's `webSocketClose` | `Connect`; `PageDrop` |
| the page reads | `PageReads` |
| `pump` | `Flush` |
| expiry on either clock | `HubLapse`, `DaemonLapse` |
| the daemon gives its link up, or dies | `LinkLost` |
| the daemon's `webSocketClose`, its link not replaced | `DaemonGone` |
| the daemon signs in: after that, or before it (`hub.ts:223-226`) | `LinkUp`; `Redial` |
| `webSocketClose` of a replaced socket; of one that did not sign in | `ReplacedClosed`; `DialFails` |

A daemon that heard nothing for too long dials again (`relay.rs:278`) although the
relay still holds its old socket. `Redial` moves what is to come from that one to
`late`, where the relay goes on reading it until its `webSocketClose` runs, at
any later time: claims, frames and closes of the old link are handled after the
new one has asked where the handoff stands. Until then pages have sockets on
which the daemon has no session, pages that come back get one, and the late close
takes every page with it (`PagesClosed`), those of the new link too. What the
relay says to the daemon it says into the first ready socket of the platform's
list (`toDaemon`, `hub.ts:762-773`), so that while a replaced one is there
(`DOMAIN late # {}`) it may be lost (`Lost`); `strayed` is history: the relay's
last word on the lease was. What is assumed of the platform: a socket closed by
the relay may be listed until its close has been handled, the list has no
particular order, and a frame a page sent to a socket the relay has closed may or
may not still come in.

## 3. The runs

One mutant for each property: a plausible slip in the code (a dropped guard, a
missing reset, a swapped order) under which the property fails in the same run.

| Run | Question | Bounds | Result |
|---|---|---|---|
| `StepCrash` | is every step one change or none, through crashes? | two files, two texts, three turns of one step; a crash at any instant; edits between commits | holds |
| `StepFaults` | what survives failing writes and removals? | one file, two texts, two turns of two steps; `io` and `wait`: edits also over what a failed commit left | holds (1.2 million states) |
| `TurnRun` | do messages, stops, questions and endings of a turn go together? | one turn of each of the four kinds of engine, two emitted events, two messages, one stop by any road | holds, liveness included |
| `TurnReopen` | does a stopped card stay closed? | one `http` turn, one stop | `StoppedStaysClosed` violated |
| `EventStream` | does the page end up showing the log, in order, once? | an old event and three new ones; one refused write, lost socket, crash and reload each | holds, liveness included |
| `TimeMachine` | do folder, conversation, rows and frames stay together through rewinds, failures and a crash? | two files, two requests in flight, two changes, two operations on the history, one failing git command, one crash | holds (4.6 million states) |
| `TimeRows` | does each Save keep its own row? | one file, one request at a time, two Saves | `EveryChangeKeepsItsRow` violated |
| `JobJournal` | is lost work continued, and nothing done twice or claimed falsely? | one reply of two calls of two kinds (an edit, a command), four turns; three of: a crash, a refused or failing start, a move to another model | holds, liveness included (1.1 million states) |
| `ApprovalCards` | does each page show what is open, and does each request end? | two pages of one device, one question, two losses of the link | holds, liveness included |
| `ApprovalGrants` | who lets an action run? | one page, an ordinary and a dangerous question, one loss of the link, a backlog of two lines | holds (1.4 million states) |
| `FeedLost` | is every question heard? | one page, two questions, a backlog of one line | `EveryQuestionIsHeard` violated |
| `Handoff` | do relay, daemon and pages agree on who drives? | two screens, three connection numbers, two presses; one of: a dropped page, a dial that fails, the daemon or its link lost, noticed by the relay before or after it is back | holds (11 million states) |

Why the bounds are enough. Two files are the least with a half-applied step; two
texts let a rollback bring back the wrong one; three turns let one turn crash, the
next recover and crash while recovering, and a third find what is left. One file
and two steps a turn are the least in which a commit fails, the person edits over
it, and a later step or turn meets both. Two messages can be reordered and can
arrive on the two sides of a restart of the engine; two emitted events can be a
word pushed at once and a word gathered, a tool call and its end, a question and
what follows. Three new events are a run of two deltas and the turn's end (what
compaction changes) or a gap in the middle. Two changes of one path, two files and
two requests are the least in which a batch has two images of a file, a restore is
half done and two restores meet; two operations on the history are a rewind and
its redo, a redo of a redo, or a switch between. Three crashes and four turns let
a resumed turn be lost and resumed twice, and the third resume be refused
(`MAX_RESUMES` is 3, and a turn already resumed twice is one short of it). Deaths,
failures and moves are three together: a turn that moved to another model, and so
has two starts, can be lost, its resume lost too, and handed over again. In
`ApprovalCards` the clocks differ (a request outlives an idle page, an Operate
window outlives the idle time), so that each may end first. Two screens and two
presses are a claim and a takeover, a claim and a release, or a claim and a frame
of the other screen; connection numbers two and three let either page come back,
or one come back on the new link and again after the late close of the old. One
loss of the link is at most one replaced socket. The theorems have no bounds.

What the properties do not say:

* `SteeredInOrder` holds while the mailbox is open and allows one loss when it
  closes: a message pushed after `drive`'s last look and before the mailbox is
  removed is accepted and joins no turn, although the head of `steer.rs` says
  that such a message is not lost. It also excepts a turn whose stdin broke: the
  messages taken together with the one that could not be written are in neither
  the mailbox nor the turn (`cli.rs:911-918`).
* `WaitIsReleasable` is about one turn. The window has one dialog slot
  (`reducer.ts:378`), so another turn's question replaces the one it shows: a
  second chat's, or, in one chat, that of a stopped turn which the loop had already
  taken out of the channel. `OnlyAQuestionTakes` (section 5) shows that with any
  number of turns nothing else takes the release away.
* `WritingIsRegistered` excepts turns that `kill.all` drained: it empties the
  register while their engines still wind down.
* `StopEnds` is about stops that can reach the engine. A CLI turn stopped before
  its child is registered kills nothing and runs to its end with its events
  dropped.
* `EndsOnce` excepts turns stopped by the person or halted by the kernel, whose
  card closes before the engine is through.
* `Converged` excepts the three ways the model records an event as lost
  (`forgotten`: refused and then taken by a crash; `astray`: the first
  connection's place set too late; `skipped`: the drain of held events passed a
  missing number) and a connection lost around a compaction. Section 6 lists
  those that contradict the code's own words; `Converged` shows there are no
  others.
* A turn's row is finished before its `TurnCompleted` is pushed: a crash between
  leaves a turn that is over in the store and whose card runs
  (`sdcp/methods.rs:814`); TurnRun does both in one action.
* `KillAll` misses a turn still preparing (`model_methods.rs:272` pushes
  `TurnStarted` long before the turn is registered).
* `FolderIsWhole` leaves open which of two changes of a file that raced a
  restore is kept. `RewoundTurnsAreKept` excepts operations on the history that
  a crash or a failing git cut short: a redo takes its frame off the stack
  before it restores, and a failure then loses it. Which turns a rewind drops is
  decided by a row's insertion time (`store/trust.rs:427`): the row of a Save
  inserted after the next turn has begun spares that turn, although it worked
  after the Save; `HiddenTurnsAreRewound` fails there.
* `NotRepeated` excepts edits whose new text holds the old, which are made twice
  (`EditsNotRepeated` fails with the kind `append`).
* A turn that dies before it writes its own start leaves the work it was to
  resume with no open journal (`NoJobForgotten` fails, `journal.rs:552`), and an
  offer nobody took stays for the chat's next turn, whose own question it
  replaces (`agent/mod.rs:2287`).
* `EveryCallAnswered` excepts a conversation rebuilt after a take-over began over
  calls still open; without that exception it is false (section 6). A provider
  may refuse such a conversation.
* `ResumedPerStart` (`JobClosed.cfg`) is what is left of "continued as a new turn"
  for turns that failed over (section 6). The `start` of an inner loop also says that
  the turn was resumed zero times, so such a turn begins the count to `MAX_RESUMES`
  anew.
* `KeepsUnseenWork` is about a person who saves only while no commit is half-done,
  `CommitKeepsUnseenWork` about one who saves at any time but during a commit; what
  recover does to the latter's work is section 6.
* `NothingLeftBehind` excepts the directories a turn's own recover could not
  remove, and says nothing of what they do later: their commits are rolled back
  again by the next turn's recover, over whatever was committed since (section 6).
* `StampIsCurrent` holds until somebody gives the session back (section 6).
* `Agreement` excepts a last word of the relay that went into a replaced socket
  (`strayed`): the daemon then keeps an old copy until the next word (section 6).
  At rest the relay has read its replaced sockets out: while one is still there,
  `Agreement` and `OneDriverShown` say nothing.
* The Hub refuses every frame of a screen that does not drive, `handoff.claim`
  and the stop button included (`hub.ts:673`): its words "claim it to take over"
  (`leases.ts:67`) can be followed only once the lease has lapsed.

## 4. Fairness

No fairness is assumed of the person, of crashes, of faults, or of an engine
ending by itself.

* **TurnRun** (`StopEnds`): weak fairness of each of the daemon's own tasks: the
  one that runs drive and the engine (in what it owes, never in what it may
  still say), `run_turn`'s, and those of the calls. They are Tokio tasks and
  threads that run whenever they can; the engine's stop check
  is a poll of at most a quarter second (`native_api.rs:545`, `gate.rs:168`) or
  the death of a killed process.
* **EventStream** (`Settles`): weak fairness of the daemon's restart or the
  bridge's reconnect (its loop retries for good) and of the delivery of what is
  on its way as a group. What is delivered is finite for each event pushed, so
  the group's fairness brings every line in.

The step transaction has no liveness property: a turn may always crash, and
nothing obliges a further turn to start.

* **JobJournal** (`EveryJobEnds`): weak fairness of the daemon as a whole (its
  start-up, or some turn's thread): whatever it has to do it goes on doing.
  Providers and tools have time limits, so that a step ends.
* **Approvals** (`EveryRequestEnds`): weak fairness of the relay driver's loop
  and of time; strong fairness of `Expire`, for the loop's `select!` picks any
  ready branch and the tick stays due. The link may be lost `MaxDrop` times; the
  loop dials again for good.

## 5. What is proved

`StepTransactionProofs` proves, with TLAPS and for every set of files, texts
and turns and every number of steps:

| Theorem | Says | Assumes |
|---|---|---|
| `TypeCorrect` | `TypeOK`, whatever the environment does | the constants' assumptions |
| `Inductive` | the inductive invariant `IInv` | `Races = {}` |
| `Atomicity` | `AllOrNothing` | `Races = {}` |
| `TurnsLeave` | the inductive invariant `LeftInv` | no overlap of turns |
| `LeavesNothing` | `NothingLeftBehind` | no overlap of turns |
| `CommitsSpareUnseenWork` | `CommitKeepsUnseenWork` | no overlap of turns, no edit during a commit |
| `UnseenWork` | `KeepsUnseenWork` | `Races = {}` |
| `UndoIsExact` | `UndoKeepsCommitted` | `Races = {}` |
| `JournalFirst` | `JournalBeforeTree` | `Races = {}` |
| `Refinement` | `StepTransaction` implements `AtomicTree` | `Races = {}` |

`Races = {}` is not a convenience: every race breaks one of the
promises (section 6). Crashes remain, at every instant. Two promises stand more
than crashes: `LeavesNothing` needs only that turns follow one another, and
`CommitsSpareUnseenWork` besides that nobody saves between a commit's base check
and its last rename. Writes, removals of files and of the transaction's directory,
and the undoing itself may then fail, and the person may save over a half-done
commit that waits.

None of the promises is inductive. That the project is whole when no commit is
half-done follows only if a half-done commit can always be put back, and that
it can be put back depends on what was on disk before the first rename, on the
order in which recover removes a directory, and on no other turn having one.
`IInv` says this in twelve parts, the most important of which are:

* `HalfDoneInv`: there is at most one half-done commit, and it is the one being
  applied, the one being undone, or one the next turn's scan will find;
* `GoodInv`: a file that a half-done commit can put back has a pre-image equal
  to the good text; every other file is good;
* `SaveInv`, `ApplyInv`, `UndoInv`: how far the three loops have come;
* `WorkInv`: no unread text of the person lies under a commit that may be
  undone.

There is one lemma per action, each with one step per conjunct. With failing
writes none of the parts about good texts survives (several commits may be
half-done, a file may be left as a failed commit left it), so the two stronger
theorems have invariants of their own. `LeftInv` follows the half-done commits
through a turn: recovering, each is on its list or among those it could not
remove; undoing or removing, on its list, in its hands or among those; later, they
are its own or those. `UnseenInv` is about the two moments a text is looked at: a
file that holds unread work is not as the step being staged read it, so the base
check will refuse it, and a commit being saved or applied touches no such file. It
says nothing of the half-done commits, because renames of a commit do not depend
on them. TLC checked both before they
were proved. The
refinement mapping `Restored` sends the disk to the files a recover that ran at
this instant would leave; the commit point is the rename that makes the journal
say `committed`, and every other action is a stutter, a staging or a loss of
memory of the abstract specification.

`TurnRunProofs` proves for every set of turns, every mix of engine kinds and
all bounds (TLC checks one turn; the theorems are about any number at once):

| Theorem | Says |
|---|---|
| `TypeCorrect` | `TypeOK`, and drive never loses the ending it holds |
| `Inductive` | the inductive invariant `TurnInv` |
| `WritersAreRegistered` | `WritingIsRegistered` |
| `MessagesInOrder` | `SteeredInOrder` |
| `OneEnding` | `EndsOnce` |
| `NoMarkOutlives` | `QuietChat` |
| `OnlyAQuestionTakes` | an action property, for any number of turns: an agent that waits can be released after each step, unless that step is another turn's question taking the one dialog |
| `WaitEnds` | `WaitIsReleasable`, when no two turns are different |

They assume only `ConstantsAssumption`, and `WaitEnds` what its row says: with two
turns `WaitIsReleasable` is false (section 3). `TurnInv` has two halves, each shown to
be kept by the three groups of actions (drive and its engine, the loop, the
person). `Control` places drive inside the loop: it is not there before
`run_turn` and gone before the turn settles, so a writing engine's turn is in
its running stage and therefore registered; and no ending is in the channel or
in the loop's hand before drive has sent the one it held, so a card that shows
an ending has a drive that is through. `Messages` follows each message: the way
of a turn (what joined it, then what waits) is strictly increasing, bounded by
the last number given out, and equal to what was accepted as long as the
mailbox is open, which is exactly as long as drive runs. The two theorems about
waiting add `Waits`: an agent that waits has its question in the gate, so the
person's answer is never an answer to nothing, and a stop that has not yet said
`TurnCompleted` has its mark on the turn until the engine is gone, so the dialog it
closes is one the agent no longer needs. With it each step of the loop hands a
question on, from the channel to the loop's hand and from there to the dialog.

`ApprovalsProofs` proves for every set of pages, devices and questions, every
length of the clocks and every backlog (TLC checks one device):

| Theorem | Says |
|---|---|
| `Shape` | `TypeOK`: no clock outlasts the code's limits |
| `Inductive` | the inductive invariant `IInv` |
| `AllowIsProved` | `AllowHasItsProof` |
| `AnsweredIsClosedAlways` | `AnsweredIsClosed` |
| `OpenCardsAreShownAlways` | `OpenCardsAreShown` |

It assumes only `ApprovalsAssumption`. `AllowHasItsProof` speaks of one step, and
what it needs of the state before has four parts. `LinkOk`: a linked page's device
is not revoked, and its Operate window, `n` units long, has `n + GrantMax` units of
its device's last passkey left. `ResumeOk`: so has a window that a dropped
session left behind, which is why resuming one proves nothing anew. `GrantOk`: an
allow-for-a-while ends before the proof it was made under, and goes with its
device. `FeedOk`: a question the driver has still to read is asked once and is not
open already, so a grant is never spent on a request that people are being shown,
whatever the driver missed. The clocks are why the parts are about what is left:
one unit of time takes one from each side of each inequality. `IInv` itself was
checked by TLC on the instance of `ApprovalGrants` before it was proved.

The two promises about rest are made inductive by saying what is on its way.
`AnswerOk`: a question that is answered and open, or answered and still to be
heard asked, has its answer further back in the feed. `CardOk`: an open request is
on the cards of every page that may view, or the last word about it on its way to
that page says that it is open.

`HandoffProofs` proves for every finite set of screens, every number of presses,
losses, dials and connections, and any number of replaced sockets at once (TLC
checks one loss, and so one):

| Theorem | Says |
|---|---|
| `Shape` | `TypeOK` |
| `Inductive` | the inductive invariant `IInv` |
| `StampsAreCurrent` | `StampIsCurrent` |
| `Agrees` | `Agreement` |
| `Talks` | a second inductive invariant `TalkOk`, about what is on its way to the pages |
| `OneDriver` | `OneDriverShown` |

It assumes only `HandoffAssumption`, which says that the screens are finitely many
(`down` is flushed page by page). `Types` with `Known` and `CountOk`: a lease that
anybody holds, names or stamps was granted by the relay, its fence is no higher
than the number of its grant, and if that is the grant that stands it is that very
lease; grants and the claims still on their way, on any of the daemon's sockets, are
together no more than the presses. `Heeded` is the protocol's point: while the link
is up, the daemon's copy is the relay's row, or it has none and the row is not live,
or the answer to the question it asked when it signed in is still to come, or the
relay's last word went into a replaced socket. A claim read from a replaced socket
after that answer does no harm to it, for the relay answers each with the row of
that moment.

`OneDriverShown` needs the way of the news to the page, past three places where a
frame can be thrown away. `TalkOk` has six parts. `ConnsOk` and `GoneOk`:
connections are numbered as they are opened, and a page whose socket the relay has
closed will read so. The others are about a link that is up and a relay that holds no
replaced socket (`Alone`): the close of the last of them closes every page's
connection, and from there the parts begin again. `LinkedOk`: an open socket on which
the daemon has no session has its close on the way. `SaidOk`: of all that is still to
come to a screen (what waits in `toHub`, then what waits to be sealed), the last
notice about the lease is of the lease the daemon holds. `StrayedOk`: while the
relay's last word is lost, no screen with a session that does not hold the live lease
is about to be told of one. `ToldOk`: a page that does not hold the live
lease has such a notice coming, or the last word of what it will read and what it
shows is not that it drives: `gone`, `refused`, a frame behind a hole, or a notice that
another does. Holes need no counting: a frame behind a hole makes the page drop
its connection, which undeceives it too. `Stale` cannot throw the decisive notice
away, for its stamp is the live lease or none. One lemma per action shows that
`TalkOk` is kept; the steps that have no news of the lease share `QuietStep`. TLC
checked this invariant on the instance of the run `Handoff` before it was proved.

`JobJournalProofs` proves for every mix of calls, every length of a reply, any
number of turns and crashes, and loops nested to any depth (TLC checks one reply of
two calls, three crashes and one inner loop):

| Theorem | Says |
|---|---|
| `Shape` | `TypeOK` |
| `Inductive` | the inductive invariant `IInv`, and `Starting` |
| `NeverRepeated` | `NotRepeated` |
| `AlwaysWrittenAhead` | `WrittenAhead` |
| `RequestsAreAccepted` | `EveryCallAnswered`, and `EveryRequestAccepted`, which is it without its exception, where no take-over is possible |
| `AlwaysHonest` | `AnswersAreHonest` |
| `ClosedForGood` | `EndIsFinal`: behind an end come only the ends of loops that waited and of the start-up (TLC: `JobClosed.cfg`) |

It assumes only the assumption on the module's constants, and `RequestsAreAccepted`
what its row says: with a take-over `EveryRequestAccepted` is false (section 6). `IInv`
is large because a call's life crosses journals: it is asked for in one turn, made in
another and answered in a third, and a turn that began twice is handed to two. Its
parts are:

* `Journals`: each journal, cut off anywhere, rebuilds to a conversation whose
  replies are all answered but perhaps the newest (where no take-over is possible),
  and every call it leaves open is named by an intent;
* `Places` (`BeginOk`, `LoopOk`, `TalkOk`): at each place of the agent's loop, how
  the conversation in memory goes with what its journal rebuilds to;
* `Named`, `Fresh`: a call is named in one journal only, and one still to run that may
  not be made twice has not been made;
* `Handing`, `Offering`, `Lost`, `Sources`: what is handed over are turns that began
  and are gone, and what a resumed turn runs again is no command and named by such a
  turn. Two resumes of one turn may so run the same call: it is a read, or an edit or
  a write that `RunsAgain` and `Lands` make harmless;
* `Effects`: each effect is named by an intent, and made as often as allowed; `Room`:
  there is room for every resume a start may have to begin.

`Starting` says that `starts` names the turns that began, and no others. Two
properties need one part more. `EndIsFinal` needs `InFlight`: the journal of a turn
under way has no end, unless it is being left, and then only loops that waited are
still to close. `TypeOK` needs `Nests`: a turn that is gone has no loop that waits.
TLC checked every part before it was proved.

`TimeMachineProofs` proves for every folder, any number of requests in flight, and
any number of changes, operations on the history, failures and crashes (TLC checks
two of each and one crash):

| Theorem | Says |
|---|---|
| `Shape` | `TypeOK` |
| `Inductive` | the inductive invariant `IInv` |
| `WholeFolder` | `FolderIsWhole` |
| `NoOldRestore` | `NoStaleEntry` |
| `RewoundKept` | `RewoundTurnsAreKept` |
| `Drains` | `DrainIsEnough` |

It assumes only `TimeMachineAssumption`. A request carries what it needs in its
`task`, so the types of `task` are by kind (`Tasks`), and the parts of `IInv` say
how what it carries goes with the tables:

* `Whole`: at most one request works in the folder, and a file that is not as last
  wanted is among those it has still to put back; while the daemon is down, in the
  scope of an entry of the journal. A crash turns the first into the second, and
  that needs
* `Journaled`: a restore at work has its entry, with its target and its files, and
  while the daemon answers every entry has its restore; closing an entry closes the
  right one because ids are not shared (`OwnIds`, with `Still`: nobody works while
  the daemon is down);
* `Rows`: the rows in the table, in a frame and in a request's hands are of the
  past and one to an ordinal, which the deferred changes keep because they are
  filed under the number of their moment (`Dated`);
* `Counted`: the counter is the length of the queue and of the batch, and every
  change without a row is in one of them;
* `Reachable`: a turn taken out is in a frame or in the hands of a request.

TLC checked `IInv` on the instance of the run `TimeMachine` before it was proved.

`EventStreamProofs` proves for a log of any length, any number of events, refused
writes, lost sockets, crashes and reloads (TLC checks an old event, three new ones
and one of each of the rest):

| Theorem | Says |
|---|---|
| `Shape` | `TypeOK` |
| `Inductive` | the inductive invariant `IInv` |
| `DiskAndWaiting` | `DiskIsLog` |
| `NoNumberTwice` | `NextIsNewSaved` |
| `FoldsInOrder` | `ShownInOrder` |
| `Arrives` | the second inductive invariant, `Arriving` |
| `ShowsAll` | `Converged`: a page at rest shows the whole log |

They assume only `BoundsAssumption`. `IInv` has parts that hold always and parts that
hold as long as something has not happened, which is how the properties read too:

* `Numbers`, always: the rows followed by what the database refused are a log whose
  numbers rise, below the next one, and the projection is that log;
* `CleanLog`, while no crash took an event the database had refused: the last event
  of the log has the number before the next, the words of an event are its own
  number and up to the next event's, and only a turn that was compacted has events
  of several words. A new daemon therefore goes on where the old one was;
* `Flight`, as long: no number on its way, held, asked for or reached is ahead of
  the log, and the answer to the page's `event.list` is as whole as the log was;
* `Reconnects`: without a lost connection the bridge never asks for a replay;
* `OnScreen`, while in addition no run was joined up across a lost connection:
  every event on its way has its number for its only word, and what is shown rises
  up to the number the page has reached.

Two steps carry the proof. Compaction: joining each run of deltas to its first event
keeps a log ordered and whole (`JoinsUpKeeps`), and the projection after
`compact_turn` is the rows after it and what waits (`ApplyConcat`), for the rows are
the start of the projection. The page: whatever it is handed, in an answer or from
what it held, it folds above the number it has reached, and an event's words end
before the next event's number (`FoldedInOrder`, `LateInOrder`). TLC checked
`IInv` on the instance of the run `EventStream` before it was proved.

That nothing is missing at rest is not in `IInv`, which only says what does not
happen. `Arriving` adds where everything is:

* `Links` and `Asks`, always: a socket belongs to a daemon that runs; the page's
  mark (`catching`) stands exactly while a request does; before its first answer,
  and while it holds events back, the page has asked or has its timer set;
* `Full`, while no crash took a refused event: the log holds every word ever given
  out, compaction or not, and the answer is of single words if the log is;
* `Filled`, while nothing was lost and no run was joined up across a lost connection:
  the page shows every word up to the number it has reached;
* `Covered`, as long: every number of the log the page has not reached is somewhere
  (`Whereabouts`). Either the page will reach it with what it has (a request not yet
  answered or still to be made, the answer, the events held back), or its line is on
  the socket, or the bridge has asked for it or will when it connects again;
* `Fills`, `Fresh` and `Calm`, which the steps of `Covered` need: an answer that reaches
  a number holds its word; a bridge that was never connected serves a page that has
  asked; and before the first lost connection the socket is in order, one event to a
  line, and a page that has been answered never sees a gap. The last is what lets a
  compacted run be shown whole: a gap could be filled from a log whose runs are joined.

Every action moves numbers from one place to another, and the lemma for each
(`PushReach`, `DropReach`, `ReplayReach`, `ReadReach`, `ArrivesReach`, ...) says that it
drops none: a lost socket leaves its numbers above `lastSeq`, where the next replay
starts, or the loss counts as `astray`; an overtaken replay leaves the lines behind it
where they were (`OnInserted`); the drain of held events either has no gap, and then
shows each of its numbers, for as many different numbers as lie between two bounds are
all of them (`LateFills`), or counts as `skipped`. At rest every place is empty, so the
page has reached the end of the log (`RestIsEnd`) and shows its words and no others.
TLC checked `Arriving` on the instance of the run, and with two lost sockets and five
events, before it was proved.

`Rebuild` is recursive, over the prefixes of a journal. The library's induction
theorems take an operator, which no installed prover can instantiate, but
`SequenceLemmas` derives induction over a *set* of numbers from the
well-foundedness of their order (`SetInduction`), and with it the existence and
the uniqueness of `Rebuild` and what one record more does to it (`ReadsExist`,
`ReadsAgree`). It also proves what the handoff needs of `FlattenSeq`
(`FlattenExists`, `FlattenIsSequence`; `FlattenAround`: the one piece that is not of
a kind stands whole in what is joined), of `RemoveAt` and of `Front`.

`EventStream` filters and sorts sequences with one function, `Listed`: the values at
some of the numbers 1 to n, in order. The provers cannot expand `SelectSeq` and
`SortSeq`; of `Listed`, a recursive function, the same induction gives what one
number more does (`ListedMore`), and from it that each value has its place in order
(`ListedPlaces`).

Only model-checked: the four liveness properties (`StopEnds`, `Settles`,
`EveryJobEnds`, `EveryRequestEnds`), for liveness under fairness is out of the prover's
reach. Every other property of a passing run is stated by a theorem,
`EveryCallAnswered` where no take-over is possible.

## 6. Findings

Three violation runs, each against a sentence of the code's own comments; the
full account is in `PROJECT.json`.

| Run | The comment | What the code does |
|---|---|---|
| `TurnReopen` | "anything the engine still says would reopen it" | the delta timer does not ask for the mark |
| `TimeRows` | "each still gets its own row" | two Saves with no event between have one ordinal: the second row replaces the first |
| `FeedLost` | "A dropped connection is not a lost event: the client reconnects and replays what it missed" | the relay driver, let go while it had no link, never subscribes again |

Further sentences of the code that the models refute are kept with a
configuration each, so that they can be looked at again
(`tlc -config X.cfg M`); they are not among the runs.

| Configuration, module | Property | What the code does |
|---|---|---|
| `StepOverlap.cfg`, `MCStepTransaction` | `AllOrNothing` | a second turn's recover undoes a commit in progress |
| `StepEdit.cfg`, `MCStepTransaction` | `KeepsUnseenWork` | the base is checked once, the renames come later |
| `StepIo.cfg`, `MCStepTransaction` | `UndoKeepsCommitted` | a failed commit, or one whose directory could not be removed, is rolled back over later work |
| `StepWait.cfg`, `MCStepTransaction` | `KeepsUnseenWork`: "it will not overwrite work it never saw" (`transaction.rs:11`) | recover puts pre-images back without looking at what the files hold now |
| `TurnAgent.cfg`, `MCTurnRun` | `OnlyStopsMark` | the steering watcher's cancel marks an agent's turn as stopped by the person |
| `EventGap.cfg`, `MCEventStream` | `NoGap` | held events are drained without the gap check |
| `EventFold.cfg`, `MCEventStream` | `SameFold` | compaction changes the fold of a window that holds part of the run |
| `EventSeq.cfg`, `MCEventStream` | `NextIsNew` | a refused event is kept in memory only, and its number given again after a crash |
| `StaleCard.cfg`, `MCApprovals` | `NoStaleCard` | a page locked or away when a request is closed keeps its card, which the router then refuses |
| `HandoffFence.cfg`, `MCHandoff` | `NeverTheLeaseBefore` | a release deletes the lease's row, so the next fence is 1 again and frames of the lease before pass |
| `HandoffReplaced.cfg`, `MCHandoff` | `AlwaysAgreed` | the relay's answer to a daemon that is back goes into the socket it replaced, and the daemon keeps an old lease |
| `JobTwice.cfg`, `MCJobJournal` | `ResumedOnce`: "it is continued as a new turn" (`journal.rs:12`) | `unfinished` has a row for each `start` (`journal.rs:291`), so a turn that failed over is resumed as two turns |
| `JobTakeOver.cfg`, `MCJobJournal` | `EveryRequestAccepted`: "so the open calls are those of the newest reply only" (`journal.rs:402`) | a `start` read back replaces the messages and leaves the calls (`journal.rs:382`): the rebuilt conversation answers calls of no reply |

The last two need settings that are empty by default (`v3.failoverOrder`,
`cascade.strong`). `JobClosed.cfg` is the one configuration outside the runs
whose properties hold.

## 7. Plan

1. Done: `StepTransaction` with `AtomicTree`, `TurnRun`, `EventStream`,
   `TimeMachine`, `JobJournal`, `Approvals`, `Handoff`.
2. Done: proofs about `StepTransaction`, `TurnRun`, `Approvals`, `Handoff`,
   `JobJournal`, `TimeMachine` and `EventStream`: every safety property a passing
   run checks.
3. An abstract `History` (a list of states, each rewind a choice of one) that
   `TimeMachine` implements.
4. `TurnLog`: the composition of `TurnRun`'s end with the log (row finished,
   then `TurnCompleted` pushed, then a crash), and with `close_interrupted_turns`.
5. `Failover` and `Policy`: the decision functions of `rotation/` and `trust/`
   against reference definitions, with theorems for what is monotone.
6. `Deploy` (cutover, health check, rollback on a remote host) and the pairing.

## 8. Not modelled

Most of the repository's lines are not protocol: the agent's tools, prompts and
providers, text classification, indexing and retrieval, React components,
Cloudflare handlers over a database, and the tests. A model of them would be a
transliteration or a table. What has state and order and is still left out is in
the plan above.
