# Nedster in TLA+

Nedster is a coding agent for local models: a library (`ironclad`: engine, tools, stores,
transports) and two front ends (`nedster_agent`: a Textual window and a command line). This
directory holds TLA+ modules that model its stateful core, the TLC configurations that check
them, and proofs that TLAPS checks. Every definition that models code is mapped to its lines in
`PROJECT.json`; paths below are relative to `src/`.

## The system

| Part | State | Operations | Hard behaviour | Properties |
|---|---|---|---|---|
| Checkpoint journal, `ironclad/session_store/checkpoints.py` | `ckpt_turns`, `ckpt_files`, `ckpt_undo`, `ckpt_undo_files` in SQLite; the project's files | begin/end turn, record pre-image, note command, undo, recover, delete | crash between any two writes; other processes and the user's editor on the same files; OSErrors half way | undo is all or nothing, newest first, never over somebody's edit; recovery leaves nothing half done |
| Session store, `session_store/sqlite_store.py` | sessions, messages, transcript, outputs, state, `session_locks` | create, resolve, append, replace, repair, put/prune outputs, acquire/refresh/release, delete | several processes on one database; heartbeats that expire; lists and previews that are out of date | one runner per conversation; calls pair with results; what is deleted is what was shown |
| Front ends, `nedster_agent/cli.py`, `tui.py`, `widgets/` | the held lock, queue of typed turns, busy flags, the transcript on the screen | run; open, resume, new, delete, undo, submit, cancel | timers and workers interleave; commands that may only run when idle | a turn only under the lock; typed input is never lost; the screen tells what happened |
| Engine, `ironclad/engine/loop.py`, `state.py` | cached conversation, records, counters, cancel event | run, cancel, set_role, compaction | cancellation while tools run; budgets; lost ownership | every call answered; every run ends with one verdict |
| Acceptance, `engine/acceptance.py`, `intent.py` | none (a function of the records) | evaluate, validation status | order of changes and checks | a success verdict only with fresh evidence |
| Context, `engine/context.py` | message list, summary, output vault | compact, mask, drop, show_output | groups of calls and results; crash between two writes | no call forgotten, no handle that leads nowhere |
| Prompt, roles, `engine/prompt.py`, `roles.py`, `native.py` | snapshots stored with a session; the role in three places | open, switch, resume, /role | files that change between sessions; a process that dies while it opens a session | a conversation's first message changes by its role only; one role everywhere |
| Tool runtime, `tool_runtime/*` | read hashes, jobs, output buffers, sandbox processes | read, write, edit, git, start/wait/stop jobs | stale reads, timeouts, process trees, threads | no write over unseen content; a job ends exactly once; what runs is what was judged |
| Transports, `transport/*` | stream accumulators | stream, abort | streams cut anywhere | a turn is complete or an error |
| Configuration and model manager, `config.py`, `nedster_agent/model_manager.py` | `config.toml`, its backups, the models on the server | layered load, setup, install, use | failure or death at any step | no torn file; what is replaced is kept; the project's layer only tightens; no untried model |

## The modules

| Module | Role | Models |
|---|---|---|
| `Checkpoints` | component | `session_store/checkpoints.py`, with its callers in `native.py`, `tool_runtime/files.py` and `engine/loop.py` |
| `AtomicUndo` | abstract specification | what `/undo` promises: an undo in one step |
| `CheckpointsAtomic` | refinement | the mapping from `Checkpoints` to `AtomicUndo` |
| `SessionLock` | component; composes store, engine guard and both front ends | `session_locks`, the heartbeats of `cli.py` and `tui.py`, the guard in `engine/loop.py` |
| `EngineRun` | component; composes engine and store | `engine/loop.py` against the messages table of `sqlite_store.py` |
| `Acceptance` | pure algorithm over the records of a run | `engine/acceptance.py`, with `composite.py`, `exec.py`, `files.py` as the makers of the records |
| `Compaction` | component; composes context and store | `engine/context.py`, `_maybe_compact`, the outputs table and its pruning |
| `ToolRuntime` | component; composes gate, file tools, executor and the engine's wait | `tool_runtime/composite.py`, `files.py`, `exec.py`, `_start_and_wait` of `engine/loop.py` |
| `Resolution` | pure, extended by `ToolRuntime` | `resolve_argv`, `select_backend`, the judgement of a command |
| `Confinement` | pure, extended by `Resolution` | `tool_runtime/backends/*`: what a sandboxed command may read and write; the protected paths of `files.py` |
| `Jobs` | component | `Job` and `BoundedOutput` of `exec.py`, the cancel of `backends/docker.py` |
| `Transport` | component | `transport/_common.py`, `ollama.py`, `openai_compat.py` |
| `Window` | component | the turns, queue, cancels, workers and pickers of `tui.py` and `widgets/` |
| `Conversations` | component; composes store, command line and window | sessions, their names, lists and deletion |
| `Transcript` | component; composes engine, store and window | what a conversation shows, live and when it is replayed |
| `CommandLine` | pure, extended by `Settings` | which command lines are accepted, and what they ask before they change anything (`cli.py`) |
| `Settings` | component | `config.toml`, its writers in `model_manager.py` and `cli.py`, `resolve_config` |
| `SessionIdentity` | component | snapshots and roles of sessions: `prompt.py`, `native.py`, `Engine._session` |
| `Startup` | composes `Settings` and `SessionIdentity` | the role a process starts with is what the layers make of it |
| `CheckpointsProofs`, `SessionLockProofs`, `EngineRunProofs`, `CompactionProofs`, `ToolRuntimeProofs`, `JobsProofs`, `StartupProofs`, `WindowProofs` | proofs | theorems about the module each is named after (`EngineRunProofs`: also `Acceptance`; `WindowProofs`: also `Conversations`; `SessionLockProofs`: also `Transport`; `StartupProofs`: also `Transcript`) |
| `MCCheckpoints`, `MCSessionLock`, `MCEngineRun`, `MCAcceptance`, `MCCompaction`, `MCToolRuntime`, `MCJobs`, `MCTransport` | instances for TLC | symmetry, the values of constants that a cfg cannot write |
| `MCWindow`, `MCStartup` | instances for TLC of two models each | `Window` and `Conversations`; `Startup` and `Transcript` |

Conventions. An action is named after the method it stands for (`BeginTurn`, `Journal`,
`Dispatch`). Several methods of one call chain are one action when nothing can come between them,
and one method is several actions when a crash, another process or an `await` can. `pc` says where
in such a method a process is. Constants named `Max...` bound counters in guards; they are bounds
of the instance, not of the program. Variables marked *history* are read by properties only.
Definitions with an underscore (`Stopped_StubAll`) are mutants: plausible wrong versions of the
definition that follows them, which the properties must reject. Which mutant each property is
tried against is listed in `PROJECT.json`. A property named in a cfg is often the conjunction of
several that belong together (`RunsAsJudged`, `EndTold`); each part has a name and a comment of
its own.

### Checkpoints

| Variables | In the code |
|---|---|
| `fs`, `blocked` | contents of the project's files (a content stands for its sha256 digest); paths replaced by a link |
| `turnState`, `turnSession`, `turnOwner`, `ranCommand` | columns of `ckpt_turns` |
| `pre`, `post` | pre-image and post-digest of `ckpt_files` |
| `undoState`, `undoTurn`, `backup` | `ckpt_undo`, `ckpt_undo_files` |
| `turn`, `session`, `pending`, `inflight` | `_turn`, the session of a process, whether it is inside a user turn, the file a tool has journaled and is about to replace |
| `pc`, `todo`, `target`, `undo`, `left`, `forward` | locals of `recover`, `undo_last` and `_restore`: where, and what is still to do |
| `origin`, `writes` (history) | what a file held when the turn first set out to change it; changes made by others than undo and recovery |

Every transaction, every replacement of one file and every failure of one is a step. A process
starts (`Start`), recovers (`RecoverClose`, `RecoverList`, `RecoverPick`, `RecoverFile`,
`RecoverCommit`, `RecoverDone`), runs turns (`BeginTurn`, `EnsureTurn`, `Journal`, `Mutate`,
`MutateFails`, `RunCommand`, `EndTurn`, `EndTurnFails`), undoes (`UndoPreflight`, `UndoBegin`,
`UndoFile`, `UndoCommit`, and on failure `UndoFileFails`, `RollbackFile`, `RollbackCommit`,
`UndoRaises`) and exits or crashes anywhere. Outside it, files are edited (`Edit`), paths become
links (`SwapLink`) and sessions are deleted by any process (`DeleteSession`).

`AtomicUndo` keeps the turns of each session and has one step to undo, `Undo`, which takes the
latest turn of a session and restores all its files at once. The refinement mapping reads a file
that is in the middle of an undo as the content it had when the undo began (`AtomicFile`), so all
its files change at the moment the undo row is resolved, whether `undo_last` or a later start
resolves it. Turn states map to themselves, pre-images to `saved`, post-digests to `final`.

### SessionLock

`row`, `owner`, `age` are the sessions table and the lock rows; `age` counts ticks since the
heartbeat, up to `TTL + 1`. Per process: `pc`, `current` (the session of its `NativeSession`),
`locked` (`_locked` of the window, the heartbeat's session of a CLI run), `lost`, `copy` (whether
the engine's cached conversation has all that was appended) and `since` (ticks since the last
successful guard check). `CliStart` and `CliRun` are `nedster run`; `TuiStart`, `TuiOpen`,
`TuiResume`, `TuiNew`, `TuiFirstTurn`, `TuiTurnHeld`, `TuiTurnUnheld` are the ways a window comes
to a session or a turn; `CliHeartbeat` and `TuiHeartbeat` are the timers. In a turn, `Check` is
`_require_owner`; `AppendMessage`, `Dispatch` (with `ToolDone`) and `Compact` are what follows it,
each a later step, because time passes and others act in between. `Delete` is `delete_session`.
`stalls`, fixed at the start, says whether a live process may miss heartbeats for longer than a
lock lives (a suspended laptop) or not.

### EngineRun

`store` is the messages table, `cache` is `_Session.messages`, `calls` and `job` the batch in hand,
and the counters are those of `_Run`. Every append is a step (`Persist` writes the cache and the
store; `OwnerLost` and `StoreFails` are its two failures). `Cancel` and `Deadline` are delivered
only where the coroutine waits. `Interrupted`, `StopJob`, `Stopped`, `Stubbed` are what
`_run_calls` does then: it waits for running jobs, keeps the results that are recorded, and writes
placeholders for the rest. A write that finishes while it is being cancelled is `late`: it has a
record, in memory only, and the model gets a placeholder for it. `StopGivesUp` is the end of
`JOB_STOP_TIMEOUT_S` (or a cancel that raises), `StopInterrupted` a second cancellation inside that
wait; what they give up on (`abandoned`, a history) has no record, and a thread that goes on ends
in `OrphanEnds`. While the lock is lost another process loads what is stored and says more
(`OthersGoOn`); its user messages are `guest`, and a compaction of this engine's older copy erases
them. `Repair` is `repair_history` as a fold over the messages. `plan`, fixed at the start, names
what may go wrong (`crash`, `cancel`, `deadline`, `stuck`: a tool does not stop, `lock`: ownership
is lost, `db`: the store raises, `open`: another window repairs what is stored), the tools the
model calls and the number of user messages.

### Acceptance

A state is a run's list of records, the revision counter, and `version`: how often the files
really changed, which the code cannot see. `Evaluate` is `evaluate` with `_change_outcome`,
`_no_change_evidence` and what they call. Each action appends one record the way `_exec_one` and
the tool runtime would make it. The properties compare the verdict with `version`.

### Compaction

A history is a list of user messages, call groups in four forms (whole, cut, stub, and an answer
without calls) and a summary. `ToolCall` caps a huge output and stores it; `Over` starts a
compaction, `Mask` runs one round of masking, `DropGroups` drops the oldest groups into the
summary, `KeepGroups` ends without dropping, `StoreMessages` and `StoreState` are the two writes.
`PutBodies` notes the rows that have only the cut text of an output (`parts`). `Prune` and `Age`
are `prune_outputs`, run by any process, and `Restart` is a crash anywhere. Sizes are left open:
after each step the prompt may fit or not.

### ToolRuntime, Resolution, Confinement

A call goes through `Refuse` (`_authorize` says no), or `Hand` (a file tool gets a thread) or
`Authorize` (a command is resolved and remembered in `argv`), and then through the steps of its
tool. A write or an edit loads the file, takes `mutation_lock`, looks a second time (`Verdict`,
`Refusing`), journals (`Clear`) and replaces or creates; each is a step, since the thread of a
cancelled call goes on while the next turn, an undo, a change of the role or another program
(`Outside`) acts. `engine` is what `_start_and_wait` and `_stop_job` make of the call: recorded,
stopped, given up or late. `readHashes`, `_own_writes` and what the model was told (`known`) and
has read (`earned`) are sets of contents, which stand for digests.

`Resolution` lists every command and every environment that `resolve_argv` tells apart and says
what it resolves to; a call carries what it was judged as and gets what `_argv_for_start` finds
later. `Confinement` gives, for each backend and each state of `.git` and `.nedster`
(missing, directory, file, dangling link, a worktree's pointer to a directory that exists or not,
with a common directory or without), the places a command may read and write, and those the file
tools may write. `Unkept` names the metadata a backend does not keep. These two have no state; their
properties are formulas over finite sets. A link to a directory that exists counts as the directory.

### Jobs

The first process of a command and what it leads to are `alive`, with `parent`, `group` (the
process group) and `holders` (who keeps the pipe open); they `Fork`, `Leave`, `CloseOutput`,
`Write` and `Exit` as they like. The threads are `monitor`, `reader` and `cancel`, whose values
name the place in `_monitor`, `_read` and `cancel`; `_kill_tree` is the part both the monitor and
a cancel walk through, under `killLock`. `known` is `_known`, the processes `_track` has seen.
Under docker the first process is the client; the container is `asked` for, runs and goes by the
daemon's doing (`Daemon`); `docker kill` ends it or does not, and the job is told of neither
(`OnCancel`). A byte of output is the number of its place, so that `head` and `tail` show exactly
which bytes were kept; `Omitted` and `Shown` are what `BoundedOutput.text` makes of them, with a
line of `MarkerBytes` about the gap.

### Transport

`lines` are what the server wrote: text, calls whole or in fragments, noise, errors, the end.
`wire` holds their cells (parts of lines, and newlines) until `Sends` and `ReadChunk` deliver some
of them; `buffer` is what `iter_stream_lines` keeps; `HandleLine` takes one line into `parts`, the
partial calls by index, id or position as each transport keys them. `EndOfTurn` finalizes,
parses the arguments and makes the ids unique. The two transports are two values of `dialect`.
`TransportAssumption` says that no mapping is a text of fragments, no missing id or name an id or
a call, and no newline a part of a line; a made-up id is taken to be none that was given.

### Window, Conversations, Transcript

`Window`: `draft` is the composer, `posted` a `Submitted` message on its way to the app, `queue`
the turns waiting, `workers` the coroutines that have not begun, `engine` the turn that runs.
Handlers are one step, because they run to their end on one event loop; what they leave for later
is a step of its own and may be late. `typed` numbers the texts, `sent` is what the engine got.

`Conversations`: `entry` is a row of `sessions` with its title, its first text and whether
somebody holds it; `recent` orders them as `updated_ns` does. `at` is where the window is, with
the picker's `options`, `query`, `index` and the confirmation's `asked`; `command` is a
`nedster sessions`, `run` or `resume` line between two of its steps. `other` is a further window.

`Transcript`: `screen` has the widgets of the transcript in order, which of them are shown, and
what the window keeps of the turn (the open reply, the rows by call id); `stored` is the display
history in the store. A turn's events (`Streams`, `Says`, `Starts`, `Returns`, `Verifies`,
`Finishes`, `Fails`) change both as `tui.py` and `Engine._transcript` do; `Clear` is Ctrl+L and
`Resumes` rebuilds the screen from the store with the replay's limit.

### Settings, CommandLine, SessionIdentity, Startup

`Settings`: `file`, `candidate` and `backups` are `config.toml`, `config.toml.new` and
`config.toml.bak-<second>`; `server` the managed models by name; `cmd` the command that runs and
the step it is at. A step may succeed, fail (`Fail`) or be the last one before the process dies
(`Die`). Of a document the keys are told apart that a command writes or that mean consent, the
role, and the rest of the owner's (`Rest`), by what `_dump_toml` makes of it (`Dumped`): the same
values, a string in place of a nested table, or a text that is no TOML (`Garbled`). A backup has
the second of the wall clock for a name, any of `Second`; `reused` (history) are those that got a
second copy, `given` (history) is what was replaced. `Resolve` is `resolve_config` over the layers
defaults, file, project, environment and flags. `CommandLine` lists every line `build_parser`
accepts and what `_check_flags`, the terminal and the handlers' questions make of it.

`SessionIdentity`: `saved` has the state rows of a session (facts, instructions, soul, role),
`project` and `soul` are versions of the files they come from, and `win` is the running process
with its cached sessions and its role, once for the engine (`role`), once for the tools (`gate`).
What a request begins with (`Prefix`) is the prompt of the role, which `Under` rewrites for every
conversation at hand, and what is read once for each (`Lasting`).
`Startup` opens processes with the role that `Resolve` yields.

### How the models fit together

They share assumptions at their borders, and each border is modelled on at least one side:

- `EngineRun` treats the lock as a fault that may come at any moment (`lock`), with what another
  process says meanwhile; `SessionLock` says when it can.
- `EngineRun` abstracts `acceptance.evaluate` to four values of `evidence`; `Acceptance` is the
  function itself.
- `EngineRun.Compact` drops any groups the code may drop; `Compaction` says which, and with what
  summary.
- In `Checkpoints` a tool's write may come after its turn has ended (`Mutate` asks for
  `inflight`, not for a turn); `EngineRun.OrphanEnds` and the thread a cancelled call leaves
  behind in `ToolRuntime` are where such jobs come from.
- `ToolRuntime` starts a command and gets its end; `Jobs` is what happens in between, and
  `Confinement` what the command could have touched.
- `EngineRun` receives whole answers of the model; `Transport` says that they are whole.
- The turn of `Window` starts, shows a tool and ends; that it ends is `EngineRun.RunEnds`.
- `Conversations` has locks that are held or free; `SessionLock` has their life.

## The runs

| Run | Instance | Checks | Shows |
|---|---|---|---|
| `ckpt_journal` | 1 process, 2 files, 2 contents, 1 turn, 2 undos, 3 changes, 2 crashes, 1 OSError, 1 database error, 1 link swap, 1 deletion | `UndoAllOrNothing`, `NoEditOverwritten`, `RecoverySettles` | undo and recovery restore originals, overwrite nobody's edit and leave nothing half done |
| `ckpt_atomic` | 1 process, 1 session, 2 files, 1 content (and absence), 2 turns, 2 undos, 3 changes, 1 crash, fair | `ImplementsAtomicUndo`, `UndoIsLatest`, `InterruptedUndoResolved` | with crashes and restarts an undo is as if it happened in one step, latest turn first, and one that was interrupted is resolved |
| `ckpt_shared` | 2 processes, 2 sessions, 1 file, 2 turns, 1 undo, 1 crash, 1 deletion, edits inside passes | `IndInv` | recovery never closes a live turn; the invariant of the proofs |
| `lock` | 2 sessions, a run, 2 windows, one of them on another host, TTL 1; stalls on one session only, fair | `OneRunner`, `WriteOwned`, `DeleteSparesActive`, `DeadHolderReplaced` | one turn at a time on a conversation, guarded writes under the writer's own lock, and no lock outlives its holder for good |
| `acceptance` | 3 records, 1 file, every kind of call and result | `CompletedMeansTested`, `NothingHidden`, `ClaimsAreProven` | the verdict agrees with what happened to the files and what the tests saw |
| `engine_run` | three plans: 2 user messages with crashes, cancels and tools that do not stop; 1 message whose tools stop in time; 1 message with every fault; two faults at a time, fair | `HistorySound`, `RunAccounts`, `NothingLost`, `RunEnds` | requests are paired and equal what is stored; records tell all that was done, but for what the engine gave up on; nothing said or answered is lost; a run ends |
| `compaction` | 3 calls of 4 kinds, 1 user message, 1 answer, masking that spares 1 or 2, 1 crash | `HandlesSound`, `EvidenceKept`, `OffersStand` | handles lead to the outputs of their calls, no call is forgotten, and what a summary offers it offers for good |
| `tool_runtime` | 2 calls, 1 path (and those refused), 2 contents, 2 roles, 1 change from outside, 1 undo, 1 failure, fair | `RunsAsJudged`, `ReplacesSeen`, `CallsSound`, `CallsSettle` | what runs is what was judged, nothing unseen is overwritten, a call has done what its result and role say, and comes to an end |
| `jobs` | 2 children, host and docker, a head of 1 byte, a tail of 2, a line of 1, 4 bytes, fair | `NothingLeft`, `EndTold`, `Ends` | nothing tracked on the host survives the result, the result is the command's own, and it comes |
| `transport` | both transports, streams of 4 lines and 9 cells, 2 streamed calls and 3 at once, lines capped at 1 cell, fair | `TurnSound`, `TurnSettles` | a turn comes out as the server meant it or not at all |
| `window` | 3 texts, 3 turns, 2 screens, fair; 4 conversations with ids and names that collide | `TurnsStand`, `TextsKept`, `Settles`, `PointedAt`, `NamesStand` | one turn, no text lost, no cancel astray; what is opened or deleted is what was pointed at; names stay |
| `startup` | 2 commands, 1 edit, 1 death; 2 sessions, 2 processes, 1 change of the project, 2 of the soul; 2 turns of 3 steps, 4 pieces, 2 calls, 1 slip | `ProjectTightens`, `ScreenTrue`, `SettingsStand`, `PrefixStands`, `RolesStand` | settings whole, usable, kept where they were replaced and as agreed; a conversation keeps its role, and its prefix but for a role it is given; the screen tells what was said and run |

Some cfgs check several questions on one state space. `lock` starts with or without stalls
(`stalls`; only the sessions of `WhenStalled` exist if it does), `engine_run` with one of three
plans, and `window` and `startup` are sums of two models that share no state: each moves only while
the other is in its initial state, so the behaviours are those of both and no more. `RunsAsJudged`
includes the two formulas about sandboxes (`Confines`, `FileToolsWithin`), and `SettingsStand` the
one about command lines (`Confirmed`), which have no state of their own: their modules are extended
by the module that calls what they define.

Why the bounds are enough to be of use:

- *Journal.* Two files are the least for a half-done undo: one restored, one not. Two contents and
  absence tell apart the file before the turn, after it, and after somebody's edit. Two crashes
  let a recovery itself be interrupted. Three changes are a change, a second change of the same
  or another file, and an edit. Two turns (`ckpt_atomic`, `ckpt_shared`) are the least for "the
  latest". Two processes with one file are enough for what they can do to each other's rows; their
  passes over two files are left to the proofs, which bound nothing. `ckpt_atomic` has one session;
  the refinement theorem has any number.
- *Locks.* Two processes conflict and a third can take over from both. With a `TTL` of one tick a
  heartbeat is due or late. Two sessions are needed to leave one and come back.
- *Engine.* A batch of two calls is the least of which one is answered and one is not; the one
  call id makes both calls share it, the hard case for pairing. Two user messages let a second
  request follow whatever the first left behind. The limits (2 model calls, 3 tool calls, 2
  repeats, 1 own verification) are each reachable, alone and inside a batch. Two faults are a
  deadline and a cancel inside its wait, or a lost lock and a message of another process.
- *Acceptance.* Three records are a change, a check and what comes after it, or a read, a check
  and a declaration; the theorems hold for every length.
- *Compaction.* Three calls are one dropped, one masked and one spared, with room for a second
  compaction. Whether a stub's handle can get lost needs two.
- *Tools.* Two calls are one that is cancelled and left behind and one that goes on; one path is
  the one they fight over.
- *Jobs.* Two children are a tree of depth two, or one process that leaves the group and one that
  stays. Four bytes with a head of one and a tail of two are one byte too many, of which the line
  about it takes another's place. A behaviour with all the
  children writes nothing (`Bounded`): output and the shape of the tree meet with one child.
- *Transport.* A line of two cells is over the cap of one, and can arrive in halves; calls in two
  fragments are cut between them. Five calls are only ever told of as two streamed and three at
  once; an empty first fragment of arguments is only tried for the last streamed call.
- *Window.* A text is running, one is queued, one is typed. Commands come before the last turn.
  The four conversations are two whose ids begin alike, one whose id begins with a name, and one
  of its own; `MostAll` bounds what happens to them together.
- *Startup.* Commands follow one another (see below), two of them have two seconds, which they may
  share, the owner does not edit between a command's last look and its rename, one process runs
  at a time, and a behaviour either settles or converses. Values that are not written as they were
  read come with the managed worker, no role and no consent (`SettingsInit`): `Merged` and `Dumped`
  do not look at both. In `Transcript` ids are numbered by
  their first use, pieces and calls are counted over the whole behaviour, and the answers of a
  group of calls are stored in one step; a message makes one or two calls.

Symmetry is used only in runs without liveness, over values no definition tells apart (files,
contents, sessions, processes of one kind and host). `CHECK_DEADLOCK FALSE` appears where an
instance stops of itself: records end at `MaxRecords`, an engine has no more user messages than its
plan, a user types `MaxTexts` texts, a process of `Startup` is the last one.

### Fairness

- `Checkpoints.FairSpec`: a process that is off is started again some time, and recovery and undo,
  once begun, take their next step. Both are plain loops without waits on others; crashes
  interrupt them and are bounded. No fairness is put on turns, undos being asked for, edits or
  failures.
- `SessionLock.FairSpec`: time passes, the window's heartbeat timer fires, and the user of a
  window goes on submitting to the session it shows (`TuiTurnUnheld`). The last is an assumption
  on the user and part of the property: a dead holder is replaced when somebody tries.
- `EngineRun.FairSpec`: the event loop runs and tools stop. The transport's stream ends because
  it has read timeouts (`Transport`, `TurnSettles`), a tool because `exec.py` kills at its timeout
  (`Jobs`, `Ends`). Faults and user messages are never forced.
- `ToolRuntime.FairSpec`: the threads of the tools and the engine's wait go on. Nobody has to call,
  to cancel or to undo.
- `Jobs.FairSpec`: monitor, reader and cancel are threads that run, and time passes (`Expire`). The
  command's processes owe nothing, nor does the daemon.
- `Transport.FairStreamSpec`: what has arrived is read; that nothing arrives any more is an outcome
  of `Sends` (httpx's timeout).
- `Window.FairSpec`: messages and workers get their turn on the event loop, and a turn ends. No
  fairness on the user.

## What is proved

TLAPS checks the theorems below for every value of the constants, under the named assumptions of
the modules (`ConstAssumption`, `LockAssumption`, `AcceptanceAssumption`, `EngineAssumption`,
`CompactionAssumption`, `ToolAssumption`, `JobAssumption`, `SettingsAssumption`,
`IdentityAssumption`, `ConversationsAssumption`, `WindowAssumption`, `TransportAssumption`,
`TranscriptAssumption`): bounds are naturals, what is enumerated comes from the sets the code
knows, ids are unique and no id is the beginning of another, and special values (`Absent`,
`Nobody`, `None`, ...) are none of the ordinary ones (in `Window`, no text either). The bounds
limit nothing, since each may be any natural number. TLC evaluates every assumption, since each
module is extended by that of a run.

In each proof module there is one lemma for each action, or one for each conjunct and action where
the conjunct is disturbed, an `...Keeps` lemma that puts them together, and the theorem that
follows by `PTL`.

**Journal** (`CheckpointsProofs`), in three layers.

- *Any processes* (`Inductive`, `TypeCorrect`, `LiveTurnsStayOpen`, `ClosedTurnsHavePostImages`):
  `IndInv`, with any number of processes and with edits inside passes. Neither safety invariant is
  inductive alone. That a live process's turn stays open needs to know that what recovery noted
  in its first SELECT were rows of dead owners and still are (`TodoStands`), and that an undo in
  progress is of a turn that is over (`PassHasRow`, `UndoRowsComplete`), so committing or rolling
  it back cannot close or undo a live one. That closed turns have post-images needs that no process
  outside a turn has a row to journal into (`TurnWhileIdle`), and both need that row ids are fresh
  (`RowsInOrder`, `AbsentRowsEmpty`).
- *One process* (`UndoIsWhole`, `EditsSurvive`, `StartsSettle`), under `Solo`: at most one process,
  and no edit in the middle of a pass over files. `SoloInv` says which files of a pass hold what:
  the pre-image behind the pass and the post-image ahead of it, or the other way round when it
  rolls back (`PassFiles`), that an interrupted undo's backups are its turn's post-images
  (`BackupIsPost`), that there is at most one (`OneInterrupted`), and that recovery has noted all
  there is (`TodoComplete`). Failures of any kind and number are allowed. `Solo` is needed: with
  two processes a starting one takes another's undo in progress for an interrupted one
  (`checkpoints.py:375`), and no lock excludes an edit between a check and the replacement after
  it.
- *Nothing fails but the process itself* (`UndosAreLatest`, `Refinement`), under `Solo` and `Calm`:
  no OSError, no database error, no link, no deletion; crashes at any point remain. `CalmInv` adds
  that an open turn is the process's own or waits for recovery, that an idle process finds no
  interrupted undo, and that the turn of an undo is the newest that is not undone (`UndoNewest`).
  Then every step of `Checkpoints` maps to a step of `AtomicUndo` or a stutter: commits are `Undo`,
  every other step of an undo or a recovery leaves `AtomicFile` as it is, since the file it changes
  counts as its backup. `Calm` is needed: a turn or an undo that an error leaves open in a process
  that goes on can be overtaken by later turns.

**Locks** (`SessionLockProofs`). `GuardedWritesOwned` says that a write within the lock's life of a
guard check is under the writer's own fresh lock, however long anybody stalls. It is inductive
because a lock younger than `TTL` can be taken, or its session deleted, by nobody else
(`LocksReal`, `LockedIsCurrent`). `AtMostOneRunner` is for timely processes: each that believes to
hold a session does (`HoldersHold`), a process in a turn believes so (`TurnsHold`), and a lock has
one owner. `DeletionSparesActive` follows from the same invariant.

**Streams** (`SessionLockProofs`, its first part). `TurnsComeWhole`: `TurnSound` for streams of any
number of lines and calls, cut anywhere. The invariant (`StreamInv`) has four parts. *Place*
(`PlaceOK`): what is on its way and what the transport holds are the rest of what was written, from
the end of the last line that was handled (`LineEndsAt`); only the last line, which no newline
ends, may be left before its end. So the cells up to the first newline are the next line, whole
(`HoldsNext`), however the chunks fell, and a line without a newline is whole or was cut
(`LinesRead` counts the whole ones). *What is known* (`PartsOK`): there is a function of the number
of lines, which starts with no calls, which each line that tells of calls extends as the transport
does, and which ends with the calls as the server meant them (`KnownAfter`); what the transport
knows is its value at `LinesRead`. The server writes the next value when it writes a line
(`WriteKeeps`), so a client that reads line by line cannot come to another one. *Order*
(`LinesOK`): nothing that adds to a turn follows the line that ends it, and text comes once, so a
transport that has read that line knows the turn (`FinishedIsWhole`). *Ids*: `UniqueIdsAre` says of
the ids that `ensure_unique_call_ids` makes that they differ, and are the given ones if those do; a
number that is free is found because fewer ids were given than there are numbers (`UnusedIs`). The
least counterexample replaces induction over lines (`WrittenTyped`, `WrittenStands`) and over ids.

**Verdict** (`EngineRunProofs`, its last part). `CompletedIsTested`, `NoChangeHidden` and
`ClaimsHold` hold for runs of any length over any files. The invariant says that revisions of
records follow one another (`Ordered`), that from a call on the files are as they were unless a
change is recorded since (`Accounted`), and that a recorded change raised the counter
(`ChangesBump`). A fresh check started after the last change's revision, so there was no change
from it on (lemma `FreshMeansUnchanged`), so by `Accounted` it saw the files as they are.

**Engine** (`EngineRunProofs`). `RunsAccount`: records tell all writes and tools stay within the
budget. The invariant `RunInv` counts: calls that are running, done or recorded have a place in the
budget (`BudgetOK`), and writes that happened or are still at work are those reported, those given
up and those done that have no record yet (`AccountOK`). It needs `BatchOK`: a group is started as
a whole and answered before the next one, and `LoneOK`: a write runs alone. `CopyStands`: the
engine's copy is the stored conversation in every state in which it has one, as long as nobody else
writes and the store works (`HeldOK`). `RecordedAnswersReal`: a call with a record gets its own
result, whatever interrupts its group after the run took it.

`HistoryHolds` and `NothingIsLost` are about the messages, for conversations of any length, batches
of any size and ids that repeat. `HistorySound` is not inductive: while a batch is being answered
the stored messages are not paired. The invariant (`HistoryInv`) adds that they are paired as far as
they go (`Partly`: after every message that makes calls come answers to some of them, in some
order, and then a message that is no answer only when all are answered); that outside a batch
nothing is missing (`Complete`); that within one the calls answered in the store are exactly those
whose job is `real` or `stub` (`Open`), which is how the run knows what is left when it returns
from the batch; that a job is dropped only when the run has a reason to stop (`ProgressOK`), so a
batch that goes on has answered all; and that the engine's copy has at least the user messages of
the store, which a failing store makes necessary (`KnownOK`). `UsersAreKept` has the one exception
of `UserMessagesKept`, a guest's message. On it rest three arguments. *Repair*:
the calls `RepairStep` still owes are, up to their order, those of the last message that makes any
(`Owed`, kept by `OwedTool` and `OwedNext`), so the placeholders it adds complete the history
(`RepairIs`, `RepairFine`), and of any history, paired or not, it keeps what the user said
(`RepairTyped`). *Answers*: one more answer is one more place of the order in which they come
(`NewAnswer`). *Compaction*: the answers of a message are in its group and in no other
(`GroupIs`), so a group goes as a whole (`WithoutIs`, `LeavesPaired`), and nothing of the user's is
in any (`UsersStay`). What the folds over messages compute is shown step by step: a fold is a
function of the first messages (`RepairedStepwise`, `ThoseStepwise`, `Flattened`), and the least
place where a claim about it fails is impossible.

**Compaction** (`CompactionProofs`). `HandlesAreSound`, `EvidenceIsKept` and `OffersHold`, for any
number of calls, messages, prunes and crashes; a row with a part of an output is of a call whose cut
result was masked or dropped (`PartsAreKnown`). `CInv` has what a compaction holds in memory and not
yet in the store, phase by phase (`PhaseOK`), that no prune may take a row that a history or a
summary shows, stored or about to be (`RowsOK`), that both histories show only good handles and
tell of every call (`HistoriesOK`), and that the summary that is shown is the one that is known
(`SummaryOK`). The recursion of the history's rebuilding is avoided: lemmas (`Entries`, `Counting`,
`RebuiltIs`) say which entries a rebuilt history has, whatever their order.

**Tools** (`ToolRuntimeProofs`). `JudgedRuns`, `CallsAreSound` and `ReplacedWasSeen` rest on `IInv`:
for each call where it is (`StageOK`), what it goes on with (`RequestOK`: between its second look
and its replacement the file is the one it looked at, unless a program outside was faster) and what
it did and who knows (`DoneOK`); that `mutation_lock` is held by exactly the call between look and
end (`LockHeld`); and that every digest the model could use stands for a content it has read or
written (`HashesEarned`). `CommandsConfined` and `NoWayAround` are the formulas about
sandboxes, by cases over backends (`GrantsAre`).

**Jobs** (`JobsProofs`). `NothingOfItIsLeft` and `EndIsTold`, for any number of processes and any
output. `JInv` says that what was seen and lives is known (`TreeOK`), that one thread kills at a
time (`LockOK`), which processes are dead at each place of `_kill_tree` (`KillOK`: only the
monitor's second pass is sure to be alone with the tree), that a kill is noted before it is done
(`StatusOK`), and that head and tail are the ends of what was fed (`OutputOK`), which `Feed` keeps
for outputs of every length. Nothing is proved of the container, which may outlive its result.

**Startup** (`StartupProofs`). `SettingsHold` rests on `SettingsInv`: at each step of a command
which staged and final models are there and tried (`BuildsOK`), that the text to be written is what
was agreed on (`ChoiceOK`, `TextOK`), whole unless it is made of a document that cannot be written
(`Written`), and that what was or is about to be replaced is in the backup of its second, if no
other copy fell in that (`BackupsOK`, kept by every copy: `CopiesStand`). `ProjectOnlyTightens` is
by cases over the layers. `PrefixHolds`, `RolesAreOne` and `RolesHold` rest on `IInv`: what was
sent is, but for the role, what is stored (`SentIsSaved`), what is cached too (`CacheIsSaved`), and
a session has a role to keep only once it has a row (`KeptIsSaved`, `WindowKeeps`).
`LinesConfirmed` is about every command line.

**Window** (`WindowProofs`). `TurnsStandHolds` and `TextsKeptHolds`, for any number of texts, turns,
workers, dialogs and screens. `TurnsStand` is not inductive: a turn that is about to begin has
to be the window's latest one and the last worker but for its own cancels, a cancel must wait for
no other turn than the running one, and no undo may wait while the engine runs (`WorkersInOrder`);
and the window has to say busy exactly while there is a turn (`Busy`). `InOrder` needs to
know where every text is: what was sent, what a worker carries, what is queued and what the
composer, a posted line or the history search shows come in the order they were typed in
(`InLine`), every one of them was typed (`TextsTyped`), and a queue is waited on only by a running
turn. What flattening the composer's texts gives (`Flattened`, `JoinedHolds`, `FlattenedHolds`) is
shown by the least counterexample, from the well-foundedness of the naturals, since induction over
data is out of reach.

**Conversations** (`WindowProofs`, its second part). `PointedAtHolds` and `NamesHold`, for any
number of conversations and any ids and texts. `ConvInv` says that whoever is at work on a
conversation holds it: a run from its admission on, a window through a turn (`CommandSound`,
`WindowSound`), so that nobody deletes it meanwhile and only one of them chooses a name; that what
a command, the confirmation or a row of the picker is about is of this project and not yet to be
created (`Ours`), however long ago it was read; that the list has each saved conversation once
(`ListSound`) and the highlighted row is one that is shown (`PickerSound`); and that a conversation
to which a name is about to be written has none from a user, or got it in between (`NamesSound`).
Each action is split into what it does to the store (`KeepStore`, `HoldStore`, `TitleStore`,
`SayStore`, `DeleteStore`, `MakeStore`) and to its actor. What the filtered lists contain (`Among`,
`ThoseAre`) is shown by the least counterexample too.

**Transcript** (`StartupProofs`, its second part). `ScreenTrueHolds`, for any number of turns,
pieces, calls and steps, of clears, resumes and deaths, and for ids that come again in a later
message; a message makes one or two calls here too. `ScreenTrue` is far from inductive: it says
nothing of what is not on the screen yet. `TranscriptInv` (`TranscriptInvariant`) is, and has seven
parts. `ScreenOK`: the window points only to widgets it has (its open reply and all replies of the
turn are replies, a tracked id has a row). `TurnOK`: an idle engine has no open reply, and no reply
is open while a group runs. `CallsOK`: the calls of a message that are not answered have different
ids, and those not started have no result, so an id leads to one of them though older messages used
it. `StoredOK`: the entries of the history come in the order of their pieces, and none is of a call
still owed. `RowsOK`: a row that runs is the tracked one of its id, a call that is awaited has such
a row, and no call has two rows, which is why a result goes to its own row and closing the turn
leaves none running. `ReplyOK`: what was streamed of a message is the text of the last reply, and
so is the text before the engine's own verification, so the answer goes on from it or is a reply of
its own (`AnswerTold`), and nothing is said twice. `ShownOK`: the widgets shown are in order and
have every piece of the history from `since` on. `TextsTrue` and `RowsAreTrue` draw `ScreenTrue`
from these. What `Kept`, a selection of members by recursion, contains and in what order (`KeptIs`)
and what a concatenation of texts contains (`FlatIs`) is shown by the least counterexample. `Put`
and `Kept` stand in the module in place of library operators because their definitions can be
unfolded.

Model-checked only: liveness (`InterruptedUndoResolved`, `DeadHolderReplaced`, `RunEnds`,
`CallsSettle`, `Ends`, `TurnSettles`, `Settles`) and everything that would need `ENABLED`, which is
out of the prover's reach. Every safety property of the runs is stated by a theorem.

## Where the code and its documentation disagree

Behaviours that go wrong, found while modelling. Each is stated where it has a name, is checked by
no run because the code does not keep it, and can be had with the cfg given. Those that are
hazards of a modelled part are in `PROJECT.json` with a note.

1. **A stale copy erases messages** (`engine/loop.py:330`; `NothingErased` of `SessionLock`).
   `docs/ARCHITECTURE.md:87` keeps all user messages verbatim. `Engine._session` caches a
   conversation for the life of the process. A window that leaves it, lets another window continue
   it and comes back works on the old copy; its next compaction replaces the stored messages and
   the other window's are gone. `Session={s1,s2}`, `Cli={}`, `Tui={w1,w2}`, `Remote={}`, `TTL=1`,
   `WhenStalled={}`, `INVARIANT NothingErased`. The same inside one turn that loses its lock:
   `NothingErased` of `EngineRun` (`EngineRun.cfg`, as a `PROPERTY`), which is why
   `UserMessagesKept` excepts a compaction of an older copy.
2. **A lost lock is not noticed, or not everywhere** (`TakenTurnEnds`, `CompactsOwned`). A lock
   taken over and released between two heartbeats is acquired again by the old holder, whose turn
   goes on; `_maybe_compact` writes without asking the guard. Same cfg, the property in turn.
3. **A lost lock leaves calls unanswered** (`engine/loop.py:316`). `OwnershipLost` ends a batch
   without placeholders, and the cached conversation is not repaired when the window holds the lock
   again: the next request has calls without results. `EngineRun` with a plan of two messages and
   the fault `lock`, `RequestsPaired` without `Held`.
4. **A masked output's handle gets lost, or leads to a part of it** (`engine/context.py:387`,
   `:440`; `OutputsAvailable` of `Compaction`). `docs/ARCHITECTURE.md:84` has the full text
   retrievable through `show_output`. A compaction that only masks, then one that drops the masked
   group: the summary lists the handles of the second only, and the first output is out of the
   model's reach. And what masking or dropping stores of a cut result is the cut text: no message
   shows the handle of the whole one any more, the stored text still names it, and a prune deletes
   its row (`halved` in `OnlyStubsSlip`). `Keep={1}`, `Kind <- MCKind`, `MaxCalls=2`, `MaxUsers=1`,
   `MaxAnswers=1`, `MaxCrash=0`.
5. **`/model` under a running turn** (`ModelStands` of `Window`). `docs/USAGE.md` has the command
   idle only; the list of models is awaited after the look, and a turn can begin meanwhile.
   `MaxTexts=3`, `MaxTurns=3`, `MaxScreens=1` with the `FairSpec` of `Window`.
6. **Ctrl+L during an answer hides more than the past** (`ClearOnlyHides` of `Transcript`). The
   widget that streams is taken off the screen with the rest; what still comes goes to it.
7. **A container outlives the command's result** (`ContainerGone` of `Jobs`). `exec.py:13` has
   `Job.cancel()` return after the Docker container is gone. `on_cancel` (`docker.py:164-171`)
   passes over an error, a timeout and a refusal of `docker kill`, and one that comes before the
   daemon has made the container; the job ends with its client. `Jobs.cfg`, `INVARIANT
   ContainerGone`.
8. **A write without a record** (`ChangesTruthful` of `EngineRun`). `engine/loop.py:627` wants
   "Changed files:" to stay truthful when a stopped tool finishes after all. After
   `JOB_STOP_TIMEOUT_S` (`loop.py:689-697`), or a cancel within the deadline's wait, the engine goes
   on and the write has no record; `ChangesReported` says that nothing else is left out. A write
   that finishes in time is recorded, but the model gets a placeholder for its result.
   `EngineRun.cfg`, `INVARIANT ChangesTruthful`.
9. **The count of omitted bytes is short** (`OmittedTold` of `Jobs`). `BoundedOutput.text`
   (`exec.py:363-365`) counts what was not kept and then cuts as many bytes off the tail as the line
   with that count has. `Jobs.cfg`, `INVARIANT OmittedTold`.
10. **Settings are not written as they were read** (`model_manager.py:451-467`; `Dumped` of
    `Settings`). `model_manager.py:494` says that "every other user-edited key is preserved", `:535`
    that "Only the worker key changes; every other user value and section is preserved".
    `_dump_toml` makes a string of a nested table, writes a key that needs quotes without them and a
    character beyond the basic plane as two escapes, which `tomllib` rejects: then no command reads
    the file any more. `FileWhole` and `AsAgreed` except just such documents. `Startup.cfg`, with
    `file # Garbled` as an invariant.
11. **A backup overwrites another** (`model_manager.py:523`). It is named by the second, and
    `copy2` replaces a file of that name: of two commands in one second the text that the first
    replaced is lost. `ReplacedKept` excepts those seconds (`reused`); without the exception it
    fails under `Startup.cfg`.
12. **A role rewrites the stable prefix** (`engine/loop.py:283-289`, `engine/prompt.py:446-448`).
    `prompt.py:3` has the text "byte-identical across turns of a session", and
    `docs/ARCHITECTURE.md:52` says the same. The role's prompt stands before the facts, and `/role`,
    a resume or `--role` rewrites it, so that the requests of one session begin alike only as far
    as the fixed instructions. `PrefixStands` has the role as its one exception; `sent` unchanged
    in its place fails under `Startup.cfg`.

Others, without a property of their own:

- *Journal.* A starting process recovers another live process's undo in progress. An undo whose
  rollback raised stays interrupted in the live process, and later turns overtake it. A failing
  `end_turn` leaves a turn open, and recovery may take its post-images from half-restored files.
- *Engine and store.* Opening a conversation in another window repairs it under the owner's running
  calls (`tui.py:738`). A store
  error leaves the cached copy ahead of the store. A crash between `replace_messages` and
  `set_state(COMPACTION_STATE)` loses the summary's evidence at the next compaction; the
  properties of `Compaction` exclude that one case (`torn`). After a failed automatic
  verification the answer can begin with prose of before it. `output_for_call` gives the newest
  output of an id that a server used twice.
- *Settings.* With `NEDSTER_STATE_DIR` set and `NEDSTER_CONFIG_DIR` not, setup writes a
  `config.toml` that `resolve_config` does not read. If the worker was copied over and the router
  was not, the pair is mixed. Two commands at once share `config.toml.new`. `models use --dry-run`
  writes all the same (`cli.py:596`).
- *Soul.* `/soul remember` stages the whole of `soul.md`, so an edit before the confirmation is
  overwritten.
- *Conversations.* `/rename` in a window that has not begun names nothing. A name given between
  the two steps of `_auto_title` is overwritten. A preview of a deletion can be out of date. If a
  conversation goes while the picker shows it, one that has its id for a name is opened.
- *Transcript.* A replay leaves out the calls of messages without text, and shows the text of the
  automatic verification, which the live screen does not.
- *Sandboxes.* `bwrap.py:5` re-binds `.git` with "a resolved gitdir" whether or not they exist: a
  gitdir that a `.git` file names and that does not exist yet is not, and neither is the common
  directory of a worktree, both of which the file tools refuse to write. Seatbelt does not look for
  dangling `.git` and `.nedster` links, as the other two do, and a command can create what one leads
  to. `Unkept` has these exceptions. bubblewrap's probe raises, and does not say "not ready", on a
  dangling `.git` or `.nedster` link. Under Seatbelt a command can read the private directory that
  `private_dir` says it cannot see. Under docker on a host that folds case, a worktree's gitdir
  inside the project is covered only as it is spelled. The repository's own git filters are switched
  off only if the scan for them answers. `git.py:9` has submodules ignored, but only `git_diff` and
  `git_status` pass `--ignore-submodules`.
- *Composer.* Texts that a cancel or a refused turn gives back while a history search is open are
  overwritten when it is closed (`composer.py:290`).
- *Reading.* A read of some lines of a file, or one that was cut, earns the digest of the whole
  (`files.py:529-551`), and with it the right to replace what was not shown; `earned` counts it.

## What is left out

- *Of the journal:* mode bits, directories a turn created, the blobs' compression; a database error
  in the last transaction of an undo, which leaves it interrupted as a crash there does
  (`checkpoints.py:525-527`); an `/undo` in a window that shows a conversation held elsewhere, which
  asks for no lock (`tui.py:484-487`).
- *Of the locks:* the random tokens and host names (an owner is a process), pid reuse.
- *Of the engine:* tokens and usage, prompt assembly, the nudges against repetition, events.
- *Of the verdict:* obligations, the classification of intent (all three are tried), wording.
- *Of compaction:* sizes, the caps on the summary's lists, the wording of stubs and summary,
  paging in `show_output`.
- *Of the tools:* directory listings, the format of results, the search tools (they read and
  change no state), Windows, the environment passed to commands. Programs that a command starts
  are `Outside` to the file tools.
- *Of a job:* that `_track` reads the process table while it changes (it is one step), pid reuse.
- *Of the transports:* the request's payload, encodings, the timing of timeouts.
- *Of the front ends:* layout, colours, key bindings, completion; output of the command line.
- *Of the settings:* the parsing of single values; the choice of models from the hardware.
- *Whole parts:* the run ledger is an append-only log whose only user is `nedster verify-ledger`;
  scaffolds, hardware probes, phrases and notifications are stateless helpers; evaluations and
  benchmarks measure models and are not part of the program; `ironclad/sandbox.py` and the
  capability tokens of `ironclad/security.py` are used by no path of the tool runtime.

## Running

```
tlc -config CkptJournal.cfg MCCheckpoints.tla
tlapm CheckpointsProofs.tla
```

The module and the cfg of each run are in `PROJECT.json`.
