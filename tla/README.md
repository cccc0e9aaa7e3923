# NandoCode in TLA+

NandoCode is a coding agent in Go: a command line program, a terminal interface
and an HTTP server with a browser page, all of which run a language model
against a set of tools, ask the user for permission, and start further agents in
the background. These modules model the parts of it whose correctness depends on
the order in which goroutines, requests, files and timeouts meet, and the
algorithms whose results those parts rely on. Paths below are relative to
`src/internal/` unless they start with `docs/`.

## 1. The system

| Part | State it keeps | Operations | Meets | Module |
|---|---|---|---|---|
| Agent loop (`agent`) | history, retry counters, tool batch, event channel | turns, stream, tools, compaction, packing, `Terminal` | LLM client, tools, permissions, hooks | `AgentLoop`, `Conversation`, `RunContract` |
| LLM client (`llm`, `llm/ollama`) | one channel per stream, timers | `Chat`, `WatchStream`, metering | agent loop | `StreamPipe`, `AgentLoop` |
| Task supervisor (`tasks`) | `tasks`, `cancels`, names, `workerMeta`, mailboxes under `mu`; `emitMu` | `Start`, `Stop`, `publish`, `SetWorkerMeta`, `QueueMessage`, `DrainMessages`, names | launchers, workers, the observer | `TaskSupervisor`, `WorkerStream` |
| Task output files (`tasks/output.go`, `replay.go`) | one file of JSON lines per task | write, tail, replay, resume | supervisor, task tools | `OutputFiles` |
| Launchers (`tools/agenttool`, `tools/tasktool`) | the policy of the caller, on the one Agent tool | launch, name, announce, clamp | supervisor, permissions | `TaskSupervisor`, `SubAgent` |
| Permission broker (`server/permission.go`) | `pending`, one buffered channel per prompt, `permRules` | `PromptFunc`, `expire`, `Resolve` | agent, sub-agent's wrapper, HTTP handlers | `PermissionBroker`, `PermissionContract` |
| Permission resolution (`permissions`) | none | `Resolve`, `ClampMode`, rule globs | agent loop, file save | `PermissionResolution`, `RuleGlob` |
| State store (`state`) | the value, subscribers | `Set`, `OnChange`, `Subscribe` | terminal, tasks, `bootstrap` | `StateStore` |
| Session (`server/session*.go`, `runctl`) | `running`, `state`, `conversation`, `activeWrites`, titles; the controller | runs, clear, compact, cancel, `stop` | everything of the server | `Session` |
| Requests of a session (`server/handler.go`, `llm/modelruntime`) | recent ids, active model, routes, credentials | post a message, switch the model, save a key | session, browser | `SessionRequests` |
| Session slots (`server/ratelimit.go`, `session_evict.go`) | slot count, session map | create, delete, evict, sweep, reuse | HTTP handlers | `SessionSlots` |
| Event stream (`Emit`, `Replay`, `Subscribe`, `sse.js`) | counter, ring, subscriber channels | emit, replay, subscribe, reconnect | everything that emits | `EventStream` |
| File writes (`server/handler_files.go`, `tools/filewrite`, `fileedit`, `fileread`) | path locks, tracked writes, snapshots | save, write, edit, read | broker, agent tools | `FileEdits` |
| Browser editor (`server/web/js/features`) | tab, draft, requests in flight | open, type, save, reload, compare, close | file writes, event stream | `BrowserEditor` |
| Terminal (`tui/app.go`, `permission.go`) | queue of prompts, dialogs, side questions | submit, switch, compact, decide | agent runs, workers | `Terminal`, `TerminalPrompts` |
| Prompt preparation (`turnprep`, `mentions`, `contextpack`) | budgets, samples of files | resolve, expand, pack, route | the workspace's files | `TurnPrep`, `EvidenceRanges` |
| Semantic index (`semantic`) | index directories, cache | build, refresh, clear, retrieve | files, prompts | `SemanticIndex` |
| MCP (`mcp`) | pipe, lock, waiting request; two config files; tokens | connect, call, close; start; refresh | agents, tool registry | `McpStdio`, `McpServers`, `McpAuth` |
| Hooks and memory (`hooks`, `memory`) | snapshot of hooks, memory directory | dispatch, forward, recall, draft | agent loop | `RunnerStack`, `MemoryStore` |
| Evaluation (`eval`) | recorded answers, limits, workspaces | run, gate, test, verdict | agent loop | `EvalRun` |
| Analysis and checkpoints (`analysis`, `runctl/terminal.go`) | one checkpoint file, one cache directory | save, continue, clear; select, chunk, summarize | terminal | `Checkpoints`, `ProjectAnalysis` |

`PROJECT.json` names the files of each part, and lists the parts that are not
modelled (section 6 says why).

### What is hard

* **Two mutexes, never held together.** A session's `running` is guarded by
  `s.mu`, its controller by another mutex, its writes by a third section; the
  end of a run passes through them one at a time (`server/session.go:354-368`).
* **Act after unlock.** `Stop` and `Controller.Cancel` call a function they read
  under a lock they no longer hold; `publish` writes a summary after the
  transition it describes; a request id is recorded before its run starts.
* **A value read, a model call, a write.** Compaction, runs, titles, builds of
  the index and model switches read state, wait, and put a result back.
* **Two ends for one prompt.** The answer, the timeout and the cancellation
  compete for a permission prompt; in the terminal a later dialog takes the
  place of an earlier one.
* **A task can end before it is announced**, or be stopped before it has its id.
* **Channels that fill up.** Events, stream chunks and mailboxes are bounded and
  each has its own rule for what happens at the bound.
* **Files read twice.** A mentioned file is read to size it and read again to
  show it; a save is held against the hash of what was read.
* **Shared files without a lock.** Checkpoint, summary cache, memory drafts and
  the index belong to all processes of the user.

`PROJECT.json` lists each of these at its line, with the properties that cover it
or the reason none does.

## 2. The modules

Each module keeps the control of its code (guards, early returns, error paths
and their order) and abstracts its data to what the properties tell apart. One
action is what one goroutine does until it meets another: a critical section, a
message handled, a JavaScript function up to its `await`. Go's `select` among
ready cases is a choice. What a model is told by a user, a language model, a
server or a disk is a choice from a small set.

### The agent's run

**`AgentLoop`** has the loop (`pc`), the watchdog of its stream, the tools of a
batch and the reader of the events. `history` is a sequence of messages, each with
its role, its calls, the call it answers, and its tokens; **`Conversation`** has
the pure functions on it: packing, compaction, `pairUnits`, batches. **`RunContract`**
is what the reader is promised; `RunKept` checks that `AgentLoop` implements it. The
event channel has a capacity, a reader may stop reading, and a cancelled run gives
an event up after its grace.

**`StreamPipe`** is the same stream looked at closely: the client's goroutine,
the metering wrapper, the watchdog and the turn are four goroutines joined by
channels of capacity `Cap`.

**`RunnerStack`** puts the run inside `hooks.Runner` over `memory.Runner`: frames,
forwarding, the callbacks for prompts, tools and stops, their aggregate.
**`MemoryStore`** has the files those runs recall and draft.

**`TurnPrep`** and **`EvidenceRanges`** turn a prompt into its input: mentions,
budgets, packing, the parts of a long file. Sizes are small numbers; an excerpt is
its head and tail with a marker between them.

### Tasks and sub-agents

**`TaskSupervisor`** has a launcher (`pcL`), a run goroutine (`pcR`) per task and a
sender (`pcM`) per message. `Launch` covers every caller of `Start` but the dream.
**`WorkerStream`** is the promise to the observer; `WorkerStreamKept` is the
refinement, with the log of observer calls as `stream` and the terminal part of
`s.tasks` as `fate`. **`SubAgent`** has the fields of the one Agent tool through which
a child gets its caller's rules, hooks and prompt. Rules, hooks and mode are the child's
from its start; its prompt is looked up in the tool on every ask (`Asked`). **`OutputFiles`** has the
files of the tasks and who reads them.

### The server

**`Session`**: `running`, `state`, `conversation` and `writes` are the fields of
`Session`; `active` is the controller's run, `grip` the cancel function a request holds,
`history` what a run was given, `snapshot` what a compaction works on, `awaits` the
title request a run waits for. `StartRun` is one step, as all of it is under `s.mu`. A
run leaves `working` by its `Terminal`, which clears the tracked writes, by a failed
preparation, or, once it is cancelled, untold (`EndUntold`): the loop gives up on a
reader who takes nothing (`sendTerminal`), or the memory runner returns before it starts
the loop; then the writes stay until the deferred `clearFileWrites`.
**`SessionRequests`** is what comes before `StartRun`: each request a sequence of steps,
with the page's composer, model menu and key dialog. **`SessionSlots`** is what is
around it, and **`EventStream`** what comes out of it.

**`PermissionBroker`** has a process per prompt, per HTTP answer and per sub-agent's
wrapper, against **`PermissionContract`**. **`PermissionResolution`** is a pure
computation: a state is one request, and an independent statement of what a mode
may do is its reference. **`RuleGlob`** runs the matcher of `match.go` step by step
beside a recursive definition of what a glob means, for the patterns of the user and for
those that an "always" answer makes of a target: trimmed, escaped, and none if it is empty.

**`FileEdits`** has the saves, the agent's tools and a shell on one path;
**`BrowserEditor`** the page's half of a save: the tab, the draft, loads, saves,
reloads, diffs and events in flight, and the tab's closing and reopening.

### The terminal, the index, MCP, evaluation, analysis

**`Terminal`** and **`TerminalPrompts`** are `Update` one message at a time, with the
commands whose messages come back in any order. A run from the queue (`BeginQueued`)
does not get the text it was queued with but the history as it is then, so `given`
records the set of prompts of each run. **`StateStore`** is the store beneath them: a
`Set` is its change, its copy to `bootstrap` and its sends, one step each.
**`Checkpoints`** has several such terminals over one file, and runs that answer, are
refused by the stop hook, or stop. **`SemanticIndex`** has the directories on disk, the
renames between them and the cache. **`McpStdio`** has the lock, the pipe and the
deadlines of one server's client; **`McpServers`** the reading of the two configuration
files and the registration of tools; **`McpAuth`** the tokens and the keyring, whose
loads and saves may fail, and a server that may give an access token alone.
**`EvalRun`** is a fixture's run and its verdict; the calls of one answer go on after
the limit has stopped the run. **`ProjectAnalysis`** has the selection, chunks,
summaries and cache of `/analyze`.

### `MCParts`

The modules that keep their state to themselves run side by side in one
model: `Init` is the disjunction over the parts, each with the others' variables
`Unused`, and a step is a step of the part that was picked. The parts share the
variables `v1` .. `v21`, so that a state is no larger than the largest part. A
property of `MCParts` is the part's own property, for the behaviours that picked
it; where several parts belong to one concern it is their conjunction.

Modules named `...Proofs` hold theorems (section 4); those named `MC...` are what TLC runs.

## 3. The runs

| Run | Configuration | Question |
|---|---|---|
| `agent_loop` | `MCAgentLoop.cfg` | two turns of tool calls with refusals, retries, compaction and mail, and a reader who may cancel and leave: the contract of the channel, and every call with its answer |
| `agent_ends` | `MCAgentEnds.cfg` | every run ends, under fairness |
| `agent_cancelled` | `MCAgentCancelled.cfg` | violated: finding 2 |
| `task_supervisor` | `MCTaskSupervisor.cfg` | two overlapping launches, one name, stops anywhere; `WorkerStreamKept` |
| `task_mail` | `MCTaskMail.cfg` | one worker, two senders that retry, a mailbox of one place, failing appends; endings under fairness |
| `permission_broker` | `MCPermissionBroker.cfg` | two prompts, two answers, timeouts, cancellations; `ContractKept` |
| `session` | `MCSession.cfg` | two messages, two history operations, a cancel, a stop |
| `session_titles` | `MCSessionTitles.cfg` | two messages, titles and dreams; progress under fairness |
| `session_dreams` | `MCSessionDreams.cfg` | violated: finding 1 |
| `parts` | `MCParts.cfg` | the parts of section 2, each keeping its word |
| `stale_edits` | `MCStaleEdits.cfg` | violated: finding 3 |
| `lost_prompt` | `MCLostPrompt.cfg` | violated: finding 4 |

`parts` has 5.7 million distinct states, the others between 200 000 and 700 000.

### What the properties of `parts` say

| Property | Part | Promise |
|---|---|---|
| `SlotsAreCounted` | `SessionSlots` | a slot is given back once, by whoever of three removed the session; the limit holds |
| `NoWriteIsLost` | `FileEdits`, `BrowserEditor` | a save or an edit replaces only what its author saw; a draft goes only when its user gives it up |
| `PromptsGetTheirRuns` | `Terminal` | every prompt taken has a run of its own that is given it; none waits for nothing |
| `DecisionIsTheUsers` | `TerminalPrompts` | an agent is told what was pressed in its own dialog |
| `NothingIsLooser` | `PermissionResolution`, `SubAgent` | no child and no save does unasked what the agent might not; a child's questions reach the user |
| `GlobsMeanWhatTheySay` | `RuleGlob` | the matcher agrees with the meaning of a glob; an always rule matches its target, trimmed, and nothing else |
| `RequestsRunAsAsked` | `SessionRequests` | a message runs again only when newer ones pushed its id out; a run's requests go where its model is |
| `EvidenceIsHonest` | `TurnPrep`, `EvidenceRanges` | evidence fits its budget; what is missing is told or counted |
| `McpKeepsItsWord` | `McpStdio`, `McpServers`, `McpAuth` | a call gets its own answer; a server runs only as the user wants; a login lasts |
| `RunnersKeepTheirWord` | `RunnerStack`, `MemoryStore` | a run ends told, its hooks are heard; memory stays in its bounds |
| `VerdictsAreTrue` | `EvalRun` | a fixture passes only on what its agent did in time and within its limits |
| `AnalysisIsHonest` | `Checkpoints`, `ProjectAnalysis` | "continue" takes up what is open, or was refused by the stop hook; a summary is of the file it names |
| `OnlyNamedLosses` | `EventStream`, `OutputFiles`, `StreamPipe`, `StateStore` | what is on its way to a reader is lost only in the named places |
| `IndexIsWhole` | `SemanticIndex` | the index is never mixed, but for a cache filled beside a writing |

Where the code does not keep the plain promise, the property names the exception,
and section 5 describes it. An exception is a condition on the history that led there (a crossing, a failed
write, a full channel), never a state of the outcome, so that an error of another
kind still violates the property.

### Bounds, and why they are enough

Every module states its bounds in its guards, under constants named `Max...`, and
nothing else cuts a behaviour off.

* **Processes.** Two of a kind are the least that can contend, and a third
  repeats the contention of a pair, where steps concern one process and one
  shared object: tasks, senders, prompts, answers, emitters, callers of a server,
  terminals, extractions, holders of a token. Sessions are three for a limit of
  one, so that a session that comes back meets one that waits and one that goes.
  Prompts in the terminal and agents in `SubAgent` are three: one running, one
  queued or called, and the one that crosses them.
* **Channels and rings** have one or two places, so that full, empty and
  wrapped around all happen within three events. The ring of recent ids has one.
* **Budgets and sizes** in `TurnPrep` and `EvidenceRanges` are single digits chosen on
  both sides of each comparison: a file of nothing, one that fits, one that fits
  only as an excerpt, one beyond the reading cap. The excerpt's marker and
  the guess of bytes per line are one and two for the same reason.
* **Faults** (failing writes, deaths, lost answers) happen once per behaviour where
  a second only undoes what the first did. `McpAuth` has two: one load that fails and is
  excused, and one fault after it.
* **Calls** of one run in `EvalRun` (`MaxAttempts`) are three for a limit of one: one within
  it, one that passes it, and one more of the same answer.
* **Patterns and targets** in `RuleGlob` are all words up to three or four characters
  over the characters that mean something, with longer ones around `**` and classes.
* **`AgentLoop`**: a turn behind the present one, two calls per reply, a budget of
  six tokens that the history passes, one place in the event channel.
* **`BrowserEditor`**: three texts (on the disk, typed, written by the agent), two
  openings of the tab, one request on its way. For two requests on their way, two events
  and more texts the property is proved (`EditorKept`), for any number of each.

**Symmetry** is used in the runs without liveness, over tasks, messages and history
operations, which the modules only compare.

**Deadlock** is not checked: when every task, request and message has been used
the program waits for input. Where a wait could be for ever, a property says so
(`EveryPromptReturns`, `EveryRunProgresses`, `EveryRunEnds`, `AnswersComeThrough`).

**Fairness.** Goroutines that can run do run: weak fairness per goroutine. The holder
of `emitMu` goes on, and `sync.Mutex`, which hands the lock to a waiter after a
millisecond, lets each emitter have it in the end: strong fairness of the emitter
steps a worker cannot end without. A worker's run ends, because turns are limited
and model calls and prompts have timeouts. A prompt's timer fires. In `AgentLoop`
the loop runs and a reader who is still there reads; nobody has to cancel. In
`Session` a run is fair only once its context is done, and nobody has to answer,
cancel, clear or stop anything.

**Each property has a mutant**: a definition beside the original, with a comment
starting with *Defect*, that is a plausible slip of the code (a dropped check, two
statements swapped, a missing reset) and that the property catches. It is not
part of `Next`.

## 4. The proofs

The runs check a small instance; the theorems hold for every value of the constants
that the named assumptions admit. Those assumptions are `ASSUME`s of the component's
module or of `MCParts`, and the runs evaluate them. None says more than the code
does: a bound is a number, a capacity is not zero, a name that stands for "none" is
not one of the real ones, the limit of one answer's calls is reached by some answer.

| Module | Proves | Of |
|---|---|---|
| `PermissionBrokerProofs` | `TypeOK`, `OneVerdictPerPrompt`, `OneAnswerAccepted`, `AgentHearsTheVerdict`, `RuleBeforeRelease`; that the broker implements `PermissionContract` | `PermissionBroker` |
| `SessionProofs` | `TypeOK`, `SessionIsExclusive`, `HistoryIsHeld`, `WritesEndWithTheRun`, `CancelHitsItsRun`, `TitleYieldsToRun`; what a step may do to the conversation (`TurnsAreKept`) | `Session` |
| `TaskSupervisorProofs` | `TypeOK`, `OutcomeIsTold`, `NamesResolve`, `MailOnceInOrder`, `AcknowledgedMailIsKept`; that the supervisor implements `WorkerStream` | `TaskSupervisor` |
| `AgentLoopProofs` | that the loop implements `RunContract` | `AgentLoop` |
| `FileEditsProofs` | `TypeOK` and the property of each: `NoWriteIsLost`, `EditorKeepsItsWord` | `FileEdits`, `BrowserEditor` |
| `EventStreamProofs` | `TypeOK`, `OnlyNamedLosses` | `EventStream` |
| `PartsProofs` | types and the property of each part | `Terminal`, `TerminalPrompts`, `McpStdio`, `SessionRequests`, `SessionSlots`, `SemanticIndex`, `EvalRun`, `McpAuth`, `PermissionResolution`, `SubAgent` |
| `MCPartsProofs` | `SlotsAreCounted`, `NoWriteIsLost`, `PromptsGetTheirRuns`, `DecisionIsTheUsers`, `NothingIsLooser`, `RequestsRunAsAsked`, `IndexIsWhole`, `VerdictsAreTrue` | `MCParts` |

Hardly any of the properties is inductive. For each component the sections below say
what has to be added and why; each proof then has a lemma per layer, with a case per
action, and the theorems are read off the invariant.

### The permission broker

An agent hears the shown verdict because the channel held what `Resolve` put there,
because `Resolve` had taken the prompt from `pending` before, and because nobody else
had. `IInv` has a layer for each link of that chain: `TypeOK` with `Aimed` (an accepted
answer is aimed at a prompt); `Owner` (a pending prompt waits; once an answer is
accepted its prompt is no longer pending and not expiring, and no other answer was
accepted); `History` (the emitted events are those of the steps taken); `Recorded` and
`ToldOK` (rule and verdict follow from owner and history). `ContractStep` shows that a
step of the broker is a step of the contract or leaves it as it is: an expiry maps to
`Hear` only because no answer owns its prompt.

### The session

`IInv == Typed /\ Exclusive /\ HistoryIsHeld /\ WritesEndWithTheRun /\ Aimed /\
Yielding`. `running` is cleared before the controller is, so neither alone says who is
inside: `Exclusive` says of every run and every history operation what both fields must
be at its point of the code. On it rest the history a run was given (`HistoryIsHeld`)
and its tracked writes, which outlive its events only if it was cancelled and ended
untold. `Aimed` ties a `CancelFunc` a request holds after the unlock to the run it read
it from. `Yielding` says that a title request under way is still wanted, or is awaited
by the one run that holds the session. `TurnsAreKept` is an action property: a
`Terminal` replaces the conversation by the run's own history and message, and a
compaction only drops a beginning of it.

### The task supervisor

`IInv == Typed /\ Streaming /\ NamesResolve /\ Mailing`. `Streaming` is the heart: `emitMu`
orders the observer's calls, but the transition an event reports happens before the
lock is asked for, under another mutex. So the invariant counts what the holder of
`emitMu` still owes (one event, or started and finished), and relates how far a task's
launcher and run goroutine are to its status, its worker's state, the store and the
log. The refinement of `WorkerStream` (`StreamKept`) maps the log of observer calls to the
stream and the ended tasks to their fates. `Mailing` says that the seen ids are the
messages the mailbox ever held; `MailOnceInOrder` states that those received are, in
order and without repetition, those journalled.

### The agent loop

`RunIsKept` shows that what the reader has read is a behaviour of `RunContract` (each start before its one result, the `Terminal`
last and once, nothing lost unless cancelled). `IInv == Shape /\ Numbered /\ Announced /\
Heard /\ Ending`: ids are never given twice (`Numbered`), so that a start and a result
still in the channel belong to one call; `Announced` counts each call's events over what
was read and what is in the channel; `Heard` is the part that holds only while nobody has
cancelled.

### File writes, and the event stream

`FileEdits` keeps an entry per path with a count of its users and a one-place channel as
the lock. The invariant is about the entries: in the channel is the token of who holds
it (`Inside`), the count is the number of its users (`Counted`), hence an entry is not
dropped while somebody waits and all use the one in the map (`OneEntry`), hence the
lock excludes and the check against the disk is still true at the write.

In `BrowserEditor` a text reaches the disk after it passed from the textarea through a
save, a card or a confirmed save, while loads, reloads, events and hashes bring other
texts into the same tab. `Told` and `Carried` follow the texts: wherever one is held, a
draft's base and what is to be saved over it are texts the user has seen or written.
`Fits` says how a tab and its editor agree, `Single` that the state of the editor counts
the saves on their way. What an answer or an event does is the same every time: it
changes the tab and publishes it. So `Published` says once what publishing does to a tab
and an editor that are `Ready`, and each action shows only that what it publishes is.

In `EventStream` an event a reader was not shown is either under way or in a named
place of loss. `Covered` says so of every id: delivered, named as missed, on the
connection (in the channel, the replay or the ring), or in the hand of an emitter that
has its id and not yet its place. `Wired` says which connection an emitter may send to.

### The parts, and `MCParts`

* **`Terminal`**: a prompt is queued only while the controller has a run, and the end of a
  run starts one for the head. What that run is given rests on where an accepted prompt is
  (`Remembered`): in the history or taken out of it, and the last of a history that ends
  with a prompt is the last that was accepted.
* **`TerminalPrompts`**: a pending prompt is carried by exactly one message, dialog or
  channel (`Carried`), and what is in the channel is what was pressed (`Delivered`).
* **`McpStdio`**: a frame with an id is read by the call that holds the lock, and ids are
  not reused, so a late frame is dropped. `OwnIds`, `Unwritten`, `Honest` and `Connecting`
  say what each end of the pipe may hold.
* **`SessionRequests`**: a request waits where its stage says (`Waiting`), starts at most
  one run (`Once`), and its route is that of the active model unless a crossing is recorded
  (`Routed`).
* **`SessionSlots`**: the slots in use are the registered sessions and those in the hand
  of a create, delete, eviction or sweep (`Counted`), each in one hand only.
* **`SemanticIndex`**: every directory is empty or whole, except the three a build
  has in hand, for which `Shelved` gives the content phase by phase; plans are true to the
  text they were made from (`TruePlans`); a retrieval beside which nothing was changed
  has read one writing (`Undisturbed`). All of it only while the process lives: after a
  death in `Replace` it is false, which is what `IndexIsWhole` says too. `LoadManifest` takes
  the greatest number of a set of manifests; that there is one is `HasGreatest`, by the
  order on the natural numbers.
* **`EvalRun`**: targets share nothing but the fixture and the command's context, so the
  invariant is one of each target, and a step of one leaves the others right (`LeftAlone`).
  A verdict is given long after what it rests on: `Tallied` bounds turns, and calls unless
  the limit was told exceeded,
  `Concluded` says how the agent ended and that scoring starts only where the recording was
  used up and answered, `Traced` that what was touched still shows in the workspace and then
  in the second snapshot. From these follows what a verdict says (`Fair`). Of the exit code's
  counts only their being zero matters.
* **`McpAuth`**: while nothing has happened that `LoginLasts` excuses, one request at most is
  about the tokens (`Single`), and after the login the server takes the refresh token of
  the store or that of the request about to save (`Lasting`). A keyring that cannot be read
  at the first look is not excused: the second look finds the refresh token.
* **`PermissionResolution`** has no constants and decides in one step: its theorem is by
  the cases of the decision, for each request of a finite table, so it says what a full
  enumeration says; it stands for `MCParts`, whose property of that name needs it.
* **`SubAgent`**: a child's mode is clamped to that of the policy which was read, and
  whose policy that was is what may go wrong. The invariant follows the one policy
  the tool holds from the main run's own `SetPrompt` to the end of its batch: it is the main
  run's or that of a run that crossed it, and if it lacks rules, hooks or a dialog, a worker
  crossed. Its prompt is not fixed at all: `ChildrenAsked` follows the field of the tool, which
  is the user's dialog from the main run's own `SetPrompt` until some other run records its
  prompt there, a running child included. Every run and every policy the tool may hold is as
  strict as the main run; that clamping is never looser is a lemma about the order of the modes.

`MCPartsProofs` lifts these to the model the run `parts` checks. It instantiates
`PartsProofs` and `FileEditsProofs` with that model's constants and its shared variables
`v1` .. `v21`, shows that `part` never changes and that a step of a behaviour that picked
a part is a step of that part, and cites the part's theorem. `NoWriteIsLost` and
`NothingIsLooser` are each about two parts, and need both. `PartsAssumption` states what
the parts take of their constants. The theorems on `EventStream`, `McpStdio` and `McpAuth`
are not lifted, because their properties of `MCParts` (`OnlyNamedLosses`,
`McpKeepsItsWord`) are about other parts as well, which are only checked.

### What stays with TLC

* **Liveness**, with everything under fairness: `EveryPromptReturns`, `EveryRunProgresses`,
  `EveryRunEnds` and the endings of tasks. `StreamPipe` asks with `ENABLED` whether a goroutine
  is stuck, so its part of `OnlyNamedLosses` is out of reach too.
* **What is computed by a fold or a recursion over data**: `ConversationIsPaired` and
  `TypeOK` of `AgentLoop`, whose history is packed, compacted and filtered by `SelectSeq` and
  `FoldLeft`; `RuleGlob` against its reference; the budgets of `TurnPrep` and
  `EvidenceRanges`; the parser in `McpServers`; the selection of `ProjectAnalysis`.
* **Parts not proved yet**: `RunnerStack`, `MemoryStore`, `Checkpoints`, `OutputFiles`,
  `StateStore` (section 7).

## 5. What was found

### Findings with a run

1. **`session_dreams`** (`DreamYieldsToRun`). The end of a run clears `running` before it
   calls `SpawnDream` (`server/session.go:354-368`), which records its id only after
   `Start` (`tasks/dream.go:49-76`). A prompt accepted in between kills no dream, and the
   old run's dream starts, or goes on, beside the new run.
   `docs/plans/AGENT-E2E-TEST-AND-BUG-REPORT-PLAN.md:682`: "the previous dream is killed
   when a new user prompt starts".
2. **`agent_cancelled`** (`CancelledRunIsAborted`). When the context is done in the middle
   of a reply the watchdog closes its channel without an event
   (`llm/watchdog.go:83-85`), and the loop takes the half for the whole: the run ends
   "completed", or executes the calls it had. `agent/events.go:127-131`: "TerminalAborted
   means the context was canceled".
3. **`stale_edits`** (`StaleMeansChanged`). The snapshot an edit is held against is the lines
   a read showed, without the last line end or the rest of the file
   (`tools/fileread/fileread.go:155-156`), or what a write replaced
   (`tools/filewrite/filewrite.go:121-122`). An edit of a file nobody changed is refused:
   "file has changed since last read" (`tools/fileedit/fileedit.go:132`), and reading it
   again does not help.
4. **`lost_prompt`** (`AcceptedPromptRuns`). A message's id is recorded before its model is
   activated and its run started (`server/handler.go:107`), and stays recorded when
   that fails. The page sends the message again under the same id
   (`server/web/js/features/composer.js:91`), is told "duplicate", and nothing runs.
   `docs/plans/WEB-UI-UX-PRODUCT-PLAN.md:430`: "duplicate-safe retry".

### Exceptions the properties name

These were met while modelling. Each is an exception in a property above, or a
consequence of a step the model has and no property forbids.

*Prompt preparation.* An empty file mentioned alone fails the turn as too large. An
explicit range that ends before its file always carries the notice that it was
truncated. A prompt that asks for a listing drops the contents of files mentioned
beside the directory and reports them attached. Snapshots for later edits are
recorded when a file is expanded, for content that packing then drops. Files of a
directory that were not selected, and the tree's cap of 200 entries, are not told.
Retrieved context comes on top of the budget, and a budget of 0 leaves the caps
as they were.

*MCP.* A server that says nothing blocks every later call and `Close`: `request` holds
the lock over a blocking read and looks at its deadline only between frames, and
a request whose deadline has passed is still written. A refresh that
returns no refresh token drops the old one, and a login may give none to begin with; a
keyring that cannot be read sends a logged-in user to the browser (`auth/oauth.go:72`); a
token revoked early is not refreshed on 401; two refreshes at once may leave the spent token in the keyring.
`docs/phases/PHASE-10-DETAILED-PLAN.md:176` and `:864` say otherwise.

*Hooks and memory.* A hook cut off by cancellation says nothing, so that the call it
would deny may run. A denied prompt has its `SessionStart` and no `SessionEnd`. The
memory runner closes without a `Terminal` when its recall is cancelled. Two drafts
of one name in one second overwrite each other; one recalled file that is gone
drops them all. A run that ends by the incomplete-answer path skips the `Stop` hook.

*Sub-agents.* The one Agent tool holds the policy of its caller between check and
call: another agent's call in between leaves the child without the
caller's rules and hooks, contrary to the comment at `tools/agenttool/agenttool.go:139`. A
child's prompt reads the tool's field on every ask (`agenttool.go:336`): after a child's own
call of the Agent tool, which is refused, the field holds the child's wrapper, which
then asks itself until its time is up, for that child and for the next one of the batch;
after a worker's it is nil, and a running child's next question is a panic on a goroutine
nobody recovers, which ends the process. The
limit on workers is read before the task is visible (`agenttool.go:157`).

*Files of tasks.* A line over 64 KB silently ends every reader. A worker that is
killed before its `Terminal` is read leaves no messages. The first task's text is not
in the conversation, so that a resumed worker is not told it; two messages to a
worker that has ended start two workers. `cmd.Wait` may close the pipes before the
pumps are done.

*Streams.* A reader whose channel is full when it is cancelled waits for ever at its
error event. An end of the stream without a done event is taken for the answer. Of
several tool-call events of one answer the last is kept. Calls that time out are not
metered.

*Checkpoints and analysis.* One checkpoint serves all interfaces and directories, and
its directory is recorded and never compared. The end of a side question rewrites it;
a prompt queued behind a run that ended becomes its last prompt; `/clear` leaves it; a
run whose whole answer is in the history is pending all the same when the stop hook refused
its end (`runctl/terminal.go:72`), and "continue" takes it up; a
failed save leaves the older one; resuming twice nests the prompt. In `/analyze`
directories and missing mentions take places of `maxFiles`, and cuts at `maxBytes`
are not told.

*Evaluation.* A fixture cancelled at its tests is an "error", where
`docs/plans/EVALUATION-FRAMEWORK-DETAILED-PLAN.md:503-505` says "canceled"; a symlink
out of the workspace makes it an "error"; with `--fail-under` an errored run exits with
1 where `:1001` says 3. A denied call counts as a required tool called. The call over the
limit cancels the run, but the rest of its answer's calls are resolved, counted and may be
made (`agent/agent.go:519-536`).

*Browser editor.* After a tab was closed and opened again, the answer to the save of its
earlier opening gives the new tab the text that was saved, and `file_saved` starts to hash it;
if a load that was answered before brings the older text meanwhile, the hash of the new text
is put beside the older text (`tabs.js:179-181`), and the next save replaces the user's own
saved text, which the editor no longer shows, without a conflict
(`NothingUnseenIsReplaced`; met while proving it). What is typed while a reload is on its way is replaced. `file_saved`,
or an answer of an earlier opening, marks a tab with a draft as clean, and closing it
does not ask. A confirmation that arrives after closing and reopening leaves a card
that cannot be answered. A card approved after a reload writes the draft the reload
discarded.

*State store.* A full channel keeps its old value, where the comment on `Store` says "the
latest value replaces earlier queued updates" (`state/store.go:9`): `Set` tries to send
twice and takes nothing out. The "snapshot" of the subscribers is the map itself, so that
subscribing during a `Set` is a race that can end the process, and a channel may be
closed under a send; a `Set` that fills the channel before `Subscribe` does leaves
`Subscribe` waiting for ever. Nothing but tests subscribes today. What does matter
today holds (`MirrorIsNew`), because `OnChange` copies only fields its own `Set` changed
and those have one writer, the terminal's `Update`.

*Rules and globs.* The target of an "always" rule is trimmed (`permissions/session_rule.go:16`),
the targets it is matched with are not (`tools/bash/bash.go:29`): allowed for good with
white space at its ends, a command is asked about again, and the trimmed one, which nobody
was asked about, is not. `session_rule.go:5-6`: "it matches exactly that tool and target,
nothing wider".

*Prompts of the terminal.* A queued prompt is put in the history before the answer it
waited for is (`tui/app.go:1618-1625`), and its text is dropped when its turn comes: the run
gets the whole history (`:2482-2530`). Of two queued prompts the first run sees both and may
answer the second, and the second run finds both answered. A listing that ends the history
is sent alone, and hides the prompts queued before it from its run and theirs. `/clear`
empties the history and leaves the queue, so that later runs start over nothing.

*Elsewhere.* The index's cache may be filled beside a
writing, and a crash between two renames leaves no index. Side questions may be
dropped; two model switches may cross.
A run that ends after its session was stopped sets `Ready` over the `Closing`
(`server/session.go:359`, `Release` after `StopClose`); the session's context is done by
then, so that a run started on it begins cancelled, and the session leaves the registry next.

## 6. Not modelled

* **Content of shell commands** (`tools/bash/classify.go`): string patterns of
  programs and flags; nothing but the class reaches other parts, and
  `PermissionResolution` takes any class.
* **Configuration loading, key bindings, themes, rendering** (`config`, the views of
  `tui`, the page's drawing): data in, text out, without a step between.
* **Directory walking and search** (`dirwalk`, `grep`, the ranking in `semantic`): what
  they return is a choice in `TurnPrep` and `SemanticIndex`.
* **Command line wiring** (`cli`), **skills, todo, self-description, metrics**: calls
  in a row, or counters nobody decides by. What `cli` does with tasks and evaluation is
  in `OutputFiles` and `EvalRun`.
* **Where credentials are kept** (`credentials`): a lookup in three places; whether there
  is a key is in `SessionRequests`.
* **Request conversion** (`llm/ollama` bodies) and **`llm/retry.go`**, which nothing calls.
* **`netguard`**: a predicate of addresses.

## 7. What comes next

1. `StoreIsFollowed` of `StateStore`.
2. `FilesTellTheirTasks` of `OutputFiles` and `AnswersComeThrough` of `StreamPipe` without its
   part on who is stuck; with 1 and the theorem on `EventStream`, `OnlyNamedLosses` of `MCParts`.
3. `StackKeepsItsOrder` of `RunnerStack` and `MemoryKeepsItsWord` of `MemoryStore`, for
   `RunnersKeepTheirWord`.
