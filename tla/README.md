# Open Agent: TLA+ models, model checking and proofs

Open Agent is an Obsidian plugin: a chat panel, an in-editor "Quick Ask", and scheduled
automations, all driven by one agent loop that calls a language model, executes the tools it
asks for under an approval policy, and writes to the vault. This directory holds the formal
models of that code. Paths below are relative to `src/src/` unless they say otherwise.

Everything runs on **one JavaScript thread**. There is no data race, and there is a great deal
of interleaving: every `await` (a request, a save of `data.json`, a vault read, an approval
card, a `docker rm`) is a point at which user callbacks, React effects, timers and other
asynchronous calls run. The models therefore have one action for each stretch of code between
two awaits, and a program counter or a per-call stage for each await.

## 1. Inventory

Three authorities own the state: the **host** (`main.ts`: settings, consent, profiles, cron,
plugin life cycle), the **domain** (`agent/*`: loop, providers, tools, stores, terminal, MCP)
and the **UI** (`ui/ChatApp.tsx`, `settingsTab.ts`, `quickask/*`). The settings object is one
mutable object that all of them read and that `saveSettings` writes to `data.json`.

| Component | State | Operations | Talks to | What is hard | What makes it correct |
|---|---|---|---|---|---|
| Agent loop (`agent/agentLoop.ts`, `resilience.ts`) | iteration, connection, retry budget, wire, batch, allowlist | run, request with retry and failover, executeTool | provider, tools, chat handlers | interrupt at any await, retry x failover x buffered fallback | gates hold, wire well formed, it ends |
| Steering (`agent/steer.ts`, `injectInbox.ts`) | pending pieces | push, drain, restore, leftover | loop, chat | when there is nothing to ride, a run that throws | no steer repeated or reordered, none lost while the run goes on or ends by itself |
| Chat runs (`ui/ChatApp.tsx`) | abortRef, loopRef, running, turns, session id | runAgent, stop, send, steer, session switch | loop, queue, goal, sessions | overlapping calls, stale snapshots | Stop reaches the live run, an old run never disturbs a new one |
| Standing goal (`agent/goals.ts`) | status, turns used, failure counters | set, pause, resume, clear, judge, continue | chat runs, judge model | a verdict that is late | bounded, silent once interrupted |
| Prompt queue (`agent/promptQueue.ts`) | slice per session, view mirror, park, mutex | enqueue, remove, promote, claim, drain, clear | settings save, chat runs | failed save, session switch, restart, two views | sent at most once, not lost |
| Composer and uploads (`ui/ChatApp.tsx`, `ui/composer/*`, `ui/attach/pdf.ts`) | input, drafts, recall cursor, edit, attachments, a shared worker | type, recall, edit an entry, attach, switch chat, extract | queue, sessions, vault | late reads after a switch, an abandoned extraction | text and files stay in their chat, one worker |
| Provider requests (`agent/providers.ts`) | stream, capability caches | chat, streamChat, lookups | loop, network | partial stream then fallback, stalls | shown is answered, it ends |
| Mixture of agents (`agent/moa.ts`, `moaLoop.ts`) | advice cache, signatures, presets | prepareIteration, fan-out, edit, pick | loop, providers, settings | stale advice, partial failure | advice of this turn, whole |
| Delegation (`agent/delegate.ts`, `runner.ts`) | worker pool, pinned stores | runBatch, runIsolated | loop, stores | abort and rebinding while workers run | bounded lanes, every task reported, stores stay |
| Vault tools (`agent/tools.ts`, `workspacePolicy.ts`, `writePreview.ts`) | notes, previews, snapshots | ask, preview, accept, write, read | vault, approval card | the note changes between any two | what was shown is written, in scope, with a snapshot |
| Web and vision tools (`agent/webExtract.ts`, `modelNetwork.ts`, ...) | page in hand, stored pages | extract, search, look | network, vault, models | deadline, Stop and write races | ends, and what it names exists |
| Memory (`agent/memory.ts`, `memoryEngine.ts`) | notes, facts, observations, models | tools, retain, reflect, recall | vault, model | read-modify-write across awaits | budgets, nothing dangerous recalled |
| Skills and hub (`agent/skills.ts`, `hub.ts`) | folder, lock, catalogue, flows | create, patch, toggle, install, update | vault, network | failure between file and lock | the right skill, an honest lock |
| Sessions (`agent/sessions.ts`, `sessionEvents.ts`, `contextManager.ts`) | wire, event log, brief, files | append, cut, compact, resume, save, prune, load | chat runs, vault | two records of one talk, late loads | results follow calls, files stay home |
| Automations (`agent/cron*.ts`, `main.ts`) | tasks, runningTasks, counts, form | tick, run, catch-up, edit | runner, settings, network | replaced settings, failed save | no overlap, due runs, fires as said |
| Host settings, consent, profiles (`main.ts`, `settings.ts`, `profiles.ts`) | live settings, data.json, ledgers, secrets, folders | load, save, import, reset, switch, grant | all | stores written in turn, crashes | consent, whole bundles, kept secrets |
| Models and routes (`agent/modelCatalog.ts`, `modelMenu.ts`, `settingsTab.ts`) | pair, catalogues, pins, fallbacks, visible set | test, refresh, pick, pin, toggle | network, settings | late catalogues, stale drafts | pairs match, switches do what they show |
| Settings pages (`settingsTab.ts`, `settings/sections/*`) | drawn rows, drafts | edit, reset, drag, delete | settings | rows of an older list | what is set is kept |
| Terminal (`agent/terminal/*`) | process registry, active foreground, security key | start, poll, log, wait, kill, stop session, reconcile, dispose | OS, Docker, settings | close/timeout/kill/remove race | no child is lost, quotas, final status |
| MCP (`agent/mcp/*`) | server registry, clients, pending requests | list, connect, call, close, dispose | child processes, HTTP | two handshakes at once, late answers | waits only on open clients, each wait ends |
| Quick Ask (`quickask/*`) | panel, anchor, turn, wire | open, ask, stop, replace | editor, providers | document edited meanwhile | never replaces text that changed |
| Others | see `PROJECT.json` "components" | | | little or no state | |

The hard behaviours, each at the line where it bites, are the `hazards` of `PROJECT.json`; the
properties below are chosen from them.

## 2. Modules

| Module | Models | Checked by | Proved in |
|---|---|---|---|
| `AgentLoop` | one run of `AgentLoop.run`, `requestWithResilience`, `executeTool`, the inbox | `MCAgentLoop` | `AgentLoopProofs` |
| `ChatRuns` | all calls of `runAgent` of one chat view, Stop, steer, goal, drain | `MCChatRuns` | `ChatRunsProofs` |
| `PromptQueue` | queue transactions of any number of views | `MCPromptQueue` | `PromptQueueProofs` |
| `QueueLedger` | abstract: what the queue promises about each prompt | refined by `PromptQueue` | `PromptQueueProofs` |
| `TerminalProcesses` | the terminal service's processes and its sweeps | `MCTerminalProcesses` | `TerminalProofs` |
| `CronScheduler` | ticks, catch-up and manual runs, each await of a run | `MCCronScheduler` | `CronProofs` |
| `HostSettings` | settings, `data.json`, ledgers, secrets, profiles, with crashes | `MCHostSettings` | `HostProofs` |
| `McpServers` | registry, clients, handshakes, requests | `MCServices` | `ServicesProofs` |
| `Delegation` | batches of child runs and the stores they share | `MCServices` | `ServicesProofs` |
| `MoaEngine` | when advice is asked, reused and dropped | `MCServices` | `ServicesProofs` |
| `QuickAsk` | panels over editors, their turns, Replace | `MCServices` | `ChatRunsProofs` |
| `Completions` | one event stream, and capability lookups | `MCServices` | `ServicesProofs` |
| `SkillsHub` | sources, installs, updates, the lock | `MCServices` | `AgentLoopProofs` |
| `PdfUpload` | extractions taking turns on a worker | `MCServices` | `ServicesProofs` |
| `WebTools` | web_extract, web_search, vision_analyze | `MCServices` | `ServicesProofs` |
| `SessionLog` | wire history, event log, compaction, resumption | `MCServices`, alone | `TerminalProofs` |
| `SessionFiles` | files of a partition and the view over them | `MCStores` | `StoresProofs` |
| `Composer` | input, drafts, recall, queue edits, attachments | `MCStores` | `ChatRunsProofs` |
| `VaultTools` | a tool call from its preview to its write | `MCStores` | `StoresProofs` |
| `EngineMemory` | facts, observations and mental models of the background job | `MCStores` | `AgentLoopProofs` |
| `MemoryNotes` | the notes tools under their budget | `MCStores` | `HostProofs` |
| `SkillFiles` | the skills folder under tools and page | `MCStores` | `StoresProofs` |
| `SettingsFields` | one field of the settings | `MCStores` | |
| `CommandList` | the list of commands | `MCStores` | `TerminalProofs` |
| `ModelRoutes` | model pairs, catalogues that arrive late, pins, fallbacks | `MCStores` | `StoresProofs` |
| `ModelMenu` | the menu of models and its dialog | `MCStores` | `HostProofs` |
| `MoaPresets` | the presets of the mixture | `MCStores` | `TerminalProofs` |
| `Places` | `Array.filter` of a list, place by place | in `MoaPresets`, `CommandList`, `SessionLog` | `TerminalProofs` |
| `CronCalendar`, `CronForm` | cron expressions; an automation and its page | `MCServices` | `CronProofs` |

The modules meet at named points instead of being one product: `ChatRuns` treats a loop as a
stage that ends (`AgentLoop`'s `Terminates`), counts queue entries (their identity is
`PromptQueue`, their text is `Composer`'s), and `PromptQueue`'s `Turn` is any start or end of a
run (`ChatRuns` says when). A call of `VaultTools`, `WebTools` or `TerminalProcesses` starts
after the approval that `AgentLoop` models. `CronScheduler` decides when an automation runs,
`CronForm` what it is. `HostSettings` says how an import replaces the settings object; the
pages keep a copy of the old one (`gen`, a generation) and show what becomes of it.

`MCServices` and `MCStores` put many small components into one run. They share no state: a
behaviour is of one component, `part`, chosen at the start, and `s1`, `s2`, ... stand for its
variables. A property of the composite is a conjunction `part = "..." => ...` of the
components' own, which carry the comments.

### AgentLoop
`pc` names the await the loop is suspended at (`Awaits`) or the synchronous stretch it is in.
`Iterate`, `StopAtTop`, `Prepared` are the top of the `while` loop; `AttemptStart`, `Token`,
`StreamReset`, `Reply`, `RequestFails`, `BackoffEnds` are `requestWithResilience`;
`CallUnknown` .. `ToolDone` are the batch loop and `executeTool`. `Steer` and `Interrupt` are the
chat's callbacks and happen only at an await. A tool call is a record of what the gates read:
tool, kind, whether it forces its prompt, accepts "always", has `prepare` and `revalidate`.
`wire` keeps of a message its role, position in its batch and whether it is text, since only
that decides where a steer rides and whether the next request is acceptable. `answers`, `ran`,
`sent`, `delivered` are history that the properties compare. The inbox of a run that threw is
dropped (`DropLoop`), as the chat forgets the loop without draining it.

### ChatRuns
Nothing in `runAgent` excludes a second call, so each call has a slot with a `stage`; the
object-identity tests of the code (`goalRef.current === g`, `turnsRef.current === ownedTurns`,
the session id at send time) are flags per slot that whatever replaces the object clears
(`Touch`, `NewConversation`). `owner`, `loop`, `running` are `abortRef`, `loopRef` and the React
state. React's batching is not modelled: `running` changes with the call that sets it. Steers and
queue entries are counts. A failure counter stops at the value that pauses the goal, beyond
which the code compares it only with `>=`.

### PromptQueue and QueueLedger
`stored` is `settings.promptQueue`, `disk` what `data.json` holds, `live` each view's mirror.
A transaction waits in `pending`, takes the mutex (`Start`), shows its effect, saves, and then
commits, restores (`SaveFails`), or, if its view has moved to another session, restores and
saves again (`Resaved`). Steps joined by microtasks are one action, and `Quiet` keeps user
actions out of them. `Restart` is a crash or an unload at any of these points. A save writes
`data.json` atomically. `QueueLedger` has one variable, the fate of each prompt, and says how it
may move; `KeepsLedger` is the refinement, under the mapping `Fate`.

### TerminalProcesses
Each command is one tool call with one child. `Revalidate` compares settings and starts the
awaits, `StartForeground`/`StartBackground` count quotas and spawn without an await, `ChildEnds`,
`BackgroundTimeout`, `ForegroundTimeout`, `Forget`, `KillRecords`/`RemoveEnds` are the parties
that race to finish a record; `Leave`, `ReconcileStops`, `Dispose` stop many. A signal reaches the
shell alone: `ShellLeaves` is its end while a process it started holds the pipes (`"held"`), until
which there is no `close`. Captured output,
paths and Docker's arguments are left out; of Docker the wait for `docker rm` is kept.
`completed` and `failed` are one status (`exited`).

### CronScheduler
A caller is a chain that runs tasks one after the other: a tick, the catch-up or a manual run.
`Start` is the synchronous head of `runCronTask`; `ScriptEnds`, `Fetched`, `ModelEnds`,
`Delivered`, `Logged` its awaits, each able to fail, `Finally` and `Saved` its end. A task object
belongs to a settings object (`tasks[g][i]`), and an import installs another, so that a run under
way writes to a task nobody reads. `stuck` marks the tasks whose last save threw.

### HostSettings
`live` is `this.settings`, `disk` is `data.json`, `queue` the saves under way in the order asked,
each with the settings of the moment it was asked for. `proc` holds the chains of operations: a
toggle, a consent with its ledger and rollback, a switch of profile, a bundle import with its
staged folder, an import, a reset, an install with a secret. `Crash` and `Load` restart the
plugin at any step. `cleared`, `lost`, `failed`, `removed` and `torn` remember what the code is known
to give up, and the properties name them instead of hiding the case. `removed` holds the ids whose
folder a deletion takes; an id leaves it when an import makes its folder anew with no deletion of
that id under way, so that imports after a deletion are judged like the first.

### Services
* `McpServers`: a client is a record with what was sent and not answered; `registry` maps a server
  to its client; `Ensure` is the code after each await of connecting. Two listings may connect
  one server, as the code lets them.
* `Delegation`: `parent` is a run with the folders it pinned, `batch` the state of each task.
* `MoaEngine`: a conversation is its last real user message and the number of messages after it,
  which is what the signatures of the code distinguish.
* `QuickAsk`: every character carries where it came from (`"in"` or `"out"` of the selection), so
  that `OutsideKept` can say what Replace wrote over; `Hop` is one position map of CodeMirror.
* `Completions`: a stream is a sequence of lines that may be cut anywhere (`half`).
* `SkillsHub`: versions of a remote skill, its files one by one on disk, and the lock entry.
* `PdfUpload`: an extraction goes on after its deadline (`answer` set, `stage` not over).
* `WebTools`: a page is its length and whether its text was stored; Stop and the deadline end the
  wait for a page, and nothing else.
* `SessionLog`: messages are role, turn and calls; `sent` is what a request carries after
  compaction; the file is written only when a run ends, as in the code.

### Stores
* `MemoryNotes`, `EngineMemory`, `SkillFiles`, `VaultTools`: a call is a small record with its
  stage and what it has read; user edits and folder switches happen at any await. `touched` of
  `VaultTools` is history: the number of the write that last changed
  what lies at a path. `TrashFolder` is `delete_note` of a folder, which takes every note in it.
  A lookup of `SkillFiles` lists the folder (`ListFiles`) and then reads one file per step (`Look`),
  and `seen` is what it has read of each; only then is a name resolved.
* `SessionFiles`: an operation keeps the partition it began with; `home` of a file is history.
* `Composer`: a text is named by the chat it was typed in, an attachment by chat and scope, so
  that `TextStaysHome` can tell them apart; one save of the queue is under way at most.
* `SettingsFields`: a table of the fields (`Pages`, `Loads`, `Defaults`) with the bounds and the
  way of each control and loader, and one machine that takes any of them through edit, reset,
  restart and import. The table is the model: a field whose page and loader disagree would show.
* `CommandList`, `ModelRoutes`, `MoaPresets`, `ModelMenu`: what a page drew is kept apart from
  what is stored; handlers change the list at once, and draw it again after the save.
* `CronCalendar` is operators only: fields as sets, `Matches`, `NextRun`, the expressions of
  presets, builder and blueprints, `Describe`. Its calendar is scaled down by constants. `CronForm`
  uses it and checks it against `Means`, the reference meaning of a description.

## 3. Runs

| Run | Shows | States |
|---|---|---|
| `agentloop_approval` | no gated call runs without a decision for it; nothing passes the gate after an interrupt; the run ends | 0.14 M |
| `agentloop_steer` | wire, steers, transcript and failover connection are right over two iterations | 1.1 M |
| `chatruns_goal` | the goal loop is bounded; an interrupted run has no later effect | 0.45 M |
| `chatruns_queue` | Stop reaches the live run; an old run never clears its replacement; queued prompts are claimed | 0.25 M |
| `promptqueue` | sent once, off the disk when sent, lost only by name; the ledger is implemented | 0.12 M |
| `terminal` | no live child without an owner; quotas; reported ends are final; children end; a call ends unless its pipes are held | 0.64 M |
| `cron` | a task never runs twice at once; no output crosses a switch of policy; what is due runs | 0.33 M |
| `host` | terminal only under a receipt; whole bundles, of re-imported ids too; no secret lost; stores on the active profile | 2.2 M |
| `services` | what each service promises, and whoever waits is released | 0.27 M |
| `stores` | what each store and page promises, what no step of it may do, and what was begun ends | 0.80 M |
| `session_folded`, `session_wire` | the findings of section 6: what the repository says and the code does not do | stops early |

**Bounds.** `agentloop_approval`: one iteration with two calls over four operations (a plain tool
with two kinds, one that forces its prompt and takes no "always", one with `prepare` and
`revalidate`), which is where a grant for one call meets another; retry, failover and mixture are
on. `agentloop_steer`: two iterations, two calls, two steers: a steer can find nothing to ride, be
put back, and ride after a later one came, and a failover in one iteration is seen by the next.
`chatruns_*`: two calls at once, since every hazard is about an old run and its replacement; goal
budget 2 and failure limits 2, so that each counter can be reset by the other kind of verdict, with
no queue in that run, and two queue entries (a drain and a user's claim can want the same one) with
no goal turns in the other. `promptqueue`: one view, two sessions, two prompts, two waiting
transactions; queue limit 1 so that a restart cuts. `terminal`: two background commands of one chat,
one foreground of another, all quotas and retention 1, so each limit is met, and one save next to
dispose. `cron`: one task, one tick and one other chain (the overlap and the stale settings object
need two), two minutes (a slot missed before the start, and one that falls due after it), one edit
or import or switch, a start under one of two like policies and a third that hides the target note,
budget 1. `host`: two operations at a time, four in all, two profiles, one crash, two receipts.
`services` and `stores`: two actors of each kind (two runs of MCP, two lookups, two flows, two
calls), one or two events from outside, limits of one or two entries so that each is met; four tasks
over three lanes in `Delegation`; three PDFs, since an abandoned extraction needs a successor and
one after it. The calendar has four minutes, two hours, four days of the week, and the days of two
short months. `VaultTools` has a note in a folder and one beside it, and the workspace excludes the
first, so that a folder can be trashed with a note in it that no call may touch. The notes have
unrelated names, so the pruning of snapshots by the end of a name is outside. Symmetry is used only in runs without liveness.

**Deadlock** is checked in the runs of the agent loop, the chat and the queue. Elsewhere a
behaviour may stop: bounded gestures are used up, every command is over, the plugin is unloaded.

**Fairness.** AgentLoop: weak fairness of the loop's own step, because every await it makes is
bounded (requests and MCP calls time out, the approval handler resolves on an answer, a timeout
or an interrupt, a sleep ends); nothing is assumed of tokens, steers or the interrupt. One tool
does not keep to that: `web_search` sets no deadline and reads no signal (`agent/tools.ts:782`),
so there the loop relies on the network of the platform to answer or fail.
ChatRuns: weak fairness of each run's steps and of each loop's end, of a claim's save and of
the zero-delay timer; strong fairness of the drain, because its effect runs after each render
and an idle period always renders, however soon another run ends it. PromptQueue and
HostSettings: none. TerminalProcesses: timers fire, `docker rm` ends or is given up after its
five seconds, and the shell of a foreground command that was sent SIGKILL dies. That its `close`
follows is not assumed: the event waits for the pipes, which a process the shell started may hold
for ever (`"held"`), and `CallsSettle` says that this is the one way a call can hang. For
background children no close is assumed at all, and the code does without it
(`agent/terminal/service.ts:598`). CronScheduler: the minute timer, and
the code after each await of a run. Services and stores: one weak fairness per component (one
per call for the vault and web tools), for what goes on by itself: timers, the answers of a model
or the vault, the code after an await. An MCP server, a Worker and a web server are assumed to
do nothing at all: their waits end by a timer. "Whoever waits is released" is checked as
`Waiting ~> ~Waiting`, with `Waits` of each module saying who waits.

`QueueDrains` exempts behaviours in which the user steers for ever: leftover steers start turns
of their own and two overlapping runs can then keep the view running. `GoalBackstop` is the
bound the code really has: a judge failure continues the goal without spending a turn, so the
bound is a product of the budget and of the failures each counted turn can hide. `DueRuns`
exempts a task whose final save threw, which the code leaves in `runningTasks` until a restart.

## 4. Proofs

`AgentLoopProofs` proves for every set of tools and operations, every bound and any length of run:

* `TypeCorrect`: `Spec => []TypeOK`. Inductive as `Typed == TypeOK /\ CallInv`, where `CallInv`
  says that during a batch `call` points into it and that past the lookup it names a registered
  operation; without it the gate would read a field of something that is not one.
* `ApprovalGate`: `Spec => []NoUnapprovedRun`. The strengthening says what each place of the loop has
  established: every entry of the allowlist was granted by an accepted "always" of the same tool
  and kind, and a call waiting in `revalidate` has already been allowed.
* `InterruptGate`: `Spec => NoRunAfterInterrupt`, from `Typed` by one case per action: the abort
  check and the start of `revalidate` or `execute` are one uninterrupted stretch.

* `CheckpointRestored` (`NoOrphanOutput`) and `FailoverHolds` (`TurnConnection`), from `RequestInv`.
  `TurnConnection` speaks of the requests only; `ConnInv` extends it to every place of the loop, or
  the second iteration would start from nothing.
* `InterruptEnds`: `Spec => InterruptEndsRun`, by one case per action.
* `EveryCallAnswered` (`WireAnswered`). It speaks of the wire as a request sees it; in the middle of
  a batch the wire is not well formed. `WireInv` says what it is then (`MidBatch`): every earlier
  batch is answered, and of the last the calls before `call`, right behind its message.
* `SteersInOrder` (`SteerFIFO`). `SteerInv` adds that nothing was handed back while the loop runs:
  what was delivered, what rides the request and what is in the inbox are the accepted steers. Of a
  run that was interrupted or threw the theorem says less: what the model was told are the first
  ones, without a gap, and the rest is lost (section 6).

The same module proves two parts that the tools of a run reach, each for any instance of it:

* `SkillsHub`: `UpToDate`, `ButtonsAreHeld`. While flows take turns the one that writes is alone
  (`WritesAlone`) and the lock table in its hands is the one on disk; what the lock calls up to
  date lies in the folder, except of a skill that is just being uninstalled.
* `EngineMemory`: `FactsWithinCap`, `MarkedWhenWritten`, `LearntIsKept`, from `EngInv`: what is on disk,
  and what the jobs have read and will write, is within the caps with ids distinct and of the past;
  a job about to mark has written its observations.

`ChatRunsProofs` proves for any number of overlapping calls of `runAgent`, any budget and any
failure limits:

* `TypeCorrect`, `StopAlwaysReaches` (`StopReaches`). Inductive as `TypeOK /\ ViewInv /\ JudgeInv`:
  `running` and `abortRef` are set and cleared together and name a run before its `finally`;
  a judge whose snapshot still holds judges an active goal with budget left, which is what keeps
  `used` within the budget although the check and the increment are separated by an await.
* `ViewKept` (`OwnershipKept`) and `InterruptSilences` (`InterruptedRunSilent`) follow step by step
  from the same invariant: only a run's own steps move its stage or end its ownership.
* `GoalBounded`: `Spec => []GoalBackstop`. `CountInv` is the accounting behind it: each turn
  counted pays for `GoalStride` continuations, and the failure counters for those since.
* Of `Composer`, for any instance: `TextsStayHome` (`TextStaysHome`), `EditedPromptStays`
  (`EditedStays`), `AttachedHome` (`AttachedWhereAsked`). `BoxInv` names every place a text can come
  back from: the turns that recall browses, the draft an edit put aside, and the list that a failed
  save restores (`BoxSave`). A conversation's family is the least set closed under `parent`; a
  branch gives the new conversation, of which nobody is a child yet, a family around its parent's.
* Of `QuickAsk`, for any instance: `OutsideIsKept`, `OnePanelAtATime`, `PanelShowsTheWire`. The
  mapped range of a panel holds no character from outside the selection, through every map of an
  edit; the stream is of the current attempt, and the wire is what was displayed before with the question that is asked.

`TerminalProofs` proves for any number of commands, sessions and settings saves, and any quotas:

* `TypeCorrect`, `NoChildLost` (`Reachable`). Inductive as `TypeOK /\ LifeInv /\ Reachable`:
  `LifeInv` ties the four flags of a command together (what was not started left no trace, an end
  reported but not finished is a kill under way), which is what prune, retention and kill rely on.
* `EndsFinal` (`ReportedFinal`), by one case per party that ends a process.
* `QuotasHold` (`QuotaHeld`), from `CountInv`: the records the service counts respect the
  quotas, and by `Reachable` the live children are among them.

And three parts that cut a list down to some of its places, each for any instance of it:

* `MoaPresets`: `PresetsRun` (`PresetsUsable`), `PresetsSavedAsEdited` (`SavedAsEdited`), from `PresetsInv`:
  a draft always has its default among its presets (`DraftSound`), and the configuration in force is
  one that the tolerant read leaves as it is (`LiveSound`). The lemmas on `Places` (`KeptPlaces`,
  `KeptWhole`) say what a filter returns: as many elements as places, each that of one place, and
  everything if it keeps everything.
* `CommandList`: `DeletedForGood` (`DeletedStaysGone`, `OneById`), `OnlyDeleteTakes` (`LeavesByDelete`),
  from `ListInv`: the ids of the list are distinct and none of them is deleted, those of `data.json` are
  distinct, and there is a largest id, which is why a new one is new. A deletion lasts over
  restarts once a save wrote it; one that no save wrote is undone by the next start, and the history
  `deleted` forgets exactly the ids that `data.json` still has. A drag, an edit or the sanitizer
  only moves commands or adds some of a new id (`Grown`).
* `SessionLog`: `AnswersFollowCalls` (`ResultsFollowCalls`), of all of `LogSpec`. The history is sound,
  and so is the event log, since either may become the history at a reload (`WireOk`, `LogOk`); both keep that when they are
  cut, as a cut leaves a beginning (`WirePrefix`, `CutLog`). A run adds nothing before it commits, so
  the invariant carries what it will add: its answers are to calls of its own turn, the calls to do
  are asked for, distinct and without a result in the log (`Progress`, `ToolsLogged`), and no answer
  in the history is of its turn (`Older`), which is why the two may be joined (`WireJoin`). `ToldOk`
  is the reload: the message that holds a call opens no later than the call (`ToldCall`), and a
  result opens a message of its own (`ToldResult`), so the filter of `Places` keeps their order.

`PromptQueueProofs` proves, for any number of sessions, prompts and waiting transactions and any
limits:

* `TypeCorrect` (`TypeOK`), for any number of views. `TypeOK` says that no queue of a view, of the
  settings or of the disk holds one prompt twice, by which `RemoveFirst` removes the prompt: the
  code filters by id, which is the same then.
* `QueuesLeaveByName` (`LeavesByName`), for any number of views, from `TxSound`: a transaction about
  a prompt found it in the queue its view showed, and the save in flight is of that slice updated.
* `SendsOnce` (`SentOnce`) and `SendsOffDisk` (`SentOffDisk`): `Spec /\ []Apart => ...`. `Apart` says
  that no two views show one session. It is a premise because the code does not ensure it: two
  views of one session can each send its head (`ui/ChatApp.tsx:1970`, section 6). The invariant
  `Once` names every place a prompt can come back from: the settings, the disk, the views, and the
  slice and the shown queue of the transaction in flight, which a failed save restores.
* `ImplementsLedger`: with one view open (`OneView`) `Spec => KeepsLedger`, initial states and every
  step. The ledger needs more than `Apart`: with two views a rolled-back prompt can stay in the
  mirror of a view that moved on, so it is neither offered nor queued. `Mirrors` says that what the
  one view shows is in the settings or in the transaction; `FateStep` is the step.

`CronProofs` proves for any tasks, policies, callers and settings objects: `TypeCorrect`,
`OneRunEach` (`GuardExact`), `NoOtherPolicysOutput` (`ChainScoped`). The three together are
inductive: the guard holds the tasks that run because a step of a run leaves it the same task
(`StepEffect`), and the scope under which an output was made is read again after each await.
Of `CronForm` and the operators of `CronCalendar`, for any calendar with days, weekdays and a day that
every month has:

* `BuilderFires` (`PickedFires`). The lemmas `DailyWords`, `WeeklyWords`, `MonthlyWords` and
  `IntervalWords` take an expression of the builder through its fields (`TokenOk`, `Fits`) to the
  minutes it matches, and through the order of `Describe`'s cases to its words, once for each shape;
  `DraftOk` says that the text in the form is the one its controls compute, after each of them.
* `NoMinuteSkipped` (`NextIsFirst`, `NothingSkipped`): `next` is what `NextRun` gives for the schedule
  there is by now, and `NextRunIs` says what that is: the first matching minute, by the least element
  of a set of numbers; or none, if no minute of a year matches.
* `ScriptOrPage` (`SaveExclusive`): the early returns of the save hold of what it writes into
  whatever task it finds.

`HostProofs` proves for any number of operations, profiles, saves and crashes `TypeCorrect`,
`TerminalUnderConsent` (`TerminalConsented`), `StoresAtRest` (`StoresFollow`), `ImportedFolders`
(`BundlesWhole`) and `SecretSurvives` (`SecretKept`). Each needs what an operation holds while it
waits: `QueueSound` (a save in the queue is of an operation in its save stage), `StageSound` (what
the record of an operation holds at each stage), `GrantSound` (a grant under way started from a
switch that was off), `SecretSound`, `FollowSound` (whoever moved the active profile will still
bind the stores, or failed) and `FolderSound` (a folder that no deletion takes is of one import until
it publishes it: `OwnedOnce`; and none is without an owner but those a crash left: `FolderHasOwner`).
Then two parts that decide over a piece of the settings or of the notes, each for any instance:

* `ModelMenu`: `SwitchTurnsOne` (`ToggleFlipsOne`), `HiddenProviderStays` (`HiddenStaysHidden`), from
  `MenuInv`: the mark that hides a provider as a whole stands alone among its keys (`MarksAlone`).
* `MemoryNotes`: `BudgetIsHeld` (`BudgetHeld`), `PromptWithinBudget` (`PromptBounded`), from `NotesInv`:
  what a call that looked will write is within the budget it was held against (`NotesHeld`).

`ServicesProofs` proves six services, each for any instance of it:

* `McpServers`: `McpTypes` (`McpTypeOK`) and `ServersServe` (`McpServed`). A failed handshake closes
  its client, which is only right because nobody else waits on it: `Linked` says so, and that a
  client that is registered or waited on was connected. `Kept` reduces each action to what its step
  does to one run, one server and one client.
* `MoaEngine`: `AdviceIsCurrent`, `AdviceIsWhole`. The engine keeps a signature and not an age, so
  that the invariant says how old the kept advice can be: the counter of `every_n` tells it.
* `Delegation`: `PoolIsKept`, `StoresStayPinned`. The lanes together have taken the tasks before
  `next`, each one once, and as long as a task is left there is a lane to take it.
* `WebTools`: `NamedNotesAreThere`, `StopEndsEveryWait`. What an answer names was stored by its own
  call; the page in hand carries its note, and the first URL without an entry is the one asked for.
* `PdfUpload`: `NeverTwoWorkers`, `AbandonedHoldNone` (of `PdfInit /\ [][PdfNext]_pdfVars`, without
  the fairness, which safety does not need). Extractions take turns, and the worker that lives is
  the shared one, started by the extraction whose turn it is; an earlier one that was given up holds
  another, which is dead.
* `Completions`: `AnswerIsShown`. While it streams, what was shown is what was put together; a
  buffered request is only made where nothing was shown.

`StoresProofs` proves four stores in the same way:

* `SessionFiles`: `FilesTypes`, `FilesStayHome` (`StaysHome`), `ViewIsHere` (`ShownIsHere`),
  `StoreWithinLimit` (`StoreBounded`), `LastAskedOpens` (`OpensLastAsked`). The limit is the hard one.
  A listing finds the files to drop and a later step drops them, while other saves of the partition
  write and list; `Bounded` says which job under way will see to a partition over its limit. That a
  listing leaves `Limit` files needs that no two files have one time (`StampsSound`, over disk, jobs
  and the run); `OverflowLeavesLimit` then counts: the number of newer files differs from file to
  file and is below `Limit`.
* `VaultTools`: `AcceptIsAsShown`, `TextsAreKept`, `CallsKeepScope`, `PagesAreWhole`. The code guards a
  preview by the time stamp of the note, and a note that is renamed away and back has its old stamp;
  `touched` counts the writes themselves, and `TimeTells` says when the stamp is as good. For the
  texts: the snapshot that a call took is in the store, guarded against the prunings of others, as
  the newest of its note. `CallsKeepScope` and `TextsAreKept` hold of every call but `delete_note`
  of a folder, which the action `TrashFolder` is and the formulas name (section 6).
* `SkillFiles`: `SkillTypes`, `TheSkillMeant`, `OnePieceWritten`, from `CallSound`: what a call has
  found out by its stage. `TheSkillMeant` is about the skills as the lookup read them, one file
  after the other: by the time of the write the folder may hold another skill (section 6).
* `ModelRoutes`: `PinsMatch` and `ModelNotStolen`. A late answer is applied provider by provider, in a
  recursive function of the model. `HealedByOwn` gives its closed form (the pick changes at the
  active provider and nowhere else) with an explicit witness for the function and the smallest
  counterexample instead of an induction.

Assumptions, each evaluated by TLC in every run of its module: `OpsAssumption` (an operation has
the fields the code reads, and `force` and `revalidate` come from `prepare`) and
`BoundsAssumption` of `AgentLoop` (the bounds are numbers); `BoundsAssumption` of `ChatRuns` (bounds
are numbers, at least one failure is tolerated) and of `PromptQueue` (limits are numbers, "no
entry" and "no transaction" are neither); `TerminalAssumption` (finitely many commands, each of
one chat; limits are numbers; the values that mean "none" are not settings); `CronAssumption`;
`HostAssumption`. The services and the stores are instances of a composite run, so that what their
theorems ask of the constants is a premise there: `McpBounds`, `MoaBounds`, `DelegBounds`, `WebBounds`,
`PdfBounds` in `ServicesProofs`; `FilesBounds`, `VaultBounds`, `SkillBounds`, `RoutesBounds` in
`StoresProofs`; `HubBounds`, `EngBounds` in `AgentLoopProofs`; `BoxBounds`, `QuickBounds` in
`ChatRunsProofs`; `MenuBounds`, `NotesBounds` in `HostProofs`; `PresetBounds`, `ListBounds`, `LogBounds`
in `TerminalProofs`; `FormBounds` in `CronProofs`. They say that sets are finite where the code
counts them, that limits are numbers and that `None` is none of the values it stands apart from; the
constants of `MCServices` and `MCStores` satisfy them.

Every strengthening was model-checked as an invariant before it was proved.

Only model-checked: all liveness (`Terminates`, `QueueDrains`, `ChildrenEnd`, `CallsSettle`,
`DueRuns`, `ServicesSettle`, `StoresSettle`), which with fairness and ENABLED is outside what the
installed provers do; the two properties of `SessionLog` that its own runs find violated; and of the
composites `StoresHold` and `StoresStep` the part of `SettingsFields` (a table of fields, each of
which TLC tries with all its values) and of `ModelMenu` where the keyboard stands (`CurrentShown`).
Of `ServicesHold` every part is proved, each for any instance of its module, while the run checks
them all on the instances of `MCServices`.
Sums, filters and searches over sequences are defined by recursion in the code's libraries, and the
induction that they need takes an operator as a
parameter, which the provers cannot instantiate. Where such a function has a closed form that can
be stated (`ModelRoutes`), the way of `HealedByOwn` leads around it; where a filter or a sum can be
written by places instead of by recursion (`Places`, `Usage` of `MemoryNotes`, the messages of a log in
`SessionLog`), the lemmas on finite sets do.

## 5. Mutants

Every property of a passing run has a mutant: a definition with a plausible bug (a dropped guard, a missing
reset, a wrong owner test), written next to the definition it replaces and marked `Mutant:`.
With it in place the property is violated under the same configuration. The properties of the
two composite runs are conjunctions; each has one mutant, of one component.

## 6. Findings

Each is a run that ends in a counterexample; `PROJECT.json` quotes both sides.

* `session_folded`: the second compaction of a chat counts the messages of the brief it has into
  what it may fold, so a message can be neither in the brief nor in what is sent
  (`ui/ChatApp.tsx:1775`).
* `session_wire`: a log with two calls in one batch rebuilds more messages than the stored wire
  has, and resuming then replaces a wire that was complete (`agent/sessionEvents.ts:239`).

Further disagreements met while modelling. The models contain these behaviours (unless it says
otherwise), and the properties name them as exceptions or are stated so as to hold beside them.

* Chat. The turn budget is called the absolute backstop of a goal, but judge failures continue
  it without spending a turn (`ui/ChatApp.tsx:3229`, `agent/goals.ts:15`). A steer accepted between
  the loop's end and the run's `finally` goes to an inbox nobody reads again (3313). A run that
  throws for good loses the steers it had accepted and not yet told the model: the chat forgets the
  loop and drains its inbox only on the path of success (3022-3060); `SteerFIFO` covers such a run
  only up to what the model was told. Two turns can
  be under way at once, because the preflight of `runAgent` sets nothing a second caller looks at
  (3883). Two views of one session each mirror its queue and can each send its head (1970);
  clearing a deleted session's queue does not notice that the view moved on (2026).
* Terminal. The settings are compared before two more awaits; a change reconciled meanwhile
  finds nothing to stop, and the command starts under the old identity
  (`agent/terminal/service.ts:279`). A foreground command that was killed, at its timeout or by Stop,
  settles by `close` alone, and the kill reaches only the shell: a process the shell left behind with
  its pipes open keeps the call waiting and its slot taken (492, 506). Background records do not
  wait for it (598). The service marks itself disposed only after its last kill.
* Automations. A save that throws in the `finally` leaves the task in `runningTasks`
  (`main.ts:1344`); a failure after the run was counted counts it twice, and the budget is not
  compared on that path (1333); the catch-up runs tasks that were switched off meanwhile. A form
  whose task was removed saves to an object nobody runs (`settingsTab.ts:3278`).
* Host. Edits made while a bundle import is being saved are lost (`main.ts:929`), although the
  code means to cancel the import then (`ImportCancelled` of `HostSettings`, which TLC refutes,
  like `SecretsLeave`); a failed save of a switch leaves the stores on the old profile (1161). A
  deletion with its folders takes the folder by the id after its save, also when a bundle imported
  under that id has made it meanwhile (`agent/profiles.ts:263`).
* Vault. `delete_note` takes whatever the path names (`agent/tools.ts:479`): of a folder, every note in
  it goes to the trash, those the workspace excludes too, and no snapshot is taken (300), although
  `SECURITY.md` promises one "before the agent modifies or trashes a note". `WithinScope` and
  `NothingLost` say which exception that is.
* MCP. Of two clients that connected one server at once, one is never closed (`runtime.ts:93`),
  and a handshake that ends after `dispose` registers a live server (110).
* Memory. Two retains, two notes or two skill edits at once lose one of the changes
  (`memoryEngine.ts:834`, `memory.ts:278`, `skills.ts:211`): `JustLearntKept`, `BudgetHeld` and
  `OnlyItsPart` say what holds all the same. A skill is looked up by one vault read per file
  (`skills.ts:76`), so a file written after its read can make the skill that is changed another than
  the name means by then; `MeantOne` is about what the lookup read.
* Hub. A skill with a file over the size limit is never up to date, so "Update all" installs it
  again each time (`hub.ts:391`); an update of a disabled skill enables it.
* Sessions. A conversation deleted while its run goes on is written again when the run ends
  (`ui/ChatApp.tsx:2039`); a title that arrives late replaces a rename (1807).
* Composer. Editing a queued prompt and switching the chat loses the draft that was put aside
  (`ui/ChatApp.tsx:555`), and pressing the pencil twice does (3934). Attachments and an armed skill
  follow into a chat that is loaded (2150). Undo stacks survive a branch (2249; not modelled).
* Web. One URL that fails discards the pages of the others (`agent/tools.ts:700`); the offset named
  in the footer of a cut page lies past the gap when a single line is longer than the budget
  (`agent/webExtract.ts:107`; not modelled); a search has no deadline.
* Pages. A prompt command dropped below its old place lands one row off
  (`settings/sections/command.ts:182`); a deleted command whose save failed is back after the next start,
  if no later save wrote the list. A menu pick can leave the provider of the chat unchanged
  (`agent/modelMenu.ts:136`), and "the active model is always included" (239) holds neither of a
  superseded snapshot nor of the fast variant of a model without a row (`CurrentShown`).

## 7. Not modelled

Text, rendering, wire formats, prompts, token counts, file formats and every pure I/O component
(`components` lists them with reasons): the todo list, notifications and sound, prompt
construction and redaction, the download of an MCP server, the undo stack of the composer, views
and markdown. Of modelled components: Docker containers that outlive their client; the output of
commands and scripts; address rules of the web tools; `/goal resume`, which keeps its failure
counters; the composition of queue, composer and runs for one prompt's whole life, which the
three modules share out between them (`SentOnce`, `TextStaysHome`, `QueueDrains`).

Where a module is coarser than the code:

* `SkillsHub`: a skill keeps its set of files, and its versions only grow. `checkUpdates`
  (`agent/hub.ts:436`) compares the files it knows, so it does not see one that the source removed, and
  a revert of the source brings an old blob back; `UpToDate` says nothing of either.
* `SessionFiles`: `Branched` joins the two awaits of `branchConversation` (`ui/ChatApp.tsx:2207`). A branch
  file that was written and not opened, because the view moved in between, is missing; no property
  asks whether a file is open.
* `TurnConnection` exempts an iteration that uses the mixture of agents, whose requests are put
  together again after a failover; no property covers that (see `hazards`).
* Signals, processes and pipes of the terminal are those of one shell and at most one process that
  survives it.

## 8. Plan

1. A run that follows one prompt from the composer through the queue to its run.
2. The undo stack of the composer next to the switches of chat, and the sound of a completion.
3. Proofs: `CurrentShown` of `ModelMenu`, which needs the families of a catalogue as sets of places.
4. `SkillsHub` with file sets that change, and the mixture of agents after a failover.
