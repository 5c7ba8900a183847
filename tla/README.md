# Alice AI: a TLA+ verification project

Alice AI is a desktop application that runs a language model on the user's own
machine: a shell starts a Python backend, the backend downloads and verifies a
model, loads it, and serves chat completions to a browser user interface. The
backend is a fork of a larger chat server, whose full chat page and agent come
with it; the page that the application ships (the lean page) is Alice's own. This
directory holds TLA+ specifications of the parts whose correctness depends on
interleavings, crashes and shared state, the TLC runs that check them on small
instances, and TLAPS proofs of the results that hold for every instance.

Paths below are relative to `src/`; `downloader.py`, `manager.py` are in
`backend/alice_ai/model_manager/`, `alice_provider.py`, `alice_routes.py` in
`backend/odysseus/`, `static/` is `backend/odysseus/static/`.

## Inventory

| Component | State | Operations | Talks to | Hard behaviour | What makes it correct |
|---|---|---|---|---|---|
| Snapshot downloader (`downloader.py`) | two directories on disk per snapshot: the final one and `.partial`; a `.verified` sentinel | `download`: cache hit, adopt in place, fetch with retries, verify, re-fetch once, publish | called by loads (under the manager's lock) and by `/alice/ensure` workers (under none); readers: `is_cached`, the runtime | crash between any two file operations; two threads in one staging directory; resumed files of unknown content; removal that stops half way | only verified bytes are ever published; publication is one step; every call ends |
| Model manager (`manager.py`) | the active backend, tier and context; `_lock`; the choice file | `load`, `switch`, `set_context_length`, `ensure_ready`, `current` | downloader, provider, choice file | unlocked readers and writers, failing loads, a choice file that is truncated before it is written | what it reports is what is resident; one resident model; the user's choices survive |
| Chat provider (`alice_provider.py`) | the cached engine, `_engine_error`, `_engine_lock` | `get_engine`, `_build_engine`, `_reconcile_with_manager`, stream and non-stream completions | manager (reads its fields without its lock), runtime | two locks, decisions taken before a lock, references that keep weights alive | serves the model the user chose; never goes back to a model that was left; every chat ends |
| Routes (`alice_routes.py`) | none of their own | `/alice/ensure`, `/alice/load`, `/alice/context`, read-only routes | manager | one thread per request | covered by the components they call |
| Lazy backend (`vendor/alice_acp/local_inference/backend.py`) | `_model` | `_ensure_loaded`, `run_with_prompt` | manager, provider | reloads weights that were dropped | one backend, one copy of the weights |
| Agent runs (`odysseus/src/agent_runs.py`, parts of `routes/chat_routes.py`) | one run per session: buffer, subscribers, status, task, eviction timer | `start`, `subscribe`, `stop`, `_drain`, eviction | chat routes, background monitor | cancellation at any await, replacement of a running run, a timer racing a reconnect | every subscriber sees the whole buffer; saves are sequential; finished runs are freed |
| Shell supervisor (`shell/alice_shell/__main__.py`, `supervisor.py`, `health.py`, `port.py`, the window of `window.py`) | the child process, the flags `_stopped` and `_want_quit`, the restart budget | boot with retries, watchdog, restart, shutdown from two threads | backend process, window, operating system | shutdown racing a restart; a quit signal at any time; children that die again and again | no child is left behind by a shutdown; restarts are bounded; a signal ends the shell |
| Failure overlay (`static/alice/alice-failure.js`) | the overlay, whether the backend was up | a poll of `/healthz` every 2.5 s | backend, through the shell's window | answers out of order | goes when the backend is back |
| Lean page (`static/lean/alice-lean.js`) | the transcript, the turn in flight, the store of the browser | send, stop, new chat, reload, language; both kinds of stream | provider, agent stream | animation frames after the end of a stream; a reload at any time; a stop that takes effect later | one turn at a time; what is finished stays; a reload loses no question |
| Chat page: streams and navigation (`static/js/chat.js`, `sessions.js`) | the current session, one set of variables for all turns, an entry per background turn | send, stop, continue, recover, detach, come back; load a session | chat routes, agent runs | turns and loads that overlap; shared variables that a late callback reads | a stale history is never drawn; a background answer is shown; recoveries are bounded |
| Background jobs (`odysseus/src/bg_jobs.py`, `bg_monitor.py`) | a job table on disk, a process and an exit file per job | launch, refresh, follow-up, mark, prune | agent runs, sessions, detached processes | a crash between any two writes; half-written exit files; a session that becomes busy or is deleted | every job is followed up, at least once, and success is not made up |
| Document editor (`static/js/document.js`) | open documents, one debounced save | edit, save, versions | backend | a timer that saves whatever is active | - |
| Tier gate (`manager.py`, `catalog.py`, `context.py`, `hardware_select.py`) | the snapshots resolved by this process, the lengths in the choice file | `gate`, `recommend`, `clamp_context_length`, the planner, `set_context_length` | manager, routes, provider | boundaries; an estimate that changes between the gate and the load; two checks that disagree | what is loaded fits and is served within its limits; the gate is monotone; a recommendation can be loaded |
| Agent mode (`core/alice_security.py`, `alice_agent.py`) | a mode flag | which tools may run | chat routes | the flag changes during a request | a tool outside the allowed set never runs |
| Earn bridge (`alice_ai/earn/`) | none to speak of | detect and open an external miner | user interface | none | - |
| Session store (`odysseus/core/session_manager.py`) | the sessions' messages in a database | load, append, update | chat routes, background monitor | writers of one session that overlap | no message is lost |
| Forked server features, vendored library | many, off in the shell | - | - | - | - |

PROJECT.json lists every component with its status, and under `hazards` the
places where a test would hardly reach what can go wrong.

## Modules

`SnapshotDownload` models the downloader. `target` and `partial` are the two
directories; a file is `absent`, `good` (the expected bytes) or `bad` (anything
else, an empty file included), which is all a SHA-256 comparison can tell; without
checksums only the presence of the primary file is asked, and an empty one is
refused. Each thread has a phase (`pc`)
and the locals of the call it is in: the checksums it could look up (`want`), the
entries its loop has left (`todo`), the file it re-fetches (`cur`) and the number
of the attempt. Every file operation is one action, so threads and crashes may
interleave anywhere between two of them: each file that lands, each checksum,
the sentinel, each entry that `rmtree` removes, the rename.

| Actions | Code |
|---|---|
| `StartLoad`, `StartEnsure`, `Finish`, `Leave` | `ModelManager.load` with its lock, the worker of `/alice/ensure` without one |
| `CacheHit`, `Expect`, `AdoptFile`, `Adopt` | `download` up to the adopt-in-place return |
| `Prepare`, `FetchFile`, `FetchError`, `FetchDone` | `.partial`, the disk preflight, `_fetch` and its retries |
| `VerifyFile`, `Unlink`, `RefetchOne`, `Recheck`, `Verified` | `_verify_all`, `_refetch_one` |
| `Mark`, `Clear`, `RmtreeEntry`, `RmtreeEnd`, `Replace` | the publication |
| `Crash` | the process dies, the disk stays |

`PublishedStore` is the abstract specification: a shelf on which nothing stands,
or a snapshot whose bytes match a listing; it is filled in one step and never
changes again. `SnapshotDownload` implements it (`StoreSpec`) with the mapping
"the files of `target` if it has a sentinel, else nothing".

`ModelEngine` models the manager, the choice file and the provider. Backends are
numbered in the order they are made; `backend[b]` holds its weights (`seeded` by
the load that made it, `reloaded` lazily, or `none`) and the tier and context it
was made for. The unlocked sequences of the code are sequences of actions: the
three assignments that publish a backend (`Publish`, `Name`), the four steps on
the choice file (`Recall`, `Truncate`, `Write`; `Tune` for the request that takes
no lock), the two reads of the reconciliation (`SeeSwitch`, `Peek`, `Label`), and
the reading of the tier before the lock (`StartBuild`, `BuildLoad`). A non-stream
completion may load its backend's weights twice: before it decodes, and again to count
the tokens (`CountUsage`), when they were dropped meanwhile; `using` are the weights that
the decoding itself refers to. What is in
memory is not a variable: Python keeps weights as long as something refers to
them, so `Resident` is computed from the references of the manager, the cached
engine and the running calls.

`ModelSlot` is what manager and provider promise together: one slot that is emptied
before it is filled, filled with something newer each time, and chats served by what
was in it and never by something older. `ModelEngine` implements it (`SlotSpec`): the
slot holds the active backend, its content is the tier and the context it was made
for, and the cached engine serves.

`ModelEngine` and `SnapshotDownload` share the manager's lock but not their state: `ModelEngine` sees
a download as the choice, in phase `ensure`, between success (`Unload`) and
failure (`LoadRaises`), which is what `SnapshotDownload` shows of it (every call
ends, and one that succeeds left a published snapshot).

`AgentRuns` models the detached runs of one session. Everything runs on one asyncio
event loop, so a stretch from one `await` (or one `yield` to the server) to the
next is one action, and what may happen in between is what the loop may run there.
Runs are numbered in the order in which they are sent; events are numbered as in
the replay buffer, which is then just its length. A cancellation is a flag
(`cancelled`) that the task finds when it runs next. A run that is cancelled in its
`Wait` for the run before it leaves `_drain` outside of the `try` statement: its `status`
stays "running" and nobody is woken.

| State | Code |
|---|---|
| `current` | `_RUNS[session_id]` |
| `status`, `buffer`, `subscribers`, `evicting` | the fields of `_Run`; `evicting`: `evict_task` sleeps |
| `phase`, `prev`, `run` | where a drain task stands, `prev_task`, and the `_Run` its first step looked up |
| `saved` | the run whose answer is the last one in the session's history |
| `cpc`, `from`, `queue`, `next` | a request's generator: where it stands, its run, its queue, `next_seq` |
| `view` | history: the events the client has received |

| Actions | Code |
|---|---|
| `Send`, `Resume`, `Stop` | `start` and the routes `/api/chat_stream`, `/api/chat/resume`, `/api/chat/stop` |
| `Begin`, `Wait`, `Publish`, `Complete`, `Interrupt`, `Fail` | `_drain`: first step, the wait for the run it replaces, one event, the three ways out of the `try` statement |
| `Save`, `Unwound` | the generator saves the whole answer, or what it has when it is cancelled |
| `Evict` | `_schedule_evict`: the grace period is over |
| `Subscribe`, `Replay`, `Receive`, `ReceiveEnd`, `Disconnect` | `subscribe`: registration, one event from the buffer, one from the queue, the sentinel, a closed connection |

`ReplayLog` is what a client is promised: a log per run that grows and is closed
once, and readers that get it from the first event on, each event once and in
order, and reach the end only when nothing is left. `AgentRuns` implements it
(`LogSpec`): a client in `replay` or `live` is reading, one that was served to the
end is complete, any other is away.

`LeanChat` models the chat of the shipped page. A handler, a chunk of a stream with
the promise callbacks it settles, and an animation frame each run to their end in
the page's one thread, so each is one action. A text is the number of chunks in it.

| State | Code |
|---|---|
| `messages`, `reply`, `stored` | `state.messages`, the assistant objects in it (content and steps), `localStorage` |
| `unsaved` | history: the last `persist` failed, which the code passes over |
| `streaming`, `abort` | `state.streaming`; the turn whose controller `state.abort` is |
| `received`, `typing`, `tool`, `frame` | `acc` or `liveRaw`, `curTextStep`, `curToolStep`, `pending` of each turn's closure |
| `aborted` | the signal has fired and the read has not yet been rejected |

| Actions | Code |
|---|---|
| `Send`, `Stop`, `NewChat`, `Reload` | `onSend` with `sendChatTurn` or `sendAgentTurn`, `stopStream`, `newChat`, `boot` with `restore` |
| `ChatDelta`, `AgentDelta`, `AssistantText`, `ToolStart`, `ToolOutput`, `AgentStep` | the handlers of the two streams; the server may send the events of an agent turn in any order |
| `Frame`, `Resolve`, `Reject` | `flush` and `flushText`; the two ends of a stream, with `finishStream` |

`ChatStreams` models the turns of the full chat page and the navigation between
its sessions. An action is the code from one event to the next `await`; an abort
rejects in a microtask, so the `catch` and `finally` blocks of an aborted turn come
before any other event (`Settled`). The variables that all turns share
(`isStreaming`, `currentAbort`, `currentHolder`, the recovery budget) are single
variables here too; only a turn's session is its own. `background` holds the
status of each session's entry in `_backgroundStreams`, `polls` the intervals that
watch it, `loads` the calls of `selectSession` under way, each with its token and
whether it selected the session that was on the screen already (`wouldWipe`: such a call
keeps the bubbles when the history is empty, and returns). Three variables are history:
`kept` (the last load returned in that way), `recovered` and `robbed` (the recoveries
since the user last sent a message, and whether one of them lost its flag to another press).

| Actions | Code |
|---|---|
| `Press`, `Continue`, `Prepared`, `Respond`, `Chunk`, `Done`, `Close` | `handleChatSubmit`: stop or send, uploads, the request, the reader loop, the end |
| `Rejects`, `Drop`, `Timeout`, `Offline`, `TabRecovery`, `RecoveryTimer` | its `catch` and `finally` blocks and what leads there; `_tryAutoRecover` |
| `SelectSession`, `HistoryArrives`, `LoadFails`, `Draw`, `NewChat`, `Poll` | `selectSession` with `detachCurrentStream` and `checkBackgroundStream`, `createDirectChat` |

`ShellSupervisor` models the shell: its main thread (boot, window or loop, shutdown,
exit), the watchdog, and the thread in which the window calls `_shutdown`, with the
test and the setting of `_stopped` as two steps. `child` is the backend process
(none, starting, healthy, dead); it may die or become healthy at any time. A stop waits
for the process it has signalled and kills only that one: `held` has the threads whose
process is still the present child. A signal before `Install` has put the handlers in
place kills the shell by its default action (`EarlySignal`). `calm`
says that more than two minutes have passed since the last restart.
`ReconnectOverlay` is the heartbeat of `alice-failure.js`: requests in flight whose
answers come in any order. `DesktopShell` composes the two: the page lives while
the window is open and its `/healthz` is the shell's child. The lean page does
not load `alice-failure.js`; the comments of `__main__.py` rely on it.

`BackgroundJobs` models the job store, the detached process and the exit file of
each job, the monitor's rounds and the crashes of the server. The event loop is
held by everything in `bg_jobs.py`, so `refresh` is one action; it is given up while
the agent answers. Between `Popen` and the save of the record (`Launch`, `Record`),
and between the answer and its mark (`Answer`, `Mark`), a crash or a failed write
may come. The shell creates the exit file before `echo` writes to it
(`CommandEnds`, `ExitIsWritten`). An agent's run whose model fails does not raise:
it ends with an error event, which `_drain_agent` passes over, so an empty message is
added and the job is marked; a message that the database refuses is logged and the job
marked, too (`AnswerIsVoid`). What does raise leaves the job pending (`Fails`). `told` has
the jobs of which a message says what the agent answered. `AtLeastOnce` is what the
code keeps of its docstrings: a job on record ends, the agent is run with its result at
least once, then the job is closed. `BackgroundJobs` implements it (`DeliverySpec`).

`TierGate` models the decisions: which tier may be loaded on this device and with how
much context. The arithmetic is translated operator by operator (`clamp_context_length`,
`context_supported_max`, `KvExtra`, `Band`, `gate`, `FirstOfLadder`, `recommend`), with
the catalogue's tables and the device as constants. Around it stand the requests that
load, because the decisions are taken at different times with different data: the
route gates the context of the request, the load gates the stored one, the download
brings the configuration that changes the estimate and the clamp, the planner has a
floor of its own. `call[r]` is the request and its place in `load`.

| Actions | Code |
|---|---|
| `RouteLoad`, `Blocked`, `NeedsConfirm`, `Answered` | `/alice/load` up to the executor |
| `ChatLoad` | `_build_engine` of the provider |
| `Admit`, `Refuse` | `load`: the context, the gate |
| `NotReady`, `Prepare` | `ensure_ready` fails or succeeds; the second clamp, the old model goes |
| `Finish`, `LoadRaises` | the new model is published and the choice saved, or the library raises |
| `set_context_length`, `StoreContext` | `/alice/context`, which takes no lock |
| `Ensure`, `Restart` | `/alice/ensure`; a new process, which has resolved nothing |

`MCSnapshotDownload`, `MCModelEngine`, `MCChatStreams` and `MCTierGate` hold the instances
of these modules for TLC (the others need none); the theorems of a module `M` are in
`M_proofs`, those of the shell in `DesktopShell_proofs`.

## Runs

| Run | Instance | Shows |
|---|---|---|
| `snapshot_serial` | two loads, three files (two with checksums), three attempts, crashes | `PublishedIsVerified`, `ReadyIsPublished`; `FetchedIsWhole`; the abstract store is implemented |
| `snapshot_threads` | a load and an `/alice/ensure` worker, two files, a listing that may be empty, two attempts, crashes | good bytes in the final place are never overwritten there; every call ends; each step brings its call closer to the end (`StepsCount`) |
| `snapshot_race` | the same threads | violation of `PublishedIsVerified` |
| `engine_chats` | two tiers and two contexts: a load of the big tier with the short context, two chats that build the small one, a context request, two backends, crashes | `SettledIsOneModel`; `ManagerAgrees`, between loads, failed ones included; `EngineNeverGoesBack`; no circle of locks (`LocksAreServed`); the abstract slot is implemented; every load and every chat ends |
| `engine_resident` | the same, with one chat and no context request | violation of `OneResident`, which comments in the code promise |
| `agent_replay` | two clients, two messages, one event per generator | `EvictionPending`; the replayable log is implemented; `NoLostWakeup`; `SavesFollow`; subscribers of a run that ended, and runs that are stopped or replaced, come to an end |
| `agent_order` | one client, three messages | violation of `SavesInOrder`, which comments in `agent_runs.py` promise |
| `lean_page` | two turns of either kind, one chunk, two steps, failing stores, reloads | `OneTurnAtATime`; `ReloadKeeps`: what a reload brings back, with content and steps; `AnswersAreFinal` for turns of both kinds; a stopped turn ends |
| `chat_streams` | two sessions, two turns, two moves, one recovery | `RecoveriesAreCapped`; `EntryIsWatched`; `DrawnIsCurrent` |
| `shell_watch` | one restart, one more boot, two polls in flight, with and without a window, signals from the start on | `CleanExit`; `RestartsCease`; `GivesUp`; `QuitClosesWindow`; `OverlayClears` |
| `background_jobs` | two jobs of one session, two turns, two faults | `DoneMeansDone`; `RepeatsArePaid`; at-least-once delivery is implemented; `EveryJobIsFollowedUp` |
| `gate_loads` | an Apple laptop with 16 GB, two general tiers and one without a build for it, one request at a time, a context below and one above the control | `ResidentFits`, by the estimate that judged the load; `ContextsAreServable`; `RecommendedIsAdmitted`; `OldModelStays` |

The violation runs are disagreements between the code and its own comments; each
is a finding in PROJECT.json with the lines it quotes:

- an `/alice/ensure` worker and a load share `.partial` without a lock, so bytes
  that changed after their check are published (`snapshot_race`);
- the provider's cached engine keeps the old weights in memory while the manager,
  which "unloads the previous resident model", loads the new ones
  (`engine_resident`);
- of three messages in a row, the third waits for the second run, which leaves at
  once, and not for the first, which may save its partial answer last
  (`agent_order`).

`TierGate` is a translation of decisions about which documents and comments say
something else. No run asks about these; they were met while it was written:

- below every tier's comfort the gate warns and the user may confirm, but the planner
  inside `ensure_ready` (`hardware_select.py:178`) then refuses, so the small-device path
  of `manager.py:222-223` and 393 and of `docs/design/03-model-manager.md:323` cannot
  be taken. The theorem `SmallDevicesStayEmpty` states it for every such device;
- the planner refuses Pro on an Apple machine too, whose gate judges it by its GGUF
  build (`manager.py:142-144`);
- a refusal may suggest a larger tier than the one refused (`manager.py:284`, against
  91), because floors do not grow with the tiers;
- a request without a context is gated at none and loaded at the stored or default
  one, even where the gate would ask for a confirmation (`alice_routes.py:285-287`);
- a context that the user sets while a load is under way is overwritten when the load
  ends (`manager.py:459`, against 327).

The same is so of the other modules. What follows is in the models, and the properties
say precisely what is left of the promise; each is also the note of a hazard:

- a user "cannot pick a 256k context that OOMs the machine" (`context.py:13-14`): the
  first load of a tier in a
  process is judged by its parameter count, before the configuration is known, and is not
  judged again by it. In `gate_loads` a model becomes resident whose own configuration
  says that it does not fit. `ResidentFits` speaks of the estimate in force at the gate;
- after a load that failed, `current()` reports the previous tier as ready
  (`manager.py:537`) although nothing is in memory. `ManagerAgrees` says what is reported
  then: the model that was loaded last;
- the monitor marks a job "only AFTER the agent run succeeds" and the user "always hears
  back" (`bg_monitor.py:4-8`): a run that ended with an error closes the job as well, with
  an empty message or none. `RepeatsArePaid` counts such jobs among the faults, and
  `DeliverySpec` promises the run, not its success;
- a job whose session was deleted is to be "considered handled" (`bg_monitor.py:85`): `get_session`
  raises, and the job is tried again in every round (`Skip`);
- a run cancelled in the wait for its predecessor stays "running" (`agent_runs.py:103`):
  its subscribers wait for nobody (the exception of `NoLostWakeup`), and the background
  jobs of its session are deferred for ever (one of `EveryJobIsFollowedUp`);
- the steps of an agent turn are stored so that "restore + language-switch reproduce it"
  (`alice-lean.js:712`): the frame that is pending when a turn ends in the middle of a text
  rewrites that text after it was stored (893), and `restore` drops an answer at the end
  whose content is empty, which a stopped agent turn's is (1014-1015). `AnswersAreFinal` and
  `ReloadKeeps` have these exceptions and no other, besides a store that refuses;
- recoveries are "Capped so it can't loop" (`chat.js:46`): a press between a recovery and
  its timer takes `_hideUserBubble` from it, and the recovery then renews the budget
  (`robbed` in `RecoveriesAreCapped`);
- a session that is selected again while its turn streams and its history is still empty
  keeps its bubbles, and its background entry is left without an interval
  (`sessions.js:1617-1624`; `kept` in `EntryIsWatched`);
- the shell is to "tear down the child on any exit path" (`__main__.py:57`): a signal
  between there and the installation of the handlers (95) kills the shell and leaves the
  child. `CleanExit` speaks of the other exits, and of a watchdog that has not restarted the
  backend. After a restart it does not hold either: the watchdog is a daemon thread, and a
  child it starts while `_shutdown` finds none to stop, or while a stop still waits for the
  child before it (`supervisor.py:189`), outlives the shell (on Windows the job object
  ends it).

One further race is in the models without a property of its own: a chat that replaces the
tier which the user chooses meanwhile.

### Bounds

`MaxAttempts` is `max_network_retries`: three, the code's default, in
`snapshot_serial`, and two in the runs with two threads at once.
`MaxLoads` bounds the backends made in one life of the process: two are the one that
a chat holds and the one that a load puts in its place while the chat runs. The
two differ in tier and context, so that a report of the one can be told from a report of
the other; each kind of request asks for one pair, which gives both (the stored choices
mix them). The second chat finds the locks taken by the first. 881 898 states.
Three files are two with checksums and one without; the order in which files are handled is
free, so more files add no new kind of step. Two threads of a kind are enough for
every property that relates a thread to one other; the theorems cover the rest.
`MaxRuns` bounds the messages sent to a session, `MaxEvents` the events a generator
yields (a failure adds two, so buffers grow to three in `agent_replay`). Two
messages replace a run; a third is needed only for `agent_order`. Two clients are
one that leaves and one that stays.

`MaxTurns` bounds the turns of a page: two of them overlap or follow each other
(the theorems cover more). One chunk (`MaxChunks`) is enough for a frame to lag behind the
text, and two steps (`MaxSteps`) for a tool to follow a text and a text to be removed in
front of a tool (831 148 states). `MaxMoves` bounds the
changes of session: two leave a session and return to it. `AutoNudgeCap`,
`MaxRestarts` and `BootRetries` are constants of the code (3, 3 and 2), set to one,
which is enough for the budget to be spent and refused. `MaxPolls`: two answers
can be out of order. `MaxFaults` bounds crashes, failed writes, failed model calls and messages
that the database refuses; two of them can hit one job twice, or both jobs (1 258 392
states).

`MCTierGate` takes the tables of `model_catalog.py` and counts a context in thousands of
tokens and memory in units of 1/400 GB, so that the factors of `context.py` are whole
numbers (6 and 10 units for a thousand tokens). Alice Lite declares 262k tokens, as the test
of the manager reads it from the snapshot (`test_model_manager.py:141-143`), so that its
context may grow to the cap; the other general model declares less than the shortest
context of the control, and the third nothing (it has no build for this device). The
geometries are ten and eight times the estimates from the parameter counts, which makes
Lite's longest context one that the gate lets pass before the snapshot is resolved and
refuses afterwards. 16 GB is the comfort of all three tiers. The two lengths asked for lie
below and above the control's. One request at a time may be repeated for ever, between the
requests that take no lock (620 400 states).

`CHECK_DEADLOCK` is left on except in `agent_replay` (a session whose last message
was sent and whose clients are gone has nothing left to do), `chat_streams` (the
bounded turns and moves are used up) and `shell_watch` (the shell has exited).

### Fairness

In `SnapshotDownload` and `ModelEngine`, `FairSpec` assumes weak fairness of every step of a
thread that is inside a call (in `ModelEngine`, of loads and chats): an operating-system thread that can run does run, and a library call it makes
returns or raises (the fetch has its time-outs in the library). Nothing is
assumed about starting a call, about crashes, nor about the order in which a lock
serves its waiters. Hence `EveryChatEnds` is stated for runs in which the user
stops loading models at some time: the code's locks do not promise more.

In `AgentRuns` the event loop runs whatever is ready: a subscriber that has
something to do, a timer that is due, and a task that is new, has waited long
enough, or was cancelled. A generator that is not cancelled may be silent for ever
(a model may take as long as it likes), so nothing is assumed of `Publish`, `Save`,
`Complete` and `Fail`. Nothing is assumed of clients and messages either.

In `LeanChat` the read of an aborted request is rejected, which the browser
guarantees; streams may be silent for ever. `ChatStreams` has safety properties
only. In `DesktopShell` the three threads of the shell are scheduled and their waits
have timeouts, the interval of the overlay fires and its requests are answered;
nothing is assumed of the child, the user or signals. In `BackgroundJobs` the event
loop runs what is ready, the hour of a job passes, and the server is started again after a
crash. Nothing is assumed of a turn of the user nor of the agent in a follow-up, either of
which may run for ever: `EveryJobIsFollowedUp` is stated for behaviours in which the
job's session is idle from some time on and the monitor comes back from its follow-ups.
A command need not end, and a shell need not write the exit code.

## Proofs

`SnapshotDownload_proofs`:

- `TypeCorrect`: `Spec => []TypeOK`.
- `LocksSerialize`: without `/alice/ensure` workers, at most one thread is inside
  a download (`Serial`).
- `PublicationIsVerified`, `ReadinessIsTrue`, `StoreIsImplemented`: under `Serial`
  the three safety results of `snapshot_serial`, for any files, listings,
  threads and attempts. `Serial` is a hypothesis because the code does not
  guarantee it in general: `snapshot_race` is what happens without it.

- `DownloadsAreWhole` (`FetchedIsWhole`), under `Serial` too: a rename never publishes
  half a snapshot. Its invariant `WholeInv` follows the two loops: what the fetch loop
  has left is all that may be missing, and while one file is fetched once more it is
  the only one (`ButOne`).
- `GoodBytesStay` (`NeverOverwritten`) and `CallsAreFinite` (`StepsCount`) need no
  hypothesis: they hold for threads that overlap in any way. `StepsCount` is the safety
  half of `EveryCallEnds`: each step of a call lowers a measure (the attempts left, the
  files left, the place in the code), so a call that keeps taking steps ends.
- `LoadsPublishSafely`: when every download is made by a load, all of the results
  that need `Serial` hold of `Spec` itself, since `LocksSerialize` provides it.

`PublishedIsVerified` is not inductive: it does not say why the rename is safe.
`IInv` adds, for the thread inside the call, what each phase has established:
which files of the listing have been checked (`VerifyPassed`, `AdoptPassed`), that
from `mark` on the whole listing is good in the staging directory (`Staged`) and
then the sentinel is there too (`Stamped`), and that the final place stays
unpublished while a thread works on it (`Unpublished`).

`ModelEngine_proofs`:

- `TypeCorrect`: `Spec => []TypeOK`.
- `ManagerIsRight`: `Spec => []ManagerAgrees`.
- `EngineOnlyAdvances`: `Spec => EngineNeverGoesBack`.
- `OneCopyIsLeft`: `Spec => []SettledIsOneModel`.
- `NoCircle`: `Spec => []LocksAreServed`.
- `SlotIsImplemented`: `Spec => SlotSpec`.

Their inductive invariant `IInv` says that the active backend has its weights and,
while no load is between its assignments, the tier and context the manager
reports, and is at least as new as the provider's engine (`ActiveInv`); who
holds which lock in which phase (`Locked`),
what a load has established before and after each of its assignments
(`LoadInv`); and that a chat about to wrap a backend has one between the cached
engine's and the active one (`WrapInv`). `SettledIsOneModel` needs a second one,
`Copies`: whatever an engine, a local variable or a request refers to is the active
backend, an older one whose weights were dropped, or one in the hands of a load that
has not published it, and an idle thread refers to nothing. `ManagerIsRight` needs
`Reported`: while no load is between the assignment of the backend and that of its name, the
report is the tier and context of the newest backend, also after a load that failed, and
what is active is that backend or nothing. The refinement needs
`UnseenInv` besides: a backend that is not yet assigned belongs to a load that has
emptied the slot and knows its context, and is newer than the cached engine's and than
any that a chat is about to wrap.

`AgentRuns_proofs`, for any clients and any number of messages and events:

- `TypeCorrect`, `TasksKeepToTheirRuns`, `FinishedRunsAreFreed`: `Spec => []TypeOK`,
  `[]WritesOwnRun`, `[]EvictionPending`.
- `LogIsImplemented`: `Spec => LogSpec`.
- `WaitersAreServed`: `Spec => []NoLostWakeup`: the task for which a waiting client waits is
  alive, except for a run cancelled before its generator began. `NeighboursSaveInOrder`: `Spec =>
  SavesFollow`, what is left of the promise that `agent_order` refutes: a run never
  saves after the one sent right after it. Its invariant `OrderInv` says that a run that
  waits does so for its predecessor or finds it over, that one that has begun to draw
  events, or was the last to save, has its predecessor over, and that of all the runs
  sent only the last may be registered and not over.

The inductive invariant has a part for the tasks (`TaskInv`) and one for the
clients (`ClientInv`). A task that is new and not cancelled is the registered
run's, which is why its first step finds the right run; until it ends, its run is
"running" and has room for a failure. A client has a run exactly while it is among
that run's subscribers, has received as many events as its cursor says, and its
queue holds the latest events of the run, in order and without a gap, then the
sentinel if the run has ended (`Holds`); once it is live, no event lies between
its cursor and its queue. The lemmas on queues (`PutEvent`, `PutEnd`,
`PutFailure`, `TakeEvent`, `TakeEnd`) say how these facts survive what a task puts
in and a client takes out.

The constants are assumed to be what `ConstantsAssumption` says in each module
(threads of different kinds are different, the defaults are members of their
sets, the sentinel is no event number, and so on); TLC evaluates them on every run.

`LeanChat_proofs`, for any number of turns, chunks and steps: `TypeCorrect`,
`TurnsAreSerial` (`OneTurnAtATime`), `ReloadIsSafe` (`ReloadKeeps`),
`FinishedAnswersStay` (`AnswersAreFinal`). The types need that the text being typed and
the running tool are two different steps of their answer (`Pointers`). The invariant says
that a pending frame of a chat turn that is over would write what is there already
(`FrameInv`), that what the store has of a finished answer is what the page has, but for
the end of one text (`SettledStored`), and that the transcript is stored but for the
answer in flight (`ListInv`); the last two unless the last persist failed.

`ChatStreams_proofs`, for any sessions, turns, moves and any cap: `TypeCorrect`,
`RecoveriesStayCapped` (`RecoveriesAreCapped`), `EntriesAreWatched`, `HistoriesAreCurrent`.
`BudgetInv` says that, as long as no recovery has lost its flag, a pending one still has it
and the recoveries made are no more than the page's counter, which is reset only with
them. `EntryIsWatched` is inductive with the types; the lemmas say, action by action,
which entries can appear and which watchers can go.

`DesktopShell_proofs`, for any budgets: `TypeCorrect`, `OverlayIsRight` (`OverlayIsOwed`,
inductive as it stands, whatever the order of the answers), `NoRestartsBehind`
(`RestartsCease`: a measure of the watchdog's place, which no step raises once the
shutdown has begun), `ExitIsClean` (`CleanExit`). Its
invariant says who has the child in hand once `_stopped` is set: the thread that set
it is about to signal or to kill it, or the child is gone (`InHand`); `Closing`,
`Held`, that as long as nothing was restarted the process it waits for is the child;
`Claimed` and `Waited` relate the phases of the two threads that may shut down.

`BackgroundJobs_proofs`, for any jobs, sessions and faults: `TypeCorrect`,
`SuccessIsReal` (`DoneMeansDone`), `RepeatsAreRare` (`RepeatsArePaid`),
`DeliveredAtLeastOnce` (`DeliverySpec`). The invariant says that what the round has in
hand is finished and not followed up (`InHand`), that a record is followed up or
pruned only when it is finished (`Closed`), and that a job that is open and not being
marked has no more answers than there were faults (`Paid`): every way to answer
without closing the job costs one, and so does a closed job that nobody was told of.

`TierGate_proofs`, for any tiers, tables, device, ladder and requests: `TypeCorrect`,
`ResidentIsSafe` (`ResidentFits`), `ContextsStayServable` (`ContextsAreServable`),
`SmallDevicesStayEmpty` (on a device below the comfort of every tier no model is ever
resident), `GateIsMonotone` (`GateTightens`), `FirstRunIsAdmitted`
(`RecommendedIsAdmitted`), `OldModelIsKept` (`OldModelStays`). First come lemmas about the
operators: the clamp
stays within its bounds and, applied again, only lowers (`ClampInRange`,
`ClampOnlyLowers`); the estimate grows with the context (`KvExtraGrows`) and the bands
tighten with it (`BandTightens`); what the ladder picks is in the set it is
picked from (`PickIsInSet`). `ResidentFits` is not inductive: `IInv` adds that a
load past the gate has room by the estimate of that moment (`Gated`), and that one which is
ready, or resident, has been planned, fits by that estimate, has its configuration on
disk and a context within it (`Prepared`, `ResidentInv`). The step between the two is the second clamp: it only lowers, so what
fitted still fits. `ComfortAssumption`, that a tier's comfort leaves room for its floor
and the default context by the estimate from the parameter count, is what the tables
of `model_catalog.py` say; `FirstRunIsAdmitted` rests on it, and through it every
proof that needs a floor to be below its comfort.

Model-checked only: the liveness properties `EveryCallEnds`, `EveryChatEnds`,
`EveryLoadEnds`, `EndReachesClients`, both `StopTakesEffect`, `GivesUp`,
`QuitClosesWindow`, `OverlayClears` and `EveryJobIsFollowedUp`, because liveness is outside
the reach of the prover. Every other property of a passing run is stated by a theorem.
Proved and no longer part of a run, since TLC adds nothing to the proof: the types of
all modules, `WritesOwnRun`, `OverlayIsOwed` and `GateTightens`.

## Not modelled

Progress events and their queue; hashing; the developer override of the provider
(`ALICE_AI_MODEL_DIR`, which involves no manager); prompt templating and the
OpenAI framing; the display projection of the catalogue and the device probe (in
`ModelEngine` the gate is one of the reasons for which `LoadRaises` may happen; in
`TierGate` the download is one step, and the device does not change). A snapshot's revision and tier are
fixed in `SnapshotDownload`: different snapshots live in different directories and
do not interact. A write that fails half way (disk full) is an error of a fetch
here; a checksum that is computed while another thread writes sees one of the two
contents. A non-stream completion occupies the event loop, so no request starts
while it runs; the model lets it interleave, which adds behaviours only.

Of the chat routes: the record of streams that the status route reads
(`_active_streams`), incognito sessions, and what a saved answer contains. Sessions
share nothing in `agent_runs.py`, so one is modelled.

Of the lean page: the first-run set-up, the settings sheet, the menus. Of the full
chat page: rendering, research, incognito chats, comparison, regeneration, the
creation of a session on the server and its deletion, and the streams that a
reloaded page finds on the server. Of the shell: arguments, environment, log files,
the job objects of Windows. Of the background jobs: the text that is fed to the
agent, an unreadable store, and what else writes to the same session.

Most of the repository's source is the browser code of the forked server: some
117 000 lines of JavaScript for documents, mail, notes, gallery, calendar and
settings, which the shipped page does not load. The modelled share of that code is
small: the streams of the two chat pages, their navigation, and the overlay. The
rest is mostly rendering and single requests, one file for each view; it was
surveyed for shared state and timers, not handler by handler. The document editor's
timers are the part that would gain most from a module.

## Plan

1. `SnapshotDownload`, `PublishedStore`, `ModelEngine`, `AgentRuns`, `ReplayLog` with
   their proofs: done.
2. `LeanChat`, `ChatStreams`, `ShellSupervisor` with `ReconnectOverlay` in
   `DesktopShell`, `BackgroundJobs` with `AtLeastOnce`, and their proofs: done.
3. `ModelSlot`, `TierGate`, and the proofs of every safety property of the passing
   runs: done.
4. Proofs still to write: measures like that of `StepsCount` for the calls of
   `ModelEngine` and for the tasks of `AgentRuns`; an abstract conversation that `LeanChat`
   implements.
5. Models still to write: agent mode against running requests; the document editor's
   timers; the session store under overlapping writers, which would compose `AgentRuns`
   and `BackgroundJobs`.
