# hermes-talk in TLA+

A verification project for hermes-talk, the voice surface of Hermes Agent. The
modules model the parts of the program in which several threads, tasks,
processes, sessions and files meet; TLC checks them on small instances, and
TLAPS proves the central properties of fifteen of them for every size.

* `*.tla` that models code: one module per component.
* `MC*.tla` and `*.cfg`: the instances TLC checks.
* `*Proofs.tla`: theorems (a file may hold those of several modules).
* `PROJECT.json`: which definition stands for which lines, which run checks
  which property, which change of the code each property would catch, and the
  hazards the properties are about. Its map has one entry per operation: a helper
  whose lines lie within an entry, and an action of the environment (the end of
  section 2), have none.

## 1. The system

A voice session (terminal, Discord room, or dashboard tab) holds a realtime
connection to a speech model. The model calls tools; slow tools become
background runs in a registry; the results, approvals and progress of those
runs come back to the session as announcements that it speaks when the line is
free.

| Part | State it keeps | Operations | Talks to |
|---|---|---|---|
| Run registry (`talk_runs.py`) | `_RUNS`, `_RESERVATIONS`, `_RUN_SEQ`, `_OWNER`, process handles | start, finish, annotate, claim, deliver, list, terminate | tool threads, worker threads, the history file, voice sessions |
| Run history (`talk_runs.py`) | one JSONL file shared by processes | accept, append, claim, flip, compact | every process with the same Hermes home |
| Voice session (`talk_cli.py`) | announcement queue, watchers, tool queue, send lock, response in flight | connect, adopt, watch, pump, send, close | registry, relay, audio, provider session |
| Relay (`talk_relay.py`, `talk_realtime.py`) | active response, pending calls, played time | handle event, start, cancel, finish response | provider adapters, tools |
| Spoken approvals (`talk_approvals.py`) | `_PENDING`, `_RECONCILED`, `_GENERATION`, timers, sidecars | register, prompt sent, resolve, barge-in, expire, reconcile | host HTTP/SSE, session queue |
| Host adapter (`talk_host.py`, `talk_apiserver.py`) | plugin context, lanes | delegate, steer, redirect, stop | subprocesses, api-server |
| Steer receipts (`talk_steer.py`) | note ledger, notifier | send, delivered, landed, degrade | host log drain, lifecycle hooks |
| Lifecycle, progress (`talk_lifecycle.py`, `talk_progress.py`) | children, phases, rate bounds | start/stop hooks, project, announce | registry, session |
| Pause (`talk_pause.py`) | the attached capture surface | attach, pause, resume, detach | audio |
| Audio (`talk_audio.py`, `talk_discord.py`) | bounded queues, played counters, generations | read, queue, drain, reset | device threads, loop |
| Cascade voice (`talk_cascade_voice.py`) | sentence queue, stream generation | speak, cancel, close | relay, playback sink |
| Operator authorisation (`talk_operator_auth.py`) | speech intervals, response permits | bind, mint, resolve | Discord audio, relay, tools |
| Transcript (`talk_transcript.py`) | capture file, sweep state | append, flush, restore | host agent lane |
| Attachment, outbox (`talk_attachment.py`, `talk_outbox.py`, `talk_passive.py`, `talk_core_session.py`) | durable bounded queue | stage, send, acknowledge | host history route |
| Task events (`talk_task_events.py`, `talk_task_sources.py`) | cursors, delivery receipts | observe, deliver, acknowledge | dashboard, host |
| Dashboard tasks (`talk_dashboard_*.py`, `talk_run_control.py`, `talk_text_input.py`) | staged inputs, action intents | stage, classify, dispatch, recover | browser, gateway |
| Recipients (`talk_recipient*.py`, `talk_worker_recipients.py`) | selection, delivery attempts | select, deliver, recover | dashboard, host |
| Targets (`talk_target_*.py`) | catalogue, active target, return stack | prepare, mint, activate, return | tools, dashboard |
| GPT-Live (`talk_live_*.py`) | sessions, leases, delegations | open, delegate, pump, close | browser, provider, dashboard tasks |
| Native surface (`talk_native_*.py`) | provider correlation, unacknowledged fragments | capture, acknowledge, bind | task routes |
| Codex worker (`talk_codex_*.py`) | job, thread and turn mapping | start, resume, finish | Codex app-server |
| Core adapters (`talk_core_*.py`), wire adapters (`talk_*_realtime.py`, `talk_wire.py`) | session state, response ids | open, send, decode | providers, Hermes core |
| Tools, configuration, credentials, setup, doctor, diagnostics | none shared | read, format | everything |

What is hard in it:

* **Threads around one lock.** Tool threads, workers, timers, SSE sidecars and
  the event loop share registries guarded by small critical sections, and do
  their I/O outside them.
* **Processes around one file.** A terminal session, a gateway and a dashboard
  append to one history and hand results to each other across restarts.
* **Say once.** A result must be spoken, must not be spoken twice, and neither
  can be had outright when a process may die between the socket write and the
  record of it.
* **Requests matched by less than their identity.** Approvals are keyed by run
  although a run asks several; answers, timers and events come late.
* **Session turnover.** Work outlives the session that started it.

What makes each part correct:

* registry - never two writers on one resource; a run is durable before it
  works; ids name one run; a landing sticks;
* history - no version is written twice, ids are never reused, the file can be
  read as a map, a bad write loses at most itself;
* session delivery - what is owed is spoken, in the right session, twice only
  when the first time could not be recorded;
* approvals - one answer per request, no denial over an answer, every open
  question keeps a timer, silence denies no run whose operator heard nothing;
* a voice turn - each call is answered once, in order and with its response; an
  announcement waits; what was spoken over stays silent;
* stopping and steering - a receipt never says more than happened, and a
  promised one comes;
* what hears and plays - nothing foreign, nothing interrupted, nothing lost
  uncounted; one session per room; only the operator commands;
* the dashboard - no job twice for a call, an answer once, an update spoken
  once, a gap flagged;
* the browser transport, the native surface, the Codex worker - every session
  owned and its end told once, every fragment in its own task, one chain of
  answers per input, no step of Codex repeated;
* the adapters and what is written for later - a token becomes one response, a
  result goes out once, words act once, nothing captured is lost or told twice.

## 2. Modules and code

### The registry, its sessions and its work

| Module | Models | State ↔ code |
|---|---|---|
| `TalkRuns` | the registry of several processes (`talk_runs.py`) | `runs` `_RUNS`; `reserved` `_RESERVATIONS`; `call` the progress of `start_run`; `disk` the newest record per run; `tees` built and not yet appended snapshots |
| `ResultDelivery` | what the two-phase claim promises (abstract) | no code: the specification `VoiceDelivery` implements |
| `VoiceDelivery` | `run_talk_session` on top of `TalkRuns` (`talk_cli.py`) | `listing` adoption; `watch` watcher tasks; `queue` the announcement queue; `sending` between hand-off and flip |
| `VoiceTurn` | one connected session: the tasks of `talk_cli.py` over `talk_relay.py`'s ledger | `inFlight`, `active`, `settled`, `unnamedCut` the relay's fields; `outputs`, `closed`, `tools`, `running` `ToolResponseCoordinator`; `writing`, `line` the holder and the waiters of `send_lock`; `awaiting` where each task stands; `restart` `continuation_pending`; `open`, `muted`, `inbox` the provider |
| `WorkControl` | one run on its lane and the tool calls that stop it (`talk_host.py`, `talk_runs.py`, `talk_progress.py`) | `thread` the worker; `work` the child process or the server's run; `handle` the entry of `_PROCESSES`; `run` the entry of `_RUNS`; `calls` where a stop stands; `due` the phase a thread decided to write |
| `RunHistory` | the JSONL file (`talk_runs.py`) | `lines`; `lock` the OS file lock; `section` the critical section of a process |

`VoiceDelivery` EXTENDS `TalkRuns`: every step it makes on the registry is a
step of the registry's own module. `TalkRuns` takes the history as a map from
run to newest record with atomic updates; `RunHistory` models the file itself
and `FileIsAMap` is the justification of that abstraction. `VoiceTurn` stands
beside `VoiceDelivery`: the latter takes the pump as one fair step that hands a
result over, the former shows when that step may happen. `WorkControl` stands
beside `TalkRuns`, which takes a worker as one step that lands its run; here
that worker is followed from its start to its landing, and `EveryWaitEnds` is
why the fence's keys come back.

### The host's side (`MCServices`)

| Module | Models |
|---|---|
| `Approvals` | `talk_approvals.py`: `pending` `_PENDING`, `asked` `_RECONCILED`, `gen` `_GENERATION`, `firing` timers whose thread has not run, `hearing` the two sidecars of a run |
| `RunHistory` | see above |
| `SteerNotes` | notes to delegated children: `talk_steer.py`, the steer, redirect and stop verbs of `talk_host.py`, the stop hook of `talk_lifecycle.py`; `ledger` is `_RECEIPTS` |
| `Credentials` | `talk_auth.py`, `talk_grok_auth.py`: the resolver and the read-only diagnostic of each provider, translated apart |

### What hears and plays (`MCRoom`)

| Module | Models |
|---|---|
| `DiscordTap` | the tap of `DiscordAudio` on the host's receiver (`talk_discord.py`): the lifecycle transaction, the reader thread, pauses |
| `VoiceSessions` | the seat of one session per room and a session's life from its first check to its last cleanup, in each of the three modes (`run_talk_session`, `run_native_talk_session`, `run_core_session`) with the order of cleanup it has (`talk_discord.py`, `talk_cli.py`, `talk_core_session.py`, `talk_pause.py`) |
| `CascadeSpeech` | `talk_cascade_voice.py`: the sentence queue, the streams, barge-in |
| `AudioDevices` | the playback queue of the terminal and of the channel (`talk_audio.py`, `talk_discord.py`), and the PulseAudio routes of the process |
| `OperatorPermits` | `talk_operator_auth.py`: intervals, tokens, the authority of a response and the permits of its calls |

### The dashboard (`MCDashboard`)

| Module | Models |
|---|---|
| `DashboardActions` | tool calls of a dashboard task as durable actions (`talk_dashboard_tasks.py`, `talk_dashboard_store.py`, `talk_run_control.py`) |
| `DashboardInteractions` | an input, its chain of responses and what is saved of it (same files) |
| `DashboardChoices` | two choices of the user: recipients, with selection, delivery and commit of a message to an agent (`talk_recipients.py`, `talk_recipient_store.py`, `talk_worker_recipients.py`), and targets (`talk_target_state.py`, `talk_target_selection.py` and their routes) |
| `TaskEvents` | updates from a job's poll to the tab's speaker, and the reading of the host's event ring (`talk_task_events.py`, `talk_task_sources.py`) |

### Browser transport, native surface, Codex (`MCSurfaces`)

| Module | Models |
|---|---|
| `LiveSessions` | create, sweep, replace and close of browser sessions, and the provider session behind each (`talk_live_browser.py`, `talk_live_transport.py`, `talk_live_realtime.py`) |
| `NativeSession` | the terminal's task selection and the spool of its transcripts (`talk_cli.py`, `talk_native_api.py`, `talk_native_capture_store.py`) |
| `NativeInputs` | inputs, responses and their tool chain (`talk_native_controller.py`) |
| `NativeSpeech` | the spoken updates of the same controller and their receipts |
| `NativeLive` | a native GPT-Live session's words and delegations (`talk_native_live.py`) |
| `CodexJob` | one job given to a Codex app server (`talk_codex_*.py`) |

### Adapters and what is written for later (`MCAdapters`)

| Module | Models |
|---|---|
| `CoreVoice` | the session the Hermes core drives (`talk_core_realtime.py`) |
| `ProviderWire` | the socket under a provider session and its close (`talk_openai_realtime.py`, `talk_grok_realtime.py`, `talk_gemini_realtime.py`) |
| `GeminiSession` | turns, fences and delegations of Gemini Live |
| `LiveOperations` | one operation per delegation of a GPT-Live session (`talk_live_coordinator.py`) |
| `LiveBinding` | the binding's pump, its deliveries and its close (`talk_live_browser.py`) |
| `HistoryOutbox` | the durable outbox and the attachments that drain it (`talk_outbox.py`, `talk_attachment.py`, `talk_passive.py`) |
| `TranscriptHandoff` | capture, lease, claim by rename, hand-off (`talk_transcript.py`) |

The modules of one table share no state in the code either, or meet only
through what each takes from its environment. A composed run starts every one
of them, fixes one (`part`) and lets that one move: one specification, one
invariant per group (an invariant asks each part of its own behaviours), and a
state count that is the sum of the parts and not their product. Composition buys no interleaving between parts, and claims none;
the modules that do interact are composed for real (`VoiceDelivery` over
`TalkRuns`, `ResultDelivery` under both).

### Grain

One action is one critical section of the module's lock, one write to a file
or one transaction, one message, or one turn of the event loop between two
awaits. So `start_run` is `Declare` (mode and owner are read), `Admit` or
`Refuse` (the fence, under the lock), `Accept` or `AcceptFails` (the durable
record), `Insert` (reservation dropped and entry inserted in one section,
worker started). A snapshot is built under the registry lock (`Tee`) and
appended later (`AppendTee`), as the code does it. A cancellation arrives at an
await, and the thread the await was for does its work all the same.

Actions of the environment stand for no lines of the repository: the provider and
the operator (`ProviderStarts`, `ProviderCalls`, `ProviderSpeaks`,
`ProviderFinishes`, `OperatorSpeaks`, `SpeakerDrains`, `Received` of `VoiceTurn`;
`Speaks`, `Responds`, `Cancelled` of `NativeInputs`; `Plays` of `NativeSpeech`;
`CommandHeard` of `VoiceSessions`; `Refused`, `TimePasses` of `OperatorPermits`), the
host (`Enqueue`, `Drain`, `SlotTaken`, `Interrupts` and the `Child...` actions of
`SteerNotes`; the `Host...` actions, `PacketArrives` and `Onwards` of `DiscordTap`;
`HostEmits`, `HostRestarts`, `PageIsForgotten`, `Fetches`, `Truncated`, `JobMoves` of
`TaskEvents`; `HostMoves`, `LateCommit`, `Serves` of `HistoryOutbox`; `TurnMoves` of
`DashboardActions`; `ReceiptArrives`, `HostDies`, `Rejoin`, `Cancel` of
`LiveOperations`; `TurnEnds`, `AsksApproval` of `CodexJob`), the browser (the `Tab...`
actions, `Dropped`, `Receipt` and `ReceiptIsLost` of `TaskEvents`), other programs
(`SetElsewhere` of `AudioDevices`, `Edit` of `Credentials`), and faults and time
(`CutShort` of `LiveSessions`, where the deadline of a caller ends a close; `SendFails`;
`TimePasses` of `HistoryOutbox`; `CrashRun`, `LeaseLapses`, `Crash`, `Kept`, `Kill`, `Breaks`, `Upset`, `Lapses`,
`Restart`).

Definitions called *Variant* in a comment are changed forms of the definition
below them, used to see that each property can fail.

## 3. Runs

"pass" means TLC explored every state of the instance without an error.

| Run | Question | Bounds |
|---|---|---|
| `admission` | Does the fence hold, are reservations exact, is the trust knob respected? | 1 process, 2 callers, 2 keys, 2 runs, knob flips, 1 failed write |
| `routing` | Are ids unique and routes durable, and does the newest record only advance? | 2 processes, crash, rebinding, 2 sessions, 1 receipt |
| `stale_tee` | the finding below; ends in a violation | 1 process, snapshots appended at any later time |
| `voice` | Is a result spoken only where it is owed, and twice only when the record of its hand-off was lost? Is what is queued claimed? Does the session implement `ResultDelivery`? | 2 sessions in one process, on one Hermes session or on two, crash anywhere, 1 failed write |
| `voice_adoption` | Does a session that connects take over what earlier ones left, and is everything it lists spoken? | a process per session, fairness |
| `voice_turn` | Are calls answered once, in order and with their response? Where can an announcement fall? Can a response that was spoken over be heard again? | 3 responses (one without an id), 2 calls, queue of 1, 1 piece of audio, 3 operator turns, 1 announcement, 1 lost terminal event, 2 unread events |
| `work_control` | Does every run land? Is a stop receipt true, and does a promised one come? | 1 run on either lane, 2 stops, 1 hook |
| `services` | One answer and no denial over it; the file is a map that never falls back; landed means read; no lapsed login is used | 2 runs with 2 requests, a registry of 1, 2 session generations; 2 processes, crash, 1 torn or failed write, compaction; 2 notes, 2 children on one id; 1 edit |
| `room` | Is only the session's own audio heard, is what was interrupted silent, is no audio lost uncounted, is a room's seat single, does only the operator command? | 2 starts, 2 packets, 1 host incident, 1 pause; 2 sessions over the 3 modes, 2 leaves; 2 answers of 2 pieces, 1 failing stream; 2 items, 4 units; 3 route sets; 1 operator and 1 guest, 3 responses, 2 calls, 1 strange event |
| `dashboard` | No job twice for a call, an answer once, an update spoken once, a gap flagged, no step back | 2 requests at a time, 2 joins, 1 fault; 2 responses; 2 messages; 1 job with 3 updates, 3 claims, 2 tabs; 2 epochs of 3 events in a ring of 2; 3 connections, 2 hangups |
| `surfaces` | Every session owned and its end told once, every fragment in its task, one chain per input, no step of Codex repeated | 2 creates, 2 upsets; 2 senders, 5 events; 2 tasks, 2 fragments each; 1 spoken and 1 typed input of up to two tool calls; 2 updates; 2 delegations, 2 typed texts; 2 runners, 2 runs of the job, 1 approval, 1 fault |
| `adapters` | A token becomes one response, a result goes out once, words act once, nothing captured is lost or told twice | 2 tokens, 2 responses; 2 closers; 2 calls, 3 provider messages; 2 delegations, 1 break; 2 rows; 2 attachments on 2 connections, 5 generations, rows aging up to two TTLs, 1 fault; 2 processes, 2 sweepers, 1 kill, transcripts too short to flush and long ones |

Why the bounds are enough: nearly every hazard of the list needs two actors on
one object and one fault. Each instance has two of each actor its question is
about, room for one more object than the cap it exercises, and one fault at any
place. Larger instances repeat these situations. The exceptions are named here.

* `voice_turn` has three responses, because a refused or lost one must be
  followed by one that shows the damage, and three operator turns: the second
  is what releases a response whose terminal event was lost, and only a third
  shows what follows. With two, `AnnouncementsAlwaysWait` (section 4) looks true.
* `Approvals` explores one rare thing at a time: faults, detaches and second
  requests where one run is dispatched, two runs where none of these has happened
  (`Alone`, `Faulty`, `Ordinary`). `TaskEvents` lets polls race each other until
  the tab speaks, and takes one by one what it says (`Racing`). These two are
  bounds of the schedules, not of a counter.
* `OneSessionEach` (section 4) needs four creates, which the run does not have.
* An attachment takes two generations and a flush that reconciles takes one, so
  `MaxGenerations` is five: both tabs hold authority in turn and the second may
  meet what the first left.
* `GemSenders` has one sender in the run: two that race for the command lock are
  only in the theorem `GeminiIsSafe`. `LastWord` and `Offsets` are one, so every
  delegation of the run names the same word, and `MaxWords` is one.
* Delegations that nothing distinguishes are symmetric (`SurfaceSymmetry`,
  `AdapterSymmetry`).

Larger instances were explored without an error while the modules were built:
`DashboardActions` with three joins, `CodexJob` with three runs and three
faults, `LiveSessions` with three creates, `VoiceTurn` with an unnamed first
response and four operator turns, and with three calls and an unnamed third.

Bounds and switches, by name. Bounds of the code: `MaxLive` (`_MAX_RUNS`),
`MaxPending` (`_MAX_PENDING`), `MaxReceipts` (`_MAX_RECEIPTS`), `MaxLines`
(`_HISTORY_MAX_BYTES`), `Keep`, `TailLines`, `ToolQueueSize`
(`TOOL_SESSION_QUEUE_SIZE`), `MaxBlocks`, `MaxUnits`, `MaxInbound`, `MaxItems`,
`MaxCancelled`, `MaxBatches`, `QueueSize`, `MaxBindings` of `LiveSessions`,
`CoreCapacity`, `RowBatch`, `MaxRows`, `Ring`, `MaxStack`, `CaptureTries`,
`MaxProposals`, `KeptTicks`, `SeenResponses`, `MaxCancelledIds`, `MinTurns`.
Every other constant called `Max...` or `Last...` bounds a counter of the model
and stands in the guard of the action that counts; the header of its module
says what it counts.

`FrameVisible` and `PromptCapture` take the host as the code expects it (the
frame of a drain names its agent; an id does not change hands within one call).
`PromptTees` and `ClaimantGone` confine a run to the schedules in which a
snapshot is appended before the next step, and to claims whose claimant is
gone; `ConnectsAlone` to those in which nobody closes a socket that is being
opened; `Overlaps` to answers that do not overlap. What happens outside them is
among the findings. `ThreadStartMayFail`, `TornWrites`, `ExactRouting`,
`EchoesMetadata`, `Encrypted` and `ProcessPerSession` turn an environment
behaviour on or off; `MayBind` gives the Hermes sessions a voice session may
connect under, and `Unnamed` the responses a provider does not name.

CHECK_DEADLOCK FALSE stands where the system may really stop: a finished
session with no work left, a registry whose requests are settled, a file at its
bounds.

### Fairness

`voice_adoption` and `work_control` assume some. `VoiceDelivery`: the event loop of a
connected session runs, the line becomes free between answers, and a file write
ends. A step of a session that may happen keeps the right to happen while other
sessions and workers go on, which is what one fair event loop gives each of its
tasks. Crashes, closing and faults stay unfair: they may or may not happen.

`WorkControl`: threads run, and every wait of the code is bounded (`communicate`
and the poll loop by the run's time budget, the waits of a stop by theirs).
`PollFails` is strongly fair because the deadline passes while polls go on. The
child, the server, the operator and the hooks owe nothing: the child may ignore
its signal and the server may never answer. A killed child is taken to end its
output; a process that dies takes its promises with it, which is why the code
writes the pending receipt first.

## 4. Findings

`stale_tee` ends in a violation. `finish_run` and the others build the record
under `_RUN_LOCK` and append it after releasing it. A slow thread can append an
older record after a newer one; the newest record then has no landing or no
delivery step, which the comment at `talk_runs.py:837` says must not happen.

The other disagreements are shown by no run of the roster. Each appears when
the property named is checked, on the instance of its run unless constants are
given. They are kept in the modules, marked *Refuted*, because the next reader
would otherwise take them for granted.

Registry, delivery, work:

* `KeysHeldByWorkers` (`TalkRuns`, `ThreadStartMayFail = TRUE`):
  `thread.start()` may raise after the entry took its keys; the entry stays
  running and its resource stays fenced.
* `IdsNeverReused` (`RunHistory`): an append continues a torn line; an
  acceptance glued to it is unreadable and its id is minted again.
* `StaleClaimsAdopted` (`VoiceDelivery`, `ProcessPerSession = FALSE`): in a
  process that lives on after its session (Discord), a result claimed and not
  spoken is listed for the next session and its claim is refused while the entry
  is in the registry.
* `SpokenAgainOnlyIfLost` (`VoiceDelivery`, `ClaimantGone = FALSE`, or two voice
  processes at once): a session that connects takes over a claim of a session
  that is alive, and both speak the result. Two processes also break
  `QueuedIsClaimed` and `KeepsPromise`, so they are checked by a run and no
  theorem claims them.
* `EndsAreSticky` (`WorkControl`): `set_run_phase` reads the run, decides, and
  writes later; a hook that read before the poll wrote the end writes
  `executing` over it, which its docstring excludes.

The voice turn:

* `CallsAreAdmitted`: the batch of a response stays closed until its last tool
  returns. When the operator speaks meanwhile and the next response calls a
  tool, `admit` raises and the session ends.
* `AnnouncementsAlwaysWait` (`MaxSpeech = 3`): a second barge-in releases a
  response whose terminal event has not come ("is not coming", says
  `_release_lost_terminal`); where it was only late, its calls still wait for
  their batch when an announcement starts. `AnnouncementsWait` allows exactly
  the responses so released.

Approvals, notes, credentials:

* `SilenceOnlyAfterPrompt`: a timer that already fired for an earlier request of
  a run denies the one that came after it.
* `VerdictClearsItsOwn`: records are matched by run, and the verdict on an
  earlier request removes the record of the one after it.
* `Quarantined`: the sidecar takes its generation when the remote id lands, so a
  run of an ended session can be registered in the next.
* `UnconfirmedIsOver` (`SteerNotes`): the sweep compares an old list of children
  with a new list of receipts, and the stop hook matches by id; a note to a
  child that runs is reported as finished too early.
* `LandedWasRead` (`SteerNotes`, `FrameVisible = FALSE` or `PromptCapture =
  FALSE`): where the draining agent cannot be seen, or an id has a new child when
  the registry is read for it, a note is reported landed that nobody read.
* `OpenAIDoctorAgrees` (`Credentials`): an expired login of the Codex CLI is
  diagnosed "expired-will-refresh" (`talk_auth.py:479`), and `resolve_auth` raises.
* `DueStaysDue` (`Credentials`, `MaxLife = 5`): the skew is chosen by the time
  left, so a refresh that is due at an hour is not at three quarters.

What hears and plays:

* `HeardWasDecoded` (`DiscordTap`): in an encrypted room the host may learn who
  speaks between the decoding of a packet and the drain, and undecodable audio is
  heard, against the docstring of `_take_receiver_chunks`. `PauseIsHeard`: a drain
  that looked before the pause may write after the resume's own drain, against
  that of `resume_input`.
* `PauseReachesTheSeat` (`VoiceSessions`): `run_native_talk_session` awaits its
  workers (`talk_cli.py:2923`) before it detaches its pause surface (2927). A
  second cancellation there leaves the surface attached, and until another session
  attaches its own, a pause of the room mutes the dead one and is confirmed.
* `OverIsReleased`, `FailureIsNotLost` (`VoiceSessions`): leaving while the cascade
  or a failed connection is being closed cancels the cleanup itself; a session
  started before the callback of a failed one takes the slot, and the callback
  reports nothing.
* `CancelledStaysSilent`, `FailureIsItsOwn` (`CascadeSpeech`, `Overlaps = TRUE`):
  a drain stops at the flush mark of the answer before, or takes the answer after
  it. `ClosedIsSilent`: the worker wakes from the cancelled stream before it is
  cancelled itself, and opens another, against the docstring of `aclose`.
* `DrainStartsAtZero` (`AudioDevices`): the channel's player reads between the
  two locks of a drain.
* `ExpectedIsAsked` (`OperatorPermits`): a refused `response.create` leaves its
  token expected; where the provider echoes none, no later response is recognised.

Dashboard:

* `AcceptedSticks`, `ReceiptSticks`, `FailedJoinKeepsOld` (`DashboardActions`): a
  refused or unanswered request writes over what a concurrent one recorded; a
  failing join has moved the generation already. Two concurrent stops both post,
  though `_stop_work` says "One stop POST per action".
* `GivenBackIsOffered` (`TaskEvents`): a claim given back after "submitting" was
  accepted is refused by the store and lapses into an unknown outcome, against
  `defer_speech` (`talk_task_events.py:887`) and `ui/talk-surface.js:298`.
* `ReplayPromotesNothing` (`TaskEvents`): `queue_speech` with `replay` writes a new
  claim over the record of an update that was told. When that claim is given back,
  or lapses while it is queued, the record reads "deferred", and the update is told
  unasked a second time. `talk_task_events.py:888` says "sent/unknown audio never
  regains eligibility", and `docs/task-event-projection.md:56` "replay cannot
  promote eligibility". `ToldOnce` excepts the updates that were asked for again.
* `RecordedOnce` (`TaskEvents`, `MaxRows = 1`): an evicted row above a gap is
  recorded again when its page is read again.
* `AcceptedStands`, `FailedSwitchKeepsOld` (`DashboardChoices`): a second cancellation
  interrupts the activation; a mint that fails leaves the old connection dead.

Browser transport, native surface, Codex:

* `OneSessionEach` (`LiveSessions`, four creates, `MaxBindings = 3`,
  `MaxUpsets = 1`): `create` looks whether its connection is taken before it
  awaits the closes of its sweep. `EndClosesAll`: the end of the registry does
  not wait for a close another began.
* `OwnersRelease`, `ClosersRelease` (`LiveSessions`): the five seconds of the
  browser's close (`talk_live_browser.py:632`, 773) are armed before the session's
  own five (`talk_live_realtime.py:318`). When they end first the cancellation passes
  `except Exception` and skips `_cleanup`; socket and reader stay, and since the
  close has begun a further one returns at once.
* `EndIsAlwaysTold`, `ClosedIsNotFailed` (`LiveSessions`): a failed send marks the
  session failed without telling it, even after it was closed in order.
* `OrderlyEndSaves` (`NativeSession`): Ctrl-C while another task is selected
  leaves no controller to flush.
* `SwitchMissesNothing` (`NativeSession`): while `activate` flushes one task and
  attaches the other nobody is current (`talk_cli.py:2699`), and `receive` drops the
  transcript it has just taken (2838). A switch that is then refused says that the
  selected task is unchanged; what was said meanwhile is gone.
* `NothingAfterTheEnd` (`NativeInputs`): a call is checked
  (`talk_native_controller.py:447`) and then waits for a slot, an attachment and the
  network (`talk_native_api.py:93`). Where the input is given up meanwhile, it runs.
* `SettledIsNotIncomplete`, `InterruptNeverBreaks` (`NativeInputs`): calls taken
  back while a turn settles mark it twice; `interrupt()` iterates
  `self.responses` over an await while a response starts.
* `NoReceiptRefused`, `FinishedWasHeard` (`NativeSpeech`): a receipt in flight is
  overtaken; audio that arrives while a refresh fails is not counted.
* `RetiredIsSilent`, `WordsStayUsable` (`NativeLive`): a retired delegation that
  waits for the send lock is answered; words of a failed dispatch stay claimed.
* `WaitsForSomeone` (`CodexJob`): `approve()` resolves the request before
  `wire.send`; an answer that could not be sent is lost and Codex waits on.

Adapters and what is written for later:

* `CoreVoice`: a cancelled send of a start or a cancel drops the binding though
  the message may have left, and a cancel that crosses the end of its response is
  answered with an error that ends the session (shown by its actions; no
  property is stated).
* `ProviderWire` with `ConnectsAlone = FALSE`: a close during `connect` leaves a
  live socket, and CONNECTED is written over CLOSED.
* `RetryReleases` (`ProviderWire`): a close that failed puts its exit stack back
  (`talk_openai_realtime.py:505`, and so in the other two), but `aclose()` has popped
  the callbacks it ran. The close that is tried again returns without an error and
  closes nothing. `tests/test_openai_realtime.py:661` shows the retry with a stack
  that runs its callback twice.
* `FenceIsOfThisTurn` (`GeminiSession`): a cancel after turnComplete mutes the
  turn that follows.
* `UncertainIsOver`, `FailedDidNothing`, `PresentedIsTheEnd` (`LiveOperations`):
  a poll settles what a task goes on to do; the last check fails after the host
  accepted. `RowsActOnce` fails when a delegation names no offset (`Offsets`
  with 0).
* `ClosedCleanlyIsKept`, `RetiredIsNotAnswered` (`LiveBinding`): the pump looked
  before it waited; the delegation is looked up before its claim is asked for.
* `FailedWasTried`, `ConflictIsUnsaved` (`HistoryOutbox`): a flush fails an event
  that was never tried; a late commit is processed after the other tab read that
  the host does not know it.
* `ExpiryIsSeen` (`HistoryOutbox`): the first prune after a pause of twice the TTL
  deletes (`talk_outbox.py:163`) a pending event that nobody saw as failed, against
  the comment above it.
* `RefusedIsDropped` (`TranscriptHandoff`): `FlushDeferred` says that a refusal is an
  answer and drops the transcript (`talk_transcript.py:35`); the code keeps it, as
  `_finish_claim` says.
* `OneHandoff` (`TranscriptHandoff`): between the close of a lease and its unlink
  another locks the inode that is about to lose its name, against the comment at
  `talk_transcript.py:444`.

## 5. Proofs

Eight files hold theorems, about fifteen modules. All are about every value of the constants; none
bounds the number of actors, and the counters' bounds are only assumed to be
numbers. The assumptions are the named ones of the modules; further hypotheses
stand in the theorem.

| Theorem | Establishes |
|---|---|
| `VoiceDeliveryProofs` `TypeCorrect`, `ReservationsExact`, `Fenced`, `IdsNeverCollide`, `RoutesAreDurable` | `TypeOK`, `ReservationsMatchCalls`, `Fence`, `IdsUnique`, `RouteDurable` |
| `VoiceDeliveryProofs` `NoOverlapWithoutTrust` | no step makes a second holder of a key while the operator's trust is off (`OverlapGrowsOnlyUnderTrust`) |
| `VoiceDeliveryProofs` `JournalTrailsTheEntry` | `JournalTrails`: nothing in the history, and nothing on its way there, is ahead of the entry its process holds |
| `VoiceDeliveryProofs` `LandedRunsStick` | `LandedRunSticks`: an entry that landed is never changed back |
| `ApprovalsProofs` `ApprovalsAreSafe`, `NothingDeniedOverAnAnswer` | `ApprovalsSafe`, `NoDenyOverAnswer` |
| `ServicesProofs` `ReceiptsClaimOnlyWhatHappened` | `WorkSafe` |
| `VoiceDeliveryProofs` `SaidWhereOwed` | a result is spoken only by sessions it was routed to, and a record that says delivered names a session that spoke it |
| `VoiceTurnProofs` `TurnIsSafe`, `AnnouncementsAreDeferred` | `TurnSafe`, `AnnouncementsWait` |
| `OperatorPermitsProofs` `PermitsAreSafe`, `TaintStaysFinal` | `PermitsSafe`, `TaintIsFinal` |
| `ServicesProofs` `NotesAreTrue` | `FrameVisible /\ PromptCapture` implies `SteerSafe` |
| `ServicesProofs` `BatchesLandTogether` | `LandsTogether`, with the switches either way |
| `ServicesProofs` `CredentialsAreSafe` | `CredentialsSafe` |
| `ServicesProofs` `GeminiIsSafe`, `WordsComeFirst` | `GeminiSafe`, and `WordsBeforeEnd`, a part of `NothingTwice` |
| `RunHistoryProofs` `HistoryIsSafe`, `HistoryGoesForward` | `HistorySafe`, `HistoryNeverFalls`: the file of section 2 behaves as the map that `TalkRuns` takes it for |
| `CodexJobProofs` `CodexIsSafe` | `CodexSafe`: the work is given once, the recorded end is the turn's, a control and an approval go out once |
| `CodexJobProofs` `CodexInvHolds`, `RecordedEndStays` | the inductive invariant, and that an end once recorded is never rewritten (`EndIsFinal`) |
| `DashboardProofs` `ActionsAreSafe`, `ChoicesAreSafe`, `NewsIsTrue` | `ActionsSafe`, `ChoicesSafe`, `NewsSafe`: every invariant of the run `dashboard` |
| `DashboardProofs` `EventLogIsWhole`, `NothingIsTakenBack` | `StreamSafe` by itself, and `StepsGoForward` |

### The hypotheses

Only `NotesAreTrue` has any; no theorem assumes `PromptTees` or `ClaimantGone`,
which are switches of the runs.

`FrameVisible` says that the frame that logs a drain names the draining child,
and `PromptCapture` that no id changes hands between `steer_subagent` and the
registry read behind it. Without either TLC refutes `LandedWasRead` (section 4);
the run `services` satisfies both.

The named assumptions say what the constants are: `HomeAssumption`,
`TrustAssumption`, `BoundsAssumption`, `NoneAssumption` (`TalkRuns`),
`BindingAssumption` and `CollectAssumption` (`VoiceDelivery`: every voice session
collects results, and there are finitely many), `VoiceTurnAssumption`,
`PermitsAssumption` (something is kept of the recording, and no speaker is called
"no one"), `SteerAssumption` (every child has an id, the mark of no receipt is
neither a note nor a child, and the ledger holds one), those of the dashboard
(the words "none", "user" and "no one" name no response, recipient or target, the
job's call is not the control's, and the first epoch is 1), `LifeAssumption`
(a new token lives for a while), `GeminiAssumption` (a cancelled call and a batch are
kept, and "none" names no call), `HistoryAssumption` and `MarkAssumption` of
`RunHistory` (a run has a version, and the marks of an idle process and of a torn line
are neither a process, nor where one stands, nor a record), `CodexAssumption` (numbers
are numbers, and the word for nobody is neither a process nor a control), and
those of `Approvals`. `CodexJob` needs no further hypothesis: its theorems hold
however many answers are lost, runs crash and leases lapse. The schedules of `Approvals` are those of the module, one rare
thing at a time (section 3), for any number of runs and requests.

### The registry

`Fence` by itself is not inductive: what admits a new holder is a test against
running entries *and* reservations, so the invariant (`TInv`) must say that
reservations are exactly the calls in the gap, that a call keeps its keys and
mode until it is inserted, and that only an insertion makes an entry run. The
conjunction is inductive because insertion moves one holder from one set to the
other in a single step. `IdsUnique` and `RouteDurable` need one strengthening
more (`IdInv`): every id that is in any registry or call has a record, and
`_RUN_SEQ` with the file's floor is above every one of them; acceptance takes
the next id, so it is new. `TrailInv` says that neither the
history nor a pending tee is ahead of an entry, which holds although tees land
late and out of order: what is delayed is an older reading of the entry, and an
entry only moves forward. It is the half of the journal's promise that the code
keeps on every schedule. The other half, that the file itself never goes back, is
what `stale_tee` refutes; `JournalNeverRegresses` is checked by `routing`, on the
schedules without a delayed tee, and is not proved.

### The history file

What a torn line costs is an account. A write cut short leaves a line without an
end; the next record is glued to it and lost, and the process that wrote it reports
it all the same. So `LossInv` counts the retained runs whose newest record in the file is
behind what was reported (`Missed`), those whose record was glued and is not reported
yet (`Losing`), and the open line, the one loss to come; together they are no more
than the writes that were cut short. It rests on `SectionInv` (under the lock, what
a process read stays so, and its record is the next of its run), `SavedInv` (while
no write was cut short, what was reported is in the file or was pushed out by newer
runs) and `SizeInv`. The three ways a file changes, an append, a line that cannot be
read and a compaction, have a lemma each for what the file shows afterwards;
a compaction keeps the newest records in the order of their ids (`Ranked`, the
i-th kept id, which exists by `RanksExist`), so it shows every kept run as it was.

### Approvals

The inductive invariant follows a request from the host to the wire. While it
waits in the stream, or between the generation check and `_register`, it has no
record and no answer (`OnceInv`, `LostInv`), so a registration never revives a
request that is being answered; a record whose answer is on the wire is claimed
by it (`ClaimedInv`), so neither a timer nor a barge-in denies it; an open record
follows a prompt that was heard (`HeardInv`).

### Stopping work

A receipt is written once the fact it reports holds, and these facts last: work
that ended stays ended, a run that landed stays landed, an answer of the server
stays (`FactsLast`). The phase is written later than it is decided, so the
invariant (`WorkInv`) also follows the decisions that wait (`DueIsTrue`).

### Delivery by voice sessions

`SaidInv` follows a result from the hand-off to the record of it and is
inductive on all schedules. What else a session promises, `VoiceSafe` and the
refinement `KeepsPromise`, is model-checked only, on the schedules of the run
`voice`: with late tees, or two voice processes at once, TLC refutes parts of it
(section 4).

### The voice turn

The argument is about what the receiver can know. Events of a response are read
in the order they were sent (`OrderInv`), so from its start to its last event a
response is either the one the ledger holds or one a second barge-in released
(`LedgerInv`). From that follow that what was spoken over is settled or over
(`SilenceInv`), who waits at the lock and for what (`LineInv`), that one flush at
a time is under way and takes a batch whole (`FlushInv`, `WholeInv`), that calls
leave in wire order (`InWireOrder`), and that while an announcement is in line
whatever calls tools was released or waits behind it (`WaitInv`). The last is
what defers an announcement: only the order of the lock does, since the check
under the lock does not look at the outputs. `TurnInv` is the conjunction.

### The operator's permits

`OperatorAlone` looks back over the whole chain: from a call that ran, through
the response that permitted it, the token that response holds and the tokens
that one continues, to the first and last packet of one utterance. None of these
links is in the others' state, so the invariant (`PermitsInv`) says of each what
the next one needs. `VoiceInv`: an utterance that stopped with a speaker was that
speaker's alone, which is where the recording that is no longer complete makes
the speaker unknown, and the utterance of a token that is somebody's is committed,
so its interval is not cut again. `TokenInv`: a token that a response holds is
expected no more, which makes the holder unique, whatever ids recur. `CallInv`: a
call ran only under a permit that is used up, of a response that was seen, and a
response that was seen keeps its token. The proof does not split the conjuncts by
action: one lemma each says how the recording, the utterances, the tokens, the
authority and the permits may change in any step (`RoomStep`, `UtteranceStep`,
`TokensChange`, `AuthorityStep`, `PermitStep`), and the parts of the invariant
follow from those.

### Steer receipts

A receipt lands by the log line of a child, without its note being looked for: by
the token a preview shows, by the batch of one that matched, or by the child that
logs. What makes it true is where the note is. `PlaceInv`: a note is in the queue
or the slot of the child its call sends it to or was taken from there, in one
place at a time, and in none before its call sends it. `VerbInv`: the reference a
call noted is that child, which for a public steer rests on `PromptCapture`.
`ReachInv`: the note of a waiting receipt was taken, is in that child's queue, or
the child is over. So a receipt that lands by the line of its child, a child
that is live and has the note no more in its queue, is of a note that was taken.
`LedgerInv` says that a note has one receipt, with what its call noted; a batch
lands together because its receipts then agree in id and reference. The proof has
one lemma for how each part may change in any step (`HostMove`, `VerbStep`,
`PlaceStep`, `LedgerStep`).

### A Codex job

What the work was given rests on what the record says, and the record is written
by whoever holds the lease, while a run that lost it may still stand before a
request. The invariant (`CodexInv`) therefore has two halves. `LeaseInv` (a lease
is of one run) and `HolderInv` (where the holder stands, the record says what it
must) are about the holder; `AskInv` is about everyone: whoever stands before the
request for a thread or a turn, holder or not, asks alone, for what was not
begun yet, and while the record says that it was begun. So a run that lost its
lease before it asked may still ask, but then nobody else will: whoever claims
after it finds the record begun and gives up. `WireInv`: what a wire carries of a
turn's end is what the turn came to. `ApprovalInv`: an approval is on one wire,
or with one run that has not answered it, or answered. `ControlInv`: a control
without receipt was not sent, one run sends it, and its receipt says no more than
was sent. `RecordInv` is the claim. The proof does not split the invariant by
action: every action is shown to be a `RunStep` (of the record, the lease and the
places), a `WireStep` and a `ControlStep` (`EveryStep`), and each part of the
invariant is kept by one of the three. `EndIsFinal` follows from `RunStep`, since
a record that ended lets its holder stand only where it is not written.

### Credentials

`CredentialsSafe` relates two pieces of code, the resolver and the diagnostic that
foretells it, and is nearly inductive: `ResolvedWell` and `DoctorForetells` compare
them case by case, for every age of every login.

### A Gemini session

`GemInv` says of the brackets what the adapter believes (`BracketInv`), of a
delegation that it is told of once its batch stands and is retired exactly if its end
was told (`AskInv`), and of a cancelled call that it is known until the session says it
forgot it (`CancelInv`); a captured session forgets none, since it fails instead. That
one result goes out rests on the command lock: one sender at a time is between
`Encodes` and `SenderDone`, so its result is the first of its call (`SenderInv`), and one
that went out is recorded or its delegation is retired (`SentInv`).

### The dashboard

Its parts share no state, so `BoardInv` is the conjunction of six invariants.

* Actions (`DashInv`). A request reads the record, waits, and writes over it. What it
  read is not the record any more, but some of it lasts: a call id has one name
  for good, a job at the host is of an action that was submitted (`JobInv`), a
  frozen body stays. `RequestInv` says of each request what of its reading still
  holds; `Forward` is the order in which records move, and each action is shown to
  move forward, so the other requests need no second look. `ApproveInv`: one request
  decides an approval.
* Interactions (`InterInv`). `ReportInv` says what a report was told at its place
  is so: what it saw of the record, and that the words it goes past are saved.
* Recipients (`RecInv`). `SendInv` and `InspectInv` follow an operation from the
  claim in the store to the bridge: what was not attempted was not delivered, a
  commit that the bridge would accept was not delivered, and one request is there.
* Targets (`TargetInv`). `ConnInv`: a connection belongs to one request until it
  is served or discarded. `SwitchInv`: a switch that nothing overtook was computed
  from the row it replaces, which is why the stack moves by one.
* The host's ring (`StreamInv`). `GapInv`: up to the cursor every event was
  recorded, unless a gap says otherwise, and where no gap is the cursor is at the
  newest event. The proof needs that a finite set of numbers can be counted out in
  order (`RanksExist`), since a page is saved in the order of its events.
* Task updates (`TaskInv`). `ShowInv` ties what the tab has in hand to the newest
  claim, `MailInv` each receipt on its way to what went out, `ToldInv` says that
  what was told unasked is sealed, and that of two rows that say the same the told
  one has the newest claim. So a late receipt cannot open what was told, and nothing
  older is offered after it.

The induction theorem of the library takes an operator as a parameter, so the facts
about numbers that need induction (here and in `RunHistoryProofs`) go through sets: `InductionOnNumbers` is about the
set of the numbers with a property, and follows from the least element of its
complement. Maxima, counting and the ranks of a finite set are proved so.

### The inductive invariants under TLC

Each was model-checked before it was proved: the invariant of the approvals on
517 000 states, `WorkInv` on 62 614, `JournalTrails` and `LandedRunSticks` on 1.99
million (one failed write, both switches off), `SaidInv` on 78 721 with both switches off, those of the voice turn on
668 000, those of the permits on 485 000, and on 2.69 million where the provider
echoes no token, `SteerInv` on 1.54 million, and on 2.37 million with both
switches off, and `CodexInv` with the three step relations, `RunStep`, `WireStep`
and `ControlStep`, on 1.54 million with three runs and as many faults, and on
1.54 million with two approvals and two controls. For the dashboard: `StreamInv`,
`RecInv` and `TargetInv` on instances of their parts, `InterInv` on 272 000, `DashInv` on
156 000 and `TaskInv` on 1.39 million with three claims. `HistInv` on 748 000, and on
55 900 where more is kept than the file holds lines; `GemInv` on 2.5 million.

### Only model-checked

* Liveness and whatever rests on ENABLED: `AdoptionIsComplete`, `EveryWaitEnds`.
  It is outside the prover's reach.
* `JournalNeverRegresses`, `VoiceSafe` and `KeepsPromise`: see above.
* `DevicesSafe`: what was heard is a sum over a queue (`FoldSeq`), and induction
  over data is outside the prover's reach.
* No proof was attempted of `TapSafe`, `RoomVoiceSafe`, `TransportSafe`, `SurfaceSafe`,
  `SayingSafe`, `AdaptersSafe`, `SessionsSafe` and `StorageSafe`, nor of the action
  properties of their runs beyond the parts proved (`EndIsFinal` of `EndsHold`,
  `WordsBeforeEnd` of `NothingTwice`, `TaintIsFinal` of `NothingForOthers`). They hold
  on the instances of section 3.

## 6. Not modelled

* Wording, formatting, logging, and the contents of requests and results.
* HTTP, SSE, WebSocket and device libraries, and the Hermes host: an environment
  that answers, fails, is late, or restarts.
* Components with no shared mutable state (configuration, setup, doctor,
  diagnostics, tool schemas, turn-based speech providers, plugin registration)
  and the front ends; `PROJECT.json` lists each with its reason, and what is
  left out of a component that is modelled in part.
* Time as a number: a deadline is an event that may come at any moment it is
  armed. `Credentials` counts a token's life in quarters of an hour, because the
  skews it compares with are properties of it.

Left out of modules that are otherwise whole:

* `RunHistory`: `_append_history`, the append of a tee. It takes the same lock but
  swallows its failure, and it checks no version; what that costs is in `TalkRuns`
  (a late `AppendTee`, and one that fails).
* `TranscriptHandoff`: a transcript whose path was swapped for another file or a
  link (`talk_transcript.py:448-451`, 468-473), which is unlinked and not handed on.
* `NativeInputs`: a report of `response.done` that the host refuses
  (`talk_native_controller.py:412`), which ends the session.
* `LiveOperations`: a tool that raises anything but a `DashboardTaskError`
  (`talk_live_coordinator.py:906-910`), which is reported as uncertain.

Coarser than the code:

* `CodexJob`: `Approve` and `CancelTurn` are one step each. The first reads the
  record, takes the request out and sends (`talk_codex_worker.py:342`, 361-371), under
  a lock that keeps other controls out but not the loss of the lease; the second
  writes a receipt before it asks and one after (381-428), of which the model keeps
  that it is asked once. A run can lose its lease before and after each.
* `GeminiSession`: a message that fails half way leaves what it changed before the
  failure, and then ends the session (`Doom`); only the end is kept.
* `LiveBinding`: `retire_presentations` awaits once per claim
  (`talk_live_browser.py:352-365`); `RetireWork` retires them together.
* `GeminiSafe` speaks of tool results that are sent after their call was revoked,
  not of audio that is.

## 7. Plan

Done: every component with an ordering hazard has a module; fifteen modules have
theorems.

Next, proofs: `DiscordTap` (`TapSafe`), `LiveBinding` and `HistoryOutbox` (`StorageSafe`).

After that, what is left out of components modelled in part: the plugin's own
agent lane and the choice between lanes (`talk_host.py`), the announcements of
children and their rate bound (`talk_lifecycle.py`, `talk_progress.py`), the
host-batch lane and the teardown of the coordinator (`VoiceTurn`).
