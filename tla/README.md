# ClawHUD: verification project

TLA+ modules, TLC runs and TLAPS proofs kept beside the ClawHUD sources. ClawHUD
is a Windows HUD for MSI Claw handhelds: a C++ runtime (`src/src/ClawHUD`) that
draws a telemetry bar, an elevated EC helper (`src/src/ClawHUD.EcHelper`), a C#
Settings front end (`src/src/ClawHUD.Settings`) and a diagnostic tool
(`src/src/ClawHUD.Diag`). Paths below are relative to the repository.

## Inventory

| Component | State it keeps | Operations | Hard part |
|---|---|---|---|
| Control dispatch bridge (`RuntimeControlDispatchBridge`) | `accepting_`, `queue_`, one `Pending` per call | `Start`, `Dispatch` (any thread), `DrainOnMainThread`, `Stop` | completion races between a drain, a failed wake and a stop; callers that must not wait for ever |
| Control pipe server (`RuntimeControlPipeServer`) | one worker, one pipe instance, stop event | `Start`, `WorkerMain`, `ServeClient`, `Stop` | clients that hang or die anywhere; shutdown after its acknowledgement; the join |
| Control protocol and codec (`shared/ClawHudControlCodec`, `RuntimeControlWireMapping`, `ControlCodec.cs`) | none | encode and decode frames, execute one request | two implementations in two languages; damaged frames |
| App composition (`App.cpp`, `main.cpp`) | `exiting_`, `suspended_`, recovery attempt, instance mutex | `Run`, `Exit`, setters, timers, power events | startup gates, teardown order, resume recovery |
| HUD controller and presentation (`HudController.cpp`, `HudPresentation.cpp`) | options, enabled, visibility override, presentation | recreate with rollback, show, hide, render | a recreation that fails half way |
| HUD renderer (`HudRenderer.cpp`) | Direct2D resources | layout and draw one frame | none that outlives a frame |
| Game session (`GameDetection/`) | detector session, known-process cache, verifier target | foreground and window events, verifier completion | evidence for a process that is no longer in front; PID reuse |
| Game identity and screen observation | none | classify a window, a process, a screen | facts that are stale when used |
| Window event source (`ProductionGameWindowSource`) | bounded queue, worker, sequence number | hook callbacks, worker, `Start`, `Stop` | a full queue, a start that fails half way, a stop with events in hand |
| Steam source (`SteamRunningAppIdSource`) | registry watch on one of three keys | open, arm, wait, post, `Stop` | keys that appear while being watched; a change between read and re-arm |
| Production telemetry (`ProductionTelemetryController`, `TelemetryAggregator`, `BatteryPowerEstimator`) | timers, FPS target, hold, retained metrics, discharge history | start, stop, sample, retarget | values of an earlier target, mode, process or discharge |
| PresentMon telemetry (`PresentMon*`) | session, process tracking with reference counts | track, read, release | three users of one PID; a retarget that fails at any step |
| EC helper (`EcHelperClient.cpp`, `ClawHUD.EcHelper/main.cpp`) | one launch attempt, pipe, pending request | launch, request, close | one UAC prompt; a helper that dies mid-request |
| Settings persistence (`HudSettingsStore.cpp`) | settings.ini | load, save, fresh defaults | what a save writes that nobody asked for |
| Settings front end (`ClawHUD.Settings`) | view model, opacity gesture, single instance | preview and commit, apply snapshot, watch the runtime | asynchronous results out of order; relays and primaries that come and go |
| Display tweaks: DRR, maximum refresh rate (`Tweaks/WindowsDrr`) | display configuration, saved modes | disable, raise, verify, roll back | partial application, a desktop that changes in between |
| Display tweaks: Intel VRR range (`Tweaks/IntelVrr`) | driver profile per panel, EDID overrides | query, decide, revalidate, write, read back | panel and profile change between query and write |
| Startup integration (`StartupTaskRegistration.cpp`, `PresentMonRuntimeBootstrap.cpp`, `LaunchMode.cpp`, `UninstallCleanup.cpp`) | logon task, installed service, exit codes | register, read back, bootstrap, uninstall | an elevated child that hangs; readback that lags; a second start |
| Tray icon (`TrayIcon.cpp`) | icon created, retry round | create, retry, `TaskbarCreated` | a shell that is absent, busy or restarts |
| Update source (`ClawHudUpdateSource.cpp`) | none | check, download, apply | failure before replacing anything |
| Diagnostics tool, Logging | captures, log file | capture and analyse; append | none shared with the runtime |

A Settings or manager process opens the Control pipe; the pipe worker decodes one
request per connection and calls `Dispatch`; the bridge posts a wake-up message;
the main thread runs the request against `App`, which owns the HUD controller,
the game session, the telemetry and the settings store. Game detection is driven
by messages to the same thread: a WinEvent hook for the foreground, the window
event worker, the Steam registry watch and a render-verifier thread that polls
PresentMon. The EC helper is a separate elevated process behind its own pipe. At
startup a worker thread runs the display tweaks, and an elevated child registers
the logon task.

What makes the components correct:

- control: each request runs at most once and its answer is true; both codecs
  mean the same by the same bytes; Exit() ends; shutdown follows its
  acknowledgement;
- HUD and power: after any sequence of suspend, resume, enable, disable and
  recreation failures, timers, presentation, memory and settings.ini agree;
- game session: only evidence for the process instance that is in front makes a
  game session, and none of the events it lives on is lost unaccounted;
- telemetry: a number on the HUD was measured from what it is shown for, and
  goes when that goes;
- EC helper and startup task: one prompt for one wish, and no answer taken for
  another's;
- front end: the last value the user chose is what is live, saved and shown;
- startup: at most one process has a window, HUD, source or Control pipe; what a
  process leaves behind when the mutex is free is its tweak worker only;
- tweaks: what is reported is what Windows and the driver have.

## The modules

| Module | Models | Role |
|---|---|---|
| `ControlService` | what a client of Control may rely on | abstract specification |
| `DispatchBridge` | `RuntimeControlDispatchBridge.cpp` | refines `ControlService` |
| `ControlChannel` | `RuntimeControlPipeServer.cpp`, its clients, `App` startup and teardown | composes `DispatchBridge`, and so implements `ControlService` |
| `WireProtocol` | `ClawHudControlCodec.cpp`, `RuntimeControlWireMapping.cpp`, `ControlCodec.cs` | one exchange, byte by byte |
| `HudLifecycle` | `App.cpp` (HUD, timers, power), `HudController.cpp`, `HudPresentation.cpp`, `HudSettingsStore.cpp` | detailed specification |
| `GameSession` | `GameDetection/` controller, detector, cache, verifier and its thread; `ForegroundTracker.cpp` | detailed specification |
| `EventSources` | `ProductionGameWindowSource.cpp`, `SteamRunningAppIdSource.cpp`, `StartSources` and `StopSources` | what feeds `GameSession` |
| `PresentMonSession` | `PresentMonApi2Client`, `PresentMonTelemetryProvider` and its queries | operators on the shared session |
| `FpsTelemetry` | `ProductionTelemetryController` (FPS), `AlwaysModeFpsTarget`, `FpsStaleHold`, the verifier and the activity watch as users of the session | uses `PresentMonSession` |
| `SystemTelemetry` | `TelemetryAggregator`, `BatteryPowerEstimator` | detailed specification |
| `EcHelper` | `EcHelperClient.cpp`, `ReadEcTelemetry`, `ClawHUD.EcHelper` | detailed specification |
| `MaxRefreshRate` | `WindowsMaxRefreshRate.cpp` | one stage of the tweaks |
| `TweakStartup` | `WindowsDrrDisable.cpp`, `TweakStartupCoordinator` | extends `MaxRefreshRate` |
| `IntelVrr` | `Tweaks/IntelVrr/` | the stage `TweakStartup` sees the outcome of |
| `StartupTask` | `StartupTaskRegistration.cpp` | used by `Startup` |
| `Startup` | `main.cpp`, `App::Run` to `~App`, `PresentMonRuntimeBootstrap.cpp`, `UninstallCleanup.cpp`, `LaunchMode.cpp` | extends `StartupTask` |
| `TrayIcon` | `TrayIcon.cpp` | detailed specification |
| `FrontEnd` | `MainWindow`, `MainViewModel`, `OpacityInteractionCoordinator`, the Control client | the window against the runtime |
| `FrontEndProcess` | `App.xaml.cs`, `SettingsInstanceCoordinator`, `RuntimeProcessLifetimeWatcher` | the processes that have or want the window |
| `MC*` | | instances; those that combine modules which share nothing choose in `Init` which one a behaviour moves (`part`) |
| `*Proofs` | | theorems |

### DispatchBridge and ControlService

A call `c` is one activation of `Dispatch` and the `Pending` it creates; the two
are told apart (`pc[c]` and `answer[c]`) because the `Pending` is shared and can
outlive the activation. Each region the code holds a mutex for is one step:
`Enqueue` is the test of `accepting_` and the push under `queueMutex_`,
`WakeSucceeds`/`WakeFails` the `PostMessage`, `EraseUnwoken` and
`CompleteUnwoken` the two locked regions of its failure path, `DrainSwap`,
`TakeForHandler`, `Handle`, `CompleteHandled` the drain, `StopSwap` and
`StopComplete` the stop. `Complete` is first-completion-wins, as in the code.
`EnterSelfDispatch` is the path of a call from the main thread itself.

`ControlService` says what clients may rely on: while it is open an invoked call
is applied once and answered `Executed`, or refused without being applied; when
closed it turns calls away with `ShuttingDown`. The refinement maps `open` to
`accepting_`, and each call to idle, invoked, applied (the handler ran) or done.

`AnswerIsTrue` and `ServedInTurn` are checked with two producers, although the
runtime has one: the header promises any thread.

### ControlChannel

The pipe worker is the only producer of the bridge, so the module instantiates
`DispatchBridge` with one call per client, all made by `Worker`. `worker` walks
through `WorkerMain` and `ServeClient` step by step: create the instance,
listen, read, dispatch, write, wait for the client to close, disconnect, arm and
post the shutdown-ready message. Every pipe operation can fail or be cut short
by the stop event. `app` is the main thread from `App::Run` to the end of
`StopRuntimeSources`: the bridge starts before the pipe, and stops before it.
Clients are external: they connect, send a mutation, a `RequestShutdown`, a bad
payload or garbage, read, and leave at any point. `ImplementsService`
holds here with its liveness: what a client asks is applied at one moment
between call and answer. `RuntimeUnavailable` is true because the worker is the
only producer.

### WireProtocol

A behaviour is one exchange: the front end encodes a request, at most one byte of
the frame is altered, missing or added, the runtime decodes it, executes it and
encodes the response, the same may happen to that, and the front end decodes it.
A frame is a sequence of bytes, so order, width and sign are in the model: a
32-bit number is the signed number with its bits. The header is parsed field by
field in the order of each implementation, `DecodeUtf8`'s rules are those of the
code, and of the five texts of a result one varies. `ToWireSnapshot` and
`ExecuteControlResponse` map between the wire and the settings of the HUD. The
settings are named by their numbers on the wire: the switches between the two
sets of enumerations and the conversion of the opacity between percent and
fraction (`RuntimeControlWireMapping.cpp:26-135`, 149) are the identity on the
values sent, and are taken as that. An error in one of them would not be seen.

### HudLifecycle

Everything runs on the UI thread, so a message handler is one action. A handler
calls a dozen fallible operations; each is an operator from a state of the
members to the set of states its outcomes leave, and a handler composes them in
the order of the code. The members are the fields of `app`: `pres`, `visible`,
`built`, `layered` are the `HudPresentation`; `enabled`, `override`, `mode`,
`option`, `opacity` the `HudController`; `suspended`, `recovering`, `attempts`
the power state of `App`; `sampling`, `ec`, `timers` the telemetry; `saved` the
`[HUD]` section of settings.ini, the one thing that survives `Quit`. `ticks`
are `WM_TIMER` messages already in the queue, which `KillTimer` does not remove.
`failures`, chosen once, is what may fail on this machine.

The outcome of a foreground evaluation (a game, no game, a verification needed)
is nondeterministic here: `GameSession` models where it comes from.

### GameSession

A process instance (`GameProcessInstance`: PID and creation time) is a member of
`Processes`, its PID a function of it, so that a PID can be reused by a later
instance. `session` holds the members of `GameSessionController`,
`ForegroundGameDetector`, `KnownGameProcessCache` and `GameRenderVerifier`, and
the messages posted to them. `worker` is the verifier's thread: it polls, finds
a frame, posts, and only then lowers `running_`; a handler that joins it
(`Quiesce`) may find that it posted meanwhile. `life`, `fullscreen` and
`foreground` are the machine, which changes between handlers and tells the
runtime by messages. `Admitted` stands for the screen admission of a window.

### EventSources

`ui` walks the UI thread through `StartSources` (the window source with its undo,
then the Steam watch) and `StopSources`. An out-of-context hook runs on that
thread between two handlers, so `AcceptCallback` is never inside `Start` or `Stop`;
`pending` is the bounded queue, `inHand` what the worker has taken out, `inbox`
what it has posted. The worker drains what is pending before it heeds its stop
token. `depth` is how much of Software\Valve\Steam exists, `watched` the key the
watch opened, `steamPc` the next registry call of `WatchLoop`, `changed` its
event; `RegCloseKey` signals that event, the reason for the `ResetEvent` that
follows it. Writers of the registry are external, keys are created and never
deleted. `power` is `suspended_` and `resumeRecoveryActive_` of `App`: a suspend,
a resume that none came before, and the end of `StopSources` drain what is posted
(`DrainWindowEvents`), the first two while the hooks stay set and the
worker goes on. `handled`, `lost`, `discarded`, `posts` and `written` count what
the properties compare.

### PresentMonSession and FpsTelemetry

The provider's mutex makes each of its methods one step: an operator from a
session to what the service may leave, with failures after each inner call. A
measured number is represented by the process instance it was measured from, so
that "whose frames is this" is a question the model can ask; `PidOf` maps
instances to PIDs, which are reused. `FpsTelemetry` has the three users of the
session: the query of the UI thread (`fps`, the FPS authority: mode, target and
hold), the render verifier's worker and the watch of present activity. A UI
handler that changes the authority ends in a reconciliation (`ui`), which samples
at once, stops or does nothing; workers run in between.

### SystemTelemetry

`history` are the discharge readings with their ages, and whether the charger was
seen in since each (`recharged`, a ghost); `retained` a metric that can be missing: `had` and
`misses` count its polls, `cached` is what the aggregator keeps. The charger
comes and goes and the EC and Windows fail at will.

### EcHelper

Two processes: the UI thread of the runtime inside `ReadEcTelemetry`, and the
elevated helper. `at` is where the thread is in `EcHelperClient::Send` (entered,
at the prompt, connecting, writing, reading), `read` which of the sample's reads
it makes: temperature, fan and power, then four battery bytes on battery power.
`pipe`, `attempted` and `stage` are the members of the same names. A pipe is
named by the helper launched for it, since its random name is handed to that
process only; `toHelper` and `toClient` are what was written and not yet read. A
failure of the session (`SessionFails`) closes the transport and ends the sample;
a failed method only ends the read, a read of the battery excepted. `helper` is
where each process is in `wWinMain`: it opens the pipe, checks elevation and
connects to WMI (`Initialize`, `InitializeFails`), then reads a request, works,
and responds, until a read or a write of the pipe fails. Either process can die
at any point; a runtime that starts again meets the helper of the last one.
`payload`, `prompts` and `timeouts` record what the properties speak of. Requests
have an identity here that the protocol does not have: `AnswerIsOwn` says that
none is needed.

### MaxRefreshRate and TweakStartup

`desk` is what `QueryDisplayConfig` returns (each active target with its source),
`mode` what each device shows and `registry` what it has saved. The two differ
while a change is staged (`CDS_NORESET`), or when a call that failed was saved
all the same. `run` holds the locals of `Run` and of `RestoreChanges`; `run.at`
is the next call into Windows, from `ReadOriginal` through `Prepare`,
`FreshPaths`, `FreshModes`, `Retest`, `Write`, `Commit`, `AfterPaths` and
`AfterModes` to the six steps of `RestoreChanges` (`RollbackPaths` to
`RestoredModes`). Paths are grouped by source, and devices are taken in the order
of the code's `std::map`. Between any two calls the desktop may change (`Drift`:
a target goes or comes, a flag flips, a device gets another mode), and each call
may fail while `faults` remain: these two are Windows and its user. `fit` stands
for all that `SkipReason` refuses, `color` for what else `SameTopology` compares.
Which rates a driver lists, and which pass their test, is an outcome of
`Prepare`: the device keeps its rate, has no compatible mode, fails every test,
or gets a faster rate.

`TweakStartup` puts the worker thread around it: the DRR stage (`DrrRead` to
`DrrVerify`) writes the configuration it read back without its BOOST flags, the
refresh stage learns whether that succeeded, and the Intel stage is tried up to
`MaxAttempts` times while it is unavailable. `Stop` and `Joined` are the
destructor of the application. `mark` and `late` record what the properties speak
of: the last look of the stage at the desktop, and attempts begun after `Stop`.

### IntelVrr

`vrr` holds the locals of one `Run`, `vrr.pc` the next call: map the WMI panels to
targets, initialise the driver, then per panel query, collect evidence, decide,
revalidate the target, confirm the evidence, compare, write, and after it
revalidate, read back, collect the evidence again and verify, with the rollback
that only the LG has. `driver` is what the driver has in force, `port` which
monitor is at which target, `staged` the EDID overrides; `Plug`, `UserChooses`
and `StageOverride` are others. A refresh range is the class its distance
from the native one puts it in, which is all the code compares. A change between
the last check and the call it guards cannot be helped: `excused` records it.

### Startup, StartupTask and TrayIcon

`proc[p].at` is where a process is between `wWinMain` and the end of `~App`; the
gates come in the order of `App::Run`. `handles` and `owner` are the named mutex,
which exists while anyone has a handle. Processes may be killed anywhere, exit
by any gate, and run beside a `--managed` launch or the uninstall hook. `live` is
what `~App` stops before it releases the mutex: window, tray, HUD, sources and
Control; `tweaking` the tweak worker, which only the destructor of a member joins,
after that (`JoinTweaks` at the place `join`). An update that fails to apply is
caught and the start goes on (`ApplyFails`). `ini`,
`board`, `runtime`, `msi` and `package` are the machine. `StartupTask` has the
task (`task`: absent, as wanted, drifted), what a read of it shows, which may
lag, and one elevated child per process (`sync`), which may be refused, hang,
outlive its parent and act just as it is terminated. `TrayIcon` has the shell as
its other party.

### FrontEnd and FrontEndProcess

Everything in the window runs on its UI thread; requests are answered by a pipe
with one instance (`slot`): one that the client gave up is still served.
`live` and `saved` are the opacity on the HUD and in settings.ini, `thumb` the
slider, `wanted` the last value it gave, `snapshot` what the window shows.
Another client of the pipe changes the runtime behind the window's back (the menu
of the tray has Settings and Exit only), and the runtime stops.
`FrontEndProcess` has the processes: primary, relay, the activation event, and
the check, hook and check again of the runtime's process. A relay may meet a
primary that is not listening yet, or is leaving. Processes are terminated.

## The runs

| Run | Question | Bounds | Distinct states |
|---|---|---|---|
| `bridge` | With two producers and calls from the main thread itself: are `Executed` and `ShuttingDown` true, does the order of submission hold, does every `Dispatch` return? | three threads, four calls | 51,022 |
| `channel` | Are clients told the truth; is the bridge in the runtime the abstract service; does the shutdown follow its acknowledgement; do the exit and every received request end? | two clients, one connection each | 123,909 |
| `hud` | What is on the screen, what is sampled and armed, across every interleaving of messages; does each recovery end, and what does one that was given up leave? | two options, one opacity, the real six attempts, three platforms | 23,080 |
| `hud_content` | Whose numbers does the HUD show and for how long; who tracks what in PresentMon; after failed changes and rollbacks, do presentation, memory and file agree? | three process instances on two PIDs, hold of three samples; thresholds of three polls; two options, two opacities, two attempts | 832,424 |
| `game_session` | Which process becomes the target, does a game become it, does a dead one stop being it, is a stop complete? | two instances in four machines, one stale message per kind, one event per window | 390,741 |
| `sources` | Is an accepted window event ever lost unaccounted or overtaken; does the Steam watch look at the right key; what is left after a stop; whose answer does an EC read get, and what do prompts and time-outs cost? | queue of two; four events with one fault and one suspend or resume, three events with three of these, four registry writes with one fault, or two events and two writes with one fault; two helpers, three request identities | 301,171 |
| `tweaks` | Is what the stages report what Windows and the driver have; does a write have its reasons when it is made; what does a stop wait for? | two targets, two devices, two rates, six desktops, one change, one failure; an internal and an LG panel, two runs, one change of the world | 1,667,364 |
| `startup` | Who has a gate, a source or a tweak worker without the mutex; is the setting shown what was answered and stored, with one prompt for it; does every start end, does the icon come back? | two process slots, two launches, one change from outside (none where ends are asked for); three retries, two refusals, two shells | 609,226 |
| `front_end` | Does the last opacity win, live and on disk; does the window show the runtime; is there one window; do both codecs agree; does nothing stay disabled? | three opacities, two other values, five acts, one fault; three launches, one kill; one byte altered, three texts | 383,228 |
| `hud_always` | Does Always keep the HUD visible? **No** (finding 1). | as `hud`, initialisation may fail | |
| `game_foreground` | Is the target always the foreground process? **No** (finding 2). | as `game_session` | |
| `sources_steam` | Does the Steam session follow the registry? **No** (finding 3). | three writes, no fault | |

Deadlock is checked in `hud`, `game_session` and `sources`. It is not where the
system may stop: the calls of `bridge` and the clients of `channel` are finite and
a runtime that has shut down is done; the tweak worker ends; the launches of
`startup` and the acts of `front_end` are finite; the telemetry of `hud_content`
has nothing to do once its processes are gone.

A property named in a cfg may be a conjunction: of the type invariant with the
invariants of the same question (`HudFollowsPolicy`, `ControllerAgreesWithDetector`,
`MeasurementsAreOwn`, `BatteryIsHonest`, `ResultIsSound`, `WritesAreJustified`), or
of the liveness of the parts of a run (`StartupSettles`, `FrontEndSettles`,
`FeedersSettle`). Its parts are named and stated in the modules.

Why the bounds are enough:

- Bridge: the races are between one submission whose wake-up fails, another
  whose wake-up succeeds, a drain and a stop. Two calls by each producer allow a
  thread to come back with a second call while its first `Pending` is still in a
  drain batch.
- Channel: one client in the single pipe instance and one kept out by it; a
  connection is independent of earlier ones except through the instance.
- HUD: two options are what a change, a failed change and a rollback need. The
  platforms are one where nothing fails, one where initialising and drawing fail
  or find no buffer, and one where showing fails too. The settings part of
  `hud_content` does not look at recovery and takes two attempts.
- Telemetry: two instances that share a PID and one with its own are every
  relation of a value to a target. Three samples of hold (2000 ms are four in the
  code) and three polls let a value be renewed in the middle of its hold and lost at
  its end; the theorems hold for every hold, set of processes and threshold.
- Game session: two instances are the old and the new owner of a PID, or the two
  games of a handoff; the machines have the former in both orders and the latter
  with and without failures. `MaxPosted` = 1 is one stale completion next to the
  live verifier; `MaxEvents` = 1 still allows every order of window events and
  foreground messages. Request identities count 64 bits up in the code; they are
  only compared for equality, so one that nothing refers to is used again.
- Sources: a queue of two (512 in the code) is empty, neither, and full, with the
  worker holding one more. Three changes of power are a suspend, its resume and a
  suspend again while the recovery goes on, or resumes whose suspend was missed. The theorems hold for every capacity and budget.
- EC helper: two helper processes are the current one and one left over by an
  earlier client; a third would meet the same pipe, closed. Of three request
  identities one can be the current request and two others still with helpers.
  `LastRead` is the real length of a sample.
- Display tweaks: two devices are what a staged change needs, and a partial
  result. The desktops have none, one, a boosted, a refused and a cloned display,
  and two displays. One change by others can fall between any two calls, and one
  call can fail at any of them, so every rollback is reached by a failure or by a
  verification that found a change. `Others` ends with the two stages: the Intel
  stage does not read what `Drift` changes.
- Intel VRR: a panel with and one without a rollback, at one another's target or
  unplugged; every call fails at will; the second run is the retry.
- Startup: two slots are the owner and whoever comes meanwhile; the slot of one
  that ended is used by the next. The theorems hold for any number. Where it is
  asked whether a start ends, nothing changes the task from outside: no wait of a
  process ends by what the task is, each has its time limit.
- Front end: three opacities are a preview, a later one and the one the runtime
  starts with; the second value of the other settings is what another client sets;
  five acts are a gesture, its end and another control. Three processes are a
  primary that leaves, one that meets it, and the next. Every request goes through
  the codecs; every byte of every frame is altered once, to the values at which
  a field changes its meaning.

Modules that share nothing are checked in one run, one behaviour moving one of
them: the states of a run are the sum of theirs, not the product.

## Fairness

- Bridge: a thread inside `Dispatch` runs on, and posted wake-ups are handled.
  Nothing makes a call start or the bridge stop.
- Channel: both threads of the runtime run, and a posted message is handled
  (the queue is first in, first out). Clients owe nothing.
- HUD: an armed resume timer goes off and its message is dispatched. Nothing is
  assumed of any other message, so `RecoveryEnds` stands against any of them.
- Game session: whatever is posted leaves the first in, first out queue; a
  recovery comes to an end (`RecoveryEnds` of `HudLifecycle`); the verifier's
  thread runs. The machine owes nothing. `GameIsDetected` has premises of its
  own: the game stays at full screen in the foreground outside the gate, and a
  change of its window is heard of again and again, since a completion that was
  discarded is only made up for by the next evaluation.
- Sources: the UI thread, the window worker and the watch loop run. Events,
  registry writes, changes of power, the end of a recovery, faults and the exit are not
  owed; `SourcesSettle` says what
  follows when the stop comes.
- EC helper: the UI thread inside a sample runs on: its waits time out (30 s to
  connect or to read), and Windows withdraws a prompt that nobody answers. The
  helper owes nothing, since a WMI call may never return; only `HelperEnds` has
  as its premise that it makes its steps.
- Display tweaks: the worker makes its steps (its calls into Windows return and
  its wait is bounded) and the join sees its end. No change of the desktop, no
  failure and no stop is owed.
- Startup: a process makes its steps, the waits for the elevated child, the
  installer and the readback being bounded in the code; a user answers a prompt
  and dismisses a message box. The elevated child, msiexec and the user's exit owe
  nothing. Tray: timer ticks and `TaskbarCreated` are handled; `IconReturns` has
  as its premise that the shell stays up and does not refuse a whole round.
- Front end: the dispatcher of the window and the pipe run, and a request's
  time-out elapses; a process makes its steps. The user and other clients owe
  nothing.
  For a runtime that is gone only the time-out is assumed.

No run of `hud_content` needs fairness. Every fairness condition is weak.

## What is proved

Eight modules of theorems, listed in PROJECT.json:

| Module | Theorems about |
|---|---|
| `DispatchBridgeProofs` | `DispatchBridge`, and that it implements `ControlService` |
| `ControlChannelProofs` | `ControlChannel`, and that it implements `ControlService` |
| `HudLifecycleProofs` | `HudLifecycle` |
| `GameSessionProofs` | `GameSession`; `EventSources` |
| `TelemetryProofs` | `FpsTelemetry` with `PresentMonSession`; `SystemTelemetry`; `EcHelper` |
| `TweakProofs` | `TweakStartup` with `MaxRefreshRate`; `IntelVrr` |
| `StartupProofs` | `Startup` with `StartupTask` |
| `FrontEndProofs` | `FrontEnd`; `FrontEndProcess`; `WireProtocol` |

Each states its result for every value of the constants. What is assumed of
these is named in the module that declares them (`CallsAssumption`,
`DistinctAssumption`, `CapacityAssumption`, ...), and every run evaluates it.
All 25 invariants that the runs check are theorems; the sections below say
which, and "Left to TLC" what is not.

`DispatchBridgeProofs` proves, for every set of threads, every set of calls and
every assignment of calls to threads (assumption: `CallsAssumption`):

| Theorem | Statement |
|---|---|
| `TypeCorrect` | the type invariant |
| `HandledAtMostOnce` | the handler never runs twice for a request |
| `AnswersAreTrue` | `Executed` means it ran once, `ShuttingDown` that it did not |
| `StopIsFinal` | once `Stop()` has begun no handler runs |
| `RequestsRunInOrder` | `FifoExecution`: no request overtakes an older one that can still be run, for any number of producers |
| `UnavailableIsTrue` | with one background thread, `RuntimeUnavailable` means it did not run |
| `BridgeRefinesService` | with one background thread, every behaviour of the bridge is one of `ControlService` (its initial states and steps) |

`AnswersAreTrue` is not inductive: that a returned answer is true depends on what
the handler did to calls that are still queued, batched or in the handler. The
inductive invariant `IInv` therefore says that no call is in the queue and in a
batch, that a queued or batched call has not run (`QueuedNotRun`), that the call
in the handler is neither (`CurrentIsHandled`, `InHandler`), that a call not yet
made has left no trace (`NotYetCalled`), that only the main thread calls itself
(`SelfOnMain`), and that an answer matches what was executed (`AnswersMatch`).

`RequestsRunInOrder` is the order across a swap. `FifoInv` adds to `IInv` that the
tickets grow from the handler to the batch to the queue (`OlderFirst`), that a call
that waits for its turn is in one of the three (`NothingLost`: no wake-up failure and
no stop takes out another's request), and that a drain ends with an empty batch
(`BatchIsDone`), so that the next swap takes nothing older away.

`UnavailableIsTrue` needs more, and the premise `OneBackgroundThread` (all calls
are made by the main thread or by one other). `SInv` adds to `IInv` that at most
one background call is inside (`OneInside`), so a wake-up in the message queue,
or a drain, is for the one that waits (`LoneWake`, `HeldWasWoken`): a call whose
own wake-up failed has not run (`UnwokenNotRun`). The first observation on Control
below is the same argument failing with a second producer. The refinement is proved from `SInv` step by
step: each action maps to one of `ControlService` or to a stutter.

`ControlChannelProofs` proves, for every set of clients (assumption:
`ClientsAssumption`, that `NoClient` is none of them and the two threads differ):

| Theorem | Statement |
|---|---|
| `ChannelIsSound` | the inductive invariant below |
| `ChannelTypeCorrect` | the type invariant |
| `ClientIsAlwaysToldTheTruth` | what a client reads about its request is true and stays true |
| `ShutdownIsAcknowledged` | the shutdown is posted only after its success was written and the connection closed |
| `TeardownIsFinal` | nothing is posted to a destroyed window, no handler runs on sources that are torn down |
| `ChannelRefinesService` | the initial states and steps of `ControlService` |

The channel is the environment of the bridge: its calls are those of one worker
thread, so `DispatchBridgeProofs` is instantiated with that, its assumption
`OneBackgroundThread` discharged, and every step of the channel is shown to be one of
the bridge or to leave it alone (`StepOfBridge`). Hence `SInv` holds in it, and the
refinement follows. What the bridge does not know is added by `Follows`: where the
exit is and what it has stopped (`AppFollows`), that a connected client is the one
the worker serves (`PeerFollows`), that its call is in progress exactly then and
that what is written is what the call returned (`CallFollows`). `RefusedFollows` and
`ArmFollows`, which need `Follows` and are kept by what it says, tie a refusal to an
exit and an armed shutdown to a client that was told so.

`HudLifecycleProofs` proves, for any options, opacities, number of attempts and
machines on which anything may fail (assumptions: `OptionsAssumption`,
`MaxAttemptsAssumption`, `PlatformsAssumption`):

| Theorem | Statement |
|---|---|
| `HudIsSound` | the inductive invariant below |
| `DisabledIsAlwaysQuiet` | a HUD that is off shows nothing and has no timer and no EC helper |
| `HudAlwaysFollowsPolicy` | the type invariant; the gate of a recovery is closed exactly while its timer is armed; what is shown, and what is not, is what the policy says |
| `HudIsSampledAsShown` | a visible HUD is sampled, and where nothing fails only a visible one |
| `ChangesAreWhole` | after a change, or its failure and rollback, memory, presentation and settings.ini agree |
| `ForegroundRepairs` | the next foreground message shows what a recovery that was given up left hidden (`ForegroundSettles`, the action part of `RecoveryEnds`) |

A handler is a sequential program over the state of `App`, so the proof is one of
such programs: each operator has a lemma that says what it leaves alone (`Steady`,
`Screen`) and what it may have done (`Paint`, `Reconciled`), and a handler's
lemma composes them in the order of its calls. The four invariants of the run are
not inductive one by one. `Ready` couples sampling, the timers and the EC helper
with `enabled` and with each other: `StopHud` and a failed start undo all or
nothing. `Fixed` couples the presentation with the settings and these with what is
saved: what a rollback restores is what the file has. `Policy` is what a
reconciliation establishes and every handler has to keep outside the gate, and
`Driven` ties the gate to the resume timer and its attempts. `HudInv` adds that a
runtime that does not run is a function of settings.ini, which is all a start
begins with.

`GameSessionProofs` proves, for any processes, PIDs, request identities, machines
and bounds of the queues (assumptions: `ScenarioAssumption`, `BoundsAssumption`,
`NoneAssumption`, and `DistinctAssumption`: two processes that run do not have the
same PID):

| Theorem | Statement |
|---|---|
| `GameSessionIsSound` | the inductive invariant below |
| `ControllerAlwaysAgrees` | the type invariant; the target is the detector's; an open request is that of the running verifier |
| `TargetIsAlwaysGame` | a process that displays no frames is never the target, whatever its PID has earned |
| `SuspendIsAlwaysQuiet` | suspended or disabled, no verifier runs and no older completion is handled |
| `TargetIsAlwaysSelectedInForeground` | a process becomes the target only in the foreground of a HUD that is on |

Evidence travels: a frame is found by the worker, posted, handled much later, kept in
the cache and read under a PID that may have a new owner by then. So `Honest` says of
all these places that the process there `Deserves` it: it displayed frames, and if it
still runs it is not one that displays none. A frame that the worker finds for a PID
was displayed by the request's process, or that process is dead (`FramesAreEarned`,
which is where `DistinctAssumption` enters). `Agree` and `Paired` tie the detector's open
request, the verifier's active one and the worker's to each other; `Follows` ties the
target to the last evaluation. There is always a request identity that nothing refers
to, by counting those that are (`ReferredIsSmall`). `Outcome` says what a sequence of
evaluations, reconciliations and joins of the worker may have done to the target, and
`Handled` what a handler guarantees; `SessionAges` that the machine's own
steps (a process is born, dies, leaves full screen) take no evidence back.

`GameSessionProofs` proves of `EventSources`, for every capacity and any number of
events, writes and faults:

| Theorem | Statement |
|---|---|
| `WatchStaysDeepest` | `WatchIsDeepest`: a watch that waits is armed on the deepest key |
| `WatchPostsNoMoreThanWritten` | at most one message for each registry write |
| `AppIdIsStaleOnlyAfterGap` | `StaleOnlyAfterGap`: while the session keeps another AppID than the registry, a read is under way, or the gap of finding 3 or a post that failed came before |
| `StopLeavesNothing` | `QuietAfterStop` |
| `EventsKept` | `EventsAreKept`, of unbounded sequences: every accepted event is handled, in flight, lost to a full queue or a failed post, or drained once it was posted |

The watch is deepest because `watched` never exceeds `depth`, and a watch that is
armed, or about to be, either has the deepest key or an event that is signalled.
Posts stay below writes because they are strictly below while a notification is
pending, and the event is reset after the key was closed. `StaleInv` says that the watch is armed before the
value is first read, is armed only while the loop watches, and that without the key
there is no AppID: whatever is written after that is then in a signalled event, in a
posted message or in `missed`. Each step of
`StopSources` leaves its worker gone and its queue empty for the steps after it. For
the queue, `WorkerInv` says that without a worker there is no hook and nothing
pending, `EventsAddUp` is the conservation law and `OldestFirst` the order across
`inbox`, `inHand`, `pending` and the next number; lemmas on `Append` and `Tail`
carry them through the steps.

`TelemetryProofs` proves of `SystemTelemetry`, for every threshold, window and sample count:

| Theorem | Statement |
|---|---|
| `SystemTypeCorrect` | the type invariant |
| `HistoryIsOneDischarge` | no sample of an earlier discharge survives a reading with the charger in |
| `RetainedExactly` | a metric is retained for exactly the promised number of empty polls |
| `BatteryStaysHonest` | `BatteryIsHonest`, the three together |

`RetentionIsExact` relates what the aggregator keeps to what happened, and needs
that its counter is that of the empty polls while it keeps a value.

Of `FpsTelemetry` it proves, for every set of process instances, PIDs and users of
them, and every hold (assumptions: `PidAssumption`, `HoldAssumption`,
`LastingAssumption`, `WorkerAssumption`):

| Theorem | Statement |
|---|---|
| `TrackingIsExact` | `TrackingMatchesHolders`: a process is tracked exactly as long as a user holds it |
| `NumbersAreOwn` | `MeasurementsAreOwn`: the values shown, the hold, the evidence, and the types |

There are two inductive invariants. `IInv` is about counts: `Counted` equates the
count of each PID with the number of users that hold it (`Held`), and `Sound` adds
that a session that is not ready is held by nobody, which is what lets the release
of an unready provider do nothing. The lemmas follow the operators of
`PresentMonSession`: `Takes` says that one user takes one PID, `OneMore` that this
adds one to one count, and every start, stop, retarget, release and verification
is made of such steps. `OwnInv` adds whose frames there are. It is not enough that
the value shown is of the target: so must the held one be (`HoldOf`), whose age is
the time since it was fresh, and every process that has the PID (`OwnersOf`) or
that the query averages (`From`). For the evidence the session must be armed for the
verifier's PID with nothing in its queue that is older (`VerifierOwn`). `Beside` and
`Keeps` say what an operation leaves of the frames, the verification and the query.

`TelemetryProofs` proves of `EcHelper`, for every set of helper processes and of request
identities (assumption: `NoneAssumption`, that `None` is neither):

| Theorem | Statement |
|---|---|
| `EcTypeCorrect` | the type invariant |
| `Exchanges` | the inductive invariant below |
| `AnswersAreOwn` | a value a read returns is the helper's answer to that read |
| `FailsOnceHolds` | one client costs at most one prompt and one full time-out |

`AnswerIsOwn` is not inductive: whether the next response is the right one
depends on what is on its way. `EcInv` says that a pipe that is given up is empty
(`ClosedIsEmpty`), that nothing is on its way between two exchanges
(`NothingOnItsWay`), that during one the request is in the pipe, with the helper
or answered (`OneExchange`), and that a helper that could not be set up has
written one message and left (`SetUpFirst`); `Latched` says that a client with a
pipe has made its launch and has not timed out, which gives `FailsOnce`. There
is one lemma per action, or per group of actions that move the same state.

`TweakProofs` proves of `TweakStartup` and `MaxRefreshRate`, for every set of displays,
devices, rates and desktops, and any number of changes and failures (assumptions: those
on the desktops and rates, and that the devices are finitely many):

| Theorem | Statement |
|---|---|
| `StageIsSound` | the inductive invariant below |
| `ResultsAreSound` | `ResultIsSound`: the types; the counters and the status of the stage follow from what became of each device; nothing is left staged behind a result that does not say so; what is reported applied, or at its best, is what Windows has, unless somebody changed it after the last look |
| `LateAttemptIsLast` | the invariant of the Intel stage |
| `OneAttempt` | at most one attempt of the Intel stage begins after `Stop` |

`StageInv` follows the run through its steps, and the lemmas through the
operators of the code. `Counted` makes each counter the number of devices of its
status, which is preserved because every `Mark` gives one to devices that had none, or
moves them out of one count (`Marked`: who has a status at which step). `Staged` bounds
the devices whose saved mode is not the one they show, per step: none before the first
write and none after a commit; the prepared ones while a batch is written; those still
to do while they are put back. `Looked` says that what was read is what Windows has, as
long as `drift` is what it was at the last look, and `InTurn` that one stage runs at a
time.

That one attempt at most is late does not follow from itself: `LateIsLast` adds
that none is late while the application is up, and that after the late one the
worker is done or in a wait, which sees the stop. `Shape` says that `startup` is
a record of its fields, which is all of the type the steps need.

Of `IntelVrr` it proves, for any panels, targets, profiles found, changes and runs
(assumption: `PanelAssumption`):

| Theorem | Statement |
|---|---|
| `VrrIsSound` | the inductive invariant below |
| `ReportsAreTrue` | the status of a panel that nobody else touched is what the driver has in force |
| `VrrWritesAreJustified` | the type invariant; a write meets the panel it was decided for, on a profile it may replace, or somebody changed that after the last look; a panel that is right is not written again |

What a run reports is decided from what it read earlier, so the invariant follows
the run: `Located` says that a panel is where the run believes it, or that it and
what is there instead were touched; `Progress` what is to do, in hand and done;
`Understood` that what was queried of an untouched panel is what the driver has,
before and after the write; `Decided` what must have been established for the run to
be where it is. `Reported` is the claim about every panel but the one in hand.
`Aimed` is what a write will meet, with the excuses of `excused` for changes that
come after the check of the same thing, and `SettledStay` that a panel that is right
is not written again.

`StartupProofs` proves `OneRuntimeHolds` (`OneRuntime`), for any number of
processes, launches, failures and kills. The mutex is created only when nobody has
a handle, so the strengthening is that the owner has one (`owner` is in `handles`),
that whoever passes the gates or has a window, tray, HUD, source or Control pipe is
the owner, and that a process at the release has none of these left: `~App` stops
them before it. The tweak worker is not among them, and the theorem says what the
code gives: a process with one is the owner, or is past the release and waits for it.

It also proves `TaskIsAlwaysAsAnswered` (`TaskIsAsAnswered`: the types, that the setting
shown is the one stored, and that nobody is asked twice for what was confirmed), from
`ProcAssumption` and `LaunchesAssumption` (the bounds are numbers, no process is called
`Nobody`). `KnownIsSeen` says that after a confirmed change a reader sees it whatever an
orphaned child does, since whoever changes the task otherwise forgets what is known.
`SettingInv` says that a process has what is stored from the gate to its end, but while
it changes the task, when it has the opposite: every way back from there either stores
that or takes it back.

`FrontEndProofs` proves of `FrontEnd`, for any opacities and other values, and any
number of acts and failures (assumptions: `OpacitiesAssumption`, that an opacity is a
positive number, and `ActsAssumption`, that the bounds are numbers):

| Theorem | Statement |
|---|---|
| `WindowIsSound` | the inductive invariant below |
| `LastOpacityAlwaysWins` | at rest and without a failed request, the last value of the opacity slider is shown and saved |
| `WindowAlwaysShowsRuntime` | at rest the window, slider included, shows what the runtime has, unless that changed without a word to it |

Both speak of a window at rest and have to be carried through every gesture. `CallsMatch`
says that a flow has a call exactly when the window waits for it, that it asks what the
window means, and that the pipe holds what was sent. `OneInteraction` excludes the
combinations of flags the code never tests for, above all a change, a gesture or a refresh
during another, so that an answer is the only one there is (`AnsweredAlone`).
`OpacityFollows` is the heart: without a value in hand, or once a commit has succeeded,
what is live and saved is what was wanted; and a request that was given up and is still
in the pipe is one whose failure the window knows of or is about to read.
`SnapshotFollows` says the same of the newest answer and the runtime, `ThumbFollows` of
the slider.

Of `FrontEndProcess` it proves `OnePrimaryHolds` (`OnePrimary`), for any number of
launches and kills: a newcomer becomes the primary only if it created the mutex,
which it does only when there is no handle to it, and every primary has one.

Of `WireProtocol` it proves, for any texts and any values an altered byte may take
(assumption: `BytesAssumption`, that both are made of bytes):

| Theorem | Statement |
|---|---|
| `WireIsAlwaysFaithful` | `WireIsFaithful`: the front end understands every answer as it was meant, and neither side accepts a frame that is not the frame of the message it takes it for |
| `EffectIsAlwaysAsAsked` | `EffectIsAsAsked`: an intact request changes the setting that was meant, to its value, and nothing else |

No definition of the codecs is recursive, so nothing has to be said by induction over
the bytes. The argument goes from the number up. `LE` and `Num` are inverse for the
values that fit a width, and a number stands at a position exactly if its bytes do
(`NumberIs`); the same for a text (`TextIs`), whose length and UTF-8 are checked by what
reads it. A frame is therefore equal to a header and a payload exactly if it is read as
them (`FrameIs`), which gives both directions: decoding what was encoded, and encoding
what was decoded (`RequestExact`, `ResponseExact`). `ReplyUnderstood` and
`RequestAccepted` are the two ways of an exchange. The inductive invariant `WireInv`
adds that a frame nobody altered is that of the request asked or of what the runtime did,
and that what it did is an answer with a known operation, or with `UnknownOperation`, of
the settings it has (`IsReply`): after a change, the new ones. `RequestsSay` goes through
the twelve requests, which two programs number on their own.

Left to TLC:

- liveness, and with it the fair part of `ControlService`: `RecoveryEnds` (but for
  `ForegroundSettles`), `GameIsDetected` and the rest of `DetectionKeepsUp`,
  `EveryCallReturns` (the other half of `ServedInTurn`), `SourcesSettle`, `HelperEnds`,
  `TweakWorkerEnds`, `StartEnds` and `IconReturns`, `FrontEndSettles`, `ChannelSettles`:
  the prover has no rule for fairness or ENABLED;

## Findings

1. `HudController.cpp:204` (run `hud_always`). After a change whose recreation and
   rollback both failed, the next change revives the presentation hidden, because
   what is restored is the visibility of the dead one, and nothing reconciles it
   (README.md:75: "**Always** keeps the HUD visible without depending on game
   detection").
2. `ForegroundTracker.cpp:53` (run `game_foreground`). Foreground A, B, A while the
   message for B is queued, with an evaluation in between that reads the foreground
   itself: B becomes the target and stays it in the background
   (`GameSessionCutoverPolicy.h:18`).
3. `SteamRunningAppIdSource.cpp:152` (run `sources_steam`). The watch is armed again
   after the change was posted: an AppID written between the UI thread's read and
   the re-arming is notified to nobody, and the Steam session keeps the old one
   until the next write
   (`docs/GAME_DETECTION_REDESIGN_PR_PLAN_2026-08-31.md:829`,
   `docs/GAME_DETECTION_PRODUCTION_DESIGN.md:556`). `StaleOnlyAfterGap` shows that
   this gap, and a post that failed, are the only ways to it.

## Observations

Behaviour met while modelling that no run states, because no document rules it
out or because it takes a premise the runtime does not have.

Control and HUD:

- With two threads in `Dispatch`, a request whose wake-up failed can have been run
  by the wake-up of the other, and is answered `RuntimeUnavailable`
  (`RuntimeControlDispatchBridge.cpp:98`; the header, line 51, promises any thread
  a request that is executed or fails deterministically). The runtime has one
  producer, where this cannot happen (`UnavailableIsTrue`).
- A client that closes without reading the `RequestShutdown` response still gets
  the runtime shut down (`RuntimeControlPipeServer.cpp:314`); the CH_RTF_7 work
  order (line 636) asks for a consumed one.
- Five texts of the longest legal length exceed `kMaxPayloadBytes`.
- A recovery that never gets a free buffer is exhausted without a reconciliation
  (`App.cpp:434`): an Always HUD stays hidden until the next foreground change
  (`RecoveryEnds`). It also drops a renderer completion without an evaluation.
- The branch of `App.cpp:418-425` that waits for a resume is unreachable: the
  recovery is cancelled by the suspend.
- An opacity that was only previewed is saved by the next change of anything
  else (`App.cpp:721`).

Detection, telemetry, EC:

- A verifier that is started again for an instance whose completion was lost
  gets a new request; a completion handled between the two leaves its worker
  running, with its PresentMon lease, until the next start or stop.
- In Always mode a target is its PID only: the hold of a value may outlive the
  process and be renewed by the next owner of the PID.
- A response that reports a failed set-up (`HelperNotElevated`, `ConnectWmi`) or
  another protocol version leaves the transport of `EcHelperClient` open; it is
  closed by the next request, whose write or read fails, in the former case.

Tweaks:

- `ApplyFailed` does not tell whether the rollback behind it succeeded, as
  `Partial` and `VerifyFailed` do (`WindowsMaxRefreshRate.cpp:1218`), and a
  rollback whose first query fails returns before it writes anything back, so
  that staged modes stay saved.
- The DRR stage applies the whole configuration it read: a mode that the user
  changed in between is changed back (`WindowsDrrDisable.cpp:469`).
- A Claw panel whose range is between 0.1 and 0.25 Hz off is asked to change by
  `EvaluateClawInternalProfile` and refused by `IsIntelVrrProfileChangeAllowed`:
  it is `Unavailable` on every retry.

Startup and front end:

- The settings are loaded before the single-instance gate: what a running instance
  saves in between is lost with the next save.
- The tweak worker is joined by the destructor of a member, after `~App` released
  the mutex; a new instance can run its display stages meanwhile (`OneRuntime` names
  this as the one exception).
- A Standalone process at its error box holds the mutex, and so does the handle of
  a loser: a start meanwhile reports AlreadyRunning.
- Terminating the elevated helper may fail, and a failed wait leaves it
  (`StartupTaskRegistration.h:137`: "Never leaves a detached elevated process").
- A start after an installer that timed out starts another; an update package that
  fails to apply is applied again by every start (`App.cpp:771`).
- An opacity in settings.ini that is no multiple of 5 makes `ToWireSnapshot` refuse
  every snapshot, and the Settings window closes as it loads.
- The wait for activations is registered before anyone subscribes to them
  (`SettingsInstanceCoordinator.cs:67`, `App.xaml.cs:57`), against the comment at
  line 13; the dispatcher makes this harmless. A relay that wakes a primary in
  `OnExit` leaves no window.
- A commit that fails after its preview leaves the live opacity other than the
  saved one until the next save.

## Abstractions

- Font, size, alignment and background are one `option`. (In full-width mode
  `SetAlignment` only redraws; the model recreates.) In the front end all settings
  but the opacity are one.
- The EC and the battery timer are armed and killed together and are one, `"ec"`.
- What a sample contains, layout, drawing, logging and formatting are left out;
  a measured number is whose it is.
- A request handled by `App` is a mutation or a `RequestShutdown` in the channel;
  what a mutation does is the `ControlRequest` of `HudLifecycle`.
- A handler of `GameSession` is atomic with respect to the machine, except for
  the verifier's thread. Each instance has one window. Several messages of the
  same kind for the same window are one.
- The pipe of the EC helper carries whole messages: the client and the helper
  both read and write to the end, and a time-out in between closes the pipe. The
  write of a request does not wait: its buffer holds one and is empty
  (`NothingOnItsWay`). No window message is handled inside a sample, the
  elevation prompt included; what a payload decodes to is left out.
- A failing process query counts as a window that is not admitted; the 250 ms
  debounce of name changes and the list of excluded executables are left out.
- The reads of a loop over the devices are one step, and so are the listing and
  the tests of one device. `ERROR_INSUFFICIENT_BUFFER` and its retries are one
  reading, or one failure. To `TweakStartup` the Intel stage is its outcome:
  unavailable, or not.
- The thirteen mismatch bits of the startup task are one, "drifted".

## Not modelled, and why

- HUD drawing and layout: no state that outlives a frame. Logging: output that
  nothing waits for or reads back. The menu of the tray.
- The Diagnostics tool (`ClawHUD.Diag`) and `archive/`: developer tools that
  capture once and share nothing with the runtime.
- `WindowsGameIdentitySource` and `WindowLifecycleSource`: debug observers that only
  write log lines.
- The download behind Velopack: sequential, and without state; when a start checks
  and applies is in `Startup`. A download cut short is not compared with its length.
- A write of settings.ini that fails half way: the file is one value. In `FrontEnd` and
  `HudLifecycle` a save does not fail at all: `App::SaveHudSettings` only logs it, and
  no answer tells of it. Of `LastOpacityWins` and `ChangeIsWhole`, what they say of
  the file holds as far as its writes succeed.
- The averages of floating-point samples: what is kept and dropped is modelled.
- The composition of all parts of `App` in one module: the state space of the
  product is out of TLC's reach, and each module leaves the others to its
  nondeterminism.

## Plan

Done: all modules above, with the runs and proofs of the tables. What is left, in
this order:

1. `PreviewHudOpacity` and `CommitHudOpacity` of `FrontEnd` composed with the
   settings part of `HudLifecycle`, in place of its `live` and `saved`.
2. An abstract "confirmed game or nothing" specification that `GameSession`
   implements.
3. Two coordinators of `TweakStartup` on one desktop, for the overlap that the late
   join allows.

## Running

`tlc -config <cfg> <module>` for a run of PROJECT.json, `tlapm <module>.tla` for each
`*Proofs` module. With two workers the longest run, `tweaks`, takes about three
minutes, and the longest proof, `FrontEndProofs`, about seven.
