# control-TV: TLA+ models, model checking and proofs

control-TV is a remote for Google TVs: a desktop window (Tauri, with a Python process behind
it), an MCP server over the same Python code, an Android app with a home-screen widget (Python
embedded), and a small receiver application on the TV. This directory holds TLA+ modules
translated from the source, TLC configurations that check them on small instances, and TLAPS
proofs that carry the most important results to every value of the constants. `PROJECT.json`
maps each definition to the lines it models and lists the runs, mutants, findings, hazards and
theorems.

## 1. Inventory

| Part | State it keeps | Operations | What is hard about it |
| --- | --- | --- | --- |
| Cast commands (`control_tv/service.py`, `adapters/pychromecast.py`) | per command: captured media identity, deadline, contradiction seen | play, pause, stop, seek, load, close_app, set_volume, set_muted, get_status | the TV is shared: other senders act between the read, the send and the confirmation; replies omit fields, answers are late or lost |
| Window-to-Python bridge (`src-tauri/src/bridge.rs`) | one slot, its lock, a process handle, per call a claim | call_bridge, recover, retire, terminate | a caller's timeout races its worker; processes hang, exit, are killed late; a worker may panic with the lock |
| JSON bridge, MCP server (`bridge.py`, `mcp_server.py`) | a lock with its queue, a worker thread | the tools | calls cancelled while they wait or run; what an error says of the delivery |
| Discovery and device memory (`service.py`, `adapters/pychromecast.py`, `device_memory.py`) | known devices, cached Chromecasts with their browser, file of kept TVs | discover, remember, forget, rediscovery | addresses that move, a scan or a save that fails between a forget and a command, a memory that cannot be read |
| TV remote (`adapters/tv_remote.py`, `tv_channels.py`) | connection per TV with its expiry, pairing, voice session, credentials on disk | pair, keys, text, links, voice, close; making and migrating credentials | a connection that expires or is lost between two awaits; a kill between two of six files |
| TV applications (`tv_channels.py`, `receiver_apps.py`, `tv_apps*.py`) | listener, deadline, kept list | launch, list, pair the debugging, probe | two ways to one TV; answers lost, repeated, late on a reused port |
| Streaming service (`screen_streaming/service.py`) | state, owned resources, lock, closed flag, deferred close | start, stop, close | close during start; hand-over of a close to the lock's holder; stops that fail |
| Screen stream controller (`controller.py`, `d1.py`) | status, serving thread, WebRTC lease, what it kept for a retry | start, stop, close, prepare, activate, release | stop during start, one stop of several that fails |
| HLS publisher and Cast receiver (`hls_publisher.py`, `cast_receiver.py`) | HTTP server, expiry timer, receiver session | start, stop, expire | expiry during a stop; the TV taken over by another sender |
| Screen cast, live encoder (`screencast/`, `h264_encoder.py`) | process groups, directories, what is unreclaimed | start, wait, stop, close, reclaim | groups that outlive their leader or SIGKILL, interrupts anywhere |
| Display layout (`display_layout.py`) | snapshot, timer, notice | check, apply, confirm, revert, close, _expire | a timer that fires while it is being cancelled; xrandr fails halfway; outputs go |
| Extended display (`virtual_display.py`) | its journal on disk, the mode, outputs it moved | create, remove, recover | killed between any two commands; the owner rearranges the desktop meanwhile |
| Audio route, restoration journal (`audio_route.py`, `restore_journal.py`) | journal and lock file on disk, null sink, default output | start, stop, recover; claim, release, write, clear | the same, two processes on one desktop, a person at the sound settings |
| Android widget (`WidgetTapHandler.kt`, `WidgetJob.kt`, `BridgeRelay.kt`, `WidgetActionRunner.kt`, `ClaimedTaps.kt`, ...) | tokens, selection, durable claims, WorkManager jobs, admission counter | handle, enqueue, run, tryTransaction, claim, deliver | broadcasts delivered twice, process death, jobs run again, wall clock set back, a Python that hangs |
| Acceptance traces (`command_trace.py`, `trace_files.py`, `acceptance_observer.py`, `scripts/acceptance_trace_evidence.py`) | event files, a gate of small files | record, hold, observe, release, judge | two processes, events that are not written, a verdict from what is left |
| WebRTC engine, desktop window, user interface, receiver application, packaging and scripts | | | see section 6 |

How they interact: the window and the MCP server call the bridge, the bridge calls
`ControlService` and the screen modules in one Python process; the widget calls the embedded
Python through `BridgeRelay`; the TV is shared by all of them and by people who use it directly;
processes share the journals on disk, the X server and the sound server.

What makes each part correct: a command is sent at most once and only to the media it was given
for, and "confirmed" is said only of what really happened (Cast); "not sent" is never said of a
request that was or will be sent, replies do not cross, nobody waits for ever (bridge, MCP,
widget); a request goes where the TV was seen, and what is said of an app is of this launch
(discovery, apps); a connection, a process or a resource that was started stays known to somebody
who stops it, whatever fails (remote, streaming, encoders, controller); what was changed on the
desktop can always be changed back, and is, without undoing what its owner did since (display,
extension, sound); evidence that passes is complete (traces).

## 2. Modules and how they correspond to the code

**Commands and requests**

- **`CastTv`** (external): the receiver of the TV. `tv` holds the true media, app, volume; `Reported`
  is the part of `_media_status` that decides what one reply says, with any of the fields in
  `Omissions` missing; a content id that is absent is `"none"`, one of spaces only `"blank"`. `OtherLoads`, `OtherPlayback`, `OtherEnds`, ... are people and other senders.
- **`ControlService`** extends it. One action per stage of a command (`PlaybackTarget`,
  `VolumeIsFixed`, `Send`, `TransportReturns`, `TransportRaises`, `ReadStatus`, `UseRead`,
  `VerifyEnds`) because the service gives up control at each network call, and the TV changes
  in between. `_IdentityCheck` is `ContradictionAfter`, `Mismatch`, `SameMedia`; the predicates
  handed to `_verify` are `Matches`. Time is one bit per command: its window is open or has expired.
- **`Delivery`**: the abstract promise of every front end about one request: it ends `answered`,
  `not_sent` or `uncertain`; `not_sent` means that it was never written and never will be.
  `BridgeCall`, `McpServer` and `WidgetTap` are shown to implement it.
- **`BridgeCall`**: `call_bridge` with its worker thread, the claim settled by compare-and-swap, the
  slot, the process and the thread that kills it. The variable `embedded` tells the desktop build
  (a child process that can be killed) from the Android one (Python in the same process, which can
  reject a call but not be killed); it never changes.
- **`McpServer`**: `_call` waits in the lock's queue (`lane`), runs `dispatch` on a thread and presents
  the answer; `Cancel` may come at any place. `CommandDelivery` is the table that says what an
  error code means for a command, `PresentError` the delivery that goes before it.
- **`Discovery`**: a scan of the bridge's request (and, with `Beside`, of the stream's thread), the
  refresh of saved addresses (`Refreshes`), the exchange of cached Chromecasts and browser at the end of `_discover` (`Swap`), `_reachable` (`Reach`, `FoundAgain`)
  and the memory file. TVs change address between any two steps. The ghosts `seen`, `owned` and
  `sentTo` record what was announced, kept and used.
- **`RemoteChannel`**: coroutines of one event loop, one action per stretch between two awaits;
  `Drop` is `_drop_connection`, `Ends` the end of `_session`. **`RemoteCredentials`**: one action per file
  that `_credentials` writes, `CredKilled` between any two.
- **`AppLaunch`**: a launch looks, opens the link, waits with one or two observations and reads the
  app in front (`_ask`, `launch_app`); `FallBack` is the handler that decides whether the TV's
  debugging may be tried; `Resolved` is `_resolve` over every state of an adb server; then the
  pairing, the list with its `.partial` file and the probe for the receiver.
- **`AcceptanceTrace`**: the recorder, the gate and the observer of two processes; `CheckC6` is the
  offline verdict, an operator over the files.
- **`WidgetTap`**: handler thread, WorkManager record, job thread and bridge worker of each tap; the
  durable claims with their eviction; `Die` loses everything that is not on disk.

**The screen**

- **`ScreenController`**: the caller's request and the sessions' threads (`job`), with the order in which
  `d1.py` assembles and stops a session (`ServiceFirst`; a release or an undo goes `SoundFirst`); `desk` says what is really taken on the computer, `kept` what
  the controller can still give back. A call succeeds, is refused, or raises halfway.
- **`StreamingSession`**: one program counter per calling thread; each start and each stop of a
  resource is a step of its own, so that a `close()` may come between any two.
- **`CastHls`**: publisher and receiver with their locks; `late` remembers that another sender acted
  between the status that was read and the command that followed, a window of one network call.
- **`ProcessGroup`**: a leader that may be a zombie, a member that outlives it, SIGTERM, grace and
  SIGKILL (`stop_process`). **`EncoderPlan`**: `select_plan`. **`LiveEncoder`** and **`Screencast`** extend
  both: every step of `start` may fail or be interrupted, and every stop may fail halfway.

**The desktop**

- **`DisplayLayout`**: `check` and `logical_size` as operators, with Python's rounding to even. The
  reference it is compared with, `UsableByEye` in `MCDisplayManager`, knows only points: what each screen shows.
- **`DisplayManager`**: `_lock` is held for a whole method, so a method is one step; `Fire` and
  `Expire` are separate because a timer that has run down waits for that lock and cannot be
  cancelled any more. The rule on configurations is the constant `Usable`; `MCDisplayManager`
  gives it `check` of `DisplayLayout`.
- **`RestoreJournal`**: the journal file and its flock as operators on `journal`, `owner` (who holds
  the flock) and `held` (whose object knows its descriptor: `_lock`). A dead process loses its
  lock, never the file.
- **`ExtendedDisplay`** extends it: the xrandr commands of a call are the sequence `todo`, run one at a
  time; a command may fail with or without its effect. `layout`, `output` and `mode` are the desktop.
- **`AudioRoute`** extends it: every `pactl` command of `start`, `recover` and `stop` is a step of its
  own, and the look of `_give_default_back` is apart from its command. `restored` is `_restored`;
  `task` is the caller that `recover` or `stop` returns to. A failed command may have had its
  effect (a `pactl` that timed out). `Choose`, `Unplug` and `PlugIn` are the person; when a default
  output goes, PulseAudio takes any real one (a null sink has the lowest priority). `Drop` is what
  the HLS path of `controller.py` does with a session whose stop failed; the WebRTC path keeps it
  and retries (`Stop` from `"tracked"`). Moving the sounds is a step that may fail but changes
  nothing that is modelled.

`MC*` modules hold the constants of the instances; `*Proofs` modules hold the theorems. Operators
after a comment `Mutant:` are deliberate errors: each property has one or more that TLC must refute,
which shows that the property depends on the code it is about.

**Runs of several components.** `MCDesktop`, `MCScreenStream` and `MCRequests` check components that
belong together and share no variable. The variable `part` picks, in the initial state, the component
the behaviour is of; the others stay in one initial state. The states of such a run are the union
of the components' own state spaces, nothing is interleaved that does not interact, and each component's
fairness applies to its own behaviours. What one component does to another is inside the modules:
`ScreenController` has the outcomes of `ExtendedDisplay` and `AudioRoute`, and these two have the other
processes on the same desktop.

## 3. Runs

| Run | Instance | Shows |
| --- | --- | --- |
| `control_race` | two remotes, one playback command each, one foreign change, partial replies | sent at most once, only to the captured session; a confirmation was true at some instant since the send |
| `control_confirm` | one remote, every kind of command, two foreign changes, fairness | a contradiction, once seen, is never followed by a confirmation (X, Y, X); a command ends although the TV may never answer |
| `control_silent_reply` | a reply without content and state | **violated**: a stop is confirmed while the media plays on |
| `widget_once` | two taps, two TVs, one death, a clock that goes to 3 and is set back by 1 (`Drift`), record with room for one | at most one command, for the TV of the tap; the admission counter is exact |
| `widget_honest` | one tap, window requests, a worker that may hang, fairness | refinement of `Delivery`; every tap is answered |
| `widget_slow_record` | one tap | **violated**: "nothing was sent" is said, then the job runs |
| `desktop` | `DisplayManager`: two outputs, three changes, failing xrandr. `ExtendedDisplay`: two processes, a kill, a fault, a change by the owner. `LiveEncoder`, `Screencast`: two groups, two threads, two errors | the way back of a layout is lost only with an error (`WayBack`), that of an extension is in a journal (`ExtensionIsSafe`), and both are taken (`RevertsByItself`, `DesktopComesBack`); a recovery keeps what the owner moved since; no FFmpeg group and no output is untracked; every screen cast call ends; `check` accepts exactly the usable configurations, compared pixel by pixel (modes of 4x2 and 7x3 pixels, three scales, two orientations) |
| `screen_stream` | `ScreenController`: three sessions, two faults. `StreamingSession`: three threads, two calls each. `CastHls`: two stoppers, another sender, two failures. `AudioRoute`: two processes, two kills, one failure, one change by the person | no leak, no lost close; a live session is shown and alone; what cannot be given back is not silent; the TV's other senders are left alone; a publication ends; the sound's way back is on disk, no recovery undoes a running stream, the person's choice wins and comes back |
| `requests` | `BridgeCall`: two calls on both builds. `McpServer`: three calls. `Discovery`: two TVs, two addresses, two scans, a move, a failure. `RemoteChannel`: five connections, three losses. `RemoteCredentials`: five pairs. `AppLaunch`: two requests. `AcceptanceTrace`: a command, two switches, two lost writes | both hosts implement `Delivery` and every call ends; replies do not cross; tool calls run one at a time; requests go where the TV was seen, forgotten TVs stay forgotten; connections, voice and expiry stay in order; credentials survive kills; launches are single and truly reported; a trace that passes lost nothing |
| `remote_in_use` | two connections | **violated**: a connection in use is closed by the expiry of the call before |
| `display_stale_timer` | two changes | **violated**: the late timer of a confirmed change reverts the next one |
| `audio_dropped_route` | one process, one failure | **violated**: a taken lock without a stream behind it |

**Bounds.** Every bound is a named constant. Two remotes, two content ids and three sessions are
enough for A-B-A changes; two processes for a late kill that could hit its successor; two calls for a
lock poisoned by one and recovered by the other; three tool calls for one that is cancelled between a
running and a waiting one; two taps for one claim evicting another, and a clock that goes far enough to make one evictable
(`Lifetime = 0`, `Evictable = 2`) and comes back, by which an eviction one drift too early sends twice;
three sessions for one that is prepared over what a session over a failure hid; three changes for a timer that
survives two confirmations; two kills for a recovery that is killed itself, and two processes for one
that meets the other's stream; two groups for an encode that is started while the last one survives;
five connections for a pairing that replaces a pairing between two sessions; two TVs at two addresses
for an exchange of both; two launches for an answer that is late by one. Clock constants keep the order
of the real ones (`Lifetime + 2 * Drift <= Evictable <= Retention`), which is all that the code
compares. `widget_once` has a `VIEW` that leaves out what no step and none of its invariants reads: what
the widget said, and the times of forgotten claims and of taps that are over. Deadlock is not checked where the bounds, or a process that hangs, really stop the system.

**Fairness.** The program's own threads that can take a step eventually do, and time passes
(`ServiceStep`, `Expire`; caller, worker and kill threads of the bridge; the thread and the lock of a
tool call; the calls of the streaming service, the screen cast and the publisher with its expiry;
handler, record and job of a tap; timers of the display). Nothing is assumed of the TV, of the network,
of a Python process or of the embedded worker: they may hang for ever. `DesktopComesBack` and
`SoundComesBack` assume that control-TV is started again after it was killed (`Starts`, `Restart`),
which is when the code promises to restore; nobody has to start or stop a stream.

**Exceptions the properties state.** Each is a case the code does not cover:
`RevertsByItself` excepts a change whose restore failed (the retry is left to the owner);
`BackToTheChoice` outputs that change between a look and the `pactl` command after it (`raced`);
`SoundComesBack` (`told`) and `DesktopComesBack` (`warned`) an error that the owner was shown;
`ExtensionIsOnDisk` a stream accepted while a killed run's journal was on disk, which it overwrites
(`overtaken`); `RecoveryKeepsTheOwnersDesktop` a change between the look and the command (`looked`);
`OthersAreLeftAlone` a sender that acts after the status was read (`late`). `WayBack` excepts, from the
error on (`lost`) until the owner keeps a configuration, the two places where no snapshot outlives a failed restore: an `apply()` that could neither set nor restore the screens, which
its docstring does not provide for, and a quit whose revert failed. (Its snapshot is in memory: a killed
process is outside the model.)

*A session over a failure.* `start()` accepts the state `FAILED`, also while that failure keeps a WebRTC
screen or sound for a later `stop()`, and the window does not prevent it: `stop_webrtc_stream` answers
idle after a release that failed, and `screen.ts` then shows idle. Such a session is marked by the history
variable `job.over`. `LiveSessionIsShown` is claimed while none is at work: beside one, the late release of
the lease under it overwrites its status. (That this release may still come then is the model's: a host may
release its lease at any time.) `NothingIsLeftSilently` excepts `Overwrites`: the session over the
failure ends idle, and the next `prepare_webrtc`, which asks only for an idle state without a lease,
overwrites `_webrtc_extension`: the screen stays extended and nothing says so. Without either exception
TLC finds the behaviour within the bounds of `screen_stream`.

## 4. Proofs

Checked by tlapm for every value of the constants that satisfies the named assumptions: any number of
remotes, processes, threads, groups, sessions, TVs, taps and requests, and any bound on kills, failures
and changes. Each invariant was first checked by TLC on an instance of the run; hardly any is inductive
as it stands, and what it needs is named here.

**Commands and requests**

- **`ControlServiceProofs`**: `TypeCorrect`, `AtMostOneSend`, `CapturedSessionOnly`, `ContradictionIsFinal`. The
  invariant `IInv` follows a message: while it is on its way it is the only trace of its command at the
  TV (`OnItsWay`, `OnePerCommand`), afterwards the log says what it hit (`Processed`); a command knows the
  session of its own read and any contradiction it saw (`Captured`). `ConfirmationWasTrue` needs that the
  history has recorded each instant the request was true, and that a read that will confirm was taken at
  such an instant (`Recorded`). Its hypothesis `RepliesSpeak` (no reply leaves out both content and
  state) is what `control_race` has and what `control_silent_reply` drops, where the property fails.
- **`BridgeProofs`**, of `call_bridge`: `TypeCorrect`, `NotSent`, `OneBridge`, `NoCrossing`, `Implements`
  (`Delivery`). `NotSentIsNeverWritten` is not inductive: the invariant adds who holds the lock
  (`LockInv`), what each side knows after the compare-and-swap (`ClaimInv`), that the pipe of a
  usable process holds the requests of the lock's holder only (`PipeInv`), and that the slot names
  a started process (`SlotInv`). Of the MCP server: `SingleFlight`, `McpImplements` (`Delivery`). The first
  needs that a call that returned still holds the lock (`LockHeld`). The second needs that the lane
  holds each waiting call once (`LaneInv`), what a place says of the command and of its client
  (`KnownInv`), and that an error worded "not sent" is raised before the send (`ResponseInv`). Of the
  acceptance traces: `EvidenceInductive`, `EvidenceSound`. A lost event leaves its index behind, so that
  the file keeps a gap whatever is recorded after it, and nothing is recorded after an outcome (`LogIs`);
  a command that is held is released only by an observer that saw its session change (`Gate`). The order
  within a file, which `CheckC6` reads, is then enough: the release stands between the send and the outcome.
- **`DeviceProofs`**. `RemoteInOrder`: the call at work acts on the kept connection unless that was lost or
  closed under it, and nothing is kept while it connects or pairs (`CallInv`).
  `CredentialsAlwaysSurvive`: a certificate of this installation was written after its key (`OwnInv`), and
  the older pair is in its place until its backup is whole (`LegacyInv`). `DiscoveryCurrent`: a scan knows
  kept TVs only and found what was announced to it (`ScanInv`), a TV shown as available was seen there
  (`SeenInv`), and a request is sent while its TV is available and no scan runs (`AskInv`); the last needs
  one scan at a time, the hypothesis `Beside = FALSE`, which is how the bridge handles its requests.
  `CastsAndBrowser` holds with a stream's scan beside them too. `AppsHonest`: no launch has left while a
  second way may still be tried, and one has where an answer is awaited (`ShotInv`); an answer is given
  once, to a link that left, and tells what was done with it (`AnswerInv`); the app that is seen was in
  front after the launch (`FrontInv`); what a probe has found is so (`ProbeInv`).
- **`WidgetTapProofs`**: `TapSentOnce`, `TapTarget`. A second send would need a claim that was
  forgotten while its tap could still run: `ClockInv` bounds the age of claims and taps by the
  clock's drift, `OnceInv` says that whoever is about to send holds the tap's claim and nothing
  was sent before, `RunInv` and `JobInv` that one worker runs one transaction of a live job. The
  assumption `Lifetime + 2 * Drift <= Evictable` is the code's own choice of its constants.
  `PendingExact`: each way out of a body counts out once (`PendInv`). `TapKeepsThePromise` (`Delivery`): a
  tap said to be not sent can no longer send (`Harmless`), and what a body knows of its command is true
  wherever it is (`Honest`). Its hypotheses, no death and a record in time, are those of `widget_honest`;
  `widget_slow_record` shows that the second is needed. `TapStaysInHand`: see below.

**The screen and the desktop**

- **`StreamProofs`**, of the streaming service: `TypeCorrect`, `NoLeak`, `Complete`, `CloseNotLost`. `LeakInv`
  relates what runs to what is recorded and to what the cleanup has yet to try; `StateInv` ties `state`
  to the holder's program counter; `CloseInv` says where the duty of a deferred close lies. Of the HLS
  publication: `OnlyOurs`, with what the holder of each lock has established (`PubInv`), what plays on
  the TV while a thread is about to stop it (`TvInv`), and that a start is alone (`StartsAlone`). Of the
  controller, for every host: `LiveIsShown` and `NothingLeftSilently`, with the exceptions of section 3; what a
  session took it still has on its list to give back, or it reports a failure (`SessionInv`); what is lent
  is kept for the release to hand back (`LentInv`); and before `close()`, while no session over a failure is at
  work (`Quiet`), there is one session or one lease, shown as such, and an idle state keeps nothing unless a
  session was started over a failure (`ShownInv`).
- **`ExtendedDisplayProofs`**: `ExtensionSafe`, `OwnersDesktopKept`. A process in the middle of an extension
  holds the lock (`Lock`), and only the holder changes the journal or the desktop, so a step of one
  process keeps what the others know; per process, its commands fit its phase (`Series`), its journal
  says what it changed (`Monitor`), and what a recovery still has to do is still there unless the owner
  moved (`Recovers`).
- **`DesktopProofs`**, of the layout: `LayoutTypeCorrect`, `WayBackIsKept` (the way back is lost only with an
  error, `lost`), and of `check` itself
  `CheckJudgesTheDesktop` and `CheckExact`: rounding to the nearest, ties to even, is what Python's `round`
  does at the three scales (`RoundedIsNearest`), and comparing the corners of two boxes tells whether they
  share a point, for boxes that are not empty (`OverlapIsShared`). Of both encoders: `EncodersTracked`,
  over `MCDesktop`'s composition. `LiveInv`: a release holds the stream's lock (`ReleaseIsLocked`), a
  start is alone and registers before it waits (`StartIsAlone`), a process is attached while it may run
  (`ProcessIsAttached`), and a stop that says "gone" left no process (`StopIsOurs`). `CastInv`: one call at
  a time (`OneCall`), and a group that is not reaped is known, or is the one that a call has begun
  (`KnownGroups`, `CallIsAt`).
- **`AudioRouteProofs`**: `TypeCorrect`, `WayBackIsOnDisk`, `NoStreamUndone`, `SoundIsBack`. The invariant adds
  that a process in the middle of a route holds the lock (`Lock`), so that at most one is
  (`OneOwner`); and, per place of the route, what the journal and the sound server are then (`Route`):
  journaled before the sink is loaded, seen restored before the journal is cleared. For `SoundIsBack`,
  what each process remembers of the former output is what the journal says, and the journal is what
  the person chose unless they have chosen since (`Sound`, `Knows`).

**What liveness rests on.** That something happens is out of the prover's reach; that nothing is ever left
without somebody who will make it happen is an invariant, and proved for six promises. Each says
that, while the promise is open, one of the actions under fairness stands for it:

| Theorem | Invariant | Safety half of |
| --- | --- | --- |
| `TheTimerIsSet` (`DesktopProofs`) | `TimerAwaits`: a change that awaits has its own timer, running or run down, or its revert failed | `RevertsByItself` |
| `TheBridgeIsFreed` (`BridgeProofs`) | `StuckReaderIsFreed`: a reader whose caller gave up reads a process that is dead or about to be killed | `NobodyWaitsForever` |
| `LaneKeepsMoving` (`BridgeProofs`) | `NobodyIsStranded`: a waiting tool call is in the lane, a taken lock is a working call's | `EveryToolCallEnds` |
| `ExpiryIsSet` (`StreamProofs`) | `ServedForABoundedTime`: what is served has its expiry armed or a stop under way | `PublicationEnds` |
| `BusyIsGivenBack` (`DesktopProofs`) | `BusyGoesOn`: the holder of `_busy` is in a call with a step to take | `EveryCallEnds` |
| `TapStaysInHand` (`WidgetTapProofs`) | `TapIsInHand`: until the process dies, an accepted tap was told of, or its handler or job goes on | `TapIsAnswered` |

Three more rest on invariants named above: `CloseIsCarriedOut` for `CloseEnds`, and `ExtensionIsSafe` and
`BackToTheChoice`, by which what was changed is in a journal, for `DesktopComesBack` and `SoundComesBack`.

**Assumptions.** Bounds are natural numbers and sets of choices are not empty; a display mode has at least
2x2 pixels. Names that stand for "nothing" or "nobody" are no members of the sets they extend (`"none"`,
`"no"` and `"nobody"` in `ProcessGroup`; `"none"`, `"browser"` and `"away"` in `Discovery`). Nothing is
assumed to be finite that the argument does not need so.

`NotSentIsNeverWritten`, `OneLiveBridge`, `RunningIsComplete`, `CastsHaveTheirBrowser` (a part of
`DiscoveryIsCurrent`), the six invariants of the table and most type invariants are proved and in no run of
their own.

**Only model-checked:** the liveness properties (`EveryCommandEnds`, `EveryCallEnds`, `SoundComesBack` and the
other promises that something happens), because they need fairness. Every safety invariant and every
action property that a run checks is also proved.

## 5. What the checks found

`PROJECT.json` quotes the lines.

1. A status entry with neither content nor state counts as "no media" and confirms a stop that was
   refused.
2. The widget says "nothing was sent" when WorkManager is slow to record a job, which then runs.
3. The timer of a confirmed change may revert the next change, which is within its own window.
4. A screen stream over HLS whose stop fails is dropped with the descriptor that holds the journal's
   lock: until the process ends, no stream can route the sound and no recovery restores it.
5. The remote's connection may be closed by the expiry of the call before while the next call uses it.

Two more have no run of their own; the properties except them (section 3). A screen stream started over a
failure hides what that failure had kept to be restored, where `stop()` says that "the failure stays shown until
they really are" (`controller.py:226-227`); a later `prepare_webrtc` then drops it. And an
`apply()` whose restore fails too keeps no snapshot: `revert()` and the timer then have nothing to go back to.

## 6. Not modelled, and the plan

- The WebRTC engine (`webrtc-engine/`, `webrtc_commands.rs`): its lease of the screen and the sound is in
  `ScreenController`; its negotiation and media are a library's.
- The desktop window, the tray and the user interface: they forward requests, each of which is a call
  of `BridgeCall`, and draw.
- The receiver application on the TV: only its answers, as the environment of `AppLaunch`.
- Packaging, development and guided acceptance scripts: sequential programs that a developer runs and
  that keep no state of the system.
- Parsing and formatting of JSON, xrandr, pactl and adb output, FFmpeg's command line, what the HTTP handler
  serves, logging, the drawing of the widget.
- `Discovery` is checked with `Beside = FALSE`. A scan of the stream's thread beside the bridge's own
  (`Beside = TRUE`) may publish the older of two results last; the code makes no promise about it.
- The verdict on C7 of the acceptance traces; of their events, `confirmation_skipped`, a gate hold that raises
  (`confirmation_hold_failed`: the command goes on to its verification, as after a timeout) and an observer's
  own failing reads.
- `D0LiveEncoder.close()` of a stream whose `start()` has not returned (`LiveStop` waits for it): `close()` has no
  caller in control-TV, and `stop()` needs the handle that `start()` returns.
- Who keeps a TV: `RememberDevice` stands for the owner's choice and for the `get_remote_status` of a paired
  TV, which saves it as well. `DiscoveryIsCurrent` is about scans: they bring no forgotten TV back.

What would come next: a model of the WebRTC negotiation, which needs the library's own contract first,
and of the scan beside the bridge's own, once the code says which of two results should win.
