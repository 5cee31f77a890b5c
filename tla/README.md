# pi-processes in TLA+

TLA+ models of pi-processes, an extension that lets a coding agent run and
watch background processes: `src/src/` is the library that manages them (the
*manager*), `src/extensions/` are the Pi extensions built on it (tools,
commands, notifications, a dock, an overview, log views). Each module below
translates a part of that code; TLC checks it on small instances and TLAPS
proves the core theorems for every value of the constants. Paths are relative
to the repository root unless they start with `src/`, which is its copy here.

## 1. The system

### 1.1 Components

| Component | Source | State | Operations | Module |
|---|---|---|---|---|
| Process runtime controller | `src/manager/process-runtime-controller.ts` | records (status, dates, handles), liveness interval, reap timer, completion counter, shutdown flag | start, kill, write, clear, cleanup; `close`, `error`, liveness tick, reap | `ProcessLifecycle` |
| Process registry | `process-registry.ts` | the Map of records | id, add, delete, live query, rename | in `ProcessLifecycle`, rename in `UpdateTool` |
| Manager facade | `manager/index.ts` | listeners | delegates to the above; emits events | its promise: `ManagerPromise` |
| Process output | `process-output.ts` | per stream the unterminated line, buffered lines, count of dropped lines, throttle timer | chunk, emit, flush, clear | `ProcessOutput`; its promise: `OutputPromise` |
| Log store | `process-log-store.ts` | files, cached sizes | create, append with cap, truncate, tail, read, remove, cleanup | `ProcessLogStore`, `LogTail`; existence of files in `ProcessLifecycle` |
| Notification registry | `notifications/registry.ts` | configs with watches, revisions, markers of intentional stops | register, unregister, append/replace/remove/clear watches, mark, consume | `Notifications`, `LogWatches` |
| Notification service | `notifications/service.ts`, `log-matchers.ts` | compiled matchers per process | process_ended, output_changed | `Notifications`, `LogWatches` |
| Notification delivery | `handlers/notifications.ts` | window, counters, summary timer | deliver, summary, dispose | `NotificationDelivery` |
| Intentional stop | `handlers/kill-process.ts` | - (one await) | mark, kill, unmark on failure | `Notifications` |
| Tools, commands, requests | `tools/`, `commands/`, `handlers/requests.ts` | - | start, stop, clear, update, list, output, write | in `Notifications`, `LogWatches`; `UpdateTool`, `OutputTool` |
| Session hooks | `hooks/` | - | session_start, session_shutdown, event bridge | `SessionShutdown`, `Cleanup`; `ListEvents` |
| Protocol clients | `client.ts` | one promise and timer per request | request, reply, timeout | `KillRequest` |
| Log subscriptions | `handlers/subscriptions.ts`, `processes-logs/logs-client.ts` | subscribers | snapshot, forward, end | `LogSubscriptions` |
| Dock | `processes-dock/` | list, focus, visibility, connection, delayed refresh and render | pin, show, refresh, close by itself, dispose | `DockController`, `DockLines` |
| Overview | `processes/components/overview-component.ts` | rows, selection, window, sort, filters, preview | keys, refresh, preview | `Overview`, `OverviewPreview` |
| Log overlay | `processes-logs/components/` | tabs, selection, connection, cached viewers; per viewer buffer, anchor, search | keys, refresh, lines, rendering | `LogOverlay`, `LogFileViewer`, `LineBuffer` |
| Display text | `shared/display-text.ts`, `truncate.ts`, `log-line.ts` | none (pure) | sanitize, truncate, wrap | `DisplayText`, `LogLine` |
| Settings | `config/loader.ts`, `config/migrations/` | two files | import, migrate, load, save | `SettingsImport` |
| Background command blocker, messages, translations | elsewhere | none | - | not modelled (4) |

### 1.2 How they interact

The manager is one JavaScript object on one event loop. The operating system
reaches it through child events and timers; the extension calls it and listens
to `process_started`, `process_ended`, `process_output_changed` and
`processes_changed`. The only suspension inside the manager is the `await` in
`kill()`, for the grace period of a stop. The notification service hears
`process_ended` synchronously and handles it one microtask later, so that a
tool that called `start()` can register the process first; `killProcess` in the
extension marks the process as intentionally stopped, awaits `manager.kill`,
and takes the mark back if it failed. Log matches go from the service to the
delivery listener, which limits their rate.

The views live in extensions of their own and reach the core over an event bus.
An event bridge (`hooks/event-bridge.ts`) passes the manager's events on; a view
asks for the list in its handler. Requests that wait (kill, pin) are answered
through a callback, with a timer on the side of the client. A log view connects
to one process, gets the end of its log as it stands, and from then on the
lines of the throttled output events.

### 1.3 What is hard

- *Many parties finish a record*: `close`, `error`, a kill, the tick and a
  failed start; any of them may be late, come twice or not come at all
  (a stranger may hold the pipes open). The process group may outlive its
  leader.
- *State read before an await and used after it*: the rest of `kill()` acts on
  a record that others have finished, forgotten or shut down meanwhile.
- *Timers that are cleared and armed again in many places*: reap timer,
  liveness interval, output throttle, summary timer, delayed refresh and render
  of the dock, the client's timers.
- *Lagging caches*: compiled matchers follow the watch list only with the next
  output and recognise watches by contents; the store compares its own count
  with the cap; the dock draws from a list it read a while ago; viewers of tabs
  that are not selected.
- *Microtask order*: whether the end of a process is handled before or after
  the rest of the stop that caused it; whether an answer beats its timer.
- *Partial failure*: emptying a file, writing the marker and writing the entry
  are three calls; rename and watches of an update are two.
- *Two channels for the same lines*: the log has a line at once, the event tells
  of it later.
- *Positions in what moves*: selection, window, scroll anchor and search index
  while rows come, go and are sorted anew.
- *Boundaries*: retention at its limit with equal dates, a line of exactly the
  maximal length, a character cut by a bounded read, a burst across two
  windows, a row that ends inside a wide cell, an output that just fits.

The full list, with lines, is under `hazards` in `PROJECT.json`.

### 1.4 What makes each component correct

| Component | Correct when |
|---|---|
| Controller, registry | a finished record is complete and reported; dead processes are noticed; timeouts are sticky; only finished records are forgotten, oldest first, after their grace; nothing survives cleanup |
| Output | the log does not depend on how chunks are cut; events account for each line of the log once, and each is told in the end |
| Log store | a file keeps to its cap whatever fails; discarded entries are marked; what is read back is the end of what was written |
| Log subscriptions | a view shows a part of the log without a hole that is not announced, in order, up to what was told |
| Notification registry, service | a crash is always shown; the config of the process is obeyed; registrations and markers do not outlive their process; an intentional stop is quiet |
| Watches | a one-shot watch fires once, a repeating one respects its cooldown, a removed one never fires, a new one is not silenced |
| Delivery | no match is lost without a word, bursts are bounded, what is suppressed is told |
| Requests | each is answered once, in the end, and not by the timer while its handler is at work |
| Dock, overview, overlay | a view at rest agrees with the list; it listens to what it shows and to nothing else; the selection is a row of the list and in the window |
| Viewer, preview | the screen moves only as the reader asks; a match stepped to is shown |
| Text, lines | rows show the text they stand for, no wider than the row, and leave no colour behind; what is left out is counted |
| Output and update tools | what is returned fits its limits; what was changed is what is reported |
| Settings | settings that were there survive the import, once whole |

## 2. The modules

    ManagerPromise <------------ implemented by ------------ ProcessLifecycle
      ^   ^    ^  EXTENDS                                          ^
      |   |    |                              ProcessLifecycleProofs, MCLifecycle
      |   |    Notifications <- MCNotifications                    ^
      |   |         ^                                   LifecyclePromiseProofs
      |   |    NotificationsProofs
      |   |
      |   ListEvents <--- Overview, LogOverlay
      |                         \
      DockController ------------\
      LogWatches ----------------- MCSession
      LineBuffer <- OverviewPreview, LogFileViewer
      all of these but LogWatches <- SessionProofs

    OutputPromise <--- implemented by --- ProcessOutput --\
          ^ EXTENDS                                        \
          LogSubscriptions --------------------------------- MCLog
      LogBytes <- ProcessOutput, LogTail ------------------/
      ProcessLogStore ------------------------------------/
      ProcessOutput, LogSubscriptions, ProcessLogStore <- LogProofs

      LogWatches, NotificationDelivery <- WatchProofs
      NotificationDelivery             DisplayText <- LogLine
      KillRequest, SettingsImport, UpdateTool (+ServicesProofs)
      DockLines   OutputTool                      \---- MCServices

      Places <- LogBytes, LogWatches, LineBuffer, UpdateTool
        ^
      PlacesProofs <- LogProofs, SessionProofs, ServicesProofs, WatchProofs

Conventions. A definition has the name of the function it translates where
there is one. An operator `X_Mistake`, just before `X`, is `X` with a plausible
bug; nothing uses it. With `X_Mistake` in the place of `X`, TLC must find the
property that `mutants` in `PROJECT.json` pairs it with violated: that is how we
know the property looks at the code. `Never` (-1) stands for a null date or an
absent timer. Clocks count abstract units; `MaxTime` and its like end them.

`MCLog`, `MCSession` and `MCServices` each put modules side by side that share
no variable and no event in the code: in a behaviour exactly one of them moves,
chosen in the initial state, so that their state spaces add up and do not
multiply. Where components do interact, one module extends the other's promise.

### 2.1 The manager

**ProcessLifecycle.** State: what the operating system knows (`leader`,
`groupAlive`, whether `close` and `error` were delivered) and what the manager
knows (`rec`, `registry`, `watcher` for the liveness interval, `reapTimer`,
`completionSequence`, `shuttingDown`, the calls of kill, which log files exist,
which processes have an unterminated output line). `ended` counts
`process_ended` events.

| Action | Code |
|---|---|
| Start, StartMissingPid, StartThrows, LateSpawnError | `start`, its two failures, and the `error` event of a child without pid |
| Data, LeaderExits, GroupDies | the child and its group |
| Close, ChildError | the handlers of `close` and `error` |
| KillCall | `kill` up to its await, and its early answers |
| KillTimesOut, KillSucceeds | `kill` after its await |
| EndStdin | the `end` option of `writeToStdin` |
| Tick, TickVisit | `livenessTick`: begin, then one action per record |
| clearFinished, ReapTimerFires, Cleanup | the functions of those names |
| Tock | `Date.now()` moves on |

Every handler is one action, since handlers run to completion, except where the
code suspends (`kill`) and the tick, whose records are visited one action each,
in the order of the registry and with no other handler in between. What a status
change entails - emitting, arming or stopping the watcher, reaping, scheduling -
is part of the action (`transition`), as in the code.

**ManagerPromise.** What a listener may rely on: statuses, `process_ended`
events with an outcome, what the registry knows, kill calls that answer at once
or wait. It says which status may follow which and by whom, that a timed-out
stop is not undone by `close` or the tick, and when a second `process_ended` may
come. `KeepsPromise` states that ProcessLifecycle implements it, with the
outcome of a record computed by `classifyProcessEnd`; it is checked and proved.

### 2.2 Notifications

**Notifications** is built on the promise instead of the controller, so its
state space is that of the notifications alone. The queue `microtasks` holds
handlers of `process_ended` and continuations of stops; between two turns of the
event loop it is empty. `Start` is start-then-register as one synchronous step,
`ProcessEnds` an end the manager finds by itself, `Stop` is mark-then-kill up to
the await, `StopWakes` the timer of the kill, `StopContinues` the rest of
`killProcess`, `EndIsHandled` the service's handler with `resolveAttention`,
`SessionShutdown` the hook.

**LogWatches**: one process, its watch list (`watches`, `revision`,
`generation`) and the service's `compiled` matchers. `register`,
`appendWatches`, `replaceWatches`, `clearWatches` and `removeWatches` edit the
list; `handleOutputChanged` first brings the matchers up to date
(`syncMatcherState`, recognising a watch by its key and rank among equals) and
then evaluates them. Serial numbers identify watches for the properties only.

**NotificationDelivery**: the window opened by the first log match, its limit,
the summary timer, and the disposal of the listener.

### 2.3 From output to the views

**ProcessOutput.** `Chunk` runs `extractCompleteLines`: split into lines, bound
the unterminated part, log, buffer with `MAX_LINES_PER_EMIT`, emit or arm the
throttle timer. `TimerFires`, `Flush` and `clear` are the others. Event lines
are indices into the log. **OutputPromise** is what a listener may rely on:
lines go to the log, events tell of every one of them in turn, the oldest
perhaps only by their number, and when the record finishes nothing that was
logged stays untold. It goes on after that: a process that a kill or the tick
has finished may still print, which is logged and told like the rest.
`OutputIsPromised` states that ProcessOutput implements it; it is checked and
proved.

**LogSubscriptions** runs beside OutputPromise: `Connect` copies the end of the
log (which may hold lines no event has told of yet), `Deliver` forwards an event
with a gap line for what was dropped, `End`, `Forget` and `Leave` close.

**ProcessLogStore**: a file is its size and the sequence of its pieces, of which
one whose write failed halfway is not whole. `appendCapped` is the append with
its truncation; `AppendFails`, `MarkerFails` and `EntryFails` are its three ways
to fail, each leaving what it got to. `createLogs`, `removeLogs` and `cleanup`
may stop halfway. `fileBytes` is what the store counted; `spill`, a history
variable, what it cannot have; `succeeded`, another, the entries written whole
to each file since it was created.

**LogTail**: a file grows by characters (`appendStream`) or by tagged entries
(`appendLine`), and after each step `readTailLines`, `readFullFile` and
`getCombinedOutput` are read, byte by byte: chunks from the end, characters of
two bytes, returns before newlines, tags of streams and a maximum that may cut a
line or a character. Each is compared with what the file says (`ReadsTheTail`,
`ReadsTheFile`, `ReadsTheEntries`). A stream's file is looked at between two
characters only, while the code may write the halves of one in two chunks; the
cap is ProcessLogStore's.

### 2.4 Views

**ListEvents** says which steps of the manager emit which events, and what the
list reads when they are handled: at an end, before the reap that follows it.

**DockController**: `Notices` is the handler of the manager's events, which
arms the delayed refresh; `RefreshFires` rereads the list, drops a focus that is
gone, closes or opens the dock and makes the connection follow the pin
(`Synced`); `RenderFires` draws. `PinCommand`, `DockCommand`, `handlePin` are
the user's; `DockShutdown` and `SessionStart` the session's. A connection is its
process and an identity; `subs` are the subscribers the core still holds.
`DockFollows` is both halves of what is asked of it: at rest it agrees with the
list (`DockSettles`), and it listens to what it shows (`OneEar`).

**Overview**: rows under a sort order and filters, one selected, in a window.
`refresh` keeps what the code keeps; `reapply` does after a change of order or
filter. **OverviewPreview**: the log of the selected process, read again with
the list, continued by output events, with an offset that counts from the top.

**LogOverlay**: one tab per process, one connection, viewers in a cache of a few.
`Output` is an output event of any process, running or finished: the core tells
its subscribers, of which those of a process are dropped when its end is
reported, and what they are told goes to the viewer on the screen. Of each
viewer it is kept whether it got an event too many and which of its own it
`missed`, before the end of its process was reported or after it.
**LogFileViewer**: one of the viewers. `Render` is an action of its own since it
writes the clamped anchor back; keys and lines come in any number between two
renderings. `screen` is what the last one showed. **LineBuffer** is the budget
of lines and bytes both views share.

### 2.5 Requests, text, tools, settings

**KillRequest**: a request of the overview, with `wakesAt` for the handler's
wait and `timer` for the client's. Whether a handler listens at all is `heard`;
it may stop listening. Timers fire in the order in which they are due, however
late; each is followed by its microtasks.

**DisplayText**, **LogLine**: a text is a sequence of cells and controls;
`sanitizeForDisplay` and `plainTextForDisplay` make it safe, `truncateToWidth`,
`wrapToWidth` and `renderLogLine` make rows of it. `Painted` is the reference: a
terminal that says which cells a text shows under which pen.

**DockLines**: the tokens of the status line and of the dock's strip, the window
of the tab bar, and the runs of repeated lines.

**OutputTool**: what `process output` selects and how it shrinks it until bytes,
lines and serialized bytes fit. **UpdateTool**: rename, then watches, then the
reply, with every way to be refused; the process may end between two calls.

**SettingsImport**: two instances of Pi and one of 0.9.4 on the same directory.
`Looks`, `Validates`, `Creates`, `Fills`, `Loads` are the awaits of an import,
each a step of its own; `Restarts` is a crash.

## 3. Checks

### 3.1 Runs

| Run | Instance | States | Shows |
|---|---|---|---|
| `lifecycle_kills` | 1 process, 2 kills, 2 signals, spurious `error` | 480 000 | how a record is finished and reported under all races; verdicts stand; the last line is told before the end; dead processes are noticed; the promise is kept |
| `lifecycle_retention` | 2 processes, 1 kill, 1 finished record kept, grace 1 | 566 000 | watcher, what is forgotten, in which order and when |
| `notifications` | 2 processes, 2 stops, 3 configs | 1 220 000 | crashes shown, configs obeyed, markers and registrations bounded, a lone stop quiet |
| `log` | output, files, readers and a view of one process (3.2) | 784 000 | chunking invisible, every line told, the output promise kept; cap and marker under failing writes; what is read back; what a subscriber gets |
| `session` | watches, dock, overview, preview, overlay, viewer (3.2) | 890 000 | watches fire as asked; each view agrees with what it shows and listens to it alone, whatever happens between two keys |
| `services` | delivery, requests, text, lines, output, update, settings (3.2) | 83 000 | bursts, summaries; answers and their timers; rows and lines; tool limits; imported settings |
| `finding_*` | the parts concerned, smaller | - | six statements of the repository that the code does not meet (3.4) |

Deadlock is not checked: the clocks, the processes to start and the calls are
bounded, so every instance may come to rest.

### 3.2 Bounds and why they are enough

- `lifecycle_kills`: every race over one record needs one process; two kills
  are the fewest that can overlap, retry after a timeout, or use two signals;
  `Faulty = {1}` adds an `error` event to a child that has a pid; with
  `MaxTime = 1` and `Grace = 1` events fall on the same or on different dates,
  before and after the grace.
- `lifecycle_retention`: with a limit of one, two finished records are one too
  many; two can end at once or apart, be cleared, or be reaped late.
- `notifications`: two processes show that the markers, registrations and
  queue entries of one do not touch the other; two stops overlap on one process
  or go to different ones. The configs are the defaults, all-ignore and
  all-turn: every outcome is once silent, once loud.
- `log`. *Output*: with `MaxPending = 1`, `b` fits, `bb` is cut, `b` followed by
  a return is the line at the limit; two lines per event and up to three lines
  per chunk make trimming happen; three clock units cover an immediate emit, a
  pending one and a late one. *Files*: two under a cap of 4 with entries of 1
  and 3 and a marker of 2: one entry fits after the marker only by exceeding
  the cap, small ones fill a file up to it; two faults are a failure while
  another failure's damage is there; an earlier process may have left a file.
  *Readers*: every file of up to six bytes and every combined log of up to three
  entries of five texts, against chunks of 3, at most 4 bytes of a tail and 5 of
  a whole file, so that chunks, characters, returns and the maximum fall into
  one another in every way; up to three lines are asked for. *View*: one view that
  copies two of up to four lines, since views do not see each other.
- `session`. *Watches*: three watches give two of equal contents and one other,
  in lists at the limit; `SeqOf(Keys, MaxWatches + 1)` offers lists that are too
  long. *Dock*: two processes are one to be pinned to and one to move on to.
  *Overview*, *overlay*: three processes, so that rows move on both sides of
  the selection and the cache of two viewers overflows; a window of one row
  makes every move a scroll. *Preview*, *viewer*: up to six lines of two sizes
  in buffers of four lines and five bytes: both budgets bind, and lines of
  different sizes go at the head; two rows high. Stops are left out of this run
  to keep it small (`Kills = {}`): to a view they are changes of status like
  others, and a stop meets the dock in `finding_unpinned`. The same properties
  hold with `Kills = {k}` for the dock by itself (1 416 000 states), and with two
  processes for the overview (112 000) and the overlay with one viewer kept
  (12 000).
  Only the first process is pinned from the overview (`InOrder`): what it has
  pinned is read by `pinSelected` only.
- `services`. *Delivery*: eight units hold three windows; nine matches fill them
  beyond the limit with matches to spare. *Requests*: two, so that timers of
  several dates are due at once. *Texts*: any three of all elements, any five
  of those that rows are laid out from, in rows of five cells: wide cells and
  tabs meet the edge, wrapping indents, the indicator is itself cut. *Lines*:
  four processes against widths that hold between one and all of their names.
  *Output*: lines that are short, that grow when serialized and that alone
  exceed the budget. *Update*: lists at their limit, items that name one watch,
  several, none, or a place. *Settings*: two instances and one of 0.9.4, each
  restarted at any await.

The proofs (3.5) need none of these bounds.

### 3.3 Fairness

Liveness is checked under weak fairness of timers only: the liveness interval
and its visits, the grace timers of kills, the reap timer, the throttle timer,
the summary timer, the timers and microtasks of requests, and the passing of
time where a property speaks of it. The event loop fires an armed timer some
time after it is due and nothing in the code blocks it for ever. There is no
fairness of `close`, `error`, the child, a user or any caller: `DeadIsNoticed`
in particular holds although `close` may never come. `SuppressedIsTold`,
`EveryLineIsTold` and `RequestsSettle` say "if the clock gets that far" because
the model's clock ends.

### 3.4 Where the code and its documents differ

Each of the first six is a run that TLC ends with a counterexample, listed under
`findings`.

1. `EndedAtMostOnce`: a process that exits by itself during the grace period of
   a kill is reported ended twice, first as exited, then as killed, because
   `kill()` does not look at the status again after its await.
   `RepeatedEndNeedsRace` (proved) is what does hold: a second report needs a
   kill that waited, and comes only when the group is gone.
2. `RecentlyFinishedIsKept`: a kill that succeeds after an earlier one timed out
   keeps the old end time; the record can be reaped by the step that finishes
   it.
3. `LiveIsListed`: the leader exits, `close` finishes the record, clear removes
   it, and the kill that was waiting finds the group alive: it turns a record
   that no list shows back into a live one.
4. `StopIsQuiet`: the marker of an intentional stop is one per process. Of two
   overlapping stops, the one that fails takes the marker away and the end
   wakes the agent. `StopIsQuietAlone` (proved) is what does hold.
5. `SelectionSurvives`: `refresh` of the overview takes the id to keep from the
   new list at the old index, so it keeps the index, not the process. A process
   started above the selected one moves the selection to another, which the
   next key kills or pins. `refreshProcesses` of the log overlay does the same.
   `SelectionIsInView` and, for a change of order or filter,
   `ViewKeepsSelection` are what does hold.
6. `KilledIsUnpinned`: a comment says that the dock unpins a killed process with
   the next change; it does so only when the process leaves the list.

On four more points the documents contradict each other, or the comment beside
the code contradicts it. They have no run that ends with a counterexample: the
code keeps to one of the two, a passing property states that one, and its
comment names the other. So the pass of that property does not mean that the
other text is met; it is not.

- *`ignore`*. The schema of the tool, its guidelines and the skill say that
  `ignore` never notifies (`extensions/processes/tools/schema.ts:145`,
  `extensions/processes/tools/index.ts:59`, `skills/pi-processes/SKILL.md:237`).
  Under a configuration that ignores everything a failure or a crash is notified
  all the same, as context (`docs/notifications.md:100`); that is what
  `CrashIsShown` (proved) holds the code to. The agent, who writes the
  configuration, reads the other text. A watch with `on: "ignore"` is not
  filtered either.
- *Stops*. The skill says twice that stopping a process yourself never notifies
  (`SKILL.md:22`, `:223`). The code emits a notification that does not wake the
  agent (`docs/notifications.md:126`): `StopIsQuietAlone` and `CrashIsShown`.
- *Repeating watches*. The skill says that `repeat: true` fires on every match,
  "on every job completion, not just the first" (`SKILL.md:230`, `:297`). The
  code keeps a cooldown of 15 s (`docs/notifications.md:268`), and fires once for
  an output event however many of its lines match: `CooldownIsKept`, a part of
  `FiresAsOftenAsAsked` (proved). Two completions within the cooldown are told
  once.
- *Import*. A comment of the import of the settings of 0.9.4
  (`000-import-legacy-process-config.ts:39`) promises that the migration "runs on
  the real 0.9.4 data instead of defaults". `copyFile` makes the new file before
  it fills it. After a crash in between, every later start finds a file, skips
  the import and loads defaults, without a word; so does an instance that starts
  while another is copying. `SettingsAreKept` (proved) is what does hold:
  settings that were there, once whole, stay. `LoadsTheSettings` exempts the
  half-copied file.

Smaller observations, visible as exceptions in the properties or as comments in
the modules:

- *Watches*. Two of equal contents are taken for each other: one that is
  appended while an equal, fired one was removed since the last output inherits
  that it has fired (`FirstMatchFires` exempts twins), and a cooldown can be cut
  short. With an output in between, removing and appending the same watch lets
  it fire again.
- *Output*. A line of exactly `MAX_PENDING_LINE_BYTES` followed by a carriage
  return is kept whole when its newline is in the same chunk and cut otherwise
  (`ChunkingIsInvisible` exempts it). Output that arrives after a kill or the
  tick has finished the record is logged, but its unterminated last line is
  never flushed: `close` returns early. A new subscriber, and the preview of
  the overview, show lines twice that were in the log and not yet told of.
- *Views*. A comment of the overview speaks of a rendering when a kill
  completes; a kill that times out emits nothing. Escape in the quick filter
  leaves the list as it was filtered. A view that does not follow slides when
  lines go at the head of its buffer, and the current match of a search with
  it; the anchor is stale when the stream is changed while following and the
  terminal resized before the next key. Lines that arrive while a tab is not
  selected never reach its cached viewer. Nor do, though it is on the screen,
  those that a process prints after a kill or the tick has finished it: the core
  has dropped the subscriber with `process_ended` (`handlers/subscriptions.ts:57`),
  while the log and the events go on, until a key or a change of the list
  connects anew (`ViewersAreApart` speaks of the time before the end is
  reported).
- *Rows*. Cutting closes colours, wrapping pads before the reset. A row narrower
  than a tab or a wide cell makes `wrapToWidth` throw; the overlay's minimal
  width keeps it away. Tabs are always three cells wide. A carriage return
  drops the colours set before it. `+N more` in the status line counts the
  summary of finished processes as one.
- *Update*. An exception from the watches, after the rename, leaves the new name
  unreported and in place (`NameIsReported` exempts it): the one way in which a
  failed update is not told, and nothing in the repository promises otherwise.

### 3.5 Proofs

TLAPS checks the theorems below for any number of processes, calls, files and
messages, any limits, with or without a bound on time, from the assumptions on
constants stated in each module.

| Module | Theorem | Statement |
|---|---|---|
| `ProcessLifecycleProofs` | `Invariance` | `Spec => []IInv` |
| | `TypeCorrect` | `Spec => []TypeOK` |
| | `FinishedRecordsComplete` | `Spec => []FinishedIsComplete` |
| | `RetentionOrder` | `Spec => []CompletionOrderIsTotal` |
| | `WatcherFollowsLive` | `Spec => []WatcherMatchesLive` |
| | `ReaperAlwaysArmed` | `Spec => []ReaperArmed` |
| | `SecondReportNeedsKill` | `Spec => []RepeatedEndNeedsRace` |
| | `LogsGoneAfterCleanup` | `Spec => []CleanupIsFinal` |
| `LifecyclePromiseProofs` | `GroupsFollowed` | `Spec => []PInv` |
| | `Implements` | `Spec => KeepsPromise` |
| | `VerdictsStand`, `LastLineBeforeEnd`, `RetentionKeepsNewest`, `OnlyFinishedForgotten` | the action properties `VerdictStands`, `FlushedBeforeEnded`, `ReapKeepsNewest`, `ForgetsOnlyFinished` |
| `NotificationsProofs` | `NoticeInvariance` | `Spec => []NInv` |
| | `BookkeepingFollows`, `CrashesShown`, `ConfigsObeyed` | `BookkeepingFollowsProcess`, `CrashIsShown`, `ConfigIsObeyed` |
| | `StopsQuiet` | `Spec => StopIsQuietAlone` |
| `WatchProofs` | `DeliveryInvariance`, `DeliveryTypeCorrect` | `Spec => []IInv`, its types |
| | `MatchesAccountedFor`, `BurstsBounded`, `SuppressedTimed` | `EveryMatchIsAccountedFor`, `BurstsAreBounded`, `SuppressedHasTimer` |
| | `WatchInvariance`, `WatchesTyped` | `WatchSpec => []WatchInv`, `[]WatchTypeOK` |
| | `WatchesFireAsAsked`, `FirstMatchesFire` | `WatchSpec => []FiresAsOftenAsAsked`, `[]FirstMatchFires` |
| | `ListedOnlyFire` | `WatchSpec => OnlyListedFires` |
| `LogProofs` | `OutputInvariance` | `Spec => []OutputInv`, with the types and bounds of ProcessOutput |
| | `OutputPromiseKept` | `Spec => OutputIsPromised` |
| | `CutsAreInvisible` | `Spec => []ChunkingIsInvisible` |
| | `SubscriptionInvariance`, `SubscribersServed` | `SubscriptionSpec => []SubscriptionInv`, `[]SubscriberKeepsUp` |
| | `StoreInvariance`, `CapKept` | `StoreSpec => []SInv`, `[]CapIsKept` |
| | `LossMarked` | `StoreSpec => []LossIsMarked` |
| | `LogReadsBack` | `TailSpec => []ReadsBack` |
| `SessionProofs` | `DockInvariance`, `DockFollowed` | `DockSpec => [](ManagerInv /\ DockInv)`, `[]DockFollows` |
| | `OverviewInvariance`, `SelectionInView` | `OverviewSpec => []OverviewInv`, `[]SelectionIsInView` |
| | `SelectionKept` | `OverviewSpec => ViewKeepsSelection` |
| | `OverlayInvariance`, `OverlayFollowed` | `OverlaySpec => []OverlayInv`, `[]OverlayListens` |
| | `PreviewInvariance`, `PreviewStays` | `PreviewSpec => []PreviewInv`, `PreviewStaysPut` |
| | `ReaderInvariance`, `ScreenFollows` | `ViewerSpec => []ReaderInv`, `ScreenFollowsReader` |
| `ServicesProofs` | `RequestInvariance`, `HandlerAnswers` | `RequestSpec => []RInv`, `[]HandlerIsWaitedFor` |
| | `SettingsInvariance`, `SettingsKept` | `SettingsSpec => []SettingsInv`, `SettingsAreKept` |
| | `UpdateTellsTheTruth` | `UpdateSpec => UpdateIsReported` |

The assumptions are named in the modules that declare the constants, and are
those the code gives: limits are numbers, those of a pending line and of the
lines of an event are not zero, nor are the window of deliveries, its limit and
the window of the overview, a chunk is a sequence of characters, the keys of
repeating watches are keys, the grace of a stop leaves a margin before the
client's timer, processes are numbered in the order of their start, the sentinel
for "no process" is not a process.

*The manager.* None of its invariants is inductive alone. `IInv` adds
`RecordsFollowStarts` (a record exists once the process was started; kills wait
for started processes only), `DatesFollowEnds` (an undated record was never
reported ended; a dated live one was dated by a timeout), `NumbersAreIssued`
(numbers in use are not above the counter) and `EndsFollowGroups` (while the
group lives at most one end was reported). Two groups of lemmas carry the
weight: about `transition`, which all handlers end in - what it does to the
watcher, the reaper and the registry for any record it is given -, and about
reaping: the records it removes are the oldest, and if too many are left then
the first of them, whose date schedules the next timer, exists (a minimum over a
finite set, by well-founded induction over naturals). Then there is one lemma
per action, and `NextInv` joins them.

*The promise.* The refinement needs more of the controller: a process born dead
stays so, a kill in progress is of a process that has a group, and output is of
processes that were started (`PInv`). Each handler is then shown to be one
action of ManagerPromise, or a stutter, under the mapping of records to
statuses and outcomes; the same case analysis gives the four action properties.

*Notifications.* `NInv` is in three parts. What the manager alone does (`MInv`).
What the queue of microtasks holds (`QInv`): one end per process at most, before
the continuation of a stop of the same process, each entry true of the manager
as it is. And for each process, until shutdown, what is still queued about it
accounts for its marker, its registration and the notices so far (`ProcInv`).
The lemmas on queues (what is queued after one task is taken or two are added)
keep sequences out of everything that follows; `AloneKeeps` disposes of all
processes a step does not touch.

*Delivery.* The bound on bursts speaks of dates of deliveries; what is inductive
speaks of the windows they were made in. Windows do not overlap
(`WindowsApart`), each holds at most `MaxPerWindow` deliveries
(`WindowsLimited`), the first of them is made when the window opens
(`WindowsOpened`), and the last `sentInWindow` are those of the current one
(`CurrentWindow`). A run of twice the limit either begins with the first
delivery of a window, and ends in a later window, or leaves its own window and
the next one behind.

*Log store.* The store compares its own count with the cap, so the argument is
about the count: it is too low by no more than the bytes the store never got to
count (`CountIsSafe`), whatever fails. For the marker, `LossIsMarked` is taken
file by file: entries are numbered in the order of the calls, so what holds of a
file before the n-th entry is kept by it (`Recent`); and a file without any
piece has received nothing since it was created (`Marked`), which is what makes
an entry without a marker right in a file that is empty.

*Reading back.* What is inductive (`TailInv`) is small: a file is made of whole
characters, and the lines of the combined log are its entries. The work is in
what the readers compute from it. A read from the middle of a file begins
somewhere in a line; the newline that ends this line divides the file in two,
whose lines are those of the file (`ReadCuts`), and what is in front of it is an
end of that line (`Ends`), also without its return and its half characters
(`AlignedIs`, `ReturnEnds`). The budget never binds: what is read fits, and a
line weighs no more than its place in the file, so each line is decoded whole
(`DecodesAll`, by a smallest counterexample). For entries it remains
that a tag is in front of its line whatever the text (`TagStays`).

*Output.* `OutputInv` places the numbers: the lines that wait in the buffer are
the last of the log, those dropped come right before them, and all earlier ones
were told (`Counted`). It also carries the bounds: no pending line above its
limit, no event above `MAX_LINES_PER_EMIT`. Each handler is one of two kinds,
whatever its chunk: it tells of everything there is, in one event or none
(`AllTold`), or of nothing (`NoneTold`); after that the refinement is the same
for all handlers. What `extractCompleteLines` returns enters only by the
bounded length of its pieces, so nothing had to be known of what it computes.

*Chunks.* `ChunkingIsInvisible` compares the log with the lines of the whole
stream. What is inductive (`ReadInWhole`) follows the unfinished line too: what
was logged of a stream are the lines of all its bytes so far, the long ones cut,
and what is pending is what follows the last newline. A chunk goes on where the
bytes before it ended, so its first line is joined to the unfinished one and all
others are lines of its own; that is a statement about the places of the
newlines of two sequences in a row (`PlacesProofs`).

*Subscriptions.* `SubscriberKeepsUp` says what a view shows; to keep it, an
event with its gap must fit on to what was there. `InStep` adds the counting:
after any line shown come at least as many lines as places, so that each gap
stands for one or more. `Chunked` describes an event's lines and one lemma
(`StaysInStep`) appends them.

*Dock.* A refresh makes all of `DockFollows` true at once, so the argument is
about what happens between two: the steps of the manager without an event
(`Onward`: such a step changes no process between running and finished, and no
list), and those actions of the dock that are not refreshes. The connection
without its subscriber is the delicate case: `EarSound` says it lost it to the
end of its process, so a process that runs is heard.

*Overview.* The rows are those of a set in an order of them: each takes the place
of the number of rows before it (`Ordered`). `PlacesTaken` shows that the places
are all taken, since they are different and there are as many as rows; so the
list is a list of the rows (`AppliedIs`), whatever the order, if it is one. That
it stays finite is part of the invariant: a step of the manager moves at most
one process onto its list (`OneMoves`). After that a refresh is about numbers:
the selection is one to the length of the list and the clamped offset is less
than a window away (`ClampIs`). `SelectionKept` is the same lemma about
`Reselected` that gives the invariant.

*Overlay.* Opening, a key and every event end in `subscribeToSelected`, which
puts the selected process on the screen and leaves one connection
(`SubscribedIs`, `RefreshedIs`). What is inductive adds to `OverlayListens` that
the tabs are processes of the list as it was last told (`Tabbed`), so that the
core never refuses one, and that a process is heard until its end is reported
(`Attentive`), which is longer than it runs: `EndsLater` relates the two. Of the
viewers only that they are `Stored` is carried along: what is pruned, evicted
and marked keeps them one per process and not too many (`ThoseAre`, `CachedIs`,
`EditedIs`). That none got an event too many, nor missed one before the end was
reported, comes down to how often the core tells of an event: never when another
process is on the screen, once at most, and once for certain until the end
(`ToldIs`, which is where `Attentive` is needed; `HeedsIs`).

*Preview.* `PreviewInv` is its limits, and that no note on dropped lines in it is
of an event still to come. An event adds at the end and takes from the head:
what `trimToBudget` keeps is an end of the list within both budgets
(`TrimmedIs`), for any sizes of lines, and the offset goes back by as many as
went.

*Viewer.* A rendering computes where the screen ends from the anchor, which keys
and output have moved or left alone since. `ReaderInv` says, by kind of what the
reader did last, what is left for the rendering: the anchor moved from the
screen by what was asked (`Scrolled`), a target that is a match (`Targeted`), or
the anchor where the screen ended, with the lines that were on it (`Waiting`).
All heights, widths and wrappings then come down to one lemma on clamped numbers
(`ClampedIs`) and one on rows: a beginning of the lines has no more of them than
all (`RowsGrow`).

Both proofs failed at first because the properties were not right. With more
lines than the runs have, a line that a refresh had read could be carried by an
event afterwards, which the exception in `PreviewStaysPut` did not cover, while
it covered too much else (`Repeated` is exact). The anchor of a viewer that has
drawn no line may be that of an earlier filter, which `OutputWaits` now says.
TLC showed both on larger instances, and that the formulas of now hold there.

*Watches.* The service has no identity to go by: after an edit of the list, the
n-th watch with some contents takes over what the n-th matcher with these
contents knew. Two facts make that enough. Lists only lose members or grow at
their end, so a watch never has a higher rank among its equals in the list than
it had among the matchers; what it inherits is its own state or that of an older
one (`DonorIs`). And among equals those that fired come first (`FiredFirst`),
because a line that makes the newer fire makes the older fire too, unless it
already has. So a watch that fired inherits from one that fired, and one that does
not repeat never fires twice. For the date of the last firing this is not enough: with two
repeating watches of equal contents, the removal of the newer or older one is
not told apart, and so `CooldownIsKept` and `FirstMatchFires` make an exception
of twins. A watch without a twin can only inherit from its own matcher. What is
taken out of a list by position is described by the set of places it stays at
(`Picked`), whose facts are proved by well-founded induction over numbers
(`NthInOrder`, `PickedIs`), since what `SelectSeq` returns would be an induction
over sequences.

*Settings.* `SettingsInv` is what each instance has seen of the files between
two awaits (`Seen`): that one which fills a copy is alone, since it created the
file, and that until then the file is half of one and nobody's settings.

*Update.* `UpdateIsReported` compares the lists before, left and reported. What
is removed by position is again described by the places that stay (`Picked`);
there is one case per mode on what the call leaves (`Edits`), and the reply is
read off the same list (`Calls`).

*Requests.* While a handler waits for a stop, its wait ends before the client's
timer (`Standing`), because the client's patience is the grace and a margin; and
timers fire in the order of their dates, however late.

Only model-checked:

- all liveness (`DeadIsNoticed`, `ExcessIsReaped`, `SuppressedIsTold`,
  `EveryLineIsTold`, `RequestsSettle`), which is beyond TLAPS under fairness;
- `RowsShowText`, `NothingIsHidden` and `OutputFits`, which are about
  what folds compute, and need an induction over data that the installed provers
  cannot do.

## 4. Not modelled

- *The background command blocker* (`hooks/background-blocker.ts`): a stateless walk over the
  syntax tree of a shell parser that is not part of the repository. What it
  finds depends on the shapes that parser builds, which nothing in `src/` fixes.
- *Messages, prompts, translations, registration at load, discovery of a shell*:
  no state of their own.
- *Drawing and text entry*: colours, borders, layout of the dock, the input
  fields of filters and searches, confirmations, settings forms: sequential
  state of one user.
- *The operating system*: reuse of pids (`process-runtime-controller.ts:431`);
  what Node does with a stream error nobody listens to (`stdin.write` between
  exit and `close`).
- *Names*: ids are never reused in the model; the code draws 16 random bits and
  looks only at the ids still in the registry (`process-registry.ts:10`).
- *Data*: commands, the wording of notifications, the text of lines beyond what
  a property tells apart. The second clamp of an event's lines.
- *A picker of the pin command that outlives its session* (`commands/pin.ts:40`):
  DockController assumes it does not.
- *Reads*: list, get, log paths and the requests for them change nothing.

## 5. Plan

Done, in this order: ProcessLifecycle, its proofs, ManagerPromise and the
refinement, Notifications on the promise, NotificationDelivery with proofs,
LogWatches, ProcessOutput; then ProcessLogStore, LogTail, OutputPromise and
LogSubscriptions, KillRequest, the dock, the overview and the overlay on the
promise, the text and line algorithms, the output and update tools, the import
of settings; the proofs of the refinement, the action properties, the
notifications, the log store and the requests; then those of the output's
promise and of its subscribers, the marker of the log store, the dock, the
overview, the overlay, the watches and the settings; then the cuts between
chunks, the update tool, the preview, the viewer and reading back.

Next modules:

1. `Shutdown`: the order of the hooks of session_shutdown and session_start over
   Notifications, DockController, LogOverlay and NotificationDelivery; so far
   each models its own part.
2. The command blocker over small trees, once its parser's trees are described.
3. Unification of the two halves of a log view: the viewers of the overlay on
   LogSubscriptions instead of their own events.

Next proofs: `RowsShowText`, once wrapping is described by the places where rows
begin instead of folds.
