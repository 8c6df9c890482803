# Site Safety Monitor: specifications, model checking and proofs

The repository watches construction-site cameras with computer vision. A FastAPI backend starts
one operating-system process per active camera; each process detects people, classifies the
zone they stand in and whether they wear a helmet, and puts alert messages on one shared
`multiprocessing.Queue`; a task of the backend drains the queue, stores detections and alerts in
PostgreSQL and broadcasts them over WebSockets to the browsers of the operators.

This directory holds TLA+ modules of that system, configurations that check them with TLC, and
theorems proved with TLAPS. `PROJECT.json` maps every definition to the lines it models and lists the
runs, mutants, findings, hazards and theorems.

## 1. Inventory

State, operations and interactions of each component, what is hard about it, and what makes it
correct. Paths are relative to `src/`.

| component | state | operations | interacts through |
|---|---|---|---|
| Camera worker process, `backend/app/workers/camera_worker.py` | three cooldown dictionaries, `worker_zones` (last zone of each person), read-failure and frame counters, stop event | load, read, rewind, skip, process a frame, emit alerts and zone exits, see the stop event | event queue (put_nowait), stop event, live-frame file |
| Cooldowns, `ai-repo/ai_repo/tracking/cooldown.py` | `_last_fired` | `should_fire`, `reset` | called by the worker |
| Safety pipeline and geometry, `ai_repo/pipelines`, `ai_repo/zones` | calibrated lines | `process_frame`, `classify_zone`, `evaluate`, helmet association | called by the worker; the zone of an alert comes from `messages.zone_for_line` |
| Registry and supervisor, `workers/registry.py`, `workers/supervisor.py` | handle per camera, processes | `activate`, `deactivate` (joins, then terminates), `shutdown`, pruning | called synchronously from requests, so it blocks the event loop |
| Camera service, `services/camera_service.py` with `core/database.py` | camera rows, one transaction per request | create, update, activate, deactivate, delete, upload | supervisor, database, audit log |
| Event queue and drainer, `workers/event_drainer.py`, `workers/messages.py` | bounded queue with feeder threads and a pipe; the message at hand | `_put`, `_blocking_get`, `_run`, `_handle` | workers, detection service, WebSocket manager |
| Detection service, `services/detection_service.py` | detections and alerts with foreign keys to cameras and zones | `ingest_worker_event`, `acknowledge_alert`, feeds | database, WebSocket manager |
| WebSocket manager, `realtime/websocket_manager.py` | set of connections | connect, disconnect, broadcast | drainer, clients |
| Zone service, `services/zone_service.py` | zone rows | create, update, delete | nothing tells a running worker |
| Video upload, `camera_service.upload_video`, `utils/video.py` | files in the upload directory, `stream_url` | stage, size limit, transcode, replace, commit | ffmpeg, database; `stream_camera_video` and the worker read the file |
| Authentication, rate limiter, audit, statistics, `services/`, `core/` | users, hit windows, audit rows | login, seed, create user, limit, count | requests |
| Browser alerts socket, `frontend/src/services/alertsSocket.ts`, `hooks/useAlertsSocket.ts` | one socket per hub, retry delay, subscribers, buzzer timers | subscribe, reconnect, dispatch, buzz | WebSocket manager |
| Browser pages, `frontend/src/pages/`, `services/api.ts`, `context/AuthContext.tsx` | the page's copy of the rows, the form, `busy`, the error; the token of all tabs | handlers of several calls in a row, overlapping loads, the zone editor, login and 401 | HTTP API, `localStorage` |
| Standalone monitor, `safety_monitor.py` | floor zones, per-person monitors, recorder, alarm threads | the single-process predecessor of the backend | files, sound |

What is hard here, and what makes each part correct:

- **Worker.** Three cooldowns with different windows share one class, one of them must be cleared on
  every way out of the red area, and messages are dropped when the queue is full. Correct: whoever
  comes into the red area is reported in the frame that sees it; the receiver's view of the red area is right
  except where a message was dropped; alerts of a kind keep their distance; a stop request and a dead
  file end the process.
- **Supervisor and camera service.** Requests interleave at every `await` with a row each read earlier,
  processes die by themselves, transactions fail after the process was started or stopped, and the
  backend restarts. Correct: no stray worker, never more workers than allowed, the reported status tells
  the truth, every request ends.
- **Pipeline.** Feeder threads, a write lock and a pipe of finite size between processes; `deactivate` blocks the
  very loop that should empty the pipe; rows a message names may be gone; a broadcast spans several
  awaits while clients come and go; a restart loses what is in flight. Correct: each event is
  stored at most once and announced at most once, in its camera's order, never announced unstored; no
  client that stays connected misses an announcement; the queue drains; stops end.
- **Browser alerts socket.** Components mount and unmount around one shared hub whose sockets, retry timers and
  listeners outlive them; `connected` is shared by all sockets. Correct: the tab gets its connection back whenever that
  is possible, hears what it was shown to be connected for, hears it once and in order, and every buzz ends.
- **Standalone monitor.** A signal may come between any two steps, also in the shutdown it calls itself; the alarm thread is
  joined with a timeout; the alarm is recorded in units of frames and replayed in the exported video; files replace each other.
  Correct: alarm, banner and log agree with the frame, the exported sound agrees with the exported picture, and a session
  leaves a video that can be played.
- **Video upload.** Files and the row that names them change at different moments, and uploads overlap. Correct: a
  committed `stream_url` names a complete file; nothing is left behind by a failed upload.
- **Geometry.** `classify_zone` and `zone_for_line` choose a line each; the near side of a line depends on how it was drawn;
  sides are remembered per track. Correct: the zone an alert names is the one entered, bands lie as the picture shows them, a
  crossing was walked, a helmet is its wearer's.
- **Browser pages.** Handlers await several calls while tabs, tokens and workers change, and their page may be gone by then.
  Correct: a page at rest shows what its handlers did, a changed mode reaches the worker, a saved zone is what was seen and changed.
- **Authentication and limits.** Seeding and user creation look an address up and insert it in another statement, in whatever
  spelling; hits arrive at the edge of the window. Correct: one account per address; never more hits in a window than allowed.
- **Lists, statistics, video.** Rows are stored between two statements of one answer and between two pages; bytes are asked for
  beyond the end, of a file an upload rewrites. Correct: pages hold every row once and skip none, buckets tile the window, a part
  of a video lies in the file.

## 2. Modules

| module | models | checked by | proved in |
|---|---|---|---|
| `CooldownTracker` | the cooldown dictionary as a function | (through `CameraWorker`) | `CameraWorkerProofs` |
| `CameraWorker` | `run_camera_worker`, `_emit_events`, `_put` | `MCCameraWorker` | `CameraWorkerProofs` |
| `WorkerSupervisor` | registry, supervisor, processes | (through `CameraService`) | `CameraServiceProofs` |
| `CameraService` | EXTENDS `WorkerSupervisor`: requests with their transactions, restarts | `MCCameraService` | `CameraServiceProofs` |
| `AlertDelivery` | abstract: what the way of an event promises | as `DeliverySpec` | `AlertPipelineProofs` |
| `AlertPipeline` | queue, drainer, ingestion, broadcast, zone and camera rows; implements `AlertDelivery` | `MCAlertPipeline` | `AlertPipelineProofs` |
| `AlertsSocketHub` | one browser tab: sockets, retries, listeners, buzzer | `MCAlertsSocketHub` | `AlertsSocketHubProofs` |
| `ZoneMonitors` | monitors, banner, alarm and audio track of the standalone monitor as operators | (through `SafetyMonitor`) | `SafetyMonitorProofs` |
| `SafetyMonitor` | EXTENDS `ZoneMonitors`: batch, frame loop, recorder, signals, shutdown | `MCSafetyMonitor` | `SafetyMonitorProofs` |
| `FloorZones` | the floor of the standalone monitor, its zones and their drawing | `MCFloorZones` | |
| `VideoUpload` | `upload_video`, `utils/video.py`, the files and the camera's row | `MCVideoUpload` | `CameraServiceProofs` |
| `ZoneLines` | the line of a zone row, shared by the next two | | |
| `LineCrossing` | zone rows, the worker's configuration, line geometry, helmets | `MCLineCrossing` | `LineCrossingProofs` |
| `ZonesPage` | the Zones page with its editor | `MCZonesPage` | `ZonesPageProofs` |
| `Console` | tabs on the Live, Cameras and Login pages, their handlers and sessions | `MCConsole` | `ConsoleProofs` |
| `RateLimiter` | the sliding window of `core/rate_limit.py` | `MCConsole` (ASSUME) | `ConsoleProofs` |
| `Accounts` | seeding and creating users in overlapping transactions | `MCConsole` (ASSUME) | `ConsoleProofs` |
| `VideoStream` | byte ranges of `stream_camera_video` | `MCVideoUpload` (ASSUME) | `CameraServiceProofs` |
| `Listing` | filters, pages and someone who turns them | `MCAlertPipeline` (ASSUME) | `AlertPipelineProofs` |
| `Statistics` | the numbers of the statistics page | `MCAlertPipeline` (ASSUME) | `AlertPipelineProofs` |

The `MC` modules hold symmetry sets and values that a configuration cannot write. Three of them also hold named assumptions that
compare the operators of the last five modules with references and with the examples of the test-suite, for all small
inputs; TLC evaluates them at the start of the run. These five have no variables: their actions take the state as
parameters, and the theorems about them are for any variables (`ASSUME NEW VARIABLE ...`).

### CameraWorker

One process. A frame is one step: the only outside influence inside a frame is whether
`put_nowait` finds a slot, and that is a nondeterministic choice per message (`Put`'s `full`). The image work is
abstracted to one report per tracked person, a zone and a helmet status (`Reports`); which
reports are possible follows from `process_frame`'s mode. `Turn` is the loop of `run_camera_worker`; `RequestStop`
and `Terminate` are the supervisor's part. `emitted`, `last_alert`, `alarmed` and `misled` are history: what the
other end of the queue may conclude.

`Breaks` covers the calls outside the `try`: an exception there ends the process.

### WorkerSupervisor and CameraService

The supervisor's methods contain no `await`, so each is one step. A request is a small machine: `loaded` (after
`_require`), `flush` or `flush_error`, `commit` or `raise`; every point at which the code awaits is a point between two steps.
`seen` is the status the ORM loaded, `write` what its flush will write (`Change`: an unchanged attribute is not
written). `locks` are PostgreSQL row locks between flush and commit. `Shutdown` and `Crash` are the two ends of the
backend. `tainted` records the cameras on which requests overlapped or a transaction was lost; `StatusTellsTruth` speaks
of the others, and `LiveWorkerHasCamera` shows why it must.

### AlertPipeline

The queue as `multiprocessing.Queue` is: `slots` (the bounded semaphore of `maxsize`), a `buffer` per process with its
feeder thread, the one write lock (`writing`), the `pipe`, and the reader. A process that ends waits for its feeder; one
that is terminated does not, keeps its slots and, if it was writing, the lock (`torn`). `drainer` is the task with its
program counter: `polling` (in the executor thread), `empty`, `fetched`, `store`, `flushed`, `announce`, `sending`.
`stopping` is the camera whose worker `deactivate` is joining; while it is set, the event loop is blocked, and no step of
the loop is enabled (`LoopFree`). `Restart` is the end of the backend, orderly or not.

Abstractions: activation and deactivation are atomic towards the database here, since their interleavings are `CameraService`'s
subject; foreign keys and the row locks they take are PostgreSQL's (`Referenced`, `RowsExist`); a write that is not
blocked ends within the five seconds of the join (`Terminate`'s guard); a message is its camera, number, kind and zone.

`AlertDelivery` forgets all of this: an event has a fate, `none`, `violation` or `exit` (waiting), `stored`, `announced` or
`lost`. `Fate` in `AlertPipeline` is the refinement mapping.

### AlertsSocketHub

A socket that closes sets a timer and the timer opens the next socket: a *chain*. `phase` says where each chain is. The hub
knows only the socket it opened last (`ws`), so a subscription during a retry delay, when `ws` is null, begins a second
chain (`EnsureConnected`, remembered in `late`). The first chain belongs to `AlertBuzzer`, which is mounted
before anyone is logged in; its attempts carry no valid token and are `refused`. `Enter` and `Visit` are the effects of
`Layout` and of the pages, `Reload` everything that loads the page anew. Each callback of the browser is one step. Time advances in
units of the first retry delay (`Tick`), and not past a due timer or the answer to an attempt. `close()` of the hub is called
by nobody and is left out. `promised` and `calm` are history.

`AlertBuzzer` knows its timers by the two handles in `redBuzzIntervalRef` and `redBuzzStopRef`. The browser's timers are
variables of their own, `intervals` and `stops`: a beeping interval, or a stop timer that will fire, may be there although no ref
names it, and a handle is free again once its timer is gone. `StopRedBuzz` and `StartRedBuzz` clear what the refs name and
nothing else, so `BuzzEnds` is about what they forget.

### SafetyMonitor

`phase` is the next step of the main thread. Python runs signal handlers in that thread, between two bytecodes; here between two steps
(`Signal`), including those of the shutdown, of the muxing and of the exit hook (`AtExit`). Three pairs of statements that
a signal could in principle separate are one step each: closing the writer and setting `_released`; writing a frame and
counting it; the calls within one processed frame. An exception in the loop (`Raise`) comes between steps likewise.
`Frame` evaluates the three monitors for the zones of all tracked persons at once: their memories are per person, and the banner
takes the highest message, so the order of the persons does not matter. `warned` and `noticed` are the persons whose last
warning or notice is still within its cooldown; any of them may have come to its end since the last frame. That assumes a
machine that has been up for longer than the cooldown, since the monitors also read a missing entry as time 0
(compare `EntryAlerts`). `alarm` is the thread the manager knows, the number of those whose join gave up, and the event they share.
`video` and `mux` are the two files of the export. `inside`, `lost_sight`, `shown` and `replace_failed` are history.

### FloorZones

The floor is found once, in the first frame: any of `Outlines`, ordered as `_order_floor_quad` does, or the fixed corners. The depth of a
point under the homography is written as a ratio of areas, which needs no division and holds for any convex quadrilateral. The
bands are drawn at thirds of the edges in the picture.

### VideoUpload

One camera and its uploads. A file has an identity of its own (an *inode*: who writes it, what it holds), so that a reader, a rename and
a rewriting by `ffmpeg -y` differ. An upload is a machine between the awaits of `upload_video`: loaded, writing chunk after
chunk, normalising, flushed, committed; it may be refused for its size, fail to write, raise, be aborted by the client, or lose its
transaction. `ffmpeg` is there or not, for the whole run. `mess` and `last` are history: files an unfinished or overlapping upload left in
an unknown state until the next undisturbed one, and the last confirmed upload. `Settled` is the exception all
properties share: an upload stages to `{camera_id}_upload{suffix}`, and where ffmpeg is missing or failed that is the file the row
names, unless it was an mp4 and got the name `{camera_id}.mp4`. While the next upload of that suffix stages over it, or any upload
replaces files before its commit, a reader may meet half a file. No text of the repository promises more.

### LineCrossing

Zone rows are created, changed and deleted by anyone while the worker keeps the lines it was started with. `BuildLines` is any
order of the rows, since `camera.zones` has none. The frame is 100 by 100 pixels, coordinates and sides are exact integers, and
all frames of a worker have this one size; the code keeps a detector per size. `Boxes` are the places a person may be, `TrackedPersons` any persons
with any track ids. `Sights` are what the helmet model may report: a box, a confidence, and the words of the class name,
from which `LabelKind` reads compliant, violation or neither. Without weights (`Candidates`) it reports nothing, and everybody
violates. `before` and `crossed` tie a crossing to the two frames that show it.

### ZonesPage

One tab of an administrator on the Zones page: the list, the modal form and `LineEditor`, in hundredths of the picture. A
handler is a record of `jobs` with the calls it still waits for; a handler whose page was left runs on without effect on the page. Other clients
write any of `Row`. `seen` and `wish` are history: the copy the form was filled from, and what the operator may expect. Names, descriptions, the choice
of the camera and sessions are left out (sessions are `Console`'s). `SaveKeepsRest` compares, through `SegmentOf`, what a
worker will make of the row with that expectation. Two exceptions are what the code does: a save from a stale copy
overwrites all columns, and a row of which only some end columns are set means another line to the editor (`segmentOf`: full
width) than to a worker (column by column).

### Console

The tabs of one browser. A handler is a sequence of calls (`Calls`), a request is one step on the server, and anything may
happen between two: the other tab, a worker's end, an expiring token, navigation (the handler runs on without its page) or a
reload (the handler is gone, and a call under way counts as not sent). A list for a page that is gone is left out, since it changes
nothing. `Fails` includes answers that get lost after the server acted, and commits that fail after the worker was started or
stopped. `MaxClicks` bounds handlers, navigations, reloads and logouts. The list a handler asked for is first answered by the server (`answer`) and
arrives later, so those of several handlers arrive in any order; one is `older` once the server answered another. `remove` has
no `catch`, and the Add Camera button hides an error (`OpenForm`). `last_by`, `behind` and `missed` are history: the tab whose page has
to show what became of a camera, whether that page got an older list after a newer one, and what follows. `missed`
holds the cameras whose mode was changed without a restart: by a page whose copy showed a running camera as stopped, or by a
handler cut off before its restart. The comment at `LivePage.tsx:50`, "Re-apply on a running worker so the new use-case takes
effect", does not hold for those, and nothing in the code repairs them.

### RateLimiter and Accounts

`Hit` is one call of the limiter for one path and address: it drops the hits older than the window from the left and appends the
new one if there is room. There is no `await` in it, so calls do not overlap; the clock is monotonic and may stand still
between two calls. `granted` is history. Addresses in `Accounts` come in spellings; `Lower` makes two of them equal. A request is between
its lookup and its insert (`absent`), between insert and commit (`flushed`), or not under way. The unique index compares what
the rows hold, so it sees one address only because the rows hold it in lower case. It lets a second transaction wait for the
first; a transaction whose insert it refuses is rolled back like any other that fails, and its request is answered 500 and not 409.

### VideoStream, Listing and Statistics

`Part` is the arithmetic of `_serve_file_with_range` for a file that is not empty, `ReadChunk` a step of its generator, while an upload may
shorten or rewrite the file. A list in `Listing` is in the order its rows were created in and `NewestFirst` turns it round; rows
created in the same instant have no order in the database, and none is claimed for them. `CountRows` and `SelectRows` are the two
statements of one answer, `StoreRow` is the drainer's transaction, and the reader goes from page 1 to the last page that the answer
announces. `Statistics` gives each number of the answer as a function of the table its statement sees (`seen`), since other transactions commit
between them; times are in seconds.

## 3. Runs

| run | question | bounds |
|---|---|---|
| `worker` | do red alarms match who is in the red area, through drops, disappearances and quick returns? spacing of alerts, end on stop, end on a dead file | one person, three different windows, clock to 10 so that each cooldown expires more than once, 2 read failures, skip 2; persons do not interact, and the theorems hold for any set |
| `camera_service` | the life cycle under two concurrent requests, dying workers, failing database, restart | two cameras, one may be active, two process objects, two requests: any two operations overlap |
| `camera_orphan` | finding: delete overtakes activate and leaves a worker without a camera | one camera, two requests |
| `pipeline` | delivery, order and gaplessness through every failure | one camera with one zone, one client, three events, two slots, a pipe of one message: queue and pipe fill up |
| `pipeline_drain` | liveness: every message is read, every join ends | two cameras sharing queue and pipe, so that one's stop blocks the other |
| `alerts_socket` | does a tab reconnect, and hear what it should, once and in order, and does every buzz end? | two chains, retry delays 1, 2 and 3 (doubling and cap), buzz of 2 ticks, two alerts, so that the second can interrupt the buzz of the first, two timer handles, so that one can be leaked |
| `safety_monitor` | do alarm, log, sound and picture agree, and is the video kept, through signals at every step? | two videos (what one leaves behind meets the next), two persons, four frames, every frame or every second one processed, one alarm thread left behind |
| `video_upload` | does a camera keep a whole, current video, and only that file, through overlapping and failing uploads? | three uploads (two overlap, a third makes good), two suffixes, one of them that of the target, ffmpeg present or not |
| `line_crossing` | are the named zone, the bands, the crossings and the helmets those of the picture? | one worker, two zones, two edits, three lines (level and drawn backwards, slanting, half empty), five places on every side of them, four things the helmet model may see |
| `console` | does a page at rest show what its handlers did, deletions included, however they overlapped, and does a mode reach the worker? | two tabs, two cameras, two clicks: enough for two handlers to overlap in one tab, in two, on one camera or on two, and for their lists to arrive in either order |
| `zones_page` | is a saved zone what the operator saw and changed? | two zones, three rows, two pointer positions (one outside the picture), five steps (open, grab, drag, save, and one more), one write of another client |
| `floor_drawn` | finding: the zones change elsewhere than they are drawn | a frame of 25 by 50, the fixed floor and two detected ones |

Each bound is the smallest at which the case of interest occurs (a full queue, an overtaken request, a second expiry, a second
process object for the same camera) plus one; behaviours beyond them repeat the same steps with more actors. The theorems
below remove the bounds for safety. Every property of a passing run has a mutant of the code
(`PROJECT.json`, "mutants") that violates it under the same configuration.

### Findings

- `camera_orphan`: `activate_camera` acts on a row loaded before an `await`; a delete in between leaves a live worker for a
  camera that no longer exists, counted against `max_active_cameras` until the backend restarts.
- `floor_drawn`: the standalone monitor draws its lines at thirds of the floor's edges in the picture, but changes zones at thirds of
  its depth in perspective. Whoever stands in the lower part of the band drawn as restricted raises no alarm.

Other behaviour that the properties except, because it is what the code does; each exception is named in the property's comment:

- `CooldownTracker.should_fire` reads a missing key as fired at monotonic time 0, so on a machine up for less than the
  cooldown the first alert is suppressed (`BootedLate` excludes it).
- `deactivate` joins on the event loop that drains the queue. A worker whose feeder has more to write than the pipe takes
  cannot end; it is terminated in mid-write, the queue's write lock is never released, and no camera's events get through until the
  backend restarts (`torn`).
- A running worker keeps naming a deleted zone; each such detection violates the foreign key and is dropped.
- A component that mounts during a retry delay opens a second socket, and both go on for ever; one of them closing shows "disconnected"
  while the other delivers, and each alert is heard twice (`late`).
- `_attach_alert_audio` deletes the original video before it renames the muxed one; when the renaming fails, its handler deletes
  the muxed one too (`replace_failed`).
- A camera whose raw `{camera_id}_upload.mov` was kept, because ffmpeg is missing or failed, has its current video overwritten while the next
  `.mov` is received, and loses it if that one is too large or aborted (`Settled`).
- Of two zones of one colour an alert may name the wrong one; a foot exactly on the red line is safe.
- A mode changed from a stale copy of the camera does not reach the running worker (`missed`).
- The handlers of one page are not ordered: of two lists asked for one after the other, the older may arrive last and stay (`behind`).
- A deletion that fails, or whose list does, says nothing, and the camera stays on the Cameras page; opening the form of Add Camera
  hides the error of whatever failed before (`LastByCaught`, `Disown`).
- When a mode change has stopped a camera and cannot start it again, the Live page shows an error and does not load the list: the
  camera stays listed as live (`error`).
- On the Zones page a late answer of a save closes whichever form is open then, pressing Create twice makes two zones, and a save from a
  stale copy overwrites the columns another client wrote. No page restarts a worker after its zones changed.

- Rows stored between the count and the select of one answer move the oldest rows of a list to a page that the answer's
  `total_pages` does not announce (`overtaken`).
- A camera without detections in the window is missing from the statistics, although the join of `count_by_camera` is an outer one: the
  condition on `created_at` drops its row.
- An unknown unit of a rate counts as a minute. `bytes=-n` is read as the first bytes of a video up to `n` instead of its last `n`.

### Fairness

- `CameraWorker`: weak fairness of `Turn`; the operating system keeps scheduling the process.
- `CameraService`: weak fairness of a request's progress (the event loop resumes every handler) and strong fairness of
  `Flush` (PostgreSQL hands a row lock to its waiters in turn).
- `AlertPipeline`: weak fairness of the feeder threads and of the join, which ends by its timeout at the latest; strong
  fairness of the drainer's steps, since the loop runs what is ready in turn and requests that block it again and again
  cannot keep it from the drainer. A send to a client that stops reading ends with the server's ping timeout.
- `AlertsSocketHub` needs none: reconnection is stated with a bound, as `ReconnectsInTime`, over a clock that does not pass due
  timers. `SafetyMonitor` states no liveness: a session lasts as long as its source. Nor do the modules of uploads, geometry and
  pages: a client may stop sending, and an operator may stop clicking, at any time.

## 4. Proofs

TLAPS proves, for all values of the constants that satisfy the named assumptions of the modules (`ASSUME` at the head of each: that
bounds, windows and delays are numbers in the order the code gives them, that boxes and lines have integer coordinates, and that `None`,
`Unborn` and `Deleted` are no values of the data; TLC evaluates them in every run):

- `CameraWorkerProofs`: `TypeCorrect`; `AlarmCorrect` and `EntryAlertsCorrect` from the invariant `RedInv`: a person's red cooldown
  is running exactly while that person is in the red area, and the clock is past the red cooldown, so an entry always fires.
  Both assume `BootedLate`; without it they are false. `AlertSpacingCorrect` from `SpacingInv`, which ties each
  tracker to the history of alerts.
- `CameraServiceProofs`: `TypeCorrect`; `NoStrayWorkerCorrect` and `CapacityCorrect` together, since the limit is tested over
  the registered live processes and counts all of them only because none is stray; `ErrorNeverStoredCorrect`;
  `StatusCorrect` from an invariant per camera that says what each program counter of its single request implies for the row,
  the lock and the process, and that a camera with several requests in flight is tainted. About the uploads of the same
  service: `UploadTypeCorrect`; `VideoPlayableCorrect` and `NothingLeftBehindCorrect` together, from `UploadInv`. Two names of the
  directory never share a file (`FilesInv`), so writing one file cannot spoil another name; a request that nothing overlapped
  (`AloneInv`) is the only one in flight, still owns what it stages, has its whole video under the path it is about to store, and has
  cleared the directory. So its commit makes good whatever failures left, and while no mess is noted `GoodInv` keeps
  the row's file whole: receiving the next video leaves it alone, and one that replaces it is not settled. About the player:
  `VideoPartCorrect`, where the part and what was read of it always add up to what was announced.
- `AlertPipelineProofs`: `TypeCorrect`; the order invariant `InOrder`: the messages of a camera are sorted along
  pipe, writer and buffer, everything recorded was raised before all that waits, and the message at hand lies between the
  two. It is inductive where the properties are not: order in the database needs order in the pipe. From it
  `DeliveryCorrect` (every step of the pipeline is a step of `AlertDelivery` or leaves the fates alone),
  `InboxInOrderCorrect` and, with the invariant `NobodySkipped` about the broadcast under way, `NoGapCorrect`.
  About lists: `PagesCorrect`, by arithmetic on `TotalPages`; `TurningPagesCorrect` from `ReadingInv`: the reader has seen every row of the
  beginning that now lies above the page to be selected, since storing a row only moves others down; the last page reaches
  the end of the list because the answer's count is still that of the table. About the statistics: `BucketsCorrect`.
- `AlertsSocketHubProofs`: `TypeCorrect`; `ReconnectCorrect` from `Retrying` (while the tab can connect and does not, some chain
  waits for at most what is left of the longest delay); `NoAlertMissedCorrect` from `Shown` (a tab shown as
  connected has an open socket, so an alert sent now is on its way); `HeardOnceCorrect` from `OneChain` and the order of the
  alerts along its socket; `BuzzEndsCorrect` from `BuzzOrSilence`: the handles in the refs are those
  of all the timers there are, both or none.
- `SafetyMonitorProofs`: `TypeCorrect`; `AlarmCorrect` from `AlarmInv`, for any number of threads left behind: the event is clear exactly while
  the known thread runs, which ties it to the frame; `BannerCorrect` from `BannerInv`; `LogCorrect`,
  where the property is inductive by itself; `VideoCorrect` from `VideoInv`, which says for every phase of the release which
  of the two files is complete; `AudioCorrect` from `AudioInv`: up to the frame clock, which is at most one
  frame behind the frames written, the intervals cover exactly the breaches; none reaches beyond the clock; one is open exactly
  while the frame shows a breach; and the flag is down when a new session begins.
- `LineCrossingProofs`: `TypeCorrect`; `NoGhostCrossingCorrect` from the invariant `IInv`, which ties the remembered sides to the
  persons of the last frame and of no other (`SidesAreOfLastFrame`), and a frame to a running worker (`OneWorker`). The other three
  follow from the types alone, by the geometry: `NamedZoneCorrect`, since with one line of a colour its first and its last line are the same;
  `BandsByHeightCorrect`, since the camera's sign undoes the direction a line was drawn in; `HelmetCorrect`, by what the
  maximum over the associated helmets is and that an association implies a common point. They hold for all integer
  coordinates, where the run has a handful.
- `ZonesPageProofs`: `TypeCorrect`; `SaveKeepsRestCorrect` from an invariant that ties the form to what the operator saw and wishes
  through every change and drag (`FormTellsWish`), and each save under way to the form it was sent from (`JobTellsWish`).
- `ConsoleProofs`: `TypeCorrect`; `ModeReachesWorkerCorrect` and `OwnWritesShownCorrect` from one invariant. Its part `Knowing`
  says which calls each handler may still have to make, and that handlers and lists name only cameras that were created; without
  it a `put` could change the mode of a row that a pending `post` is about to write. `NewestAlone` says that of the lists on
  their way to a page at most one is no older than the others. `WillShow` is what becomes `OwnWritesShown` at rest: the page shows an
  error; or some handler has yet to ask for a list and ends with an error if it does not get there (a deletion, for its own camera
  only); or the newest list on its way shows the camera; or, when none is on its way, the page's own list does or is behind. That the
  newest list stays true to the server until it arrives is the induction: whatever changes the camera meanwhile is another tab,
  the end of a worker, or a handler of this page that will ask again. `None` is no list (`NoneAssumption`).
  `LoginLimitCorrect` from `LimiterInv`: the bucket is the end of the history of granted hits, and what it has forgotten is
  older than a window. `AccountsCorrect` from `AccountsInv`: the address of every row that is flushed and not committed is in no other
  row, flushed or committed. That is more than the lookup tells, which may be out of date by then.

Only model-checked: everything under fairness (`StopEnds`, `DeadFileEnds`, `RequestsEnd`, `QueueDrains`, `StopsEnd`), which the
prover cannot treat, and the module `FloorZones`, whose run shows a disagreement. `ErrorNeverStored` and
`BannerShowsBreach` are proved and have no run of their own.

## 5. What is not modelled, and why

- Neural inference and tracking: the report of a frame is nondeterministic within what the pipeline can return.
- HTTP parsing, schemas, formatting, the labels of the statistics: they change no state.
- Cryptography and passwords.
- Order of events across cameras: every process has its own feeder thread and nothing promises it.
- A half-open connection of the browser, which neither side notices, and a browser that refuses to play sound.
- In the standalone monitor: the image processing that finds the floor (any outline may come of it), the other drawing, the single beeps,
  the log rows of the safe and the warning zone, the command line.
- Streams that change their frame size while a worker runs.
- `AlertsPage` and `acknowledge_alert`: see the plan.
- That the series of the statistics add up to the same number is checked on small tables only: a sum over a function is a fold.
- Older copies of modules in the tree that nothing imports.

## 6. Plan

In this order. What touches state a module already has extends that module and its runs.

1. `acknowledge_alert` in `AlertPipeline`: a broadcast before its commit, overtaking that of the alert itself; with it
   `AlertsPage` and its overlapping loads.
2. Abstract specifications of `CameraService` (a set of running cameras) and of `VideoUpload` (one video per camera, replaced
   atomically), each refined by the module there is; theorems for the refinements and for the lemmas on `CooldownTracker`.
3. `VideoUpload` composed with the worker that reads the file, and `Console` over `CameraService` instead of atomic requests.
