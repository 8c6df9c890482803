----------------------------- MODULE CameraWorker -----------------------------
(***************************************************************************)
(* One camera worker process: run_camera_worker and _emit_events of        *)
(* backend/app/workers/camera_worker.py.  The process loads its models,    *)
(* opens the source, and then loops: read a frame, detect, turn the        *)
(* detections into throttled messages.  The image work is abstracted to    *)
(* its result, one report per tracked person.                              *)
(*                                                                         *)
(* A frame is one step.  The only other actors that could act inside it    *)
(* are the users of the shared event queue, and all they can do to it is   *)
(* decide whether put_nowait finds a free slot, which is left open here    *)
(* for each message separately.                                            *)
(***************************************************************************)
EXTENDS CooldownTracker, FiniteSets

CONSTANTS
    Persons,          \* tracker ids ByteTrack may report
    Cooldown,         \* config.cooldown_seconds
    RedBuzz,          \* RED_BUZZ_SECONDS
    HelmetCooldown,   \* HELMET_ALERT_COOLDOWN_SECONDS
    BootTimes,        \* readings of the monotonic clock at process start
    MaxClock,         \* bound: the clock stops here
    MaxReadFailures,  \* max_read_failures
    FrameSkip         \* config.frame_skip (restricted-area mode)

ASSUME WorkerAssumption ==
    /\ Cooldown \in Nat \ {0}
    /\ RedBuzz \in Nat \ {0}
    /\ HelmetCooldown \in Nat \ {0}
    /\ BootTimes \subseteq Nat
    /\ MaxClock \in Nat
    /\ MaxReadFailures \in Nat \ {0}
    /\ FrameSkip \in Nat \ {0}

RedCooldown == Cooldown + RedBuzz

VARIABLES
    detection_mode,  \* config.detection_mode
    is_file,         \* isinstance(source, str): a path or URL, not a webcam index
    phase,           \* "loading" | "looping" | "exited"
    stop_event,      \* the multiprocessing.Event the supervisor sets
    clock,           \* time.monotonic()
    read_failures,
    frame_index,     \* modulo FrameSkip, which is all the code looks at
    worker_zones,    \* person -> zone, for the persons in the last frame
    cooldown, red_cooldown, helmet_cooldown,
    \* What the other end of the queue may conclude (history variables):
    emitted,         \* messages handed to _put by the last step
    last_alert,      \* kind -> (person -> time of the last alert of that kind)
    alarmed,         \* persons whose last accepted red/exit message was a red alert
    misled           \* persons whose last red/exit message was dropped

config == <<detection_mode, is_file>>
loop == <<phase, stop_event, read_failures, frame_index>>
trackers == <<cooldown, red_cooldown, helmet_cooldown>>
history == <<last_alert, alarmed, misled>>
vars == <<config, loop, clock, worker_zones, trackers, emitted, history>>

Zones == {"safe", "yellow", "red"}
AlertKinds == {"helmet_violation", "yellow", "red"}
Kinds == AlertKinds \cup {"zone_exit"}
Messages == [kind : Kinds, person : Persons]

-----------------------------------------------------------------------------
Init ==
    /\ detection_mode \in {"restricted_area", "helmet"}
    /\ is_file \in BOOLEAN
    /\ phase = "loading"
    /\ stop_event = FALSE
    /\ clock \in BootTimes
    /\ read_failures = 0
    /\ frame_index = 0
    /\ worker_zones = [p \in {} |-> "safe"]
    /\ cooldown = NoneFired
    /\ red_cooldown = NoneFired
    /\ helmet_cooldown = NoneFired
    /\ emitted = {}
    /\ last_alert = [k \in AlertKinds |-> NoneFired]
    /\ alarmed = {}
    /\ misled = {}

-----------------------------------------------------------------------------
(* _emit_events                                                             *)

\* pipeline.process_frame: in helmet mode every zone is "safe", in
\* restricted-area mode every helmet status is "safe".
Reports ==
    IF detection_mode = "helmet"
    THEN [zone : {"safe"}, helmet : {"safe", "helmet_violation"}]
    ELSE [zone : Zones, helmet : {"safe"}]

\* The detections of a frame: a report for each person in it.
Detections == UNION {[P -> Reports] : P \in SUBSET Persons}

\* Persons seen outside the red area who were in it at the last frame.
Left(dets) ==
    {p \in DOMAIN dets \cap DOMAIN worker_zones :
        worker_zones[p] = "red" /\ dets[p].zone # "red"}

\* Persons out of the frame who were in the red area at the last one.
Vanished(dets) ==
    {p \in DOMAIN worker_zones \ DOMAIN dets : worker_zones[p] = "red"}

Exits(dets) == Left(dets) \cup Vanished(dets)

\* Mutant: the helmet tracker is built with the zone cooldown.
HelmetAlertsZoneWindow(dets) ==
    {p \in DOMAIN dets : /\ dets[p].helmet = "helmet_violation"
                         /\ ShouldFire(helmet_cooldown, p, clock, Cooldown)}

HelmetAlerts(dets) ==
    {p \in DOMAIN dets : /\ dets[p].helmet = "helmet_violation"
                         /\ ShouldFire(helmet_cooldown, p, clock, HelmetCooldown)}

YellowAlerts(dets) ==
    {p \in DOMAIN dets : /\ dets[p].zone = "yellow"
                         /\ ShouldFire(cooldown, p, clock, Cooldown)}

\* A person of Left is not in red, so the reset before the test is of no
\* consequence to it within the frame.
RedAlerts(dets) ==
    {p \in DOMAIN dets : /\ dets[p].zone = "red"
                         /\ ShouldFire(red_cooldown, p, clock, RedCooldown)}

Alerts(dets, k) == CASE k = "helmet_violation" -> HelmetAlerts(dets)
                     [] k = "yellow" -> YellowAlerts(dets)
                     [] k = "red" -> RedAlerts(dets)

\* _put: put_nowait queues the message or, when the queue is full, it is
\* dropped with a warning.  `full` are the persons whose zone message met a
\* full queue.  A frame has at most one red or exit message per person.
Put(dets, full) ==
    LET entered == RedAlerts(dets)
        left == Exits(dets)
    IN  /\ full \subseteq entered \cup left
        /\ emitted' = {m \in Messages : m.person \in IF m.kind = "zone_exit" THEN left
                                                     ELSE Alerts(dets, m.kind)}
        /\ alarmed' = (alarmed \ (left \ full)) \cup (entered \ full)
        /\ misled' = (misled \ (entered \cup left)) \cup full
        /\ last_alert' = [k \in AlertKinds |->
                            Fire(last_alert[k], Alerts(dets, k), clock)]

EmitEvents(dets) ==
    /\ worker_zones' = [p \in DOMAIN dets |-> dets[p].zone]
    /\ helmet_cooldown' = Fire(helmet_cooldown, HelmetAlerts(dets), clock)
    /\ cooldown' = Fire(cooldown, YellowAlerts(dets), clock)
    /\ red_cooldown' = Fire(Reset(red_cooldown, Exits(dets)), RedAlerts(dets), clock)
    /\ \E full \in SUBSET (RedAlerts(dets) \cup Exits(dets)) : Put(dets, full)

-----------------------------------------------------------------------------
(* run_camera_worker                                                        *)

Quiet == emitted' = {} /\ UNCHANGED <<worker_zones, trackers, history>>

\* Imports, models and capture; any failure returns from the process.
Load ==
    /\ phase = "loading"
    /\ phase' \in {"looping", "exited"}
    /\ Quiet
    /\ UNCHANGED <<config, stop_event, clock, read_failures, frame_index>>

\* Mutant: the stop event is tested only after a good read.
SeeStopAfterGoodRead ==
    /\ phase = "looping"
    /\ stop_event
    /\ read_failures = 0
    /\ phase' = "exited"
    /\ Quiet
    /\ UNCHANGED <<config, stop_event, clock, read_failures, frame_index>>

\* while not stop_event.is_set()
SeeStop ==
    /\ phase = "looping"
    /\ stop_event
    /\ phase' = "exited"
    /\ Quiet
    /\ UNCHANGED <<config, stop_event, clock, read_failures, frame_index>>

\* Mutant: the break is missing, and rewinding starts the count again.
ReadFailsForever ==
    /\ phase = "looping"
    /\ ~stop_event
    /\ read_failures' = IF read_failures < MaxReadFailures THEN read_failures + 1 ELSE 1
    /\ Quiet
    /\ UNCHANGED <<config, phase, stop_event, clock, frame_index>>

\* Mutant: nothing compares the count with its limit.
ReadFailsUncounted ==
    /\ phase = "looping"
    /\ ~stop_event
    /\ read_failures' = read_failures + 1
    /\ Quiet
    /\ UNCHANGED <<config, phase, stop_event, clock, frame_index>>

\* capture.read() delivers no frame.  A path is rewound and given up after
\* MaxReadFailures in a row; a webcam is retried for ever (its count, which
\* nothing reads, stays at the limit here).
ReadFails ==
    /\ phase = "looping"
    /\ ~stop_event
    /\ read_failures' = IF read_failures < MaxReadFailures
                        THEN read_failures + 1 ELSE read_failures
    /\ phase' = IF is_file /\ read_failures + 1 >= MaxReadFailures
                THEN "exited" ELSE "looping"
    /\ Quiet
    /\ UNCHANGED <<config, stop_event, clock, frame_index>>

Skip == IF detection_mode = "helmet" THEN 1 ELSE FrameSkip

\* A frame is read; it is skipped, or processing it raises.
PassOver ==
    /\ phase = "looping"
    /\ ~stop_event
    /\ read_failures' = 0
    /\ frame_index' = (frame_index + 1) % FrameSkip
    /\ Quiet
    /\ UNCHANGED <<config, phase, stop_event, clock>>

\* An exception outside the try: the frame cannot be encoded or published.
\* finally releases the capture, and the process ends.
Breaks ==
    /\ phase = "looping"
    /\ ~stop_event
    /\ read_failures' = 0
    /\ frame_index' = (frame_index + 1) % FrameSkip
    /\ phase' = "exited"
    /\ Quiet
    /\ UNCHANGED <<config, stop_event, clock>>

ProcessFrame(dets) ==
    /\ phase = "looping"
    /\ ~stop_event
    /\ read_failures' = 0
    /\ frame_index' = (frame_index + 1) % FrameSkip
    /\ Skip > 1 => frame_index' = 0
    /\ EmitEvents(dets)
    /\ UNCHANGED <<config, phase, stop_event, clock>>

\* WorkerSupervisor.deactivate sets the event and, if the process outlives
\* the join timeout, terminates it.
RequestStop ==
    /\ ~stop_event
    /\ stop_event' = TRUE
    /\ Quiet
    /\ UNCHANGED <<config, phase, clock, read_failures, frame_index>>

Terminate ==
    /\ stop_event
    /\ phase # "exited"
    /\ phase' = "exited"
    /\ Quiet
    /\ UNCHANGED <<config, stop_event, clock, read_failures, frame_index>>

Tick ==
    /\ clock < MaxClock
    /\ clock' = clock + 1
    /\ Quiet
    /\ UNCHANGED <<config, loop>>

\* One turn of the process itself.
Turn ==
    \/ Load
    \/ SeeStop
    \/ ReadFails
    \/ PassOver
    \/ Breaks
    \/ \E dets \in Detections : ProcessFrame(dets)

Next == Turn \/ RequestStop \/ Terminate \/ Tick

Spec == Init /\ [][Next]_vars

\* The operating system keeps scheduling the process.
FairSpec == Spec /\ WF_vars(Turn)

-----------------------------------------------------------------------------
TypeOK ==
    /\ detection_mode \in {"restricted_area", "helmet"}
    /\ is_file \in BOOLEAN
    /\ phase \in {"loading", "looping", "exited"}
    /\ stop_event \in BOOLEAN
    /\ clock \in Nat
    /\ read_failures \in 0..MaxReadFailures
    /\ frame_index \in 0..FrameSkip - 1
    /\ DOMAIN worker_zones \subseteq Persons
    /\ worker_zones \in [DOMAIN worker_zones -> Zones]
    /\ IsTracker(cooldown, Persons)
    /\ IsTracker(red_cooldown, Persons)
    /\ IsTracker(helmet_cooldown, Persons)
    /\ emitted \subseteq Messages
    /\ DOMAIN last_alert = AlertKinds
    /\ \A k \in AlertKinds : IsTracker(last_alert[k], Persons)
    /\ alarmed \subseteq Persons
    /\ misled \subseteq Persons

InRed == {p \in DOMAIN worker_zones : worker_zones[p] = "red"}

\* The process starts when the machine has been up for longer than RedCooldown.
BootedLate == \A t \in BootTimes : t >= RedCooldown

\* What the other end of the queue knows of the red area is right: except for
\* a person whose latest red or exit message was dropped by a full queue, a
\* red alarm is open exactly for the persons in the red area, whichever way
\* they came in and went out (walked, vanished from the frame, came back).
\* Holds when BootedLate.
AlarmTellsOccupancy ==
    \A p \in Persons \ misled : p \in alarmed <=> p \in InRed

\* Coming into the red area raises a red alert in that very frame, however
\* recently the same person was there: leaving cleared the cooldown
\* (CooldownTracker.reset).  Holds when BootedLate.
EntryAlerts ==
    [][\A p \in Persons :
        p \notin InRed /\ p \in InRed' => [kind |-> "red", person |-> p] \in emitted']_vars

CooldownOf(k) == CASE k = "helmet_violation" -> HelmetCooldown
                   [] k = "yellow" -> Cooldown
                   [] k = "red" -> RedCooldown

\* Alerts are throttled per person and kind.  Two helmet alerts or two yellow
\* alerts are never closer than their cooldown, even when the person leaves
\* the frame or the zone in between; two red alerts are not unless the person
\* left the red area in between.
AlertSpacing ==
    [][\A k \in AlertKinds, p \in Persons :
        /\ [kind |-> k, person |-> p] \in emitted'
        /\ p \in DOMAIN last_alert[k]
        /\ k = "red" => p \in InRed
        => clock - last_alert[k][p] >= CooldownOf(k)]_vars

\* A worker told to stop leaves its loop, also while its source delivers no
\* frame or processing keeps raising: each `continue` goes back to the test.
StopEnds == stop_event ~> phase = "exited"

\* A worker whose file or stream never again delivers a frame gives it up
\* (unlike a webcam, which it retries for ever).
DeadFileEnds ==
    is_file /\ <>[](phase = "looping" => read_failures > 0) => <>(phase = "exited")
================================================================================
