----------------------------- MODULE SafetyMonitor -----------------------------
(***************************************************************************)
(* The standalone monitor, safety_monitor.py: a batch of videos, one       *)
(* session each, and in a session the loop over its frames, the alarm, the *)
(* recorded video with its audio track, and the shutdown, which an end of  *)
(* the stream, a key, an exception or a signal brings about.               *)
(*                                                                         *)
(* Python runs a signal handler in the main thread between two bytecodes;  *)
(* here it runs between two steps.  `phase` is the next step.              *)
(*                                                                         *)
(* Image work is abstracted to its result, the zone of each tracked        *)
(* person.  Left out as mere output: the rows of the event log other than  *)
(* those of the restricted zone, and the single beeps.                     *)
(***************************************************************************)
EXTENDS ZoneMonitors, Sequences

CONSTANTS
    Persons,      \* ids ByteTrack gives, the same ones again in each session
    Batch,        \* number of videos in the batch
    FrameSkips,   \* values of config.frame_skip
    MaxFrames,    \* bound: frames of a video
    MaxStrays     \* bound: alarm threads the join gives up

ASSUME MonitorAssumption ==
    /\ Batch \in Nat
    /\ FrameSkips \subseteq Nat \ {0}
    /\ MaxFrames \in Nat \ {0}
    /\ MaxStrays \in Nat

VARIABLES
    recording,     \* config.output_video_enabled
    frame_skip,    \* config.frame_skip
    phase,
    unwinding,     \* an exception or SystemExit is on its way out of run_all
    abort_batch,   \* _abort_batch
    sources,       \* videos not yet begun
    paused,        \* _paused
    frame_index,   \* _frame_index, modulo frame_skip
    last,          \* _last_detections: person -> zone
    restricted, warning, safe,  \* previous states of the three monitors
    warned, noticed,            \* persons in the cooldown of a warning, of a notice
    banner,        \* StatusBanner: the priority of its message
    alarm,         \* the alarm threads
    alarm_active,  \* _critical_alarm_active
    track,         \* the SessionAudioTrack
    recorder,      \* "none", "recording", or "released"
    video,         \* the output file: "none", "open", "final", "muxed", or "gone"
    mux,           \* the file ffmpeg writes: "none", "partial" or "complete"
    in_atexit,     \* whether it is atexit that called VideoRecorder.release
    shown,         \* history: whether each displayed frame shows a breach
    inside,        \* history: persons whose last restricted event in the log is an ENTRY
    lost_sight,    \* history: those of them who went out of the frame since
    replace_failed \* history: muxed_path.replace raised an OSError

monitors == <<restricted, warning, safe, warned, noticed, banner>>
frames == <<frame_index, last, shown>>
sound == <<alarm, alarm_active, track>>
files == <<recorder, video, mux, replace_failed>>
log == <<inside, lost_sight>>
control == <<unwinding, abort_batch, sources, paused, in_atexit>>
config == <<recording, frame_skip>>
vars == <<config, phase, control, frames, monitors, sound, files, log>>

Nobody == [p \in {} |-> "outside"]
Sightings == UNION {[P -> ZoneStates] : P \in SUBSET Persons}

InLoop == {"read", "write", "advance", "poll"}
Releasing == {"release", "audio", "mux", "unlink", "replace"}
Phases == {"start", "silence", "over", "atexit", "exited"} \cup InLoop \cup Releasing

Breach(seen) == Within(seen, "critical") # {}

Init ==
    /\ recording \in BOOLEAN
    /\ frame_skip \in FrameSkips
    /\ phase = "start"
    /\ unwinding = FALSE
    /\ abort_batch = FALSE
    /\ sources = Batch
    /\ paused = FALSE
    /\ frame_index = 0
    /\ last = Nobody
    /\ restricted = Nobody
    /\ warning = Nobody
    /\ safe = Nobody
    /\ warned = {}
    /\ noticed = {}
    /\ banner = NoMessage
    /\ alarm = NoAlarm
    /\ alarm_active = FALSE
    /\ track = NoTrack
    /\ recorder = "none"
    /\ video = "none"
    /\ mux = "none"
    /\ in_atexit = FALSE
    /\ shown = <<>>
    /\ inside = {}
    /\ lost_sight = {}
    /\ replace_failed = FALSE

-----------------------------------------------------------------------------
\* The batch.

ResetSessionState ==
    /\ paused' = FALSE
    /\ frame_index' = 0
    /\ last' = Nobody
    /\ restricted' = Nobody
    /\ warning' = Nobody
    /\ safe' = Nobody
    /\ warned' = {}
    /\ noticed' = {}
    /\ banner' = NoMessage
    /\ track' = NoTrack
    /\ mux' = "none"
    /\ shown' = <<>>
    /\ inside' = {}
    /\ lost_sight' = {}
    /\ replace_failed' = FALSE

\* The recorder of a session opens its file before there is a frame in it.
OpenRecorder ==
    /\ recorder' = IF recording THEN "recording" ELSE "none"
    /\ video' = IF recording THEN "open" ELSE "none"

\* run, to the first frame and the recorder.  A source that does not open, has
\* no frame, or finds no codec raises, and with it the batch ends.
NextSource ==
    /\ phase = "start"
    /\ sources > 0
    /\ ~abort_batch
    /\ sources' = sources - 1
    /\ ResetSessionState
    /\ \/ /\ phase' = "read"
          /\ OpenRecorder
          /\ UNCHANGED unwinding
       \/ /\ phase' = "silence"
          /\ recorder' = "none"
          /\ video' = "none"
          /\ unwinding' = TRUE
    /\ UNCHANGED <<config, abort_batch, in_atexit, alarm, alarm_active>>

BatchEnds ==
    /\ phase = "start"
    /\ sources = 0 \/ abort_batch
    /\ phase' = "atexit"
    /\ UNCHANGED <<config, control, frames, monitors, sound, files, log>>

-----------------------------------------------------------------------------
\* The main loop.

UpdateCriticalAlarm(breach) ==
    /\ alarm_active' = breach
    /\ track' = IF recording /\ alarm_active # breach THEN SetCriticalActive(track, breach) ELSE track
    /\ IF breach THEN alarm' = StartCriticalAlarm(alarm)
                 ELSE alarm' \in {a \in StopCriticalAlarm(alarm) : a.strays <= MaxStrays}

\* Frames in which the detector saw something.  Of the persons in a cooldown, any
\* may have come to its end since the last frame.
Evaluate(seen) ==
    \E cooling \in SUBSET warned, resting \in SUBSET noticed :
        LET warn == Warnings(warning, seen) \ cooling
            notice == SafeNotices(safe, seen) \ resting
            entered == PublishFor(banner, RestrictedEntries(restricted, seen), Critical)
        IN  /\ warned' = (cooling \cup warn) \ Forgotten(warning, seen)
            /\ noticed' = (resting \cup notice) \ Forgotten(safe, seen)
            /\ banner' = PublishFor(PublishFor(entered, warn, Warning), notice, Caution)
            /\ restricted' = seen
            /\ warning' = seen
            /\ safe' = seen

\* Frames in which it saw nothing carry no tracker ids, and are cut short.
PruneWarningAndRestricted ==
    /\ restricted' = Nobody
    /\ warning' = Nobody
    /\ warned' = {}
    /\ UNCHANGED <<safe, noticed, banner>>

\* What the event log tells about the restricted zone.
LogRestricted(seen) ==
    LET entered == RestrictedEntries(restricted, seen)
        left == RestrictedExits(restricted, seen)
    IN  /\ inside' = (inside \ left) \cup entered
        /\ lost_sight' = (lost_sight \cup (Within(restricted, "critical") \ DOMAIN seen)) \ entered

ProcessFrame(seen) ==
    /\ \/ Evaluate(seen)
       \/ seen = Nobody /\ PruneWarningAndRestricted
    /\ LogRestricted(seen)
    /\ last' = seen
    /\ UpdateCriticalAlarm(Breach(seen))

\* A mutant: the frame number is compared without being counted on.
NextIndexStuck == frame_index + 1

NextIndex == (frame_index + 1) % frame_skip

Frame ==
    /\ phase = "read"
    /\ Len(shown) < MaxFrames
    /\ frame_index' = NextIndex
    /\ IF frame_index' = 0
       THEN \E seen \in Sightings : ProcessFrame(seen)
       ELSE UNCHANGED <<last, monitors, sound, log>>
    /\ phase' = "write"
    /\ UNCHANGED <<config, control, shown, files>>

\* The first frame was read by run.
EndOfStream ==
    /\ phase = "read"
    /\ shown # <<>>
    /\ phase' = "silence"
    /\ UNCHANGED <<config, control, frames, monitors, sound, files, log>>

\* Render, record and show the frame.
Write ==
    /\ phase = "write"
    /\ shown' = Append(shown, Breach(last))
    /\ phase' = "advance"
    /\ UNCHANGED <<config, control, frame_index, last, monitors, sound, files, log>>

AdvanceFrame ==
    /\ phase = "advance"
    /\ track' = IF recording THEN [track EXCEPT !.frame = @ + 1] ELSE track
    /\ phase' = "poll"
    /\ UNCHANGED <<config, control, frames, monitors, alarm, alarm_active, files, log>>

\* P, R or no key.
KeepGoing ==
    /\ phase = "poll"
    /\ paused' \in BOOLEAN
    /\ phase' = IF paused' THEN "poll" ELSE "read"
    /\ UNCHANGED <<config, unwinding, abort_batch, sources, in_atexit, frames, monitors, sound,
                   files, log>>

\* Q ends the batch, closing the window only the session.
Leave ==
    /\ phase = "poll"
    /\ abort_batch' \in {abort_batch, TRUE}
    /\ phase' = "silence"
    /\ UNCHANGED <<config, unwinding, sources, paused, in_atexit, frames, monitors, sound,
                   files, log>>

\* An exception in the loop; run logs it and raises it again.  (It catches a
\* KeyboardInterrupt too, which the handler of SIGINT keeps from being raised.)
Raise ==
    /\ phase \in InLoop
    /\ unwinding' = TRUE
    /\ phase' = "silence"
    /\ UNCHANGED <<config, abort_batch, sources, paused, in_atexit, frames, monitors, sound,
                   files, log>>

-----------------------------------------------------------------------------
\* Shutdown.

\* SIGINT or SIGTERM: _handle_signal runs the shutdown, unless one has begun, and
\* raises SystemExit, which leaves unfinished what the signal came upon.
Signal ==
    /\ phase \notin {"atexit", "exited"}
    /\ unwinding' = TRUE
    /\ phase' = IF phase \in InLoop \cup {"start"} THEN "silence"
                ELSE IF in_atexit THEN "exited" ELSE "atexit"
    /\ UNCHANGED <<config, abort_batch, sources, paused, in_atexit, frames, monitors, sound,
                   files, log>>

\* A mutant: shutdown closes the interval and forgets that it did.
FlagAfterShutdownKept == alarm_active

\* Without a track the flag outlives the session.
FlagAfterShutdown == alarm_active /\ ~recording

\* AlertManager.shutdown.
Silence ==
    /\ phase = "silence"
    /\ track' = IF recording /\ alarm_active THEN SetCriticalActive(track, FALSE) ELSE track
    /\ alarm_active' = FlagAfterShutdown
    /\ alarm' \in {a \in StopCriticalAlarm(alarm) : a.strays <= MaxStrays}
    /\ phase' = IF recorder = "recording" THEN "release" ELSE "over"
    /\ UNCHANGED <<config, control, frames, monitors, files, log>>

Released == IF in_atexit THEN "exited" ELSE "over"

\* VideoRecorder.release.  The writer is closed in one step with the flag that
\* forbids a second release.
CloseWriter ==
    /\ recorder' = "released"
    /\ video' = "final"

Release ==
    /\ phase = "release"
    /\ CloseWriter
    /\ phase' = IF shown # <<>> THEN "audio" ELSE "over"
    /\ UNCHANGED <<config, control, frames, monitors, sound, mux, replace_failed, log>>

\* _attach_alert_audio: the wav file is written and ffmpeg started, there is no
\* ffmpeg, or the file cannot be written, which nobody catches.
AttachAudio ==
    /\ phase = "audio"
    /\ track' = Finalize(track, Len(shown))
    /\ \/ /\ phase' = "mux"
          /\ mux' = "partial"
          /\ UNCHANGED unwinding
       \/ /\ phase' = Released
          /\ UNCHANGED <<mux, unwinding>>
       \/ /\ phase' = IF in_atexit THEN "exited" ELSE "atexit"
          /\ unwinding' = TRUE
          /\ UNCHANGED mux
    /\ UNCHANGED <<config, abort_batch, sources, paused, in_atexit, frames, monitors, alarm,
                   alarm_active, recorder, video, replace_failed, log>>

\* A mutant: ffmpeg's return code is not looked at.
MuxUnchecked ==
    /\ phase = "mux"
    /\ mux' \in {"partial", "complete"}
    /\ phase' = "unlink"
    /\ UNCHANGED <<config, control, frames, monitors, sound, recorder, video, replace_failed, log>>

\* ffmpeg ends, well or not.
Mux ==
    /\ phase = "mux"
    /\ \/ mux' = "complete" /\ phase' = "unlink"
       \/ mux' = "none" /\ phase' = Released
    /\ UNCHANGED <<config, control, frames, monitors, sound, recorder, video, replace_failed, log>>

\* original_path.unlink; on an OSError the muxed file is deleted instead.
Unlink ==
    /\ phase = "unlink"
    /\ \/ video' = "gone" /\ phase' = "replace" /\ UNCHANGED mux
       \/ mux' = "none" /\ phase' = Released /\ UNCHANGED video
    /\ UNCHANGED <<config, control, frames, monitors, sound, recorder, replace_failed, log>>

\* muxed_path.replace; on an OSError the muxed file is deleted too.
Replace ==
    /\ phase = "replace"
    /\ mux' = "none"
    /\ \/ video' = "muxed" /\ UNCHANGED replace_failed
       \/ replace_failed' = TRUE /\ UNCHANGED video
    /\ phase' = Released
    /\ UNCHANGED <<config, control, frames, monitors, sound, recorder, log>>

\* The session is shut down; run_all goes on, or what was raised ends it.
SessionOver ==
    /\ phase = "over"
    /\ phase' = IF unwinding THEN "atexit" ELSE "start"
    /\ UNCHANGED <<config, control, frames, monitors, sound, files, log>>

\* atexit calls release of every recorder; that of the last session may be pending.
AtExit ==
    /\ phase = "atexit"
    /\ in_atexit' = TRUE
    /\ IF recorder = "recording"
       THEN CloseWriter /\ phase' = IF shown # <<>> THEN "audio" ELSE "exited"
       ELSE phase' = "exited" /\ UNCHANGED <<recorder, video>>
    /\ UNCHANGED <<config, unwinding, abort_batch, sources, paused, frames, monitors, sound,
                   mux, replace_failed, log>>

\* A thread that outlived its join sees the event at last.
StrayEnds ==
    /\ alarm.stop
    /\ alarm.strays > 0
    /\ alarm' = [alarm EXCEPT !.strays = @ - 1]
    /\ UNCHANGED <<config, phase, control, frames, monitors, alarm_active, track, files, log>>

Next ==
    \/ NextSource \/ BatchEnds
    \/ Frame \/ EndOfStream \/ Write \/ AdvanceFrame \/ KeepGoing \/ Leave \/ Raise
    \/ Signal \/ Silence \/ Release \/ AttachAudio \/ Mux \/ Unlink \/ Replace
    \/ SessionOver \/ AtExit
    \/ StrayEnds

Spec == Init /\ [][Next]_vars

-----------------------------------------------------------------------------
TypeOK ==
    /\ recording \in BOOLEAN
    /\ frame_skip \in FrameSkips
    /\ phase \in Phases
    /\ unwinding \in BOOLEAN
    /\ abort_batch \in BOOLEAN
    /\ sources \in 0..Batch
    /\ paused \in BOOLEAN
    /\ frame_index \in 0..(frame_skip - 1)
    /\ last \in Sightings
    /\ restricted \in Sightings
    /\ warning \in Sightings
    /\ safe \in Sightings
    /\ warned \in SUBSET Persons
    /\ noticed \in SUBSET Persons
    /\ banner \in Priorities
    /\ alarm \in Alarms
    /\ alarm_active \in BOOLEAN
    /\ track \in Tracks
    /\ recorder \in {"none", "recording", "released"}
    /\ video \in {"none", "open", "final", "muxed", "gone"}
    /\ mux \in {"none", "partial", "complete"}
    /\ in_atexit \in BOOLEAN
    /\ shown \in Seq(BOOLEAN)
    /\ inside \in SUBSET Persons
    /\ lost_sight \in SUBSET Persons
    /\ replace_failed \in BOOLEAN

\* While a session runs, the alarm sounds exactly while someone is in the restricted
\* zone in the frame on display, also after stops whose join gave up; and no thread
\* of one session sounds when the next one begins.
AlarmMatchesFrame ==
    /\ phase \in InLoop => (Sounding(alarm) <=> Breach(last))
    /\ phase = "start" => ~Sounding(alarm)

\* While someone is in the restricted zone, the banner says so, whatever the other
\* persons do and whatever an earlier session showed.
BannerShowsBreach == phase \in InLoop /\ Breach(last) => banner = Critical

\* In a session, a person is in the restricted zone exactly if the person's last
\* restricted event in the log is an ENTRY, unless the person went out of the frame
\* from within the zone and has not come back into it: of that the log has no EXIT.
LogTellsOccupancy ==
    \A p \in Persons \ lost_sight : p \in inside <=> p \in Within(restricted, "critical")

\* The exported track carries the alarm at exactly the frames that show a breach, up
\* to the frame a signal or an exception came upon, however the session ended.
AudioMatchesVideo ==
    recording => \A k \in 1..Len(shown) :
                     k <= track.frame => (shown[k] <=> Alarmed(track, k - 1))

Playable == video \in {"final", "muxed"} \/ mux = "complete"

\* "Ensure video finalization on Ctrl+C and process termination": whatever session was
\* recorded leaves a video that can be played (between the deletion of the original
\* and the renaming under the name of the muxed one), however many signals come and at
\* whichever step; closing the writer and noting that it is closed are one step here.
\* Except when that renaming fails, after which both files are gone.
VideoKept ==
    /\ phase = "exited" => recorder # "recording"
    /\ phase \in {"start", "exited"} /\ recorder = "released" /\ shown # <<>> =>
           Playable \/ replace_failed
================================================================================
