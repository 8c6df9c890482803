-------------------------- MODULE SafetyMonitorProofs --------------------------
(* Theorems about the standalone monitor, for any number of persons and videos, *)
(* videos of any length, any frame skip, and any number of stray alarm threads. *)
EXTENDS SafetyMonitor, TLAPS

LEMMA NobodyIsSighting == Nobody \in Sightings /\ DOMAIN Nobody = {}
<1>1. Nobody \in [{} -> ZoneStates]
    BY DEF Nobody
<1>2. {} \in SUBSET Persons
    OBVIOUS
<1> QED
    BY <1>1, <1>2 DEF Sightings, Nobody

LEMMA SightingDomain ==
    ASSUME NEW s \in Sightings
    PROVE  DOMAIN s \in SUBSET Persons /\ s \in [DOMAIN s -> ZoneStates]
BY DEF Sightings

-----------------------------------------------------------------------------
(* Type correctness. *)

LEMMA PublishType ==
    ASSUME NEW b \in Priorities, NEW persons, NEW p \in Priorities
    PROVE  PublishFor(b, persons, p) \in Priorities
BY DEF PublishFor, Publish, Priorities

LEMMA AlarmType ==
    ASSUME NEW a \in Alarms
    PROVE  StartCriticalAlarm(a) \in Alarms /\ StopCriticalAlarm(a) \subseteq Alarms
<1>1. a.strays \in Nat
    BY DEF Alarms
<1>2. StartCriticalAlarm(a) \in Alarms
    BY DEF StartCriticalAlarm, Alarms
<1>3. \A n \in Nat : [thread |-> FALSE, strays |-> n, stop |-> TRUE] \in Alarms
    BY DEF Alarms
<1>4. StopCriticalAlarm(a) \subseteq Alarms
    BY <1>1, <1>3 DEF StopCriticalAlarm
<1> QED
    BY <1>2, <1>4

LEMMA CloseType ==
    ASSUME NEW t \in Tracks, NEW n \in Nat
    PROVE  CloseInterval(t, n) \in Tracks
<1>1. <<t.start, n>> \in Nat \X Nat
    BY DEF Tracks
<1>2. t.intervals \cup {<<t.start, n>>} \in SUBSET (Nat \X Nat)
    BY <1>1 DEF Tracks
<1> QED
    BY <1>2 DEF CloseInterval, Tracks

LEMMA TrackType ==
    ASSUME NEW t \in Tracks, NEW active \in BOOLEAN, NEW n \in Nat
    PROVE  SetCriticalActive(t, active) \in Tracks /\ Finalize(t, n) \in Tracks
<1>1. t.frame \in Nat
    BY DEF Tracks
<1>2. [t EXCEPT !.active = TRUE, !.start = t.frame] \in Tracks
    BY <1>1 DEF Tracks
<1> QED
    BY <1>1, <1>2, CloseType DEF SetCriticalActive, Finalize

LEMMA FrameTypes ==
    ASSUME TypeOK, NEW seen \in Sightings, ProcessFrame(seen)
    PROVE  /\ last' \in Sightings /\ restricted' \in Sightings /\ warning' \in Sightings
           /\ safe' \in Sightings
           /\ warned' \in SUBSET Persons /\ noticed' \in SUBSET Persons
           /\ banner' \in Priorities
           /\ alarm' \in Alarms
           /\ alarm_active' \in BOOLEAN
           /\ track' \in Tracks
           /\ inside' \in SUBSET Persons /\ lost_sight' \in SUBSET Persons
<1> USE DEF TypeOK
<1>1. DOMAIN seen \subseteq Persons
    BY SightingDomain
<1>2. /\ RestrictedEntries(restricted, seen) \subseteq Persons
      /\ Within(restricted, "critical") \subseteq Persons
      /\ Warnings(warning, seen) \subseteq Persons
      /\ SafeNotices(safe, seen) \subseteq Persons
    BY <1>1, SightingDomain DEF RestrictedEntries, Within, Warnings, SafeNotices, Crossed
<1>3. inside' \in SUBSET Persons /\ lost_sight' \in SUBSET Persons
    BY <1>2 DEF ProcessFrame, LogRestricted
<1>4. last' \in Sightings
    BY DEF ProcessFrame
<1>5. /\ alarm' \in Alarms
      /\ alarm_active' \in BOOLEAN
      /\ track' \in Tracks
  <2>1. Breach(seen) \in BOOLEAN /\ UpdateCriticalAlarm(Breach(seen))
    BY DEF ProcessFrame, Breach
  <2>2. track' \in Tracks /\ alarm_active' \in BOOLEAN
    BY <2>1, TrackType DEF UpdateCriticalAlarm
  <2>3. CASE Breach(seen)
    BY <2>1, <2>2, <2>3, AlarmType DEF UpdateCriticalAlarm
  <2>4. CASE ~Breach(seen)
    BY <2>1, <2>2, <2>4, AlarmType DEF UpdateCriticalAlarm
  <2> QED
    BY <2>2, <2>3, <2>4
<1>6. CASE Evaluate(seen)
  <2>1. PICK cooling \in SUBSET warned, resting \in SUBSET noticed :
          LET warn == Warnings(warning, seen) \ cooling
              notice == SafeNotices(safe, seen) \ resting
              entered == PublishFor(banner, RestrictedEntries(restricted, seen), Critical)
          IN  /\ warned' = (cooling \cup warn) \ Forgotten(warning, seen)
              /\ noticed' = (resting \cup notice) \ Forgotten(safe, seen)
              /\ banner' = PublishFor(PublishFor(entered, warn, Warning), notice, Caution)
              /\ restricted' = seen
              /\ warning' = seen
              /\ safe' = seen
    BY <1>6 DEF Evaluate
  <2>2. warned' \in SUBSET Persons /\ noticed' \in SUBSET Persons
    BY <1>2, <2>1
  <2>3. banner' \in Priorities
    <3>1. PublishFor(banner, RestrictedEntries(restricted, seen), Critical) \in Priorities
      BY PublishType DEF Priorities
    <3>2. \A b \in Priorities : \A S : /\ PublishFor(b, S, Warning) \in Priorities
                                     /\ PublishFor(b, S, Caution) \in Priorities
      BY PublishType DEF Priorities
    <3> QED
      BY <2>1, <3>1, <3>2
  <2> QED
    BY <1>3, <1>4, <1>5, <2>1, <2>2, <2>3
<1>7. CASE seen = Nobody /\ PruneWarningAndRestricted
    BY <1>3, <1>4, <1>5, <1>7, NobodyIsSighting DEF PruneWarningAndRestricted, Priorities
<1> QED
    BY <1>6, <1>7 DEF ProcessFrame

\* Every variable keeps its type.
THEOREM TypeCorrect == Spec => []TypeOK
<1>1. Init => TypeOK
  <2> SUFFICES ASSUME Init PROVE TypeOK
    OBVIOUS
  <2>1. alarm \in Alarms /\ track \in Tracks /\ shown \in Seq(BOOLEAN)
    BY DEF Init, NoAlarm, NoTrack, Alarms, Tracks
  <2>2. sources \in 0..Batch /\ frame_index \in 0..(frame_skip - 1)
    BY MonitorAssumption DEF Init
  <2> QED
    BY <2>1, <2>2, NobodyIsSighting DEF Init, TypeOK, Phases, Priorities
<1>2. TypeOK /\ [Next]_vars => TypeOK'
  <2> SUFFICES ASSUME TypeOK, [Next]_vars PROVE TypeOK'
    OBVIOUS
  <2> USE DEF TypeOK, config, control, frames, monitors, sound, files, log
  <2>1. CASE NextSource
    <3>1. /\ last' \in Sightings /\ restricted' \in Sightings /\ warning' \in Sightings
          /\ safe' \in Sightings
      BY <2>1, NobodyIsSighting DEF NextSource, ResetSessionState
    <3>2. track' \in Tracks /\ shown' \in Seq(BOOLEAN)
      BY <2>1 DEF NextSource, ResetSessionState, NoTrack, Tracks
    <3>3. sources' \in 0..Batch
      BY <2>1, MonitorAssumption DEF NextSource
    <3>4. frame_index' \in 0..(frame_skip' - 1)
      BY <2>1, MonitorAssumption DEF NextSource, ResetSessionState
    <3> QED
      BY <2>1, <3>1, <3>2, <3>3, <3>4 DEF NextSource, OpenRecorder, ResetSessionState, Phases, InLoop, Priorities
  <2>2. CASE BatchEnds
    BY <2>2 DEF BatchEnds, Phases
  <2>3. CASE Frame
    <3>1. frame_index' \in 0..(frame_skip' - 1)
      BY <2>3, MonitorAssumption DEF Frame, NextIndex
    <3>2. phase' \in Phases
      BY <2>3 DEF Frame, Phases, InLoop
    <3>3. CASE frame_index' = 0
      <4>1. PICK seen \in Sightings : ProcessFrame(seen)
        BY <2>3, <3>3 DEF Frame
      <4> QED
        BY <2>3, <3>1, <3>2, <4>1, FrameTypes DEF Frame
    <3>4. CASE frame_index' # 0
      BY <2>3, <3>1, <3>2, <3>4 DEF Frame
    <3> QED
      BY <3>3, <3>4
  <2>4. CASE EndOfStream
    BY <2>4 DEF EndOfStream, Phases
  <2>5. CASE Write
    <3>1. shown' \in Seq(BOOLEAN)
      BY <2>5 DEF Write, Breach
    <3> QED
      BY <2>5, <3>1 DEF Write, Phases, InLoop
  <2>6. CASE AdvanceFrame
    <3>1. track' \in Tracks
      BY <2>6 DEF AdvanceFrame, Tracks
    <3> QED
      BY <2>6, <3>1 DEF AdvanceFrame, Phases, InLoop
  <2>7. CASE KeepGoing
    BY <2>7 DEF KeepGoing, Phases, InLoop
  <2>8. CASE Leave
    <3>1. abort_batch' \in BOOLEAN
      BY <2>8 DEF Leave
    <3> QED
      BY <2>8, <3>1 DEF Leave, Phases
  <2>9. CASE Raise
    BY <2>9 DEF Raise, Phases
  <2>10. CASE Signal
    BY <2>10 DEF Signal, Phases
  <2>11. CASE Silence
    <3>1. track' \in Tracks
      BY <2>11, TrackType DEF Silence
    <3>2. alarm' \in Alarms
      BY <2>11, AlarmType DEF Silence
    <3>3. alarm_active' \in BOOLEAN
      BY <2>11 DEF Silence, FlagAfterShutdown
    <3> QED
      BY <2>11, <3>1, <3>2, <3>3 DEF Silence, Phases, Releasing
  <2>12. CASE Release
    BY <2>12 DEF Release, CloseWriter, Phases, Releasing
  <2>13. CASE AttachAudio
    <3>1. Len(shown) \in Nat
      OBVIOUS
    <3>3. phase' \in Phases /\ unwinding' \in BOOLEAN /\ mux' \in {"none", "partial", "complete"}
      BY <2>13 DEF AttachAudio, Released, Phases, Releasing
    <3>2. track' \in Tracks
      BY <2>13, <3>1, TrackType DEF AttachAudio
    <3> QED
      BY <2>13, <3>2, <3>3 DEF AttachAudio
  <2>14. CASE Mux
    BY <2>14 DEF Mux, Released, Phases, Releasing
  <2>15. CASE Unlink
    BY <2>15 DEF Unlink, Released, Phases, Releasing
  <2>16. CASE Replace
    <3>1. video' \in {"none", "open", "final", "muxed", "gone"} /\ replace_failed' \in BOOLEAN
      BY <2>16 DEF Replace
    <3>2. phase' \in Phases
      BY <2>16 DEF Replace, Released, Phases
    <3> QED
      BY <2>16, <3>1, <3>2 DEF Replace
  <2>17. CASE SessionOver
    BY <2>17 DEF SessionOver, Phases
  <2>18. CASE AtExit
    BY <2>18 DEF AtExit, CloseWriter, Phases, Releasing
  <2>19. CASE StrayEnds
    <3>1. alarm' \in Alarms
      BY <2>19 DEF StrayEnds, Alarms
    <3> QED
      BY <2>19, <3>1 DEF StrayEnds
  <2>20. CASE UNCHANGED vars
    BY <2>20 DEF vars
  <2> QED
    BY <2>1, <2>2, <2>3, <2>4, <2>5, <2>6, <2>7, <2>8, <2>9, <2>10, <2>11, <2>12, <2>13, <2>14,
       <2>15, <2>16, <2>17, <2>18, <2>19, <2>20 DEF Next
<1> QED
    BY <1>1, <1>2, PTL DEF Spec

-----------------------------------------------------------------------------
(* The alarm.  In the loop the known thread runs exactly while the frame shows  *)
(* a breach; it runs only with the event clear, and without it the event is set *)
(* or there is no stray to take notice.                                         *)

AtExitPhases == {"audio", "mux", "unlink", "replace", "exited"}

AlarmInv ==
    /\ alarm.thread => ~alarm.stop
    /\ ~alarm.thread => alarm.stop \/ alarm.strays = 0
    /\ phase \in InLoop => (alarm.thread <=> Breach(last))
    /\ in_atexit => phase \in AtExitPhases
    /\ phase \in {"start", "over"} \cup Releasing /\ ~in_atexit => ~alarm.thread

LEMMA StartFacts ==
    ASSUME NEW a \in Alarms, a.thread => ~a.stop
    PROVE  StartCriticalAlarm(a).thread /\ ~StartCriticalAlarm(a).stop
BY DEF StartCriticalAlarm, Alarms

LEMMA StopFacts ==
    ASSUME NEW a \in Alarms, ~a.thread => a.stop \/ a.strays = 0,
           NEW b \in StopCriticalAlarm(a)
    PROVE  ~b.thread /\ (b.stop \/ b.strays = 0)
<1>1. CASE a.thread
    BY <1>1 DEF StopCriticalAlarm
<1>2. CASE ~a.thread
    BY <1>2 DEF StopCriticalAlarm
<1> QED
    BY <1>1, <1>2

LEMMA NobodyIsNoBreach == ~Breach(Nobody)
BY NobodyIsSighting DEF Breach, Within

\* In a session the alarm sounds exactly while someone is in the restricted zone, and
\* between sessions it is silent, however many joins gave up.
THEOREM AlarmCorrect == Spec => []AlarmMatchesFrame
<1>1. Init => AlarmInv
    BY NobodyIsNoBreach DEF Init, AlarmInv, NoAlarm, InLoop, Releasing
<1>2. TypeOK /\ AlarmInv /\ [Next]_vars => AlarmInv'
  <2> SUFFICES ASSUME TypeOK, AlarmInv, [Next]_vars PROVE AlarmInv'
    OBVIOUS
  <2>0. alarm \in Alarms
    BY DEF TypeOK
  <2> USE DEF AlarmInv, AtExitPhases, InLoop, Releasing,
              config, control, frames, monitors, sound, files, log
  <2>1. CASE NextSource
    BY <2>1, NobodyIsNoBreach DEF NextSource, ResetSessionState
  <2>2. CASE BatchEnds
    BY <2>2 DEF BatchEnds
  <2>3. CASE Frame
    <3>1. CASE frame_index' = 0
      <4>1. PICK seen \in Sightings : ProcessFrame(seen)
        BY <2>3, <3>1 DEF Frame
      <4>2. last' = seen /\ UpdateCriticalAlarm(Breach(seen))
        BY <4>1 DEF ProcessFrame
      <4>3. CASE Breach(seen)
        <5>1. alarm' = StartCriticalAlarm(alarm)
          BY <4>2, <4>3 DEF UpdateCriticalAlarm
        <5> QED
          BY <2>0, <2>3, <4>2, <4>3, <5>1, StartFacts DEF Frame
      <4>4. CASE ~Breach(seen)
        <5>1. alarm' \in StopCriticalAlarm(alarm)
          BY <4>2, <4>4 DEF UpdateCriticalAlarm
        <5>2. ~alarm'.thread /\ (alarm'.stop \/ alarm'.strays = 0)
          BY <2>0, <5>1, StopFacts
        <5> QED
          BY <2>3, <4>2, <4>4, <5>2 DEF Frame
      <4> QED
        BY <4>3, <4>4
    <3>2. CASE frame_index' # 0
      BY <2>3, <3>2 DEF Frame
    <3> QED
      BY <3>1, <3>2
  <2>4. CASE EndOfStream
    BY <2>4 DEF EndOfStream
  <2>5. CASE Write
    BY <2>5 DEF Write
  <2>6. CASE AdvanceFrame
    BY <2>6 DEF AdvanceFrame
  <2>7. CASE KeepGoing
    BY <2>7 DEF KeepGoing
  <2>8. CASE Leave
    BY <2>8 DEF Leave
  <2>9. CASE Raise
    BY <2>9 DEF Raise
  <2>10. CASE Signal
    BY <2>10 DEF Signal
  <2>11. CASE Silence
    <3>1. ~alarm'.thread /\ (alarm'.stop \/ alarm'.strays = 0)
      BY <2>0, <2>11, StopFacts DEF Silence
    <3> QED
      BY <2>11, <3>1 DEF Silence
  <2>12. CASE Release
    BY <2>12 DEF Release, CloseWriter
  <2>13. CASE AttachAudio
    BY <2>13 DEF AttachAudio, Released
  <2>14. CASE Mux
    BY <2>14 DEF Mux, Released
  <2>15. CASE Unlink
    BY <2>15 DEF Unlink, Released
  <2>16. CASE Replace
    BY <2>16 DEF Replace, Released
  <2>17. CASE SessionOver
    BY <2>17 DEF SessionOver
  <2>18. CASE AtExit
    BY <2>18 DEF AtExit, CloseWriter
  <2>19. CASE StrayEnds
    <3>1. alarm'.thread = alarm.thread /\ alarm'.stop = alarm.stop
      BY <2>0, <2>19 DEF StrayEnds, Alarms
    <3> QED
      BY <2>19, <3>1 DEF StrayEnds
  <2>20. CASE UNCHANGED vars
    BY <2>20 DEF vars
  <2> QED
    BY <2>1, <2>2, <2>3, <2>4, <2>5, <2>6, <2>7, <2>8, <2>9, <2>10, <2>11, <2>12, <2>13, <2>14,
       <2>15, <2>16, <2>17, <2>18, <2>19, <2>20 DEF Next
<1>3. TypeOK /\ AlarmInv => AlarmMatchesFrame
  <2> SUFFICES ASSUME TypeOK, AlarmInv PROVE AlarmMatchesFrame
    OBVIOUS
  <2>1. alarm.strays \in Nat
    BY DEF TypeOK, Alarms
  <2>2. alarm.strays > 0 <=> alarm.strays # 0
    BY <2>1
  <2>3. Sounding(alarm) <=> alarm.thread
    BY <2>2 DEF Sounding, AlarmInv
  <2>4. phase = "start" => ~in_atexit
    BY DEF AlarmInv, AtExitPhases
  <2> QED
    BY <2>3, <2>4 DEF AlarmInv, AlarmMatchesFrame
<1> QED
    BY <1>1, <1>2, <1>3, TypeCorrect, PTL DEF Spec

-----------------------------------------------------------------------------
(* The banner and the log.  Only Frame and NextSource touch what they are about. *)

LEMMA MonitorsKept ==
    ASSUME [Next]_vars
    PROVE  \/ NextSource
           \/ \E seen \in Sightings : ProcessFrame(seen)
           \/ UNCHANGED <<last, monitors, log>>
BY DEF Next, vars, config, control, frames, files, sound,
       BatchEnds, Frame, EndOfStream, Write, AdvanceFrame, KeepGoing, Leave, Raise, Signal,
       Silence, Release, AttachAudio, Mux, Unlink, Replace, SessionOver, AtExit, StrayEnds

BannerInv ==
    /\ restricted = last
    /\ Breach(restricted) => banner = Critical

\* While someone is in the restricted zone, the banner says so.
THEOREM BannerCorrect == Spec => []BannerShowsBreach
<1>1. Init => BannerInv
    BY NobodyIsNoBreach DEF Init, BannerInv
<1>2. TypeOK /\ BannerInv /\ [Next]_vars => BannerInv'
  <2> SUFFICES ASSUME TypeOK, BannerInv, [Next]_vars PROVE BannerInv'
    OBVIOUS
  <2>1. CASE NextSource
    BY <2>1, NobodyIsNoBreach DEF NextSource, ResetSessionState, BannerInv, Breach
  <2>2. ASSUME NEW seen \in Sightings, ProcessFrame(seen) PROVE BannerInv'
    <3>1. last' = seen
      BY <2>2 DEF ProcessFrame
    <3>2. CASE Evaluate(seen)
      <4>1. PICK warn, notice :
              banner' = PublishFor(PublishFor(PublishFor(banner, RestrictedEntries(restricted, seen),
                                                         Critical), warn, Warning), notice, Caution)
        BY <3>2 DEF Evaluate
      <4>2. restricted' = seen
        BY <3>2 DEF Evaluate
      <4>3. ASSUME Breach(seen) PROVE banner' = Critical
        <5>1. PICK p \in DOMAIN seen : seen[p] = "critical"
          BY <4>3 DEF Breach, Within
        <5>2. RestrictedEntries(restricted, seen) # {} \/ Breach(restricted)
          BY <5>1 DEF RestrictedEntries, Within, Previous, Breach
        <5>3. PublishFor(banner, RestrictedEntries(restricted, seen), Critical) = Critical
          BY <5>2 DEF BannerInv, TypeOK, PublishFor, Publish, Priorities, NoMessage, Caution,
                      Warning, Critical
        <5> QED
          BY <4>1, <5>3 DEF PublishFor, Publish, Critical, Warning, Caution
      <4> QED
        BY <3>1, <4>2, <4>3 DEF BannerInv, Breach
    <3>3. CASE seen = Nobody /\ PruneWarningAndRestricted
      BY <3>1, <3>3, NobodyIsNoBreach DEF PruneWarningAndRestricted, BannerInv, Breach
    <3> QED
      BY <2>2, <3>2, <3>3 DEF ProcessFrame
  <2>3. CASE UNCHANGED <<last, monitors, log>>
    BY <2>3 DEF BannerInv, Breach, monitors
  <2> QED
    BY <2>1, <2>2, <2>3, MonitorsKept
<1>3. BannerInv => BannerShowsBreach
    BY DEF BannerInv, BannerShowsBreach
<1> QED
    BY <1>1, <1>2, <1>3, TypeCorrect, PTL DEF Spec

\* Except for persons lost from sight in the restricted zone, a person is in it exactly
\* if the person's last restricted event is an ENTRY.
THEOREM LogCorrect == Spec => []LogTellsOccupancy
<1>1. Init => LogTellsOccupancy
    BY NobodyIsNoBreach DEF Init, LogTellsOccupancy, Breach
<1>2. LogTellsOccupancy /\ [Next]_vars => LogTellsOccupancy'
  <2> SUFFICES ASSUME LogTellsOccupancy, [Next]_vars PROVE LogTellsOccupancy'
    OBVIOUS
  <2>1. CASE NextSource
    BY <2>1, NobodyIsNoBreach DEF NextSource, ResetSessionState, LogTellsOccupancy, Breach
  <2>2. ASSUME NEW seen \in Sightings, ProcessFrame(seen) PROVE LogTellsOccupancy'
    <3>1. restricted' = seen
      BY <2>2 DEF ProcessFrame, Evaluate, PruneWarningAndRestricted
    <3>2. LogRestricted(seen)
      BY <2>2 DEF ProcessFrame
    <3> SUFFICES ASSUME NEW p \in Persons, p \notin lost_sight'
                 PROVE  p \in inside' <=> p \in Within(seen, "critical")
      BY <3>1 DEF LogTellsOccupancy, Within
    <3>3. CASE p \in RestrictedEntries(restricted, seen)
      BY <3>2, <3>3 DEF LogRestricted, RestrictedEntries
    <3>4. CASE p \notin RestrictedEntries(restricted, seen)
      <4>1. /\ p \notin lost_sight
            /\ p \in Within(restricted, "critical") => p \in DOMAIN seen
        BY <3>2, <3>4 DEF LogRestricted
      <4>2. p \in inside <=> p \in Within(restricted, "critical")
        BY <4>1 DEF LogTellsOccupancy
      <4>3. p \in inside' <=> p \in inside /\ p \notin RestrictedExits(restricted, seen)
        BY <3>2, <3>4 DEF LogRestricted
      <4> QED
        BY <3>4, <4>1, <4>2, <4>3 DEF RestrictedEntries, RestrictedExits, Within, Previous
    <3> QED
      BY <3>3, <3>4
  <2>3. CASE UNCHANGED <<last, monitors, log>>
    BY <2>3 DEF LogTellsOccupancy, Within, monitors, log
  <2> QED
    BY <2>1, <2>2, <2>3, MonitorsKept
<1> QED
    BY <1>1, <1>2, PTL DEF Spec

-----------------------------------------------------------------------------
(* The video.  Which files there are at each step of the release, and that no   *)
(* way past the release leads to the exit but through atexit.                   *)

VideoInv ==
    /\ recorder = "released" /\ ~replace_failed =>
           IF phase = "replace" THEN mux = "complete" ELSE Playable
    /\ phase \in {"audio", "mux", "unlink"} => video = "final"
    /\ phase \in {"unlink", "replace"} => mux = "complete"
    /\ phase \in {"audio", "mux", "unlink", "replace"} => recorder = "released" /\ ~replace_failed
    /\ phase \in {"over", "start", "exited"} => recorder # "recording"
    /\ phase = "release" => recorder = "recording"
    /\ recorder = "recording" => ~replace_failed
    /\ in_atexit => phase \in AtExitPhases /\ recorder # "recording"

\* Every recorded session leaves a video that can be played, unless the renaming fails,
\* at whichever step signals and exceptions come.
THEOREM VideoCorrect == Spec => []VideoKept
<1>1. Init => VideoInv
    BY DEF Init, VideoInv
<1>2. VideoInv /\ [Next]_vars => VideoInv'
  <2> SUFFICES ASSUME VideoInv, [Next]_vars PROVE VideoInv'
    OBVIOUS
  <2> USE DEF VideoInv, Playable, AtExitPhases, InLoop, config, control, frames, monitors, sound,
              files, log
  <2>1. CASE NextSource
    BY <2>1 DEF NextSource, OpenRecorder, ResetSessionState
  <2>2. CASE BatchEnds
    BY <2>2 DEF BatchEnds
  <2>3. CASE Frame
    BY <2>3 DEF Frame
  <2>4. CASE EndOfStream
    BY <2>4 DEF EndOfStream
  <2>5. CASE Write
    BY <2>5 DEF Write
  <2>6. CASE AdvanceFrame
    BY <2>6 DEF AdvanceFrame
  <2>7. CASE KeepGoing
    BY <2>7 DEF KeepGoing
  <2>8. CASE Leave
    BY <2>8 DEF Leave
  <2>9. CASE Raise
    BY <2>9 DEF Raise
  <2>10. CASE Signal
    BY <2>10 DEF Signal
  <2>11. CASE Silence
    BY <2>11 DEF Silence
  <2>12. CASE Release
    BY <2>12 DEF Release, CloseWriter
  <2>13. CASE AttachAudio
    BY <2>13 DEF AttachAudio, Released
  <2>14. CASE Mux
    BY <2>14 DEF Mux, Released
  <2>15. CASE Unlink
    BY <2>15 DEF Unlink, Released
  <2>16. CASE Replace
    BY <2>16 DEF Replace, Released
  <2>17. CASE SessionOver
    BY <2>17 DEF SessionOver
  <2>18. CASE AtExit
    BY <2>18 DEF AtExit, CloseWriter
  <2>19. CASE StrayEnds
    BY <2>19 DEF StrayEnds
  <2>20. CASE UNCHANGED vars
    BY <2>20 DEF vars
  <2> QED
    BY <2>1, <2>2, <2>3, <2>4, <2>5, <2>6, <2>7, <2>8, <2>9, <2>10, <2>11, <2>12, <2>13, <2>14,
       <2>15, <2>16, <2>17, <2>18, <2>19, <2>20 DEF Next
<1>3. VideoInv => VideoKept
    BY DEF VideoInv, VideoKept, Playable
<1> QED
    BY <1>1, <1>2, <1>3, PTL DEF Spec

-----------------------------------------------------------------------------
(* The audio track.  In the loop the track follows the alarm, its clock the     *)
(* frames; no closed interval reaches past the clock, so that the next frame is *)
(* covered exactly if an interval is open.                                      *)

Matches(t, frames_shown) ==
    \A k \in 1..t.frame : frames_shown[k] <=> Alarmed(t, k - 1)

AudioInv ==
    /\ in_atexit => phase \in AtExitPhases
    /\ recording =>
        /\ track.frame <= Len(shown)
        /\ Matches(track, shown)
        /\ phase \in {"start", "over"} \cup Releasing /\ ~in_atexit => ~alarm_active
        /\ phase \in InLoop =>
            /\ track.active <=> alarm_active
            /\ alarm_active <=> Breach(last)
            /\ track.active => track.start <= track.frame
            /\ \A interval \in track.intervals : interval[2] <= track.frame
            /\ phase # "advance" => Len(shown) = track.frame
            /\ phase = "advance" =>
                Len(shown) = track.frame + 1 /\ (shown[track.frame + 1] <=> Breach(last))

\* Closing an interval no earlier than the clock covers no other frame before it.
LEMMA CloseKeepsMatch ==
    ASSUME NEW t \in Tracks, t.active, NEW n \in Nat, t.frame <= n, NEW s, Matches(t, s)
    PROVE  CloseInterval(t, n).frame = t.frame /\ Matches(CloseInterval(t, n), s)
<1> DEFINE u == CloseInterval(t, n)
<1>1. u.frame = t.frame /\ ~u.active /\ u.intervals = t.intervals \cup {<<t.start, n>>}
    BY DEF CloseInterval, Tracks
<1>2. t.frame \in Nat /\ t.start \in Nat
    BY DEF Tracks
<1>3. ASSUME NEW k \in 1..t.frame PROVE Alarmed(u, k - 1) <=> Alarmed(t, k - 1)
  <2>1. k - 1 < n
    BY <1>2
  <2>2. Alarmed(u, k - 1) <=> \/ \E i \in t.intervals : i[1] <= k - 1 /\ k - 1 < i[2]
                             \/ t.start <= k - 1
    <3>1. Alarmed(u, k - 1) <=> \E i \in t.intervals \cup {<<t.start, n>>} : i[1] <= k - 1 /\ k - 1 < i[2]
      BY <1>1 DEF Alarmed
    <3>2. <<t.start, n>>[1] = t.start /\ <<t.start, n>>[2] = n
      OBVIOUS
    <3> HIDE DEF u
    <3> QED
      BY <2>1, <3>1, <3>2
  <2> QED
    BY <2>2 DEF Alarmed
<1> QED
    BY <1>1, <1>3 DEF Matches

\* What the alarm's change in a frame does to the track of the frames before it.
LEMMA SetFacts ==
    ASSUME NEW t \in Tracks, NEW breach \in BOOLEAN, NEW s, Matches(t, s),
           t.active => t.start <= t.frame,
           \A interval \in t.intervals : interval[2] <= t.frame
    PROVE  LET u == SetCriticalActive(t, breach)
           IN  /\ u.frame = t.frame
               /\ u.active <=> breach
               /\ u.active => u.start <= t.frame
               /\ \A interval \in u.intervals : interval[2] <= t.frame
               /\ Matches(u, s)
<1> DEFINE u == SetCriticalActive(t, breach)
<1>0. t.frame \in Nat /\ t.start \in Nat /\ t.active \in BOOLEAN
    BY DEF Tracks
<1>1. CASE breach /\ ~t.active
  <2>1. /\ u.frame = t.frame /\ u.active /\ u.start = t.frame /\ u.intervals = t.intervals
    BY <1>1 DEF SetCriticalActive, Tracks
  <2>2. ASSUME NEW k \in 1..t.frame PROVE Alarmed(u, k - 1) <=> Alarmed(t, k - 1)
    <3> HIDE DEF u
    <3> QED
      BY <1>0, <1>1, <2>1 DEF Alarmed
  <2>3. Matches(u, s)
    BY <2>1, <2>2 DEF Matches
  <2>4. u.start <= t.frame /\ \A interval \in u.intervals : interval[2] <= t.frame
    <3> HIDE DEF u
    <3> QED
      BY <1>0, <2>1
  <2> QED
    BY <1>1, <2>1, <2>3, <2>4, Zenon
<1>2. CASE ~breach /\ t.active
  <2>1. u = CloseInterval(t, t.frame)
    BY <1>2 DEF SetCriticalActive
  <2>2. u.frame = t.frame /\ ~u.active /\ u.intervals = t.intervals \cup {<<t.start, t.frame>>}
    BY <2>1 DEF CloseInterval, Tracks
  <2>3. Matches(u, s)
    BY <1>0, <1>2, <2>1, CloseKeepsMatch
  <2>4. \A interval \in u.intervals : interval[2] <= t.frame
    BY <1>0, <2>2
  <2> QED
    BY <1>2, <2>2, <2>3, <2>4
<1>3. CASE breach = t.active
  <2>1. u = t
    BY <1>3 DEF SetCriticalActive
  <2> QED
    BY <1>3, <2>1
<1> QED
    BY <1>0, <1>1, <1>2, <1>3

\* The exported track carries the alarm at exactly the frames that show a breach.
THEOREM AudioCorrect == Spec => []AudioMatchesVideo
<1>1. Init => AudioInv
    BY NobodyIsNoBreach DEF Init, AudioInv, NoTrack, Matches, InLoop
<1>2. TypeOK /\ AudioInv /\ [Next]_vars => AudioInv'
  <2> SUFFICES ASSUME TypeOK, AudioInv, [Next]_vars PROVE AudioInv'
    OBVIOUS
  <2> SUFFICES ASSUME recording PROVE AudioInv'
    <3>1. recording' = recording
      BY DEF Next, vars, config, NextSource, BatchEnds, Frame, EndOfStream, Write, AdvanceFrame,
             KeepGoing, Leave, Raise, Signal, Silence, Release, AttachAudio, Mux, Unlink, Replace,
             SessionOver, AtExit, StrayEnds
    <3>2. (in_atexit => phase \in AtExitPhases)'
      BY DEF AudioInv, AtExitPhases, Next, vars, config, control, NextSource, BatchEnds, Frame,
             EndOfStream, Write, AdvanceFrame, KeepGoing, Leave, Raise, Signal, Silence, Release,
             AttachAudio, Mux, Unlink, Replace, SessionOver, AtExit, StrayEnds, CloseWriter,
             Released, InLoop
    <3> QED
      BY <3>1, <3>2 DEF AudioInv
  <2>0. track \in Tracks /\ shown \in Seq(BOOLEAN) /\ recording' = recording
    BY DEF TypeOK, Next, vars, config, NextSource, BatchEnds, Frame, EndOfStream, Write, AdvanceFrame,
           KeepGoing, Leave, Raise, Signal, Silence, Release, AttachAudio, Mux, Unlink, Replace,
           SessionOver, AtExit, StrayEnds
  <2> USE DEF AudioInv, AtExitPhases, InLoop, Releasing, config, control, frames, monitors, sound,
              files, log
  <2>1. CASE NextSource
    <3>1. track' = NoTrack /\ shown' = <<>> /\ last' = Nobody
      BY <2>1 DEF NextSource, ResetSessionState
    <3>2. track'.frame = 0 /\ Len(shown') = 0 /\ ~track'.active /\ track'.intervals = {}
      BY <3>1 DEF NoTrack
    <3>3. ~alarm_active' /\ ~in_atexit'
      BY <2>1 DEF NextSource
    <3> QED
      BY <2>1, <3>1, <3>2, <3>3, NobodyIsNoBreach DEF NextSource, Matches
  <2>2. CASE BatchEnds
    BY <2>2 DEF BatchEnds
  <2>3. CASE Frame
    <3>0. /\ shown' = shown /\ phase' = "write" /\ in_atexit' = in_atexit
          /\ track.frame = Len(shown) /\ ~in_atexit
      BY <2>3 DEF Frame
    <3>1. CASE frame_index' = 0
      <4>1. PICK seen \in Sightings : ProcessFrame(seen)
        BY <2>3, <3>1 DEF Frame
      <4>2. last' = seen /\ UpdateCriticalAlarm(Breach(seen))
        BY <4>1 DEF ProcessFrame
      <4>3. Breach(seen) \in BOOLEAN /\ (track.active <=> alarm_active)
        BY <2>3 DEF Breach, Frame
      <4>4. track' = SetCriticalActive(track, Breach(seen))
        BY <2>0, <4>2, <4>3 DEF UpdateCriticalAlarm, SetCriticalActive
      <4>5. alarm_active' <=> Breach(seen)
        BY <4>2 DEF UpdateCriticalAlarm
      <4>6. /\ track'.frame = track.frame
            /\ track'.active <=> Breach(seen)
            /\ track'.active => track'.start <= track.frame
            /\ \A interval \in track'.intervals : interval[2] <= track.frame
            /\ Matches(track', shown)
        BY <2>0, <2>3, <3>0, <4>3, <4>4, SetFacts DEF Frame
      <4> QED
        BY <3>0, <4>2, <4>5, <4>6
    <3>2. CASE frame_index' # 0
      BY <2>3, <3>0, <3>2 DEF Frame
    <3> QED
      BY <3>1, <3>2
  <2>4. CASE EndOfStream
    BY <2>4 DEF EndOfStream
  <2>5. CASE Write
    <3>1. shown' = Append(shown, Breach(last)) /\ track' = track /\ track.frame = Len(shown)
      BY <2>5 DEF Write
    <3>2. Len(shown') = Len(shown) + 1 /\ shown'[Len(shown')] = Breach(last)
      BY <2>0, <3>1
    <3>3. Matches(track', shown')
      BY <2>0, <3>1 DEF Matches
    <3>4. /\ track'.frame <= Len(shown')
          /\ Len(shown') = track'.frame + 1 /\ (shown'[track'.frame + 1] <=> Breach(last))
      BY <2>0, <3>1, <3>2
    <3>5. UNCHANGED <<track, last, alarm_active, in_atexit>> /\ phase' = "advance" /\ Breach(last)' = Breach(last)
      BY <2>5 DEF Write, Breach
    <3>6. ~in_atexit
      BY <2>5 DEF Write
    <3> QED
      BY <2>0, <2>5, <3>3, <3>4, <3>5, <3>6 DEF Write
  <2>6. CASE AdvanceFrame
    <3>1. /\ track'.frame = track.frame + 1 /\ track'.active = track.active
          /\ track'.start = track.start /\ track'.intervals = track.intervals
      BY <2>0, <2>6 DEF AdvanceFrame, Tracks
    <3>2. /\ shown' = shown /\ Len(shown) = track.frame + 1
          /\ shown[track.frame + 1] <=> track.active
      BY <2>0, <2>6 DEF AdvanceFrame
    <3>3. track.frame \in Nat /\ track.start \in Nat /\ track.intervals \subseteq Nat \X Nat
      BY <2>0 DEF Tracks
    <3>4. \A n : Alarmed(track', n) <=> Alarmed(track, n)
      BY <3>1 DEF Alarmed
    <3>5. Alarmed(track, track.frame) <=> track.active
      BY <2>6, <3>3 DEF AdvanceFrame, Alarmed
    <3>6. Matches(track', shown')
      <4> SUFFICES ASSUME NEW k \in 1..(track.frame + 1)
                   PROVE  shown[k] <=> Alarmed(track', k - 1)
        BY <3>1, <3>2 DEF Matches
      <4>1. CASE k = track.frame + 1
        BY <3>2, <3>3, <3>4, <3>5, <4>1
      <4>2. CASE k # track.frame + 1
        BY <3>3, <3>4, <4>2 DEF Matches
      <4> QED
        BY <4>1, <4>2
    <3> QED
      BY <2>6, <3>1, <3>2, <3>3, <3>6 DEF AdvanceFrame, Breach
  <2>7. CASE KeepGoing
    BY <2>7 DEF KeepGoing
  <2>8. CASE Leave
    BY <2>8 DEF Leave
  <2>9. CASE Raise
    BY <2>9 DEF Raise
  <2>10. CASE Signal
    BY <2>10 DEF Signal
  <2>11. CASE Silence
    <3>1. CASE alarm_active /\ track.active
      <4>1. track' = CloseInterval(track, track.frame)
        BY <2>0, <2>11, <3>1 DEF Silence, SetCriticalActive
      <4>2. track.frame \in Nat
        BY <2>0 DEF Tracks
      <4>3. track'.frame = track.frame /\ Matches(track', shown)
        BY <2>0, <3>1, <4>1, <4>2, CloseKeepsMatch
      <4> QED
        BY <2>0, <2>11, <4>3 DEF Silence, FlagAfterShutdown
    <3>2. CASE ~(alarm_active /\ track.active)
      <4>1. track' = track
        BY <2>11, <3>2 DEF Silence, SetCriticalActive
      <4> QED
        BY <2>0, <2>11, <4>1 DEF Silence, FlagAfterShutdown
    <3> QED
      BY <3>1, <3>2
  <2>12. CASE Release
    BY <2>12 DEF Release, CloseWriter
  <2>13. CASE AttachAudio
    <3>1. track' = Finalize(track, Len(shown)) /\ shown' = shown
      BY <2>13 DEF AttachAudio
    <3>2. Len(shown) \in Nat
      BY <2>0
    <3>3. track'.frame = track.frame /\ Matches(track', shown)
      BY <2>0, <3>1, <3>2, CloseKeepsMatch DEF Finalize
    <3> QED
      BY <2>13, <3>1, <3>3 DEF AttachAudio, Released
  <2>14. CASE Mux
    BY <2>14 DEF Mux, Released
  <2>15. CASE Unlink
    BY <2>15 DEF Unlink, Released
  <2>16. CASE Replace
    BY <2>16 DEF Replace, Released
  <2>17. CASE SessionOver
    BY <2>17 DEF SessionOver
  <2>18. CASE AtExit
    BY <2>18 DEF AtExit, CloseWriter
  <2>19. CASE StrayEnds
    BY <2>19 DEF StrayEnds
  <2>20. CASE UNCHANGED vars
    BY <2>20 DEF vars
  <2> QED
    BY <2>1, <2>2, <2>3, <2>4, <2>5, <2>6, <2>7, <2>8, <2>9, <2>10, <2>11, <2>12, <2>13, <2>14,
       <2>15, <2>16, <2>17, <2>18, <2>19, <2>20 DEF Next
<1>3. AudioInv => AudioMatchesVideo
    BY DEF AudioInv, AudioMatchesVideo, Matches
<1> QED
    BY <1>1, <1>2, <1>3, TypeCorrect, PTL DEF Spec

================================================================================
