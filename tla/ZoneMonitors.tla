------------------------------ MODULE ZoneMonitors ------------------------------
(***************************************************************************)
(* What the zone monitors, the status banner and the critical alarm of     *)
(* safety_monitor.py conclude from a frame, as functions of what they      *)
(* remember.  A monitor remembers the zone in which it saw each person     *)
(* last.                                                                   *)
(***************************************************************************)
EXTENDS Naturals, FiniteSets

ZoneStates == {"outside", "safe", "warning", "critical"}

\* previous_states.get(person_id, OUTSIDE)
Previous(states, p) == IF p \in DOMAIN states THEN states[p] ELSE "outside"

Within(states, zone) == {p \in DOMAIN states : states[p] = zone}

Crossed(states, seen, from, to) == {p \in Within(seen, to) : Previous(states, p) = from}

SafeNotices(states, seen) == Crossed(states, seen, "warning", "safe")

Warnings(states, seen) == Crossed(states, seen, "critical", "warning")

\* A mutant: like the other two monitors, this one looks at one pair of zones.
RestrictedEntriesByTheLine(states, seen) == Crossed(states, seen, "warning", "critical")

RestrictedEntries(states, seen) ==
    {p \in Within(seen, "critical") : Previous(states, p) # "critical"}

RestrictedExits(states, seen) ==
    {p \in DOMAIN seen : Previous(states, p) = "critical" /\ seen[p] # "critical"}

\* prune_stale_ids drops the persons who are out of the frame: nobody then says
\* that they left the zone.
Forgotten(states, seen) == DOMAIN states \ DOMAIN seen

-----------------------------------------------------------------------------
\* StatusBanner: a message is told by its priority.
NoMessage == 0
Caution == 10
Warning == 20
Critical == 30
Priorities == {NoMessage, Caution, Warning, Critical}

Publish(banner, priority) == IF priority >= banner THEN priority ELSE banner

PublishFor(banner, persons, priority) ==
    IF persons = {} THEN banner ELSE Publish(banner, priority)

-----------------------------------------------------------------------------
\* AlertManager's thread: `thread` is the one it knows of, `strays` are those it
\* gave up joining, `stop` is the event they all look at.
Alarms == [thread : BOOLEAN, strays : Nat, stop : BOOLEAN]
NoAlarm == [thread |-> FALSE, strays |-> 0, stop |-> FALSE]

\* A mutant: the event is left set.
StartCriticalAlarmUncleared(alarm) ==
    IF alarm.thread THEN alarm ELSE [alarm EXCEPT !.thread = TRUE]

\* Clearing the event calls back the strays that have not seen it yet.
StartCriticalAlarm(alarm) ==
    IF alarm.thread THEN alarm ELSE [alarm EXCEPT !.thread = TRUE, !.stop = FALSE]

\* The thread ends within the join's second, or it is left to itself.
StopCriticalAlarm(alarm) ==
    IF ~alarm.thread THEN {alarm}
    ELSE {[thread |-> FALSE, strays |-> n, stop |-> TRUE] : n \in {alarm.strays, alarm.strays + 1}}

Sounding(alarm) == ~alarm.stop /\ (alarm.thread \/ alarm.strays > 0)

-----------------------------------------------------------------------------
\* SessionAudioTrack: the frame clock, the intervals in which the alarm sounded,
\* and whether one is open, since which frame.
Tracks == [frame : Nat, intervals : SUBSET (Nat \X Nat), active : BOOLEAN, start : Nat]
NoTrack == [frame |-> 0, intervals |-> {}, active |-> FALSE, start |-> 0]

CloseInterval(track, frame) ==
    [track EXCEPT !.intervals = @ \cup {<<track.start, frame>>}, !.active = FALSE, !.start = 0]

SetCriticalActive(track, active) ==
    IF active /\ ~track.active
    THEN [track EXCEPT !.active = TRUE, !.start = track.frame]
    ELSE IF ~active /\ track.active THEN CloseInterval(track, track.frame) ELSE track

Finalize(track, total) == IF track.active THEN CloseInterval(track, total) ELSE track

\* Whether the exported track carries the alarm at a frame.
Alarmed(track, frame) ==
    \/ \E interval \in track.intervals : interval[1] <= frame /\ frame < interval[2]
    \/ track.active /\ track.start <= frame
================================================================================
