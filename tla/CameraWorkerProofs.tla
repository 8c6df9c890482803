-------------------------- MODULE CameraWorkerProofs --------------------------
(* Theorems about one camera worker process, for every set of persons, every  *)
(* cooldown and every bound.                                                   *)
EXTENDS CameraWorker, TLAPS

-----------------------------------------------------------------------------
(* The cooldown dictionary.                                                    *)

\* An empty dictionary is a dictionary.
LEMMA NoneFiredType == ASSUME NEW Keys PROVE IsTracker(NoneFired, Keys)
BY DEF NoneFired, IsTracker

\* Firing stamps the keys that fire, keeps the others, and stays a dictionary.
LEMMA FireType ==
    ASSUME NEW Keys, NEW t, IsTracker(t, Keys), NEW K \in SUBSET Keys, NEW now \in Nat
    PROVE  /\ IsTracker(Fire(t, K, now), Keys)
           /\ DOMAIN Fire(t, K, now) = DOMAIN t \cup K
           /\ \A k \in K : Fire(t, K, now)[k] = now
           /\ \A k \in DOMAIN t \ K : Fire(t, K, now)[k] = t[k]
BY DEF Fire, IsTracker

\* Resetting drops exactly the keys given and stays a dictionary.
LEMMA ResetType ==
    ASSUME NEW Keys, NEW t, IsTracker(t, Keys), NEW K
    PROVE  /\ IsTracker(Reset(t, K), Keys)
           /\ DOMAIN Reset(t, K) = DOMAIN t \ K
           /\ \A k \in DOMAIN t \ K : Reset(t, K)[k] = t[k]
BY DEF Reset, IsTracker

-----------------------------------------------------------------------------
(* Type correctness.                                                           *)

\* The persons alerted about, or leaving, are persons.
LEMMA AlertPersons ==
    ASSUME TypeOK, NEW dets \in Detections
    PROVE  /\ DOMAIN dets \subseteq Persons
           /\ \A p \in DOMAIN dets : dets[p].zone \in Zones
           /\ HelmetAlerts(dets) \subseteq Persons
           /\ YellowAlerts(dets) \subseteq Persons
           /\ RedAlerts(dets) \subseteq Persons
           /\ Exits(dets) \subseteq Persons
           /\ \A k \in AlertKinds : Alerts(dets, k) \subseteq Persons
<1>1. PICK P \in SUBSET Persons : dets \in [P -> Reports]
    BY DEF Detections
<1>2. DOMAIN dets = P /\ \A p \in P : dets[p] \in Reports
    BY <1>1
<1>3. \A r \in Reports : r.zone \in Zones
    BY DEF Reports, Zones
<1>4. /\ HelmetAlerts(dets) \subseteq Persons
      /\ YellowAlerts(dets) \subseteq Persons
      /\ RedAlerts(dets) \subseteq Persons
      /\ Exits(dets) \subseteq Persons
    BY <1>2 DEF HelmetAlerts, YellowAlerts, RedAlerts, Exits, Left, Vanished, TypeOK
<1>5. \A k \in AlertKinds : Alerts(dets, k) \subseteq Persons
    BY <1>4 DEF Alerts, AlertKinds
<1> QED
    BY <1>2, <1>3, <1>4, <1>5

\* Every variable keeps its type, whatever the frames, failures and drops.
THEOREM TypeCorrect == Spec => []TypeOK
<1>1. Init => TypeOK
  <2> SUFFICES ASSUME Init PROVE TypeOK
    OBVIOUS
  <2> DEFINE nobody == [p \in {} |-> "safe"]
  <2>1. DOMAIN nobody \subseteq Persons /\ nobody \in [DOMAIN nobody -> Zones]
    OBVIOUS
  <2>2. DOMAIN worker_zones \subseteq Persons /\ worker_zones \in [DOMAIN worker_zones -> Zones]
    BY <2>1 DEF Init
  <2>3. IsTracker(NoneFired, Persons)
    BY NoneFiredType
  <2>4. /\ IsTracker(cooldown, Persons)
        /\ IsTracker(red_cooldown, Persons)
        /\ IsTracker(helmet_cooldown, Persons)
    BY <2>3, Zenon DEF Init
  <2>5. DOMAIN last_alert = AlertKinds /\ \A k \in AlertKinds : last_alert[k] = NoneFired
    BY DEF Init
  <2>6. \A k \in AlertKinds : IsTracker(last_alert[k], Persons)
    BY <2>3, <2>5, Zenon
  <2>7. clock \in Nat /\ read_failures \in 0..MaxReadFailures /\ frame_index \in 0..FrameSkip - 1
    BY WorkerAssumption DEF Init
  <2>8. emitted \subseteq Messages /\ alarmed \subseteq Persons /\ misled \subseteq Persons
    BY DEF Init
  <2> QED
    BY <2>2, <2>4, <2>5, <2>6, <2>7, <2>8 DEF Init, TypeOK
<1>2. TypeOK /\ [Next]_vars => TypeOK'
  <2> SUFFICES ASSUME TypeOK, [Next]_vars PROVE TypeOK'
    OBVIOUS
  <2> USE WorkerAssumption
  <2>1. ASSUME Quiet PROVE /\ emitted' \subseteq Messages
                           /\ DOMAIN worker_zones' \subseteq Persons
                           /\ worker_zones' \in [DOMAIN worker_zones' -> Zones]
                           /\ IsTracker(cooldown', Persons)
                           /\ IsTracker(red_cooldown', Persons)
                           /\ IsTracker(helmet_cooldown', Persons)
                           /\ DOMAIN last_alert' = AlertKinds
                           /\ \A k \in AlertKinds : IsTracker(last_alert'[k], Persons)
                           /\ alarmed' \subseteq Persons
                           /\ misled' \subseteq Persons
    BY <2>1 DEF Quiet, TypeOK, trackers, history
  <2>2. CASE Load
    BY <2>1, <2>2 DEF Load, TypeOK, config
  <2>3. CASE SeeStop
    BY <2>1, <2>3 DEF SeeStop, TypeOK, config
  <2>4. CASE ReadFails
    BY <2>1, <2>4 DEF ReadFails, TypeOK, config
  <2>5. CASE PassOver \/ Breaks
    <3>1. frame_index' \in 0..FrameSkip - 1
      BY <2>5 DEF PassOver, Breaks, TypeOK
    <3> QED
      BY <2>1, <2>5, <3>1 DEF PassOver, Breaks, TypeOK, config
  <2>6. ASSUME NEW dets \in Detections, ProcessFrame(dets) PROVE TypeOK'
    <3>1. frame_index' \in 0..FrameSkip - 1 /\ read_failures' \in 0..MaxReadFailures
      BY <2>6 DEF ProcessFrame, TypeOK
    <3>2. EmitEvents(dets)
      BY <2>6 DEF ProcessFrame
    <3>3. DOMAIN worker_zones' \subseteq Persons /\ worker_zones' \in [DOMAIN worker_zones' -> Zones]
      BY <3>2, AlertPersons DEF EmitEvents
    <3>4. IsTracker(cooldown', Persons) /\ IsTracker(helmet_cooldown', Persons)
      BY <3>2, AlertPersons, FireType DEF EmitEvents, TypeOK
    <3>5. IsTracker(red_cooldown', Persons)
      <4>1. IsTracker(Reset(red_cooldown, Exits(dets)), Persons)
        BY ResetType DEF TypeOK
      <4> QED
        BY <3>2, <4>1, AlertPersons, FireType DEF EmitEvents, TypeOK
    <3>6. PICK full \in SUBSET (RedAlerts(dets) \cup Exits(dets)) : Put(dets, full)
      BY <3>2 DEF EmitEvents
    <3>7. emitted' \subseteq Messages /\ alarmed' \subseteq Persons /\ misled' \subseteq Persons
      BY <3>6, AlertPersons DEF Put, TypeOK
    <3>8. DOMAIN last_alert' = AlertKinds /\ \A k \in AlertKinds : IsTracker(last_alert'[k], Persons)
      BY <3>6, AlertPersons, FireType DEF Put, TypeOK
    <3> QED
      BY <2>6, <3>1, <3>3, <3>4, <3>5, <3>7, <3>8 DEF ProcessFrame, TypeOK, config
  <2>7. CASE RequestStop
    BY <2>1, <2>7 DEF RequestStop, TypeOK, config
  <2>8. CASE Terminate
    BY <2>1, <2>8 DEF Terminate, TypeOK, config
  <2>9. CASE Tick
    BY <2>1, <2>9 DEF Tick, TypeOK, config, loop
  <2>10. CASE UNCHANGED vars
    BY <2>10 DEF vars, TypeOK, config, loop, trackers, history
  <2> QED
    BY <2>2, <2>3, <2>4, <2>5, <2>6, <2>7, <2>8, <2>9, <2>10 DEF Next, Turn
<1> QED
    BY <1>1, <1>2, PTL DEF Spec

-----------------------------------------------------------------------------
(* The red area.                                                               *)

\* The reason the alarms are right: a red cooldown entry exists exactly while
\* its person is in the red area, so whoever comes in finds none.
RedInv ==
    /\ clock >= RedCooldown
    /\ DOMAIN red_cooldown = InRed
    /\ AlarmTellsOccupancy

\* What one processed frame does to the red area.
LEMMA FrameRed ==
    ASSUME TypeOK, clock >= RedCooldown, DOMAIN red_cooldown = InRed,
           NEW dets \in Detections, EmitEvents(dets)
    PROVE  /\ InRed' = {p \in DOMAIN dets : dets[p].zone = "red"}
           /\ Exits(dets) = InRed \ InRed'
           /\ InRed' \ InRed \subseteq RedAlerts(dets)
           /\ RedAlerts(dets) \subseteq InRed'
           /\ DOMAIN red_cooldown' = InRed'
<1>1. InRed' = {p \in DOMAIN dets : dets[p].zone = "red"}
    BY DEF InRed, EmitEvents
<1>2. Exits(dets) = InRed \ InRed'
    BY <1>1 DEF Exits, Left, Vanished, InRed
<1>3. RedAlerts(dets) \subseteq InRed'
    BY <1>1 DEF RedAlerts
<1>4. InRed' \ InRed \subseteq RedAlerts(dets)
  <2> SUFFICES ASSUME NEW p \in InRed', p \notin InRed PROVE p \in RedAlerts(dets)
    OBVIOUS
  <2>1. LastFired(red_cooldown, p) = 0
    BY DEF LastFired
  <2>2. clock - 0 >= RedCooldown
    BY DEF TypeOK
  <2> QED
    BY <1>1, <2>1, <2>2 DEF RedAlerts, ShouldFire
<1>5. DOMAIN red_cooldown' = InRed'
  <2>1. DOMAIN red_cooldown' = (InRed \ Exits(dets)) \cup RedAlerts(dets)
    BY DEF EmitEvents, Fire, Reset
  <2> QED
    BY <1>2, <1>3, <1>4, <2>1
<1> QED
    BY <1>1, <1>2, <1>3, <1>4, <1>5

\* Steps other than a processed frame emit nothing and move nobody.
LEMMA OtherSteps ==
    ASSUME TypeOK, [Next]_vars, ~(\E dets \in Detections : ProcessFrame(dets))
    PROVE  /\ \/ Quiet
              \/ UNCHANGED <<emitted, worker_zones, trackers, history>>
           /\ clock' \in Nat /\ clock' >= clock
<1>1. clock \in Nat
    BY DEF TypeOK
<1>2. CASE Tick
    BY <1>1, <1>2 DEF Tick
<1>3. CASE UNCHANGED vars
    BY <1>1, <1>3 DEF vars
<1>4. CASE Load \/ SeeStop \/ ReadFails \/ PassOver \/ Breaks \/ RequestStop \/ Terminate
    BY <1>1, <1>4 DEF Load, SeeStop, ReadFails, PassOver, Breaks, RequestStop, Terminate
<1> QED
    BY <1>2, <1>3, <1>4 DEF Next, Turn

LEMMA RedInvariant == BootedLate /\ Spec => []RedInv
<1>1. BootedLate /\ Init => RedInv
    BY DEF BootedLate, Init, RedInv, NoneFired, InRed, AlarmTellsOccupancy
<1>2. TypeOK /\ RedInv /\ [Next]_vars => RedInv'
  <2> SUFFICES ASSUME TypeOK, RedInv, [Next]_vars PROVE RedInv'
    OBVIOUS
  <2> USE DEF RedInv
  <2>1. ASSUME NEW dets \in Detections, ProcessFrame(dets) PROVE RedInv'
    <3>1. EmitEvents(dets) /\ clock' = clock
      BY <2>1 DEF ProcessFrame
    <3>2. /\ Exits(dets) = InRed \ InRed'
          /\ InRed' \ InRed \subseteq RedAlerts(dets)
          /\ RedAlerts(dets) \subseteq InRed'
          /\ DOMAIN red_cooldown' = InRed'
      BY <3>1, FrameRed
    <3>3. PICK full \in SUBSET (RedAlerts(dets) \cup Exits(dets)) : Put(dets, full)
      BY <3>1 DEF EmitEvents
    <3>4. /\ alarmed' = (alarmed \ (Exits(dets) \ full)) \cup (RedAlerts(dets) \ full)
          /\ misled' = (misled \ (RedAlerts(dets) \cup Exits(dets))) \cup full
      BY <3>3 DEF Put
    <3>5. AlarmTellsOccupancy'
      <4> SUFFICES ASSUME NEW p \in Persons, p \notin misled'
                   PROVE p \in alarmed' <=> p \in InRed'
        BY DEF AlarmTellsOccupancy
      <4>1. CASE p \in RedAlerts(dets)
        BY <3>2, <3>4, <4>1
      <4>2. CASE p \in Exits(dets)
        BY <3>2, <3>4, <4>2
      <4>3. CASE p \notin RedAlerts(dets) /\ p \notin Exits(dets)
        BY <3>2, <3>4, <4>3 DEF AlarmTellsOccupancy
      <4> QED
        BY <4>1, <4>2, <4>3
    <3> QED
      BY <3>1, <3>2, <3>5
  <2>2. CASE ~(\E dets \in Detections : ProcessFrame(dets))
    <3>1. clock' >= RedCooldown
      BY <2>2, OtherSteps, WorkerAssumption DEF TypeOK, RedCooldown
    <3>2. UNCHANGED <<worker_zones, red_cooldown, alarmed, misled>>
      BY <2>2, OtherSteps DEF Quiet, trackers, history
    <3> QED
      BY <3>1, <3>2 DEF InRed, AlarmTellsOccupancy
  <2> QED
    BY <2>1, <2>2
<1> QED
    BY <1>1, <1>2, TypeCorrect, PTL DEF Spec

\* The other end of the queue has a red alarm open exactly for the persons in
\* the red area, for all of them whose latest message was not dropped.
THEOREM AlarmCorrect == BootedLate /\ Spec => []AlarmTellsOccupancy
BY RedInvariant, PTL DEF RedInv

\* Whoever comes into the red area is reported in the frame that sees it.
THEOREM EntryAlertsCorrect == BootedLate /\ Spec => EntryAlerts
<1>1. TypeOK /\ RedInv /\ [Next]_vars =>
        [\A p \in Persons :
            p \notin InRed /\ p \in InRed' => [kind |-> "red", person |-> p] \in emitted']_vars
  <2> SUFFICES ASSUME TypeOK, RedInv, [Next]_vars,
                      NEW p \in Persons, p \notin InRed, p \in InRed'
               PROVE [kind |-> "red", person |-> p] \in emitted'
    OBVIOUS
  <2>1. PICK dets \in Detections : ProcessFrame(dets)
    <3>1. CASE ~(\E dets \in Detections : ProcessFrame(dets))
      BY <3>1, OtherSteps DEF Quiet, InRed
    <3> QED
      BY <3>1
  <2>2. EmitEvents(dets)
    BY <2>1 DEF ProcessFrame
  <2>3. p \in RedAlerts(dets)
    BY <2>2, FrameRed DEF RedInv
  <2>4. [kind |-> "red", person |-> p] \in Messages
    BY DEF Messages, Kinds, AlertKinds
  <2>5. p \in Alerts(dets, "red")
    BY <2>3 DEF Alerts
  <2> QED
    BY <2>2, <2>4, <2>5 DEF EmitEvents, Put
<1> QED
    BY <1>1, TypeCorrect, RedInvariant, PTL DEF Spec, EntryAlerts

-----------------------------------------------------------------------------
(* Throttling.                                                                 *)

\* The trackers agree with what was alerted: two of them hold exactly the
\* alerts sent, the red one those of the stays that have not ended.
SpacingInv ==
    /\ last_alert["yellow"] = cooldown
    /\ last_alert["helmet_violation"] = helmet_cooldown
    /\ \A p \in DOMAIN red_cooldown :
        p \in DOMAIN last_alert["red"] /\ last_alert["red"][p] = red_cooldown[p]

LEMMA SpacingInvariant == Spec => []SpacingInv
<1>1. Init => SpacingInv
    BY DEF Init, SpacingInv, NoneFired, AlertKinds
<1>2. TypeOK /\ SpacingInv /\ [Next]_vars => SpacingInv'
  <2> SUFFICES ASSUME TypeOK, SpacingInv, [Next]_vars PROVE SpacingInv'
    OBVIOUS
  <2>1. ASSUME NEW dets \in Detections, ProcessFrame(dets) PROVE SpacingInv'
    <3>1. EmitEvents(dets)
      BY <2>1 DEF ProcessFrame
    <3>2. \A k \in AlertKinds : last_alert'[k] = Fire(last_alert[k], Alerts(dets, k), clock)
      BY <3>1 DEF EmitEvents, Put
    <3>3. last_alert'["yellow"] = cooldown'
      BY <3>1, <3>2 DEF EmitEvents, SpacingInv, Alerts, AlertKinds
    <3>4. last_alert'["helmet_violation"] = helmet_cooldown'
      BY <3>1, <3>2 DEF EmitEvents, SpacingInv, Alerts, AlertKinds
    <3>5. last_alert'["red"] = Fire(last_alert["red"], RedAlerts(dets), clock)
      BY <3>2 DEF Alerts, AlertKinds
    <3>6. red_cooldown' = Fire(Reset(red_cooldown, Exits(dets)), RedAlerts(dets), clock)
      BY <3>1 DEF EmitEvents
    <3>7. ASSUME NEW p \in DOMAIN red_cooldown'
          PROVE p \in DOMAIN last_alert'["red"] /\ last_alert'["red"][p] = red_cooldown'[p]
      <4>1. CASE p \in RedAlerts(dets)
        BY <3>5, <3>6, <3>7, <4>1 DEF Fire
      <4>2. CASE p \notin RedAlerts(dets)
        <5>1. p \in DOMAIN red_cooldown /\ red_cooldown'[p] = red_cooldown[p]
          BY <3>6, <3>7, <4>2 DEF Fire, Reset
        <5> QED
          BY <3>5, <4>2, <5>1 DEF Fire, SpacingInv
      <4> QED
        BY <4>1, <4>2
    <3> QED
      BY <3>3, <3>4, <3>7 DEF SpacingInv
  <2>2. CASE ~(\E dets \in Detections : ProcessFrame(dets))
    BY <2>2, OtherSteps DEF Quiet, trackers, history, SpacingInv
  <2> QED
    BY <2>1, <2>2
<1> QED
    BY <1>1, <1>2, TypeCorrect, PTL DEF Spec

\* No two alerts of a kind about one person come closer than the cooldown of
\* the kind, red alerts of different stays excepted.
THEOREM AlertSpacingCorrect == BootedLate /\ Spec => AlertSpacing
<1>1. TypeOK /\ RedInv /\ SpacingInv /\ [Next]_vars =>
        [\A k \in AlertKinds, p \in Persons :
            /\ [kind |-> k, person |-> p] \in emitted'
            /\ p \in DOMAIN last_alert[k]
            /\ k = "red" => p \in InRed
            => clock - last_alert[k][p] >= CooldownOf(k)]_vars
  <2> SUFFICES ASSUME TypeOK, RedInv, SpacingInv, [Next]_vars, ~UNCHANGED vars,
                      NEW k \in AlertKinds, NEW p \in Persons,
                      [kind |-> k, person |-> p] \in emitted',
                      p \in DOMAIN last_alert[k],
                      k = "red" => p \in InRed
               PROVE clock - last_alert[k][p] >= CooldownOf(k)
    BY DEF vars
  <2>1. PICK dets \in Detections : ProcessFrame(dets)
    <3>1. CASE ~(\E dets \in Detections : ProcessFrame(dets))
      <4>1. Quiet
        BY <3>1 DEF Next, Turn, Load, SeeStop, ReadFails, PassOver, Breaks, RequestStop, Terminate, Tick
      <4> QED
        BY <4>1 DEF Quiet
    <3> QED
      BY <3>1
  <2>2. EmitEvents(dets)
    BY <2>1 DEF ProcessFrame
  <2>3. p \in Alerts(dets, k)
    <3>1. k # "zone_exit"
      BY DEF AlertKinds
    <3> QED
      BY <2>2, <3>1 DEF EmitEvents, Put
  <2>4. CASE k = "yellow"
    BY <2>3, <2>4 DEF Alerts, YellowAlerts, ShouldFire, LastFired, SpacingInv, CooldownOf
  <2>5. CASE k = "helmet_violation"
    BY <2>3, <2>5 DEF Alerts, HelmetAlerts, ShouldFire, LastFired, SpacingInv, CooldownOf
  <2>6. CASE k = "red"
    BY <2>3, <2>6 DEF Alerts, RedAlerts, ShouldFire, LastFired, SpacingInv, RedInv, CooldownOf
  <2> QED
    BY <2>4, <2>5, <2>6 DEF AlertKinds
<1> QED
    BY <1>1, TypeCorrect, RedInvariant, SpacingInvariant, PTL DEF Spec, AlertSpacing
================================================================================
