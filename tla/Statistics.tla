------------------------------- MODULE Statistics -------------------------------
(* What the statistics page is told about the detections (statistics_service.py *)
(* and statistics_repo.py).  Every number comes from a statement of its own; the *)
(* table below is what that statement sees.  Times are in seconds.               *)
EXTENDS Integers, FiniteSets

Hour == 3600

\* The route admits windows of an hour to a year.
WindowHours == 1..8760
Since(now, window_hours) == now - window_hours * Hour

Recent(table, since) == {d \in table : since <= d.created_at}

\* select(key, func.count()).group_by(key): only the keys that occur.
CountBy(Key(_), detections) ==
    [k \in {Key(d) : d \in detections} |-> Cardinality({d \in detections : Key(d) = k})]

CountByViolationType(table, since) == CountBy(LAMBDA d : d.violation_type, Recent(table, since))
CountBySeverity(table, since) == CountBy(LAMBDA d : d.severity, Recent(table, since))

\* The outer join would keep the cameras without detections; the condition on
\* created_at drops them.
CountByCamera(table, since) == CountBy(LAMBDA d : d.camera_id, Recent(table, since))

\* Deleting a zone empties the zone_id of its detections; they are one group.
CountByZone(table, since) == CountBy(LAMBDA d : d.zone_id, Recent(table, since))

\* Detections of the day that began last, in UTC.
StartOfDay(now) == now - (now % (24 * Hour))
DetectionsToday(table, now) == Cardinality(Recent(table, StartOfDay(now)))

-----------------------------------------------------------------------------
(* counts_over_time                                                          *)

BucketHours(window_hours) == IF window_hours <= 48 THEN 1 ELSE 24
Span(window_hours) == BucketHours(window_hours) * Hour

BucketStart(created_at, since, span) == since + ((created_at - since) \div span) * span

InBucket(table, since, span, start) ==
    {d \in Recent(table, since) : BucketStart(d.created_at, since, span) = start}

CountsOverTime(table, since, span) ==
    CountBy(LAMBDA d : BucketStart(d.created_at, since, span), Recent(table, since))

-----------------------------------------------------------------------------
(* get_statistics                                                            *)

Active(cameras) == {c \in cameras : c.status = "active"}
Unacknowledged(alerts) == {a \in alerts : ~a.acknowledged}

\* `seen` tells for each statement what its tables hold when it runs.
Summary(seen, now) ==
    [total_detections      |-> Cardinality(seen.total_detections.detections),
     total_alerts          |-> Cardinality(seen.total_alerts.alerts),
     unacknowledged_alerts |-> Cardinality(Unacknowledged(seen.unacknowledged_alerts.alerts)),
     active_cameras        |-> Cardinality(Active(seen.active_cameras.cameras)),
     total_cameras         |-> Cardinality(seen.total_cameras.cameras),
     total_zones           |-> Cardinality(seen.total_zones.zones),
     detections_today      |-> DetectionsToday(seen.detections_today.detections, now)]

GetStatistics(seen, now, window_hours) ==
    LET since == Since(now, window_hours)
    IN  [summary     |-> Summary(seen, now),
         by_type     |-> CountByViolationType(seen.by_type.detections, since),
         by_severity |-> CountBySeverity(seen.by_severity.detections, since),
         by_camera   |-> CountByCamera(seen.by_camera.detections, since),
         by_zone     |-> CountByZone(seen.by_zone.detections, since),
         over_time   |-> CountsOverTime(seen.over_time.detections, since, Span(window_hours))]

\* The statements of one answer.
Statements ==
    {"total_detections", "total_alerts", "unacknowledged_alerts", "active_cameras",
     "total_cameras", "total_zones", "detections_today",
     "by_type", "by_severity", "by_camera", "by_zone", "over_time"}

-----------------------------------------------------------------------------
\* The n-th bucket holds the detections of its span and no others.
BucketIsSpan(table, since, span, n) ==
    InBucket(table, since, span, since + n * span) =
        {d \in table : /\ since + n * span <= d.created_at
                       /\ d.created_at < since + (n + 1) * span}

\* Buckets do not overlap, and each begins a whole number of spans after the
\* window does; those of detections made before now, before now.
BucketsPartition(table, since, span, now) ==
    \A d \in Recent(table, since) :
       LET start == BucketStart(d.created_at, since, span)
       IN  /\ since <= start
           /\ (start - since) % span = 0
           /\ start <= d.created_at
           /\ d.created_at < start + span
           /\ d.created_at < now => start < now
           /\ \A e \in Recent(table, since) :
                 LET other == BucketStart(e.created_at, since, span)
                 IN  other = start \/ other + span <= start \/ start + span <= other
================================================================================
