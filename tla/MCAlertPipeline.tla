---------------------------- MODULE MCAlertPipeline ----------------------------
(* Instances of AlertPipeline for TLC: the zones are those of camera c1. *)
EXTENDS AlertPipeline, Listing, Statistics
F == INSTANCE Functions

CONSTANTS c1

ZonesOfOne == [z \in Zones |-> c1]

-----------------------------------------------------------------------------
(* Lists and statistics of small tables.                                     *)

Detection == [camera_id: {1, 2}, zone_id: {1}, violation_type: {"helmet_violation"},
              severity: {"danger"}, created_at: 0..3, id: 1..4]

\* Tables of up to three detections, in the order they were made in.
Tables == {t \in UNION {[1..n -> Detection] : n \in 0..3} :
              \A i \in DOMAIN t : t[i].id = i /\ \A j \in 1..i : t[j].created_at <= t[i].created_at}

Filters == [camera_id: {{}, {1}}, zone_id: {{}}, violation_type: {{}, {"line_crossing"}},
            since: {{}, {1}}, until: {{}, {2}}]

\* What a list holds, by the words of the filters.
ASSUME ListedDetections ==
    \A t \in Tables, f \in Filters :
       LET rows == DetectionRows(t, f)
       IN  /\ {rows[i] : i \in DOMAIN rows} = {t[i] : i \in {j \in DOMAIN t : Matches(t[j], f)}}
           /\ \A i, j \in DOMAIN rows : i < j => rows[j].id < rows[i].id

\* The pages of a list hold each row once, and no page is empty but the first of
\* an empty list.
ASSUME PagesOfSmallLists ==
    \A n \in 0..7, size \in 1..4 :
       LET pages == 1..TotalPages(n, size)
           page(p) == Slice(Numbered(n), [page |-> p, page_size |-> size])
       IN  /\ \A i \in 1..n : Cardinality({p \in pages : OnPage(Numbered(n), i, p, size)}) = 1
           /\ \A p \in pages : page(p) # <<>>
           /\ page(TotalPages(n, size) + 1) = <<>>

\* Detections of two days about the beginning of a window of 60 hours.
ASSUME BucketsOfSmallTables ==
    \A hours \in {2, 60} :
       LET span == Span(hours)
           table == [created_at: {100000 + k * 1800 : k \in 0..130}, camera_id: {1}]
           since == Since(100000 + 130 * 1800, hours)
           counts == CountsOverTime(table, since, span)
       IN  /\ BucketsPartition(table, since, span, 100000 + 130 * 1800)
           /\ \A n \in 0..3 : BucketIsSpan(table, since, span, n)
           /\ \A start \in DOMAIN counts :
                 counts[start] = Cardinality(InBucket(table, since, span, start))

\* All series of an answer count the same detections if nothing is stored between
\* its statements.
ASSUME SeriesOfSmallTables ==
    \A t \in Tables :
       LET now == 3
           rows == {t[i] : i \in DOMAIN t}
           seen == [s \in Statements |->
                       [detections |-> rows, alerts |-> {}, zones |-> {1},
                        cameras |-> {[status |-> "active"]}]]
           stats == GetStatistics(seen, now, 24)
           series == <<stats.by_type, stats.by_severity, stats.by_camera, stats.by_zone,
                       stats.over_time>>
       IN  /\ stats.summary.total_detections = Len(t)
           /\ stats.summary.detections_today = Len(t)
           /\ \A i \in DOMAIN series : F!SumFunction(series[i]) = Len(t)

\* The newest entries of the audit log, and as many as asked for.
ASSUME NewestEntries ==
    \A n \in 0..4, limit \in 1..5 :
       AuditLogs(Numbered(n), limit) =
           [i \in 1..(IF limit <= n THEN limit ELSE n) |-> n - i + 1]
================================================================================
