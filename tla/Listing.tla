-------------------------------- MODULE Listing --------------------------------
(* The pages of detections and alerts: utils/pagination.py, list_paginated of   *)
(* the two repositories, DetectionService and the routes.  An answer takes two  *)
(* statements, one that counts the rows and one that selects some, and others   *)
(* may commit in between.                                                       *)
EXTENDS Integers, Sequences

\* pagination_params
PageParams == [page: Nat \ {0}, page_size: 1..100]
Offset(params) == (params.page - 1) * params.page_size

\* Page.total_pages
TotalPages(total, size) == IF size <= 0 THEN 0 ELSE (total + size - 1) \div size

\* _apply_filters; a filter that is not given is the empty set.
Matches(detection, filters) ==
    /\ \A camera \in filters.camera_id : detection.camera_id = camera
    /\ \A zone \in filters.zone_id : detection.zone_id = zone
    /\ \A kind \in filters.violation_type : detection.violation_type = kind
    /\ \A since \in filters.since : since <= detection.created_at
    /\ \A until \in filters.until : detection.created_at <= until

\* order_by(created_at.desc()), of rows in the order they were created in.
NewestFirst(rows) == [i \in 1..Len(rows) |-> rows[Len(rows) - i + 1]]

DetectionRows(table, filters) ==
    NewestFirst(SelectSeq(table, LAMBDA detection : Matches(detection, filters)))
AlertRows(table, unacknowledged_only) ==
    NewestFirst(SelectSeq(table, LAMBDA alert : unacknowledged_only => ~alert.acknowledged))

\* .offset(params.offset).limit(params.limit)
Slice(rows, params) ==
    LET end == Offset(params) + params.page_size
    IN  SubSeq(rows, Offset(params) + 1, IF end <= Len(rows) THEN end ELSE Len(rows))

\* paginate and paginated_response, of the rows counted and the rows selected from.
Page(counted, rows, params) ==
    [success |-> TRUE,
     data |-> Slice(rows, params),
     pagination |-> [page |-> params.page,
                     page_size |-> params.page_size,
                     total_items |-> Len(counted),
                     total_pages |-> TotalPages(Len(counted), params.page_size)]]

ListDetections(counted, table, filters, params) ==
    Page(DetectionRows(counted, filters), DetectionRows(table, filters), params)
ListAlerts(counted, table, unacknowledged_only, params) ==
    Page(AlertRows(counted, unacknowledged_only), AlertRows(table, unacknowledged_only), params)

\* list_recent, of the entries in the order they were recorded in.
AuditLogs(table, limit) == Slice(NewestFirst(table), [page |-> 1, page_size |-> limit])

-----------------------------------------------------------------------------
(* Someone turns the pages of a list from the first to the last (Pagination of *)
(* ui.tsx) while the drainer stores more.  Rows that match are numbered in the *)
(* order they were stored in; none is deleted meanwhile.                       *)

Numbered(stored) == [i \in 1..stored |-> i]

\* `first` is the number of rows when the reader began; `overtaken`: a row was
\* stored between the two statements of the last answer.
Reader == [at: {"count", "select", "end"}, page: Nat \ {0}, total: Nat,
           seen: SUBSET Nat, first: Nat, overtaken: BOOLEAN]

BeginReading(stored, reader) ==
    /\ stored \in Nat
    /\ reader = [at |-> "count", page |-> 1, total |-> 0,
                 seen |-> {}, first |-> stored, overtaken |-> FALSE]

StoreRow(stored, reader) ==
    /\ stored' = stored + 1
    /\ reader' = [reader EXCEPT !.overtaken = @ \/ reader.at = "select"]

CountRows(stored, reader) ==
    /\ reader.at = "count"
    /\ reader' = [reader EXCEPT !.at = "select", !.total = stored, !.overtaken = FALSE]
    /\ stored' = stored

\* The rows are shown; the next page exists if the answer says so.
SelectRows(stored, reader, size) ==
    /\ reader.at = "select"
    /\ LET rows == Slice(NewestFirst(Numbered(stored)), [page |-> reader.page, page_size |-> size])
           more == reader.page < TotalPages(reader.total, size)
       IN  reader' = [reader EXCEPT
                        !.seen = @ \cup {rows[i] : i \in DOMAIN rows},
                        !.at = IF more THEN "count" ELSE "end",
                        !.page = IF more THEN @ + 1 ELSE @]
    /\ stored' = stored

TurnPages(stored, reader, size) ==
    \/ StoreRow(stored, reader)
    \/ CountRows(stored, reader)
    \/ SelectRows(stored, reader, size)

ReadingPages(stored, reader, size) ==
    /\ BeginReading(stored, reader)
    /\ [][TurnPages(stored, reader, size)]_<<stored, reader>>

-----------------------------------------------------------------------------
\* Row i of a list is on page p, at its place there.
OnPage(rows, i, p, size) ==
    LET page == Slice(rows, [page |-> p, page_size |-> size])
        j == i - (p - 1) * size
    IN  j \in DOMAIN page /\ page[j] = rows[i]

\* Who has turned all pages has seen every row there was at the beginning,
\* unless rows were stored between the two statements of the last answer.
NothingSkipped(reader) ==
    reader.at = "end" /\ ~reader.overtaken => 1..reader.first \subseteq reader.seen
================================================================================
