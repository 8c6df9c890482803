------------------------------- MODULE ZoneLines -------------------------------
(* The line of a zone row, in hundredths of the frame.  A shape is what the    *)
(* line columns of a row hold: the endpoint columns that are not NULL, and     *)
(* line_y, which never is.                                                     *)
EXTENDS Integers

SeverityToLine == [level_1 |-> "green", level_2 |-> "yellow", danger |-> "red"]

Segment(x1, y1, x2, y2) == [x1 |-> x1, y1 |-> y1, x2 |-> x2, y2 |-> y2]

\* _build_worker_config: each endpoint column that is NULL falls back to that of
\* a full-width line at line_y.
SegmentOf(shape) ==
    LET Or(key, default) == IF key \in DOMAIN shape.ends THEN shape.ends[key] ELSE default
    IN  Segment(Or("x1", 0), Or("y1", shape.line_y), Or("x2", 100), Or("y2", shape.line_y))
================================================================================
