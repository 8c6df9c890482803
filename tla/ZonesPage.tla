------------------------------- MODULE ZonesPage -------------------------------
(* The Zones page of one tab: the list, the form with its LineEditor, and the  *)
(* handlers that save and delete zones over ZoneService, while other tabs and  *)
(* clients of the API write the same rows.  The form stays open, and its       *)
(* buttons on, until a save is answered.  Coordinates are hundredths.          *)
EXTENDS ZoneLines, FiniteSets

CONSTANTS Zones,         \* zone ids
          Closed,        \* no form is open
          New,           \* the form of a zone that does not exist yet
          Unborn, Deleted,  \* a zone without a row
          None,          \* no list, no answer
          Points,        \* where the pointer may be, as [x, y] of the editor's box
          Row,           \* rows that other clients may have written
          MaxSteps,      \* bound on what the operator does
          MaxWrites      \* bound on the writes of other clients

Corners == {"x1", "y1", "x2", "y2"}
InRange(shape) == shape.ends \in [DOMAIN shape.ends -> 0..100]

IsRow(row) ==
    /\ row.severity \in DOMAIN SeverityToLine /\ row.is_active \in BOOLEAN
    /\ DOMAIN row.shape.ends \subseteq Corners
    /\ row.shape.line_y \in 0..100 /\ InRange(row.shape)

ASSUME RowAssumption == \A row \in Row : IsRow(row)
ASSUME PointsAssumption == Points \subseteq [x : Int, y : Int]
ASSUME FormAssumption == New \notin Zones /\ Closed \notin Zones /\ New # Closed
ASSUME BoundsAssumption == MaxSteps \in Nat /\ MaxWrites \in Nat

VARIABLES
    zones,     \* the zone rows of the camera
    list,      \* the page's copy of them, None while it is loading
    editing,   \* Closed, New, or the zone whose form is open
    form,      \* what the form shows
    drag,      \* LineEditor: None, "p1" or "p2"
    error,     \* whether the page shows an error
    jobs,      \* the handlers under way
    steps, writes,  \* what the operator and other clients did so far
    seen,      \* history: the copy of the row the form was filled from
    wish       \* history: what the zone is to be, in the operator's eyes

editor == <<editing, form, drag, error>>
history == <<seen, wish>>
vars == <<zones, list, editor, jobs, steps, writes, history>>

Exists(z) == zones[z] \notin {Unborn, Deleted}
Stored == [z \in {y \in Zones : Exists(y)} |-> zones[z]]

\* What a worker makes of a row.
Meaning(row) ==
    [severity |-> row.severity, is_active |-> row.is_active, seg |-> SegmentOf(row.shape)]

DefaultSegment == Segment(10, 60, 90, 60)
Empty == [severity |-> "danger", is_active |-> TRUE, seg |-> DefaultSegment]

\* Mutant: a row without its own segment is shown as the default one.
SegmentShownDefault(shape) ==
    IF DOMAIN shape.ends = Corners THEN shape.ends ELSE DefaultSegment

\* segmentOf: the endpoints if all are set, or a full-width line.
SegmentShown(shape) ==
    IF DOMAIN shape.ends = Corners THEN shape.ends
    ELSE Segment(0, shape.line_y, 100, shape.line_y)

\* Mutant: only the right and lower edges hold.
ClampAbove(n) == IF n > 100 THEN 100 ELSE n

\* clamp01.
Clamp(n) == IF n < 0 THEN 0 ELSE IF n > 100 THEN 100 ELSE n
PointToNorm(point) == [x |-> Clamp(point.x), y |-> Clamp(point.y)]

\* The columns that submit sends.
Body(f) ==
    [severity |-> f.severity, is_active |-> f.is_active,
     shape |-> [ends |-> f.seg, line_y |-> (f.seg.y1 + f.seg.y2) \div 2]]

Init ==
    /\ zones \in [Zones -> Row \cup {Unborn}]
    /\ list = Stored
    /\ editing = Closed
    /\ form = Empty
    /\ drag = None
    /\ error = FALSE
    /\ jobs = {}
    /\ steps = 0
    /\ writes = 0
    /\ seen = None
    /\ wish = Empty

-----------------------------------------------------------------------------
(* The form                                                                  *)

\* The table and its buttons are there, and no form is over them.
AtList == list # None /\ editing = Closed
FormOpen == editing # Closed

\* The ends of the line that LineEditor lets one drag.
Handles == {"p1", "p2"}

Step == steps < MaxSteps /\ steps' = steps + 1

OpenCreate ==
    /\ AtList
    /\ Step
    /\ editing' = New
    /\ form' = Empty
    /\ error' = FALSE
    /\ seen' = None
    /\ wish' = Empty
    /\ UNCHANGED <<zones, list, drag, jobs, writes>>

\* Mutant: the severity of the form before stays.
FilledKeepingSeverity(row) ==
    [severity |-> form.severity, is_active |-> row.is_active, seg |-> SegmentShown(row.shape)]

Filled(row) ==
    [severity |-> row.severity, is_active |-> row.is_active, seg |-> SegmentShown(row.shape)]

OpenEdit(z) ==
    /\ AtList
    /\ z \in DOMAIN list
    /\ Step
    /\ editing' = z
    /\ form' = Filled(list[z])
    /\ error' = FALSE
    /\ seen' = list[z]
    /\ wish' = Meaning(list[z])
    /\ UNCHANGED <<zones, list, drag, jobs, writes>>

Cancel ==
    /\ FormOpen
    /\ Step
    /\ editing' = Closed
    /\ drag' = None
    /\ UNCHANGED <<zones, list, form, error, jobs, writes, history>>

\* The inputs of the form, and "Reset to horizontal".
ChangeForm ==
    /\ FormOpen
    /\ Step
    /\ \/ \E s \in DOMAIN SeverityToLine :
             form' = [form EXCEPT !.severity = s] /\ wish' = [wish EXCEPT !.severity = s]
       \/ \E a \in BOOLEAN :
             form' = [form EXCEPT !.is_active = a] /\ wish' = [wish EXCEPT !.is_active = a]
       \/ /\ form' = [form EXCEPT !.seg = DefaultSegment]
          /\ wish' = [wish EXCEPT !.seg = DefaultSegment]
    /\ UNCHANGED <<zones, list, editing, drag, error, jobs, writes, seen>>

StartDrag(end) ==
    /\ FormOpen
    /\ Step
    /\ drag' = end
    /\ UNCHANGED <<zones, list, editing, form, error, jobs, writes, history>>

Dragged(seg, point) ==
    IF drag = "p1" THEN [seg EXCEPT !.x1 = point.x, !.y1 = point.y]
    ELSE [seg EXCEPT !.x2 = point.x, !.y2 = point.y]

\* onMove, also with the pointer outside of the box: it is captured.
Move(point) ==
    /\ drag # None
    /\ Step
    /\ form' = [form EXCEPT !.seg = Dragged(@, PointToNorm(point))]
    /\ wish' = [wish EXCEPT !.seg = Dragged(@, [x |-> Clamp(point.x), y |-> Clamp(point.y)])]
    /\ UNCHANGED <<zones, list, editing, drag, error, jobs, writes, seen>>

EndDrag ==
    /\ drag # None
    /\ drag' = None
    /\ UNCHANGED <<zones, list, editing, form, error, jobs, steps, writes, history>>

-----------------------------------------------------------------------------
(* The handlers                                                              *)

Job(kind, z, body) ==
    [kind |-> kind, zone |-> z, body |-> body, seen |-> seen, wish |-> wish,
     listing |-> kind = "mount", answer |-> None, mounted |-> TRUE]

Submit ==
    /\ FormOpen
    /\ Step
    /\ jobs' = jobs \cup {Job(IF editing = New THEN "create" ELSE "update", editing, Body(form))}
    /\ error' = FALSE
    /\ UNCHANGED <<zones, list, editing, form, drag, writes, history>>

Remove(z) ==
    /\ AtList
    /\ z \in DOMAIN list
    /\ Step
    /\ jobs' = jobs \cup {Job("remove", z, None)}
    /\ UNCHANGED <<zones, list, editor, writes, history>>

\* The page is left and entered again; what it began runs on.
Leave ==
    /\ Step
    /\ list' = None
    /\ editing' = Closed
    /\ form' = Empty
    /\ drag' = None
    /\ error' = FALSE
    /\ jobs' = {[j EXCEPT !.mounted = FALSE] : j \in {i \in jobs : ~i.listing}}
                  \cup {Job("mount", None, None)}
    /\ UNCHANGED <<zones, writes, history>>

\* The answer to a handler's first call: a save closes the form that is open
\* then, and the zones are loaded again.
Answered(job) ==
    /\ jobs' = (jobs \ {job}) \cup (IF job.mounted THEN {[job EXCEPT !.listing = TRUE]} ELSE {})
    /\ IF job.mounted /\ job.kind # "remove"
       THEN editing' = Closed /\ drag' = None ELSE UNCHANGED <<editing, drag>>
    /\ UNCHANGED <<list, form, error, steps, writes, history>>

\* create_zone, update_zone with the columns sent, or delete_zone.
Stores(job, z) ==
    \/ /\ \/ job.kind = "create" /\ zones[z] = Unborn
          \/ job.kind = "update" /\ z = job.zone /\ Exists(z)
       /\ InRange(job.body.shape)
       /\ zones' = [zones EXCEPT ![z] = job.body]
    \/ /\ job.kind = "remove" /\ z = job.zone /\ Exists(z)
       /\ zones' = [zones EXCEPT ![z] = Deleted]

Succeeds(job, z) == ~job.listing /\ Stores(job, z) /\ Answered(job)

\* 403, 404, 422, or the network; the answer may be all that is lost.  remove
\* has no catch, nor has the first load.
Fails(job) ==
    /\ job.answer = None
    /\ \/ UNCHANGED zones
       \/ ~job.listing /\ \E z \in Zones : Stores(job, z)
    /\ jobs' = jobs \ {job}
    /\ error' = (error \/ (job.mounted /\ job.kind \in {"create", "update"}))
    /\ UNCHANGED <<list, editing, form, drag, steps, writes, history>>

ListAnswered(job) ==
    /\ job.listing /\ job.answer = None
    /\ jobs' = (jobs \ {job}) \cup {[job EXCEPT !.answer = Stored]}
    /\ UNCHANGED <<zones, list, editor, steps, writes, history>>

ListArrives(job) ==
    /\ job.answer # None
    /\ jobs' = jobs \ {job}
    /\ list' = job.answer
    /\ UNCHANGED <<zones, editor, steps, writes, history>>

\* Another tab or client: any columns, or none of them.
OtherClient(z) ==
    /\ writes < MaxWrites
    /\ writes' = writes + 1
    /\ \/ zones[z] # Deleted /\ \E row \in Row : zones' = [zones EXCEPT ![z] = row]
       \/ Exists(z) /\ zones' = [zones EXCEPT ![z] = Deleted]
    /\ UNCHANGED <<list, editor, jobs, steps, history>>

Next ==
    \/ OpenCreate \/ Cancel \/ ChangeForm \/ EndDrag \/ Submit \/ Leave
    \/ \E end \in Handles : StartDrag(end)
    \/ \E point \in Points : Move(point)
    \/ \E z \in Zones : OpenEdit(z) \/ Remove(z) \/ OtherClient(z)
    \/ \E job \in jobs, z \in Zones : Succeeds(job, z)
    \/ \E job \in jobs : Fails(job)
    \/ \E job \in jobs : ListAnswered(job)
    \/ \E job \in jobs : ListArrives(job)

Spec == Init /\ [][Next]_vars

-----------------------------------------------------------------------------
(* Properties                                                                *)

AnySegment == [x1 : 0..100, y1 : 0..100, x2 : 0..100, y2 : 0..100]
Form == [severity : DOMAIN SeverityToLine, is_active : BOOLEAN, seg : AnySegment]

IsTable(table) == DOMAIN table \subseteq Zones /\ \A z \in DOMAIN table : IsRow(table[z])

\* Every variable holds a value of its kind: the rows and the form stay inside
\* the frame, and a handle is held only while a form is open.
TypeOK ==
    /\ DOMAIN zones = Zones /\ \A z \in Zones : Exists(z) => IsRow(zones[z])
    /\ list # None => IsTable(list)
    /\ editing \in Zones \cup {Closed, New}
    /\ form \in Form /\ wish \in Form
    /\ drag \in Handles \cup {None} /\ (drag # None => FormOpen)
    /\ error \in BOOLEAN
    /\ \A job \in jobs :
          /\ job.kind \in {"mount", "create", "update", "remove"}
          /\ job.kind \in {"create", "update"} => IsRow(job.body)
          /\ job.answer # None => IsTable(job.answer)
    /\ steps \in 0..MaxSteps /\ writes \in 0..MaxWrites

\* The editor draws a line that only some endpoint columns describe as a full-width
\* one, and a worker does not.
HalfDrawn(row) == Cardinality(DOMAIN row.shape.ends) \in 1..3

\* A zone saved from a copy that is still the row (or created) becomes for the
\* worker what the operator saw, with the changes the operator made to it and
\* no others: whatever was opened, dragged, cancelled or saved before, and
\* however late the save is answered (openEdit, submit, and the row's way
\* through segmentOf and _build_worker_config).
SaveKeepsRest ==
    [][\A job \in jobs, z \in Zones :
          /\ Succeeds(job, z) /\ job.kind # "remove"
          /\ job.kind = "update" => zones[z] = job.seen /\ ~HalfDrawn(job.seen)
          => Meaning(zones'[z]) = job.wish]_vars
================================================================================
