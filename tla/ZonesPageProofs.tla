---------------------------- MODULE ZonesPageProofs ----------------------------
(* Theorems about the Zones page, for every set of zones, every rows other     *)
(* clients may write, every movement of the pointer, and every bound.          *)
EXTENDS ZonesPage, FiniteSetTheorems, TLAPS

-----------------------------------------------------------------------------
(* Segments.                                                                 *)

\* A form that is filled in becomes a row.
LEMMA BodyType ==
    ASSUME NEW f \in Form
    PROVE  IsRow(Body(f)) /\ Meaning(Body(f)) = f
<1> DEFINE line_y == (f.seg.y1 + f.seg.y2) \div 2
<1>1. /\ f.seg \in AnySegment /\ f.severity \in DOMAIN SeverityToLine /\ f.is_active \in BOOLEAN
      /\ f = [severity |-> f.severity, is_active |-> f.is_active, seg |-> f.seg]
    BY DEF Form
<1>2. /\ f.seg.x1 \in 0..100 /\ f.seg.x2 \in 0..100 /\ f.seg.y1 \in 0..100 /\ f.seg.y2 \in 0..100
      /\ DOMAIN f.seg = Corners
      /\ f.seg = [x1 |-> f.seg.x1, y1 |-> f.seg.y1, x2 |-> f.seg.x2, y2 |-> f.seg.y2]
    BY <1>1 DEF AnySegment, Corners
<1>3. line_y \in 0..100
    BY <1>2
<1> HIDE DEF line_y
<1>4. Body(f) = [severity |-> f.severity, is_active |-> f.is_active,
                 shape |-> [ends |-> f.seg, line_y |-> line_y]]
    BY DEF Body, line_y
<1>5. IsRow(Body(f))
    <2>1. f.seg \in [Corners -> 0..100]
        BY <1>2 DEF Corners
    <2>2. InRange(Body(f).shape)
        BY <1>2, <1>4, <2>1 DEF InRange
    <2> QED
        BY <1>1, <1>2, <1>3, <1>4, <2>2 DEF IsRow
<1>6. SegmentOf(Body(f).shape) = f.seg
    BY <1>2, <1>4 DEF SegmentOf, Segment, Corners
<1> QED
    BY <1>1, <1>4, <1>5, <1>6 DEF Meaning

\* What the page shows and what a worker makes of a row is a form.
LEMMA RowType ==
    ASSUME NEW row, IsRow(row)
    PROVE  Filled(row) \in Form /\ Meaning(row) \in Form
<1>1. row.shape.line_y \in 0..100 /\ 0 \in 0..100 /\ 100 \in 0..100
    BY DEF IsRow
<1>2. \A key \in DOMAIN row.shape.ends : row.shape.ends[key] \in 0..100
    BY DEF IsRow, InRange
<1>3. SegmentOf(row.shape) \in AnySegment
    BY <1>1, <1>2 DEF SegmentOf, Segment, AnySegment
<1>4. SegmentShown(row.shape) \in AnySegment
    <2>1. CASE DOMAIN row.shape.ends = Corners
        <3> DEFINE e == row.shape.ends
        <3>1. e \in [Corners -> 0..100]
            BY <2>1 DEF IsRow, InRange
        <3> HIDE DEF e
        <3>2. e \in AnySegment
            BY <3>1 DEF Corners, AnySegment
        <3> QED
            BY <2>1, <3>2 DEF SegmentShown, e
    <2>2. CASE DOMAIN row.shape.ends # Corners
        BY <1>1, <2>2 DEF SegmentShown, Segment, AnySegment
    <2> QED
        BY <2>1, <2>2
<1> QED
    BY <1>3, <1>4 DEF Filled, Meaning, Form, IsRow

\* segmentOf and _build_worker_config agree on rows with all end points or none.
LEMMA FilledIsMeaning ==
    ASSUME NEW row, IsRow(row), ~HalfDrawn(row)
    PROVE  Filled(row) = Meaning(row)
<1> DEFINE e == row.shape.ends
           line_y == row.shape.line_y
<1>1. e \in [DOMAIN e -> 0..100] /\ DOMAIN e \subseteq Corners
    BY DEF IsRow, InRange
<1>2. IsFiniteSet(Corners) /\ Cardinality(Corners) = 4
    <2>1. IsFiniteSet({}) /\ Cardinality({}) = 0
        BY FS_EmptySet
    <2>2. IsFiniteSet({"x1"}) /\ Cardinality({"x1"}) = 1
        BY FS_Singleton
    <2>3. IsFiniteSet({"x1", "y1"}) /\ Cardinality({"x1", "y1"}) = 2
        <3>1. {"x1", "y1"} = {"x1"} \cup {"y1"} /\ "y1" \notin {"x1"}
            OBVIOUS
        <3> QED
            BY <2>2, <3>1, FS_AddElement
    <2>4. IsFiniteSet({"x1", "y1", "x2"}) /\ Cardinality({"x1", "y1", "x2"}) = 3
        <3>1. {"x1", "y1", "x2"} = {"x1", "y1"} \cup {"x2"} /\ "x2" \notin {"x1", "y1"}
            OBVIOUS
        <3> QED
            BY <2>3, <3>1, FS_AddElement
    <2> QED
        <3>1. Corners = {"x1", "y1", "x2"} \cup {"y2"} /\ "y2" \notin {"x1", "y1", "x2"}
            BY DEF Corners
        <3> QED
            BY <2>4, <3>1, FS_AddElement
<1>3. DOMAIN e = {} \/ DOMAIN e = Corners
    <2>1. DOMAIN e \in SUBSET Corners
        BY <1>1
    <2>2. IsFiniteSet(DOMAIN e) /\ Cardinality(DOMAIN e) \in Nat
        BY <1>2, <2>1, FS_Subset, FS_CardinalityType
    <2>3. Cardinality(DOMAIN e) <= 4 /\ Cardinality(DOMAIN e) \notin 1..3
        BY <1>2, <2>1, FS_Subset DEF HalfDrawn
    <2>4. Cardinality(DOMAIN e) = 0 \/ Cardinality(DOMAIN e) = 4
        BY <2>2, <2>3
    <2>5. Cardinality(DOMAIN e) = 0 => DOMAIN e = {}
        BY <2>2, FS_EmptySet
    <2>6. Cardinality(DOMAIN e) = 4 => DOMAIN e = Corners
        BY <1>2, <2>1, FS_Subset
    <2> QED
        BY <2>4, <2>5, <2>6
<1>4. SegmentShown(row.shape) = SegmentOf(row.shape)
    <2>1. CASE DOMAIN e = {}
        BY <2>1 DEF SegmentShown, SegmentOf, Corners
    <2>2. CASE DOMAIN e = Corners
        <3> HIDE DEF e
        <3>1. e = [x1 |-> e.x1, y1 |-> e.y1, x2 |-> e.x2, y2 |-> e.y2]
            BY <1>1, <2>2 DEF Corners
        <3> QED
            BY <2>2, <3>1 DEF SegmentShown, SegmentOf, Segment, Corners, e
    <2> QED
        BY <1>3, <2>1, <2>2
<1> QED
    BY <1>4 DEF Filled, Meaning

-----------------------------------------------------------------------------
(* The invariant.                                                            *)

IsJob(job) ==
    DOMAIN job = {"kind", "zone", "body", "seen", "wish", "listing", "answer", "mounted"}

\* What the form shows is what the operator wants, unless it was filled from a
\* row that the page and the worker read differently.
FormTellsWish ==
    FormOpen /\ (editing = New \/ ~HalfDrawn(seen)) => form = wish

\* So does what a save under way sends.
JobTellsWish ==
    \A job \in jobs :
        job.kind = "create" \/ (job.kind = "update" /\ ~HalfDrawn(job.seen)) =>
            Meaning(job.body) = job.wish

IInv == TypeOK /\ (\A job \in jobs : IsJob(job)) /\ FormTellsWish /\ JobTellsWish

\* The form before anything is changed in it is one.
LEMMA EmptyType == Empty \in Form
<1>1. DefaultSegment \in AnySegment
    BY DEF DefaultSegment, Segment, AnySegment
<1> QED
    BY <1>1 DEF Empty, Form, SeverityToLine

\* What the server answers to a list is a table of rows.
LEMMA StoredType == TypeOK => IsTable(Stored)
BY DEF TypeOK, IsTable, Stored

\* A new handler is a handler, and tells what the form told.
LEMMA JobType ==
    ASSUME NEW kind, NEW z, NEW body
    PROVE  /\ IsJob(Job(kind, z, body))
           /\ Job(kind, z, body).kind = kind /\ Job(kind, z, body).body = body
           /\ Job(kind, z, body).seen = seen /\ Job(kind, z, body).wish = wish
           /\ Job(kind, z, body).answer = None
BY DEF Job, IsJob

\* All that the invariant says of one handler.
IsGoodJob(job) ==
    /\ IsJob(job)
    /\ job.kind \in {"mount", "create", "update", "remove"}
    /\ job.kind \in {"create", "update"} => IsRow(job.body)
    /\ job.answer # None => IsTable(job.answer)
    /\ job.kind = "create" \/ (job.kind = "update" /\ ~HalfDrawn(job.seen)) =>
          Meaning(job.body) = job.wish

LEMMA GoodJobs == IInv => \A job \in jobs : IsGoodJob(job)
BY DEF IInv, TypeOK, JobTellsWish, IsGoodJob

\* Its progress changes nothing that it sends.
LEMMA JobMoves ==
    ASSUME NEW job, IsGoodJob(job), NEW v,
           NEW next \in {[job EXCEPT !.listing = v], [job EXCEPT !.mounted = v]}
    PROVE  IsGoodJob(next)
<1>1. /\ IsJob(next)
      /\ next.kind = job.kind /\ next.body = job.body
      /\ next.seen = job.seen /\ next.wish = job.wish
      /\ next.answer = job.answer
    BY DEF IsGoodJob, IsJob
<1> QED
    BY <1>1 DEF IsGoodJob

LEMMA JobIsAnswered ==
    ASSUME NEW job, IsGoodJob(job), NEW table, IsTable(table)
    PROVE  IsGoodJob([job EXCEPT !.answer = table])
<1> DEFINE next == [job EXCEPT !.answer = table]
<1>1. /\ IsJob(next)
      /\ next.kind = job.kind /\ next.body = job.body
      /\ next.seen = job.seen /\ next.wish = job.wish
      /\ next.answer = table
    BY DEF IsGoodJob, IsJob
<1> HIDE DEF next
<1>2. IsGoodJob(next)
    BY <1>1 DEF IsGoodJob
<1> QED
    BY <1>2 DEF next

LEMMA InitInv == Init => IInv
<1> SUFFICES ASSUME Init PROVE IInv
    OBVIOUS
<1>1. DOMAIN zones = Zones /\ \A z \in Zones : Exists(z) => IsRow(zones[z])
    BY RowAssumption DEF Init, Exists
<1>2. IsTable(list)
    BY <1>1 DEF Init, Stored, IsTable
<1>3. form \in Form /\ wish \in Form
    BY EmptyType DEF Init
<1>4. steps \in 0..MaxSteps /\ writes \in 0..MaxWrites
    BY BoundsAssumption DEF Init
<1>5. TypeOK
    BY <1>1, <1>2, <1>3, <1>4 DEF Init, TypeOK
<1> QED
    BY <1>5 DEF Init, IInv, FormTellsWish, FormOpen, JobTellsWish

-----------------------------------------------------------------------------
(* The form.                                                                 *)

\* Handlers that go on as they are go on telling the same.
LEMMA JobsUnchanged ==
    ASSUME IInv, UNCHANGED jobs
    PROVE  (\A job \in jobs' : IsJob(job)) /\ JobTellsWish'
BY DEF IInv, JobTellsWish

LEMMA OpenCreateInv == IInv /\ OpenCreate => IInv'
<1> SUFFICES ASSUME IInv, OpenCreate PROVE IInv'
    OBVIOUS
<1>1. TypeOK'
    <2>1. form' \in Form /\ wish' \in Form
        BY EmptyType DEF OpenCreate
    <2>2. steps' \in 0..MaxSteps
        BY BoundsAssumption DEF IInv, TypeOK, OpenCreate, Step
    <2>3. drag = None
        BY DEF IInv, TypeOK, OpenCreate, AtList, FormOpen
    <2> QED
        BY <2>1, <2>2, <2>3 DEF IInv, TypeOK, OpenCreate, Exists
<1>2. FormTellsWish'
    BY DEF OpenCreate, FormTellsWish
<1> QED
    BY <1>1, <1>2, JobsUnchanged DEF OpenCreate, IInv

LEMMA OpenEditInv == ASSUME IInv, NEW z \in Zones, OpenEdit(z) PROVE IInv'
<1>1. IsRow(list[z])
    BY DEF IInv, TypeOK, OpenEdit, AtList, IsTable
<1>2. TypeOK'
    <2>1. form' \in Form /\ wish' \in Form
        BY <1>1, RowType DEF OpenEdit
    <2>2. steps' \in 0..MaxSteps
        BY BoundsAssumption DEF IInv, TypeOK, OpenEdit, Step
    <2>3. drag = None
        BY DEF IInv, TypeOK, OpenEdit, AtList, FormOpen
    <2> QED
        BY <2>1, <2>2, <2>3 DEF IInv, TypeOK, OpenEdit, Exists
<1>3. FormTellsWish'
    BY <1>1, FilledIsMeaning, FormAssumption DEF OpenEdit, FormTellsWish
<1> QED
    BY <1>2, <1>3, JobsUnchanged DEF OpenEdit, IInv

LEMMA CancelInv == IInv /\ Cancel => IInv'
<1> SUFFICES ASSUME IInv, Cancel PROVE IInv'
    OBVIOUS
<1>1. TypeOK'
    BY BoundsAssumption DEF IInv, TypeOK, Cancel, Step, FormOpen, Exists, history
<1>2. FormTellsWish'
    BY DEF Cancel, FormTellsWish, FormOpen
<1> QED
    BY <1>1, <1>2, JobsUnchanged DEF Cancel, IInv

\* A change of the form and of the wish in one field.
LEMMA SetSeverity ==
    ASSUME NEW f \in Form, NEW s \in DOMAIN SeverityToLine PROVE [f EXCEPT !.severity = s] \in Form
BY DEF Form
LEMMA SetActive ==
    ASSUME NEW f \in Form, NEW a \in BOOLEAN PROVE [f EXCEPT !.is_active = a] \in Form
BY DEF Form
LEMMA SetSegment ==
    ASSUME NEW f \in Form, NEW seg \in AnySegment PROVE [f EXCEPT !.seg = seg] \in Form
BY DEF Form

LEMMA ChangeFormInv == IInv /\ ChangeForm => IInv'
<1> SUFFICES ASSUME IInv, ChangeForm PROVE IInv'
    OBVIOUS
<1>1. form \in Form /\ wish \in Form
    BY DEF IInv, TypeOK
<1>2. form' \in Form /\ wish' \in Form
    <2>1. CASE \E s \in DOMAIN SeverityToLine :
                  form' = [form EXCEPT !.severity = s] /\ wish' = [wish EXCEPT !.severity = s]
        BY <2>1, <1>1, SetSeverity
    <2>2. CASE \E a \in BOOLEAN :
                  form' = [form EXCEPT !.is_active = a] /\ wish' = [wish EXCEPT !.is_active = a]
        BY <2>2, <1>1, SetActive
    <2>3. CASE /\ form' = [form EXCEPT !.seg = DefaultSegment]
               /\ wish' = [wish EXCEPT !.seg = DefaultSegment]
        <3>1. DefaultSegment \in AnySegment
            BY DEF DefaultSegment, Segment, AnySegment
        <3> QED
            BY <2>3, <3>1, <1>1, SetSegment
    <2> QED
        BY <2>1, <2>2, <2>3 DEF ChangeForm
<1>3. TypeOK'
    BY <1>2, BoundsAssumption DEF IInv, TypeOK, ChangeForm, Step, FormOpen, Exists
<1>4. FormTellsWish'
    BY DEF IInv, ChangeForm, FormTellsWish, FormOpen
<1> QED
    BY <1>3, <1>4, JobsUnchanged DEF ChangeForm, IInv

LEMMA StartDragInv == ASSUME IInv, NEW end \in Handles, StartDrag(end) PROVE IInv'
<1>1. TypeOK'
    BY BoundsAssumption DEF IInv, TypeOK, StartDrag, Step, FormOpen, Exists, history
<1>2. FormTellsWish'
    BY DEF IInv, StartDrag, FormTellsWish, FormOpen, history
<1> QED
    BY <1>1, <1>2, JobsUnchanged DEF StartDrag, IInv

\* Wherever the pointer is, the end stays in the frame.
LEMMA DraggedType ==
    ASSUME NEW seg \in AnySegment, NEW point \in Points
    PROVE  Dragged(seg, PointToNorm(point)) \in AnySegment
<1>1. point.x \in Int /\ point.y \in Int
    BY PointsAssumption
<1>2. PointToNorm(point) \in [x : 0..100, y : 0..100]
    BY <1>1 DEF PointToNorm, Clamp
<1> QED
    BY <1>2 DEF Dragged, AnySegment

LEMMA MoveInv == ASSUME IInv, NEW point \in Points, Move(point) PROVE IInv'
<1>1. form \in Form /\ wish \in Form /\ form.seg \in AnySegment /\ wish.seg \in AnySegment
    BY DEF IInv, TypeOK, Form
<1>2. /\ form' = [form EXCEPT !.seg = Dragged(form.seg, PointToNorm(point))]
      /\ wish' = [wish EXCEPT !.seg = Dragged(wish.seg, PointToNorm(point))]
    BY <1>1 DEF Move, PointToNorm
<1>3. form' \in Form /\ wish' \in Form
    BY <1>1, <1>2, DraggedType, SetSegment
<1>4. TypeOK'
    BY <1>3, BoundsAssumption DEF IInv, TypeOK, Move, Step, FormOpen, Exists
<1>5. FormTellsWish'
    BY <1>2 DEF IInv, Move, FormTellsWish, FormOpen
<1> QED
    BY <1>4, <1>5, JobsUnchanged DEF Move, IInv

LEMMA EndDragInv == IInv /\ EndDrag => IInv'
<1> SUFFICES ASSUME IInv, EndDrag PROVE IInv'
    OBVIOUS
<1>1. TypeOK'
    BY DEF IInv, TypeOK, EndDrag, FormOpen, Exists, history
<1>2. FormTellsWish'
    BY DEF IInv, EndDrag, FormTellsWish, FormOpen, history
<1> QED
    BY <1>1, <1>2, JobsUnchanged DEF EndDrag, IInv

-----------------------------------------------------------------------------
(* The handlers.                                                             *)

\* The invariant again, from what a step of a handler may change.
LEMMA HandlerStep ==
    ASSUME IInv, \A job \in jobs' : IsGoodJob(job),
           DOMAIN zones' = Zones, \A z \in Zones : Exists(z)' => IsRow(zones'[z]),
           list' # None => IsTable(list'),
           \/ UNCHANGED <<editing, drag, form>>
           \/ editing' = Closed /\ drag' = None /\ form' \in {form, Empty},
           UNCHANGED <<seen, wish>>,
           error' \in BOOLEAN, steps' \in 0..MaxSteps, writes' \in 0..MaxWrites
    PROVE  IInv'
<1>1. form' \in Form /\ wish' \in Form
    BY EmptyType DEF IInv, TypeOK
<1>2. /\ editing' \in Zones \cup {Closed, New}
      /\ drag' \in Handles \cup {None} /\ (drag' # None => FormOpen')
    BY DEF IInv, TypeOK, FormOpen
<1>3. \A job \in jobs' :
          /\ job.kind \in {"mount", "create", "update", "remove"}
          /\ job.kind \in {"create", "update"} => IsRow(job.body)
          /\ job.answer # None => IsTable(job.answer)
    BY DEF IsGoodJob
<1>4. TypeOK'
    BY <1>1, <1>2, <1>3 DEF TypeOK
<1>5. FormTellsWish'
    BY DEF IInv, FormTellsWish, FormOpen
<1> QED
    BY <1>4, <1>5 DEF IInv, IsGoodJob, JobTellsWish

\* What is sent is what the form shows, so it tells what the form tells.
LEMMA SubmitInv == IInv /\ Submit => IInv'
<1> SUFFICES ASSUME IInv, Submit PROVE IInv'
    OBVIOUS
<1> DEFINE kind == IF editing = New THEN "create" ELSE "update"
           job == Job(kind, editing, Body(form))
<1>1. form \in Form
    BY DEF IInv, TypeOK
<1>2. /\ job.kind = kind /\ job.body = Body(form) /\ job.seen = seen /\ job.wish = wish
      /\ job.answer = None /\ IsJob(job)
    BY JobType
<1>3. IsRow(Body(form)) /\ Meaning(Body(form)) = form
    BY <1>1, BodyType
<1>4. FormOpen /\ (editing = New \/ ~HalfDrawn(seen)) => form = wish
    BY DEF IInv, FormTellsWish
<1>5. kind = "create" \/ (kind = "update" /\ ~HalfDrawn(seen)) => form = wish
    BY <1>4 DEF Submit
<1>6. kind \in {"create", "update"}
    OBVIOUS
<1>7. jobs' = jobs \cup {job}
    BY DEF Submit
<1> HIDE DEF kind, job
<1>8. IsGoodJob(job)
    BY <1>2, <1>3, <1>5, <1>6 DEF IsGoodJob
<1>9. \A j \in jobs' : IsGoodJob(j)
    BY <1>7, <1>8, GoodJobs
<1>10. steps' \in 0..MaxSteps
    BY BoundsAssumption DEF IInv, TypeOK, Submit, Step
<1> QED
    BY <1>9, <1>10, HandlerStep DEF IInv, TypeOK, Submit, Exists, history

LEMMA RemoveInv == ASSUME IInv, NEW z \in Zones, Remove(z) PROVE IInv'
<1> DEFINE job == Job("remove", z, None)
<1>1. job.kind = "remove" /\ job.answer = None /\ IsJob(job)
    BY JobType
<1>2. jobs' = jobs \cup {job}
    BY DEF Remove
<1> HIDE DEF job
<1>3. IsGoodJob(job)
    BY <1>1 DEF IsGoodJob
<1>4. \A j \in jobs' : IsGoodJob(j)
    BY <1>2, <1>3, GoodJobs
<1>5. steps' \in 0..MaxSteps
    BY BoundsAssumption DEF IInv, TypeOK, Remove, Step
<1> QED
    BY <1>4, <1>5, HandlerStep DEF IInv, TypeOK, Remove, Exists, editor, history

LEMMA LeaveInv == IInv /\ Leave => IInv'
<1> SUFFICES ASSUME IInv, Leave PROVE IInv'
    OBVIOUS
<1> DEFINE mount == Job("mount", None, None)
<1>1. mount.kind = "mount" /\ mount.answer = None /\ IsJob(mount)
    BY JobType
<1>2. jobs' = {[j EXCEPT !.mounted = FALSE] : j \in {i \in jobs : ~i.listing}} \cup {mount}
    BY DEF Leave
<1> HIDE DEF mount
<1>3. IsGoodJob(mount)
    BY <1>1 DEF IsGoodJob
<1>4. \A j \in jobs : IsGoodJob([j EXCEPT !.mounted = FALSE])
    BY GoodJobs, JobMoves
<1>5. \A j \in jobs' : IsGoodJob(j)
    BY <1>2, <1>3, <1>4
<1>6. steps' \in 0..MaxSteps
    BY BoundsAssumption DEF IInv, TypeOK, Leave, Step
<1> QED
    BY <1>5, <1>6, HandlerStep DEF IInv, TypeOK, Leave, Exists, history

\* The rows stay rows when a handler's call is carried out.
LEMMA StoresType ==
    ASSUME IInv, NEW job \in jobs, NEW z \in Zones, Stores(job, z)
    PROVE  /\ DOMAIN zones' = Zones
           /\ \A y \in Zones : Exists(y)' => IsRow(zones'[y])
<1>1. DOMAIN zones = Zones /\ \A y \in Zones : Exists(y) => IsRow(zones[y])
    BY DEF IInv, TypeOK
<1>2. IsGoodJob(job)
    BY GoodJobs
<1>3. CASE job.kind \in {"create", "update"} /\ zones' = [zones EXCEPT ![z] = job.body]
    BY <1>1, <1>2, <1>3 DEF Exists, IsGoodJob
<1>4. CASE zones' = [zones EXCEPT ![z] = Deleted]
    BY <1>1, <1>4 DEF Exists
<1> QED
    BY <1>3, <1>4 DEF Stores

LEMMA SucceedsInv ==
    ASSUME IInv, NEW job \in jobs, NEW z \in Zones, Succeeds(job, z) PROVE IInv'
<1>1. IsGoodJob([job EXCEPT !.listing = TRUE])
    BY GoodJobs, JobMoves
<1>2. \A j \in jobs' : IsGoodJob(j)
    BY <1>1, GoodJobs DEF Succeeds, Answered
<1>3. DOMAIN zones' = Zones /\ \A y \in Zones : Exists(y)' => IsRow(zones'[y])
    BY StoresType DEF Succeeds
<1>4. /\ UNCHANGED <<list, form, error, steps, writes, seen, wish>>
      /\ UNCHANGED <<editing, drag>> \/ (editing' = Closed /\ drag' = None)
    BY DEF Succeeds, Answered, history
<1> QED
    BY <1>2, <1>3, <1>4, HandlerStep DEF IInv, TypeOK

LEMMA FailsInv == ASSUME IInv, NEW job \in jobs, Fails(job) PROVE IInv'
<1>1. \A j \in jobs' : IsGoodJob(j)
    BY GoodJobs DEF Fails
<1>2. DOMAIN zones' = Zones /\ \A y \in Zones : Exists(y)' => IsRow(zones'[y])
    <2>1. CASE UNCHANGED zones
        BY <2>1 DEF IInv, TypeOK, Exists
    <2>2. CASE \E z \in Zones : Stores(job, z)
        BY <2>2, StoresType
    <2> QED
        BY <2>1, <2>2 DEF Fails
<1>3. error' \in BOOLEAN
    BY DEF IInv, TypeOK, Fails
<1>4. UNCHANGED <<list, editing, form, drag, steps, writes, seen, wish>>
    BY DEF Fails, history
<1> QED
    BY <1>1, <1>2, <1>3, <1>4, HandlerStep DEF IInv, TypeOK

LEMMA ListAnsweredInv == ASSUME IInv, NEW job \in jobs, ListAnswered(job) PROVE IInv'
<1>1. IsTable(Stored)
    BY StoredType DEF IInv
<1>2. IsGoodJob([job EXCEPT !.answer = Stored])
    BY <1>1, GoodJobs, JobIsAnswered
<1>3. \A j \in jobs' : IsGoodJob(j)
    BY <1>2, GoodJobs DEF ListAnswered
<1>4. UNCHANGED <<zones, list, editing, form, drag, error, steps, writes, seen, wish>>
    BY DEF ListAnswered, editor, history
<1> QED
    BY <1>3, <1>4, HandlerStep DEF IInv, TypeOK, Exists

LEMMA ListArrivesInv == ASSUME IInv, NEW job \in jobs, ListArrives(job) PROVE IInv'
<1>1. \A j \in jobs' : IsGoodJob(j)
    BY GoodJobs DEF ListArrives
<1>2. IsTable(list')
    BY GoodJobs DEF ListArrives, IsGoodJob
<1>3. UNCHANGED <<zones, editing, form, drag, error, steps, writes, seen, wish>>
    BY DEF ListArrives, editor, history
<1> QED
    BY <1>1, <1>2, <1>3, HandlerStep DEF IInv, TypeOK, Exists

LEMMA OtherClientInv == ASSUME IInv, NEW z \in Zones, OtherClient(z) PROVE IInv'
<1>1. DOMAIN zones' = Zones /\ \A y \in Zones : Exists(y)' => IsRow(zones'[y])
    BY RowAssumption DEF IInv, TypeOK, OtherClient, Exists
<1>2. writes' \in 0..MaxWrites
    BY BoundsAssumption DEF IInv, TypeOK, OtherClient
<1>3. UNCHANGED <<list, editing, form, drag, error, jobs, steps, seen, wish>>
    BY DEF OtherClient, editor, history
<1>4. \A j \in jobs' : IsGoodJob(j)
    BY <1>3, GoodJobs
<1> QED
    BY <1>1, <1>2, <1>3, <1>4, HandlerStep DEF IInv, TypeOK

-----------------------------------------------------------------------------
(* The theorems.                                                             *)

LEMMA NextInv == IInv /\ [Next]_vars => IInv'
<1> SUFFICES ASSUME IInv, [Next]_vars PROVE IInv'
    OBVIOUS
<1>1. CASE UNCHANGED vars
    <2>1. UNCHANGED <<zones, list, editing, form, drag, error, jobs, steps, writes, seen, wish>>
        BY <1>1 DEF vars, editor, history
    <2>2. \A j \in jobs' : IsGoodJob(j)
        BY <2>1, GoodJobs
    <2> QED
        BY <2>1, <2>2, HandlerStep DEF IInv, TypeOK, Exists
<1>2. ASSUME NEW z \in Zones, OpenEdit(z) \/ Remove(z) \/ OtherClient(z) PROVE IInv'
    BY <1>2, OpenEditInv, RemoveInv, OtherClientInv
<1>3. ASSUME NEW job \in jobs, NEW z \in Zones, Succeeds(job, z) PROVE IInv'
    BY <1>3, SucceedsInv
<1>4. ASSUME NEW job \in jobs, Fails(job) \/ ListAnswered(job) \/ ListArrives(job) PROVE IInv'
    BY <1>4, FailsInv, ListAnsweredInv, ListArrivesInv
<1> QED
    BY <1>1, <1>2, <1>3, <1>4, OpenCreateInv, CancelInv, ChangeFormInv, EndDragInv, SubmitInv,
       LeaveInv, StartDragInv, MoveInv DEF Next

LEMMA Invariance == Spec => []IInv
BY InitInv, NextInv, PTL DEF Spec

\* Every variable keeps its type: no movement of the pointer and no row of
\* another client takes a coordinate out of the frame.
THEOREM TypeCorrect == Spec => []TypeOK
<1>1. IInv => TypeOK
    BY DEF IInv
<1> QED
    BY <1>1, Invariance, PTL

\* What a step that stores a zone must do for SaveKeepsRest.
SaveStep ==
    \A job \in jobs, z \in Zones :
        /\ Succeeds(job, z) /\ job.kind # "remove"
        /\ job.kind = "update" => zones[z] = job.seen /\ ~HalfDrawn(job.seen)
        => Meaning(zones'[z]) = job.wish

LEMMA SaveStepFromInv == IInv => SaveStep
<1> SUFFICES ASSUME IInv, NEW job \in jobs, NEW z \in Zones, Succeeds(job, z),
                    job.kind # "remove",
                    job.kind = "update" => zones[z] = job.seen /\ ~HalfDrawn(job.seen)
             PROVE  Meaning(zones'[z]) = job.wish
    BY DEF SaveStep
<1>1. DOMAIN zones = Zones
    BY DEF IInv, TypeOK
<1>2. job.kind \in {"create", "update"} /\ zones' = [zones EXCEPT ![z] = job.body]
    BY DEF Succeeds, Stores
<1>3. zones'[z] = job.body
    BY <1>1, <1>2
<1>4. Meaning(job.body) = job.wish
    BY <1>2 DEF IInv, JobTellsWish
<1> QED
    BY <1>3, <1>4

\* A saved zone is for the worker what the operator saw and changed, and
\* nothing else, unless another client wrote the row meanwhile or had left it
\* half filled in: after any use of the page (openEdit, submit).
THEOREM SaveKeepsRestCorrect == Spec => SaveKeepsRest
<1>1. IInv => [SaveStep]_vars
    BY SaveStepFromInv
<1> QED
    BY <1>1, Invariance, PTL DEF SaveKeepsRest, SaveStep
================================================================================
