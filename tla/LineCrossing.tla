------------------------------ MODULE LineCrossing ------------------------------
(* One camera from its zone rows to the zone an alert names: ZoneService,    *)
(* CameraService._build_worker_config, SafetyPipeline.process_frame with     *)
(* LineCrossingDetector and HelmetAssociator, and the zone named by          *)
(* _emit_events.  Coordinates are pixels of a frame of 100 by 100.           *)
EXTENDS ZoneLines, Sequences, FiniteSets

CONSTANTS Workers,   \* track ids
          Zones,     \* zone ids
          Shapes,    \* [ends, line_y]: what the line columns of a row may hold
          Boxes,     \* where a person may stand
          Sights,    \* what the helmet model may see: [box, label, conf], the
                     \* label as the set of words of the class name
          Candidates,  \* what is at the paths for weights: sequences of
                     \* "absent", "file" and "extracted"
          MaxEdits,  \* bound on the changes of zone rows
          None

Rectangle == [x1 : Int, y1 : Int, x2 : Int, y2 : Int]

ASSUME ZonesAssumption == IsFiniteSet(Zones)
ASSUME ShapesAssumption ==
    \A p \in Shapes : p.line_y \in Int /\ \A key \in DOMAIN p.ends : p.ends[key] \in Int
ASSUME BoxesAssumption == Boxes \subseteq Rectangle
ASSUME SightsAssumption ==
    \A s \in Sights : /\ s.box \in Rectangle /\ s.box.x1 <= s.box.x2 /\ s.box.y1 <= s.box.y2
                      /\ s.conf \in 0..100
ASSUME EditsAssumption == MaxEdits \in Nat

VARIABLES
    zones,           \* the zone rows of the camera
    detection_mode,  \* of the camera's row
    worker,          \* the WorkerConfig of the running worker, if one runs
    previous_side,   \* LineCrossingDetector._previous_side
    tracked,         \* track id -> bounding box, of the last frame processed
    helmets,         \* what the helmet model saw in it
    crossed,         \* track id -> crossed_lines, of that frame
    before,          \* history: the boxes of the frame before it
    edits            \* zone changes so far

frame == <<previous_side, tracked, helmets, crossed, before>>
vars == <<zones, detection_mode, worker, frame, edits>>

Colors == {"red", "yellow", "green"}
Row == {[severity |-> s, shape |-> p, is_active |-> a] :
            s \in DOMAIN SeverityToLine, p \in Shapes, a \in BOOLEAN}
Nothing == [x \in {} |-> None]

-----------------------------------------------------------------------------
(* _build_worker_config and WorkerConfig                                     *)

ActiveZones == {z \in Zones : zones[z] # None /\ zones[z].is_active}

\* Mutant: the severity is passed on as the colour.
LineOfSeverity(z) == [color |-> zones[z].severity,
                      seg |-> SegmentOf(zones[z].shape), zone |-> z]

LineOf(z) == [color |-> SeverityToLine[zones[z].severity],
              seg |-> SegmentOf(zones[z].shape), zone |-> z]

\* camera.zones has no ORDER BY: the rows come in any order.
BuildLines ==
    LET n == Cardinality(ActiveZones)
    IN  {[i \in 1..n |-> LineOf(order[i])] :
            order \in {f \in [1..n -> ActiveZones] :
                          \A i, j \in 1..n : f[i] = f[j] => i = j}}

\* Where a list of lines has those of a colour.
LinesOf(lines, color) == {i \in 1..Len(lines) : lines[i].color = color}

\* Mutant: the colour is not compared.
ZoneOfFirstLine(lines, color) == IF lines = <<>> THEN None ELSE Head(lines).zone

\* zone_for_line: the first line of the colour.
ZoneForLine(lines, color) ==
    LET those == LinesOf(lines, color)
    IN  IF those = {} THEN None
        ELSE lines[CHOOSE i \in those : \A j \in those : i <= j].zone

\* _resolve_helmet_model_path: the first candidate there is, packaged if it is
\* an extracted directory.
ResolveHelmetModel(candidates) ==
    LET found == SelectSeq(candidates, LAMBDA c : c # "absent")
    IN  IF found = <<>> THEN None ELSE Head(found)

\* All that the worker is told, once.
WorkerConfig(lines, candidates) ==
    [lines |-> lines, mode |-> detection_mode, weights |-> ResolveHelmetModel(candidates)]

-----------------------------------------------------------------------------
(* LineCrossingDetector                                                      *)

\* (frame_width / 2, frame_height * 0.95)
CamRef == [x |-> 50, y |-> 95]

Side(s, f) == (s.x2 - s.x1) * (f.y - s.y1) - (s.y2 - s.y1) * (f.x - s.x1)

\* Mutant: the near side does not depend on where the camera is.
CameraSignFixed(s) == 1

CameraSign(s) == IF Side(s, CamRef) < 0 THEN -1 ELSE 1

\* sorted() is stable: by colour, and within a colour in the order given.
Segments(lines) ==
    SelectSeq(lines, LAMBDA l : l.color = "red")
        \o SelectSeq(lines, LAMBDA l : l.color = "yellow")
        \o SelectSeq(lines, LAMBDA l : l.color = "green")

\* by_color: the last of a colour overwrites the ones before it (and it is the
\* last one in the order given).
ByColor(lines, color) ==
    LET those == LinesOf(lines, color)
    IN  IF those = {} THEN {}
        ELSE {lines[CHOOSE i \in those : \A j \in those : j <= i].seg}

OnNearSide(lines, color, f) ==
    \E s \in ByColor(lines, color) : Side(s, f) * CameraSign(s) > 0

\* far(color) is not False: there is no such line, or f is beyond it.
NotBefore(lines, color, f) ==
    \A s \in ByColor(lines, color) : Side(s, f) * CameraSign(s) < 0

ClassifyZone(lines, f) ==
    IF OnNearSide(lines, "red", f) THEN "red"
    ELSE IF OnNearSide(lines, "yellow", f) /\ NotBefore(lines, "red", f)
         THEN "yellow" ELSE "safe"

\* _within_span, with _SPAN_MARGIN = 0.08.
WithinSpan(s, f) ==
    LET dx == s.x2 - s.x1
        dy == s.y2 - s.y1
        length_sq == dx * dx + dy * dy
        t == (f.x - s.x1) * dx + (f.y - s.y1) * dy
    IN  length_sq # 0 /\ -8 * length_sq <= 100 * t /\ 100 * t <= 108 * length_sq

Flipped(prev, side) == (prev < 0 /\ 0 <= side) \/ (prev > 0 /\ 0 >= side)

\* evaluate: the segments a worker crossed since its side was last noted.
Evaluate(segments, w, f) ==
    {i \in 1..Len(segments) :
        /\ <<w, i>> \in DOMAIN previous_side
        /\ Flipped(previous_side[<<w, i>>], Side(segments[i].seg, f))
        /\ WithinSpan(segments[i].seg, f)}

-----------------------------------------------------------------------------
(* PersonHelmetDetector and HelmetAssociator; a box is [x1, y1, x2, y2].     *)

\* _helmet_label_kind.  (Only "no helmet" is a violation, "no hardhat" is not.)
LabelKind(label) ==
    IF "person" \in label THEN "ignored"
    ELSE IF "head" \in label \/ ("helmet" \in label /\ label \cap {"no", "without"} # {})
         THEN "violation"
    ELSE IF label \cap {"helmet", "hardhat"} # {} THEN "compliant"
    ELSE "ignored"

\* detect_helmets, whatever the model sees.
DetectHelmets(weights) ==
    IF weights = None THEN {{}}
    ELSE SUBSET {[box |-> s.box, conf |-> s.conf,
                  is_compliant |-> LabelKind(s.label) = "compliant"] :
                     s \in {t \in Sights : LabelKind(t.label) # "ignored"}}

\* The persons of a frame that have a track id, each at a place of its own.
TrackedPersons == UNION {[here -> Boxes] : here \in SUBSET Workers}

Lower(a, b) == IF a < b THEN a ELSE b
Upper(a, b) == IF a > b THEN a ELSE b

\* Bottom centre of the box; the boxes here have an even sum of x1 and x2.
ComputeFoot(b) == [x |-> (b.x1 + b.x2) \div 2, y |-> b.y2]

\* HEAD_RATIO = 0.45
HeadRegion(b) == [b EXCEPT !.y2 = b.y1 + ((b.y2 - b.y1) * 45) \div 100]

Area(b) == Upper(0, b.x2 - b.x1) * Upper(0, b.y2 - b.y1)
Overlap(a, b) == [x1 |-> Upper(a.x1, b.x1), y1 |-> Upper(a.y1, b.y1),
                  x2 |-> Lower(a.x2, b.x2), y2 |-> Lower(a.y2, b.y2)]

\* _bbox_iou(a, b) >= percent / 100
IouAtLeast(a, b, percent) ==
    LET inter == Area(Overlap(a, b))
        union == Area(a) + Area(b) - inter
    IN  inter > 0 /\ union > 0 /\ 100 * inter >= percent * union

\* The centre of box h is in box b (twice the coordinates, to stay integral).
CentreIn(h, b) == /\ 2 * b.x1 <= h.x1 + h.x2 /\ h.x1 + h.x2 <= 2 * b.x2
                  /\ 2 * b.y1 <= h.y1 + h.y2 /\ h.y1 + h.y2 <= 2 * b.y2

Associated(b, h) ==
    \/ CentreIn(h.box, HeadRegion(b)) \/ CentreIn(h.box, b)
    \/ IouAtLeast(HeadRegion(b), h.box, 8) \/ IouAtLeast(b, h.box, 5)

\* The highest confidence among helmets of a kind; 0 without any.
Best(b, hs, compliant) ==
    LET confs == {0} \cup {h.conf : h \in {g \in hs : /\ Associated(b, g)
                                                      /\ g.is_compliant = compliant}}
    IN  CHOOSE c \in confs : \A d \in confs : d <= c

\* Mutant: a detected bare head does not count against a helmet.
AnyHelmet(b, hs) == Best(b, hs, TRUE) > 0

\* evaluate_helmet_status
WearsHelmet(b, hs) == Best(b, hs, TRUE) > 0 /\ Best(b, hs, TRUE) >= Best(b, hs, FALSE)

-----------------------------------------------------------------------------
(* SafetyPipeline.process_frame                                              *)

Init ==
    /\ zones = [z \in Zones |-> None]
    /\ detection_mode = "restricted_area"
    /\ worker = {}
    /\ previous_side = Nothing
    /\ tracked = Nothing
    /\ helmets = {}
    /\ crossed = Nothing
    /\ before = Nothing
    /\ edits = 0

\* Mutant: the sides of the workers out of sight are kept.
SidesKept(segments, boxes) ==
    [k \in DOMAIN previous_side \cup ((DOMAIN boxes) \X (1..Len(segments))) |->
        IF k[1] \in DOMAIN boxes THEN Side(segments[k[2]].seg, ComputeFoot(boxes[k[1]]))
        ELSE previous_side[k]]

\* evaluate notes the sides of the workers in the frame; prune forgets others.
Sides(segments, boxes) ==
    [k \in (DOMAIN boxes) \X (1..Len(segments)) |->
        Side(segments[k[2]].seg, ComputeFoot(boxes[k[1]]))]

\* In restricted_area mode no helmet is looked for, in helmet mode no line.
ProcessFrame(boxes) ==
    \E config \in worker :
        LET segments == Segments(config.lines)
        IN  /\ tracked' = boxes
            /\ before' = tracked
            /\ IF config.mode = "helmet"
               THEN /\ helmets' \in DetectHelmets(config.weights)
                    /\ crossed' = [w \in DOMAIN boxes |-> {}]
                    /\ UNCHANGED previous_side
               ELSE /\ helmets' = {}
                    /\ crossed' = [w \in DOMAIN boxes |->
                                     Evaluate(segments, w, ComputeFoot(boxes[w]))]
                    /\ previous_side' = Sides(segments, boxes)
            /\ UNCHANGED <<zones, detection_mode, worker, edits>>

\* What the frame reports of a worker; _emit_events names a zone for an alert.
ZoneColor(config, w) ==
    IF config.mode = "helmet" THEN "safe"
    ELSE ClassifyZone(config.lines, ComputeFoot(tracked[w]))

HelmetStatus(config, w) ==
    IF config.mode = "helmet" /\ ~WearsHelmet(tracked[w], helmets)
    THEN "helmet_violation" ELSE "safe"

NamedZone(config, w) == ZoneForLine(config.lines, ZoneColor(config, w))

-----------------------------------------------------------------------------
(* ZoneService, and the camera's requests as far as they matter here         *)

Edit(z, row) ==
    /\ edits < MaxEdits
    /\ zones' = [zones EXCEPT ![z] = row]
    /\ edits' = edits + 1
    /\ UNCHANGED <<detection_mode, worker, frame>>

CreateZone(z) == zones[z] = None /\ \E row \in Row : Edit(z, row)

\* update_zone sets the columns the payload names; a running worker is not told.
UpdateZone(z) ==
    /\ zones[z] # None
    /\ \E row \in Row :
          /\ Cardinality({f \in DOMAIN row : row[f] # zones[z][f]}) = 1
          /\ Edit(z, row)

DeleteZone(z) == zones[z] # None /\ Edit(z, None)

\* update_camera with a detection mode (LivePage).
SetMode ==
    /\ detection_mode' \in {"restricted_area", "helmet"} \ {detection_mode}
    /\ UNCHANGED <<zones, worker, frame, edits>>

\* A fresh process: LineConfig.from_items, SafetyPipeline(...).
Activate ==
    /\ worker = {}
    /\ \E lines \in BuildLines, candidates \in Candidates :
          worker' = {WorkerConfig(lines, candidates)}
    /\ previous_side' = Nothing
    /\ tracked' = Nothing
    /\ helmets' = {}
    /\ crossed' = Nothing
    /\ before' = Nothing
    /\ UNCHANGED <<zones, detection_mode, edits>>

Deactivate ==
    /\ worker # {}
    /\ worker' = {}
    /\ UNCHANGED <<zones, detection_mode, frame, edits>>

Next ==
    \/ \E z \in Zones : CreateZone(z) \/ UpdateZone(z) \/ DeleteZone(z)
    \/ SetMode \/ Activate \/ Deactivate
    \/ \E boxes \in TrackedPersons : ProcessFrame(boxes)

Spec == Init /\ [][Next]_vars

-----------------------------------------------------------------------------
TypeOK ==
    /\ zones \in [Zones -> Row \cup {None}]
    /\ detection_mode \in {"restricted_area", "helmet"}
    /\ \A config \in worker :
          /\ config.mode \in {"restricted_area", "helmet"}
          /\ config.lines \in Seq([color : Colors, seg : Rectangle, zone : Zones])
    /\ DOMAIN previous_side \subseteq Workers \X Nat
    /\ DOMAIN tracked \subseteq Workers
    /\ tracked \in [DOMAIN tracked -> Boxes]
    /\ \A h \in helmets : /\ h.is_compliant \in BOOLEAN
                           /\ \E s \in Sights : h.box = s.box /\ h.conf = s.conf
    /\ DOMAIN crossed = DOMAIN tracked
    /\ edits \in 0..MaxEdits

\* An alert names the zone its worker is in: the foot and the camera are on
\* one side of the line of that zone, and the line has the alert's colour.
\* Only where two zones of the camera share a colour may it name the other:
\* zone_for_line takes the first of the lines, classify_zone the last.
NamedZoneIsEntered ==
    \A config \in worker : \A w \in DOMAIN tracked :
        LET color == ZoneColor(config, w)
        IN  /\ color = "safe" => NamedZone(config, w) = None
            /\ color # "safe" /\ Cardinality(LinesOf(config.lines, color)) = 1 =>
                   \E i \in LinesOf(config.lines, color) :
                       LET l == config.lines[i]
                           there == Side(l.seg, ComputeFoot(tracked[w]))
                           camera == Side(l.seg, CamRef)
                       IN  /\ l.zone = NamedZone(config, w)
                           /\ camera > 0 => there > 0
                           /\ camera < 0 => there < 0

\* Each colour has at most one line, and that is level and above the camera.
LevelLines(lines) ==
    \A i \in 1..Len(lines) :
        /\ LinesOf(lines, lines[i].color) = {i}
        /\ lines[i].seg.y1 = lines[i].seg.y2 /\ lines[i].seg.x1 # lines[i].seg.x2
        /\ lines[i].seg.y1 < CamRef.y

Heights(lines, color) == {lines[i].seg.y1 : i \in LinesOf(lines, color)}

\* With one level line per colour, the bands are those of classify_zone's
\* description, whichever way round the end points of the lines were drawn:
\* restricted in front of the red line, warning between yellow and red.
\* (Exactly on the red line the code says safe.)
BandsByHeight ==
    \A config \in worker :
        config.mode = "restricted_area" /\ LevelLines(config.lines) =>
            \A w \in DOMAIN tracked :
                LET foot == ComputeFoot(tracked[w]).y
                    red == Heights(config.lines, "red")
                    yellow == Heights(config.lines, "yellow")
                IN  /\ ZoneColor(config, w) = "red" <=> \E r \in red : foot > r
                    /\ ZoneColor(config, w) = "yellow" <=>
                          (\E y \in yellow : foot > y) /\ (\A r \in red : foot < r)

\* A worker crosses a line only if the frame before saw the worker too, and on
\* another side of that line: whoever was out of sight comes back
\* without a crossing, under the same track id or not (prune).
NoGhostCrossing ==
    \A config \in worker : \A w \in DOMAIN crossed : \A i \in crossed[w] :
        LET seg == Segments(config.lines)[i].seg
        IN  /\ w \in DOMAIN before
            /\ Flipped(Side(seg, ComputeFoot(before[w])), Side(seg, ComputeFoot(tracked[w])))

\* Who counts as wearing a helmet has one of the helmets, touching the box, and
\* no bare head is seen in that box with more confidence.
HelmetIsOnesOwn ==
    \A config \in worker : \A w \in DOMAIN tracked :
        config.mode = "helmet" /\ HelmetStatus(config, w) = "safe" =>
            \E h \in helmets :
                /\ h.is_compliant
                /\ LET o == Overlap(tracked[w], h.box) IN o.x1 <= o.x2 /\ o.y1 <= o.y2
                /\ \A g \in helmets :
                      ~g.is_compliant /\ CentreIn(g.box, tracked[w]) => g.conf <= h.conf
================================================================================
