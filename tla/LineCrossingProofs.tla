--------------------------- MODULE LineCrossingProofs ---------------------------
(* Theorems about one camera's lines, for every set of zones, of shapes of     *)
(* their lines, of boxes a person may fill and of helmets that may be seen.    *)
EXTENDS LineCrossing, FiniteSetTheorems, WellFoundedInduction, TLAPS

-----------------------------------------------------------------------------
(* The types of lines and boxes.                                             *)

Line == [color : Colors, seg : Rectangle, zone : Zones]

\* A row's segment has four whole coordinates, whatever columns are set.
LEMMA SegmentType == ASSUME NEW p \in Shapes PROVE SegmentOf(p) \in Rectangle
BY ShapesAssumption DEF SegmentOf, Segment, Rectangle

\* A zone row becomes a line of one of the three colours.
LEMMA LineOfType ==
    ASSUME zones \in [Zones -> Row \cup {None}], NEW z \in ActiveZones
    PROVE  LineOf(z) \in Line
<1>1. z \in Zones /\ zones[z] \in Row
    BY DEF ActiveZones
<1>2. /\ zones[z].severity \in {"level_1", "level_2", "danger"}
      /\ zones[z].shape \in Shapes
    BY <1>1 DEF Row, SeverityToLine
<1>3. SeverityToLine[zones[z].severity] \in Colors
    BY <1>2 DEF SeverityToLine, Colors
<1> QED
    BY <1>1, <1>2, <1>3, SegmentType DEF LineOf, Line

\* The worker's lines are a sequence of such lines, in whatever order.
LEMMA BuildLinesType ==
    ASSUME zones \in [Zones -> Row \cup {None}], NEW lines \in BuildLines
    PROVE  lines \in Seq(Line)
<1> DEFINE n == Cardinality(ActiveZones)
<1>1. n \in Nat
    <2>1. ActiveZones \subseteq Zones
        BY DEF ActiveZones
    <2> QED
        BY <2>1, ZonesAssumption, FS_Subset, FS_CardinalityType
<1>2. PICK order \in [1..n -> ActiveZones] : lines = [i \in 1..n |-> LineOf(order[i])]
    BY DEF BuildLines
<1>3. \A i \in 1..n : LineOf(order[i]) \in Line
    BY LineOfType
<1> HIDE DEF n
<1>4. lines \in [1..n -> Line]
    BY <1>2, <1>3
<1> QED
    BY <1>1, <1>4

-----------------------------------------------------------------------------
(* The invariant.                                                            *)

\* What a worker that looks for crossings noted are the sides its last frame
\* saw, of the persons in it and of nobody else; it has a box for each.
SidesAreOfLastFrame ==
    \A config \in worker :
        config.mode # "helmet" =>
            \A k \in DOMAIN previous_side :
                /\ k[1] \in DOMAIN tracked
                /\ previous_side[k] =
                      Side(Segments(config.lines)[k[2]].seg, ComputeFoot(tracked[k[1]]))

\* A camera has one worker at most.
OneWorker == \A c, d \in worker : c = d

IInv == TypeOK /\ OneWorker /\ SidesAreOfLastFrame /\ NoGhostCrossing

LEMMA InitInv == Init => IInv
<1> SUFFICES ASSUME Init PROVE IInv
    OBVIOUS
<1> QED
    BY EditsAssumption
    DEF Init, IInv, TypeOK, OneWorker, SidesAreOfLastFrame, NoGhostCrossing, Nothing

\* A change of zone rows touches nothing that a worker has.
LEMMA EditInv ==
    ASSUME IInv, NEW z \in Zones, NEW row \in Row \cup {None}, Edit(z, row)
    PROVE  IInv'
<1>1. zones' \in [Zones -> Row \cup {None}] /\ edits' \in 0..MaxEdits
    BY EditsAssumption DEF IInv, TypeOK, Edit
<1>2. TypeOK'
    BY <1>1 DEF IInv, TypeOK, Edit, frame
<1> QED
    BY <1>2 DEF IInv, Edit, frame, OneWorker, SidesAreOfLastFrame, NoGhostCrossing

LEMMA SetModeInv == IInv /\ SetMode => IInv'
BY DEF IInv, TypeOK, SetMode, frame, OneWorker, SidesAreOfLastFrame, NoGhostCrossing

LEMMA DeactivateInv == IInv /\ Deactivate => IInv'
BY DEF IInv, TypeOK, Deactivate, frame, OneWorker, SidesAreOfLastFrame, NoGhostCrossing

\* A new worker has noted nothing.
LEMMA ActivateInv == IInv /\ Activate => IInv'
<1> SUFFICES ASSUME IInv, Activate PROVE IInv'
    OBVIOUS
<1>1. PICK lines \in BuildLines, candidates \in Candidates :
          worker' = {WorkerConfig(lines, candidates)}
    BY DEF Activate
<1>2. lines \in Seq(Line)
    BY BuildLinesType DEF IInv, TypeOK
<1>3. /\ WorkerConfig(lines, candidates).mode = detection_mode
      /\ WorkerConfig(lines, candidates).lines = lines
    BY DEF WorkerConfig
<1>4. TypeOK'
    BY <1>1, <1>2, <1>3 DEF IInv, TypeOK, Activate, Nothing, Line
<1>5. OneWorker' /\ SidesAreOfLastFrame' /\ NoGhostCrossing'
    BY <1>1 DEF Activate, Nothing, OneWorker, SidesAreOfLastFrame, NoGhostCrossing
<1> QED
    BY <1>4, <1>5 DEF IInv

\* What is seen of helmets are sights.
LEMMA HelmetsType ==
    ASSUME NEW weights, NEW hs \in DetectHelmets(weights), NEW h \in hs
    PROVE  h.is_compliant \in BOOLEAN /\ \E s \in Sights : h.box = s.box /\ h.conf = s.conf
<1>1. CASE weights = None
    BY <1>1 DEF DetectHelmets
<1>2. CASE weights # None
    <2>1. PICK s \in Sights : h = [box |-> s.box, conf |-> s.conf,
                                  is_compliant |-> LabelKind(s.label) = "compliant"]
        BY <1>2 DEF DetectHelmets
    <2>2. (LabelKind(s.label) = "compliant") \in BOOLEAN
        OBVIOUS
    <2>3. h.is_compliant = (LabelKind(s.label) = "compliant")
        BY <2>1
    <2>4. h.is_compliant \in BOOLEAN
        BY <2>2, <2>3, Zenon
    <2> QED
        BY <2>1, <2>4
<1> QED
    BY <1>1, <1>2

\* A crossing needs a side noted for the worker, and by SidesAreOfLastFrame
\* that is the side of the frame before.
LEMMA ProcessFrameInv ==
    ASSUME IInv, NEW boxes \in TrackedPersons, ProcessFrame(boxes) PROVE IInv'
<1>1. PICK config \in worker :
        /\ tracked' = boxes
        /\ before' = tracked
        /\ \/ /\ config.mode = "helmet"
              /\ helmets' \in DetectHelmets(config.weights)
              /\ crossed' = [w \in DOMAIN boxes |-> {}]
              /\ UNCHANGED previous_side
           \/ /\ config.mode # "helmet"
              /\ helmets' = {}
              /\ crossed' = [w \in DOMAIN boxes |->
                    Evaluate(Segments(config.lines), w, ComputeFoot(boxes[w]))]
              /\ previous_side' = Sides(Segments(config.lines), boxes)
        /\ UNCHANGED <<zones, detection_mode, worker, edits>>
    BY DEF ProcessFrame
<1>2. worker' = {config}
    BY <1>1 DEF IInv, OneWorker
<1>3. DOMAIN boxes \subseteq Workers /\ boxes \in [DOMAIN boxes -> Boxes]
    BY DEF TrackedPersons
<1>4. TypeOK'
    <2>1. \A h \in helmets' : /\ h.is_compliant \in BOOLEAN
                              /\ \E s \in Sights : h.box = s.box /\ h.conf = s.conf
        BY <1>1, HelmetsType
    <2>2. DOMAIN previous_side' \subseteq Workers \X Nat
        <3>1. CASE UNCHANGED previous_side
            BY <3>1 DEF IInv, TypeOK
        <3>2. CASE previous_side' = Sides(Segments(config.lines), boxes)
            <4>1. DOMAIN previous_side' = (DOMAIN boxes) \X (1..Len(Segments(config.lines)))
                BY <3>2 DEF Sides
            <4>2. 1..Len(Segments(config.lines)) \subseteq Nat
                OBVIOUS
            <4> QED
                BY <4>1, <4>2, <1>3
        <3> QED
            BY <1>1, <3>1, <3>2
    <2>3. DOMAIN crossed' = DOMAIN tracked'
        BY <1>1
    <2> QED
        BY <1>1, <1>3, <2>1, <2>2, <2>3 DEF IInv, TypeOK
<1>5. SidesAreOfLastFrame'
    BY <1>1, <1>2 DEF SidesAreOfLastFrame, Sides
<1>6. NoGhostCrossing'
    <2> SUFFICES ASSUME NEW w \in DOMAIN crossed', NEW i \in crossed'[w]
                 PROVE  LET seg == Segments(config.lines)[i].seg
                        IN  /\ w \in DOMAIN tracked
                            /\ Flipped(Side(seg, ComputeFoot(tracked[w])),
                                       Side(seg, ComputeFoot(boxes[w])))
        BY <1>1, <1>2 DEF NoGhostCrossing
    <2>1. config.mode # "helmet" /\ i \in Evaluate(Segments(config.lines), w, ComputeFoot(boxes[w]))
        BY <1>1
    <2>2. /\ <<w, i>> \in DOMAIN previous_side
          /\ Flipped(previous_side[<<w, i>>],
                     Side(Segments(config.lines)[i].seg, ComputeFoot(boxes[w])))
        BY <2>1 DEF Evaluate
    <2>3. /\ w \in DOMAIN tracked
          /\ previous_side[<<w, i>>] =
                Side(Segments(config.lines)[i].seg, ComputeFoot(tracked[w]))
        BY <2>1, <2>2 DEF IInv, SidesAreOfLastFrame
    <2> QED
        BY <2>2, <2>3
<1> QED
    BY <1>1, <1>4, <1>5, <1>6 DEF IInv, OneWorker

LEMMA NextInv == IInv /\ [Next]_vars => IInv'
<1> SUFFICES ASSUME IInv, [Next]_vars PROVE IInv'
    OBVIOUS
<1>1. ASSUME NEW z \in Zones, CreateZone(z) PROVE IInv'
    BY <1>1, EditInv DEF CreateZone
<1>2. ASSUME NEW z \in Zones, UpdateZone(z) PROVE IInv'
    BY <1>2, EditInv DEF UpdateZone
<1>3. ASSUME NEW z \in Zones, DeleteZone(z) PROVE IInv'
    BY <1>3, EditInv DEF DeleteZone
<1>4. ASSUME NEW boxes \in TrackedPersons, ProcessFrame(boxes) PROVE IInv'
    BY <1>4, ProcessFrameInv
<1>5. CASE UNCHANGED vars
    BY <1>5 DEF vars, frame, IInv, TypeOK, OneWorker, SidesAreOfLastFrame, NoGhostCrossing
<1> QED
    BY <1>1, <1>2, <1>3, <1>4, <1>5, SetModeInv, ActivateInv, DeactivateInv DEF Next

LEMMA Invariance == Spec => []IInv
BY InitInv, NextInv, PTL DEF Spec

\* Every variable keeps its type, whatever the rows, the frames and the mode.
THEOREM TypeCorrect == Spec => []TypeOK
<1>1. IInv => TypeOK
    BY DEF IInv
<1> QED
    BY <1>1, Invariance, PTL

\* Nobody is reported to cross a line who was not seen, on another side of it,
\* in the frame before (evaluate and prune), for any lines and any movement.
THEOREM NoGhostCrossingCorrect == Spec => []NoGhostCrossing
<1>1. IInv => NoGhostCrossing
    BY DEF IInv
<1> QED
    BY <1>1, Invariance, PTL

-----------------------------------------------------------------------------
(* The lines of a colour.                                                    *)

IsOnlyLine(lines, color, i) == LinesOf(lines, color) = {i}

\* If a colour has one line, first and last of the colour are that line.
LEMMA OnlyLine ==
    ASSUME NEW lines \in Seq(Line), NEW color, NEW i, IsOnlyLine(lines, color, i)
    PROVE  /\ i \in 1..Len(lines) /\ lines[i].color = color
           /\ ByColor(lines, color) = {lines[i].seg}
           /\ ZoneForLine(lines, color) = lines[i].zone
<1>1. i \in 1..Len(lines) /\ lines[i].color = color
    BY DEF LinesOf, IsOnlyLine
<1>2. (CHOOSE k \in {i} : \A j \in {i} : k <= j) = i
    BY <1>1
<1>3. (CHOOSE k \in {i} : \A j \in {i} : j <= k) = i
    BY <1>1
<1> QED
    BY <1>1, <1>2, <1>3 DEF ByColor, ZoneForLine, IsOnlyLine

\* A colour without a line has no segment, and names no zone.
LEMMA NoLine ==
    ASSUME NEW lines, NEW color, LinesOf(lines, color) = {}
    PROVE  ByColor(lines, color) = {} /\ ZoneForLine(lines, color) = None
BY DEF ByColor, ZoneForLine

\* A segment found by its colour is that of a line of the colour.
LEMMA ByColorLine ==
    ASSUME NEW lines \in Seq(Line), NEW color, NEW s \in ByColor(lines, color)
    PROVE  LinesOf(lines, color) # {}
BY DEF ByColor

\* What a line says of a point is a whole number.
LEMMA SideType ==
    ASSUME NEW s \in Rectangle, NEW f \in [x : Int, y : Int] PROVE Side(s, f) \in Int
BY DEF Side, Rectangle

LEMMA FootType == ASSUME NEW b \in Boxes PROVE ComputeFoot(b) \in [x : Int, y : Int]
<1>1. b \in Rectangle
    BY BoxesAssumption
<1>2. b.x1 \in Int /\ b.x2 \in Int /\ b.y2 \in Int
    BY <1>1 DEF Rectangle
<1>3. (b.x1 + b.x2) \div 2 \in Int
    BY <1>2
<1> QED
    BY <1>2, <1>3 DEF ComputeFoot

\* The near side of a line is the one the camera is on.
LEMMA NearSide ==
    ASSUME NEW s \in Rectangle, NEW f \in [x : Int, y : Int], Side(s, f) * CameraSign(s) > 0
    PROVE  /\ Side(s, CamRef) > 0 => Side(s, f) > 0
           /\ Side(s, CamRef) < 0 => Side(s, f) < 0
<1>1. Side(s, f) \in Int /\ Side(s, CamRef) \in Int
    BY SideType DEF CamRef
<1> QED
    BY <1>1 DEF CameraSign

-----------------------------------------------------------------------------
(* The zone an alert names.                                                  *)

\* Whoever is not safe is in front of the only line of the colour reported.
LEMMA ClassifiedByOnlyLine ==
    ASSUME NEW lines \in Seq(Line), NEW foot \in [x : Int, y : Int], NEW color,
           color = ClassifyZone(lines, foot), color # "safe",
           Cardinality(LinesOf(lines, color)) = 1
    PROVE  \E i \in LinesOf(lines, color) :
               /\ lines[i].zone = ZoneForLine(lines, color)
               /\ Side(lines[i].seg, CamRef) > 0 => Side(lines[i].seg, foot) > 0
               /\ Side(lines[i].seg, CamRef) < 0 => Side(lines[i].seg, foot) < 0
<1>1. OnNearSide(lines, color, foot)
    BY DEF ClassifyZone
<1>2. \E i : IsOnlyLine(lines, color, i)
    <2>1. LinesOf(lines, color) \in SUBSET (1..Len(lines)) /\ Len(lines) \in Int
        BY DEF LinesOf
    <2>2. IsFiniteSet(1..Len(lines))
        BY <2>1, FS_Interval
    <2>3. IsFiniteSet(LinesOf(lines, color))
        BY <2>1, <2>2, FS_Subset
    <2> QED
        BY <2>3, FS_Singleton DEF IsOnlyLine
<1>3. PICK i : IsOnlyLine(lines, color, i)
    BY <1>2
<1>4. /\ i \in 1..Len(lines)
      /\ ByColor(lines, color) = {lines[i].seg}
      /\ ZoneForLine(lines, color) = lines[i].zone
    BY <1>3, OnlyLine
<1>5. lines[i].seg \in Rectangle
    <2>1. lines[i] \in Line
        BY <1>4
    <2> QED
        BY <2>1 DEF Line
<1>6. Side(lines[i].seg, foot) * CameraSign(lines[i].seg) > 0
    BY <1>1, <1>4 DEF OnNearSide
<1>7. i \in LinesOf(lines, color)
    BY <1>3 DEF IsOnlyLine
<1> QED
    BY <1>4, <1>5, <1>6, <1>7, NearSide

LEMMA NamedZone_State == TypeOK => NamedZoneIsEntered
<1> SUFFICES ASSUME TypeOK, NEW config \in worker, NEW w \in DOMAIN tracked
             PROVE  LET color == ZoneColor(config, w)
                    IN  /\ color = "safe" => NamedZone(config, w) = None
                        /\ color # "safe" /\ Cardinality(LinesOf(config.lines, color)) = 1 =>
                               \E i \in LinesOf(config.lines, color) :
                                   LET l == config.lines[i]
                                       there == Side(l.seg, ComputeFoot(tracked[w]))
                                       camera == Side(l.seg, CamRef)
                                   IN  /\ l.zone = NamedZone(config, w)
                                       /\ camera > 0 => there > 0
                                       /\ camera < 0 => there < 0
    BY DEF NamedZoneIsEntered
<1>1. config.lines \in Seq(Line) /\ ComputeFoot(tracked[w]) \in [x : Int, y : Int]
    BY FootType DEF TypeOK, Line
<1>2. ZoneColor(config, w) = "safe" => NamedZone(config, w) = None
    <2>1. \A i \in 1..Len(config.lines) : config.lines[i] \in Line
        BY <1>1
    <2>2. LinesOf(config.lines, "safe") = {}
        BY <2>1 DEF LinesOf, Line, Colors
    <2> QED
        BY <2>2, NoLine DEF NamedZone
<1>3. ZoneColor(config, w) # "safe" =>
          ZoneColor(config, w) = ClassifyZone(config.lines, ComputeFoot(tracked[w]))
    BY DEF ZoneColor
<1> QED
    BY <1>1, <1>2, <1>3, ClassifiedByOnlyLine DEF NamedZone

\* An alert names the zone whose line the worker is in front of, as seen from
\* the camera, unless two zones of the camera have the colour
\* (classify_zone against zone_for_line).
THEOREM NamedZoneCorrect == Spec => []NamedZoneIsEntered
BY TypeCorrect, NamedZone_State, PTL

-----------------------------------------------------------------------------
(* The bands.                                                                *)

\* On a level line's near side is what is below it in the picture, whichever
\* end was drawn first.
LEMMA LevelLine ==
    ASSUME NEW s \in Rectangle, s.y1 = s.y2, s.x1 # s.x2, s.y1 < CamRef.y,
           NEW f \in [x : Int, y : Int]
    PROVE  /\ Side(s, f) * CameraSign(s) > 0 <=> f.y > s.y1
           /\ Side(s, f) * CameraSign(s) < 0 <=> f.y < s.y1
<1> DEFINE dx == s.x2 - s.x1
           h == f.y - s.y1
           c == 95 - s.y1
<1>1. /\ dx \in Int /\ dx # 0 /\ h \in Int /\ c \in Int /\ c > 0
      /\ s.y2 - s.y1 = 0 /\ f.y \in Int /\ f.x \in Int /\ s.y1 \in Int /\ s.x1 \in Int
    BY DEF Rectangle, CamRef
<1>2. Side(s, f) = dx * h /\ Side(s, CamRef) = dx * c
    BY <1>1 DEF Side, CamRef
<1> HIDE DEF dx, h, c
<1>3. CASE dx > 0
    <2>1. dx * c > 0
        BY <1>1, <1>3
    <2>2. CameraSign(s) = 1
        BY <1>1, <1>2, <2>1 DEF CameraSign
    <2>3. (dx * h > 0 <=> h > 0) /\ (dx * h < 0 <=> h < 0)
        BY <1>1, <1>3
    <2> QED
        BY <1>1, <1>2, <2>2, <2>3 DEF h
<1>4. CASE dx < 0
    <2>1. dx * c < 0
        BY <1>1, <1>4
    <2>2. CameraSign(s) = -1
        BY <1>1, <1>2, <2>1 DEF CameraSign
    <2>3. (dx * h > 0 <=> h < 0) /\ (dx * h < 0 <=> h > 0)
        BY <1>1, <1>4
    <2> QED
        BY <1>1, <1>2, <2>2, <2>3 DEF h
<1> QED
    BY <1>1, <1>3, <1>4

\* So a colour's line, if there is one, divides the frame at its height.
LEMMA DividesByHeight ==
    ASSUME NEW lines \in Seq(Line), LevelLines(lines), NEW color,
           NEW f \in [x : Int, y : Int]
    PROVE  /\ OnNearSide(lines, color, f) <=> \E h \in Heights(lines, color) : f.y > h
           /\ NotBefore(lines, color, f) <=> \A h \in Heights(lines, color) : f.y < h
<1>1. CASE LinesOf(lines, color) = {}
    <2>1. ByColor(lines, color) = {} /\ Heights(lines, color) = {}
        BY <1>1, NoLine DEF Heights
    <2> QED
        BY <2>1 DEF OnNearSide, NotBefore
<1>2. ASSUME NEW i \in LinesOf(lines, color)
      PROVE  /\ OnNearSide(lines, color, f) <=> \E h \in Heights(lines, color) : f.y > h
             /\ NotBefore(lines, color, f) <=> \A h \in Heights(lines, color) : f.y < h
    <2>1. i \in 1..Len(lines) /\ lines[i].color = color
        BY <1>2 DEF LinesOf
    <2>2. /\ LinesOf(lines, color) = {i}
          /\ lines[i].seg.y1 = lines[i].seg.y2 /\ lines[i].seg.x1 # lines[i].seg.x2
          /\ lines[i].seg.y1 < CamRef.y
        BY <2>1 DEF LevelLines
    <2>3. ByColor(lines, color) = {lines[i].seg}
        <3>1. IsOnlyLine(lines, color, i)
            BY <2>2 DEF IsOnlyLine
        <3> QED
            BY <3>1, OnlyLine
    <2>4. Heights(lines, color) = {lines[i].seg.y1}
        BY <2>2 DEF Heights
    <2>5. lines[i].seg \in Rectangle
        <3>1. lines[i] \in Line
            BY <2>1
        <3> QED
            BY <3>1 DEF Line
    <2>6. /\ Side(lines[i].seg, f) * CameraSign(lines[i].seg) > 0 <=> f.y > lines[i].seg.y1
          /\ Side(lines[i].seg, f) * CameraSign(lines[i].seg) < 0 <=> f.y < lines[i].seg.y1
        BY <2>2, <2>5, LevelLine
    <2> QED
        BY <2>3, <2>4, <2>6 DEF OnNearSide, NotBefore
<1> QED
    BY <1>1, <1>2

LEMMA Bands_State == TypeOK => BandsByHeight
<1> SUFFICES ASSUME TypeOK, NEW config \in worker, config.mode = "restricted_area",
                    LevelLines(config.lines), NEW w \in DOMAIN tracked
             PROVE  LET foot == ComputeFoot(tracked[w]).y
                        red == Heights(config.lines, "red")
                        yellow == Heights(config.lines, "yellow")
                    IN  /\ ZoneColor(config, w) = "red" <=> \E r \in red : foot > r
                        /\ ZoneColor(config, w) = "yellow" <=>
                              (\E y \in yellow : foot > y) /\ (\A r \in red : foot < r)
    BY DEF BandsByHeight
<1> DEFINE foot == ComputeFoot(tracked[w])
           Red == Heights(config.lines, "red")
           Yellow == Heights(config.lines, "yellow")
<1>1. config.lines \in Seq(Line) /\ foot \in [x : Int, y : Int]
    BY FootType DEF TypeOK, Line
<1>2. Red \subseteq Int
    <2>1. \A i \in 1..Len(config.lines) : config.lines[i] \in Line
        BY <1>1
    <2> QED
        BY <2>1 DEF Heights, LinesOf, Line, Rectangle
<1>3. /\ OnNearSide(config.lines, "red", foot) <=> \E r \in Red : foot.y > r
      /\ NotBefore(config.lines, "red", foot) <=> \A r \in Red : foot.y < r
      /\ OnNearSide(config.lines, "yellow", foot) <=> \E y \in Yellow : foot.y > y
    BY <1>1, DividesByHeight
<1>4. ZoneColor(config, w) = ClassifyZone(config.lines, foot)
    BY DEF ZoneColor
<1>5. (\A r \in Red : foot.y < r) => ~ \E r \in Red : foot.y > r
    BY <1>1, <1>2
<1> HIDE DEF foot, Red, Yellow
<1>6. /\ ZoneColor(config, w) = "red" <=> \E r \in Red : foot.y > r
      /\ ZoneColor(config, w) = "yellow" <=>
            (\E y \in Yellow : foot.y > y) /\ (\A r \in Red : foot.y < r)
    BY <1>3, <1>4, <1>5 DEF ClassifyZone
<1> QED
    BY <1>6 DEF foot, Red, Yellow

\* Between level lines the zone reported is the band the foot stands in: for
\* any heights, whichever end of a line was drawn first (classify_zone).
THEOREM BandsByHeightCorrect == Spec => []BandsByHeight
BY TypeCorrect, Bands_State, PTL

-----------------------------------------------------------------------------
(* Helmets.                                                                  *)

\* A detected helmet, as far as the association looks at it.
IsHelmet(h) ==
    /\ h.is_compliant \in BOOLEAN /\ h.conf \in 0..100
    /\ h.box \in Rectangle /\ h.box.x1 <= h.box.x2 /\ h.box.y1 <= h.box.y2

\* A set of confidences has a greatest one.
LEMMA GreatestConfidence ==
    ASSUME NEW confs \in SUBSET (0..100), confs # {}
    PROVE  \E c \in confs : \A d \in confs : d <= c
<1> DEFINE T == {n \in Nat : 100 - n \in confs}
<1>1. T \subseteq Nat /\ T # {}
    <2>1. PICK c \in confs : TRUE
        OBVIOUS
    <2>2. c \in 0..100
        OBVIOUS
    <2>3. 100 - c \in Nat /\ 100 - (100 - c) = c
        BY <2>2
    <2>4. 100 - c \in T
        BY <2>3
    <2> QED
        BY <2>4
<1>2. PICK n \in T : \A m \in T : ~ (<<m, n>> \in OpToRel(<, Nat))
    BY <1>1, NatLessThanWellFounded, WFMin
<1>3. \A m \in T : ~ (m < n)
    BY <1>1, <1>2 DEF OpToRel
<1>4. \A d \in confs : d <= 100 - n
    <2> SUFFICES ASSUME NEW d \in confs PROVE d <= 100 - n
        OBVIOUS
    <2>1. d \in 0..100 /\ n \in Nat
        OBVIOUS
    <2>2. 100 - d \in Nat /\ 100 - (100 - d) = d
        BY <2>1
    <2>3. 100 - d \in T
        BY <2>2
    <2>4. ~ (100 - d < n)
        BY <1>3, <2>3
    <2> QED
        BY <2>1, <2>4
<1> QED
    BY <1>4

\* Best is the highest confidence of the helmets it looks at, or 0.
LEMMA BestIsHighest ==
    ASSUME NEW b, NEW hs, \A h \in hs : IsHelmet(h), NEW compliant \in BOOLEAN
    PROVE  /\ Best(b, hs, compliant) \in 0..100
           /\ Best(b, hs, compliant) > 0 =>
                 \E h \in hs : /\ Associated(b, h) /\ h.is_compliant = compliant
                              /\ h.conf = Best(b, hs, compliant)
           /\ \A h \in hs : Associated(b, h) /\ h.is_compliant = compliant =>
                 h.conf <= Best(b, hs, compliant)
<1> DEFINE those == {h \in hs : Associated(b, h) /\ h.is_compliant = compliant}
           confs == {0} \cup {h.conf : h \in those}
<1>1. confs \subseteq 0..100
    BY DEF IsHelmet
<1>2. \E c \in confs : \A d \in confs : d <= c
    <2>1. confs # {}
        OBVIOUS
    <2> HIDE DEF confs
    <2> QED
        BY <1>1, <2>1, GreatestConfidence
<1>3. Best(b, hs, compliant) = CHOOSE c \in confs : \A d \in confs : d <= c
    BY DEF Best
<1>4. /\ Best(b, hs, compliant) \in confs
      /\ \A d \in confs : d <= Best(b, hs, compliant)
    <2> HIDE DEF confs
    <2> QED
        BY <1>2, <1>3
<1>5. \A h \in those : h.conf \in confs
    OBVIOUS
<1> QED
    BY <1>1, <1>4, <1>5

\* Two intervals overlap if neither begins behind the other's end.
LEMMA Meet ==
    ASSUME NEW l \in Int, NEW m \in Int, NEW n \in Int, NEW o \in Int,
           l <= n, l <= o, m <= n, m <= o
    PROVE  Upper(l, m) <= Lower(n, o)
BY DEF Upper, Lower

\* A positive area has a width and a height.
LEMMA AreaPositive ==
    ASSUME NEW b, b.x1 \in Int, b.x2 \in Int, b.y1 \in Int, b.y2 \in Int, Area(b) > 0
    PROVE  b.x1 <= b.x2 /\ b.y1 <= b.y2
<1> DEFINE w == b.x2 - b.x1
           h == b.y2 - b.y1
<1>1. w \in Int /\ h \in Int
    OBVIOUS
<1>2. CASE w < 0
    <2>1. Upper(0, w) = 0
        BY <1>1, <1>2 DEF Upper
    <2> QED
        BY <1>1, <2>1 DEF Area, Upper
<1>3. CASE h < 0
    <2>1. Upper(0, h) = 0
        BY <1>1, <1>3 DEF Upper
    <2> QED
        BY <1>1, <2>1 DEF Area, Upper
<1> QED
    BY <1>1, <1>2, <1>3

LEMMA OverlapType ==
    ASSUME NEW a \in Rectangle, NEW b \in Rectangle PROVE Overlap(a, b) \in Rectangle
BY DEF Overlap, Rectangle, Upper, Lower

LEMMA IouTouches ==
    ASSUME NEW a \in Rectangle, NEW b \in Rectangle, NEW percent, IouAtLeast(a, b, percent)
    PROVE  LET o == Overlap(a, b) IN o.x1 <= o.x2 /\ o.y1 <= o.y2
<1>1. Area(Overlap(a, b)) > 0
    BY DEF IouAtLeast
<1>2. LET o == Overlap(a, b) IN o.x1 \in Int /\ o.x2 \in Int /\ o.y1 \in Int /\ o.y2 \in Int
    BY OverlapType DEF Rectangle
<1> QED
    BY <1>1, <1>2, AreaPositive

\* The upper part of a box that a proper box's centre is in, or that overlaps
\* one, is in the box.
LEMMA HeadType ==
    ASSUME NEW b \in Rectangle
    PROVE  LET head == HeadRegion(b)
           IN  /\ head \in Rectangle
               /\ head.x1 = b.x1 /\ head.x2 = b.x2 /\ head.y1 = b.y1
               /\ head.y2 >= b.y1 => head.y2 <= b.y2
<1> DEFINE d == b.y2 - b.y1
           e == (d * 45) \div 100
<1>1. b.y1 \in Int /\ b.y2 \in Int /\ d \in Int
    BY DEF Rectangle
<1>2. e \in Int /\ (e >= 0 => e <= d)
    <2> HIDE DEF d
    <2> QED
        BY <1>1
<1>3. HeadRegion(b) = [b EXCEPT !.y2 = b.y1 + e]
    BY DEF HeadRegion
<1> HIDE DEF e
<1>4. b.y1 + e \in Int /\ (b.y1 + e >= b.y1 => b.y1 + e <= b.y2)
    BY <1>1, <1>2
<1> QED
    BY <1>3, <1>4 DEF Rectangle

LEMMA CentreTouches ==
    ASSUME NEW b \in Rectangle, NEW q \in Rectangle, q.x1 <= q.x2, q.y1 <= q.y2, CentreIn(q, b)
    PROVE  LET o == Overlap(b, q) IN o.x1 <= o.x2 /\ o.y1 <= o.y2
<1>1. /\ b.x1 \in Int /\ b.x2 \in Int /\ b.y1 \in Int /\ b.y2 \in Int
      /\ q.x1 \in Int /\ q.x2 \in Int /\ q.y1 \in Int /\ q.y2 \in Int
    BY DEF Rectangle
<1>2. /\ b.x1 <= b.x2 /\ b.x1 <= q.x2 /\ q.x1 <= b.x2
      /\ b.y1 <= b.y2 /\ b.y1 <= q.y2 /\ q.y1 <= b.y2
    BY <1>1 DEF CentreIn
<1> QED
    BY <1>1, <1>2, Meet DEF Overlap

\* A helmet that counts for a person touches the person's box.
LEMMA AssociatedTouches ==
    ASSUME NEW b \in Rectangle, NEW h, IsHelmet(h), Associated(b, h)
    PROVE  LET o == Overlap(b, h.box) IN o.x1 <= o.x2 /\ o.y1 <= o.y2
<1> DEFINE head == HeadRegion(b)
           q == h.box
<1>1. q \in Rectangle /\ q.x1 <= q.x2 /\ q.y1 <= q.y2
    BY DEF IsHelmet
<1>2. /\ head \in Rectangle
      /\ head.x1 = b.x1 /\ head.x2 = b.x2 /\ head.y1 = b.y1
      /\ head.y2 >= b.y1 => head.y2 <= b.y2
    BY HeadType
<1> HIDE DEF head
<1>3. ASSUME Overlap(head, q).x1 <= Overlap(head, q).x2, Overlap(head, q).y1 <= Overlap(head, q).y2
      PROVE  Overlap(b, q).x1 <= Overlap(b, q).x2 /\ Overlap(b, q).y1 <= Overlap(b, q).y2
    <2>1. /\ b.y1 \in Int /\ b.y2 \in Int /\ head.y2 \in Int /\ q.y1 \in Int /\ q.y2 \in Int
        BY <1>1, <1>2 DEF Rectangle
    <2>2. Upper(b.y1, q.y1) <= Lower(head.y2, q.y2)
        BY <1>2, <1>3 DEF Overlap
    <2>3. /\ b.y1 <= head.y2 /\ b.y1 <= q.y2 /\ q.y1 <= head.y2 /\ q.y1 <= q.y2
        BY <2>1, <2>2 DEF Upper, Lower
    <2>4. Upper(b.y1, q.y1) <= Lower(b.y2, q.y2)
        BY <1>2, <2>1, <2>3, Meet
    <2> QED
        BY <1>2, <1>3, <2>4 DEF Overlap
<1>4. CASE CentreIn(q, head)
    BY <1>1, <1>2, <1>3, <1>4, CentreTouches
<1>5. CASE CentreIn(q, b)
    BY <1>1, <1>5, CentreTouches
<1>6. CASE IouAtLeast(head, q, 8)
    BY <1>1, <1>2, <1>3, <1>6, IouTouches
<1>7. CASE IouAtLeast(b, q, 5)
    BY <1>1, <1>7, IouTouches
<1> QED
    BY <1>4, <1>5, <1>6, <1>7 DEF Associated, head

LEMMA Helmet_State == TypeOK => HelmetIsOnesOwn
<1> SUFFICES ASSUME TypeOK, NEW config \in worker, NEW w \in DOMAIN tracked,
                    config.mode = "helmet", HelmetStatus(config, w) = "safe"
             PROVE  \E h \in helmets :
                       /\ h.is_compliant
                       /\ LET o == Overlap(tracked[w], h.box) IN o.x1 <= o.x2 /\ o.y1 <= o.y2
                       /\ \A g \in helmets :
                             ~g.is_compliant /\ CentreIn(g.box, tracked[w]) => g.conf <= h.conf
    BY DEF HelmetIsOnesOwn
<1> DEFINE b == tracked[w]
<1>1. b \in Rectangle
    BY BoxesAssumption DEF TypeOK
<1>2. \A h \in helmets : IsHelmet(h)
    BY SightsAssumption DEF TypeOK, IsHelmet
<1>3. WearsHelmet(b, helmets)
    BY DEF HelmetStatus
<1> HIDE DEF b
<1> DEFINE compliant == Best(b, helmets, TRUE)
           violation == Best(b, helmets, FALSE)
<1>4. /\ compliant \in 0..100 /\ violation \in 0..100 /\ violation <= compliant
      /\ \E h \in helmets : /\ Associated(b, h) /\ h.is_compliant = TRUE
                            /\ h.conf = compliant
      /\ \A h \in helmets : Associated(b, h) /\ h.is_compliant = FALSE =>
            h.conf <= violation
    BY <1>2, <1>3, BestIsHighest DEF WearsHelmet
<1> HIDE DEF compliant, violation
<1>5. PICK h \in helmets : Associated(b, h) /\ h.is_compliant = TRUE /\ h.conf = compliant
    BY <1>4
<1>6. LET o == Overlap(b, h.box) IN o.x1 <= o.x2 /\ o.y1 <= o.y2
    BY <1>1, <1>2, <1>5, AssociatedTouches
<1>7. ASSUME NEW g \in helmets, ~g.is_compliant, CentreIn(g.box, b) PROVE g.conf <= h.conf
    <2>1. g.is_compliant \in BOOLEAN /\ g.conf \in 0..100
        BY <1>2 DEF IsHelmet
    <2>2. g.is_compliant = FALSE
        BY <2>1, <1>7, Zenon
    <2>3. Associated(b, g)
        BY <1>7 DEF Associated
    <2>4. g.conf <= violation
        BY <1>4, <2>2, <2>3, Zenon
    <2> QED
        BY <1>4, <1>5, <2>1, <2>4
<1>8. h.is_compliant
    BY <1>5
<1> QED
    BY <1>6, <1>7, <1>8 DEF b

\* Nobody passes for wearing a helmet because of one that does not touch the
\* person, or against a bare head seen there with more confidence: for any
\* boxes and confidences (evaluate_helmet_status).
THEOREM HelmetCorrect == Spec => []HelmetIsOnesOwn
BY TypeCorrect, Helmet_State, PTL
================================================================================
