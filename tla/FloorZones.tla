------------------------------- MODULE FloorZones -------------------------------
(* FloorZoneManager of the standalone monitor: the quadrilateral it takes for  *)
(* the floor, detected in the first frame or built of fixed ratios, the zone   *)
(* of a foot by its depth in perspective, and the bands and lines drawn over   *)
(* the picture.                                                                *)
EXTENDS Integers, FiniteSets

CONSTANTS Width, Height,   \* of the frame, in pixels
          Outlines         \* sets of points: the outline of the largest bright
                           \* patch, or {} if it is too small

VARIABLES floor_quad,
          foot             \* compute_foot_point of a person

Image == [x : 0..Width, y : 0..Height]
Point(x, y) == [x |-> x, y |-> y]

\* Twice the area of the triangle a, b, c, negative if it turns to the left.
Cross(a, b, c) == (b.x - a.x) * (c.y - a.y) - (b.y - a.y) * (c.x - a.x)
Area(a, b, c) == IF Cross(a, b, c) < 0 THEN -Cross(a, b, c) ELSE Cross(a, b, c)

-----------------------------------------------------------------------------
(* The floor                                                                 *)

Quad(fl, fr, nr, nl) == [far_left |-> fl, far_right |-> fr, near_right |-> nr, near_left |-> nl]

\* _build_quad_from_ratios with the FLOOR_ corners.
RatioQuad ==
    LET At(x, y) == Point((x * Width) \div 100, (y * Height) \div 100)
    IN  Quad(At(28, 38), At(72, 38), At(96, 96), At(4, 96))

\* _order_floor_quad: the two highest points and the two lowest, each pair from
\* left to right.
OrderFloorQuad(points) ==
    {Quad(s[1], s[2], s[3], s[4]) : s \in
        {t \in [1..4 -> points] :
            /\ Cardinality({t[1], t[2], t[3], t[4]}) = 4
            /\ t[1].x <= t[2].x /\ t[4].x <= t[3].x
            /\ \A p \in points \ {t[1], t[2]} : t[1].y <= p.y /\ t[2].y <= p.y
            /\ \A p \in points \ {t[3], t[4]} : p.y <= t[3].y /\ p.y <= t[4].y}}

DetectFloorQuad(outline) ==
    IF Cardinality(outline) < 4 THEN {RatioQuad} ELSE OrderFloorQuad(outline)

-----------------------------------------------------------------------------
(* The zone of a point                                                       *)

\* pointPolygonTest(...) >= 0: on the floor or its border.
OnFloor(p) ==
    LET q == floor_quad
        turns == {Cross(q.far_left, q.far_right, p), Cross(q.far_right, q.near_right, p),
                  Cross(q.near_right, q.near_left, p), Cross(q.near_left, q.far_left, p)}
    IN  (\A t \in turns : t >= 0) \/ (\A t \in turns : t <= 0)

\* The depth v of p under the homography that maps the floor to the unit square
\* is below thirds / 3: v / (1 - v) is the ratio of the distances of p from the
\* far and the near edge, times what makes it 1 where the diagonals meet.
DepthBelow(p, thirds) ==
    LET q == floor_quad
        far == Area(q.far_left, q.far_right, p)
                  * Area(q.far_right, q.near_right, q.near_left)
                  * Area(q.near_left, q.near_right, q.far_left)
        near == Area(q.near_left, q.near_right, p)
                  * Area(q.near_left, q.far_left, q.far_right)
                  * Area(q.far_left, q.far_right, q.near_right)
    IN  (3 - thirds) * far < thirds * near

ClassifyPoint(p) ==
    IF ~OnFloor(p) THEN "OUTSIDE"
    ELSE IF DepthBelow(p, 1) THEN "CRITICAL"
    ELSE IF DepthBelow(p, 2) THEN "WARNING"
    ELSE "SAFE"

-----------------------------------------------------------------------------
(* What is drawn                                                             *)

\* _edge_at_depth, cut to whole pixels.
EdgeAtDepth(thirds) ==
    LET Between(a, b) == Point(((3 - thirds) * a.x + thirds * b.x) \div 3,
                               ((3 - thirds) * a.y + thirds * b.y) \div 3)
    IN  [left |-> Between(floor_quad.far_left, floor_quad.near_left),
         right |-> Between(floor_quad.far_right, floor_quad.near_right)]

\* depth_boundary_segments: the RED LINE (1) and the YELLOW LINE (2).
SideOfLine(p, thirds) == Cross(EdgeAtDepth(thirds).left, EdgeAtDepth(thirds).right, p)

DrawnBeyond(p, thirds) == SideOfLine(p, thirds) * SideOfLine(floor_quad.far_left, thirds) > 0

\* zone_polygons: the band a point is seen in.
DrawnZone(p) ==
    IF ~OnFloor(p) THEN "OUTSIDE"
    ELSE IF DrawnBeyond(p, 1) THEN "CRITICAL"
    ELSE IF DrawnBeyond(p, 2) THEN "WARNING"
    ELSE "SAFE"

-----------------------------------------------------------------------------
\* initialize_for_frame: once, on the first frame of a video.
Init ==
    /\ \E outline \in Outlines : floor_quad \in DetectFloorQuad(outline)
    /\ foot \in Image

\* The next frame.
Walk == foot' \in Image /\ UNCHANGED floor_quad

Spec == Init /\ [][Walk]_<<floor_quad, foot>>

-----------------------------------------------------------------------------
\* "Return floor boundary segments at 1/3 and 2/3 depth for rendering."
\* (safety_monitor.py:536): whoever stands in the band drawn as restricted, off the
\* lines themselves, is one for whom the alarm sounds, and so for the others.
DrawnAsClassified ==
    (\A thirds \in {1, 2} : SideOfLine(foot, thirds) # 0) =>
        DrawnZone(foot) = ClassifyPoint(foot)
================================================================================
