------------------------------ MODULE MCZonesPage ------------------------------
(* The Zones page over two zones.  Their rows have a line the page drew, the   *)
(* line of older rows (only line_y), or one an API client half filled in.      *)
EXTENDS ZonesPage, TLC

MCPoints == {[x |-> 120, y |-> -10], [x |-> 30, y |-> 45]}

MCRow(severity, is_active, ends, line_y) ==
    [severity |-> severity, is_active |-> is_active,
     shape |-> [ends |-> ends, line_y |-> line_y]]
MCRows == {MCRow("danger", TRUE, Segment(20, 80, 70, 50), 65),
           MCRow("level_2", FALSE, <<>>, 60),
           MCRow("level_1", TRUE, [x1 |-> 25, y2 |-> 90], 60)}

MCSymmetry == Permutations(Zones)
================================================================================
