----------------------------- MODULE MCLineCrossing -----------------------------
\* Lines, boxes and helmets for checking LineCrossing.
EXTENDS LineCrossing, TLC

Box(x1, y1, x2, y2) == [x1 |-> x1, y1 |-> y1, x2 |-> x2, y2 |-> y2]

\* A level line drawn from right to left, a slanting one, and one of which only
\* two columns were set.
MCShapes == {[ends |-> Box(100, 60, 0, 60), line_y |-> 60],
             [ends |-> Box(10, 80, 90, 30), line_y |-> 50],
             [ends |-> [x1 |-> 30, x2 |-> 70], line_y |-> 40]}

\* Beyond the lines, between two, on one, in front of all, and in front beside
\* the short one.
MCBoxes == {Box(40, 10, 60, 30), Box(40, 10, 60, 50), Box(40, 20, 60, 60),
            Box(40, 20, 60, 90), Box(80, 20, 96, 38)}

\* A helmet on a head, a bare head and a person seen there too, a helmet far
\* from anybody.
MCSights == {[box |-> Box(46, 12, 54, 20), label |-> {"safety", "helmet"}, conf |-> 60],
             [box |-> Box(44, 12, 56, 22), label |-> {"no", "helmet"}, conf |-> 70],
             [box |-> Box(40, 10, 60, 30), label |-> {"person"}, conf |-> 80],
             [box |-> Box(2, 80, 8, 88), label |-> {"hardhat"}, conf |-> 90]}

\* Only the second place has weights, as a directory; or none has.
MCCandidates == {<<"absent", "extracted">>, <<"absent", "absent">>}

Symmetry == Permutations(Zones)
================================================================================
