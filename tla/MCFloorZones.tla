------------------------------ MODULE MCFloorZones ------------------------------
\* A small frame, without a bright patch or with one of four or five corners.
EXTENDS FloorZones

MCOutlines == {{},
               {Point(5, 20), Point(18, 16), Point(24, 48), Point(2, 46)},
               {Point(5, 20), Point(18, 16), Point(24, 48), Point(2, 46), Point(24, 30)}}
================================================================================
