----------------------------- MODULE MCVideoUpload -----------------------------
\* Model values for checking VideoUpload.
EXTENDS VideoUpload, VideoStream, TLC

Symmetry == Permutations(Uploads)

-----------------------------------------------------------------------------
\* The parts of small files.
Numbers == {{}} \cup {{n} : n \in 0..5}

ASSUME PartsOfSmallFiles ==
    \A range \in [first: Numbers, last: Numbers], size \in 1..4 :
       LET part == Part(range, size)
       IN  PartOfFile(part, size) /\ AsRequested(range, part, size)

\* Of the bytes a player asks for it is sent exactly those the file has.
ASSUME PartIsRequest ==
    \A from \in 0..5, to \in 0..5, size \in 1..4 :
       LET wanted == {b \in from..to : b < size}
           part == Part([first |-> {from}, last |-> {to}], size)
       IN  wanted # {} => part.start .. part.end = wanted
================================================================================
