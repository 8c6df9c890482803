------------------------------ MODULE VideoStream ------------------------------
(* stream_camera_video: the part of a camera's video file that a request of    *)
(* the video player is sent (_serve_file_with_range).                          *)
EXTENDS Integers

Least(m, n) == IF m <= n THEN m ELSE n

\* A Range header "bytes=first-last"; a number left out is the empty set.
Optional == {{}} \cup {{n} : n \in Nat}
Ranges == [first: Optional, last: Optional]
Given(number, default) == IF number = {} THEN default ELSE CHOOSE n \in number : TRUE

\* Content-Range and Content-Length of the answer, for a file of that size.
Part(range, size) ==
    LET end == Least(Given(range.last, size - 1), size - 1)
        start == Least(Given(range.first, 0), end)
    IN  [start |-> start, end |-> end, length |-> end - start + 1]

\* Without a header the whole file is sent.
Whole(size) == [start |-> 0, end |-> size - 1, length |-> size]

\* _iter_range: one chunk, of a file that has `size` bytes when it is read (an
\* upload may have truncated or rewritten it).
ReadChunk(position, remaining, chunk) ==
    \E size \in Nat :
       LET n == Least(Least(chunk, remaining), size - position)
       IN  /\ remaining > 0
           /\ n > 0
           /\ position' = position + n
           /\ remaining' = remaining - n

Sending(position, remaining, part, chunk) ==
    /\ position = part.start
    /\ remaining = part.length
    /\ [][ReadChunk(position, remaining, chunk)]_<<position, remaining>>

-----------------------------------------------------------------------------
\* The part lies in the file, has at least one byte, and is as long as announced.
PartOfFile(part, size) ==
    /\ 0 <= part.start
    /\ part.start <= part.end
    /\ part.end < size
    /\ part.length = part.end - part.start + 1

\* A player that asks for bytes of the file gets those, up to the end of the file.
AsRequested(range, part, size) ==
    \A first \in range.first :
       first < size /\ (\A last \in range.last : first <= last) =>
          /\ part.start = first
          /\ \A last \in range.last : part.end = Least(last, size - 1)
          /\ range.last = {} => part.end = size - 1
================================================================================
