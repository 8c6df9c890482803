------------------------------ MODULE ConsoleProofs ------------------------------
(* Theorems about the browser's pages, for every number of tabs, of cameras    *)
(* and of clicks, whether calls may fail or not.                               *)
EXTENDS Console, RateLimiter, Accounts, SequenceTheorems, TLAPS

-----------------------------------------------------------------------------
(* The invariant.                                                            *)

Kinds == {"mount", "mode", "toggle", "remove", "replace", "create"}
Listing == <<"list">>

\* What a handler may still have to do.
Todo(kind, restart) ==
    CASE kind = "mount"   -> {Listing}
      [] kind = "mode"    -> IF restart
                             THEN {<<"put", "deactivate", "activate", "list">>,
                                   <<"deactivate", "activate", "list">>,
                                   <<"activate", "list">>, Listing}
                             ELSE {<<"put", "list">>, Listing}
      [] kind = "toggle"  -> {<<"deactivate", "list">>, <<"activate", "list">>, Listing}
      [] kind = "remove"  -> {<<"delete", "list">>, Listing}
      [] kind = "replace" -> {<<"upload", "list">>, Listing}
      [] kind = "create"  -> {<<"post", "upload", "list">>, <<"upload", "list">>, Listing}

IsJob(job) ==
    /\ DOMAIN job = {"kind", "cam", "mode", "restart", "todo", "answer", "older", "mounted"}
    /\ job.kind \in Kinds /\ job.restart \in BOOLEAN /\ job.mounted \in BOOLEAN
    /\ job.kind # "mount" => job.cam \in Cameras
    /\ job.kind = "mode" => job.mode \in Modes
    /\ job.todo \in Todo(job.kind, job.restart)
    /\ job.answer # None => job.todo = Listing /\ job.answer \in Copies
    /\ job.older \in BOOLEAN /\ (job.older => job.answer # None)
    /\ ~job.mounted => job.todo # Listing

\* A camera is known by a copy, or by a handler, once it has, or had, a row.
Born(table) == \A c \in DOMAIN table : rows[c] # Unborn
Posts(job) == Head(job.todo) = "post"

IsKnowing(job) ==
    /\ IsJob(job)
    /\ job.answer # None => Born(job.answer)
    /\ job.kind # "mount" => (rows[job.cam] = Unborn <=> Posts(job))

Knowing ==
    /\ DOMAIN jobs = Tabs
    /\ \A t \in Tabs : Born(list[t]) /\ \A job \in jobs[t] : IsKnowing(job)

\* A handler that creates a camera is the only one that knows of it.
PostAlone ==
    \A t, u \in Tabs : \A job \in jobs[t], other \in jobs[u] :
        Posts(job) /\ job.kind # "mount" /\ other.cam = job.cam => u = t /\ other = job

NoRowNoWorker == \A c \in Cameras : ~Exists(c) => worker[c] = None

\* No other list the page still gets was made later.
Newest(job) == job.answer # None /\ ~job.older
NewestAlone ==
    \A t \in Tabs : \A job, other \in Mounted(t) : Newest(job) /\ Newest(other) => job = other

\* A list that shows a camera as it is.
Shows(table, c) ==
    IF Exists(c) THEN c \in DOMAIN table /\ table[c] = Reported[c] ELSE c \notin DOMAIN table

\* A handler that will load the list, and until it does ends with an error; but
\* remove tells nobody, and answers for the camera it deletes only.
WillList(job, c) ==
    /\ job.answer = None
    /\ job.kind \in {"mode", "toggle", "replace", "create"} \/ (job.kind = "remove" /\ job.cam = c)

\* A page tells of its own writes: by an error, by a list it will ask for, by the
\* last list it asked for while that is under way, or by the one it has; and a page
\* that got an older one after that is excused.
WillShowIn(t, c) ==
    \/ error[t]
    \/ \E job \in Mounted(t) : WillList(job, c)
    \/ \E job \in Mounted(t) : Newest(job) /\ Shows(job.answer, c)
    \/ (\A job \in Mounted(t) : ~Newest(job)) /\ (behind[t] \/ Shows(list[t], c))

WillShow == \A t \in Tabs, c \in Cameras : last_by[c] = t => WillShowIn(t, c)

Sound == TypeOK /\ Knowing /\ PostAlone /\ NoRowNoWorker
IInv == Sound /\ NewestAlone /\ WillShow /\ ModeReachesWorker

-----------------------------------------------------------------------------
(* The calls of a handler.                                                   *)

\* What a handler begins with.
LEMMA CallsType ==
    ASSUME NEW kind \in Kinds, NEW active \in BOOLEAN
    PROVE  /\ Calls(kind, active) \in Todo(kind, active)
           /\ Head(Calls(kind, active)) = "post" <=> kind = "create"
           /\ Calls(kind, active) = Listing <=> kind = "mount"
BY DEF Kinds, Calls, ModeCalls, Todo, Listing

LEMMA One == Head(Listing) = "list" /\ Listing # <<>>
BY DEF Listing

LEMMA Two ==
    ASSUME NEW a
    PROVE  /\ Head(<<a, "list">>) = a /\ Tail(<<a, "list">>) = Listing
           /\ Len(<<a, "list">>) = 2 /\ <<a, "list">> # Listing /\ <<a, "list">> # <<>>
BY DEF Listing

LEMMA Three ==
    ASSUME NEW a, NEW b
    PROVE  /\ Head(<<a, b, "list">>) = a /\ Tail(<<a, b, "list">>) = <<b, "list">>
           /\ Len(<<a, b, "list">>) = 3 /\ <<a, b, "list">> # Listing /\ <<a, b, "list">> # <<>>
BY DEF Listing

LEMMA Four ==
    ASSUME NEW a, NEW b, NEW c
    PROVE  /\ Head(<<a, b, c, "list">>) = a /\ Tail(<<a, b, c, "list">>) = <<b, c, "list">>
           /\ Len(<<a, b, c, "list">>) = 4
           /\ <<a, b, c, "list">> # Listing /\ <<a, b, c, "list">> # <<>>
BY DEF Listing

\* A call that is no listing is followed by another, of the same handler.
LEMMA TodoStep ==
    ASSUME NEW kind \in Kinds, NEW restart \in BOOLEAN, NEW todo \in Todo(kind, restart)
    PROVE  /\ Head(todo) = "list" <=> todo = Listing
           /\ Head(todo) \in {"list", "put", "deactivate", "activate", "delete", "upload", "post"}
           /\ todo # <<>>
           /\ todo # Listing =>
                /\ Len(todo) > 1 /\ Tail(todo) \in Todo(kind, restart)
                /\ Head(Tail(todo)) # "post"
                /\ kind # "mount"
           /\ Head(todo) = "put" => kind = "mode"
           /\ Head(todo) = "put" /\ restart => Tail(todo) # Listing
           /\ Head(todo) = "post" => kind = "create"
<1>1. CASE todo = Listing
    BY <1>1, One
<1>2. CASE kind = "mode" /\ restart /\ todo # Listing
    <2>1. CASE todo = <<"put", "deactivate", "activate", "list">>
        <3>1. /\ Head(todo) = "put" /\ Tail(todo) = <<"deactivate", "activate", "list">>
              /\ Len(todo) = 4 /\ todo # <<>>
            BY <2>1, Four
        <3>2. Head(Tail(todo)) = "deactivate" /\ Tail(todo) # Listing
            BY <3>1, Three
        <3>3. Tail(todo) \in Todo(kind, restart)
            BY <1>2, <3>1 DEF Todo
        <3>4. Len(todo) > 1 /\ todo # Listing
            BY <1>2, <3>1
        <3> HIDE DEF Listing
        <3> QED
            BY <1>2, <3>1, <3>2, <3>3, <3>4
    <2>2. CASE todo = <<"deactivate", "activate", "list">>
        BY <1>2, <2>2, Three, Two DEF Todo
    <2>3. CASE todo = <<"activate", "list">>
        BY <1>2, <2>3, Two, One DEF Todo
    <2> QED
        BY <1>2, <2>1, <2>2, <2>3 DEF Todo
<1>3. CASE kind = "mode" /\ ~restart /\ todo # Listing
    <2>1. todo = <<"put", "list">>
        BY <1>3 DEF Todo
    <2> QED
        BY <1>3, <2>1, Two, One DEF Todo
<1>4. CASE kind = "toggle" /\ todo # Listing
    <2>1. CASE todo = <<"deactivate", "list">>
        BY <1>4, <2>1, Two, One DEF Todo
    <2>2. CASE todo = <<"activate", "list">>
        BY <1>4, <2>2, Two, One DEF Todo
    <2> QED
        BY <1>4, <2>1, <2>2 DEF Todo
<1>5. CASE kind = "remove" /\ todo # Listing
    <2>1. todo = <<"delete", "list">>
        BY <1>5 DEF Todo
    <2> QED
        BY <1>5, <2>1, Two, One DEF Todo
<1>6. CASE kind = "replace" /\ todo # Listing
    <2>1. todo = <<"upload", "list">>
        BY <1>6 DEF Todo
    <2> QED
        BY <1>6, <2>1, Two, One DEF Todo
<1>7. CASE kind = "create" /\ todo # Listing
    <2>1. CASE todo = <<"post", "upload", "list">>
        <3>1. /\ Head(todo) = "post" /\ Tail(todo) = <<"upload", "list">>
              /\ Len(todo) = 3 /\ todo # <<>>
            BY <2>1, Three
        <3>2. Head(Tail(todo)) = "upload"
            BY <3>1, Two
        <3>3. Tail(todo) \in Todo(kind, restart)
            BY <1>7, <3>1 DEF Todo
        <3> QED
            BY <1>7, <3>1, <3>2, <3>3
    <2>2. CASE todo = <<"upload", "list">>
        BY <1>7, <2>2, Two, One DEF Todo
    <2> QED
        BY <1>7, <2>1, <2>2 DEF Todo
<1>8. kind = "mount" => todo = Listing
    BY DEF Todo
<1> QED
    BY <1>1, <1>2, <1>3, <1>4, <1>5, <1>6, <1>7, <1>8 DEF Kinds

LEMMA JobTodo ==
    ASSUME NEW job, IsJob(job)
    PROVE  /\ Head(job.todo) = "list" <=> job.todo = Listing
           /\ Head(job.todo) \in {"list", "put", "deactivate", "activate", "delete", "upload", "post"}
           /\ job.todo # <<>>
           /\ job.todo # Listing =>
                /\ Len(job.todo) > 1 /\ Tail(job.todo) \in Todo(job.kind, job.restart)
                /\ Head(Tail(job.todo)) # "post"
                /\ job.kind # "mount"
           /\ Head(job.todo) = "put" => job.kind = "mode"
           /\ Head(job.todo) = "put" /\ job.restart => Tail(job.todo) # Listing
           /\ Posts(job) => job.kind = "create"
BY TodoStep DEF IsJob, Posts

\* A new handler.
LEMMA JobType ==
    ASSUME NEW job,
           DOMAIN job = {"kind", "cam", "mode", "restart", "todo", "answer", "older", "mounted"},
           job.kind \in Kinds, job.cam \in Cameras, job.restart \in BOOLEAN,
           job.kind = "mode" => job.mode \in Modes,
           job.todo = Calls(job.kind, job.restart), job.answer = None, job.older = FALSE,
           job.mounted = TRUE
    PROVE  IsJob(job) /\ (Posts(job) <=> job.kind = "create")
BY CallsType DEF IsJob, Posts

\* A handler goes on to its next call.
LEMMA RestMoves ==
    ASSUME NEW job, IsJob(job), job.todo # Listing, NEW n \in Rest(job)
    PROVE  /\ n = [job EXCEPT !.todo = Tail(job.todo)]
           /\ IsJob(n) /\ ~Posts(n) /\ n.kind = job.kind /\ n.cam = job.cam
           /\ n.restart = job.restart /\ n.mounted = job.mounted /\ n.answer = None
           /\ n.todo = Tail(job.todo)
<1>1. n = [job EXCEPT !.todo = Tail(job.todo)] /\ (n.mounted \/ n.todo # Listing)
    BY DEF Rest, Pending, Listing
<1>2. /\ DOMAIN n = DOMAIN job /\ n.kind = job.kind /\ n.cam = job.cam /\ n.mode = job.mode
      /\ n.restart = job.restart /\ n.mounted = job.mounted /\ n.answer = job.answer
      /\ n.older = job.older /\ n.todo = Tail(job.todo)
    BY <1>1 DEF IsJob
<1>3. job.answer = None
    BY DEF IsJob
<1>4. IsJob(n)
    BY <1>1, <1>2, <1>3, JobTodo DEF IsJob
<1> QED
    BY <1>1, <1>2, <1>3, <1>4, JobTodo DEF Posts

\* A handler that stays, stays while its page goes.
LEMMA UnmountedMoves ==
    ASSUME NEW job, IsJob(job), NEW n, n = [job EXCEPT !.mounted = FALSE],
           n.mounted \/ n.todo # Listing
    PROVE  /\ IsJob(n) /\ n.kind = job.kind /\ n.cam = job.cam /\ n.restart = job.restart
           /\ n.mounted = FALSE /\ n.answer = None /\ n.todo = job.todo /\ n.todo # Listing
           /\ Posts(n) <=> Posts(job)
<1>1. /\ DOMAIN n = DOMAIN job /\ n.kind = job.kind /\ n.cam = job.cam /\ n.mode = job.mode
      /\ n.restart = job.restart /\ n.mounted = FALSE /\ n.answer = job.answer
      /\ n.older = job.older /\ n.todo = job.todo
    BY DEF IsJob
<1>2. n.todo # Listing
    BY <1>1
<1>3. n.answer = None
    BY <1>1, <1>2 DEF IsJob
<1>4. IsJob(n)
    BY <1>1, <1>2, <1>3 DEF IsJob
<1> QED
    BY <1>1, <1>2, <1>3, <1>4 DEF Posts

\* The server's list is a copy, and shows every camera.
LEMMA ReportedType ==
    ASSUME TypeOK
    PROVE  Reported \in Copies /\ Born(Reported) /\ \A c \in Cameras : Shows(Reported, c)
<1> DEFINE S == {d \in Cameras : Exists(d)}
<1>1. \A c \in S : rows[c] \in CameraRow
    BY DEF TypeOK, Exists
<1>2. \A c \in S : [rows[c] EXCEPT !.active = @ /\ worker[c] # None] \in CameraRow
    BY <1>1 DEF CameraRow
<1>3. Reported \in [S -> CameraRow]
    BY <1>2 DEF Reported
<1>4. Reported \in Copies
    BY <1>3 DEF Copies
<1>5. DOMAIN Reported = S
    BY <1>3
<1> QED
    BY <1>4, <1>5 DEF Born, Shows, Exists

\* A handler that has its list: it is the newest.
LEMMA AnsweredMoves ==
    ASSUME TypeOK, NEW job, IsJob(job), job.todo = Listing, job.answer = None,
           NEW n, n = [job EXCEPT !.answer = Reported]
    PROVE  /\ IsJob(n) /\ ~Posts(n) /\ n.kind = job.kind /\ n.cam = job.cam
           /\ n.restart = job.restart /\ n.mounted = TRUE /\ n.answer = Reported
           /\ n.todo = Listing /\ n.older = FALSE
<1>1. /\ DOMAIN n = DOMAIN job /\ n.kind = job.kind /\ n.cam = job.cam /\ n.mode = job.mode
      /\ n.restart = job.restart /\ n.mounted = job.mounted /\ n.answer = Reported
      /\ n.todo = Listing /\ n.older = job.older
    BY DEF IsJob
<1>2. n.mounted = TRUE /\ n.older = FALSE
    BY <1>1 DEF IsJob
<1>3. IsJob(n)
    <2>1. Reported \in Copies
        BY ReportedType
    <2> QED
        BY <1>1, <1>2, <2>1 DEF IsJob
<1> QED
    BY <1>1, <1>2, <1>3, One DEF Posts

\* Another handler of the page, whose list is now the older one.
LEMMA OutdatedMoves ==
    ASSUME NEW js, \A job \in js : IsJob(job), NEW n \in Outdated(js)
    PROVE  \E job \in js :
              /\ n = [job EXCEPT !.older = job.answer # None]
              /\ IsJob(n) /\ n.kind = job.kind /\ n.cam = job.cam /\ n.restart = job.restart
              /\ n.mounted = job.mounted /\ n.answer = job.answer /\ n.todo = job.todo
              /\ ~Newest(n) /\ (Posts(n) <=> Posts(job))
<1>1. PICK job \in js : n = [job EXCEPT !.older = job.answer # None]
    BY DEF Outdated
<1>2. IsJob(job)
    OBVIOUS
<1>3. /\ DOMAIN n = DOMAIN job /\ n.kind = job.kind /\ n.cam = job.cam /\ n.mode = job.mode
      /\ n.restart = job.restart /\ n.mounted = job.mounted /\ n.answer = job.answer
      /\ n.todo = job.todo /\ n.older = (job.answer # None)
    BY <1>1, <1>2 DEF IsJob
<1>4. IsJob(n)
    BY <1>2, <1>3 DEF IsJob
<1>5. ~Newest(n)
    BY <1>3 DEF Newest
<1>6. Posts(n) <=> Posts(job)
    BY <1>3 DEF Posts
<1> QED
    BY <1>1, <1>3, <1>4, <1>5, <1>6

-----------------------------------------------------------------------------
(* What a call does in the server.                                           *)

LEMMA NewRowType == NewRow \in CameraRow
BY DEF NewRow, CameraRow, Modes

\* Rows and workers after an admitted call.
LEMMA ServerStep ==
    ASSUME TypeOK, NoRowNoWorker, NEW job, IsKnowing(job), job.todo # Listing,
           Admitted(Head(job.todo), job.cam),
           rows' \in {rows, RowAfter(job, Head(job.todo))},
           worker' = WorkerAfter(job, Head(job.todo))
    PROVE  /\ rows' \in [Cameras -> {Unborn, Deleted} \cup CameraRow]
           /\ worker' \in [Cameras -> Modes \cup {None}]
           /\ NoRowNoWorker'
           /\ \A c \in Cameras : rows[c] # Unborn => rows'[c] # Unborn
           /\ \A c \in Cameras : c # job.cam =>
                 rows'[c] = rows[c] /\ worker'[c] = worker[c]
           /\ rows[job.cam] = Unborn => Posts(job)
<1> DEFINE call == Head(job.todo)
           c0 == job.cam
<1>1. c0 \in Cameras /\ (rows[c0] = Unborn <=> Posts(job))
    BY JobTodo DEF IsKnowing, IsJob
<1>2. call \in {"put", "deactivate", "activate", "delete", "upload", "post"}
    BY JobTodo DEF IsKnowing
<1>3. /\ rows \in [Cameras -> {Unborn, Deleted} \cup CameraRow]
      /\ worker \in [Cameras -> Modes \cup {None}]
      /\ \A c \in Cameras : rows[c] \in {Unborn, Deleted} => worker[c] = None
    BY DEF TypeOK, NoRowNoWorker, Exists
<1>4. call # "post" => rows[c0] \in CameraRow
    BY <1>1, <1>2, <1>3 DEF Admitted, Exists
<1>5. /\ rows' \in [Cameras -> {Unborn, Deleted} \cup CameraRow]
      /\ \A c \in Cameras : c # c0 => rows'[c] = rows[c]
      /\ rows[c0] # Unborn => rows'[c0] # Unborn
      /\ rows[c0] \in CameraRow /\ call # "delete" => rows'[c0] \in CameraRow
    <2>1. CASE rows' = rows
        BY <1>3, <2>1
    <2>2. CASE call = "put" /\ rows' = RowAfter(job, call)
        <3>1. job.mode \in Modes
            BY <2>2, JobTodo DEF IsKnowing, IsJob
        <3>2. rows' = [rows EXCEPT ![c0].mode = job.mode]
            BY <2>2 DEF RowAfter
        <3>3. [rows[c0] EXCEPT !.mode = job.mode] \in CameraRow
            BY <1>4, <2>2, <3>1 DEF CameraRow
        <3> HIDE DEF c0
        <3> QED
            BY <1>1, <1>3, <3>2, <3>3, NoRowAssumption
    <2>3. CASE call \in {"deactivate", "activate"} /\ rows' = RowAfter(job, call)
        <3>1. PICK a \in BOOLEAN : rows' = [rows EXCEPT ![c0].active = a]
            BY <2>3 DEF RowAfter
        <3>2. [rows[c0] EXCEPT !.active = a] \in CameraRow
            BY <1>4, <2>3 DEF CameraRow
        <3> HIDE DEF c0
        <3> QED
            BY <1>1, <1>3, <3>1, <3>2, NoRowAssumption
    <2>4. CASE call = "delete" /\ rows' = RowAfter(job, call)
        <3>1. rows' = [rows EXCEPT ![c0] = Deleted]
            BY <2>4 DEF RowAfter
        <3> QED
            BY <1>1, <1>3, <2>4, <3>1, NoRowAssumption
    <2>5. CASE call = "post" /\ rows' = RowAfter(job, call)
        <3>1. rows' = [rows EXCEPT ![c0] = NewRow]
            BY <2>5 DEF RowAfter
        <3> QED
            BY <1>1, <1>3, <3>1, NewRowType, NoRowAssumption
    <2>6. CASE call = "upload" /\ rows' = RowAfter(job, call)
        BY <1>3, <2>6 DEF RowAfter
    <2> QED
        BY <1>2, <2>1, <2>2, <2>3, <2>4, <2>5, <2>6
<1>6. /\ worker' \in [Cameras -> Modes \cup {None}]
      /\ \A c \in Cameras : c # c0 => worker'[c] = worker[c]
      /\ worker'[c0] # None => call = "activate" \/ worker'[c0] = worker[c0]
    <2>1. CASE call \in {"deactivate", "delete"}
        BY <1>1, <1>3, <2>1 DEF WorkerAfter
    <2>2. CASE call = "activate"
        <3>1. rows[c0].mode \in Modes
            BY <1>4, <2>2 DEF CameraRow
        <3>2. worker' = [worker EXCEPT ![c0] = rows[c0].mode]
            BY <2>2 DEF WorkerAfter
        <3> QED
            BY <1>1, <1>3, <2>2, <3>1, <3>2
    <2>3. CASE call \in {"put", "upload", "post"}
        BY <1>3, <2>3 DEF WorkerAfter
    <2> QED
        BY <1>2, <2>1, <2>2, <2>3
<1>7. NoRowNoWorker'
    <2> SUFFICES ASSUME NEW c \in Cameras, rows'[c] \in {Unborn, Deleted} PROVE worker'[c] = None
        BY DEF NoRowNoWorker, Exists
    <2>1. CASE c # c0
        BY <1>3, <1>5, <1>6, <2>1
    <2>2. CASE c = c0 /\ rows[c0] \in {Unborn, Deleted}
        <3>1. call = "post"
            BY <1>2, <2>2 DEF Admitted, Exists
        <3> QED
            BY <1>1, <1>3, <1>6, <2>2, <3>1
    <2>3. CASE c = c0 /\ rows[c0] \in CameraRow
        <3>1. call = "delete"
            BY <1>5, <2>3, NoRowAssumption
        <3> QED
            BY <1>1, <1>3, <2>3, <3>1 DEF WorkerAfter
    <2> QED
        BY <1>1, <1>3, <2>1, <2>2, <2>3
<1> QED
    BY <1>1, <1>5, <1>6, <1>7

-----------------------------------------------------------------------------
(* Handlers and the rows they know of.                                       *)

\* What was born stays so.
LEMMA StaysBorn ==
    ASSUME \A c \in Cameras : rows[c] # Unborn => rows'[c] # Unborn,
           NEW table \in Copies, Born(table)
    PROVE  Born(table)'
BY DEF Born, Copies

LEMMA KnowingStays ==
    ASSUME rows' = rows, NEW job, IsKnowing(job)
    PROVE  IsKnowing(job)'
BY DEF IsKnowing, Born

\* A handler is replaced by its next self, if that one's call did not post, or by
\* nothing; whatever else the step does to rows that were born.
LEMMA PutStep ==
    ASSUME Sound, NEW t \in Tabs, NEW job \in jobs[t], NEW next,
           jobs' = [jobs EXCEPT ![t] = (jobs[t] \ {job}) \cup next],
           \A n \in next : /\ IsJob(n) /\ ~Posts(n) /\ n.cam = job.cam /\ n.kind = job.kind
                           /\ n.answer # None => Born(n.answer)'
                           /\ n.kind # "mount" => rows'[n.cam] # Unborn,
           \A c \in Cameras : rows[c] # Unborn => rows'[c] # Unborn,
           \A c \in Cameras : rows[c] = Unborn /\ c # job.cam => rows'[c] = Unborn,
           job.kind # "mount" /\ ~Posts(job) /\ rows[job.cam] = Unborn => rows'[job.cam] = Unborn,
           \A u \in Tabs : Born(list[u])'
    PROVE  Knowing' /\ PostAlone'
<1>1. \A u \in Tabs : \A j \in jobs[u] : IsKnowing(j)
    BY DEF Sound, Knowing
<1>2. DOMAIN jobs' = Tabs /\ jobs'[t] = (jobs[t] \ {job}) \cup next
      /\ \A u \in Tabs : u # t => jobs'[u] = jobs[u]
    BY DEF Sound, Knowing
<1>3. ASSUME NEW u \in Tabs, NEW j \in jobs[u], u # t \/ j # job PROVE IsKnowing(j)'
    <2>1. IsKnowing(j)
        BY <1>1
    <2>2. j.kind # "mount" => (rows'[j.cam] = Unborn <=> Posts(j))
        <3> SUFFICES ASSUME j.kind # "mount" PROVE rows'[j.cam] = Unborn <=> Posts(j)
            OBVIOUS
        <3>1. j.cam \in Cameras /\ (rows[j.cam] = Unborn <=> Posts(j))
            BY <2>1 DEF IsKnowing, IsJob
        <3>2. CASE j.cam = job.cam
            <4>1. ~(Posts(job) /\ job.kind # "mount")
                BY <1>3, <3>2 DEF Sound, PostAlone
            <4>2. Posts(job) => job.kind = "create"
                BY <1>1, JobTodo DEF IsKnowing
            <4>3. ~Posts(job) /\ ~Posts(j)
                <5>1. Posts(j) => u = t /\ job = j
                    BY <3>2 DEF Sound, PostAlone
                <5> QED
                    BY <1>3, <4>1, <4>2, <5>1
            <4> QED
                BY <3>1, <4>3
        <3>3. CASE j.cam # job.cam
            BY <3>1, <3>3
        <3> QED
            BY <3>2, <3>3
    <2>3. j.answer # None => Born(j.answer)'
        BY <2>1, StaysBorn DEF IsKnowing, IsJob
    <2> QED
        BY <2>1, <2>2, <2>3 DEF IsKnowing
<1>4. ASSUME NEW n \in next PROVE IsKnowing(n)'
    <2>1. /\ IsJob(n) /\ ~Posts(n)
          /\ n.answer # None => Born(n.answer)'
          /\ n.kind # "mount" => rows'[n.cam] # Unborn
        OBVIOUS
    <2> QED
        BY <2>1 DEF IsKnowing
<1>5. Knowing'
    BY <1>2, <1>3, <1>4 DEF Knowing
<1>6. ASSUME NEW u \in Tabs, NEW v \in Tabs, NEW j \in jobs'[u], NEW k \in jobs'[v],
             Posts(j), j.kind # "mount", k.cam = j.cam
      PROVE  v = u /\ k = j
    <2>1. j \in jobs[u] /\ (u # t \/ j # job)
        BY <1>2, <1>6
    <2>2. CASE k \in jobs[v]
        BY <1>6, <2>1, <2>2 DEF Sound, PostAlone
    <2>3. CASE k \notin jobs[v]
        <3>1. v = t /\ k \in next
            BY <1>2, <2>3
        <3>2. job.cam = j.cam
            BY <1>6, <3>1
        <3>3. t = u /\ job = j
            BY <1>6, <2>1, <3>2 DEF Sound, PostAlone
        <3> QED
            BY <2>1, <3>3
    <2> QED
        BY <2>2, <2>3
<1> QED
    BY <1>5, <1>6 DEF PostAlone

\* The handlers a page leaves behind, and the one that loads the next page's list.
Behind(t) == Pending({[j EXCEPT !.mounted = FALSE] : j \in jobs[t]})
Mount == Job("mount", None, None, FALSE)

LEMMA MountType ==
    /\ IsJob(Mount) /\ Mount.kind = "mount" /\ Mount.cam = None /\ Mount.answer = None
    /\ Mount.mounted = TRUE /\ ~Posts(Mount) /\ Mount.todo = Listing
<1>1. /\ DOMAIN Mount = {"kind", "cam", "mode", "restart", "todo", "answer", "older", "mounted"}
      /\ Mount.kind = "mount" /\ Mount.cam = None /\ Mount.answer = None
      /\ Mount.older = FALSE /\ Mount.mounted = TRUE /\ Mount.restart = FALSE /\ Mount.todo = Listing
    BY DEF Mount, Job, Calls, Listing
<1>2. IsJob(Mount)
    BY <1>1 DEF IsJob, Kinds, Todo
<1> QED
    BY <1>1, <1>2, One DEF Posts

LEMMA BehindType ==
    ASSUME NEW t, \A job \in jobs[t] : IsJob(job), NEW n \in Behind(t)
    PROVE  \E job \in jobs[t] :
              /\ n = [job EXCEPT !.mounted = FALSE]
              /\ IsJob(n) /\ n.kind = job.kind /\ n.cam = job.cam /\ n.restart = job.restart
              /\ n.mounted = FALSE /\ n.answer = None /\ n.todo = job.todo /\ n.todo # Listing
              /\ Posts(n) <=> Posts(job)
<1>1. PICK job \in jobs[t] : n = [job EXCEPT !.mounted = FALSE] /\ (n.mounted \/ n.todo # Listing)
    BY DEF Behind, Pending, Listing
<1> QED
    BY <1>1, UnmountedMoves

\* A list is answered: the page's other lists are older now.
LEMMA AnswerStep ==
    ASSUME Sound, NEW t \in Tabs, NEW job \in jobs[t], NEW new, NEW js,
           jobs' = [jobs EXCEPT ![t] = js], js = Outdated(jobs[t] \ {job}) \cup {new},
           IsJob(new), ~Posts(new), new.cam = job.cam, new.kind = job.kind, ~Posts(job),
           new.answer # None => Born(new.answer),
           rows' = rows, list' = list
    PROVE  Knowing' /\ PostAlone'
<1> DEFINE others == jobs[t] \ {job}
<1>1. \A u \in Tabs : \A j \in jobs[u] : IsKnowing(j)
    BY DEF Sound, Knowing
<1>2. /\ DOMAIN jobs' = Tabs /\ jobs'[t] = Outdated(others) \cup {new}
      /\ \A u \in Tabs : u # t => jobs'[u] = jobs[u]
    BY DEF Sound, Knowing
<1>3. \A j \in others : IsJob(j)
    BY <1>1 DEF IsKnowing
<1>4. others \subseteq jobs[t]
    OBVIOUS
<1> HIDE DEF others
<1>5. ASSUME NEW n \in Outdated(others)
      PROVE  \E j \in jobs[t] :
                /\ n = [j EXCEPT !.older = j.answer # None]
                /\ IsJob(n) /\ n.kind = j.kind /\ n.cam = j.cam
                /\ n.answer = j.answer /\ (Posts(n) <=> Posts(j))
    <2>1. PICK j \in others :
              /\ n = [j EXCEPT !.older = j.answer # None]
              /\ IsJob(n) /\ n.kind = j.kind /\ n.cam = j.cam /\ n.restart = j.restart
              /\ n.mounted = j.mounted /\ n.answer = j.answer /\ n.todo = j.todo
              /\ ~Newest(n) /\ (Posts(n) <=> Posts(j))
        BY <1>3, OutdatedMoves, Zenon
    <2> QED
        BY <1>4, <2>1, Zenon
<1>6. IsKnowing(new)
    <2>1. new.kind # "mount" => rows[new.cam] # Unborn
        BY <1>1 DEF IsKnowing
    <2> QED
        BY <2>1 DEF IsKnowing
<1>7. ASSUME NEW n \in Outdated(others) PROVE IsKnowing(n)
    <2>1. PICK j \in jobs[t] : /\ IsJob(n) /\ n.kind = j.kind /\ n.cam = j.cam
                               /\ n.answer = j.answer /\ (Posts(n) <=> Posts(j))
        BY <1>5
    <2>2. IsKnowing(j)
        BY <1>1
    <2> QED
        BY <2>1, <2>2 DEF IsKnowing
<1>8. \A u \in Tabs : \A j \in jobs'[u] : IsKnowing(j)'
    BY <1>1, <1>2, <1>6, <1>7, KnowingStays
<1>9. \A u \in Tabs : Born(list[u])'
    BY DEF Sound, Knowing, Born
<1> DEFINE Was(i, j, u) ==
              /\ i.cam = j.cam /\ i.kind = j.kind /\ (Posts(j) <=> Posts(i))
              /\ u = t => j = [i EXCEPT !.older = i.answer # None]
              /\ u # t => j = i
<1>10. ASSUME NEW u \in Tabs, NEW j \in jobs'[u], j # new \/ u # t
       PROVE  \E i \in jobs[u] : Was(i, j, u)
    <2>1. CASE u = t
        <3>1. j \in Outdated(others)
            BY <1>2, <1>10, <2>1
        <3>2. PICK i \in jobs[t] :
                  /\ j = [i EXCEPT !.older = i.answer # None]
                  /\ IsJob(j) /\ j.kind = i.kind /\ j.cam = i.cam
                  /\ j.answer = i.answer /\ (Posts(j) <=> Posts(i))
            BY <1>5, <3>1, Zenon
        <3> QED
            BY <2>1, <3>2, Zenon
    <2>2. CASE u # t
        BY <1>2, <1>10, <2>2
    <2> QED
        BY <2>1, <2>2
<1>11. \A u, v \in Tabs : \A j \in jobs'[u], k \in jobs'[v] :
           Posts(j) /\ j.kind # "mount" /\ k.cam = j.cam => v = u /\ k = j
    <2> TAKE u \in Tabs, v \in Tabs
    <2> TAKE j \in jobs'[u], k \in jobs'[v]
    <2> HAVE Posts(j) /\ j.kind # "mount" /\ k.cam = j.cam
    <2>1. PICK j0 \in jobs[u] : Was(j0, j, u)
        <3>1. j # new \/ u # t
            OBVIOUS
        <3> HIDE DEF Was
        <3> QED
            BY <1>10, <3>1
    <2>2. PostAlone
        BY DEF Sound
    <2>3. k # new \/ v # t
        <3> SUFFICES ASSUME k = new, v = t PROVE FALSE
            OBVIOUS
        <3>1. t = u /\ job = j0
            BY <2>1, <2>2 DEF PostAlone
        <3> QED
            BY <2>1, <3>1
    <2>4. PICK k0 \in jobs[v] : Was(k0, k, v)
        <3> HIDE DEF Was
        <3> QED
            BY <1>10, <2>3
    <2>5. v = u /\ k0 = j0
        BY <2>1, <2>2, <2>4 DEF PostAlone
    <2>6. k = j
        <3>1. CASE u = t
            BY <2>1, <2>4, <2>5, <3>1, Zenon
        <3>2. CASE u # t
            BY <2>1, <2>4, <2>5, <3>2, Zenon
        <3> QED
            BY <3>1, <3>2
    <2> QED
        BY <2>5, <2>6
<1>12. Knowing'
    BY <1>2, <1>8, <1>9 DEF Knowing
<1>13. PostAlone'
    BY <1>11 DEF PostAlone
<1> QED
    BY <1>12, <1>13

\* A page is left: its handlers end or run on, and maybe another page loads.
LEMMA LeaveStep ==
    ASSUME Sound, NEW t \in Tabs, NEW js, jobs' = [jobs EXCEPT ![t] = js],
           js = {} \/ js = Behind(t) \cup {Mount},
           rows' = rows, list' = [list EXCEPT ![t] = NoList]
    PROVE  Knowing' /\ PostAlone'
<1>1. \A u \in Tabs : \A j \in jobs[u] : IsKnowing(j)
    BY DEF Sound, Knowing
<1>2. /\ DOMAIN jobs' = Tabs /\ jobs'[t] = js
      /\ \A u \in Tabs : u # t => jobs'[u] = jobs[u]
    BY DEF Sound, Knowing
<1>3. \A j \in jobs[t] : IsJob(j)
    BY <1>1 DEF IsKnowing
<1>4. ASSUME NEW n \in js, n # Mount
      PROVE  \E job \in jobs[t] :
                /\ n = [job EXCEPT !.mounted = FALSE]
                /\ IsJob(n) /\ n.kind = job.kind /\ n.cam = job.cam
                /\ n.answer = None /\ (Posts(n) <=> Posts(job))
    <2>1. n \in Behind(t)
        BY <1>4
    <2>2. PICK job \in jobs[t] :
              /\ n = [job EXCEPT !.mounted = FALSE]
              /\ IsJob(n) /\ n.kind = job.kind /\ n.cam = job.cam /\ n.restart = job.restart
              /\ n.mounted = FALSE /\ n.answer = None /\ n.todo = job.todo /\ n.todo # Listing
              /\ Posts(n) <=> Posts(job)
        BY <1>3, <2>1, BehindType, Zenon
    <2> QED
        BY <2>2, Zenon
<1>5. ASSUME NEW n \in js PROVE IsKnowing(n)
    <2>1. CASE n = Mount
        BY <2>1, MountType DEF IsKnowing
    <2>2. CASE n # Mount
        BY <1>1, <1>4, <2>2 DEF IsKnowing
    <2> QED
        BY <2>1, <2>2
<1>6. \A u \in Tabs : \A j \in jobs'[u] : IsKnowing(j)'
    BY <1>1, <1>2, <1>5, KnowingStays
<1>7. \A u \in Tabs : Born(list[u])'
    BY DEF Sound, TypeOK, Knowing, Born, NoList
<1>8. ASSUME NEW u \in Tabs, NEW v \in Tabs, NEW j \in jobs'[u], NEW k \in jobs'[v],
             Posts(j), j.kind # "mount", k.cam = j.cam
      PROVE  v = u /\ k = j
    <2>1. k # Mount
        <3>1. j.cam \in Cameras
            BY <1>6, <1>8 DEF IsKnowing, IsJob
        <3> QED
            BY <1>8, <3>1, MountType, NoneAssumption
    <2>2. PICK j0 \in jobs[u] :
              /\ Posts(j0) /\ j0.kind # "mount" /\ j0.cam = j.cam
              /\ u = t => j = [j0 EXCEPT !.mounted = FALSE]
              /\ u # t => j = j0
        BY <1>2, <1>4, <1>8, MountType
    <2>3. PICK k0 \in jobs[v] :
              /\ k0.cam = k.cam
              /\ v = t => k = [k0 EXCEPT !.mounted = FALSE]
              /\ v # t => k = k0
        BY <1>2, <1>4, <2>1
    <2>4. k0.cam = j0.cam
        BY <1>8, <2>2, <2>3
    <2>5. v = u /\ k0 = j0
        <3>1. PostAlone
            BY DEF Sound
        <3> QED
            BY <2>2, <2>4, <3>1 DEF PostAlone
    <2>6. k = j
        <3>1. CASE u = t
            BY <2>2, <2>3, <2>5, <3>1, Zenon
        <3>2. CASE u # t
            BY <2>2, <2>3, <2>5, <3>2, Zenon
        <3> QED
            BY <3>1, <3>2
    <2> QED
        BY <2>5, <2>6
<1> QED
    BY <1>2, <1>6, <1>7, <1>8 DEF Knowing, PostAlone

\* A handler begins, with a camera that is listed or with one that nobody knows.
LEMMA StartStep ==
    ASSUME Sound, NEW t \in Tabs, NEW new, jobs' = [jobs EXCEPT ![t] = jobs[t] \cup {new}],
           IsJob(new), new.kind # "mount", new.answer = None,
           \/ ~Posts(new) /\ rows[new.cam] # Unborn
           \/ /\ Posts(new) /\ rows[new.cam] = Unborn
              /\ \A u \in Tabs : \A j \in jobs[u] : j.cam # new.cam,
           rows' = rows, list' = list
    PROVE  Knowing' /\ PostAlone'
<1>1. \A u \in Tabs : \A j \in jobs[u] : IsKnowing(j)
    BY DEF Sound, Knowing
<1>2. /\ DOMAIN jobs' = Tabs /\ jobs'[t] = jobs[t] \cup {new}
      /\ \A u \in Tabs : u # t => jobs'[u] = jobs[u]
    BY DEF Sound, Knowing
<1>3. IsKnowing(new)
    BY DEF IsKnowing
<1>4. \A u \in Tabs : \A j \in jobs'[u] : IsKnowing(j)'
    BY <1>1, <1>2, <1>3, KnowingStays
<1>5. \A u \in Tabs : Born(list[u])'
    BY DEF Sound, Knowing, Born
<1>6. ASSUME NEW u \in Tabs, NEW v \in Tabs, NEW j \in jobs'[u], NEW k \in jobs'[v],
             Posts(j), j.kind # "mount", k.cam = j.cam
      PROVE  v = u /\ k = j
    <2>1. CASE Posts(new)
        <3>1. \A x \in Tabs : \A i \in jobs[x] : i.cam # new.cam
            BY <2>1
        <3>2. CASE j \in jobs[u] /\ k \in jobs[v]
            BY <1>6, <3>2 DEF Sound, PostAlone
        <3>3. CASE j \notin jobs[u] \/ k \notin jobs[v]
            BY <1>2, <1>6, <3>1, <3>3
        <3> QED
            BY <3>2, <3>3
    <2>2. CASE ~Posts(new)
        <3>1. j \in jobs[u] /\ rows[j.cam] = Unborn
            BY <1>1, <1>2, <1>6, <2>2 DEF IsKnowing
        <3>2. k \in jobs[v]
            BY <1>2, <1>6, <2>2, <3>1
        <3> QED
            BY <1>6, <3>1, <3>2 DEF Sound, PostAlone
    <2> QED
        BY <2>1, <2>2
<1> QED
    BY <1>2, <1>4, <1>5, <1>6 DEF Knowing, PostAlone

-----------------------------------------------------------------------------
(* Types, but for those of the handlers.                                     *)

PageType ==
    /\ token \in Users \cup {None}
    /\ user \in [Tabs -> Users \cup {None}]
    /\ page \in [Tabs -> {"boot", "login", "live", "cameras"}]
    /\ loading \in [Tabs -> BOOLEAN]
    /\ list \in [Tabs -> Copies]
    /\ busy \in [Tabs -> Cameras \cup {None}]
    /\ error \in [Tabs -> BOOLEAN]
    /\ clicks \in 0..MaxClicks

ServerType ==
    /\ rows \in [Cameras -> {Unborn, Deleted} \cup CameraRow]
    /\ worker \in [Cameras -> Modes \cup {None}]

HistoryType ==
    /\ last_by \in [Cameras -> Tabs \cup {None}]
    /\ behind \in [Tabs -> BOOLEAN]
    /\ missed \in SUBSET Cameras

LEMMA TypeParts == TypeOK => PageType /\ ServerType /\ HistoryType
BY DEF TypeOK, PageType, ServerType, HistoryType

LEMMA TypeFromParts == Knowing /\ PageType /\ ServerType /\ HistoryType => TypeOK
<1> SUFFICES ASSUME Knowing, PageType, ServerType, HistoryType PROVE TypeOK
    OBVIOUS
<1>1. ASSUME NEW t \in Tabs, NEW job \in jobs[t]
      PROVE  job.todo # <<>> /\ (job.answer # None => job.todo = <<"list">>)
    <2>1. IsJob(job)
        BY DEF Knowing, IsKnowing
    <2> QED
        BY <2>1, JobTodo DEF IsJob, Listing
<1> QED
    BY <1>1 DEF TypeOK, PageType, ServerType, HistoryType

LEMMA SoundNext ==
    Knowing' /\ PostAlone' /\ NoRowNoWorker' /\ PageType' /\ ServerType' /\ HistoryType' => Sound'
BY TypeFromParts, PTL DEF Sound

LEMMA NoListType == NoList \in Copies
<1>1. NoList \in [{} -> CameraRow]
    BY DEF NoList
<1> QED
    BY <1>1 DEF Copies

-----------------------------------------------------------------------------
(* What pages show.                                                          *)

LEMMA ReportedWhenExists ==
    ASSUME NEW c \in Cameras, Exists(c)
    PROVE  Reported[c] = [rows[c] EXCEPT !.active = @ /\ worker[c] # None]
BY DEF Reported

LEMMA ReportedWhenExistsNext ==
    ASSUME NEW c \in Cameras, Exists(c)'
    PROVE  Reported'[c] = [rows'[c] EXCEPT !.active = @ /\ worker'[c] # None]
BY DEF Reported

\* What the server reports of a camera that nothing happens to.
LEMMA ReportStays ==
    ASSUME NEW c \in Cameras, rows'[c] = rows[c], worker'[c] = worker[c]
    PROVE  /\ Exists(c)' <=> Exists(c)
           /\ Exists(c) => Reported'[c] = Reported[c]
<1>1. Exists(c)' <=> Exists(c)
    BY DEF Exists
<1>2. ASSUME Exists(c) PROVE Reported'[c] = Reported[c]
    <2>1. Exists(c)'
        BY <1>1, <1>2
    <2>2. Reported'[c] = [rows'[c] EXCEPT !.active = @ /\ worker'[c] # None]
        BY <2>1, ReportedWhenExistsNext
    <2> QED
        BY <1>2, <2>2, ReportedWhenExists
<1> QED
    BY <1>1, <1>2

\* A page still tells of a camera that nothing happens to, if its lists stay and
\* each handler that will load one goes on or ends with an error.
LEMMA ShowStays ==
    ASSUME NEW t \in Tabs, NEW c \in Cameras, WillShowIn(t, c),
           rows'[c] = rows[c], worker'[c] = worker[c],
           list'[t] = list[t], behind'[t] = behind[t], error[t] => error'[t],
           \A job \in Mounted(t) : Newest(job) => job \in Mounted(t)',
           \A job \in Mounted(t)' : Newest(job) => job \in Mounted(t),
           \A job \in Mounted(t) : WillList(job, c) =>
              error'[t] \/ \E n \in Mounted(t)' : WillList(n, c)
    PROVE  WillShowIn(t, c)'
<1>1. /\ Exists(c)' <=> Exists(c)
      /\ Exists(c) => Reported'[c] = Reported[c]
    BY ReportStays
<1>2. \A table : Shows(table, c) => Shows(table, c)'
    BY <1>1 DEF Shows
<1>3. Shows(list[t], c) => Shows(list[t], c)'
    BY <1>1 DEF Shows
<1>4. CASE error[t]
    BY <1>4 DEF WillShowIn
<1>5. CASE \E job \in Mounted(t) : WillList(job, c)
    BY <1>5 DEF WillShowIn, WillList
<1>6. CASE \E job \in Mounted(t) : Newest(job) /\ Shows(job.answer, c)
    BY <1>2, <1>6 DEF WillShowIn, Newest
<1>7. CASE (\A job \in Mounted(t) : ~Newest(job)) /\ (behind[t] \/ Shows(list[t], c))
    BY <1>3, <1>7 DEF WillShowIn, Newest
<1> QED
    BY <1>4, <1>5, <1>6, <1>7 DEF WillShowIn

\* A page that a step does not concern still tells of its own writes.
LEMMA ShownElsewhere ==
    ASSUME WillShow, NEW u \in Tabs, NEW c \in Cameras,
           jobs'[u] = jobs[u], list'[u] = list[u], error'[u] = error[u],
           behind'[u] = behind[u],
           last_by'[c] = u => last_by[c] = u /\ rows'[c] = rows[c] /\ worker'[c] = worker[c],
           last_by'[c] = u
    PROVE  WillShowIn(u, c)'
<1>1. WillShowIn(u, c)
    BY DEF WillShow
<1>2. Mounted(u)' = Mounted(u)
    BY DEF Mounted
<1> QED
    BY <1>1, <1>2, ShowStays

\* No list becomes the newest of its page.
LEMMA NewestStays ==
    ASSUME NewestAlone, \A u \in Tabs : \A j \in Mounted(u)' : Newest(j) => j \in Mounted(u)
    PROVE  NewestAlone'
BY DEF NewestAlone, Newest

-----------------------------------------------------------------------------
(* A call that is answered well.                                             *)

LEMMA RestStays ==
    ASSUME NEW job, IsJob(job), job.mounted \/ Tail(job.todo) # Listing
    PROVE  [job EXCEPT !.todo = Tail(job.todo)] \in Rest(job)
<1> DEFINE n == [job EXCEPT !.todo = Tail(job.todo)]
<1>1. n.mounted = job.mounted /\ n.todo = Tail(job.todo)
    BY DEF IsJob
<1> HIDE DEF n
<1>2. n \in {n}
    OBVIOUS
<1>3. n \in Pending({n})
    BY <1>1, <1>2 DEF Pending, Listing
<1> QED
    BY <1>3 DEF Rest, n

\* What remains of a handler after a call has no list yet.
LEMMA RestUnanswered ==
    ASSUME NEW job, IsJob(job), job.todo # Listing, NEW n \in Rest(job)
    PROVE  ~Newest(n) /\ \A c : WillList(job, c) => WillList(n, c)
BY RestMoves DEF Newest, WillList

LEMMA LastByType ==
    ASSUME HistoryType, NEW t \in Tabs, NEW job, job.cam \in Cameras
    PROVE  /\ LastBy(t, job) \in [Cameras -> Tabs \cup {None}]
           /\ \A c \in Cameras : c # job.cam => LastBy(t, job)[c] = last_by[c]
           /\ LastBy(t, job)[job.cam] = IF job.mounted THEN t ELSE None
BY DEF HistoryType, LastBy

LEMMA SucceedsMoves ==
    ASSUME Sound, NEW t \in Tabs, NEW job \in jobs[t], Succeeds(t, job)
    PROVE  /\ IsKnowing(job) /\ IsJob(job) /\ job.todo # Listing
           /\ job.kind # "mount" /\ job.cam \in Cameras
           /\ Head(job.todo) # "list" /\ Admitted(Head(job.todo), job.cam)
           /\ rows' = RowAfter(job, Head(job.todo))
           /\ worker' = WorkerAfter(job, Head(job.todo))
           /\ missed' = MissedAfter(job, Head(job.todo))
           /\ last_by' = IF server' = server THEN last_by ELSE LastBy(t, job)
           /\ Put(t, job, Rest(job))
           /\ UNCHANGED <<session, page, loading, list, busy, error, clicks, behind>>
<1>1. IsKnowing(job) /\ IsJob(job)
    BY DEF Sound, Knowing, IsKnowing
<1>2. job.todo # Listing /\ Len(job.todo) > 1
    BY <1>1, JobTodo DEF Succeeds
<1>3. job.kind # "mount" /\ job.cam \in Cameras
    BY <1>1, <1>2, JobTodo DEF IsJob
<1> QED
    BY <1>1, <1>2, <1>3 DEF Succeeds

\* An admitted call, as far as the rows go that handlers know of.
LEMMA AdmittedStep ==
    ASSUME Sound, NEW job, IsKnowing(job), job.todo # Listing,
           Admitted(Head(job.todo), job.cam),
           rows' \in {rows, RowAfter(job, Head(job.todo))},
           worker' = WorkerAfter(job, Head(job.todo)), list' = list
    PROVE  /\ ServerType' /\ NoRowNoWorker'
           /\ \A c \in Cameras : rows[c] # Unborn => rows'[c] # Unborn
           /\ \A c \in Cameras : c # job.cam => rows'[c] = rows[c] /\ worker'[c] = worker[c]
           /\ rows[job.cam] = Unborn => Posts(job)
           /\ \A u \in Tabs : Born(list[u])'
<1>1. TypeOK /\ NoRowNoWorker
    BY DEF Sound
<1>2. /\ ServerType' /\ NoRowNoWorker'
      /\ \A c \in Cameras : rows[c] # Unborn => rows'[c] # Unborn
      /\ \A c \in Cameras : c # job.cam => rows'[c] = rows[c] /\ worker'[c] = worker[c]
      /\ rows[job.cam] = Unborn => Posts(job)
    BY <1>1, ServerStep DEF ServerType
<1>3. \A u \in Tabs : list[u] \in Copies /\ Born(list[u])
    BY <1>1 DEF TypeOK, Sound, Knowing
<1>4. \A u \in Tabs : Born(list[u])'
    <2> SUFFICES ASSUME NEW u \in Tabs, NEW c \in DOMAIN list[u] PROVE rows'[c] # Unborn
        BY DEF Born
    <2>1. c \in Cameras /\ rows[c] # Unborn
        BY <1>3 DEF Born, Copies
    <2> QED
        BY <1>2, <2>1
<1> QED
    BY <1>2, <1>4

LEMMA SucceedsSound ==
    ASSUME Sound, NEW t \in Tabs, NEW job \in jobs[t], Succeeds(t, job)
    PROVE  Sound'
<1> DEFINE call == Head(job.todo)
           c0 == job.cam
<1>1. /\ IsKnowing(job) /\ IsJob(job) /\ job.todo # Listing
      /\ job.kind # "mount" /\ c0 \in Cameras
      /\ call # "list" /\ Admitted(call, c0)
      /\ rows' = RowAfter(job, call)
      /\ worker' = WorkerAfter(job, call)
      /\ missed' = MissedAfter(job, call)
      /\ last_by' = IF server' = server THEN last_by ELSE LastBy(t, job)
      /\ Put(t, job, Rest(job))
      /\ UNCHANGED <<session, page, loading, list, busy, error, clicks, behind>>
    BY SucceedsMoves
<1>2. /\ ServerType' /\ NoRowNoWorker'
      /\ \A c \in Cameras : rows[c] # Unborn => rows'[c] # Unborn
      /\ \A c \in Cameras : c # c0 => rows'[c] = rows[c] /\ worker'[c] = worker[c]
      /\ rows[c0] = Unborn => Posts(job)
      /\ \A u \in Tabs : Born(list[u])'
    BY <1>1, AdmittedStep
<1>3. rows'[c0] # Unborn
    <2>1. CASE Posts(job)
        <3>1. rows' = [rows EXCEPT ![c0] = NewRow]
            BY <1>1, <2>1 DEF RowAfter, Posts
        <3>2. c0 \in DOMAIN rows
            BY <1>1 DEF Sound, TypeOK
        <3> HIDE DEF c0
        <3> QED
            BY <3>1, <3>2, NewRowType, NoRowAssumption
    <2> QED
        BY <1>1, <1>2, <2>1
<1>4. Knowing' /\ PostAlone'
    <2>1. \A n \in Rest(job) :
              /\ IsJob(n) /\ ~Posts(n) /\ n.cam = job.cam /\ n.kind = job.kind
              /\ n.answer = None
        BY <1>1, RestMoves
    <2>2. \A n \in Rest(job) :
              /\ IsJob(n) /\ ~Posts(n) /\ n.cam = job.cam /\ n.kind = job.kind
              /\ n.answer # None => Born(n.answer)'
              /\ n.kind # "mount" => rows'[n.cam] # Unborn
        BY <1>3, <2>1
    <2>3. jobs' = [jobs EXCEPT ![t] = (jobs[t] \ {job}) \cup Rest(job)]
        BY <1>1 DEF Put
    <2>4. /\ \A c \in Cameras : rows[c] = Unborn /\ c # job.cam => rows'[c] = Unborn
          /\ job.kind # "mount" /\ ~Posts(job) /\ rows[job.cam] = Unborn => rows'[job.cam] = Unborn
        BY <1>2
    <2> QED
        BY <1>2, <2>2, <2>3, <2>4, PutStep
<1>5. PageType'
    BY <1>1, TypeParts DEF Sound, PageType, session
<1>6. HistoryType'
    <2>1. HistoryType
        BY TypeParts DEF Sound
    <2>2. last_by' \in [Cameras -> Tabs \cup {None}]
        BY <1>1, <2>1, LastByType DEF HistoryType
    <2>3. missed' \in SUBSET Cameras
        BY <1>1, <2>1 DEF HistoryType, MissedAfter
    <2> QED
        BY <1>1, <2>1, <2>2, <2>3 DEF HistoryType
<1> QED
    BY <1>2, <1>4, <1>5, <1>6, SoundNext

LEMMA SucceedsNewest ==
    ASSUME Sound, NewestAlone, NEW t \in Tabs, NEW job \in jobs[t], Succeeds(t, job)
    PROVE  NewestAlone'
<1>1. IsJob(job) /\ job.todo # Listing /\ Put(t, job, Rest(job))
    BY SucceedsMoves
<1>2. /\ jobs'[t] = (jobs[t] \ {job}) \cup Rest(job)
      /\ \A u \in Tabs : u # t => jobs'[u] = jobs[u]
    BY <1>1 DEF Sound, Knowing, Put
<1>3. \A n \in Rest(job) : ~Newest(n)
    BY <1>1, RestUnanswered
<1>4. \A u \in Tabs : \A j \in Mounted(u)' : Newest(j) => j \in Mounted(u)
    BY <1>2, <1>3 DEF Mounted
<1> QED
    BY <1>4, NewestStays

LEMMA SucceedsShow ==
    ASSUME Sound, WillShow, NEW t \in Tabs, NEW job \in jobs[t], Succeeds(t, job)
    PROVE  WillShow'
<1> DEFINE c0 == job.cam
           n0 == [job EXCEPT !.todo = Tail(job.todo)]
<1>1. /\ IsKnowing(job) /\ IsJob(job) /\ job.todo # Listing /\ job.kind # "mount" /\ c0 \in Cameras
      /\ Admitted(Head(job.todo), c0)
      /\ rows' = RowAfter(job, Head(job.todo))
      /\ worker' = WorkerAfter(job, Head(job.todo))
      /\ last_by' = IF server' = server THEN last_by ELSE LastBy(t, job)
      /\ Put(t, job, Rest(job))
      /\ UNCHANGED <<list, error, behind>>
    BY SucceedsMoves
<1>2. \A c \in Cameras : c # c0 => rows'[c] = rows[c] /\ worker'[c] = worker[c]
    BY <1>1, AdmittedStep
<1>3. HistoryType
    BY TypeParts DEF Sound
<1>4. /\ jobs'[t] = (jobs[t] \ {job}) \cup Rest(job)
      /\ \A u \in Tabs : u # t => jobs'[u] = jobs[u]
    BY <1>1 DEF Sound, Knowing, Put
<1>5. ASSUME NEW c \in Cameras, last_by'[c] # None
      PROVE  \/ last_by'[c] = last_by[c] /\ rows'[c] = rows[c] /\ worker'[c] = worker[c]
             \/ c = c0 /\ last_by'[c] = t /\ job.mounted
    <2>1. CASE server' = server
        BY <1>1, <2>1 DEF server
    <2>2. CASE server' # server
        <3>1. last_by' = LastBy(t, job)
            BY <1>1, <2>2
        <3> QED
            BY <1>1, <1>2, <1>3, <1>5, <3>1, LastByType
    <2> QED
        BY <2>1, <2>2
<1>6. \A u \in Tabs : u # None
    BY NoneAssumption
<1>7. job.answer = None
    BY <1>1 DEF IsJob
<1>8. \A n \in Rest(job) : ~Newest(n) /\ \A c : WillList(job, c) => WillList(n, c)
    BY <1>1, RestUnanswered
<1>9. job.mounted => n0 \in Mounted(t)' /\ n0 \in Rest(job)
    <2>1. job.mounted => n0 \in Rest(job) /\ n0.mounted
        BY <1>1, RestStays, RestMoves
    <2> HIDE DEF n0
    <2> QED
        BY <1>4, <2>1 DEF Mounted
<1> HIDE DEF n0
<1>10. ASSUME NEW c \in Cameras, last_by'[c] = t PROVE WillShowIn(t, c)'
    <2>1. CASE c = c0 /\ job.mounted
        <3>1. WillList(job, c)
            BY <1>1, <1>7, <2>1 DEF WillList, IsJob, Kinds
        <3>2. n0 \in Mounted(t)' /\ WillList(n0, c)
            BY <1>8, <1>9, <2>1, <3>1
        <3> QED
            BY <3>2 DEF WillShowIn, WillList
    <2>2. CASE last_by[c] = t /\ rows'[c] = rows[c] /\ worker'[c] = worker[c]
        <3>1. WillShowIn(t, c)
            BY <2>2 DEF WillShow
        <3>2. \A j \in Mounted(t) : Newest(j) => j \in Mounted(t)'
            BY <1>4, <1>7 DEF Mounted, Newest
        <3>3. \A j \in Mounted(t)' : Newest(j) => j \in Mounted(t)
            BY <1>4, <1>8 DEF Mounted
        <3>4. ASSUME NEW j \in Mounted(t), WillList(j, c)
              PROVE  \E n \in Mounted(t)' : WillList(n, c)
            <4>1. CASE j = job
                BY <1>8, <1>9, <3>4, <4>1 DEF Mounted
            <4>2. CASE j # job
                BY <1>4, <3>4, <4>2 DEF Mounted
            <4> QED
                BY <4>1, <4>2
        <3> QED
            BY <1>1, <2>2, <3>1, <3>2, <3>3, <3>4, ShowStays
    <2> QED
        BY <1>5, <1>6, <1>10, <2>1, <2>2
<1>11. ASSUME NEW u \in Tabs, NEW c \in Cameras, u # t, last_by'[c] = u
       PROVE  WillShowIn(u, c)'
    <2>1. last_by[c] = u /\ rows'[c] = rows[c] /\ worker'[c] = worker[c]
        BY <1>5, <1>6, <1>11
    <2>2. jobs'[u] = jobs[u] /\ list'[u] = list[u] /\ error'[u] = error[u] /\ behind'[u] = behind[u]
        BY <1>1, <1>4, <1>11
    <2> QED
        BY <1>11, <2>1, <2>2, ShownElsewhere
<1> QED
    BY <1>10, <1>11 DEF WillShow

\* A handler that will restart the worker of a camera.
Restarts(job, c) == job.kind = "mode" /\ job.cam = c /\ job.restart /\ job.todo # Listing

LEMMA ModeParts ==
    /\ ModeReachesWorker <=>
          \A c \in Cameras \ missed : worker[c] # None /\ worker[c] # rows[c].mode =>
              \E t \in Tabs : \E job \in jobs[t] : Restarts(job, c)
    /\ ModeReachesWorker' <=>
          \A c \in Cameras \ missed' : worker'[c] # None /\ worker'[c] # rows'[c].mode =>
              \E t \in Tabs : \E job \in jobs'[t] : Restarts(job, c)
BY DEF ModeReachesWorker, Restarts, Listing

LEMMA ModeTodo ==
    ASSUME NEW job, IsJob(job), job.kind = "mode"
    PROVE  Head(job.todo) \in {"list", "put", "deactivate", "activate"}
<1>1. job.todo \in Todo("mode", job.restart) /\ job.restart \in BOOLEAN
    BY DEF IsJob
<1>2. CASE job.todo = <<"put", "deactivate", "activate", "list">>
    BY <1>2, Four
<1>3. CASE job.todo = <<"deactivate", "activate", "list">>
    BY <1>3, Three
<1>4. CASE job.todo \in {<<"activate", "list">>, <<"put", "list">>}
    BY <1>4, Two
<1>5. CASE job.todo = Listing
    BY <1>5, One
<1> QED
    BY <1>1, <1>2, <1>3, <1>4, <1>5 DEF Todo

\* The handlers that a step leaves alone.
LEMMA OthersStay ==
    ASSUME Sound, NEW t \in Tabs, NEW job \in jobs[t], NEW next, Put(t, job, next),
           NEW c, NEW u \in Tabs, NEW w \in jobs[u], Restarts(w, c), w # job
    PROVE  \E v \in Tabs : \E j \in jobs'[v] : Restarts(j, c)
<1>1. w \in jobs'[u]
    BY DEF Sound, Knowing, Put
<1> QED
    BY <1>1

LEMMA SucceedsMode ==
    ASSUME Sound, ModeReachesWorker, NEW t \in Tabs, NEW job \in jobs[t], Succeeds(t, job)
    PROVE  ModeReachesWorker'
<1> DEFINE call == Head(job.todo)
           c0 == job.cam
           n0 == [job EXCEPT !.todo = Tail(job.todo)]
<1>1. /\ IsKnowing(job) /\ IsJob(job) /\ job.todo # Listing /\ job.kind # "mount" /\ c0 \in Cameras
      /\ Admitted(call, c0)
      /\ rows' = RowAfter(job, call)
      /\ worker' = WorkerAfter(job, call)
      /\ missed' = MissedAfter(job, call)
      /\ Put(t, job, Rest(job))
    BY SucceedsMoves
<1>2. /\ \A c \in Cameras : c # c0 => rows'[c] = rows[c] /\ worker'[c] = worker[c]
      /\ rows[c0] = Unborn => Posts(job)
    BY <1>1, AdmittedStep, SucceedsMoves
<1>3. rows \in [Cameras -> {Unborn, Deleted} \cup CameraRow] /\ worker \in [Cameras -> Modes \cup {None}]
    BY DEF Sound, TypeOK
<1>4. call \in {"put", "deactivate", "activate", "delete", "upload", "post"}
    BY <1>1, JobTodo
<1> SUFFICES ASSUME NEW c \in Cameras \ missed', worker'[c] # None, worker'[c] # rows'[c].mode
             PROVE  \E v \in Tabs : \E j \in jobs'[v] : Restarts(j, c)
    BY ModeParts
<1>5. c \notin missed
    BY <1>1 DEF MissedAfter
<1>6. ASSUME worker[c] # None, worker[c] # rows[c].mode, ~Restarts(job, c)
      PROVE  \E v \in Tabs : \E j \in jobs'[v] : Restarts(j, c)
    <2>1. PICK u \in Tabs : \E w \in jobs[u] : Restarts(w, c)
        BY <1>5, <1>6, ModeParts
    <2>2. PICK w \in jobs[u] : Restarts(w, c)
        BY <2>1
    <2> QED
        BY <1>1, <1>6, <2>2, OthersStay
<1>7. CASE c # c0
    BY <1>2, <1>6, <1>7 DEF Restarts
<1>8. CASE c = c0 /\ call = "put"
    <2>1. worker' = worker
        BY <1>1, <1>8 DEF WorkerAfter
    <2>2. job.restart
        BY <1>1, <1>8, <2>1 DEF MissedAfter
    <2>3. job.kind = "mode" /\ Tail(job.todo) # Listing
        BY <1>1, <1>8, <2>2, JobTodo
    <2>4. n0 \in Rest(job)
        BY <1>1, <2>3, RestStays
    <2>5. Restarts(n0, c)
        BY <1>1, <1>8, <2>2, <2>3, <2>4, RestMoves DEF Restarts
    <2>6. n0 \in jobs'[t]
        BY <1>1, <2>4 DEF Sound, Knowing, Put
    <2> QED
        BY <2>5, <2>6
<1>9. CASE c = c0 /\ call \in {"deactivate", "delete"}
    BY <1>1, <1>3, <1>9 DEF WorkerAfter
<1>10. CASE c = c0 /\ call = "activate"
    <2>1. rows' = [rows EXCEPT ![c0].active = TRUE] /\ worker' = [worker EXCEPT ![c0] = rows[c0].mode]
        BY <1>1, <1>10 DEF RowAfter, WorkerAfter
    <2>2. rows[c0] \in CameraRow
        BY <1>1, <1>3, <1>10 DEF Admitted, Exists
    <2>3. [rows[c0] EXCEPT !.active = TRUE].mode = rows[c0].mode
        BY <2>2 DEF CameraRow
    <2> HIDE DEF c0
    <2> QED
        BY <1>1, <1>3, <1>10, <2>1, <2>3
<1>11. CASE c = c0 /\ call = "upload"
    <2>1. rows' = rows /\ worker' = worker
        BY <1>1, <1>11 DEF RowAfter, WorkerAfter
    <2>2. job.kind # "mode"
        BY <1>1, <1>11, ModeTodo
    <2> QED
        BY <1>6, <2>1, <2>2 DEF Restarts
<1>12. CASE c = c0 /\ call = "post"
    <2>1. worker' = worker
        BY <1>1, <1>12 DEF WorkerAfter
    <2>2. rows[c0] = Unborn
        BY <1>1, <1>12 DEF IsKnowing, Posts
    <2>3. worker[c0] = None
        BY <1>1, <2>2 DEF Sound, NoRowNoWorker, Exists
    <2> QED
        BY <1>12, <2>1, <2>3
<1> QED
    BY <1>4, <1>7, <1>8, <1>9, <1>10, <1>11, <1>12

-----------------------------------------------------------------------------
(* A list that is answered, and one that arrives.                            *)

LEMMA ListAnsweredInv ==
    ASSUME IInv, NEW t \in Tabs, NEW job \in jobs[t], ListAnswered(t, job)
    PROVE  IInv'
<1> DEFINE n0 == [job EXCEPT !.answer = Reported]
           others == jobs[t] \ {job}
<1>1. TypeOK /\ Sound /\ NewestAlone /\ WillShow /\ ModeReachesWorker /\ NoRowNoWorker
    BY DEF IInv, Sound
<1>2. IsKnowing(job) /\ IsJob(job)
    BY DEF IInv, Sound, Knowing, IsKnowing
<1>3. /\ job.todo = Listing /\ job.answer = None
      /\ jobs' = [jobs EXCEPT ![t] = Outdated(others) \cup {n0}]
      /\ UNCHANGED <<rows, worker, session, page, loading, list, busy, error, clicks,
                     last_by, behind, missed>>
    BY <1>2, JobTodo DEF ListAnswered, server, view, history
<1>4. /\ IsJob(n0) /\ ~Posts(n0) /\ n0.kind = job.kind /\ n0.cam = job.cam
      /\ n0.restart = job.restart /\ n0.mounted = TRUE /\ n0.answer = Reported
      /\ n0.todo = Listing /\ n0.older = FALSE
    BY <1>1, <1>2, <1>3, AnsweredMoves
<1> HIDE DEF n0
<1>5. /\ jobs'[t] = Outdated(others) \cup {n0}
      /\ \A u \in Tabs : u # t => jobs'[u] = jobs[u]
    BY <1>1, <1>3 DEF Sound, Knowing
<1>6. ~Posts(job)
    BY <1>3, One DEF Posts
<1>7. Sound'
    <2>1. ServerType' /\ PageType' /\ HistoryType' /\ NoRowNoWorker'
        BY <1>1, <1>3, TypeParts
        DEF ServerType, PageType, HistoryType, NoRowNoWorker, Exists, session
    <2>2. Born(Reported)
        BY <1>1, ReportedType
    <2>3. Knowing' /\ PostAlone'
        BY <1>1, <1>3, <1>4, <1>6, <2>2, AnswerStep
    <2> QED
        BY <2>1, <2>3, SoundNext
<1>8. \A j \in others : IsJob(j)
    BY <1>1 DEF Sound, Knowing, IsKnowing
<1>9. others \subseteq jobs[t]
    OBVIOUS
<1> HIDE DEF others
<1>10. NewestAlone'
    <2>1. \A n \in Outdated(others) : ~Newest(n)
        BY <1>8, OutdatedMoves
    <2>2. \A j \in Mounted(t)' : Newest(j) => j = n0
        BY <1>5, <2>1 DEF Mounted
    <2>3. \A u \in Tabs : u # t => Mounted(u)' = Mounted(u)
        BY <1>5 DEF Mounted
    <2> QED
        BY <1>1, <2>2, <2>3 DEF NewestAlone, Newest
<1>11. WillShow'
    <2>1. ASSUME NEW c \in Cameras PROVE WillShowIn(t, c)'
        <3>1. n0 \in Mounted(t)'
            BY <1>4, <1>5 DEF Mounted
        <3>2. Reported # None
            BY <1>1, ReportedType, NoneAssumption
        <3>3. Newest(n0)
            BY <1>4, <3>2 DEF Newest
        <3>4. Shows(n0.answer, c)
            BY <1>1, <1>4, ReportedType
        <3>5. /\ Exists(c)' <=> Exists(c)
              /\ Exists(c) => Reported'[c] = Reported[c]
            BY <1>3, ReportStays
        <3>6. PICK n : n = n0
            OBVIOUS
        <3>7. n \in Mounted(t)' /\ Newest(n) /\ Shows(n.answer, c)
            BY <3>1, <3>3, <3>4, <3>6
        <3>8. Shows(n.answer, c)'
            BY <3>5, <3>7 DEF Shows
        <3> QED
            BY <3>7, <3>8 DEF WillShowIn, Newest
    <2>2. ASSUME NEW u \in Tabs, NEW c \in Cameras, u # t, last_by'[c] = u
          PROVE  WillShowIn(u, c)'
        BY <1>1, <1>3, <1>5, <2>2, ShownElsewhere
    <2> QED
        BY <2>1, <2>2 DEF WillShow
<1>12. ModeReachesWorker'
    <2> SUFFICES ASSUME NEW c \in Cameras \ missed', worker'[c] # None, worker'[c] # rows'[c].mode
                 PROVE  \E v \in Tabs : \E j \in jobs'[v] : Restarts(j, c)
        BY ModeParts
    <2>1. PICK u \in Tabs : \E w \in jobs[u] : Restarts(w, c)
        BY <1>1, <1>3, ModeParts
    <2>2. PICK w \in jobs[u] : Restarts(w, c)
        BY <2>1
    <2>3. w # job
        BY <1>3, <2>2 DEF Restarts
    <2>4. CASE u # t
        BY <1>5, <2>2, <2>4
    <2>5. CASE u = t
        <3> DEFINE n == [w EXCEPT !.older = w.answer # None]
        <3>1. w \in others
            BY <2>2, <2>3, <2>5 DEF others
        <3>2. n.kind = w.kind /\ n.cam = w.cam /\ n.restart = w.restart /\ n.todo = w.todo
            BY <1>8, <3>1 DEF IsJob
        <3>3. n \in Outdated(others)
            BY <3>1 DEF Outdated
        <3> HIDE DEF n
        <3>4. Restarts(n, c) /\ n \in jobs'[t]
            BY <1>5, <2>2, <3>2, <3>3 DEF Restarts
        <3> QED
            BY <3>4
    <2> QED
        BY <2>4, <2>5
<1> QED
    BY <1>7, <1>10, <1>11, <1>12 DEF IInv

LEMMA NotBusyType ==
    ASSUME busy \in [Tabs -> Cameras \cup {None}], NEW t \in Tabs, NEW job
    PROVE  NotBusy(t, job) \in [Tabs -> Cameras \cup {None}]
BY DEF NotBusy

LEMMA ListArrivesInv ==
    ASSUME IInv, NEW t \in Tabs, NEW job \in jobs[t], ListArrives(t, job)
    PROVE  IInv'
<1>1. Sound /\ TypeOK /\ NewestAlone /\ WillShow /\ ModeReachesWorker /\ NoRowNoWorker
    BY DEF IInv, Sound
<1>2. IsKnowing(job) /\ IsJob(job)
    BY <1>1 DEF Sound, Knowing, IsKnowing
<1>3. /\ job.answer # None /\ Put(t, job, {})
      /\ list' = [list EXCEPT ![t] = job.answer]
      /\ loading' = [loading EXCEPT ![t] = FALSE]
      /\ busy' = NotBusy(t, job)
      /\ behind' = [behind EXCEPT ![t] = job.older]
      /\ UNCHANGED <<rows, worker, session, page, error, clicks, last_by, missed>>
    BY DEF ListArrives, server, history
<1>4. job.todo = Listing /\ job.answer \in Copies /\ Born(job.answer) /\ job.mounted /\ ~Posts(job)
      /\ job.older \in BOOLEAN
    BY <1>2, <1>3, One DEF IsKnowing, IsJob, Posts
<1>5. /\ jobs' = [jobs EXCEPT ![t] = (jobs[t] \ {job}) \cup {}]
      /\ jobs'[t] = jobs[t] \ {job}
      /\ \A u \in Tabs : u # t => jobs'[u] = jobs[u]
    BY <1>1, <1>3 DEF Sound, Knowing, Put
<1>6. /\ list'[t] = job.answer /\ behind'[t] = job.older
      /\ \A u \in Tabs : u # t => list'[u] = list[u] /\ behind'[u] = behind[u]
    BY <1>1, <1>3 DEF TypeOK
<1>7. Sound'
    <2>1. ServerType' /\ HistoryType' /\ NoRowNoWorker'
        BY <1>1, <1>3, <1>4, TypeParts
        DEF ServerType, HistoryType, NoRowNoWorker, Exists
    <2>2. PageType'
        <3>1. PageType /\ NotBusy(t, job) \in [Tabs -> Cameras \cup {None}]
            BY <1>1, TypeParts, NotBusyType DEF PageType
        <3>2. /\ list' \in [Tabs -> Copies]
              /\ loading' \in [Tabs -> BOOLEAN]
            BY <1>3, <1>4, <3>1 DEF PageType
        <3> QED
            BY <1>3, <3>1, <3>2 DEF PageType, session
    <2>3. \A u \in Tabs : Born(list[u])'
        BY <1>1, <1>3, <1>4, <1>6 DEF Sound, Knowing, Born
    <2> DEFINE next == {}
    <2>4. \A n \in next :
              /\ IsJob(n) /\ ~Posts(n) /\ n.cam = job.cam /\ n.kind = job.kind
              /\ n.answer # None => Born(n.answer)'
              /\ n.kind # "mount" => rows'[n.cam] # Unborn
        OBVIOUS
    <2>5. /\ \A c \in Cameras : rows[c] # Unborn => rows'[c] # Unborn
          /\ \A c \in Cameras : rows[c] = Unborn /\ c # job.cam => rows'[c] = Unborn
          /\ job.kind # "mount" /\ ~Posts(job) /\ rows[job.cam] = Unborn => rows'[job.cam] = Unborn
        BY <1>3
    <2>6. jobs' = [jobs EXCEPT ![t] = (jobs[t] \ {job}) \cup next]
        BY <1>5
    <2> HIDE DEF next
    <2>7. Knowing' /\ PostAlone'
        BY <1>1, <2>3, <2>4, <2>5, <2>6, PutStep
    <2> QED
        BY <2>1, <2>2, <2>7, SoundNext
<1>8. NewestAlone'
    <2>1. \A u \in Tabs : \A j \in Mounted(u)' : Newest(j) => j \in Mounted(u)
        BY <1>5 DEF Mounted
    <2> QED
        BY <1>1, <2>1, NewestStays
<1>9. WillShow'
    <2>1. ASSUME NEW c \in Cameras, last_by'[c] = t PROVE WillShowIn(t, c)'
        <3>1. WillShowIn(t, c)
            BY <1>1, <1>3, <2>1 DEF WillShow
        <3>2. /\ Exists(c)' <=> Exists(c)
              /\ Exists(c) => Reported'[c] = Reported[c]
            BY <1>3, ReportStays
        <3>3. \A table : Shows(table, c) => Shows(table, c)'
            BY <3>2 DEF Shows
        <3>4. job \in Mounted(t) /\ \A j \in Mounted(t) : j = job \/ j \in Mounted(t)'
            BY <1>4, <1>5 DEF Mounted
        <3>5. \A j \in Mounted(t)' : j \in Mounted(t) /\ j # job
            BY <1>5 DEF Mounted
        <3>6. CASE error[t]
            BY <1>3, <3>6 DEF WillShowIn
        <3>7. CASE \E j \in Mounted(t) : WillList(j, c)
            BY <1>3, <3>4, <3>7 DEF WillShowIn, WillList
        <3>8. CASE \E j \in Mounted(t) : j # job /\ Newest(j) /\ Shows(j.answer, c)
            BY <3>3, <3>4, <3>8 DEF WillShowIn, Newest
        <3>9. CASE Newest(job) /\ Shows(job.answer, c)
            <4>1. \A j \in Mounted(t)' : ~Newest(j)
                BY <1>1, <3>4, <3>5, <3>9 DEF NewestAlone
            <4>2. Shows(list[t], c)'
                BY <1>6, <3>2, <3>9 DEF Shows
            <4> QED
                BY <4>1, <4>2 DEF WillShowIn, Newest
        <3>10. CASE \A j \in Mounted(t) : ~Newest(j)
            <4>1. behind'[t]
                BY <1>3, <1>4, <1>6, <3>4, <3>10 DEF Newest
            <4>2. \A j \in Mounted(t)' : ~Newest(j)
                BY <3>5, <3>10
            <4> QED
                BY <4>1, <4>2 DEF WillShowIn, Newest
        <3> QED
            BY <3>1, <3>6, <3>7, <3>8, <3>9, <3>10 DEF WillShowIn
    <2>2. ASSUME NEW u \in Tabs, NEW c \in Cameras, u # t, last_by'[c] = u
          PROVE  WillShowIn(u, c)'
        BY <1>1, <1>3, <1>5, <1>6, <2>2, ShownElsewhere
    <2> QED
        BY <2>1, <2>2 DEF WillShow
<1>10. ModeReachesWorker'
    <2> SUFFICES ASSUME NEW c \in Cameras \ missed', worker'[c] # None, worker'[c] # rows'[c].mode
                 PROVE  \E v \in Tabs : \E j \in jobs'[v] : Restarts(j, c)
        BY ModeParts
    <2>1. PICK u \in Tabs : \E w \in jobs[u] : Restarts(w, c)
        BY <1>1, <1>3, ModeParts
    <2>2. PICK w \in jobs[u] : Restarts(w, c)
        BY <2>1
    <2>3. w # job
        BY <1>4, <2>2 DEF Restarts
    <2> QED
        BY <1>1, <1>3, <2>2, <2>3, OthersStay
<1> QED
    BY <1>7, <1>8, <1>9, <1>10 DEF IInv

-----------------------------------------------------------------------------
(* A handler that ends with an error.                                        *)

\* Of a deletion that was caught its page tells no more.
LEMMA CaughtType ==
    ASSUME NEW t \in Tabs, NEW job, NEW by \in [Cameras -> Tabs \cup {None}]
    PROVE  /\ LastByCaught(t, job, by) \in [Cameras -> Tabs \cup {None}]
           /\ \A c \in Cameras : LastByCaught(t, job, by)[c] # None =>
                 /\ LastByCaught(t, job, by)[c] = by[c]
                 /\ job.kind = "remove" /\ c = job.cam => LastByCaught(t, job, by)[c] # t
BY DEF LastByCaught

LEMMA CaughtInv ==
    ASSUME IInv, NEW t \in Tabs, NEW job \in jobs[t], job.answer = None, Caught(t, job),
           \/ UNCHANGED server /\ last_by' = LastByCaught(t, job, last_by)
           \/ /\ Head(job.todo) # "list" /\ Admitted(Head(job.todo), job.cam)
              /\ rows' \in {rows, RowAfter(job, Head(job.todo))}
              /\ worker' = WorkerAfter(job, Head(job.todo))
              /\ last_by' = LastByCaught(t, job, LastBy(t, job)),
           missed' \in SUBSET Cameras
    PROVE  Sound' /\ NewestAlone' /\ WillShow'
<1>1. Sound /\ TypeOK /\ NewestAlone /\ WillShow /\ NoRowNoWorker /\ HistoryType /\ PageType
    BY TypeParts DEF IInv, Sound
<1>2. IsKnowing(job) /\ IsJob(job)
    BY <1>1 DEF Sound, Knowing, IsKnowing
<1>3. /\ Put(t, job, {})
      /\ error' = [error EXCEPT ![t] = @ \/ (job.mounted /\ job.kind \notin {"mount", "remove"})]
      /\ busy' = NotBusy(t, job)
      /\ UNCHANGED <<session, page, loading, list, clicks, behind>>
    BY DEF Caught
<1>4. /\ jobs' = [jobs EXCEPT ![t] = (jobs[t] \ {job}) \cup {}]
      /\ jobs'[t] = jobs[t] \ {job}
      /\ \A u \in Tabs : u # t => jobs'[u] = jobs[u]
    BY <1>1, <1>3 DEF Sound, Knowing, Put
<1>5. /\ error'[t] <=> error[t] \/ (job.mounted /\ job.kind \notin {"mount", "remove"})
      /\ \A u \in Tabs : u # t => error'[u] = error[u]
    BY <1>1, <1>3 DEF TypeOK
<1>6. /\ ServerType' /\ NoRowNoWorker'
      /\ \A c \in Cameras : rows[c] # Unborn => rows'[c] # Unborn
      /\ \A c \in Cameras : c # job.cam => rows'[c] = rows[c] /\ worker'[c] = worker[c]
      /\ rows'[job.cam] = rows[job.cam] \/ (rows[job.cam] = Unborn => Posts(job))
      /\ \A u \in Tabs : Born(list[u])'
      /\ last_by' \in [Cameras -> Tabs \cup {None}]
      /\ \A c \in Cameras : last_by'[c] # None =>
            \/ /\ last_by'[c] = last_by[c] /\ rows'[c] = rows[c] /\ worker'[c] = worker[c]
               /\ job.kind = "remove" /\ c = job.cam => last_by'[c] # t
            \/ c = job.cam /\ last_by'[c] = t /\ job.mounted /\ job.kind \notin {"mount", "remove"}
    <2>1. CASE UNCHANGED server /\ last_by' = LastByCaught(t, job, last_by)
        <3>1. /\ last_by' \in [Cameras -> Tabs \cup {None}]
              /\ \A c \in Cameras : last_by'[c] # None =>
                    /\ last_by'[c] = last_by[c]
                    /\ job.kind = "remove" /\ c = job.cam => last_by'[c] # t
            BY <1>1, <2>1, CaughtType DEF HistoryType
        <3>2. /\ ServerType' /\ NoRowNoWorker'
              /\ \A u \in Tabs : Born(list[u])'
            BY <1>1, <1>3, <2>1, TypeParts
            DEF server, ServerType, NoRowNoWorker, Exists, Sound, Knowing, Born
        <3> QED
            BY <2>1, <3>1, <3>2 DEF server
    <2>2. CASE /\ Head(job.todo) # "list" /\ Admitted(Head(job.todo), job.cam)
               /\ rows' \in {rows, RowAfter(job, Head(job.todo))}
               /\ worker' = WorkerAfter(job, Head(job.todo))
               /\ last_by' = LastByCaught(t, job, LastBy(t, job))
        <3>1. job.todo # Listing /\ job.kind # "mount" /\ job.cam \in Cameras
            BY <1>2, <2>2, JobTodo DEF IsJob
        <3>2. /\ ServerType' /\ NoRowNoWorker'
              /\ \A c \in Cameras : rows[c] # Unborn => rows'[c] # Unborn
              /\ \A c \in Cameras : c # job.cam => rows'[c] = rows[c] /\ worker'[c] = worker[c]
              /\ rows[job.cam] = Unborn => Posts(job)
              /\ \A u \in Tabs : Born(list[u])'
            BY <1>1, <1>2, <1>3, <2>2, <3>1, AdmittedStep
        <3>3. /\ LastBy(t, job) \in [Cameras -> Tabs \cup {None}]
              /\ \A c \in Cameras : c # job.cam => LastBy(t, job)[c] = last_by[c]
              /\ LastBy(t, job)[job.cam] = IF job.mounted THEN t ELSE None
            BY <1>1, <3>1, LastByType
        <3>4. /\ last_by' \in [Cameras -> Tabs \cup {None}]
              /\ \A c \in Cameras : last_by'[c] # None =>
                    /\ last_by'[c] = LastBy(t, job)[c]
                    /\ job.kind = "remove" /\ c = job.cam => last_by'[c] # t
            BY <2>2, <3>3, CaughtType
        <3>5. ASSUME NEW c \in Cameras, last_by'[c] # None
              PROVE  \/ /\ last_by'[c] = last_by[c] /\ rows'[c] = rows[c] /\ worker'[c] = worker[c]
                        /\ job.kind = "remove" /\ c = job.cam => last_by'[c] # t
                     \/ /\ c = job.cam /\ last_by'[c] = t /\ job.mounted
                        /\ job.kind \notin {"mount", "remove"}
            <4>1. CASE c # job.cam
                BY <3>2, <3>3, <3>4, <3>5, <4>1
            <4>2. CASE c = job.cam
                BY <3>1, <3>3, <3>4, <3>5, <4>2
            <4> QED
                BY <4>1, <4>2
        <3> QED
            BY <3>2, <3>4, <3>5
    <2> QED
        BY <2>1, <2>2
<1>7. \A u \in Tabs : u # None
    BY NoneAssumption
<1>8. Sound'
    <2>1. HistoryType'
        BY <1>1, <1>3, <1>6 DEF HistoryType
    <2>2. PageType'
        <3>1. busy' \in [Tabs -> Cameras \cup {None}]
            BY <1>1, <1>3, NotBusyType DEF PageType
        <3>2. error' \in [Tabs -> BOOLEAN]
            BY <1>1, <1>3 DEF PageType
        <3> QED
            BY <1>1, <1>3, <3>1, <3>2 DEF PageType, session
    <2> DEFINE next == {}
    <2>3. \A n \in next :
              /\ IsJob(n) /\ ~Posts(n) /\ n.cam = job.cam /\ n.kind = job.kind
              /\ n.answer # None => Born(n.answer)'
              /\ n.kind # "mount" => rows'[n.cam] # Unborn
        OBVIOUS
    <2>4. /\ \A c \in Cameras : rows[c] # Unborn => rows'[c] # Unborn
          /\ \A c \in Cameras : rows[c] = Unborn /\ c # job.cam => rows'[c] = Unborn
          /\ job.kind # "mount" /\ ~Posts(job) /\ rows[job.cam] = Unborn => rows'[job.cam] = Unborn
          /\ \A u \in Tabs : Born(list[u])'
        BY <1>6
    <2>5. jobs' = [jobs EXCEPT ![t] = (jobs[t] \ {job}) \cup next]
        BY <1>4
    <2> HIDE DEF next
    <2>6. Knowing' /\ PostAlone'
        BY <1>1, <2>3, <2>4, <2>5, PutStep
    <2> QED
        BY <1>6, <2>1, <2>2, <2>6, SoundNext
<1>9. NewestAlone'
    <2>1. \A u \in Tabs : \A j \in Mounted(u)' : Newest(j) => j \in Mounted(u)
        BY <1>4 DEF Mounted
    <2> QED
        BY <1>1, <2>1, NewestStays
<1>10. WillShow'
    <2>1. ASSUME NEW c \in Cameras, last_by'[c] = t PROVE WillShowIn(t, c)'
        <3>1. CASE error'[t]
            BY <3>1 DEF WillShowIn
        <3>2. CASE ~error'[t]
            <4>1. ~(job.mounted /\ job.kind \notin {"mount", "remove"}) /\ ~error[t]
                BY <1>5, <3>2
            <4>2. /\ last_by[c] = t /\ rows'[c] = rows[c] /\ worker'[c] = worker[c]
                  /\ ~(job.kind = "remove" /\ c = job.cam)
                BY <1>6, <1>7, <2>1, <4>1
            <4>3. WillShowIn(t, c)
                BY <1>1, <4>2 DEF WillShow
            <4>4. \A j \in Mounted(t) : Newest(j) => j \in Mounted(t)'
                BY <1>4 DEF Mounted, Newest
            <4>5. \A j \in Mounted(t)' : Newest(j) => j \in Mounted(t)
                BY <1>4 DEF Mounted
            <4>6. ~(job.mounted /\ WillList(job, c))
                BY <4>1, <4>2 DEF WillList
            <4>7. ASSUME NEW j \in Mounted(t), WillList(j, c)
                  PROVE  \E n \in Mounted(t)' : WillList(n, c)
                BY <1>4, <4>6, <4>7 DEF Mounted
            <4>8. list'[t] = list[t] /\ behind'[t] = behind[t]
                BY <1>3
            <4> QED
                BY <4>1, <4>2, <4>3, <4>4, <4>5, <4>7, <4>8, ShowStays
        <3> QED
            BY <3>1, <3>2
    <2>2. ASSUME NEW u \in Tabs, NEW c \in Cameras, u # t, last_by'[c] = u
          PROVE  WillShowIn(u, c)'
        <3>1. last_by[c] = u /\ rows'[c] = rows[c] /\ worker'[c] = worker[c]
            BY <1>6, <1>7, <2>2
        <3> QED
            BY <1>1, <1>3, <1>4, <1>5, <2>2, <3>1, ShownElsewhere
    <2> QED
        BY <2>1, <2>2 DEF WillShow
<1> QED
    BY <1>8, <1>9, <1>10

\* Restarts that are remembered as missed are those of cameras.
LEMMA UnfinishedType ==
    ASSUME NEW js, \A j \in js : IsJob(j)
    PROVE  /\ Unfinished(js) \subseteq Cameras
           /\ \A w \in js : \A c : Restarts(w, c) /\ worker[c] # None => c \in Unfinished(js)
<1>1. Unfinished(js) \subseteq Cameras
    BY DEF Unfinished, IsJob
<1>2. ASSUME NEW w \in js, NEW c, Restarts(w, c), worker[c] # None PROVE c \in Unfinished(js)
    <2>1. w \in {i \in js : i.kind = "mode" /\ i.restart /\ i.todo # <<"list">> /\ worker[i.cam] # None}
        BY <1>2 DEF Restarts, Listing
    <2>2. c = w.cam
        BY <1>2 DEF Restarts
    <2> QED
        BY <2>1, <2>2 DEF Unfinished
<1> QED
    BY <1>1, <1>2

LEMMA RefusedInv ==
    ASSUME IInv, NEW t \in Tabs, NEW job \in jobs[t], Refused(t, job)
    PROVE  IInv'
<1>1. Sound /\ ModeReachesWorker
    BY DEF IInv
<1>2. IsJob(job)
    BY <1>1 DEF Sound, Knowing, IsKnowing
<1>3. /\ job.answer = None /\ Caught(t, job) /\ Put(t, job, {})
      /\ missed' = missed \cup Unfinished({job})
      /\ UNCHANGED server /\ last_by' = LastByCaught(t, job, last_by)
    BY DEF Refused, Caught
<1>4. /\ Unfinished({job}) \subseteq Cameras
      /\ \A c : Restarts(job, c) /\ worker[c] # None => c \in Unfinished({job})
    BY <1>2, UnfinishedType
<1>5. missed' \in SUBSET Cameras
    BY <1>1, <1>3, <1>4 DEF Sound, TypeOK
<1>6. Sound' /\ NewestAlone' /\ WillShow'
    BY <1>3, <1>5, CaughtInv
<1>7. ModeReachesWorker'
    <2> SUFFICES ASSUME NEW c \in Cameras \ missed', worker'[c] # None, worker'[c] # rows'[c].mode
                 PROVE  \E v \in Tabs : \E j \in jobs'[v] : Restarts(j, c)
        BY ModeParts
    <2>1. c \notin missed /\ worker[c] # None /\ worker[c] # rows[c].mode
        BY <1>3 DEF server
    <2>2. PICK u \in Tabs : \E w \in jobs[u] : Restarts(w, c)
        BY <1>1, <2>1, ModeParts
    <2>3. PICK w \in jobs[u] : Restarts(w, c)
        BY <2>2
    <2>4. w # job
        BY <1>3, <1>4, <2>1, <2>3
    <2> QED
        BY <1>1, <1>3, <2>3, <2>4, OthersStay
<1> QED
    BY <1>6, <1>7 DEF IInv

\* A call that fails: what it did to the server is done or not.
LEMMA FailsInv ==
    ASSUME IInv, NEW t \in Tabs, NEW job \in jobs[t], Fails(t, job)
    PROVE  IInv'
<1> DEFINE call == Head(job.todo)
           c0 == job.cam
           late == IF call = "put" /\ job.restart THEN {c0} ELSE {}
<1>1. Sound /\ ModeReachesWorker
    BY DEF IInv
<1>2. IsKnowing(job) /\ IsJob(job)
    BY <1>1 DEF Sound, Knowing, IsKnowing
<1>3. /\ job.answer = None /\ Caught(t, job) /\ Put(t, job, {})
      /\ \/ UNCHANGED server /\ last_by' = LastByCaught(t, job, last_by)
         \/ /\ call # "list" /\ Admitted(call, c0)
            /\ rows' \in {rows, RowAfter(job, call)}
            /\ worker' = WorkerAfter(job, call)
            /\ last_by' = LastByCaught(t, job, LastBy(t, job))
      /\ missed' = {c \in MissedAfter(job, call) \cup Unfinished({job}) \cup late : worker'[c] # None}
      /\ list' = list
    BY DEF Fails, Caught
<1>4. /\ Unfinished({job}) \subseteq Cameras
      /\ \A c : Restarts(job, c) /\ worker[c] # None => c \in Unfinished({job})
    BY <1>2, UnfinishedType
<1>5. call = "put" => job.kind = "mode" /\ c0 \in Cameras
    BY <1>2, JobTodo DEF IsJob
<1>6. missed' \in SUBSET Cameras
    BY <1>1, <1>3, <1>4, <1>5 DEF Sound, TypeOK, MissedAfter
<1>7. Sound' /\ NewestAlone' /\ WillShow'
    BY <1>3, <1>6, CaughtInv
<1>8. ModeReachesWorker'
    <2> SUFFICES ASSUME NEW c \in Cameras \ missed', worker'[c] # None, worker'[c] # rows'[c].mode
                 PROVE  \E v \in Tabs : \E j \in jobs'[v] : Restarts(j, c)
        BY ModeParts
    <2>1. c \notin MissedAfter(job, call) /\ c \notin Unfinished({job}) /\ c \notin late
        BY <1>3
    <2>2. c \notin missed
        BY <2>1 DEF MissedAfter
    <2>3. ASSUME worker[c] # None, worker[c] # rows[c].mode
          PROVE  \E v \in Tabs : \E j \in jobs'[v] : Restarts(j, c)
        <3>1. PICK u \in Tabs : \E w \in jobs[u] : Restarts(w, c)
            BY <1>1, <2>2, <2>3, ModeParts
        <3>2. PICK w \in jobs[u] : Restarts(w, c)
            BY <3>1
        <3>3. w # job
            BY <1>4, <2>1, <2>3, <3>2
        <3> QED
            BY <1>1, <1>3, <3>2, <3>3, OthersStay
    <2>4. CASE UNCHANGED server
        BY <2>3, <2>4 DEF server
    <2>5. CASE /\ call # "list" /\ Admitted(call, c0)
               /\ rows' \in {rows, RowAfter(job, call)}
               /\ worker' = WorkerAfter(job, call)
        <3>1. job.todo # Listing /\ c0 \in Cameras
            BY <1>2, <2>5, JobTodo DEF IsJob
        <3>2. \A d \in Cameras : d # c0 => rows'[d] = rows[d] /\ worker'[d] = worker[d]
            BY <1>1, <1>2, <1>3, <2>5, <3>1, AdmittedStep
        <3>3. /\ rows \in [Cameras -> {Unborn, Deleted} \cup CameraRow]
              /\ worker \in [Cameras -> Modes \cup {None}]
            BY <1>1 DEF Sound, TypeOK
        <3>4. call \in {"put", "deactivate", "activate", "delete", "upload", "post"}
            BY <1>2, <2>5, JobTodo
        <3>5. CASE c # c0
            BY <2>3, <3>2, <3>5
        <3>6. CASE c = c0 /\ call = "put"
            <4>1. worker' = worker
                BY <2>5, <3>6 DEF WorkerAfter
            <4> QED
                BY <2>1, <3>6, <4>1 DEF MissedAfter
        <3>7. CASE c = c0 /\ call \in {"deactivate", "delete"}
            BY <2>5, <3>3, <3>7 DEF WorkerAfter
        <3>8. CASE c = c0 /\ call = "activate"
            <4>1. /\ rows' = rows \/ rows' = [rows EXCEPT ![c0].active = TRUE]
                  /\ worker' = [worker EXCEPT ![c0] = rows[c0].mode]
                BY <2>5, <3>8 DEF RowAfter, WorkerAfter
            <4>2. rows[c0] \in CameraRow
                BY <2>5, <3>1, <3>3, <3>8 DEF Admitted, Exists
            <4>3. [rows[c0] EXCEPT !.active = TRUE].mode = rows[c0].mode
                BY <4>2 DEF CameraRow
            <4> HIDE DEF c0
            <4> QED
                BY <3>1, <3>3, <3>8, <4>1, <4>3
        <3>9. CASE c = c0 /\ call = "upload"
            <4>1. rows' = rows /\ worker' = worker
                BY <2>5, <3>9 DEF RowAfter, WorkerAfter
            <4> QED
                BY <2>3, <4>1
        <3>10. CASE c = c0 /\ call = "post"
            <4>1. worker' = worker
                BY <2>5, <3>10 DEF WorkerAfter
            <4>2. rows[c0] = Unborn
                BY <1>2, <3>1, <3>10, JobTodo DEF IsKnowing, Posts
            <4>3. worker[c0] = None
                BY <1>1, <3>1, <4>2 DEF Sound, NoRowNoWorker, Exists
            <4> QED
                BY <3>10, <4>1, <4>3
        <3> QED
            BY <3>4, <3>5, <3>6, <3>7, <3>8, <3>9, <3>10
    <2> QED
        BY <1>3, <2>4, <2>5
<1> QED
    BY <1>7, <1>8 DEF IInv

-----------------------------------------------------------------------------
(* A handler begins.                                                         *)

LEMMA StartInv ==
    ASSUME IInv, NEW t \in Tabs, NEW new, Start(t, new), page[t] \in {"live", "cameras"},
           CanManage(t), busy' \in [Tabs -> Cameras \cup {None}],
           IsJob(new), new.kind # "mount", new.answer = None, new.mounted = TRUE,
           \/ ~Posts(new) /\ rows[new.cam] # Unborn
           \/ /\ Posts(new) /\ rows[new.cam] = Unborn
              /\ \A u \in Tabs : \A j \in jobs[u] : j.cam # new.cam,
           error' = [error EXCEPT ![t] = IF new.kind = "remove" THEN @ ELSE FALSE]
    PROVE  IInv'
<1>1. Sound /\ TypeOK /\ NewestAlone /\ WillShow /\ ModeReachesWorker /\ NoRowNoWorker
    BY DEF IInv, Sound
<1>2. /\ clicks < MaxClicks /\ clicks' = clicks + 1
      /\ jobs' = [jobs EXCEPT ![t] = jobs[t] \cup {new}]
      /\ UNCHANGED <<rows, worker, session, page, loading, list, last_by, behind, missed>>
    BY DEF Start, Click, server, history
<1>3. /\ jobs'[t] = jobs[t] \cup {new}
      /\ \A u \in Tabs : u # t => jobs'[u] = jobs[u]
    BY <1>1, <1>2 DEF Sound, Knowing
<1>5. /\ error'[t] = IF new.kind = "remove" THEN error[t] ELSE FALSE
      /\ \A u \in Tabs : u # t => error'[u] = error[u]
    BY <1>1 DEF TypeOK
<1>6. Mounted(t)' = Mounted(t) \cup {new} /\ \A u \in Tabs : u # t => Mounted(u)' = Mounted(u)
    BY <1>3 DEF Mounted
<1>7. Sound'
    <2>1. ServerType' /\ NoRowNoWorker'
        BY <1>1, <1>2, TypeParts DEF ServerType, NoRowNoWorker, Exists
    <2>2. PageType'
        <3>1. PageType
            BY <1>1, TypeParts
        <3>2. error' \in [Tabs -> BOOLEAN]
            BY <3>1 DEF PageType
        <3>3. clicks' \in 0..MaxClicks
            BY <1>2, <3>1, BoundAssumption DEF PageType
        <3> QED
            BY <1>2, <3>1, <3>2, <3>3 DEF PageType, session
    <2>3. HistoryType'
        BY <1>1, <1>2, TypeParts DEF HistoryType
    <2>4. Knowing' /\ PostAlone'
        BY <1>1, <1>2, StartStep
    <2> QED
        BY <2>1, <2>2, <2>3, <2>4, SoundNext
<1>8. NewestAlone'
    <2>1. \A u \in Tabs : \A j \in Mounted(u)' : Newest(j) => j \in Mounted(u)
        BY <1>6 DEF Newest
    <2> QED
        BY <1>1, <2>1, NewestStays
<1>9. WillShow'
    <2>1. ASSUME NEW c \in Cameras, last_by'[c] = t PROVE WillShowIn(t, c)'
        <3>1. CASE new.kind # "remove"
            <4>1. WillList(new, c)
                BY <3>1 DEF WillList, IsJob, Kinds
            <4>2. new \in Mounted(t)'
                BY <1>6
            <4> QED
                BY <4>1, <4>2 DEF WillShowIn, WillList
        <3>2. CASE new.kind = "remove"
            <4>1. WillShowIn(t, c) /\ error'[t] = error[t]
                BY <1>1, <1>2, <1>5, <2>1, <3>2 DEF WillShow
            <4>2. /\ \A j \in Mounted(t) : j \in Mounted(t)'
                  /\ \A j \in Mounted(t)' : Newest(j) => j \in Mounted(t)
                BY <1>6 DEF Newest
            <4> QED
                BY <1>2, <4>1, <4>2, ShowStays
        <3> QED
            BY <3>1, <3>2
    <2>2. ASSUME NEW u \in Tabs, NEW c \in Cameras, u # t, last_by'[c] = u
          PROVE  WillShowIn(u, c)'
        BY <1>1, <1>2, <1>3, <1>5, <2>2, ShownElsewhere
    <2> QED
        BY <2>1, <2>2 DEF WillShow
<1>10. ModeReachesWorker'
    <2> SUFFICES ASSUME NEW c \in Cameras \ missed', worker'[c] # None, worker'[c] # rows'[c].mode
                 PROVE  \E v \in Tabs : \E j \in jobs'[v] : Restarts(j, c)
        BY ModeParts
    <2>1. PICK u \in Tabs : \E w \in jobs[u] : Restarts(w, c)
        BY <1>1, <1>2, ModeParts
    <2> QED
        BY <1>3, <2>1
<1> QED
    BY <1>7, <1>8, <1>9, <1>10 DEF IInv

LEMMA CopyType ==
    ASSUME NEW table \in Copies, NEW c \in DOMAIN table
    PROVE  table[c].mode \in Modes /\ table[c].active \in BOOLEAN
<1>1. PICK S \in SUBSET Cameras : table \in [S -> CameraRow]
    BY DEF Copies
<1>2. table[c] \in CameraRow
    BY <1>1
<1> QED
    BY <1>2 DEF CameraRow

LEMMA OtherType == \A mode : Other(mode) \in Modes
<1> SUFFICES ASSUME NEW mode PROVE Other(mode) \in Modes
    OBVIOUS
<1>1. \E m \in Modes : m # mode
    BY DEF Modes
<1> QED
    BY <1>1 DEF Other

\* A page knows only of cameras that were born.
LEMMA ListedIsBorn ==
    ASSUME Sound, NEW t \in Tabs, NEW c \in DOMAIN list[t]
    PROVE  /\ rows[c] # Unborn /\ list[t][c].active \in BOOLEAN
           /\ busy \in [Tabs -> Cameras \cup {None}]
<1>1. list[t] \in Copies
    BY DEF Sound, TypeOK
<1> QED
    BY <1>1, CopyType DEF Sound, TypeOK, Knowing, Born

LEMMA ChangeModeInv ==
    ASSUME IInv, NEW t \in Tabs, NEW c \in Cameras, ChangeMode(t, c)
    PROVE  IInv'
<1> DEFINE mode == Other(list[t][c].mode)
           active == list[t][c].active
           new == Job("mode", c, mode, active)
<1>1. /\ page[t] = "live" /\ CanManage(t) /\ c \in DOMAIN list[t] /\ Start(t, new)
      /\ busy' = [busy EXCEPT ![t] = c] /\ error' = [error EXCEPT ![t] = FALSE]
    BY DEF ChangeMode, ModeSelect
<1>2. /\ rows[c] # Unborn /\ active \in BOOLEAN
      /\ busy \in [Tabs -> Cameras \cup {None}]
    BY <1>1, ListedIsBorn DEF IInv
<1>3. mode \in Modes /\ "mode" \in Kinds
    BY OtherType DEF Kinds
<1>4. /\ DOMAIN new = {"kind", "cam", "mode", "restart", "todo", "answer", "older", "mounted"}
      /\ new.kind = "mode" /\ new.cam = c /\ new.mode = mode /\ new.restart = active
      /\ new.todo = Calls("mode", active) /\ new.answer = None /\ new.older = FALSE
      /\ new.mounted = TRUE
    BY DEF Job
<1> HIDE DEF mode, active, new
<1>5. /\ IsJob(new) /\ new.kind = "mode" /\ new.cam = c /\ new.answer = None
      /\ new.mounted = TRUE /\ ~Posts(new)
    BY <1>2, <1>3, <1>4, JobType
<1>6. error' = [error EXCEPT ![t] = IF new.kind = "remove" THEN @ ELSE FALSE]
    BY <1>1, <1>5
<1>7. busy' \in [Tabs -> Cameras \cup {None}]
    BY <1>1, <1>2
<1> QED
    BY <1>1, <1>2, <1>5, <1>6, <1>7, StartInv

LEMMA OnCameraInv ==
    ASSUME IInv, NEW t \in Tabs, NEW c \in Cameras,
           NEW kind \in {"toggle", "remove", "replace"}, OnCamera(t, c, kind)
    PROVE  IInv'
<1> DEFINE active == list[t][c].active
           new == Job(kind, c, None, active)
<1>1. /\ page[t] = "cameras" /\ CanManage(t) /\ c \in DOMAIN list[t] /\ Start(t, new)
      /\ busy' = [busy EXCEPT ![t] = c]
      /\ error' = [error EXCEPT ![t] = IF kind = "remove" THEN @ ELSE FALSE]
    BY DEF OnCamera, CameraButtons
<1>2. /\ rows[c] # Unborn /\ active \in BOOLEAN
      /\ busy \in [Tabs -> Cameras \cup {None}]
    BY <1>1, ListedIsBorn DEF IInv
<1>3. kind \in Kinds /\ kind \notin {"mode", "mount", "create"}
    BY DEF Kinds
<1>4. /\ DOMAIN new = {"kind", "cam", "mode", "restart", "todo", "answer", "older", "mounted"}
      /\ new.kind = kind /\ new.cam = c /\ new.mode = None /\ new.restart = active
      /\ new.todo = Calls(kind, active) /\ new.answer = None /\ new.older = FALSE
      /\ new.mounted = TRUE
    BY DEF Job
<1> HIDE DEF active, new
<1>5. /\ IsJob(new) /\ new.kind = kind /\ new.cam = c /\ new.answer = None
      /\ new.mounted = TRUE /\ ~Posts(new)
    BY <1>2, <1>3, <1>4, JobType
<1>6. error' = [error EXCEPT ![t] = IF new.kind = "remove" THEN @ ELSE FALSE]
    BY <1>1, <1>5
<1>7. busy' \in [Tabs -> Cameras \cup {None}]
    BY <1>1, <1>2
<1>8. new.kind # "mount"
    BY <1>3, <1>5
<1> QED
    BY <1>1, <1>2, <1>5, <1>6, <1>7, <1>8, StartInv

LEMMA CreateCameraInv ==
    ASSUME IInv, NEW t \in Tabs, NEW c \in Cameras, CreateCamera(t, c)
    PROVE  IInv'
<1> DEFINE new == Job("create", c, None, FALSE)
<1>1. /\ page[t] = "cameras" /\ CanManage(t) /\ rows[c] = Unborn
      /\ \A u \in Tabs : \A j \in jobs[u] : j.cam # c
      /\ Start(t, new) /\ error' = [error EXCEPT ![t] = FALSE] /\ busy' = busy
    BY DEF CreateCamera
<1>2. "create" \in Kinds /\ FALSE \in BOOLEAN
    BY DEF Kinds
<1>3. /\ DOMAIN new = {"kind", "cam", "mode", "restart", "todo", "answer", "older", "mounted"}
      /\ new.kind = "create" /\ new.cam = c /\ new.mode = None /\ new.restart = FALSE
      /\ new.todo = Calls("create", FALSE) /\ new.answer = None /\ new.older = FALSE
      /\ new.mounted = TRUE
    BY DEF Job
<1> HIDE DEF new
<1>4. /\ IsJob(new) /\ new.kind = "create" /\ new.cam = c /\ new.answer = None
      /\ new.mounted = TRUE /\ Posts(new)
    BY <1>2, <1>3, JobType
<1>5. error' = [error EXCEPT ![t] = IF new.kind = "remove" THEN @ ELSE FALSE]
    BY <1>1, <1>4
<1>6. busy' \in [Tabs -> Cameras \cup {None}]
    BY <1>1 DEF IInv, Sound, TypeOK
<1> QED
    BY <1>1, <1>4, <1>5, <1>6, StartInv

-----------------------------------------------------------------------------
(* A page is left.                                                           *)

LEMMA BlankType ==
    ASSUME Sound, NEW t \in Tabs, NEW p \in {"boot", "login", "live", "cameras"}, Blank(t, p),
           token' \in Users \cup {None}, user' \in [Tabs -> Users \cup {None}],
           loading' \in [Tabs -> BOOLEAN], clicks' \in 0..MaxClicks,
           missed' \in SUBSET Cameras, UNCHANGED server
    PROVE  PageType' /\ ServerType' /\ HistoryType' /\ NoRowNoWorker'
<1>1. PageType /\ ServerType /\ HistoryType /\ NoRowNoWorker
    BY TypeParts DEF Sound
<1>2. ServerType' /\ NoRowNoWorker'
    BY <1>1 DEF server, ServerType, NoRowNoWorker, Exists
<1>3. PageType'
    BY <1>1, NoListType DEF PageType, Blank
<1>4. HistoryType'
    BY <1>1 DEF HistoryType, Blank, Disown
<1> QED
    BY <1>2, <1>3, <1>4

\* The page of which nobody answers any more, and the others, which do not notice.
LEMMA BlankShow ==
    ASSUME Sound, WillShow, NEW t \in Tabs, NEW p, Blank(t, p), UNCHANGED server,
           \A u \in Tabs : u # t => jobs'[u] = jobs[u]
    PROVE  WillShow'
<1>1. TypeOK
    BY DEF Sound
<1>2. /\ \A u \in Tabs, c \in Cameras : last_by'[c] = u => u # t /\ last_by[c] = u
      /\ \A u \in Tabs : u # t =>
            list'[u] = list[u] /\ error'[u] = error[u] /\ behind'[u] = behind[u]
    BY <1>1, NoneAssumption DEF TypeOK, Blank, Disown
<1>3. ASSUME NEW u \in Tabs, NEW c \in Cameras, last_by'[c] = u PROVE WillShowIn(u, c)'
    BY <1>2, <1>3, ShownElsewhere DEF server
<1> QED
    BY <1>3 DEF WillShow

LEMMA EnterInv ==
    ASSUME IInv, NEW t \in Tabs, NEW p \in {"live", "cameras"}, Enter(t, p),
           UNCHANGED <<server, missed>>, token' \in Users \cup {None},
           user' \in [Tabs -> Users \cup {None}], clicks' \in 0..MaxClicks
    PROVE  IInv'
<1>1. Sound /\ TypeOK /\ NewestAlone /\ WillShow /\ ModeReachesWorker
    BY DEF IInv, Sound
<1>2. /\ Blank(t, p) /\ loading' = [loading EXCEPT ![t] = TRUE]
      /\ jobs' = [jobs EXCEPT ![t] = Behind(t) \cup {Mount}]
    BY DEF Enter, Behind, Mount
<1>3. /\ jobs'[t] = Behind(t) \cup {Mount}
      /\ \A u \in Tabs : u # t => jobs'[u] = jobs[u]
    BY <1>1, <1>2 DEF Sound, Knowing
<1>4. \A job \in jobs[t] : IsJob(job)
    BY <1>1 DEF Sound, Knowing, IsKnowing
<1>5. Sound'
    <2>1. PageType' /\ ServerType' /\ HistoryType' /\ NoRowNoWorker'
        BY <1>1, <1>2, BlankType DEF TypeOK
    <2>2. rows' = rows /\ list' = [list EXCEPT ![t] = NoList]
        BY <1>2 DEF server, Blank
    <2>3. Knowing' /\ PostAlone'
        BY <1>1, <1>2, <2>2, LeaveStep
    <2> QED
        BY <2>1, <2>3, SoundNext
<1>6. Mounted(t)' = {Mount} /\ \A u \in Tabs : u # t => Mounted(u)' = Mounted(u)
    <2>1. \A n \in Behind(t) : ~n.mounted
        BY <1>4, BehindType
    <2> QED
        BY <1>3, <2>1, MountType DEF Mounted
<1>7. WillShow'
    BY <1>1, <1>2, <1>3, BlankShow
<1>8. NewestAlone'
    <2>1. \A u \in Tabs : \A j \in Mounted(u)' : Newest(j) => j \in Mounted(u)
        BY <1>6, MountType DEF Newest
    <2> QED
        BY <1>1, <2>1, NewestStays
<1>9. ModeReachesWorker'
    <2> SUFFICES ASSUME NEW c \in Cameras \ missed', worker'[c] # None, worker'[c] # rows'[c].mode
                 PROVE  \E v \in Tabs : \E j \in jobs'[v] : Restarts(j, c)
        BY ModeParts
    <2>1. PICK u \in Tabs : \E w \in jobs[u] : Restarts(w, c)
        BY <1>1, ModeParts DEF server
    <2>2. PICK w \in jobs[u] : Restarts(w, c)
        BY <2>1
    <2>3. CASE u # t
        BY <1>3, <2>2, <2>3
    <2>4. CASE u = t
        <3> DEFINE n == [w EXCEPT !.mounted = FALSE]
        <3>1. /\ n.kind = w.kind /\ n.cam = w.cam /\ n.restart = w.restart /\ n.todo = w.todo
            BY <1>4, <2>2, <2>4 DEF IsJob
        <3>2. n \in {[j EXCEPT !.mounted = FALSE] : j \in jobs[t]}
            BY <2>2, <2>4
        <3> HIDE DEF n
        <3>3. n.todo # <<"list">> /\ Restarts(n, c)
            BY <2>2, <3>1 DEF Restarts, Listing
        <3>4. n \in Behind(t)
            BY <3>2, <3>3 DEF Behind, Pending
        <3> QED
            BY <1>3, <3>3, <3>4
    <2> QED
        BY <2>3, <2>4
<1> QED
    BY <1>5, <1>7, <1>8, <1>9 DEF IInv

LEMMA LoadInv ==
    ASSUME IInv, NEW t \in Tabs, NEW p \in {"boot", "login"}, Load(t, p),
           token' \in Users \cup {None}, clicks' \in 0..MaxClicks
    PROVE  IInv'
<1>1. Sound /\ TypeOK /\ NewestAlone /\ WillShow /\ ModeReachesWorker
    BY DEF IInv, Sound
<1>2. /\ Blank(t, p) /\ loading' = [loading EXCEPT ![t] = FALSE]
      /\ user' = [user EXCEPT ![t] = None]
      /\ jobs' = [jobs EXCEPT ![t] = {}]
      /\ missed' = missed \cup Unfinished(jobs[t])
      /\ UNCHANGED server
    BY DEF Load
<1>3. jobs'[t] = {} /\ \A u \in Tabs : u # t => jobs'[u] = jobs[u]
    BY <1>1, <1>2 DEF Sound, Knowing
<1>4. /\ Unfinished(jobs[t]) \subseteq Cameras
      /\ \A w \in jobs[t] : \A c : Restarts(w, c) /\ worker[c] # None => c \in Unfinished(jobs[t])
    <2>1. \A job \in jobs[t] : IsJob(job)
        BY <1>1 DEF Sound, Knowing, IsKnowing
    <2> QED
        BY <2>1, UnfinishedType
<1>5. Sound'
    <2>1. /\ missed' \in SUBSET Cameras
          /\ loading' \in [Tabs -> BOOLEAN]
          /\ user' \in [Tabs -> Users \cup {None}]
        BY <1>1, <1>2, <1>4 DEF TypeOK
    <2>2. PageType' /\ ServerType' /\ HistoryType' /\ NoRowNoWorker'
        BY <1>1, <1>2, <2>1, BlankType
    <2>3. rows' = rows /\ list' = [list EXCEPT ![t] = NoList]
        BY <1>2 DEF server, Blank
    <2>4. Knowing' /\ PostAlone'
        BY <1>1, <1>2, <2>3, LeaveStep
    <2> QED
        BY <2>2, <2>4, SoundNext
<1>6. Mounted(t)' = {} /\ \A u \in Tabs : u # t => Mounted(u)' = Mounted(u)
    BY <1>3 DEF Mounted
<1>7. WillShow'
    BY <1>1, <1>2, <1>3, BlankShow
<1>8. NewestAlone'
    <2>1. \A u \in Tabs : \A j \in Mounted(u)' : Newest(j) => j \in Mounted(u)
        BY <1>6
    <2> QED
        BY <1>1, <2>1, NewestStays
<1>9. ModeReachesWorker'
    <2> SUFFICES ASSUME NEW c \in Cameras \ missed', worker'[c] # None, worker'[c] # rows'[c].mode
                 PROVE  \E v \in Tabs : \E j \in jobs'[v] : Restarts(j, c)
        BY ModeParts
    <2>1. c \notin missed /\ c \notin Unfinished(jobs[t]) /\ worker[c] # None /\ worker[c] # rows[c].mode
        BY <1>2 DEF server
    <2>2. PICK u \in Tabs : \E w \in jobs[u] : Restarts(w, c)
        BY <1>1, <2>1, ModeParts
    <2>3. PICK w \in jobs[u] : Restarts(w, c)
        BY <2>2
    <2>4. u # t
        BY <1>4, <2>1, <2>3
    <2> QED
        BY <1>3, <2>3, <2>4
<1> QED
    BY <1>5, <1>7, <1>8, <1>9 DEF IInv

\* Handlers and rows stay, and whatever the pages know of them.
LEMMA StillKnowing ==
    ASSUME Sound, rows' = rows, jobs' = jobs, \A t \in Tabs : list'[t] \in {list[t], NoList}
    PROVE  Knowing' /\ PostAlone'
<1>1. \A t \in Tabs : \A job \in jobs[t] : IsKnowing(job)'
    BY KnowingStays DEF Sound, Knowing
<1>2. ASSUME NEW t \in Tabs PROVE Born(list[t])'
    <2>1. CASE list'[t] = list[t]
        BY <2>1 DEF Sound, Knowing, Born
    <2>2. CASE list'[t] = NoList
        BY <2>2 DEF Born, NoList
    <2> QED
        BY <2>1, <2>2
<1>3. Knowing'
    BY <1>1, <1>2 DEF Sound, Knowing
<1>4. PostAlone'
    BY DEF Sound, PostAlone
<1> QED
    BY <1>3, <1>4

\* The token of a tab that boots is refused.
LEMMA BootRefusedInv ==
    ASSUME IInv, NEW t \in Tabs, BootRefused(t)
    PROVE  IInv'
<1>1. Sound /\ TypeOK /\ NewestAlone /\ WillShow /\ ModeReachesWorker
    BY DEF IInv, Sound
<1>2. /\ page[t] = "boot" /\ token' = None /\ Blank(t, "login")
      /\ UNCHANGED <<server, user, loading, jobs, clicks, missed>>
    BY DEF BootRefused
<1>4. Sound'
    <2>1. PageType' /\ ServerType' /\ HistoryType' /\ NoRowNoWorker'
        BY <1>1, <1>2, BlankType DEF TypeOK
    <2>2. rows' = rows /\ \A u \in Tabs : list'[u] \in {list[u], NoList}
        BY <1>1, <1>2 DEF server, Blank, TypeOK
    <2>3. Knowing' /\ PostAlone'
        BY <1>1, <1>2, <2>2, StillKnowing
    <2> QED
        BY <2>1, <2>3, SoundNext
<1>5. WillShow'
    BY <1>1, <1>2, BlankShow
<1>6. NewestAlone'
    BY <1>1, <1>2 DEF NewestAlone, Newest, Mounted
<1>7. ModeReachesWorker'
    BY <1>1, <1>2, ModeParts DEF server
<1> QED
    BY <1>4, <1>5, <1>6, <1>7 DEF IInv

-----------------------------------------------------------------------------
(* Steps that no handler is part of.                                         *)

LEMMA LoginRefusedInv ==
    ASSUME IInv, NEW t \in Tabs, LoginRefused(t)
    PROVE  IInv'
<1>1. Sound /\ TypeOK /\ NewestAlone /\ WillShow /\ ModeReachesWorker
    BY DEF IInv, Sound
<1>2. /\ error' = [error EXCEPT ![t] = TRUE]
      /\ UNCHANGED <<rows, worker, token, user, page, loading, list, busy, jobs, clicks,
                     last_by, behind, missed>>
    BY DEF LoginRefused, server, session, history
<1>3. error'[t] = TRUE /\ \A u \in Tabs : u # t => error'[u] = error[u]
    BY <1>1, <1>2 DEF TypeOK
<1>4. Sound'
    <2>1. PageType' /\ ServerType' /\ HistoryType' /\ NoRowNoWorker'
        BY <1>1, <1>2, TypeParts
        DEF PageType, ServerType, HistoryType, NoRowNoWorker, Exists, Sound
    <2> QED
        BY <1>1, <1>2, <2>1, StillKnowing, SoundNext
<1>5. NewestAlone'
    BY <1>1, <1>2 DEF NewestAlone, Newest, Mounted
<1>6. WillShow'
    <2> SUFFICES ASSUME NEW u \in Tabs, NEW c \in Cameras, last_by'[c] = u
                 PROVE  WillShowIn(u, c)'
        BY DEF WillShow
    <2>1. CASE u = t
        BY <1>3, <2>1 DEF WillShowIn
    <2>2. CASE u # t
        BY <1>1, <1>2, <1>3, <2>2, ShownElsewhere
    <2> QED
        BY <2>1, <2>2
<1>7. ModeReachesWorker'
    BY <1>1, <1>2, ModeParts
<1> QED
    BY <1>4, <1>5, <1>6, <1>7 DEF IInv

LEMMA TokenExpiresInv ==
    ASSUME IInv, TokenExpires \/ UNCHANGED vars
    PROVE  IInv'
<1>1. Sound /\ TypeOK /\ NewestAlone /\ WillShow /\ ModeReachesWorker
    BY DEF IInv, Sound
<1>2. /\ token' \in {token, None}
      /\ UNCHANGED <<rows, worker, user, page, loading, list, busy, error, jobs, clicks,
                     last_by, behind, missed>>
    BY DEF TokenExpires, vars, server, session, view, history
<1>3. Sound'
    <2>1. PageType' /\ ServerType' /\ HistoryType' /\ NoRowNoWorker'
        BY <1>1, <1>2, TypeParts
        DEF PageType, ServerType, HistoryType, NoRowNoWorker, Exists, Sound
    <2> QED
        BY <1>1, <1>2, <2>1, StillKnowing, SoundNext
<1>4. NewestAlone'
    BY <1>1, <1>2 DEF NewestAlone, Newest, Mounted
<1>5. WillShow'
    <2> SUFFICES ASSUME NEW u \in Tabs, NEW c \in Cameras, last_by'[c] = u
                 PROVE  WillShowIn(u, c)'
        BY DEF WillShow
    <2> QED
        BY <1>1, <1>2, ShownElsewhere
<1>6. ModeReachesWorker'
    BY <1>1, <1>2, ModeParts
<1> QED
    BY <1>3, <1>4, <1>5, <1>6 DEF IInv

\* The form of a new camera hides the error.
LEMMA OpenFormInv ==
    ASSUME IInv, NEW t \in Tabs, OpenForm(t)
    PROVE  IInv'
<1>1. Sound /\ TypeOK /\ NewestAlone /\ WillShow /\ ModeReachesWorker
    BY DEF IInv, Sound
<1>2. /\ error' = [error EXCEPT ![t] = FALSE] /\ last_by' = Disown(t)
      /\ UNCHANGED <<rows, worker, token, user, page, loading, list, busy, jobs, clicks,
                     behind, missed>>
    BY DEF OpenForm, server, session
<1>3. /\ last_by' \in [Cameras -> Tabs \cup {None}]
      /\ \A u \in Tabs, c \in Cameras : last_by'[c] = u => u # t /\ last_by[c] = u
      /\ \A u \in Tabs : u # t => error'[u] = error[u]
    BY <1>1, <1>2, NoneAssumption DEF TypeOK, Disown
<1>4. Sound'
    <2>1. PageType' /\ ServerType' /\ HistoryType' /\ NoRowNoWorker'
        BY <1>1, <1>2, <1>3, TypeParts
        DEF PageType, ServerType, HistoryType, NoRowNoWorker, Exists, Sound
    <2> QED
        BY <1>1, <1>2, <2>1, StillKnowing, SoundNext
<1>5. NewestAlone'
    BY <1>1, <1>2 DEF NewestAlone, Newest, Mounted
<1>6. WillShow'
    <2> SUFFICES ASSUME NEW u \in Tabs, NEW c \in Cameras, last_by'[c] = u
                 PROVE  WillShowIn(u, c)'
        BY DEF WillShow
    <2>1. u # t /\ last_by[c] = u /\ error'[u] = error[u]
        BY <1>3
    <2>2. /\ jobs'[u] = jobs[u] /\ list'[u] = list[u] /\ behind'[u] = behind[u]
          /\ rows'[c] = rows[c] /\ worker'[c] = worker[c]
        BY <1>2
    <2> QED
        BY <1>1, <2>1, <2>2, ShownElsewhere
<1>7. ModeReachesWorker'
    BY <1>1, <1>2, ModeParts
<1> QED
    BY <1>4, <1>5, <1>6, <1>7 DEF IInv

\* A worker ends: of its camera no page answers any more.
LEMMA WorkerEndsInv ==
    ASSUME IInv, NEW c \in Cameras, WorkerEnds(c)
    PROVE  IInv'
<1>1. Sound /\ TypeOK /\ NewestAlone /\ WillShow /\ ModeReachesWorker
    BY DEF IInv, Sound
<1>2. /\ worker' = [worker EXCEPT ![c] = None] /\ missed' = missed \ {c}
      /\ last_by' = [last_by EXCEPT ![c] = None]
      /\ UNCHANGED <<rows, token, user, page, loading, list, busy, error, jobs, clicks, behind>>
    BY DEF WorkerEnds, session, view
<1>3. /\ worker'[c] = None /\ last_by'[c] = None
      /\ \A d \in Cameras : d # c => worker'[d] = worker[d] /\ last_by'[d] = last_by[d]
    BY <1>1, <1>2 DEF TypeOK
<1>4. \A u \in Tabs : u # None
    BY NoneAssumption
<1>5. Sound'
    <2>1. ServerType' /\ HistoryType'
        BY <1>1, <1>2, TypeParts DEF ServerType, HistoryType
    <2>2. PageType'
        BY <1>1, <1>2, TypeParts DEF PageType
    <2>3. NoRowNoWorker'
        BY <1>1, <1>2, <1>3 DEF NoRowNoWorker, Exists, Sound
    <2> QED
        BY <1>1, <1>2, <2>1, <2>2, <2>3, StillKnowing, SoundNext
<1>6. NewestAlone'
    BY <1>1, <1>2 DEF NewestAlone, Newest, Mounted
<1>7. WillShow'
    <2> SUFFICES ASSUME NEW u \in Tabs, NEW d \in Cameras, last_by'[d] = u
                 PROVE  WillShowIn(u, d)'
        BY DEF WillShow
    <2>1. last_by[d] = u /\ rows'[d] = rows[d] /\ worker'[d] = worker[d]
        BY <1>2, <1>3, <1>4
    <2> QED
        BY <1>1, <1>2, <2>1, ShownElsewhere
<1>8. ModeReachesWorker'
    <2> SUFFICES ASSUME NEW d \in Cameras \ missed', worker'[d] # None, worker'[d] # rows'[d].mode
                 PROVE  \E v \in Tabs : \E j \in jobs'[v] : Restarts(j, d)
        BY ModeParts
    <2>1. d # c /\ d \notin missed /\ worker[d] # None /\ worker[d] # rows[d].mode
        BY <1>2, <1>3
    <2> QED
        BY <1>1, <1>2, <2>1, ModeParts
<1> QED
    BY <1>5, <1>6, <1>7, <1>8 DEF IInv

-----------------------------------------------------------------------------
LEMMA InitInv == Init => IInv
<1> SUFFICES ASSUME Init PROVE IInv
    OBVIOUS
<1>1. [NewRow EXCEPT !.active = TRUE] \in CameraRow /\ [NewRow EXCEPT !.active = TRUE].mode \in Modes
    BY NewRowType DEF CameraRow
<1>2. ServerType
    BY <1>1 DEF Init, ServerType, Exists
<1>3. PageType
    BY NoListType, BoundAssumption DEF Init, PageType
<1>4. HistoryType
    BY DEF Init, HistoryType
<1>5. NoRowNoWorker
    BY DEF Init, NoRowNoWorker
<1>6. Knowing /\ PostAlone
    BY DEF Init, Knowing, PostAlone, Born, NoList
<1>7. Sound
    BY <1>2, <1>3, <1>4, <1>5, <1>6, TypeFromParts DEF Sound
<1>8. NewestAlone
    BY DEF Init, NewestAlone, Mounted
<1>9. WillShow
    BY NoneAssumption DEF Init, WillShow
<1>10. ModeReachesWorker
    BY DEF Init, ModeReachesWorker
<1> QED
    BY <1>7, <1>8, <1>9, <1>10 DEF IInv

LEMMA NextInv == IInv /\ [Next]_vars => IInv'
<1> SUFFICES ASSUME IInv, [Next]_vars PROVE IInv'
    OBVIOUS
<1>1. /\ token \in Users \cup {None} /\ user \in [Tabs -> Users \cup {None}]
      /\ clicks \in 0..MaxClicks
    BY DEF IInv, Sound, TypeOK
<1>2. ASSUME Click PROVE clicks' \in 0..MaxClicks
    BY <1>1, <1>2, BoundAssumption DEF Click
<1>3. ASSUME NEW t \in Tabs, NEW c \in Cameras, ChangeMode(t, c) PROVE IInv'
    BY <1>3, ChangeModeInv
<1>4. ASSUME NEW t \in Tabs, NEW c \in Cameras,
             NEW kind \in {"toggle", "remove", "replace"}, OnCamera(t, c, kind)
      PROVE  IInv'
    BY <1>4, OnCameraInv
<1>5. ASSUME NEW t \in Tabs, NEW c \in Cameras, CreateCamera(t, c) PROVE IInv'
    BY <1>5, CreateCameraInv
<1>6. ASSUME NEW t \in Tabs, NEW job \in jobs[t], Succeeds(t, job) PROVE IInv'
    BY <1>6, SucceedsSound, SucceedsNewest, SucceedsShow, SucceedsMode DEF IInv
<1>7. ASSUME NEW t \in Tabs, NEW job \in jobs[t],
             ListAnswered(t, job) \/ ListArrives(t, job) \/ Refused(t, job) \/ Fails(t, job)
      PROVE  IInv'
    BY <1>7, ListAnsweredInv, ListArrivesInv, RefusedInv, FailsInv
<1>8. ASSUME NEW t \in Tabs, NEW job \in jobs[t], Unauthorized(t, job) PROVE IInv'
    BY <1>1, <1>8, LoadInv DEF Unauthorized
<1>9. ASSUME NEW t \in Tabs, NEW p \in {"live", "cameras"}, Navigate(t, p) PROVE IInv'
    <2>1. /\ Click /\ Enter(t, p) /\ UNCHANGED <<server, missed>>
          /\ token' \in Users \cup {None} /\ user' \in [Tabs -> Users \cup {None}]
        BY <1>1, <1>9 DEF Navigate, session
    <2> QED
        BY <1>2, <2>1, EnterInv
<1>10. ASSUME NEW t \in Tabs, NEW p \in {"live", "cameras"}, Boot(t, p) PROVE IInv'
    <2>1. /\ Enter(t, p) /\ UNCHANGED <<server, missed>>
          /\ token' \in Users \cup {None} /\ user' \in [Tabs -> Users \cup {None}]
          /\ clicks' \in 0..MaxClicks
        BY <1>1, <1>10 DEF Boot
    <2> QED
        BY <2>1, EnterInv
<1>11. ASSUME NEW t \in Tabs, NEW p \in {"live", "cameras"}, NEW u \in Users, Login(t, u, p) PROVE IInv'
    <2>1. /\ Enter(t, p) /\ UNCHANGED <<server, missed>>
          /\ token' \in Users \cup {None} /\ user' \in [Tabs -> Users \cup {None}]
          /\ clicks' \in 0..MaxClicks
        BY <1>1, <1>11 DEF Login, SignIn
    <2> QED
        BY <2>1, EnterInv
<1>12. ASSUME NEW t \in Tabs, Reload(t) \/ Logout(t) PROVE IInv'
    BY <1>1, <1>2, <1>12, LoadInv DEF Reload, Logout
<1>13. ASSUME NEW t \in Tabs, OpenForm(t) \/ BootRefused(t) \/ LoginRefused(t) PROVE IInv'
    BY <1>13, OpenFormInv, BootRefusedInv, LoginRefusedInv
<1>14. ASSUME TokenExpires \/ UNCHANGED vars PROVE IInv'
    BY <1>14, TokenExpiresInv
<1>15. ASSUME NEW c \in Cameras, WorkerEnds(c) PROVE IInv'
    BY <1>15, WorkerEndsInv
<1> QED
    BY <1>3, <1>4, <1>5, <1>6, <1>7, <1>8, <1>9, <1>10, <1>11, <1>12, <1>13, <1>14, <1>15
    DEF Next

LEMMA Invariance == Spec => []IInv
BY InitInv, NextInv, PTL DEF Spec

\* Every variable keeps its type, however the tabs and the calls interleave.
THEOREM TypeCorrect == Spec => []TypeOK
<1>1. IInv => TypeOK
    BY DEF IInv, Sound
<1> QED
    BY <1>1, Invariance, PTL

\* A worker whose mode is not that of its row is about to be restarted by some
\* handler (changeMode), unless the row was changed without a restart.
THEOREM ModeReachesWorkerCorrect == Spec => []ModeReachesWorker
<1>1. IInv => ModeReachesWorker
    BY DEF IInv
<1> QED
    BY <1>1, Invariance, PTL

\* A page at rest without an error shows what its own handlers did: the cameras
\* they created and changed as the server has them, those they deleted no longer
\* (load after every handler of LivePage and CamerasPage).  For any number of tabs,
\* cameras and clicks, however the handlers of one page overlap and whichever calls
\* fail; but for a page that got an older list after a newer one, a deletion that
\* failed or whose list did, what was done before Add Camera hid an error, and a
\* camera that something else changed since.
THEOREM OwnWritesShownCorrect == Spec => []OwnWritesShown
<1>1. WillShow => OwnWritesShown
    <2> SUFFICES ASSUME WillShow, NEW t \in Tabs, NEW c \in Cameras, last_by[c] = t,
                        Mounted(t) = {}, ~error[t], ~behind[t]
                 PROVE  Shows(list[t], c)
        BY DEF OwnWritesShown, Shows
    <2>1. WillShowIn(t, c)
        BY DEF WillShow
    <2> QED
        BY <2>1 DEF WillShowIn
<1>2. IInv => OwnWritesShown
    BY <1>1 DEF IInv
<1> QED
    BY <1>2, Invariance, PTL
-----------------------------------------------------------------------------
(* The limit on logins (RateLimiter)                                         *)

LimiterTypes(clock, bucket, granted) ==
    /\ clock \in Nat
    /\ bucket \in Seq(Nat)
    /\ granted \in Seq(Nat)

\* The bucket is the end of what was let pass: whatever it forgot is older than
\* the window, and it is never longer than the limit.
BucketIsRecent(clock, bucket, granted, rate) ==
    \E d \in 0..Len(granted) :
       /\ Len(bucket) = Len(granted) - d
       /\ \A i \in 1..Len(bucket) : bucket[i] = granted[i + d]
       /\ \A i \in 1..d : Expired(granted[i], clock, rate.window)

LimiterInv(clock, bucket, granted, rate) ==
    /\ LimiterTypes(clock, bucket, granted)
    /\ Len(bucket) <= rate.limit
    /\ \A i, j \in DOMAIN granted : i <= j => granted[i] <= granted[j]
    /\ \A i \in DOMAIN granted : granted[i] <= clock
    /\ BucketIsRecent(clock, bucket, granted, rate)
    /\ NeverOverLimit(granted, rate)

Rates == [limit: Nat, window: Nat]

\* What a bucket holds once the loop has dropped its expired hits.
LEMMA RemainingHits ==
    ASSUME NEW bucket \in Seq(Nat), NEW now \in Nat, NEW window \in Nat, NEW k,
           Drops(bucket, now, window, k)
    PROVE  /\ k \in 0..Len(bucket)
           /\ Remaining(bucket, k) \in Seq(Nat)
           /\ Len(Remaining(bucket, k)) = Len(bucket) - k
           /\ \A i \in 1..(Len(bucket) - k) : Remaining(bucket, k)[i] = bucket[i + k]
<1>1. k \in 0..Len(bucket) /\ Len(bucket) \in Nat
    BY DEF Drops
<1>2. k + 1 \in 1..(Len(bucket) + 1) /\ Len(bucket) \in 0..Len(bucket)
    BY <1>1
<1>3. /\ Remaining(bucket, k) \in Seq(Nat)
      /\ Len(Remaining(bucket, k)) =
           IF k + 1 <= Len(bucket) THEN Len(bucket) - (k + 1) + 1 ELSE 0
      /\ \A i \in 1..(Len(bucket) - (k + 1) + 1) :
           Remaining(bucket, k)[i] = bucket[(k + 1) + i - 1]
    BY <1>2, SubSeqProperties DEF Remaining
<1>4. Len(bucket) - (k + 1) + 1 = Len(bucket) - k
    BY <1>1
<1>5. \A i \in Nat : (k + 1) + i - 1 = i + k
    BY <1>1
<1>6. \A i \in 1..(Len(bucket) - k) : Remaining(bucket, k)[i] = bucket[i + k]
    <2> TAKE i \in 1..(Len(bucket) - k)
    <2>1. i \in 1..(Len(bucket) - (k + 1) + 1) /\ i \in Nat
        BY <1>1, <1>4
    <2> QED
        BY <2>1, <1>3, <1>5
<1>7. Len(Remaining(bucket, k)) = Len(bucket) - k
    BY <1>1, <1>3
<1> QED
    BY <1>1, <1>3, <1>6, <1>7

\* Whatever the loop and the loops before it dropped is older than the window,
\* and what remains of the bucket is the end of what was let pass.
LEMMA ForgottenHits ==
    ASSUME NEW rate \in Rates, NEW clock, NEW bucket, NEW granted,
           LimiterInv(clock, bucket, granted, rate),
           NEW now \in Nat, clock <= now,
           NEW k, Drops(bucket, now, rate.window, k)
    PROVE  BucketIsRecent(now, Remaining(bucket, k), granted, rate)
<1>1. /\ clock \in Nat /\ bucket \in Seq(Nat) /\ granted \in Seq(Nat)
      /\ rate.window \in Nat
    BY DEF LimiterInv, LimiterTypes, Rates
<1>2. PICK d \in 0..Len(granted) :
         /\ Len(bucket) = Len(granted) - d
         /\ \A i \in 1..Len(bucket) : bucket[i] = granted[i + d]
         /\ \A i \in 1..d : Expired(granted[i], clock, rate.window)
    BY DEF LimiterInv, BucketIsRecent
<1> DEFINE r == Remaining(bucket, k)
<1>3. /\ k \in 0..Len(bucket) /\ Len(r) = Len(bucket) - k
      /\ \A i \in 1..(Len(bucket) - k) : r[i] = bucket[i + k]
    BY <1>1, RemainingHits
<1>4. /\ Len(bucket) \in Nat /\ Len(granted) \in Nat
      /\ DOMAIN granted = 1..Len(granted)
      /\ \A i \in 1..Len(granted) : granted[i] \in Nat
    BY <1>1
<1> HIDE DEF r
<1>5. d + k \in 0..Len(granted) /\ Len(r) = Len(granted) - (d + k)
    BY <1>2, <1>3, <1>4
<1>6. ASSUME NEW i \in 1..Len(r)
      PROVE  r[i] = granted[i + (d + k)]
    <2>1. i \in 1..(Len(bucket) - k) /\ i + k \in 1..Len(bucket)
        BY <1>3, <1>4
    <2>2. r[i] = bucket[i + k] /\ bucket[i + k] = granted[(i + k) + d]
        BY <2>1, <1>2, <1>3
    <2>3. (i + k) + d = i + (d + k)
        BY <1>2, <1>3, <1>4, <2>1
    <2> QED
        BY <2>2, <2>3
<1>7. ASSUME NEW i \in 1..(d + k)
      PROVE  Expired(granted[i], now, rate.window)
    <2>1. CASE i <= d
        <3>1. i \in 1..d /\ i \in 1..Len(granted)
            BY <2>1, <1>2, <1>3, <1>4, <1>5
        <3> QED
            BY <3>1, <1>1, <1>2, <1>4 DEF Expired
    <2>2. CASE d < i
        <3>1. i - d \in 1..k /\ i - d \in 1..Len(bucket) /\ (i - d) + d = i
            BY <2>2, <1>2, <1>3, <1>4
        <3>2. Expired(bucket[i - d], now, rate.window)
            BY <3>1 DEF Drops
        <3> QED
            BY <3>1, <3>2, <1>2
    <2> QED
        BY <2>1, <2>2, <1>2, <1>3, <1>4
<1> QED
    BY <1>5, <1>6, <1>7 DEF r, BucketIsRecent

\* A hit keeps the invariant.
LEMMA LimiterStep ==
    ASSUME NEW rate \in Rates, NEW clock, NEW bucket, NEW granted,
           LimiterInv(clock, bucket, granted, rate),
           NEW now \in Nat, clock <= now,
           NEW k, Drops(bucket, now, rate.window, k)
    PROVE  LimiterInv(now, BucketAfter(Remaining(bucket, k), now, rate),
                      GrantedAfter(granted, Remaining(bucket, k), now, rate), rate)
<1>1. /\ clock \in Nat /\ bucket \in Seq(Nat) /\ granted \in Seq(Nat)
      /\ rate.window \in Nat /\ rate.limit \in Nat
      /\ Len(bucket) <= rate.limit /\ NeverOverLimit(granted, rate)
      /\ \A i, j \in DOMAIN granted : i <= j => granted[i] <= granted[j]
      /\ \A i \in DOMAIN granted : granted[i] <= clock
    BY DEF LimiterInv, LimiterTypes, Rates
<1> DEFINE r == Remaining(bucket, k)
<1> HIDE DEF r
<1>r. BucketIsRecent(now, r, granted, rate)
    BY ForgottenHits DEF r
<1>2. PICK d \in 0..Len(granted) :
         /\ Len(r) = Len(granted) - d
         /\ \A i \in 1..Len(r) : r[i] = granted[i + d]
         /\ \A i \in 1..d : Expired(granted[i], now, rate.window)
    BY <1>r DEF BucketIsRecent
<1>3. r \in Seq(Nat) /\ Len(r) <= Len(bucket)
    BY <1>1, RemainingHits DEF r
<1>4. /\ Len(granted) \in Nat /\ DOMAIN granted = 1..Len(granted)
      /\ \A i \in 1..Len(granted) : granted[i] \in Nat /\ granted[i] <= now
      /\ Len(r) \in Nat /\ Len(bucket) \in Nat
    BY <1>1, <1>3
<1>5. d \in Nat /\ d <= Len(granted) /\ Len(r) = Len(granted) - d
    BY <1>2, <1>4
<1> DEFINE b == BucketAfter(r, now, rate)
           g == GrantedAfter(granted, r, now, rate)
<1> SUFFICES LimiterInv(now, b, g, rate)
    BY DEF r
<1>6. CASE ~Allowed(r, rate)
    <2>1. b = r /\ g = granted
        BY <1>6 DEF BucketAfter, GrantedAfter
    <2> HIDE DEF b, g
    <2>2. BucketIsRecent(now, b, g, rate)
        BY <2>1, <1>2 DEF BucketIsRecent
    <2>3. LimiterTypes(now, b, g)
        BY <2>1, <1>1, <1>3 DEF LimiterTypes
    <2>4. Len(b) <= rate.limit
        BY <2>1, <1>1, <1>3, <1>4
    <2> QED
        BY <2>1, <2>2, <2>3, <2>4, <1>1, <1>4 DEF LimiterInv
<1>7. CASE Allowed(r, rate)
    <2>1. b = Append(r, now) /\ g = Append(granted, now) /\ Len(r) < rate.limit
        BY <1>7 DEF BucketAfter, GrantedAfter, Allowed
    <2> HIDE DEF b, g
    <2>2. /\ LimiterTypes(now, b, g)
          /\ Len(b) = Len(r) + 1 /\ Len(g) = Len(granted) + 1
          /\ DOMAIN g = 1..(Len(granted) + 1)
          /\ \A i \in 1..Len(granted) : g[i] = granted[i]
          /\ g[Len(granted) + 1] = now
          /\ \A i \in 1..Len(r) : b[i] = r[i]
          /\ b[Len(r) + 1] = now
        BY <2>1, <1>1, <1>3 DEF LimiterTypes
    <2>3. Len(b) <= rate.limit
        BY <2>1, <2>2, <1>1, <1>4
    <2>4. \A i, j \in DOMAIN g : i <= j => g[i] <= g[j]
        <3> SUFFICES ASSUME NEW i \in DOMAIN g, NEW j \in DOMAIN g, i <= j
                     PROVE  g[i] <= g[j]
            OBVIOUS
        <3>1. CASE j <= Len(granted)
            BY <3>1, <2>2, <1>1, <1>4
        <3>2. CASE j = Len(granted) + 1 /\ i <= Len(granted)
            BY <3>2, <2>2, <1>4
        <3>3. CASE i = j
            BY <3>3, <2>2, <1>4
        <3> QED
            BY <3>1, <3>2, <3>3, <2>2, <1>4
    <2>5. \A i \in DOMAIN g : g[i] <= now
        BY <2>2, <1>4
    <2>6. BucketIsRecent(now, b, g, rate)
        <3>n. Len(b) = Len(r) + 1 /\ Len(g) = Len(granted) + 1 /\ Len(granted) \in Nat
            BY <2>2, <1>4
        <3>1. d \in 0..Len(g) /\ Len(b) = Len(g) - d
            BY <3>n, <1>5
        <3>2. ASSUME NEW i \in 1..Len(b)
              PROVE  b[i] = g[i + d]
            <4>1. CASE i <= Len(r)
                <5>1. i \in 1..Len(r) /\ i + d \in 1..Len(granted)
                    BY <4>1, <3>n, <1>4, <1>5
                <5> QED
                    BY <5>1, <2>2, <1>2
            <4>2. CASE i = Len(r) + 1
                <5>1. i + d = Len(granted) + 1
                    BY <4>2, <3>n, <1>4, <1>5
                <5> QED
                    BY <5>1, <4>2, <2>2
            <4> QED
                BY <4>1, <4>2, <3>n, <1>4
        <3>3. \A i \in 1..d : Expired(g[i], now, rate.window)
            BY <2>2, <1>2, <1>4
        <3> QED
            BY <3>1, <3>2, <3>3 DEF BucketIsRecent
    <2>7. NeverOverLimit(g, rate)
        <3> SUFFICES ASSUME NEW i \in DOMAIN g, i + rate.limit \in DOMAIN g
                     PROVE  g[i] + rate.window < g[i + rate.limit]
            BY DEF NeverOverLimit
        <3>1. CASE i + rate.limit <= Len(granted)
            <4>1. i \in DOMAIN granted /\ i + rate.limit \in DOMAIN granted
                BY <3>1, <2>2, <1>1, <1>4
            <4> QED
                BY <4>1, <2>2, <1>1, <1>4 DEF NeverOverLimit
        <3>2. CASE i + rate.limit = Len(granted) + 1
            <4>1. i \in 1..d /\ i \in 1..Len(granted)
                BY <3>2, <2>1, <2>2, <1>1, <1>4, <1>5, SMTT(30)
            <4> QED
                BY <4>1, <3>2, <2>2, <1>2 DEF Expired
        <3> QED
            BY <3>1, <3>2, <2>2, <1>1, <1>4
    <2> QED
        BY <2>2, <2>3, <2>4, <2>5, <2>6, <2>7 DEF LimiterInv
<1> QED
    BY <1>6, <1>7

\* Who is refused meets a full window.
LEMMA RefusedWhenFull ==
    ASSUME NEW rate \in Rates, NEW clock, NEW bucket, NEW granted,
           LimiterInv(clock, bucket, granted, rate),
           NEW now \in Nat, clock <= now,
           NEW k, Drops(bucket, now, rate.window, k),
           ~Allowed(Remaining(bucket, k), rate)
    PROVE  WindowIsFull(granted, now, rate)
<1>1. /\ bucket \in Seq(Nat) /\ granted \in Seq(Nat)
      /\ rate.window \in Nat /\ rate.limit \in Nat
      /\ \A i, j \in DOMAIN granted : i <= j => granted[i] <= granted[j]
    BY DEF LimiterInv, LimiterTypes, Rates
<1> DEFINE r == Remaining(bucket, k)
<1>r. BucketIsRecent(now, r, granted, rate)
    BY ForgottenHits
<1>2. PICK d \in 0..Len(granted) :
         /\ Len(r) = Len(granted) - d
         /\ \A i \in 1..Len(r) : r[i] = granted[i + d]
    BY <1>r DEF BucketIsRecent
<1>3. /\ k \in 0..Len(bucket) /\ Len(r) = Len(bucket) - k
      /\ \A i \in 1..(Len(bucket) - k) : r[i] = bucket[i + k]
      /\ r \in Seq(Nat)
    BY <1>1, RemainingHits
<1>4. /\ Len(granted) \in Nat /\ DOMAIN granted = 1..Len(granted)
      /\ \A i \in 1..Len(granted) : granted[i] \in Nat
      /\ Len(r) \in Nat /\ Len(bucket) \in Nat /\ rate.limit <= Len(r)
    BY <1>1, <1>3 DEF Allowed
<1>5. ~Expired(bucket[k + 1], now, rate.window) \/ Len(r) = 0
    BY <1>3, <1>4 DEF Drops
<1> HIDE DEF r
<1> SUFFICES ASSUME NEW i \in Len(granted) - rate.limit + 1 .. Len(granted)
             PROVE  now <= granted[i] + rate.window
    BY <1>1, <1>2, <1>4 DEF WindowIsFull
<1>6. /\ 0 < Len(r) /\ d + 1 \in DOMAIN granted /\ i \in DOMAIN granted /\ d + 1 <= i
    BY <1>1, <1>2, <1>4
<1>7. granted[d + 1] = r[1] /\ r[1] = bucket[k + 1]
    <2>1. 1 \in 1..Len(r) /\ 1 \in 1..(Len(bucket) - k) /\ 1 + d = d + 1 /\ 1 + k = k + 1
        BY <1>2, <1>3, <1>4, <1>6
    <2> QED
        BY <2>1, <1>2, <1>3
<1>8. now <= granted[d + 1] + rate.window
    BY <1>1, <1>4, <1>5, <1>6, <1>7 DEF Expired
<1>9. granted[d + 1] <= granted[i]
    BY <1>1, <1>6
<1> QED
    BY <1>1, <1>4, <1>6, <1>8, <1>9

\* The limiter never lets more requests of one address through to the login than
\* its limit in any window, at any position, and refuses one only if the window
\* that ends with it has had as many as the limit (hit): for every limit and
\* window, and however the requests are spaced.
THEOREM LoginLimitCorrect ==
    ASSUME NEW VARIABLE clock, NEW VARIABLE bucket, NEW VARIABLE granted, NEW rate \in Rates
    PROVE  Limiter(clock, bucket, granted, rate) =>
              /\ []NeverOverLimit(granted, rate)
              /\ [][granted' = granted => WindowIsFull(granted, clock', rate)]_<<clock, bucket, granted>>
<1> DEFINE I == LimiterInv(clock, bucket, granted, rate)
           Refusals == granted' = granted => WindowIsFull(granted, clock', rate)
<1>1. clock \in Nat /\ bucket = <<>> /\ granted = <<>> => I
    <2> SUFFICES ASSUME clock \in Nat, bucket = <<>>, granted = <<>>
                 PROVE  I
        OBVIOUS
    <2>1. bucket \in Seq(Nat) /\ granted \in Seq(Nat) /\ Len(granted) = 0 /\ Len(bucket) = 0
          /\ DOMAIN granted = {}
        OBVIOUS
    <2>2. BucketIsRecent(clock, bucket, granted, rate)
        BY <2>1 DEF BucketIsRecent
    <2> QED
        BY <2>1, <2>2 DEF LimiterInv, LimiterTypes, NeverOverLimit, Rates
<1>2. I /\ [Hit(clock, bucket, granted, rate)]_<<clock, bucket, granted>> =>
         I' /\ [Refusals]_<<clock, bucket, granted>>
    <2>1. ASSUME I, Hit(clock, bucket, granted, rate)
          PROVE  I' /\ Refusals
        <3>1. PICK now \in Nat, k \in 0..Len(bucket) :
                 /\ clock <= now
                 /\ clock' = now
                 /\ Drops(bucket, now, rate.window, k)
                 /\ bucket' = BucketAfter(Remaining(bucket, k), now, rate)
                 /\ granted' = GrantedAfter(granted, Remaining(bucket, k), now, rate)
            BY <2>1 DEF Hit
        <3>2. LimiterInv(now, bucket', granted', rate)
            BY <2>1, <3>1, LimiterStep
        <3>3. I'
            BY <3>1, <3>2 DEF LimiterInv, LimiterTypes, BucketIsRecent
        <3>4. ASSUME granted' = granted
              PROVE  WindowIsFull(granted, clock', rate)
            <4>1. ~Allowed(Remaining(bucket, k), rate)
                <5> SUFFICES ASSUME Allowed(Remaining(bucket, k), rate)
                             PROVE  FALSE
                    OBVIOUS
                <5>1. granted = Append(granted, now)
                    BY <3>1, <3>4 DEF GrantedAfter
                <5>2. granted \in Seq(Nat)
                    BY <2>1 DEF LimiterInv, LimiterTypes
                <5>3. Len(Append(granted, now)) = Len(granted) + 1 /\ Len(granted) \in Nat
                    BY <5>2
                <5> QED
                    BY <5>1, <5>3
            <4>2. WindowIsFull(granted, now, rate)
                BY <2>1, <3>1, <4>1, RefusedWhenFull
            <4> QED
                BY <3>1, <4>2
        <3> QED
            BY <3>3, <3>4
    <2>2. ASSUME I, UNCHANGED <<clock, bucket, granted>>
          PROVE  I'
        BY <2>2 DEF LimiterInv, LimiterTypes, BucketIsRecent, NeverOverLimit
    <2> QED
        BY <2>1, <2>2
<1>3. I => NeverOverLimit(granted, rate)
    BY DEF LimiterInv
<1> HIDE DEF I, Refusals
<1>4. Limiter(clock, bucket, granted, rate) =>
         []NeverOverLimit(granted, rate) /\ [][Refusals]_<<clock, bucket, granted>>
    BY <1>1, <1>2, <1>3, PTL DEF Limiter
<1> QED
    BY <1>4 DEF Refusals
-----------------------------------------------------------------------------
(* Accounts (Accounts)                                                       *)

\* Addresses in lower case stay as they are.
LEMMA LowerFacts ==
    ASSUME NEW A, NEW S, NEW e \in Email(A, S)
    PROVE  /\ Lower(e) \in Email(A, S)
           /\ Lower(Lower(e)) = Lower(e)
<1>1. e \in [address: A, spelling: S \cup {"lower"}]
    BY DEF Email
<1>2. Lower(e) = [address |-> e.address, spelling |-> "lower"]
    BY <1>1 DEF Lower
<1>3. Lower(e) \in [address: A, spelling: S \cup {"lower"}]
    BY <1>1, <1>2
<1>4. Lower(Lower(e)) = [address |-> e.address, spelling |-> "lower"]
    BY <1>2, <1>3 DEF Lower
<1> QED
    BY <1>2, <1>3, <1>4 DEF Email

\* What holds between any two steps of the requests.
AccountsInv(users, requests, R, emails, roles) ==
    /\ requests \in [R -> {Idle} \cup [at: {"absent", "flushed"}, email: emails, role: roles]]
    /\ \A u \in users : u.email \in emails /\ Lower(u.email) = u.email
    /\ \A u, v \in users : u.email = v.email => u = v
    /\ AddressReserved(users, requests)

\* The request that takes a step, before and after it.
LEMMA OtherRequests ==
    ASSUME NEW R, NEW T, NEW requests \in [R -> T], NEW r \in R, NEW new \in T,
           NEW next, next = [requests EXCEPT ![r] = new]
    PROVE  /\ next \in [R -> T]
           /\ next[r] = new
           /\ \A s \in R \ {r} : next[s] = requests[s]
           /\ DOMAIN next = R /\ DOMAIN requests = R
OBVIOUS

\* A request that stops holding a row leaves the others as they are.
LEMMA NotFlushed ==
    ASSUME NEW users, NEW requests, NEW R, NEW emails, NEW roles,
           AccountsInv(users, requests, R, emails, roles),
           NEW r \in R, NEW next, NEW new,
           new = Idle \/ (new \in [at: {"absent"}, email: emails, role: roles]),
           next = [requests EXCEPT ![r] = new]
    PROVE  AccountsInv(users, next, R, emails, roles)
<1> DEFINE T == {Idle} \cup [at: {"absent", "flushed"}, email: emails, role: roles]
<1>1. requests \in [R -> T] /\ new \in T /\ new.at # "flushed"
    BY DEF AccountsInv, Idle
<1> HIDE DEF T
<1>2. /\ next \in [R -> T]
      /\ next[r] = new
      /\ \A s \in R \ {r} : next[s] = requests[s]
      /\ DOMAIN next = R /\ DOMAIN requests = R
    BY <1>1, OtherRequests
<1>3. \A s \in Flushed(next) : s \in Flushed(requests) /\ next[s] = requests[s]
    BY <1>1, <1>2 DEF Flushed
<1>4. AddressReserved(users, requests)
    BY DEF AccountsInv
<1>5. ASSUME NEW s \in Flushed(next)
      PROVE  /\ ByEmail(users, next[s].email) = {}
             /\ \A t \in Flushed(next) \ {s} : Lower(next[t].email) # Lower(next[s].email)
    <2>1. s \in Flushed(requests) /\ next[s] = requests[s]
        BY <1>3
    <2>2. \A t \in Flushed(next) \ {s} : t \in Flushed(requests) \ {s} /\ next[t] = requests[t]
        BY <1>3
    <2> QED
        BY <2>1, <2>2, <1>4 DEF AddressReserved
<1>6. AddressReserved(users, next)
    BY <1>5 DEF AddressReserved
<1> QED
    BY <1>2, <1>6 DEF AccountsInv, T

\* A row is flushed only if no other with its address is there or under way.
LEMMA FlushKeeps ==
    ASSUME NEW users, NEW requests, NEW R, NEW A, NEW S, NEW roles,
           AccountsInv(users, requests, R, Email(A, S), roles),
           NEW r \in R, requests[r].at = "absent",
           Unused(users, requests, Row(requests[r])),
           NEW next,
           next = [requests EXCEPT ![r] = With("flushed", requests[r].email, requests[r].role)]
    PROVE  AccountsInv(users, next, R, Email(A, S), roles)
<1> DEFINE emails == Email(A, S)
           Underway == [at: {"absent", "flushed"}, email: emails, role: roles]
           T == {Idle} \cup Underway
           new == With("flushed", requests[r].email, requests[r].role)
<1>1. requests \in [R -> T]
    BY DEF AccountsInv
<1>2. requests[r] \in Underway
    BY <1>1 DEF Idle
<1>3. /\ new \in T
      /\ new.at = "flushed" /\ new.email = requests[r].email
      /\ requests[r].email \in emails
    BY <1>2 DEF With
<1> HIDE DEF T, new
<1>4. /\ next \in [R -> T]
      /\ next[r] = new
      /\ \A s \in R \ {r} : next[s] = requests[s]
      /\ DOMAIN next = R /\ DOMAIN requests = R
    BY <1>1, <1>3, OtherRequests DEF new
<1>5. \A s \in Flushed(next) \ {r} : s \in Flushed(requests) /\ next[s] = requests[s]
    BY <1>4 DEF Flushed
<1>6. ASSUME NEW s \in Flushed(requests)
      PROVE  Lower(requests[s].email) # Lower(requests[r].email)
    BY <1>6 DEF Unused, Row, NewUser
<1>7. ASSUME NEW u \in users
      PROVE  Lower(u.email) # Lower(requests[r].email)
    BY <1>7 DEF Unused, Row, NewUser, AccountsInv
<1>8. AddressReserved(users, next)
    <2> SUFFICES ASSUME NEW s \in Flushed(next)
                 PROVE  /\ ByEmail(users, next[s].email) = {}
                        /\ \A t \in Flushed(next) \ {s} :
                              Lower(next[t].email) # Lower(next[s].email)
        BY DEF AddressReserved
    <2>1. CASE s = r
        <3>1. ByEmail(users, next[s].email) = {}
            BY <2>1, <1>3, <1>4, <1>7 DEF ByEmail
        <3>2. ASSUME NEW t \in Flushed(next) \ {s}
              PROVE  Lower(next[t].email) # Lower(next[s].email)
            BY <3>2, <2>1, <1>3, <1>4, <1>5, <1>6
        <3> QED
            BY <3>1, <3>2
    <2>2. CASE s # r
        <3>1. s \in Flushed(requests) /\ next[s] = requests[s]
            BY <2>2, <1>5
        <3>2. ByEmail(users, next[s].email) = {}
            BY <3>1 DEF AccountsInv, AddressReserved
        <3>3. ASSUME NEW t \in Flushed(next) \ {s}
              PROVE  Lower(next[t].email) # Lower(next[s].email)
            <4>1. CASE t = r
                BY <4>1, <3>1, <1>3, <1>4, <1>6
            <4>2. CASE t # r
                BY <4>2, <3>1, <3>3, <1>5 DEF AccountsInv, AddressReserved
            <4> QED
                BY <4>1, <4>2
        <3> QED
            BY <3>2, <3>3
    <2> QED
        BY <2>1, <2>2
<1> QED
    BY <1>4, <1>8 DEF AccountsInv, T

\* The row that is committed has an address of its own.
LEMMA CommitKeeps ==
    ASSUME NEW users, NEW requests, NEW R, NEW A, NEW S, NEW roles,
           AccountsInv(users, requests, R, Email(A, S), roles),
           NEW r \in R, requests[r].at = "flushed",
           NEW next, next = [requests EXCEPT ![r] = Idle]
    PROVE  AccountsInv(users \cup {Row(requests[r])}, next, R, Email(A, S), roles)
<1> DEFINE emails == Email(A, S)
           Underway == [at: {"absent", "flushed"}, email: emails, role: roles]
           T == {Idle} \cup Underway
           row == Row(requests[r])
           after == users \cup {row}
<1>1. requests \in [R -> T] /\ Idle \in T
    BY DEF AccountsInv
<1>2. requests[r] \in Underway
    BY <1>1 DEF Idle
<1>3. requests[r].email \in emails /\ row.email = Lower(requests[r].email)
    BY <1>2 DEF Row, NewUser
<1>4. row.email \in emails /\ Lower(row.email) = row.email
    BY <1>3, LowerFacts
<1> HIDE DEF T, row
<1>5. /\ next \in [R -> T]
      /\ next[r] = Idle
      /\ \A s \in R \ {r} : next[s] = requests[s]
      /\ DOMAIN next = R /\ DOMAIN requests = R
    BY <1>1, OtherRequests
<1>6. \A s \in Flushed(next) : s # r /\ s \in Flushed(requests) /\ next[s] = requests[s]
    BY <1>5 DEF Flushed, Idle
<1>7. r \in Flushed(requests)
    BY <1>5 DEF Flushed
<1>8. \A u \in users : u.email # row.email
    BY <1>3, <1>7 DEF AccountsInv, AddressReserved, ByEmail
<1>9. \A u \in after : u.email \in emails /\ Lower(u.email) = u.email
    BY <1>4 DEF AccountsInv
<1>10. \A u, v \in after : u.email = v.email => u = v
    BY <1>8 DEF AccountsInv
<1>11. ASSUME NEW s \in Flushed(next)
       PROVE  /\ ByEmail(after, next[s].email) = {}
              /\ \A t \in Flushed(next) \ {s} : Lower(next[t].email) # Lower(next[s].email)
    <2>1. s # r /\ s \in Flushed(requests) /\ next[s] = requests[s]
        BY <1>6
    <2>2. Lower(row.email) # Lower(next[s].email)
        BY <2>1, <1>3, <1>4, <1>7 DEF AccountsInv, AddressReserved
    <2>3. ByEmail(users, next[s].email) = {}
        BY <2>1 DEF AccountsInv, AddressReserved
    <2>4. ByEmail(after, next[s].email) = {}
        BY <2>2, <2>3 DEF ByEmail
    <2>5. \A t \in Flushed(next) \ {s} : Lower(next[t].email) # Lower(next[s].email)
        BY <2>1, <1>6 DEF AccountsInv, AddressReserved
    <2> QED
        BY <2>4, <2>5
<1>12. AddressReserved(after, next)
    BY <1>11 DEF AddressReserved
<1> QED
    BY <1>5, <1>9, <1>10, <1>12 DEF AccountsInv, T, row

\* However many creations of accounts and seedings of the administrator overlap,
\* and however they spell the address, no two accounts have the same: the lookup
\* may be out of date when the row is flushed, and the unique index knows one
\* spelling only, but rows have the address in lower case (auth_service.py).  So
\* the lookups of login, seeding and creation never meet two rows.
THEOREM AccountsCorrect ==
    ASSUME NEW VARIABLE users, NEW VARIABLE requests,
           NEW Requests, NEW A, NEW S, NEW roles
    PROVE  AccountsOf(users, requests, Requests, Email(A, S), roles)
               => [](OneAccount(users, Email(A, S)) /\ AddressReserved(users, requests))
<1> DEFINE emails == Email(A, S)
           I == AccountsInv(users, requests, Requests, emails, roles)
<1>1. users = {} /\ requests = [r \in Requests |-> Idle] => I
    BY DEF AccountsInv, AddressReserved, Flushed, Idle
<1>2. I /\ [ChangeAccounts(users, requests, emails, roles)]_<<users, requests>> => I'
    <2> SUFFICES ASSUME I, [ChangeAccounts(users, requests, emails, roles)]_<<users, requests>>
                 PROVE  I'
        OBVIOUS
    <2>0. DOMAIN requests = Requests
        BY DEF AccountsInv
    <2>1. ASSUME NEW r \in Requests, NEW email \in emails, NEW role \in roles,
                 LookUp(users, requests, r, email, role)
          PROVE  I'
        <3> DEFINE new == With("absent", email, role)
        <3>1. new \in [at: {"absent"}, email: emails, role: roles]
            BY <2>1 DEF With
        <3>2. requests' = [requests EXCEPT ![r] = new] /\ users' = users
            BY <2>1 DEF LookUp
        <3> HIDE DEF new
        <3>3. AccountsInv(users, requests', Requests, emails, roles)
            BY <3>1, <3>2, NotFlushed
        <3> QED
            BY <3>2, <3>3
    <2>2. ASSUME NEW r \in Requests, Flush(users, requests, r)
          PROVE  I'
        <3>1. /\ requests[r].at = "absent"
              /\ Unused(users, requests, Row(requests[r]))
              /\ requests' = [requests EXCEPT
                                ![r] = With("flushed", requests[r].email, requests[r].role)]
              /\ users' = users
            BY <2>2 DEF Flush
        <3>2. AccountsInv(users, requests', Requests, emails, roles)
            BY <3>1, FlushKeeps
        <3> QED
            BY <3>1, <3>2
    <2>3. ASSUME NEW r \in Requests, CommitUser(users, requests, r)
          PROVE  I'
        <3>1. /\ requests[r].at = "flushed"
              /\ requests' = [requests EXCEPT ![r] = Idle]
              /\ users' = users \cup {Row(requests[r])}
            BY <2>3 DEF CommitUser
        <3>2. AccountsInv(users \cup {Row(requests[r])}, requests', Requests, emails, roles)
            BY <3>1, CommitKeeps
        <3> QED
            BY <3>1, <3>2
    <2>4. ASSUME NEW r \in Requests, RollbackUser(users, requests, r)
          PROVE  I'
        <3>1. requests' = [requests EXCEPT ![r] = Idle] /\ users' = users
            BY <2>4 DEF RollbackUser
        <3>2. AccountsInv(users, requests', Requests, emails, roles)
            BY <3>1, NotFlushed
        <3> QED
            BY <3>1, <3>2
    <2>5. ASSUME UNCHANGED <<users, requests>>
          PROVE  I'
        BY <2>5
    <2> QED
        BY <2>0, <2>1, <2>2, <2>3, <2>4, <2>5 DEF ChangeAccounts
<1>3. I => OneAccount(users, emails) /\ AddressReserved(users, requests)
    BY DEF AccountsInv, OneAccount, ByEmail
<1> HIDE DEF I
<1> QED
    BY <1>1, <1>2, <1>3, PTL DEF AccountsOf
================================================================================
