----------------------------- MODULE CameraService -----------------------------
(***************************************************************************)
(* The camera endpoints that move a camera through its life, as            *)
(* services/camera_service.py runs them: several requests at a time, each  *)
(* in its own database transaction (core/database.get_db), interleaved by  *)
(* the event loop at every await.  A request                               *)
(*     loads the row                          (await _require)             *)
(*     calls the supervisor                   (one step, no await inside)  *)
(*     flushes its change to the row          (await flush, locks the row) *)
(*     commits, or rolls back on an exception (get_db)                     *)
(* so what it read may be old when it acts on it.                          *)
(***************************************************************************)
EXTENDS WorkerSupervisor

CONSTANTS
    Requests,         \* bound: requests in flight at the same time
    DatabaseMayFail   \* whether flushes and commits may fail

VARIABLES
    db,       \* camera -> committed status of its row, "unborn", or "deleted"
    locks,    \* camera -> request whose flushed change locks the row, or None
    req,      \* request -> its progress
    tainted   \* history: cameras whose requests overlapped or lost their transaction

vars == <<supervisorVars, db, locks, req, tainted>>

Statuses == {"inactive", "active", "error"}   \* CameraStatus; nothing sets STARTING
Rows == Statuses \cup {"unborn", "deleted"}
Operations == {"activate", "deactivate", "delete"}

ASSUME ServiceAssumption ==
    /\ None \notin Requests \cup Rows
    /\ DatabaseMayFail \in BOOLEAN

\* write is what the transaction is to change the row to, None for no change.
Idle == [pc |-> "idle", op |-> None, cam |-> None, seen |-> None, write |-> None]

InFlight(c) == {r \in Requests : req[r].cam = c}
Exists(c) == db[c] \in Statuses

Init ==
    /\ SupervisorInit
    /\ db = [c \in Cameras |-> "unborn"]
    /\ locks = [c \in Cameras |-> None]
    /\ req = [r \in Requests |-> Idle]
    /\ tainted = {}

-----------------------------------------------------------------------------
\* create_camera: the row appears at commit, INACTIVE.
CreateCamera(c) ==
    /\ db[c] = "unborn"
    /\ db' = [db EXCEPT ![c] = "inactive"]
    /\ UNCHANGED <<supervisorVars, locks, req, tainted>>

\* _require: a missing row is a NotFoundError and changes nothing.
Require(r, op, c) ==
    /\ req[r].pc = "idle"
    /\ Exists(c)
    /\ req' = [req EXCEPT ![r] = [pc |-> "loaded", op |-> op, cam |-> c,
                                  seen |-> db[c], write |-> None]]
    /\ tainted' = IF InFlight(c) = {} THEN tainted ELSE tainted \cup {c}
    /\ UNCHANGED <<supervisorVars, db, locks>>

\* The ORM flushes an attribute only if it differs from the loaded value.
Change(r, status) == IF req[r].seen = status THEN None ELSE status

\* activate_camera up to its flush.
CallActivate(r) ==
    LET c == req[r].cam
    IN  /\ req[r].pc = "loaded"
        /\ req[r].op = "activate"
        /\ \/ /\ Spawn(c)
              /\ req' = [req EXCEPT ![r].pc = "flush", ![r].write = Change(r, "active")]
           \/ /\ ~Admits(c)                  \* ConflictError
              /\ Refuse
              /\ req' = [req EXCEPT ![r] = Idle]
           \/ /\ Admits(c)                   \* WorkerError: status = ERROR, flush, raise
              /\ Refuse
              /\ req' = [req EXCEPT ![r].pc = "flush_error", ![r].write = Change(r, "error")]
        /\ UNCHANGED <<db, locks, tainted>>

\* deactivate_camera and delete_camera up to their flush.
CallStop(r) ==
    /\ req[r].pc = "loaded"
    /\ req[r].op \in {"deactivate", "delete"}
    /\ Stop(req[r].cam)
    /\ req' = [req EXCEPT ![r].pc = "flush",
                          ![r].write = IF req[r].op = "delete" THEN "deleted"
                                       ELSE Change(r, "inactive")]
    /\ UNCHANGED <<db, locks, tainted>>

\* flush: UPDATE or DELETE of the row, which waits for another transaction's
\* lock on it.
Flush(r) ==
    LET c == req[r].cam
    IN  /\ req[r].pc \in {"flush", "flush_error"}
        /\ req[r].write = None \/ locks[c] = None
        /\ req[r].write \in {None, "deleted"} \/ Exists(c)
        /\ locks' = IF req[r].write = None THEN locks ELSE [locks EXCEPT ![c] = r]
        /\ req' = [req EXCEPT ![r].pc = IF req[r].pc = "flush" THEN "commit" ELSE "raise"]
        /\ UNCHANGED <<supervisorVars, db, tainted>>

Unlock(r) == [c \in Cameras |-> IF locks[c] = r THEN None ELSE locks[c]]

\* Mutant: an unchanged status is written too.
CommitUnchanged(r) ==
    /\ req[r].pc = "commit"
    /\ db' = [db EXCEPT ![req[r].cam] = req[r].write]
    /\ locks' = Unlock(r)
    /\ req' = [req EXCEPT ![r] = Idle]
    /\ UNCHANGED <<supervisorVars, tainted>>

\* Mutant: the row stays locked after the commit.
CommitKeepsLock(r) ==
    /\ req[r].pc = "commit"
    /\ db' = [c \in Cameras |-> IF locks[c] = r THEN req[r].write ELSE db[c]]
    /\ req' = [req EXCEPT ![r] = Idle]
    /\ UNCHANGED <<supervisorVars, locks, tainted>>

\* get_db after the handler returned.
Commit(r) ==
    /\ req[r].pc = "commit"
    /\ db' = [c \in Cameras |-> IF locks[c] = r THEN req[r].write ELSE db[c]]
    /\ locks' = Unlock(r)
    /\ req' = [req EXCEPT ![r] = Idle]
    /\ UNCHANGED <<supervisorVars, tainted>>

\* get_db after the handler raised: the WorkerError of a failed activation.
RaiseWorkerError(r) ==
    /\ req[r].pc = "raise"
    /\ locks' = Unlock(r)
    /\ req' = [req EXCEPT ![r] = Idle]
    /\ UNCHANGED <<supervisorVars, db, tainted>>

Abort(r) ==
    /\ tainted' = tainted \cup {req[r].cam}
    /\ locks' = Unlock(r)
    /\ req' = [req EXCEPT ![r] = Idle]
    /\ UNCHANGED <<supervisorVars, db>>

\* The UPDATE of flush finds the row deleted: StaleDataError.
UpdateFindsNoRow(r) ==
    /\ req[r].pc \in {"flush", "flush_error"}
    /\ req[r].write \in Statuses
    /\ locks[req[r].cam] = None
    /\ ~Exists(req[r].cam)
    /\ Abort(r)

\* The flush, the audit entry or the commit fails: the database is out of
\* reach.  What the supervisor did stays done.
DatabaseFails(r) ==
    /\ DatabaseMayFail
    /\ req[r].pc \in {"flush", "flush_error", "commit"}
    /\ Abort(r)

WorkerExits(p) == ProcessExits(p) /\ UNCHANGED <<db, locks, req, tainted>>

\* The backend comes up again after the worker processes ended with it.  The
\* startup reads no camera: what was ACTIVE stays so in its row.
ComeUp ==
    /\ locks' = [c \in Cameras |-> None]
    /\ req' = [r \in Requests |-> Idle]
    /\ tainted' = {}
    /\ UNCHANGED db

\* Orderly: the requests are done, and lifespan ends with supervisor.shutdown.
Shutdown == (\A r \in Requests : req[r] = Idle) /\ StopAll /\ ComeUp

\* The container is killed, and every process in it.
Crash ==
    /\ handles' = [c \in Cameras |-> None]
    /\ process' = [p \in Pids |-> None]
    /\ ComeUp

Progress(r) ==
    \/ CallActivate(r) \/ CallStop(r) \/ Flush(r) \/ UpdateFindsNoRow(r)
    \/ Commit(r) \/ RaiseWorkerError(r)

Next ==
    \/ \E c \in Cameras : CreateCamera(c)
    \/ \E r \in Requests, op \in Operations, c \in Cameras : Require(r, op, c)
    \/ \E r \in Requests : Progress(r) \/ DatabaseFails(r)
    \/ \E p \in Pids : WorkerExits(p)
    \/ Shutdown
    \/ Crash

Spec == Init /\ [][Next]_vars

\* The event loop resumes every handler, and the database hands a row lock to
\* those waiting for it in turn.
FairSpec ==
    /\ Spec
    /\ \A r \in Requests : WF_vars(Progress(r)) /\ SF_vars(Flush(r))

-----------------------------------------------------------------------------
RequestType ==
    [pc : {"idle", "loaded", "flush", "flush_error", "commit", "raise"},
     op : Operations \cup {None}, cam : Cameras \cup {None},
     seen : Statuses \cup {None}, write : Statuses \cup {"deleted", None}]

TypeOK ==
    /\ SupervisorTypeOK
    /\ db \in [Cameras -> Rows]
    /\ locks \in [Cameras -> Requests \cup {None}]
    /\ req \in [Requests -> RequestType]
    /\ tainted \subseteq Cameras

\* Mutant: the status is reported as stored.
ReportedAsStored(c) == db[c]

\* _to_detail: ACTIVE is reported only while the worker lives.
Reported(c) == IF db[c] = "active" /\ ~IsRunning(c) THEN "inactive" ELSE db[c]

\* Between requests on a camera, what the API says of it is so: it is reported
\* ACTIVE if and only if its worker runs, and a deleted camera has no worker.
\* Only requests that overlap on the same camera, or a lost transaction, can
\* make it otherwise (until the next restart).
StatusTellsTruth ==
    \A c \in Cameras \ tainted :
        InFlight(c) = {} => (Reported(c) = "active" <=> IsRunning(c))

\* registry.py:1 "Registry tracking one live worker process per active
\* camera."  With no request in flight, the camera of a live worker exists.
LiveWorkerHasCamera ==
    (\A r \in Requests : req[r] = Idle) => \A c \in Cameras : IsRunning(c) => Exists(c)

\* A failed activation leaves no trace in the row: the ERROR status it flushes
\* is rolled back by get_db when the WorkerError passes through it.
ErrorNeverStored == \A c \in Cameras : db[c] # "error"

\* Every request ends, whatever row it has to wait for.
RequestsEnd == \A r \in Requests : req[r].pc # "idle" ~> req[r].pc = "idle"
================================================================================
