-------------------------- MODULE CameraServiceProofs --------------------------
(* Theorems about the camera life cycle, for any number of cameras, processes  *)
(* and concurrent requests.                                                    *)
EXTENDS CameraService, VideoUpload, VideoStream, FiniteSetTheorems, TLAPS

\* Calling the supervisor keeps its variables well typed.
LEMMA SupervisorTypes ==
    ASSUME SupervisorTypeOK,
           \/ \E c \in Cameras : Spawn(c) \/ Stop(c)
           \/ Refuse
           \/ StopAll
           \/ \E p \in Pids : ProcessExits(p)
           \/ UNCHANGED supervisorVars
    PROVE  SupervisorTypeOK'
<1> USE DEF SupervisorTypeOK
<1>1. PruneDead \in [Cameras -> Pids \cup {None}]
    BY DEF PruneDead
<1>2. ASSUME NEW c \in Cameras, Spawn(c) PROVE SupervisorTypeOK'
    BY <1>1, <1>2 DEF Spawn
<1>3. ASSUME NEW c \in Cameras, Stop(c) PROVE SupervisorTypeOK'
    BY <1>3 DEF Stop
<1>4. CASE Refuse
    BY <1>1, <1>4 DEF Refuse
<1>5. CASE StopAll
    BY <1>5 DEF StopAll
<1>6. ASSUME NEW p \in Pids, ProcessExits(p) PROVE SupervisorTypeOK'
    BY <1>6 DEF ProcessExits
<1>7. CASE UNCHANGED supervisorVars
    BY <1>7 DEF supervisorVars
<1> QED
    BY <1>2, <1>3, <1>4, <1>5, <1>6, <1>7

\* What activate_camera leaves of its request: nothing after a ConflictError,
\* else a change to ACTIVE after the worker started, or to ERROR.
LEMMA ActivateRequest ==
    ASSUME req \in [Requests -> RequestType], NEW r \in Requests, CallActivate(r)
    PROVE  \E rec \in RequestType :
             /\ req' = [req EXCEPT ![r] = rec]
             /\ \/ rec = Idle /\ Refuse
                \/ /\ rec.cam = req[r].cam
                   /\ rec.pc = "flush"
                   /\ rec.write = Change(r, "active")
                   /\ Spawn(req[r].cam)
                \/ /\ rec.cam = req[r].cam
                   /\ rec.pc = "flush_error"
                   /\ Admits(req[r].cam)
                   /\ Refuse
<1>1. req[r] \in RequestType /\ Idle \in RequestType
    BY DEF Idle, RequestType
<1>2. ASSUME NEW stage \in {"flush", "flush_error"}, NEW w \in Statuses,
             req' = [req EXCEPT ![r].pc = stage, ![r].write = Change(r, w)]
      PROVE  \E rec \in RequestType :
               /\ req' = [req EXCEPT ![r] = rec]
               /\ rec.cam = req[r].cam /\ rec.pc = stage /\ rec.write = Change(r, w)
  <2> DEFINE rec == [req[r] EXCEPT !.pc = stage, !.write = Change(r, w)]
  <2>1. rec \in RequestType
    BY <1>1 DEF RequestType, Change
  <2>2. rec.cam = req[r].cam /\ rec.pc = stage /\ rec.write = Change(r, w)
    BY <1>1 DEF RequestType
  <2>3. req' = [req EXCEPT ![r] = rec]
    BY <1>1, <1>2
  <2> QED
    BY <2>1, <2>2, <2>3
<1>3. CASE Spawn(req[r].cam) /\ req' = [req EXCEPT ![r].pc = "flush", ![r].write = Change(r, "active")]
    BY <1>2, <1>3 DEF Statuses
<1>4. CASE Refuse /\ req' = [req EXCEPT ![r] = Idle]
    BY <1>1, <1>4
<1>5. CASE /\ Admits(req[r].cam)
           /\ Refuse
           /\ req' = [req EXCEPT ![r].pc = "flush_error", ![r].write = Change(r, "error")]
    BY <1>2, <1>5 DEF Statuses
<1> QED
    BY <1>3, <1>4, <1>5 DEF CallActivate

\* A request is idle or works on a camera, and a row is locked only by the
\* request that has flushed a change to it.
RequestInv ==
    /\ \A r \in Requests : req[r].pc # "idle" => req[r].cam \in Cameras
    /\ \A r \in Requests : req[r].pc = "idle" => req[r] = Idle
    /\ \A c \in Cameras, r \in Requests :
        locks[c] = r => /\ req[r].cam = c
                        /\ req[r].pc \in {"commit", "raise"}
                        /\ req[r].write # None

\* A step changes the record of one request, or of none, or ends them all.
LEMMA RequestInvariant == Spec => [](TypeOK /\ RequestInv)
<1> USE SupervisorAssumption, ServiceAssumption
<1>1. Init => TypeOK /\ RequestInv
    BY DEF Init, SupervisorInit, TypeOK, SupervisorTypeOK, RequestType, Idle, Rows, RequestInv
<1>2. TypeOK /\ RequestInv /\ [Next]_vars => (TypeOK /\ RequestInv)'
  <2> SUFFICES ASSUME TypeOK, RequestInv, [Next]_vars PROVE (TypeOK /\ RequestInv)'
    OBVIOUS
  <2>0. Idle \in RequestType /\ Idle.pc = "idle"
    BY DEF Idle, RequestType
  <2> USE DEF TypeOK, RequestInv
  <2>1. ASSUME NEW c \in Cameras, CreateCamera(c) PROVE (TypeOK /\ RequestInv)'
    BY <2>1, SupervisorTypes DEF CreateCamera, Rows, Statuses
  <2>2. ASSUME NEW r \in Requests, NEW op \in Operations, NEW c \in Cameras, Require(r, op, c)
        PROVE (TypeOK /\ RequestInv)'
    BY <2>2, SupervisorTypes DEF Require, Exists, RequestType
  <2>3. ASSUME NEW r \in Requests, Progress(r) \/ DatabaseFails(r)
        PROVE (TypeOK /\ RequestInv)'
    <3>1. req[r] \in RequestType
      OBVIOUS
    <3>2. CASE CallActivate(r)
      <4>1. SupervisorTypeOK'
        BY <3>2, SupervisorTypes, <3>1 DEF CallActivate, RequestType
      <4>2. PICK rec \in RequestType :
              /\ req' = [req EXCEPT ![r] = rec]
              /\ \/ rec = Idle
                 \/ rec.cam = req[r].cam /\ rec.pc \in {"flush", "flush_error"}
        BY <3>2, ActivateRequest
      <4>3. req[r].pc = "loaded" /\ UNCHANGED <<db, locks, tainted>>
        BY <3>2 DEF CallActivate
      <4> QED
        BY <2>0, <3>1, <4>1, <4>2, <4>3
    <3>3. CASE CallStop(r)
      <4>1. SupervisorTypeOK'
        BY <3>3, SupervisorTypes DEF CallStop
      <4> DEFINE w == IF req[r].op = "delete" THEN "deleted" ELSE Change(r, "inactive")
                 rec == [req[r] EXCEPT !.pc = "flush", !.write = w]
      <4>2. rec \in RequestType /\ rec.cam = req[r].cam /\ rec.pc = "flush"
        BY <3>1 DEF RequestType, Change, Statuses
      <4>3. req' = [req EXCEPT ![r] = rec]
        BY <3>1, <3>3 DEF CallStop
      <4>4. req[r].pc = "loaded" /\ UNCHANGED <<db, locks, tainted>>
        BY <3>3 DEF CallStop
      <4> HIDE DEF rec
      <4> QED
        BY <3>1, <4>1, <4>2, <4>3, <4>4
    <3>4. CASE Flush(r)
      BY <3>1, <3>4, SupervisorTypes DEF Flush, RequestType
    <3>5. CASE Commit(r)
      <4>1. locks' \in [Cameras -> Requests \cup {None}]
        BY <3>5 DEF Commit, Unlock
      <4>2. RequestInv'
        BY <2>0, <3>5 DEF Commit, Unlock
      <4>3. db' \in [Cameras -> Rows]
        BY <3>1, <3>5 DEF Commit, RequestType, Rows
      <4> QED
        BY <2>0, <3>5, <4>1, <4>2, <4>3, SupervisorTypes DEF Commit
    <3>6. CASE RaiseWorkerError(r)
      BY <2>0, <3>6, SupervisorTypes DEF RaiseWorkerError, Unlock
    <3>7. CASE UpdateFindsNoRow(r) \/ DatabaseFails(r)
      <4>1. Abort(r) /\ req[r].pc # "idle"
        BY <3>7 DEF UpdateFindsNoRow, DatabaseFails
      <4> QED
        BY <2>0, <4>1, SupervisorTypes DEF Abort, Unlock
    <3> QED
      BY <2>3, <3>2, <3>3, <3>4, <3>5, <3>6, <3>7 DEF Progress
  <2>4. ASSUME NEW p \in Pids, WorkerExits(p) PROVE (TypeOK /\ RequestInv)'
    BY <2>4, SupervisorTypes DEF WorkerExits
  <2>5. CASE Shutdown
    BY <2>0, <2>5, SupervisorTypes DEF Shutdown, ComeUp, Idle
  <2>6. CASE Crash
    BY <2>0, <2>6 DEF Crash, ComeUp, Idle, SupervisorTypeOK
  <2>7. CASE UNCHANGED vars
    BY <2>7, SupervisorTypes DEF vars
  <2> QED
    BY <2>1, <2>2, <2>3, <2>4, <2>5, <2>6, <2>7 DEF Next
<1> QED
    BY <1>1, <1>2, PTL DEF Spec

\* Every variable keeps its type.
THEOREM TypeCorrect == Spec => []TypeOK
BY RequestInvariant, PTL

-----------------------------------------------------------------------------
\* What the registry loses by pruning is dead already.
LEMMA PruneKeepsRunning ==
    ASSUME NEW c \in Cameras
    PROVE  /\ IsRunning(c) => PruneDead[c] = handles[c]
           /\ ~IsRunning(c) => PruneDead[c] = None
BY DEF PruneDead

\* Live processes are registered for different cameras, so they are no more
\* than the running cameras that activate counts.
LEMMA LiveAreCounted ==
    ASSUME SupervisorTypeOK, NoStrayWorker
    PROVE  /\ IsFiniteSet(LivePids) /\ IsFiniteSet(ActiveIds)
           /\ Cardinality(LivePids) <= Cardinality(ActiveIds)
<1> DEFINE f == [p \in LivePids |-> process[p]]
<1>1. IsFiniteSet(ActiveIds)
    BY SupervisorAssumption, FS_Subset DEF ActiveIds
<1>2. f \in Injection(LivePids, ActiveIds)
  <2>1. \A p \in LivePids : p \in Pids /\ process[p] \in Cameras /\ handles[process[p]] = p
    BY DEF LivePids, IsAlive, SupervisorTypeOK, NoStrayWorker
  <2>2. \A p \in LivePids : process[p] \in ActiveIds
    BY <2>1, SupervisorAssumption DEF LivePids, ActiveIds, IsRunning, IsAlive
  <2> QED
    BY <2>1, <2>2 DEF Injection, IsInjective
<1> QED
    BY <1>1, <1>2, FS_Injection

\* Every operation on the workers keeps the live ones registered and within
\* the limit.
LEMMA WorkersInvariant ==
    ASSUME SupervisorTypeOK, NoStrayWorker, CapacityRespected,
           \/ \E c \in Cameras : Spawn(c) \/ Stop(c)
           \/ Refuse
           \/ StopAll
           \/ \E p \in Pids : ProcessExits(p)
           \/ UNCHANGED supervisorVars
    PROVE  NoStrayWorker' /\ CapacityRespected'
<1> USE SupervisorAssumption DEF SupervisorTypeOK, IsAlive
<1>1. IsFiniteSet(LivePids) /\ Cardinality(LivePids) \in Nat
    BY LiveAreCounted, FS_CardinalityType
<1>2. ASSUME LivePids' \subseteq LivePids PROVE CapacityRespected'
  <2>1. Cardinality(LivePids') \in Nat /\ Cardinality(LivePids') <= Cardinality(LivePids)
    BY <1>1, <1>2, FS_Subset, FS_CardinalityType
  <2> QED
    BY <1>1, <2>1 DEF CapacityRespected
<1>3. ASSUME NEW c \in Cameras, Spawn(c) PROVE NoStrayWorker' /\ CapacityRespected'
  <2>1. PICK p \in Pids :
            /\ ~IsAlive(p)
            /\ handles' = [PruneDead EXCEPT ![c] = p]
            /\ process' = [process EXCEPT ![p] = c]
    BY <1>3 DEF Spawn
  <2>2. ~IsRunning(c) /\ Cardinality(ActiveIds) < MaxActive
    BY <1>3 DEF Spawn, Admits
  <2>3. NoStrayWorker'
    BY <2>1, <2>2 DEF NoStrayWorker, PruneDead, IsRunning
  <2>4. LivePids' = LivePids \cup {p}
    BY <2>1 DEF LivePids
  <2>5. Cardinality(LivePids') = Cardinality(LivePids) + 1
    BY <1>1, <2>1, <2>4, FS_AddElement DEF LivePids
  <2>6. Cardinality(LivePids) <= Cardinality(ActiveIds) /\ Cardinality(ActiveIds) \in Nat
    BY LiveAreCounted, FS_CardinalityType
  <2> QED
    BY <1>1, <2>2, <2>3, <2>5, <2>6 DEF CapacityRespected
<1>4. ASSUME NEW c \in Cameras, Stop(c) PROVE NoStrayWorker' /\ CapacityRespected'
  <2>1. NoStrayWorker'
    BY <1>4 DEF Stop, NoStrayWorker
  <2>2. LivePids' \subseteq LivePids
    BY <1>4 DEF Stop, LivePids
  <2> QED
    BY <1>2, <2>1, <2>2
<1>5. CASE Refuse
  <2>1. NoStrayWorker'
    BY <1>5 DEF Refuse, NoStrayWorker, PruneDead, IsRunning
  <2>2. LivePids' = LivePids
    BY <1>5 DEF Refuse, LivePids
  <2> QED
    BY <1>2, <2>1, <2>2
<1>6. CASE StopAll
  <2>1. LivePids' = {}
    BY <1>6 DEF StopAll, LivePids, NoStrayWorker
  <2>2. NoStrayWorker'
    BY <2>1 DEF LivePids, NoStrayWorker
  <2> QED
    BY <1>2, <2>1, <2>2
<1>7. ASSUME NEW p \in Pids, ProcessExits(p) PROVE NoStrayWorker' /\ CapacityRespected'
  <2>1. NoStrayWorker'
    BY <1>7 DEF ProcessExits, NoStrayWorker
  <2>2. LivePids' \subseteq LivePids
    BY <1>7 DEF ProcessExits, LivePids
  <2> QED
    BY <1>2, <2>1, <2>2
<1>8. CASE UNCHANGED supervisorVars
    BY <1>8 DEF supervisorVars, NoStrayWorker, CapacityRespected, LivePids
<1> QED
    BY <1>3, <1>4, <1>5, <1>6, <1>7, <1>8

LEMMA WorkersCorrect == Spec => [](NoStrayWorker /\ CapacityRespected)
<1>1. Init => NoStrayWorker /\ CapacityRespected
  <2> SUFFICES ASSUME Init PROVE NoStrayWorker /\ CapacityRespected
    OBVIOUS
  <2>1. LivePids = {} /\ NoStrayWorker
    BY DEF Init, SupervisorInit, LivePids, IsAlive, NoStrayWorker
  <2> QED
    BY <2>1, FS_EmptySet, SupervisorAssumption DEF CapacityRespected
<1>2. TypeOK /\ RequestInv /\ NoStrayWorker /\ CapacityRespected /\ [Next]_vars
        => (NoStrayWorker /\ CapacityRespected)'
  <2> SUFFICES ASSUME TypeOK, RequestInv, NoStrayWorker, CapacityRespected, [Next]_vars
               PROVE  NoStrayWorker' /\ CapacityRespected'
    OBVIOUS
  <2>1. CASE Crash
    <3>1. LivePids' = {} /\ NoStrayWorker'
      BY <2>1 DEF Crash, LivePids, IsAlive, NoStrayWorker
    <3> QED
      BY <3>1, FS_EmptySet, SupervisorAssumption DEF CapacityRespected
  <2>2. CASE ~Crash
    <3>1. \/ \E c \in Cameras : Spawn(c) \/ Stop(c)
          \/ Refuse
          \/ StopAll
          \/ \E p \in Pids : ProcessExits(p)
          \/ UNCHANGED supervisorVars
      <4>1. ASSUME NEW r \in Requests, CallActivate(r)
            PROVE  Refuse \/ \E c \in Cameras : Spawn(c)
        <5>1. req[r].cam \in Cameras
          BY <4>1 DEF CallActivate, RequestInv
        <5> QED
          BY <4>1, <5>1 DEF CallActivate
      <4>2. ASSUME NEW r \in Requests, CallStop(r) PROVE \E c \in Cameras : Stop(c)
        <5>1. req[r].cam \in Cameras
          BY <4>2 DEF CallStop, RequestInv
        <5> QED
          BY <4>2, <5>1 DEF CallStop
      <4> QED
        BY <2>2, <4>1, <4>2
        DEF Next, vars, supervisorVars, Progress, CreateCamera, Require, Flush, Commit,
            RaiseWorkerError, UpdateFindsNoRow, DatabaseFails, Abort, WorkerExits, Shutdown
    <3> QED
      BY <3>1, WorkersInvariant DEF TypeOK
  <2> QED
    BY <2>1, <2>2
<1> QED
    BY <1>1, <1>2, RequestInvariant, PTL DEF Spec

\* No worker process lives without being the one registered for its camera,
\* so stopping a camera, or the backend, reaches every worker it started.
THEOREM NoStrayWorkerCorrect == Spec => []NoStrayWorker
BY WorkersCorrect, PTL

\* However requests interleave and workers die, the live worker processes are
\* never more than max_active_cameras.
THEOREM CapacityCorrect == Spec => []CapacityRespected
BY WorkersCorrect, PTL

-----------------------------------------------------------------------------
\* A change on its way to a commit is never the ERROR status.
ErrorInv ==
    /\ ErrorNeverStored
    /\ \A r \in Requests : req[r].pc \in {"flush", "commit"} => req[r].write # "error"

\* The ERROR status a failed activation flushes never reaches the database.
THEOREM ErrorNeverStoredCorrect == Spec => []ErrorNeverStored
<1>1. Init => ErrorInv
    BY DEF Init, ErrorInv, ErrorNeverStored, Idle
<1>2. TypeOK /\ RequestInv /\ ErrorInv /\ [Next]_vars => ErrorInv'
  <2> SUFFICES ASSUME TypeOK, RequestInv, ErrorInv, [Next]_vars PROVE ErrorInv'
    OBVIOUS
  <2>0. Idle.pc = "idle"
    BY DEF Idle
  <2>1. ASSUME NEW r \in Requests, Progress(r) \/ DatabaseFails(r) PROVE ErrorInv'
    <3>1. CASE CallActivate(r)
      <4>1. PICK rec \in RequestType :
              /\ req' = [req EXCEPT ![r] = rec]
              /\ rec = Idle \/ rec.pc = "flush_error" \/ rec.write = Change(r, "active")
        BY <3>1, ActivateRequest DEF TypeOK
      <4> QED
        BY <2>0, <3>1, <4>1, ServiceAssumption
        DEF CallActivate, Change, Rows, Statuses, ErrorInv, ErrorNeverStored, TypeOK
    <3>2. CASE CallStop(r)
      BY <3>2, ServiceAssumption DEF CallStop, Rows, Statuses, ErrorInv, ErrorNeverStored, TypeOK, RequestType, Change
    <3>3. CASE Flush(r)
      BY <3>3 DEF Flush, ErrorInv, ErrorNeverStored, TypeOK, RequestType
    <3>4. CASE Commit(r)
      BY <2>0, <3>4 DEF Commit, ErrorInv, ErrorNeverStored, TypeOK
    <3>5. CASE RaiseWorkerError(r)
      BY <2>0, <3>5 DEF RaiseWorkerError, ErrorInv, ErrorNeverStored, TypeOK
    <3>6. CASE UpdateFindsNoRow(r) \/ DatabaseFails(r)
      BY <2>0, <3>6 DEF UpdateFindsNoRow, DatabaseFails, Abort, ErrorInv, ErrorNeverStored, TypeOK
    <3> QED
      BY <2>1, <3>1, <3>2, <3>3, <3>4, <3>5, <3>6 DEF Progress
  <2>2. ASSUME NEW r \in Requests, NEW op \in Operations, NEW c \in Cameras, Require(r, op, c)
        PROVE ErrorInv'
    BY <2>2 DEF Require, ErrorInv, ErrorNeverStored, TypeOK
  <2>3. ASSUME NEW c \in Cameras, CreateCamera(c) PROVE ErrorInv'
    BY <2>3 DEF CreateCamera, ErrorInv, ErrorNeverStored, TypeOK
  <2>4. CASE (\E p \in Pids : WorkerExits(p)) \/ UNCHANGED vars
    BY <2>4 DEF WorkerExits, vars, ErrorInv, ErrorNeverStored
  <2>5. CASE Shutdown \/ Crash
    BY <2>0, <2>5 DEF Shutdown, Crash, ComeUp, ErrorInv, ErrorNeverStored
  <2> QED
    BY <2>1, <2>2, <2>3, <2>4, <2>5 DEF Next
<1>3. ErrorInv => ErrorNeverStored
    BY DEF ErrorInv
<1> QED
    BY <1>1, <1>2, <1>3, RequestInvariant, PTL DEF Spec

-----------------------------------------------------------------------------
\* What a request whose transaction is still to end will leave in its row.
Outcome(r) == IF req[r].write = None THEN db[req[r].cam] ELSE req[r].write

\* A camera whose requests did not overlap: a running worker is covered by an
\* ACTIVE row, or by the change that the one request in flight will commit.
CameraInv(c) ==
    /\ \A r \in InFlight(c) :
        /\ InFlight(c) = {r}
        /\ db[c] # "unborn"
        /\ req[r].pc = "loaded" => req[r].seen = db[c] /\ (IsRunning(c) => db[c] = "active")
        /\ req[r].pc \in {"flush", "commit"} => (IsRunning(c) => Outcome(r) = "active")
        /\ req[r].pc \in {"flush_error", "raise"} => ~IsRunning(c)
        /\ req[r].pc = "commit" /\ req[r].write # None => locks[c] = r
    /\ InFlight(c) = {} /\ IsRunning(c) => db[c] = "active"

\* Only activate makes a camera run, and only the camera it is called for.
LEMMA OnlySpawnRuns ==
    ASSUME SupervisorTypeOK, NEW c \in Cameras,
           \/ \E d \in Cameras \ {c} : Spawn(d) \/ Stop(d)
           \/ Stop(c)
           \/ Refuse
           \/ \E p \in Pids : ProcessExits(p)
           \/ UNCHANGED supervisorVars
    PROVE  IsRunning(c)' => IsRunning(c)
<1> USE SupervisorAssumption DEF SupervisorTypeOK, IsRunning, IsAlive
<1>1. ASSUME NEW d \in Cameras \ {c}, Spawn(d) PROVE IsRunning(c)' => IsRunning(c)
    BY <1>1 DEF Spawn, PruneDead
<1>2. ASSUME NEW d \in Cameras, Stop(d) PROVE IsRunning(c)' => IsRunning(c)
    BY <1>2 DEF Stop
<1>3. CASE Refuse
    BY <1>3 DEF Refuse, PruneDead
<1>4. ASSUME NEW p \in Pids, ProcessExits(p) PROVE IsRunning(c)' => IsRunning(c)
    BY <1>4 DEF ProcessExits
<1>5. CASE UNCHANGED supervisorVars
    BY <1>5 DEF supervisorVars
<1> QED
    BY <1>1, <1>2, <1>3, <1>4, <1>5

\* A step of a request working on another camera leaves this one as it was.
LEMMA OtherCamera ==
    ASSUME TypeOK, RequestInv, NEW c \in Cameras, NEW r \in Requests,
           CameraInv(c), req[r].cam # c, Progress(r) \/ DatabaseFails(r)
    PROVE  CameraInv(c)'
<1>1. req[r].cam \in Cameras \ {c} /\ c # None
    BY SupervisorAssumption DEF RequestInv, Progress, DatabaseFails, CallActivate, CallStop, Flush,
       UpdateFindsNoRow, Commit, RaiseWorkerError
<1>2. \E rec : req' = [req EXCEPT ![r] = rec] /\ rec.cam # c
  <2>0. Idle.cam # c /\ req[r] \in RequestType
    BY <1>1 DEF Idle, TypeOK
  <2>1. CASE CallActivate(r)
    BY <1>1, <2>0, <2>1, ActivateRequest DEF TypeOK
  <2>2. CASE CallStop(r)
    <3> DEFINE w == IF req[r].op = "delete" THEN "deleted" ELSE Change(r, "inactive")
               rec == [req[r] EXCEPT !.pc = "flush", !.write = w]
    <3>1. rec.cam = req[r].cam
      BY <2>0 DEF RequestType
    <3>2. req' = [req EXCEPT ![r] = rec]
      BY <2>0, <2>2 DEF CallStop, TypeOK
    <3> HIDE DEF rec
    <3> QED
      BY <1>1, <3>1, <3>2
  <2>3. CASE Flush(r)
    <3> DEFINE rec == [req[r] EXCEPT !.pc = IF req[r].pc = "flush" THEN "commit" ELSE "raise"]
    <3>1. rec.cam = req[r].cam
      BY <2>0 DEF RequestType
    <3>2. req' = [req EXCEPT ![r] = rec]
      BY <2>0, <2>3 DEF Flush, TypeOK
    <3> HIDE DEF rec
    <3> QED
      BY <1>1, <3>1, <3>2
  <2>4. CASE req' = [req EXCEPT ![r] = Idle]
    BY <2>0, <2>4
  <2> QED
    BY <2>1, <2>2, <2>3, <2>4 DEF Progress, Commit, RaiseWorkerError, UpdateFindsNoRow,
       DatabaseFails, Abort
<1>3. InFlight(c)' = InFlight(c) /\ \A s \in InFlight(c) : req'[s] = req[s]
    BY <1>2 DEF InFlight, TypeOK
<1>4. db'[c] = db[c] /\ \A s \in InFlight(c) : locks[c] = s => locks'[c] = s
    BY <1>1 DEF TypeOK, RequestInv, InFlight, Progress, CallActivate, CallStop, Flush, Commit,
       RaiseWorkerError, UpdateFindsNoRow, DatabaseFails, Abort, Unlock
<1>5. IsRunning(c)' => IsRunning(c)
    BY <1>1, OnlySpawnRuns DEF TypeOK, Progress, CallActivate, CallStop, Flush, Commit,
       RaiseWorkerError, UpdateFindsNoRow, DatabaseFails, Abort, supervisorVars
<1> QED
    BY <1>3, <1>4, <1>5 DEF CameraInv, Outcome, InFlight

\* A step of the one request that works on the camera.
LEMMA OwnCamera ==
    ASSUME TypeOK, RequestInv, NEW r \in Requests, NEW c \in Cameras, c = req[r].cam,
           CameraInv(c), c \notin tainted', Progress(r) \/ DatabaseFails(r)
    PROVE  CameraInv(c)'
<1>1. InFlight(c) = {r} /\ db[c] # "unborn" /\ req[r] \in RequestType
    BY DEF CameraInv, InFlight, TypeOK
<1>2. Idle.cam # c
    BY SupervisorAssumption DEF Idle
<1>3. ASSUME req' = [req EXCEPT ![r] = Idle], IsRunning(c)' => db'[c] = "active"
      PROVE  CameraInv(c)'
  <2>1. InFlight(c)' = {}
    BY <1>1, <1>2, <1>3 DEF InFlight, TypeOK
  <2> QED
    BY <1>3, <2>1 DEF CameraInv
<1>4. ASSUME NEW rec, rec.cam = c, req' = [req EXCEPT ![r] = rec]
      PROVE  InFlight(c)' = {r} /\ req'[r] = rec
    BY <1>1, <1>4 DEF InFlight, TypeOK
<1>5. CASE CallActivate(r)
  <2>1. PICK rec \in RequestType :
          /\ req' = [req EXCEPT ![r] = rec]
          /\ \/ rec = Idle /\ Refuse
             \/ /\ rec.cam = c
                /\ rec.pc = "flush"
                /\ rec.write = Change(r, "active")
                /\ Spawn(c)
             \/ /\ rec.cam = c
                /\ rec.pc = "flush_error"
                /\ Admits(c)
                /\ Refuse
    BY <1>5, ActivateRequest DEF TypeOK
  <2>2. /\ UNCHANGED <<db, locks>>
        /\ req[r].pc = "loaded"
        /\ req[r].seen = db[c]
        /\ IsRunning(c) => db[c] = "active"
    BY <1>1, <1>5 DEF CallActivate, CameraInv
  <2>3. Refuse => (IsRunning(c)' => IsRunning(c))
    BY OnlySpawnRuns DEF TypeOK
  <2>4. CASE rec = Idle /\ Refuse
    BY <1>3, <2>1, <2>2, <2>3, <2>4
  <2>5. CASE rec.cam = c /\ rec.pc = "flush" /\ rec.write = Change(r, "active")
    <3>1. InFlight(c)' = {r} /\ req'[r] = rec
      BY <1>4, <2>1, <2>5
    <3>2. Outcome(r)' = "active"
      BY <2>2, <2>5, <3>1, ServiceAssumption DEF Outcome, Change, Rows, Statuses
    <3> QED
      BY <1>1, <2>2, <2>5, <3>1, <3>2 DEF CameraInv
  <2>6. CASE rec.cam = c /\ rec.pc = "flush_error" /\ Admits(c) /\ Refuse
    BY <1>1, <1>4, <2>1, <2>2, <2>3, <2>6 DEF CameraInv, Admits
  <2> QED
    BY <2>1, <2>4, <2>5, <2>6
<1>6. CASE CallStop(r)
  <2> DEFINE w == IF req[r].op = "delete" THEN "deleted" ELSE Change(r, "inactive")
             rec == [req[r] EXCEPT !.pc = "flush", !.write = w]
  <2>1. rec.cam = c /\ rec.pc = "flush"
    BY <1>1 DEF RequestType
  <2>2. req' = [req EXCEPT ![r] = rec]
    BY <1>1, <1>6 DEF CallStop, TypeOK
  <2>3. ~IsRunning(c)' /\ UNCHANGED <<db, locks>>
    BY <1>6 DEF CallStop, Stop, IsRunning, TypeOK, SupervisorTypeOK
  <2> HIDE DEF rec
  <2> QED
    BY <1>1, <1>4, <2>1, <2>2, <2>3 DEF CameraInv
<1>7. CASE Flush(r)
  <2> DEFINE rec == [req[r] EXCEPT !.pc = IF req[r].pc = "flush" THEN "commit" ELSE "raise"]
  <2>1. /\ rec.cam = c
        /\ rec.pc = IF req[r].pc = "flush" THEN "commit" ELSE "raise"
        /\ rec.write = req[r].write
    BY <1>1 DEF RequestType
  <2>2. req' = [req EXCEPT ![r] = rec]
    BY <1>1, <1>7 DEF Flush, TypeOK
  <2>3. /\ UNCHANGED <<supervisorVars, db>>
        /\ req[r].pc \in {"flush", "flush_error"}
        /\ req[r].write # None => locks'[c] = r
    BY <1>7 DEF Flush, TypeOK
  <2>4. IsRunning(c)' => IsRunning(c)
    BY <2>3, OnlySpawnRuns DEF TypeOK
  <2> HIDE DEF rec
  <2>5. InFlight(c)' = {r} /\ req'[r] = rec
    BY <1>4, <2>1, <2>2
  <2>6. Outcome(r)' = Outcome(r)
    BY <2>1, <2>3, <2>5 DEF Outcome
  <2>7. CASE req[r].pc = "flush"
    BY <1>1, <2>1, <2>3, <2>4, <2>5, <2>6, <2>7 DEF CameraInv
  <2>8. CASE req[r].pc = "flush_error"
    BY <1>1, <2>1, <2>3, <2>4, <2>5, <2>8 DEF CameraInv
  <2> QED
    BY <2>3, <2>7, <2>8
<1>8. CASE Commit(r)
  <2>1. IsRunning(c)' => IsRunning(c)
    BY <1>8, OnlySpawnRuns DEF Commit, TypeOK
  <2>2. IsRunning(c) => Outcome(r) = "active"
    BY <1>1, <1>8 DEF Commit, CameraInv
  <2>3. db'[c] = Outcome(r)
    BY <1>1, <1>8 DEF Commit, CameraInv, Outcome, RequestInv, TypeOK
  <2> QED
    BY <1>3, <1>8, <2>1, <2>2, <2>3 DEF Commit
<1>9. CASE RaiseWorkerError(r)
  <2>1. IsRunning(c)' => IsRunning(c)
    BY <1>9, OnlySpawnRuns DEF RaiseWorkerError, TypeOK
  <2> QED
    BY <1>1, <1>3, <1>9, <2>1 DEF RaiseWorkerError, CameraInv
<1>10. CASE UpdateFindsNoRow(r) \/ DatabaseFails(r)
    BY <1>10 DEF UpdateFindsNoRow, DatabaseFails, Abort
<1> QED
    BY <1>5, <1>6, <1>7, <1>8, <1>9, <1>10 DEF Progress

StatusInv == \A c \in Cameras \ tainted : CameraInv(c)

\* Between requests that did not overlap the reported status is true: a camera
\* is reported ACTIVE exactly while its worker runs, whatever workers died, and
\* however often the backend crashed or was restarted.
THEOREM StatusCorrect == Spec => []StatusTellsTruth
<1> USE SupervisorAssumption, ServiceAssumption
<1>1. Init => StatusInv
  <2> SUFFICES ASSUME Init, NEW c \in Cameras PROVE CameraInv(c)
    BY DEF StatusInv
  <2>1. InFlight(c) = {} /\ ~IsRunning(c)
    BY DEF Init, SupervisorInit, InFlight, Idle, IsRunning
  <2> QED
    BY <2>1 DEF CameraInv
<1>2. TypeOK /\ RequestInv /\ StatusInv /\ [Next]_vars => StatusInv'
  <2> SUFFICES ASSUME TypeOK, RequestInv, StatusInv, [Next]_vars,
                      NEW c \in Cameras, c \notin tainted'
               PROVE  CameraInv(c)'
    BY DEF StatusInv
  <2>1. CASE Shutdown \/ Crash
    <3>1. InFlight(c)' = {} /\ ~IsRunning(c)'
      BY <2>1 DEF Shutdown, StopAll, Crash, ComeUp, InFlight, Idle, IsRunning
    <3> QED
      BY <3>1 DEF CameraInv
  <2>2. ASSUME NEW d \in Cameras, CreateCamera(d) PROVE CameraInv(c)'
    <3>1. /\ CameraInv(c)
          /\ InFlight(c)' = InFlight(c)
          /\ UNCHANGED <<req, locks>>
      BY <2>2 DEF CreateCamera, StatusInv, InFlight
    <3>2. IsRunning(c)' => IsRunning(c)
      BY <2>2, OnlySpawnRuns DEF CreateCamera, TypeOK
    <3>3. CASE c = d
      <4>1. InFlight(c) = {} /\ ~IsRunning(c)
        BY <2>2, <3>1, <3>3 DEF CreateCamera, CameraInv
      <4> QED
        BY <3>1, <3>2, <4>1 DEF CameraInv
    <3>4. CASE c # d
      <4>1. db'[c] = db[c]
        BY <2>2, <3>4 DEF CreateCamera, TypeOK
      <4> QED
        BY <3>1, <3>2, <4>1 DEF CameraInv, Outcome, InFlight
    <3> QED
      BY <3>3, <3>4
  <2>3. ASSUME NEW r \in Requests, NEW op \in Operations, NEW d \in Cameras, Require(r, op, d)
        PROVE CameraInv(c)'
    <3>1. CameraInv(c) /\ UNCHANGED <<db, locks>> /\ req[r].cam # c
      BY <2>3 DEF Require, StatusInv, RequestInv, Idle
    <3>2. IsRunning(c)' => IsRunning(c)
      BY <2>3, OnlySpawnRuns DEF Require, TypeOK
    <3>3. CASE c = d
      <4>1. InFlight(c) = {} /\ Exists(c)
        BY <2>3, <3>3 DEF Require
      <4>2. InFlight(c)' = {r} /\ req'[r].pc = "loaded" /\ req'[r].seen = db[c]
        BY <2>3, <3>3, <4>1 DEF Require, InFlight, TypeOK
      <4> QED
        BY <3>1, <3>2, <4>1, <4>2 DEF CameraInv, Exists, Statuses
    <3>4. CASE c # d
      <4>1. InFlight(c)' = InFlight(c) /\ \A s \in InFlight(c) : req'[s] = req[s]
        BY <2>3, <3>1, <3>4 DEF Require, InFlight, TypeOK
      <4> QED
        BY <3>1, <3>2, <4>1 DEF CameraInv, Outcome, InFlight
    <3> QED
      BY <3>3, <3>4
  <2>4. ASSUME NEW r \in Requests, Progress(r) \/ DatabaseFails(r) PROVE CameraInv(c)'
    <3>1. CameraInv(c)
      BY <2>4 DEF StatusInv, Progress, CallActivate, CallStop, Flush, Commit,
         RaiseWorkerError, UpdateFindsNoRow, DatabaseFails, Abort
    <3> QED
      BY <2>4, <3>1, OwnCamera, OtherCamera
  <2>5. CASE (\E p \in Pids : WorkerExits(p)) \/ UNCHANGED vars
    <3>1. CameraInv(c) /\ UNCHANGED <<db, locks, req>>
      BY <2>5 DEF WorkerExits, vars, StatusInv
    <3>2. IsRunning(c)' => IsRunning(c)
      BY <2>5, OnlySpawnRuns DEF WorkerExits, vars, TypeOK
    <3> QED
      BY <3>1, <3>2 DEF CameraInv, Outcome, InFlight
  <2> QED
    BY <2>1, <2>2, <2>3, <2>4, <2>5 DEF Next
<1>3. StatusInv => StatusTellsTruth
    BY DEF StatusInv, CameraInv, StatusTellsTruth, Reported
<1> QED
    BY <1>1, <1>2, <1>3, RequestInvariant, PTL DEF Spec
-----------------------------------------------------------------------------
(* Uploads                                                                   *)

\* A directory of the camera's files.
Directory(d) == DOMAIN d \subseteq Name /\ d \in [DOMAIN d -> File]

\* Removing names leaves a directory.
LEMMA WithoutDirectory ==
    ASSUME NEW d, Directory(d), NEW names
    PROVE  Directory(Without(d, names))
BY DEF Directory, Without

\* So does adding a file under a name of the camera.
LEMMA WithDirectory ==
    ASSUME NEW d, Directory(d), NEW n \in Name, NEW f \in File
    PROVE  Directory(With(d, n, f))
BY DEF Directory, With

\* What the names are, and that a staged file is never the target.
LEMMA UploadNames ==
    /\ Target \in Name
    /\ \A s \in Suffixes : Staged(s) \in Name /\ Staged(s) # Target
BY SuffixAssumption DEF Target, Staged, Name

\* The contents a file can have.
Contents == [by: SUBSET Uploads, whole: BOOLEAN]

\* Only a request that has replaced the files has a path to store, and only
\* one that is about to commit can hold the row's lock.
FlowInv ==
    /\ \A u \in Uploads : pc[u] \in {"flush", "commit"} => write[u] \in Name
    /\ \A u \in lock : pc[u] = "commit"
    /\ \A u \in alone : pc[u] # "idle"

\* Whichever way the staged file is kept, the camera's files are files of its
\* directory, and the request has one of their names to store.
LEMMA NormaliseTypes ==
    ASSUME UploadTypeOK, NEW u \in Uploads, NEW d, Directory(d),
           NEW c \in [File -> Contents],
           Encode(u, d, c) \/ KeepRaw(u, d, c)
    PROVE  /\ Directory(disk')
           /\ content' \in [File -> Contents]
           /\ \E n \in Name : write' = [write EXCEPT ![u] = n]
<1> DEFINE source == Staged(suffix[u])
           staged == d[source]
           rest == IF ffmpeg THEN Without(d, {Target}) ELSE d
<1>1. suffix[u] \in Suffixes /\ source \in Name /\ Target \in Name
    BY UploadNames DEF UploadTypeOK
<1>2. /\ source \in DOMAIN d => staged \in File
      /\ <<u, "encoded">> \in File
    BY DEF Directory, File
<1>3. Directory(Without(d, {source})) /\ Directory(rest)
    BY WithoutDirectory
<1>4. CASE Encode(u, d, c)
  <2> DEFINE f == IF Target \in DOMAIN d THEN d[Target] ELSE <<u, "encoded">>
  <2>1. /\ disk' = With(Without(d, {source}), Target, f)
        /\ content' = [c EXCEPT ![f] = c[staged]]
        /\ write' = [write EXCEPT ![u] = Target]
        /\ staged \in File
    BY <1>2, <1>4 DEF Encode
  <2>2. f \in File
    BY <1>2 DEF Directory
  <2>3. Directory(disk')
    <3> HIDE DEF f, source
    <3> QED
        BY <1>1, <1>3, <2>1, <2>2, WithDirectory
  <2>4. content' \in [File -> Contents]
    BY <1>2, <2>1, <2>2
  <2> QED
      BY <1>1, <2>1, <2>3, <2>4
<1>5. CASE KeepRaw(u, d, c)
  <2>1. /\ disk' = IF suffix[u] = Mp4 THEN With(Without(rest, {source}), Target, staged) ELSE rest
        /\ content' = c
        /\ write' = [write EXCEPT ![u] = IF suffix[u] = Mp4 THEN Target ELSE source]
        /\ suffix[u] = Mp4 => staged \in File
    BY <1>2, <1>5 DEF KeepRaw
  <2>2. suffix[u] = Mp4 => Directory(With(Without(rest, {source}), Target, staged))
    <3> HIDE DEF staged, source, rest
    <3> QED
        BY <1>1, <1>3, <2>1, WithDirectory, WithoutDirectory
  <2> QED
      BY <1>1, <1>3, <2>1, <2>2
<1> QED
    BY <1>4, <1>5
\* Every step keeps the types, and the flow.
LEMMA UploadStepTypes ==
    ASSUME UploadTypeOK, FlowInv, [UploadNext]_uploadVars
    PROVE  UploadTypeOK' /\ FlowInv'
<1> USE DEF UploadTypeOK, FlowInv, Stages, Contents, request, files, history
<1>0. Directory(disk) /\ content \in [File -> Contents]
    BY DEF Directory
<1>1. ASSUME NEW u \in Uploads, Receive(u) PROVE UploadTypeOK' /\ FlowInv'
    BY <1>1 DEF Receive
<1>2. ASSUME NEW u \in Uploads, Stage(u) PROVE UploadTypeOK' /\ FlowInv'
  <2> DEFINE name == Staged(suffix[u])
             f == IF name \in DOMAIN disk THEN disk[name] ELSE <<u, "raw">>
  <2>1. name \in Name /\ f \in File
    BY UploadNames DEF File
  <2>2. /\ handle' = [handle EXCEPT ![u] = f]
        /\ disk' = With(disk, name, f)
        /\ content' = [content EXCEPT ![f] = [by |-> {u}, whole |-> FALSE]]
        /\ pc[u] = "loaded"
        /\ pc' = [pc EXCEPT ![u] = "writing"]
        /\ UNCHANGED <<suffix, seen, write, row, lock, ffmpeg, history>>
    BY <1>2 DEF Stage
  <2>3. Directory(disk')
    <3> HIDE DEF f, name
    <3> QED
        BY <1>0, <2>1, <2>2, WithDirectory
  <2> HIDE DEF f, name
  <2> QED
      BY <2>1, <2>2, <2>3 DEF Directory
<1>3. ASSUME NEW u \in Uploads, Chunk(u) PROVE UploadTypeOK' /\ FlowInv'
    BY <1>3 DEF Chunk
<1>4. ASSUME NEW u \in Uploads, TooBig(u) PROVE UploadTypeOK' /\ FlowInv'
  <2>1. Directory(disk')
    BY <1>0, <1>4, WithoutDirectory DEF TooBig
  <2> QED
      BY <1>4, <2>1 DEF TooBig, Abandon, Directory
<1>5. ASSUME NEW u \in Uploads, WriteFails(u) PROVE UploadTypeOK' /\ FlowInv'
    BY <1>5 DEF WriteFails, Abandon
<1>6. ASSUME NEW u \in Uploads, Normalise(u) PROVE UploadTypeOK' /\ FlowInv'
  <2> DEFINE d == Cleaned(disk, Staged(suffix[u]))
             c == Completed(u)
  <2>1. Directory(d)
    BY <1>0, WithoutDirectory DEF Cleaned
  <2>2. c \in [File -> Contents]
    BY DEF Completed
  <2>3. Encode(u, d, c) \/ KeepRaw(u, d, c)
    BY <1>6 DEF Normalise
  <2>4. /\ Directory(disk')
        /\ content' \in [File -> Contents]
        /\ \E n \in Name : write' = [write EXCEPT ![u] = n]
    <3> HIDE DEF d, c
    <3> QED
        BY <2>1, <2>2, <2>3, NormaliseTypes
  <2>5. /\ pc[u] = "writing"
        /\ pc' = [pc EXCEPT ![u] = "flush"]
        /\ UNCHANGED <<suffix, seen, handle, row, lock, ffmpeg, history>>
    BY <1>6 DEF Normalise
  <2> QED
      BY <2>4, <2>5 DEF Directory
<1>7. ASSUME NEW u \in Uploads, NormaliseRaises(u) PROVE UploadTypeOK' /\ FlowInv'
  <2>1. Directory(disk')
    BY <1>0, <1>7, WithoutDirectory DEF NormaliseRaises, Cleaned
  <2>2. content' \in [File -> Contents]
    BY <1>7 DEF NormaliseRaises, Completed
  <2> QED
      BY <1>7, <2>1, <2>2 DEF NormaliseRaises, Abandon, Directory
<1>8. ASSUME NEW u \in Uploads, FlushUpload(u) PROVE UploadTypeOK' /\ FlowInv'
    BY <1>8 DEF FlushUpload
<1>9. ASSUME NEW u \in Uploads, CommitUpload(u) PROVE UploadTypeOK' /\ FlowInv'
    BY <1>9 DEF CommitUpload
<1>10. ASSUME NEW u \in Uploads, Lose(u) PROVE UploadTypeOK' /\ FlowInv'
    BY <1>10 DEF Lose, Abandon
<1>11. CASE UpdateCamera
    BY <1>11 DEF UpdateCamera
<1>12. CASE Restart
    BY <1>12 DEF Restart, Uploading
<1>13. CASE UNCHANGED uploadVars
    BY <1>13 DEF uploadVars
<1> QED
    BY <1>1, <1>2, <1>3, <1>4, <1>5, <1>6, <1>7, <1>8, <1>9, <1>10, <1>11, <1>12, <1>13
    DEF UploadNext

\* At first nothing is there, and no request has begun.
LEMMA UploadInitTypes == UploadInit => UploadTypeOK /\ FlowInv
<1> SUFFICES ASSUME UploadInit PROVE UploadTypeOK /\ FlowInv
    OBVIOUS
<1>1. DOMAIN disk = {} /\ disk \in [DOMAIN disk -> File]
    BY DEF UploadInit
<1>2. handle \in [Uploads -> File]
    BY DEF UploadInit, File
<1>3. content \in [File -> [by: SUBSET Uploads, whole: BOOLEAN]]
    BY DEF UploadInit
<1> QED
    BY <1>1, <1>2, <1>3, SuffixAssumption DEF UploadInit, UploadTypeOK, FlowInv, Stages

\* The requests, the row, the camera's files and their contents stay well
\* typed, whatever interleaves (VideoUpload).
THEOREM UploadTypeCorrect == UploadSpec => []UploadTypeOK
<1>1. UploadTypeOK /\ FlowInv /\ [UploadNext]_uploadVars => UploadTypeOK' /\ FlowInv'
    BY UploadStepTypes
<1> QED
    BY <1>1, UploadInitTypes, PTL DEF UploadSpec

\* No two names are one file, and a name for a new file is taken by none until
\* its request makes it.
FilesInv ==
    /\ \A m, n \in DOMAIN disk : disk[m] = disk[n] => m = n
    /\ \A u \in Uploads : pc[u] \in {"idle", "loaded"} =>
           \A n \in DOMAIN disk : disk[n] # <<u, "raw">>
    /\ \A u \in Uploads : pc[u] \in {"idle", "loaded", "writing"} =>
           \A n \in DOMAIN disk : disk[n] # <<u, "encoded">>

\* The files after a staged file was kept, one way or the other: the files there
\* were, each under one name, and at most one that is new.
LEMMA NormaliseFiles ==
    ASSUME NEW u \in Uploads, NEW d, NEW c,
           Encode(u, d, c) \/ KeepRaw(u, d, c), suffix[u] \in Suffixes,
           \A m, n \in DOMAIN d : d[m] = d[n] => m = n,
           \A n \in DOMAIN d : d[n] # <<u, "encoded">>
    PROVE  /\ \A m, n \in DOMAIN disk' : disk'[m] = disk'[n] => m = n
           /\ \A n \in DOMAIN disk' : \/ disk'[n] = <<u, "encoded">>
                                      \/ \E m \in DOMAIN d : disk'[n] = d[m]
<1> DEFINE source == Staged(suffix[u])
           rest == IF ffmpeg THEN Without(d, {Target}) ELSE d
<1>1. source # Target
    BY UploadNames
<1>2. CASE Encode(u, d, c)
  <2> DEFINE f == IF Target \in DOMAIN d THEN d[Target] ELSE <<u, "encoded">>
             r == Without(d, {source})
  <2>1. disk' = With(r, Target, f)
    BY <1>2 DEF Encode
  <2>2. DOMAIN r = DOMAIN d \ {source} /\ \A n \in DOMAIN r : r[n] = d[n]
    BY DEF Without
  <2>3. /\ DOMAIN disk' = DOMAIN r \cup {Target} /\ disk'[Target] = f
        /\ \A n \in DOMAIN r \ {Target} : disk'[n] = r[n]
    <3> HIDE DEF r, f
    <3> QED
        BY <2>1 DEF With
  <2> HIDE DEF r, source
  <2> QED
      BY <2>2, <2>3
<1>3. CASE KeepRaw(u, d, c) /\ suffix[u] = Mp4
  <2> DEFINE r == Without(rest, {source})
             f == d[source]
  <2>1. disk' = With(r, Target, f) /\ source \in DOMAIN d
    BY <1>3 DEF KeepRaw
  <2>2. DOMAIN rest \subseteq DOMAIN d /\ \A n \in DOMAIN rest : rest[n] = d[n]
    BY DEF Without
  <2>3. DOMAIN r = DOMAIN rest \ {source} /\ \A n \in DOMAIN r : r[n] = rest[n]
    BY DEF Without
  <2>4. /\ DOMAIN disk' = DOMAIN r \cup {Target} /\ disk'[Target] = f
        /\ \A n \in DOMAIN r \ {Target} : disk'[n] = r[n]
    <3> HIDE DEF r, f
    <3> QED
        BY <2>1 DEF With
  <2> HIDE DEF r, rest, source
  <2> QED
      BY <2>1, <2>2, <2>3, <2>4
<1>4. CASE KeepRaw(u, d, c) /\ suffix[u] # Mp4
  <2>1. disk' = rest
    BY <1>4 DEF KeepRaw
  <2>2. DOMAIN rest \subseteq DOMAIN d /\ \A n \in DOMAIN rest : rest[n] = d[n]
    BY DEF Without
  <2> HIDE DEF rest
  <2> QED
      BY <2>1, <2>2
<1> QED
    BY <1>2, <1>3, <1>4

\* Taking names away keeps the files apart.
LEMMA FewerFiles ==
    ASSUME FilesInv, NEW names, disk' = Without(disk, names),
           NEW u \in Uploads, pc \in [Uploads -> Stages], pc' = [pc EXCEPT ![u] = "ended"]
    PROVE  FilesInv'
<1>1. DOMAIN disk' \subseteq DOMAIN disk /\ \A n \in DOMAIN disk' : disk'[n] = disk[n]
    BY DEF Without
<1> QED
    BY <1>1 DEF FilesInv

\* Every step keeps the files apart.
LEMMA UploadStepFiles ==
    ASSUME UploadTypeOK, FilesInv, [UploadNext]_uploadVars
    PROVE  FilesInv'
<1>0. /\ pc \in [Uploads -> Stages]
      /\ \A u \in Uploads : suffix[u] \in Suffixes
    BY DEF UploadTypeOK
<1>1. ASSUME NEW u \in Uploads, UNCHANGED disk,
             \E stage \in Stages \ {"idle"} : pc' = [pc EXCEPT ![u] = stage],
             pc[u] = "idle" => pc'[u] = "loaded",
             pc[u] # "idle" => pc'[u] \in {"flush", "commit", "ended"}
      PROVE  FilesInv'
    BY <1>0, <1>1 DEF FilesInv
<1>2. ASSUME NEW u \in Uploads, Receive(u) PROVE FilesInv'
    BY <1>0, <1>1, <1>2 DEF Receive, files, Stages
<1>3. ASSUME NEW u \in Uploads, Stage(u) PROVE FilesInv'
  <2> DEFINE name == Staged(suffix[u])
             f == IF name \in DOMAIN disk THEN disk[name] ELSE <<u, "raw">>
  <2>1. pc[u] = "loaded" /\ pc' = [pc EXCEPT ![u] = "writing"] /\ disk' = With(disk, name, f)
    BY <1>3 DEF Stage
  <2>2. /\ DOMAIN disk' = DOMAIN disk \cup {name} /\ disk'[name] = f
        /\ \A n \in DOMAIN disk \ {name} : disk'[n] = disk[n]
    <3> HIDE DEF name, f
    <3> QED
        BY <2>1 DEF With
  <2>3. \A n \in DOMAIN disk' : disk'[n] = <<u, "raw">> \/ \E m \in DOMAIN disk : disk'[n] = disk[m]
    BY <2>2
  <2>4. \A m, n \in DOMAIN disk' : disk'[m] = disk'[n] => m = n
    <3> HIDE DEF name
    <3> QED
        BY <2>1, <2>2 DEF FilesInv
  <2> HIDE DEF name
  <2> QED
      BY <1>0, <2>1, <2>3, <2>4 DEF FilesInv
<1>4. ASSUME NEW u \in Uploads, Chunk(u) PROVE FilesInv'
    BY <1>4 DEF Chunk, FilesInv, request
<1>5. ASSUME NEW u \in Uploads, TooBig(u) PROVE FilesInv'
    BY <1>0, <1>5, FewerFiles DEF TooBig, Abandon
<1>6. ASSUME NEW u \in Uploads, WriteFails(u) PROVE FilesInv'
    BY <1>0, <1>1, <1>6 DEF WriteFails, Abandon, files, Stages
<1>7. ASSUME NEW u \in Uploads, Normalise(u) PROVE FilesInv'
  <2> DEFINE d == Cleaned(disk, Staged(suffix[u]))
             c == Completed(u)
  <2>1. DOMAIN d \subseteq DOMAIN disk /\ \A n \in DOMAIN d : d[n] = disk[n]
    BY DEF Cleaned, Without
  <2>2. /\ Encode(u, d, c) \/ KeepRaw(u, d, c)
        /\ pc[u] = "writing"
        /\ pc' = [pc EXCEPT ![u] = "flush"]
    BY <1>7 DEF Normalise
  <2> HIDE DEF d, c
  <2>3. /\ \A m, n \in DOMAIN d : d[m] = d[n] => m = n
        /\ \A n \in DOMAIN d : d[n] # <<u, "encoded">>
    BY <2>1, <2>2 DEF FilesInv
  <2>4. /\ \A m, n \in DOMAIN disk' : disk'[m] = disk'[n] => m = n
        /\ \A n \in DOMAIN disk' : \/ disk'[n] = <<u, "encoded">>
                                   \/ \E m \in DOMAIN d : disk'[n] = d[m]
    BY <1>0, <2>2, <2>3, NormaliseFiles
  <2>5. \A n \in DOMAIN disk' : \/ disk'[n] = <<u, "encoded">>
                                \/ \E m \in DOMAIN disk : disk'[n] = disk[m]
    BY <2>1, <2>4
  <2> QED
      BY <1>0, <2>2, <2>4, <2>5 DEF FilesInv
<1>8. ASSUME NEW u \in Uploads, NormaliseRaises(u) PROVE FilesInv'
  <2>1. PICK names : disk' = Without(disk, names)
    <3> DEFINE d == Cleaned(disk, Staged(Mp4))
               gone == IF ffmpeg THEN {Target} ELSE {}
               names == (DOMAIN disk \ {Staged(Mp4), Target}) \cup gone
    <3>1. disk' = Without(d, gone)
      BY <1>8 DEF NormaliseRaises
    <3>2. Without(d, gone) = Without(disk, names)
      BY DEF Without, Cleaned
    <3> QED
        BY <3>1, <3>2
  <2> QED
      BY <1>0, <1>8, <2>1, FewerFiles DEF NormaliseRaises, Abandon
<1>9. ASSUME NEW u \in Uploads, FlushUpload(u) PROVE FilesInv'
    BY <1>0, <1>1, <1>9 DEF FlushUpload, files, Stages
<1>10. ASSUME NEW u \in Uploads, CommitUpload(u) PROVE FilesInv'
    BY <1>0, <1>1, <1>10 DEF CommitUpload, files, Stages
<1>11. ASSUME NEW u \in Uploads, Lose(u) PROVE FilesInv'
    BY <1>0, <1>1, <1>11 DEF Lose, Abandon, files, Stages
<1>12. CASE UpdateCamera
    BY <1>12 DEF UpdateCamera, FilesInv, request, files
<1>13. CASE Restart
    BY <1>0, <1>13 DEF Restart, FilesInv, files
<1>14. CASE UNCHANGED uploadVars
    BY <1>14 DEF uploadVars, FilesInv, request, files
<1> QED
    BY <1>2, <1>3, <1>4, <1>5, <1>6, <1>7, <1>8, <1>9, <1>10, <1>11, <1>12, <1>13, <1>14
    DEF UploadNext
\* What may lie beside the file of the row: without ffmpeg an older target.
Leftover == IF ffmpeg THEN {} ELSE {Target}

\* The request's video is one of the camera's files, all of it, and the others
\* are gone.
Replaced(u) ==
    /\ write[u] \in DOMAIN disk
    /\ content[disk[write[u]]] = [by |-> {u}, whole |-> TRUE]
    /\ DOMAIN disk \subseteq {write[u]} \cup Leftover

\* A request that nothing overlapped so far: the row is as it loaded it, what it
\* stages is its own, and what it has replaced the files with is its video.
Undisturbed(u) ==
    /\ Uploading = {u}
    /\ seen[u] = row
    /\ pc[u] = "writing" =>
           /\ Staged(suffix[u]) \in DOMAIN disk
           /\ handle[u] = disk[Staged(suffix[u])]
           /\ content[handle[u]].by = {u}
    /\ pc[u] \in {"flush", "commit"} => Replaced(u)
    /\ pc[u] = "commit" => u \in lock \/ write[u] = row

AloneInv == \A u \in alone \cap Uploading : Undisturbed(u)

Receiving == {u \in Uploads : pc[u] = "writing"}

\* The row's file is being overwritten.
Overwritten == \E u \in Receiving : row = Staged(suffix[u])

\* The row's file is the last upload's.
Playable ==
    /\ row \in DOMAIN disk
    /\ \E u \in Uploads : content[disk[row]] = [by |-> {u}, whole |-> TRUE]
    /\ \A l \in last : row = l.path /\ content[disk[row]].by = {l.upload}

Tidy ==
    \A n \in DOMAIN disk : \/ \E l \in last : n = l.path
                           \/ \E u \in Receiving : n = Staged(suffix[u])
                           \/ n \in Leftover

\* As long as there is no mess, the upload under way is undisturbed, and until
\* it replaces the files they are as the last one left them.
GoodInv ==
    ~mess =>
        /\ Uploading \subseteq alone
        /\ Uploading \subseteq {u \in Uploads : pc[u] \in {"loaded", "writing"}} =>
               /\ row # NoFile /\ ~Overwritten => Playable
               /\ Tidy

UploadInv == UploadTypeOK /\ FlowInv /\ FilesInv /\ AloneInv /\ GoodInv

\* An undisturbed request leaves nothing but its own video of what it staged.
LEMMA NormaliseReplaces ==
    ASSUME UploadTypeOK, NEW u \in Uploads, Normalise(u), Undisturbed(u)
    PROVE  Replaced(u)'
<1> DEFINE source == Staged(suffix[u])
           d == Cleaned(disk, source)
           c == Completed(u)
           video == [by |-> {u}, whole |-> TRUE]
           rest == IF ffmpeg THEN Without(d, {Target}) ELSE d
<1>1. /\ Encode(u, d, c) \/ KeepRaw(u, d, c)
      /\ pc[u] = "writing"
      /\ ffmpeg' = ffmpeg
    BY DEF Normalise
<1>2. source # Target /\ source \in Name /\ Target \in Name
    BY UploadNames DEF UploadTypeOK
<1>3. /\ source \in DOMAIN disk
      /\ handle[u] = disk[source]
      /\ content[handle[u]].by = {u}
    BY <1>1 DEF Undisturbed
<1>4. /\ DOMAIN d = DOMAIN disk \cap {source, Target}
      /\ \A n \in DOMAIN d : d[n] = disk[n]
    BY DEF Cleaned, Without
<1>5. DOMAIN d \subseteq {source, Target} /\ source \in DOMAIN d /\ d[source] = handle[u]
    BY <1>3, <1>4
<1>6. \A n \in DOMAIN d : d[n] \in File
    BY <1>4 DEF UploadTypeOK
<1>7. DOMAIN c = File /\ c[handle[u]] = video
  <2>1. handle[u] \in File /\ content \in [File -> Contents]
    BY DEF UploadTypeOK, Contents
  <2>2. content[handle[u]].by \cup {u} = {u}
    BY <1>3
  <2> QED
      BY <2>1, <2>2 DEF Completed
<1>8. write \in [Uploads -> Name \cup {NoFile}]
    BY DEF UploadTypeOK
<1>9. CASE Encode(u, d, c)
  <2> DEFINE r == Without(d, {source})
             f == IF Target \in DOMAIN d THEN d[Target] ELSE <<u, "encoded">>
  <2>1. /\ disk' = With(r, Target, f)
        /\ content' = [c EXCEPT ![f] = c[d[source]]]
        /\ write' = [write EXCEPT ![u] = Target]
    BY <1>9 DEF Encode
  <2>2. f \in File
    BY <1>6 DEF File
  <2>3. DOMAIN r \subseteq {Target}
    BY <1>5 DEF Without
  <2>4. DOMAIN disk' = {Target} /\ disk'[Target] = f
    <3> HIDE DEF r, f
    <3> QED
        BY <2>1, <2>3 DEF With
  <2>5. content'[f] = video
    <3> HIDE DEF f, c, d, video
    <3> QED
        BY <1>5, <1>7, <2>1, <2>2
  <2> HIDE DEF f, c, d
  <2> QED
      BY <1>8, <2>1, <2>4, <2>5 DEF Replaced
<1>10. CASE KeepRaw(u, d, c) /\ suffix[u] = Mp4
  <2> DEFINE r == Without(rest, {source})
  <2>1. /\ disk' = With(r, Target, d[source])
        /\ content' = c
        /\ write' = [write EXCEPT ![u] = Target]
    BY <1>10 DEF KeepRaw
  <2>2. DOMAIN r \subseteq {Target}
    BY <1>5 DEF Without
  <2>3. DOMAIN disk' = {Target} /\ disk'[Target] = handle[u]
    <3> HIDE DEF r, d
    <3> QED
        BY <1>5, <2>1, <2>2 DEF With
  <2> HIDE DEF c, d
  <2> QED
      BY <1>7, <1>8, <2>1, <2>3 DEF Replaced
<1>11. CASE KeepRaw(u, d, c) /\ suffix[u] # Mp4
  <2>1. /\ disk' = rest
        /\ content' = c
        /\ write' = [write EXCEPT ![u] = source]
    BY <1>11 DEF KeepRaw
  <2>2. /\ source \in DOMAIN rest
        /\ rest[source] = handle[u]
        /\ DOMAIN rest \subseteq {source} \cup Leftover
    BY <1>2, <1>5 DEF Without, Leftover
  <2>3. Leftover' = Leftover
    BY <1>1 DEF Leftover
  <2> HIDE DEF c, d, rest, source
  <2> QED
      BY <1>7, <1>8, <2>1, <2>2, <2>3 DEF Replaced
<1> QED
    BY <1>1, <1>9, <1>10, <1>11
\* An undisturbed request stays undisturbed, or ends.
LEMMA UploadStepAlone ==
    ASSUME UploadTypeOK, FlowInv, FilesInv, AloneInv, [UploadNext]_uploadVars
    PROVE  AloneInv'
<1> USE DEF AloneInv
<1>0. /\ pc \in [Uploads -> Stages]
      /\ handle \in [Uploads -> File]
      /\ seen \in [Uploads -> Name \cup {NoFile}]
      /\ content \in [File -> Contents]
    BY DEF UploadTypeOK, Contents
\* Only the undisturbed request itself takes a step.
<1>1. ASSUME NEW u \in Uploading, alone' \subseteq alone, Uploading' \subseteq Uploading,
             Undisturbed(u) => u \notin Uploading' \/ Undisturbed(u)'
      PROVE  AloneInv'
  <2> SUFFICES ASSUME NEW v \in alone', v \in Uploading' PROVE Undisturbed(v)'
      OBVIOUS
  <2>1. Undisturbed(v) /\ v \in Uploading
    BY <1>1
  <2>2. v = u
    BY <2>1 DEF Undisturbed
  <2> QED
      BY <1>1, <2>1, <2>2
<1>2. ASSUME NEW u \in Uploading, alone' \subseteq alone, pc' = [pc EXCEPT ![u] = "ended"]
      PROVE  AloneInv'
  <2>1. Uploading' \subseteq Uploading /\ u \notin Uploading'
    BY <1>0, <1>2 DEF Uploading
  <2> QED
      BY <1>1, <1>2, <2>1
<1>3. ASSUME NEW u \in Uploads, Receive(u) PROVE AloneInv'
  <2>1. /\ pc[u] = "idle" /\ pc' = [pc EXCEPT ![u] = "loaded"]
        /\ seen' = [seen EXCEPT ![u] = row] /\ row' = row
        /\ alone' = IF Uploading = {} THEN alone \cup {u} ELSE alone \ Uploading
    BY <1>3 DEF Receive
  <2>2. Uploading' = Uploading \cup {u} /\ u \notin alone
    BY <1>0, <2>1 DEF Uploading, FlowInv
  <2> SUFFICES ASSUME NEW v \in alone', v \in Uploading' PROVE Undisturbed(v)'
      OBVIOUS
  <2>3. v = u /\ Uploading' = {u}
    BY <2>1, <2>2
  <2>4. pc'[u] = "loaded" /\ seen'[u] = row
    BY <1>0, <2>1
  <2> QED
      BY <2>1, <2>3, <2>4 DEF Undisturbed
<1>4. ASSUME NEW u \in Uploads, Stage(u) PROVE AloneInv'
  <2> DEFINE name == Staged(suffix[u])
             f == IF name \in DOMAIN disk THEN disk[name] ELSE <<u, "raw">>
  <2>1. /\ pc[u] = "loaded" /\ pc' = [pc EXCEPT ![u] = "writing"]
        /\ handle' = [handle EXCEPT ![u] = f]
        /\ disk' = With(disk, name, f)
        /\ content' = [content EXCEPT ![f] = [by |-> {u}, whole |-> FALSE]]
        /\ UNCHANGED <<suffix, seen, row, alone>>
    BY <1>4 DEF Stage, history
  <2>2. u \in Uploading /\ Uploading' = Uploading
    BY <1>0, <2>1 DEF Uploading
  <2>3. f \in File
    BY DEF UploadTypeOK, File
  <2>4. name \in DOMAIN disk' /\ disk'[name] = f
    <3> HIDE DEF name, f
    <3> QED
        BY <2>1 DEF With
  <2>5. pc'[u] = "writing" /\ handle'[u] = f /\ content'[f].by = {u}
    <3> HIDE DEF name, f
    <3> QED
        BY <1>0, <2>1, <2>3
  <2>6. Undisturbed(u) => Undisturbed(u)'
    <3> HIDE DEF f
    <3> QED
        BY <2>1, <2>2, <2>4, <2>5 DEF Undisturbed
  <2> QED
      BY <1>1, <2>1, <2>2, <2>6
<1>5. ASSUME NEW u \in Uploads, Chunk(u) PROVE AloneInv'
  <2>1. /\ pc[u] = "writing"
        /\ content' = [content EXCEPT ![handle[u]] =
                         [by |-> content[handle[u]].by \cup {u}, whole |-> FALSE]]
        /\ UNCHANGED <<pc, suffix, seen, handle, write, row, lock, disk, ffmpeg, alone>>
    BY <1>5 DEF Chunk, request, history
  <2>2. u \in Uploading /\ Uploading' = Uploading
    BY <2>1 DEF Uploading
  <2>3. content'[handle[u]].by = content[handle[u]].by \cup {u}
    BY <1>0, <2>1 DEF Contents
  <2>4. Undisturbed(u) => Undisturbed(u)'
    BY <2>1, <2>2, <2>3 DEF Undisturbed
  <2> QED
      BY <1>1, <2>1, <2>2, <2>4
<1>6. ASSUME NEW u \in Uploads,
             \/ TooBig(u) \/ WriteFails(u) \/ NormaliseRaises(u)
             \/ CommitUpload(u) \/ Lose(u)
      PROVE  AloneInv'
  <2>1. u \in Uploading /\ alone' = alone /\ pc' = [pc EXCEPT ![u] = "ended"]
    BY <1>6 DEF TooBig, WriteFails, NormaliseRaises, CommitUpload, Lose, Abandon, Uploading
  <2> QED
      BY <1>2, <2>1
<1>7. ASSUME NEW u \in Uploads, Normalise(u) PROVE AloneInv'
  <2>1. /\ pc[u] = "writing" /\ pc' = [pc EXCEPT ![u] = "flush"]
        /\ UNCHANGED <<seen, row, alone>>
    BY <1>7 DEF Normalise, history
  <2>2. u \in Uploading /\ Uploading' = Uploading
    BY <1>0, <2>1 DEF Uploading
  <2>3. pc'[u] = "flush"
    BY <1>0, <2>1
  <2>4. Undisturbed(u) => Undisturbed(u)'
    <3> SUFFICES ASSUME Undisturbed(u) PROVE Undisturbed(u)'
        OBVIOUS
    <3>1. Replaced(u)'
      BY <1>7, NormaliseReplaces
    <3> QED
        BY <2>1, <2>2, <2>3, <3>1 DEF Undisturbed
  <2> QED
      BY <1>1, <2>1, <2>2, <2>4
<1>8. ASSUME NEW u \in Uploads, FlushUpload(u) PROVE AloneInv'
  <2>1. /\ pc[u] = "flush" /\ pc' = [pc EXCEPT ![u] = "commit"]
        /\ lock' = IF write[u] # seen[u] THEN {u} ELSE lock
        /\ UNCHANGED <<suffix, seen, handle, write, row, disk, content, ffmpeg, alone>>
    BY <1>8 DEF FlushUpload, files, history
  <2>2. u \in Uploading /\ Uploading' = Uploading
    BY <1>0, <2>1 DEF Uploading
  <2>3. pc'[u] = "commit"
    BY <1>0, <2>1
  <2>4. Undisturbed(u) => Undisturbed(u)'
    BY <2>1, <2>2, <2>3 DEF Undisturbed, Replaced, Leftover
  <2> QED
      BY <1>1, <2>1, <2>2, <2>4
<1>9. CASE UpdateCamera
    BY <1>9 DEF UpdateCamera, Uploading, request
<1>10. CASE Restart
  <2>1. Uploading' = {}
    BY <1>0, <1>10 DEF Restart, Uploading
  <2> QED
      BY <2>1
<1>11. CASE UNCHANGED uploadVars
    BY <1>11 DEF uploadVars, request, files, history, Undisturbed, Uploading, Replaced, Leftover
<1> QED
    BY <1>3, <1>4, <1>5, <1>6, <1>7, <1>8, <1>9, <1>10, <1>11 DEF UploadNext
\* As long as there is no mess, the files are as the last upload left them.
LEMMA UploadStepGood ==
    ASSUME UploadInv, [UploadNext]_uploadVars
    PROVE  GoodInv'
<1>0. /\ pc \in [Uploads -> Stages]
      /\ handle \in [Uploads -> File]
      /\ content \in [File -> Contents]
      /\ \A n \in DOMAIN disk : disk[n] \in File
    BY DEF UploadInv, UploadTypeOK, Contents
<1>1. ~mess => \A u \in Uploading : Undisturbed(u)
    BY DEF UploadInv, GoodInv, AloneInv
<1>2. ASSUME mess' PROVE GoodInv'
    BY <1>2 DEF GoodInv
<1>3. ASSUME NEW u \in Uploads, Receive(u) PROVE GoodInv'
  <2>1. /\ pc[u] = "idle" /\ pc' = [pc EXCEPT ![u] = "loaded"]
        /\ alone' = IF Uploading = {} THEN alone \cup {u} ELSE alone \ Uploading
        /\ mess' = (mess \/ Uploading # {})
        /\ \E s \in Suffixes : suffix' = [suffix EXCEPT ![u] = s]
        /\ UNCHANGED <<row, disk, content, ffmpeg, last>>
    BY <1>3 DEF Receive, files
  <2> SUFFICES ASSUME ~mess, Uploading = {} PROVE GoodInv'
      BY <1>2, <2>1
  <2>2. Uploading' = {u} /\ Receiving = {} /\ Receiving' = {}
    BY <1>0, <2>1 DEF Uploading, Receiving
  <2>3. (row # NoFile => Playable) /\ Tidy
    BY <2>2 DEF UploadInv, GoodInv, Overwritten
  <2>4. (row # NoFile => Playable)' /\ Tidy'
    BY <2>1, <2>2, <2>3 DEF Playable, Tidy, Leftover
  <2> QED
      BY <2>1, <2>2, <2>4 DEF GoodInv
<1>4. ASSUME NEW u \in Uploads, Stage(u) PROVE GoodInv'
  <2> DEFINE name == Staged(suffix[u])
             f == IF name \in DOMAIN disk THEN disk[name] ELSE <<u, "raw">>
  <2>1. /\ pc[u] = "loaded" /\ pc' = [pc EXCEPT ![u] = "writing"]
        /\ disk' = With(disk, name, f)
        /\ content' = [content EXCEPT ![f] = [by |-> {u}, whole |-> FALSE]]
        /\ UNCHANGED <<suffix, row, ffmpeg, alone, mess, last>>
    BY <1>4 DEF Stage, history
  <2> SUFFICES ASSUME ~mess PROVE GoodInv'
      BY <1>2, <2>1
  <2>2. Uploading = {u} /\ Uploading' = Uploading
    BY <1>0, <1>1, <2>1 DEF Uploading, Undisturbed
  <2>3. Receiving = {} /\ Receiving' = {u}
    <3>1. Receiving \subseteq Uploading /\ Receiving' \subseteq Uploading'
      BY DEF Receiving, Uploading
    <3>2. pc'[u] = "writing"
      BY <1>0, <2>1
    <3> QED
        BY <2>1, <2>2, <3>1, <3>2 DEF Receiving
  <2>4. Uploading \subseteq alone /\ (row # NoFile => Playable) /\ Tidy
    BY <2>1, <2>2, <2>3 DEF UploadInv, GoodInv, Overwritten
  <2>5. /\ DOMAIN disk' = DOMAIN disk \cup {name}
        /\ \A n \in DOMAIN disk \ {name} : disk'[n] = disk[n]
    <3> HIDE DEF name, f
    <3> QED
        BY <2>1 DEF With
  <2>6. \A n \in DOMAIN disk \ {name} : content'[disk[n]] = content[disk[n]]
    <3>1. \A n \in DOMAIN disk \ {name} : disk[n] # f
      BY <2>1 DEF UploadInv, FilesInv
    <3> HIDE DEF f, name
    <3> QED
        BY <1>0, <2>1, <3>1
  <2>7. Overwritten' <=> row = name
    BY <2>1, <2>3 DEF Overwritten
  <2>8. row # NoFile /\ row # name => Playable'
    <3> HIDE DEF name, f
    <3> QED
        BY <2>1, <2>4, <2>5, <2>6 DEF Playable
  <2>9. Tidy'
    <3>1. \A n \in DOMAIN disk : (\E l \in last : n = l.path) \/ n \in Leftover
      BY <2>3, <2>4 DEF Tidy
    <3>2. Leftover' = Leftover
      BY <2>1 DEF Leftover
    <3> QED
        BY <2>1, <2>3, <2>5, <3>1, <3>2 DEF Tidy
  <2> HIDE DEF name
  <2> QED
      BY <2>1, <2>2, <2>4, <2>7, <2>8, <2>9 DEF GoodInv
<1>5. ASSUME NEW u \in Uploads, Chunk(u) PROVE GoodInv'
  <2>1. /\ pc[u] = "writing"
        /\ content' = [content EXCEPT ![handle[u]] =
                         [by |-> content[handle[u]].by \cup {u}, whole |-> FALSE]]
        /\ UNCHANGED <<pc, suffix, row, disk, ffmpeg, alone, mess, last>>
    BY <1>5 DEF Chunk, request, history
  <2> SUFFICES ASSUME ~mess PROVE GoodInv'
      BY <1>2, <2>1
  <2>2. Undisturbed(u) /\ u \in Receiving
    BY <1>1, <2>1 DEF Uploading, Receiving
  <2>3. /\ Uploading' = Uploading /\ Receiving' = Receiving
        /\ Overwritten' = Overwritten /\ Tidy' = Tidy
    BY <2>1 DEF Uploading, Receiving, Overwritten, Tidy, Leftover
  <2>4. ASSUME Playable, ~Overwritten PROVE Playable'
    <3>1. row # Staged(suffix[u]) /\ handle[u] = disk[Staged(suffix[u])]
      BY <2>1, <2>2, <2>4 DEF Overwritten, Undisturbed
    <3>2. disk[row] # handle[u]
      BY <2>1, <2>2, <2>4, <3>1 DEF Playable, Undisturbed, UploadInv, FilesInv
    <3>3. content'[disk[row]] = content[disk[row]]
      BY <1>0, <2>1, <2>4, <3>2 DEF Playable
    <3> QED
        BY <2>1, <2>4, <3>3 DEF Playable
  <2> QED
      BY <2>1, <2>3, <2>4 DEF UploadInv, GoodInv
<1>6. ASSUME NEW u \in Uploads, TooBig(u) PROVE GoodInv'
  <2> DEFINE name == Staged(suffix[u])
  <2>1. /\ pc[u] = "writing" /\ pc' = [pc EXCEPT ![u] = "ended"]
        /\ disk' = Without(disk, {name})
        /\ mess' = (mess \/ row = name)
        /\ UNCHANGED <<suffix, row, content, ffmpeg, alone, last>>
    BY <1>6 DEF TooBig, Abandon
  <2> SUFFICES ASSUME ~mess, row # name PROVE GoodInv'
      BY <1>2, <2>1
  <2>2. Uploading = {u}
    BY <1>1, <2>1 DEF Uploading, Undisturbed
  <2>3. Receiving = {u} /\ Uploading' = {} /\ Receiving' = {}
    <3>1. Receiving \subseteq Uploading
      BY DEF Receiving, Uploading
    <3> QED
        BY <1>0, <2>1, <2>2, <3>1 DEF Receiving, Uploading
  <2>4. (row # NoFile => Playable) /\ Tidy
    BY <2>1, <2>2, <2>3 DEF UploadInv, GoodInv, Overwritten
  <2>5. /\ DOMAIN disk' = DOMAIN disk \ {name}
        /\ \A n \in DOMAIN disk' : disk'[n] = disk[n]
    BY <2>1 DEF Without
  <2> HIDE DEF name
  <2>6. row # NoFile => Playable'
    BY <2>1, <2>4, <2>5 DEF Playable
  <2>7. Tidy'
    <3>1. \A n \in DOMAIN disk \ {name} : (\E l \in last : n = l.path) \/ n \in Leftover
      BY <2>3, <2>4 DEF Tidy, name
    <3>2. Leftover' = Leftover
      BY <2>1 DEF Leftover
    <3> QED
        BY <2>1, <2>5, <3>1, <3>2 DEF Tidy
  <2> QED
      BY <2>1, <2>3, <2>6, <2>7 DEF GoodInv
<1>7. ASSUME NEW u \in Uploads, WriteFails(u) \/ NormaliseRaises(u) \/ Lose(u) PROVE GoodInv'
    BY <1>2, <1>7 DEF WriteFails, NormaliseRaises, Lose
<1>8. ASSUME NEW u \in Uploads, Normalise(u) \/ FlushUpload(u) PROVE GoodInv'
  <2>1. /\ u \in Uploading /\ Uploading' = Uploading
        /\ pc'[u] \notin {"loaded", "writing"}
        /\ alone' = alone /\ mess' = mess
    BY <1>0, <1>8 DEF Normalise, FlushUpload, Uploading, history
  <2> QED
      BY <2>1 DEF UploadInv, GoodInv
<1>9. ASSUME NEW u \in Uploads, CommitUpload(u) PROVE GoodInv'
  <2>1. /\ pc[u] = "commit" /\ pc' = [pc EXCEPT ![u] = "ended"]
        /\ row' = IF u \in lock THEN write[u] ELSE row
        /\ last' = {[upload |-> u, path |-> write[u]]}
        /\ mess' = IF u \in alone THEN FALSE ELSE TRUE
        /\ UNCHANGED <<disk, content, ffmpeg>>
    BY <1>9 DEF CommitUpload, files
  <2> SUFFICES ASSUME u \in alone PROVE GoodInv'
      BY <1>2, <2>1
  <2>2. Undisturbed(u)
    BY <2>1 DEF UploadInv, AloneInv, Uploading
  <2>3. Uploading' = {} /\ Receiving' = {}
    BY <1>0, <2>1, <2>2 DEF Undisturbed, Uploading, Receiving
  <2>4. row' = write[u] /\ Replaced(u)
    BY <2>1, <2>2 DEF Undisturbed
  <2>5. Playable'
    <3>1. /\ row' \in DOMAIN disk'
          /\ content'[disk'[row']] = [by |-> {u}, whole |-> TRUE]
      BY <2>1, <2>4 DEF Replaced
    <3>2. \A l \in last' : l.path = write[u] /\ l.upload = u
      BY <2>1
    <3>3. content'[disk'[row']].by = {u}
      BY <3>1
    <3>4. \A l \in last' : row' = l.path /\ content'[disk'[row']].by = {l.upload}
      BY <2>4, <3>2, <3>3
    <3> QED
        BY <3>1, <3>4 DEF Playable
  <2>6. Tidy'
    BY <2>1, <2>4 DEF Replaced, Tidy, Leftover
  <2> QED
      BY <2>3, <2>5, <2>6 DEF GoodInv
<1>10. CASE UpdateCamera
  <2>1. /\ row' = NoFile
        /\ mess' = (mess \/ Uploading # {})
        /\ UNCHANGED <<pc, suffix, disk, ffmpeg, last>>
    BY <1>10 DEF UpdateCamera, request, files
  <2> SUFFICES ASSUME ~mess, Uploading = {} PROVE GoodInv'
      BY <1>2, <2>1
  <2>2. Uploading' = {} /\ Tidy
    BY <2>1 DEF UploadInv, GoodInv, Uploading
  <2>3. Tidy'
    BY <2>1, <2>2 DEF Tidy, Receiving, Leftover
  <2> QED
      BY <2>1, <2>2, <2>3 DEF GoodInv
<1>11. CASE Restart
    BY <1>2, <1>11 DEF Restart
<1>12. CASE UNCHANGED uploadVars
    BY <1>12 DEF uploadVars, request, files, history, UploadInv, GoodInv, Uploading, Receiving,
                 Overwritten, Playable, Tidy, Leftover
<1> QED
    BY <1>3, <1>4, <1>5, <1>6, <1>7, <1>8, <1>9, <1>10, <1>11, <1>12 DEF UploadNext

\* The inductive invariant of the uploads.
LEMMA UploadInvariance == UploadSpec => []UploadInv
<1>1. UploadInit => UploadInv
  <2> SUFFICES ASSUME UploadInit PROVE UploadInv
      OBVIOUS
  <2>1. UploadTypeOK /\ FlowInv
    BY UploadInitTypes
  <2>2. Uploading = {} /\ DOMAIN disk = {} /\ row = NoFile
    BY DEF UploadInit, Uploading
  <2> QED
      BY <2>1, <2>2 DEF UploadInv, FilesInv, AloneInv, GoodInv, Tidy
<1>2. UploadInv /\ [UploadNext]_uploadVars => UploadInv'
    BY UploadStepTypes, UploadStepFiles, UploadStepAlone, UploadStepGood DEF UploadInv
<1> QED
    BY <1>1, <1>2, PTL DEF UploadSpec

\* Whenever no upload stands between replacing the files and committing the row
\* and nothing is left to be made good, the row of a camera with an uploaded
\* video names a file that is there, all of it, and is the video last confirmed
\* (upload_video, normalize_uploaded_video), for any number of uploads.
THEOREM VideoPlayableCorrect == UploadSpec => []VideoPlayable
<1>1. UploadInv => VideoPlayable
  <2> SUFFICES ASSUME UploadInv, Settled, row # NoFile PROVE
                /\ HasVideo /\ Intact(disk[row])
                /\ \A l \in last : row = l.path /\ content[disk[row]].by = {l.upload}
      BY DEF VideoPlayable
  <2>1. ~Overwritten
    BY DEF Settled, Overwritten, Receiving, Uploading
  <2>2. Playable
    BY <2>1 DEF Settled, UploadInv, GoodInv, Uploading
  <2>3. PICK u \in Uploads : content[disk[row]] = [by |-> {u}, whole |-> TRUE]
    BY <2>2 DEF Playable
  <2>4. Cardinality({u}) = 1
    BY FS_Singleton
  <2> QED
      BY <2>2, <2>3, <2>4 DEF Playable, HasVideo, Intact
<1> QED
    BY <1>1, UploadInvariance, PTL

\* In such a moment the camera has no other files than the last video, those
\* being received and, without ffmpeg, an older target: what refused, failed and
\* overlapping uploads leave goes with the next undisturbed one.
THEOREM NothingLeftBehindCorrect == UploadSpec => []NothingLeftBehind
<1>1. UploadInv => NothingLeftBehind
  <2> SUFFICES ASSUME UploadInv, Settled, NEW n \in DOMAIN disk
               PROVE  \/ n \in {l.path : l \in last}
                      \/ n \in {Staged(suffix[u]) : u \in {v \in Uploads : pc[v] = "writing"}}
                      \/ n \in (IF ffmpeg THEN {} ELSE {Target})
      BY DEF NothingLeftBehind
  <2>1. Tidy
    BY DEF Settled, UploadInv, GoodInv, Uploading
  <2> QED
      BY <2>1 DEF Tidy, Receiving, Leftover
<1> QED
    BY <1>1, UploadInvariance, PTL
-----------------------------------------------------------------------------
(* What the video player is sent (VideoStream)                               *)

\* A number given, or the default.
LEMMA GivenNumber ==
    ASSUME NEW number \in Optional, NEW default \in Int
    PROVE  /\ number = {} => Given(number, default) = default
           /\ number # {} => Given(number, default) \in Nat
           /\ \A n \in number : number # {} /\ Given(number, default) = n
<1>1. CASE number = {}
    BY <1>1 DEF Given
<1>2. CASE number # {}
    <2>1. PICK n \in Nat : number = {n}
        BY <1>2 DEF Optional
    <2>2. (CHOOSE m \in number : TRUE) = n
        BY <2>1
    <2> QED
        BY <1>2, <2>1, <2>2 DEF Given
<1> QED
    BY <1>1, <1>2

\* The part of a file that a request gets lies in it and is what was asked for,
\* for every header with numbers and every file with at least one byte.
LEMMA PartIsInFile ==
    ASSUME NEW range \in Ranges, NEW size \in Nat \ {0}
    PROVE  /\ PartOfFile(Part(range, size), size)
           /\ AsRequested(range, Part(range, size), size)
<1>1. range.first \in Optional /\ range.last \in Optional
    BY DEF Ranges
<1> DEFINE to == Given(range.last, size - 1)
           from == Given(range.first, 0)
<1>2. /\ range.last = {} => to = size - 1
      /\ range.last # {} => to \in Nat
      /\ \A n \in range.last : range.last # {} /\ to = n
    BY <1>1, GivenNumber
<1>3. /\ range.first = {} => from = 0
      /\ range.first # {} => from \in Nat
      /\ \A n \in range.first : range.first # {} /\ from = n
    BY <1>1, GivenNumber
<1>4. to \in Nat /\ from \in Nat
    BY <1>2, <1>3
<1> DEFINE end == Least(to, size - 1)
           start == Least(from, end)
           part == Part(range, size)
<1>5. part.start = start /\ part.end = end /\ part.length = end - start + 1
    BY DEF Part
<1> HIDE DEF to, from, part
<1>6. PartOfFile(part, size)
    BY <1>4, <1>5 DEF PartOfFile, Least
<1>7. AsRequested(range, part, size)
    <2> SUFFICES ASSUME NEW f \in range.first, f < size,
                        \A n \in range.last : f <= n
                 PROVE  /\ part.start = f
                        /\ \A n \in range.last : part.end = Least(n, size - 1)
                        /\ range.last = {} => part.end = size - 1
        BY DEF AsRequested
    <2>1. from = f
        BY <1>3
    <2>2. CASE range.last = {}
        BY <2>1, <2>2, <1>2, <1>4, <1>5 DEF Least
    <2>3. CASE range.last # {}
        <3>1. PICK n \in range.last : TRUE
            BY <2>3
        <3>2. to = n /\ f <= n /\ \A m \in range.last : m = n
            BY <3>1, <1>2
        <3> QED
            BY <3>2, <2>1, <2>3, <1>4, <1>5 DEF Least
    <2> QED
        BY <2>2, <2>3
<1> QED
    BY <1>6, <1>7 DEF part

\* How far the answer has got.
SendingInv(position, remaining, part) ==
    /\ position \in Nat /\ remaining \in Nat
    /\ part.start <= position
    /\ position + remaining = part.end + 1

\* Whatever part of the video the player asks for, and whatever uploads do to the
\* file meanwhile, it is sent consecutive bytes of that part from its start, never
\* more of them than the Content-Length announces, and the whole part by the time
\* nothing remains (_serve_file_with_range).
THEOREM VideoPartCorrect ==
    ASSUME NEW VARIABLE position, NEW VARIABLE remaining,
           NEW range \in Ranges, NEW size \in Nat \ {0}, NEW chunk \in Nat \ {0}
    PROVE  /\ PartOfFile(Part(range, size), size)
           /\ AsRequested(range, Part(range, size), size)
           /\ Sending(position, remaining, Part(range, size), chunk) =>
                 []SendingInv(position, remaining, Part(range, size))
<1> DEFINE part == Part(range, size)
           I == SendingInv(position, remaining, part)
<1>1. PartOfFile(part, size) /\ AsRequested(range, part, size)
    BY PartIsInFile
<1>2. part.start \in Int /\ part.end \in Int /\ part.length = part.end - part.start + 1
      /\ 0 <= part.start /\ part.start <= part.end
    <2>1. range.first \in Optional /\ range.last \in Optional
        BY DEF Ranges
    <2>2. Given(range.first, 0) \in Int /\ Given(range.last, size - 1) \in Int
        BY <2>1, GivenNumber
    <2> QED
        BY <2>2, <1>1 DEF Part, Least, PartOfFile
<1> HIDE DEF part
<1>3. position = part.start /\ remaining = part.length => I
    BY <1>2 DEF SendingInv
<1>4. I /\ [ReadChunk(position, remaining, chunk)]_<<position, remaining>> => I'
    <2>1. ASSUME I, ReadChunk(position, remaining, chunk)
          PROVE  I'
        <3>1. PICK now \in Nat :
                 LET n == Least(Least(chunk, remaining), now - position)
                 IN  n > 0 /\ position' = position + n /\ remaining' = remaining - n
            BY <2>1 DEF ReadChunk
        <3> DEFINE n == Least(Least(chunk, remaining), now - position)
        <3>2. n \in Nat /\ n <= remaining
            BY <2>1, <3>1 DEF Least, SendingInv
        <3> QED
            BY <1>2, <2>1, <3>1, <3>2 DEF SendingInv
    <2>2. ASSUME I, UNCHANGED <<position, remaining>>
          PROVE  I'
        BY <2>2 DEF SendingInv
    <2> QED
        BY <2>1, <2>2
<1> HIDE DEF I
<1>5. Sending(position, remaining, part, chunk) => []I
    BY <1>3, <1>4, PTL DEF Sending
<1> QED
    BY <1>1, <1>5 DEF I, part
================================================================================
