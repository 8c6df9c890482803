--------------------------- MODULE WorkerSupervisor ---------------------------
(***************************************************************************)
(* The worker processes and who keeps track of them: CameraWorkerRegistry  *)
(* (workers/registry.py) and WorkerSupervisor (workers/supervisor.py).     *)
(* Every operation here runs without an await, so on the one event loop    *)
(* that calls it it is a single step, the joins of deactivate included.    *)
(***************************************************************************)
EXTENDS Naturals, FiniteSets

CONSTANTS
    Cameras,
    Pids,       \* process objects; a dead one without a handle may be taken again
    None,
    MaxActive   \* settings.max_active_cameras

ASSUME SupervisorAssumption ==
    /\ IsFiniteSet(Cameras)
    /\ None \notin Cameras \cup Pids
    /\ MaxActive \in Nat \ {0}

VARIABLES
    handles,    \* registry: camera -> process of its WorkerHandle, or None
    process     \* process -> the camera it works for while it is alive, or None

supervisorVars == <<handles, process>>

SupervisorInit ==
    /\ handles = [c \in Cameras |-> None]
    /\ process = [p \in Pids |-> None]

IsAlive(p) == process[p] # None

\* registry.is_running
IsRunning(c) == handles[c] # None /\ IsAlive(handles[c])

\* registry.active_ids
ActiveIds == {c \in Cameras : IsRunning(c)}

\* registry.prune_dead: the handles that remain.
PruneDead == [c \in Cameras |-> IF IsRunning(c) THEN handles[c] ELSE None]

\* Mutant: the limit is tested as if the new worker did not count.
AdmitsOneMore(c) == ~IsRunning(c) /\ Cardinality(ActiveIds) <= MaxActive

\* The two ConflictError tests of activate.
Admits(c) == ~IsRunning(c) /\ Cardinality(ActiveIds) < MaxActive

\* activate raises: ConflictError, or WorkerError when process.start fails.
Refuse == handles' = PruneDead /\ UNCHANGED process

\* activate succeeds.
Spawn(c) ==
    /\ Admits(c)
    /\ \E p \in Pids :
        /\ ~IsAlive(p)
        /\ \A d \in Cameras : PruneDead[d] # p
        /\ handles' = [PruneDead EXCEPT ![c] = p]
        /\ process' = [process EXCEPT ![p] = c]

\* Mutant: the process is told to stop but neither joined nor terminated.
StopWithoutJoin(c) ==
    /\ handles' = [handles EXCEPT ![c] = None]
    /\ UNCHANGED process

\* deactivate: the handle is removed first, then the process stops by itself
\* or is terminated; either way it is gone when the call returns.
Stop(c) ==
    /\ handles' = [handles EXCEPT ![c] = None]
    /\ process' = [p \in Pids |-> IF p = handles[c] THEN None ELSE process[p]]

\* shutdown: deactivate for every handle.
StopAll ==
    /\ handles' = [c \in Cameras |-> None]
    /\ process' = [p \in Pids |-> IF \E c \in Cameras : handles[c] = p
                                  THEN None ELSE process[p]]

\* A worker leaves run_camera_worker by itself: it could not import, load,
\* open or decode something, or it crashed.
ProcessExits(p) ==
    /\ IsAlive(p)
    /\ process' = [process EXCEPT ![p] = None]
    /\ UNCHANGED handles

-----------------------------------------------------------------------------
SupervisorTypeOK ==
    /\ handles \in [Cameras -> Pids \cup {None}]
    /\ process \in [Pids -> Cameras \cup {None}]

\* Every live worker process is the one registered for its camera: a camera
\* never has two, and none is beyond the reach of deactivate and shutdown.
NoStrayWorker ==
    \A p \in Pids : IsAlive(p) => handles[process[p]] = p

LivePids == {p \in Pids : IsAlive(p)}

\* No more live workers than max_active_cameras, counting each process.
CapacityRespected == Cardinality(LivePids) <= MaxActive
================================================================================
