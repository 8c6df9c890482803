----------------------------- MODULE AlertPipeline -----------------------------
(***************************************************************************)
(* The way of a safety event from the camera workers to the operators:     *)
(* the multiprocessing queue between the processes, its stop and its       *)
(* limits (workers/supervisor.py), the EventDrainer task that stores and   *)
(* announces one message after the other (workers/event_drainer.py,        *)
(* services/detection_service.py), and the WebSocket connections           *)
(* (realtime/websocket_manager.py); together with the requests that change *)
(* cameras and zones under it.  A worker keeps the configuration it was    *)
(* started with.                                                           *)
(*                                                                         *)
(* The queue: put_nowait takes one of its slots and leaves the message to  *)
(* the feeder thread of its process, which writes it to the one pipe of    *)
(* all workers while it holds the write lock; get reads it and gives the   *)
(* slot back.  A process that ends waits for its feeder; one that is       *)
(* terminated does not, and what it held (slots, lock) stays held.         *)
(*                                                                         *)
(* The backend runs requests, drainer and sockets on one event loop.       *)
(* deactivate blocks it while it joins the worker.                         *)
(***************************************************************************)
EXTENDS Naturals, Sequences, FiniteSets

CONSTANTS
    Cameras,
    Zones,
    CameraOf,          \* zone -> its camera
    Clients,           \* WebSocket objects, each good for one connection
    None,
    QueueSize,         \* mp.Queue(maxsize = 1000)
    PipeSize,          \* whole messages the pipe buffers
    MaxEvents,         \* bound: events raised by a camera in a behaviour
    DatabaseMayFail

Off == "off"           \* no worker process for the camera

ASSUME PipelineAssumption ==
    /\ CameraOf \in [Zones -> Cameras]
    /\ None \notin Zones \cup Cameras
    /\ Off \notin Zones \cup {None}
    /\ QueueSize \in Nat \ {0}
    /\ PipeSize \in Nat \ {0}
    /\ MaxEvents \in Nat
    /\ DatabaseMayFail \in BOOLEAN

VARIABLES
    cameras,    \* camera rows that exist
    zones,      \* zone -> "unborn", "live", "deleted"
    deleting,   \* cameras whose delete_camera has stopped the worker
    worker,     \* camera -> zone its lines were mapped to when it started, None, or Off
    stopping,   \* the camera whose worker deactivate is joining, or None
    emitted,    \* camera -> number of events it raised
    slots,      \* the events that hold a slot of the queue
    buffer,     \* camera -> messages put and not written
    writing,    \* the message being written to the pipe, if any (a set)
    torn,       \* whether a write was cut off, and the write lock with it
    pipe,       \* messages written and not read
    drainer,    \* the task: pc, the message it handles, and its broadcast
    connection, \* client -> "new", "open", "closed"
    inbox,      \* client -> the events sent to it
    committed,  \* events whose rows were committed
    announced,  \* history: events whose broadcast has ended
    joined      \* history: client -> events whose broadcast began before it connected

rowVars == <<cameras, zones, deleting>>
workerVars == <<worker, stopping>>
queueVars == <<slots, buffer, writing, torn, pipe>>
clientVars == <<connection, inbox, joined>>
historyVars == <<committed, announced>>
vars == <<rowVars, workerVars, emitted, queueVars, drainer, clientVars, historyVars>>

\* An event is the n-th of its camera.
Events == Cameras \X (1..MaxEvents)

Message ==
    [cam : Cameras, n : 1..MaxEvents, kind : {"violation", "exit"}, zone : Zones \cup {None}]

EventOf(m) == <<m.cam, m.n>>

Open == {k \in Clients : connection[k] = "open"}
LoopFree == stopping = None

Polling == [pc |-> "polling", msg |-> None, targets |-> {}, dead |-> {}]

Init ==
    /\ cameras = Cameras
    /\ zones = [z \in Zones |-> "unborn"]
    /\ deleting = {}
    /\ worker = [c \in Cameras |-> Off]
    /\ stopping = None
    /\ emitted = [c \in Cameras |-> 0]
    /\ slots = {}
    /\ buffer = [c \in Cameras |-> <<>>]
    /\ writing = {}
    /\ torn = FALSE
    /\ pipe = <<>>
    /\ drainer = Polling
    /\ connection = [k \in Clients |-> "new"]
    /\ inbox = [k \in Clients |-> <<>>]
    /\ committed = {}
    /\ announced = {}
    /\ joined = [k \in Clients |-> {}]

-----------------------------------------------------------------------------
\* Requests.

CreateZone(z) ==
    /\ LoopFree
    /\ zones[z] = "unborn"
    /\ CameraOf[z] \in cameras
    /\ zones' = [zones EXCEPT ![z] = "live"]
    /\ UNCHANGED <<cameras, deleting, workerVars, emitted, queueVars, drainer, clientVars, historyVars>>

\* The rows that the drainer's uncommitted INSERT refers to cannot be deleted
\* until its transaction ends.
Referenced(row) ==
    drainer.pc = "flushed" /\ row \in {drainer.msg.cam, drainer.msg.zone}

\* delete_zone says nothing to a running worker.
DeleteZone(z) ==
    /\ LoopFree
    /\ zones[z] = "live"
    /\ ~Referenced(z)
    /\ zones' = [zones EXCEPT ![z] = "deleted"]
    /\ UNCHANGED <<cameras, deleting, workerVars, emitted, queueVars, drainer, clientVars, historyVars>>

\* activate_camera with the configuration of _build_worker_config: the zone
\* that zone_for_line will name, if there is one.
Activate(c) ==
    /\ LoopFree
    /\ c \in cameras
    /\ worker[c] = Off
    /\ LET own == {z \in Zones : CameraOf[z] = c /\ zones[z] = "live"}
       IN  \E z \in IF own = {} THEN {None} ELSE own : worker' = [worker EXCEPT ![c] = z]
    /\ UNCHANGED <<rowVars, stopping, emitted, queueVars, drainer, clientVars, historyVars>>

\* deactivate sets the stop event of a worker and joins it.
Deactivate(c) ==
    /\ LoopFree
    /\ worker[c] # Off
    /\ stopping' = c
    /\ UNCHANGED <<rowVars, worker, emitted, queueVars, drainer, clientVars, historyVars>>

\* delete_camera does so first, ...
BeginDelete(c) ==
    /\ LoopFree
    /\ c \in cameras \ deleting
    /\ deleting' = deleting \cup {c}
    /\ stopping' = IF worker[c] = Off THEN None ELSE c
    /\ UNCHANGED <<cameras, zones, worker, emitted, queueVars, drainer, clientVars, historyVars>>

\* ... and then deletes the row.  The zones go with it.
DeleteCamera(c) ==
    /\ LoopFree
    /\ c \in deleting
    /\ ~Referenced(c)
    /\ \A z \in Zones : CameraOf[z] = c => ~Referenced(z)
    /\ cameras' = cameras \ {c}
    /\ deleting' = deleting \ {c}
    /\ zones' = [z \in Zones |-> IF CameraOf[z] = c THEN "deleted" ELSE zones[z]]
    /\ UNCHANGED <<workerVars, emitted, queueVars, drainer, clientVars, historyVars>>

-----------------------------------------------------------------------------
\* Worker processes and the queue.

\* What _emit_events can put: a line crossing with the zone of the worker's
\* configuration, a helmet violation without one, or a zone exit.
Puts(c) ==
    {m \in Message : /\ m.cam = c
                     /\ m.n = emitted[c] + 1
                     /\ m.zone \in {None, worker[c]}
                     /\ m.kind = "exit" => m.zone = None}

\* Mutant: the queue has no limit.
EmitUnbounded(c) ==
    /\ worker[c] # Off
    /\ \E m \in Puts(c) :
        /\ emitted' = [emitted EXCEPT ![c] = m.n]
        /\ buffer' = [buffer EXCEPT ![c] = Append(@, m)]
        /\ slots' = slots \cup {EventOf(m)}
    /\ UNCHANGED <<rowVars, workerVars, writing, torn, pipe, drainer, clientVars, historyVars>>

\* _put: put_nowait takes a slot, or the message is dropped.
Emit(c) ==
    /\ worker[c] # Off
    /\ \E m \in Puts(c) :
        /\ emitted' = [emitted EXCEPT ![c] = m.n]
        /\ IF Cardinality(slots) < QueueSize
           THEN /\ buffer' = [buffer EXCEPT ![c] = Append(@, m)]
                /\ slots' = slots \cup {EventOf(m)}
           ELSE UNCHANGED <<buffer, slots>>
    /\ UNCHANGED <<rowVars, workerVars, writing, torn, pipe, drainer, clientVars, historyVars>>

\* The feeder thread takes the write lock, ...
BeginWrite(c) ==
    /\ writing = {} /\ ~torn
    /\ buffer[c] # <<>>
    /\ writing' = {Head(buffer[c])}
    /\ buffer' = [buffer EXCEPT ![c] = Tail(@)]
    /\ UNCHANGED <<rowVars, workerVars, emitted, slots, torn, pipe, drainer, clientVars, historyVars>>

\* ... and is done when all of the message has found room in the pipe.
EndWrite ==
    /\ Len(pipe) < PipeSize
    /\ \E m \in writing : pipe' = Append(pipe, m)
    /\ writing' = {}
    /\ UNCHANGED <<rowVars, workerVars, emitted, slots, buffer, torn, drainer, clientVars, historyVars>>

Writes(c) == \E m \in writing : m.cam = c

\* The process ends, by itself or because it was told to, when its feeder is
\* done; a join that waits for it returns.
Leave(c) ==
    /\ worker[c] # Off
    /\ buffer[c] = <<>>
    /\ ~Writes(c)
    /\ worker' = [worker EXCEPT ![c] = Off]
    /\ stopping' = IF stopping = c THEN None ELSE stopping
    /\ UNCHANGED <<rowVars, emitted, queueVars, drainer, clientVars, historyVars>>

\* Nobody makes room in the pipe: the reader waits for the event loop.
WriteBlocked == Len(pipe) = PipeSize /\ drainer.pc # "polling"

\* Mutant: the feeder is waited for, whatever it takes.
TerminateUnlessWriting(c) ==
    /\ stopping = c
    /\ ~Writes(c)
    /\ worker' = [worker EXCEPT ![c] = Off]
    /\ stopping' = None
    /\ buffer' = [buffer EXCEPT ![c] = <<>>]
    /\ UNCHANGED <<rowVars, emitted, slots, writing, torn, pipe, drainer, clientVars, historyVars>>

\* The join times out, and the process is terminated: it was busy with a frame
\* or a model, or its feeder was blocked.  (A write that is not blocked ends
\* within the five seconds of the join.)
Terminate(c) ==
    /\ stopping = c
    /\ Writes(c) => WriteBlocked
    /\ worker' = [worker EXCEPT ![c] = Off]
    /\ stopping' = None
    /\ buffer' = [buffer EXCEPT ![c] = <<>>]
    /\ writing' = {m \in writing : m.cam # c}
    /\ torn' = (torn \/ Writes(c))
    /\ UNCHANGED <<rowVars, emitted, slots, pipe, drainer, clientVars, historyVars>>

-----------------------------------------------------------------------------
\* The drainer task.

\* _blocking_get, in a thread of the executor: get returns a message, ...
Get ==
    /\ drainer.pc = "polling"
    /\ pipe # <<>>
    /\ pipe' = Tail(pipe)
    /\ slots' = slots \ {EventOf(Head(pipe))}
    /\ drainer' = [drainer EXCEPT !.pc = "fetched", !.msg = Head(pipe)]
    /\ UNCHANGED <<rowVars, workerVars, emitted, buffer, writing, torn, clientVars, historyVars>>

\* ... or times out on an empty pipe, and is called again.
GetTimesOut ==
    /\ drainer.pc = "polling"
    /\ pipe = <<>>
    /\ writing = {} /\ ~torn
    /\ drainer' = [drainer EXCEPT !.pc = "empty"]
    /\ UNCHANGED <<rowVars, workerVars, emitted, queueVars, clientVars, historyVars>>

PollAgain ==
    /\ LoopFree
    /\ drainer.pc = "empty"
    /\ drainer' = [drainer EXCEPT !.pc = "polling"]
    /\ UNCHANGED <<rowVars, workerVars, emitted, queueVars, clientVars, historyVars>>

\* _handle begins; a zone exit is only broadcast.
Handle ==
    /\ LoopFree
    /\ drainer.pc = "fetched"
    /\ drainer' = [drainer EXCEPT !.pc = IF drainer.msg.kind = "exit" THEN "announce" ELSE "store"]
    /\ UNCHANGED <<rowVars, workerVars, emitted, queueVars, clientVars, historyVars>>

\* The foreign keys of the detection row.
RowsExist(m) == m.cam \in cameras /\ m.zone \in {None} \cup {z \in Zones : zones[z] = "live"}

\* ingest_worker_event: the detection and its alert are flushed.
Ingest ==
    /\ LoopFree
    /\ drainer.pc = "store"
    /\ RowsExist(drainer.msg)
    /\ drainer' = [drainer EXCEPT !.pc = "flushed"]
    /\ UNCHANGED <<rowVars, workerVars, emitted, queueVars, clientVars, historyVars>>

Unstorable ==
    \/ drainer.pc = "store" /\ ~RowsExist(drainer.msg)
    \/ drainer.pc \in {"store", "flushed"} /\ DatabaseMayFail

\* Mutant: the drainer does not catch the exception, and its task ends.
StoreFailsUncaught ==
    /\ LoopFree
    /\ Unstorable
    /\ drainer' = [Polling EXCEPT !.pc = "ended"]
    /\ UNCHANGED <<rowVars, workerVars, emitted, queueVars, clientVars, historyVars>>

\* Mutant: the alert is broadcast although it could not be stored.
StoreFailsAnnounced ==
    /\ LoopFree
    /\ Unstorable
    /\ drainer' = [drainer EXCEPT !.pc = "announce"]
    /\ UNCHANGED <<rowVars, workerVars, emitted, queueVars, clientVars, historyVars>>

\* A foreign key is violated, or the screenshot or the database fails: the
\* exception is logged, and the message is gone.
StoreFails ==
    /\ LoopFree
    /\ Unstorable
    /\ drainer' = Polling
    /\ UNCHANGED <<rowVars, workerVars, emitted, queueVars, clientVars, historyVars>>

CommitIngest ==
    /\ LoopFree
    /\ drainer.pc = "flushed"
    /\ committed' = committed \cup {EventOf(drainer.msg)}
    /\ drainer' = [drainer EXCEPT !.pc = "announce"]
    /\ UNCHANGED <<rowVars, workerVars, emitted, queueVars, clientVars, announced>>

\* broadcast begins: it takes the connections of that moment as its targets.
BeginBroadcast ==
    /\ LoopFree
    /\ drainer.pc = "announce"
    /\ drainer' = [drainer EXCEPT !.pc = "sending", !.targets = Open]
    /\ UNCHANGED <<rowVars, workerVars, emitted, queueVars, clientVars, historyVars>>

\* Mutant: the connection just served stays in the list.
SendAgain(k) ==
    /\ LoopFree
    /\ drainer.pc = "sending"
    /\ k \in drainer.targets
    /\ connection[k] = "open"
    /\ inbox' = [inbox EXCEPT ![k] = Append(@, EventOf(drainer.msg))]
    /\ UNCHANGED <<rowVars, workerVars, emitted, queueVars, drainer, connection, joined, historyVars>>

\* send_json to one of them; on a connection that is closed, or breaks, it
\* raises, and the client counts as dead.
Send(k) ==
    /\ LoopFree
    /\ drainer.pc = "sending"
    /\ k \in drainer.targets
    /\ \/ /\ connection[k] = "open"
          /\ inbox' = [inbox EXCEPT ![k] = Append(@, EventOf(drainer.msg))]
          /\ drainer' = [drainer EXCEPT !.targets = @ \ {k}]
       \/ /\ drainer' = [drainer EXCEPT !.targets = @ \ {k}, !.dead = @ \cup {k}]
          /\ UNCHANGED inbox
    /\ UNCHANGED <<rowVars, workerVars, emitted, queueVars, connection, joined, historyVars>>

\* Mutant: the dead connections are kept.
EndBroadcastKeepingDead ==
    /\ LoopFree
    /\ drainer.pc = "sending"
    /\ drainer.targets = {}
    /\ announced' = announced \cup {EventOf(drainer.msg)}
    /\ drainer' = Polling
    /\ UNCHANGED <<rowVars, workerVars, emitted, queueVars, clientVars, committed>>

\* broadcast ends: the dead connections are discarded.
EndBroadcast ==
    /\ LoopFree
    /\ drainer.pc = "sending"
    /\ drainer.targets = {}
    /\ connection' = [k \in Clients |-> IF k \in drainer.dead THEN "closed" ELSE connection[k]]
    /\ announced' = announced \cup {EventOf(drainer.msg)}
    /\ drainer' = Polling
    /\ UNCHANGED <<rowVars, workerVars, emitted, queueVars, inbox, joined, committed>>

-----------------------------------------------------------------------------
\* Clients, and the end of the backend.

Begun == announced \cup IF drainer.pc = "sending" THEN {EventOf(drainer.msg)} ELSE {}

Connect(k) ==
    /\ LoopFree
    /\ connection[k] = "new"
    /\ connection' = [connection EXCEPT ![k] = "open"]
    /\ joined' = [joined EXCEPT ![k] = Begun]
    /\ UNCHANGED <<rowVars, workerVars, emitted, queueVars, drainer, inbox, historyVars>>

Disconnect(k) ==
    /\ LoopFree
    /\ connection[k] = "open"
    /\ connection' = [connection EXCEPT ![k] = "closed"]
    /\ UNCHANGED <<rowVars, workerVars, emitted, queueVars, drainer, inbox, joined, historyVars>>

\* The backend stops, orderly (lifespan: drainer.stop cancels the task, then
\* supervisor.shutdown stops the workers) or not, and comes up again.  A
\* commit under way may have reached the database.  The queue is gone.
Restart ==
    /\ \/ UNCHANGED committed
       \/ drainer.pc = "flushed" /\ committed' = committed \cup {EventOf(drainer.msg)}
    /\ worker' = [c \in Cameras |-> Off]
    /\ stopping' = None
    /\ deleting' = {}
    /\ slots' = {}
    /\ buffer' = [c \in Cameras |-> <<>>]
    /\ writing' = {}
    /\ torn' = FALSE
    /\ pipe' = <<>>
    /\ drainer' = Polling
    /\ connection' = [k \in Clients |-> IF connection[k] = "open" THEN "closed" ELSE connection[k]]
    /\ UNCHANGED <<cameras, zones, emitted, inbox, joined, announced>>

Feed == (\E c \in Cameras : BeginWrite(c)) \/ EndWrite

Drain ==
    \/ Get \/ GetTimesOut \/ PollAgain
    \/ Handle \/ Ingest \/ StoreFails \/ CommitIngest \/ BeginBroadcast
    \/ (\E k \in Clients : Send(k)) \/ EndBroadcast

Next ==
    \/ \E z \in Zones : CreateZone(z) \/ DeleteZone(z)
    \/ \E c \in Cameras : \/ Activate(c) \/ Deactivate(c) \/ BeginDelete(c) \/ DeleteCamera(c)
                          \/ Emit(c) \/ Leave(c) \/ Terminate(c)
    \/ Feed
    \/ Drain
    \/ \E k \in Clients : Connect(k) \/ Disconnect(k)
    \/ Restart

Spec == Init /\ [][Next]_vars

\* Threads and tasks keep running: the feeders, the executor's thread and the
\* event loop go on, and a join ends, at the latest by termination.  The loop
\* runs what is ready in turn, so requests that block it again and again do not
\* keep the drainer from its steps.  A client that stops reading is closed by
\* the server's ping timeout, so a send ends.
FairSpec ==
    /\ Spec
    /\ \A c \in Cameras : WF_vars(BeginWrite(c)) /\ WF_vars(stopping = c /\ (Leave(c) \/ Terminate(c)))
    /\ WF_vars(EndWrite)
    /\ SF_vars(Drain)

-----------------------------------------------------------------------------
TypeOK ==
    /\ cameras \subseteq Cameras
    /\ zones \in [Zones -> {"unborn", "live", "deleted"}]
    /\ deleting \subseteq Cameras
    /\ worker \in [Cameras -> Zones \cup {None, Off}]
    /\ stopping \in Cameras \cup {None}
    /\ emitted \in [Cameras -> 0..MaxEvents]
    /\ slots \subseteq Events /\ IsFiniteSet(slots) /\ Cardinality(slots) <= QueueSize
    /\ buffer \in [Cameras -> Seq(Message)]
    /\ writing \subseteq Message /\ torn \in BOOLEAN
    /\ pipe \in Seq(Message) /\ Len(pipe) <= PipeSize
    /\ drainer \in [pc : {"polling", "empty", "fetched", "store", "flushed", "announce", "sending"},
                    msg : Message \cup {None},
                    targets : SUBSET Clients, dead : SUBSET Clients]
    /\ connection \in [Clients -> {"new", "open", "closed"}]
    /\ inbox \in [Clients -> Seq(Events)]
    /\ committed \subseteq Events
    /\ announced \subseteq Events
    /\ joined \in [Clients -> SUBSET Events]

\* The messages on their way: put and not read, or in the drainer's hands.
Contents(seq) == {seq[i] : i \in DOMAIN seq}
Queued == Contents(pipe) \cup writing \cup UNION {Contents(buffer[c]) : c \in Cameras}
InHand == IF drainer.pc \in {"polling", "empty"} THEN {} ELSE {drainer.msg}
Underway == InHand \cup Queued

\* What AlertDelivery calls the fate of an event.
Fate(e) ==
    IF e[2] > emitted[e[1]] THEN "none"
    ELSE IF e \in announced THEN "announced"
    ELSE IF e \in committed THEN "stored"
    ELSE IF \E m \in Underway : EventOf(m) = e /\ m.kind = "violation" THEN "violation"
    ELSE IF \E m \in Underway : EventOf(m) = e /\ m.kind = "exit" THEN "exit"
    ELSE "lost"

Delivery == INSTANCE AlertDelivery WITH Numbers <- 1..MaxEvents, fate <- [e \in Events |-> Fate(e)]

\* Each event is stored and announced at most once, the events of a camera in
\* the order it raised them, and never announced without having been stored.
DeliverySpec == Delivery!Spec

\* A client that stays connected hears of everything announced since.
NoGap == \A k \in Open : announced \ joined[k] \subseteq Contents(inbox[k])

\* A client hears of a camera's events in the order they were raised, of each
\* at most once.  (Of two cameras' events it may hear the later one first.)
InboxInOrder ==
    \A k \in Clients : \A i, j \in DOMAIN inbox[k] :
        i < j /\ inbox[k][i][1] = inbox[k][j][1] => inbox[k][i][2] < inbox[k][j][2]

Waits(e) == \E m \in Queued : EventOf(m) = e

\* An event in the queue is read, or lost with its worker or the backend: no
\* message that cannot be stored, and no worker that is stopped, keeps the
\* others waiting for ever, unless a write was cut off.
QueueDrains == \A e \in Events : Waits(e) ~> ~Waits(e) \/ torn

\* The join of a deactivate ends, although the drainer cannot empty the pipe
\* while it lasts.
StopsEnd == \A c \in Cameras : stopping = c ~> stopping # c
================================================================================
