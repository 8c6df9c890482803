-------------------------- MODULE AlertPipelineProofs --------------------------
(* Theorems about the way of the events, for every number of cameras, zones,  *)
(* clients and events, and every size of the queue and the pipe.              *)
EXTENDS AlertPipeline, Listing, Statistics, SequenceTheorems, FiniteSetTheorems, TLAPS

-----------------------------------------------------------------------------
\* Sequences of messages, in the order in which each camera raised them.

Before(S, T) == \A m \in S, n \in T : m.cam = n.cam => m.n < n.n

Sorted(seq) ==
    \A i, j \in DOMAIN seq : i < j /\ seq[i].cam = seq[j].cam => seq[i].n < seq[j].n

LEMMA HeadAndTail ==
    ASSUME NEW q \in Seq(Message), q # <<>>
    PROVE  /\ Head(q) \in Message
           /\ Tail(q) \in Seq(Message) /\ Len(Tail(q)) = Len(q) - 1 /\ Len(q) \in Nat
           /\ Contents(q) = {Head(q)} \cup Contents(Tail(q))
           /\ Sorted(q) => Sorted(Tail(q)) /\ Before({Head(q)}, Contents(Tail(q)))
<1>1. /\ Head(q) \in Message /\ Head(q) = q[1]
      /\ Tail(q) \in Seq(Message)
      /\ Len(Tail(q)) = Len(q) - 1
      /\ \A i \in 1 .. Len(Tail(q)) : Tail(q)[i] = q[i + 1]
  BY HeadTailProperties
<1>2. Len(q) \in Nat \ {0} /\ DOMAIN q = 1..Len(q)
  BY EmptySeq, LenProperties
<1>3. DOMAIN Tail(q) = 1..(Len(q) - 1)
  BY <1>1, LenProperties
<1>4. \A i \in DOMAIN Tail(q) : i + 1 \in DOMAIN q /\ 1 < i + 1 /\ Tail(q)[i] = q[i + 1]
  BY <1>1, <1>2, <1>3
<1>5. \A i \in DOMAIN q : i = 1 \/ (i - 1 \in DOMAIN Tail(q) /\ Tail(q)[i - 1] = q[i])
  BY <1>1, <1>2, <1>3
<1>6. 1 \in DOMAIN q
  BY <1>2
<1>7. Contents(q) = {Head(q)} \cup Contents(Tail(q))
  <2>1. \A x : x \in Contents(q) <=> \E i \in DOMAIN q : x = q[i]
    BY DEF Contents
  <2>2. \A x : x \in Contents(Tail(q)) <=> \E i \in DOMAIN Tail(q) : x = Tail(q)[i]
    BY DEF Contents
  <2>3. \A x : x \in Contents(q) => x = Head(q) \/ x \in Contents(Tail(q))
    BY <1>1, <1>5, <2>1, <2>2
  <2>4. \A x : x = Head(q) \/ x \in Contents(Tail(q)) => x \in Contents(q)
    BY <1>1, <1>4, <1>6, <2>1, <2>2
  <2> QED
    BY <2>3, <2>4
<1>8. ASSUME Sorted(q) PROVE Sorted(Tail(q))
  BY <1>2, <1>3, <1>4, <1>8 DEF Sorted
<1>9. ASSUME Sorted(q) PROVE Before({Head(q)}, Contents(Tail(q)))
  <2>1. SUFFICES ASSUME NEW i \in DOMAIN Tail(q), q[1].cam = q[i + 1].cam
                 PROVE  q[1].n < q[i + 1].n
    BY <1>1, <1>4 DEF Before, Contents
  <2> QED
    BY <1>4, <1>6, <1>9, <2>1 DEF Sorted
<1> QED
  BY <1>1, <1>2, <1>7, <1>8, <1>9

LEMMA PutLast ==
    ASSUME NEW q \in Seq(Message), NEW m \in Message
    PROVE  /\ Append(q, m) \in Seq(Message) /\ Len(Append(q, m)) = Len(q) + 1 /\ Len(q) \in Nat
           /\ Contents(Append(q, m)) = Contents(q) \cup {m}
           /\ Sorted(q) /\ Before(Contents(q), {m}) => Sorted(Append(q, m))
<1>1. /\ Append(q, m) \in Seq(Message) /\ Len(Append(q, m)) = Len(q) + 1
      /\ \A i \in 1..Len(q) : Append(q, m)[i] = q[i]
      /\ Append(q, m)[Len(q) + 1] = m
      /\ DOMAIN q = 1..Len(q) /\ DOMAIN Append(q, m) = 1..Len(q) + 1 /\ Len(q) \in Nat
  BY AppendProperties, LenProperties
<1>2. /\ \A i \in DOMAIN q : i \in DOMAIN Append(q, m) /\ Append(q, m)[i] = q[i]
      /\ \A i \in DOMAIN Append(q, m) : i \in DOMAIN q \/ i = Len(q) + 1
      /\ Len(q) + 1 \in DOMAIN Append(q, m)
  BY <1>1
<1>3. Contents(Append(q, m)) = Contents(q) \cup {m}
  BY <1>1, <1>2 DEF Contents
<1>4. ASSUME Sorted(q), Before(Contents(q), {m}) PROVE Sorted(Append(q, m))
  <2>1. SUFFICES ASSUME NEW i \in DOMAIN Append(q, m), NEW j \in DOMAIN Append(q, m), i < j,
                        Append(q, m)[i].cam = Append(q, m)[j].cam
                 PROVE  Append(q, m)[i].n < Append(q, m)[j].n
    BY DEF Sorted
  <2>2. i \in DOMAIN q
    BY <1>1, <2>1
  <2>3. CASE j \in DOMAIN q
    BY <1>2, <1>4, <2>1, <2>2, <2>3 DEF Sorted
  <2>4. CASE j = Len(q) + 1
    BY <1>1, <1>2, <1>4, <2>1, <2>2, <2>4 DEF Before, Contents
  <2> QED
    BY <1>2, <2>3, <2>4
<1> QED
  BY <1>1, <1>3, <1>4

LEMMA NoContents == <<>> \in Seq(Message) /\ Len(<<>>) = 0 /\ Contents(<<>>) = {} /\ Sorted(<<>>)
BY EmptySeq DEF Contents, Sorted

LEMMA ContentsType == ASSUME NEW q \in Seq(Message) PROVE Contents(q) \subseteq Message
BY ElementOfSeq, LenProperties DEF Contents

LEMMA MessageFields ==
    ASSUME NEW m \in Message
    PROVE  /\ m.cam \in Cameras /\ m.n \in 1..MaxEvents /\ m.n \in Nat
           /\ m.kind \in {"violation", "exit"}
           /\ EventOf(m) \in Events /\ EventOf(m)[1] = m.cam /\ EventOf(m)[2] = m.n
           /\ \A e \in Events : e = EventOf(m) <=> e[1] = m.cam /\ e[2] = m.n
BY PipelineAssumption DEF Message, Events, EventOf

LEMMA EventFields ==
    ASSUME NEW e \in Events
    PROVE  e[1] \in Cameras /\ e[2] \in 1..MaxEvents /\ e[2] \in Nat
BY PipelineAssumption DEF Events

-----------------------------------------------------------------------------
\* Types.

DrainerType ==
    [pc : {"polling", "empty", "fetched", "store", "flushed", "announce", "sending"},
     msg : Message \cup {None}, targets : SUBSET Clients, dead : SUBSET Clients]

HandFree == drainer.pc \in {"polling", "empty"}

\* The drainer holds a message while it handles one.
Busy == ~HandFree => drainer.msg \in Message

\* What the steps of the task do to its record.
LEMMA DrainerSteps ==
    ASSUME drainer \in DrainerType, Busy, pipe \in Seq(Message)
    PROVE  /\ Get => /\ drainer.pc = "polling" /\ pipe # <<>>
                     /\ drainer' \in DrainerType
                     /\ drainer'.pc = "fetched" /\ drainer'.msg = Head(pipe)
           /\ GetTimesOut => /\ drainer.pc = "polling"
                             /\ drainer' \in DrainerType /\ drainer'.pc = "empty"
           /\ PollAgain => /\ drainer.pc = "empty"
                           /\ drainer' \in DrainerType /\ drainer'.pc = "polling"
           /\ Handle => /\ drainer.pc = "fetched" /\ drainer.msg \in Message
                        /\ drainer' \in DrainerType
                        /\ drainer'.pc = IF drainer.msg.kind = "exit" THEN "announce" ELSE "store"
                        /\ drainer'.msg = drainer.msg
           /\ Ingest => /\ drainer.pc = "store" /\ drainer.msg \in Message
                        /\ drainer' \in DrainerType
                        /\ drainer'.pc = "flushed" /\ drainer'.msg = drainer.msg
           /\ StoreFails => /\ drainer.pc \in {"store", "flushed"} /\ drainer.msg \in Message
                            /\ drainer' \in DrainerType /\ drainer'.pc = "polling"
           /\ CommitIngest => /\ drainer.pc = "flushed" /\ drainer.msg \in Message
                              /\ drainer' \in DrainerType
                              /\ drainer'.pc = "announce" /\ drainer'.msg = drainer.msg
           /\ BeginBroadcast => /\ drainer.pc = "announce" /\ drainer.msg \in Message
                                /\ drainer' \in DrainerType
                                /\ drainer'.pc = "sending" /\ drainer'.msg = drainer.msg
                                /\ drainer'.targets = Open /\ drainer'.dead = drainer.dead
           /\ \A k \in Clients : Send(k) =>
                /\ drainer.pc = "sending" /\ drainer.msg \in Message
                /\ drainer' \in DrainerType
                /\ drainer'.pc = "sending" /\ drainer'.msg = drainer.msg
                /\ drainer'.targets = drainer.targets \ {k}
           /\ EndBroadcast => /\ drainer.pc = "sending" /\ drainer.msg \in Message
                              /\ drainer' \in DrainerType /\ drainer'.pc = "polling"
           /\ Restart => drainer' \in DrainerType /\ drainer'.pc = "polling"
<1>0. /\ Polling \in DrainerType /\ Polling.pc = "polling"
      /\ drainer.pc \notin {"polling", "empty"} => drainer.msg \in Message
      /\ Open \in SUBSET Clients
  BY DEF DrainerType, Polling, Busy, HandFree, Open
<1>1. ASSUME Get
      PROVE  /\ drainer.pc = "polling" /\ pipe # <<>>
             /\ drainer' \in DrainerType
             /\ drainer'.pc = "fetched" /\ drainer'.msg = Head(pipe)
  <2>1. Head(pipe) \in Message
    BY <1>1, HeadAndTail DEF Get
  <2>2. /\ drainer.pc = "polling" /\ pipe # <<>>
        /\ drainer' = [drainer EXCEPT !.pc = "fetched", !.msg = Head(pipe)]
    BY <1>1 DEF Get
  <2> QED
    BY <2>1, <2>2 DEF DrainerType
<1>2. ASSUME GetTimesOut
      PROVE  /\ drainer.pc = "polling"
             /\ drainer' \in DrainerType /\ drainer'.pc = "empty"
  <2>1. drainer.pc = "polling" /\ drainer' = [drainer EXCEPT !.pc = "empty"]
    BY <1>2 DEF GetTimesOut
  <2> QED
    BY <2>1 DEF DrainerType
<1>3. ASSUME PollAgain
      PROVE  /\ drainer.pc = "empty"
             /\ drainer' \in DrainerType /\ drainer'.pc = "polling"
  <2>1. drainer.pc = "empty" /\ drainer' = [drainer EXCEPT !.pc = "polling"]
    BY <1>3 DEF PollAgain
  <2> QED
    BY <2>1 DEF DrainerType
<1>4. ASSUME Handle
      PROVE  /\ drainer.pc = "fetched" /\ drainer.msg \in Message
             /\ drainer' \in DrainerType
             /\ drainer'.pc = IF drainer.msg.kind = "exit" THEN "announce" ELSE "store"
             /\ drainer'.msg = drainer.msg
  <2>1. /\ drainer.pc = "fetched"
        /\ drainer' = [drainer EXCEPT !.pc = IF drainer.msg.kind = "exit"
                                             THEN "announce" ELSE "store"]
    BY <1>4 DEF Handle
  <2> QED
    BY <1>0, <2>1 DEF DrainerType
<1>5. ASSUME Ingest
      PROVE  /\ drainer.pc = "store" /\ drainer.msg \in Message
             /\ drainer' \in DrainerType
             /\ drainer'.pc = "flushed" /\ drainer'.msg = drainer.msg
  <2>1. drainer.pc = "store" /\ drainer' = [drainer EXCEPT !.pc = "flushed"]
    BY <1>5 DEF Ingest
  <2> QED
    BY <1>0, <2>1 DEF DrainerType
<1>6. ASSUME StoreFails
      PROVE  /\ drainer.pc \in {"store", "flushed"} /\ drainer.msg \in Message
             /\ drainer' \in DrainerType /\ drainer'.pc = "polling"
  <2>1. drainer.pc \in {"store", "flushed"} /\ drainer' = Polling
    BY <1>6 DEF StoreFails, Unstorable
  <2> QED
    BY <1>0, <2>1
<1>7. ASSUME CommitIngest
      PROVE  /\ drainer.pc = "flushed" /\ drainer.msg \in Message
             /\ drainer' \in DrainerType
             /\ drainer'.pc = "announce" /\ drainer'.msg = drainer.msg
  <2>1. drainer.pc = "flushed" /\ drainer' = [drainer EXCEPT !.pc = "announce"]
    BY <1>7 DEF CommitIngest
  <2> QED
    BY <1>0, <2>1 DEF DrainerType
<1>8. ASSUME BeginBroadcast
      PROVE  /\ drainer.pc = "announce" /\ drainer.msg \in Message
             /\ drainer' \in DrainerType
             /\ drainer'.pc = "sending" /\ drainer'.msg = drainer.msg
             /\ drainer'.targets = Open /\ drainer'.dead = drainer.dead
  <2>1. /\ drainer.pc = "announce"
        /\ drainer' = [drainer EXCEPT !.pc = "sending", !.targets = Open]
    BY <1>8 DEF BeginBroadcast
  <2> QED
    BY <1>0, <2>1 DEF DrainerType
<1>9. ASSUME NEW k \in Clients, Send(k)
      PROVE  /\ drainer.pc = "sending" /\ drainer.msg \in Message
             /\ drainer' \in DrainerType
             /\ drainer'.pc = "sending" /\ drainer'.msg = drainer.msg
             /\ drainer'.targets = drainer.targets \ {k}
  <2>1. /\ drainer.pc = "sending"
        /\ \/ drainer' = [drainer EXCEPT !.targets = @ \ {k}]
           \/ drainer' = [drainer EXCEPT !.targets = @ \ {k}, !.dead = @ \cup {k}]
    BY <1>9 DEF Send
  <2> QED
    BY <1>0, <2>1 DEF DrainerType
<1>10. ASSUME EndBroadcast
       PROVE  /\ drainer.pc = "sending" /\ drainer.msg \in Message
              /\ drainer' \in DrainerType /\ drainer'.pc = "polling"
  <2>1. drainer.pc = "sending" /\ drainer' = Polling
    BY <1>10 DEF EndBroadcast
  <2> QED
    BY <1>0, <2>1
<1>11. ASSUME Restart PROVE drainer' \in DrainerType /\ drainer'.pc = "polling"
  BY <1>0, <1>11 DEF Restart
<1> QED
  BY <1>1, <1>2, <1>3, <1>4, <1>5, <1>6, <1>7, <1>8, <1>9, <1>10, <1>11

\* What raising an event does to the queue.
LEMMA EmitStep ==
    ASSUME emitted \in [Cameras -> 0..MaxEvents], buffer \in [Cameras -> Seq(Message)],
           NEW c \in Cameras, Emit(c)
    PROVE  \E m \in Message :
             /\ m.cam = c /\ m.n = emitted[c] + 1
             /\ emitted' \in [Cameras -> 0..MaxEvents]
             /\ emitted'[c] = m.n /\ \A d \in Cameras \ {c} : emitted'[d] = emitted[d]
             /\ \/ UNCHANGED <<buffer, slots>>
                \/ /\ Cardinality(slots) < QueueSize /\ slots' = slots \cup {EventOf(m)}
                   /\ buffer' \in [Cameras -> Seq(Message)]
                   /\ buffer'[c] = Append(buffer[c], m)
                   /\ \A d \in Cameras \ {c} : buffer'[d] = buffer[d]
<1> USE PipelineAssumption
<1>1. PICK m \in Puts(c) :
        /\ emitted' = [emitted EXCEPT ![c] = m.n]
        /\ IF Cardinality(slots) < QueueSize
           THEN /\ buffer' = [buffer EXCEPT ![c] = Append(@, m)]
                /\ slots' = slots \cup {EventOf(m)}
           ELSE UNCHANGED <<buffer, slots>>
  BY DEF Emit
<1>2. m \in Message /\ m.cam = c /\ m.n = emitted[c] + 1
  BY DEF Puts
<1>3. m.n \in 1..MaxEvents
  BY <1>2, MessageFields
<1>4. /\ emitted' \in [Cameras -> 0..MaxEvents]
      /\ emitted'[c] = m.n /\ \A d \in Cameras \ {c} : emitted'[d] = emitted[d]
  BY <1>1, <1>3
<1>5. Append(buffer[c], m) \in Seq(Message)
  BY <1>2, PutLast
<1>6. CASE Cardinality(slots) < QueueSize
  <2>1. /\ buffer' \in [Cameras -> Seq(Message)]
        /\ buffer'[c] = Append(buffer[c], m)
        /\ \A d \in Cameras \ {c} : buffer'[d] = buffer[d]
        /\ slots' = slots \cup {EventOf(m)}
    BY <1>1, <1>5, <1>6
  <2> QED
    BY <1>2, <1>4, <1>6, <2>1
<1> QED
  BY <1>1, <1>2, <1>4, <1>6

\* The other steps of the queue.
LEMMA BeginWriteStep ==
    ASSUME buffer \in [Cameras -> Seq(Message)], NEW c \in Cameras, BeginWrite(c)
    PROVE  /\ writing = {} /\ writing' = {Head(buffer[c])} /\ Head(buffer[c]) \in Message
           /\ buffer[c] # <<>>
           /\ buffer' \in [Cameras -> Seq(Message)]
           /\ buffer'[c] = Tail(buffer[c])
           /\ \A d \in Cameras \ {c} : buffer'[d] = buffer[d]
           /\ UNCHANGED <<emitted, slots, pipe, drainer, historyVars>>
<1>1. Head(buffer[c]) \in Message /\ Tail(buffer[c]) \in Seq(Message)
  BY HeadAndTail DEF BeginWrite
<1> QED
  BY <1>1 DEF BeginWrite

LEMMA EndWriteStep ==
    ASSUME pipe \in Seq(Message), writing \subseteq Message, EndWrite
    PROVE  \E m \in writing :
              /\ m \in Message /\ writing' = {}
              /\ pipe' = Append(pipe, m) /\ pipe' \in Seq(Message)
              /\ Len(pipe') = Len(pipe) + 1 /\ Len(pipe) < PipeSize /\ Len(pipe) \in Nat
              /\ UNCHANGED <<emitted, slots, buffer, drainer, historyVars>>
<1>1. PICK m \in writing : pipe' = Append(pipe, m) /\ writing' = {} /\ Len(pipe) < PipeSize
  BY DEF EndWrite
<1>2. m \in Message /\ pipe' \in Seq(Message) /\ Len(pipe') = Len(pipe) + 1 /\ Len(pipe) \in Nat
  BY <1>1, PutLast
<1> QED
  BY <1>1, <1>2 DEF EndWrite

LEMMA TerminateStep ==
    ASSUME buffer \in [Cameras -> Seq(Message)], NEW c \in Cameras, Terminate(c)
    PROVE  /\ writing' \subseteq writing
           /\ buffer' \in [Cameras -> Seq(Message)]
           /\ buffer'[c] = <<>> /\ \A d \in Cameras \ {c} : buffer'[d] = buffer[d]
           /\ UNCHANGED <<emitted, slots, pipe, drainer, historyVars>>
<1>1. buffer' = [buffer EXCEPT ![c] = <<>>] /\ <<>> \in Seq(Message)
  BY NoContents DEF Terminate
<1> QED
  BY <1>1 DEF Terminate

\* Every variable keeps its type.
LEMMA TypeInvariant == Spec => [](TypeOK /\ Busy)
<1> USE PipelineAssumption
<1>1. Init => TypeOK /\ Busy
  <2> SUFFICES ASSUME Init PROVE TypeOK /\ Busy
    OBVIOUS
  <2>1. slots \subseteq Events /\ IsFiniteSet(slots) /\ Cardinality(slots) <= QueueSize
    BY FS_EmptySet DEF Init
  <2>2. pipe \in Seq(Message) /\ Len(pipe) <= PipeSize /\ buffer \in [Cameras -> Seq(Message)]
    BY NoContents DEF Init
  <2>3. inbox \in [Clients -> Seq(Events)]
    BY EmptySeq DEF Init
  <2>4. drainer \in DrainerType /\ Busy
    BY DEF Init, Polling, DrainerType, Busy, HandFree
  <2>5. emitted \in [Cameras -> 0..MaxEvents] /\ worker \in [Cameras -> Zones \cup {None, Off}]
    BY DEF Init
  <2> QED
    BY <2>1, <2>2, <2>3, <2>4, <2>5 DEF Init, TypeOK, DrainerType
<1>2. TypeOK /\ Busy /\ [Next]_vars => (TypeOK /\ Busy)'
  <2> SUFFICES ASSUME TypeOK, Busy, [Next]_vars PROVE TypeOK' /\ Busy'
    OBVIOUS
  <2> USE DEF TypeOK, Busy, HandFree, rowVars, workerVars, queueVars, clientVars, historyVars
  <2>0. drainer \in DrainerType /\ Len(pipe) \in Nat /\ Cardinality(slots) \in Nat
    BY LenProperties, FS_CardinalityType DEF DrainerType
  <2>1. ASSUME NEW z \in Zones, CreateZone(z) \/ DeleteZone(z) PROVE TypeOK' /\ Busy'
    BY <2>1 DEF CreateZone, DeleteZone
  <2>2. ASSUME NEW c \in Cameras, Activate(c) \/ Deactivate(c) \/ BeginDelete(c) \/ DeleteCamera(c)
        PROVE TypeOK' /\ Busy'
    <3>1. CASE Activate(c)
      <4>1. PICK z \in Zones \cup {None} : worker' = [worker EXCEPT ![c] = z]
        BY <3>1 DEF Activate
      <4>2. worker' \in [Cameras -> Zones \cup {None, Off}]
        BY <4>1
      <4> QED
        BY <3>1, <4>2 DEF Activate
    <3> QED
      BY <2>2, <3>1 DEF Deactivate, BeginDelete, DeleteCamera
  <2>3. ASSUME NEW c \in Cameras, Emit(c) PROVE TypeOK' /\ Busy'
    <3>1. PICK m \in Message :
             /\ emitted' \in [Cameras -> 0..MaxEvents]
             /\ \/ UNCHANGED <<buffer, slots>>
                \/ /\ Cardinality(slots) < QueueSize /\ slots' = slots \cup {EventOf(m)}
                   /\ buffer' \in [Cameras -> Seq(Message)]
      BY <2>3, EmitStep
    <3>2. slots' \subseteq Events /\ IsFiniteSet(slots') /\ Cardinality(slots') <= QueueSize
      <4>1. CASE slots' = slots
        BY <4>1
      <4>2. CASE Cardinality(slots) < QueueSize /\ slots' = slots \cup {EventOf(m)}
        <5>1. IsFiniteSet(slots') /\ Cardinality(slots') \in {Cardinality(slots), Cardinality(slots) + 1}
          BY <4>2, FS_AddElement
        <5> QED
          BY <2>0, <4>2, <5>1, MessageFields
      <4> QED
        BY <3>1, <4>1, <4>2
    <3> QED
      BY <2>3, <3>1, <3>2 DEF Emit
  <2>4. ASSUME NEW c \in Cameras, BeginWrite(c) PROVE TypeOK' /\ Busy'
    BY <2>4, BeginWriteStep DEF BeginWrite
  <2>5. CASE EndWrite
    <3>1. pipe' \in Seq(Message) /\ Len(pipe') <= PipeSize /\ writing' = {}
      BY <2>5, EndWriteStep
    <3> QED
      BY <2>5, <3>1 DEF EndWrite
  <2>6. ASSUME NEW c \in Cameras, Leave(c) \/ Terminate(c) PROVE TypeOK' /\ Busy'
    <3>1. worker' \in [Cameras -> Zones \cup {None, Off}] /\ stopping' \in Cameras \cup {None}
      BY <2>6 DEF Leave, Terminate
    <3>2. buffer' \in [Cameras -> Seq(Message)] /\ writing' \subseteq Message /\ torn' \in BOOLEAN
      <4>1. CASE Leave(c)
        BY <4>1 DEF Leave
      <4>2. CASE Terminate(c)
        <5>1. torn' \in BOOLEAN
          BY <4>2 DEF Terminate, Writes
        <5> QED
          BY <4>2, <5>1, TerminateStep
      <4> QED
        BY <2>6, <4>1, <4>2
    <3> QED
      BY <2>6, <3>1, <3>2 DEF Leave, Terminate
  <2>7. CASE Get
    <3>1. pipe' \in Seq(Message) /\ Len(pipe') <= PipeSize /\ Head(pipe) \in Message
      BY <2>0, <2>7, HeadAndTail DEF Get
    <3>2. slots' \subseteq Events /\ IsFiniteSet(slots') /\ Cardinality(slots') <= QueueSize
      <4>1. slots' \subseteq slots
        BY <2>7 DEF Get
      <4>2. IsFiniteSet(slots') /\ Cardinality(slots') <= Cardinality(slots)
        BY <4>1, FS_Subset
      <4>3. Cardinality(slots') \in Nat
        BY <4>2, FS_CardinalityType
      <4> QED
        BY <2>0, <4>1, <4>2, <4>3
    <3>3. drainer' \in DrainerType /\ drainer'.msg \in Message
      BY <2>0, <2>7, <3>1, DrainerSteps
    <3> QED
      BY <2>7, <3>1, <3>2, <3>3 DEF Get, DrainerType
  <2>8. CASE GetTimesOut \/ PollAgain
    <3>1. drainer' \in DrainerType /\ drainer'.pc \in {"polling", "empty"}
      BY <2>0, <2>8, DrainerSteps
    <3> QED
      BY <2>8, <3>1 DEF GetTimesOut, PollAgain, DrainerType
  <2>9. CASE Handle \/ Ingest \/ BeginBroadcast
    <3>1. drainer' \in DrainerType /\ drainer'.msg \in Message
      BY <2>0, <2>9, DrainerSteps
    <3> QED
      BY <2>9, <3>1 DEF Handle, Ingest, BeginBroadcast, DrainerType
  <2>10. CASE StoreFails
    <3>1. drainer' \in DrainerType /\ drainer'.pc = "polling"
      BY <2>0, <2>10, DrainerSteps
    <3> QED
      BY <2>10, <3>1 DEF StoreFails, DrainerType
  <2>11. CASE CommitIngest
    <3>1. drainer' \in DrainerType /\ drainer'.msg \in Message /\ EventOf(drainer.msg) \in Events
      BY <2>0, <2>11, DrainerSteps, MessageFields
    <3> QED
      BY <2>11, <3>1 DEF CommitIngest, DrainerType
  <2>12. ASSUME NEW k \in Clients, Send(k) PROVE TypeOK' /\ Busy'
    <3>1. drainer' \in DrainerType /\ drainer'.msg \in Message /\ EventOf(drainer.msg) \in Events
      BY <2>0, <2>12, DrainerSteps, MessageFields
    <3>2. Append(inbox[k], EventOf(drainer.msg)) \in Seq(Events)
      BY <3>1, AppendProperties
    <3>3. inbox' \in [Clients -> Seq(Events)]
      BY <2>12, <3>2 DEF Send
    <3> QED
      BY <2>12, <3>1, <3>3 DEF Send, DrainerType
  <2>13. CASE EndBroadcast
    <3>1. drainer' \in DrainerType /\ drainer'.pc = "polling" /\ EventOf(drainer.msg) \in Events
      BY <2>0, <2>13, DrainerSteps, MessageFields
    <3>2. connection' \in [Clients -> {"new", "open", "closed"}]
      BY <2>13 DEF EndBroadcast
    <3> QED
      BY <2>13, <3>1, <3>2 DEF EndBroadcast, DrainerType
  <2>14. ASSUME NEW k \in Clients, Connect(k) \/ Disconnect(k) PROVE TypeOK' /\ Busy'
    <3>1. Begun \subseteq Events
      BY MessageFields DEF Begun
    <3> QED
      BY <2>14, <3>1 DEF Connect, Disconnect
  <2>15. CASE Restart
    <3>1. drainer' \in DrainerType /\ drainer'.pc = "polling"
      BY <2>0, <2>15, DrainerSteps
    <3>2. committed' \subseteq Events
      BY <2>15, MessageFields DEF Restart
    <3>3. connection' \in [Clients -> {"new", "open", "closed"}]
      BY <2>15 DEF Restart
    <3>4. pipe' \in Seq(Message) /\ Len(pipe') <= PipeSize /\ buffer' \in [Cameras -> Seq(Message)]
      BY <2>15, NoContents DEF Restart
    <3>5. slots' \subseteq Events /\ IsFiniteSet(slots') /\ Cardinality(slots') <= QueueSize
      BY <2>15, FS_EmptySet DEF Restart
    <3>6. worker' \in [Cameras -> Zones \cup {None, Off}]
      BY <2>15 DEF Restart
    <3> QED
      BY <2>15, <3>1, <3>2, <3>3, <3>4, <3>5, <3>6 DEF Restart, DrainerType
  <2>16. CASE UNCHANGED vars
    BY <2>16 DEF vars
  <2> QED
    BY <2>1, <2>2, <2>3, <2>4, <2>5, <2>6, <2>7, <2>8, <2>9, <2>10, <2>11, <2>12, <2>13,
       <2>14, <2>15, <2>16
    DEF Next, Feed, Drain
<1> QED
    BY <1>1, <1>2, PTL DEF Spec

\* Every variable keeps its type; the queue its slots, and the pipe its size.
THEOREM TypeCorrect == Spec => []TypeOK
BY TypeInvariant, PTL

-----------------------------------------------------------------------------
\* The order of the events.  Invariants: the messages of a camera are in the
\* order of raising, in the pipe, from there to the one being written, and on to
\* those its process still holds; what has been stored or announced was raised
\* before all of them; and so was the message in the drainer's hands, which comes
\* after what is settled.

QueueOrder ==
    /\ Sorted(pipe)
    /\ \A c \in Cameras : Sorted(buffer[c]) /\ \A m \in Contents(buffer[c]) : m.cam = c
    /\ \A m, n \in writing : m = n
    /\ Before(Contents(pipe), writing)
    /\ \A c \in Cameras : Before(Contents(pipe) \cup writing, Contents(buffer[c]))

Raised == \A m \in Queued : m.n <= emitted[m.cam]

AheadOfQueue(e) ==
    e[2] <= emitted[e[1]] /\ \A m \in Queued : m.cam = e[1] => e[2] < m.n

HistoryOrder == \A e \in committed \cup announced : AheadOfQueue(e)

HandOrder ==
    /\ ~HandFree => AheadOfQueue(EventOf(drainer.msg))
    /\ drainer.pc \in {"fetched", "store", "flushed"} =>
          \A e \in committed \cup announced : e[1] = drainer.msg.cam => e[2] < drainer.msg.n
    /\ drainer.pc \in {"store", "flushed"} => drainer.msg.kind = "violation"
    /\ drainer.pc \in {"announce", "sending"} =>
          /\ \A e \in announced : e[1] = drainer.msg.cam => e[2] < drainer.msg.n
          /\ \A e \in committed : e[1] = drainer.msg.cam => e[2] <= drainer.msg.n
          /\ EventOf(drainer.msg) \in committed <=> drainer.msg.kind = "violation"

InOrder == QueueOrder /\ Raised /\ HistoryOrder /\ HandOrder

\* The types, as the lemmas below use them.
Typed ==
    /\ TypeOK /\ Busy /\ drainer \in DrainerType
    /\ emitted \in [Cameras -> 0..MaxEvents] /\ \A c \in Cameras : emitted[c] \in Nat
    /\ buffer \in [Cameras -> Seq(Message)] /\ pipe \in Seq(Message)
    /\ writing \subseteq Message /\ Contents(pipe) \subseteq Message
    /\ \A c \in Cameras : Contents(buffer[c]) \subseteq Message
    /\ Queued \subseteq Message
    /\ ~HandFree => drainer.msg \in Message
    /\ committed \subseteq Events /\ announced \subseteq Events

LEMMA QueuedIs ==
    \A m : m \in Queued <=> \/ m \in Contents(pipe) \/ m \in writing
                            \/ \E c \in Cameras : m \in Contents(buffer[c])
BY DEF Queued

LEMMA TypedFacts == ASSUME TypeOK, Busy PROVE Typed
<1> USE PipelineAssumption
<1>1. /\ emitted \in [Cameras -> 0..MaxEvents]
      /\ buffer \in [Cameras -> Seq(Message)] /\ pipe \in Seq(Message)
      /\ writing \subseteq Message /\ drainer \in DrainerType
      /\ committed \subseteq Events /\ announced \subseteq Events
  BY DEF TypeOK, DrainerType
<1>2. \A c \in Cameras : emitted[c] \in Nat
  BY <1>1
<1>3. Contents(pipe) \subseteq Message
  BY <1>1, ContentsType
<1>4. \A c \in Cameras : Contents(buffer[c]) \subseteq Message
  BY <1>1, ContentsType
<1>5. Queued \subseteq Message
  BY <1>1, <1>3, <1>4, QueuedIs
<1> QED
  BY <1>1, <1>2, <1>3, <1>4, <1>5 DEF Typed, Busy

\* Of the steps, many leave the events alone.
Elsewhere == UNCHANGED <<emitted, buffer, writing, pipe, drainer, historyVars>>

LEMMA ElsewhereSteps ==
    /\ \A z \in Zones : CreateZone(z) \/ DeleteZone(z) => Elsewhere
    /\ \A c \in Cameras : Activate(c) \/ Deactivate(c) \/ BeginDelete(c) \/ DeleteCamera(c) \/ Leave(c)
         => Elsewhere
    /\ \A k \in Clients : Connect(k) \/ Disconnect(k) => Elsewhere
    /\ UNCHANGED vars => Elsewhere
BY DEF CreateZone, DeleteZone, Activate, Deactivate, BeginDelete, DeleteCamera, Leave, Connect,
       Disconnect, Elsewhere, vars, queueVars, historyVars

\* The message a camera puts is the last of its own; so the queue stays in order.
LEMMA EmitKeepsOrder ==
    ASSUME Typed, QueueOrder, Raised, NEW c \in Cameras, Emit(c)
    PROVE  /\ QueueOrder'
           /\ \E m \in Message :
                /\ m.cam = c /\ m.n = emitted[c] + 1
                /\ emitted'[c] = m.n /\ \A d \in Cameras \ {c} : emitted'[d] = emitted[d]
                /\ Queued' = Queued \/ Queued' = Queued \cup {m}
                /\ UNCHANGED <<drainer, historyVars>>
<1>1. PICK m \in Message :
             /\ m.cam = c /\ m.n = emitted[c] + 1
             /\ emitted' \in [Cameras -> 0..MaxEvents]
             /\ emitted'[c] = m.n /\ \A d \in Cameras \ {c} : emitted'[d] = emitted[d]
             /\ \/ UNCHANGED <<buffer, slots>>
                \/ /\ Cardinality(slots) < QueueSize /\ slots' = slots \cup {EventOf(m)}
                   /\ buffer' \in [Cameras -> Seq(Message)]
                   /\ buffer'[c] = Append(buffer[c], m)
                   /\ \A d \in Cameras \ {c} : buffer'[d] = buffer[d]
  BY EmitStep DEF Typed
<1>2. UNCHANGED <<writing, pipe, drainer, historyVars>>
  BY DEF Emit
<1>3. CASE buffer' = buffer
  <2>1. QueueOrder' /\ Queued' = Queued
    BY <1>2, <1>3 DEF QueueOrder, Queued
  <2> QED
    BY <1>1, <1>2, <2>1
<1>4. CASE buffer'[c] = Append(buffer[c], m) /\ \A d \in Cameras \ {c} : buffer'[d] = buffer[d]
  <2>1. \A n \in Queued : n.cam = c => n.n < m.n
    BY <1>1, MessageFields DEF Raised, Typed
  <2>2. Before(Contents(buffer[c]), {m}) /\ Before(Contents(pipe) \cup writing, {m})
    BY <1>1, <2>1, QueuedIs DEF Before
  <2>3. /\ Contents(buffer'[c]) = Contents(buffer[c]) \cup {m}
        /\ Sorted(buffer'[c])
    BY <1>4, <2>2, PutLast DEF QueueOrder, Typed
  <2>4. \A x : x \in Queued' <=> x \in Queued \/ x = m
    BY <1>2, <1>4, <2>3, QueuedIs DEF Queued
  <2>5. Sorted(pipe)' /\ Before(Contents(pipe), writing)' /\ (\A x, y \in writing : x = y)'
    BY <1>2 DEF QueueOrder
  <2>6. \A d \in Cameras : Sorted(buffer'[d]) /\ \A x \in Contents(buffer'[d]) : x.cam = d
    BY <1>1, <1>4, <2>3 DEF QueueOrder
  <2>7. \A d \in Cameras : Before(Contents(pipe) \cup writing, Contents(buffer'[d]))
    BY <1>4, <2>2, <2>3 DEF QueueOrder, Before
  <2>8. QueueOrder'
    BY <1>2, <2>5, <2>6, <2>7 DEF QueueOrder
  <2> QED
    BY <1>1, <1>2, <2>4, <2>8
<1> QED
  BY <1>1, <1>3, <1>4

LEMMA BeginWriteKeepsOrder ==
    ASSUME Typed, QueueOrder, NEW c \in Cameras, BeginWrite(c)
    PROVE  QueueOrder' /\ Queued' = Queued
<1>1. /\ writing = {} /\ buffer[c] # <<>> /\ buffer[c] \in Seq(Message)
      /\ buffer'[c] = Tail(buffer[c])
      /\ \A d \in Cameras \ {c} : buffer'[d] = buffer[d]
      /\ pipe' = pipe
  BY BeginWriteStep DEF Typed
<1>2. PICK h \in Message : h = Head(buffer[c]) /\ writing' = {h}
  BY BeginWriteStep DEF Typed
<1>3. /\ Contents(buffer[c]) = {h} \cup Contents(buffer'[c])
      /\ Sorted(buffer'[c]) /\ Before({h}, Contents(buffer'[c]))
  BY <1>1, <1>2, HeadAndTail DEF QueueOrder
<1>4. h.cam = c /\ \A d \in Cameras \ {c} : \A x \in Contents(buffer[d]) : x.cam # c
  BY <1>3 DEF QueueOrder
<1>5. \A d \in Cameras : /\ Sorted(buffer'[d])
                         /\ \A x \in Contents(buffer'[d]) : x \in Contents(buffer[d]) /\ x.cam = d
  BY <1>1, <1>3 DEF QueueOrder
<1>6. Before(Contents(pipe), {h})
  BY <1>3 DEF QueueOrder, Before
<1>7. ASSUME NEW d \in Cameras PROVE Before(Contents(pipe) \cup {h}, Contents(buffer'[d]))
  <2>1. Before(Contents(pipe), Contents(buffer'[d]))
    BY <1>5 DEF QueueOrder, Before
  <2>2. Before({h}, Contents(buffer'[d]))
    BY <1>1, <1>3, <1>4 DEF Before
  <2> QED
    BY <2>1, <2>2 DEF Before
<1>8. \A x : x \in Queued' <=> x \in Queued
  BY <1>1, <1>2, <1>3, QueuedIs DEF Queued
<1>9. QueueOrder'
  BY <1>1, <1>2, <1>5, <1>6, <1>7 DEF QueueOrder
<1> QED
  BY <1>8, <1>9

LEMMA EndWriteKeepsOrder ==
    ASSUME Typed, QueueOrder, EndWrite
    PROVE  QueueOrder' /\ Queued' = Queued
<1>1. PICK m \in writing : /\ m \in Message /\ writing' = {} /\ pipe' = Append(pipe, m)
                           /\ buffer' = buffer
  BY EndWriteStep DEF Typed
<1>2. writing = {m}
  BY DEF QueueOrder
<1>3. Contents(pipe') = Contents(pipe) \cup {m} /\ Sorted(pipe')
  BY <1>1, <1>2, PutLast DEF QueueOrder, Typed
<1>4. \A x : x \in Queued' <=> x \in Queued
  BY <1>1, <1>2, <1>3, QueuedIs DEF Queued
<1>5. QueueOrder'
  BY <1>1, <1>2, <1>3 DEF QueueOrder, Before
<1> QED
  BY <1>4, <1>5

LEMMA TerminateKeepsOrder ==
    ASSUME Typed, QueueOrder, NEW c \in Cameras, Terminate(c)
    PROVE  QueueOrder' /\ Queued' \subseteq Queued
<1>1. /\ writing' \subseteq writing /\ pipe' = pipe
      /\ buffer'[c] = <<>> /\ \A d \in Cameras \ {c} : buffer'[d] = buffer[d]
  BY TerminateStep DEF Typed
<1>2. \A d \in Cameras : /\ Sorted(buffer'[d])
                         /\ \A x \in Contents(buffer'[d]) : x \in Contents(buffer[d]) /\ x.cam = d
  BY <1>1, NoContents DEF QueueOrder
<1>3. \A x : x \in Queued' => x \in Queued
  BY <1>1, <1>2, QueuedIs DEF Queued
<1>4. /\ Before(Contents(pipe), writing')
      /\ \A d \in Cameras : Before(Contents(pipe) \cup writing', Contents(buffer'[d]))
  BY <1>1, <1>2 DEF QueueOrder, Before
<1>5. QueueOrder'
  BY <1>1, <1>2, <1>4 DEF QueueOrder
<1> QED
  BY <1>3, <1>5

\* What the drainer takes was raised before the rest of its camera's messages.
LEMMA GetKeepsOrder ==
    ASSUME Typed, QueueOrder, Get
    PROVE  /\ QueueOrder'
           /\ \E h \in Message :
                /\ h = Head(pipe) /\ Queued = Queued' \cup {h}
                /\ \A m \in Queued' : m.cam = h.cam => h.n < m.n
<1>1. /\ pipe # <<>> /\ pipe' = Tail(pipe) /\ UNCHANGED <<buffer, writing>>
  BY DEF Get
<1>2. PICK h \in Message :
        /\ h = Head(pipe) /\ Contents(pipe) = {h} \cup Contents(pipe')
        /\ Sorted(pipe') /\ Before({h}, Contents(pipe'))
  BY <1>1, HeadAndTail DEF Typed, QueueOrder
<1>3. \A x : x \in Queued <=> x \in Queued' \/ x = h
  BY <1>1, <1>2, QueuedIs DEF Queued
<1>4. ASSUME NEW m \in Queued', m.cam = h.cam PROVE h.n < m.n
  <2>1. CASE m \in Contents(pipe')
    BY <1>2, <1>4, <2>1 DEF Before
  <2>2. CASE m \in writing
    BY <1>2, <1>4, <2>2 DEF QueueOrder, Before
  <2>3. ASSUME NEW c \in Cameras, m \in Contents(buffer[c]) PROVE h.n < m.n
    BY <1>2, <1>4, <2>3 DEF QueueOrder, Before
  <2> QED
    BY <1>1, <1>4, <2>1, <2>2, <2>3 DEF Queued
<1>5. QueueOrder'
  BY <1>1, <1>2 DEF QueueOrder, Before
<1> QED
  BY <1>2, <1>3, <1>4, <1>5

LEMMA RestartKeepsOrder ==
    ASSUME Restart
    PROVE  QueueOrder' /\ Queued' = {}
<1>1. pipe' = <<>> /\ writing' = {} /\ \A c \in Cameras : buffer'[c] = <<>>
  BY DEF Restart
<1>2. Contents(pipe') = {} /\ Sorted(pipe')
      /\ \A c \in Cameras : Contents(buffer'[c]) = {} /\ Sorted(buffer'[c])
  BY <1>1, NoContents
<1> QED
  BY <1>1, <1>2 DEF QueueOrder, Queued, Before

LEMMA OrderInvariant == Spec => [](Typed /\ InOrder)
<1> USE PipelineAssumption
<1>1. Init => InOrder
  <2> SUFFICES ASSUME Init PROVE InOrder
    OBVIOUS
  <2>1. /\ Contents(pipe) = {} /\ Sorted(pipe) /\ writing = {}
        /\ \A c \in Cameras : Contents(buffer[c]) = {} /\ Sorted(buffer[c])
    BY NoContents DEF Init
  <2>2. QueueOrder /\ Queued = {}
    BY <2>1 DEF QueueOrder, Queued, Before
  <2> QED
    BY <2>2 DEF Init, InOrder, Raised, HistoryOrder, HandOrder, Polling, HandFree
<1>2. ASSUME Typed, Typed', InOrder, [Next]_vars PROVE InOrder'
  <2> USE DEF InOrder, Raised, HistoryOrder, HandOrder, AheadOfQueue, HandFree
  <2>0. drainer \in DrainerType /\ Busy /\ pipe \in Seq(Message) /\ QueueOrder
    BY <1>2 DEF Typed
  <2>a. /\ \A m \in Queued : m \in Message /\ m.n \in Nat /\ m.cam \in Cameras
        /\ \A e \in committed \cup announced : e \in Events /\ e[1] \in Cameras /\ e[2] \in Nat
        /\ \A c \in Cameras : emitted[c] \in Nat
    BY <1>2, MessageFields, EventFields DEF Typed
  <2>b. ~HandFree => /\ drainer.msg \in Message /\ drainer.msg.cam \in Cameras /\ drainer.msg.n \in Nat
                     /\ drainer.msg.kind \in {"violation", "exit"}
                     /\ EventOf(drainer.msg) = <<drainer.msg.cam, drainer.msg.n>>
    BY <1>2, MessageFields DEF Typed, EventOf
  \* Steps that only shrink the queue.
  <2>1. ASSUME Queued' \subseteq Queued, UNCHANGED <<emitted, drainer, historyVars>>
        PROVE  Raised' /\ HistoryOrder' /\ HandOrder'
    BY <1>2, <2>1 DEF historyVars
  <2>2. CASE Elsewhere
    <3>1. QueueOrder' /\ Queued' = Queued
      BY <2>0, <2>2 DEF Elsewhere, QueueOrder, Queued
    <3> QED
      BY <2>1, <2>2, <3>1 DEF Elsewhere
  <2>3. ASSUME NEW c \in Cameras, Emit(c) PROVE InOrder'
    <3>1. QueueOrder'
      BY <1>2, <2>3, EmitKeepsOrder
    <3>2. PICK m \in Message :
                /\ m.cam = c /\ m.n = emitted[c] + 1
                /\ emitted'[c] = m.n /\ \A d \in Cameras \ {c} : emitted'[d] = emitted[d]
                /\ Queued' = Queued \/ Queued' = Queued \cup {m}
                /\ UNCHANGED <<drainer, historyVars>>
      BY <1>2, <2>3, EmitKeepsOrder
    <3>3. \A d \in Cameras : emitted[d] <= emitted'[d]
      BY <2>a, <3>2
    <3>4. Raised'
      <4>1. SUFFICES ASSUME NEW n \in Queued' PROVE n.n <= emitted'[n.cam]
        OBVIOUS
      <4>2. CASE n \in Queued
        <5>1. n.n <= emitted[n.cam] /\ n.cam \in Cameras /\ n.n \in Nat
          BY <1>2, <2>a, <4>2
        <5>2. emitted[n.cam] <= emitted'[n.cam] /\ emitted[n.cam] \in Nat /\ emitted'[n.cam] \in Nat
          BY <2>a, <3>2, <3>3, <5>1
        <5> QED
          BY <5>1, <5>2
      <4> QED
        BY <2>a, <3>2, <4>1, <4>2
    <3>5. ASSUME NEW e, e[1] \in Cameras, e[2] \in Nat, AheadOfQueue(e)
          PROVE  e[2] <= emitted'[e[1]] /\ \A n \in Queued' : n.cam = e[1] => e[2] < n.n
      <4>1. emitted[e[1]] <= emitted'[e[1]] /\ emitted[e[1]] \in Nat /\ emitted'[e[1]] \in Nat
        BY <2>a, <3>2, <3>3, <3>5
      <4>2. c = e[1] => e[2] < m.n
        BY <2>a, <3>2, <3>5
      <4> QED
        BY <3>2, <3>5, <4>1, <4>2
    <3>6. HistoryOrder'
      BY <1>2, <2>a, <3>2, <3>5 DEF historyVars
    <3>7. HandOrder'
      <4>1. ~HandFree => LET e == EventOf(drainer.msg)
                         IN  e[2] <= emitted'[e[1]] /\ \A n \in Queued' : n.cam = e[1] => e[2] < n.n
        BY <1>2, <2>b, <3>5
      <4> QED
        BY <1>2, <3>2, <4>1 DEF historyVars
    <3> QED
      BY <3>1, <3>4, <3>6, <3>7
  <2>4. ASSUME NEW c \in Cameras, BeginWrite(c) PROVE InOrder'
    <3>1. QueueOrder' /\ Queued' = Queued
      BY <1>2, <2>4, BeginWriteKeepsOrder
    <3> QED
      BY <2>1, <2>4, <3>1 DEF BeginWrite
  <2>5. CASE EndWrite
    <3>1. QueueOrder' /\ Queued' = Queued
      BY <1>2, <2>5, EndWriteKeepsOrder
    <3> QED
      BY <2>1, <2>5, <3>1 DEF EndWrite
  <2>6. ASSUME NEW c \in Cameras, Terminate(c) PROVE InOrder'
    <3>1. QueueOrder' /\ Queued' \subseteq Queued
      BY <1>2, <2>6, TerminateKeepsOrder
    <3> QED
      BY <2>1, <2>6, <3>1 DEF Terminate
  <2>7. CASE Get
    <3>1. QueueOrder'
      BY <1>2, <2>7, GetKeepsOrder
    <3>2. PICK h \in Message :
                /\ h = Head(pipe) /\ Queued = Queued' \cup {h}
                /\ \A m \in Queued' : m.cam = h.cam => h.n < m.n
      BY <1>2, <2>7, GetKeepsOrder
    <3>3. drainer'.pc = "fetched" /\ drainer'.msg = h
      BY <2>0, <2>7, <3>2, DrainerSteps
    <3>4. UNCHANGED <<emitted, committed, announced>>
      BY <2>7 DEF Get, historyVars
    <3>5. Raised' /\ HistoryOrder'
      BY <1>2, <3>2, <3>4
    <3>6. \A e \in committed \cup announced : e[1] = h.cam => e[2] < h.n
      BY <1>2, <3>2
    <3>7. /\ EventOf(h)[1] = h.cam /\ EventOf(h)[2] = h.n /\ h.n <= emitted[h.cam]
      BY <1>2, <3>2, MessageFields
    <3>8. AheadOfQueue(EventOf(drainer.msg))'
      BY <3>2, <3>3, <3>4, <3>7
    <3>9. HandOrder'
      BY <3>3, <3>4, <3>6, <3>8
    <3> QED
      BY <3>1, <3>5, <3>9
  \* Steps of the task that leave the queue alone.
  <2>8. ASSUME UNCHANGED <<emitted, buffer, writing, pipe>>
        PROVE  QueueOrder' /\ Queued' = Queued /\ Raised'
    BY <1>2, <2>0, <2>8 DEF QueueOrder, Queued
  <2>9. CASE GetTimesOut \/ PollAgain
    <3>1. drainer'.pc \in {"polling", "empty"}
      BY <2>0, <2>9, DrainerSteps
    <3>2. UNCHANGED <<emitted, buffer, writing, pipe, committed, announced>>
      BY <2>9 DEF GetTimesOut, PollAgain, queueVars, historyVars
    <3> QED
      BY <1>2, <2>8, <3>1, <3>2
  <2>10. CASE Handle
    <3>1. /\ drainer.pc = "fetched" /\ drainer.msg \in Message
          /\ drainer'.pc = (IF drainer.msg.kind = "exit" THEN "announce" ELSE "store")
          /\ drainer'.msg = drainer.msg
      BY <2>0, <2>10, DrainerSteps
    <3>2. UNCHANGED <<emitted, buffer, writing, pipe, committed, announced>>
      BY <2>10 DEF Handle, queueVars, historyVars
    <3>3. drainer.msg.kind \in {"violation", "exit"} /\ EventOf(drainer.msg) \notin committed
      BY <1>2, <2>a, <2>b, <3>1
    <3>4. \A e \in committed : e[1] = drainer.msg.cam => e[2] <= drainer.msg.n
      BY <1>2, <2>a, <2>b, <3>1
    <3>5. HandOrder'
      BY <1>2, <2>8, <3>1, <3>2, <3>3, <3>4
    <3> QED
      BY <1>2, <2>8, <3>2, <3>5
  <2>11. CASE Ingest
    <3>1. drainer.pc = "store" /\ drainer'.pc = "flushed" /\ drainer'.msg = drainer.msg
      BY <2>0, <2>11, DrainerSteps
    <3>2. UNCHANGED <<emitted, buffer, writing, pipe, committed, announced>>
      BY <2>11 DEF Ingest, queueVars, historyVars
    <3> QED
      BY <1>2, <2>8, <3>1, <3>2
  <2>12. CASE StoreFails
    <3>1. drainer'.pc = "polling"
      BY <2>0, <2>12, DrainerSteps
    <3>2. UNCHANGED <<emitted, buffer, writing, pipe, committed, announced>>
      BY <2>12 DEF StoreFails, queueVars, historyVars
    <3> QED
      BY <1>2, <2>8, <3>1, <3>2
  <2>13. CASE CommitIngest
    <3>1. /\ drainer.pc = "flushed" /\ drainer'.pc = "announce" /\ drainer'.msg = drainer.msg
      BY <2>0, <2>13, DrainerSteps
    <3>2. /\ UNCHANGED <<emitted, buffer, writing, pipe, announced>>
          /\ committed' = committed \cup {EventOf(drainer.msg)}
      BY <2>13 DEF CommitIngest, queueVars
    <3>3. HistoryOrder'
      BY <1>2, <2>8, <3>1, <3>2
    <3>4. HandOrder'
      BY <1>2, <2>a, <2>b, <2>8, <3>1, <3>2
    <3> QED
      BY <2>8, <3>2, <3>3, <3>4
  <2>14. CASE BeginBroadcast
    <3>1. drainer.pc = "announce" /\ drainer'.pc = "sending" /\ drainer'.msg = drainer.msg
      BY <2>0, <2>14, DrainerSteps
    <3>2. UNCHANGED <<emitted, buffer, writing, pipe, committed, announced>>
      BY <2>14 DEF BeginBroadcast, queueVars, historyVars
    <3> QED
      BY <1>2, <2>8, <3>1, <3>2
  <2>15. ASSUME NEW k \in Clients, Send(k) PROVE InOrder'
    <3>1. drainer.pc = "sending" /\ drainer'.pc = "sending" /\ drainer'.msg = drainer.msg
      BY <2>0, <2>15, DrainerSteps
    <3>2. UNCHANGED <<emitted, buffer, writing, pipe, committed, announced>>
      BY <2>15 DEF Send, queueVars, historyVars
    <3> QED
      BY <1>2, <2>8, <3>1, <3>2
  <2>16. CASE EndBroadcast
    <3>1. drainer.pc = "sending" /\ drainer'.pc = "polling"
      BY <2>0, <2>16, DrainerSteps
    <3>2. /\ UNCHANGED <<emitted, buffer, writing, pipe, committed>>
          /\ announced' = announced \cup {EventOf(drainer.msg)}
      BY <2>16 DEF EndBroadcast, queueVars
    <3> QED
      BY <1>2, <2>8, <3>1, <3>2
  <2>17. CASE Restart
    <3>1. QueueOrder' /\ Queued' = {} /\ drainer'.pc = "polling"
      BY <2>0, <2>17, RestartKeepsOrder, DrainerSteps
    <3>2. /\ UNCHANGED <<emitted, announced>>
          /\ \/ committed' = committed
             \/ drainer.pc = "flushed" /\ committed' = committed \cup {EventOf(drainer.msg)}
      BY <2>17 DEF Restart
    <3> QED
      BY <1>2, <3>1, <3>2
  <2> QED
    BY <1>2, <2>2, <2>3, <2>4, <2>5, <2>6, <2>7, <2>9, <2>10, <2>11, <2>12, <2>13, <2>14, <2>15,
       <2>16, <2>17, ElsewhereSteps
    DEF Next, Feed, Drain
<1>3. TypeOK /\ Busy => Typed
  BY TypedFacts
<1> QED
  BY <1>1, <1>2, <1>3, TypeInvariant, PTL DEF Spec

-----------------------------------------------------------------------------
\* The refinement.

fates == [e \in Events |-> Fate(e)]

\* Whether a message of the event is on its way.
Carried(e, kind) == \E m \in Underway : EventOf(m) = e /\ m.kind = kind

LEMMA FateIs ==
    ASSUME NEW e \in Events
    PROVE  Fate(e) = IF e[2] > emitted[e[1]] THEN "none"
                     ELSE IF e \in announced THEN "announced"
                     ELSE IF e \in committed THEN "stored"
                     ELSE IF Carried(e, "violation") THEN "violation"
                     ELSE IF Carried(e, "exit") THEN "exit"
                     ELSE "lost"
BY DEF Fate, Carried

LEMMA FatesChange ==
    ASSUME NEW x \in Events, NEW f, Fate(x)' = f,
           \A e \in Events \ {x} : Fate(e)' = Fate(e)
    PROVE  fates' = [fates EXCEPT ![x] = f]
BY DEF fates

\* A message on its way has its event to itself; only the one being announced
\* may have been stored, and none has been announced.
LEMMA UnderwayFacts ==
    ASSUME Typed, InOrder
    PROVE  /\ \A m \in Underway : /\ m \in Message /\ EventOf(m) \in Events
                                  /\ m.n <= emitted[m.cam]
                                  /\ EventOf(m) \notin announced
           /\ ~HandFree =>
                /\ drainer.msg \in Underway
                /\ \A m \in Underway : m # drainer.msg /\ m.cam = drainer.msg.cam =>
                      drainer.msg.n < m.n
           /\ HandFree => Underway = Queued
           /\ ~HandFree => Underway = Queued \cup {drainer.msg} /\ drainer.msg \notin Queued
           /\ \A m \in Queued : EventOf(m) \notin committed
<1> USE DEF Typed, InOrder, Raised, HistoryOrder, HandOrder, AheadOfQueue, HandFree
<1>1. \A m \in Queued : /\ m \in Message /\ EventOf(m) \in Events /\ m.n \in Nat
                        /\ m.n <= emitted[m.cam]
                        /\ EventOf(m)[1] = m.cam /\ EventOf(m)[2] = m.n
  BY MessageFields
<1>2. ~HandFree => /\ drainer.msg \in Message /\ EventOf(drainer.msg) \in Events
                   /\ drainer.msg.n \in Nat
                   /\ EventOf(drainer.msg)[1] = drainer.msg.cam
                   /\ EventOf(drainer.msg)[2] = drainer.msg.n
  BY MessageFields
<1>3. drainer.pc \in {"polling", "empty", "fetched", "store", "flushed", "announce", "sending"}
  BY DEF DrainerType
<1>4. /\ HandFree => Underway = Queued
      /\ ~HandFree => Underway = Queued \cup {drainer.msg}
  BY DEF Underway, InHand
<1>5. \A m \in Queued : EventOf(m) \notin committed \cup announced
  BY <1>1
<1>6. ~HandFree => EventOf(drainer.msg) \notin announced
  BY <1>2, <1>3
<1>7. ~HandFree => /\ drainer.msg.n <= emitted[drainer.msg.cam]
                   /\ \A m \in Queued : m.cam = drainer.msg.cam => drainer.msg.n < m.n
  BY <1>2
<1> HIDE DEF Typed, InOrder, Raised, HistoryOrder, HandOrder, AheadOfQueue, HandFree
<1>8. ASSUME ~HandFree PROVE drainer.msg \notin Queued
  <2>1. drainer.msg \in Queued => drainer.msg.n < drainer.msg.n
    BY <1>7, <1>8
  <2> QED
    BY <1>2, <1>8, <2>1
<1>9. \A m \in Underway : /\ m \in Message /\ EventOf(m) \in Events
                          /\ m.n <= emitted[m.cam] /\ EventOf(m) \notin announced
  BY <1>1, <1>2, <1>4, <1>5, <1>6, <1>7
<1>10. ~HandFree => \A m \in Underway : m # drainer.msg /\ m.cam = drainer.msg.cam =>
                        drainer.msg.n < m.n
  BY <1>4, <1>7
<1> QED
  BY <1>4, <1>5, <1>8, <1>9, <1>10

LEMMA OneInSequence ==
    ASSUME NEW q \in Seq(Message), Sorted(q), NEW m \in Contents(q), NEW n \in Contents(q),
           m.cam = n.cam, m.n = n.n
    PROVE  m = n
<1>1. PICK i \in DOMAIN q, j \in DOMAIN q : m = q[i] /\ n = q[j]
  BY DEF Contents
<1>2. i \in Nat /\ j \in Nat /\ m.n \in Nat
  BY LenProperties, ContentsType, MessageFields
<1>3. ~(i < j) /\ ~(j < i)
  BY <1>1, <1>2 DEF Sorted
<1> QED
  BY <1>1, <1>2, <1>3

LEMMA OneEach ==
    ASSUME Typed, InOrder, NEW m \in Underway, NEW n \in Underway, EventOf(m) = EventOf(n)
    PROVE  m = n
<1>1. m \in Message /\ n \in Message
  BY UnderwayFacts
<1>2. m.cam = n.cam /\ m.n = n.n /\ m.n \in Nat
  BY <1>1, MessageFields
<1>3. CASE ~HandFree /\ drainer.msg \in {m, n}
  BY <1>2, <1>3, UnderwayFacts
<1>4. CASE m \in Queued /\ n \in Queued
  <2> USE DEF InOrder, QueueOrder, Before, Typed
  <2>1. CASE m \in Contents(pipe) \/ n \in Contents(pipe)
    <3>1. m \notin writing /\ n \notin writing
      BY <1>2, <2>1
    <3>2. \A c \in Cameras : m \notin Contents(buffer[c]) /\ n \notin Contents(buffer[c])
      BY <1>2, <2>1
    <3> QED
      BY <1>2, <1>4, <3>1, <3>2, OneInSequence, QueuedIs
  <2>2. CASE m \in writing \/ n \in writing
    <3>1. \A c \in Cameras : m \notin Contents(buffer[c]) /\ n \notin Contents(buffer[c])
      BY <1>2, <2>2
    <3>2. m \notin Contents(pipe) /\ n \notin Contents(pipe)
      BY <1>2, <2>2
    <3> QED
      BY <1>4, <3>1, <3>2, QueuedIs
  <2>3. ASSUME NEW c \in Cameras, NEW d \in Cameras,
               m \in Contents(buffer[c]), n \in Contents(buffer[d])
        PROVE  m = n
    <3>1. c = d
      BY <1>2, <2>3
    <3>2. buffer[c] \in Seq(Message) /\ Sorted(buffer[c])
      OBVIOUS
    <3> QED
      BY <1>2, <2>3, <3>1, <3>2, OneInSequence
  <2> QED
    BY <1>4, <2>1, <2>2, <2>3, QueuedIs
<1> QED
  BY <1>3, <1>4, UnderwayFacts

\* A step that keeps the messages, and what is recorded, keeps the fates.
LEMMA FatesKept ==
    ASSUME Underway' = Underway, UNCHANGED <<emitted, historyVars>>
    PROVE  UNCHANGED fates
BY DEF fates, Fate, historyVars

\* The event raised is new: nothing is recorded of it, and nothing carries it.
LEMMA EmitRaises ==
    ASSUME Typed, InOrder, NEW c \in Cameras, Emit(c)
    PROVE  Delivery!Next
<1> USE PipelineAssumption
<1>1. PICK m \in Message :
                /\ m.cam = c /\ m.n = emitted[c] + 1
                /\ emitted'[c] = m.n /\ \A d \in Cameras \ {c} : emitted'[d] = emitted[d]
                /\ Queued' = Queued \/ Queued' = Queued \cup {m}
                /\ UNCHANGED <<drainer, committed, announced>>
  BY EmitKeepsOrder DEF InOrder, historyVars
<1>2. PICK x \in Events : x = EventOf(m) /\ x[1] = c /\ x[2] = m.n /\ x[2] \in Nat
  BY <1>1, MessageFields
<1>3. emitted[c] \in Nat /\ emitted'[c] = x[2] /\ x[2] = emitted[c] + 1
  BY <1>1, <1>2 DEF Typed
<1>4. x \notin committed \cup announced
  BY <1>2, <1>3 DEF InOrder, HistoryOrder, AheadOfQueue
<1>5. Fate(x) = "none"
  BY <1>2, <1>3 DEF Fate
<1>6. \A d \in Events : d[1] = x[1] /\ d[2] < x[2] => Fate(d) # "none"
  <2> SUFFICES ASSUME NEW d \in Events, d[1] = x[1], d[2] < x[2] PROVE Fate(d) # "none"
    OBVIOUS
  <2>1. ~(d[2] > emitted[d[1]])
    BY <1>2, <1>3, EventFields
  <2> QED
    BY <2>1, FateIs
<1>7. Underway' = Underway \/ Underway' = Underway \cup {m}
  BY <1>1 DEF Underway, InHand
<1>8. Fate(x)' \in {"violation", "exit", "lost"}
  BY <1>1, <1>2, <1>3, <1>4 DEF Fate
<1>9. ASSUME NEW e \in Events \ {x} PROVE Fate(e)' = Fate(e)
  <2>1. e[2] > emitted'[e[1]] <=> e[2] > emitted[e[1]]
    <3>1. CASE e[1] = c
      <4>1. e[2] # x[2] /\ e[2] \in Nat
        BY <1>1, <1>2, <1>9, <3>1, MessageFields, EventFields
      <4> QED
        BY <1>1, <1>3, <3>1, <4>1
    <3> QED
      BY <1>1, <3>1, EventFields
  <2>2. \A kind : (\E n \in Underway' : EventOf(n) = e /\ n.kind = kind)
                    <=> (\E n \in Underway : EventOf(n) = e /\ n.kind = kind)
    BY <1>2, <1>7
  <2> QED
    BY <1>1, <2>1, <2>2 DEF Fate
<1>10. fates' = [fates EXCEPT ![x] = Fate(x)']
  BY <1>9, FatesChange
<1>11. Delivery!Raise(x)
  BY <1>5, <1>6, <1>8, <1>10
  DEF Delivery!Raise, Delivery!Pending, Delivery!Earlier, Delivery!Events, Events, fates
<1> QED
  BY <1>11 DEF Delivery!Next, Delivery!Events, Events

\* Reading a message hands it to the drainer.
LEMMA GetKeepsFates ==
    ASSUME Typed, InOrder, Get
    PROVE  UNCHANGED fates
<1>1. PICK h \in Message : h = Head(pipe) /\ Queued = Queued' \cup {h}
  BY GetKeepsOrder DEF InOrder
<1>2. drainer.pc = "polling" /\ drainer'.pc = "fetched" /\ drainer'.msg = h
  BY <1>1, DrainerSteps DEF Typed, TypeOK
<1>3. Underway' = Underway
  BY <1>1, <1>2 DEF Underway, InHand
<1> QED
  BY <1>3, FatesKept DEF Get

\* To take messages out of the way is to lose their events.
LEMMA Losing ==
    ASSUME Typed, InOrder, Underway' \subseteq Underway,
           UNCHANGED <<emitted, committed, announced>>
    PROVE  Delivery!Next
<1> DEFINE S == {e \in Events : Fate(e) \in {"violation", "exit"} /\ Fate(e)' = "lost"}
<1>1. ASSUME NEW e \in Events \ S PROVE Fate(e)' = Fate(e)
  <2>1. \A kind : Carried(e, kind)' => Carried(e, kind)
    BY DEF Carried
  <2>2. \A kind : Carried(e, kind) => Carried(e, kind)' \/ \A other : ~Carried(e, other)'
    BY OneEach DEF Carried
  <2> QED
    BY <1>1, <2>1, <2>2, FateIs DEF Fate, Carried
<1>2. \A e \in S : Fate(e)' = "lost"
  OBVIOUS
<1>3. S \in SUBSET {e \in Events : fates[e] \in {"violation", "exit"}}
  BY DEF fates
<1> HIDE DEF S
<1>4. fates' = [e \in Events |-> IF e \in S THEN "lost" ELSE fates[e]]
  BY <1>1, <1>2 DEF fates
<1>5. Delivery!Lose
  BY <1>3, <1>4 DEF Delivery!Lose, Delivery!Pending, Delivery!Events, Events, fates
<1> QED
  BY <1>5 DEF Delivery!Next

\* Before the message at hand, nothing of its camera waits.
LEMMA NothingWaitsBefore ==
    ASSUME Typed, InOrder, ~HandFree,
           NEW d \in Events, d[1] = drainer.msg.cam, d[2] < drainer.msg.n
    PROVE  fates[d] \notin {"violation", "exit"}
<1>1. \A m \in Underway : EventOf(m) # d
  <2>1. SUFFICES ASSUME NEW m \in Underway, EventOf(m) = d PROVE FALSE
    OBVIOUS
  <2>2. m \in Message /\ drainer.msg \in Message
    BY UnderwayFacts DEF Typed
  <2>3. m.cam = d[1] /\ m.n = d[2] /\ m.n \in Nat /\ drainer.msg.n \in Nat
    BY <2>1, <2>2, MessageFields
  <2> QED
    BY <2>1, <2>3, UnderwayFacts
<1>2. ~Carried(d, "violation") /\ ~Carried(d, "exit")
  BY <1>1 DEF Carried
<1> QED
  BY <1>2, FateIs DEF fates

\* What the drainer is about to store or to announce.
LEMMA AtHand ==
    ASSUME Typed, InOrder, ~HandFree
    PROVE  \E x \in Events :
             /\ x = EventOf(drainer.msg) /\ x[1] = drainer.msg.cam /\ x[2] = drainer.msg.n
             /\ x[2] \in Nat /\ ~(x[2] > emitted[x[1]]) /\ x \notin announced
             /\ drainer.msg.kind \in {"violation", "exit"}
             /\ \A kind : Carried(x, kind) <=> kind = drainer.msg.kind
             /\ drainer.pc \in {"store", "flushed"} => x \notin committed
<1>1. drainer.msg \in Message /\ drainer.msg \in Underway
  BY UnderwayFacts DEF Typed
<1>2. PICK x \in Events :
        /\ x = EventOf(drainer.msg) /\ x[1] = drainer.msg.cam /\ x[2] = drainer.msg.n
        /\ x[2] \in Nat
  BY <1>1, MessageFields
<1>3. ~(x[2] > emitted[x[1]]) /\ x \notin announced
  BY <1>1, <1>2, UnderwayFacts, MessageFields DEF Typed
<1>4. \A kind : Carried(x, kind) <=> kind = drainer.msg.kind
  BY <1>1, <1>2, OneEach DEF Carried
<1>5. drainer.pc \in {"store", "flushed"} => x \notin committed
  BY <1>2 DEF InOrder, HandOrder
<1> QED
  BY <1>1, <1>2, <1>3, <1>4, <1>5, MessageFields

LEMMA CommitIngestStores ==
    ASSUME Typed, InOrder, CommitIngest
    PROVE  Delivery!Next
<1>1. /\ drainer.pc = "flushed" /\ drainer'.pc = "announce" /\ drainer'.msg = drainer.msg
      /\ ~HandFree
  BY DrainerSteps DEF Typed, HandFree
<1>2. PICK x \in Events :
             /\ x = EventOf(drainer.msg) /\ x[1] = drainer.msg.cam /\ x[2] = drainer.msg.n
             /\ ~(x[2] > emitted[x[1]]) /\ x \notin announced /\ x \notin committed
             /\ Carried(x, "violation")
  BY <1>1, AtHand DEF InOrder, HandOrder
<1>3. /\ committed' = committed \cup {x}
      /\ UNCHANGED <<emitted, announced, buffer, writing, pipe>>
  BY <1>2 DEF CommitIngest, queueVars
<1>4. Underway' = Underway
  BY <1>1, <1>3 DEF Underway, InHand, Queued
<1>5. Fate(x) = "violation" /\ Fate(x)' = "stored"
  BY <1>2, <1>3, FateIs DEF Fate
<1>6. ASSUME NEW e \in Events \ {x} PROVE Fate(e)' = Fate(e)
  BY <1>3, <1>4 DEF Fate
<1>7. fates' = [fates EXCEPT ![x] = "stored"]
  BY <1>5, <1>6, FatesChange
<1>8. \A d \in Events : d[1] = x[1] /\ d[2] < x[2] => fates[d] \notin {"violation", "exit"}
  BY <1>1, <1>2, NothingWaitsBefore
<1>9. Delivery!Store(x)
  BY <1>5, <1>7, <1>8
  DEF Delivery!Store, Delivery!Pending, Delivery!Earlier, Delivery!Events, Events, fates
<1> QED
  BY <1>9 DEF Delivery!Next, Delivery!Events, Events

LEMMA EndBroadcastAnnounces ==
    ASSUME Typed, InOrder, EndBroadcast
    PROVE  Delivery!Next
<1>1. drainer.pc = "sending" /\ drainer'.pc = "polling" /\ ~HandFree
  BY DrainerSteps DEF Typed, HandFree
<1>2. PICK x \in Events :
             /\ x = EventOf(drainer.msg) /\ x[1] = drainer.msg.cam /\ x[2] = drainer.msg.n
             /\ x[2] \in Nat /\ ~(x[2] > emitted[x[1]]) /\ x \notin announced
             /\ drainer.msg.kind \in {"violation", "exit"}
             /\ \A kind : Carried(x, kind) <=> kind = drainer.msg.kind
  BY <1>1, AtHand
<1>3. x \in committed <=> drainer.msg.kind = "violation"
  BY <1>1, <1>2 DEF InOrder, HandOrder
<1>4. Fate(x) \in {"stored", "exit"}
  BY <1>2, <1>3, FateIs
<1>5. /\ announced' = announced \cup {x}
      /\ UNCHANGED <<emitted, committed, buffer, writing, pipe>>
  BY <1>2 DEF EndBroadcast, queueVars
<1>6. Underway = Underway' \cup {drainer.msg}
  BY <1>1, <1>5 DEF Underway, InHand, Queued, HandFree
<1>7. Fate(x)' = "announced"
  BY <1>2, <1>5 DEF Fate
<1>8. ASSUME NEW e \in Events \ {x} PROVE Fate(e)' = Fate(e)
  <2>1. \A kind : (\E m \in Underway' : EventOf(m) = e /\ m.kind = kind)
                    <=> (\E m \in Underway : EventOf(m) = e /\ m.kind = kind)
    BY <1>2, <1>6, <1>8
  <2> QED
    BY <1>5, <1>8, <2>1 DEF Fate
<1>9. fates' = [fates EXCEPT ![x] = "announced"]
  BY <1>7, <1>8, FatesChange
<1>10. \A d \in Events : d[1] = x[1] /\ d[2] < x[2] => fates[d] \notin {"violation", "exit"}
  BY <1>1, <1>2, NothingWaitsBefore
<1>11. \A d \in Events : d[1] = x[1] /\ d[2] > x[2] => fates[d] \notin {"stored", "announced"}
  <2> SUFFICES ASSUME NEW d \in Events, d[1] = x[1], d[2] > x[2]
               PROVE  Fate(d) \notin {"stored", "announced"}
    BY DEF fates
  <2>1. d \notin committed \cup announced
    BY <1>1, <1>2, EventFields DEF InOrder, HandOrder
  <2> QED
    BY <2>1, FateIs
<1>12. Delivery!Announce(x)
  BY <1>4, <1>9, <1>10, <1>11
  DEF Delivery!Announce, Delivery!Pending, Delivery!Earlier, Delivery!Later, Delivery!Told,
      Delivery!Events, Events, fates
<1> QED
  BY <1>12 DEF Delivery!Next, Delivery!Events, Events

LEMMA RestartLoses ==
    ASSUME Typed, InOrder, Restart
    PROVE  Delivery!Next
<1>1. /\ UNCHANGED <<emitted, announced>>
      /\ \/ committed' = committed
         \/ drainer.pc = "flushed" /\ committed' = committed \cup {EventOf(drainer.msg)}
  BY DEF Restart
<1>2. Underway' = {}
  <2>1. drainer'.pc = "polling" /\ Queued' = {}
    BY DrainerSteps, RestartKeepsOrder DEF Typed
  <2> QED
    BY <2>1 DEF Underway, InHand
<1>3. CASE committed' = committed
  BY <1>1, <1>2, <1>3, Losing
<1>4. CASE drainer.pc = "flushed" /\ committed' = committed \cup {EventOf(drainer.msg)}
  <2>0. ~HandFree
    BY <1>4 DEF HandFree
  <2>1. PICK x \in Events :
             /\ x = EventOf(drainer.msg) /\ x[1] = drainer.msg.cam /\ x[2] = drainer.msg.n
             /\ ~(x[2] > emitted[x[1]]) /\ x \notin announced /\ x \notin committed
             /\ Carried(x, "violation")
    BY <1>4, <2>0, AtHand DEF InOrder, HandOrder
  <2>2. Fate(x) = "violation" /\ Fate(x)' = "stored"
    BY <1>1, <1>4, <2>1, FateIs DEF Fate
  <2>3. ASSUME NEW e \in Events \ {x}
        PROVE  Fate(e)' = IF Fate(e) \in {"violation", "exit"} THEN "lost" ELSE Fate(e)
    BY <1>1, <1>2, <1>4, <2>1, FateIs DEF Fate, Carried
  <2>4. fates' = [d \in Events |-> IF d = x THEN "stored"
                                   ELSE IF fates[d] \in {"violation", "exit"} THEN "lost"
                                   ELSE fates[d]]
    BY <2>2, <2>3 DEF fates
  <2>5. \A d \in Events : d[1] = x[1] /\ d[2] < x[2] => fates[d] \notin {"violation", "exit"}
    BY <2>0, <2>1, NothingWaitsBefore
  <2>6. Delivery!StoreAndLose(x)
    BY <2>2, <2>4, <2>5
    DEF Delivery!StoreAndLose, Delivery!Pending, Delivery!Earlier, Delivery!Events, Events, fates
  <2> QED
    BY <2>6 DEF Delivery!Next, Delivery!Events, Events
<1> QED
  BY <1>1, <1>3, <1>4

\* The pipeline implements AlertDelivery: each event is stored at most once and
\* announced at most once, a camera's in the order of raising, and announced only
\* after it is stored (EventDrainer._handle), whatever fails, is terminated or
\* restarts on the way.
THEOREM DeliveryCorrect == Spec => DeliverySpec
<1> USE PipelineAssumption
<1>1. Init => fates = [e \in Delivery!Events |-> "none"]
  <2> SUFFICES ASSUME Init PROVE \A e \in Events : Fate(e) = "none"
    BY DEF fates, Delivery!Events, Events
  <2> QED
    BY EventFields DEF Init, Fate
<1>2. ASSUME Typed, InOrder, [Next]_vars PROVE Delivery!Next \/ UNCHANGED fates
  <2>0. drainer \in DrainerType /\ Busy /\ pipe \in Seq(Message) /\ QueueOrder
    BY <1>2 DEF Typed, InOrder
  <2>1. CASE Elsewhere
    <3>1. Underway' = Underway
      BY <2>1 DEF Elsewhere, Underway, InHand, Queued
    <3> QED
      BY <2>1, <3>1, FatesKept DEF Elsewhere
  <2>2. ASSUME NEW c \in Cameras, Emit(c) PROVE Delivery!Next
    BY <1>2, <2>2, EmitRaises
  <2>3. ASSUME NEW c \in Cameras, BeginWrite(c) PROVE UNCHANGED fates
    <3>1. Underway' = Underway
      BY <1>2, <2>0, <2>3, BeginWriteKeepsOrder DEF BeginWrite, Underway, InHand
    <3> QED
      BY <2>3, <3>1, FatesKept DEF BeginWrite
  <2>4. CASE EndWrite
    <3>1. Underway' = Underway
      BY <1>2, <2>0, <2>4, EndWriteKeepsOrder DEF EndWrite, Underway, InHand
    <3> QED
      BY <2>4, <3>1, FatesKept DEF EndWrite
  <2>5. ASSUME NEW c \in Cameras, Terminate(c) PROVE Delivery!Next
    <3>1. Underway' \subseteq Underway
      BY <1>2, <2>0, <2>5, TerminateKeepsOrder DEF Terminate, Underway, InHand
    <3> QED
      BY <1>2, <2>5, <3>1, Losing DEF Terminate, historyVars
  <2>6. CASE Get
    BY <1>2, <2>6, GetKeepsFates
  <2>7. CASE GetTimesOut \/ PollAgain
    <3>1. drainer.pc \in {"polling", "empty"} /\ drainer'.pc \in {"polling", "empty"}
      BY <2>0, <2>7, DrainerSteps
    <3>2. UNCHANGED <<emitted, buffer, writing, pipe, historyVars>>
      BY <2>7 DEF GetTimesOut, PollAgain, queueVars
    <3> QED
      BY <3>1, <3>2, FatesKept DEF Underway, InHand, Queued
  <2>8. CASE Handle \/ Ingest \/ BeginBroadcast \/ \E k \in Clients : Send(k)
    <3>1. /\ drainer.pc \notin {"polling", "empty"} /\ drainer'.pc \notin {"polling", "empty"}
          /\ drainer'.msg = drainer.msg
      BY <2>0, <2>8, DrainerSteps
    <3>2. UNCHANGED <<emitted, buffer, writing, pipe, historyVars>>
      BY <2>8 DEF Handle, Ingest, BeginBroadcast, Send, queueVars
    <3> QED
      BY <3>1, <3>2, FatesKept DEF Underway, InHand, Queued
  <2>9. CASE StoreFails
    <3>1. drainer'.pc = "polling" /\ Queued' = Queued
      BY <2>0, <2>9, DrainerSteps DEF StoreFails, queueVars, Queued
    <3>2. Underway' \subseteq Underway
      BY <3>1 DEF Underway, InHand
    <3> QED
      BY <1>2, <2>9, <3>2, Losing DEF StoreFails, historyVars
  <2> QED
    BY <1>2, <2>1, <2>2, <2>3, <2>4, <2>5, <2>6, <2>7, <2>8, <2>9, CommitIngestStores,
       EndBroadcastAnnounces, RestartLoses, ElsewhereSteps
    DEF Next, Feed, Drain
<1> QED
  BY <1>1, <1>2, OrderInvariant, PTL DEF Spec, DeliverySpec, Delivery!Spec, Delivery!Init, fates

-----------------------------------------------------------------------------
\* What the clients hear.

InOrderFor(seq) ==
    \A i, j \in DOMAIN seq : i < j /\ seq[i][1] = seq[j][1] => seq[i][2] < seq[j][2]

LEMMA HearsLast ==
    ASSUME NEW s \in Seq(Events), NEW e \in Events
    PROVE  /\ Contents(Append(s, e)) = Contents(s) \cup {e}
           /\ InOrderFor(s) /\ (\A d \in Contents(s) : d[1] = e[1] => d[2] < e[2])
                => InOrderFor(Append(s, e))
<1>1. /\ \A i \in 1..Len(s) : Append(s, e)[i] = s[i]
      /\ Append(s, e)[Len(s) + 1] = e
      /\ DOMAIN s = 1..Len(s) /\ DOMAIN Append(s, e) = 1..Len(s) + 1 /\ Len(s) \in Nat
  BY AppendProperties, LenProperties
<1>2. /\ \A i \in DOMAIN s : i \in DOMAIN Append(s, e) /\ Append(s, e)[i] = s[i]
      /\ \A i \in DOMAIN Append(s, e) : i \in DOMAIN s \/ i = Len(s) + 1
      /\ Len(s) + 1 \in DOMAIN Append(s, e)
  BY <1>1
<1>3. \A x : x \in Contents(Append(s, e)) <=> x \in Contents(s) \/ x = e
  BY <1>1, <1>2 DEF Contents
<1>4. ASSUME InOrderFor(s), \A d \in Contents(s) : d[1] = e[1] => d[2] < e[2]
      PROVE  InOrderFor(Append(s, e))
  <2>1. SUFFICES ASSUME NEW i \in DOMAIN Append(s, e), NEW j \in DOMAIN Append(s, e), i < j,
                        Append(s, e)[i][1] = Append(s, e)[j][1]
                 PROVE  Append(s, e)[i][2] < Append(s, e)[j][2]
    BY DEF InOrderFor
  <2>2. i \in DOMAIN s
    BY <1>1, <2>1
  <2>3. CASE j \in DOMAIN s
    BY <1>2, <1>4, <2>1, <2>2, <2>3 DEF InOrderFor
  <2>4. CASE j = Len(s) + 1
    BY <1>1, <1>2, <1>4, <2>1, <2>2, <2>4 DEF Contents
  <2> QED
    BY <1>2, <2>3, <2>4
<1> QED
  BY <1>3, <1>4

\* A send reaches the inbox of one client, or none.
LEMMA SendStep ==
    ASSUME Typed, NEW k \in Clients, Send(k)
    PROVE  \E x \in Events :
             /\ x = EventOf(drainer.msg) /\ x[1] = drainer.msg.cam /\ x[2] = drainer.msg.n
             /\ k \in drainer.targets /\ drainer.pc = "sending"
             /\ drainer'.pc = "sending" /\ drainer'.msg = drainer.msg
             /\ drainer'.targets = drainer.targets \ {k}
             /\ \A j \in Clients \ {k} : inbox'[j] = inbox[j]
             /\ \/ inbox'[k] = inbox[k] /\ drainer'.dead = drainer.dead \cup {k}
                \/ inbox'[k] = Append(inbox[k], x) /\ drainer'.dead = drainer.dead
             /\ UNCHANGED <<emitted, buffer, writing, pipe, connection, joined, historyVars>>
<1>1. /\ drainer.pc = "sending" /\ drainer.msg \in Message
      /\ drainer'.pc = "sending" /\ drainer'.msg = drainer.msg
      /\ drainer'.targets = drainer.targets \ {k}
  BY DrainerSteps DEF Typed
<1>2. PICK x \in Events : x = EventOf(drainer.msg) /\ x[1] = drainer.msg.cam /\ x[2] = drainer.msg.n
  BY <1>1, MessageFields
<1>3. /\ k \in drainer.targets
      /\ UNCHANGED <<emitted, buffer, writing, pipe, connection, joined, historyVars>>
  BY DEF Send, queueVars
<1>4. inbox \in [Clients -> Seq(Events)] /\ drainer \in DrainerType
  BY DEF Typed, TypeOK
<1>5. CASE /\ inbox' = [inbox EXCEPT ![k] = Append(@, EventOf(drainer.msg))]
           /\ drainer' = [drainer EXCEPT !.targets = @ \ {k}]
  <2>1. inbox'[k] = Append(inbox[k], x) /\ \A j \in Clients \ {k} : inbox'[j] = inbox[j]
    BY <1>2, <1>4, <1>5
  <2>2. drainer'.dead = drainer.dead
    BY <1>4, <1>5 DEF DrainerType
  <2> QED
    BY <1>1, <1>2, <1>3, <2>1, <2>2
<1>6. CASE /\ inbox' = inbox
           /\ drainer' = [drainer EXCEPT !.targets = @ \ {k}, !.dead = @ \cup {k}]
  <2>1. drainer'.dead = drainer.dead \cup {k}
    BY <1>4, <1>6 DEF DrainerType
  <2> QED
    BY <1>1, <1>2, <1>3, <1>6, <2>1
<1> QED
  BY <1>5, <1>6 DEF Send

\* What was raised before all the messages in the queue stays so.
LEMMA AheadStays ==
    ASSUME Typed, Typed', InOrder, [Next]_vars, NEW e \in Events, AheadOfQueue(e)
    PROVE  AheadOfQueue(e)'
<1>1. CASE emitted' = emitted /\ Queued' \subseteq Queued
  BY <1>1 DEF AheadOfQueue
<1>2. ASSUME NEW c \in Cameras, Emit(c) PROVE AheadOfQueue(e)'
  <2>1. PICK m \in Message :
                /\ m.cam = c /\ m.n = emitted[c] + 1
                /\ emitted'[c] = m.n /\ \A d \in Cameras \ {c} : emitted'[d] = emitted[d]
                /\ Queued' = Queued \/ Queued' = Queued \cup {m}
    BY <1>2, EmitKeepsOrder DEF InOrder
  <2>2. e[1] \in Cameras /\ e[2] \in Nat /\ \A d \in Cameras : emitted[d] \in Nat
    BY EventFields DEF Typed
  <2>3. e[2] <= emitted'[e[1]] /\ (m.cam = e[1] => e[2] < m.n)
    BY <2>1, <2>2 DEF AheadOfQueue
  <2> QED
    BY <2>1, <2>3 DEF AheadOfQueue
<1>3. ASSUME NEW c \in Cameras, BeginWrite(c) \/ Terminate(c)
      PROVE  emitted' = emitted /\ Queued' \subseteq Queued
  BY <1>3, BeginWriteKeepsOrder, TerminateKeepsOrder DEF InOrder, BeginWrite, Terminate
<1>4. ASSUME EndWrite \/ Get \/ Restart PROVE emitted' = emitted /\ Queued' \subseteq Queued
  BY <1>4, EndWriteKeepsOrder, GetKeepsOrder, RestartKeepsOrder
  DEF InOrder, EndWrite, Get, Restart
<1>5. ASSUME UNCHANGED <<emitted, buffer, writing, pipe>>
      PROVE  emitted' = emitted /\ Queued' \subseteq Queued
  BY <1>5 DEF Queued
<1>6. CASE Elsewhere
  BY <1>1, <1>5, <1>6 DEF Elsewhere
<1>7. CASE \/ GetTimesOut \/ PollAgain \/ Handle \/ Ingest \/ StoreFails \/ CommitIngest
           \/ BeginBroadcast \/ (\E k \in Clients : Send(k)) \/ EndBroadcast
  BY <1>1, <1>5, <1>7
  DEF GetTimesOut, PollAgain, Handle, Ingest, StoreFails, CommitIngest, BeginBroadcast, Send,
      EndBroadcast, queueVars
<1> QED
  BY <1>1, <1>2, <1>3, <1>4, <1>6, <1>7, ElsewhereSteps DEF Next, Feed, Drain

\* Invariant: what a client has heard was raised before all that waits, and
\* before the message at hand unless that is what it has just heard.
After(e, k) ==
    ~HandFree /\ e[1] = drainer.msg.cam =>
        \/ e[2] < drainer.msg.n
        \/ drainer.pc = "sending" /\ k \notin drainer.targets /\ e[2] = drainer.msg.n

HeardOrder ==
    \A k \in Clients : /\ InOrderFor(inbox[k])
                       /\ \A e \in Contents(inbox[k]) : AheadOfQueue(e) /\ After(e, k)

\* How a step changes what is at hand.
LEMMA HandSteps ==
    ASSUME Typed, InOrder, [Next]_vars
    PROVE  \/ drainer' = drainer
           \/ HandFree'
           \/ Get
           \/ /\ ~HandFree /\ drainer'.msg = drainer.msg
              /\ drainer.pc = "sending" => \E k \in Clients : Send(k)
<1> USE DEF HandFree
<1>0. drainer \in DrainerType /\ Busy /\ pipe \in Seq(Message)
  BY DEF Typed
<1>1. CASE GetTimesOut \/ PollAgain \/ StoreFails \/ EndBroadcast \/ Restart
  BY <1>0, <1>1, DrainerSteps
<1>2. CASE Handle \/ Ingest \/ CommitIngest \/ BeginBroadcast
  <2>1. /\ drainer.pc \in {"fetched", "store", "flushed", "announce"}
        /\ drainer'.msg = drainer.msg
    BY <1>0, <1>2, DrainerSteps
  <2> QED
    BY <2>1
<1>3. ASSUME NEW k \in Clients, Send(k) PROVE ~HandFree /\ drainer'.msg = drainer.msg
  BY <1>0, <1>3, DrainerSteps
<1>4. CASE Elsewhere
  BY <1>4 DEF Elsewhere
<1>5. CASE Feed \/ \E c \in Cameras : Emit(c) \/ Terminate(c)
  BY <1>5 DEF Feed, BeginWrite, EndWrite, Emit, Terminate
<1> QED
  BY <1>1, <1>2, <1>3, <1>4, <1>5, ElsewhereSteps DEF Next, Drain

LEMMA InboxKept ==
    ASSUME [Next]_vars, \A k \in Clients : ~Send(k)
    PROVE  inbox' = inbox
<1>1. CASE Drain
  BY <1>1 DEF Drain, Get, GetTimesOut, PollAgain, Handle, Ingest, StoreFails, CommitIngest,
     BeginBroadcast, EndBroadcast, clientVars
<1>2. CASE Restart
  BY <1>2 DEF Restart
<1>3. CASE Feed \/ \E c \in Cameras : Emit(c) \/ Terminate(c)
  BY <1>3 DEF Feed, BeginWrite, EndWrite, Emit, Terminate, clientVars
<1>4. CASE \E z \in Zones : CreateZone(z) \/ DeleteZone(z)
  BY <1>4 DEF CreateZone, DeleteZone, clientVars
<1>5. CASE \E c \in Cameras : Activate(c) \/ Deactivate(c) \/ BeginDelete(c) \/ DeleteCamera(c) \/ Leave(c)
  BY <1>5 DEF Activate, Deactivate, BeginDelete, DeleteCamera, Leave, clientVars
<1>6. CASE \E k \in Clients : Connect(k) \/ Disconnect(k)
  BY <1>6 DEF Connect, Disconnect
<1>7. CASE UNCHANGED vars
  BY <1>7 DEF vars, clientVars
<1> QED
  BY <1>1, <1>2, <1>3, <1>4, <1>5, <1>6, <1>7 DEF Next

LEMMA HeardInvariant == Spec => []HeardOrder
<1>1. Init => HeardOrder
  BY DEF Init, HeardOrder, InOrderFor, Contents
<1>2. ASSUME Typed, Typed', InOrder, InOrder', HeardOrder, [Next]_vars PROVE HeardOrder'
  <2>1. \A k \in Clients : inbox[k] \in Seq(Events) /\ Contents(inbox[k]) \subseteq Events
    <3>1. \A k \in Clients : inbox[k] \in Seq(Events)
      BY <1>2 DEF Typed, TypeOK
    <3> QED
      BY <3>1, ElementOfSeq, LenProperties DEF Contents
  <2>2. ASSUME NEW k \in Clients, NEW e \in Contents(inbox[k]) PROVE AheadOfQueue(e)'
    BY <1>2, <2>1, AheadStays DEF HeardOrder
  <2>3. ASSUME NEW k \in Clients, Send(k) PROVE HeardOrder'
    <3>1. PICK x \in Events :
             /\ x = EventOf(drainer.msg) /\ x[1] = drainer.msg.cam /\ x[2] = drainer.msg.n
             /\ k \in drainer.targets /\ drainer.pc = "sending"
             /\ drainer'.pc = "sending" /\ drainer'.msg = drainer.msg
             /\ drainer'.targets = drainer.targets \ {k}
             /\ \A j \in Clients \ {k} : inbox'[j] = inbox[j]
             /\ inbox'[k] = inbox[k] \/ inbox'[k] = Append(inbox[k], x)
      BY <1>2, <2>3, SendStep
    <3>2. AheadOfQueue(x)'
      <4>1. AheadOfQueue(x)
        BY <1>2, <3>1 DEF InOrder, HandOrder, HandFree
      <4> QED
        BY <1>2, <4>1, AheadStays
    <3>3. \A j \in Clients : \A e \in Contents(inbox[j]) : After(e, j)'
      BY <1>2, <3>1 DEF HeardOrder, After, HandFree
    <3>4. After(x, k)'
      BY <3>1 DEF After, HandFree
    <3>5. \A d \in Contents(inbox[k]) : d[1] = x[1] => d[2] < x[2]
      BY <1>2, <3>1 DEF HeardOrder, After, HandFree
    <3>6. /\ InOrderFor(inbox'[k])
          /\ \A e \in Contents(inbox'[k]) : e \in Contents(inbox[k]) \/ e = x
      <4>1. inbox[k] \in Seq(Events) /\ InOrderFor(inbox[k])
        BY <1>2, <2>1 DEF HeardOrder
      <4>2. /\ Contents(Append(inbox[k], x)) = Contents(inbox[k]) \cup {x}
            /\ InOrderFor(Append(inbox[k], x))
        BY <3>5, <4>1, HearsLast
      <4> QED
        BY <3>1, <4>1, <4>2
    <3>7. /\ InOrderFor(inbox'[k])
          /\ \A e \in Contents(inbox'[k]) : AheadOfQueue(e)' /\ After(e, k)'
      BY <2>2, <3>2, <3>3, <3>4, <3>6
    <3>8. ASSUME NEW j \in Clients \ {k}
          PROVE  /\ InOrderFor(inbox'[j])
                 /\ \A e \in Contents(inbox'[j]) : AheadOfQueue(e)' /\ After(e, j)'
      BY <1>2, <2>2, <3>1, <3>3 DEF HeardOrder
    <3> QED
      BY <3>7, <3>8 DEF HeardOrder
  <2>4. CASE \A k \in Clients : ~Send(k)
    <3>1. inbox' = inbox
      BY <1>2, <2>4, InboxKept
    <3>2. ASSUME NEW k \in Clients, NEW e \in Contents(inbox[k]) PROVE After(e, k)'
      <4>1. AheadOfQueue(e) /\ After(e, k)
        BY <1>2 DEF HeardOrder
      <4>2. CASE drainer' = drainer \/ HandFree'
        BY <4>1, <4>2 DEF After, HandFree
      <4>3. CASE Get
        <5>1. PICK h \in Message : h = Head(pipe) /\ h \in Queued
          BY <1>2, <4>3, GetKeepsOrder DEF InOrder
        <5>2. drainer'.msg = h
          BY <1>2, <4>3, <5>1, DrainerSteps DEF Typed
        <5> QED
          BY <4>1, <5>1, <5>2 DEF AheadOfQueue, After
      <4>4. CASE ~HandFree /\ drainer'.msg = drainer.msg /\ drainer.pc # "sending"
        BY <4>1, <4>4 DEF After
      <4> QED
        BY <1>2, <2>4, <4>2, <4>3, <4>4, HandSteps
    <3> QED
      BY <1>2, <2>2, <3>1, <3>2 DEF HeardOrder
  <2> QED
    BY <2>3, <2>4
<1> QED
  BY <1>1, <1>2, OrderInvariant, PTL DEF Spec

\* Every client hears of the events of a camera in the order in which it raised
\* them, of each at most once (broadcast, one message at a time).
THEOREM InboxInOrderCorrect == Spec => []InboxInOrder
<1>1. HeardOrder => InboxInOrder
  BY DEF HeardOrder, InOrderFor, InboxInOrder
<1> QED
  BY <1>1, HeardInvariant, PTL

\* Invariant: while a message is broadcast, a connection that is not served yet
\* is one of its targets, and one served is dead or has got it; or it came too late.
NobodySkipped ==
    drainer.pc = "sending" =>
      \A k \in Open :
        \/ k \in drainer.targets \cup drainer.dead
        \/ EventOf(drainer.msg) \in joined[k]
        \/ EventOf(drainer.msg) \in Contents(inbox[k])

\* Most steps change nothing that the two invariants speak of.
LEMMA AudienceKept ==
    ASSUME [Next]_vars,
           \A k \in Clients : ~Send(k) /\ ~Connect(k) /\ ~Disconnect(k),
           ~BeginBroadcast, ~EndBroadcast, ~Restart
    PROVE  UNCHANGED <<connection, inbox, joined, announced>>
<1>1. CASE Drain
  BY <1>1 DEF Drain, Get, GetTimesOut, PollAgain, Handle, Ingest, StoreFails, CommitIngest,
     clientVars, historyVars
<1>2. CASE Feed \/ \E c \in Cameras : Emit(c) \/ Terminate(c)
  BY <1>2 DEF Feed, BeginWrite, EndWrite, Emit, Terminate, clientVars, historyVars
<1>3. CASE \E z \in Zones : CreateZone(z) \/ DeleteZone(z)
  BY <1>3 DEF CreateZone, DeleteZone, clientVars, historyVars
<1>4. CASE \E c \in Cameras : Activate(c) \/ Deactivate(c) \/ BeginDelete(c) \/ DeleteCamera(c) \/ Leave(c)
  BY <1>4 DEF Activate, Deactivate, BeginDelete, DeleteCamera, Leave, clientVars, historyVars
<1>5. CASE UNCHANGED vars
  BY <1>5 DEF vars, clientVars, historyVars
<1> QED
  BY <1>1, <1>2, <1>3, <1>4, <1>5 DEF Next

LEMMA GapInvariant == Spec => [](NoGap /\ NobodySkipped)
<1>1. Init => NoGap /\ NobodySkipped
  BY DEF Init, NoGap, NobodySkipped, Open, Polling
<1>2. ASSUME Typed, Typed', InOrder, NoGap, NobodySkipped, [Next]_vars
      PROVE  NoGap' /\ NobodySkipped'
  <2> USE DEF NoGap, NobodySkipped
  <2>0. /\ drainer \in DrainerType /\ Busy /\ pipe \in Seq(Message)
        /\ \A k \in Clients : inbox[k] \in Seq(Events)
        /\ joined \in [Clients -> SUBSET Events]
        /\ connection \in [Clients -> {"new", "open", "closed"}]
    BY <1>2 DEF Typed, TypeOK
  <2>1. ASSUME NEW k \in Clients, Send(k) PROVE NoGap' /\ NobodySkipped'
    <3>1. PICK x \in Events :
             /\ x = EventOf(drainer.msg) /\ drainer.pc = "sending"
             /\ drainer'.msg = drainer.msg
             /\ drainer'.targets = drainer.targets \ {k}
             /\ \A j \in Clients \ {k} : inbox'[j] = inbox[j]
             /\ \/ inbox'[k] = inbox[k] /\ drainer'.dead = drainer.dead \cup {k}
                \/ inbox'[k] = Append(inbox[k], x) /\ drainer'.dead = drainer.dead
             /\ UNCHANGED <<connection, joined, announced>>
      BY <1>2, <2>1, SendStep DEF historyVars
    <3>2. Contents(Append(inbox[k], x)) = Contents(inbox[k]) \cup {x}
      BY <2>0, HearsLast
    <3>3. \A j \in Clients : Contents(inbox[j]) \subseteq Contents(inbox'[j])
      BY <3>1, <3>2
    <3>4. k \in drainer'.dead \/ x \in Contents(inbox'[k])
      BY <3>1, <3>2
    <3>5. Open' = Open /\ Open \subseteq Clients
      BY <3>1 DEF Open
    <3> QED
      BY <1>2, <3>1, <3>3, <3>4, <3>5
  <2>2. ASSUME NEW k \in Clients, Connect(k) PROVE NoGap' /\ NobodySkipped'
    <3>1. /\ Open' = Open \cup {k} /\ joined'[k] = Begun
          /\ \A j \in Open : j # k /\ joined'[j] = joined[j]
          /\ UNCHANGED <<inbox, drainer, announced>>
      BY <2>0, <2>2 DEF Connect, Open, historyVars
    <3>2. announced \subseteq Begun /\ (drainer.pc = "sending" => EventOf(drainer.msg) \in Begun)
      BY DEF Begun
    <3> QED
      BY <1>2, <3>1, <3>2
  <2>3. ASSUME NEW k \in Clients, Disconnect(k) PROVE NoGap' /\ NobodySkipped'
    <3>1. Open' \subseteq Open /\ UNCHANGED <<inbox, drainer, announced, joined>>
      BY <2>0, <2>3 DEF Disconnect, Open, historyVars
    <3> QED
      BY <1>2, <3>1
  <2>4. CASE BeginBroadcast
    <3>1. drainer'.targets = Open
      BY <2>0, <2>4, DrainerSteps
    <3>2. UNCHANGED <<connection, inbox, joined, announced>>
      BY <2>4 DEF BeginBroadcast, clientVars, historyVars
    <3> QED
      BY <1>2, <3>1, <3>2 DEF Open
  <2>5. CASE EndBroadcast
    <3>1. drainer.pc = "sending" /\ drainer'.pc = "polling"
      BY <2>0, <2>5, DrainerSteps
    <3>2. /\ drainer.targets = {} /\ announced' = announced \cup {EventOf(drainer.msg)}
          /\ UNCHANGED <<inbox, joined>>
          /\ \A k \in Open' : k \in Open /\ k \notin drainer.dead
      BY <2>5 DEF EndBroadcast, Open
    <3> QED
      BY <1>2, <3>1, <3>2
  <2>6. CASE Restart
    <3>1. drainer'.pc = "polling" /\ Open' = {}
      BY <2>0, <2>6, DrainerSteps DEF Restart, Open
    <3> QED
      BY <3>1
  <2>7. CASE /\ \A k \in Clients : ~Send(k) /\ ~Connect(k) /\ ~Disconnect(k)
             /\ ~BeginBroadcast /\ ~EndBroadcast /\ ~Restart
    <3>1. UNCHANGED <<connection, inbox, joined, announced>>
      BY <1>2, <2>7, AudienceKept
    <3>2. drainer' = drainer \/ drainer'.pc # "sending"
      <4>1. CASE Get \/ GetTimesOut \/ PollAgain \/ Handle \/ Ingest \/ StoreFails \/ CommitIngest
        BY <2>0, <4>1, DrainerSteps
      <4>2. CASE Feed \/ \E c \in Cameras : Emit(c) \/ Terminate(c)
        BY <4>2 DEF Feed, BeginWrite, EndWrite, Emit, Terminate
      <4>3. CASE Elsewhere
        BY <4>3 DEF Elsewhere
      <4> QED
        BY <1>2, <2>7, <4>1, <4>2, <4>3, ElsewhereSteps DEF Next, Drain
    <3>3. Open' = Open
      BY <3>1 DEF Open
    <3> QED
      BY <1>2, <3>1, <3>2, <3>3
  <2> QED
    BY <2>1, <2>2, <2>3, <2>4, <2>5, <2>6, <2>7
<1> QED
  BY <1>1, <1>2, OrderInvariant, PTL DEF Spec

\* A client that stays connected misses no announcement (connect during a
\* broadcast, dead connections, broadcast's copy of the set).
THEOREM NoGapCorrect == Spec => []NoGap
BY GapInvariant, PTL

-----------------------------------------------------------------------------
(* Pages of a list (Listing)                                                 *)

\* A slice of a list is a run of it.
LEMMA SliceOfRows ==
    ASSUME NEW S, NEW rows \in Seq(S), NEW p \in Nat \ {0}, NEW size \in Nat \ {0},
           NEW o \in Nat, o = (p - 1) * size
    PROVE  LET page == Slice(rows, [page |-> p, page_size |-> size])
           IN  /\ page \in Seq(S)
               /\ \A j \in DOMAIN page : j \in 1..size /\ o + j <= Len(rows) /\ page[j] = rows[o + j]
               /\ \A j \in 1..size : o + j <= Len(rows) => j \in DOMAIN page
<1> DEFINE params == [page |-> p, page_size |-> size]
           n == Len(rows)
           end == IF o + size <= n THEN o + size ELSE n
           page == Slice(rows, params)
<1>1. params.page = p /\ params.page_size = size
    OBVIOUS
<1>2. Offset(params) = o
    BY <1>1 DEF Offset
<1> HIDE DEF params
<1>3. n \in Nat /\ end \in Int /\ o + 1 \in Int /\ end <= n
    OBVIOUS
<1>4. page = SubSeq(rows, o + 1, end)
    BY <1>1, <1>2 DEF Slice
<1>5. \A i \in o + 1 .. end : rows[i] \in S
    BY <1>3
<1> HIDE DEF end, page
<1>6. /\ page \in Seq(S)
      /\ Len(page) = IF o + 1 <= end THEN end - (o + 1) + 1 ELSE 0
      /\ \A i \in 1..(end - (o + 1) + 1) : page[i] = rows[(o + 1) + i - 1]
    BY <1>3, <1>4, <1>5, SubSeqProperties
<1>7. DOMAIN page = 1..Len(page) /\ Len(page) \in Nat
    BY <1>6
<1>8. end = IF o + size <= n THEN o + size ELSE n
    BY DEF end
<1>9. ASSUME NEW j \in DOMAIN page
      PROVE  j \in 1..size /\ o + j <= n /\ page[j] = rows[o + j]
    <2>1. j \in 1..(end - (o + 1) + 1)
        BY <1>3, <1>6, <1>7
    <2>2. (o + 1) + j - 1 = o + j
        BY <2>1, <1>3
    <2>3. end <= o + size
        BY <1>3, <1>8
    <2>4. j \in 1..size /\ o + j <= n
        BY <2>1, <2>3, <1>3
    <2> QED
        BY <2>1, <2>2, <2>4, <1>6
<1>10. ASSUME NEW j \in 1..size, o + j <= n
       PROVE  j \in DOMAIN page
    BY <1>3, <1>6, <1>7, <1>8, <1>10
<1> QED
    BY <1>6, <1>9, <1>10 DEF page, params

\* A page is the last one exactly if it reaches the end of the list.
LEMMA TotalPagesReach ==
    ASSUME NEW total \in Nat, NEW size \in Nat \ {0}
    PROVE  /\ TotalPages(total, size) \in Nat
           /\ \A p \in Nat : TotalPages(total, size) <= p <=> total <= p * size
<1> DEFINE k == (total + size - 1) \div size
<1>1. k \in Nat /\ k * size <= total + size - 1 /\ total + size - 1 < (k + 1) * size
    OBVIOUS
<1>2. TotalPages(total, size) = k
    BY DEF TotalPages
<1> HIDE DEF k
<1>3. ASSUME NEW p \in Nat
      PROVE  k <= p <=> total <= p * size
    <2>1. ASSUME k <= p
          PROVE  total <= p * size
        <3>1. k * size <= p * size
            BY <2>1, <1>1
        <3>2. (k + 1) * size = k * size + size
            BY <1>1
        <3> QED
            BY <1>1, <3>1, <3>2
    <2>2. ASSUME p < k
          PROVE  p * size < total
        <3>1. (p + 1) * size <= k * size
            BY <2>2, <1>1
        <3>2. (p + 1) * size = p * size + size
            OBVIOUS
        <3> QED
            BY <1>1, <3>1, <3>2
    <2> QED
        BY <2>1, <2>2, <1>1
<1> QED
    BY <1>1, <1>2, <1>3
\* Every row of a list is on exactly one of the pages the answer announces, and
\* every page it announces has a row (pagination.py, offset and limit of the
\* two list_paginated), for any list and page size.
THEOREM PagesCorrect ==
    ASSUME NEW S, NEW rows \in Seq(S), NEW size \in Nat \ {0}
    PROVE  /\ \A i \in DOMAIN rows :
                 /\ \E p \in 1..TotalPages(Len(rows), size) : OnPage(rows, i, p, size)
                 /\ \A p, q \in Nat \ {0} :
                       OnPage(rows, i, p, size) /\ OnPage(rows, i, q, size) => p = q
           /\ \A p \in 1..TotalPages(Len(rows), size) :
                 Slice(rows, [page |-> p, page_size |-> size]) # <<>>
<1> DEFINE n == Len(rows)
           last == TotalPages(n, size)
           page(p) == Slice(rows, [page |-> p, page_size |-> size])
<1>1. n \in Nat /\ DOMAIN rows = 1..n
    OBVIOUS
<1>2. last \in Nat /\ \A p \in Nat : last <= p <=> n <= p * size
    BY <1>1, TotalPagesReach
<1>3. \A p \in Nat \ {0} : (p - 1) * size \in Nat /\ (p - 1) * size + size = p * size
    OBVIOUS
<1>4. ASSUME NEW p \in Nat \ {0}
      PROVE  /\ page(p) \in Seq(S)
             /\ \A j \in DOMAIN page(p) :
                   j \in 1..size /\ (p - 1) * size + j <= n /\ page(p)[j] = rows[(p - 1) * size + j]
             /\ \A j \in 1..size : (p - 1) * size + j <= n => j \in DOMAIN page(p)
    BY <1>3, SliceOfRows
<1> HIDE DEF n, last, page
<1>5. ASSUME NEW i \in DOMAIN rows
      PROVE  \E p \in 1..last : OnPage(rows, i, p, size)
    <2> DEFINE p == ((i - 1) \div size) + 1
               o == (p - 1) * size
    <2>1. i \in 1..n
        BY <1>1
    <2>2. p \in Nat \ {0} /\ p - 1 \in Nat /\ o <= i - 1 /\ i - 1 < o + size
        BY <2>1, <1>1
    <2> HIDE DEF p
    <2>3. p \in Nat \ {0} /\ o \in Nat
        BY <2>2, <1>3
    <2>4. p <= last
        <3> SUFFICES ASSUME last < p
                     PROVE  FALSE
            BY <2>3, <1>2
        <3>1. p - 1 \in Nat /\ last <= p - 1
            BY <2>2, <2>3, <1>2
        <3>2. n <= o
            BY <3>1, <1>2
        <3> QED
            BY <3>2, <2>1, <2>2, <2>3, <1>1
    <2> DEFINE j == i - o
    <2>5. j \in 1..size /\ o + j = i /\ o + j <= n
        BY <2>1, <2>2, <2>3, <1>1
    <2>6. j \in DOMAIN page(p) /\ page(p)[j] = rows[i]
        <3>1. j \in DOMAIN page(p)
            BY <2>3, <2>5, <1>4
        <3>2. page(p)[j] = rows[o + j]
            BY <2>3, <3>1, <1>4
        <3> QED
            BY <3>1, <3>2, <2>5
    <2>7. OnPage(rows, i, p, size)
        BY <2>6 DEF OnPage, page
    <2>8. p \in 1..last
        BY <2>3, <2>4, <1>2
    <2> QED
        BY <2>7, <2>8
<1>6. ASSUME NEW i \in DOMAIN rows, NEW p \in Nat \ {0}, NEW q \in Nat \ {0},
             OnPage(rows, i, p, size), OnPage(rows, i, q, size)
      PROVE  p = q
    <2>1. i - (p - 1) * size \in DOMAIN page(p) /\ i - (q - 1) * size \in DOMAIN page(q)
        BY <1>6 DEF OnPage, page
    <2>2. i - (p - 1) * size \in 1..size /\ i - (q - 1) * size \in 1..size
        BY <2>1, <1>4
    <2>3. i \in Nat
        BY <1>1
    <2>4. ASSUME NEW a \in Nat \ {0}, NEW b \in Nat \ {0}, a < b,
                 i - (a - 1) * size \in 1..size, i - (b - 1) * size \in 1..size
          PROVE  FALSE
        <3>1. a * size <= (b - 1) * size
            BY <2>4
        <3>2. (a - 1) * size + size = a * size /\ (a - 1) * size \in Nat /\ (b - 1) * size \in Nat
            BY <1>3
        <3> QED
            BY <3>1, <3>2, <2>3, <2>4
    <2> QED
        BY <2>2, <2>4
<1>7. ASSUME NEW p \in 1..last
      PROVE  page(p) # <<>>
    <2>1. p \in Nat \ {0} /\ p - 1 \in Nat /\ p - 1 < last
        BY <1>2
    <2>2. (p - 1) * size < n /\ (p - 1) * size \in Nat
        BY <2>1, <1>1, <1>2, <1>3
    <2>3. 1 \in 1..size /\ (p - 1) * size + 1 <= n
        BY <2>2, <1>1
    <2>4. 1 \in DOMAIN page(p)
        BY <2>1, <2>3, <1>4
    <2> QED
        BY <2>4
<1> QED
    BY <1>5, <1>6, <1>7 DEF n, last, page
\* What a reader of the pages has seen: all rows up to the end of the last page
\* selected, wherever the rows stored since have moved them.
ReadingInv(stored, reader, size) ==
    /\ stored \in Nat
    /\ reader \in Reader
    /\ reader.first <= stored
    /\ \A r \in 1..reader.first :
          stored - r + 1 <= (reader.page - 1) * size => r \in reader.seen
    /\ reader.at = "select" /\ ~reader.overtaken => reader.total = stored
    /\ reader.at = "end" /\ ~reader.overtaken => 1..reader.first \subseteq reader.seen

\* The same, of a page that has a name.
IsRun(page, rows, S, o, size) ==
    /\ page \in Seq(S)
    /\ \A j \in DOMAIN page : j \in 1..size /\ o + j <= Len(rows) /\ page[j] = rows[o + j]
    /\ \A j \in 1..size : o + j <= Len(rows) => j \in DOMAIN page

LEMMA SliceIsRun ==
    ASSUME NEW S, NEW rows \in Seq(S), NEW p \in Nat \ {0}, NEW size \in Nat \ {0}
    PROVE  IsRun(Slice(rows, [page |-> p, page_size |-> size]), rows, S, (p - 1) * size, size)
<1>1. (p - 1) * size \in Nat
    OBVIOUS
<1> DEFINE o == (p - 1) * size
           page == Slice(rows, [page |-> p, page_size |-> size])
<1>2. o \in Nat
    BY <1>1
<1>3. /\ page \in Seq(S)
      /\ \A j \in DOMAIN page : j \in 1..size /\ o + j <= Len(rows) /\ page[j] = rows[o + j]
      /\ \A j \in 1..size : o + j <= Len(rows) => j \in DOMAIN page
    BY <1>2, SliceOfRows
<1> HIDE DEF o, page
<1>4. IsRun(page, rows, S, o, size)
    BY <1>3 DEF IsRun
<1> QED
    BY <1>4 DEF o, page

\* The numbered rows on a page.
LEMMA SelectedRows ==
    ASSUME NEW stored \in Nat, NEW p \in Nat \ {0}, NEW size \in Nat \ {0},
           NEW page, page = Slice(NewestFirst(Numbered(stored)), [page |-> p, page_size |-> size])
    PROVE  /\ {page[j] : j \in DOMAIN page} \subseteq Nat
           /\ \A r \in 1..stored :
                 (p - 1) * size < stored - r + 1 /\ stored - r + 1 <= p * size =>
                     r \in {page[j] : j \in DOMAIN page}
<1> DEFINE rows == NewestFirst(Numbered(stored))
           o == (p - 1) * size
<1>1. rows \in Seq(Nat) /\ Len(rows) = stored /\ \A i \in 1..stored : rows[i] = stored - i + 1
    <2>1. Numbered(stored) \in Seq(Nat) /\ Len(Numbered(stored)) = stored
          /\ \A i \in 1..stored : Numbered(stored)[i] = i
        BY DEF Numbered
    <2>2. \A i \in 1..stored : stored - i + 1 \in 1..stored
        OBVIOUS
    <2>3. rows = [i \in 1..stored |-> stored - i + 1]
        BY <2>1, <2>2 DEF NewestFirst
    <2> QED
        BY <2>2, <2>3
<1>2. o \in Nat /\ o + size = p * size
    OBVIOUS
<1> HIDE DEF rows, o
<1>3. page = Slice(rows, [page |-> p, page_size |-> size])
    BY DEF rows
<1>4. /\ page \in Seq(Nat)
      /\ \A j \in DOMAIN page : j \in 1..size /\ o + j <= stored /\ page[j] = rows[o + j]
      /\ \A j \in 1..size : o + j <= stored => j \in DOMAIN page
    <2>1. IsRun(page, rows, Nat, o, size)
        BY <1>1, <1>3, SliceIsRun DEF o
    <2> QED
        BY <2>1, <1>1 DEF IsRun
<1>5. ASSUME NEW r \in 1..stored, o < stored - r + 1, stored - r + 1 <= o + size
      PROVE  \E j \in DOMAIN page : page[j] = r
    <2> DEFINE j == stored - r + 1 - o
    <2>1. j \in 1..size /\ o + j \in 1..stored /\ stored - (o + j) + 1 = r
        BY <1>2, <1>5
    <2>2. j \in DOMAIN page /\ page[j] = rows[o + j]
        BY <2>1, <1>4
    <2>3. rows[o + j] = r
        BY <2>1, <1>1
    <2> QED
        BY <2>2, <2>3
<1>6. \A j \in DOMAIN page : page[j] \in Nat
    BY <1>4
<1> QED
    BY <1>2, <1>5, <1>6 DEF o

\* Storing a row moves the others down.
LEMMA StoreRowReading ==
    ASSUME NEW stored, NEW reader, NEW size \in Nat \ {0}, ReadingInv(stored, reader, size),
           NEW next, next = [reader EXCEPT !.overtaken = @ \/ reader.at = "select"]
    PROVE  ReadingInv(stored + 1, next, size)
<1>1. /\ stored \in Nat /\ reader \in Reader /\ reader.first <= stored
      /\ \A r \in 1..reader.first :
            stored - r + 1 <= (reader.page - 1) * size => r \in reader.seen
      /\ reader.at = "end" /\ ~reader.overtaken => 1..reader.first \subseteq reader.seen
    BY DEF ReadingInv
<1>2. /\ next \in Reader
      /\ next.at = reader.at /\ next.page = reader.page /\ next.seen = reader.seen
      /\ next.first = reader.first
      /\ ~next.overtaken => ~reader.overtaken /\ reader.at # "select"
    BY <1>1 DEF Reader
<1>3. reader.page \in Nat \ {0} /\ reader.first \in Nat /\ (reader.page - 1) * size \in Nat
    BY <1>1 DEF Reader
<1>4. ASSUME NEW r \in 1..next.first, (stored + 1) - r + 1 <= (next.page - 1) * size
      PROVE  r \in next.seen
    <2>1. r \in 1..reader.first /\ stored - r + 1 <= (reader.page - 1) * size
        BY <1>1, <1>2, <1>3, <1>4
    <2> QED
        BY <2>1, <1>1, <1>2
<1> QED
    BY <1>1, <1>2, <1>3, <1>4 DEF ReadingInv

\* Counting rows changes nothing that was seen.
LEMMA CountRowsReading ==
    ASSUME NEW stored, NEW reader, NEW size \in Nat \ {0}, ReadingInv(stored, reader, size),
           reader.at = "count",
           NEW next,
           next = [reader EXCEPT !.at = "select", !.total = stored, !.overtaken = FALSE]
    PROVE  ReadingInv(stored, next, size)
<1>1. /\ stored \in Nat /\ reader \in Reader /\ reader.first <= stored
      /\ \A r \in 1..reader.first :
            stored - r + 1 <= (reader.page - 1) * size => r \in reader.seen
    BY DEF ReadingInv
<1>2. /\ next \in Reader
      /\ next.at = "select" /\ next.page = reader.page /\ next.seen = reader.seen
      /\ next.first = reader.first /\ next.total = stored
    BY <1>1 DEF Reader
<1> QED
    BY <1>1, <1>2 DEF ReadingInv

\* The reader after SelectRows.
AfterPage(stored, reader, size) ==
    LET page == Slice(NewestFirst(Numbered(stored)), [page |-> reader.page, page_size |-> size])
        more == reader.page < TotalPages(reader.total, size)
    IN  [reader EXCEPT !.seen = @ \cup {page[i] : i \in DOMAIN page},
                       !.at = IF more THEN "count" ELSE "end",
                       !.page = IF more THEN @ + 1 ELSE @]

\* Selecting a page adds the rows that follow those seen; the last page reaches
\* the end of the list if nothing was stored after the rows were counted.
LEMMA SelectRowsReading ==
    ASSUME NEW stored, NEW reader, NEW size \in Nat \ {0}, ReadingInv(stored, reader, size),
           reader.at = "select"
    PROVE  ReadingInv(stored, AfterPage(stored, reader, size), size)
<1> DEFINE page == Slice(NewestFirst(Numbered(stored)), [page |-> reader.page, page_size |-> size])
           more == reader.page < TotalPages(reader.total, size)
           shown == {page[i] : i \in DOMAIN page}
           next == AfterPage(stored, reader, size)
<1>1. /\ stored \in Nat /\ reader \in Reader /\ reader.first <= stored
      /\ \A r \in 1..reader.first :
            stored - r + 1 <= (reader.page - 1) * size => r \in reader.seen
      /\ ~reader.overtaken => reader.total = stored
    BY DEF ReadingInv
<1>2. /\ reader.page \in Nat \ {0} /\ reader.first \in Nat /\ reader.total \in Nat
      /\ reader.seen \in SUBSET Nat
    BY <1>1 DEF Reader
<1>3. /\ shown \subseteq Nat
      /\ \A r \in 1..stored :
            (reader.page - 1) * size < stored - r + 1 /\ stored - r + 1 <= reader.page * size =>
                r \in shown
    <2>1. page = Slice(NewestFirst(Numbered(stored)), [page |-> reader.page, page_size |-> size])
        OBVIOUS
    <2> HIDE DEF page
    <2> QED
        BY <2>1, <1>1, <1>2, SelectedRows
<1>4. TotalPages(reader.total, size) \in Nat
      /\ (~more => reader.total <= reader.page * size)
    <2>1. /\ TotalPages(reader.total, size) \in Nat
          /\ \A p \in Nat : TotalPages(reader.total, size) <= p <=> reader.total <= p * size
        BY <1>2, TotalPagesReach
    <2> DEFINE pages == TotalPages(reader.total, size)
    <2> HIDE DEF pages
    <2>2. /\ pages \in Nat
          /\ \A p \in Nat : pages <= p <=> reader.total <= p * size
        BY <2>1 DEF pages
    <2>3. reader.page \in Nat /\ (pages <= reader.page => reader.total <= reader.page * size)
        BY <1>2, <2>2
    <2>4. ~(reader.page < pages) => pages <= reader.page
        BY <2>2, <2>3
    <2>5. ~(reader.page < pages) => reader.total <= reader.page * size
        BY <2>3, <2>4
    <2> QED
        BY <2>2, <2>5 DEF pages
<1>5. next = [reader EXCEPT !.seen = @ \cup shown, !.at = IF more THEN "count" ELSE "end",
                            !.page = IF more THEN @ + 1 ELSE @]
    BY DEF AfterPage
<1> HIDE DEF more, shown, next
<1>6. /\ next \in Reader
      /\ next.seen = reader.seen \cup shown
      /\ next.at = IF more THEN "count" ELSE "end"
      /\ next.page = IF more THEN reader.page + 1 ELSE reader.page
      /\ next.first = reader.first
      /\ next.overtaken = reader.overtaken
    <2> DEFINE at == IF more THEN "count" ELSE "end"
               turned == IF more THEN reader.page + 1 ELSE reader.page
               seen == reader.seen \cup shown
    <2>1. /\ at \in {"count", "select", "end"}
          /\ turned \in Nat \ {0}
          /\ seen \in SUBSET Nat
        <3>1. at \in {"count", "select", "end"}
            OBVIOUS
        <3>2. turned \in Nat \ {0}
            BY <1>2
        <3>3. seen \in SUBSET Nat
            BY <1>2, <1>3
        <3> QED
            BY <3>1, <3>2, <3>3
    <2>2. next = [reader EXCEPT !.seen = seen, !.at = at, !.page = turned]
        BY <1>1, <1>5 DEF Reader
    <2> HIDE DEF at, turned, seen
    <2>3. /\ next \in Reader
          /\ next.seen = seen /\ next.at = at /\ next.page = turned
          /\ next.first = reader.first /\ next.overtaken = reader.overtaken
        BY <1>1, <2>1, <2>2 DEF Reader
    <2> QED
        BY <2>3 DEF at, turned, seen
<1>7. (reader.page - 1) * size \in Nat /\ reader.page * size \in Nat
    BY <1>2
<1>8. ASSUME NEW r \in 1..reader.first, stored - r + 1 <= reader.page * size
      PROVE  r \in next.seen
    <2>1. r \in 1..stored
        BY <1>1, <1>2
    <2>2. CASE stored - r + 1 <= (reader.page - 1) * size
        BY <2>2, <1>1, <1>6
    <2>3. CASE (reader.page - 1) * size < stored - r + 1
        BY <2>1, <2>3, <1>3, <1>6, <1>8
    <2> QED
        BY <2>1, <2>2, <2>3, <1>1, <1>7
<1>9. ASSUME NEW r \in 1..next.first, stored - r + 1 <= (next.page - 1) * size
      PROVE  r \in next.seen
    <2>1. CASE more
        <3>1. next.page - 1 = reader.page
            BY <2>1, <1>2, <1>6
        <3> QED
            BY <3>1, <1>6, <1>8, <1>9
    <2>2. CASE ~more
        <3>1. next.page = reader.page
            BY <2>2, <1>6
        <3> QED
            BY <3>1, <1>1, <1>6, <1>9
    <2> QED
        BY <2>1, <2>2
<1>10. ASSUME next.at = "end", ~next.overtaken
       PROVE  1..next.first \subseteq next.seen
    <2>1. ~more /\ ~reader.overtaken
        BY <1>6, <1>10
    <2>2. stored <= reader.page * size
        BY <2>1, <1>1, <1>4
    <2>3. ASSUME NEW r \in 1..reader.first
          PROVE  r \in next.seen
        <3>1. stored - r + 1 <= reader.page * size
            BY <2>2, <1>1, <1>2, <1>7
        <3> QED
            BY <3>1, <1>8
    <2> QED
        BY <2>3, <1>6
<1>11. next.at # "select"
    BY <1>6
<1> QED
    BY <1>1, <1>6, <1>9, <1>10, <1>11 DEF ReadingInv, next

\* Someone who turns all pages of the detections or the alerts has seen every row
\* there was when they began, however many the drainer stores meanwhile, unless it
\* stores one between the two statements of the last answer: that moves the oldest
\* rows to a page of which the answer's total_pages does not know (list_paginated
\* counts and selects apart).
THEOREM TurningPagesCorrect ==
    ASSUME NEW VARIABLE stored, NEW VARIABLE reader, NEW size \in Nat \ {0}
    PROVE  ReadingPages(stored, reader, size) => []NothingSkipped(reader)
<1> DEFINE I == ReadingInv(stored, reader, size)
<1>1. BeginReading(stored, reader) => I
    <2> SUFFICES ASSUME BeginReading(stored, reader)
                 PROVE  I
        OBVIOUS
    <2>1. /\ stored \in Nat /\ reader \in Reader
          /\ reader.at = "count" /\ reader.page = 1 /\ reader.first = stored
        BY DEF BeginReading, Reader
    <2>2. (reader.page - 1) * size = 0
        BY <2>1
    <2> QED
        BY <2>1, <2>2 DEF ReadingInv
<1>2. I /\ [TurnPages(stored, reader, size)]_<<stored, reader>> => I'
    <2>1. ASSUME I, StoreRow(stored, reader)
          PROVE  I'
        <3>1. ReadingInv(stored + 1, reader', size)
            BY <2>1, StoreRowReading DEF StoreRow
        <3> QED
            BY <2>1, <3>1 DEF ReadingInv, StoreRow
    <2>2. ASSUME I, CountRows(stored, reader)
          PROVE  I'
        <3>1. ReadingInv(stored, reader', size)
            BY <2>2, CountRowsReading DEF CountRows
        <3> QED
            BY <2>2, <3>1 DEF ReadingInv, CountRows
    <2>3. ASSUME I, SelectRows(stored, reader, size)
          PROVE  I'
        <3>1. ReadingInv(stored, AfterPage(stored, reader, size), size)
            BY <2>3, SelectRowsReading DEF SelectRows
        <3>2. reader' = AfterPage(stored, reader, size)
            BY <2>3 DEF SelectRows, AfterPage
        <3> QED
            BY <2>3, <3>1, <3>2 DEF ReadingInv, SelectRows
    <2>4. ASSUME I, UNCHANGED <<stored, reader>>
          PROVE  I'
        BY <2>4 DEF ReadingInv
    <2> QED
        BY <2>1, <2>2, <2>3, <2>4 DEF TurnPages
<1>3. I => NothingSkipped(reader)
    BY DEF ReadingInv, NothingSkipped
<1> HIDE DEF I
<1> QED
    BY <1>1, <1>2, <1>3, PTL DEF ReadingPages
-----------------------------------------------------------------------------
(* Buckets of the statistics page (Statistics)                               *)

\* The bucket a time falls in begins at or before it, less than a span earlier,
\* and a whole number of spans after the window does.
LEMMA BucketBounds ==
    ASSUME NEW since \in Int, NEW t \in Int, since <= t, NEW span \in Nat \ {0}
    PROVE  \E k \in Nat : /\ BucketStart(t, since, span) = since + k * span
                          /\ since + k * span <= t
                          /\ t < since + (k + 1) * span
<1> DEFINE k == (t - since) \div span
<1>1. k \in Nat /\ k * span <= t - since /\ t - since < (k + 1) * span
    OBVIOUS
<1>2. BucketStart(t, since, span) = since + k * span
    BY DEF BucketStart
<1> HIDE DEF k
<1>3. since + k * span <= t /\ t < since + (k + 1) * span
    BY <1>1
<1> QED
    BY <1>1, <1>2, <1>3

\* Multiples of a span are equal or a span apart.
LEMMA MultiplesApart ==
    ASSUME NEW k \in Nat, NEW m \in Nat, NEW span \in Nat \ {0}
    PROVE  /\ k * span \in Nat /\ m * span \in Nat
           /\ (k + 1) * span = k * span + span
           /\ k = m \/ k * span + span <= m * span \/ m * span + span <= k * span
<1>1. /\ k * span \in Nat /\ m * span \in Nat
      /\ (k + 1) * span = k * span + span /\ (m + 1) * span = m * span + span
    OBVIOUS
<1>2. k < m => (k + 1) * span <= m * span
    OBVIOUS
<1>3. m < k => (m + 1) * span <= k * span
    OBVIOUS
<1> QED
    BY <1>1, <1>2, <1>3

\* The buckets of the statistics page are right for any table, window and span:
\* each begins a whole number of spans after the window, overlaps no other, does
\* not begin in the future, and counts exactly the detections of its span
\* (counts_over_time), so every detection of the window is counted once.
THEOREM BucketsCorrect ==
    ASSUME NEW table, \A d \in table : d.created_at \in Int,
           NEW since \in Int, NEW now \in Int, NEW span \in Nat \ {0}
    PROVE  /\ BucketsPartition(table, since, span, now)
           /\ \A n \in Nat : BucketIsSpan(table, since, span, n)
<1> DEFINE start(d) == BucketStart(d.created_at, since, span)
<1>1. ASSUME NEW d \in Recent(table, since)
      PROVE  /\ d \in table /\ d.created_at \in Int /\ since <= d.created_at
             /\ \E k \in Nat : /\ start(d) = since + k * span
                               /\ since + k * span <= d.created_at
                               /\ d.created_at < since + (k + 1) * span
    <2>1. d \in table /\ d.created_at \in Int /\ since <= d.created_at
        BY <1>1 DEF Recent
    <2> QED
        BY <2>1, BucketBounds
<1> HIDE DEF start
<1>2. ASSUME NEW d \in Recent(table, since)
      PROVE  /\ since <= start(d)
             /\ (start(d) - since) % span = 0
             /\ start(d) <= d.created_at
             /\ d.created_at < start(d) + span
             /\ d.created_at < now => start(d) < now
             /\ \A e \in Recent(table, since) :
                   start(e) = start(d) \/ start(e) + span <= start(d) \/ start(d) + span <= start(e)
    <2>1. PICK k \in Nat : /\ start(d) = since + k * span
                           /\ since + k * span <= d.created_at
                           /\ d.created_at < since + (k + 1) * span
        BY <1>1
    <2>2. k * span \in Nat /\ (k + 1) * span = k * span + span
        BY MultiplesApart
    <2>3. d.created_at \in Int
        BY <1>1
    <2>4. (k * span) % span = 0
        OBVIOUS
    <2>5. start(d) - since = k * span
        BY <2>1, <2>2
    <2>6. ASSUME NEW e \in Recent(table, since)
          PROVE  start(e) = start(d) \/ start(e) + span <= start(d) \/ start(d) + span <= start(e)
        <3>1. PICK m \in Nat : start(e) = since + m * span
            BY <1>1
        <3>2. m * span \in Nat
              /\ (k = m \/ k * span + span <= m * span \/ m * span + span <= k * span)
            BY MultiplesApart
        <3> QED
            BY <2>1, <2>2, <3>1, <3>2
    <2> QED
        BY <2>1, <2>2, <2>3, <2>4, <2>5, <2>6
<1>3. BucketsPartition(table, since, span, now)
    BY <1>2 DEF BucketsPartition, start
<1>4. ASSUME NEW n \in Nat
      PROVE  BucketIsSpan(table, since, span, n)
    <2> DEFINE from == since + n * span
               to == since + (n + 1) * span
    <2>1. n * span \in Nat /\ (n + 1) * span = n * span + span
        BY MultiplesApart
    <2>2. from \in Int /\ to = from + span /\ since <= from
        BY <2>1
    <2> HIDE DEF to
    <2>3. ASSUME NEW d \in Recent(table, since), start(d) = from
          PROVE  d \in table /\ from <= d.created_at /\ d.created_at < to
        <3>1. d \in table /\ d.created_at \in Int
            BY <1>1
        <3>2. start(d) <= d.created_at /\ d.created_at < start(d) + span
            BY <1>2
        <3> QED
            BY <2>2, <2>3, <3>1, <3>2
    <2>4. ASSUME NEW d \in table, from <= d.created_at, d.created_at < to
          PROVE  d \in Recent(table, since) /\ start(d) = from
        <3>1. d.created_at \in Int
            OBVIOUS
        <3>2. since <= d.created_at
            BY <2>2, <2>4, <3>1
        <3>3. d \in Recent(table, since)
            BY <3>2 DEF Recent
        <3>4. PICK k \in Nat : /\ start(d) = since + k * span
                               /\ since + k * span <= d.created_at
                               /\ d.created_at < since + (k + 1) * span
            BY <1>1, <3>3
        <3>5. k * span \in Nat /\ (k + 1) * span = k * span + span
              /\ (k = n \/ k * span + span <= n * span \/ n * span + span <= k * span)
            BY MultiplesApart
        <3>6. ~(k * span + span <= n * span) /\ ~(n * span + span <= k * span)
            BY <2>1, <2>2, <2>4, <3>1, <3>4, <3>5
        <3>7. k = n
            BY <3>5, <3>6
        <3> QED
            BY <3>3, <3>4, <3>7
    <2>5. {d \in Recent(table, since) : start(d) = from}
              = {d \in table : from <= d.created_at /\ d.created_at < to}
        <3> HIDE DEF from
        <3> QED
            BY <2>3, <2>4
    <2> QED
        BY <2>5 DEF BucketIsSpan, InBucket, start, from, to
<1> QED
    BY <1>3, <1>4
================================================================================
