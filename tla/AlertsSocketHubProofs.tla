------------------------- MODULE AlertsSocketHubProofs -------------------------
(* Theorems about the alerts socket of a browser tab, for every number of      *)
(* chains and alerts, every retry delay and every length of the buzz.          *)
EXTENDS AlertsSocketHub, SequenceTheorems, TLAPS

\* What a queue of alerts holds after a step on its ends.
Contents(s) == {s[i] : i \in 1..Len(s)}

LEMMA PutLast ==
    ASSUME NEW S, NEW s \in Seq(S), NEW k \in S
    PROVE  /\ Append(s, k) \in Seq(S) /\ Len(s) \in Nat /\ Len(Append(s, k)) = Len(s) + 1
           /\ \A i \in 1..Len(s) : Append(s, k)[i] = s[i]
           /\ Append(s, k)[Len(s) + 1] = k
           /\ Contents(Append(s, k)) = Contents(s) \cup {k}
<1>1. /\ Append(s, k) \in Seq(S) /\ Len(Append(s, k)) = Len(s) + 1 /\ Len(s) \in Nat
      /\ \A i \in 1..Len(s) : Append(s, k)[i] = s[i]
      /\ Append(s, k)[Len(s) + 1] = k
  BY AppendProperties, LenProperties
<1>2. \A x \in Contents(Append(s, k)) : x \in Contents(s) \cup {k}
  BY <1>1 DEF Contents
<1>3. \A x \in Contents(s) : x \in Contents(Append(s, k))
  BY <1>1 DEF Contents
<1>4. k \in Contents(Append(s, k))
  BY <1>1 DEF Contents
<1> QED
  BY <1>1, <1>2, <1>3, <1>4

LEMMA TakeFirst ==
    ASSUME NEW S, NEW s \in Seq(S), s # <<>>
    PROVE  /\ Head(s) \in S /\ Head(s) = s[1]
           /\ Tail(s) \in Seq(S) /\ Len(s) \in Nat \ {0} /\ Len(Tail(s)) = Len(s) - 1
           /\ \A i \in 1..Len(Tail(s)) : Tail(s)[i] = s[i + 1]
           /\ Contents(s) = {Head(s)} \cup Contents(Tail(s))
<1>1. /\ Head(s) \in S /\ Head(s) = s[1]
      /\ Tail(s) \in Seq(S) /\ Len(s) \in Nat \ {0} /\ Len(Tail(s)) = Len(s) - 1
      /\ \A i \in 1..Len(Tail(s)) : Tail(s)[i] = s[i + 1]
  BY HeadTailProperties, LenProperties, EmptySeq, ElementOfSeq
<1>2. \A x \in Contents(Tail(s)) : x \in Contents(s)
  BY <1>1 DEF Contents
<1>3. Head(s) \in Contents(s)
  BY <1>1 DEF Contents
<1>4. \A x \in Contents(s) : x = Head(s) \/ x \in Contents(Tail(s))
  <2> SUFFICES ASSUME NEW i \in 1..Len(s), i # 1 PROVE s[i] \in Contents(Tail(s))
    BY <1>1 DEF Contents
  <2>1. i - 1 \in 1..Len(Tail(s)) /\ Tail(s)[i - 1] = s[i]
    BY <1>1
  <2> QED
    BY <2>1 DEF Contents
<1> QED
  BY <1>1, <1>2, <1>3, <1>4

LEMMA NothingIn == ASSUME NEW S PROVE <<>> \in Seq(S) /\ Len(<<>>) = 0 /\ Contents(<<>>) = {}
BY EmptySeq DEF Contents

-----------------------------------------------------------------------------
(* Type correctness.                                                           *)

-----------------------------------------------------------------------------
(* What a step does to the buzzer's refs and timers.                           *)

BuzzType ==
    /\ redBuzzIntervalRef \in Handles \cup {None}
    /\ redBuzzStopRef \in Handles \cup {None}
    /\ intervals \in SUBSET Handles
    /\ stops \in [Handles -> 0..Never]

StopFires(h) ==
    /\ stops[h] = 0
    /\ StopRedBuzz
    /\ stops' = [Stopped EXCEPT ![h] = Never]

TimersTick ==
    /\ \A h \in Handles : stops[h] > 0
    /\ stops' = [h \in Handles |-> IF h \in Timers THEN stops[h] - 1 ELSE Never]
    /\ UNCHANGED <<redBuzzIntervalRef, redBuzzStopRef, intervals>>

BuzzMove ==
    UNCHANGED buzz \/ Silenced \/ StartRedBuzz \/ (\E h \in Handles : StopFires(h)) \/ TimersTick

LEMMA BuzzMoves == [Next]_vars => BuzzMove
<1> SUFFICES ASSUME [Next]_vars PROVE BuzzMove
  OBVIOUS
<1>1. ASSUME NEW c \in Chains, OnOpen(c) \/ OnClose(c) \/ RetryFires(c) \/ OnMessage(c)
      PROVE  BuzzMove
  BY <1>1 DEF BuzzMove, OnOpen, OnClose, RetryFires, OnMessage
<1>2. CASE Reload
  BY <1>2 DEF BuzzMove, Reload
<1>3. CASE Enter \/ Visit \/ Expire \/ Broadcast \/ ServerTurns
  BY <1>3 DEF BuzzMove, Enter, Visit, Subscribe, Expire, Broadcast, ServerTurns
<1>4. ASSUME NEW h \in Handles, BuzzStops(h) PROVE BuzzMove
  BY <1>4 DEF BuzzMove, BuzzStops, StopFires
<1>5. CASE Tick
  BY <1>5 DEF BuzzMove, Tick, TimersTick
<1>6. CASE UNCHANGED vars
  BY <1>6 DEF BuzzMove, vars
<1> QED
  BY <1>1, <1>2, <1>3, <1>4, <1>5, <1>6 DEF Next

LEMMA BuzzTypeKept == BuzzType /\ BuzzMove => BuzzType'
<1> SUFFICES ASSUME BuzzType, BuzzMove PROVE BuzzType'
  OBVIOUS
<1> USE HubAssumption
<1>1. Never \in 0..Never /\ BuzzLength \in 0..Never
  BY DEF Never
<1>2. Stopped \in [Handles -> 0..Never] /\ Uncleared \in SUBSET Handles
  BY <1>1 DEF Stopped, Uncleared, BuzzType
<1>3. CASE UNCHANGED buzz
  BY <1>3 DEF BuzzType, buzz
<1>4. CASE Silenced
  BY <1>1, <1>4 DEF BuzzType, Silenced, NoTimer
<1>5. CASE StartRedBuzz
  BY <1>1, <1>2, <1>5 DEF BuzzType, StartRedBuzz
<1>6. ASSUME NEW h \in Handles, StopFires(h) PROVE BuzzType'
  BY <1>1, <1>2, <1>6 DEF BuzzType, StopFires, StopRedBuzz
<1>7. CASE TimersTick
  <2>1. \A h \in Handles : (IF h \in Timers THEN stops[h] - 1 ELSE Never) \in 0..Never
    BY <1>1, <1>7 DEF BuzzType, TimersTick, Never
  <2> QED
    BY <1>7, <2>1 DEF BuzzType, TimersTick
<1> QED
  BY <1>3, <1>4, <1>5, <1>6, <1>7 DEF BuzzMove

\* Every variable keeps its type: the retry delay and all timers stay in bounds.
THEOREM TypeCorrect == Spec => []TypeOK
<1> USE HubAssumption
<1>0. /\ FirstRetry \in FirstRetry..MaxRetry
      /\ [c \in Chains |-> <<>>] \in [Chains -> Seq(Alerts)]
      /\ NothingHeard \in [Components -> Seq(Alerts)]
      /\ [l \in Components |-> {}] \in [Components -> SUBSET Alerts]
      /\ [c \in Chains |-> 0] \in [Chains -> 0..MaxRetry]
      /\ \A c \in Chains, known \in BOOLEAN :
            FirstSocket(c, known) \in [Chains -> Attempts \cup {"unused", "open", "waiting"}]
  BY NothingIn DEF NothingHeard, FirstSocket, Attempt, Attempts
<1>1. Init => TypeOK
  <2> SUFFICES ASSUME Init PROVE TypeOK
    OBVIOUS
  <2>1. PICK c \in Chains : phase = FirstSocket(c, token) /\ ws = c
    BY DEF Init
  <2>2. phase \in [Chains -> Attempts \cup {"unused", "open", "waiting"}]
    BY <1>0, <2>1 DEF Init
  <2>3. {"buzzer"} \in SUBSET Components
    BY DEF Components
  <2>4. sent \in 0..MaxAlerts /\ red \in SUBSET Alerts /\ calm \in 0..(MaxRetry + 1)
    BY DEF Init
  <2>5. BuzzType
    BY DEF Init, BuzzType, NoTimer, Never
  <2> QED
    BY <1>0, <2>1, <2>2, <2>3, <2>4, <2>5 DEF Init, TypeOK, BuzzType
<1>2. TypeOK /\ [Next]_vars => TypeOK'
  <2> SUFFICES ASSUME TypeOK, [Next]_vars PROVE TypeOK'
    OBVIOUS
  <2>0. BuzzType'
    BY BuzzMoves, BuzzTypeKept DEF TypeOK, BuzzType
  <2>1. \A c \in Chains, known \in BOOLEAN : Connect(c, known) =>
           /\ phase' \in [Chains -> Attempts \cup {"unused", "open", "waiting"}]
           /\ ws' \in Chains \cup {None}
    BY DEF Connect, Attempt, Attempts, TypeOK
  <2>2. ASSUME NEW S \in SUBSET Components, NEW known \in BOOLEAN, Subscribe(S, known)
        PROVE  /\ phase' \in [Chains -> Attempts \cup {"unused", "open", "waiting"}]
               /\ ws' \in Chains \cup {None}
               /\ mounted' \in SUBSET Components
               /\ late' \in BOOLEAN
               /\ heard' \in [Components -> Seq(Alerts)]
               /\ promised' \in [Components -> SUBSET Alerts]
    <3>1. /\ phase' \in [Chains -> Attempts \cup {"unused", "open", "waiting"}]
          /\ ws' \in Chains \cup {None} /\ late' \in BOOLEAN
      <4>1. EnsureConnected(known)
        BY <2>2 DEF Subscribe
      <4>2. CASE UNCHANGED <<phase, ws, late>>
        BY <4>2 DEF TypeOK
      <4>3. CASE (\E c \in Chains \ InUse : Connect(c, known)) /\ late' = TRUE
        BY <2>1, <4>3
      <4> QED
        BY <4>1, <4>2, <4>3 DEF EnsureConnected
    <3>2. heard' \in [Components -> Seq(Alerts)] /\ promised' \in [Components -> SUBSET Alerts]
      BY <2>2, NothingIn DEF Subscribe, TypeOK
    <3> QED
      BY <2>2, <3>1, <3>2 DEF Subscribe, TypeOK
  <2>3. ASSUME NEW c \in Chains, OnOpen(c) PROVE TypeOK'
    BY <1>0, <2>0, <2>3 DEF OnOpen, TypeOK, BuzzType, tabVars, newsVars
  <2>4. ASSUME NEW c \in Chains, OnClose(c) PROVE TypeOK'
    <3>1. /\ inflight' \in [Chains -> Seq(Alerts)] /\ promised' \in [Components -> SUBSET Alerts]
          /\ calm' \in 0..(MaxRetry + 1)
      BY <1>0, <2>4, NothingIn DEF OnClose, TypeOK
    <3>2. phase' \in [Chains -> Attempts \cup {"unused", "open", "waiting"}]
          /\ due' \in [Chains -> 0..MaxRetry] /\ retry' \in FirstRetry..MaxRetry
      BY <2>4 DEF OnClose, TypeOK
    <3> QED
      BY <2>0, <2>4, <3>1, <3>2 DEF OnClose, TypeOK, BuzzType, tabVars
  <2>5. ASSUME NEW c \in Chains, RetryFires(c) PROVE TypeOK'
    <3>1. retry' \in FirstRetry..MaxRetry
      BY <2>5 DEF RetryFires, RetryDelay, Capped, TypeOK
    <3> QED
      BY <2>0, <2>1, <2>5, <3>1 DEF RetryFires, TypeOK, BuzzType, tabVars, newsVars
  <2>6. ASSUME NEW c \in Chains, OnMessage(c) PROVE TypeOK'
    <3>1. inflight[c] \in Seq(Alerts) /\ inflight[c] # <<>>
      BY <2>6 DEF OnMessage, TypeOK
    <3>2. Head(inflight[c]) \in Alerts /\ Tail(inflight[c]) \in Seq(Alerts)
      BY <3>1, TakeFirst
    <3>3. \A l \in Components : Append(heard[l], Head(inflight[c])) \in Seq(Alerts)
      BY <3>2, PutLast DEF TypeOK
    <3>4. heard' \in [Components -> Seq(Alerts)] /\ inflight' \in [Chains -> Seq(Alerts)]
      BY <2>6, <3>2, <3>3 DEF OnMessage, TypeOK
    <3> QED
      BY <2>0, <2>6, <3>4 DEF OnMessage, TypeOK, BuzzType, hubVars, tabVars
  <2>7. CASE Reload
    <3>1. PICK c \in Chains : phase' = FirstSocket(c, token') /\ ws' = c
      BY <2>7 DEF Reload
    <3>2. token' \in BOOLEAN
      BY <2>7 DEF Reload, TypeOK
    <3>3. phase' \in [Chains -> Attempts \cup {"unused", "open", "waiting"}]
      BY <1>0, <3>1, <3>2
    <3>4. {"buzzer"} \in SUBSET Components /\ calm' \in 0..(MaxRetry + 1)
      BY <2>7 DEF Components, Reload
    <3> QED
      BY <1>0, <2>0, <2>7, <3>1, <3>2, <3>3, <3>4 DEF Reload, TypeOK, BuzzType
  <2>8. CASE Enter
    <3>1. PICK S \in {{"layout"}, {"layout", "page"}} : Subscribe(S, TRUE)
      BY <2>8 DEF Enter
    <3>2. S \in SUBSET Components
      BY DEF Components
    <3> QED
      BY <2>0, <2>2, <2>8, <3>1, <3>2 DEF Enter, Subscribe, TypeOK, BuzzType
  <2>9. CASE Visit
    <3>1. CASE Subscribe({"page"}, token)
      <4>1. {"page"} \in SUBSET Components /\ token \in BOOLEAN
        BY DEF Components, TypeOK
      <4> QED
        BY <2>0, <2>2, <2>9, <3>1, <4>1 DEF Visit, Subscribe, TypeOK, BuzzType
    <3> QED
      BY <2>0, <2>9, <3>1 DEF Visit, TypeOK, BuzzType, hubVars, newsVars
  <2>10. CASE Expire
    BY <2>0, <2>10 DEF Expire, TypeOK, BuzzType, hubVars, newsVars
  <2>11. CASE Broadcast
    <3>1. sent' \in 0..MaxAlerts /\ sent' \in Alerts
      BY <2>11 DEF Broadcast, TypeOK, Alerts
    <3>2. \A c \in Chains : Append(inflight[c], sent') \in Seq(Alerts)
      BY <3>1, PutLast DEF TypeOK
    <3>3. inflight' \in [Chains -> Seq(Alerts)] /\ promised' \in [Components -> SUBSET Alerts]
      BY <2>11, <3>1, <3>2 DEF Broadcast, TypeOK
    <3> QED
      BY <2>0, <2>11, <3>1, <3>3 DEF Broadcast, TypeOK, BuzzType, hubVars, tabVars
  <2>12. CASE ServerTurns
    BY <2>0, <2>12 DEF ServerTurns, TypeOK, BuzzType, hubVars, tabVars, newsVars
  <2>13. ASSUME NEW h \in Handles, BuzzStops(h) PROVE TypeOK'
    BY <2>0, <2>13 DEF BuzzStops, TypeOK, BuzzType, hubVars, tabVars, newsVars
  <2>14. CASE Tick
    <3>1. due' \in [Chains -> 0..MaxRetry]
      BY <2>14 DEF Tick, TypeOK
    <3>2. calm' \in 0..(MaxRetry + 1)
      BY <2>14 DEF Tick, TypeOK, Capped
    <3> QED
      BY <2>0, <2>14, <3>1, <3>2 DEF Tick, TypeOK, BuzzType, tabVars, newsVars
  <2>15. CASE UNCHANGED vars
    BY <2>0, <2>15 DEF TypeOK, BuzzType, vars, hubVars, tabVars, newsVars
  <2> QED
    BY <2>3, <2>4, <2>5, <2>6, <2>7, <2>8, <2>9, <2>10, <2>11, <2>12, <2>13, <2>14, <2>15 DEF Next
<1> QED
  BY <1>1, <1>2, PTL DEF Spec

-----------------------------------------------------------------------------
(* Reconnection.  While a tab is shown as disconnected, the chain that closed  *)
(* last is waiting or connecting; and what is left of any retry delay and the  *)
(* calm before it fit into the longest delay together.                         *)

Retrying ==
    /\ \A c \in Chains : phase[c] = "waiting" => due[c] + calm <= MaxRetry
    /\ ~connected => /\ calm <= MaxRetry
                     /\ \E c \in Chains : phase[c] \in Attempts \cup {"waiting"}

\* What a step that opens a socket does to the phases.
LEMMA ConnectPhases ==
    ASSUME TypeOK, NEW c \in Chains, NEW known \in BOOLEAN, Connect(c, known)
    PROVE  phase'[c] \in Attempts /\ \A d \in Chains \ {c} : phase'[d] = phase[d]
BY DEF Connect, Attempt, Attempts, TypeOK

\* What subscribing does to the phases: nothing, or one more chain.
LEMMA SubscribePhases ==
    ASSUME TypeOK, NEW S, NEW known \in BOOLEAN, Subscribe(S, known)
    PROVE  \/ UNCHANGED <<phase, ws, late>>
           \/ /\ ws = None /\ late'
              /\ \E c \in Chains : /\ phase[c] = "unused" /\ phase'[c] \in Attempts
                                  /\ \A d \in Chains \ {c} : phase'[d] = phase[d]
<1>1. CASE UNCHANGED <<phase, ws, late>>
  BY <1>1
<1>2. CASE ws = None /\ (\E c \in Chains \ InUse : Connect(c, known)) /\ late' = TRUE
  BY <1>2, ConnectPhases DEF InUse
<1> QED
  BY <1>1, <1>2 DEF Subscribe, EnsureConnected

\* The first socket of a page is one attempt.
LEMMA FirstPhases ==
    ASSUME NEW c \in Chains, NEW known
    PROVE  /\ FirstSocket(c, known)[c] \in Attempts
           /\ \A d \in Chains \ {c} : FirstSocket(c, known)[d] = "unused"
BY DEF FirstSocket, Attempt, Attempts

\* A tab that can reach the server and loses no further socket is connected
\* within the longest retry delay: AlertsSocketHub.onclose always sets the timer,
\* and the backoff of the timer stays within its limit.
THEOREM ReconnectCorrect == Spec => []ReconnectsInTime
<1> USE HubAssumption
<1>1. Init => Retrying
  <2> SUFFICES ASSUME Init PROVE Retrying
    OBVIOUS
  <2>1. PICK c \in Chains : phase = FirstSocket(c, token)
    BY DEF Init
  <2> QED
    BY <2>1, FirstPhases DEF Init, Retrying, Attempts
<1>2. TypeOK /\ Retrying /\ [Next]_vars => Retrying'
  <2> SUFFICES ASSUME TypeOK, Retrying, [Next]_vars PROVE Retrying'
    OBVIOUS
  <2>1. ASSUME NEW c \in Chains, OnOpen(c) PROVE Retrying'
    BY <2>1 DEF OnOpen, Retrying, TypeOK
  <2>2. ASSUME NEW c \in Chains, OnClose(c) PROVE Retrying'
    <3>1. /\ phase'[c] = "waiting" /\ due'[c] = retry
          /\ \A d \in Chains \ {c} : phase'[d] = phase[d] /\ due'[d] = due[d]
      BY <2>2 DEF OnClose, TypeOK
    <3>2. calm' = 0 /\ \A d \in Chains : due'[d] <= MaxRetry /\ due'[d] \in Nat
      BY <2>2, <3>1 DEF OnClose, TypeOK
    <3> QED
      BY <3>1, <3>2 DEF Retrying
  <2>3. ASSUME NEW c \in Chains, RetryFires(c) PROVE Retrying'
    <3>1. phase'[c] \in Attempts /\ \A d \in Chains \ {c} : phase'[d] = phase[d]
      BY <2>3, ConnectPhases DEF RetryFires, TypeOK
    <3> QED
      BY <2>3, <3>1 DEF RetryFires, Retrying, Attempts
  <2>4. ASSUME UNCHANGED <<phase, due, connected, calm>> PROVE Retrying'
    BY <2>4 DEF Retrying
  <2>5. ASSUME NEW S, NEW known \in BOOLEAN, Subscribe(S, known) PROVE Retrying'
    <3>1. UNCHANGED <<due, connected, calm>>
      BY <2>5 DEF Subscribe
    <3>2. CASE UNCHANGED phase
      BY <3>1, <3>2, <2>4
    <3>3. CASE \E c \in Chains : /\ phase[c] = "unused" /\ phase'[c] \in Attempts
                                /\ \A d \in Chains \ {c} : phase'[d] = phase[d]
      <4>1. PICK c \in Chains : /\ phase[c] = "unused" /\ phase'[c] \in Attempts
                                /\ \A d \in Chains \ {c} : phase'[d] = phase[d]
        BY <3>3
      <4> QED
        BY <3>1, <4>1 DEF Retrying, Attempts
    <3> QED
      BY <2>5, <3>2, <3>3, SubscribePhases
  <2>6. CASE Reload
    <3>1. PICK c \in Chains : phase' = FirstSocket(c, token')
      BY <2>6 DEF Reload
    <3> QED
      BY <2>6, <3>1, FirstPhases DEF Reload, Retrying, Attempts
  <2>7. CASE Tick
    <3>1. /\ phase' = phase /\ connected' = connected
          /\ \A c \in Chains : phase[c] \notin Attempts
          /\ \A c \in Chains : phase[c] = "waiting" => due[c] > 0 /\ due'[c] = due[c] - 1
      BY <2>7 DEF Tick
    <3>2. calm' \in Nat /\ calm' <= calm + 1 /\ calm \in Nat
      BY <2>7 DEF Tick, Capped, TypeOK
    <3>3. \A c \in Chains : due[c] \in Nat
      BY DEF TypeOK
    <3>4. \A c \in Chains : phase'[c] = "waiting" => due'[c] + calm' <= MaxRetry
      BY <3>1, <3>2, <3>3 DEF Retrying
    <3>5. ASSUME ~connected
          PROVE  /\ calm' <= MaxRetry
                 /\ \E c \in Chains : phase'[c] \in Attempts \cup {"waiting"}
      <4>1. PICK c \in Chains : phase[c] = "waiting"
        BY <3>1, <3>5 DEF Retrying
      <4> QED
        BY <3>1, <3>2, <3>3, <4>1 DEF Retrying
    <3> QED
      BY <3>1, <3>4, <3>5 DEF Retrying
  <2>8. ASSUME NEW c \in Chains, OnMessage(c) PROVE Retrying'
    BY <2>4, <2>8 DEF OnMessage, hubVars
  <2>9. CASE Enter
    BY <2>5, <2>9 DEF Enter
  <2>10. CASE Visit
    BY <2>4, <2>5, <2>10 DEF Visit, hubVars, TypeOK
  <2>11. CASE Expire \/ Broadcast \/ ServerTurns \/ (\E h \in Handles : BuzzStops(h)) \/ UNCHANGED vars
    BY <2>4, <2>11 DEF Expire, Broadcast, ServerTurns, BuzzStops, vars, hubVars
  <2> QED
    BY <2>1, <2>2, <2>3, <2>6, <2>7, <2>8, <2>9, <2>10, <2>11 DEF Next
<1>3. TypeOK /\ Retrying => ReconnectsInTime
  BY DEF TypeOK, Retrying, ReconnectsInTime
<1> QED
  BY <1>1, <1>2, <1>3, TypeCorrect, PTL DEF Spec

-----------------------------------------------------------------------------
(* Promises.  A tab shown as connected has an open socket: only its closing    *)
(* and a reload take a socket away, and both withdraw the display with it.     *)

Shown == connected => Open # {}

\* What no action of the hub and no message touches.
Untouched == UNCHANGED <<connected, heard, promised, inflight>> /\ Open' = Open /\ mounted' \subseteq mounted

LEMMA NewsSets ==
    /\ \A l : Heard(l) = Contents(heard[l])
    /\ \A x : x \in OnTheWay <=> \E c \in Chains : x \in Contents(inflight[c])
BY DEF Heard, OnTheWay, Contents

LEMMA NewsSetsNext ==
    /\ \A l : Heard(l)' = Contents(heard'[l])
    /\ \A x : x \in OnTheWay' <=> \E c \in Chains : x \in Contents(inflight'[c])
BY DEF Heard, OnTheWay, Contents

\* A connection attempt leaves the open sockets and everything heard alone.
LEMMA ConnectKeepsOpen ==
    ASSUME TypeOK, NEW c \in Chains, NEW known \in BOOLEAN, Connect(c, known), phase[c] # "open"
    PROVE  Open' = Open
<1>1. phase'[c] \in Attempts /\ \A d \in Chains \ {c} : phase'[d] = phase[d]
  BY ConnectPhases
<1> QED
  BY <1>1 DEF Open, Attempts

LEMMA SubscribeKeepsOpen ==
    ASSUME TypeOK, NEW S, NEW known \in BOOLEAN, Subscribe(S, known)
    PROVE  Open' = Open
<1>1. CASE UNCHANGED phase
  BY <1>1 DEF Open
<1>2. CASE \E c \in Chains : /\ phase[c] = "unused" /\ phase'[c] \in Attempts
                            /\ \A d \in Chains \ {c} : phase'[d] = phase[d]
  BY <1>2 DEF Open, Attempts
<1> QED
  BY <1>1, <1>2, SubscribePhases

\* An alert sent while a component shows "connected" is heard by its listener or on
\* the way to it, as long as no socket of the tab closes.
THEOREM NoAlertMissedCorrect == Spec => []NoAlertMissed
<1>1. Init => Shown /\ NoAlertMissed
  BY DEF Init, Shown, NoAlertMissed, Components
<1>2. TypeOK /\ Shown /\ NoAlertMissed /\ [Next]_vars => (Shown /\ NoAlertMissed)'
  <2> SUFFICES ASSUME TypeOK, Shown, NoAlertMissed, [Next]_vars PROVE (Shown /\ NoAlertMissed)'
    OBVIOUS
  <2>1. ASSUME Untouched PROVE (Shown /\ NoAlertMissed)'
    <3>1. OnTheWay' = OnTheWay /\ \A l : Heard(l)' = Heard(l)
      BY <2>1 DEF Untouched, OnTheWay, Heard
    <3> QED
      BY <2>1, <3>1 DEF Untouched, Shown, NoAlertMissed
  <2>2. ASSUME NEW c \in Chains, OnOpen(c) PROVE (Shown /\ NoAlertMissed)'
    <3>1. c \in Open'
      BY <2>2 DEF OnOpen, Open, TypeOK
    <3>2. OnTheWay' = OnTheWay /\ \A l : Heard(l)' = Heard(l)
      BY <2>2 DEF OnOpen, OnTheWay, Heard, newsVars
    <3> QED
      BY <2>2, <3>1, <3>2 DEF OnOpen, Shown, NoAlertMissed, newsVars, tabVars
  <2>3. ASSUME NEW c \in Chains, OnClose(c) PROVE (Shown /\ NoAlertMissed)'
    <3>1. ~connected' /\ mounted' \subseteq Components /\ \A l \in Components : promised'[l] = {}
      BY <2>3 DEF OnClose, tabVars, TypeOK
    <3> QED
      BY <3>1 DEF Shown, NoAlertMissed
  <2>4. CASE Reload
    <3>1. ~connected' /\ mounted' \subseteq Components /\ \A l \in Components : promised'[l] = {}
      BY <2>4 DEF Reload, Components
    <3> QED
      BY <3>1 DEF Shown, NoAlertMissed
  <2>5. ASSUME NEW c \in Chains, RetryFires(c) PROVE (Shown /\ NoAlertMissed)'
    <3>1. Open' = Open
      BY <2>5, ConnectKeepsOpen DEF RetryFires, TypeOK
    <3> QED
      BY <2>1, <2>5, <3>1 DEF RetryFires, Untouched, newsVars, tabVars
  <2>6. ASSUME NEW S \in SUBSET Components, NEW known \in BOOLEAN, Subscribe(S, known)
        PROVE  (Shown /\ NoAlertMissed)'
    <3>1. Open' = Open /\ connected' = connected
      BY <2>6, SubscribeKeepsOpen DEF Subscribe
    <3>2. OnTheWay' = OnTheWay
      BY <2>6 DEF Subscribe, OnTheWay
    <3>3. ASSUME NEW l \in mounted' PROVE promised'[l] \subseteq Heard(l)' \cup OnTheWay'
      <4>1. l \in Components /\ (l \notin S => l \in mounted)
        BY <2>6, <3>3 DEF Subscribe, TypeOK
      <4>2. CASE l \in S
        BY <2>6, <4>1, <4>2 DEF Subscribe
      <4>3. CASE l \notin S
        <5>1. promised'[l] = promised[l] /\ heard'[l] = heard[l]
          BY <2>6, <4>1, <4>3 DEF Subscribe
        <5> QED
          BY <3>2, <4>1, <4>3, <5>1 DEF NoAlertMissed, Heard
      <4> QED
        BY <4>2, <4>3
    <3> QED
      BY <3>1, <3>3 DEF Shown, NoAlertMissed
  <2>7. CASE Enter
    <3>1. \A S \in {{"layout"}, {"layout", "page"}} : S \in SUBSET Components
      BY DEF Components
    <3> QED
      BY <2>6, <2>7, <3>1 DEF Enter
  <2>8. CASE Visit
    <3>1. CASE Subscribe({"page"}, token)
      BY <2>6, <3>1 DEF Components, TypeOK
    <3>2. CASE mounted' = mounted \ {"page"} /\ UNCHANGED <<hubVars, late, up, newsVars, buzz, calm>>
      <4>1. Open' = Open
        BY <3>2 DEF Open, hubVars
      <4> QED
        BY <2>1, <3>2, <4>1 DEF Untouched, hubVars, newsVars
    <3> QED
      BY <2>8, <3>1, <3>2 DEF Visit
  <2>9. ASSUME NEW c \in Chains, OnMessage(c) PROVE (Shown /\ NoAlertMissed)'
    <3>1. Open' = Open /\ UNCHANGED <<connected, mounted, promised>>
      BY <2>9 DEF OnMessage, Open, hubVars, tabVars
    <3>2. inflight[c] \in Seq(Alerts) /\ inflight[c] # <<>>
      BY <2>9 DEF OnMessage, TypeOK
    <3>3. PICK k : k = Head(inflight[c])
      OBVIOUS
    <3>4. Contents(inflight[c]) = {k} \cup Contents(Tail(inflight[c])) /\ k \in Alerts
      BY <3>2, <3>3, TakeFirst
    <3>5. /\ inflight'[c] = Tail(inflight[c])
          /\ \A d \in Chains \ {c} : inflight'[d] = inflight[d]
          /\ \A l \in mounted : heard'[l] = Append(heard[l], k)
      BY <2>9, <3>3 DEF OnMessage, TypeOK
    <3>6. \A l \in mounted : Contents(heard'[l]) = Contents(heard[l]) \cup {k}
      <4> SUFFICES ASSUME NEW l \in mounted PROVE Contents(heard'[l]) = Contents(heard[l]) \cup {k}
        OBVIOUS
      <4>1. heard[l] \in Seq(Alerts)
        BY DEF TypeOK
      <4>2. Contents(Append(heard[l], k)) = Contents(heard[l]) \cup {k}
        <5>1. k \in Alerts
          BY <3>4
        <5> QED
          BY <4>1, <5>1, PutLast, SMT
      <4>3. heard'[l] = Append(heard[l], k)
        BY <3>5
      <4> QED
        BY <4>2, <4>3, Zenon
    <3>7. \A x \in OnTheWay : x = k \/ x \in OnTheWay'
      BY <3>4, <3>5, NewsSets, NewsSetsNext
    <3>8. \A l \in mounted : promised[l] \subseteq Heard(l)' \cup OnTheWay'
      BY <3>6, <3>7, NewsSets, NewsSetsNext DEF NoAlertMissed
    <3> QED
      BY <3>1, <3>8 DEF Shown, NoAlertMissed
  <2>10. CASE Broadcast
    <3>1. Open' = Open /\ UNCHANGED <<connected, mounted, heard>>
      BY <2>10 DEF Broadcast, Open, hubVars, tabVars
    <3>2. sent' \in Alerts
      BY <2>10, HubAssumption DEF Broadcast, Alerts, TypeOK
    <3>3. \A c \in Chains : Contents(inflight'[c]) =
             IF c \in Open THEN Contents(inflight[c]) \cup {sent'} ELSE Contents(inflight[c])
      <4> SUFFICES ASSUME NEW c \in Chains
                   PROVE  Contents(inflight'[c]) =
                            IF c \in Open THEN Contents(inflight[c]) \cup {sent'}
                                          ELSE Contents(inflight[c])
        OBVIOUS
      <4>1. inflight'[c] = IF c \in Open THEN Append(inflight[c], sent') ELSE inflight[c]
        BY <2>10 DEF Broadcast
      <4>2. inflight[c] \in Seq(Alerts)
        BY DEF TypeOK
      <4>3. Contents(Append(inflight[c], sent')) = Contents(inflight[c]) \cup {sent'}
        BY <3>2, <4>2, PutLast, SMT
      <4> QED
        BY <4>1, <4>3, Zenon
    <3>4. OnTheWay \subseteq OnTheWay' /\ (connected => sent' \in OnTheWay')
      <4>1. \A c \in Open : c \in Chains
        BY DEF Open
      <4> QED
        BY <3>3, <4>1, NewsSets, NewsSetsNext DEF Shown
    <3>5. \A l \in mounted : promised'[l] \subseteq promised[l] \cup {sent'}
                            /\ (~connected => promised'[l] = promised[l])
      BY <2>10 DEF Broadcast, TypeOK
    <3>6. \A l : Heard(l)' = Heard(l)
      BY <3>1 DEF Heard
    <3> QED
      BY <3>1, <3>4, <3>5, <3>6 DEF Shown, NoAlertMissed
  <2>11. CASE Expire \/ ServerTurns \/ (\E h \in Handles : BuzzStops(h)) \/ Tick \/ UNCHANGED vars
    <3>1. Open' = Open
      BY <2>11 DEF Open, Expire, ServerTurns, BuzzStops, Tick, vars, hubVars
    <3> QED
      BY <2>1, <2>11, <3>1
      DEF Untouched, Expire, ServerTurns, BuzzStops, Tick, vars, hubVars, newsVars, tabVars
  <2> QED
    BY <2>2, <2>3, <2>4, <2>5, <2>7, <2>8, <2>9, <2>10, <2>11 DEF Next
<1> QED
  BY <1>1, <1>2, TypeCorrect, PTL DEF Spec

-----------------------------------------------------------------------------
(* Order.  While no subscription fell into a retry delay there is one chain,   *)
(* its queue is in the order of sending, and behind all that was heard.        *)

Below(A, B) == \A x \in A, y \in B : x < y

LEMMA IncreasingAppend ==
    ASSUME NEW s \in Seq(Alerts), NEW k \in Alerts, Increasing(s), Below(Contents(s), {k})
    PROVE  Increasing(Append(s, k))
<1>1. /\ Len(s) \in Nat /\ Len(Append(s, k)) = Len(s) + 1
      /\ \A i \in 1..Len(s) : Append(s, k)[i] = s[i] /\ s[i] \in Contents(s)
      /\ Append(s, k)[Len(s) + 1] = k
  BY PutLast DEF Contents
<1> SUFFICES ASSUME NEW i \in 1..(Len(s) + 1), NEW j \in 1..(Len(s) + 1), i < j
             PROVE  Append(s, k)[i] < Append(s, k)[j]
  BY <1>1 DEF Increasing
<1>2. i \in 1..Len(s) /\ Append(s, k)[i] = s[i] /\ s[i] \in Contents(s)
  BY <1>1
<1>3. CASE j = Len(s) + 1
  BY <1>1, <1>2, <1>3 DEF Below
<1>4. CASE j \in 1..Len(s)
  BY <1>1, <1>2, <1>4 DEF Increasing
<1> QED
  BY <1>1, <1>3, <1>4

LEMMA IncreasingTail ==
    ASSUME NEW s \in Seq(Alerts), s # <<>>, Increasing(s)
    PROVE  Increasing(Tail(s)) /\ Below({Head(s)}, Contents(Tail(s)))
<1>1. /\ Head(s) = s[1] /\ Len(s) \in Nat \ {0} /\ Len(Tail(s)) = Len(s) - 1
      /\ \A i \in 1..Len(Tail(s)) : Tail(s)[i] = s[i + 1]
  BY TakeFirst
<1>2. \A i \in 1..Len(Tail(s)) : i + 1 \in 1..Len(s) /\ 1 \in 1..Len(s) /\ 1 < i + 1
  BY <1>1
<1>3. Increasing(Tail(s))
  BY <1>1, <1>2 DEF Increasing
<1>4. Below({Head(s)}, Contents(Tail(s)))
  BY <1>1, <1>2 DEF Increasing, Below, Contents
<1> QED
  BY <1>3, <1>4

LEMMA ContentsAreAlerts == ASSUME NEW s \in Seq(Alerts) PROVE Contents(s) \subseteq Alerts
BY ElementOfSeq, LenProperties DEF Contents

LEMMA IncreasingNothing == Increasing(<<>>) /\ Contents(<<>>) = {}
BY EmptySeq DEF Increasing, Contents

OneChain == \A c, d \in Chains : phase[c] # "unused" /\ phase[d] # "unused" => c = d

InOrder ==
    /\ \A c \in Chains : phase[c] # "open" => inflight[c] = <<>>
    /\ ~late =>
        /\ OneChain
        /\ \A l \in Components : /\ Increasing(heard[l])
                                 /\ \A x \in Contents(heard[l]) : x <= sent
                                 /\ \A c \in Chains : Below(Contents(heard[l]), Contents(inflight[c]))
        /\ \A c \in Chains : /\ Increasing(inflight[c])
                             /\ \A x \in Contents(inflight[c]) : x <= sent

\* Without a subscription during a retry delay, each listener hears each alert at
\* most once and in the order of sending: the hub then keeps to one socket.
THEOREM HeardOnceCorrect == Spec => []HeardOnce
<1> USE HubAssumption
<1>1. Init => InOrder
  <2> SUFFICES ASSUME Init PROVE InOrder
    OBVIOUS
  <2>1. PICK c \in Chains : phase = FirstSocket(c, token)
    BY DEF Init
  <2>2. OneChain
    BY <2>1, FirstPhases DEF OneChain
  <2>3. /\ \A d \in Chains : inflight[d] = <<>>
        /\ \A l \in Components : heard[l] = <<>>
    BY DEF Init, NothingHeard
  <2> QED
    BY <2>2, <2>3, IncreasingNothing DEF InOrder, Below
<1>2. TypeOK /\ InOrder /\ [Next]_vars => InOrder'
  <2> SUFFICES ASSUME TypeOK, InOrder, [Next]_vars PROVE InOrder'
    OBVIOUS
  <2>1. ASSUME UNCHANGED <<phase, late, sent, inflight, heard>> PROVE InOrder'
    BY <2>1 DEF InOrder, OneChain
  <2>2. ASSUME NEW c \in Chains, phase[c] # "unused", phase'[c] # "unused",
               \A d \in Chains \ {c} : phase'[d] = phase[d],
               \/ inflight' = inflight /\ (phase'[c] # "open" => phase[c] # "open")
               \/ inflight' = [inflight EXCEPT ![c] = <<>>],
               UNCHANGED <<late, sent, heard>>
        PROVE  InOrder'
    <3>1. OneChain => OneChain'
      BY <2>2 DEF OneChain
    <3>2. \A d \in Chains : inflight'[d] = inflight[d] \/ inflight'[d] = <<>>
      BY <2>2 DEF InOrder, TypeOK
    <3>3. ASSUME ~late, NEW d \in Chains
          PROVE  /\ Increasing(inflight'[d]) /\ \A x \in Contents(inflight'[d]) : x <= sent
                 /\ \A l \in Components : Below(Contents(heard[l]), Contents(inflight'[d]))
      <4>1. CASE inflight'[d] = inflight[d]
        BY <3>3, <4>1 DEF InOrder
      <4>2. CASE inflight'[d] = <<>>
        BY <4>2, IncreasingNothing DEF Below
      <4>3. inflight'[d] = inflight[d] \/ inflight'[d] = <<>>
        BY <3>2, Zenon
      <4> QED
        BY <4>1, <4>2, <4>3, Zenon
    <3>4. late' = late /\ sent' = sent /\ heard' = heard
      BY <2>2
    <3>5. ~late => /\ OneChain'
                   /\ \A l \in Components : /\ Increasing(heard[l])
                                            /\ \A x \in Contents(heard[l]) : x <= sent
      BY <3>1 DEF InOrder
    <3>6. \A d \in Chains : phase'[d] # "open" => inflight'[d] = <<>>
      BY <2>2 DEF InOrder, TypeOK
    <3> QED
      BY <3>3, <3>4, <3>5, <3>6, Zenon DEF InOrder
  <2>3. ASSUME NEW c \in Chains, OnOpen(c) PROVE InOrder'
    BY <2>2, <2>3 DEF OnOpen, TypeOK, tabVars, newsVars
  <2>4. ASSUME NEW c \in Chains, OnClose(c) PROVE InOrder'
    BY <2>2, <2>4 DEF OnClose, TypeOK, tabVars, Attempts
  <2>5. ASSUME NEW c \in Chains, RetryFires(c) PROVE InOrder'
    <3>1. phase'[c] \in Attempts /\ \A d \in Chains \ {c} : phase'[d] = phase[d]
      BY <2>5, ConnectPhases DEF RetryFires, TypeOK
    <3> QED
      BY <2>2, <2>5, <3>1 DEF RetryFires, tabVars, newsVars, Attempts
  <2>6. ASSUME NEW S, NEW known \in BOOLEAN, Subscribe(S, known) PROVE InOrder'
    <3>1. /\ UNCHANGED <<sent, inflight>>
          /\ \A l \in Components : heard'[l] = heard[l] \/ heard'[l] = <<>>
      BY <2>6 DEF Subscribe
    <3>2. CASE UNCHANGED <<phase, late>>
      BY <3>1, <3>2, IncreasingNothing DEF InOrder, OneChain, Below
    <3>3. CASE late' /\ \E c \in Chains : /\ phase[c] = "unused" /\ phase'[c] \in Attempts
                                          /\ \A d \in Chains \ {c} : phase'[d] = phase[d]
      BY <3>1, <3>3 DEF InOrder
    <3> QED
      BY <2>6, <3>2, <3>3, SubscribePhases
  <2>7. CASE Reload
    <3>1. PICK c \in Chains : phase' = FirstSocket(c, token')
      BY <2>7 DEF Reload
    <3>2. OneChain'
      BY <3>1, FirstPhases DEF OneChain
    <3>3. /\ \A d \in Chains : inflight'[d] = <<>>
          /\ \A l \in Components : heard'[l] = <<>>
      BY <2>7 DEF Reload, NothingHeard
    <3> QED
      BY <3>2, <3>3, IncreasingNothing DEF InOrder, Below
  <2>8. CASE Enter
    BY <2>6, <2>8 DEF Enter
  <2>9. CASE Visit
    BY <2>1, <2>6, <2>9 DEF Visit, hubVars, newsVars, TypeOK
  <2>10. ASSUME NEW c \in Chains, OnMessage(c) PROVE InOrder'
    <3>1. inflight[c] \in Seq(Alerts) /\ inflight[c] # <<>> /\ UNCHANGED <<phase, late, sent>>
      BY <2>10 DEF OnMessage, TypeOK, hubVars, tabVars
    <3>2. PICK k : k = Head(inflight[c])
      OBVIOUS
    <3>3. /\ inflight'[c] = Tail(inflight[c])
          /\ \A d \in Chains \ {c} : inflight'[d] = inflight[d]
          /\ \A l \in Components : heard'[l] = heard[l] \/ heard'[l] = Append(heard[l], k)
      BY <2>10, <3>2 DEF OnMessage, TypeOK
    <3>4. k \in Alerts /\ Contents(inflight[c]) = {k} \cup Contents(Tail(inflight[c]))
      BY <3>1, <3>2, TakeFirst
    <3>5. phase[c] = "open"
      BY <3>1 DEF InOrder
    <3>6. \A d \in Chains : phase'[d] # "open" => inflight'[d] = <<>>
      BY <3>1, <3>3, <3>5 DEF InOrder
    <3>7. ASSUME ~late
          PROVE  /\ OneChain'
                 /\ \A l \in Components :
                      /\ Increasing(heard'[l])
                      /\ \A x \in Contents(heard'[l]) : x <= sent
                      /\ \A d \in Chains : Below(Contents(heard'[l]), Contents(inflight'[d]))
                 /\ \A d \in Chains : /\ Increasing(inflight'[d])
                                      /\ \A x \in Contents(inflight'[d]) : x <= sent
      <4>1. OneChain' /\ \A d \in Chains \ {c} : inflight'[d] = <<>>
        BY <3>1, <3>3, <3>5, <3>7 DEF InOrder, OneChain
      <4>2. /\ Increasing(Tail(inflight[c]))
            /\ Below({k}, Contents(Tail(inflight[c])))
        BY <3>1, <3>2, <3>7, IncreasingTail DEF InOrder
      <4>3. \A d \in Chains : /\ Increasing(inflight'[d])
                             /\ \A x \in Contents(inflight'[d]) : x <= sent
        <5>1. \A x \in Contents(Tail(inflight[c])) : x <= sent
          BY <3>4, <3>7 DEF InOrder
        <5> QED
          BY <3>3, <4>1, <4>2, <5>1, IncreasingNothing
      <4>4. ASSUME NEW l \in Components
            PROVE  /\ Increasing(heard'[l])
                   /\ \A x \in Contents(heard'[l]) : x <= sent
                   /\ \A d \in Chains : Below(Contents(heard'[l]), Contents(inflight'[d]))
        <5>1. /\ Increasing(heard[l]) /\ \A x \in Contents(heard[l]) : x <= sent
              /\ Below(Contents(heard[l]), Contents(inflight[c]))
              /\ heard[l] \in Seq(Alerts) /\ k <= sent
          BY <3>4, <3>7 DEF InOrder, TypeOK
        <5>2. Below(Contents(heard[l]), {k}) /\ Below(Contents(heard[l]), Contents(Tail(inflight[c])))
          BY <3>4, <5>1 DEF Below
        <5>3. /\ Increasing(Append(heard[l], k))
              /\ Contents(Append(heard[l], k)) = Contents(heard[l]) \cup {k}
          <6>1. k \in Alerts /\ heard[l] \in Seq(Alerts)
            BY <3>4, <5>1
          <6>2. Contents(Append(heard[l], k)) = Contents(heard[l]) \cup {k}
            BY <6>1, PutLast, SMT
          <6> QED
            BY <5>1, <5>2, <6>1, <6>2, IncreasingAppend
        <5>4. Below(Contents(heard[l]) \cup {k}, Contents(Tail(inflight[c])))
          BY <4>2, <5>2 DEF Below
        <5>5. /\ Increasing(heard'[l])
              /\ Contents(heard'[l]) \subseteq Contents(heard[l]) \cup {k}
          BY <3>3, <5>1, <5>3
        <5>6. \A d \in Chains : Below(Contents(heard'[l]), Contents(inflight'[d]))
          BY <3>3, <4>1, <5>4, <5>5, IncreasingNothing DEF Below
        <5> QED
          BY <5>1, <5>5, <5>6
      <4> QED
        BY <4>1, <4>3, <4>4
    <3> QED
      BY <3>1, <3>6, <3>7 DEF InOrder
  <2>11. CASE Broadcast
    <3>1. UNCHANGED <<phase, late, heard>> /\ sent' = sent + 1 /\ sent' \in Alerts /\ sent \in Nat
      BY <2>11 DEF Broadcast, hubVars, tabVars, TypeOK, Alerts
    <3>2. \A c \in Chains : inflight'[c] = IF phase[c] = "open" THEN Append(inflight[c], sent')
                                                              ELSE inflight[c]
      BY <2>11 DEF Broadcast, Open
    <3>3. ASSUME NEW c \in Chains
          PROVE  /\ Contents(inflight[c]) \subseteq Nat
                 /\ Contents(inflight'[c]) \subseteq Contents(inflight[c]) \cup {sent'}
                 /\ (~late => Increasing(inflight'[c]))
      <4>1. inflight[c] \in Seq(Alerts) /\ sent' \in Alerts
        BY <3>1 DEF TypeOK
      <4>2. Contents(Append(inflight[c], sent')) = Contents(inflight[c]) \cup {sent'}
        BY <4>1, PutLast, SMT
      <4>3. Contents(inflight[c]) \subseteq Nat
        BY <4>1, ContentsAreAlerts DEF Alerts
      <4>4. ~late => Increasing(inflight[c]) /\ Below(Contents(inflight[c]), {sent'})
        <5>1. ~late => Increasing(inflight[c]) /\ \A x \in Contents(inflight[c]) : x <= sent
          BY DEF InOrder
        <5>2. ASSUME NEW x \in Contents(inflight[c]), x <= sent PROVE x < sent'
          BY <3>1, <4>3, <5>2
        <5> QED
          BY <5>1, <5>2 DEF Below
      <4>5. ~late => Increasing(Append(inflight[c], sent'))
        BY <4>1, <4>4, IncreasingAppend
      <4> QED
        BY <3>2, <4>2, <4>3, <4>4, <4>5
    <3>4. ASSUME NEW l \in Components PROVE Contents(heard[l]) \subseteq Nat
      <4>1. heard[l] \in Seq(Alerts)
        BY DEF TypeOK
      <4> QED
        BY <4>1, ContentsAreAlerts DEF Alerts
    <3>5. \A c \in Chains : phase'[c] # "open" => inflight'[c] = <<>>
      BY <3>1, <3>2 DEF InOrder
    <3>6. ~late => /\ OneChain'
                   /\ \A l \in Components : Increasing(heard'[l])
                   /\ \A l \in Components : \A x \in Contents(heard'[l]) : x <= sent'
                   /\ \A l \in Components, c \in Chains :
                        Below(Contents(heard'[l]), Contents(inflight'[c]))
                   /\ \A c \in Chains : \A x \in Contents(inflight'[c]) : x <= sent'
      <4> SUFFICES ASSUME ~late
                   PROVE  /\ OneChain'
                          /\ \A l \in Components : Increasing(heard'[l])
                          /\ \A l \in Components : \A x \in Contents(heard'[l]) : x <= sent'
                          /\ \A l \in Components, c \in Chains :
                               Below(Contents(heard'[l]), Contents(inflight'[c]))
                          /\ \A c \in Chains : \A x \in Contents(inflight'[c]) : x <= sent'
        OBVIOUS
      <4>1. OneChain' /\ \A l \in Components : Increasing(heard'[l])
        BY <3>1 DEF InOrder, OneChain
      <4>2. \A l \in Components : \A x \in Contents(heard[l]) : x <= sent /\ x <= sent' /\ x < sent'
        BY <3>1, <3>4 DEF InOrder
      <4>3. \A l \in Components, c \in Chains :
               Below(Contents(heard'[l]), Contents(inflight'[c]))
        <5> SUFFICES ASSUME NEW l \in Components, NEW c \in Chains,
                            NEW x \in Contents(heard[l]), NEW y \in Contents(inflight'[c])
                     PROVE  x < y
          BY <3>1 DEF Below
        <5>1. y \in Contents(inflight[c]) => x < y
          BY DEF InOrder, Below
        <5> QED
          BY <3>3, <4>2, <5>1
      <4>4. \A c \in Chains : \A x \in Contents(inflight'[c]) : x <= sent'
        <5> SUFFICES ASSUME NEW c \in Chains, NEW x \in Contents(inflight'[c]) PROVE x <= sent'
          OBVIOUS
        <5>1. x = sent' \/ (x \in Nat /\ x <= sent)
          BY <3>3 DEF InOrder
        <5> QED
          BY <3>1, <5>1
      <4> QED
        BY <3>1, <4>1, <4>2, <4>3, <4>4
    <3> QED
      BY <3>1, <3>3, <3>5, <3>6 DEF InOrder
  <2>12. CASE Expire \/ ServerTurns \/ (\E h \in Handles : BuzzStops(h)) \/ Tick \/ UNCHANGED vars
    BY <2>1, <2>12
    DEF Expire, ServerTurns, BuzzStops, Tick, vars, hubVars, newsVars, tabVars
  <2> QED
    BY <2>3, <2>4, <2>5, <2>7, <2>8, <2>9, <2>10, <2>11, <2>12 DEF Next
<1>3. InOrder => HeardOnce
  BY DEF InOrder, HeardOnce
<1> QED
  BY <1>1, <1>2, <1>3, TypeCorrect, PTL DEF Spec

-----------------------------------------------------------------------------
(* The refs name all that runs: nothing, or one interval and one stop timer.   *)

BuzzOrSilence ==
    \/ /\ redBuzzIntervalRef = None /\ redBuzzStopRef = None
       /\ intervals = {} /\ stops = NoTimer
    \/ \E h \in Handles, n \in 0..BuzzLength :
          /\ redBuzzIntervalRef = h /\ redBuzzStopRef = h
          /\ intervals = {h}
          /\ stops = [NoTimer EXCEPT ![h] = n]

\* stopRedBuzz leaves nothing running.
LEMMA StopLeavesNothing == BuzzOrSilence => Uncleared = {} /\ Stopped = NoTimer
<1>1. CASE redBuzzStopRef = None /\ intervals = {} /\ stops = NoTimer
  BY <1>1 DEF Uncleared, Stopped, NoTimer
<1>2. ASSUME NEW h \in Handles, NEW n \in 0..BuzzLength, redBuzzIntervalRef = h, redBuzzStopRef = h,
             intervals = {h}, stops = [NoTimer EXCEPT ![h] = n]
      PROVE  Uncleared = {} /\ Stopped = NoTimer
  BY <1>2 DEF Uncleared, Stopped, NoTimer
<1> QED
  BY <1>1, <1>2 DEF BuzzOrSilence

\* A red alert during a buzz, however near its end, leaves neither an interval
\* that beeps on nor a timer that would end the new buzz early; every buzz has
\* its one stop timer.
THEOREM BuzzEndsCorrect == Spec => []BuzzEnds
<1> USE HubAssumption
<1>1. Init => BuzzOrSilence
  BY DEF Init, BuzzOrSilence
<1>2. BuzzOrSilence /\ BuzzMove => BuzzOrSilence'
  <2> SUFFICES ASSUME BuzzOrSilence, BuzzMove PROVE BuzzOrSilence'
    OBVIOUS
  <2>1. CASE UNCHANGED buzz
    BY <2>1 DEF BuzzOrSilence, buzz
  <2>2. CASE Silenced
    BY <2>2 DEF BuzzOrSilence, Silenced
  <2>3. CASE StartRedBuzz
    <3>1. BuzzLength \in 0..BuzzLength
      OBVIOUS
    <3>2. PICK h \in Handles : /\ redBuzzIntervalRef' = h /\ redBuzzStopRef' = h
                              /\ intervals' = {h} /\ stops' = [NoTimer EXCEPT ![h] = BuzzLength]
      BY <2>3, StopLeavesNothing DEF StartRedBuzz
    <3> QED
      BY <3>1, <3>2 DEF BuzzOrSilence
  <2>4. ASSUME NEW h \in Handles, StopFires(h) PROVE BuzzOrSilence'
    <3>1. [NoTimer EXCEPT ![h] = Never] = NoTimer
      BY DEF NoTimer
    <3> QED
      BY <2>4, <3>1, StopLeavesNothing DEF BuzzOrSilence, StopFires, StopRedBuzz
  <2>5. CASE TimersTick
    <3>1. CASE redBuzzIntervalRef = None /\ redBuzzStopRef = None /\ intervals = {} /\ stops = NoTimer
      <4>1. stops' = NoTimer
        BY <2>5, <3>1 DEF TimersTick, Timers, NoTimer
      <4> QED
        BY <2>5, <3>1, <4>1 DEF TimersTick, BuzzOrSilence
    <3>2. ASSUME NEW h \in Handles, NEW n \in 0..BuzzLength,
                 redBuzzIntervalRef = h, redBuzzStopRef = h, intervals = {h},
                 stops = [NoTimer EXCEPT ![h] = n]
          PROVE  BuzzOrSilence'
      <4>1. stops[h] = n /\ n > 0 /\ \A g \in Handles \ {h} : stops[g] = Never
        BY <2>5, <3>2 DEF TimersTick, NoTimer
      <4>2. n - 1 \in 0..BuzzLength /\ n # Never
        BY <4>1 DEF Never
      <4>3. stops' = [NoTimer EXCEPT ![h] = n - 1]
        BY <2>5, <4>1, <4>2 DEF TimersTick, Timers, NoTimer
      <4> QED
        BY <2>5, <3>2, <4>2, <4>3 DEF TimersTick, BuzzOrSilence
    <3> QED
      BY <3>1, <3>2 DEF BuzzOrSilence
  <2> QED
    BY <2>1, <2>2, <2>3, <2>4, <2>5 DEF BuzzMove
<1>3. BuzzOrSilence => BuzzEnds
  <2>1. CASE intervals = {} /\ stops = NoTimer
    BY <2>1 DEF BuzzEnds, Timers, NoTimer
  <2>2. ASSUME NEW h \in Handles, NEW n \in 0..BuzzLength, intervals = {h},
               stops = [NoTimer EXCEPT ![h] = n]
        PROVE  BuzzEnds
    <3>1. n # Never /\ stops[h] = n /\ n <= BuzzLength
      BY <2>2 DEF Never, NoTimer
    <3>2. Timers = {h}
      BY <2>2, <3>1 DEF Timers, NoTimer
    <3> QED
      BY <2>2, <3>1, <3>2 DEF BuzzEnds
  <2> QED
    BY <2>1, <2>2 DEF BuzzOrSilence
<1> QED
  BY <1>1, <1>2, <1>3, BuzzMoves, PTL DEF Spec

================================================================================
