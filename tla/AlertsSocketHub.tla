---------------------------- MODULE AlertsSocketHub ----------------------------
(***************************************************************************)
(* One browser tab of an operator: the AlertsSocketHub all components      *)
(* share (frontend/src/services/alertsSocket.ts), the hooks that subscribe *)
(* to it and drive the buzzer (hooks/useAlertsSocket.ts), and the          *)
(* components that use the hooks: AlertBuzzer from the first moment,       *)
(* Layout once the user is known, and the page in the Layout, if it is one *)
(* that listens.                                                           *)
(*                                                                         *)
(* A socket that closes sets a timer, the timer opens the next socket, and *)
(* nobody ever calls close(): what once began is a chain of sockets and    *)
(* timers without an end.  The hub remembers only the socket it opened     *)
(* last.  Callbacks of the browser are one step each.                      *)
(*                                                                         *)
(* Time advances by Tick, in units of the first retry delay, and waits for *)
(* due timers and for the answer to a connection attempt.                  *)
(***************************************************************************)
EXTENDS Naturals, Sequences, FiniteSets

CONSTANTS
    Chains,        \* bound: chains of sockets in a behaviour
    None,
    FirstRetry,    \* retryMs = 1000
    MaxRetry,      \* 15000
    BuzzLength,    \* RED_BUZZ_DURATION_MS
    Handles,       \* bound: what setInterval and setTimeout can return at a time
    MaxAlerts      \* bound: alerts the server sends in a behaviour

ASSUME HubAssumption ==
    /\ None \notin Chains \cup Handles
    /\ FirstRetry \in Nat \ {0}
    /\ MaxRetry \in Nat
    /\ FirstRetry <= MaxRetry
    /\ BuzzLength \in Nat
    /\ MaxAlerts \in Nat

VARIABLES
    phase,      \* chain -> "unused", a socket that is "connecting", "refused" (it
                \* will be: it carries no valid token) or "open", or "waiting"
    due,        \* chain -> what is left of its retry delay while it waits
    ws,         \* this.ws: the chain whose socket it is, or None
    retry,      \* this.retryMs
    connected,  \* this.connected, and what every component shows
    token,      \* whether localStorage holds a token the server accepts
    mounted,    \* the components whose listeners are subscribed
    up,         \* whether the server runs
    sent,       \* number of alerts the server broadcast
    red,        \* those of a crossed red line
    inflight,   \* chain -> alerts on the way to its open socket
    heard,      \* component -> the alerts its listener was called with
    redBuzzIntervalRef, redBuzzStopRef,  \* AlertBuzzer: a handle each, or None
    intervals,  \* the intervals that beep, whether a ref still names them or not
    stops,      \* handle -> what is left until its stop timer fires
    promised,   \* history: component -> alerts sent while it was shown as connected
    late,       \* history: whether a component subscribed during a retry delay
    calm        \* history: ticks since the server could be reached and no socket closed

hubVars == <<phase, due, ws, retry, connected>>
tabVars == <<token, mounted, late>>
newsVars == <<sent, red, inflight, heard, promised>>
buzz == <<redBuzzIntervalRef, redBuzzStopRef, intervals, stops>>
vars == <<hubVars, tabVars, up, newsVars, buzz, calm>>

Components == {"buzzer", "layout", "page"}
Alerts == 1..MaxAlerts
Attempts == {"connecting", "refused"}
InUse == {c \in Chains : phase[c] # "unused"}
Open == {c \in Chains : phase[c] = "open"}

Never == BuzzLength + 1     \* the timer is not set
Timers == {h \in Handles : stops[h] # Never}

Capped(n, limit) == IF n < limit THEN n ELSE limit

\* The socket of a chain, opened with the token of that moment (getWsUrl).
Attempt(known) == IF known THEN "connecting" ELSE "refused"

-----------------------------------------------------------------------------
\* A page that was just loaded: AlertBuzzer subscribes, logged in or not.
FirstSocket(c, known) == [d \in Chains |-> IF d = c THEN Attempt(known) ELSE "unused"]
NothingHeard == [l \in Components |-> <<>>]
NoTimer == [h \in Handles |-> Never]

Init ==
    /\ token \in BOOLEAN
    /\ \E c \in Chains : phase = FirstSocket(c, token) /\ ws = c
    /\ due = [c \in Chains |-> 0]
    /\ retry = FirstRetry
    /\ connected = FALSE
    /\ mounted = {"buzzer"}
    /\ late = FALSE
    /\ up \in BOOLEAN
    /\ sent = 0
    /\ red = {}
    /\ inflight = [c \in Chains |-> <<>>]
    /\ heard = NothingHeard
    /\ promised = [l \in Components |-> {}]
    /\ redBuzzIntervalRef = None /\ redBuzzStopRef = None
    /\ intervals = {} /\ stops = NoTimer
    /\ calm = 0

\* A reload takes the timers of the document along.
Silenced ==
    /\ redBuzzIntervalRef' = None /\ redBuzzStopRef' = None
    /\ intervals' = {} /\ stops' = NoTimer

\* A reload by the user, or the one after logging out or a request refused with 401.
Reload ==
    /\ token' \in {token, FALSE}
    /\ \E c \in Chains : phase' = FirstSocket(c, token') /\ ws' = c
    /\ due' = [c \in Chains |-> 0]
    /\ retry' = FirstRetry
    /\ connected' = FALSE
    /\ mounted' = {"buzzer"}
    /\ late' = FALSE
    /\ inflight' = [c \in Chains |-> <<>>]
    /\ heard' = NothingHeard
    /\ promised' = [l \in Components |-> {}]
    /\ Silenced
    /\ calm' = 0
    /\ UNCHANGED <<up, sent, red>>

-----------------------------------------------------------------------------
\* The hub.

Connect(c, known) ==
    /\ phase' = [phase EXCEPT ![c] = Attempt(known)]
    /\ ws' = c

\* A mutant: connects without a look at ws.
EnsureConnectedAgain(known) ==
    /\ \E c \in Chains \ InUse : Connect(c, known)
    /\ UNCHANGED late

EnsureConnected(known) ==
    \/ /\ ws # None
       /\ UNCHANGED <<phase, ws, late>>
    \/ /\ ws = None
       /\ \E c \in Chains \ InUse : Connect(c, known)
       /\ late' = TRUE

\* Effects of the components in S: each subscribes its listener, anew.
Subscribe(S, known) ==
    /\ mounted' = (mounted \ {"page"}) \cup S
    /\ heard' = [l \in Components |-> IF l \in S THEN <<>> ELSE heard[l]]
    /\ promised' = [l \in Components |-> IF l \in S THEN {} ELSE promised[l]]
    /\ EnsureConnected(known)
    /\ UNCHANGED <<due, retry, connected, up, sent, red, inflight, buzz, calm>>

OnOpen(c) ==
    /\ phase[c] = "connecting"
    /\ up
    /\ phase' = [phase EXCEPT ![c] = "open"]
    /\ retry' = FirstRetry
    /\ connected' = TRUE
    /\ UNCHANGED <<due, ws, tabVars, up, newsVars, buzz, calm>>

\* A mutant: onclose leaves connected alone.
OnCloseUntold(c) ==
    /\ phase[c] \in Attempts \cup {"open"}
    /\ phase' = [phase EXCEPT ![c] = "waiting"]
    /\ due' = [due EXCEPT ![c] = retry]
    /\ ws' = None
    /\ inflight' = [inflight EXCEPT ![c] = <<>>]
    /\ promised' = [l \in Components |-> {}]
    /\ calm' = 0
    /\ UNCHANGED <<retry, connected, tabVars, up, sent, red, heard, buzz>>

\* A mutant: onclose sets no timer.
OnCloseForGood(c) ==
    /\ phase[c] \in Attempts \cup {"open"}
    /\ phase' = [phase EXCEPT ![c] = "unused"]
    /\ ws' = None
    /\ connected' = FALSE
    /\ inflight' = [inflight EXCEPT ![c] = <<>>]
    /\ promised' = [l \in Components |-> {}]
    /\ calm' = 0
    /\ UNCHANGED <<due, retry, tabVars, up, sent, red, heard, buzz>>

\* A socket closes: the server refuses or drops it, or the network does.
OnClose(c) ==
    /\ phase[c] \in Attempts \cup {"open"}
    /\ phase' = [phase EXCEPT ![c] = "waiting"]
    /\ due' = [due EXCEPT ![c] = retry]
    /\ ws' = None
    /\ connected' = FALSE
    /\ inflight' = [inflight EXCEPT ![c] = <<>>]
    /\ promised' = [l \in Components |-> {}]
    /\ calm' = 0
    /\ UNCHANGED <<retry, tabVars, up, sent, red, heard, buzz>>

\* A mutant: the delay doubles without limit.
RetryDelayUncapped == 2 * retry

RetryDelay == Capped(2 * retry, MaxRetry)

RetryFires(c) ==
    /\ phase[c] = "waiting"
    /\ due[c] = 0
    /\ retry' = RetryDelay
    /\ Connect(c, token)
    /\ UNCHANGED <<due, connected, tabVars, up, newsVars, buzz, calm>>

-----------------------------------------------------------------------------
\* AlertBuzzer.

\* stopRedBuzz clears what the refs name, and nothing else.
Uncleared == intervals \ {redBuzzIntervalRef}
Stopped == [h \in Handles |-> IF h = redBuzzStopRef THEN Never ELSE stops[h]]

StopRedBuzz ==
    /\ redBuzzIntervalRef' = None
    /\ redBuzzStopRef' = None
    /\ intervals' = Uncleared

\* A mutant: a buzz starts beside the one under way.
StartRedBuzzBeside ==
    \E h \in Handles \ (intervals \cup Timers) :
        /\ redBuzzIntervalRef' = h
        /\ redBuzzStopRef' = h
        /\ intervals' = intervals \cup {h}
        /\ stops' = [stops EXCEPT ![h] = BuzzLength]

\* It stops a buzz under way before it sets the two timers of the next (one name
\* for both handles: an interval and a timeout are not mistaken for one another).
StartRedBuzz ==
    \E h \in Handles :
        /\ h \notin Uncleared /\ Stopped[h] = Never
        /\ redBuzzIntervalRef' = h
        /\ redBuzzStopRef' = h
        /\ intervals' = Uncleared \cup {h}
        /\ stops' = [Stopped EXCEPT ![h] = BuzzLength]

\* A stop timer fires, whether the ref names it or not.
BuzzStops(h) ==
    /\ stops[h] = 0
    /\ StopRedBuzz
    /\ stops' = [Stopped EXCEPT ![h] = Never]
    /\ UNCHANGED <<hubVars, tabVars, up, newsVars, calm>>

\* The hub hands a message to every listener; that of AlertBuzzer is always there.
OnMessage(c) ==
    /\ inflight[c] # <<>>
    /\ LET k == Head(inflight[c]) IN
       /\ heard' = [l \in Components |-> IF l \in mounted THEN Append(heard[l], k) ELSE heard[l]]
       /\ IF k \in red THEN StartRedBuzz ELSE UNCHANGED buzz
    /\ inflight' = [inflight EXCEPT ![c] = Tail(@)]
    /\ UNCHANGED <<hubVars, tabVars, up, sent, red, promised, calm>>

-----------------------------------------------------------------------------
\* The components around it.

\* The user is known, by logging in or from the stored token: Layout mounts, with
\* a page that listens or one that does not.
Enter ==
    /\ "layout" \notin mounted
    /\ up
    /\ \E login \in BOOLEAN, S \in {{"layout"}, {"layout", "page"}} :
           /\ login => S = {"layout", "page"}      \* it leads to the dashboard
           /\ ~login => token
           /\ token' = TRUE
           /\ Subscribe(S, TRUE)

\* From one page to another.
Visit ==
    /\ "layout" \in mounted
    /\ \/ Subscribe({"page"}, token)
       \/ /\ mounted' = mounted \ {"page"}
          /\ UNCHANGED <<hubVars, late, up, newsVars, buzz, calm>>
    /\ UNCHANGED token

\* The token runs out; sockets that are open stay open.
Expire ==
    /\ token
    /\ token' = FALSE
    /\ UNCHANGED <<hubVars, mounted, late, up, newsVars, buzz, calm>>

-----------------------------------------------------------------------------
\* The server, and time.

Broadcast ==
    /\ up
    /\ sent < MaxAlerts
    /\ sent' = sent + 1
    /\ red' \in {red, red \cup {sent'}}
    /\ inflight' = [c \in Chains |-> IF c \in Open THEN Append(inflight[c], sent') ELSE inflight[c]]
    /\ promised' = [l \in Components |->
                        IF connected /\ l \in mounted THEN promised[l] \cup {sent'} ELSE promised[l]]
    /\ UNCHANGED <<hubVars, tabVars, up, heard, buzz, calm>>

\* The server comes back after the browser noticed that its sockets were closed.
ServerTurns ==
    /\ up \/ Open = {}
    /\ up' = ~up
    /\ UNCHANGED <<hubVars, tabVars, newsVars, buzz, calm>>

Tick ==
    /\ \A c \in Chains : phase[c] \notin Attempts /\ (phase[c] = "waiting" => due[c] > 0)
    /\ \A h \in Handles : stops[h] > 0
    /\ due' = [c \in Chains |-> IF phase[c] = "waiting" THEN due[c] - 1 ELSE due[c]]
    /\ stops' = [h \in Handles |-> IF h \in Timers THEN stops[h] - 1 ELSE Never]
    /\ calm' = IF up /\ token THEN Capped(calm + 1, MaxRetry + 1) ELSE 0
    /\ UNCHANGED <<phase, ws, retry, connected, tabVars, up, newsVars>>
    /\ UNCHANGED <<redBuzzIntervalRef, redBuzzStopRef, intervals>>

Next ==
    \/ \E c \in Chains : OnOpen(c) \/ OnClose(c) \/ RetryFires(c) \/ OnMessage(c)
    \/ Reload \/ Enter \/ Visit \/ Expire
    \/ Broadcast \/ ServerTurns
    \/ Tick
    \/ \E h \in Handles : BuzzStops(h)

Spec == Init /\ [][Next]_vars

-----------------------------------------------------------------------------
TypeOK ==
    /\ phase \in [Chains -> Attempts \cup {"unused", "open", "waiting"}]
    /\ due \in [Chains -> 0..MaxRetry]
    /\ ws \in Chains \cup {None}
    /\ retry \in FirstRetry..MaxRetry
    /\ connected \in BOOLEAN
    /\ token \in BOOLEAN
    /\ mounted \in SUBSET Components
    /\ up \in BOOLEAN
    /\ sent \in 0..MaxAlerts
    /\ red \in SUBSET Alerts
    /\ inflight \in [Chains -> Seq(Alerts)]
    /\ heard \in [Components -> Seq(Alerts)]
    /\ redBuzzIntervalRef \in Handles \cup {None}
    /\ redBuzzStopRef \in Handles \cup {None}
    /\ intervals \in SUBSET Handles
    /\ stops \in [Handles -> 0..Never]
    /\ promised \in [Components -> SUBSET Alerts]
    /\ late \in BOOLEAN
    /\ calm \in 0..(MaxRetry + 1)

Heard(l) == {heard[l][i] : i \in 1..Len(heard[l])}
OnTheWay == UNION {{inflight[c][i] : i \in 1..Len(inflight[c])} : c \in Chains}

Increasing(s) == \A i, j \in 1..Len(s) : i < j => s[i] < s[j]

\* A tab that can reach the server, has a valid token and loses no further socket
\* is connected again within the longest retry delay: chains never die out, and
\* the backoff that grew during an outage does not outgrow its limit.
ReconnectsInTime == calm > MaxRetry => connected

\* An alert sent while a component shows "connected" reaches its listener, unless a
\* socket of the tab closes first: connected is never left over from a socket that
\* is gone, and no alert falls between two chains.
NoAlertMissed == \A l \in mounted : promised[l] \subseteq Heard(l) \cup OnTheWay

\* As long as no component subscribed during a retry delay, every listener hears
\* an alert at most once, and alerts in the order in which they were sent.  (After
\* such a subscription there are two chains for the rest of the page's life.)
HeardOnce == ~late => \A l \in Components : Increasing(heard[l])

\* At most one interval beeps, and as long as it does, exactly one stop timer is
\* set, within the length of a buzz: a red alert during a buzz leaves no interval
\* that nothing would clear, and no timer that would cut the new buzz short, for
\* all that stopRedBuzz knows only the two handles the refs kept.
BuzzEnds ==
    \/ intervals = {} /\ Timers = {}
    \/ \E i, h \in Handles : intervals = {i} /\ Timers = {h} /\ stops[h] <= BuzzLength

================================================================================
