----------------------------- MODULE AlertDelivery -----------------------------
(***************************************************************************)
(* What the way from a camera worker to the operators promises about each  *)
(* event the worker raises: it is stored at most once, announced at most   *)
(* once and only after it is stored, both in the order in which its camera *)
(* raised it; or it is lost, and then nobody ever hears of it.  (A zone    *)
(* exit is announced and never stored.)  AlertPipeline implements this.    *)
(***************************************************************************)
EXTENDS Naturals

CONSTANTS Cameras, Numbers

\* An event is the n-th one of its camera.
Events == Cameras \X Numbers

VARIABLE fate       \* event -> what has become of it

Pending == {"violation", "exit"}    \* raised and waiting
Told == {"stored", "announced"}
Fates == {"none", "lost"} \cup Pending \cup Told

Earlier(e) == {d \in Events : d[1] = e[1] /\ d[2] < e[2]}
Later(e) == {d \in Events : d[1] = e[1] /\ d[2] > e[2]}

Init == fate = [e \in Events |-> "none"]

\* The worker raises the next event; a full queue loses it at once.
Raise(e) ==
    /\ fate[e] = "none"
    /\ \A d \in Earlier(e) : fate[d] # "none"
    /\ \E f \in Pending \cup {"lost"} : fate' = [fate EXCEPT ![e] = f]

Store(e) ==
    /\ fate[e] = "violation"
    /\ \A d \in Earlier(e) : fate[d] \notin Pending
    /\ fate' = [fate EXCEPT ![e] = "stored"]

Announce(e) ==
    /\ fate[e] \in {"stored", "exit"}
    /\ \A d \in Earlier(e) : fate[d] \notin Pending
    /\ \A d \in Later(e) : fate[d] \notin Told
    /\ fate' = [fate EXCEPT ![e] = "announced"]

\* Some of the waiting events are lost: one that cannot be stored, or all of
\* them when the backend stops.
Lose ==
    \E S \in SUBSET {e \in Events : fate[e] \in Pending} :
        fate' = [e \in Events |-> IF e \in S THEN "lost" ELSE fate[e]]

\* The backend stops just as it stores an event: what else waited is lost.
StoreAndLose(e) ==
    /\ fate[e] = "violation"
    /\ \A d \in Earlier(e) : fate[d] \notin Pending
    /\ fate' = [d \in Events |-> IF d = e THEN "stored"
                                 ELSE IF fate[d] \in Pending THEN "lost" ELSE fate[d]]

Next ==
    \/ \E e \in Events : Raise(e) \/ Store(e) \/ Announce(e) \/ StoreAndLose(e)
    \/ Lose

Spec == Init /\ [][Next]_fate
================================================================================
