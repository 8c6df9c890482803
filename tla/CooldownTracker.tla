---------------------------- MODULE CooldownTracker ----------------------------
(***************************************************************************)
(* The cooldown dictionary of ai_repo/tracking/cooldown.py.  A tracker is  *)
(* its `_last_fired` dictionary: a function from the keys that have fired  *)
(* to the monotonic time at which they last did.  The event type and the   *)
(* sub key are constant for each of the three trackers a camera worker     *)
(* owns, so a key is just the tracked person.                              *)
(***************************************************************************)
EXTENDS Integers

\* `self._last_fired: dict = {}`
NoneFired == [k \in {} |-> 0]

\* `self._last_fired.get(key, 0.0)`: a key that never fired, or was reset,
\* reads as if it had fired when the monotonic clock was zero.
LastFired(tracker, k) == IF k \in DOMAIN tracker THEN tracker[k] ELSE 0

\* The test of should_fire.
ShouldFire(tracker, k, now, cooldown) == now - LastFired(tracker, k) >= cooldown

\* should_fire returned True for each key of K: their entries become `now`.
Fire(tracker, K, now) ==
    [k \in DOMAIN tracker \cup K |-> IF k \in K THEN now ELSE tracker[k]]

\* Mutant: reset looks the keys up and leaves them.
ResetNothing(tracker, K) == tracker

\* reset of each key of K.
Reset(tracker, K) == [k \in DOMAIN tracker \ K |-> tracker[k]]

IsTracker(tracker, Keys) ==
    /\ DOMAIN tracker \subseteq Keys
    /\ tracker \in [DOMAIN tracker -> Nat]
================================================================================
