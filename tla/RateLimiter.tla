------------------------------ MODULE RateLimiter ------------------------------
(* core/rate_limit.py: the sliding window in front of the login route.  One    *)
(* bucket, that of one path and one client address; hit runs on the event loop *)
(* without an await.  Times and the window are in one unit.                    *)
EXTENDS Naturals, Sequences

\* _UNIT_SECONDS; an unknown unit counts as a minute.
WindowSeconds(unit) ==
    CASE unit \in {"second", "sec", "s"}  -> 1
      [] unit \in {"hour", "h"}           -> 3600
      [] unit = "day"                     -> 86400
      [] OTHER                            -> 60

Rate(count, unit) == [limit |-> count, window |-> WindowSeconds(unit)]

\* now - hit > window, for hits that are not in the future.
Expired(hit, now, window) == hit + window < now

\* The while loop takes k hits from the left.
Drops(bucket, now, window, k) ==
    /\ k \in 0..Len(bucket)
    /\ \A i \in 1..k : Expired(bucket[i], now, window)
    /\ k < Len(bucket) => ~Expired(bucket[k + 1], now, window)

Remaining(bucket, k) == SubSeq(bucket, k + 1, Len(bucket))

\* What a hit that meets this remainder of its bucket returns.
Allowed(remaining, rate) == Len(remaining) < rate.limit

BucketAfter(remaining, now, rate) ==
    IF Allowed(remaining, rate) THEN Append(remaining, now) ELSE remaining

GrantedAfter(granted, remaining, now, rate) ==
    IF Allowed(remaining, rate) THEN Append(granted, now) ELSE granted

\* One call of hit.  `granted` is the history of the hits it let pass, `clock`
\* the monotonic clock at its last call.
Hit(clock, bucket, granted, rate) ==
    \E now \in Nat, k \in 0..Len(bucket) :
       /\ clock <= now
       /\ clock' = now
       /\ Drops(bucket, now, rate.window, k)
       /\ bucket' = BucketAfter(Remaining(bucket, k), now, rate)
       /\ granted' = GrantedAfter(granted, Remaining(bucket, k), now, rate)

Limiter(clock, bucket, granted, rate) ==
    /\ clock \in Nat
    /\ bucket = <<>>
    /\ granted = <<>>
    /\ [][Hit(clock, bucket, granted, rate)]_<<clock, bucket, granted>>

-----------------------------------------------------------------------------
\* Of limit + 1 requests let pass in a row, the last comes more than a window
\* after the first: no window of any position holds more than limit of them.
NeverOverLimit(granted, rate) ==
    \A i \in DOMAIN granted :
       i + rate.limit \in DOMAIN granted =>
           granted[i] + rate.window < granted[i + rate.limit]

\* The limiter holds limit requests of the window before now.
WindowIsFull(granted, now, rate) ==
    /\ rate.limit <= Len(granted)
    /\ \A i \in Len(granted) - rate.limit + 1 .. Len(granted) :
          now <= granted[i] + rate.window
================================================================================
