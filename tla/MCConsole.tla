------------------------------- MODULE MCConsole -------------------------------
\* Tabs and cameras are interchangeable.
EXTENDS Console, RateLimiter, Accounts, FiniteSets, TLC

Symmetry == Permutations(Tabs) \cup Permutations(Cameras)

-----------------------------------------------------------------------------
(* The login's rate limiter against a reference, for small limits, windows and *)
(* all spacings of a few requests.                                             *)

Times == {t \in [1..5 -> 0..5] : \A i \in 1..4 : t[i] <= t[i + 1]}

\* The bucket and the granted hits after the first n requests.
After(t, rate) ==
    LET run[n \in 0..Len(t)] ==
          IF n = 0 THEN [bucket |-> <<>>, granted |-> <<>>]
          ELSE LET before == run[n - 1]
                   k == CHOOSE d \in 0..Len(before.bucket) :
                           Drops(before.bucket, t[n], rate.window, d)
                   left == Remaining(before.bucket, k)
               IN  [bucket |-> BucketAfter(left, t[n], rate),
                    granted |-> GrantedAfter(before.granted, left, t[n], rate)]
    IN  run

\* Granted are the requests that follow fewer than limit granted ones in the
\* window that ends with them.
Reference(t, rate) ==
    LET granted[n \in 0..Len(t)] ==
          IF n = 0 THEN {}
          ELSE IF Cardinality({i \in granted[n - 1] : t[n] <= t[i] + rate.window}) < rate.limit
               THEN granted[n - 1] \cup {n} ELSE granted[n - 1]
    IN  granted

ASSUME LimiterAsReference ==
    \A t \in Times, rate \in [limit: 0..2, window: 0..2] :
       LET run == After(t, rate)
           granted == Reference(t, rate)
       IN  \A n \in 1..Len(t) :
              /\ (run[n].granted # run[n - 1].granted) <=> (n \in granted[n])
              /\ NeverOverLimit(run[n].granted, rate)

\* As test_rate_limit.py expects.
ASSUME ParsedRates ==
    /\ Rate(10, "minute") = [limit |-> 10, window |-> 60]
    /\ Rate(5, "second") = [limit |-> 5, window |-> 1]
    /\ Rate(100, "hour") = [limit |-> 100, window |-> 3600]

-----------------------------------------------------------------------------
\* An account is found by its address in any spelling, and by no other; a second
\* row of that address is not flushed while the first is there or under way.
ASSUME FoundInAnySpelling ==
    LET emails == Email({"a", "b"}, {"upper", "mixed"})
    IN  \A e, f \in emails :
           LET account == NewUser(e, "viewer")
               underway == <<With("flushed", e, "viewer")>>
           IN  /\ ByEmail({account}, f) # {} <=> e.address = f.address
               /\ Unused({account}, <<>>, NewUser(f, "admin")) <=> e.address # f.address
               /\ Unused({}, underway, NewUser(f, "admin")) <=> e.address # f.address
================================================================================
