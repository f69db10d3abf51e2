------------------------------ MODULE RateLimit ------------------------------
(***************************************************************************)
(* The request limit of a service: a counter in Valkey for each minute,    *)
(* raised by INCR, given a time to live by the request that finds it at    *)
(* one.  Time is counted in half minutes; the clocks of the API processes  *)
(* that name the minute are at most half a minute apart.                   *)
(***************************************************************************)
EXTENDS Naturals, FiniteSets

CONSTANTS
    Call,             \* requests of one service
    PerMinute,        \* the limits there are; 0 is none
    MaxTime           \* bound: half minutes

VARIABLES
    perMinute,        \* rate_limit_per_minute of the service
    time,
    bucket, rank,     \* the minute each call is counted in, and what INCR returned
    verdict,          \* where each call stands
    count,            \* the counters
    deadline          \* when each counter goes; Never before EXPIRE

rateVars == <<perMinute, time, bucket, rank, verdict, count, deadline>>

Minute == 0 .. MaxTime + 1
Never  == MaxTime + 100

TypeOK ==
    /\ perMinute \in PerMinute
    /\ time \in 0 .. MaxTime
    /\ bucket \in [Call -> Minute]
    /\ rank \in [Call -> 0 .. Cardinality(Call)]
    /\ verdict \in [Call -> {"new", "first", "counted", "admitted", "refused"}]
    /\ count \in [Minute -> 0 .. Cardinality(Call)]
    /\ deadline \in [Minute -> Nat]

Init ==
    /\ perMinute \in PerMinute
    /\ time = 0
    /\ bucket = [c \in Call |-> 0]
    /\ rank = [c \in Call |-> 0]
    /\ verdict = [c \in Call |-> "new"]
    /\ count = [m \in Minute |-> 0]
    /\ deadline = [m \in Minute |-> Never]

\* The minute by a clock that runs up to half a minute ahead.
MinuteNow == {time \div 2, (time + 1) \div 2}

\* Without a limit nothing is counted.
Unlimited(c) ==
    /\ verdict[c] = "new" /\ perMinute = 0
    /\ verdict' = [verdict EXCEPT ![c] = "admitted"]
    /\ UNCHANGED <<perMinute, time, bucket, rank, count, deadline>>

\* The key names the service and the minute.
Incr(c) ==
    /\ verdict[c] = "new" /\ perMinute > 0
    /\ \E m \in MinuteNow :
          /\ bucket' = [bucket EXCEPT ![c] = m]
          /\ count' = [count EXCEPT ![m] = @ + 1]
          /\ rank' = [rank EXCEPT ![c] = count[m] + 1]
          /\ verdict' = [verdict EXCEPT ![c] = IF count[m] = 0 THEN "first" ELSE "counted"]
    /\ UNCHANGED <<perMinute, time, deadline>>

\* Valkey fails at INCR, which may have counted: 503.
IncrFails(c) ==
    /\ verdict[c] = "new" /\ perMinute > 0
    /\ verdict' = [verdict EXCEPT ![c] = "refused"]
    /\ \/ UNCHANGED count
       \/ \E m \in MinuteNow : count' = [count EXCEPT ![m] = @ + 1]
    /\ UNCHANGED <<perMinute, time, bucket, rank, deadline>>

MinuteTTL == 2                              \* mutant: the key lives one minute
CounterTTL == 4

\* EXPIRE by the call that counted one, which may fail (503) or never come.
SetExpiry(c) ==
    /\ verdict[c] = "first"
    /\ \/ /\ verdict' = [verdict EXCEPT ![c] = "counted"]
          /\ deadline' = [deadline EXCEPT ![bucket[c]] = time + CounterTTL]
       \/ /\ verdict' = [verdict EXCEPT ![c] = "refused"]
          /\ deadline' \in {deadline, [deadline EXCEPT ![bucket[c]] = time + CounterTTL]}
    /\ UNCHANGED <<perMinute, time, bucket, rank, count>>

Decide(c) ==
    /\ verdict[c] = "counted"
    /\ verdict' = [verdict EXCEPT ![c] = IF rank[c] > perMinute THEN "refused" ELSE "admitted"]
    /\ UNCHANGED <<perMinute, time, bucket, rank, count, deadline>>

Tick ==
    /\ time < MaxTime
    /\ time' = time + 1
    /\ LET gone == {m \in Minute : deadline[m] <= time'}
       IN  /\ count' = [m \in Minute |-> IF m \in gone THEN 0 ELSE count[m]]
           /\ deadline' = [m \in Minute |-> IF m \in gone THEN Never ELSE deadline[m]]
    /\ UNCHANGED <<perMinute, bucket, rank, verdict>>

Next ==
    \/ Tick
    \/ \E c \in Call : Unlimited(c) \/ Incr(c) \/ IncrFails(c) \/ SetExpiry(c) \/ Decide(c)

Spec == Init /\ [][Next]_rateVars

-----------------------------------------------------------------------------
\* Where there is a limit no minute admits more calls than that, whichever call
\* was the first to count, died before it set the expiry, or reads its clock a
\* little early (ensure_rate_limit).
RateHeld ==
    perMinute > 0 => \A m \in Minute :
        Cardinality({c \in Call : verdict[c] = "admitted" /\ bucket[c] = m}) <= perMinute
=============================================================================
