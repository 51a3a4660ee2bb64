---------------------------- MODULE SuccessRate ----------------------------
(***************************************************************************)
(* The success-rate window of the circuit breaker (outbound                *)
(* http/breaker/success_rate.rs): a ring of buckets that counts the        *)
(* responses of the last slices of time.                                   *)
(*                                                                         *)
(* The history `log' counts the responses recorded at each instant since   *)
(* the window was last reset; the properties compare the ring with it.     *)
(***************************************************************************)
EXTENDS Integers, FiniteSetsExt

CONSTANTS Buckets,     \* BUCKETS
          BucketWidth, \* bucket_width, in clock units
          CountMax,    \* u32::MAX
          MaxTime,     \* bound on the clock
          MaxRecords   \* bound on the responses between two resets

VARIABLES now,      \* the clock
          buckets, current, lastRoll,
          log,      \* responses recorded at each instant since the reset
          origin,   \* when the window was last reset
          recorded  \* when the last response was recorded

rateVars == <<now, buckets, current, lastRoll, log, origin, recorded>>

Ring == 0..(Buckets - 1)
Clear == [successes |-> 0, total |-> 0]

RateTypeOK ==
    /\ now \in Nat /\ lastRoll \in Nat /\ origin \in Nat /\ recorded \in Nat
    /\ current \in Ring
    /\ buckets \in [Ring -> [successes : 0..CountMax, total : 0..CountMax]]
    /\ log \in [0..MaxTime -> [successes : Nat, total : Nat]]

Fresh(t) ==
    /\ buckets = [i \in Ring |-> Clear]
    /\ current = 0 /\ lastRoll = t
    /\ log = [u \in 0..MaxTime |-> Clear]
    /\ origin = t /\ recorded = t

RateInit == now = 0 /\ Fresh(0)

\* roll: the ring once the current bucket covers the present.
Elapsed == now - lastRoll
Steps == Elapsed \div BucketWidth

Rolled ==
    IF Steps >= Buckets THEN [i \in Ring |-> Clear]
    ELSE [i \in Ring |-> IF \E k \in 1..Steps : i = (current + k) % Buckets
                           THEN Clear ELSE buckets[i]]

SaturatingAdd(n, k) == IF n + k > CountMax THEN CountMax ELSE n + k

Counted(bucket, success) ==
    [successes |-> SaturatingAdd(bucket.successes, success),
     total |-> SaturatingAdd(bucket.total, 1)]

\* record a response: success is 1 or 0.
Record(success) ==
    /\ current' = (current + Steps) % Buckets
    /\ lastRoll' = lastRoll + (Elapsed - (Elapsed % BucketWidth))
    /\ buckets' = [Rolled EXCEPT ![current'] = Counted(@, success)]
    /\ log' = [log EXCEPT ![now] = [successes |-> @.successes + success,
                                    total |-> @.total + 1]]
    /\ recorded' = now
    /\ UNCHANGED <<now, origin>>

\* reset, when a probe succeeded.
Reset ==
    /\ buckets' = [i \in Ring |-> Clear]
    /\ current' = 0 /\ lastRoll' = now
    /\ log' = [u \in 0..MaxTime |-> Clear]
    /\ origin' = now /\ recorded' = now
    /\ UNCHANGED now

Tick(d) == now' = now + d /\ UNCHANGED <<buckets, current, lastRoll, log, origin, recorded>>

\* What was recorded between two instants.
Logged(from, to) ==
    [successes |-> MapThenSumSet(LAMBDA t : log[t].successes, from..to),
     total     |-> MapThenSumSet(LAMBDA t : log[t].total, from..to)]

RateNext ==
    \/ \E success \in {0, 1} : Logged(0, MaxTime).total < MaxRecords /\ Record(success)
    \/ Reset
    \/ \E d \in 1..(MaxTime - now) : Tick(d)

RateSpec == RateInit /\ [][RateNext]_rateVars
----------------------------------------------------------------------------
(* totals, as the trip check reads them *)
Totals ==
    [successes |-> MapThenSumSet(LAMBDA i : buckets[i].successes, Ring),
     total     |-> MapThenSumSet(LAMBDA i : buckets[i].total, Ring)]

Least(n, m) == IF n < m THEN n ELSE m
Max0(n) == IF n < 0 THEN 0 ELSE n

\* Each bucket holds exactly the responses of one slice of the trailing window:
\* k buckets behind the current one, those recorded in the k-th slice before
\* the last roll; "drops exactly the slices that have aged out".
RingIsTrailingLog ==
    \A k \in Ring :
        LET start == lastRoll - k * BucketWidth
            slice == Logged(Max0(start), Least(start + BucketWidth - 1, MaxTime))
        IN  buckets[(current - k) % Buckets] =
                [successes |-> Least(slice.successes, CountMax),
                 total |-> Least(slice.total, CountMax)]

\* The slices stay on the grid of the last reset and the last response falls in
\* the current one: "fractional time does not accumulate across rolls".
AnchorExact ==
    /\ (lastRoll - origin) % BucketWidth = 0
    /\ lastRoll <= recorded /\ recorded < lastRoll + BucketWidth

\* When a response has just been recorded, what the trip check reads contains
\* every response younger than the window less one slice and none as old as
\* the window (for counts below saturation).
ChecksTrailingWindow ==
    (now = recorded /\ \A i \in Ring : buckets[i].total < CountMax) =>
        LET sure == Logged(Max0(now - (Buckets - 1) * BucketWidth), now)
            most == Logged(Max0(now - Buckets * BucketWidth + 1), now)
        IN  /\ sure.total <= Totals.total /\ Totals.total <= most.total
            /\ sure.successes <= Totals.successes
            /\ Totals.successes <= most.successes
============================================================================
