----------------------------- MODULE MCEndpoints -----------------------------
(***************************************************************************)
(* What stands behind a balancer, for TLC: how its endpoints are found     *)
(* (Resolution, StreamLimits, StreamWatch), how one of them is judged      *)
(* (Breaker, SuccessRate, ExpBackoff) and compared with the others         *)
(* (EndpointLoad), and the queue before one that is not balanced           *)
(* (ForwardQueue).  These machines share no state, so a behaviour runs one *)
(* of them, `part`, and leaves the others where they start: the states are *)
(* the sum of theirs and not the product.                                  *)
(***************************************************************************)
EXTENDS Breaker, Resolution, ForwardQueue, StreamLimits, StreamWatch, TLC

CONSTANTS
    Parts,                                           \* the machines to run
    Buckets, BucketWidth, CountMax, MaxRecords,
    DurationMax, PowMax, Jitter, IterationMax

VARIABLES
    part,
    clock, buckets, current, lastRoll, log, origin, recorded,
    min, max, iterations, sleeping, duration, slept, yields,
    estimator, ticks, member, states, dispatched

rateVars == <<clock, buckets, current, lastRoll, log, origin, recorded>>
backoffVars == <<min, max, iterations, sleeping, duration, slept, yields>>
loadVars == <<estimator, ticks, member, states, dispatched>>
vars == <<part, breakerVars, rateVars, backoffVars, resolutionVars, limitsVars, watchVars, fqVars, loadVars>>

S == INSTANCE SuccessRate WITH now <- clock
E == INSTANCE ExpBackoff

\* Heads with and without hints of rate limiting, well formed and not.
RspHead(status, grpc, grpcStatus, retryAfter, pushback, endStream) ==
    [status |-> status, grpc |-> grpc, grpcStatus |-> grpcStatus, retryAfter |-> retryAfter,
     pushback |-> pushback, endStream |-> endStream]

Heads ==
    { RspHead(200, FALSE, {14}, {}, {}, FALSE), RspHead(200, TRUE, {}, {}, {}, TRUE),
      RspHead(429, FALSE, {}, {[form |-> "seconds", value |-> 40]}, {}, FALSE),
      RspHead(503, FALSE, {}, {[form |-> "date", value |-> -5]}, {}, TRUE),
      RspHead(429, FALSE, {}, {[form |-> "bad", value |-> 0]}, {}, TRUE),
      RspHead(500, FALSE, {}, {[form |-> "seconds", value |-> 40]}, {}, FALSE),
      RspHead(200, TRUE, {8}, {}, {20}, TRUE), RspHead(200, TRUE, {14}, {}, {-1}, TRUE),
      RspHead(200, TRUE, {5}, {}, {20}, TRUE) }

Estimators ==
    { [kind |-> "PeakEwma", defaultRtt |-> 0, penalty |-> 0, maxRetryAfter |-> 0],
      [kind |-> "PenaltyPeakEwma", defaultRtt |-> 8, penalty |-> 12, maxRetryAfter |-> 24] }

EL == INSTANCE EndpointLoad
        WITH Endpoints <- {"a", "b"}, Requests <- {"r1", "r2"}, Loads <- Estimators, Responses <- Heads,
             Unit <- 8, MaxTime <- 2, MaxPolls <- 1,
             load <- estimator, now <- ticks, endpoint <- member, gauge <- states, request <- dispatched

\* A machine that does not run starts in one of its initial states.
Init ==
    /\ part \in Parts
    /\ BreakerInit /\ S!RateInit /\ E!BackoffInit /\ ResolutionInit /\ LimitsInit /\ WatchInit /\ QueueInit /\ EL!LoadInit
    /\ part # "ExpBackoff" => min = 1 /\ max = 1
    /\ part # "Resolution" => truth = None
    /\ part # "StreamWatch" => mode = CHOOSE m \in Modes : TRUE
    /\ part # "EndpointLoad" => estimator.kind = "PeakEwma"

Next ==
    /\ UNCHANGED part
    /\ IF part = "Breaker" THEN BreakerNext ELSE UNCHANGED breakerVars
    /\ IF part = "SuccessRate" THEN S!RateNext ELSE UNCHANGED rateVars
    /\ IF part = "ExpBackoff" THEN E!BackoffNext ELSE UNCHANGED backoffVars
    /\ IF part = "Resolution" THEN ResolutionNext ELSE UNCHANGED resolutionVars
    /\ IF part = "StreamLimits" THEN LimitsNext ELSE UNCHANGED limitsVars
    /\ IF part = "StreamWatch" THEN WatchNext ELSE UNCHANGED watchVars
    /\ IF part = "ForwardQueue" THEN QueueNext ELSE UNCHANGED fqVars
    /\ IF part = "EndpointLoad" THEN EL!LoadNext ELSE UNCHANGED loadVars

Spec == Init /\ [][Next]_vars

\* The breaker's task is polled, its endpoint answers, and a clone that wants to
\* call is ready again and again.
Fairness ==
    /\ WF_breakerVars(part = "Breaker" /\ Task)
    /\ \A r \in Requests : WF_breakerVars(part = "Breaker" /\ (Respond(r) \/ Renew(r)))
    /\ \A c \in Clones :
        /\ WF_breakerVars(part = "Breaker" /\ permit[c] = NotReady /\ PollReady(c))
        /\ SF_breakerVars(part = "Breaker" /\ \E r \in Requests : Call(c, r))

FairSpec == Spec /\ Fairness

Symmetry == Permutations(Clones) \cup Permutations(Requests) \cup Permutations(Metas)

-----------------------------------------------------------------------------
(* Properties; each is defined, with its reason, in the machine's module.  *)
(* BreakerSafe, ProbationEnds, ResolutionSafe, QueueSafe, LimitsKept and   *)
(* WatchFaithful are taken as they are from the modules that define them.  *)

\* The ring of buckets is the log of responses cut into the trailing slices, and
\* the trip check reads the trailing window (SuccessRate); delays double up to the
\* maximum and stay in bounds with their jitter (ExpBackoff); pending counts and
\* gauges are exact, averages stay within what was measured, and an endpoint does
\* not gain by failing (EndpointLoad).
MeasuresExact ==
    /\ [](part = "SuccessRate" => S!AnchorExact /\ S!RingIsTrailingLog /\ S!ChecksTrailingWindow)
    /\ [](part = "ExpBackoff" => E!DelayInBounds /\ E!BacksOff)
    /\ [](part = "EndpointLoad" => EL!PendingExact /\ EL!GaugesExact /\ EL!PeakBounded)
    /\ [][part = "EndpointLoad" => EL!FailureNotCheaper]_loadVars
=============================================================================
