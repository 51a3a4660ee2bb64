----------------------------- MODULE EndpointLoad -----------------------------
(***************************************************************************)
(* The load a balancer compares its endpoints by: linkerd/load-biaser (the *)
(* penalty estimator), linkerd/ewma (the average it keeps), hyper-balance  *)
(* (when a request counts as answered), linkerd/proxy/balance (how a       *)
(* policy's Load picks and configures an estimator) and its gauges of      *)
(* ready and pending endpoints.                                            *)
(*                                                                         *)
(* Every request in flight holds a Handle on its endpoint.  Dropping the   *)
(* handle records one measurement, in two steps another thread may come    *)
(* between: the clock is read first, the average is locked after.          *)
(*                                                                         *)
(* Time passes in ticks of the half-life of an average, so that the        *)
(* exponential decay over n ticks is a division by 2^n; round-trip times   *)
(* are naturals in a unit of their own (Unit of them to the tick).         *)
(***************************************************************************)
EXTENDS Integers, FiniteSets, FiniteSetsExt

CONSTANTS Endpoints,    \* endpoints of one balancer
          Requests,     \* requests dispatched to them, each at most once
          Loads,        \* Load configurations a policy may give the backend
          Responses,    \* response heads an endpoint may answer
          Unit,         \* round-trip time of one tick
          MaxTime,      \* bound on the ticks
          MaxPolls      \* bound on readiness polls of an endpoint

VARIABLES load,         \* the Load of the backend's policy
          now,          \* the clock
          endpoint,     \* each endpoint's service: liveness, average, gauge state
          gauge,        \* the endpoints gauges, by state label
          request       \* each request's handle

loadVars == <<load, now, endpoint, gauge, request>>

-----------------------------------------------------------------------------
(* Ewma: an average [value, timestamp].                                    *)

GetAt(ewma, at) ==
  IF at <= ewma.timestamp THEN ewma.value
  ELSE ewma.value \div 2^(at - ewma.timestamp)

\* The weighted mean of the stored value and the new one.
Add(ewma, value, ts) ==
  IF ts <= ewma.timestamp THEN ewma
  ELSE LET w == 2^(ts - ewma.timestamp)
       IN [value |-> (ewma.value + value * (w - 1)) \div w, timestamp |-> ts]

AddPeak(ewma, value, ts) ==
  IF GetAt(ewma, ts) < value THEN [value |-> value, timestamp |-> ts]
  ELSE Add(ewma, value, ts)

-----------------------------------------------------------------------------
(* What a response says about its endpoint.  A response head has a status, *)
(* whether its content type is gRPC, its grpc-status (a set of at most one *)
(* number) and its Retry-After and grpc-retry-pushback-ms headers.         *)

FailureHint(rsp) ==
  CASE rsp.status = 429 -> {"RateLimited"}
    [] rsp.status = 503 -> {"ServiceUnavailable"}
    [] rsp.status \in 500..599 \ {503} -> {"InternalError"}
    [] rsp.status = 200 /\ rsp.grpc ->
         UNION {CASE s = 8 -> {"RateLimited"}
                  [] s = 14 -> {"ServiceUnavailable"}
                  [] s \in {2, 4, 13, 15} -> {"InternalError"}
                  [] OTHER -> {} : s \in rsp.grpcStatus}
    [] OTHER -> {}

\* A delay in seconds, or a date (as the time left until it: none when past).
ParseRetryAfter(rsp) ==
  IF rsp.status \notin {429, 503} THEN {}
  ELSE {Max({h.value, 0}) : h \in {x \in rsp.retryAfter : x.form \in {"seconds", "date"}}}

ParseGrpcRetryPushback(rsp) == {v \in rsp.pushback : v >= 0}

\* The hint is parsed once, uncapped, and capped by whoever reads it.
RateLimitHint(rsp, max) ==
  LET after == ParseRetryAfter(rsp)
      parsed == IF after # {} THEN after
                ELSE IF rsp.status = 200 /\ rsp.grpc THEN ParseGrpcRetryPushback(rsp)
                ELSE {}
  IN {Min({h, max}) : h \in parsed}

\* A hint counts only above the base penalty.
EffectiveRtt(config, hint, rsp) ==
  LET fromHint == IF hint = "InternalError" THEN {}
                  ELSE RateLimitHint(rsp, config.maxDuration)
  IN Max({config.penalty} \cup fromHint)

-----------------------------------------------------------------------------
(* The estimator and its configuration.  MinDefaultRtt is one unit.        *)

MinDefaultRtt == 1

\* Both estimators read the round-trip times of the Load, whichever it is.
DefaultRtt == Max({load.defaultRtt, MinDefaultRtt})

Penalizes == load.kind = "PenaltyPeakEwma"

\* penalty_biaser_config; the policy's penalty_decay is dropped.
PenaltyBiaserConfig ==
  [defaultRtt |-> DefaultRtt,
   penalty |-> load.penalty, maxDuration |-> load.maxRetryAfter]

\* The estimator's first value, whichever estimator the Load selects.
InitialRtt == DefaultRtt

NewGauges == [s \in {"ready", "pending"} |-> 0]

NoHandle == [at |-> "none", endpoint |-> {}, sentAt |-> 0, penalty |-> {}, droppedAt |-> 0]

\* An endpoint service as it is built: unpolled and with the default average.
\* `refs` is the strong count of the state its handles share.
NewEndpoint == [live |-> TRUE, state |-> "none", refs |-> 1, polls |-> 0,
                rtt |-> [value |-> InitialRtt, timestamp |-> now]]

LoadInit ==
  /\ load \in Loads
  /\ now = 0
  /\ endpoint = [e \in Endpoints |-> NewEndpoint]
  /\ gauge = NewGauges
  /\ request = [r \in Requests |-> NoHandle]

-----------------------------------------------------------------------------
(* GaugeBalancerEndpoint.                                                  *)

\* poll_ready: a change of state moves the endpoint from one gauge to the
\* other; an error leaves the state it found.
PollReady(e) ==
  \E poll \in {"ready", "pending", "error"} :
    /\ endpoint[e].live
    /\ endpoint[e].polls < MaxPolls
    /\ LET was == endpoint[e].state
           is == IF poll = "error" THEN was ELSE poll
       IN /\ endpoint' = [endpoint EXCEPT ![e].state = is, ![e].polls = @ + 1]
          /\ gauge' = [s \in DOMAIN gauge |->
                         gauge[s] + (IF s = is /\ s # was THEN 1 ELSE 0)
                                  - (IF s = was /\ s # is THEN 1 ELSE 0)]
    /\ UNCHANGED <<load, now, request>>

\* The balancer drops an endpoint's service (removed, replaced or failed).
\* Handles its requests hold keep the shared state alive.
DropEndpointKeepsGauge(e) ==
  /\ endpoint[e].live
  /\ endpoint' = [endpoint EXCEPT ![e].live = FALSE, ![e].state = "none", ![e].refs = @ - 1]
  /\ UNCHANGED <<load, now, request, gauge>>

DropEndpoint(e) ==
  /\ endpoint[e].live
  /\ gauge' = [s \in DOMAIN gauge |-> gauge[s] - (IF s = endpoint[e].state THEN 1 ELSE 0)]
  /\ endpoint' = [endpoint EXCEPT ![e].live = FALSE, ![e].state = "none", ![e].refs = @ - 1]
  /\ UNCHANGED <<load, now, request>>

-----------------------------------------------------------------------------
(* A request's handle: "calling" while the response future is pending,     *)
(* "body" while the response's first frame is, "dropping" between the two  *)
(* halves of its drop.                                                     *)

\* Service::call on a ready endpoint.
Call(r, e) ==
  /\ request[r].at = "none"
  /\ endpoint[e].live /\ endpoint[e].state = "ready"
  /\ request' = [request EXCEPT ![r] = [NoHandle EXCEPT !.at = "calling",
                                          !.endpoint = {e}, !.sentAt = now]]
  /\ endpoint' = [endpoint EXCEPT ![e].refs = @ + 1]
  /\ UNCHANGED <<load, now, gauge>>

\* The first half of Handle::drop.
Dropped(handle, penalty) ==
  [handle EXCEPT !.at = "dropping", !.penalty = penalty, !.droppedAt = now]

\* track_completion: the body takes the handle, unless it is already at its end.
TrackCompletion(handle, rsp) ==
  IF rsp.endStream THEN Dropped(handle, {}) ELSE [handle EXCEPT !.at = "body"]

\* LoadBiaserFuture::poll on a response: a failure drops the handle with its
\* penalty, any other response leaves it to the completion tracker.
Respond(r) ==
  \E rsp \in Responses :
    /\ request[r].at = "calling"
    /\ LET hint == IF Penalizes THEN FailureHint(rsp) ELSE {}
       IN request' = [request EXCEPT ![r] =
            IF hint # {}
            THEN Dropped(@, {EffectiveRtt(PenaltyBiaserConfig, h, rsp) : h \in hint})
            ELSE TrackCompletion(@, rsp)]
    /\ UNCHANGED <<load, now, endpoint, gauge>>

\* The call fails, or its caller drops the response future.
FailOrCancel(r) ==
  /\ request[r].at = "calling"
  /\ request' = [request EXCEPT ![r] = Dropped(@, {})]
  /\ UNCHANGED <<load, now, endpoint, gauge>>

\* The body yields its first frame (or its end, or an error), or is dropped.
FirstFrame(r) ==
  /\ request[r].at = "body"
  /\ request' = [request EXCEPT ![r] = Dropped(@, {})]
  /\ UNCHANGED <<load, now, endpoint, gauge>>

\* The second half of Handle::drop: the measurement is added under the lock
\* and the reference on the shared state is released.
Sample(handle, rtt) ==
  IF handle.penalty = {} THEN (handle.droppedAt - handle.sentAt) * Unit
  ELSE Max(handle.penalty \cup {GetAt(rtt, handle.droppedAt)})

Record(r) ==
  \E e \in request[r].endpoint :
    /\ request[r].at = "dropping"
    /\ endpoint' = [endpoint EXCEPT
         ![e].rtt = AddPeak(@, Sample(request[r], @), request[r].droppedAt),
         ![e].refs = @ - 1]
    /\ request' = [request EXCEPT ![r].at = "done"]
    /\ UNCHANGED <<load, now, gauge>>

Tick ==
  /\ now < MaxTime
  /\ now' = now + 1
  /\ UNCHANGED <<load, endpoint, gauge, request>>

LoadNext ==
  \/ Tick
  \/ \E e \in Endpoints : PollReady(e) \/ DropEndpoint(e)
  \/ \E r \in Requests :
       \/ \E e \in Endpoints : Call(r, e)
       \/ Respond(r) \/ FailOrCancel(r) \/ FirstFrame(r) \/ Record(r)

LoadSpec == LoadInit /\ [][LoadNext]_loadVars

-----------------------------------------------------------------------------
(* Load::load.                                                             *)

Pending(e) == endpoint[e].refs - 1

InFlight(e) == {r \in Requests : e \in request[r].endpoint
                                 /\ request[r].at \in {"calling", "body", "dropping"}}

\* The pending count read off the reference count is the number of requests
\* in flight, whichever way a request ends: each handle is dropped once, on a
\* failure response, at the first frame, on an error or on a cancellation.
PendingExact ==
  \A e \in Endpoints : endpoint[e].live => Pending(e) = Cardinality(InFlight(e))

\* The gauges count the live endpoints by the state they were last polled in,
\* and an endpoint that was dropped is counted in neither.
GaugesExact ==
  \A s \in DOMAIN gauge :
    gauge[s] = Cardinality({e \in Endpoints : endpoint[e].live /\ endpoint[e].state = s})

\* An endpoint's average never exceeds the largest value it was given: the
\* default, a penalty (a capped hint or the base penalty) or an elapsed time.
PeakBounded ==
  \A e \in Endpoints :
    endpoint[e].rtt.value <= Max({InitialRtt, load.penalty, load.maxRetryAfter, now * Unit})

\* Recording a failure never makes the endpoint look cheaper: as of the time
\* the handle read, its average is then no lower than before and no lower than
\* the base penalty.
FailureNotCheaper ==
  \A r \in Requests, e \in Endpoints :
    (/\ request[r].at = "dropping" /\ request'[r].at = "done"
     /\ e \in request[r].endpoint /\ request[r].penalty # {})
    => GetAt(endpoint'[e].rtt, request[r].droppedAt)
         >= Max({GetAt(endpoint[e].rtt, request[r].droppedAt), load.penalty})

=============================================================================
