------------------------------ MODULE Breaker ------------------------------
(***************************************************************************)
(* Circuit breaking of one endpoint: the breaker task (app/outbound        *)
(* http/breaker), the gate it controls (stack/gate.rs), the clones of the  *)
(* gated service that requests go through and the classification channel   *)
(* (http/classify/channel.rs) that brings their verdicts back to the task. *)
(*                                                                         *)
(* A clone's readiness is Pending (NotReady), Ready(None) (Unlimited) or   *)
(* Ready(Some(permit)) of the n-th semaphore the gate was limited by.      *)
(* UnifiedBreaker is modelled; ConsecutiveFailures is the same machine     *)
(* without a window (ThresholdNum = 0) and with Strict = FALSE.            *)
(***************************************************************************)
EXTENDS Integers, Sequences, FiniteSets

CONSTANTS Clones, Requests,
          MaxFailures,                \* 0 turns the consecutive dimension off
          ThresholdNum, ThresholdDen, \* the success rate threshold
          MinRequests,
          Strict,                     \* is a rate-limited probe a failed one?
          MayCancel,                  \* may callers drop a response future?
          ChannelCapacity,
          MaxSamples, MaxProbations   \* bounds on the state

\* What the proofs need of the constants.
ASSUME BreakerConstants == IsFiniteSet(Clones) /\ MaxFailures \in Nat

VARIABLES breaker,  \* open, shut, probation or done
          failures, \* consecutive_failures
          window,   \* successes and total of the live buckets
          gate,     \* open, limited or shut
          sem,      \* how often the gate was limited; names the semaphore
          avail,    \* permits left in the current semaphore
          permit,   \* readiness of each clone
          rsps,     \* the classification channel
          req,      \* where each request is
          via,      \* the permit each request was admitted with
          alive,    \* do clones of the gated service exist?
          admitted  \* requests admitted since the gate was last shut

breakerVars == <<breaker, failures, window, gate, sem, avail, permit, rsps, req, via, alive, admitted>>
taskVars == <<breaker, failures, window>>
gateVars == <<gate, sem, avail>>

Classes == {"success", "failure", "limited"}
NotReady == -1
Unlimited == 0

Empty == [ok |-> 0, total |-> 0]

BreakerTypeOK ==
    /\ breaker \in {"open", "shut", "probation", "done"}
    /\ failures \in Nat
    /\ window \in [ok : Nat, total : Nat]
    /\ gate \in {"open", "limited", "shut"}
    /\ sem \in Nat
    /\ avail \in Nat
    /\ permit \in [Clones -> Int]
    /\ rsps \in Seq(Requests \X Classes)
    /\ req \in [Requests -> {"idle", "called", "body", "done"}]
    /\ via \in [Requests -> Int]
    /\ alive \in BOOLEAN
    /\ admitted \in Nat

BreakerInit ==
    /\ breaker = "open"
    /\ failures = 0 /\ window = Empty
    /\ gate = "open" /\ sem = 0 /\ avail = 0
    /\ permit = [c \in Clones |-> NotReady]
    /\ rsps = <<>>
    /\ req = [r \in Requests |-> "idle"]
    /\ via = [r \in Requests |-> NotReady]
    /\ alive = TRUE
    /\ admitted = 0

(***************************************************************************)
(* Tx of the gate.                                                         *)
(***************************************************************************)
GateOpen == gate' = "open" /\ avail' = 0 /\ sem' = sem
GateShut == gate' = "shut" /\ avail' = 0 /\ sem' = sem
GateLimit(n) == gate' = "limited" /\ avail' = n /\ sem' = sem + 1

(***************************************************************************)
(* The gated service.                                                      *)
(***************************************************************************)

\* The permits of the current semaphore once c has dropped the one it holds.
Released(c) == IF gate = "limited" /\ permit[c] = sem THEN avail + 1 ELSE avail

\* poll_ready of a clone: drop the old permit, then acquire.
PollReady(c) ==
    /\ alive
    /\ \/ /\ gate = "open"
          /\ permit' = [permit EXCEPT ![c] = Unlimited]
          /\ avail' = avail
       \/ /\ gate = "limited" /\ Released(c) > 0
          /\ permit' = [permit EXCEPT ![c] = sem]
          /\ avail' = Released(c) - 1
    /\ UNCHANGED <<breaker, failures, window, gate, sem, rsps, req, via, alive, admitted>>

\* poll_ready does not acquire, or the inner service is not ready.
PollPending(c) ==
    /\ alive
    /\ permit[c] # NotReady
    /\ permit' = [permit EXCEPT ![c] = NotReady]
    /\ avail' = Released(c)
    /\ UNCHANGED <<breaker, failures, window, gate, sem, rsps, req, via, alive, admitted>>

\* call: the permit is forgotten, not returned.
Call(c, r) ==
    /\ alive
    /\ permit[c] # NotReady
    /\ req[r] = "idle"
    /\ permit' = [permit EXCEPT ![c] = NotReady]
    /\ req' = [req EXCEPT ![r] = "called"]
    /\ via' = [via EXCEPT ![r] = permit[c]]
    /\ admitted' = IF breaker \in {"shut", "probation"} THEN admitted + 1 ELSE admitted
    /\ UNCHANGED <<breaker, failures, window, gate, sem, avail, rsps, alive>>

\* The last clone of the service is dropped: the gate is lost.
DropService ==
    /\ alive
    /\ alive' = FALSE
    /\ permit' = [c \in Clones |-> NotReady]
    /\ UNCHANGED <<breaker, failures, window, gate, sem, avail, rsps, req, via, admitted>>

(***************************************************************************)
(* Responses and their classification.                                     *)
(***************************************************************************)

\* send_or_report: a class is dropped when the channel is full or closed.
Report(r, class) ==
    rsps' = IF breaker = "done" \/ Len(rsps) >= ChannelCapacity THEN rsps
            ELSE Append(rsps, <<r, class>>)

\* ResponseFuture::poll: the inner future fails.
ResponseFails(r) ==
    /\ req[r] = "called"
    /\ req' = [req EXCEPT ![r] = "done"]
    /\ Report(r, "failure")
    /\ UNCHANGED <<breaker, failures, window, gate, sem, avail, permit, via, alive, admitted>>

\* ResponseFuture::poll: the head of the response arrives.
ResponseHead(r) ==
    /\ req[r] = "called"
    /\ req' = [req EXCEPT ![r] = "body"]
    /\ UNCHANGED <<breaker, failures, window, gate, sem, avail, permit, rsps, via, alive, admitted>>

\* The caller drops the response future: nothing is classified.
CancelResponse(r) ==
    /\ MayCancel
    /\ req[r] = "called"
    /\ req' = [req EXCEPT ![r] = "done"]
    /\ UNCHANGED <<breaker, failures, window, gate, sem, avail, permit, rsps, via, alive, admitted>>

\* ResponseBody ends, fails or is dropped: its class is sent.
ResponseEnds(r, class) ==
    /\ req[r] = "body"
    /\ req' = [req EXCEPT ![r] = "done"]
    /\ Report(r, class)
    /\ UNCHANGED <<breaker, failures, window, gate, sem, avail, permit, via, alive, admitted>>

\* A request is over and its name is used for a later one.
Renew(r) ==
    /\ req[r] = "done"
    /\ breaker = "done" \/ \A i \in DOMAIN rsps : rsps[i][1] # r
    /\ req' = [req EXCEPT ![r] = "idle"]
    /\ via' = [via EXCEPT ![r] = NotReady]
    /\ UNCHANGED <<breaker, failures, window, gate, sem, avail, permit, rsps, alive, admitted>>

(***************************************************************************)
(* The breaker task.                                                       *)
(***************************************************************************)
IsSuccess(class) == class \in {"success", "limited"}
IsProbeSuccess(class) == IsSuccess(class) /\ ~(Strict /\ class = "limited")

\* What a run of responses leaves of the consecutive failure count.
CountFailure(class) == IF MaxFailures > 0 /\ ~IsSuccess(class) THEN failures + 1 ELSE 0

\* SuccessRateWindow::record: samples that aged out are gone, one is added.
\* Time is free, so any part of the samples may have aged out.
Recorded(class) ==
    LET Aged == {w \in [ok : 0..window.ok, total : 0..window.total] :
                    /\ w.ok <= w.total /\ w.total - w.ok <= window.total - window.ok
                    /\ w.total < MaxSamples}
        good == IF class = "success" THEN 1 ELSE 0
    IN  IF ThresholdNum = 0 THEN {Empty}
        ELSE {[ok |-> w.ok + good, total |-> w.total + 1] : w \in Aged}

ShouldTrip(f, w) ==
    \/ MaxFailures > 0 /\ f >= MaxFailures
    \/ /\ w.total > 0 /\ w.total >= MinRequests
       /\ w.ok * ThresholdDen < ThresholdNum * w.total

\* A task that finds the gate without receivers ends.
Enter(state, Change, f, w) ==
    IF alive
      THEN breaker' = state /\ Change /\ failures' = f /\ window' = w
      ELSE breaker' = "done" /\ UNCHANGED <<gateVars, failures, window>>

Received == rsps # <<>> /\ rsps' = Tail(rsps)
Untouched == UNCHANGED <<permit, req, via, alive>>

\* open: count a response; trip and shut the gate when a condition is met.
RecvOpen ==
    /\ breaker = "open"
    /\ Received
    /\ LET class == Head(rsps)[2]
           f == CountFailure(class)
       IN  \E w \in Recorded(class) :
             IF ShouldTrip(f, w)
               THEN Enter("shut", GateShut, f, w) /\ admitted' = 0
               ELSE /\ failures' = f /\ window' = w
                    /\ UNCHANGED <<breaker, gateVars, admitted>>
    /\ Untouched

\* closed: responses that arrive while the gate is shut are ignored.
RecvShut ==
    /\ breaker = "shut"
    /\ Received
    /\ UNCHANGED <<taskVars, gateVars, admitted>> /\ Untouched

\* Mutant: probation leaves the gate shut.
EjectionElapsedShut ==
    /\ breaker = "shut"
    /\ sem < MaxProbations
    /\ Enter("probation", GateShut, failures, window)
    /\ UNCHANGED <<rsps, admitted>> /\ Untouched

\* closed, probation: after the backoff the gate admits one request.
EjectionElapsed ==
    /\ breaker = "shut"
    /\ sem < MaxProbations
    /\ Enter("probation", GateLimit(1), failures, window)
    /\ UNCHANGED <<rsps, admitted>> /\ Untouched

\* Mutant: the counts survive the reopening.
RecvProbationNoReset ==
    /\ breaker = "probation"
    /\ Received
    /\ IF IsProbeSuccess(Head(rsps)[2])
         THEN Enter("open", GateOpen, failures, window)
         ELSE Enter("shut", GateShut, failures, window)
    /\ admitted' = 0
    /\ Untouched

\* probation: the next response decides.
RecvProbation ==
    /\ breaker = "probation"
    /\ Received
    /\ IF IsProbeSuccess(Head(rsps)[2])
         THEN Enter("open", GateOpen, 0, Empty)
         ELSE Enter("shut", GateShut, failures, window)
    /\ admitted' = 0
    /\ Untouched

\* Mutant: probation does not watch the gate.
GateLostNotProbing ==
    /\ breaker \notin {"done", "probation"}
    /\ ~alive
    /\ breaker' = "done"
    /\ rsps' = <<>>
    /\ UNCHANGED <<failures, window, gateVars, admitted>> /\ Untouched

\* The gate is lost: the task ends and closes the channel.
GateLost ==
    /\ breaker # "done"
    /\ ~alive
    /\ breaker' = "done"
    /\ rsps' = <<>>
    /\ UNCHANGED <<failures, window, gateVars, admitted>> /\ Untouched

Task == RecvOpen \/ RecvShut \/ EjectionElapsed \/ RecvProbation \/ GateLost

Respond(r) ==
    \/ ResponseFails(r) \/ ResponseHead(r)
    \/ \E class \in Classes : ResponseEnds(r, class)

BreakerNext ==
    \/ \E c \in Clones : PollReady(c) \/ PollPending(c)
    \/ \E c \in Clones, r \in Requests : Call(c, r)
    \/ \E r \in Requests : Respond(r) \/ CancelResponse(r) \/ Renew(r)
    \/ DropService
    \/ Task

BreakerSpec == BreakerInit /\ [][BreakerNext]_breakerVars

----------------------------------------------------------------------------
(* Properties *)

Ready == {c \in Clones : permit[c] # NotReady}

\* "Probation admits one probe": no semaphore ever admits two requests.
OneProbe ==
    \A r, s \in Requests : via[r] > 0 /\ via[r] = via[s] => r = s

\* Between the gate's shutting and its reopening, the endpoint receives at most
\* one request per clone that was ready too early, and one more by the probe.
EjectionBound ==
    breaker \in {"shut", "probation"} =>
        admitted + Cardinality(Ready) + avail
            <= Cardinality(Clones) + (IF breaker = "probation" THEN 1 ELSE 0)

\* A breaker that is open, freshly or after recovery, meets no trip condition.
OpenNotDue == breaker = "open" => ~ShouldTrip(failures, window)

\* An ejected endpoint gets a bounded number of requests and a probing one gets
\* one; an open breaker meets no trip condition.
BreakerSafe == OneProbe /\ EjectionBound /\ OpenNotDue

\* "Probation admits one probe where a success reopens" and a failure shuts the
\* gate: the probe, once finished, ends the probation.
ProbationEnds ==
    (\E r \in Requests : breaker = "probation" /\ via[r] = sem /\ req[r] = "done")
        ~> (breaker # "probation")

\* An ejected endpoint is probed after its backoff, and when no caller gives up
\* the probation ends.
EjectionEnds ==
    /\ (breaker = "shut" /\ sem < MaxProbations) ~> (breaker # "shut")
    /\ (breaker = "probation") ~> (breaker # "probation")

\* The task ends when the endpoint's service is dropped.
TaskEnds == ~alive ~> (breaker = "done")
============================================================================
