--------------------------- MODULE Endpoint_proofs ---------------------------
(***************************************************************************)
(* The safety properties of the stack to an endpoint: Breaker, for any     *)
(* finite set of clones and any thresholds, and ForwardQueue, for any      *)
(* clients, any capacity and backoff streams of any length.                *)
(***************************************************************************)
EXTENDS Breaker, ForwardQueue, FiniteSetTheorems, TLAPS

-----------------------------------------------------------------------------
(* Circuit breaking                                                        *)

\* The gate is where the breaker's task put it; only a semaphore is limited.
GateInv ==
    /\ breaker = "open" => gate = "open"
    /\ breaker = "shut" => gate = "shut"
    /\ breaker = "probation" => gate = "limited"
    /\ gate = "limited" => sem > 0

\* A semaphore's only permit is in the semaphore, with one clone, or spent on one
\* request; permits of semaphores that were replaced are with clones or spent.
PermitInv ==
    /\ \A c \in Clones : permit[c] \in -1 .. sem
    /\ \A r \in Requests : via[r] \in -1 .. sem
    /\ avail \in {0, 1}
    /\ \A c, d \in Clones : permit[c] > 0 /\ permit[c] = permit[d] => c = d
    /\ \A c \in Clones, r \in Requests : permit[c] > 0 => via[r] # permit[c]
    /\ avail = 1 => /\ gate = "limited"
                    /\ \A c \in Clones : permit[c] # sem
                    /\ \A r \in Requests : via[r] # sem

BreakerInv ==
    /\ BreakerTypeOK
    /\ GateInv
    /\ PermitInv
    /\ OneProbe
    /\ EjectionBound
    /\ OpenNotDue

-----------------------------------------------------------------------------
(* Types. *)

\* What a response leaves of the window's counts are counts.
LEMMA RecordedType ==
    ASSUME BreakerTypeOK, NEW class
    PROVE  Recorded(class) \subseteq [ok : Nat, total : Nat]
<1>1. window.ok \in Nat /\ window.total \in Nat
  BY DEF BreakerTypeOK
<1>2. ASSUME NEW w \in [ok : 0 .. window.ok, total : 0 .. window.total], NEW good \in {0, 1}
      PROVE  [ok |-> w.ok + good, total |-> w.total + 1] \in [ok : Nat, total : Nat]
  BY <1>1, <1>2
<1>3. Empty \in [ok : Nat, total : Nat]
  BY DEF Empty
<1> QED
  BY <1>2, <1>3 DEF Recorded

LEMMA InitType == BreakerInit => BreakerTypeOK
<1> SUFFICES ASSUME BreakerInit PROVE BreakerTypeOK
  OBVIOUS
<1>1. window \in [ok : Nat, total : Nat] /\ alive \in BOOLEAN
  BY DEF BreakerInit, Empty
<1>2. rsps \in Seq(Requests \X Classes)
  BY DEF BreakerInit
<1>3. permit \in [Clones -> Int] /\ via \in [Requests -> Int]
  BY DEF BreakerInit, NotReady
<1>4. req \in [Requests -> {"idle", "called", "body", "done"}]
  BY DEF BreakerInit
<1> QED
  BY <1>1, <1>2, <1>3, <1>4 DEF BreakerInit, BreakerTypeOK

\* What the channel holds after a response was reported.
LEMMA ReportType ==
    ASSUME BreakerTypeOK, NEW r \in Requests, NEW class \in Classes, Report(r, class)
    PROVE  rsps' \in Seq(Requests \X Classes)
<1>1. <<r, class>> \in Requests \X Classes /\ rsps \in Seq(Requests \X Classes)
  BY DEF BreakerTypeOK
<1>2. Append(rsps, <<r, class>>) \in Seq(Requests \X Classes)
  BY <1>1
<1> QED
  BY <1>1, <1>2 DEF Report

\* What the task takes from the channel, and leaves.
LEMMA ReceivedType ==
    ASSUME BreakerTypeOK, Received
    PROVE  Head(rsps)[2] \in Classes /\ rsps' \in Seq(Requests \X Classes)
<1>1. rsps \in Seq(Requests \X Classes) /\ rsps # <<>>
  BY DEF BreakerTypeOK, Received
<1>2. Head(rsps) \in Requests \X Classes /\ Tail(rsps) \in Seq(Requests \X Classes)
  BY <1>1
<1> QED
  BY <1>2 DEF Received

LEMMA NextType == BreakerTypeOK /\ [BreakerNext]_breakerVars => BreakerTypeOK'
<1> SUFFICES ASSUME BreakerTypeOK, [BreakerNext]_breakerVars PROVE BreakerTypeOK'
  OBVIOUS
<1>1. ASSUME NEW c \in Clones, PollReady(c) \/ PollPending(c) PROVE BreakerTypeOK'
  <2>1. /\ UNCHANGED <<breaker, failures, window, gate, sem, rsps, req, via, alive, admitted>>
        /\ permit' \in [Clones -> Int]
    BY <1>1 DEF PollReady, PollPending, BreakerTypeOK, Unlimited, NotReady
  <2>2. avail' \in Nat
    BY <1>1 DEF PollReady, PollPending, Released, BreakerTypeOK
  <2> QED
    BY <2>1, <2>2 DEF BreakerTypeOK
<1>2. ASSUME NEW c \in Clones, NEW r \in Requests, Call(c, r) PROVE BreakerTypeOK'
  BY <1>2 DEF Call, BreakerTypeOK, NotReady
<1>3. ASSUME NEW r \in Requests, ResponseFails(r) PROVE BreakerTypeOK'
  <2>1. rsps' \in Seq(Requests \X Classes)
    BY <1>3, ReportType DEF ResponseFails, Classes
  <2> QED
    BY <1>3, <2>1 DEF ResponseFails, BreakerTypeOK
<1>4. ASSUME NEW r \in Requests, NEW class \in Classes, ResponseEnds(r, class) PROVE BreakerTypeOK'
  <2>1. rsps' \in Seq(Requests \X Classes)
    BY <1>4, ReportType DEF ResponseEnds
  <2> QED
    BY <1>4, <2>1 DEF ResponseEnds, BreakerTypeOK
<1>5. ASSUME NEW r \in Requests, ResponseHead(r) \/ CancelResponse(r) \/ Renew(r) PROVE BreakerTypeOK'
  <2>1. UNCHANGED <<breaker, failures, window, gate, sem, avail, permit, rsps, alive, admitted>>
    BY <1>5 DEF ResponseHead, CancelResponse, Renew
  <2>2. /\ via' = via \/ via' = [via EXCEPT ![r] = NotReady]
        /\ \E at \in {"body", "done", "idle"} : req' = [req EXCEPT ![r] = at]
    BY <1>5 DEF ResponseHead, CancelResponse, Renew
  <2>3. /\ via' \in [Requests -> Int]
        /\ req' \in [Requests -> {"idle", "called", "body", "done"}]
    BY <2>2 DEF BreakerTypeOK, NotReady
  <2> QED
    BY <2>1, <2>3 DEF BreakerTypeOK
<1>6. CASE DropService
  <2>1. /\ UNCHANGED <<breaker, failures, window, gate, sem, avail, rsps, req, via, admitted>>
        /\ permit' \in [Clones -> Int] /\ alive' = FALSE
    BY <1>6 DEF DropService, NotReady
  <2>2. alive' \in BOOLEAN
    BY <2>1, Zenon
  <2> QED
    BY <2>1, <2>2 DEF BreakerTypeOK
<1>7. CASE RecvOpen
  <2>1. rsps' \in Seq(Requests \X Classes) /\ UNCHANGED <<permit, req, via, alive>>
    BY <1>7, ReceivedType DEF RecvOpen, Untouched
  <2> DEFINE class == Head(rsps)[2]
             f == CountFailure(class)
  <2>2. f \in Nat
    BY DEF CountFailure, BreakerTypeOK
  <2>3. PICK w \in Recorded(class) :
             IF ShouldTrip(f, w)
               THEN Enter("shut", GateShut, f, w) /\ admitted' = 0
               ELSE failures' = f /\ window' = w /\ UNCHANGED <<breaker, gateVars, admitted>>
    BY <1>7 DEF RecvOpen
  <2>4. w \in [ok : Nat, total : Nat]
    BY <2>3, RecordedType
  <2> HIDE DEF f
  <2>5. /\ breaker' \in {"open", "shut", "probation", "done"}
        /\ gate' \in {"open", "limited", "shut"} /\ sem' \in Nat /\ avail' \in Nat /\ admitted' \in Nat
    <3>1. CASE ShouldTrip(f, w)
      <4>1. admitted' = 0 /\ Enter("shut", GateShut, f, w)
        BY <2>3, <3>1, Zenon
      <4>2. \/ breaker' = "shut" /\ gate' = "shut" /\ avail' = 0 /\ sem' = sem
            \/ breaker' = "done" /\ UNCHANGED gateVars
        BY <4>1, Zenon DEF Enter, GateShut
      <4> QED
        BY <4>1, <4>2 DEF gateVars, BreakerTypeOK
    <3>2. CASE ~ShouldTrip(f, w)
      BY <2>3, <3>2 DEF gateVars, BreakerTypeOK
    <3> QED
      BY <3>1, <3>2, Zenon
  <2>6. failures' \in Nat /\ window' \in [ok : Nat, total : Nat]
    BY <2>2, <2>3, <2>4 DEF Enter, BreakerTypeOK
  <2> QED
    BY <2>1, <2>5, <2>6 DEF BreakerTypeOK
<1>8. CASE RecvShut
  <2>1. rsps' \in Seq(Requests \X Classes)
    BY <1>8, ReceivedType DEF RecvShut
  <2> QED
    BY <1>8, <2>1 DEF RecvShut, Untouched, taskVars, gateVars, BreakerTypeOK
<1>9. CASE EjectionElapsed
  BY <1>9 DEF EjectionElapsed, Enter, GateLimit, Untouched, gateVars, BreakerTypeOK
<1>10. CASE RecvProbation
  <2>1. rsps' \in Seq(Requests \X Classes) /\ UNCHANGED <<permit, req, via, alive>> /\ admitted' = 0
    BY <1>10, ReceivedType DEF RecvProbation, Untouched
  <2>2. Empty \in [ok : Nat, total : Nat]
    BY DEF Empty
  <2>3. Enter("open", GateOpen, 0, Empty) \/ Enter("shut", GateShut, failures, window)
    BY <1>10 DEF RecvProbation
  <2> QED
    BY <2>1, <2>2, <2>3 DEF Enter, GateOpen, GateShut, gateVars, BreakerTypeOK
<1>11. CASE GateLost
  <2>1. rsps' \in Seq(Requests \X Classes)
    BY <1>11 DEF GateLost
  <2> QED
    BY <1>11, <2>1 DEF GateLost, Untouched, gateVars, BreakerTypeOK
<1>12. CASE UNCHANGED breakerVars
  BY <1>12 DEF breakerVars, BreakerTypeOK
<1> QED
  BY <1>1, <1>2, <1>3, <1>4, <1>5, <1>6, <1>7, <1>8, <1>9, <1>10, <1>11, <1>12
     DEF BreakerNext, Task, Respond

-----------------------------------------------------------------------------
(* Steps, by what they touch. *)

\* A step of the task leaves clones and requests alone, and it opens, shuts or
\* limits the gate, or leaves it.
LEMMA TaskSteps ==
    ASSUME BreakerTypeOK, GateInv, Task
    PROVE  /\ UNCHANGED <<permit, via>>
           /\ \/ breaker' \in {breaker, "done"} /\ UNCHANGED <<gateVars, admitted>>
              \/ breaker' = "done" /\ UNCHANGED gateVars
              \/ breaker' = "open" /\ GateOpen
              \/ breaker' = "shut" /\ GateShut /\ admitted' = 0
              \/ breaker = "shut" /\ breaker' = "probation" /\ GateLimit(1) /\ admitted' = admitted
<1>1. CASE RecvOpen
  <2>1. UNCHANGED <<permit, via>> /\ breaker = "open"
    BY <1>1 DEF RecvOpen, Untouched
  <2>2. PICK f, w :
             IF ShouldTrip(f, w)
               THEN Enter("shut", GateShut, f, w) /\ admitted' = 0
               ELSE failures' = f /\ window' = w /\ UNCHANGED <<breaker, gateVars, admitted>>
    BY <1>1 DEF RecvOpen
  <2> QED
    BY <2>1, <2>2 DEF Enter
<1>2. CASE RecvShut
  BY <1>2 DEF RecvShut, Untouched, taskVars
<1>3. CASE EjectionElapsed
  BY <1>3 DEF EjectionElapsed, Enter, Untouched
<1>4. CASE RecvProbation
  BY <1>4 DEF RecvProbation, Enter, Untouched
<1>5. CASE GateLost
  BY <1>5 DEF GateLost, Untouched
<1> QED
  BY <1>1, <1>2, <1>3, <1>4, <1>5 DEF Task

\* Responses touch neither clones nor the gate, and requests keep their permits.
ResponseStep(r) == Respond(r) \/ CancelResponse(r)

LEMMA ResponseSteps ==
    ASSUME NEW r \in Requests, ResponseStep(r)
    PROVE  UNCHANGED <<breaker, failures, window, gate, sem, avail, permit, via, admitted>>
BY DEF ResponseStep, Respond, ResponseFails, ResponseHead, ResponseEnds, CancelResponse

\* The disjuncts of the next-state relation, as the proofs split them.
LEMMA Steps ==
    ASSUME [BreakerNext]_breakerVars
    PROVE  \/ \E c \in Clones : PollReady(c) \/ PollPending(c)
           \/ \E c \in Clones, r \in Requests : Call(c, r)
           \/ \E r \in Requests : ResponseStep(r) \/ Renew(r)
           \/ DropService \/ Task \/ UNCHANGED breakerVars
BY DEF BreakerNext, ResponseStep

-----------------------------------------------------------------------------
(* The invariants. *)

LEMMA NextGate == BreakerTypeOK /\ GateInv /\ [BreakerNext]_breakerVars => GateInv'
<1> SUFFICES ASSUME BreakerTypeOK, GateInv, [BreakerNext]_breakerVars PROVE GateInv'
  OBVIOUS
<1>1. CASE Task
  BY <1>1, TaskSteps DEF BreakerTypeOK, GateInv, gateVars, GateOpen, GateShut, GateLimit
<1>2. ASSUME UNCHANGED <<breaker, gate, sem>> PROVE GateInv'
  BY <1>2 DEF GateInv
<1>3. CASE ~Task
  <2>1. UNCHANGED <<breaker, gate, sem>>
    <3>1. ASSUME NEW c \in Clones, PollReady(c) \/ PollPending(c) PROVE UNCHANGED <<breaker, gate, sem>>
      BY <3>1 DEF PollReady, PollPending
    <3>2. ASSUME NEW c \in Clones, NEW r \in Requests, Call(c, r) PROVE UNCHANGED <<breaker, gate, sem>>
      BY <3>2 DEF Call
    <3>3. ASSUME NEW r \in Requests, ResponseStep(r) \/ Renew(r) PROVE UNCHANGED <<breaker, gate, sem>>
      BY <3>3, ResponseSteps DEF Renew
    <3>4. DropService \/ UNCHANGED breakerVars => UNCHANGED <<breaker, gate, sem>>
      BY DEF DropService, breakerVars
    <3> QED
      BY <1>3, <3>1, <3>2, <3>3, <3>4, Steps
  <2> QED
    BY <1>2, <2>1
<1> QED
  BY <1>1, <1>3

\* Permits are neither duplicated nor returned once they are spent.
LEMMA NextPermit == BreakerTypeOK /\ GateInv /\ PermitInv /\ OneProbe /\ [BreakerNext]_breakerVars => PermitInv' /\ OneProbe'
<1> SUFFICES ASSUME BreakerTypeOK, GateInv, PermitInv, OneProbe, [BreakerNext]_breakerVars PROVE PermitInv' /\ OneProbe'
  OBVIOUS
<1>0. /\ sem \in Nat /\ permit \in [Clones -> Int] /\ via \in [Requests -> Int]
      /\ gate = "limited" => sem > 0
  BY DEF BreakerTypeOK, GateInv
<1>1. ASSUME NEW c \in Clones, PollReady(c) PROVE PermitInv' /\ OneProbe'
  <2>1. UNCHANGED <<gate, sem, via>>
    BY <1>1 DEF PollReady
  <2>2. CASE gate = "open"
    <3>1. permit' = [permit EXCEPT ![c] = 0] /\ avail' = avail
      BY <1>1, <2>2 DEF PollReady, Unlimited
    <3> QED
      BY <1>0, <2>1, <2>2, <3>1 DEF PermitInv, OneProbe
  <2>3. CASE gate = "limited"
    <3>1. permit' = [permit EXCEPT ![c] = sem] /\ avail' = Released(c) - 1 /\ Released(c) > 0
      BY <1>1, <2>3 DEF PollReady
    <3>2. CASE permit[c] = sem
      <4>1. avail \in Int /\ avail' = avail
        BY <2>3, <3>1, <3>2 DEF Released, PermitInv
      <4>2. permit' = permit
        BY <1>0, <3>1, <3>2
      <4> QED
        BY <2>1, <4>1, <4>2 DEF PermitInv, OneProbe
    <3>3. CASE permit[c] # sem
      <4>1. avail = 1 /\ avail' = 0
        BY <3>1, <3>3 DEF Released, PermitInv
      <4>2. \A d \in Clones : permit'[d] = IF d = c THEN sem ELSE permit[d]
        BY <1>0, <3>1
      <4>3. /\ \A d \in Clones : permit[d] # sem
            /\ \A r \in Requests : via'[r] = via[r] /\ via[r] # sem
        BY <2>1, <4>1 DEF PermitInv
      <4>4. \A d, e \in Clones : permit'[d] > 0 /\ permit'[d] = permit'[e] => d = e
        BY <4>2, <4>3 DEF PermitInv
      <4>5. \A d \in Clones, r \in Requests : permit'[d] > 0 => via'[r] # permit'[d]
        BY <4>2, <4>3 DEF PermitInv
      <4>6. /\ \A d \in Clones : permit'[d] \in -1 .. sem'
            /\ \A r \in Requests : via'[r] \in -1 .. sem'
        BY <1>0, <2>1, <4>2, <4>3 DEF PermitInv
      <4> QED
        BY <2>1, <4>1, <4>4, <4>5, <4>6 DEF PermitInv, OneProbe
    <3> QED
      BY <3>2, <3>3
  <2> QED
    BY <1>1, <2>2, <2>3 DEF PollReady
<1>2. ASSUME NEW c \in Clones, PollPending(c) PROVE PermitInv' /\ OneProbe'
  <2>1. /\ UNCHANGED <<gate, sem, via>> /\ permit' = [permit EXCEPT ![c] = -1]
        /\ avail' = Released(c)
    BY <1>2 DEF PollPending, NotReady
  <2>2. CASE gate = "limited" /\ permit[c] = sem
    <3>1. avail = 0 /\ avail' = 1
      BY <2>1, <2>2 DEF Released, PermitInv
    <3> QED
      BY <1>0, <2>1, <2>2, <3>1 DEF PermitInv, OneProbe
  <2>3. CASE ~(gate = "limited" /\ permit[c] = sem)
    <3>1. avail' = avail
      BY <2>1, <2>3 DEF Released
    <3> QED
      BY <1>0, <2>1, <3>1 DEF PermitInv, OneProbe
  <2> QED
    BY <2>2, <2>3
<1>3. ASSUME NEW c \in Clones, NEW r \in Requests, Call(c, r) PROVE PermitInv' /\ OneProbe'
  <2>1. /\ UNCHANGED <<gate, sem, avail>> /\ permit' = [permit EXCEPT ![c] = -1]
        /\ via' = [via EXCEPT ![r] = permit[c]]
    BY <1>3 DEF Call, NotReady
  <2> QED
    BY <1>0, <2>1 DEF PermitInv, OneProbe
<1>4. ASSUME NEW r \in Requests, ResponseStep(r) PROVE PermitInv' /\ OneProbe'
  BY <1>4, ResponseSteps DEF PermitInv, OneProbe
<1>5. ASSUME NEW r \in Requests, Renew(r) PROVE PermitInv' /\ OneProbe'
  <2>1. UNCHANGED <<gate, sem, avail, permit>> /\ via' = [via EXCEPT ![r] = -1]
    BY <1>5 DEF Renew, NotReady
  <2> QED
    BY <1>0, <2>1 DEF PermitInv, OneProbe
<1>6. CASE DropService
  <2>1. UNCHANGED <<gate, sem, avail, via>> /\ permit' = [d \in Clones |-> -1]
    BY <1>6 DEF DropService, NotReady
  <2> QED
    BY <1>0, <2>1 DEF PermitInv, OneProbe
<1>7. CASE Task
  <2>1. UNCHANGED <<permit, via>> /\ (UNCHANGED gateVars \/ GateOpen \/ GateShut \/ GateLimit(1))
    BY <1>7, TaskSteps
  <2>2. CASE UNCHANGED gateVars
    BY <2>1, <2>2 DEF gateVars, PermitInv, OneProbe
  <2>3. CASE GateOpen \/ GateShut
    BY <2>1, <2>3 DEF GateOpen, GateShut, PermitInv, OneProbe
  <2>4. CASE GateLimit(1)
    BY <1>0, <2>1, <2>4 DEF GateLimit, PermitInv, OneProbe
  <2> QED
    BY <2>1, <2>2, <2>3, <2>4
<1>8. CASE UNCHANGED breakerVars
  BY <1>8 DEF breakerVars, PermitInv, OneProbe
<1> QED
  BY <1>1, <1>2, <1>3, <1>4, <1>5, <1>6, <1>7, <1>8, Steps

LEMMA ReadyFinite ==
           /\ IsFiniteSet(Ready) /\ Cardinality(Ready) \in Nat /\ Cardinality(Clones) \in Nat
           /\ Cardinality(Ready) <= Cardinality(Clones)
<1>1. IsFiniteSet(Clones) /\ Ready \subseteq Clones
  BY BreakerConstants DEF Ready
<1> QED
  BY <1>1, FS_Subset, FS_CardinalityType

\* An ejected endpoint's requests: what is admitted, and what may still be, is
\* bounded by the clones that were ready when the gate shut, and the probe.
LEMMA NextBound ==
    BreakerTypeOK /\ GateInv /\ PermitInv /\ EjectionBound /\ [BreakerNext]_breakerVars => EjectionBound'
<1> SUFFICES ASSUME BreakerTypeOK, GateInv, PermitInv, EjectionBound, [BreakerNext]_breakerVars
             PROVE  EjectionBound'
  OBVIOUS
<1>0. /\ sem \in Nat /\ avail \in Nat /\ admitted \in Nat /\ permit \in [Clones -> Int]
      /\ Cardinality(Clones) \in Nat /\ Cardinality(Ready) \in Nat /\ IsFiniteSet(Ready)
      /\ Cardinality(Ready) <= Cardinality(Clones)
  BY ReadyFinite DEF BreakerTypeOK
<1>1. ASSUME NEW c \in Clones, PollReady(c) PROVE EjectionBound'
  <2> SUFFICES ASSUME breaker' \in {"shut", "probation"}
               PROVE  admitted' + Cardinality(Ready') + avail'
                        <= Cardinality(Clones) + (IF breaker' = "probation" THEN 1 ELSE 0)
    BY DEF EjectionBound
  <2>1. UNCHANGED <<breaker, gate, admitted>>
    BY <1>1 DEF PollReady
  <2>2. /\ gate = "limited" /\ permit' = [permit EXCEPT ![c] = sem]
        /\ Released(c) > 0 /\ avail' = Released(c) - 1
    BY <1>1, <2>1 DEF PollReady, GateInv
  <2>3. Ready' = Ready \cup {c}
    BY <1>0, <2>2 DEF Ready, NotReady
  <2>4. CASE c \in Ready
    <3>1. Ready' = Ready
      BY <2>3, <2>4
    <3>2. avail' <= avail /\ avail' \in Nat
      BY <1>0, <2>2 DEF Released
    <3> QED
      BY <1>0, <2>1, <3>1, <3>2 DEF EjectionBound
  <2>5. CASE c \notin Ready
    <3>1. Cardinality(Ready') = Cardinality(Ready) + 1
      BY <1>0, <2>3, <2>5, FS_AddElement, Zenon
    <3>2. permit[c] # sem
      BY <1>0, <2>5 DEF Ready, NotReady
    <3>3. avail' = avail - 1
      BY <2>2, <3>2 DEF Released
    <3> QED
      BY <1>0, <2>1, <3>1, <3>3 DEF EjectionBound
  <2> QED
    BY <2>4, <2>5
<1>2. ASSUME NEW c \in Clones, PollPending(c) PROVE EjectionBound'
  <2>1. /\ UNCHANGED <<breaker, admitted>> /\ c \in Ready /\ avail' = Released(c)
        /\ permit' = [permit EXCEPT ![c] = NotReady]
    BY <1>2 DEF PollPending, Ready
  <2>2. Ready' = Ready \ {c}
    BY <1>0, <2>1 DEF Ready
  <2>3. Cardinality(Ready') = Cardinality(Ready) - 1
    BY <1>0, <2>1, <2>2, FS_RemoveElement
  <2>4. avail' <= avail + 1 /\ avail' \in Nat
    BY <1>0, <2>1 DEF Released
  <2> QED
    BY <1>0, <2>1, <2>3, <2>4 DEF EjectionBound
<1>3. ASSUME NEW c \in Clones, NEW r \in Requests, Call(c, r) PROVE EjectionBound'
  <2>1. /\ UNCHANGED <<breaker, avail>> /\ c \in Ready
        /\ admitted' = IF breaker \in {"shut", "probation"} THEN admitted + 1 ELSE admitted
        /\ permit' = [permit EXCEPT ![c] = NotReady]
    BY <1>3 DEF Call, Ready
  <2>2. Ready' = Ready \ {c}
    BY <1>0, <2>1 DEF Ready
  <2>3. Cardinality(Ready') = Cardinality(Ready) - 1
    BY <1>0, <2>1, <2>2, FS_RemoveElement, Zenon
  <2> QED
    BY <1>0, <2>1, <2>3 DEF EjectionBound
<1>4. ASSUME UNCHANGED <<breaker, avail, permit, admitted>> PROVE EjectionBound'
  BY <1>4 DEF EjectionBound, Ready
<1>5. ASSUME NEW r \in Requests, ResponseStep(r) \/ Renew(r) PROVE EjectionBound'
  BY <1>4, <1>5, ResponseSteps DEF Renew
<1>6. CASE DropService
  <2>1. UNCHANGED <<breaker, avail, admitted>> /\ permit' = [d \in Clones |-> NotReady]
    BY <1>6 DEF DropService
  <2>2. Ready' = {}
    BY <2>1 DEF Ready
  <2>3. Cardinality(Ready') = 0
    BY <2>2, FS_EmptySet
  <2> QED
    BY <1>0, <2>1, <2>3 DEF EjectionBound
<1>7. CASE Task
  <2>1. Ready' = Ready
    BY <1>7, TaskSteps DEF Ready
  <2>2. CASE breaker' \in {breaker, "done"} /\ UNCHANGED <<gateVars, admitted>>
    BY <2>1, <2>2 DEF gateVars, EjectionBound
  <2>3. CASE breaker' \in {"done", "open"}
    BY <2>3 DEF EjectionBound
  <2>4. CASE breaker' = "shut" /\ GateShut /\ admitted' = 0
    BY <1>0, <2>1, <2>4 DEF GateShut, EjectionBound
  <2>5. CASE breaker = "shut" /\ breaker' = "probation" /\ GateLimit(1) /\ admitted' = admitted
    BY <1>0, <2>1, <2>5 DEF GateLimit, EjectionBound
  <2> QED
    BY <1>7, <2>2, <2>3, <2>4, <2>5, TaskSteps
<1>8. CASE UNCHANGED breakerVars
  BY <1>4, <1>8 DEF breakerVars
<1> QED
  BY <1>1, <1>2, <1>3, <1>5, <1>6, <1>7, <1>8, Steps

\* A breaker opens with its counts reset, and stays open only below its thresholds.
LEMMA NextDue == BreakerTypeOK /\ OpenNotDue /\ [BreakerNext]_breakerVars => OpenNotDue'
<1> SUFFICES ASSUME BreakerTypeOK, OpenNotDue, [BreakerNext]_breakerVars PROVE OpenNotDue'
  OBVIOUS
<1>1. ASSUME UNCHANGED <<breaker, failures, window>> PROVE OpenNotDue'
  BY <1>1 DEF OpenNotDue, ShouldTrip
<1>2. CASE RecvOpen
  <2>1. PICK f, w :
             IF ShouldTrip(f, w)
               THEN Enter("shut", GateShut, f, w) /\ admitted' = 0
               ELSE failures' = f /\ window' = w /\ UNCHANGED <<breaker, gateVars, admitted>>
    BY <1>2 DEF RecvOpen
  <2>2. CASE ShouldTrip(f, w)
    BY <2>1, <2>2 DEF Enter, OpenNotDue
  <2>3. CASE ~ShouldTrip(f, w)
    BY <2>1, <2>3 DEF OpenNotDue
  <2> QED
    BY <2>2, <2>3
<1>3. CASE RecvProbation
  <2>1. ~ShouldTrip(0, Empty)
    BY BreakerConstants DEF ShouldTrip, Empty
  <2>2. Enter("open", GateOpen, 0, Empty) \/ Enter("shut", GateShut, failures, window)
    BY <1>3 DEF RecvProbation
  <2>3. breaker' = "open" => failures' = 0 /\ window' = Empty
    BY <2>2 DEF Enter
  <2> QED
    BY <2>1, <2>3 DEF OpenNotDue
<1>4. CASE RecvShut \/ EjectionElapsed \/ GateLost
  <2>1. breaker' # "open"
    BY <1>4 DEF RecvShut, EjectionElapsed, GateLost, Enter, taskVars
  <2> QED
    BY <2>1 DEF OpenNotDue
<1>5. ASSUME NEW c \in Clones, PollReady(c) \/ PollPending(c) PROVE OpenNotDue'
  BY <1>1, <1>5 DEF PollReady, PollPending
<1>6. ASSUME NEW c \in Clones, NEW r \in Requests, Call(c, r) PROVE OpenNotDue'
  BY <1>1, <1>6 DEF Call
<1>7. ASSUME NEW r \in Requests, ResponseStep(r) \/ Renew(r) PROVE OpenNotDue'
  BY <1>1, <1>7, ResponseSteps DEF Renew
<1>8. CASE DropService \/ UNCHANGED breakerVars
  BY <1>1, <1>8 DEF DropService, breakerVars
<1> QED
  BY <1>2, <1>3, <1>4, <1>5, <1>6, <1>7, <1>8, Steps DEF Task

LEMMA InitBreakerInv == BreakerInit => BreakerInv
<1> SUFFICES ASSUME BreakerInit PROVE BreakerInv
  OBVIOUS
<1>1. BreakerTypeOK
  BY InitType
<1>2. GateInv /\ EjectionBound
  BY DEF BreakerInit, GateInv, EjectionBound
<1>3. PermitInv /\ OneProbe
  BY DEF BreakerInit, PermitInv, OneProbe, NotReady
<1>4. OpenNotDue
  BY BreakerConstants DEF BreakerInit, OpenNotDue, ShouldTrip, Empty
<1> QED
  BY <1>1, <1>2, <1>3, <1>4 DEF BreakerInv

LEMMA NextBreakerInv == BreakerInv /\ [BreakerNext]_breakerVars => BreakerInv'
BY NextType, NextGate, NextPermit, NextBound, NextDue DEF BreakerInv

\* The inductive invariant holds in every reachable state.
LEMMA Invariance == BreakerSpec => []BreakerInv
BY InitBreakerInv, NextBreakerInv, PTL DEF BreakerSpec

\* Breaker and gate are type-correct for any clones, requests and thresholds.
THEOREM TypeCorrect == BreakerSpec => []BreakerTypeOK
<1>1. BreakerInv => BreakerTypeOK
  BY DEF BreakerInv
<1> QED
  BY <1>1, Invariance, PTL

\* However responses are delayed, lost, cancelled or reordered, no probation admits
\* a second request; between the gate's shutting and its reopening an endpoint gets
\* at most one request per clone and one probe; and an open breaker is below its
\* thresholds, because it opens with its counts reset.
THEOREM BreakingSafe == BreakerSpec => []BreakerSafe
<1>1. BreakerInv => BreakerSafe
  BY DEF BreakerInv, BreakerSafe
<1> QED
  BY <1>1, Invariance, PTL

-----------------------------------------------------------------------------
(* The forward stack's queue, failfast and reconnect                       *)

\* The records that FailFast and Reconnect keep their state in.
TypeInv ==
    /\ failFast \in [state : {"open", "waiting", "failfast"}, elapsed : BOOLEAN]
    /\ reconnect \in [state : {"disconnected", "pending", "connected"},
                      backoff : [some : BOOLEAN, used : 0 .. BackoffLen]]
    /\ dials \in Nat

\* A sender of the gate is left while the worker can still shut it.
SenderInv == worker \in {"idle", "drives"} => gateTx

\* The failfast state has a task, and a task that is done hands back a service
\* that is connected: while it does, nobody else polls it.
TaskInv ==
    /\ task = "none" <=> failFast.state # "failfast"
    /\ task = "ok" => reconnect.state = "connected"

\* Without a backoff stream, as many dials lie behind as streams were used up.
FailuresInv ==
    /\ reconnect.state = "connected" => dials = 0
    /\ reconnect.state = "disconnected" /\ ~reconnect.backoff.some => dials = 0
    /\ reconnect.state = "pending" /\ ~reconnect.backoff.some => dials % (BackoffLen + 1) = 0

QueueInv == TypeInv /\ SenderInv /\ TaskInv /\ FailuresInv /\ QueueSafe

-----------------------------------------------------------------------------
(* The remainder of a successor. *)

LEMMA DivMod ==
    ASSUME NEW n \in Nat \ {0}, NEW x \in Int
    PROVE  x = n * (x \div n) + (x % n) /\ x % n \in 0 .. n - 1 /\ x \div n \in Int
OBVIOUS

LEMMA UniqueMod ==
    ASSUME NEW n \in Nat \ {0}, NEW q \in Int, NEW p \in Int, NEW r \in 0 .. n - 1, NEW s \in 0 .. n - 1,
           n * q + r = n * p + s
    PROVE  r = s
<1>1. n * (q - p) = s - r
  OBVIOUS
<1>2. CASE q - p >= 1
  <2>1. n * (q - p) >= n
    BY <1>2
  <2> QED
    BY <1>1, <2>1
<1>3. CASE q - p <= -1
  <2>1. n * (q - p) <= -n
    BY <1>3
  <2> QED
    BY <1>1, <2>1
<1>4. CASE q = p
  BY <1>4
<1> QED
  BY <1>2, <1>3, <1>4

LEMMA ModIs ==
    ASSUME NEW n \in Nat \ {0}, NEW x \in Int, NEW q \in Int, NEW r \in 0 .. n - 1, x = n * q + r
    PROVE  x % n = r
BY DivMod, UniqueMod

LEMMA ModSucc ==
    ASSUME NEW n \in Nat \ {0}, NEW a \in Int
    PROVE  (a + 1) % n = IF a % n = n - 1 THEN 0 ELSE (a % n) + 1
<1> DEFINE q == a \div n
           r == a % n
<1>1. a = n * q + r /\ r \in 0 .. n - 1 /\ q \in Int
  BY DivMod
<1> HIDE DEF q, r
<1>2. CASE r = n - 1
  <2>0. n * (q + 1) = n * q + n
    BY <1>1
  <2>1. a + 1 = n * (q + 1) + 0 /\ q + 1 \in Int /\ 0 \in 0 .. n - 1
    BY <1>1, <1>2, <2>0
  <2>2. (a + 1) % n = 0
    <3>1. a + 1 \in Int
      OBVIOUS
    <3> QED
      BY <2>1, <3>1, ModIs, Zenon
  <2> QED
    BY <1>2, <2>2 DEF r
<1>3. CASE r # n - 1
  <2>1. a + 1 = n * q + (r + 1) /\ r + 1 \in 0 .. n - 1
    BY <1>1, <1>3
  <2>2. (a + 1) % n = r + 1
    <3>1. a + 1 \in Int
      OBVIOUS
    <3> QED
      BY <1>1, <2>1, <3>1, ModIs, Zenon
  <2> QED
    BY <1>3, <2>2 DEF r
<1> QED
  BY <1>2, <1>3

\* A backoff stream that has yielded as often as services failed, modulo its
\* length, goes on, and one that is over leaves a multiple.
LEMMA Attempts ==
    ASSUME NEW used \in 0 .. BackoffLen, NEW k \in Nat,
           used % (BackoffLen + 1) = (k - 1) % (BackoffLen + 1)
    PROVE  /\ used < BackoffLen => (used + 1) % (BackoffLen + 1) = k % (BackoffLen + 1)
           /\ used = BackoffLen => k % (BackoffLen + 1) = 0
<1> DEFINE n == BackoffLen + 1
<1>1. n \in Nat \ {0} /\ used \in Int /\ k - 1 \in Int
  BY QueueConstants
<1>2. (used + 1) % n = (k - 1 + 1) % n
  <2>1. (used + 1) % n = IF used % n = n - 1 THEN 0 ELSE (used % n) + 1
    BY <1>1, ModSucc, Zenon
  <2>2. (k - 1 + 1) % n = IF (k - 1) % n = n - 1 THEN 0 ELSE ((k - 1) % n) + 1
    BY <1>1, ModSucc, Zenon
  <2> QED
    BY <2>1, <2>2
<1>3. k - 1 + 1 = k
  OBVIOUS
<1>4. used = BackoffLen => (used + 1) % n = 0
  <2> SUFFICES ASSUME used = BackoffLen PROVE (used + 1) % n = 0
    OBVIOUS
  <2>1. used + 1 = n * 1 + 0 /\ 0 \in 0 .. n - 1
    BY <1>1
  <2> QED
    BY <1>1, <2>1, ModIs
<1> QED
  BY <1>2, <1>3, <1>4

-----------------------------------------------------------------------------
(* The invariant. *)

queueState == <<worker, gateTx, gateState, task, failFast, reconnect, dials, panicked>>

\* Clients, and the endpoint, touch only the buffer and the service.
LEMMA OutsideSteps ==
    /\ EndpointReady \/ EndpointBusy \/ EndpointFails => UNCHANGED queueState
    /\ \A c \in Clients :
          QueuePollReady(c) \/ QueueCall(c) \/ Cancel(c) \/ Again(c) \/ QueueRespond(c) => UNCHANGED queueState
<1>1. EndpointReady \/ EndpointBusy \/ EndpointFails => UNCHANGED queueState
  BY DEF EndpointReady, EndpointBusy, EndpointFails, queueState
<1>2. ASSUME NEW c \in Clients, QueuePollReady(c) \/ QueueCall(c) \/ Cancel(c) \/ Again(c) \/ QueueRespond(c)
      PROVE  UNCHANGED queueState
  BY <1>2 DEF QueuePollReady, QueueCall, Cancel, Again, QueueRespond, innerVars, queueState
<1> QED
  BY <1>1, <1>2

LEMMA InitQueueInv == QueueInit => QueueInv
<1> SUFFICES ASSUME QueueInit PROVE QueueInv
  OBVIOUS
<1> USE QueueConstants DEF QueueInit, NewFailFast, NewReconnect, NoBackoff
<1>1. TypeInv
  BY DEF TypeInv
<1>2. SenderInv /\ TaskInv /\ FailuresInv
  BY DEF SenderInv, TaskInv, FailuresInv
<1>3. QueueSafe
  BY DEF QueueSafe, ShutGateIsTended, CalledOnlyConnected, DelaysAddUp
<1> QED
  BY <1>1, <1>2, <1>3 DEF QueueInv

\* The gate, its sender and the task that tends it.
LEMMA NextQueueGate ==
    ASSUME QueueInv, [QueueNext]_fqVars
    PROVE  SenderInv' /\ ShutGateIsTended' /\ (task = "none" <=> failFast.state # "failfast")'
<1> USE DEF QueueInv, QueueSafe, SenderInv, TaskInv, ShutGateIsTended, clientVars, innerVars
<1>0. failFast \in [state : {"open", "waiting", "failfast"}, elapsed : BOOLEAN]
  BY DEF TypeInv
<1>1. ASSUME UNCHANGED queueState
      PROVE  SenderInv' /\ ShutGateIsTended' /\ (task = "none" <=> failFast.state # "failfast")'
  BY <1>1 DEF queueState
<1>2. CASE Take \/ Skip \/ FailRequest
  BY <1>2 DEF Take, Skip, FailRequest
<1>3. CASE Rebuild \/ ReconnectRecover
  BY <1>3 DEF Rebuild, ReconnectRecover
<1>4. CASE DriveReady \/ DriveWaits
  BY <1>4 DEF DriveReady, Dispatch, DriveWaits
<1>5. CASE TimeoutElapses
  <2>1. failFast'.state = failFast.state /\ UNCHANGED <<worker, gateTx, gateState, task>>
    BY <1>0, <1>5 DEF TimeoutElapses
  <2> QED
    BY <2>1
<1>6. CASE EnterFailFast
  BY <1>6 DEF EnterFailFast
<1>7. CASE TaskReady \/ TaskFails
  BY <1>7 DEF TaskReady, TaskFails
<1>8. CASE LeaveFailFast
  BY <1>8 DEF LeaveFailFast, Dispatch
<1>9. CASE WorkerFails
  BY <1>9 DEF WorkerFails
<1>10. CASE Drop
  BY <1>10 DEF Drop
<1>11. CASE UNCHANGED fqVars
  BY <1>1, <1>11 DEF fqVars, queueState
<1> QED
  BY <1>1, <1>2, <1>3, <1>4, <1>5, <1>6, <1>7, <1>8, <1>9, <1>10, <1>11, OutsideSteps
     DEF QueueNext, WorkerStep

\* Only the worker, or the task of the failfast state, drives the Reconnect.
LEMMA ReconnectSteps ==
    ASSUME [QueueNext]_fqVars
    PROVE  \/ UNCHANGED <<reconnect, dials>>
           \/ Rebuild \/ ReconnectRecover
           \/ reconnect' = ReconnectConnected /\ dials' = 0
<1> USE DEF clientVars, innerVars
<1>1. Take \/ Skip \/ DriveWaits \/ EnterFailFast \/ TaskFails \/ WorkerFails \/ FailRequest
        \/ TimeoutElapses \/ Drop => UNCHANGED <<reconnect, dials>>
  BY DEF Take, Skip, DriveWaits, EnterFailFast, TaskFails, WorkerFails, FailRequest, TimeoutElapses, Drop
<1>2. LeaveFailFast => UNCHANGED <<reconnect, dials>>
  BY DEF LeaveFailFast
<1>3. DriveReady \/ TaskReady => reconnect' = ReconnectConnected /\ dials' = 0
  BY DEF DriveReady, TaskReady
<1>4. UNCHANGED queueState \/ UNCHANGED fqVars => UNCHANGED <<reconnect, dials>>
  BY DEF queueState, fqVars
<1> QED
  BY <1>1, <1>2, <1>3, <1>4, OutsideSteps DEF QueueNext, WorkerStep

\* The backoff streams account for the dials.
LEMMA NextBackoff ==
    ASSUME QueueInv, [QueueNext]_fqVars
    PROVE  /\ reconnect' \in [state : {"disconnected", "pending", "connected"},
                              backoff : [some : BOOLEAN, used : 0 .. BackoffLen]]
           /\ dials' \in Nat /\ FailuresInv' /\ DelaysAddUp'
<1>0. /\ reconnect \in [state : {"disconnected", "pending", "connected"},
                        backoff : [some : BOOLEAN, used : 0 .. BackoffLen]]
      /\ dials \in Nat /\ BackoffLen \in Nat /\ FailuresInv /\ DelaysAddUp
  BY QueueConstants DEF QueueInv, TypeInv, QueueSafe
<1> USE DEF FailuresInv, DelaysAddUp
<1>1. CASE UNCHANGED <<reconnect, dials>>
  BY <1>0, <1>1
<1>2. CASE reconnect' = ReconnectConnected /\ dials' = 0
  BY <1>0, <1>2, SMTT(20) DEF ReconnectConnected, NoBackoff
<1>3. CASE Rebuild
  <2>1. reconnect.state = "disconnected" /\ reconnect'.state = "pending" /\ dials' = dials
    BY <1>3 DEF Rebuild
  <2>2. CASE reconnect.backoff.some /\ reconnect.backoff.used < BackoffLen
    <3>1. reconnect' = [state |-> "pending", backoff |-> [some |-> TRUE, used |-> reconnect.backoff.used + 1]]
      BY <1>3, <2>2 DEF Rebuild
    <3>2. (reconnect.backoff.used + 1) % (BackoffLen + 1) = dials % (BackoffLen + 1)
      BY <1>0, <2>1, <2>2, Attempts, Zenon
    <3>3. reconnect.backoff.used + 1 \in 0 .. BackoffLen
      BY <1>0, <2>2
    <3> QED
      BY <1>0, <2>1, <3>1, <3>2, <3>3, SMTT(20)
  <2>3. CASE reconnect.backoff.some /\ ~(reconnect.backoff.used < BackoffLen)
    <3>1. reconnect' = [state |-> "pending", backoff |-> NoBackoff]
      BY <1>3, <2>3 DEF Rebuild
    <3>2. reconnect.backoff.used = BackoffLen
      BY <1>0, <2>3
    <3>3. dials % (BackoffLen + 1) = 0
      BY <1>0, <2>1, <2>3, <3>2, Attempts, Zenon
    <3> QED
      BY <1>0, <2>1, <3>1, <3>3, SMTT(20) DEF NoBackoff
  <2>4. CASE ~reconnect.backoff.some
    <3>1. reconnect' = [state |-> "pending", backoff |-> NoBackoff] /\ dials = 0
      BY <1>0, <1>3, <2>1, <2>4 DEF Rebuild
    <3>2. 0 % (BackoffLen + 1) = 0
      BY <1>0, ModIs
    <3> QED
      BY <1>0, <2>1, <3>1, <3>2, SMTT(20) DEF NoBackoff
  <2> QED
    BY <2>2, <2>3, <2>4
<1>4. CASE ReconnectRecover
  <2>1. dials' = dials + 1 /\ dials' - 1 = dials /\ reconnect'.state = "disconnected"
    BY <1>0, <1>4 DEF ReconnectRecover
  <2>2. CASE reconnect.state = "pending" /\ reconnect.backoff.some
    <3>1. reconnect' = [state |-> "disconnected", backoff |-> reconnect.backoff]
      BY <1>4, <2>2 DEF ReconnectRecover
    <3> QED
      BY <1>0, <2>1, <2>2, <3>1
  <2>3. CASE ~(reconnect.state = "pending" /\ reconnect.backoff.some)
    <3>1. reconnect' = [state |-> "disconnected", backoff |-> [some |-> TRUE, used |-> 0]]
      BY <1>4, <2>3, Zenon DEF ReconnectRecover, NewBackoff
    <3>2. 0 % (BackoffLen + 1) = 0
      BY <1>0, ModIs
    <3>3. dials % (BackoffLen + 1) = 0
      BY <1>0, <1>4, <2>3, <3>2 DEF ReconnectRecover
    <3> QED
      BY <1>0, <2>1, <3>1, <3>2, <3>3, SMTT(20)
  <2> QED
    BY <2>2, <2>3
<1> QED
  BY <1>1, <1>2, <1>3, <1>4, ReconnectSteps

\* A service that the task made ready stays connected until it is called.
LEMMA NextCalled ==
    ASSUME QueueInv, [QueueNext]_fqVars
    PROVE  CalledOnlyConnected' /\ (task = "ok" => reconnect.state = "connected")'
<1> USE DEF QueueInv, QueueSafe, TaskInv, CalledOnlyConnected, clientVars, innerVars
<1>1. ASSUME UNCHANGED queueState
      PROVE  CalledOnlyConnected' /\ (task = "ok" => reconnect.state = "connected")'
  BY <1>1 DEF queueState
<1>2. CASE Take \/ Skip \/ FailRequest \/ DriveWaits \/ TimeoutElapses \/ EnterFailFast \/ TaskFails
             \/ WorkerFails \/ Drop
  <2>1. UNCHANGED <<reconnect, panicked>> /\ (task' = "ok" => task = "ok")
    BY <1>2 DEF Take, Skip, FailRequest, DriveWaits, TimeoutElapses, EnterFailFast, TaskFails,
                WorkerFails, Drop
  <2> QED
    BY <2>1
<1>3. CASE Rebuild \/ ReconnectRecover
  <2>1. UNCHANGED <<task, panicked>> /\ task # "ok"
    BY <1>3 DEF Rebuild, ReconnectRecover, Polled
  <2> QED
    BY <2>1
<1>4. CASE DriveReady
  <2>1. reconnect' = ReconnectConnected /\ panicked' = (panicked \/ reconnect'.state # "connected")
    BY <1>4 DEF DriveReady, Dispatch
  <2>2. reconnect'.state = "connected"
    BY <2>1 DEF ReconnectConnected
  <2> QED
    BY <2>1, <2>2, Zenon
<1>5. CASE TaskReady
  <2>1. reconnect' = ReconnectConnected /\ panicked' = panicked
    BY <1>5 DEF TaskReady
  <2>2. reconnect'.state = "connected"
    BY <2>1 DEF ReconnectConnected
  <2> QED
    BY <2>1, <2>2
<1>6. CASE LeaveFailFast
  <2>1. /\ reconnect' = reconnect /\ task = "ok" /\ task' = "none"
        /\ panicked' = (panicked \/ reconnect'.state # "connected")
    BY <1>6 DEF LeaveFailFast, Dispatch
  <2> QED
    BY <2>1, Zenon
<1>7. CASE UNCHANGED fqVars
  BY <1>1, <1>7 DEF fqVars, queueState
<1> QED
  BY <1>1, <1>2, <1>3, <1>4, <1>5, <1>6, <1>7, OutsideSteps DEF QueueNext, WorkerStep

LEMMA NextFailFast ==
    ASSUME QueueInv, [QueueNext]_fqVars
    PROVE  failFast' \in [state : {"open", "waiting", "failfast"}, elapsed : BOOLEAN]
<1>0. failFast \in [state : {"open", "waiting", "failfast"}, elapsed : BOOLEAN]
  BY DEF QueueInv, TypeInv
<1>1. \/ failFast' = failFast
      \/ failFast' = [failFast EXCEPT !.elapsed = TRUE]
      \/ \E state \in {"open", "waiting", "failfast"} : failFast' = [state |-> state, elapsed |-> FALSE]
  <2>1. Take \/ Skip \/ FailRequest \/ Rebuild \/ ReconnectRecover \/ TaskReady \/ TaskFails \/ Drop
          \/ UNCHANGED queueState \/ UNCHANGED fqVars => failFast' = failFast
    BY DEF Take, Skip, FailRequest, Rebuild, ReconnectRecover, TaskReady, TaskFails, Drop, queueState, fqVars
  <2>2. TimeoutElapses => failFast' = [failFast EXCEPT !.elapsed = TRUE]
    BY DEF TimeoutElapses
  <2>3. DriveReady \/ DriveWaits \/ EnterFailFast \/ LeaveFailFast \/ WorkerFails
          => \E state \in {"open", "waiting", "failfast"} : failFast' = [state |-> state, elapsed |-> FALSE]
    BY DEF DriveReady, DriveWaits, EnterFailFast, LeaveFailFast, WorkerFails
  <2> QED
    BY <2>1, <2>2, <2>3, OutsideSteps DEF QueueNext, WorkerStep
<1>2. CASE failFast' = [failFast EXCEPT !.elapsed = TRUE]
  BY <1>0, <1>2, Zenon
<1>3. CASE \E state \in {"open", "waiting", "failfast"} : failFast' = [state |-> state, elapsed |-> FALSE]
  BY <1>3
<1> QED
  BY <1>0, <1>1, <1>2, <1>3

LEMMA NextQueueInv == QueueInv /\ [QueueNext]_fqVars => QueueInv'
<1> SUFFICES ASSUME QueueInv, [QueueNext]_fqVars PROVE QueueInv'
  OBVIOUS
<1>1. TypeInv'
  BY NextBackoff, NextFailFast DEF TypeInv
<1>2. SenderInv' /\ TaskInv' /\ FailuresInv'
  BY NextQueueGate, NextBackoff, NextCalled DEF TaskInv
<1>3. QueueSafe'
  BY NextQueueGate, NextBackoff, NextCalled DEF QueueSafe
<1> QED
  BY <1>1, <1>2, <1>3 DEF QueueInv

\* For any clients, capacity and backoff: a gate that is shut has a running task that
\* opens it and that alone drives the endpoint, so no client waits at it for nothing;
\* Reconnect is called only with a service that is connected; and the n-th attempt in
\* a row has waited n delays of a backoff stream, or of those that followed it.
THEOREM ForwardSafe == QueueSpec => []QueueSafe
<1>1. QueueInv => QueueSafe
  BY DEF QueueInv
<1> QED
  BY <1>1, InitQueueInv, NextQueueInv, PTL DEF QueueSpec
=============================================================================
