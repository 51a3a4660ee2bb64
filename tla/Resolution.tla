----------------------------- MODULE Resolution -----------------------------
(***************************************************************************)
(* Endpoint discovery: the control plane's endpoint set, the stream that   *)
(* carries its changes (api-resolve), the resolution that reconnects and   *)
(* resynchronises it after failures (resolve/recover.rs), and the endpoint *)
(* set the balancer's worker keeps from its updates.                       *)
(*                                                                         *)
(* An endpoint set maps every address to its metadata, or to Gone.         *)
(***************************************************************************)
EXTENDS Integers, Sequences, FiniteSets

CONSTANTS Addrs, Metas, Gone,
          Valid,      \* addresses that convert to a socket address
          MaxBackoff, \* where the backoff stream ends
          MaxChanges, MaxFaults \* bounds on the control plane and on failures

\* What the proofs need of the constants.
ASSUME ResolutionConstants == Valid \subseteq Addrs /\ Gone \notin Metas /\ MaxBackoff \in Nat \ {0}

VARIABLES truth,     \* the control plane's endpoints
          wire,      \* messages sent on the current stream, not yet received
          rstate,    \* state of the resolution
          backoff,   \* 0: None; n: a backoff stream about to sleep its n-th delay
          rejected,  \* is the error being recovered from a rejection?
          isInitial, \* has the current stream produced no update yet?
          pool,      \* the worker's endpoints
          fails,     \* consecutive failures since an update was last possible
          changes, faults

resolutionVars == <<truth, wire, rstate, backoff, rejected, isInitial, pool, fails, changes, faults>>
ctlVars == <<truth, changes>>
streamVars == <<wire, isInitial>>

EndpointSets == [Addrs -> Metas \cup {Gone}]
None == [a \in Addrs |-> Gone]
Present(eps) == {a \in Addrs : eps[a] # Gone}

\* Only the part of eps on S.
On(eps, S) == [a \in Addrs |-> IF a \in S THEN eps[a] ELSE Gone]

Messages ==
    [type : {"Add"}, eps : EndpointSets] \cup [type : {"Remove"}, addrs : SUBSET Addrs]
        \cup [type : {"NoEndpoints"}, exists : BOOLEAN]

UpdateAdd(eps) == [type |-> "Add", eps |-> eps]
UpdateRemove(S) == [type |-> "Remove", addrs |-> S]
UpdateNoEndpoints(exists) == [type |-> "NoEndpoints", exists |-> exists]

ResolutionTypeOK ==
    /\ truth \in EndpointSets /\ pool \in EndpointSets
    /\ wire \in Seq(Messages)
    /\ rstate \in {"connecting", "connected", "recover", "backoff", "disconnected", "failed"}
    /\ backoff \in 0..MaxBackoff
    /\ rejected \in BOOLEAN /\ isInitial \in BOOLEAN
    /\ fails \in Nat /\ changes \in Nat /\ faults \in Nat

ResolutionInit ==
    /\ truth \in EndpointSets
    /\ wire = <<>> /\ isInitial = FALSE
    /\ rstate = "connecting" /\ backoff = 0 /\ rejected = FALSE
    /\ pool = None
    /\ fails = 0 /\ changes = 0 /\ faults = 0

(***************************************************************************)
(* The control plane: every change is sent on the stream, if there is one. *)
(***************************************************************************)
Change(eps, msg) ==
    /\ changes < MaxChanges
    /\ changes' = changes + 1
    /\ truth' = eps
    /\ wire' = IF rstate = "connected" THEN Append(wire, msg) ELSE wire
    /\ UNCHANGED <<rstate, backoff, rejected, isInitial, pool, fails, faults>>

CtlAdd(a, m) ==
    LET eps == [truth EXCEPT ![a] = m]
    IN  truth[a] # m /\ Change(eps, UpdateAdd(On(eps, {a})))

CtlRemove(a) == truth[a] # Gone /\ Change([truth EXCEPT ![a] = Gone], UpdateRemove({a}))

CtlNoEndpoints(exists) == truth # None /\ Change(None, UpdateNoEndpoints(exists))

\* What a new stream starts with: all endpoints, in one or two messages.
Snapshots ==
    IF truth = None THEN {<<UpdateNoEndpoints(exists)>> : exists \in BOOLEAN}
    ELSE {<<UpdateAdd(truth)>>} \cup
         {<<UpdateAdd(On(truth, S)), UpdateAdd(On(truth, Addrs \ S))>> :
              S \in SUBSET Present(truth) \ {{}, Present(truth)}}

(***************************************************************************)
(* The resolution.                                                         *)
(***************************************************************************)

\* mk_update keeps the addresses that convert; a message without any is skipped.
Skipped(msg) ==
    \/ msg.type = "Add" /\ Present(On(msg.eps, Valid)) = {}
    \/ msg.type = "Remove" /\ msg.addrs \cap Valid = {}

\* Mutant: the first Add of a stream is not a Reset.
UpdatedNoReset(msg, initial) ==
    [a \in Addrs |->
        CASE msg.type = "NoEndpoints" -> Gone
          [] msg.type = "Remove" -> IF a \in msg.addrs \cap Valid THEN Gone ELSE pool[a]
          [] msg.type = "Add" ->
               IF a \in Present(On(msg.eps, Valid)) THEN msg.eps[a] ELSE pool[a]]

\* The worker's endpoints after an update; initial makes an Add a Reset.
Updated(msg, initial) ==
    [a \in Addrs |->
        CASE msg.type = "NoEndpoints" -> Gone
          [] msg.type = "Remove" -> IF a \in msg.addrs \cap Valid THEN Gone ELSE pool[a]
          [] msg.type = "Add" ->
               IF a \in Present(On(msg.eps, Valid)) THEN msg.eps[a]
               ELSE IF initial THEN Gone ELSE pool[a]]

\* Resolution::poll_next and the worker: take an update and apply it.
Recv ==
    /\ rstate = "connected" /\ wire # <<>>
    /\ wire' = Tail(wire)
    /\ LET msg == Head(wire)
       IN  IF Skipped(msg) \/ (isInitial /\ msg.type = "Remove")
             THEN UNCHANGED <<isInitial, pool>>
             ELSE isInitial' = FALSE /\ pool' = Updated(msg, isInitial)
    /\ UNCHANGED <<rstate, backoff, rejected, fails, ctlVars, faults>>

\* The stream ends or fails; messages on it may be lost.
StreamFails(reject) ==
    /\ rstate = "connected"
    /\ faults < MaxFaults
    /\ rstate' = "recover" /\ backoff' = 0 /\ rejected' = reject
    /\ wire' = <<>> /\ isInitial' = FALSE
    /\ fails' = fails + 1 /\ faults' = faults + 1
    /\ UNCHANGED <<pool, ctlVars>>

\* poll_connected, Connecting: the call succeeds.
Connected ==
    /\ rstate = "connecting"
    /\ rstate' = "connected" /\ backoff' = 0
    /\ isInitial' = TRUE
    /\ wire' \in Snapshots
    /\ fails' = 0
    /\ UNCHANGED <<rejected, pool, ctlVars, faults>>

\* poll_connected, Connecting: the call fails and the backoff is kept.
ConnectFails(reject) ==
    /\ rstate = "connecting"
    /\ faults < MaxFaults
    /\ rstate' = "recover" /\ rejected' = reject
    /\ fails' = fails + 1 /\ faults' = faults + 1
    /\ UNCHANGED <<backoff, pool, streamVars, ctlVars>>

\* poll_connected, Recover: back off, or give up.
Recover ==
    /\ rstate = "recover"
    /\ IF rejected THEN rstate' = "failed" /\ backoff' = backoff
       ELSE rstate' = "backoff" /\ backoff' = IF backoff = 0 THEN 1 ELSE backoff
    /\ UNCHANGED <<rejected, pool, fails, streamVars, ctlVars, faults>>

\* poll_connected, Backoff: the delay is over; an exhausted backoff is dropped.
BackoffElapsed ==
    /\ rstate = "backoff"
    /\ rstate' = "disconnected"
    /\ backoff' = IF backoff = MaxBackoff THEN 0 ELSE backoff + 1
    /\ UNCHANGED <<rejected, pool, fails, streamVars, ctlVars, faults>>

\* poll_connected, Disconnected: call the resolver again.
Reconnect ==
    /\ rstate = "disconnected"
    /\ rstate' = "connecting"
    /\ UNCHANGED <<backoff, rejected, pool, fails, streamVars, ctlVars, faults>>

\* What polling the resolution does; calls to the control plane return.
Worker == Recv \/ Connected \/ Recover \/ BackoffElapsed \/ Reconnect

ResolutionNext ==
    \/ \E a \in Addrs, m \in Metas : CtlAdd(a, m)
    \/ \E a \in Addrs : CtlRemove(a)
    \/ \E exists \in BOOLEAN : CtlNoEndpoints(exists)
    \/ Worker
    \/ \E reject \in BOOLEAN : StreamFails(reject) \/ ConnectFails(reject)

ResolutionSpec == ResolutionInit /\ [][ResolutionNext]_resolutionVars

-----------------------------------------------------------------------------
(* Properties *)

\* Messages the resolution will not skip, and the first of them.
Useful == {i \in DOMAIN wire : ~Skipped(wire[i])}
IsReset(i) ==
    \/ wire[i].type = "NoEndpoints"
    \/ isInitial /\ \A j \in Useful : i <= j

\* Does the i-th message say what becomes of a?
Decides(i, a) ==
    \/ IsReset(i)
    \/ wire[i].type = "Add" /\ wire[i].eps[a] # Gone
    \/ wire[i].type = "Remove" /\ a \in wire[i].addrs

Decided(i, a) == IF wire[i].type = "Add" THEN wire[i].eps[a] ELSE Gone

\* On a stream that has produced, or carries, a useful update, what the worker
\* has and what is on its way add up to the control plane's endpoints: nothing
\* is lost or left over by a reconnection.
ViewAddsUp ==
    rstate = "connected" /\ (isInitial => Useful # {}) =>
        \A a \in Valid :
            LET deciding == {i \in Useful : Decides(i, a)}
            IN  truth[a] = IF deciding = {} THEN pool[a]
                           ELSE Decided(CHOOSE i \in deciding : \A j \in deciding : j <= i, a)

\* "Remove must not be initial update" (a debug assertion of poll_next).
InitialNotRemove ==
    rstate = "connected" /\ isInitial =>
        \A i \in Useful : (\A j \in Useful : i <= j) => wire[i].type # "Remove"

\* Only successful connections reset the backoff: the n-th consecutive failure
\* waits for the n-th delay of one backoff stream.
BackoffGrows ==
    rstate = "backoff" /\ fails <= MaxBackoff => backoff = fails

\* What the worker has and what is on its way add up, no stream starts with a
\* removal, and only a success resets the backoff.
ResolutionSafe == ViewAddsUp /\ InitialNotRemove /\ BackoffGrows

\* Once the control plane and the network settle, the worker's endpoints are
\* the control plane's, unless the resolution was rejected.
Converges == <>[](rstate = "failed" \/ pool = truth)
=============================================================================
