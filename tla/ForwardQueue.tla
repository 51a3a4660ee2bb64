---------------------------- MODULE ForwardQueue ----------------------------
(***************************************************************************)
(* linkerd/stack and linkerd/reconnect: what stands before one endpoint.   *)
(* Clients' services shed load, or wait, in front of a Gate; the requests  *)
(* that pass go through a Buffer whose worker task drives a FailFast, which *)
(* drives a Reconnect, which builds the endpoint's services one at a time. *)
(* While the FailFast fails fast, a task of its own drives the Reconnect.  *)
(***************************************************************************)
EXTENDS Integers, Sequences, FiniteSets, Functions

CONSTANTS
    Clients,
    Shedding,      \* the clients whose service is a LoadShed
    Capacity,      \* queue::Capacity
    BackoffLen,    \* how often a backoff stream yields
    MaxDials       \* bound: consecutive failures to connect

\* What the proofs need of the constants.
ASSUME QueueConstants == BackoffLen \in Nat

VARIABLES
    client,     \* client -> "idle", "polls", "ready", "queued", "called", "ok", "failed", "failfast", "shed"
    permits,    \* clients that hold a permit of the Buffer's semaphore
    gateState,  \* "open" or "shut"
    gateTx,     \* whether a sender of the gate is left
    buffer,     \* queued clients
    worker,     \* "idle", "drives" a request, "failed" or "dropped"
    taken,      \* the request the worker took
    failFast,   \* State of FailFast, and whether its sleep has elapsed
    task,       \* the task of the failfast state: "none", "runs", "ok", "error", "aborted"
    reconnect,  \* State of Reconnect
    service,    \* the service last built: "connecting", "ready", "failed" or,
                \* with an error that recover does not cover, "fatal"
    dials,      \* failures since a service was last ready
    panicked

fqVars == <<client, permits, gateState, gateTx, buffer, worker, taken, failFast, task, reconnect, service,
            dials, panicked>>

NoBackoff == [some |-> FALSE, used |-> 0]
NewBackoff == [some |-> TRUE, used |-> 0]
Nobody == "nobody"

NewFailFast == [state |-> "open", elapsed |-> FALSE]

NewReconnect == [state |-> "disconnected", backoff |-> NoBackoff]

QueueInit ==
    /\ client = [c \in Clients |-> "idle"]
    /\ permits = {}
    /\ gateState = "open" /\ gateTx = TRUE
    /\ buffer = << >> /\ worker = "idle" /\ taken = Nobody
    /\ failFast = NewFailFast
    /\ task = "none"
    /\ reconnect = NewReconnect
    /\ service = "connecting"
    /\ dials = 0
    /\ panicked = FALSE

clientVars == <<client, permits, buffer>>
innerVars == <<reconnect, service, dials>>

-----------------------------------------------------------------------------
(* Clients: LoadShed, Gate and Buffer                                      *)

\* Gate::poll_ready and then Buffer::poll_ready: a permit, or the buffer's error when
\* its worker has stopped.
Opened == gateState = "open"
GatePasses == Opened
HasPermit == Cardinality(permits) + Len(buffer) < Capacity

QueuePollReady(c) ==
    /\ client[c] \in {"idle", "polls"}
    /\ \/ /\ GatePasses /\ worker = "failed"
          /\ client' = [client EXCEPT ![c] = "failed"]
          /\ UNCHANGED permits
       \/ /\ GatePasses /\ HasPermit /\ worker # "failed"
          /\ client' = [client EXCEPT ![c] = "ready"]
          /\ permits' = permits \cup {c}
       \/ /\ ~(GatePasses /\ (HasPermit \/ worker = "failed"))
          /\ client' = [client EXCEPT ![c] = IF c \in Shedding THEN "shed" ELSE "polls"]
          /\ UNCHANGED permits
    /\ UNCHANGED <<gateState, gateTx, buffer, worker, taken, failFast, task, innerVars, panicked>>

\* Gate::call and Buffer::call; a client may drop its service instead, and a request
\* that waits may be canceled.
QueueCall(c) ==
    /\ client[c] = "ready"
    /\ permits' = permits \ {c}
    /\ IF worker = "failed"
       THEN client' = [client EXCEPT ![c] = "failed"] /\ UNCHANGED buffer
       ELSE client' = [client EXCEPT ![c] = "queued"] /\ buffer' = Append(buffer, c)
    /\ UNCHANGED <<gateState, gateTx, worker, taken, failFast, task, innerVars, panicked>>

Cancel(c) ==
    /\ client[c] \in {"ready", "queued", "polls"}
    /\ client' = [client EXCEPT ![c] = "idle"]
    /\ permits' = permits \ {c}
    /\ buffer' = SelectSeq(buffer, LAMBDA d : d # c)
    /\ UNCHANGED <<gateState, gateTx, worker, taken, failFast, task, innerVars, panicked>>

\* A client that was answered has further requests.
Again(c) ==
    /\ client[c] \in {"ok", "failed", "failfast", "shed"}
    /\ client' = [client EXCEPT ![c] = "idle"]
    /\ UNCHANGED <<permits, gateState, gateTx, buffer, worker, taken, failFast, task, innerVars, panicked>>

-----------------------------------------------------------------------------
(* Reconnect, polled by the Buffer's worker or by the failfast task        *)

Polled == (worker = "drives" /\ failFast.state \in {"open", "waiting"}) \/ task = "runs"

\* Disconnected: once its backoff, if any, yields, a service is built; the backoff is
\* kept unless its stream is over.
Rebuild ==
    /\ Polled /\ reconnect.state = "disconnected"
    /\ reconnect' = [state |-> "pending",
                     backoff |-> IF reconnect.backoff.some /\ reconnect.backoff.used < BackoffLen
                                 THEN [some |-> TRUE, used |-> reconnect.backoff.used + 1] ELSE NoBackoff]
    /\ service' = "connecting"
    /\ UNCHANGED <<clientVars, gateState, gateTx, worker, taken, failFast, task, dials, panicked>>

\* A service that fails is given up, and the backoff of failed attempts is kept.
ReconnectRecover ==
    /\ Polled /\ reconnect.state \in {"pending", "connected"} /\ service = "failed"
    /\ dials' = dials + 1
    /\ reconnect' = [state |-> "disconnected",
                     backoff |-> IF reconnect.state = "pending" /\ reconnect.backoff.some
                                 THEN reconnect.backoff ELSE NewBackoff]
    /\ UNCHANGED <<clientVars, gateState, gateTx, worker, taken, failFast, task, service, panicked>>

\* Ready: a pending service is connected from here on.
ReadyService == reconnect.state \in {"pending", "connected"} /\ service = "ready"
ReconnectConnected == [state |-> "connected", backoff |-> NoBackoff]

\* Not ready: the service connects, or the backoff has not yielded.
ReconnectNotReady ==
    \/ reconnect.state \in {"pending", "connected"} /\ service = "connecting"
    \/ reconnect.state = "disconnected" /\ reconnect.backoff.some

\* The endpoint (external): it accepts, or fails before or after that.
EndpointReady ==
    /\ reconnect.state \in {"pending", "connected"} /\ service = "connecting"
    /\ service' = "ready"
    /\ UNCHANGED <<clientVars, gateState, gateTx, worker, taken, failFast, task, reconnect, dials, panicked>>

EndpointBusy ==
    /\ reconnect.state = "connected" /\ service = "ready"
    /\ service' = "connecting"
    /\ UNCHANGED <<clientVars, gateState, gateTx, worker, taken, failFast, task, reconnect, dials, panicked>>

EndpointFails ==
    /\ reconnect.state \in {"pending", "connected"} /\ service \in {"connecting", "ready"}
    /\ dials < MaxDials
    /\ service' \in {"failed", "fatal"}
    /\ UNCHANGED <<clientVars, gateState, gateTx, worker, taken, failFast, task, reconnect, dials, panicked>>

-----------------------------------------------------------------------------
(* The Buffer's worker and FailFast                                        *)

Take ==
    /\ worker = "idle" /\ buffer # << >>
    /\ taken' = Head(buffer) /\ buffer' = Tail(buffer)
    /\ worker' = "drives"
    /\ UNCHANGED <<client, permits, gateState, gateTx, failFast, task, innerVars, panicked>>

\* A request whose client is gone is not worth driving.
Skip ==
    /\ worker = "drives" /\ client[taken] # "queued"
    /\ worker' = "idle" /\ taken' = Nobody
    /\ UNCHANGED <<clientVars, gateState, gateTx, failFast, task, innerVars, panicked>>

\* Reconnect::call finds a connected service, or panics.
Dispatch ==
    /\ panicked' = (panicked \/ reconnect'.state # "connected")
    /\ client' = [client EXCEPT ![taken] = "called"]
    /\ worker' = "idle" /\ taken' = Nobody

\* Open or Waiting, and the inner service is ready.
DriveReady ==
    /\ worker = "drives" /\ client[taken] = "queued"
    /\ failFast.state \in {"open", "waiting"} /\ ReadyService
    /\ failFast' = [state |-> "open", elapsed |-> FALSE]
    /\ reconnect' = ReconnectConnected /\ dials' = 0
    /\ Dispatch
    /\ UNCHANGED <<permits, buffer, gateState, gateTx, task, service>>

\* FailFast without its timeout.
DriveWaitsForever ==
    /\ worker = "drives" /\ failFast.state = "open" /\ ReconnectNotReady
    /\ UNCHANGED fqVars

\* Open, and it is not: the timeout begins.
DriveWaits ==
    /\ worker = "drives" /\ failFast.state = "open" /\ ReconnectNotReady
    /\ failFast' = [state |-> "waiting", elapsed |-> FALSE]
    /\ UNCHANGED <<clientVars, gateState, gateTx, worker, taken, task, innerVars, panicked>>

TimeoutElapses ==
    /\ failFast.state = "waiting" /\ ~failFast.elapsed
    /\ failFast' = [failFast EXCEPT !.elapsed = TRUE]
    /\ UNCHANGED <<clientVars, gateState, gateTx, worker, taken, task, innerVars, panicked>>

\* Still not ready after the timeout: the gate is shut and the task is spawned.
EnterFailFast ==
    /\ worker = "drives" /\ failFast.state = "waiting" /\ failFast.elapsed /\ ReconnectNotReady
    /\ failFast' = [state |-> "failfast", elapsed |-> FALSE]
    /\ gateState' = "shut"
    /\ task' = "runs"
    /\ UNCHANGED <<clientVars, gateTx, worker, taken, innerVars, panicked>>

\* The task: inner.ready(), and then the gate is opened, whatever the result.
TaskReady ==
    /\ task = "runs" /\ ReadyService
    /\ reconnect' = ReconnectConnected /\ dials' = 0
    /\ gateState' = "open"
    /\ task' = "ok"
    /\ UNCHANGED <<clientVars, gateTx, worker, taken, failFast, service, panicked>>

\* In failfast with the task at work, requests are failed at once.
FailRequest ==
    /\ worker = "drives" /\ client[taken] = "queued"
    /\ failFast.state = "failfast" /\ task = "runs"
    /\ client' = [client EXCEPT ![taken] = "failfast"]
    /\ worker' = "idle" /\ taken' = Nobody
    /\ UNCHANGED <<permits, buffer, gateState, gateTx, failFast, task, innerVars, panicked>>

\* The task is done: the service is taken back as it is, and called.
LeaveFailFast ==
    /\ worker = "drives" /\ client[taken] = "queued"
    /\ failFast.state = "failfast" /\ task = "ok"
    /\ failFast' = [state |-> "open", elapsed |-> FALSE]
    /\ task' = "none"
    /\ UNCHANGED reconnect
    /\ Dispatch
    /\ UNCHANGED <<permits, buffer, gateState, gateTx, service, dials>>

\* An error ends the worker, and the requests in the queue; it was found by the
\* worker, or by the task.
Fatal == reconnect.state \in {"pending", "connected"} /\ service = "fatal"

TaskFailsShut ==
    /\ task = "runs" /\ Fatal
    /\ task' = "error"
    /\ UNCHANGED <<clientVars, gateState, gateTx, worker, taken, failFast, innerVars, panicked>>

TaskFails ==
    /\ task = "runs" /\ Fatal
    /\ gateState' = "open"
    /\ task' = "error"
    /\ UNCHANGED <<clientVars, gateTx, worker, taken, failFast, innerVars, panicked>>

WorkerFails ==
    /\ worker = "drives" /\ client[taken] = "queued"
    /\ IF failFast.state = "failfast" THEN task = "error" ELSE Fatal
    /\ failFast' = [state |-> "open", elapsed |-> FALSE]
    /\ task' = "none"
    /\ client' = [c \in Clients |-> IF c = taken \/ c \in Range(buffer) THEN "failed" ELSE client[c]]
    /\ buffer' = << >>
    /\ worker' = "failed" /\ taken' = Nobody
    /\ gateTx' = FALSE
    /\ UNCHANGED <<permits, gateState, innerVars, panicked>>

\* The endpoint's answer.
QueueRespond(c) ==
    /\ client[c] = "called"
    /\ \E r \in {"ok", "failed"} : client' = [client EXCEPT ![c] = r]
    /\ UNCHANGED <<permits, buffer, gateState, gateTx, worker, taken, failFast, task, innerVars, panicked>>

\* All handles are dropped, and the worker ends: dropping the FailFast aborts its task.
Drop ==
    /\ worker = "idle" /\ buffer = << >>
    /\ \A c \in Clients : client[c] \in {"idle", "ok", "failed", "failfast", "shed"}
    /\ worker' = "dropped"
    /\ task' = IF task = "runs" THEN "aborted" ELSE task
    /\ gateTx' = FALSE
    /\ UNCHANGED <<clientVars, gateState, taken, failFast, innerVars, panicked>>

WorkerStep ==
    \/ Take \/ Skip \/ Rebuild \/ ReconnectRecover \/ DriveReady \/ DriveWaits \/ EnterFailFast \/ TaskReady
    \/ TaskFails \/ WorkerFails \/ FailRequest \/ LeaveFailFast \/ TimeoutElapses

QueueNext ==
    \/ WorkerStep
    \/ worker # "dropped" /\ (EndpointReady \/ EndpointBusy \/ EndpointFails)
    \/ Drop
    \/ worker # "dropped" /\ \E c \in Clients : QueuePollReady(c) \/ QueueCall(c) \/ Cancel(c) \/ Again(c)
    \/ \E c \in Clients : QueueRespond(c)

QueueSpec == QueueInit /\ [][QueueNext]_fqVars

-----------------------------------------------------------------------------
(* Properties                                                              *)

\* A gate that is shut will be opened: the task that opens it runs, and it drives a
\* service that nobody else polls.  Clients that wait at the gate depend on it, for
\* no request gets past it to drive the FailFast.
ShutGateIsTended ==
    gateState = "shut" /\ worker # "dropped" => gateTx /\ task = "runs" /\ failFast.state = "failfast"

\* "Called before ready" is unreachable, also for the service that the task made
\* ready and handed back.
CalledOnlyConnected == ~panicked

\* Failed attempts are spaced by one backoff stream that goes on from failure to
\* failure until a service is ready: the n-th attempt in a row waited n delays, up
\* to the end of the stream (Reconnect::poll_ready).
DelaysAddUp ==
    LET pending == reconnect.state = "pending"
    IN  reconnect.backoff.some =>
            reconnect.backoff.used % (BackoffLen + 1) =
                (IF pending THEN dials ELSE dials - 1) % (BackoffLen + 1)

\* A shut gate has a task that will open it, only a connected endpoint is called,
\* and no backoff is lost.
QueueSafe == ShutGateIsTended /\ CalledOnlyConnected /\ DelaysAddUp

\* A request in the queue is answered, however long the endpoint stays away.
QueueDrains == \A c \in Clients : (client[c] = "queued") ~> (client[c] # "queued")
=============================================================================
