----------------------------- MODULE PoolQueue -----------------------------
(***************************************************************************)
(* linkerd/proxy/balance/queue: callers send requests over a bounded mpsc  *)
(* channel to a worker task that owns a pool of endpoints and its          *)
(* discovery stream.  The worker fails requests fast while the pool stays  *)
(* unready, shutting the Gate in front of the queue, and closes the queue  *)
(* with a terminal error when the pool or the discovery stream fails.      *)
(*                                                                         *)
(* The pool is abstract: `ready` says whether Pool::poll_ready would       *)
(* succeed, and discovery updates may change it in either direction.  The  *)
(* failfast timer may expire whenever it is armed.  A caller is a          *)
(* Gate<PoolQueue> clone with at most one outstanding request.             *)
(***************************************************************************)
EXTENDS Integers, Sequences, FiniteSets

CONSTANTS Callers, Capacity, NoMsg, Gone

ASSUME CapacityAssumption == Capacity \in Nat \ {0}
ASSUME CallersAssumption == IsFiniteSet(Callers)
ASSUME DistinctMsgs == NoMsg \notin Callers /\ Gone \notin Callers /\ NoMsg # Gone

VARIABLES worker,    \* program point of the worker task
          msg,       \* the message the worker has taken from the channel
          ff,        \* Failfast::state
          gate,      \* state of the Gate in front of the queue
          terminal,  \* Terminate holds an error
          closed,    \* Receiver::close was called, or the receiver is gone
          queue,     \* messages in the channel; Gone if the caller gave up
          permits,   \* callers whose PollSender holds a permit
          length,    \* the queue-length gauge
          ready,     \* the pool would report readiness
          disco,     \* the discovery stream is "open" or "closed"
          pc,        \* program point of a caller
          handle,    \* callers that still own their service handle
          reply      \* the value sent on the caller's oneshot channel

workerVars == <<worker, msg, ff, gate, terminal, closed>>
envVars == <<ready, disco>>
callerVars == <<pc, handle, permits, reply>>
vars == <<workerVars, envVars, callerVars, queue, length>>

Replies == {"dispatched", "failfast", "terminal"}

TypeOK ==
    /\ worker \in {"select", "busy", "failing", "closing", "draining", "done"}
    /\ msg \in Callers \cup {NoMsg, Gone}
    /\ ff \in {"none", "waiting", "failfast"}
    /\ gate \in {"open", "shut"}
    /\ terminal \in BOOLEAN
    /\ closed \in BOOLEAN
    /\ queue \in Seq(Callers \cup {Gone})
    /\ permits \subseteq Callers
    /\ length \in Int
    /\ ready \in BOOLEAN
    /\ disco \in {"open", "closed"}
    /\ pc \in [Callers -> {"idle", "polling", "reserved", "sent", "awaiting", "failed"}]
    /\ handle \subseteq Callers
    /\ reply \in [Callers -> Replies \cup {"none"}]

Init ==
    /\ worker = "select" /\ msg = NoMsg
    /\ ff = "none" /\ gate = "open"
    /\ terminal = FALSE /\ closed = FALSE
    /\ queue = <<>> /\ permits = {} /\ length = 0
    /\ ready \in BOOLEAN /\ disco = "open"
    /\ pc = [c \in Callers |-> "idle"]
    /\ handle = Callers
    /\ reply = [c \in Callers |-> "none"]
----------------------------------------------------------------------------
(* Callers *)

\* A caller starts to drive Gate::poll_ready, or polls it again after success,
\* in which case its PollSender keeps the permit.
StartPoll(c) ==
    /\ c \in handle
    /\ pc[c] \in {"idle", "reserved"}
    /\ pc' = [pc EXCEPT ![c] = "polling"]
    /\ UNCHANGED <<workerVars, envVars, handle, permits, reply, queue, length>>

\* Mutant: one permit too many.
HasRoomOffByOne == Len(queue) + Cardinality(permits) <= Capacity

HasRoom == Len(queue) + Cardinality(permits) < Capacity

\* Gate::poll_ready passes the open gate and PollSender::poll_reserve obtains,
\* or already holds, a permit.
PollReady(c) ==
    /\ pc[c] = "polling"
    /\ gate = "open"
    /\ c \in permits \/ (~closed /\ HasRoom)
    /\ permits' = permits \cup {c}
    /\ pc' = [pc EXCEPT ![c] = "reserved"]
    /\ UNCHANGED <<workerVars, envVars, handle, reply, queue, length>>

\* Gate::poll_ready passes the open gate and poll_reserve finds the channel
\* closed; the terminal error is read.
PollClosed(c) ==
    /\ pc[c] = "polling"
    /\ gate = "open"
    /\ closed /\ c \notin permits
    /\ pc' = [pc EXCEPT ![c] = "failed"]
    /\ UNCHANGED <<workerVars, envVars, handle, permits, reply, queue, length>>

\* PoolQueue::call: the message is sent with the permit ...
Send(c) ==
    /\ pc[c] = "reserved"
    /\ queue' = Append(queue, c)
    /\ permits' = permits \ {c}
    /\ pc' = [pc EXCEPT ![c] = "sent"]
    /\ UNCHANGED <<workerVars, envVars, handle, reply, length>>

\* ... and only then is the gauge incremented.
Count(c) ==
    /\ pc[c] = "sent"
    /\ length' = length + 1
    /\ pc' = [pc EXCEPT ![c] = "awaiting"]
    /\ UNCHANGED <<workerVars, envVars, handle, permits, reply, queue>>

\* ResponseFuture: the oneshot yields the call, or the error.
Receive(c) ==
    /\ pc[c] = "awaiting"
    /\ reply[c] # "none"
    /\ pc' = [pc EXCEPT ![c] = "idle"]
    /\ reply' = [reply EXCEPT ![c] = "none"]
    /\ UNCHANGED <<workerVars, envVars, handle, permits, queue, length>>

Orphan(c, s) == [i \in DOMAIN s |-> IF s[i] = c THEN Gone ELSE s[i]]

\* The caller drops the ResponseFuture; its message stays where it is.
Cancel(c) ==
    /\ pc[c] = "awaiting"
    /\ pc' = [pc EXCEPT ![c] = "idle"]
    /\ reply' = [reply EXCEPT ![c] = "none"]
    /\ queue' = Orphan(c, queue)
    /\ msg' = IF msg = c THEN Gone ELSE msg
    /\ UNCHANGED <<worker, ff, gate, terminal, closed, envVars, handle, permits, length>>

\* The caller drops its service handle, and with it any permit.
DropHandle(c) ==
    /\ c \in handle
    /\ pc[c] # "sent"
    /\ handle' = handle \ {c}
    /\ permits' = permits \ {c}
    /\ pc' = [pc EXCEPT ![c] = IF @ = "awaiting" THEN @ ELSE "idle"]
    /\ UNCHANGED <<workerVars, envVars, reply, queue, length>>
----------------------------------------------------------------------------
(* The pool and the discovery stream, as the worker sees them *)

\* An endpoint becomes ready or unready.
EndpointChange ==
    /\ worker \in {"select", "busy"}
    /\ ready' = ~ready
    /\ UNCHANGED <<workerVars, disco, callerVars, queue, length>>

\* discover yields an update that drive_pool or ready_pool_for_request applies.
Update ==
    /\ worker \in {"select", "busy"}
    /\ disco = "open"
    /\ ready' \in BOOLEAN
    /\ UNCHANGED <<workerVars, disco, callerVars, queue, length>>

\* The resolution stream ends: discover is pending for ever after.
DiscoveryEnds ==
    /\ worker \in {"select", "busy"}
    /\ disco = "open"
    /\ disco' = "closed"
    /\ UNCHANGED <<workerVars, ready, callerVars, queue, length>>
----------------------------------------------------------------------------
(* The worker *)

Answer(m, r) == IF m \in Callers THEN [reply EXCEPT ![m] = r] ELSE reply

\* Failfast::set_ready
SetReady ==
    /\ ff' = "none"
    /\ gate' = IF ff = "failfast" THEN "open" ELSE gate

\* reqs_rx.recv() yields a message and the gauge is decremented.
Recv ==
    /\ worker = "select"
    /\ queue # <<>>
    /\ msg' = Head(queue)
    /\ queue' = Tail(queue)
    /\ length' = length - 1
    /\ worker' = "busy"
    /\ UNCHANGED <<ff, gate, terminal, closed, envVars, callerVars>>

\* reqs_rx.recv() yields None once every sender is dropped: "Callers dropped".
RecvNone ==
    /\ worker = "select"
    /\ queue = <<>> /\ handle = {}
    /\ worker' = "done"
    /\ closed' = TRUE
    /\ UNCHANGED <<msg, ff, gate, terminal, envVars, callerVars, queue, length>>

\* PoolDriver::drive leaves failfast when the pool becomes ready.
DriveReady ==
    /\ worker = "select"
    /\ ff = "failfast" /\ ready
    /\ SetReady
    /\ UNCHANGED <<worker, msg, terminal, closed, envVars, callerVars, queue, length>>

\* PoolDriver::drive: the pool fails, in ready() or in poll_pool().  A pool in
\* failfast fails out of ready(), after which set_ready opens the gate.
DriveFails ==
    /\ worker = "select"
    /\ SetReady
    /\ worker' = "failing"
    /\ UNCHANGED <<msg, terminal, closed, envVars, callerVars, queue, length>>

\* drive_pool: the discovery stream fails while no request is in hand.
DiscoveryFails ==
    /\ worker = "select"
    /\ disco = "open"
    /\ disco' = "closed"
    /\ worker' = "failing"
    /\ UNCHANGED <<msg, ff, gate, terminal, closed, ready, callerVars, queue, length>>

\* ready_or_failfast: the pool is ready; the request is dispatched to it.
Dispatch ==
    /\ worker = "busy"
    /\ ready
    /\ SetReady
    /\ ready' \in BOOLEAN
    /\ reply' = Answer(msg, "dispatched")
    /\ msg' = NoMsg
    /\ worker' = "select"
    /\ UNCHANGED <<terminal, closed, disco, pc, handle, permits, queue, length>>

\* Failfast::entered arms the timer.
ArmTimer ==
    /\ worker = "busy"
    /\ ~ready /\ ff = "none"
    /\ ff' = "waiting"
    /\ UNCHANGED <<worker, msg, gate, terminal, closed, envVars, callerVars, queue, length>>

\* Mutant: the failfast timer is never awaited.
FailFastUntimed ==
    /\ worker = "busy"
    /\ ~ready /\ ff = "failfast"
    /\ reply' = Answer(msg, "failfast")
    /\ msg' = NoMsg
    /\ worker' = "select"
    /\ UNCHANGED <<ff, gate, terminal, closed, envVars, pc, handle, permits, queue, length>>

\* Failfast::entered returns, at once in failfast or when the timer expires;
\* the gate is shut and PoolDriver::call fails the request.
FailFast ==
    /\ worker = "busy"
    /\ ~ready /\ ff \in {"waiting", "failfast"}
    /\ ff' = "failfast"
    /\ gate' = "shut"
    /\ reply' = Answer(msg, "failfast")
    /\ msg' = NoMsg
    /\ worker' = "select"
    /\ UNCHANGED <<terminal, closed, envVars, pc, handle, permits, queue, length>>

\* ready_pool_for_request: the pool fails out of ready(), after set_ready; the
\* request in hand is failed before the queue is closed.
ReadyFails ==
    /\ worker = "busy"
    /\ SetReady
    /\ reply' = Answer(msg, "terminal")
    /\ msg' = NoMsg
    /\ worker' = "failing"
    /\ UNCHANGED <<terminal, closed, envVars, pc, handle, permits, queue, length>>

\* ready_pool_for_request: the discovery stream fails.
DiscoveryFailsBusy ==
    /\ worker = "busy"
    /\ disco = "open"
    /\ disco' = "closed"
    /\ reply' = Answer(msg, "terminal")
    /\ msg' = NoMsg
    /\ worker' = "failing"
    /\ UNCHANGED <<ff, gate, terminal, closed, ready, pc, handle, permits, queue, length>>

\* Terminate::close publishes the error ...
SetTerminal ==
    /\ worker = "failing"
    /\ terminal' = TRUE
    /\ worker' = "closing"
    /\ UNCHANGED <<msg, ff, gate, closed, envVars, callerVars, queue, length>>

\* ... closes the channel ...
CloseRx ==
    /\ worker = "closing"
    /\ closed' = TRUE
    /\ worker' = "draining"
    /\ UNCHANGED <<msg, ff, gate, terminal, envVars, callerVars, queue, length>>

\* Mutant: drained messages are failed as failfast, as if the queue were up.
DrainFailfast ==
    /\ worker = "draining"
    /\ queue # <<>>
    /\ reply' = Answer(Head(queue), "failfast")
    /\ queue' = Tail(queue)
    /\ length' = length - 1
    /\ UNCHANGED <<workerVars, envVars, pc, handle, permits>>

\* ... and fails every message left in it.
Drain ==
    /\ worker = "draining"
    /\ queue # <<>>
    /\ reply' = Answer(Head(queue), "terminal")
    /\ queue' = Tail(queue)
    /\ length' = length - 1
    /\ UNCHANGED <<workerVars, envVars, pc, handle, permits>>

\* Mutant: the worker ends without draining the channel.
DrainedEarly ==
    /\ worker = "draining"
    /\ permits = {}
    /\ worker' = "done"
    /\ UNCHANGED <<msg, ff, gate, terminal, closed, envVars, callerVars, queue, length>>

\* recv() on a closed channel ends when no message and no permit is left.
Drained ==
    /\ worker = "draining"
    /\ queue = <<>> /\ permits = {}
    /\ worker' = "done"
    /\ UNCHANGED <<msg, ff, gate, terminal, closed, envVars, callerVars, queue, length>>

WorkerStep ==
    \/ Recv \/ RecvNone \/ DriveReady \/ Dispatch \/ ArmTimer \/ FailFast
    \/ SetTerminal \/ CloseRx \/ Drain \/ Drained

EnvStep ==
    \/ EndpointChange \/ Update \/ DiscoveryEnds
    \/ DriveFails \/ DiscoveryFails \/ ReadyFails \/ DiscoveryFailsBusy

CallerStep(c) ==
    \/ StartPoll(c) \/ PollReady(c) \/ PollClosed(c) \/ Send(c) \/ Count(c)
    \/ Receive(c) \/ Cancel(c) \/ DropHandle(c)

Next == WorkerStep \/ EnvStep \/ \E c \in Callers : CallerStep(c)

Spec == Init /\ [][Next]_vars

\* tokio polls a woken worker and fires the failfast timer; a caller finishes a
\* call it began, reads its oneshot and polls readiness when it is woken.
Fairness ==
    /\ WF_vars(WorkerStep)
    /\ \A c \in Callers : /\ WF_vars(Count(c)) /\ WF_vars(Receive(c))
                          /\ WF_vars(PollReady(c)) /\ WF_vars(PollClosed(c))

FairSpec == Spec /\ Fairness
----------------------------------------------------------------------------
(* Properties *)

\* PoolQueue::poll_ready and call expect() a terminal error when the channel is
\* closed: whoever can still see the closed channel finds the error set.
TerminalBeforeClose == closed /\ handle # {} => terminal

InQueue(c) == \E i \in DOMAIN queue : queue[i] = c

\* ResponseFuture expect()s that its oneshot sender is never dropped unused: the
\* message of a waiting caller is in the channel of a running worker, in the
\* worker's hand, or answered.
NoLostReply ==
    \A c \in Callers : pc[c] \in {"sent", "awaiting"} =>
        \/ InQueue(c) /\ worker # "done"
        \/ msg = c
        \/ reply[c] # "none"

\* No expect() of the queue can fail, in poll_ready, in call or in the response.
NoPanic == TerminalBeforeClose /\ NoLostReply

\* The length gauge is what is in the channel, less what call has sent and not
\* yet counted, on the dispatch path and on the terminal path alike.
LengthGauge ==
    length + Cardinality({c \in Callers : pc[c] = "sent"}) = Len(queue)

\* spawn: "While in the failfast state, the provided gate is shut", and only then.
GateTracksFailfast == gate = "shut" <=> ff = "failfast"

\* "the queue supports capacity + 1 items": those reserved, queued or in hand.
CapacityPlusOne ==
    Len(queue) + Cardinality(permits) + (IF msg = NoMsg THEN 0 ELSE 1) <= Capacity + 1

\* The queue's length is reported exactly and bounded as documented.
CountsExact == LengthGauge /\ CapacityPlusOne

InHand == IF msg = NoMsg THEN <<>> ELSE <<msg>>

Abstract == INSTANCE RequestQueue
              WITH Limit <- Capacity + 1, pending <- InHand \o queue,
                   down <- worker \notin {"select", "busy"}, answer <- reply

\* The worker, the channel and the oneshots implement the abstract queue: answers
\* come once and in order, and never a dispatch after a terminal failure.
ImplementsRequestQueue == Abstract!Spec

\* Every request that was sent is answered or abandoned, however long the pool
\* stays unready: the failfast timeout and the terminal drain see to it.
EveryRequestAnswered == \A c \in Callers : pc[c] = "sent" ~> pc[c] \notin {"sent", "awaiting"}

\* A pool that stays ready is taken out of failfast and the gate opens again,
\* unless the worker has ended.
GateReopens == <>[]ready => <>[](gate = "open" \/ worker \notin {"select", "busy"})

\* Once every service handle is dropped the worker task completes.
WorkerStops == handle = {} ~> worker = "done"

\* Requests are answered, failfast ends with its cause, the worker ends with its
\* callers.
Progress == EveryRequestAnswered /\ GateReopens /\ WorkerStops

\* NewBalance: "If the resolution stream fails, the balancer will return an
\* error": no caller waits for ever on a queue that has failed.
FailureReachesCallers ==
    \A c \in Callers : pc[c] = "polling" /\ terminal ~> pc[c] # "polling"
============================================================================
