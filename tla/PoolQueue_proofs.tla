-------------------------- MODULE PoolQueue_proofs --------------------------
(***************************************************************************)
(* The safety properties of PoolQueue, proved for any finite set of        *)
(* callers and any capacity.                                               *)
(***************************************************************************)
EXTENDS PoolQueue, FiniteSetTheorems, TLAPS

\* The worker holds a message exactly while it waits for the pool.
HandInv == msg # NoMsg <=> worker = "busy"

\* The failfast timer is not armed while the worker waits for messages.
TimerInv == ff = "waiting" => worker # "select"

\* The order of Terminate::close, and what the end of the worker implies.
CloseInv ==
    /\ closed <=> worker \in {"draining", "done"}
    /\ worker \in {"closing", "draining"} => terminal
    /\ worker = "done" => terminal \/ handle = {}
    /\ worker = "done" => queue = <<>> /\ permits = {}

\* Permits belong to service handles, and readiness to permits.
PermitInv ==
    /\ permits \subseteq handle
    /\ \A c \in Callers : pc[c] = "reserved" => c \in permits
    /\ \A c \in Callers : pc[c] \in {"polling", "reserved", "sent"} => c \in handle

\* A waiting caller's message is in the channel, in hand or answered.
PlaceInv ==
    \A c \in Callers : pc[c] \in {"sent", "awaiting"} =>
        InQueue(c) \/ msg = c \/ reply[c] # "none"

IInv ==
    /\ TypeOK
    /\ GateTracksFailfast
    /\ HandInv
    /\ TimerInv
    /\ CloseInv
    /\ PermitInv
    /\ PlaceInv

USE CapacityAssumption, CallersAssumption, DistinctMsgs

\* What Append, Tail and Orphan do to the callers in a queue.
LEMMA AppendQueue ==
    ASSUME NEW S, NEW s \in Seq(S), NEW e \in S
    PROVE  /\ Append(s, e) \in Seq(S)
           /\ \A x : (\E i \in DOMAIN Append(s, e) : Append(s, e)[i] = x)
                       <=> (\E i \in DOMAIN s : s[i] = x) \/ x = e
OBVIOUS

LEMMA TailQueue ==
    ASSUME NEW S, NEW s \in Seq(S), s # <<>>
    PROVE  /\ Head(s) \in S /\ Tail(s) \in Seq(S)
           /\ \A x : (\E i \in DOMAIN s : s[i] = x)
                       => (\E i \in DOMAIN Tail(s) : Tail(s)[i] = x) \/ x = Head(s)
<1>1. Head(s) \in S /\ Tail(s) \in Seq(S)
  OBVIOUS
<1>2. ASSUME NEW i \in DOMAIN s
      PROVE  s[i] = Head(s) \/ \E j \in DOMAIN Tail(s) : Tail(s)[j] = s[i]
  <2>1. CASE i = 1
    BY <2>1
  <2>2. CASE i # 1
    <3>1. i - 1 \in DOMAIN Tail(s) /\ Tail(s)[i - 1] = s[i]
      BY <2>2
    <3> QED
      BY <3>1
  <2> QED
    BY <2>1, <2>2
<1> QED
  BY <1>1, <1>2

LEMMA OrphanQueue ==
    ASSUME NEW s \in Seq(Callers \cup {Gone}), NEW c \in Callers
    PROVE  /\ Orphan(c, s) \in Seq(Callers \cup {Gone})
           /\ Len(Orphan(c, s)) = Len(s)
           /\ \A x \in Callers \ {c} : (\E i \in DOMAIN s : s[i] = x)
                 => (\E i \in DOMAIN Orphan(c, s) : Orphan(c, s)[i] = x)
BY DEF Orphan

LEMMA InitIInv == Init => IInv
<1> SUFFICES ASSUME Init PROVE IInv
  OBVIOUS
<1> USE DEF Init
<1>1. TypeOK
  <2>1. queue \in Seq(Callers \cup {Gone}) /\ length \in Int
    OBVIOUS
  <2>2. terminal \in BOOLEAN /\ closed \in BOOLEAN /\ ready \in BOOLEAN
    BY Zenon
  <2>3. pc \in [Callers -> {"idle", "polling", "reserved", "sent", "awaiting", "failed"}]
    OBVIOUS
  <2>4. reply \in [Callers -> Replies \cup {"none"}]
    OBVIOUS
  <2> QED
    BY <2>1, <2>2, <2>3, <2>4 DEF TypeOK
<1>2. HandInv /\ TimerInv /\ GateTracksFailfast
  BY DEF HandInv, TimerInv, GateTracksFailfast
<1>4. CloseInv
  BY DEF CloseInv
<1>3. PermitInv /\ PlaceInv
  BY DEF PermitInv, PlaceInv
<1> QED
  BY <1>1, <1>2, <1>3, <1>4 DEF IInv

\* No step of the worker, of the pool and its discovery, or of a caller breaks
\* the inductive invariant.
LEMMA NextIInv == IInv /\ [Next]_vars => IInv'
<1> SUFFICES ASSUME IInv, [Next]_vars PROVE IInv'
  OBVIOUS
<1> USE DEF IInv, TypeOK, GateTracksFailfast, HandInv, TimerInv, CloseInv, PermitInv,
            PlaceInv, InQueue, Replies, workerVars, envVars, callerVars
<1>1. CASE Recv
  <2>1. /\ msg' \in Callers \cup {Gone} /\ queue' \in Seq(Callers \cup {Gone})
        /\ \A c \in Callers : InQueue(c) => InQueue(c)' \/ c = msg'
    BY <1>1, TailQueue, Zenon DEF Recv
  <2>2. PlaceInv'
    BY <1>1, <2>1 DEF Recv
  <2> QED
    BY <1>1, <2>1, <2>2 DEF Recv
<1>2. CASE RecvNone
  BY <1>2 DEF RecvNone
<1>3. CASE DriveReady
  BY <1>3 DEF DriveReady, SetReady
<1>4. CASE Dispatch
  BY <1>4 DEF Dispatch, SetReady, Answer
<1>5. CASE ArmTimer
  BY <1>5 DEF ArmTimer
<1>6. CASE FailFast
  BY <1>6 DEF FailFast, Answer
<1>7. CASE SetTerminal
  BY <1>7 DEF SetTerminal
<1>8. CASE CloseRx
  BY <1>8 DEF CloseRx
<1>9. CASE Drain
  <2>1. /\ Head(queue) \in Callers \cup {Gone} /\ queue' \in Seq(Callers \cup {Gone})
        /\ \A c \in Callers : InQueue(c) => InQueue(c)' \/ c = Head(queue)
    BY <1>9, TailQueue DEF Drain
  <2>2. PlaceInv'
    BY <1>9, <2>1 DEF Drain, Answer
  <2>3. reply' \in [Callers -> Replies \cup {"none"}]
    BY <1>9, <2>1 DEF Drain, Answer
  <2> QED
    BY <1>9, <2>1, <2>2, <2>3 DEF Drain
<1>10. CASE Drained
  BY <1>10 DEF Drained
<1>11. CASE EndpointChange
  BY <1>11 DEF EndpointChange
<1>12. CASE Update
  BY <1>12 DEF Update
<1>13. CASE DiscoveryEnds
  BY <1>13 DEF DiscoveryEnds
<1>14. CASE DriveFails
  BY <1>14 DEF DriveFails, SetReady
<1>15. CASE DiscoveryFails
  BY <1>15 DEF DiscoveryFails
<1>16. CASE ReadyFails
  BY <1>16 DEF ReadyFails, SetReady, Answer
<1>17. CASE DiscoveryFailsBusy
  BY <1>17 DEF DiscoveryFailsBusy, Answer
<1>18. ASSUME NEW c \in Callers, StartPoll(c) PROVE IInv'
  BY <1>18 DEF StartPoll
<1>19. ASSUME NEW c \in Callers, PollReady(c) PROVE IInv'
  BY <1>19 DEF PollReady
<1>20. ASSUME NEW c \in Callers, PollClosed(c) PROVE IInv'
  BY <1>20 DEF PollClosed
<1>21. ASSUME NEW c \in Callers, Send(c) PROVE IInv'
  <2>1. /\ queue' \in Seq(Callers \cup {Gone})
        /\ \A d \in Callers : InQueue(d) \/ d = c => InQueue(d)'
    <3>1. queue \in Seq(Callers \cup {Gone}) /\ c \in Callers \cup {Gone}
      OBVIOUS
    <3> HIDE DEF IInv
    <3>2. queue' = Append(queue, c)
      BY <1>21 DEF Send
    <3>3. /\ queue' \in Seq(Callers \cup {Gone})
          /\ \A x : (\E i \in DOMAIN queue' : queue'[i] = x)
                      <=> (\E i \in DOMAIN queue : queue[i] = x) \/ x = c
      BY <3>1, <3>2, AppendQueue
    <3> QED
      BY <3>3
  <2>2. PlaceInv'
    BY <1>21, <2>1 DEF Send
  <2>3. worker # "done"
    BY <1>21 DEF Send
  <2> QED
    BY <1>21, <2>1, <2>2, <2>3 DEF Send
<1>22. ASSUME NEW c \in Callers, Count(c) PROVE IInv'
  BY <1>22 DEF Count
<1>23. ASSUME NEW c \in Callers, Receive(c) PROVE IInv'
  BY <1>23 DEF Receive
<1>24. ASSUME NEW c \in Callers, Cancel(c) PROVE IInv'
  <2> DEFINE q == Orphan(c, queue)
  <2>0. /\ q \in Seq(Callers \cup {Gone}) /\ Len(q) = Len(queue)
        /\ \A d \in Callers \ {c} : InQueue(d) => \E i \in DOMAIN q : q[i] = d
    BY OrphanQueue, Zenon
  <2>1. /\ queue' \in Seq(Callers \cup {Gone})
        /\ \A d \in Callers \ {c} : InQueue(d) => InQueue(d)'
    BY <1>24, <2>0 DEF Cancel
  <2>2. queue = <<>> => queue' = <<>>
    BY <1>24, <2>0 DEF Cancel
  <2>3. PlaceInv'
    BY <1>24, <2>1 DEF Cancel
  <2> QED
    BY <1>24, <2>1, <2>2, <2>3 DEF Cancel
<1>25. ASSUME NEW c \in Callers, DropHandle(c) PROVE IInv'
  BY <1>25 DEF DropHandle
<1>26. CASE UNCHANGED vars
  BY <1>26 DEF vars
<1> QED
  BY <1>1, <1>2, <1>3, <1>4, <1>5, <1>6, <1>7, <1>8, <1>9, <1>10, <1>11, <1>12, <1>13, <1>14, <1>15, <1>16, <1>17, <1>18, <1>19, <1>20, <1>21, <1>22, <1>23, <1>24, <1>25, <1>26, Zenon
     DEF Next, WorkerStep, EnvStep, CallerStep

\* The inductive invariant holds in every reachable state.
LEMMA Invariance == Spec => []IInv
BY InitIInv, NextIInv, PTL DEF Spec

\* The queue is type-correct for any capacity and any finite set of callers.
THEOREM TypeCorrect == Spec => []TypeOK
<1>1. IInv => TypeOK
  BY DEF IInv
<1> QED
  BY <1>1, Invariance, PTL

\* The expect()s of poll_ready and of ResponseFuture never fail: whoever can see
\* the channel closed finds the terminal error that Terminate::close wrote first,
\* and no worker ends with an unanswered message.
THEOREM PanicFree == Spec => []NoPanic
<1>1. IInv => TerminalBeforeClose
  BY DEF IInv, CloseInv, TerminalBeforeClose
<1>2. IInv => NoLostReply
  BY DEF IInv, CloseInv, PlaceInv, NoLostReply, InQueue
<1>3. IInv => NoPanic
  BY <1>1, <1>2 DEF NoPanic
<1> QED
  BY <1>3, Invariance, PTL

\* The gate in front of the queue is shut exactly in failfast.
THEOREM GateSafe == Spec => []GateTracksFailfast
<1>1. IInv => GateTracksFailfast
  BY DEF IInv
<1> QED
  BY <1>1, Invariance, PTL

\* Permits and queued messages together never exceed the channel's capacity.
BoundInv == Len(queue) + Cardinality(permits) <= Capacity

Sent == {c \in Callers : pc[c] = "sent"}

\* How adding and removing one caller changes the sets that are counted.
LEMMA CountOne ==
    ASSUME NEW S \in SUBSET Callers, NEW c \in Callers
    PROVE  /\ Cardinality(S) \in Nat
           /\ Cardinality(S \cup {c}) = IF c \in S THEN Cardinality(S) ELSE Cardinality(S) + 1
           /\ Cardinality(S \ {c}) = IF c \in S THEN Cardinality(S) - 1 ELSE Cardinality(S)
<1>1. IsFiniteSet(S)
  BY FS_Subset
<1> QED
  BY <1>1, FS_CardinalityType, FS_AddElement, FS_RemoveElement

\* Steps that touch neither the channel, nor permits, nor the counted callers.
Quiet == UNCHANGED <<queue, permits, length, Sent>>

LEMMA QuietSteps ==
    ASSUME TypeOK, WorkerStep \/ EnvStep, ~Recv, ~Drain
    PROVE  Quiet
BY DEF TypeOK, WorkerStep, EnvStep, Quiet, Sent, callerVars,
       RecvNone, DriveReady, Dispatch, ArmTimer, FailFast, SetTerminal, CloseRx, Drained,
       EndpointChange, Update, DiscoveryEnds, DriveFails, DiscoveryFails, ReadyFails, DiscoveryFailsBusy

\* The channel's bound and the gauge are maintained by every step.
LEMMA CountsNext ==
    ASSUME IInv, BoundInv, LengthGauge, [Next]_vars
    PROVE  BoundInv' /\ LengthGauge'
<1> USE DEF IInv, TypeOK, BoundInv, LengthGauge
<1>0. /\ Cardinality(permits) \in Nat /\ Cardinality(Sent) \in Nat
      /\ length + Cardinality(Sent) = Len(queue)
      /\ LengthGauge' <=> length' + Cardinality(Sent') = Len(queue')
  <2>1. Sent \in SUBSET Callers /\ permits \in SUBSET Callers
    BY DEF Sent
  <2>2. IsFiniteSet(Sent) /\ IsFiniteSet(permits)
    BY <2>1, FS_Subset, CallersAssumption
  <2> QED
    BY <2>2, FS_CardinalityType DEF Sent
<1>1. ASSUME Quiet PROVE BoundInv' /\ LengthGauge'
  BY <1>0, <1>1 DEF Quiet
<1>2. CASE Recv \/ Drain
  <2>1. /\ permits' = permits /\ Sent' = Sent /\ length' = length - 1
        /\ queue # <<>> /\ queue' = Tail(queue)
    BY <1>2, Zenon DEF Recv, Drain, Sent, callerVars
  <2>2. Len(queue') = Len(queue) - 1
    BY <2>1
  <2>3. /\ Len(queue) \in Nat /\ length \in Int
        /\ Len(queue) + Cardinality(permits) <= Capacity
    OBVIOUS
  <2> HIDE DEF IInv, TypeOK, LengthGauge
  <2>4. LengthGauge'
    <3>1. length' + Cardinality(Sent') = Len(queue')
      BY <1>0, <2>1, <2>2, <2>3
    <3> QED
      BY <1>0, <3>1
  <2>5. BoundInv'
    BY <1>0, <2>1, <2>2, <2>3, CapacityAssumption
  <2> QED
    BY <2>4, <2>5
<1>3. ASSUME NEW c \in Callers, PollReady(c) PROVE BoundInv' /\ LengthGauge'
  <2>1. permits' = permits \cup {c} /\ Sent' = Sent /\ UNCHANGED <<queue, length>>
    BY <1>3 DEF PollReady, Sent
  <2>2. c \in permits \/ Len(queue) + Cardinality(permits) < Capacity
    BY <1>3 DEF PollReady, HasRoom
  <2>3. Cardinality(permits') = IF c \in permits THEN Cardinality(permits)
                                                 ELSE Cardinality(permits) + 1
    BY <2>1, CountOne, Zenon
  <2> QED
    BY <1>0, <2>1, <2>2, <2>3
<1>4. ASSUME NEW c \in Callers, Send(c) PROVE BoundInv' /\ LengthGauge'
  <2>1. /\ permits' = permits \ {c} /\ Sent' = Sent \cup {c} /\ length' = length
        /\ Len(queue') = Len(queue) + 1 /\ c \in permits /\ c \notin Sent
    BY <1>4 DEF Send, Sent, PermitInv
  <2>2. Cardinality(permits') = Cardinality(permits) - 1
    BY <2>1, CountOne
  <2>3. Sent \in SUBSET Callers
    BY DEF Sent
  <2>4. Cardinality(Sent') = Cardinality(Sent) + 1
    BY <2>1, <2>3, CountOne
  <2>5. /\ Len(queue) \in Nat /\ length \in Int
        /\ Len(queue) + Cardinality(permits) <= Capacity
    OBVIOUS
  <2>6. length' = length /\ Len(queue') = Len(queue) + 1
    BY <2>1, Zenon
  <2> HIDE DEF IInv, TypeOK, LengthGauge
  <2>7. LengthGauge'
    <3>1. length' + Cardinality(Sent') = Len(queue')
      BY <1>0, <2>4, <2>5, <2>6
    <3> QED
      BY <1>0, <3>1
  <2>8. BoundInv'
    BY <1>0, <2>2, <2>5, <2>6, CapacityAssumption
  <2> QED
    BY <2>7, <2>8
<1>5. ASSUME NEW c \in Callers, Count(c) PROVE BoundInv' /\ LengthGauge'
  <2>1. /\ Sent' = Sent \ {c} /\ c \in Sent /\ length' = length + 1
        /\ UNCHANGED <<queue, permits>>
    BY <1>5 DEF Count, Sent
  <2>2. Sent \in SUBSET Callers
    BY DEF Sent
  <2>3. Cardinality(Sent') = Cardinality(Sent) - 1
    BY <2>1, <2>2, CountOne
  <2> QED
    BY <1>0, <2>1, <2>3
<1>6. ASSUME NEW c \in Callers, Cancel(c) PROVE BoundInv' /\ LengthGauge'
  <2>1. Sent' = Sent /\ UNCHANGED <<permits, length>> /\ queue' = Orphan(c, queue)
    BY <1>6 DEF Cancel, Sent
  <2>2. Len(queue') = Len(queue)
    BY <2>1, OrphanQueue
  <2> QED
    BY <1>0, <2>1, <2>2
<1>7. ASSUME NEW c \in Callers, DropHandle(c) PROVE BoundInv' /\ LengthGauge'
  <2>1. Sent' = Sent /\ permits' = permits \ {c} /\ UNCHANGED <<queue, length>>
    BY <1>7 DEF DropHandle, Sent
  <2>2. Cardinality(permits') = IF c \in permits THEN Cardinality(permits) - 1
                                                 ELSE Cardinality(permits)
    BY <2>1, CountOne, Zenon
  <2> QED
    BY <1>0, <2>1, <2>2
<1>8. ASSUME NEW c \in Callers, StartPoll(c) \/ PollClosed(c) \/ Receive(c) PROVE Quiet
  BY <1>8 DEF StartPoll, PollClosed, Receive, Quiet, Sent
<1>9. CASE UNCHANGED vars
  BY <1>9, <1>1 DEF vars, Quiet, Sent, callerVars
<1> QED
  BY <1>1, <1>2, <1>3, <1>4, <1>5, <1>6, <1>7, <1>8, <1>9, QuietSteps, Zenon
     DEF Next, CallerStep

\* The channel's bound and the gauge hold in every reachable state.
LEMMA Bounded == Spec => [](BoundInv /\ LengthGauge)
<1>1. Init => BoundInv /\ LengthGauge
  <2> SUFFICES ASSUME Init PROVE BoundInv /\ LengthGauge
    OBVIOUS
  <2>1. {c \in Callers : pc[c] = "sent"} = {} /\ permits = {} /\ Len(queue) = 0
    BY DEF Init
  <2> QED
    <3>1. /\ Cardinality({c \in Callers : pc[c] = "sent"}) = 0
          /\ Cardinality(permits) = 0 /\ length = 0
      BY <2>1, FS_EmptySet, Zenon DEF Init
    <3> QED
      BY <2>1, <3>1 DEF BoundInv, LengthGauge
<1>2. IInv /\ (BoundInv /\ LengthGauge) /\ [Next]_vars => (BoundInv /\ LengthGauge)'
  BY CountsNext
<1> QED
  BY <1>1, <1>2, Invariance, PTL DEF Spec

\* The length gauge is exact up to the calls that have not counted themselves,
\* and the queue holds at most capacity + 1 requests, as its worker notes.
THEOREM CountsSafe == Spec => []CountsExact
<1>1. IInv /\ BoundInv => CapacityPlusOne
  <2> SUFFICES ASSUME IInv, BoundInv PROVE CapacityPlusOne
    OBVIOUS
  <2>1. IsFiniteSet(permits)
    BY FS_Subset, CallersAssumption DEF IInv, TypeOK
  <2>2. Cardinality(permits) \in Nat /\ Len(queue) \in Nat
    BY <2>1, FS_CardinalityType DEF IInv, TypeOK
  <2> QED
    BY <2>2 DEF BoundInv, CapacityPlusOne
<1>2. CountsExact <=> LengthGauge /\ CapacityPlusOne
  BY DEF CountsExact
<1> QED
  BY <1>1, <1>2, Invariance, Bounded, PTL
-----------------------------------------------------------------------------
(* The refinement of RequestQueue.                                         *)

Unique(s) == \A i, j \in DOMAIN s : s[i] = s[j] /\ s[i] \in Callers => i = j

\* A caller has at most one message, and while it has one it has no reply: what the
\* abstract queue needs to accept a request of a caller, and to answer it once.
OnceInv ==
    /\ Unique(queue)
    /\ \A c \in Callers : InQueue(c) => msg # c /\ reply[c] = "none" /\ pc[c] \in {"sent", "awaiting"}
    /\ \A c \in Callers : msg = c => reply[c] = "none" /\ pc[c] \in {"sent", "awaiting"}
    /\ \A c \in Callers : reply[c] # "none" => pc[c] \in {"sent", "awaiting"}

LEMMA UniqueAppend ==
    ASSUME NEW s \in Seq(Callers \cup {Gone}), NEW c \in Callers, Unique(s),
           ~\E i \in DOMAIN s : s[i] = c
    PROVE  Unique(Append(s, c))
BY DEF Unique

LEMMA UniqueTail ==
    ASSUME NEW s \in Seq(Callers \cup {Gone}), s # <<>>, Unique(s)
    PROVE  /\ Unique(Tail(s))
           /\ \A c \in Callers : (\E i \in DOMAIN Tail(s) : Tail(s)[i] = c)
                 => c # Head(s) /\ \E i \in DOMAIN s : s[i] = c
<1>1. /\ DOMAIN s = 1 .. Len(s) /\ DOMAIN Tail(s) = 1 .. Len(s) - 1 /\ Len(s) \in Nat \ {0}
      /\ \A i \in DOMAIN Tail(s) : Tail(s)[i] = s[i + 1]
      /\ Head(s) = s[1]
  OBVIOUS
<1> QED
  BY <1>1 DEF Unique

LEMMA UniqueOrphan ==
    ASSUME NEW s \in Seq(Callers \cup {Gone}), NEW c \in Callers, Unique(s)
    PROVE  /\ Unique(Orphan(c, s))
           /\ \A d \in Callers : (\E i \in DOMAIN Orphan(c, s) : Orphan(c, s)[i] = d)
                 => d # c /\ \E i \in DOMAIN s : s[i] = d
<1>1. /\ DOMAIN Orphan(c, s) = DOMAIN s
      /\ \A i \in DOMAIN s : Orphan(c, s)[i] = IF s[i] = c THEN Gone ELSE s[i]
  BY DEF Orphan
<1> QED
  BY <1>1 DEF Unique

LEMMA InitOnce == Init => OnceInv
BY DEF Init, OnceInv, Unique, InQueue

\* No step duplicates a message, or answers it and keeps it.
LEMMA NextOnce == IInv /\ OnceInv /\ [Next]_vars => OnceInv'
<1> SUFFICES ASSUME IInv, OnceInv, [Next]_vars PROVE OnceInv'
  OBVIOUS
<1> USE DEF OnceInv, InQueue, workerVars, envVars, callerVars
<1>0. TypeOK /\ HandInv /\ PermitInv
  BY DEF IInv
<1>1. CASE Recv
  <2>1. /\ Unique(queue') /\ msg' = Head(queue) /\ Head(queue) \in Callers \cup {Gone}
        /\ \A c \in Callers : InQueue(c)' => c # Head(queue) /\ InQueue(c)
    BY <1>0, <1>1, UniqueTail DEF Recv, TypeOK
  <2>2. \A c \in Callers : c = Head(queue) => InQueue(c)
    BY <1>0, <1>1 DEF Recv, TypeOK
  <2> QED
    BY <1>1, <2>1, <2>2 DEF Recv
<1>2. CASE Drain
  <2>1. /\ Unique(queue') /\ Head(queue) \in Callers \cup {Gone}
        /\ \A c \in Callers : InQueue(c)' => c # Head(queue) /\ InQueue(c)
    BY <1>0, <1>2, UniqueTail DEF Drain, TypeOK
  <2>2. \A c \in Callers : c = Head(queue) => InQueue(c)
    BY <1>0, <1>2 DEF Drain, TypeOK
  <2>3. msg \notin Callers
    BY <1>0, <1>2 DEF Drain, HandInv
  <2>4. \A c \in Callers : reply'[c] = IF c = Head(queue) THEN "terminal" ELSE reply[c]
    BY <1>0, <1>2 DEF Drain, Answer, TypeOK
  <2> QED
    BY <1>2, <2>1, <2>2, <2>3, <2>4 DEF Drain
<1>3. CASE Dispatch \/ FailFast \/ ReadyFails \/ DiscoveryFailsBusy
  <2>1. UNCHANGED <<queue, pc>> /\ msg' = NoMsg
    BY <1>3 DEF Dispatch, FailFast, ReadyFails, DiscoveryFailsBusy
  <2>2. \A c \in Callers : c # msg => reply'[c] = reply[c]
    BY <1>0, <1>3 DEF Dispatch, FailFast, ReadyFails, DiscoveryFailsBusy, Answer, TypeOK
  <2> QED
    BY <2>1, <2>2
<1>4. CASE RecvNone \/ DriveReady \/ ArmTimer \/ SetTerminal \/ CloseRx \/ Drained
             \/ EndpointChange \/ Update \/ DiscoveryEnds \/ DriveFails \/ DiscoveryFails
  <2>1. UNCHANGED <<queue, pc, msg, reply>>
    BY <1>4 DEF RecvNone, DriveReady, ArmTimer, SetTerminal, CloseRx, Drained,
                EndpointChange, Update, DiscoveryEnds, DriveFails, DiscoveryFails
  <2> QED
    BY <2>1
<1>5. ASSUME NEW c \in Callers, StartPoll(c) \/ PollReady(c) \/ PollClosed(c) \/ DropHandle(c)
      PROVE  OnceInv'
  <2>1. /\ UNCHANGED <<queue, msg, reply>>
        /\ \A d \in Callers : pc[d] \in {"sent", "awaiting"} => pc'[d] = pc[d]
    BY <1>0, <1>5 DEF StartPoll, PollReady, PollClosed, DropHandle, TypeOK
  <2> QED
    BY <2>1
<1>6. ASSUME NEW c \in Callers, Send(c) PROVE OnceInv'
  <2>1. ~InQueue(c) /\ msg # c /\ reply[c] = "none"
    BY <1>6 DEF Send
  <2>2. Unique(queue') /\ \A d \in Callers : InQueue(d)' <=> InQueue(d) \/ d = c
    <3>1. queue \in Seq(Callers \cup {Gone}) /\ c \in Callers \cup {Gone} /\ queue' = Append(queue, c)
      BY <1>0, <1>6 DEF Send, TypeOK
    <3>2. Unique(Append(queue, c))
      BY <2>1, <3>1, UniqueAppend
    <3>3. Unique(queue')
      BY <3>1, <3>2, Zenon
    <3>4. \A d \in Callers : InQueue(d)' <=> InQueue(d) \/ d = c
      BY <3>1, AppendQueue
    <3> QED
      BY <3>3, <3>4, Zenon
  <2>3. \A d \in Callers : pc'[d] = IF d = c THEN "sent" ELSE pc[d]
    BY <1>0, <1>6 DEF Send, TypeOK
  <2>4. UNCHANGED <<msg, reply>>
    BY <1>6 DEF Send
  <2>5. Unique(queue) /\ \A d \in Callers : InQueue(d) => msg # d /\ reply[d] = "none" /\ pc[d] \in {"sent", "awaiting"}
    OBVIOUS
  <2>6. \A d \in Callers : /\ msg = d => reply[d] = "none" /\ pc[d] \in {"sent", "awaiting"}
                           /\ reply[d] # "none" => pc[d] \in {"sent", "awaiting"}
    OBVIOUS
  <2> HIDE DEF InQueue, OnceInv
  <2>7. \A d \in Callers : InQueue(d)' => msg' # d /\ reply'[d] = "none" /\ pc'[d] \in {"sent", "awaiting"}
    BY <2>1, <2>2, <2>3, <2>4, <2>5
  <2>8. \A d \in Callers : /\ msg' = d => reply'[d] = "none" /\ pc'[d] \in {"sent", "awaiting"}
                           /\ reply'[d] # "none" => pc'[d] \in {"sent", "awaiting"}
    BY <2>3, <2>4, <2>6
  <2> QED
    BY <2>2, <2>7, <2>8 DEF OnceInv
<1>7. ASSUME NEW c \in Callers, Count(c) PROVE OnceInv'
  <2>1. \A d \in Callers : pc'[d] = IF d = c THEN "awaiting" ELSE pc[d]
    BY <1>0, <1>7 DEF Count, TypeOK
  <2> QED
    BY <1>7, <2>1 DEF Count
<1>8. ASSUME NEW c \in Callers, Receive(c) PROVE OnceInv'
  <2>1. /\ \A d \in Callers : pc'[d] = IF d = c THEN "idle" ELSE pc[d]
        /\ \A d \in Callers : reply'[d] = IF d = c THEN "none" ELSE reply[d]
    BY <1>0, <1>8 DEF Receive, TypeOK
  <2> QED
    BY <1>8, <2>1 DEF Receive
<1>9. ASSUME NEW c \in Callers, Cancel(c) PROVE OnceInv'
  <2>1. /\ \A d \in Callers : pc'[d] = IF d = c THEN "idle" ELSE pc[d]
        /\ \A d \in Callers : reply'[d] = IF d = c THEN "none" ELSE reply[d]
    BY <1>0, <1>9 DEF Cancel, TypeOK
  <2>2. Unique(queue') /\ \A d \in Callers : InQueue(d)' => d # c /\ InQueue(d)
    BY <1>0, <1>9, UniqueOrphan DEF Cancel, TypeOK
  <2> QED
    BY <1>9, <2>1, <2>2 DEF Cancel
<1>10. CASE UNCHANGED vars
  BY <1>10 DEF vars
<1> QED
  BY <1>1, <1>2, <1>3, <1>4, <1>5, <1>6, <1>7, <1>8, <1>9, <1>10
     DEF Next, WorkerStep, EnvStep, CallerStep

\* The message in hand is the head of the abstract queue, and the channel its rest.
LEMMA HandFirst ==
    ASSUME TypeOK
    PROVE  /\ InHand \o queue \in Seq(Callers \cup {Gone})
           /\ msg = NoMsg => InHand \o queue = queue
           /\ msg # NoMsg => /\ InHand \o queue # <<>>
                             /\ Head(InHand \o queue) = msg
                             /\ Tail(InHand \o queue) = queue
                             /\ Len(InHand \o queue) = Len(queue) + 1
<1>1. queue \in Seq(Callers \cup {Gone})
  BY DEF TypeOK
<1>2. CASE msg = NoMsg
  BY <1>1, <1>2 DEF InHand
<1>3. CASE msg # NoMsg
  <2>1. InHand = <<msg>> /\ msg \in Callers \cup {Gone}
    BY <1>3 DEF InHand, TypeOK
  <2>2. <<msg>> \in Seq(Callers \cup {Gone})
    BY <2>1
  <2>3. InHand \o queue \in Seq(Callers \cup {Gone}) /\ Len(InHand \o queue) = Len(queue) + 1
    BY <1>1, <2>1, <2>2
  <2>4. Head(InHand \o queue) = msg /\ InHand \o queue # <<>>
    BY <1>1, <2>1
  <2>5. Tail(InHand \o queue) = queue
    BY <1>1, <2>1
  <2> QED
    BY <1>3, <2>3, <2>4, <2>5
<1> QED
  BY <1>2, <1>3

LEMMA HandHas ==
    ASSUME TypeOK, NEW c \in Callers, \E i \in DOMAIN (InHand \o queue) : (InHand \o queue)[i] = c
    PROVE  msg = c \/ InQueue(c)
<1>1. CASE msg = NoMsg
  BY <1>1, HandFirst DEF InQueue
<1>2. CASE msg # NoMsg
  <2>1. PICK i \in DOMAIN (InHand \o queue) : (InHand \o queue)[i] = c
    OBVIOUS
  <2>2. /\ DOMAIN (InHand \o queue) = 1 .. Len(queue) + 1
        /\ (InHand \o queue)[1] = msg
        /\ \A j \in DOMAIN (InHand \o queue) \ {1} : j - 1 \in DOMAIN queue /\ (InHand \o queue)[j] = queue[j - 1]
    BY <1>2 DEF TypeOK, InHand
  <2> QED
    BY <2>1, <2>2 DEF InQueue
<1> QED
  BY <1>1, <1>2

\* Answering the message in hand is answering the head.
LEMMA AnswersHead ==
    ASSUME TypeOK, NEW r, msg # NoMsg, msg' = NoMsg, queue' = queue, reply' = Answer(msg, r)
    PROVE  Abstract!AnswerHead(r)
<1>1. InHand' \o queue' = queue
  BY DEF InHand, TypeOK
<1>2. reply' = [c \in Callers |-> IF c = msg THEN r ELSE reply[c]]
  BY Zenon DEF Answer, TypeOK
<1> QED
  BY <1>1, <1>2, HandFirst DEF Abstract!AnswerHead

\* Every step of the worker, the channel and the callers is a step of the abstract
\* queue or leaves it as it is.
LEMMA NextRefines ==
    ASSUME IInv, OnceInv, BoundInv, [Next]_vars
    PROVE  [Abstract!Next]_(Abstract!vars)
<1> USE DEF workerVars, envVars, callerVars
<1>0. TypeOK /\ HandInv
  BY DEF IInv
<1>1. CASE Recv
  <2>1. msg = NoMsg /\ queue # <<>> /\ msg' = Head(queue) /\ queue' = Tail(queue)
    BY <1>0, <1>1 DEF Recv, HandInv
  <2>2. msg' # NoMsg
    BY <1>0, <2>1 DEF TypeOK
  <2>3. InHand' \o queue' = InHand \o queue
    BY <1>0, <2>1, <2>2 DEF InHand, TypeOK
  <2> QED
    BY <1>1, <2>3 DEF Recv, Abstract!vars
<1>2. CASE Dispatch \/ FailFast
  <2>1. /\ msg # NoMsg /\ msg' = NoMsg /\ queue' = queue
        /\ worker = "busy" /\ worker' = "select"
        /\ reply' = Answer(msg, "dispatched") \/ reply' = Answer(msg, "failfast")
    BY <1>0, <1>2 DEF Dispatch, FailFast, HandInv
  <2> QED
    BY <1>0, <2>1, AnswersHead DEF Abstract!Next, Abstract!Serve
<1>3. CASE ReadyFails \/ DiscoveryFailsBusy
  <2>1. /\ msg # NoMsg /\ msg' = NoMsg /\ queue' = queue
        /\ worker = "busy" /\ worker' = "failing"
        /\ reply' = Answer(msg, "terminal")
    BY <1>0, <1>3 DEF ReadyFails, DiscoveryFailsBusy, HandInv
  <2> QED
    BY <1>0, <2>1, AnswersHead DEF Abstract!Next, Abstract!GoDown
<1>4. CASE DriveFails \/ DiscoveryFails \/ RecvNone
  <2>1. /\ UNCHANGED <<msg, queue, reply>>
        /\ worker = "select" /\ worker' \in {"failing", "done"}
    BY <1>4 DEF DriveFails, DiscoveryFails, RecvNone
  <2>2. InHand' \o queue' = InHand \o queue
    BY <2>1 DEF InHand
  <2> QED
    BY <2>1, <2>2 DEF Abstract!Next, Abstract!GoDown
<1>5. CASE Drain
  <2>1. /\ msg = NoMsg /\ msg' = NoMsg /\ queue # <<>> /\ queue' = Tail(queue)
        /\ worker = "draining" /\ worker' = worker
        /\ reply' = Answer(Head(queue), "terminal")
    BY <1>0, <1>5 DEF Drain, HandInv
  <2>2. InHand \o queue = queue /\ InHand' \o queue' = Tail(queue)
    BY <1>0, <2>1 DEF InHand, TypeOK
  <2>3. reply' = [c \in Callers |-> IF c = Head(queue) THEN "terminal" ELSE reply[c]]
    BY <1>0, <2>1, Zenon DEF Answer, TypeOK
  <2>4. Abstract!AnswerHead("terminal")
    BY <2>1, <2>2, <2>3 DEF Abstract!AnswerHead
  <2> QED
    BY <2>1, <2>4 DEF Abstract!Next, Abstract!Flush
<1>6. CASE DriveReady \/ ArmTimer \/ SetTerminal \/ CloseRx \/ Drained
             \/ EndpointChange \/ Update \/ DiscoveryEnds \/ UNCHANGED vars
  <2>1. /\ UNCHANGED <<msg, queue, reply>>
        /\ worker \in {"select", "busy"} <=> worker' \in {"select", "busy"}
    BY <1>6 DEF DriveReady, ArmTimer, SetTerminal, CloseRx, Drained,
                EndpointChange, Update, DiscoveryEnds, vars
  <2>2. InHand' \o queue' = InHand \o queue
    BY <2>1 DEF InHand
  <2>3. (worker \notin {"select", "busy"})' = (worker \notin {"select", "busy"})
    BY <2>1
  <2> QED
    BY <2>1, <2>2, <2>3 DEF Abstract!vars
<1>7. ASSUME NEW c \in Callers,
             StartPoll(c) \/ PollReady(c) \/ PollClosed(c) \/ Count(c) \/ DropHandle(c)
      PROVE  UNCHANGED Abstract!vars
  <2>1. UNCHANGED <<msg, queue, reply, worker>>
    BY <1>7 DEF StartPoll, PollReady, PollClosed, Count, DropHandle
  <2>2. InHand' \o queue' = InHand \o queue
    BY <2>1 DEF InHand
  <2> QED
    BY <2>1, <2>2 DEF Abstract!vars
<1>8. ASSUME NEW c \in Callers, Send(c) PROVE Abstract!Next
  <2>1. /\ c \in permits /\ queue' = Append(queue, c) /\ UNCHANGED <<worker, msg, reply>>
        /\ ~InQueue(c) /\ msg # c /\ reply[c] = "none"
    BY <1>8 DEF Send, OnceInv, IInv, PermitInv
  <2>2. ~Abstract!Waiting(c)
    BY <1>0, <2>1, HandHas DEF Abstract!Waiting
  <2>3. InHand' \o queue' = Append(InHand \o queue, c)
    BY <1>0, <2>1 DEF InHand, TypeOK
  <2>4. Len(InHand \o queue) < Capacity + 1
    <3>1. Cardinality(permits) >= 1
      <4>1. permits \in SUBSET Callers /\ Cardinality(permits \ {c}) = Cardinality(permits) - 1
        BY <1>0, <2>1, CountOne DEF TypeOK
      <4>2. permits \ {c} \in SUBSET Callers
        BY <4>1
      <4>3. Cardinality(permits) \in Nat /\ Cardinality(permits \ {c}) \in Nat
        BY <4>1, <4>2, CountOne, Zenon
      <4> QED
        BY <4>1, <4>3
    <3>2. Len(InHand \o queue) <= Len(queue) + 1 /\ Len(queue) \in Nat
      BY <1>0, HandFirst DEF TypeOK
    <3>3. Cardinality(permits) \in Nat
      BY <1>0, CountOne, Zenon DEF TypeOK
    <3>4. Len(InHand \o queue) \in Nat
      BY <1>0, HandFirst
    <3> QED
      BY <3>1, <3>2, <3>3, <3>4 DEF BoundInv
  <2>5. Abstract!Submit(c)
    BY <2>1, <2>2, <2>3, <2>4 DEF Abstract!Submit
  <2> QED
    BY <2>5 DEF Abstract!Next
<1>9. ASSUME NEW c \in Callers, Receive(c) PROVE Abstract!Next
  <2>1. UNCHANGED <<worker, msg, queue>>
    BY <1>9 DEF Receive
  <2>2. InHand' \o queue' = InHand \o queue
    BY <2>1 DEF InHand
  <2>3. Abstract!Take(c)
    BY <1>9, <2>1, <2>2 DEF Receive, Abstract!Take
  <2> QED
    BY <2>3 DEF Abstract!Next
<1>10. ASSUME NEW c \in Callers, Cancel(c) PROVE Abstract!Next
  <2>1. /\ UNCHANGED worker /\ reply' = [reply EXCEPT ![c] = "none"]
        /\ queue' = Orphan(c, queue) /\ msg' = IF msg = c THEN Gone ELSE msg
    BY <1>10 DEF Cancel
  <2>2. InHand' \o queue' = Orphan(c, InHand \o queue)
    <3>1. CASE msg = NoMsg
      <4>1. msg' = NoMsg
        BY <2>1, <3>1
      <4>2. queue' \in Seq(Callers \cup {Gone})
        BY <1>0, <2>1, OrphanQueue DEF TypeOK
      <4> QED
        BY <1>0, <2>1, <3>1, <4>1, <4>2 DEF InHand, TypeOK
    <3>2. CASE msg # NoMsg
      <4>1. msg' # NoMsg
        BY <2>1, <3>2
      <4>2. queue' \in Seq(Callers \cup {Gone}) /\ Len(queue') = Len(queue)
        BY <1>0, <2>1, OrphanQueue DEF TypeOK
      <4>3. <<msg'>> \o queue' = Orphan(c, <<msg>> \o queue)
        <5> DEFINE p == <<msg>> \o queue
                   q == <<msg'>> \o queue'
        <5>1. /\ queue \in Seq(Callers \cup {Gone}) /\ msg \in Callers \cup {Gone}
              /\ msg' \in Callers \cup {Gone}
          BY <1>0, <2>1, <3>2 DEF TypeOK
        <5>2. /\ p \in Seq(Callers \cup {Gone}) /\ DOMAIN p = 1 .. Len(queue) + 1 /\ p[1] = msg
              /\ \A i \in 2 .. Len(queue) + 1 : p[i] = queue[i - 1]
          BY <5>1
        <5>3. /\ q \in Seq(Callers \cup {Gone}) /\ DOMAIN q = 1 .. Len(queue) + 1 /\ q[1] = msg'
              /\ \A i \in 2 .. Len(queue) + 1 : q[i] = queue'[i - 1]
          BY <4>2, <5>1
        <5>4. \A i \in 1 .. Len(queue) : queue'[i] = IF queue[i] = c THEN Gone ELSE queue[i]
          BY <2>1, <5>1 DEF Orphan
        <5>5. \A i \in 1 .. Len(queue) + 1 : q[i] = IF p[i] = c THEN Gone ELSE p[i]
          <6> TAKE i \in 1 .. Len(queue) + 1
          <6>1. CASE i = 1
            BY <2>1, <5>2, <5>3, <6>1
          <6>2. CASE i # 1
            <7>1. i \in 2 .. Len(queue) + 1 /\ i - 1 \in 1 .. Len(queue)
              BY <5>1, <6>2
            <7> QED
              BY <5>2, <5>3, <5>4, <7>1
          <6> QED
            BY <6>1, <6>2, Zenon
        <5>6. q = [i \in 1 .. Len(queue) + 1 |-> q[i]]
          BY <5>3
        <5> HIDE DEF p, q
        <5>7. Orphan(c, p) = [i \in 1 .. Len(queue) + 1 |-> IF p[i] = c THEN Gone ELSE p[i]]
          BY <5>2 DEF Orphan
        <5> QED
          BY <5>5, <5>6, <5>7 DEF p, q
      <4> QED
        BY <3>2, <4>1, <4>3 DEF InHand
    <3> QED
      BY <3>1, <3>2
  <2>3. Abstract!Withdraw(c)
    BY <2>1, <2>2, Zenon DEF Abstract!Withdraw, Orphan
  <2> QED
    BY <2>3 DEF Abstract!Next
<1> QED
  BY <1>1, <1>2, <1>3, <1>4, <1>5, <1>6, <1>7, <1>8, <1>9, <1>10
     DEF Next, WorkerStep, EnvStep, CallerStep

\* The worker, its channel and the callers' oneshots implement the abstract queue, for
\* any capacity and any finite set of callers: requests are answered at most once and
\* in the order in which PoolQueue::call sent them, none is dispatched once the pool
\* or its discovery has failed, and at most capacity + 1 wait.
THEOREM Refinement == Spec => ImplementsRequestQueue
<1>1. Init => Abstract!Init
  <2> SUFFICES ASSUME Init PROVE Abstract!Init
    OBVIOUS
  <2>1. InHand \o queue = <<>>
    BY DEF Init, InHand
  <2> QED
    BY <2>1 DEF Init, Abstract!Init
<1>2. Spec => []OnceInv
  BY InitOnce, NextOnce, Invariance, PTL DEF Spec
<1>3. IInv /\ OnceInv /\ BoundInv /\ [Next]_vars => [Abstract!Next]_(Abstract!vars)
  BY NextRefines
<1> QED
  BY <1>1, <1>2, <1>3, Invariance, Bounded, PTL DEF Spec, ImplementsRequestQueue, Abstract!Spec
=============================================================================
