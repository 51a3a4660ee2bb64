------------------------------- MODULE MCLive -------------------------------
(***************************************************************************)
(* What must eventually happen, for TLC: the machines with liveness        *)
(* properties, on instances of their own, with the fairness that the       *)
(* runtime, the timers and the peers give them.  A behaviour runs one      *)
(* machine, `part`, and leaves the others where they start.                *)
(***************************************************************************)
EXTENDS InboundPolicy

CONSTANTS Parts,    \* the machines to run
          near, far, id1, Gone

VARIABLES
    part,
    breaker, failures, window, gate, sem, avail, permit, rsps, req, via, alive, admitted,
    min, max, iterations, sleeping, duration, slept, yields,
    truth, wire, rstate, backoff, rejected, isInitial, pool, fails, changes, faults,
    mode, phase, publishing, delay, newest, items, watch, receivers, misses, losses,
    arrived, queued, eof, unreported, marked, credits, driver, consumer, waker, runnable,
    stream, item, responding, outs, response, send, sentOut, unflushed, closed, leaving, goingAway, result,
    caller, queue, pending, calls, answers, handles, closing, halfClosed, outcome,
    dma, handle, inner, rxMem, txMem, dpa, completed, ring, fetched, reader, writer, got, dmaDriver, staged,
    client, permits, gateState, gateTx, buffer, worker, taken, failFast, waiter, reconnect, service,
    retries, panicked

breakerVars == <<breaker, failures, window, gate, sem, avail, permit, rsps, req, via, alive, admitted>>
backoffVars == <<min, max, iterations, sleeping, duration, slept, yields>>
resolutionVars == <<truth, wire, rstate, backoff, rejected, isInitial, pool, fails, changes, faults>>
watchVars == <<mode, phase, publishing, delay, newest, items, watch, receivers, misses, losses>>
bodyVars == <<arrived, queued, eof, unreported, marked, credits, driver, consumer, waker, runnable>>
serveVars == <<stream, item, responding, outs, response, send, sentOut, unflushed, closed, leaving,
               goingAway, result>>
clientVars == <<caller, queue, pending, calls, answers, handles, closing, halfClosed, outcome>>
ioVars == <<dma, handle, inner, rxMem, txMem, dpa, completed, ring, fetched, reader, writer, got,
            dmaDriver, staged>>
queueVars == <<client, permits, gateState, gateTx, buffer, worker, taken, failFast, waiter, reconnect,
               service, retries, panicked>>
allVars == <<part, vars, breakerVars, backoffVars, resolutionVars, watchVars, bodyVars, serveVars,
             clientVars, ioVars, queueVars>>

Clones == {"c1"}

Requests == {"r1", "r2"}

Streams == {"s1"}

\* Policies under which a TCP connection is admitted, and no longer.
Policy(protocol, authz) ==
    [protocol |-> protocol, authzs |-> {authz}, limits |-> Unlimited,
     routes |-> [k \in Kinds |-> [authzs |-> {authz}, filter |-> "passes"]]]

AllowAll == Policy("detect", [nets |-> Nets, authn |-> "unauthenticated", ids |-> {}])

LiveDefaults == {AllowAll}

LivePolicies ==
    { Policy("detect", [nets |-> Nets, authn |-> "identity", ids |-> {id1}]),
      Policy("tls", [nets |-> Nets, authn |-> "tls", ids |-> {}]),
      Policy("opaque", [nets |-> {near}, authn |-> "unauthenticated", ids |-> {}]) }

B == INSTANCE Breaker
        WITH MaxFailures <- 2, ThresholdNum <- 0, ThresholdDen <- 2, MinRequests <- 3, Strict <- FALSE,
             MayCancel <- FALSE, ChannelCapacity <- 2, MaxSamples <- 3, MaxProbations <- 2
E == INSTANCE ExpBackoff WITH DurationMax <- 8, PowMax <- 7, Jitter <- 1, IterationMax <- 4
R == INSTANCE Resolution
        WITH Addrs <- {"a1", "a2"}, Valid <- {"a1", "a2"}, Metas <- {"m1"}, MaxBackoff <- 2,
             MaxChanges <- 2, MaxFaults <- 2
W == INSTANCE StreamWatch
        WITH Modes <- {"spawn_watch", "spawn_with_init"}, MaxVersion <- 3, MaxLosses <- 2, MaxDelays <- 2,
             LossesEnd <- TRUE
F == INSTANCE StreamWatch
        WITH Modes <- {"spawn_watch", "spawn_with_init"}, MaxVersion <- 3, MaxLosses <- 2, MaxDelays <- 2,
             LossesEnd <- FALSE
NB == INSTANCE NgBody
        WITH dirty <- marked, reader <- consumer, Chunks <- 4, Window <- 2, MayDie <- FALSE
NS == INSTANCE NgServe
        WITH body <- response, wire <- sentOut, actions <- closed, peer <- leaving, Chunks <- 2, Cap <- 1,
             Endings <- {"eof", "error"}
NC == INSTANCE NgClient
        WITH stream <- calls, actions <- answers, peerEof <- halfClosed, result <- outcome, QueueCap <- 1,
             MayEof <- FALSE
IO == INSTANCE DmaIo
        WITH RxLen <- 2, TxLen <- 2, RingSize <- 1, Align <- 2, MaxChunk <- 4, MaxRx <- 1, MaxTx <- 3,
             BufSizes <- {2}, conn <- dma, pc <- dmaDriver
Q == INSTANCE ForwardQueue
        WITH Clients <- {"c1", "c2"}, Shedding <- {"c2"}, Capacity <- 1, BackoffLen <- 1, MaxDials <- 2,
             task <- waiter, dials <- retries

\* A machine that does not run starts in one of its initial states.
LiveInit ==
    /\ part \in Parts
    /\ Init
    /\ part # "InboundPolicy" => net = [c \in Conns |-> near] /\ history = <<AllowAll>> /\ watched
    /\ B!BreakerInit
    /\ E!BackoffInit
    /\ part # "ExpBackoff" => min = 1 /\ max = 1
    /\ R!ResolutionInit
    /\ part # "Resolution" => truth = R!None
    /\ W!WatchInit
    /\ part \notin {"StreamWatch", "FaultyWatch"} => mode = "spawn_watch"
    /\ NB!BodyInit
    /\ NS!ServeInit
    /\ part # "NgServe" => \A s \in Streams : response[s].end = "eof"
    /\ NC!ClientInit /\ IO!IoInit /\ Q!QueueInit

LiveNext ==
    /\ UNCHANGED part
    /\ IF part = "InboundPolicy" THEN Next ELSE UNCHANGED vars
    /\ IF part = "Breaker" THEN B!BreakerNext ELSE UNCHANGED breakerVars
    /\ IF part = "ExpBackoff" THEN E!BackoffNext ELSE UNCHANGED backoffVars
    /\ IF part = "Resolution" THEN R!ResolutionNext ELSE UNCHANGED resolutionVars
    /\ CASE part = "StreamWatch" -> W!WatchNext
         [] part = "FaultyWatch" -> F!WatchNext
         [] OTHER                -> UNCHANGED watchVars
    /\ IF part = "NgBody" THEN NB!BodyNext ELSE UNCHANGED bodyVars
    /\ IF part = "NgServe" THEN NS!ServeNext ELSE UNCHANGED serveVars
    /\ IF part = "NgClient" THEN NC!ClientNext ELSE UNCHANGED clientVars
    /\ IF part = "DmaIo" THEN IO!IoNext ELSE UNCHANGED ioVars
    /\ IF part = "ForwardQueue" THEN Q!QueueNext ELSE UNCHANGED queueVars

(***************************************************************************)
(* Tasks that can go on are polled: breakers, resolutions, watches, the    *)
(* drivers of HTTP/2 connections and of DMA devices, queues' workers.      *)
(* Timers elapse.  Services and peers answer: a breaker's endpoint each    *)
(* request, and a clone that wants to call is ready again and again; an    *)
(* HTTP/2 peer each call; a host fetches what was published.  Every poll   *)
(* of a connection reads the socket, so a frame that can arrive again and  *)
(* again is read.                                                          *)
(***************************************************************************)
LiveFairness ==
    /\ \A c \in Conns : WF_vars(part = "InboundPolicy" /\ ConnStep(c))
    /\ WF_breakerVars(part = "Breaker" /\ B!Task)
    /\ \A r \in Requests : WF_breakerVars(part = "Breaker" /\ (B!Respond(r) \/ B!Renew(r)))
    /\ \A c \in Clones :
        /\ WF_breakerVars(part = "Breaker" /\ permit[c] = B!NotReady /\ B!PollReady(c))
        /\ SF_breakerVars(part = "Breaker" /\ \E r \in Requests : B!Call(c, r))
    /\ WF_backoffVars(part = "ExpBackoff" /\ E!BackoffNext)
    /\ WF_resolutionVars(part = "Resolution" /\ R!Worker)
    /\ WF_watchVars(part = "StreamWatch" /\ W!TaskStep)
    /\ WF_watchVars(part = "FaultyWatch" /\ F!TaskStep) /\ WF_watchVars(part = "FaultyWatch" /\ F!ReceiversGone)
    /\ WF_bodyVars(part = "NgBody" /\ NB!DriverStep)
    /\ WF_bodyVars(part = "NgBody" /\ NB!ReaderStep)
    /\ SF_bodyVars(part = "NgBody" /\ NB!Push)
    /\ \A s \in Streams : WF_serveVars(part = "NgServe" /\ NS!StreamStep(s))
    /\ WF_serveVars(part = "NgServe" /\ NS!HandleClosed)
    /\ WF_serveVars(part = "NgServe" /\ NS!Flush)
    /\ WF_serveVars(part = "NgServe" /\ NS!Terminate)
    /\ WF_clientVars(part = "NgClient" /\ NC!ClientStep)
    /\ \A r \in Requests : WF_clientVars(part = "NgClient" /\ NC!PeerAnswers(r))
    /\ WF_ioVars(part = "DmaIo" /\ IO!DriverStep)
    /\ WF_ioVars(part = "DmaIo" /\ IO!PollRead)
    /\ WF_ioVars(part = "DmaIo" /\ IO!PollWrite)
    /\ WF_ioVars(part = "DmaIo" /\ IO!HostFetches)
    /\ WF_ioVars(part = "DmaIo" /\ IO!Exported)
    /\ WF_queueVars(part = "ForwardQueue" /\ Q!WorkerStep)
    /\ WF_queueVars(part = "ForwardQueue" /\ Q!TimeoutElapses)

LiveSpec == LiveInit /\ [][LiveNext]_allVars /\ LiveFairness

-----------------------------------------------------------------------------
(* Properties; each is defined, with its reason, in the machine's module.  *)

\* Ejection and probation end (Breaker).
EjectionEnds == part = "Breaker" => B!EjectionEnds

\* Once the control plane and the network settle, so do endpoints and watches; a
\* backoff stream yields until it is used up (Resolution, StreamWatch, ExpBackoff).
Converges ==
    /\ part = "Resolution" => R!Converges
    /\ part = "StreamWatch" => W!WatchConverges
    /\ part = "ExpBackoff" => E!Yields

\* Tasks end with what they serve: a breaker's with its endpoint, and that of
\* spawn_watch with its receivers, however long the control plane fails.
TasksEnd ==
    /\ part = "Breaker" => B!TaskEnds
    /\ part = "FaultyWatch" /\ mode = "spawn_watch" => F!TaskCompletes

\* Messages end: a body is read to its end, every stream completes and a shutdown
\* ends the connection, every call returns (NgBody, NgServe, NgClient).  A DMA
\* connection whose host is gone ends for both directions, and what is written is
\* published while it is there (DmaIo).
StreamsComplete ==
    /\ part = "NgBody" => NB!BodyEnds
    /\ part = "NgServe" => NS!StreamsComplete /\ NS!Drains
    /\ part = "NgClient" => NC!CallsReturn
    /\ part = "DmaIo" => IO!TeardownEnds /\ IO!AllPublished

\* A queued request is answered, however long the endpoint stays away
\* (ForwardQueue).
QueueDrains == part = "ForwardQueue" => Q!QueueDrains
=============================================================================
