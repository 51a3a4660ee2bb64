----------------------------- MODULE Lifecycle -----------------------------
(***************************************************************************)
(* One run of the proxy process: devices, configuration, sockets, the      *)
(* admin thread with the identity task, the acceptors, and the drain that  *)
(* ends it.                                                                *)
(*                                                                         *)
(* Connections are here for what holds the process up: the acceptor that   *)
(* took one, whether it is served as HTTP, and whether a request is being  *)
(* answered on it.  What the drain waits for is everything that owns a     *)
(* drain::Watch: tasks that await the signal, and stacks that were built   *)
(* with one and live as long as an acceptor or a connection uses them.     *)
(***************************************************************************)
EXTENDS Integers, Sequences, FiniteSets

CONSTANTS
    Connections,  \* bound: numbers for the connections that are open at a time, of all acceptors
    Workers,      \* the sequence of DMA workers, each with an acceptor of its own
    Grace         \* shutdown_grace_period

VARIABLES
    phase,      \* what main does: a step of starting, "running", "draining" or "exited"
    exit,       \* how the process ended, at most one
    bound,      \* the sockets that are bound
    workers,    \* how many DMA workers have a server that was started
    identity,   \* the identity task: "unspawned", "waiting", "certified" or "panicked"
    latch,      \* the readiness latch is held
    starter,    \* start_proxy: "unspawned", "waiting", "done" or "panicked"
    serving,    \* the acceptors that run
    conns,      \* the open connections
    requested,  \* whether a signal or the admin server asks for a shutdown
    drained,    \* the time since the drain was signalled, at most one
    told        \* what the admin server last said of readiness, at most one

processVars == <<phase, exit, bound, workers, identity, latch, starter, serving, conns, requested, drained, told>>

Listeners == {"tap", "inbound", "outbound", "admin"}
Dma == {Workers[i] : i \in DOMAIN Workers}

\* What the proofs need of the constants: no DMA worker is taken for a listener.
ASSUME ProcessConstants == Dma \cap Listeners = {}

Steps == <<"devices", "config", "identity", "tap", "inbound", "outbound", "admin", "dmesh", "spawn">>
After == [p \in {Steps[i] : i \in 1 .. Len(Steps) - 1} |-> Steps[1 + CHOOSE i \in DOMAIN Steps : Steps[i] = p]]

ProcessInit ==
    /\ phase = "devices" /\ exit = {} /\ bound = {} /\ workers = 0
    /\ identity = "unspawned" /\ latch = TRUE /\ starter = "unspawned"
    /\ serving = {} /\ conns = [c \in {} |-> {}]
    /\ requested = FALSE /\ drained = {} /\ told = {}

Alive == exit = {}
Exit(how) == phase' = "exited" /\ exit' = {how}

-----------------------------------------------------------------------------
(* Starting (main, Config::build)                                          *)

\* The devices are probed and a server is started for every worker, one after the other.
Probe ==
    /\ phase = "devices" /\ workers = 0
    /\ \/ Exit("usage")
       \/ Exit("failure")
    /\ UNCHANGED <<bound, workers, identity, latch, starter, serving, conns, requested, drained, told>>

StartWorker ==
    /\ phase = "devices" /\ workers < Len(Workers)
    /\ \/ /\ workers' = workers + 1
          /\ phase' = IF workers' = Len(Workers) THEN After[phase] ELSE phase
          /\ UNCHANGED exit
       \/ Exit("failure") /\ UNCHANGED workers
    /\ UNCHANGED <<bound, identity, latch, starter, serving, conns, requested, drained, told>>

\* Config::try_from_env
TryFromEnv ==
    /\ phase = "config"
    /\ \/ phase' = After[phase] /\ UNCHANGED exit
       \/ Exit("usage")
    /\ UNCHANGED <<bound, workers, identity, latch, starter, serving, conns, requested, drained, told>>

\* Config::build: bad trust anchors are an error, and so are the sockets of tap and
\* admin; the proxy's own sockets are expected to bind.
BuildIdentity ==
    /\ phase = "identity"
    /\ \/ phase' = After[phase] /\ UNCHANGED exit
       \/ Exit("failure")
    /\ UNCHANGED <<bound, workers, identity, latch, starter, serving, conns, requested, drained, told>>

BindFailure(l) == IF l \in {"inbound", "outbound"} THEN "panic" ELSE "failure"

Bind(l) ==
    /\ phase = l
    /\ \/ /\ phase' = After[phase]
          /\ bound' = bound \cup {l}
          /\ UNCHANGED exit
       \/ Exit(BindFailure(l)) /\ UNCHANGED bound
    /\ UNCHANGED <<workers, identity, latch, starter, serving, conns, requested, drained, told>>

\* Tap is not configured.
SkipTap ==
    /\ phase = "tap"
    /\ phase' = After[phase]
    /\ UNCHANGED <<exit, bound, workers, identity, latch, starter, serving, conns, requested, drained, told>>

\* The DMA acceptors run before the application does: in tasks of the main runtime, or
\* on a thread each.
SpawnDmesh ==
    /\ phase = "dmesh"
    /\ serving' = serving \cup Dma
    /\ phase' = After[phase]
    /\ UNCHANGED <<exit, bound, workers, identity, latch, starter, conns, requested, drained, told>>

\* App::spawn, and the signal handlers that main then waits on.
Spawn ==
    /\ phase = "spawn"
    /\ phase' = "running"
    /\ starter' = "waiting"
    /\ UNCHANGED <<exit, bound, workers, identity, latch, serving, conns, requested, drained, told>>

-----------------------------------------------------------------------------
(* The admin thread and the proxy's start                                  *)

RunAdmin ==
    /\ Alive /\ starter # "unspawned" /\ identity = "unspawned"
    /\ serving' = serving \cup (bound \cap {"admin", "tap"})
    /\ identity' = "waiting"
    /\ UNCHANGED <<phase, exit, bound, workers, latch, starter, conns, requested, drained, told>>

\* What the identity task comes to: a certificate, or a panic when it cannot reach its agent.
IdentityDone ==
    /\ Alive /\ identity = "waiting"
    /\ identity' \in {"certified", "panicked"}
    /\ UNCHANGED <<phase, exit, bound, workers, latch, starter, serving, conns, requested, drained, told>>

\* The latch goes when it is released, and when the task that would release it panics
\* because the identity task did.
ReleaseLatch ==
    /\ Alive /\ latch /\ identity \in {"certified", "panicked"}
    /\ latch' = FALSE
    /\ UNCHANGED <<phase, exit, bound, workers, identity, starter, serving, conns, requested, drained, told>>

\* await_identity: the listeners are handed to acceptors, or closed by a panic.
StartProxy ==
    /\ Alive /\ starter = "waiting"
    /\ \/ /\ identity = "certified"
          /\ starter' = "done"
          /\ serving' = serving \cup {"outbound", "inbound"}
          /\ UNCHANGED bound
       \/ /\ identity = "panicked"
          /\ starter' = "panicked"
          /\ bound' = bound \ {"outbound", "inbound"}
          /\ UNCHANGED serving
    /\ UNCHANGED <<phase, exit, workers, identity, latch, conns, requested, drained, told>>

-----------------------------------------------------------------------------
(* Connections (serve::serve, Admin)                                       *)

\* The admin server's guess at a protocol, if it does not refuse the connection.
AdminProtocol(detection, tls) ==
    CASE detection \in {"http1", "h2"} -> {detection}
      [] detection = "timeout" -> IF tls = "none" THEN {"http1"} ELSE IF tls = "mesh" THEN {"h2"} ELSE {}
      [] detection = "other" -> {}

\* Whether a connection is served as HTTP.
AcceptedAs(a) ==
    CASE a = "tap" -> {TRUE}
      [] a = "admin" -> {http \in BOOLEAN : \E d \in {"http1", "h2", "timeout", "other"},
                                               tls \in {"none", "mesh", "passthru"} :
                                               http = (AdminProtocol(d, tls) # {})}
      [] OTHER -> BOOLEAN

\* The acceptor takes a connection and gives it a task.  While an acceptor has not yet
\* seen the drain it takes connections, also after the signal.
Accept(c, a) ==
    /\ Alive /\ a \in serving /\ c \notin DOMAIN conns
    /\ \A d \in Connections \ DOMAIN conns : c <= d
    /\ \E http \in AcceptedAs(a) :
          conns' = [d \in DOMAIN conns \cup {c} |->
                          IF d = c THEN [of |-> a, http |-> http, busy |-> ~http] ELSE conns[d]]
    /\ UNCHANGED <<phase, exit, bound, workers, identity, latch, starter, serving, requested, drained, told>>

Busy(c, b) == conns' = [conns EXCEPT ![c].busy = b]

Request(c) ==
    /\ Alive /\ c \in DOMAIN conns /\ conns[c].http /\ ~conns[c].busy
    /\ Busy(c, TRUE)
    /\ UNCHANGED <<phase, exit, bound, workers, identity, latch, starter, serving, requested, drained, told>>

Respond(c) ==
    /\ Alive /\ c \in DOMAIN conns /\ conns[c].http /\ conns[c].busy /\ conns[c].of # "admin"
    /\ Busy(c, FALSE)
    /\ UNCHANGED <<phase, exit, bound, workers, identity, latch, starter, serving, requested, drained, told>>

Close(c) == conns' = [d \in DOMAIN conns \ {c} |-> conns[d]]

\* A peer closes the connection, or its stream ends.
Hangup(c) ==
    /\ Alive /\ c \in DOMAIN conns
    /\ Close(c)
    /\ UNCHANGED <<phase, exit, bound, workers, identity, latch, starter, serving, requested, drained, told>>

\* graceful_shutdown: an HTTP connection that has seen the drain ends when it is idle.
\* Tap's connections do not know of it.
Graceful(c) ==
    /\ Alive /\ drained # {} /\ c \in DOMAIN conns
    /\ conns[c].http /\ ~conns[c].busy /\ conns[c].of # "tap"
    /\ Close(c)
    /\ UNCHANGED <<phase, exit, bound, workers, identity, latch, starter, serving, requested, drained, told>>

\* Admin::ready_rsp
AnswerReady(c) ==
    /\ Alive /\ c \in DOMAIN conns /\ conns[c].of = "admin" /\ conns[c].http /\ conns[c].busy
    /\ told' = {~latch}
    /\ Busy(c, FALSE)
    /\ UNCHANGED <<phase, exit, bound, workers, identity, latch, starter, serving, requested, drained>>

\* POST /shutdown: refused from afar, and unless it is enabled.  The channel is
\* unbounded and main keeps its end until the process is gone.
AnswerShutdown(c) ==
    /\ Alive /\ c \in DOMAIN conns /\ conns[c].of = "admin" /\ conns[c].http /\ conns[c].busy
    /\ \E enabled, post, local \in BOOLEAN : requested' = (requested \/ (enabled /\ post /\ local))
    /\ Busy(c, FALSE)
    /\ UNCHANGED <<phase, exit, bound, workers, identity, latch, starter, serving, drained, told>>

-----------------------------------------------------------------------------
(* The end                                                                 *)

\* signal::shutdown: SIGINT or SIGTERM.  Before main waits, a signal's default action
\* ends the process.
Signal ==
    /\ phase = "running" /\ ~requested
    /\ requested' = TRUE
    /\ UNCHANGED <<phase, exit, bound, workers, identity, latch, starter, serving, conns, drained, told>>

\* main's select
Shutdown ==
    /\ phase = "running" /\ requested
    /\ phase' = "draining"
    /\ drained' = {0}
    /\ UNCHANGED <<exit, bound, workers, identity, latch, starter, serving, conns, requested, told>>

\* serve::serve and dmesh::serve see the drain, and their listeners are closed.
StopServing(a) ==
    /\ Alive /\ drained # {} /\ a \in serving
    /\ serving' = serving \ {a}
    /\ bound' = bound \ {a}
    /\ UNCHANGED <<phase, exit, workers, identity, latch, starter, conns, requested, drained, told>>

\* Whether anything owns a watch.  App::spawn gives the last ones of App to the admin thread.
HeldUnretained ==
    \/ serving # {} \/ identity = "unspawned" \/ starter = "waiting"
    \/ \E c \in DOMAIN conns : conns[c].of # "tap" /\ conns[c].http

Held ==
    \/ serving # {} \/ identity = "unspawned" \/ starter = "waiting"
    \/ \E c \in DOMAIN conns : conns[c].of # "tap"

Drained ==
    /\ phase = "draining" /\ ~Held
    /\ Exit("drained")
    /\ UNCHANGED <<bound, workers, identity, latch, starter, serving, conns, requested, drained, told>>

Elapse ==
    /\ phase = "draining"
    /\ \E t \in drained : t < Grace /\ drained' = {t + 1}
    /\ UNCHANGED <<phase, exit, bound, workers, identity, latch, starter, serving, conns, requested, told>>

\* The timeout polls the drain before its own timer.
GraceOver ==
    /\ phase = "draining" /\ drained = {Grace} /\ Held
    /\ Exit("forced")
    /\ UNCHANGED <<bound, workers, identity, latch, starter, serving, conns, requested, drained, told>>

ProcessNext ==
    \/ Probe \/ StartWorker \/ TryFromEnv \/ BuildIdentity
    \/ (\E l \in Listeners : Bind(l)) \/ SkipTap \/ SpawnDmesh \/ Spawn
    \/ RunAdmin \/ IdentityDone \/ ReleaseLatch \/ StartProxy
    \/ (\E c \in Connections, a \in Listeners \cup Dma : Accept(c, a))
    \/ (\E c \in Connections : \/ Request(c) \/ Respond(c) \/ Hangup(c) \/ Graceful(c)
                               \/ AnswerReady(c) \/ AnswerShutdown(c))
    \/ Signal \/ Shutdown \/ (\E a \in Listeners \cup Dma : StopServing(a))
    \/ Drained \/ Elapse \/ GraceOver

ProcessSpec == ProcessInit /\ [][ProcessNext]_processVars

-----------------------------------------------------------------------------
(* Properties                                                              *)

\* The proxy serves TCP only with its certificate (await_identity; DMA flows are served
\* before), and tells that it is ready no sooner than it has one, and with its sockets
\* open unless it shuts down.  A start that fails has served no one, however far it got.
\* A process that ends by itself has answered every request that it read and every
\* connection is closed: acceptors, connections of every kind and a start that still
\* waits hold it up (drain::Watch, retain); only tap's streams are cut off.
ProcessSound ==
    /\ \A c \in DOMAIN conns : conns[c].of \in {"inbound", "outbound"} => identity = "certified"
    /\ told = {TRUE} =>
          /\ identity \in {"certified", "panicked"}
          /\ identity = "certified" /\ drained = {} => {"inbound", "outbound"} \subseteq bound
    /\ exit \cap {"usage", "failure", "panic"} # {} => DOMAIN conns = {} /\ serving = {} /\ told = {}
    /\ exit = {"drained"} =>
          /\ serving = {} /\ bound \cap {"inbound", "outbound"} = {}
          /\ \A c \in DOMAIN conns : conns[c].of = "tap"
=============================================================================
