------------------------------ MODULE DmaSlots ------------------------------
(***************************************************************************)
(* linkerd/doca and linkerd/app: how connections that arrive over DMA get  *)
(* from the slots of a worker's driver to the stacks.  Each worker runs a  *)
(* driver task, which compares its slots with what it last saw and emits   *)
(* events, and an acceptor task, which registers an IO handle for every    *)
(* connection, serves it after an authorization that may take a while, or  *)
(* publishes it in the registry of backend channels that all workers and   *)
(* the outbound connector share.                                           *)
(*                                                                         *)
(* The control plane of the slots is C code outside of the repository: a   *)
(* slot is set up, runs and is freed, and the driver sees each state.      *)
(***************************************************************************)
EXTENDS Integers, Sequences, FiniteSets, SequencesExt

CONSTANTS
    Workers,    \* DMESH_NUM_WORKERS drivers
    Slots,      \* the slots of a driver
    Addrs,      \* service addresses
    MaxConns,   \* bound: connections over the lifetime of the process
    NoAddr

VARIABLES
    flow,       \* connection -> its destination and role
    slot,       \* worker -> slot -> the C side's state and the connection it is for
    home,       \* the workers of the connections so far
    snapshot,   \* worker -> slot -> conn_states
    handles,    \* worker -> slot -> the connection whose handle is installed, or 0
    events,     \* worker -> events that the acceptor has not received
    regs,       \* worker -> registrations that the driver has not drained
    acceptor,   \* worker -> "recv", "stopped" or "authorizing", and the connection it authorizes
    backendSlots,
    registry,   \* address -> published channels, the last one on top
    seen,       \* addresses that ever had a channel
    io,         \* connection -> where its DmeshIo is
    eof,        \* connections whose DmeshIo was told that the host is gone
    reads,      \* connection -> connections whose bytes its DmeshIo was given
    dialed      \* addresses that the connector dialed over TCP

slotVars == <<flow, slot, home, snapshot, handles, events, regs, acceptor, backendSlots, registry, seen, io, eof,
          reads, dialed>>

ConnIds == 1 .. MaxConns

Free == [state |-> "free", id |-> 0]

Flows == [ConnIds -> [dst : Addrs, backend : BOOLEAN]]

NoRegistrations == [w \in Workers |-> << >>]

NoChannels == [a \in Addrs |-> << >>]

SlotInit ==
    /\ flow \in Flows
    /\ slot = [w \in Workers |-> [s \in Slots |-> Free]]
    /\ home = << >>
    /\ snapshot = [w \in Workers |-> [s \in Slots |-> "free"]]
    /\ handles = [w \in Workers |-> [s \in Slots |-> 0]]
    /\ events = [w \in Workers |-> << >>]
    /\ regs = NoRegistrations
    /\ acceptor = [w \in Workers |-> [pc |-> "recv", id |-> 0]]
    /\ backendSlots = [w \in Workers |-> [s \in Slots |-> NoAddr]]
    /\ registry = NoChannels
    /\ seen = {}
    /\ io = [c \in ConnIds |-> "none"]
    /\ eof = {}
    /\ reads = [c \in ConnIds |-> {}]
    /\ dialed = {}

\* A connection that has begun and has no slot any more.
Ended(c) == c \in DOMAIN home /\ \A w \in Workers, s \in Slots : slot[w][s].id # c

-----------------------------------------------------------------------------
(* The C side (external): slots change between two turns of the driver     *)

Connect(w, s) ==
    /\ slot[w][s] = Free /\ snapshot[w][s] = "free"
    /\ Len(home) < MaxConns
    /\ home' = Append(home, w)
    /\ \E st \in {"running", "error"} : slot' = [slot EXCEPT ![w][s] = [state |-> st, id |-> Len(home) + 1]]
    /\ UNCHANGED <<flow, snapshot, handles, events, regs, acceptor, backendSlots, registry, seen, io, eof, reads, dialed>>

Disconnect(w, s) ==
    /\ slot[w][s] # Free /\ snapshot[w][s] = slot[w][s].state
    /\ slot' = [slot EXCEPT ![w][s] = Free]
    /\ UNCHANGED <<flow, home, snapshot, handles, events, regs, acceptor, backendSlots, registry, seen, io, eof, reads, dialed>>

-----------------------------------------------------------------------------
(* The driver: one turn of its loop                                        *)

Changed(w) == {s \in Slots : slot[w][s].state # snapshot[w][s]}

Event(w, s) ==
    CASE slot[w][s].state = "running" -> [kind |-> "ready", slot |-> s, id |-> slot[w][s].id]
      [] slot[w][s].state = "error" -> [kind |-> "error", slot |-> s, id |-> slot[w][s].id]
      [] slot[w][s].state = "free" -> [kind |-> "closed", slot |-> s, id |-> 0]

\* emit_conn_events: the slots that lost their connection give up their handle.
TornDown(w) == {s \in Changed(w) : slot[w][s].state \in {"free", "error"}}

EmitConnEvents(w) ==
    [s \in Slots |-> IF s \in TornDown(w) THEN 0 ELSE handles[w][s]]

\* drain_registrations: the last handle registered for a slot is installed, whatever
\* the slot's state.
DrainRegistrations(w, installed) ==
    [s \in Slots |->
        LET rs == SelectSeq(regs[w], LAMBDA r : r.slot = s)
        IN  IF rs = << >> THEN installed[s] ELSE Last(rs).id]

Tick(w) ==
    LET after == DrainRegistrations(w, EmitConnEvents(w))
    IN  /\ snapshot' = [snapshot EXCEPT ![w] = [s \in Slots |-> slot[w][s].state]]
        /\ events' = IF acceptor[w].pc = "stopped" THEN events
                     ELSE [events EXCEPT ![w] = @ \o SetToSortSeq({Event(w, s) : s \in Changed(w)},
                                                                 LAMBDA e, f : e.slot < f.slot)]
        /\ eof' = eof \cup ({handles[w][s] : s \in TornDown(w)} \ {0})
        /\ handles' = [handles EXCEPT ![w] = after]
        /\ regs' = [regs EXCEPT ![w] = << >>]
        /\ reads' = [c \in ConnIds |->        \* pump_recv
                        reads[c] \cup {slot[w][s].id : s \in {t \in Slots : after[t] = c /\ slot[w][t].state = "running"}}]
        /\ UNCHANGED <<flow, slot, home, acceptor, backendSlots, registry, seen, io, dialed>>

-----------------------------------------------------------------------------
(* The registry of backend channels                                        *)

Publish(s, a, c) ==
    /\ seen' = seen \cup {a}
    /\ registry' = [registry EXCEPT ![a] = Append(@, [slot |-> s, id |-> c])]

\* unpublish: drops the channels of the address that have the slot's tag.
Evicted(s, a) == SelectSeq(registry[a], LAMBDA e : e.slot = s)

Unpublish(s, a) ==
    /\ registry' = [registry EXCEPT ![a] = SelectSeq(@, LAMBDA e : e.slot # s)]
    /\ io' = [c \in ConnIds |-> IF \E e \in ToSet(Evicted(s, a)) : e.id = c THEN "evicted" ELSE io[c]]

\* DmeshOrTcp::call: a channel, a refusal for an address that had one, or TCP.
ConnectorCall(a) ==
    /\ IF registry[a] # << >>
       THEN /\ io' = [io EXCEPT ![Last(registry[a]).id] = "taken"]
            /\ registry' = [registry EXCEPT ![a] = Front(@)]
            /\ UNCHANGED dialed
       ELSE /\ dialed' = IF a \in seen THEN dialed ELSE dialed \cup {a}
            /\ UNCHANGED <<io, registry>>
    /\ UNCHANGED <<flow, slot, home, snapshot, handles, events, regs, acceptor, backendSlots, seen, eof, reads>>

-----------------------------------------------------------------------------
(* The acceptor: dmesh::serve                                              *)

Received(w, kinds) == acceptor[w].pc = "recv" /\ events[w] # << >> /\ Head(events[w]).kind \in kinds
Advance(w) == events' = [events EXCEPT ![w] = Tail(@)]

ConnReady(w) ==
    /\ Received(w, {"ready"})
    /\ Advance(w)
    /\ LET e == Head(events[w])
           f == flow[e.id]
       IN  /\ regs' = [regs EXCEPT ![w] = Append(@, [slot |-> e.slot, id |-> e.id])]
           /\ IF f.backend
              THEN /\ backendSlots' = [backendSlots EXCEPT ![w][e.slot] = f.dst]
                   /\ Publish(e.slot, f.dst, e.id)
                   /\ io' = [io EXCEPT ![e.id] = "registry"]
                   /\ UNCHANGED acceptor
              ELSE /\ acceptor' = [acceptor EXCEPT ![w] = [pc |-> "authorizing", id |-> e.id]]
                   /\ io' = [io EXCEPT ![e.id] = "held"]
                   /\ UNCHANGED <<backendSlots, registry, seen>>
    /\ UNCHANGED <<flow, slot, home, snapshot, handles, eof, reads, dialed>>

\* The policy was discovered, or the wait of 500ms is over: the connection is served
\* by a task of its own, or dropped.
Decide(w, authorized) ==
    /\ acceptor[w].pc = "authorizing"
    /\ acceptor' = [acceptor EXCEPT ![w].pc = "recv"]
    /\ io' = [io EXCEPT ![acceptor[w].id] = IF authorized THEN "serving" ELSE "dropped"]
    /\ UNCHANGED <<flow, slot, home, snapshot, handles, events, regs, backendSlots, registry, seen, eof, reads, dialed>>

ConnGone(w) ==
    /\ Received(w, {"closed", "error"})
    /\ Advance(w)
    /\ LET s == Head(events[w]).slot
       IN  IF backendSlots[w][s] # NoAddr
           THEN /\ Unpublish(s, backendSlots[w][s])
                /\ backendSlots' = [backendSlots EXCEPT ![w][s] = NoAddr]
           ELSE UNCHANGED <<registry, io, backendSlots>>
    /\ UNCHANGED <<flow, slot, home, snapshot, handles, regs, acceptor, seen, eof, reads, dialed>>

\* The shutdown signal: the receiver of the events is dropped.
Stop(w) ==
    /\ acceptor[w].pc = "recv"
    /\ acceptor' = [acceptor EXCEPT ![w].pc = "stopped"]
    /\ events' = [events EXCEPT ![w] = << >>]
    /\ UNCHANGED <<flow, slot, home, snapshot, handles, regs, backendSlots, registry, seen, io, eof, reads, dialed>>

AcceptorStep(w) == ConnReady(w) \/ ConnGone(w) \/ \E ok \in BOOLEAN : Decide(w, ok)

SlotNext ==
    \/ \E w \in Workers : Tick(w) \/ AcceptorStep(w) \/ Stop(w)
    \/ \E w \in Workers, s \in Slots : Connect(w, s) \/ Disconnect(w, s)
    \/ \E a \in Addrs : ConnectorCall(a)

-----------------------------------------------------------------------------
(* Properties                                                              *)

\* A published channel whose connection is gone is about to be evicted: the driver
\* has not looked at the slot yet, or the acceptor has its event still to handle,
\* before anything else of that slot.  The connector is never given a dead channel
\* by an idle acceptor.
DeadChannelsLeave ==
    \A a \in Addrs : \A i \in DOMAIN registry[a] :
        LET e == registry[a][i]
            w == home[e.id]
            pending == SelectSeq(events[w], LAMBDA ev : ev.slot = e.slot)
        IN  Ended(e.id) /\ acceptor[w].pc # "stopped" =>
                \/ snapshot[w][e.slot] # slot[w][e.slot].state
                \/ pending # << >> /\ pending[1].kind = "closed"

\* "tagged with the driver slot that owns them so a slot teardown can evict exactly
\* its entry": only channels whose connection ended are evicted (unpublish).
EvictsOnlyDead == \A c \in ConnIds : io[c] = "evicted" => Ended(c)

\* The bytes of a connection go to the DmeshIo of that connection: "bind a
\* per-connection IO handle to a slot so the driver can pump recv segments into it".
OwnBytes == \A c \in ConnIds : reads[c] \subseteq {c}

\* An address that had a channel is not dialed over TCP again, and a channel is
\* handed out once: no two places hold the same DmeshIo (take, was_published).
HandedOutOnce ==
    [][/\ dialed' \ dialed \subseteq Addrs \ seen
       /\ \A c \in ConnIds : io[c] \in {"taken", "evicted", "dropped"} => io'[c] = io[c]
       /\ \A c \in ConnIds : io[c] # "registry" <=> \A a \in Addrs : \A i \in DOMAIN registry[a] : registry[a][i].id # c]_slotVars
=============================================================================
