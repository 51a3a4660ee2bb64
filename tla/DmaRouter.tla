------------------------------ MODULE DmaRouter ------------------------------
(***************************************************************************)
(* dmesh-router: requests that arrive over DMA are sent to backend         *)
(* channels that the host provides, possibly later than the requests.  The *)
(* registry keeps the channels of each key in groups that are used in      *)
(* turn; a request whose key has no channel waits for a registration, and  *)
(* falls back to the default backend when the wait is over.                *)
(***************************************************************************)
EXTENDS Integers, Sequences, FiniteSets, SequencesExt, FiniteSetsExt

CONSTANTS
    Requests,
    Channels,
    Keys,            \* backend keys: destination addresses
    NoKey,           \* no default backend, or no route
    Turns            \* a multiple of every group's size: a group's counter is kept modulo it

VARIABLES
    default,   \* Config::default_backend
    route,     \* request -> Config::route of its authority, or else its connection's destination
    serves,    \* channel -> its key
    chan,      \* channel -> "idle", "handshake", "spawned", "registered", "dead", "failed",
               \* "lost": dead before it was registered, or "ghost": registered after that
    groups,    \* key -> the registered channels
    next,      \* key -> Group::next
    picks,     \* channel -> picks since its group last changed, beyond the least of the group
    stage,     \* request -> "new", "pick", "subscribe", "check", "wait", "send" or its status
    key,       \* request -> the key it is trying
    notified,  \* request -> whether its Notified future has been woken
    sink       \* request -> the channel it was given

routerVars == <<default, route, serves, chan, groups, next, picks, stage, key, notified, sink>>

NoChannel == 0
Statuses == {"200", "400", "502", "503"}

\* The configuration: a group for every host name, and one for the others if it is set.
Routes == [Requests -> Keys]

DefaultTargets == Keys \cup {NoKey}

NoGroups == [k \in Keys |-> << >>]

RouterInit ==
    /\ default \in DefaultTargets
    /\ route \in Routes
    /\ serves \in [Channels -> Keys]
    /\ chan = [c \in Channels |-> "idle"]
    /\ groups = NoGroups
    /\ next = [k \in Keys |-> 0]
    /\ picks = [c \in Channels |-> 0]
    /\ stage = [r \in Requests |-> "new"]
    /\ key = [r \in Requests |-> NoKey]
    /\ notified = [r \in Requests |-> FALSE]
    /\ sink = [r \in Requests |-> NoChannel]

requestVars == <<stage, key, notified, sink>>
registryVars == <<groups, next, picks>>

-----------------------------------------------------------------------------
(* The registry                                                            *)

Forget(cs) == [c \in Channels |-> IF c \in cs THEN 0 ELSE picks[c]]

\* The channel joins its group, and every waiting request is told.
Push(c) ==
    /\ groups' = [groups EXCEPT ![serves[c]] = Append(@, c)]
    /\ picks' = Forget(ToSet(groups[serves[c]]) \cup {c})
    /\ notified' = [r \in Requests |-> notified[r] \/ stage[r] \in {"check", "wait"}]
    /\ chan' = [chan EXCEPT ![c] = IF @ = "lost" THEN "ghost" ELSE "registered"]
    /\ UNCHANGED next

\* register: the connection's task is spawned as soon as the handshake is done, and
\* may run before the channel is pushed if there are several threads.
BeginRegister(c) ==
    /\ chan[c] = "idle"
    /\ chan' = [chan EXCEPT ![c] = "handshake"]
    /\ UNCHANGED <<default, route, serves, registryVars, requestVars>>

HandshakeFails(c) ==
    /\ chan[c] = "handshake"
    /\ chan' = [chan EXCEPT ![c] = "failed"]
    /\ UNCHANGED <<default, route, serves, registryVars, requestVars>>

SpawnConn(c) ==
    /\ chan[c] = "handshake"
    /\ chan' = [chan EXCEPT ![c] = "spawned"]
    /\ UNCHANGED <<default, route, serves, registryVars, requestVars>>

Register(c) ==
    /\ chan[c] \in {"spawned", "lost"}
    /\ Push(c)
    /\ UNCHANGED <<default, route, serves, stage, key, sink>>

\* unregister, at the end of the connection's task: an empty group is removed.
Unregister(c) ==
    /\ chan[c] \in {"registered", "spawned"}
    /\ chan' = [chan EXCEPT ![c] = IF @ = "spawned" THEN "lost" ELSE "dead"]
    /\ LET k == serves[c]
           rest == SelectSeq(groups[k], LAMBDA d : d # c)
       IN  /\ groups' = [groups EXCEPT ![k] = rest]
           /\ next' = [next EXCEPT ![k] = IF rest = << >> THEN 0 ELSE @]
           /\ picks' = Forget(ToSet(groups[k]) \cup {c})
    /\ UNCHANGED <<default, route, serves, requestVars>>

\* pick: the next channel of the group in turn.
Pick(r, k) ==
    LET c == groups[k][(next[k] % Len(groups[k])) + 1]
    IN  /\ groups[k] # << >>
        /\ next' = [next EXCEPT ![k] = (@ + 1) % Turns]
        /\ LET more == [picks EXCEPT ![c] = @ + 1]
               least == Min({more[d] : d \in ToSet(groups[k])})
           IN  picks' = [d \in Channels |-> IF d \in ToSet(groups[k]) THEN more[d] - least ELSE more[d]]
        /\ sink' = [sink EXCEPT ![r] = c]
        /\ stage' = [stage EXCEPT ![r] = "send"]
        /\ UNCHANGED groups

-----------------------------------------------------------------------------
(* Requests: handle and acquire                                            *)

Handle(r) ==
    /\ stage[r] = "new"
    /\ key' = [key EXCEPT ![r] = route[r]]
    /\ stage' = [stage EXCEPT ![r] = "pick"]
    /\ UNCHANGED <<default, route, serves, chan, registryVars, notified, sink>>

\* acquire: a pick, then subscription before every further pick.
TryPick(r) ==
    /\ stage[r] \in {"pick", "check"}
    /\ IF groups[key[r]] # << >>
       THEN Pick(r, key[r])
       ELSE /\ stage' = [stage EXCEPT ![r] = IF @ = "pick" THEN "subscribe" ELSE "wait"]
            /\ UNCHANGED <<registryVars, sink>>
    /\ UNCHANGED <<default, route, serves, chan, key, notified>>

Subscribe(r) ==
    /\ stage[r] = "subscribe"
    /\ notified' = [notified EXCEPT ![r] = FALSE]
    /\ stage' = [stage EXCEPT ![r] = "check"]
    /\ UNCHANGED <<default, route, serves, chan, registryVars, key, sink>>

Notified(r) ==
    /\ stage[r] = "wait" /\ notified[r]
    /\ stage' = [stage EXCEPT ![r] = "subscribe"]
    /\ UNCHANGED <<default, route, serves, chan, registryVars, key, notified, sink>>

\* The wait is over: once more with the default backend, if that is another key.
TimedOut(r) ==
    /\ stage[r] = "wait"
    /\ IF default \notin {NoKey, route[r], key[r]}
       THEN key' = [key EXCEPT ![r] = default] /\ stage' = [stage EXCEPT ![r] = "pick"]
       ELSE stage' = [stage EXCEPT ![r] = "503"] /\ UNCHANGED key
    /\ UNCHANGED <<default, route, serves, chan, registryVars, notified, sink>>

\* Sender::send: the channel may have died since it was picked.
Send(r) ==
    /\ stage[r] = "send"
    /\ stage' = [stage EXCEPT ![r] = IF chan[sink[r]] \in {"dead", "ghost"} THEN "502" ELSE "200"]
    /\ UNCHANGED <<default, route, serves, chan, registryVars, key, notified, sink>>

\* The request cannot be rewritten for the backend's protocol.
Malformed(r) ==
    /\ stage[r] = "send"
    /\ stage' = [stage EXCEPT ![r] = "400"]
    /\ UNCHANGED <<default, route, serves, chan, registryVars, key, notified, sink>>

\* The client's next request.
Again(r) ==
    /\ stage[r] \in Statuses
    /\ stage' = [stage EXCEPT ![r] = "new"]
    /\ sink' = [sink EXCEPT ![r] = NoChannel]
    /\ UNCHANGED <<default, route, serves, chan, registryVars, key, notified>>

RequestStep(r) == Handle(r) \/ TryPick(r) \/ Subscribe(r) \/ Notified(r) \/ TimedOut(r) \/ Send(r) \/ Malformed(r) \/ Again(r)

ChannelStep(c) == BeginRegister(c) \/ HandshakeFails(c) \/ SpawnConn(c) \/ Register(c) \/ Unregister(c)

RouterNext == (\E r \in Requests : RequestStep(r)) \/ (\E c \in Channels : ChannelStep(c))

-----------------------------------------------------------------------------
(* Properties                                                              *)

\* "Subscribe before re-checking so a registration racing with this loop cannot be
\* missed": a request that waits while its key has a channel has been woken, unless
\* another one used the channels up, which no pick does.
RegistrationNotMissed ==
    \A r \in Requests : stage[r] = "wait" /\ groups[key[r]] # << >> => notified[r]

\* Channels of a group are used in turn: between changes of the group, none is picked
\* more than once more than another (pick).
InTurn ==
    \A k \in Keys : \A c, d \in ToSet(groups[k]) : picks[c] <= picks[d] + 1

\* "The connection task runs until the channel dies, then unregisters."  A channel
\* that dies between the spawn and the push, which a second thread of the runtime
\* makes possible, is the exception: it stays as a ghost.
DeadUnregister == \A c \in Channels : chan[c] = "dead" => c \notin ToSet(groups[serves[c]])
=============================================================================
