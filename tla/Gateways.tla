------------------------------ MODULE Gateways ------------------------------
(***************************************************************************)
(* Requests that travel through gateways to the proxy of an application.   *)
(* A connection whose transport header names a service is handled by the   *)
(* gateway: it discovers the name, authorizes and routes each request with *)
(* the outbound proxy's stack, and refuses requests that it has forwarded  *)
(* before.  The proxy of the application derives the request's logical     *)
(* name and looks for the profile of that name, but serves the request     *)
(* without it when that takes too long.                                    *)
(*                                                                         *)
(* Which endpoint the outbound proxy chooses is the subject of other       *)
(* modules; here it may be any gateway or the application's proxy.         *)
(***************************************************************************)
EXTENDS Integers, Sequences

CONSTANTS
    Gates,        \* the identities of the gateways
    Allowed,      \* names that may be discovered
    Refused,      \* names that may not
    SwitchAfter,  \* profile_skip_timeout
    MaxClock,     \* bound: how long the application's proxy is watched
    MaxRequests   \* bound: requests

\* Gateways are told apart from the other places where a request can be, and from
\* its client.
ASSUME GatewayConstants ==
    /\ Gates \cap {"client", "out", "router"} = {}
    /\ SwitchAfter \in Nat

VARIABLES
    request,   \* the request
    at,        \* where it is
    header,    \* its connection to a gateway: the client, the name and the protocol of the
               \* transport header, and whether the name has been discovered
    path,      \* the gateways that have forwarded it, with the name each was given
    profile,   \* the kind of each name's profile
    switch,    \* for each name, the switch between its profile stack and the plain stack
    clock,
    served     \* how many requests were answered, and how the last one was

travel == <<request, at, header, path>>
gatewayVars == <<travel, profile, switch, clock, served>>

-----------------------------------------------------------------------------
(* Requests                                                                *)

AllNames == Allowed \cup Refused
Option(S) == {{}} \cup {{x} : x \in S}

\* A Forwarded header is a sequence of pairs.  A client's own may have any form.
Foreign == {<<>>, <<<<<<"for", "x">>, <<"by", "y">>>>>>}

\* The name of a request comes from the client proxy's header, the authority or the host.
AllRequests ==
    [version : {"http1", "http2"}, forwarded : Foreign,
     canonical : {{}}, authority : {{}}, host : Option(Allowed)]
    \cup [version : {"http2"}, forwarded : {<<>>},
     canonical : Option(Allowed), authority : Option(Refused), host : {{}}]

Idle == [version |-> "http2", forwarded |-> <<>>, canonical |-> {}, authority |-> {}, host |-> {}]
NoHeader == [client |-> "client", name |-> {}, session |-> {}, found |-> FALSE]

\* SwitchReady::new, with the services that it switches between.
NewSwitch == [primary |-> "pending", secondary |-> "pending", state |-> "primary",
              wake |-> 0, since |-> 0]

GatewayInit ==
    /\ request = Idle
    /\ at = "client"
    /\ header = NoHeader
    /\ path = <<>>
    /\ profile \in [Allowed -> {"logical", "endpoint", "empty"}]
    /\ switch = [n \in Allowed |-> NewSwitch]
    /\ clock = 0
    /\ served = [count |-> 0, last |-> "none"]

\* A request is over.
Answer(how) ==
    /\ served' = [count |-> served.count + 1, last |-> how]
    /\ at' = "client"
    /\ header' = NoHeader
    /\ request' = Idle
    /\ path' = <<>>

Start ==
    /\ at = "client" /\ served.count < MaxRequests
    /\ request' \in AllRequests
    /\ at' = "out"
    /\ UNCHANGED <<header, path, profile, switch, clock, served>>

\* The outbound proxy of the client or of a gateway chose the application's proxy.
ConnectApp ==
    /\ at = "out"
    /\ at' = "router"
    /\ UNCHANGED <<request, header, path, profile, switch, clock, served>>

\* It chose a gateway: the transport header has the name, and the protocol if it is HTTP.
ConnectGateway(g, n, p) ==
    /\ at = "out"
    /\ at' = g
    /\ header' = [header EXCEPT !.name = {n}, !.session = p]
    /\ UNCHANGED <<request, path, profile, switch, clock, served>>

\* A profile that was found changes.
UpdateProfile(n) ==
    /\ header.found /\ header.name = {n}
    /\ \E p \in {"logical", "endpoint", "empty"} \ {profile[n]} : profile' = [profile EXCEPT ![n] = p]
    /\ UNCHANGED <<travel, switch, clock, served>>

-----------------------------------------------------------------------------
(* The gateway                                                             *)

\* Gateway::resolver: a name must be allowed and have a profile.  If the policy
\* controller does not know it, the gateway makes a policy from the profile.
Resolver(n, found, policy) ==
    IF n \notin Allowed THEN "domainInvalid"
    ELSE IF found = "error" THEN "error"
    ELSE IF found = "none" THEN "domainInvalid"
    ELSE IF policy = "error" THEN "error" ELSE "found"

\* Gateway::server: the connection's name is discovered once.
Discover(g) ==
    /\ at = g /\ ~header.found
    /\ \E n \in header.name :
       \E outcome \in {Resolver(n, found, policy) : found \in {"some", "none", "error"},
                                                   policy \in {"ok", "notFound", "unimplemented", "error"}} :
           IF outcome = "found"
           THEN header' = [header EXCEPT !.found = TRUE] /\ UNCHANGED <<request, at, path, served>>
           ELSE Answer(outcome)
    /\ UNCHANGED <<profile, switch, clock>>

\* Gateway::opaq: without a session protocol the connection is forwarded as it is.
Opaq(g) ==
    /\ at = g /\ header.found /\ header.session = {}
    /\ Answer("opaque")
    /\ UNCHANGED <<profile, switch, clock>>

\* mk_routes, of the profile's present value: its own address or its endpoint.
MkRoutes(n) == profile[n] \in {"logical", "endpoint"}

\* fwd_by: the first `by` of a header.
FwdBy(pairs) ==
    {pairs[i][2] : i \in {j \in DOMAIN pairs :
                              /\ pairs[j][1] = "by"
                              /\ \A k \in 1 .. j - 1 : pairs[k][1] # "by"}}

\* HttpGateway::poll_ready and call: a request that this gateway has sent or
\* forwarded is in a loop.
Loops(g) ==
    \/ header.client = g
    \/ \E i \in DOMAIN request.forwarded : g \in FwdBy(request.forwarded[i])

\* HttpGateway::call: the gateway appends itself to the headers, and gives HTTP/1
\* requests the host that the previous proxy removed.
Fwd(g, n) == <<<<"by", g>>, <<"for", header.client>>, <<"host", n>>>>

Sent(g, n, forwarded) ==
    /\ request' = [request EXCEPT !.forwarded = forwarded,
                                  !.host = IF request.version = "http1" THEN {n} ELSE @]
    /\ path' = Append(path, [gate |-> g, name |-> n])
    /\ at' = "out"
    /\ header' = [NoHeader EXCEPT !.client = g]
    /\ UNCHANGED served

ForwardInsert(g, n) == Sent(g, n, <<Fwd(g, n)>>)

Forward(g, n) == Sent(g, n, Append(request.forwarded, Fwd(g, n)))

\* Gateway::http: requests are authorized, then routed.
Http(g) ==
    /\ at = g /\ header.found /\ header.session # {}
    /\ \/ Answer("unauthorized")
       \/ \E n \in header.name :
              IF ~MkRoutes(n) THEN Answer("domainInvalid")
              ELSE IF Loops(g) THEN Answer("loop") ELSE Forward(g, n)
    /\ UNCHANGED <<profile, switch, clock>>

-----------------------------------------------------------------------------
(* The router of the application's proxy                                   *)

\* LogicalPerRequest::select
Select ==
    IF request.canonical # {} THEN request.canonical
    ELSE IF request.authority # {} THEN request.authority ELSE request.host

\* The services that a switch has become ready, fail or become unready again.
Change(n) ==
    /\ at = "router" /\ n \in Select
    /\ \E p \in {"pending", "ready", "failed"}, s \in {"pending", "ready"} :
           /\ <<p, s>> # <<switch[n].primary, switch[n].secondary>>
           /\ switch' = [switch EXCEPT ![n].primary = p, ![n].secondary = s]
    /\ UNCHANGED <<travel, profile, clock, served>>

GatewayTick ==
    /\ at = "router" /\ clock < MaxClock
    /\ clock' = clock + 1
    /\ UNCHANGED <<travel, profile, switch, served>>

\* SwitchReady::poll_ready: a primary service that is not ready is given
\* SwitchAfter; then the secondary service is used until the primary is ready.
PollReady(s) ==
    LET wake == IF s.state = "primary" THEN clock + SwitchAfter ELSE s.wake
    IN  IF s.primary # "pending" THEN [s EXCEPT !.state = "primary"]
        ELSE [s EXCEPT !.wake = wake,
                       !.state = IF s.state = "secondary" \/ clock >= wake
                                 THEN "secondary" ELSE "waiting",
                       !.since = IF s.state = "primary" THEN clock ELSE @]

\* The stack of a discovered name: profiles without an address of their own add nothing.
Stack(n) == IF profile[n] = "logical" THEN "profile" ELSE "plain"

\* The queue polls the switch, and calls it when it is ready.  A failed profile
\* lookup fails the request.
Route(n) ==
    /\ at = "router" /\ Select = {n}
    /\ switch' = [switch EXCEPT ![n] = PollReady(@)]
    /\ \/ /\ switch'[n].state = "primary"
          /\ Answer(IF switch[n].primary = "failed" THEN "error" ELSE Stack(n))
       \/ /\ switch'[n].state = "secondary" /\ switch[n].secondary = "ready"
          /\ Answer("skipped")
       \/ /\ switch'[n].state = "secondary" => switch[n].secondary # "ready"
          /\ switch'[n].state # "primary"
          /\ switch' # switch
          /\ UNCHANGED <<travel, served>>
    /\ UNCHANGED <<profile, clock>>

\* Names that may not be discovered, and requests without a name, do without a profile.
RoutePlain ==
    /\ at = "router" /\ Select \cap Allowed = {}
    /\ Answer("plain")
    /\ UNCHANGED <<profile, switch, clock>>

GatewayNext ==
    \/ Start \/ ConnectApp
    \/ \E g \in Gates, n \in AllNames, p \in Option({"http1", "http2"}) : ConnectGateway(g, n, p)
    \/ \E g \in Gates : Discover(g) \/ Opaq(g) \/ Http(g)
    \/ \E n \in Allowed : UpdateProfile(n) \/ Change(n) \/ Route(n)
    \/ GatewayTick \/ RoutePlain

GatewaySpec == GatewayInit /\ [][GatewayNext]_gatewayVars

-----------------------------------------------------------------------------
(* Properties                                                              *)

\* However requests are sent between gateways, none forwards the same request twice,
\* and none forwards one under a name that may not be discovered.
LoopFree ==
    \A i, j \in DOMAIN path :
        /\ path[i].gate = path[j].gate => i = j
        /\ path[i].name \in Allowed

\* What a request says of its path is true: after the client's own, its Forwarded
\* headers name each gateway with the one before it and the name it was given, and the
\* host of an HTTP/1 request is the last of these names.
PathTold ==
    path # <<>> =>
        /\ Len(request.forwarded) >= Len(path)
        /\ LET own == Len(request.forwarded) - Len(path)
           IN  \A i \in DOMAIN path :
                   request.forwarded[own + i] =
                       <<<<"by", path[i].gate>>,
                         <<"for", IF i = 1 THEN "client" ELSE path[i - 1].gate>>,
                         <<"host", path[i].name>>>>
        /\ request.version = "http1" => request.host = {path[Len(path)].name}

\* A profile is skipped only while its stack is not ready, and only after it was
\* given SwitchAfter since it was found so; a request whose profile stack is ready
\* is served by it at once, also after others have skipped it.
SkipsWhenDue ==
    \A n \in Allowed :
        (served' # served /\ at = "router" /\ Select = {n}) =>
            IF switch[n].primary = "pending"
            THEN /\ served'.last = "skipped"
                 /\ clock - switch'[n].since >= SwitchAfter
            ELSE served'.last # "skipped"

\* Gateways do not loop and do not misreport, and the application's proxy skips
\* profile discovery only when it is due.
GatewaysSound ==
    /\ [](LoopFree /\ PathTold)
    /\ [][SkipsWhenDue]_gatewayVars

=============================================================================
