---------------------------- MODULE InboundPolicy ----------------------------
(***************************************************************************)
(* The inbound proxy and the policy of one server port.  The port's policy *)
(* is a watch that the control plane updates while connections are being   *)
(* detected, forwarded or served: every read of the watch is a step of its *)
(* own, because an update may come between any two of them.                *)
(*                                                                         *)
(* A connection comes to the port itself, and is handled as the policy's   *)
(* protocol says, or to the proxy's own port, where mutual TLS and a       *)
(* transport header are required.  Forwarded TCP connections are           *)
(* authorized when they begin and after every change of the policy; HTTP   *)
(* requests are authorized one by one.                                     *)
(***************************************************************************)
EXTENDS Integers, Sequences, FiniteSets

CONSTANTS
    Conns,       \* connections
    Ids,         \* identities that clients may prove
    Nets,        \* the networks clients connect from
    Kinds,       \* kinds of requests: those with the same best route
    Defaults,    \* the configured default policies
    Policies,    \* the policies that the control plane may send
    MaxChanges,  \* bound: updates of the watch
    Off,         \* a rate limit that is not configured
    NoRoute,     \* no route matches
    NoRequest,   \* no request is being authorized
    NoId         \* the key of clients without identity in the rate limiter

ASSUME DistinctIds ==
    /\ NoId \notin Ids \cup {"total", "override"}
    /\ Ids \cap {"skipped", "none", "passthru", "anonymous", "total", "override"} = {}

ASSUME BoundAssumption == MaxChanges \in Nat

\* Limits are numbers of requests, or off.
ASSUME LimitAssumption ==
    /\ Off \notin Nat
    /\ \A p \in Defaults \cup Policies :
        p.limits \in [total : Nat \cup {Off}, identity : Nat \cup {Off}, override : Nat \cup {Off},
                     clients : SUBSET Ids]

VARIABLES
    history,   \* the values the watch has had; the last one is in force
    watched,   \* whether the discovery task still holds the sender
    used,      \* requests counted by the rate limiter of the policy in force
    pc,        \* connection -> how far it is handled
    net,       \* connection -> network of the client
    status,    \* connection -> what is known of the client's TLS
    seen,      \* connection -> the version its receiver has seen
    request    \* connection -> the request being authorized

vars == <<history, watched, used, pc, net, status, seen, request>>

version == Len(history)
policy == history[version]

Statuses == {"skipped", "none", "passthru", "anonymous"} \cup Ids
Buckets == {"total", "override", NoId} \cup Ids
Stages == {"accepted", "detectTls", "directTls", "header", "direct", "tls", "switch", "detectHttp",
           "timedOut", "forward", "permitted", "open", "recheck", "http", "gateway", "closed", "panicked"}

-----------------------------------------------------------------------------
(* Policies                                                                *)

\* Whether authorization a admits a client of network n with TLS status s:
\* "tls" asks for an established session, "identity" for one of the identities.
IsAuthorized(a, n, s) ==
    /\ n \in a.nets
    /\ \/ a.authn = "unauthenticated"
       \/ a.authn = "tls" /\ s \in {"anonymous"} \cup Ids
       \/ a.authn = "identity" /\ s \in Ids \cap a.ids

\* Only these protocols have authorizations for connections.
CheckAuthorized(p, n, s) ==
    /\ p.protocol \in {"detect", "tls", "opaque"}
    /\ \E a \in p.authzs : IsAuthorized(a, n, s)

\* AllowPolicy::routes and route::find: the best route of a request, if the
\* protocol has routes and one of them matches.
Route(p, kind) == IF p.protocol \in {"tls", "opaque"} THEN NoRoute ELSE p.routes[kind]

Unlimited == [total |-> Off, identity |-> Off, override |-> Off, clients |-> {}]

Opaque(authzs, limits) == [protocol |-> "opaque", authzs |-> authzs, limits |-> limits,
                           routes |-> [k \in Kinds |-> NoRoute]]

\* DefaultPolicy::Deny
Deny == Opaque({}, Unlimited)

\* The default policy of the ports that are configured to be opaque.
MakeOpaque(p) == Opaque(p.authzs, p.limits)

\* ServerPolicy::invalid, which replaces a policy that cannot be decoded.
Invalid == [protocol |-> "detect", authzs |-> {}, limits |-> Unlimited,
            routes |-> [k \in Kinds |-> [authzs |-> {}, filter |-> "fails"]]]

-----------------------------------------------------------------------------
(* The watch                                                               *)

Unused == [b \in Buckets |-> 0]

\* Store: the watches of the configured ports are fixed, or begin with the default
\* policy or its opaque form and are watched for changes.
StoreInit ==
    \/ /\ \E d \in Defaults \cup {Deny} : history \in {<<d>>, <<MakeOpaque(d)>>}
       /\ watched \in BOOLEAN
    \/ /\ \E p \in Policies : history = <<p>>
       /\ watched = FALSE

\* The watch of a port that was looked up for the first time, or again after it was
\* evicted; it stays as long as a connection holds it.
Init ==
    /\ StoreInit
    /\ used = Unused
    /\ pc = [c \in Conns |-> "closed"]
    /\ net \in [Conns -> Nets]
    /\ status = [c \in Conns |-> "none"]
    /\ seen = [c \in Conns |-> 1]
    /\ request = [c \in Conns |-> NoRequest]

\* An update of the control plane.  Every policy brings a rate limiter of its own.
Update(p) ==
    /\ watched
    /\ version <= MaxChanges
    /\ history' = Append(history, p)
    /\ used' = Unused
    /\ UNCHANGED <<watched, pc, net, status, seen, request>>

\* Discovery fails for good: the sender is dropped and the last policy stays.
Unwatch ==
    /\ watched
    /\ watched' = FALSE
    /\ UNCHANGED <<history, used, pc, net, status, seen, request>>

\* The limiters replenish as time passes.
Replenish(b) ==
    /\ used[b] > 0
    /\ used' = [used EXCEPT ![b] = @ - 1]
    /\ UNCHANGED <<history, watched, pc, net, status, seen, request>>

-----------------------------------------------------------------------------
(* Accepting and detecting                                                 *)

Goto(c, stage) ==
    /\ pc' = [pc EXCEPT ![c] = stage]
    /\ UNCHANGED <<history, watched, used, net, seen, request>>

Learn(c, s) == status' = [status EXCEPT ![c] = s]

\* Connections to the proxy's own port are direct, others get the port's policy
\* (a receiver cloned from the cached one, which has only seen the initial
\* value).  An address that is not allowed stays closed, and a connection that
\* has ended makes room for another.
Accept(c, n) ==
    /\ pc[c] = "closed"
    /\ pc' \in {[pc EXCEPT ![c] = stage] : stage \in {"accepted", "directTls"}}
    /\ net' = [net EXCEPT ![c] = n]
    /\ seen' = [seen EXCEPT ![c] = 1]
    /\ Learn(c, "none")
    /\ UNCHANGED <<history, watched, used, request>>

\* Opaque ports skip the detection of TLS.
SwitchOpaque(c) ==
    /\ pc[c] = "accepted"
    /\ IF policy.protocol = "opaque" THEN Goto(c, "forward") /\ Learn(c, "skipped")
                                     ELSE Goto(c, "detectTls") /\ UNCHANGED status

\* A ClientHello for this proxy is terminated, one for another server or none at
\* all is passed through; a timeout, an error or a failed handshake ends it.
DetectTls(c, s) ==
    /\ pc[c] = "detectTls"
    /\ s # "skipped"
    /\ Goto(c, "tls") /\ Learn(c, s)

\* Applications that use TLS themselves are not looked into any further.
SwitchTls(c) ==
    /\ pc[c] = "tls"
    /\ Goto(c, IF policy.protocol = "tls" THEN "forward" ELSE "switch")
    /\ UNCHANGED status

\* How a connection goes on that is neither opaque nor application TLS; meshed
\* HTTP/1 may have been upgraded.  What remains is `unreachable!`.
SwitchHttp(p, s) ==
    CASE p.protocol = "detect" -> "detectHttp"
      [] p.protocol = "http1" -> IF s = "none" THEN "http" ELSE "detectHttp"
      [] p.protocol \in {"http2", "grpc"} -> "http"
      [] OTHER -> "panicked"

Switch(c) ==
    /\ pc[c] = "switch"
    /\ Goto(c, SwitchHttp(policy, status[c]))
    /\ UNCHANGED status

\* HTTP, something else, silence until the timeout, or the end of the stream.
DetectHttp(c, stage) ==
    /\ pc[c] = "detectHttp"
    /\ stage \in {"http", "forward", "timedOut"}
    /\ Goto(c, stage)
    /\ UNCHANGED status

\* After a timeout the policy's hint decides.
SwitchTimeout(c) ==
    /\ pc[c] = "timedOut"
    /\ Goto(c, IF policy.protocol = "http1" THEN "http" ELSE "forward")
    /\ UNCHANGED status

\* Direct connections must prove an identity and have negotiated the header.
DirectTls(c, s) ==
    /\ pc[c] = "directTls"
    /\ \E negotiated \in BOOLEAN : Goto(c, IF s \in Ids /\ negotiated THEN "header" ELSE "closed")
    /\ Learn(c, s)

\* The header is read, or it is missing, malformed or late.
ReadHeader(c) ==
    /\ pc[c] = "header"
    /\ \E stage \in {"direct", "closed"} : Goto(c, stage)
    /\ UNCHANGED status

\* The transport header asks for this port, as TCP or as HTTP, or for a gateway.
DirectHeader(c, stage) ==
    /\ pc[c] = "direct"
    /\ stage \in {"forward", "http", "gateway"}
    /\ Goto(c, stage)
    /\ UNCHANGED status

\* Detection times out or fails, the connection ends, or either side closes it.
Close(c) ==
    /\ pc[c] \in {"detectTls", "directTls", "detectHttp", "permitted", "open", "http", "gateway"}
    /\ request[c] = NoRequest
    /\ Goto(c, "closed")
    /\ UNCHANGED status

-----------------------------------------------------------------------------
(* TCP connections                                                         *)

\* NewTcpPolicy::new_service borrows the policy without marking it as seen.
Authorize(c) ==
    /\ pc[c] = "forward"
    /\ Goto(c, IF CheckAuthorized(policy, net[c], status[c]) THEN "permitted" ELSE "closed")
    /\ UNCHANGED status

\* A mutant: the receiver is marked as up to date when the call begins.
CallMarksSeen(c) ==
    /\ pc[c] = "permitted"
    /\ pc' = [pc EXCEPT ![c] = "open"]
    /\ seen' = [seen EXCEPT ![c] = version]
    /\ UNCHANGED <<history, watched, used, net, status, request>>

\* TcpPolicy::call clones the receiver with the version it has seen.
Call(c) ==
    /\ pc[c] = "permitted"
    /\ Goto(c, "open")
    /\ UNCHANGED status

\* A mutant: the loop ends with the sender, whatever was sent before.
ChangedWhileWatched(c) ==
    /\ pc[c] = "open"
    /\ watched /\ seen[c] # version
    /\ pc' = [pc EXCEPT ![c] = "recheck"]
    /\ seen' = [seen EXCEPT ![c] = version]
    /\ UNCHANGED <<history, watched, used, net, status, request>>

\* `changed` returns when there is a version that was not seen, even if the
\* sender is gone, and pends for ever when there is none.
Changed(c) ==
    /\ pc[c] = "open"
    /\ seen[c] # version
    /\ pc' = [pc EXCEPT ![c] = "recheck"]
    /\ seen' = [seen EXCEPT ![c] = version]
    /\ UNCHANGED <<history, watched, used, net, status, request>>

Recheck(c) ==
    /\ pc[c] = "recheck"
    /\ Goto(c, IF CheckAuthorized(policy, net[c], status[c]) THEN "open" ELSE "closed")
    /\ UNCHANGED status

-----------------------------------------------------------------------------
(* HTTP requests                                                           *)

SetRequest(c, r) ==
    /\ request' = [request EXCEPT ![c] = r]
    /\ UNCHANGED <<history, watched, pc, net, status, seen>>

Arrive(c, kind) ==
    /\ pc[c] = "http" /\ request[c] = NoRequest
    /\ SetRequest(c, [kind |-> kind, at |-> version, by |-> 0])
    /\ UNCHANGED used

\* Filters answer a request always (an invalid policy), sometimes (an injected
\* failure, a redirection), or only rewrite it.
FiltersPass(filter, failure) == filter = "passes" \/ (filter = "injects" /\ ~failure)

\* Whether route r lets a request of connection c through: some authorization
\* applies, and then no filter answers it.
Passes(r, c, failure) ==
    /\ r # NoRoute
    /\ \E a \in r.authzs : IsAuthorized(a, net[c], status[c])
    /\ FiltersPass(r.filter, failure)

\* A mutant: the routes are those from when the connection was accepted.
PolicyOfConnection(c) == history[seen[c]]

\* Routes are read anew for every request.
PolicyOfRequest(c) == policy

\* HttpPolicyService::call up to the rate limit: the routes that are in force
\* decide.  A request that is not let through is answered with an error.
AuthorizeRequest(c, failure) ==
    /\ pc[c] = "http" /\ request[c] # NoRequest
    /\ request[c].by = 0
    /\ SetRequest(c, IF Passes(Route(PolicyOfRequest(c), request[c].kind), c, failure)
                     THEN [request[c] EXCEPT !.by = version]
                     ELSE NoRequest)
    /\ UNCHANGED used

ClientId(c) == IF status[c] \in Ids THEN status[c] ELSE NoId

HasRoom(bucket, limit) == limit = Off \/ used[bucket] < limit

Counted(u, bucket, limit) == IF limit = Off THEN u ELSE [u EXCEPT ![bucket] = @ + 1]

\* The limit of a client besides the total: its override, or the identity's.
Scope(c) == IF status[c] \in policy.limits.clients /\ policy.limits.override # Off
            THEN [bucket |-> "override", limit |-> policy.limits.override]
            ELSE [bucket |-> ClientId(c), limit |-> policy.limits.identity]

\* LocalRateLimit::check: the total first, which counts the request even if the
\* limit of its client then refuses it.
CheckRateLimit(c) ==
    LET total == policy.limits.total
    IN  used' = IF ~HasRoom("total", total) THEN used
                ELSE IF ~HasRoom(Scope(c).bucket, Scope(c).limit) THEN Counted(used, "total", total)
                ELSE Counted(Counted(used, "total", total), Scope(c).bucket, Scope(c).limit)

\* The request is forwarded or refused; the limiter is that of the policy now in
\* force, which need not be the one that authorized the request.
Limit(c) ==
    /\ request[c] # NoRequest
    /\ request[c].by # 0
    /\ CheckRateLimit(c)
    /\ SetRequest(c, NoRequest)

-----------------------------------------------------------------------------
ConnStep(c) ==
    \/ SwitchOpaque(c) \/ SwitchTls(c) \/ Switch(c) \/ SwitchTimeout(c)
    \/ Authorize(c) \/ Call(c) \/ Changed(c) \/ Recheck(c)
    \/ \E failure \in BOOLEAN : AuthorizeRequest(c, failure)
    \/ Limit(c)

PeerStep(c) ==
    \/ \E n \in Nets : Accept(c, n)
    \/ \E s \in Statuses : DetectTls(c, s) \/ DirectTls(c, s)
    \/ \E stage \in Stages : DetectHttp(c, stage) \/ DirectHeader(c, stage)
    \/ ReadHeader(c)
    \/ \E kind \in Kinds : Arrive(c, kind)
    \/ Close(c)

Next ==
    \/ \E p \in Policies \cup {Invalid} : Update(p)
    \/ Unwatch
    \/ \E b \in Buckets : Replenish(b)
    \/ \E c \in Conns : ConnStep(c) \/ PeerStep(c)

Spec == Init /\ [][Next]_vars

\* A connection's task runs when it is woken.
Fairness == \A c \in Conns : WF_vars(ConnStep(c))

FairSpec == Spec /\ Fairness

-----------------------------------------------------------------------------
(* Properties                                                              *)

TypeOK ==
    /\ version \in 1 .. MaxChanges + 1
    /\ watched \in BOOLEAN
    /\ used \in [Buckets -> Nat]
    /\ pc \in [Conns -> Stages]
    /\ net \in [Conns -> Nets]
    /\ status \in [Conns -> Statuses]
    /\ seen \in [Conns -> 1 .. version]
    /\ request \in [Conns -> {NoRequest} \cup [kind : Kinds, at : 1 .. version, by : 0 .. version]]

(***************************************************************************)
(* "If the connection is no longer authorized, it is dropped": a TCP       *)
(* connection that the policy in force does not allow has a change of the  *)
(* policy still to notice, wherever the change came between the check, the *)
(* call and the loop of TcpPolicy.                                         *)
(***************************************************************************)
TcpEnforced ==
    \A c \in Conns :
        pc[c] = "open" /\ ~CheckAuthorized(policy, net[c], status[c]) => seen[c] # version

(***************************************************************************)
(* "Policy updates are honored as the connection progresses": a request is *)
(* let through by a policy that was in force after the request arrived,    *)
(* and that has a route for it which authorizes its client.                *)
(***************************************************************************)
RequestsEnforced ==
    \A c \in Conns :
        request[c] # NoRequest /\ request[c].by # 0 =>
            /\ request[c].by >= request[c].at
            /\ LET r == Route(history[request[c].by], request[c].kind)
               IN  r # NoRoute /\ \E a \in r.authzs : IsAuthorized(a, net[c], status[c])

\* The requests that u counts are within the limits.
Within(limits, u) ==
    /\ limits.total # Off => u["total"] <= limits.total
    /\ limits.override # Off => u["override"] <= limits.override
    /\ limits.identity # Off => \A i \in Ids \cup {NoId} : u[i] <= limits.identity

(***************************************************************************)
(* LocalRateLimit: what is counted stays within the limits of the policy   *)
(* in force, also for requests that an earlier policy authorized.          *)
(***************************************************************************)
WithinLimits == Within(policy.limits, used)

\* Requests are let through as the policy in force says, at the rate it says.
HttpEnforced == RequestsEnforced /\ WithinLimits

(***************************************************************************)
(* A TCP connection does not outlive its authorization.                    *)
(***************************************************************************)
WithdrawnCloses ==
    \A c \in Conns :
        pc[c] = "open" /\ ~CheckAuthorized(policy, net[c], status[c])
            ~> pc[c] = "closed" \/ CheckAuthorized(policy, net[c], status[c])

(***************************************************************************)
(* "opaque protocols must not hit the HTTP stack": the `unreachable!` of   *)
(* push_detect_http.                                                       *)
(***************************************************************************)
OpaqueNeverHttp == \A c \in Conns : pc[c] # "panicked"
=============================================================================
