---------------------------- MODULE PolicyMessages ----------------------------
(***************************************************************************)
(* What the proxy makes of the policies that the control plane sends: the  *)
(* conversions of outbound client policies and of inbound server policies. *)
(* A message is a tree of optional parts, any of which may be missing or   *)
(* malformed; the policy that comes out of it is used without a check.     *)
(*                                                                         *)
(* An optional part is a set with at most one element, and so is the       *)
(* result of a conversion: {} is a refusal.  A record of conversions is    *)
(* then a set of records, which is empty as soon as one field is refused.  *)
(* Which of several errors is reported is left out.                        *)
(***************************************************************************)
EXTENDS Integers, Sequences, FiniteSets, Functions

CONSTANTS
    Clients,      \* clients of the inbound proxy: address, TLS and identity
    Policies,     \* outbound policies that may be received
    Accruals,     \* failure accruals that may be received
    Rules,        \* rules of HTTP and gRPC routes that may be received
    Servers       \* inbound policies that may be received

VARIABLES
    message,   \* the last message: its type and content
    result     \* what its conversion returned

messageVars == <<message, result>>

-----------------------------------------------------------------------------
(* Optional parts and conversions                                          *)

\* The conversion of an optional part that may be absent.
Transpose(Try(_), opt) == IF opt = {} THEN {{}} ELSE {{y} : y \in UNION {Try(x) : x \in opt}}

\* The conversion of a required part.
Required(Try(_), opt) == UNION {Try(x) : x \in opt}

\* The conversion of a list, refused when one element is.
TryAll(Try(_), xs) ==
    {ys \in [DOMAIN xs -> UNION {Try(xs[i]) : i \in DOMAIN xs}] : \A i \in DOMAIN xs : ys[i] \in Try(xs[i])}

\* Durations, in milliseconds, may be negative on the wire.
TryDuration(d) == {x \in {d} : x >= 0}

DurationOr(opt, default) == IF opt = {} THEN {default} ELSE Required(TryDuration, opt)

\* What a client policy is about: a default, or a resource whose group, kind, name
\* and namespace are given.  A port that is not a TCP port is dropped.
TryMeta(m) ==
    IF m.kind = "default" \/ (m.kind = "resource" /\ m.named)
    THEN {[kind |-> m.kind, port |-> {m.port} \cap (1..65535)]}
    ELSE {}

\* The resources of server policies are not checked, and have no port.
TryServerMeta(m) == {[kind |-> x, port |-> {}] : x \in {m.kind} \ {"unset"}}

-----------------------------------------------------------------------------
(* Client policies: backends and distributions                             *)

TryLoad(l) ==
    IF l.kind = "peakEwma"
    THEN [kind : {l.kind}, rtt : Required(TryDuration, l.rtt), decay : Required(TryDuration, l.decay)]
    ELSE [kind : {l.kind}, rtt : DurationOr(l.rtt, 30), decay : DurationOr(l.decay, 10000),
          penalty : DurationOr(l.penalty, 5000), penaltyDecay : DurationOr(l.penaltyDecay, 10000),
          maxRetryAfter : DurationOr(l.maxRetryAfter, 300000)]

\* A backend without a kind is kept, and fails the requests that reach it.
TryDispatcher(b) ==
    CASE b.kind = "balancer" ->
           [kind : {"balancer"}, discovery : b.discovery, load : Required(TryLoad, b.load)]
      [] b.kind = "forward" -> [kind : {"forward"}, addr : b.addr]
      [] b.kind = "unset" -> {[kind |-> "fail"]}

TryBackend(b) ==
    [name : {b.name}, meta : Required(TryMeta, b.meta), dispatcher : TryDispatcher(b),
     failfast : Required(TryDuration, b.failfast)]

\* A backend of a route: the filters of a backend are valid, or refused.
TryRouteBackend(rb) ==
    IF rb.filters = "valid" THEN [backend : Required(TryBackend, rb.backend), weight : {rb.weight}] ELSE {}

TryDistribution(d) ==
    CASE d.kind = "unset" -> {}
      [] d.kind = "empty" -> {[kind |-> "empty", backends |-> <<>>]}
      [] OTHER -> [kind : {d.kind}, backends : TryAll(TryRouteBackend, d.backends) \ {<<>>}]

\* RouteDistribution::fill_backends
DistributionBackends(d) == {d.backends[i].backend : i \in DOMAIN d.backends}

-----------------------------------------------------------------------------
(* Client policies: backoffs, failure accrual, retries, timeouts            *)

\* Jitter is a percentage here, at most one hundred times the delay.
ExponentialBackoff(min, max, jitter) == min <= max /\ max # 0 /\ jitter \in 0..10000

TryBackoff(b) ==
    {x \in [min : Required(TryDuration, b.min), max : Required(TryDuration, b.max), jitter : {b.jitter}] :
        ExponentialBackoff(x.min, x.max, x.jitter)}

MinWindow == 10
MaxMinRequests == 1000000

\* SuccessRateThreshold::from_fraction: a fraction in hundred-thousandths
\* is clamped and rounded to basis points.
FromFraction(f) == ((IF f < 0 THEN 0 ELSE IF f > 100000 THEN 100000 ELSE f) + 5) \div 10

TryAccrual(a) ==
    CASE a.kind = "unset" -> {}
      [] a.kind = "consecutive" ->
           [kind : {a.kind}, maxFailures : {a.maxFailures}, backoff : Required(TryBackoff, a.backoff)]
      [] a.kind = "unified" ->
           {x \in [kind : {a.kind}, threshold : {FromFraction(f) : f \in {a.threshold} \cap (0..100000)},
                   window : DurationOr(a.window, 10000), minRequests : {a.minRequests} \cap (0..MaxMinRequests),
                   maxFailures : {a.maxFailures}, backoff : Required(TryBackoff, a.backoff)] :
               x.threshold = 0 \/ x.window >= MinWindow}

\* A range of status codes to retry on.
TryRange(r) ==
    {x \in {r} : /\ x.start \in 0..65535 /\ x.end \in 0..65535
                 /\ x.start # 0 /\ x.end # 0 /\ x.end <= 599 /\ x.start <= x.end}

TryHttpRetry(r) ==
    [conditions : Required(LAMBDA rs : TryAll(TryRange, rs), r.ranges), maxRetries : {r.maxRetries} \cap (0..65535),
     backoff : Transpose(TryBackoff, r.backoff), timeout : Transpose(TryDuration, r.timeout)]

\* The codes are flags: any choice of them is valid, and so is any number of retries.
TryGrpcRetry(r) ==
    [conditions : r.codes, maxRetries : {r.maxRetries},
     backoff : Transpose(TryBackoff, r.backoff), timeout : Transpose(TryDuration, r.timeout)]

TryTimeouts(t) ==
    [response : Transpose(TryDuration, t.response), idle : Transpose(TryDuration, t.idle),
     request : Transpose(TryDuration, t.request)]

NoTimeouts == [response |-> {}, idle |-> {}, request |-> {}]

\* RouteParams::try_from_proto
TryParams(r) ==
    [retry : IF r.grpc THEN Transpose(TryGrpcRetry, r.retry) ELSE Transpose(TryHttpRetry, r.retry),
     timeouts : IF r.timeouts = {} THEN {NoTimeouts} ELSE Required(TryTimeouts, r.timeouts)]

\* The timeout of the deprecated field is used when the timeouts have none.
OrLegacy(params, legacy) ==
    IF params.timeouts.request # {} THEN params ELSE [params EXCEPT !.timeouts.request = legacy]

-----------------------------------------------------------------------------
(* Client policies: routes and protocols                                   *)

\* The conversions of hosts, SNIs, matches and filters refuse what they cannot
\* represent; `matches` says whether those of the rule are all valid.
TryRule(r) ==
    IF r.matches = "valid"
    THEN [distribution : Required(TryDistribution, r.backends),
          params : {OrLegacy(x[1], x[2]) : x \in TryParams(r) \X Transpose(TryDuration, r.legacy)}]
    ELSE {}

TryRoute(r) ==
    IF r.hosts = "valid"
    THEN [meta : Required(TryMeta, r.meta), rules : TryAll(TryRule, r.rules)]
    ELSE {}

\* TLS and opaque routes have no matches, and one rule for that reason.
TryOneRule(r) == IF Len(r.rules) = 1 THEN TryRoute(r) ELSE {}

\* Http1, Http2 and Grpc; a message without failure accrual has none.
TryHttp(p) == [routes : TryAll(TryRoute, p.routes), accrual : Transpose(TryAccrual, p.accrual)]

TryTls(p) == [routes : TryAll(TryOneRule, p.routes)]

TryOpaque(p) == IF Len(p.routes) > 1 THEN {} ELSE [routes : TryAll(TryOneRule, p.routes)]

\* The parts of a policy's protocol, by name: only detection has several.
TryProtocol(p) ==
    CASE p.kind = "unset" -> {}
      [] p.kind = "detect" ->
           IF Required(TryDuration, p.timeout) = {} THEN {}
           ELSE [http1 : Required(TryHttp, p.http1), http2 : Required(TryHttp, p.http2),
                 opaque : Required(TryOpaque, p.opaque)]
      [] p.kind \in {"http1", "http2", "grpc"} -> [http : TryHttp(p)]
      [] p.kind = "tls" -> [tls : TryTls(p)]
      [] p.kind = "opaque" -> [opaque : TryOpaque(p)]

\* The rules of all the routes of the parts of a converted protocol.
RulesOf(protocol) ==
    UNION {UNION {Range(protocol[k].routes[j].rules) : j \in DOMAIN protocol[k].routes} : k \in DOMAIN protocol}

\* The backends of the policy are those of all its parts.
FillBackends(protocol) == UNION {DistributionBackends(r.distribution) : r \in RulesOf(protocol)}

\* ClientPolicy::invalid: requests match its only rule, which fails them.
InvalidPolicy ==
    LET routes == <<[meta |-> [kind |-> "default", port |-> {}],
                     rules |-> <<[distribution |-> [kind |-> "empty", backends |-> <<>>],
                                  params |-> [retry |-> {}, timeouts |-> NoTimeouts]]>>]>>
    IN [protocol |-> [http1 |-> [routes |-> routes, accrual |-> {}], http2 |-> [routes |-> routes, accrual |-> {}],
                      opaque |-> [routes |-> routes]],
        backends |-> {}]

TryPolicy(p) ==
    IF Required(TryMeta, p.meta) = {} THEN {}
    ELSE {[protocol |-> x, backends |-> FillBackends(x)] : x \in TryProtocol(p)}

-----------------------------------------------------------------------------
(* Server policies                                                         *)

\* A network is a set of addresses, or malformed.
TryNet(n) == {x \in {n} : x # {"malformed"}}

TryNetwork(n) ==
    [net : Required(TryNet, n.net), except : TryAll(TryNet, n.except)]

\* Suffix::from: identities end with all the labels of the suffix and have more.
Contains(suffix, id) ==
    LET n == Len(suffix) IN
    \/ n = 0
    \/ Len(id) > n /\ SubSeq(id, Len(id) - n + 1, Len(id)) = suffix

\* Authorization::try_from; identities and suffixes may both be empty.
TryAuthz(a) ==
    [nets : IF a.nets = <<>> THEN {} ELSE TryAll(TryNetwork, a.nets),
     authn : a.authn,
     meta : IF a.meta = {} THEN Required(TryServerMeta, a.labels) ELSE Required(TryServerMeta, a.meta)]

\* A route that lists authorizations replaces those of its server.
MkAuthorizationsOwn(authzs, parent) ==
    {IF xs = <<>> THEN parent ELSE xs : xs \in TryAll(TryAuthz, authzs)}

\* The authorizations of a part of the policy, and those of its parent.
MkAuthorizations(authzs, parent) == {xs \o parent : xs \in TryAll(TryAuthz, authzs)}

Localhost ==
    [nets |-> <<[net |-> {"localhost"}, except |-> <<>>]>>, authn |-> [kind |-> "unauthenticated"],
     meta |-> [kind |-> "default", port |-> {}]]

\* A filter of a kind that the proxy does not know fails the requests.
TryFilter(f) == {[kind |-> IF f = "unset" THEN "internalError" ELSE f] : x \in {f} \ {"malformed"}}

TryServerRule(r) == [filters : TryAll(TryFilter, r.filters)]

\* try_route of HTTP and of gRPC
TryServerRoute(r, parent) ==
    IF r.hosts = "valid"
    THEN [authzs : MkAuthorizations(r.authzs, parent), meta : Required(TryServerMeta, r.meta),
          rules : TryAll(TryServerRule, r.rules)]
    ELSE {}

DefaultRoute(authzs) ==
    [authzs |-> authzs, meta |-> [kind |-> "default", port |-> {}], rules |-> <<[filters |-> <<>>]>>]

\* mk_routes!: older control planes send no routes, and mean one for all requests.
MkRoutes(routes, authzs) ==
    IF routes = <<>> THEN {<<DefaultRoute(authzs)>>}
    ELSE TryAll(LAMBDA r : TryServerRoute(r, authzs), routes)

\* The limits of zero requests are dropped; an override lists the identities it is for.
TryRateLimit(l) ==
    [meta : Transpose(TryServerMeta, l.meta), total : {{n \in l.total : n # 0}},
     identity : {{n \in l.identity : n # 0}},
     overrides : {IF l.override \subseteq {0} THEN {} ELSE l.clients}]

NoRateLimit == [meta |-> {}, total |-> {}, identity |-> {}, overrides |-> {}]

\* ServerPolicy::try_from
TryServer(s) ==
    LET limits == IF s.kind \in {"detect", "http1", "http2"}
                  THEN IF s.limit = {} THEN {NoRateLimit} ELSE Required(TryRateLimit, s.limit)
                  ELSE {NoRateLimit}
        parent == MkAuthorizations(s.authzs, <<Localhost>>)
    IN CASE s.kind = "unset" \/ s.labels = {} -> {}
         [] s.kind = "detect" /\ Required(TryDuration, s.timeout) = {} -> {}
         [] OTHER ->
              UNION {[kind : {s.kind}, limits : limits,
                      routes : IF s.kind \in {"tls", "opaque"} THEN {<<>>} ELSE MkRoutes(s.routes, as),
                      authzs : IF s.kind \in {"detect", "tls", "opaque"} THEN {as} ELSE {<<>>}] : as \in parent}

-----------------------------------------------------------------------------
(* Messages arrive and are converted one after the other                   *)

None == [type |-> "none"]

MessageInit ==
    /\ message = None
    /\ result = {}

Receive(type, content, converted) ==
    /\ message' = [type |-> type, content |-> content]
    /\ result' = converted

\* A policy that cannot be decoded is replaced by one that fails everything.
ReceivePolicy ==
    /\ message = None
    /\ \E p \in Policies :
        Receive("policy", p, IF TryPolicy(p) = {} THEN {InvalidPolicy} ELSE TryPolicy(p))

ReceiveAccrual == message = None /\ \E a \in Accruals : Receive("accrual", a, TryAccrual(a))
ReceiveRule == message = None /\ \E r \in Rules : Receive("rule", r, TryRule(r))
ReceiveServer == message = None /\ \E s \in Servers : Receive("server", s, TryServer(s))

\* The result is published, and the next message of the stream read.
Publish ==
    /\ message # None
    /\ message' = None
    /\ result' = {}

MessageNext == ReceivePolicy \/ ReceiveAccrual \/ ReceiveRule \/ ReceiveServer \/ Publish

MessageSpec == MessageInit /\ [][MessageNext]_messageVars

-----------------------------------------------------------------------------
(* Properties                                                              *)

\* The backends that a message names, where the policy's protocol has routes.
NamedIn(p) ==
    LET parts == IF p.kind = "detect" THEN p.http1 \cup p.http2 \cup p.opaque ELSE {p}
        rules == UNION {UNION {Range(x.routes[j].rules) : j \in DOMAIN x.routes} : x \in parts}
        dists == UNION {r.backends : r \in rules}
    IN UNION {UNION {{b.name : b \in d.backends[i].backend} : i \in DOMAIN d.backends} :
                 d \in {x \in dists : x.kind # "empty"}}

\* The routers look up the backends of their rules in the policy's list, which is also
\* what is resolved and balanced: it has exactly the backends of the rules, and an
\* accepted policy drops none that the message names.
BackendsComplete ==
    \A p \in result : message.type = "policy" =>
        /\ \A r \in RulesOf(p.protocol) : \A i \in DOMAIN r.distribution.backends :
              r.distribution.backends[i].backend \in p.backends
        /\ p = InvalidPolicy \/ {b.name : b \in p.backends} = NamedIn(message.content)

\* An accepted failure accrual can be run: the ten buckets of an active success rate
\* window are a millisecond or more, the threshold is a fraction, and the backoff
\* has a positive maximum that is not below its minimum.
AccrualRuns ==
    \A a \in result : message.type = "accrual" =>
        /\ a.backoff.max > 0 /\ a.backoff.min \in 0..a.backoff.max
        /\ a.kind = "unified" =>
              /\ a.threshold \in 0..10000
              /\ a.threshold # 0 => a.window \div 10 >= 1

\* The request timeout of an accepted rule is the one of its timeouts, and that of the
\* deprecated field only when they have none; its retries have satisfiable conditions.
RuleFaithful ==
    \A r \in result : message.type = "rule" =>
        LET m == message.content
            request == UNION {t.request : t \in m.timeouts}
        IN /\ r.params.timeouts.request = IF request # {} THEN request ELSE m.legacy
           /\ \A y \in r.params.retry : ~m.grpc => \A i \in DOMAIN y.conditions :
                 {c \in 1..599 : y.conditions[i].start <= c /\ c <= y.conditions[i].end} # {}

\* Whether a converted authorization permits a client (InboundPolicy has the check).
Permits(a, c) ==
    /\ \E i \in DOMAIN a.nets : c.addr \in a.nets[i].net \ UNION Range(a.nets[i].except)
    /\ \/ a.authn.kind = "unauthenticated"
       \/ a.authn.kind = "tls" /\ c.tls
       \/ /\ a.authn.kind = "identities" /\ c.tls /\ c.id # <<>>
          /\ c.id \in a.authn.identities \/ \E s \in a.authn.suffixes : Contains(s, c.id)

\* What the authorizations of a message say of a client, wherever they are well formed.
Grants(authzs, c) ==
    \E i \in DOMAIN authzs : \E n \in Range(authzs[i].nets) : \E net \in n.net : \E permit \in authzs[i].authn :
        /\ c.addr \in net /\ \A j \in DOMAIN n.except : c.addr \notin n.except[j]
        /\ \/ permit.kind = "unauthenticated"
           \/ permit.kind = "tls" /\ c.tls
           \/ /\ permit.kind = "identities" /\ c.tls /\ c.id # <<>>
              /\ \/ c.id \in permit.identities
                 \/ \E s \in permit.suffixes : \E k \in 0..Len(c.id) :
                       c.id = SubSeq(c.id, 1, k) \o s /\ (k > 0 \/ s = <<>>)

\* An accepted server policy permits, on its connections and on each of its routes,
\* the clients that the message grants access there, the pod itself, and nobody
\* else; a rule with an unknown filter passes nothing.
ServerExact ==
    \A s \in result : message.type = "server" =>
        LET m == message.content IN
        \A c \in Clients :
            LET granted == c.addr = "localhost" \/ Grants(m.authzs, c) IN
            /\ s.kind \in {"detect", "tls", "opaque"} =>
                  ((\E a \in Range(s.authzs) : Permits(a, c)) <=> granted)
            /\ \A j \in DOMAIN s.routes :
                  /\ (\E a \in Range(s.routes[j].authzs) : Permits(a, c))
                       <=> granted \/ (m.routes # <<>> /\ Grants(m.routes[j].authzs, c))
                  /\ m.routes # <<>> => \A k \in DOMAIN m.routes[j].rules :
                       "unset" \in Range(m.routes[j].rules[k].filters) =>
                          [kind |-> "internalError"] \in Range(s.routes[j].rules[k].filters)

=============================================================================
