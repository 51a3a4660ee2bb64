----------------------------- MODULE MCServices -----------------------------
(***************************************************************************)
(* The services of the proxy, for TLC: the inbound policies (InboundPolicy *)
(* with a default that allows everything, and policies of every protocol   *)
(* that ask for identities, for TLS or for a network), the messages of the *)
(* control plane (PolicyMessages with each part in turn missing, malformed *)
(* or at a bound, and ServiceProfiles whose conditions nest the leaves of  *)
(* every kind), the discovery of what is outbound (OutboundDiscover), its  *)
(* routes (RouteMatch, OutboundRoutes) and the DMA data path (DmaIo,       *)
(* DmaSlots, DmaRouter).  A behaviour runs one of these machines, `part`,  *)
(* and leaves the others where they start: the states are the sum of       *)
(* theirs.                                                                 *)
(***************************************************************************)
EXTENDS InboundPolicy

CONSTANTS Parts,    \* the machines to run
          id1, near, far, get, put

VARIABLES
    part,
    mode, disco, profile, clientPolicy, target, stacks,
    protocol, routes,
    updates, closed, task, lastSeen, built, cache, avail, client, outcome,
    dma, handle, inner, rxMem, txMem, dpa, completed, ring, fetched, reader, writer, got, driver, staged,
    flow, slot, home, snapshot, handles, events, regs, acceptor, backendSlots, registry, published, io,
    eof, reads, dialed,
    default, keyOf, serves, chan, groups, next, picks, stage, key, notified, sink,
    message, result,
    sent, open, yielded, table, proxies, ready, called

discoVars == <<mode, disco, profile, clientPolicy, target, stacks>>
matchVars == <<protocol, routes>>
routesVars == <<updates, closed, task, lastSeen, built, cache, avail, client, outcome>>
ioVars == <<dma, handle, inner, rxMem, txMem, dpa, completed, ring, fetched, reader, writer, got, driver,
            staged>>
slotVars == <<flow, slot, home, snapshot, handles, events, regs, acceptor, backendSlots, registry,
              published, io, eof, reads, dialed>>
routerVars == <<default, keyOf, serves, chan, groups, next, picks, stage, key, notified, sink>>
messageVars == <<message, result>>
profileVars == <<sent, open, yielded, table, proxies, ready, called>>
allVars == <<part, vars, discoVars, matchVars, routesVars, ioVars, slotVars, routerVars,
             messageVars, profileVars>>

-----------------------------------------------------------------------------
(* Inbound policies. *)

Any == [nets |-> Nets, authn |-> "unauthenticated", ids |-> {}]
Tls == [nets |-> Nets, authn |-> "tls", ids |-> {}]
OnlyId1 == [nets |-> Nets, authn |-> "identity", ids |-> {id1}]
OnlyNear == [nets |-> {near}, authn |-> "unauthenticated", ids |-> {}]

Policy(proto, authzs, rts, limits) ==
    [protocol |-> proto, authzs |-> authzs, routes |-> rts, limits |-> limits]

Same(authzs, filter) == [k \in Kinds |-> [authzs |-> authzs, filter |-> filter]]

AllowAll == Policy("detect", {Any}, Same({Any}, "passes"), Unlimited)

MCDefaults == {AllowAll}

MCPolicies ==
    { Policy("detect", {OnlyId1}, Same({OnlyId1}, "passes"), Unlimited),
      Policy("http1", {}, [k \in Kinds |-> IF k = get THEN [authzs |-> {Tls}, filter |-> "injects"] ELSE NoRoute],
             [total |-> 2, identity |-> 1, override |-> 2, clients |-> {id1}]),
      Policy("grpc", {}, Same({OnlyNear}, "passes"), Unlimited),
      Policy("tls", {Tls}, Same({}, "passes"), Unlimited),
      Policy("opaque", {OnlyNear}, Same({}, "passes"), Unlimited) }

-----------------------------------------------------------------------------
(* Profiles: one of each kind that discovery tells apart. *)

MkProfile(addr, rts, targets, opaque) ==
    [addr |-> addr, routes |-> rts, targets |-> targets, opaque |-> opaque]

MCProfiles ==
    { MkProfile(TRUE, FALSE, FALSE, FALSE), MkProfile(TRUE, TRUE, FALSE, FALSE),
      MkProfile(TRUE, FALSE, TRUE, FALSE), MkProfile(FALSE, FALSE, FALSE, TRUE) }

(* Tables of up to two routes and three rules, over one-letter hosts, path *)
(* segments and header values.                                             *)

Text(kind, text) == [kind |-> kind, text |-> text]

Match(path, headers, query, method) ==
    [path |-> path, headers |-> headers, query |-> query, method |-> method]

Rpc(svc, rpc, headers) == [service |-> svc, rpc |-> rpc, headers |-> headers]

HeaderX == [name |-> "h", language |-> {"x"}]

MCHostLists(parse(_)) ==
    { << >>, <<parse(<<"*", ".", "b">>)>>, <<parse(<<"*", ".", "b", ".">>)>>,
      <<parse(<<"*", ".", "b">>), parse(<<"a", ".", "b">>)>> }

MCMatchLists(none) ==
    [http |->
       { << >>,
         <<Match(Text("prefix", <<"/", "a">>), << >>, << >>, "any")>>,
         <<Match(Text("exact", <<"/", "a">>), << >>, << >>, "GET"),
           Match(Text("prefix", <<"/">>), <<HeaderX>>, << >>, "any")>>,
         <<Match([kind |-> "regex", language |-> {<<"/", "a", "/">>, <<"/", "a", "/", "b">>}],
                 << >>, <<HeaderX>>, "any")>>,
         <<Match(Text("prefix", <<"/", "a", "/">>), << >>, << >>, "GET"),
           Match(none, <<HeaderX>>, << >>, "GET")>> },
     grpc |->
       { << >>,
         <<Rpc(<<"a">>, << >>, << >>)>>,
         <<Rpc(<<"a">>, <<"b">>, << >>), Rpc(<< >>, <<"b">>, <<HeaderX>>)>>,
         <<Rpc(<< >>, << >>, << >>)>> }]

MkRequest(host, path, method, headers) ==
    [host |-> host, path |-> path, method |-> method, headers |-> headers, query |-> headers]

MCRequests ==
    { MkRequest(<<"a", ".", "b">>, <<"/", "a", "/", "b">>, "GET", {<<"h", "x">>}),
      MkRequest(<<"a", ".", "b", ".">>, <<"/", "a">>, "GET", {<<"h", "y">>}),
      MkRequest(<<"b">>, <<"/", "a", "/">>, "GET", {}),
      MkRequest(<<"a", "b">>, <<"/", "a", "b">>, "POST", {}),
      MkRequest(<< >>, <<"/">>, "GET", {<<"h", "x">>, <<"h", "y">>}),
      MkRequest(<<"c", ".", "b">>, <<"/", "a", "/", "b">>, "POST", {<<"h", "x">>}) }

(* Routes of every family: first-available, weighted and empty             *)
(* distributions, failing filters and backends, weights that are zero.     *)

Service(name, kind, estimate) == [name |-> name, kind |-> kind, load |-> estimate]

SvcA == Service("a", "balance", "penalty")

SvcB == Service("b", "balance", "ewma")

SvcF == Service("f", "fail", "none")

To(spec, weight, filter) == [spec |-> spec, weight |-> weight, filter |-> filter]

Rule(how, backs, filter) == [how |-> how, backs |-> backs, filter |-> filter]

Table(kind, accrual, rules, x, y, backends) ==
    [kind |-> kind, accrual |-> accrual, rules |-> rules,
     table |-> [i \in {"x", "y"} |-> IF i = "x" THEN x ELSE y], backends |-> backends]

MCUpdates ==
    [policy |->
       { Table("http", "none", <<Rule("first", <<To(SvcA, 1, "none"), To(SvcB, 1, "none")>>, "none"),
                                 Rule("random", <<To(SvcA, 1, "none"), To(SvcB, 0, "none")>>, "none")>>,
               1, 2, {SvcA, SvcB}),
         Table("http", "accrual", <<Rule("first", <<To(SvcF, 1, "none")>>, "none"),
                                    Rule("random", <<To(SvcA, 1, "none"), To(SvcB, 2, "none")>>, "fail")>>,
               1, 2, {SvcF, SvcA, SvcB}),
         Table("grpc", "none", <<Rule("first", <<To(SvcB, 1, "fail")>>, "none")>>, 0, 1, {SvcB}) },
     profile |->
       { [kind |-> "profile", addr |-> "p", rules |-> <<{"x"}>>, targets |-> << >>],
         [kind |-> "profile", addr |-> "p", rules |-> << >>,
          targets |-> <<[addr |-> "a", weight |-> 1], [addr |-> "p", weight |-> 2]>>] },
     opaq |->
       { Table("opaq", "none", <<Rule("random", <<To(SvcA, 1, "none"), To(SvcB, 1, "none")>>, "none")>>,
               1, 1, {SvcA, SvcB}),
         Table("opaq", "none", <<Rule("random", <<To(SvcA, 0, "none"), To(SvcB, 0, "none")>>, "none")>>,
               1, 1, {SvcA, SvcB}),
         Table("opaq", "none", << >>, 0, 0, {}) },
     tls |->
       { Table("tls", "none", <<Rule("first", <<To(SvcA, 1, "none")>>, "none")>>, 1, 0, {SvcA}),
         Table("tls", "none", <<Rule("empty", << >>, "none")>>, 0, 1, {}) },
     endpoint |-> {[kind |-> "endpoint", addr |-> "e"]}]

-----------------------------------------------------------------------------
(* Client policies. *)

MetaOk == {[kind |-> "default", named |-> TRUE, port |-> 0]}

Metas ==
    { {}, MetaOk, {[kind |-> "unset", named |-> TRUE, port |-> 0]},
      {[kind |-> "resource", named |-> FALSE, port |-> 80]},
      {[kind |-> "resource", named |-> TRUE, port |-> 65536]} }

Ewma == [kind |-> "peakEwma", rtt |-> {30}, decay |-> {1}]

Penalty ==
    [kind |-> "penaltyPeakEwma", rtt |-> {}, decay |-> {}, penalty |-> {}, penaltyDecay |-> {1},
     maxRetryAfter |-> {}]

GoodBackend ==
    [name |-> "a", meta |-> MetaOk, kind |-> "balancer", discovery |-> {"path"}, load |-> {Ewma},
     addr |-> {}, failfast |-> {3000}]

OtherBackends ==
    { GoodBackend, [GoodBackend EXCEPT !.name = "b", !.load = {Penalty}],
      [GoodBackend EXCEPT !.name = "b", !.kind = "unset"],
      [GoodBackend EXCEPT !.name = "b", !.kind = "forward", !.addr = {"addr"}] }

BrokenBackends ==
    { [GoodBackend EXCEPT !.meta = {}], [GoodBackend EXCEPT !.discovery = {}], [GoodBackend EXCEPT !.load = {}],
      [GoodBackend EXCEPT !.load = {[Ewma EXCEPT !.decay = {-1}]}],
      [GoodBackend EXCEPT !.load = {[Ewma EXCEPT !.rtt = {}]}],
      [GoodBackend EXCEPT !.load = {[Penalty EXCEPT !.penalty = {-1}]}],
      [GoodBackend EXCEPT !.kind = "forward"], [GoodBackend EXCEPT !.failfast = {}] }

ToBackend(backend, filters) == [backend |-> backend, weight |-> 1, filters |-> filters]

Dist(kind, backends) == [kind |-> kind, backends |-> backends]

EmptyDist == Dist("empty", << >>)

Dists ==
    {Dist(kind, << >>) : kind \in {"unset", "empty", "random", "first"}}
    \cup {Dist("first", <<ToBackend({}, "valid")>>), Dist("random", <<ToBackend({GoodBackend}, "malformed")>>)}
    \cup {Dist(kind, <<ToBackend({GoodBackend}, "valid"), ToBackend({b}, "valid")>>) :
            kind \in {"first", "random"}, b \in OtherBackends}
    \cup {Dist("random", <<ToBackend({b}, "valid"), ToBackend({GoodBackend}, "valid")>>) : b \in BrokenBackends}

RuleMsg(dists) ==
    [grpc |-> FALSE, matches |-> "valid", backends |-> dists, retry |-> {}, timeouts |-> {}, legacy |-> {}]

FewDists ==
    { {}, {EmptyDist}, {Dist("first", <<ToBackend({[GoodBackend EXCEPT !.name = "c"]}, "valid")>>)},
      {Dist("random", <<ToBackend({GoodBackend}, "valid"), ToBackend({[GoodBackend EXCEPT !.name = "b"]}, "valid")>>)} }

RouteMsg(rules) == [hosts |-> "valid", meta |-> MetaOk, rules |-> rules]

RulesUpTo1 == {<< >>} \cup {<<RuleMsg(d)>> : d \in FewDists}

RulesUpTo2 == RulesUpTo1 \cup {<<RuleMsg(d), RuleMsg(e)>> : d, e \in FewDists}

RouteLists(lists) == {<< >>} \cup {<<RouteMsg(rules)>> : rules \in lists}

PolicyMsgs ==
    {[kind |-> k, meta |-> m, routes |-> <<RouteMsg(<<RuleMsg({d})>>)>>, accrual |-> {}] :
       k \in {"unset", "http1", "grpc", "tls", "opaque"}, m \in Metas, d \in Dists}
    \cup {[kind |-> k, meta |-> MetaOk, routes |-> rts, accrual |-> {}] :
            k \in {"http2", "tls", "opaque"},
            rts \in RouteLists(RulesUpTo2) \cup {<<RouteMsg(a), RouteMsg(b)>> : a, b \in RulesUpTo1}
                         \cup {<<[RouteMsg(a) EXCEPT !.hosts = "malformed"]>> : a \in RulesUpTo1}}
    \cup {[kind |-> "detect", meta |-> MetaOk, timeout |-> t, http1 |-> h1, http2 |-> h2, opaque |-> o] :
            t \in {{}, {-1}, {10}},
            h1, h2, o \in {{}} \cup {{[routes |-> rts, accrual |-> {}]} : rts \in RouteLists(RulesUpTo1)}}

Backoffs ==
    {{}} \cup {{[min |-> a, max |-> b, jitter |-> j]} :
                 a, b \in {{}, {-1}, {0}, {1}, {2}}, j \in {-1, 0, 10000, 10001}}

AccrualMsgs ==
    {[kind |-> "unset"]}
    \cup {[kind |-> "consecutive", maxFailures |-> n, backoff |-> b] : n \in {0, 1}, b \in Backoffs}
    \cup {[kind |-> "unified", maxFailures |-> 1, threshold |-> t, window |-> w, minRequests |-> n, backoff |-> b] :
            t \in {-1, 0, 4, 5, 100000, 100001}, w \in {{}, {-1}, {0}, {9}, {10}},
            n \in {0, 1000000, 1000001}, b \in {{}, {[min |-> {1}, max |-> {2}, jitter |-> 0]}}}

StatusRanges == {[start |-> a, end |-> b] : a, b \in {0, 1, 500, 599, 600, 65736}}

Retries ==
    {[ranges |-> r, codes |-> {{"internal"}}, maxRetries |-> n, backoff |-> {}, timeout |-> t] :
       r \in {{}, {<< >>}} \cup {{<<x>>} : x \in StatusRanges}
               \cup {{<<[start |-> 1, end |-> 2], x>>} : x \in StatusRanges},
       n \in {0, 65535, 65536}, t \in {{}, {-1}, {5}}}

Durations == {{}, {-1}, {1}}

RuleMsgs ==
    {[RuleMsg({EmptyDist}) EXCEPT !.grpc = g, !.retry = {r}, !.matches = m] :
       g \in BOOLEAN, r \in Retries, m \in {"valid", "malformed"}}
    \cup {[RuleMsg({EmptyDist}) EXCEPT !.timeouts = t, !.legacy = l] :
            l \in {{}, {-1}, {7}},
            t \in {{}} \cup {{x} : x \in [response : Durations, idle : Durations, request : Durations]}}

-----------------------------------------------------------------------------
(* Server policies, and the clients they are for. *)

IdNames == {<< >>, <<"x", "ns", "l5d">>, <<"ns", "l5d">>}

MsgClients ==
    {c \in [addr : {"localhost", "in", "out"}, tls : BOOLEAN, id : IdNames] : ~c.tls => c.id = << >>}

NetsOk == <<[net |-> {{"in", "out"}}, except |-> <<{"out"}>>]>>

NetLists ==
    { << >>, NetsOk, <<[net |-> {}, except |-> << >>]>>, <<[net |-> {{"malformed"}}, except |-> << >>]>>,
      <<[net |-> {{"in", "out"}}, except |-> <<{"malformed"}>>]>> }

TlsAuthn == {[kind |-> "tls"]}

Authns ==
    {{}, {[kind |-> "unauthenticated"]}, TlsAuthn}
    \cup {{[kind |-> "identities", identities |-> i, suffixes |-> s]} :
            i \in {{}, {<<"ns", "l5d">>}}, s \in {{}, {<<"ns", "l5d">>}, {<< >>}}}

AuthzMsg(nets, authn) == [nets |-> nets, authn |-> authn, meta |-> MetaOk, labels |-> {}]

AuthzMsgs ==
    {AuthzMsg(NetsOk, a) : a \in Authns} \cup {AuthzMsg(n, TlsAuthn) : n \in NetLists}
    \cup {[AuthzMsg(NetsOk, TlsAuthn) EXCEPT !.meta = m, !.labels = l] :
            m, l \in {{}, MetaOk, {[kind |-> "unset", named |-> TRUE, port |-> 0]}}}

FewAuthzs ==
    {<< >>} \cup
    {<<a>> : a \in { AuthzMsg(NetsOk, TlsAuthn),
                     AuthzMsg(NetsOk, {[kind |-> "identities", identities |-> {}, suffixes |-> {<<"ns", "l5d">>}]}),
                     AuthzMsg(<<[net |-> {{"out"}}, except |-> << >>]>>, {[kind |-> "unauthenticated"]}) }}

ServerRoute(authzs, filters) ==
    [hosts |-> "valid", authzs |-> authzs, meta |-> MetaOk, rules |-> <<[filters |-> filters]>>]

RateLimit == [meta |-> {}, total |-> {0}, identity |-> {1}, override |-> {1}, clients |-> {"id"}]

ServerMsg(kind, labels, timeout, limit, authzs, rts) ==
    [kind |-> kind, labels |-> labels, timeout |-> timeout, limit |-> limit, authzs |-> authzs, routes |-> rts]

ServerMsgs ==
    {ServerMsg(k, MetaOk, {10}, {RateLimit}, <<a>>, << >>) :
       k \in {"unset", "detect", "http1", "grpc", "tls", "opaque"}, a \in AuthzMsgs}
    \cup {ServerMsg(k, l, t, {}, a, << >>) :
            k \in {"detect", "tls"}, l \in {{}, MetaOk}, t \in {{}, {-1}, {10}}, a \in FewAuthzs}
    \cup {ServerMsg(k, MetaOk, {10}, {}, a, rts) :
            k \in {"detect", "http2", "grpc"}, a \in FewAuthzs,
            rts \in {<<ServerRoute(b, fs)>> :
                          b \in FewAuthzs, fs \in {<< >>, <<"redirect">>, <<"unset">>, <<"malformed">>,
                                                   <<"redirect", "unset">>}}
                       \cup {<<ServerRoute(b, << >>), ServerRoute(c, << >>)>> : b, c \in FewAuthzs}
                       \cup {<<[ServerRoute(b, << >>) EXCEPT !.meta = {}]>> : b \in FewAuthzs}
                       \cup {<<[ServerRoute(b, << >>) EXCEPT !.hosts = "malformed"]>> : b \in FewAuthzs}}

-----------------------------------------------------------------------------
(* Profiles. *)

ReqLeaves == {<<"path", "p">>, <<"path", "malformed">>, <<"method", "GET">>, <<"unset">>}

Conditions ==
    ReqLeaves \cup {<<"not", l>> : l \in ReqLeaves}
    \cup {<<op, <<a, b>>>> : op \in {"all", "any"}, a, b \in ReqLeaves}
    \cup {<<"all", << >>>>, <<"not", <<"any", <<<<"path", "p">>>>>>>>}

StatusIn(a, b) == <<"status", [min |-> a, max |-> b]>>

RspLeaves == {StatusIn(500, 599), StatusIn(0, 599), StatusIn(65536 + 200, 299), <<"unset">>}

RspMatches ==
    RspLeaves \cup {<<"not", l>> : l \in RspLeaves} \cup {<<"all", << >>>>}
    \cup {<<op, <<a, b>>>> : op \in {"all", "any"}, a, b \in RspLeaves}

ProfileRoute(condition, classes, retryable, timeout) ==
    [condition |-> condition, classes |-> classes, retryable |-> retryable, timeout |-> timeout]

ProfileMsg(rts, budget) == [routes |-> rts, budget |-> budget]

Budget(ratio, ttl) == {[minRetries |-> 10, ratio |-> ratio, ttl |-> ttl]}

TwoRoutes(condition) ==
    ProfileMsg(<<ProfileRoute(condition, << >>, FALSE, {}),
                 ProfileRoute(<<"method", "GET">>, << >>, FALSE, {})>>, {})

ProfileMsgs ==
    {TwoRoutes(c) : c \in Conditions}
    \cup {ProfileMsg(<<ProfileRoute(<<"path", "p">>, <<[failure |-> TRUE, match |-> m],
                                     [failure |-> FALSE, match |-> StatusIn(200, 299)]>>, FALSE, {-1})>>, {}) :
            m \in RspMatches}
    \cup {ProfileMsg(<<ProfileRoute(<<"path", "p">>, << >>, x, {5})>>, b) :
            x \in BOOLEAN, b \in {{}, Budget(20, 1000), Budget(20, 999), Budget(100001, 1000)}}

LaterProfiles == {TwoRoutes(<<"path", "p">>), TwoRoutes(<<"not", <<"path", "p">>>>), ProfileMsg(<< >>, {})}

-----------------------------------------------------------------------------
D == INSTANCE OutboundDiscover
        WITH Conns <- {"c1"}, Profiles <- MCProfiles, MaxUpdates <- 2, MaxStacks <- 1,
             policy <- clientPolicy, conn <- target
M0 == INSTANCE RouteMatch
        WITH HostLists <- {}, MatchLists <- << >>, Requests <- {}, MaxRoutes <- 0, MaxRules <- 0
M == INSTANCE RouteMatch
        WITH HostLists <- MCHostLists(M0!ParseHost), MatchLists <- MCMatchLists(M0!None),
             Requests <- MCRequests, MaxRoutes <- 2, MaxRules <- 3
R == INSTANCE OutboundRoutes
        WITH Clients <- {"c1"}, Inputs <- {"x", "y"}, Updates <- MCUpdates, MaxUpdates <- 2,
             NoInput <- "none", history <- updates, seen <- lastSeen
IO == INSTANCE DmaIo
        WITH RxLen <- 3, TxLen <- 5, RingSize <- 1, Align <- 2, MaxChunk <- 4, MaxRx <- 4, MaxTx <- 6,
             BufSizes <- {2, 4}, conn <- dma, pc <- driver
S == INSTANCE DmaSlots
        WITH Workers <- {1}, Slots <- {1}, Addrs <- {"a"}, MaxConns <- 3, NoAddr <- "none",
             seen <- published
DR == INSTANCE DmaRouter
        WITH Requests <- {"r1", "r2"}, Channels <- {1, 2}, Keys <- {"a", "b"}, NoKey <- "none",
             Turns <- 2, route <- keyOf
PM == INSTANCE PolicyMessages
        WITH Clients <- MsgClients, Policies <- PolicyMsgs, Accruals <- AccrualMsgs, Rules <- RuleMsgs,
             Servers <- ServerMsgs
SP == INSTANCE ServiceProfiles
        WITH Messages <- ProfileMsgs, Updates <- LaterProfiles,
             Requests <- [path : {"p", "q"}, method : {"GET", "PUT"}], Statuses <- {200, 404, 500},
             MaxUpdates <- 1

\* A machine that does not run starts in one of its initial states.
ServicesInit ==
    /\ part \in Parts
    /\ Init
    /\ part # "InboundPolicy" => net = [c \in Conns |-> near] /\ history = <<AllowAll>> /\ watched
    /\ D!DiscoverInit
    /\ part # "OutboundDiscover" =>
         mode = "sidecar" /\ clientPolicy.proto = "detect" /\ profile.v = MkProfile(TRUE, FALSE, FALSE, FALSE)
    /\ M!MatchInit
    /\ part # "RouteMatch" => protocol = "http"
    /\ R!RoutesInit
    /\ part # "OutboundRoutes" => updates[1].kind = "endpoint"
    /\ IO!IoInit
    /\ S!SlotInit
    /\ part # "DmaSlots" => \A c \in DOMAIN flow : flow[c] = [dst |-> "a", backend |-> TRUE]
    /\ DR!RouterInit
    /\ serves[1] = "a" /\ default # "a" /\ keyOf["r1"] = "a" /\ keyOf["r2"] = serves[2]
    /\ part # "DmaRouter" => default = "b" /\ serves[2] = "a" /\ \A r \in DOMAIN keyOf : keyOf[r] = "a"
    /\ PM!MessageInit /\ SP!ProfileInit
    /\ part # "ServiceProfiles" => sent = <<TwoRoutes(<<"path", "p">>)>>

ServicesNext ==
    /\ UNCHANGED part
    /\ IF part = "InboundPolicy" THEN Next ELSE UNCHANGED vars
    /\ IF part = "OutboundDiscover" THEN D!DiscoverNext ELSE UNCHANGED discoVars
    /\ IF part = "RouteMatch" THEN M!MatchNext ELSE UNCHANGED matchVars
    /\ IF part = "OutboundRoutes" THEN R!RoutesNext ELSE UNCHANGED routesVars
    /\ IF part = "DmaIo" THEN IO!IoNext ELSE UNCHANGED ioVars
    /\ IF part = "DmaSlots" THEN S!SlotNext ELSE UNCHANGED slotVars
    /\ IF part = "DmaRouter" THEN DR!RouterNext ELSE UNCHANGED routerVars
    /\ IF part = "PolicyMessages" THEN PM!MessageNext ELSE UNCHANGED messageVars
    /\ IF part = "ServiceProfiles" THEN SP!ProfileNext ELSE UNCHANGED profileVars

ServicesSpec == ServicesInit /\ [][ServicesNext]_allVars

-----------------------------------------------------------------------------
(* Properties; each is defined, with its reason, in the machine's module.  *)

\* The matchers, the search for the best route and redirects compute what their
\* declarative definitions say (RouteMatch).
RoutesExact == part = "RouteMatch" => M!RoutesExact

\* A connection is served by routes of what it speaks, and they follow the profile
\* or the policy (OutboundDiscover).  A request goes to an eligible backend of the
\* rule it matches, or fails as the rule says; backends are shared by the routers
\* that name them (OutboundRoutes).
OutboundSafe ==
    /\ part = "OutboundDiscover" => D!RoutesFollow
    /\ part = "OutboundRoutes" => R!OutboundRoutesSafe

\* What the two sides of a DMA connection read is what the other wrote, no region
\* is used after it is freed, and no waker is lost (DmaIo).  A request that waits
\* for a backend does not miss its registration, backends take turns, and dead ones
\* leave (DmaRouter).  A dead channel leaves the registry, only dead ones are
\* evicted, and a channel is handed out once (DmaSlots).
DmaExact ==
    /\ []/\ part = "DmaIo" => IO!ReadsExact /\ IO!WritesExact /\ IO!NoUseAfterFree /\ IO!WakersKept
         /\ part = "DmaRouter" => DR!RegistrationNotMissed /\ DR!InTurn /\ DR!DeadUnregister
         /\ part = "DmaSlots" => S!DeadChannelsLeave /\ S!EvictsOnlyDead
    /\ S!HandedOutOnce

\* What is accepted of the control plane's messages can be used and says what they
\* say: a client policy has the backends its routes name, a failure accrual and a
\* rule run, and a server policy permits those that the message grants access, the
\* pod itself and nobody else (PolicyMessages); a request takes the route of the profile, responses
\* are classed as it says, and retries are bounded (ServiceProfiles).
MessagesUsable ==
    /\ part = "PolicyMessages" => PM!BackendsComplete /\ PM!AccrualRuns /\ PM!RuleFaithful /\ PM!ServerExact
    /\ part = "ServiceProfiles" => SP!RoutedByProfile /\ SP!ClassesFaithful /\ SP!RetriesBounded
=============================================================================
