--------------------------- MODULE OutboundRoutes ---------------------------
(***************************************************************************)
(* How the outbound proxy turns the routes it discovers into the backend   *)
(* that serves a request: `SpawnWatch` rebuilds a router whenever the      *)
(* routes change, the routers of one target share their backends through   *)
(* `NewBackendCache`, and every connection holds its own clone of the      *)
(* router, selects a route per request, applies the route's filters, sheds *)
(* load when no backend is ready and otherwise distributes the request.    *)
(*                                                                         *)
(* The four families of routers (client policy, service profile, opaque    *)
(* and TLS) differ in how they are built and in how a route is selected;   *)
(* the machine below is the same for all of them.  A behaviour follows one *)
(* target of one family.                                                   *)
(***************************************************************************)
EXTENDS Integers, Sequences, FiniteSets, SequencesExt, FiniteSetsExt

CONSTANTS
    Clients,     \* connections that hold a clone of the target's stack
    Inputs,      \* classes of requests (or of SNIs) routes tell apart
    Updates,     \* Updates[f]: the routes discovery may yield for family f
    MaxUpdates,  \* bound on the updates after the initial one
    NoInput      \* not an input: no call was made yet

VARIABLES
    history,  \* the routes the watch held, oldest first
    closed,   \* whether the sender of the routes is gone
    task,     \* the task of SpawnWatch: runs, returned, or panicked
    seen,     \* the update the task last saw
    built,    \* the routers the task sent, oldest first
    cache,    \* cache[k]: the backends NewBackendCache holds for kind k
    avail,    \* names of the backends whose service is ready
    client,   \* the connections
    outcome   \* what each connection's last call came to, until it is polled

routesVars == <<history, closed, task, seen, built, cache, avail, client, outcome>>

---------------------------------------------------------------------------
(* Routers.  Discovered routes name backends by specs [name, kind, load];  *)
(* a router names them by `Concrete` targets, the keys of the cache.       *)

RouteKinds == {"http", "grpc", "profile", "endpoint", "opaq", "tls"}

(* mk_concrete and mk_dispatch of the policy router: the failure accrual   *)
(* is part of the target, and every failing dispatcher is the same target. *)
HttpConcrete(rts, b) ==
    [name     |-> IF b.kind = "fail" THEN "fail" ELSE b.name,
     dispatch |-> b.kind, load |-> b.load, accrual |-> rts.accrual]

(* Without HTTP classification only the round-trip time is balanced on.    *)
RttOnly(b) ==
    [name     |-> IF b.kind = "fail" THEN "fail" ELSE b.name,
     dispatch |-> b.kind,
     load     |-> IF b.load = "penalty" THEN "ewma" ELSE b.load,
     accrual  |-> "none"]

OpaqConcrete(b) == RttOnly(b)

TlsConcrete(b) == RttOnly(b)

ProfileConcrete(addr) ==
    [name |-> addr, dispatch |-> "balance", load |-> "ewma", accrual |-> "none"]

Weights(backs) == {backs[j].weight : j \in DOMAIN backs}

(* Distribution::first_available and random_available. *)
MkDistribution(how, backs) ==
    CASE how = "empty" \/ backs = <<>>             -> [how |-> "empty", backs |-> <<>>]
      [] how = "first" \/ Len(backs) < 2           -> [how |-> "first", backs |-> backs]
      [] how = "random" /\ Weights(backs) = {0}    -> [how |-> "invalid", backs |-> backs]
      [] OTHER                                     -> [how |-> "random", backs |-> backs]

Targets(rule, concrete(_)) == [j \in DOMAIN rule.backs |-> concrete(rule.backs[j].spec)]

MkRoute(rule, targets) ==
    [filter |-> rule.filter,
     dist   |-> MkDistribution(rule.how,
                  [j \in DOMAIN rule.backs |->
                     [target |-> targets[j],
                      weight |-> rule.backs[j].weight,
                      filter |-> rule.backs[j].filter]])]

(* From<(HttpParams | GrpcParams, T)> for Router *)
PolicyRouter(rts) ==
    LET concrete(b) == HttpConcrete(rts, b)
    IN  [kind     |-> rts.kind,
         routes   |-> [k \in DOMAIN rts.rules |-> MkRoute(rts.rules[k], Targets(rts.rules[k], concrete))],
         table    |-> rts.table,
         backends |-> {concrete(b) : b \in rts.backends}]

OpaqRouter(rts) ==
    [kind     |-> rts.kind,
     routes   |-> [k \in DOMAIN rts.rules |-> MkRoute(rts.rules[k], Targets(rts.rules[k], OpaqConcrete))],
     table    |-> [i \in Inputs |-> Len(rts.rules)],
     backends |-> {OpaqConcrete(b) : b \in rts.backends}]

TlsRouter(rts) ==
    [kind     |-> rts.kind,
     routes   |-> [k \in DOMAIN rts.rules |-> MkRoute(rts.rules[k], Targets(rts.rules[k], TlsConcrete))],
     table    |-> rts.table,
     backends |-> {TlsConcrete(b) : b \in rts.backends}]

(* A profile's targets serve every route of it and a default route that is *)
(* added after them; without targets the profile's own address does.       *)
ProfileRouter(rts) ==
    LET named == IF rts.targets = <<>> THEN <<[addr |-> rts.addr, weight |-> 1]>>
                 ELSE rts.targets
        dist  == MkDistribution(IF rts.targets = <<>> THEN "first" ELSE "random",
                   [j \in DOMAIN named |->
                      [target |-> ProfileConcrete(named[j].addr),
                       weight |-> named[j].weight, filter |-> "none"]])
        all   == Append(rts.rules, Inputs)
    IN  [kind     |-> rts.kind,
         routes   |-> [k \in DOMAIN all |-> [filter |-> "none", dist |-> dist]],
         table    |-> [i \in Inputs |-> Min({k \in DOMAIN all : i \in all[k]})],
         backends |-> {ProfileConcrete(named[j].addr) : j \in DOMAIN named}]

(* An endpoint needs no router: its stack is the concrete stack. *)
EndpointParams(rts) ==
    LET target == [name |-> rts.addr, dispatch |-> "forward", load |-> "none", accrual |-> "none"]
    IN  [kind     |-> "endpoint",
         routes   |-> <<[filter |-> "none",
                         dist   |-> MkDistribution("first",
                                      <<[target |-> target, weight |-> 1, filter |-> "none"]>>)]>>,
         table    |-> [i \in Inputs |-> 1],
         backends |-> {target}]

(* From<(Routes, T)> for RouterParams *)
RouterParams(rts) ==
    CASE rts.kind \in {"http", "grpc"} -> PolicyRouter(rts)
      [] rts.kind = "profile"          -> ProfileRouter(rts)
      [] rts.kind = "opaq"             -> OpaqRouter(rts)
      [] rts.kind = "tls"              -> TlsRouter(rts)
      [] rts.kind = "endpoint"         -> EndpointParams(rts)

(* The `expect`s a router is built with. *)
BuildPanics(router) ==
    \E k \in DOMAIN router.routes : router.routes[k].dist.how = "invalid"

---------------------------------------------------------------------------
(* The backends of a target.  A service is identified by the update it was *)
(* built for.  HTTP and gRPC routers are separate stacks, each with its    *)
(* own cache.                                                              *)

NewBackends(held, router, v) ==
    [t \in router.backends |-> IF t \in DOMAIN held THEN held[t] ELSE v]

NewRouter(rts, v) ==
    LET router == RouterParams(rts)
    IN  [kind |-> router.kind, version |-> v, router |-> router,
         services |-> NewBackends(cache[router.kind], router, v)]

NoMemo == [key |-> 0, ready |-> 0]

(* A clone of the stack the target's cache holds.  That stack is never     *)
(* polled itself, so its clones start with the first router.               *)
Clone == [pc |-> "idle", at |-> 1, floor |-> 1, memo |-> NoMemo]

NoOutcome == [input |-> NoInput, floor |-> 1, held |-> 0, result |-> "none",
              target |-> [name |-> "none"], service |-> 0, ready |-> {}]

RoutesInit ==
    /\ \E f \in DOMAIN Updates : \E rts \in Updates[f] :
          /\ ~BuildPanics(RouterParams(rts))
          /\ history = <<rts>>
          /\ cache = [k \in RouteKinds |-> IF k = rts.kind
                                      THEN [t \in RouterParams(rts).backends |-> 1] ELSE <<>>]
          /\ built = <<[kind |-> rts.kind, version |-> 1, router |-> RouterParams(rts),
                        services |-> [t \in RouterParams(rts).backends |-> 1]]>>
    /\ closed = FALSE
    /\ task = "runs"
    /\ seen = 1
    /\ avail = {}
    /\ client = [c \in Clients |-> Clone]
    /\ outcome = [c \in Clients |-> NoOutcome]

---------------------------------------------------------------------------
(* Discovery *)

Family == CHOOSE f \in DOMAIN Updates : history[1] \in Updates[f]

Publish(rts) ==
    /\ ~closed
    /\ Len(history) <= MaxUpdates
    /\ history' = Append(history, rts)
    /\ UNCHANGED <<closed, task, seen, built, cache, avail, client, outcome>>

Close ==
    /\ ~closed
    /\ closed' = TRUE
    /\ UNCHANGED <<history, task, seen, built, cache, avail, client, outcome>>

(* The task of SpawnWatch: an update it has not seen is reported before    *)
(* the end of the watch; intermediate updates are skipped.                 *)
Rebuild ==
    /\ task = "runs"
    /\ seen < Len(history)
    /\ seen' = Len(history)
    /\ LET next == NewRouter(Last(history), Len(history))
       IN  IF BuildPanics(next.router)
           THEN /\ task' = "panicked"
                /\ UNCHANGED <<built, cache>>
           ELSE /\ cache' = [cache EXCEPT ![next.kind] = next.services]
                /\ built' = Append(built, next)
                /\ UNCHANGED task
    /\ UNCHANGED <<history, closed, avail, client, outcome>>

TaskReturns ==
    /\ task = "runs"
    /\ closed
    /\ seen = Len(history)
    /\ task' = "returned"
    /\ UNCHANGED <<history, closed, seen, built, cache, avail, client, outcome>>

(* The queue before a backend becomes ready or not. *)
Named == UNION {{t.name : t \in built[n].router.backends} : n \in DOMAIN built}

Availability(name) ==
    /\ avail' = IF name \in avail THEN avail \ {name} ELSE avail \cup {name}
    /\ UNCHANGED <<history, closed, task, seen, built, cache, client, outcome>>

---------------------------------------------------------------------------
(* A connection *)

(* Failing dispatchers and endpoints' stacks that answer by themselves are *)
(* always ready. *)
Ready(target) == target.dispatch = "fail" \/ target.name \in avail

(* Selection::poll_ready: the backends a poll may settle on, 0 for none.   *)
PollRandom(dist, free) == {j \in free : dist.backs[j].weight > 0}

PollFirst(free) == {j \in free : \A k \in free : j <= k}

PollDistribution(dist, held) ==
    LET free == {j \in DOMAIN dist.backs : Ready(dist.backs[j].target)}
        some == IF dist.how = "random" THEN PollRandom(dist, free) ELSE PollFirst(free)
    IN  IF held # 0 THEN {held} ELSE IF some = {} THEN {0} ELSE some

(* SpawnWatch::poll_ready that keeps the router it has. *)
(* SpawnWatch::poll_ready.  `has_changed` is an error once the task is     *)
(* gone: what it sent last is then no longer taken up.  A clone of a       *)
(* rebuilt router starts without a memo.  Routers are always ready, an     *)
(* endpoint's queue is not.                                                *)
PollReady(c) ==
    LET last  == Len(built)
        adopt == task = "runs" /\ client[c].at < last
        at    == IF adopt THEN last ELSE client[c].at
    IN  /\ client[c].pc = "idle"
        /\ built[at].kind = "endpoint" =>
              \A t \in built[at].router.backends : Ready(t)
        /\ client' = [client EXCEPT ![c] =
                        [pc |-> "ready", at |-> at,
                         floor |-> IF task = "runs" THEN last ELSE client[c].at,
                         memo |-> IF adopt THEN NoMemo ELSE client[c].memo]]
        /\ outcome' = [outcome EXCEPT ![c] = NoOutcome]
        /\ UNCHANGED <<history, closed, task, seen, built, cache, avail>>

(* Only the client policy's routers memoize the last route's service.      *)
Memoizes(b) == b.kind \in {"http", "grpc"}

(* The memo is used whatever route it was made for. *)
(* The service a route is served by: the memoized one when it was made for *)
(* the selected route, and a fresh clone from the router's cache otherwise.*)
RouteService(c, k) ==
    IF client[c].memo.key = k THEN client[c].memo ELSE [key |-> k, ready |-> 0]

Answer(c, i, held, result, target, service) ==
    outcome' = [outcome EXCEPT ![c] =
                  [input |-> i, floor |-> client[c].floor, held |-> held, result |-> result,
                   target |-> target, service |-> service, ready |-> avail]]

(* OneshotRoute::call and MemoOneshotRoute::call: select the route, poll   *)
(* its service, and call it through its filters, LoadShed and Distribute.  *)
(* A request that a route's filter fails leaves the polled backend         *)
(* reserved in a memoized service.                                         *)
Call(c, i) ==
    LET b == built[client[c].at]
        k == b.router.table[i]
    IN  /\ client[c].pc = "ready"
        /\ UNCHANGED <<history, closed, task, seen, built, cache, avail>>
        /\ IF k = 0
           THEN /\ client' = [client EXCEPT ![c].pc = "idle"]
                /\ Answer(c, i, 0, "no route", [name |-> "none"], 0)
           ELSE LET svc   == RouteService(c, k)
                    route == b.router.routes[svc.key]
                IN  \E j \in PollDistribution(route.dist, svc.ready) :
                      LET keeps == IF route.filter = "fail" THEN j ELSE 0
                          memo  == IF Memoizes(b) THEN [key |-> svc.key, ready |-> keeps] ELSE NoMemo
                          to    == IF j = 0 THEN [name |-> "none"] ELSE route.dist.backs[j].target
                          id    == IF j = 0 THEN 0 ELSE b.services[to]
                      IN  /\ client' = [client EXCEPT ![c].pc = "idle", ![c].memo = memo]
                          /\ CASE route.filter = "fail" ->
                                    Answer(c, i, svc.ready, "filtered", [name |-> "none"], 0)
                               [] route.filter # "fail" /\ j = 0 ->
                                    Answer(c, i, svc.ready, "shed", to, 0)
                               [] route.filter # "fail" /\ j # 0 ->
                                    Answer(c, i, svc.ready,
                                           CASE route.dist.backs[j].filter = "fail" -> "filtered"
                                             [] OTHER -> IF to.dispatch = "fail" THEN "failed" ELSE "sent",
                                           to, id)

(* The connection ends and another one takes a new clone of the stack.     *)
Reconnect(c) ==
    /\ client[c].pc = "idle"
    /\ client[c] # Clone
    /\ client' = [client EXCEPT ![c] = Clone]
    /\ outcome' = [outcome EXCEPT ![c] = NoOutcome]
    /\ UNCHANGED <<history, closed, task, seen, built, cache, avail>>

RoutesNext ==
    \/ \E rts \in Updates[Family] : Publish(rts)
    \/ Close
    \/ Rebuild
    \/ TaskReturns
    \/ \E name \in Named : Availability(name)
    \/ \E c \in Clients : PollReady(c) \/ Reconnect(c) \/ (\E i \in Inputs : Call(c, i))

RoutesSpec == RoutesInit /\ [][RoutesNext]_routesVars

---------------------------------------------------------------------------
(* What a request may come to, read off the discovered routes themselves.  *)

(* The rules that may serve an input under routes rts. *)
RuleFor(rts, i) ==
    CASE rts.kind \in {"http", "grpc", "tls"} -> rts.table[i]
      [] rts.kind = "opaq"                    -> Len(rts.rules)
      [] OTHER                                -> 1

(* The backends that take traffic: all of a list, or those with a weight.  *)
Eligible(rts, i) ==
    CASE rts.kind = "profile" ->
           IF rts.targets = <<>> THEN {rts.addr}
           ELSE {rts.targets[j].addr : j \in {j \in DOMAIN rts.targets :
                    Len(rts.targets) = 1 \/ rts.targets[j].weight > 0}}
      [] rts.kind = "endpoint" -> {rts.addr}
      [] OTHER ->
           LET rule == rts.rules[RuleFor(rts, i)]
           IN  {IF rule.backs[j].spec.kind = "fail" THEN "fail" ELSE rule.backs[j].spec.name :
                  j \in {j \in DOMAIN rule.backs : \/ rule.how = "first"
                                                   \/ rule.how = "random" /\ Len(rule.backs) = 1
                                                   \/ rule.how = "random" /\ rule.backs[j].weight > 0}}

FailsAll(rts, i) ==
    rts.kind \in {"http", "grpc", "opaq", "tls"} /\ rts.rules[RuleFor(rts, i)].filter = "fail"

(* A request is routed by routes at least as new as the last ones the      *)
(* task had sent when its connection was polled: it reaches only a backend *)
(* those routes give its route and that was ready, or had been reserved by *)
(* the same connection; a failing filter keeps it from every backend; it   *)
(* is shed only when none of its route's backends was ready; and it is     *)
(* left without a route only when the routes have none for it.             *)
RequestsRouted ==
    \A c \in Clients :
      LET o   == outcome[c]
          rts == history[built[o.floor].version]
      IN  o.input # NoInput =>
            /\ o.result = "no route" <=> RuleFor(rts, o.input) = 0
            /\ o.result \in {"sent", "failed"} =>
                  /\ ~FailsAll(rts, o.input)
                  /\ o.target.name \in Eligible(rts, o.input)
                  /\ o.target.name \in o.ready \cup {"fail"} \/ o.held # 0
            /\ RuleFor(rts, o.input) # 0 /\ FailsAll(rts, o.input) => o.result = "filtered"
            /\ o.result = "shed" => Eligible(rts, o.input) \cap (o.ready \cup {"fail"}) = {}

(* While a backend stays in the routes of its kind, every router built for *)
(* that kind shares one service for it: its connections, its load and its  *)
(* circuit breakers survive the update.  A router holds a service for each *)
(* backend of its routes and for no other, so none leaks in the cache.     *)
BackendsShared ==
    /\ \A n \in DOMAIN built :
         /\ DOMAIN built[n].services = built[n].router.backends
         /\ \A k \in DOMAIN built[n].router.routes :
              \A j \in DOMAIN built[n].router.routes[k].dist.backs :
                built[n].router.routes[k].dist.backs[j].target \in built[n].router.backends
    /\ \A m, n \in DOMAIN built :
         (m < n /\ built[m].kind = built[n].kind
            /\ \A l \in (m + 1)..(n - 1) : built[l].kind # built[n].kind)
         => \A t \in built[m].router.backends \cap built[n].router.backends :
              built[m].services[t] = built[n].services[t]

OutboundRoutesSafe == RequestsRouted /\ BackendsShared
=============================================================================
