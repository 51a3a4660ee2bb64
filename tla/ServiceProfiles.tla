---------------------------- MODULE ServiceProfiles ----------------------------
(***************************************************************************)
(* Service profiles: the conversion of the profiles that the control plane *)
(* sends, and the router that wraps a service in the route of each request *)
(* while profiles come and go.  Malformed parts of a profile are dropped   *)
(* one by one, never the whole profile.                                    *)
(*                                                                         *)
(* A matcher is a tree, <<op, children>> or <<leaf, value>>; a route is    *)
(* identified by the message it came with and its place there, because     *)
(* routes are compared by the addresses of their parts.                    *)
(***************************************************************************)
EXTENDS Integers, Sequences, SequencesExt

CONSTANTS
    Messages,    \* profiles that may be received first: sequences of routes
    Updates,     \* profiles that may follow
    Requests,    \* [path, method] of the requests
    Statuses,    \* status codes of responses
    MaxUpdates   \* bound: profiles received after the first

VARIABLES
    sent,      \* the messages received so far; the last one is in the watch
    open,      \* whether the sender of the watch is alive
    yielded,   \* number of the message that the router's stream last yielded
    table,     \* ProxyRouter::http_routes
    proxies,   \* ProxyRouter::proxies, by route
    ready,     \* whether poll_ready has returned ready since the last call
    called     \* the last request: what it was and the route it took

profileVars == <<sent, open, yielded, table, proxies, ready, called>>

-----------------------------------------------------------------------------
(* Conversion                                                              *)

MaxStatus == 999

\* as u16
Truncate(n) == n % 65536

ValidStatus(n) == Truncate(n) \in 100..MaxStatus

\* convert_req_match: the matchers that cannot be converted are left out of
\* all and any, which may become empty; {} is a matcher that is dropped.
RECURSIVE ConvertReqMatch(_)
ConvertReqMatch(m) ==
    CASE m[1] \in {"all", "any"} ->
           {<<m[1], [i \in DOMAIN kept |-> CHOOSE x \in ConvertReqMatch(kept[i]) : TRUE]>> :
               kept \in {SelectSeq(m[2], LAMBDA c : ConvertReqMatch(c) # {})}}
      [] m[1] = "not" -> {<<"not", x>> : x \in ConvertReqMatch(m[2])}
      [] m[1] \in {"path", "method"} -> {m} \ {<<m[1], "malformed">>}
      [] m[1] = "unset" -> {}

RECURSIVE IsMatch(_, _)
IsMatch(m, req) ==
    CASE m[1] = "all" -> \A i \in DOMAIN m[2] : IsMatch(m[2][i], req)
      [] m[1] = "any" -> \E i \in DOMAIN m[2] : IsMatch(m[2][i], req)
      [] m[1] = "not" -> ~IsMatch(m[2], req)
      [] m[1] = "path" -> m[2] = req.path
      [] m[1] = "method" -> m[2] = req.method

\* convert_rsp_match: an all or any that would become empty is dropped instead.
RECURSIVE ConvertRspMatch(_)
ConvertRspMatch(m) ==
    CASE m[1] \in {"all", "any"} ->
           {<<m[1], [i \in DOMAIN kept |-> CHOOSE x \in ConvertRspMatch(kept[i]) : TRUE]>> :
               kept \in {SelectSeq(m[2], LAMBDA c : ConvertRspMatch(c) # {})} \ {<<>>}}
      [] m[1] = "not" -> {<<"not", x>> : x \in ConvertRspMatch(m[2])}
      [] m[1] = "status" ->
           IF ValidStatus(m[2].min) /\ ValidStatus(m[2].max)
           THEN {<<"status", [min |-> Truncate(m[2].min), max |-> Truncate(m[2].max)]>>}
           ELSE {}
      [] m[1] = "unset" -> {}

RECURSIVE IsRspMatch(_, _)
IsRspMatch(m, status) ==
    CASE m[1] = "all" -> \A i \in DOMAIN m[2] : IsRspMatch(m[2][i], status)
      [] m[1] = "any" -> \E i \in DOMAIN m[2] : IsRspMatch(m[2][i], status)
      [] m[1] = "not" -> ~IsRspMatch(m[2], status)
      [] m[1] = "status" -> m[2].min <= status /\ status <= m[2].max

ConvertRspClasses(cs) ==
    FoldLeft(LAMBDA acc, c : acc \o SetToSeq({[failure |-> c.failure, match |-> x] : x \in ConvertRspMatch(c.match)}),
            <<>>, cs)

\* convert_retry_budget: retries per second, ratio in percent, ttl in milliseconds.
ConvertRetryBudget(b) ==
    {x \in b : /\ x.minRetries <= 2147483647
               /\ x.ratio \in 0..100000
               /\ x.ttl \in 1000..60000}

\* set_route_timeout ignores a negative duration.
Timeout(t) == {d \in t : d >= 0}

\* convert_route, for the i-th route of the n-th message.
ConvertRoute(r, budget, n, i) ==
    {[match |-> m,
      route |-> [id |-> <<n, i>>, classes |-> ConvertRspClasses(r.classes), timeout |-> Timeout(r.timeout),
                 retries |-> IF r.retryable THEN ConvertRetryBudget(budget) ELSE {}]] :
        m \in ConvertReqMatch(r.condition)}

\* convert_profile: the http_routes of the n-th message.
ConvertProfile(n) ==
    LET msg == sent[n]
        entry(i) == ConvertRoute(msg.routes[i], msg.budget, n, i)
        kept == SelectSeq([i \in DOMAIN msg.routes |-> i], LAMBDA i : entry(i) # {})
    IN [k \in DOMAIN kept |-> CHOOSE e \in entry(kept[k]) : TRUE]

RoutesOf(t) == {t[i].route : i \in DOMAIN t}

-----------------------------------------------------------------------------
(* The watch and the router                                                *)

NoCall == [request |-> {}, route |-> {}]

ProfileInit ==
    /\ \E m \in Messages : sent = <<m>>
    /\ open = TRUE
    /\ yielded = 0
    /\ table = <<>>
    /\ proxies = {}
    /\ ready = FALSE
    /\ called = NoCall

\* The client receives a profile and publishes it.
Update ==
    /\ open
    /\ Len(sent) <= MaxUpdates
    /\ \E m \in Updates : sent' = Append(sent, m)
    /\ UNCHANGED <<open, yielded, table, proxies, ready, called>>

\* The stream of profiles ends; its last value stays.
Close ==
    /\ open
    /\ open' = FALSE
    /\ UNCHANGED <<sent, yielded, table, proxies, ready, called>>

\* Routes that are gone lose their proxies, new ones get theirs.
Rebuild(routes) == (proxies \cap routes) \cup routes

\* ProxyRouter::poll_ready, once the inner service is ready.  The stream yields the
\* first value and then every value that is new since.
PollReady ==
    /\ ~ready
    /\ ready' = TRUE
    /\ IF yielded < Len(sent)
       THEN /\ yielded' = Len(sent)
            /\ table' = ConvertProfile(Len(sent))
            /\ proxies' = Rebuild(RoutesOf(table'))
       ELSE UNCHANGED <<yielded, table, proxies>>
    /\ UNCHANGED <<sent, open, called>>

\* route_for_request: the route of the first match.
RouteForRequest(req) ==
    LET hits == {i \in DOMAIN table : IsMatch(table[i].match, req)}
    IN IF hits = {} THEN {} ELSE {table[CHOOSE i \in hits : \A j \in hits : i <= j].route}

\* ProxyRouter::call; requests that no route matches go to the inner service.
Call ==
    /\ ready
    /\ ready' = FALSE
    /\ \E req \in Requests : called' = [request |-> {req}, route |-> RouteForRequest(req)]
    /\ UNCHANGED <<sent, open, yielded, table, proxies>>

ProfileNext == Update \/ Close \/ PollReady \/ Call

ProfileSpec == ProfileInit /\ [][ProfileNext]_profileVars

-----------------------------------------------------------------------------
(* Properties                                                              *)

RECURSIVE WellFormed(_)
WellFormed(m) ==
    CASE m[1] \in {"all", "any"} -> \A i \in DOMAIN m[2] : WellFormed(m[2][i])
      [] m[1] = "not" -> WellFormed(m[2])
      [] m[1] = "status" -> {m[2].min, m[2].max} \subseteq 100..MaxStatus
      [] m[1] = "unset" -> FALSE
      [] OTHER -> m[2] # "malformed"

\* A leaf of a response matcher that can be converted.
RECURSIVE SomeLeaf(_)
SomeLeaf(m) ==
    CASE m[1] \in {"all", "any"} -> \E i \in DOMAIN m[2] : SomeLeaf(m[2][i])
      [] m[1] = "not" -> SomeLeaf(m[2])
      [] m[1] = "status" -> ValidStatus(m[2].min) /\ ValidStatus(m[2].max)
      [] m[1] = "unset" -> FALSE

\* A request takes the first route whose condition, as the message states it, holds,
\* among the routes of the profile that its router saw last, when that profile is well
\* formed.  The route has its proxy, `expect("route must exist")`, however profiles
\* follow each other, and they are those of the last profile seen and no others.
RoutedByProfile ==
    /\ \A req \in called.request : \A r \in called.route :
          LET routes == sent[r.id[1]].routes IN
          (\A i \in DOMAIN routes : WellFormed(routes[i].condition)) =>
              /\ IsMatch(routes[r.id[2]].condition, req)
              /\ \A j \in 1..(r.id[2] - 1) : ~IsMatch(routes[j].condition, req)
    /\ proxies = RoutesOf(table)
    /\ \A r \in proxies : r.id[1] = yielded

\* Response classes come from a status range of the message: malformed ranges never
\* add up to a class that matches every response, and well-formed ones classify each
\* status as the message says.
ClassesFaithful ==
    \A i \in DOMAIN table :
        LET r == table[i].route
            classes == sent[r.id[1]].routes[r.id[2]].classes
        IN /\ Len(r.classes) <= Cardinality({k \in DOMAIN classes : SomeLeaf(classes[k].match)})
           /\ (\A k \in DOMAIN classes : WellFormed(classes[k].match) /\ SomeLeaf(classes[k].match)) =>
                 \A k \in DOMAIN classes : \A s \in Statuses :
                    IsRspMatch(classes[k].match, s) <=> IsRspMatch(r.classes[k].match, s)

\* Retries happen only on routes that ask for them, within a budget that is bounded.
RetriesBounded ==
    \A r \in proxies : \A b \in r.retries :
        /\ sent[r.id[1]].routes[r.id[2]].retryable
        /\ b.ratio <= 100000 /\ b.ttl >= 1000 /\ b.ttl <= 60000
=============================================================================
