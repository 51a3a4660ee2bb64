----------------------------- MODULE RouteMatch -----------------------------
(***************************************************************************)
(* Route tables: the matchers of linkerd-http-route (host, path, header,   *)
(* query and RPC), the TLS session matcher of linkerd-tls-route, the       *)
(* search that both share, and the redirect filter that reuses what a      *)
(* match found out.                                                        *)
(*                                                                         *)
(* A table is filled one route and one rule at a time, so that every       *)
(* intermediate table is searched for every request of Requests.  A text   *)
(* (host or path) is the sequence of its characters, because the matchers  *)
(* compare and trim characters while what they promise is about labels     *)
(* and path segments.                                                      *)
(***************************************************************************)
EXTENDS Integers, Sequences, FiniteSets, SequencesExt

CONSTANTS
    HostLists,      \* the host matcher lists a route may have
    MatchLists,     \* by protocol, the request matcher lists a rule may have
    Requests,       \* the requests looked up
    MaxRoutes,      \* bound on the routes of a table
    MaxRules        \* bound on the rules of all routes

VARIABLES
    protocol,       \* what the table matches: "http" or "grpc"
    routes          \* the table: a sequence of [hosts, rules]

None == [kind |-> "none"]

(* Option<T>: the values of a sequence of options that are present.        *)
Present(s) == SelectSeq(s, LAMBDA v : v # None)

-----------------------------------------------------------------------------
(* Texts. *)

Cut(s, n) == SubSeq(s, 1, n)
Drop(s, n) == SubSeq(s, n + 1, Len(s))

TrimEnd(s, c) == Cut(s, Max({0} \cup {i \in DOMAIN s : s[i] # c}))

StripDot(s) == IF IsSuffix(<<".">>, s) THEN Front(s) ELSE s

(* str::split: the pieces between the separators. *)
Split(s, c) ==
    LET ends == SetToSortSeq({i \in DOMAIN s : s[i] = c}, <) \o <<Len(s) + 1>>
    IN [k \in DOMAIN ends |-> SubSeq(s, (IF k = 1 THEN 0 ELSE ends[k - 1]) + 1, ends[k] - 1)]

-----------------------------------------------------------------------------
(* Hosts and server names.  MatchHost::summarize_match and                 *)
(* MatchSni::summarize_match are the same function of the name; a request  *)
(* without an authority has the empty host.                                *)

(* One turn of the loop over the reversed labels: strip the label, then a  *)
(* dot, from what is left of the host.                                     *)
StripLabel(acc, label) ==
    IF acc = None \/ ~IsSuffix(<<".">> \o label, acc.left) THEN None
    ELSE [kind |-> "suffix", len |-> acc.len + Len(label) + 1,
          left |-> Cut(acc.left, Len(acc.left) - Len(label) - 1)]

MatchHost(m, host) ==
    LET absolute == IF m.kind = "exact" THEN IsSuffix(<<".">>, m.text)
                    ELSE m.labels # <<>> /\ Head(m.labels) = <<>>
        h == IF absolute THEN host ELSE StripDot(host)
        suffix == FoldLeft(StripLabel, [kind |-> "suffix", len |-> 0, left |-> h], m.labels)
    IN CASE host = <<>> -> None
         [] host # <<>> /\ m.kind = "exact" ->
                IF m.text = h THEN [kind |-> "exact", len |-> Len(h)] ELSE None
         [] OTHER -> IF suffix = None THEN None ELSE [kind |-> "suffix", len |-> suffix.len]

(* FromStr: "*.name" is kept as the reversed labels of the name. *)
ParseHost(text) ==
    IF IsPrefix(<<"*", ".">>, text)
    THEN [kind |-> "suffix", labels |-> Reverse(Split(Drop(text, 2), "."))]
    ELSE [kind |-> "exact", text |-> text, labels |-> <<>>]

(* Ord of HostMatch and SniMatch, wrapped in an Option: absent is least.   *)
HostRank(h) == CASE h = None -> <<0, 0>>
                 [] h.kind = "suffix" -> <<1, h.len>>
                 [] h.kind = "exact" -> <<2, h.len>>

-----------------------------------------------------------------------------
(* Requests. *)

MatchPath(m, path) ==
    CASE m.kind = "exact" -> IF m.text = path THEN [kind |-> "exact", len |-> Len(path)] ELSE None
      [] m.kind = "regex" ->
            IF path \in m.language THEN [kind |-> "regex", len |-> Len(path)] ELSE None
      [] m.kind = "prefix" /\ m.text = <<"/">> -> [kind |-> "prefix", len |-> 1]
      [] m.kind = "prefix" /\ m.text # <<"/">> ->
            LET prefix == TrimEnd(m.text, "/")
                trimmed == TrimEnd(path, "/")
                suffix == Drop(trimmed, Len(prefix))
            IN IF IsPrefix(prefix, trimmed) /\ (suffix = <<>> \/ Head(suffix) = "/")
               THEN [kind |-> "prefix", len |-> Len(prefix)]
               ELSE None

(* MatchHeader and MatchQueryParam: any value of the name may match, and a *)
(* regular expression must cover the whole value.                          *)
MatchPair(m, pairs) == \E p \in pairs : p[1] = m.name /\ p[2] \in m.language

DefaultSummary == [path |-> [kind |-> "prefix", len |-> 1], headers |-> 0, query |-> 0, method |-> 0]

MatchRequest(m, req) ==
    LET path == IF m.path = None THEN DefaultSummary.path ELSE MatchPath(m.path, req.path)
    IN IF \/ m.method # "any" /\ m.method # req.method
          \/ path = None
          \/ \E i \in DOMAIN m.headers : ~MatchPair(m.headers[i], req.headers)
          \/ \E i \in DOMAIN m.query : ~MatchPair(m.query[i], req.query)
       THEN None
       ELSE [path |-> path, headers |-> Len(m.headers), query |-> Len(m.query),
             method |-> IF m.method = "any" THEN 0 ELSE 1]

RpcDefault == [path |-> [kind |-> "rpc", service |-> 0, method |-> 0], headers |-> 0]

(* MatchRpc::match_length reads the first two segments of the path. *)
MatchRoute(m, req) ==
    LET parts == Split(req.path, "/")
        unlike(want, n) == want # <<>> /\ want # parts[n]
    IN IF \/ req.method # "POST"
          \/ parts[1] # <<>>
          \/ Len(parts) < 3
          \/ unlike(m.service, 2)
          \/ unlike(m.rpc, 3)
          \/ \E i \in DOMAIN m.headers : ~MatchPair(m.headers[i], req.headers)
       THEN None
       ELSE [path |-> [kind |-> "rpc", service |-> Len(m.service), method |-> Len(m.rpc)],
             headers |-> Len(m.headers)]

(* The two implementations of the Match trait. *)
MatchWith(proto, m, req) == IF proto = "grpc" THEN MatchRoute(m, req) ELSE MatchRequest(m, req)
Default(proto) == IF proto = "grpc" THEN RpcDefault ELSE DefaultSummary

(* Ord of RequestMatch and of the gRPC RouteMatch.  PathMatch compares     *)
(* lengths only: how the path matched plays no part.                       *)
Rank(s) == IF s.path.kind = "rpc" THEN <<s.path.service, s.path.method, s.headers>>
           ELSE <<s.path.len, s.headers, s.query, s.method>>

-----------------------------------------------------------------------------
(* The search. *)

Less(a, b) == \E i \in DOMAIN a : a[i] < b[i] /\ \A j \in 1..(i - 1) : a[j] = b[j]

(* Iterator::max keeps the later of two equals. *)
BestLast(candidates) ==
    FoldLeft(LAMBDA a, b : IF a = None THEN b ELSE IF Less(b.rank, a.rank) THEN a ELSE b,
             None, candidates)

(* `best`: a left reduction that keeps the earlier of two equals. *)
Best(candidates) ==
    FoldLeft(LAMBDA a, b : IF a = None THEN b ELSE IF Less(a.rank, b.rank) THEN b ELSE a,
             None, candidates)

MaxRank(ranks) == CHOOSE r \in ranks : \A s \in ranks : ~Less(r, s)

RuleSummary(proto, rule, req) ==
    LET hits == {MatchWith(proto, rule.matches[i], req) : i \in DOMAIN rule.matches} \ {None}
    IN CASE rule.matches = <<>> -> [kind |-> "some", rank |-> Rank(Default(proto)), summary |-> Default(proto)]
         [] rule.matches # <<>> /\ hits = {} -> None
         [] OTHER -> LET top == MaxRank({Rank(h) : h \in hits})
                     IN [kind |-> "some", rank |-> top,
                         summary |-> CHOOSE h \in hits : Rank(h) = top]

RouteHost(route, req) ==
    LET hits == {MatchHost(route.hosts[i], req.host) : i \in DOMAIN route.hosts} \ {None}
    IN CASE route.hosts = <<>> -> [kind |-> "some", rank |-> HostRank(None)]
         [] route.hosts # <<>> /\ hits = {} -> None
         [] OTHER -> [kind |-> "some", rank |-> MaxRank({HostRank(h) : h \in hits})]

(* find: the best rule of each route that serves the host, then the best   *)
(* of the routes; a policy is named by its route and rule.                 *)
RouteCandidate(proto, table, r, req) ==
    LET host == RouteHost(table[r], req)
        rules == [k \in DOMAIN table[r].rules |->
                      LET s == RuleSummary(proto, table[r].rules[k], req)
                      IN IF s = None THEN None
                         ELSE [kind |-> "rule", rank |-> host.rank \o s.rank,
                               summary |-> s.summary, policy |-> <<r, k>>]]
    IN IF host = None THEN None ELSE Best(Present(rules))

Find(proto, table, req) ==
    Best(Present([r \in DOMAIN table |-> RouteCandidate(proto, table, r, req)]))

-----------------------------------------------------------------------------
(* The redirect filter.  A URI is [scheme, host, port, path]; port 0 means *)
(* that the authority has none.                                            *)

DefaultPort(scheme) == IF scheme = "https" THEN 443 ELSE 80

PortIfNotDefault(scheme, port) == IF port = DefaultPort(scheme) THEN 0 ELSE port

(* RedirectRequest::authority; the empty host is a request without one.    *)
RedirectAuthority(redirect, uri, scheme) ==
    LET a == redirect.authority
    IN CASE a.kind = "exact" -> [kind |-> "some", host |-> a.host, port |-> a.port]
         [] a.kind = "host" ->
                [kind |-> "some", host |-> a.host,
                 port |-> IF uri.port = 0 THEN 0 ELSE PortIfNotDefault(scheme, uri.port)]
         [] a.kind \in {"none", "port"} /\ uri.host = "" -> None
         [] a.kind = "none" /\ uri.host # "" -> [kind |-> "some", host |-> uri.host, port |-> uri.port]
         [] a.kind = "port" /\ uri.host # "" ->
                [kind |-> "some", host |-> uri.host, port |-> PortIfNotDefault(scheme, a.port)]

(* RedirectRequest::path_and_query; the prefix is the one the rule matched. *)
RedirectPath(redirect, uri, path) ==
    CASE redirect.path.kind = "none" -> [kind |-> "some", text |-> uri.path]
      [] redirect.path.kind = "full" -> [kind |-> "some", text |-> redirect.path.text]
      [] redirect.path.kind = "prefix" /\ path.kind = "prefix" /\ path.len <= Len(uri.path) ->
            LET rest == Drop(uri.path, path.len)
                slash == IF rest # <<>> /\ Head(rest) # "/" THEN <<"/">> ELSE <<>>
            IN [kind |-> "some", text |-> redirect.path.text \o slash \o rest]
      [] OTHER -> None

(* RedirectRequest::apply: no redirection to the same location.            *)
Redirect(redirect, uri, path) ==
    LET scheme == CASE redirect.scheme # "" -> redirect.scheme
                    [] redirect.scheme = "" /\ uri.scheme # "" -> uri.scheme
                    [] OTHER -> "http"
        authority == RedirectAuthority(redirect, uri, scheme)
        text == RedirectPath(redirect, uri, path)
        location == [scheme |-> scheme, host |-> authority.host, port |-> authority.port,
                     path |-> text.text]
    IN CASE authority = None \/ text = None -> [kind |-> "invalid"]
         [] authority # None /\ text # None /\ location = uri -> [kind |-> "stay"]
         [] OTHER -> [kind |-> "redirect", location |-> location]

-----------------------------------------------------------------------------
MatchInit == /\ protocol \in DOMAIN MatchLists
        /\ routes = <<>>

RuleCount == FoldLeft(LAMBDA n, r : n + Len(r.rules), 0, routes)

PushRoute(hosts) ==
    /\ Len(routes) < MaxRoutes
    /\ RuleCount < MaxRules
    /\ routes # <<>> => Last(routes).rules # <<>>
    /\ routes' = Append(routes, [hosts |-> hosts, rules |-> <<>>])
    /\ UNCHANGED protocol

PushRule(matches) ==
    /\ routes # <<>>
    /\ RuleCount < MaxRules
    /\ routes' = [routes EXCEPT ![Len(routes)].rules = Append(@, [matches |-> matches])]
    /\ UNCHANGED protocol

(* The table of another destination. *)
Clear == /\ RuleCount = MaxRules
         /\ routes' = <<>>
         /\ protocol' \in DOMAIN MatchLists

MatchNext == \/ \E hosts \in HostLists : PushRoute(hosts)
        \/ \E matches \in MatchLists[protocol] : PushRule(matches)
        \/ Clear

-----------------------------------------------------------------------------
(* What the matchers, the search and the filter promise. *)

(* A suffix matcher covers the names that end in its labels and have at    *)
(* least one label more; a name's trailing dot counts only for a matcher   *)
(* that has one.                                                           *)
HostCovers(m, host) ==
    LET labels == Split(host, ".")
        bare == Split(StripDot(host), ".")
        properSuffix(a, b) == IsSuffix(a, b) /\ Len(a) < Len(b)
    IN host # <<>> /\
       IF m.kind = "exact"
       THEN m.text = host \/ (~IsSuffix(<<".">>, m.text) /\ m.text \o <<".">> = host)
       ELSE LET tail == Reverse(m.labels)
            IN IF tail # <<>> /\ Last(tail) = <<>> THEN properSuffix(tail, labels)
               ELSE tail = <<>> \/ properSuffix(tail, bare)

(* A prefix covers whole path segments. *)
PathCovers(m, path) ==
    LET segments(t) == Split(TrimEnd(t, "/"), "/")
    IN CASE m.kind = "exact" -> path = m.text
         [] m.kind = "regex" -> path \in m.language
         [] m.kind = "prefix" -> IsPrefix(segments(m.text), segments(path))

HostMatchers == UNION {Range(l) : l \in HostLists}
PathMatchers == {m.path : m \in UNION {Range(l) : l \in MatchLists["http"]}} \ {None}

MatchersExact ==
    \A req \in Requests :
        /\ \A m \in HostMatchers : MatchHost(m, req.host) # None <=> HostCovers(m, req.host)
        /\ \A m \in PathMatchers : MatchPath(m, req.path) # None <=> PathCovers(m, req.path)

(* The policies that apply to a request, with the rank of their match: a   *)
(* route whose hosts serve it and a rule of that route that matches it.    *)
Serving(req) == {h \in {[route |-> r, host |-> RouteHost(routes[r], req)] : r \in DOMAIN routes} :
                    h.host # None}

Matching(req, r) ==
    {m \in {[rule |-> k, summary |-> RuleSummary(protocol, routes[r].rules[k], req)] :
                k \in DOMAIN routes[r].rules} :
        m.summary # None}

Applicable(req) ==
    UNION {{[policy |-> <<h.route, m.rule>>, rank |-> h.host.rank \o m.summary.rank] :
               m \in Matching(req, h.route)} : h \in Serving(req)}

(* The search returns a policy that applies to the request, that no other  *)
(* applicable policy outranks, and, of those, the one that comes first in  *)
(* the table; it returns none only when no policy applies.                 *)
SearchExact ==
    \A req \in Requests :
        \A all \in {Applicable(req)}, found \in {Find(protocol, routes, req)} :
            LET before(p, q) == p[1] < q[1] \/ (p[1] = q[1] /\ p[2] < q[2])
            IN IF found = None THEN all = {}
               ELSE \E f \in all :
                      /\ f.policy = found.policy
                      /\ \A a \in all \ {f} :
                            \/ Less(a.rank, f.rank)
                            \/ a.rank = f.rank /\ before(f.policy, a.policy)

(* A redirect to another port names that port unless the scheme implies    *)
(* it, one to another host keeps the port the request named, and replacing *)
(* a matched prefix keeps the segments after it.                           *)
RedirectsExact ==
    LET uris == {[scheme |-> s, host |-> "a", port |-> p, path |-> req.path] :
                    s \in {"http", "https"}, p \in {0, 80, 443, 99}, req \in Requests}
        authorities == {[kind |-> "host", host |-> "b"]} \cup [kind : {"port"}, port : {80, 443, 99}]
        redirects == [scheme : {"", "http", "https"}, authority : authorities,
                      path : {[kind |-> "none"], [kind |-> "prefix", text |-> <<"/", "q">>]}]
        effective(u) == IF u.port = 0 THEN DefaultPort(u.scheme) ELSE u.port
        segments(t) == Split(TrimEnd(t, "/"), "/")
    IN \A u \in uris, d \in redirects, m \in PathMatchers :
          LET path == MatchPath(m, u.path)
              result == Redirect(d, u, path)
              kept == Drop(segments(u.path), Len(segments(m.text)))
          IN path # None =>
             /\ result.kind = "invalid" <=> (d.path.kind = "prefix" /\ path.kind # "prefix")
             /\ result.kind = "redirect" =>
                   /\ effective(result.location) =
                         (IF d.authority.kind = "port" THEN d.authority.port
                          ELSE IF u.port = 0 THEN DefaultPort(result.location.scheme) ELSE u.port)
                   /\ d.path.kind = "prefix" => segments(result.location.path) = <<<<>>, <<"q">>>> \o kept

(* What a table is searched for, and what a filter makes of the match, are *)
(* what the route's labels and path segments say.                          *)
RoutesExact == /\ SearchExact
               /\ routes = <<>> => MatchersExact /\ RedirectsExact
=============================================================================
