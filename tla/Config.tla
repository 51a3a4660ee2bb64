------------------------------- MODULE Config -------------------------------
(***************************************************************************)
(* The configuration that the proxy reads from its environment.  A         *)
(* behaviour is one start: an environment that differs from a plain one in *)
(* a few variables, and the configuration or the error that parse_config   *)
(* makes of it.                                                            *)
(*                                                                         *)
(* Settings that are only handed on are left out of the configuration;     *)
(* their variables are here, as they can be malformed.  A variable's text  *)
(* is what its parser tells apart.                                         *)
(***************************************************************************)
EXTENDS Integers, Sequences, TLC

VARIABLES
    env,      \* the variables that differ from the plain environment
    garbled,  \* the variables whose value is not Unicode
    loaded    \* nothing, or what parse_config returned

configVars == <<env, garbled, loaded>>

Sides == {"inbound", "outbound"}
Services == {"destination", "policy", "trace", "identity"}

-----------------------------------------------------------------------------
(* The variables, named by what they belong to and what they set           *)

Of(owners, settings) == owners \X settings

Durations ==
    Of(Sides, {"detect", "connect", "httpFailfast", "acceptKeepalive", "connectKeepalive", "acceptUser",
               "connectUser", "idle", "poolIdle"})
    \cup {<<"outbound", "tcpFailfast">>, <<"proxy", "grace">>, <<"proxy", "retain">>,
          <<"proxy", "profileSkip">>, <<"dns", "min">>, <<"dns", "max">>}
Refreshes == Of({"identity"}, {"minRefresh", "maxRefresh"})
Numbers ==
    Of(Sides, {"httpQueue", "backlog", "maxIdle", "maxInFlight", "maxStreams", "maxFrame", "maxHeaderList",
               "maxPendingReset", "maxSendBuf"})
    \cup {<<"outbound", "tcpQueue">>, <<"proxy", "streamWindow">>, <<"proxy", "connectionWindow">>}
Bools == {<<"proxy", "shutdown">>, <<"proxy", "hostnameLabels">>, <<"outbound", "ingress">>,
          <<"outbound", "disableHeaders">>}
Limits == Of({"control"}, {"initial", "idle", "lifetime"})
Flows == Of(Sides, {"adaptive", "stream", "connection"})
KeepAlives == Of(Sides, {"timeout", "interval"})
Backoffs == Of(Sides \cup {"spire"}, {"min", "max", "jitter"})
Listens == Of({"outbound", "inbound", "admin", "tap"}, {"listen"})
Addresses == Of(Services, {"addr"})
ServiceNames == Of(Services, {"name"})
Lists == {<<"gateway", "suffixes">>, <<"profile", "suffixes">>, <<"profile", "networks">>, <<"inbound", "ips">>,
          <<"inbound", "networks">>}
Ports == {<<"inbound", "ports">>, <<"inbound", "opaque">>}

-----------------------------------------------------------------------------
(* Parsing: nothing is an error                                            *)

Seconds == [ms |-> 0, s |-> 1, m |-> 60, h |-> 3600, d |-> 86400]

\* parse_duration: digits and a unit, which only a zero may go without.
ParseDuration(t) ==
    IF t.digits /\ t.unit \in DOMAIN Seconds THEN {t.n * Seconds[t.unit]}
    ELSE IF t.digits /\ t.unit = "none" /\ t.n = 0 THEN {0} ELSE {}

\* parse_duration_opt: an empty string is no limit.
ParseDurationOpt(t) ==
    IF ~t.digits /\ t.unit = "empty" THEN {{}} ELSE {{x} : x \in ParseDuration(t)}

\* parse_number, parse_bool, parse_dns_name, parse_identity and plain strings.
ParseText(t) == IF t = "bad" THEN {} ELSE {t}

\* parse_socket_addr and parse_addr.
ParseAddr(t) == IF t.form = "bad" THEN {} ELSE {t}
ParseSocketAddr(t) == IF t.form = "socket" THEN {t} ELSE {}

\* parse_socket_addrs
ParseSocketAddrs(ts) ==
    IF Len(ts) > 2 \/ \E i \in DOMAIN ts : ParseSocketAddr(ts[i]) = {} THEN {} ELSE {ts}

\* parse_dns_suffixes, parse_networks and parse_ip_set: only the last minds empty items.
ParseList(ts, empties) ==
    IF \E i \in DOMAIN ts : ts[i] = "bad" \/ (ts[i] = "" /\ ~empties) THEN {}
    ELSE {{ts[i] : i \in DOMAIN ts} \ {""}}
ParseNames(ts) == ParseList(ts, TRUE)
ParseIpSet(ts) == ParseList(ts, FALSE)

\* parse_port_range_set: a part is a port, a range or nothing.
ParsePortRangeSet(ts) ==
    IF \E i \in DOMAIN ts : \E p \in ts[i].low, q \in ts[i].high : q < p \/ q > 65535 \/ p > 65535 THEN {}
    ELSE {UNION {UNION {p .. q : q \in ts[i].high} : p \in ts[i].low} : i \in DOMAIN ts}

\* parse_default_policy: without cluster networks only three policies are known.
ParseDefaultPolicy(t, nets) ==
    IF t \in {"deny", "all-authenticated", "all-unauthenticated"} THEN {t}
    ELSE IF nets # {} /\ t \in {"cluster-authenticated", "cluster-unauthenticated", "audit"} THEN {t} ELSE {}

-----------------------------------------------------------------------------
(* The environment                                                         *)

Duration(n, unit) == [digits |-> TRUE, n |-> n, unit |-> unit]
NoDuration(unit) == [digits |-> FALSE, n |-> 0, unit |-> unit]
Addr(form, loopback, port) == [form |-> form, loopback |-> loopback, port |-> port]
Part(low, high) == [low |-> low, high |-> high]

Plain ==
    (<<"destination", "addr">> :> {Addr("name", FALSE, 8086)}) @@ (<<"destination", "name">> :> {"dst"})
    @@ (<<"policy", "addr">> :> {Addr("socket", TRUE, 8090)}) @@ (<<"policy", "workload">> :> {"w"})
    @@ (<<"identity", "addr">> :> {Addr("name", FALSE, 8080)}) @@ (<<"identity", "name">> :> {"id"})
    @@ (<<"identity", "dir">> :> {"documents"}) @@ (<<"identity", "token">> :> {"token"})
    @@ (<<"identity", "anchors">> :> {"pem"}) @@ (<<"tls", "local">> :> {"me"})

\* What a variable may be instead.
Values(v) ==
    CASE v \in Durations -> {{Duration(1, "none")}}
      [] v \in Refreshes -> {{NoDuration("m")}, {Duration(2, "s")}}
      [] v \in Numbers -> {{"bad"}}
      [] v \in Bools -> {{"bad"}, {"true"}}
      [] v \in Limits -> {{Duration(1, "s")}, {Duration(2, "m")}, {NoDuration("empty")}, {NoDuration("bad")}}
      [] v \in Flows -> {{"bad"}, {"true"}, {"false"}}
      [] v \in KeepAlives -> {{Duration(1, "d")}, {Duration(3, "none")}}
      [] v \in Backoffs -> IF v[2] = "jitter" THEN {{"bad"}, {"half"}, {"negative"}}
                           ELSE {{Duration(0, "none")}, {Duration(1, "ms")}, {Duration(1, "h")}, {NoDuration("s")}}
      [] v \in Listens -> {{Addr("socket", TRUE, 80)}, {Addr("name", FALSE, 80)}, {Addr("bad", FALSE, 80)}}
      [] v \in Addresses -> {{}, {Addr("socket", TRUE, 80)}, {Addr("name", FALSE, 80)}, {Addr("bad", FALSE, 80)}}
      [] v \in ServiceNames -> {{}, {"n"}, {"bad"}}
      [] v \in Lists -> {{<<"x", "">>}, {<<"bad">>}}
      [] v \in Ports -> {{<<Part({80}, {81}), Part({}, {})>>}, {<<Part({81}, {80})>>}}
      [] v = <<"outbound", "listens">> ->
             {{<<Addr("socket", TRUE, 80)>>}, {<<Addr("socket", TRUE, 80), Addr("socket", FALSE, 81)>>},
              {<<Addr("name", TRUE, 80)>>}}
      [] v = <<"inbound", "default">> -> {{"deny"}, {"audit"}, {"cluster-authenticated"}, {"bad"}}
      [] v = <<"inbound", "authorityLabels">> -> {{"unsafe"}, {"bad"}}
      [] v = <<"policy", "workload">> -> {{}}
      [] v \in {<<"identity", "token">>, <<"identity", "anchors">>} -> {{}, {"bad"}}
      [] v = <<"identity", "dir">> -> {{}, {"emptyKey"}}
      [] v = <<"identity", "disabled">> -> {{""}, {"true"}}
      [] v = <<"tls", "local">> -> {{}, {"bad"}}
      [] v = <<"tls", "id">> -> {{"me"}, {"spiffe"}, {"bad"}}
      [] v = <<"tls", "name">> -> {{"me"}, {"you"}, {"bad"}}
      [] v \in {<<"spire", "addr">>, <<"spire", "socket">>} -> {{"unix"}}
      [] v = <<"tap", "name">> -> {{"tap"}, {"bad"}}
      [] v \in {<<"proxy", "hostname">>, <<"destination", "context">>} -> {{"x"}}

Names ==
    Durations \cup Refreshes \cup Numbers \cup Bools \cup Limits \cup Flows \cup KeepAlives \cup Backoffs \cup Listens
    \cup Addresses \cup ServiceNames \cup Lists \cup Ports
    \cup {<<"outbound", "listens">>, <<"inbound", "default">>, <<"inbound", "authorityLabels">>, <<"tap", "name">>,
          <<"policy", "workload">>, <<"identity", "token">>, <<"identity", "anchors">>, <<"identity", "dir">>,
          <<"identity", "disabled">>, <<"tls", "local">>, <<"tls", "id">>, <<"tls", "name">>, <<"spire", "addr">>,
          <<"spire", "socket">>, <<"proxy", "hostname">>, <<"destination", "context">>}

\* The environments of SPIRE, of separate names and of a trace collector differ in more.
Bases ==
    { [v \in {} |-> {}], <<"trace", "addr">> :> {Addr("name", FALSE, 55678)} @@ <<"trace", "name">> :> {"t"},
      <<"tls", "local">> :> {} @@ <<"tls", "id">> :> {"me"} @@ <<"tls", "name">> :> {"me"},
      <<"tls", "local">> :> {} @@ <<"tls", "id">> :> {"spiffe"} @@ <<"tls", "name">> :> {"me"}
          @@ <<"spire", "socket">> :> {"unix"} }

Var(v) == IF v \in DOMAIN env THEN env[v] ELSE IF v \in DOMAIN Plain THEN Plain[v] ELSE {}

-----------------------------------------------------------------------------
(* parse_config                                                            *)

\* parse, with Env::get: an unset variable is no error.
Parse(v, f(_)) ==
    [ok |-> v \notin garbled /\ \A t \in Var(v) : f(t) # {}, val |-> UNION {f(t) : t \in Var(v)}]

Or(result, default) == IF result.val = {} THEN default ELSE CHOOSE x \in result.val : TRUE

Get(v) == Parse(v, LAMBDA t : {t})
Texts(vs) == \A v \in vs : Parse(v, ParseText).ok
Times(vs) == \A v \in vs : Parse(v, ParseDuration).ok

\* mk_receive_limits
MkReceiveLimits ==
    LET limit == [l \in {"initial", "idle", "lifetime"} |-> Parse(<<"control", l>>, ParseDurationOpt)]
        value == [l \in DOMAIN limit |-> UNION limit[l].val]
    IN  [ok |-> /\ \A l \in DOMAIN limit : limit[l].ok
                /\ \A i \in value["initial"], d \in value["idle"] : i <= d
                /\ \A i \in value["initial"], e \in value["lifetime"] : i <= e
                /\ \A d \in value["idle"], e \in value["lifetime"] : d <= e,
         val |-> value]

\* parse_backoff and ExponentialBackoff::try_new
ParseBackoff(owner) ==
    LET min == Parse(<<owner, "min">>, ParseDuration)
        max == Parse(<<owner, "max">>, ParseDuration)
        jitter == Parse(<<owner, "jitter">>, ParseText)
        none == min.val = {} /\ max.val = {} /\ jitter.val = {}
    IN  [ok |-> /\ min.ok /\ max.ok /\ jitter.ok
                /\ none \/ (min.val # {} /\ max.val # {})
                /\ \A a \in min.val, b \in max.val : a <= b /\ b # 0 /\ "negative" \notin jitter.val,
         val |-> {<<a, b>> : a \in min.val, b \in max.val}]

\* parse_flow_control: adaptive flow control makes the windows irrelevant.
ParseFlowControl(side) ==
    LET adaptive == Parse(<<side, "adaptive">>, ParseText)
    IN  adaptive.ok /\ ("true" \notin adaptive.val => Texts(Of({side}, {"stream", "connection"})))

\* http2::parse_server
ParseServer(side) ==
    /\ ParseFlowControl(side)
    /\ Times(Of({side}, {"timeout", "interval"}))
    /\ Texts(Of({side}, {"maxStreams", "maxFrame", "maxHeaderList", "maxPendingReset", "maxSendBuf"}))

\* parse_control_addr: services on loopback are not secured; others must be named.
ParseControlAddr(service) ==
    LET addr == Parse(<<service, "addr">>, ParseAddr)
        name == Parse(<<service, "name">>, ParseText)
        loopback == \E a \in addr.val : a.loopback
    IN  [ok |-> /\ addr.ok /\ name.ok
                /\ (addr.val = {}) = (name.val = {}) \/ loopback,
         val |-> {[addr |-> a, tls |-> IF a.loopback THEN {} ELSE name.val] : a \in addr.val}]

\* The settings of a client of the control plane.
Control(service, limits) ==
    {[addr |-> c.addr, tls |-> c.tls, connect |-> IF c.addr.loopback THEN "inbound" ELSE "outbound",
      limits |-> IF c.addr.loopback THEN [l \in DOMAIN limits |-> {}] ELSE limits] :
         c \in ParseControlAddr(service).val}

OutboundAddr ==
    LET several == Parse(<<"outbound", "listens">>, ParseSocketAddrs)
        one == Parse(<<"outbound", "listen">>, ParseSocketAddr)
    IN  [ok |-> several.ok /\ (several.val # {} \/ one.ok),
         val |-> IF several.val # {} THEN several.val ELSE {<<Or(one, Addr("socket", TRUE, 4140))>>}]

ProxyOk(side) ==
    /\ Times({v \in Durations : v[1] = side})
    /\ Texts({v \in Numbers : v[1] = side})
    /\ ParseServer(side)
    /\ ParseBackoff(side).ok

OutboundOk == OutboundAddr.ok /\ ProxyOk("outbound") /\ Texts(Of({"outbound"}, {"ingress", "disableHeaders"}))

Listen(owner, default) == Or(Parse(<<owner, "listen">>, ParseSocketAddr), Addr("socket", FALSE, default))

ClusterNets == Or(Parse(<<"inbound", "networks">>, ParseNames), {})
DefaultPolicy == Parse(<<"inbound", "default">>, LAMBDA t : ParseDefaultPolicy(t, ClusterNets))

\* Mutant: malformed networks are taken for none.
InboundOkNetworksIgnored ==
    /\ Parse(<<"inbound", "listen">>, ParseSocketAddr).ok
    /\ ProxyOk("inbound")
    /\ Texts({<<"inbound", "authorityLabels">>})
    /\ DefaultPolicy.ok
    /\ \A v \in Ports : Parse(v, ParsePortRangeSet).ok
    /\ Times({<<"proxy", "profileSkip">>})

InboundOk ==
    /\ Parse(<<"inbound", "listen">>, ParseSocketAddr).ok
    /\ ProxyOk("inbound")
    /\ Texts({<<"inbound", "authorityLabels">>})
    /\ Parse(<<"inbound", "networks">>, ParseNames).ok
    /\ DefaultPolicy.ok
    /\ \A v \in Ports : Parse(v, ParsePortRangeSet).ok
    /\ Times({<<"proxy", "profileSkip">>})

\* The ports whose policies are discovered when the proxy starts.
DiscoveredPorts ==
    Or(Parse(<<"inbound", "ports">>, ParsePortRangeSet), {})
    \cup (IF Or(Parse(<<"gateway", "suffixes">>, ParseNames), {}) = {} THEN {} ELSE {Listen("inbound", 4143).port})
    \cup {Listen("admin", 4191).port}

\* parse_tap_config
ParseTapConfig ==
    LET id == Parse(<<"tap", "name">>, ParseText)
        addr == Parse(<<"tap", "listen">>, ParseSocketAddr)
    IN  [ok |-> id.ok /\ addr.ok, val |-> {[addr |-> Or(addr, Addr("socket", FALSE, 4190)), client |-> i] : i \in id.val}]

\* parse_tls_params: one name for both, or a name each.  The text of an id is a DNS
\* name or a URI, the text of a server name is a DNS name.
TlsNames == IF Get(<<"tls", "local">>).val # {} THEN [id |-> <<"tls", "local">>, name |-> <<"tls", "local">>]
            ELSE [id |-> <<"tls", "id">>, name |-> <<"tls", "name">>]

ParseTlsParams ==
    LET anchors == Parse(<<"identity", "anchors">>, ParseText)
        id == Parse(TlsNames.id, ParseText)
        name == Parse(TlsNames.name, ParseText)
        disabled == Get(<<"identity", "disabled">>)
    IN  [ok |-> /\ Get(<<"tls", "local">>).ok /\ disabled.ok /\ disabled.val \in {{}, {""}}
                /\ anchors.ok /\ id.ok /\ name.ok
                /\ anchors.val # {} /\ id.val # {} /\ name.val # {},
         id |-> id.val, name |-> name.val]

\* parse_deprecated: the old variable is read when the new one is not set.
WorkloadApi ==
    LET new == Get(<<"spire", "addr">>)
        old == Get(<<"spire", "socket">>)
    IN  [ok |-> new.ok /\ (new.val = {} => old.ok), val |-> IF new.val = {} THEN old.val ELSE new.val]

\* parse_linkerd_identity_config, with TokenSource::if_nonempty_file and Documents::load.
ParseLinkerdIdentity ==
    LET dir == Get(<<"identity", "dir">>)
        token == Parse(<<"identity", "token">>, ParseText)
    IN  /\ ParseControlAddr("identity").ok /\ dir.ok /\ token.ok /\ Times(Refreshes)
        /\ ParseControlAddr("identity").val # {} /\ dir.val # {} /\ token.val # {}
        /\ dir.val # {"emptyKey"}

\* parse_identity_config: an agent certifies SPIFFE identities, the control plane
\* those that are the server's name.
IdentityOk ==
    WorkloadApi.ok /\ IF WorkloadApi.val # {} THEN ParseTlsParams.id = {"spiffe"} /\ ParseBackoff("spire").ok
                                              ELSE ParseLinkerdIdentity
NamesMatch == WorkloadApi.val # {} \/ ParseTlsParams.id = ParseTlsParams.name

\* parse_config: what is asked for, in order, and the error if it is not there.
Demands ==
    << <<MkReceiveLimits.ok, "invalid">>,
       <<Texts(Of({"proxy"}, {"streamWindow", "connectionWindow"})), "invalid">>,
       <<\A v \in Of({"profile"}, {"suffixes", "networks"}) : Parse(v, ParseNames).ok, "invalid">>,
       <<Parse(<<"inbound", "ips">>, ParseIpSet).ok, "invalid">>,
       <<OutboundOk, "invalid">>,
       <<Parse(<<"gateway", "suffixes">>, ParseNames).ok, "invalid">>,
       <<Parse(<<"admin", "listen">>, ParseSocketAddr).ok, "invalid">>,
       <<InboundOk, "invalid">>,
       <<ParseControlAddr("destination").ok, "invalid">>,
       <<ParseControlAddr("destination").val # {}, "noDestination">>,
       <<Get(<<"destination", "context">>).ok, "invalid">>,
       <<ParseControlAddr("policy").ok, "invalid">>,
       <<ParseControlAddr("policy").val # {}, "noPolicy">>,
       <<Get(<<"policy", "workload">>).ok /\ Get(<<"policy", "workload">>).val # {}, "invalid">>,
       <<Texts({<<"proxy", "hostnameLabels">>}), "invalid">>,
       <<Times({<<"proxy", "retain">>}) /\ Texts({<<"proxy", "shutdown">>}), "invalid">>,
       <<Times(Of({"dns"}, {"min", "max"})), "invalid">>,
       <<ParseControlAddr("trace").ok, "invalid">>,
       <<ParseControlAddr("trace").val = {} \/ Get(<<"proxy", "hostname">>).ok, "invalid">>,
       <<ParseTapConfig.ok, "invalid">>,
       <<ParseTlsParams.ok, "invalid">>,
       <<NamesMatch, "mismatch">>,
       <<IdentityOk, "invalid">>,
       <<Times({<<"proxy", "grace">>}), "invalid">> >>

ParseConfig ==
    LET demands == Demands
        failed == SelectSeq(demands, LAMBDA d : ~d[1])
    IN  IF failed # <<>> THEN [error |-> {failed[1][2]}]
        ELSE [error |-> {},
              listen |-> [outbound |-> Or(OutboundAddr, <<>>), inbound |-> Listen("inbound", 4143),
                          admin |-> Listen("admin", 4191)],
              ports |-> DiscoveredPorts, default |-> Or(DefaultPolicy, "all-unauthenticated"),
              control |-> [c \in Services |-> IF c = "identity" /\ WorkloadApi.val # {} THEN {}
                                              ELSE Control(c, MkReceiveLimits.val)],
              limits |-> MkReceiveLimits.val,
              backoff |-> [o \in Sides \cup {"spire"} |-> ParseBackoff(o).val],
              tap |-> ParseTapConfig.val,
              provider |-> IF WorkloadApi.val = {} THEN "linkerd" ELSE "spire"]

-----------------------------------------------------------------------------
(* Starts                                                                  *)

ConfigInit ==
    /\ env \in Bases
    /\ garbled = {}
    /\ loaded = <<>>

\* A variable is set or is not Unicode, and in the plain environment another one of
\* the same owner.
SetVariable(v) ==
    /\ loaded = <<>> /\ garbled = {} /\ v \notin DOMAIN env
    /\ env \in Bases \/ \E w \in Names : DOMAIN env = {w} /\ v[1] = w[1]
    /\ \/ /\ \E x \in Values(v) : env' = (v :> x) @@ env
          /\ UNCHANGED garbled
       \/ /\ garbled' = {v}
          /\ UNCHANGED env
    /\ UNCHANGED loaded

Load ==
    /\ loaded = <<>>
    /\ loaded' = <<ParseConfig>>
    /\ UNCHANGED <<env, garbled>>

ConfigNext == (\E v \in Names : SetVariable(v)) \/ Load

ConfigSpec == ConfigInit /\ [][ConfigNext]_configVars

-----------------------------------------------------------------------------
(* Properties                                                              *)

Accepted == loaded # <<>> /\ loaded[1].error = {}
Rejected == loaded # <<>> /\ loaded[1].error # {}
Set(v) == Var(v) # {}

Malformed(v) ==
    \/ v \in garbled
    \/ \E t \in Var(v) :
          CASE v \in Durations \cup Refreshes \cup KeepAlives \cup Limits \cup {b \in Backoffs : b[2] # "jitter"} ->
                 ~(t.digits /\ (t.unit # "none" \/ t.n = 0)) /\ ~(v \in Limits /\ t.unit = "empty")
            [] v \in Listens -> t.form # "socket"
            [] v \in Addresses -> t.form = "bad"
            [] v = <<"outbound", "listens">> -> \E i \in DOMAIN t : t[i].form # "socket"
            [] v \in Lists -> \E i \in DOMAIN t : t[i] = "bad" \/ (v[2] = "ips" /\ t[i] = "")
            [] v \in Ports -> \E i \in DOMAIN t : \E p \in t[i].low, q \in t[i].high : q < p
            [] OTHER -> t = "bad"

\* Variables that others make irrelevant.
Irrelevant(v) ==
    \/ v = <<"outbound", "listen">> /\ Set(<<"outbound", "listens">>)
    \/ v[2] \in {"stream", "connection"} /\ v \in Flows /\ Var(<<v[1], "adaptive">>) = {"true"}
    \/ v = <<"proxy", "hostname">> /\ ~Set(<<"trace", "addr">>)
    \/ v[1] = "tls" /\ v[2] # "local" /\ Set(<<"tls", "local">>)
    \/ v = <<"spire", "socket">> /\ Set(<<"spire", "addr">>)
    \/ v \in Backoffs /\ v[1] = "spire" /\ ~Set(<<"spire", "addr">>) /\ ~Set(<<"spire", "socket">>)
    \/ /\ v[1] = "identity" /\ v[2] \notin {"anchors", "disabled"}
       /\ Set(<<"spire", "addr">>) \/ Set(<<"spire", "socket">>)

\* No malformed variable is silently replaced by a default: whatever else is set, the
\* proxy does not start with one, unless it has no use for it.
NothingOverlooked == Accepted => \A v \in Names : Malformed(v) => Irrelevant(v)

\* The proxy refuses to start only if some variable is malformed, one that it needs is
\* missing, or some that it needs do not fit together.
NothingInvented ==
    Rejected =>
        \/ \E v \in Names : Malformed(v) /\ ~Irrelevant(v)
        \/ \E v \in DOMAIN Plain \cup {<<"tls", "id">>, <<"tls", "name">>} : ~Set(v) /\ ~Irrelevant(v)
        \/ \E o \in Limits \cup Backoffs : Set(o) /\ ~Irrelevant(o)
        \/ \E c \in Services : Set(<<c, "name">>) # Set(<<c, "addr">>)
        \/ Var(<<"inbound", "default">>) \in {{"audit"}, {"cluster-authenticated"}} /\ ~Set(<<"inbound", "networks">>)
        \/ Var(<<"identity", "disabled">>) = {"true"}
        \/ Set(<<"spire", "addr">>) \/ Set(<<"spire", "socket">>) \/ Set(<<"tls", "id">>) \/ Set(<<"tls", "name">>)

\* A configuration can be run with: every service of the control plane that is not on
\* loopback is authenticated, and one that is has no deadlines on its streams; limits
\* and backoffs are in order; the admin server's policy is known from the start.
Usable ==
    Accepted =>
        LET config == loaded[1]
        IN  /\ \A c \in Services \ {"trace", "identity"} : config.control[c] # {}
            /\ config.provider = "linkerd" => config.control["identity"] # {}
            /\ \A c \in Services : \A k \in config.control[c] :
                   IF k.addr.loopback
                   THEN k.tls = {} /\ k.connect = "inbound" /\ \A l \in DOMAIN k.limits : k.limits[l] = {}
                   ELSE k.tls # {} /\ k.connect = "outbound" /\ k.limits = config.limits
            /\ \A i \in config.limits["initial"], d \in config.limits["idle"] : i <= d
            /\ \A l \in config.limits["lifetime"] :
                   \A x \in config.limits["initial"] \cup config.limits["idle"] : x <= l
            /\ \A o \in Sides : \A b \in config.backoff[o] : b[1] <= b[2] /\ b[2] > 0
            /\ config.listen.admin.port \in config.ports
            /\ Len(config.listen.outbound) \in {1, 2}

\* The environment's settings are all minded, and what they make can be run with
\* (parse_config).
ConfigSound == NothingOverlooked /\ NothingInvented /\ Usable
=============================================================================
