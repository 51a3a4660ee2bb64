-------------------------- MODULE OutboundDiscover --------------------------
(***************************************************************************)
(* From an accepted outbound connection to the routes that serve it: the   *)
(* proxy looks up the destination's service profile and client policy,     *)
(* decides from them how to treat the connection (known protocol or        *)
(* detection), builds a target for the stack of that protocol and spawns a *)
(* task that keeps the target's routes up to date.  A sidecar does this    *)
(* for the original destination of a connection; an ingress always detects *)
(* HTTP first and then does it for each request.                           *)
(*                                                                         *)
(* A behaviour follows one destination; the profile and the policy change  *)
(* under the connections at any time.                                      *)
(***************************************************************************)
EXTENDS Integers, FiniteSets

CONSTANTS
    Conns,       \* connections (sidecar) or requests (ingress)
    Profiles,    \* what the profile may say: [addr, routes, targets, opaque]
    MaxUpdates,  \* bound on the updates of profile and policy together
    MaxStacks    \* bound on the stacks cached at once

VARIABLES
    mode,      \* "sidecar" or "ingress"
    disco,     \* the cached discovery: how far it is, and what it found
    profile,   \* the profile's watch
    policy,    \* the policy's watch
    conn,      \* the connections
    stacks     \* the cached stacks of the destination, with their routes

discoVars == <<mode, disco, profile, policy, conn, stacks>>

Protos == {"http1", "http2", "grpc", "opaque", "tls", "detect"}

Variants == {"http1", "h2"}

---------------------------------------------------------------------------
(* Discovery *)

NotResolved == [pc |-> "none", profile |-> "pending", policy |-> "pending", source |-> "none"]

NoStacks == [k \in {} |-> 0]

DiscoverInit ==
    /\ mode \in {"sidecar", "ingress"}
    /\ disco = NotResolved
    /\ profile \in {[v |-> p, ver |-> 0, open |-> TRUE] : p \in Profiles}
    /\ policy \in {[proto |-> p, ver |-> 0, open |-> TRUE] : p \in Protos}
    /\ conn = [c \in Conns |-> [pc |-> "idle", as |-> "none"]]
    /\ stacks = NoStacks

(* The client's lookup swallows errors: a profile is found or there is     *)
(* none.                                                                   *)
ProfileResolves(found) ==
    /\ disco.pc = "looking" /\ disco.profile = "pending"
    /\ disco' = [disco EXCEPT !.profile = IF found THEN "found" ELSE "none"]
    /\ UNCHANGED <<mode, profile, policy, conn, stacks>>

(* "absent" stands for the statuses NotFound and Unimplemented.            *)
PolicyResolves(result) ==
    /\ disco.pc = "looking" /\ disco.policy = "pending"
    /\ disco' = [disco EXCEPT !.policy = result]
    /\ UNCHANGED <<mode, profile, policy, conn, stacks>>

Joined == disco.pc = "looking" /\ disco.profile # "pending" /\ disco.policy # "pending"

(* The end of `resolver`: a policy is used as it is; without one, it is    *)
(* made up from the profile, or from the original destination; any other   *)
(* failure fails the connections that wait.                                *)
Resolver ==
    /\ Joined
    /\ mode = "sidecar"
    /\ IF disco.policy = "failed"
       THEN /\ disco' = NotResolved
            /\ conn' = [c \in Conns |-> IF conn[c].pc = "discover"
                                        THEN [conn[c] EXCEPT !.pc = "error"] ELSE conn[c]]
            /\ UNCHANGED policy
       ELSE /\ disco' = [disco EXCEPT !.pc = "done",
                           !.source = CASE disco.policy = "ok"     -> "api"
                                        [] disco.policy # "ok" /\ disco.profile = "found" -> "profile"
                                        [] OTHER                   -> "origdst"]
            /\ policy' = IF disco.policy = "ok" THEN policy
                         ELSE [proto |-> "detect", ver |-> profile.ver, open |-> TRUE]
            /\ UNCHANGED conn
    /\ UNCHANGED <<mode, profile, stacks>>

(* An ingress has no original destination to fall back to. *)
IngressResolver ==
    /\ Joined
    /\ mode = "ingress"
    /\ IF disco.policy = "failed" \/ (disco.policy = "absent" /\ disco.profile = "none")
       THEN /\ disco' = NotResolved
            /\ conn' = [c \in Conns |-> IF conn[c].pc = "discover"
                                        THEN [conn[c] EXCEPT !.pc = "error"] ELSE conn[c]]
            /\ UNCHANGED policy
       ELSE /\ disco' = [disco EXCEPT !.pc = "done",
                           !.source = IF disco.policy = "ok" THEN "api" ELSE "profile"]
            /\ policy' = IF disco.policy = "ok" THEN policy
                         ELSE [proto |-> "detect", ver |-> profile.ver, open |-> TRUE]
            /\ UNCHANGED conn
    /\ UNCHANGED <<mode, profile, stacks>>

(* spawn_synthesized_profile_policy: the task that follows the profile.    *)
Synthesize ==
    /\ disco.pc = "done" /\ disco.source = "profile"
    /\ policy.open
    /\ \/ /\ policy.ver # profile.ver
          /\ policy' = [policy EXCEPT !.ver = profile.ver]
       \/ /\ policy.ver = profile.ver /\ ~profile.open
          /\ policy' = [policy EXCEPT !.open = FALSE]
    /\ UNCHANGED <<mode, disco, profile, conn, stacks>>

HasProfile == disco.profile = "found"

(* The watches.  An update that cannot be read becomes the invalid policy, *)
(* whose protocol is Detect.                                               *)
ProfileUpdate(p) ==
    /\ disco.pc = "done" /\ HasProfile /\ profile.open
    /\ profile.ver + policy.ver < MaxUpdates
    /\ profile' = [profile EXCEPT !.v = p, !.ver = @ + 1]
    /\ UNCHANGED <<mode, disco, policy, conn, stacks>>

PolicyUpdate(p) ==
    /\ disco.pc = "done" /\ disco.source = "api" /\ policy.open
    /\ profile.ver + policy.ver < MaxUpdates
    /\ policy' = [policy EXCEPT !.proto = p, !.ver = @ + 1]
    /\ UNCHANGED <<mode, disco, profile, conn, stacks>>

(* A stream of updates ends for good on a status that is not recovered.    *)
WatchEnds ==
    /\ disco.pc = "done"
    /\ \/ HasProfile /\ profile.open /\ profile' = [profile EXCEPT !.open = FALSE] /\ UNCHANGED policy
       \/ /\ policy.open /\ disco.source = "api"
          /\ policy' = [policy EXCEPT !.open = FALSE] /\ UNCHANGED profile
    /\ UNCHANGED <<mode, disco, conn, stacks>>

---------------------------------------------------------------------------
(* Connections *)

Accept(c) ==
    /\ conn[c].pc = "idle"
    /\ conn' = [conn EXCEPT ![c] = [pc |-> IF mode = "ingress" THEN "detect" ELSE "discover",
                                    as |-> "none"]]
    /\ disco' = IF mode = "sidecar" /\ disco.pc = "none"
                THEN [disco EXCEPT !.pc = "looking"] ELSE disco
    /\ UNCHANGED <<mode, profile, policy, stacks>>

(* Param<Protocol> for Sidecar *)
SidecarProtocol ==
    IF HasProfile /\ profile.v.opaque THEN "opaque"
    ELSE IF policy.proto = "grpc" THEN "http2" ELSE policy.proto

(* push_protocol: the stack a connection of known protocol is given to.    *)
Switch(c) ==
    /\ mode = "sidecar"
    /\ conn[c].pc = "discover" /\ disco.pc = "done"
    /\ conn' = [conn EXCEPT ![c].pc = IF SidecarProtocol = "detect" THEN "detect" ELSE "build",
                            ![c].as = CASE SidecarProtocol = "http1"  -> "http1"
                                        [] SidecarProtocol = "http2"  -> "h2"
                                        [] SidecarProtocol = "opaque" -> "opaq"
                                        [] SidecarProtocol = "tls"    -> "tls"
                                        [] OTHER                      -> "none"]
    /\ UNCHANGED <<mode, disco, profile, policy, stacks>>

(* Detection takes its time: it ends with an HTTP version, with bytes that *)
(* are not HTTP, or with the read timeout.  An ingress discovers only now, *)
(* for what a request names or for the original destination.               *)
Detects(c, as) ==
    /\ conn[c].pc = "detect"
    /\ conn' = [conn EXCEPT ![c].pc = IF mode = "ingress" THEN "discover" ELSE "build",
                            ![c].as = as]
    /\ disco' = IF mode = "ingress" /\ disco.pc = "none"
                THEN [disco EXCEPT !.pc = "looking"] ELSE disco
    /\ UNCHANGED <<mode, profile, policy, stacks>>

IngressReady(c) ==
    /\ mode = "ingress"
    /\ conn[c].pc = "discover" /\ disco.pc = "done"
    /\ conn' = [conn EXCEPT ![c].pc = "build"]
    /\ UNCHANGED <<mode, disco, profile, policy, stacks>>

---------------------------------------------------------------------------
(* Routes *)

NoRoutes == [kind |-> "none", ver |-> 0]

(* HttpSidecar::mk_policy_routes: HTTP-ish updates are followed whatever   *)
(* their version; others are ignored.                                      *)
MkPolicyRoutes(variant, proto, ver) ==
    CASE proto = "detect"            -> [kind |-> variant, ver |-> ver]
      [] proto = "http1"             -> [kind |-> "http1", ver |-> ver]
      [] proto = "http2"             -> [kind |-> "h2", ver |-> ver]
      [] proto = "grpc"              -> [kind |-> "grpc", ver |-> ver]
      [] OTHER                       -> NoRoutes

(* policy_routes of the ingress *)
IngressPolicyRoutes(variant, proto, ver) ==
    CASE proto = "detect"            -> [kind |-> variant, ver |-> ver]
      [] proto = "http1"             -> [kind |-> "http1", ver |-> ver]
      [] proto = "http2"             -> [kind |-> "h2", ver |-> ver]
      [] proto = "grpc"              -> [kind |-> "grpc", ver |-> ver]
      [] OTHER                       -> NoRoutes

(* TlsSidecar::mk_policy_routes *)
TlsPolicyRoutes(proto, ver) ==
    IF proto = "tls" THEN [kind |-> "tls", ver |-> ver] ELSE NoRoutes

(* opaq::routes_from_policy *)
RoutesFromPolicy(proto, ver) ==
    IF proto \in {"opaque", "detect"} THEN [kind |-> "opaq", ver |-> ver] ELSE NoRoutes

(* opaq::routes_from_profile, mk_profile_routes *)
RoutesFromProfile(ver) == [kind |-> "profile", ver |-> ver]

(* should_override_policy, and its counterpart in routes_from_discovery    *)
OverridesHttp == HasProfile /\ profile.v.addr /\ (profile.v.routes \/ profile.v.targets)

OverridesOpaq == HasProfile /\ profile.v.addr /\ profile.v.targets

PolicyRoutes(as, proto, ver) ==
    CASE as = "opaq"                            -> RoutesFromPolicy(proto, ver)
      [] as = "tls"                             -> TlsPolicyRoutes(proto, ver)
      [] as \in Variants /\ mode = "sidecar"    -> MkPolicyRoutes(as, proto, ver)
      [] as \in Variants /\ mode = "ingress"    -> IngressPolicyRoutes(as, proto, ver)

Overrides(as) == IF as \in Variants THEN OverridesHttp ELSE as = "opaq" /\ OverridesOpaq

Initial(as) ==
    IF Overrides(as) THEN RoutesFromProfile(profile.ver)
    ELSE PolicyRoutes(as, policy.proto, policy.ver)

(* The stacks are cached by protocol; a hit drops the target's own routes, *)
(* and with them the task that was spawned for it.                         *)
Serve(c) ==
    /\ Cardinality(DOMAIN stacks \cup {conn[c].as}) <= MaxStacks
    /\ conn' = [conn EXCEPT ![c].pc = "serve"]
    /\ stacks' = IF conn[c].as \in DOMAIN stacks THEN stacks
                 ELSE [k \in DOMAIN stacks \cup {conn[c].as} |->
                         IF k \in DOMAIN stacks THEN stacks[k]
                         ELSE [from |-> IF Overrides(k) THEN "profile" ELSE "policy",
                               routes |-> Initial(k), task |-> "runs",
                               seen |-> IF Overrides(k) THEN profile.ver ELSE policy.ver]]

(* From<protocol::Http<Sidecar>> for HttpSidecar, From<Sidecar> for        *)
(* TlsSidecar and OpaqSidecar: routes that cannot be read off the policy   *)
(* panic (`expect`).                                                       *)
SidecarTarget(c) ==
    /\ mode = "sidecar" /\ conn[c].pc = "build"
    /\ IF Initial(conn[c].as) = NoRoutes
       THEN /\ conn' = [conn EXCEPT ![c].pc = "panicked"]
            /\ UNCHANGED stacks
       ELSE Serve(c)
    /\ UNCHANGED <<mode, disco, profile, policy>>

(* TryFrom<Discovery<Http<RequestTarget>>> for Http<Logical> fails instead,*)
(* From<Discovery<T>> for Opaq panics.                                     *)
IngressTarget(c) ==
    /\ mode = "ingress" /\ conn[c].pc = "build"
    /\ IF Initial(conn[c].as) = NoRoutes
       THEN /\ conn' = [conn EXCEPT ![c].pc = IF conn[c].as = "opaq" THEN "panicked" ELSE "error"]
            /\ UNCHANGED stacks
       ELSE Serve(c)
    /\ UNCHANGED <<mode, disco, profile, policy>>

Source(k) ==
    IF stacks[k].from = "profile" THEN [ver |-> profile.ver, open |-> profile.open]
    ELSE [ver |-> policy.ver, open |-> policy.open]

(* spawn_routes that sends what it was given first again. *)
SpawnRoutesInit(k) ==
    /\ stacks[k].task = "runs" /\ stacks[k].seen # Source(k).ver
    /\ stacks' = [stacks EXCEPT ![k].seen = Source(k).ver]
    /\ UNCHANGED <<mode, disco, profile, policy, conn>>

(* The task of spawn_routes: an update without routes leaves those there   *)
(* are, and the task ends with the watch it follows.                       *)
SpawnRoutes(k) ==
    /\ stacks[k].task = "runs"
    /\ LET new == IF stacks[k].from = "profile" THEN RoutesFromProfile(profile.ver)
                  ELSE PolicyRoutes(k, policy.proto, policy.ver)
       IN  IF stacks[k].seen # Source(k).ver
           THEN stacks' = [stacks EXCEPT ![k].seen = Source(k).ver,
                                         ![k].routes = IF new = NoRoutes THEN @ ELSE new]
           ELSE /\ ~Source(k).open
                /\ stacks' = [stacks EXCEPT ![k].task = "ended"]
    /\ UNCHANGED <<mode, disco, profile, policy, conn>>

Done(c) ==
    /\ conn[c].pc \in {"serve", "error", "panicked"}
    /\ conn' = [conn EXCEPT ![c] = [pc |-> "idle", as |-> "none"]]
    /\ UNCHANGED <<mode, disco, profile, policy, stacks>>

(* Stacks nobody uses are evicted when they are idle for long enough. *)
Evict(k) ==
    /\ \A c \in Conns : conn[c].pc = "serve" => conn[c].as # k
    /\ stacks' = [j \in DOMAIN stacks \ {k} |-> stacks[j]]
    /\ UNCHANGED <<mode, disco, profile, policy, conn>>

DiscoverNext ==
    \/ \E found \in BOOLEAN : ProfileResolves(found)
    \/ \E result \in {"ok", "absent", "failed"} : PolicyResolves(result)
    \/ Resolver \/ IngressResolver \/ Synthesize \/ WatchEnds
    \/ \E p \in Profiles : ProfileUpdate(p)
    \/ \E p \in Protos : PolicyUpdate(p)
    \/ \E c \in Conns :
          \/ Accept(c)
          \/ \E as \in Variants \cup {"opaq"} : Detects(c, as)
          \/ Switch(c) \/ IngressReady(c) \/ SidecarTarget(c) \/ IngressTarget(c) \/ Done(c)
    \/ \E k \in DOMAIN stacks : SpawnRoutes(k) \/ Evict(k)

DiscoverSpec == DiscoverInit /\ [][DiscoverNext]_discoVars

---------------------------------------------------------------------------
(* A connection is served by a stack of what it speaks, whatever the       *)
(* policy became meanwhile: an HTTP connection never by opaque or TLS      *)
(* routes, and while its policy asks for detection by the routes of its    *)
(* own HTTP version; an opaque one never by HTTP routes.  Once a stack's   *)
(* task has seen its watch's last update, the routes are those of that     *)
(* update, or older ones only if the update has none for this protocol.    *)
RoutesFollow ==
    /\ \A k \in DOMAIN stacks :
         LET s == stacks[k]
         IN  /\ s.routes # NoRoutes
             /\ s.from = "profile" <=> s.routes.kind = "profile"
             /\ k \in Variants => s.routes.kind \in Variants \cup {"grpc", "profile"}
             /\ k \in {"opaq", "tls"} => s.routes.kind \in {k, "profile"}
             /\ (s.seen = policy.ver /\ s.from = "policy" /\ policy.proto = "detect")
                  => s.routes.kind = k
             /\ s.seen = Source(k).ver =>
                  \/ s.routes.ver = s.seen
                  \/ s.from = "policy" /\ PolicyRoutes(k, policy.proto, policy.ver) = NoRoutes
    /\ \A c \in Conns : conn[c].pc = "serve" => conn[c].as \in DOMAIN stacks
=============================================================================
