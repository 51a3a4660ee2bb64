--------------------------- MODULE Traffic_proofs ---------------------------
(***************************************************************************)
(* The safety properties of the traffic that the proxy handles: the        *)
(* policies it is held to (InboundPolicy), for any connections,            *)
(* identities, networks, policies and number of changes; and the nghttp2   *)
(* engine that can carry it, the two tasks that share a body (NgBody) and  *)
(* the client driver (NgClient), for any windows, bodies and requests.     *)
(***************************************************************************)
EXTENDS InboundPolicy, NgBody, NgClient, SequenceTheorems, TLAPS

-----------------------------------------------------------------------------
(* The policies (InboundPolicy)                                            *)

\* The policies the watch may hold.
Held == Defaults \cup Policies \cup {Deny, Invalid} \cup {MakeOpaque(d) : d \in Defaults \cup {Deny}}

Limits == [total : Nat \cup {Off}, identity : Nat \cup {Off}, override : Nat \cup {Off}, clients : SUBSET Ids]

Handled == [kind : Kinds, at : 1 .. version, by : 0 .. version]

Permits(p, c) == CheckAuthorized(p, net[c], status[c])

\* TcpEnforced from the check on, over the call that begins the loop.
PermitInv ==
    \A c \in Conns : pc[c] \in {"permitted", "open"} => Permits(policy, c) \/ seen[c] # version

\* A request is handled by the HTTP stack of its connection.
StageInv == \A c \in Conns : request[c] # NoRequest => pc[c] = "http"

IInv ==
    /\ TypeOK
    /\ history \in Seq(Held)
    /\ PermitInv
    /\ StageInv
    /\ RequestsEnforced
    /\ WithinLimits

USE BoundAssumption

\* Every policy of the watch has limits that are numbers or off.
LEMMA HeldLimits == \A p \in Held : p.limits \in Limits
  BY LimitAssumption DEF Held, Limits, Deny, Opaque, MakeOpaque, Invalid, Unlimited

\* A rate limiter that has counted nothing is within any limits.
LEMMA UnusedWithin ==
  ASSUME NEW l \in Limits
  PROVE  Within(l, Unused)
  <1>1. l.total \in Nat \cup {Off} /\ l.override \in Nat \cup {Off} /\ l.identity \in Nat \cup {Off}
    BY DEF Limits
  <1>2. Unused["total"] = 0 /\ Unused["override"] = 0 /\ \A i \in Ids \cup {NoId} : Unused[i] = 0
    BY DEF Unused, Buckets
  <1>3. l.identity # Off => \A i \in Ids \cup {NoId} : Unused[i] <= l.identity
    BY <1>1, <1>2
  <1> QED  BY <1>1, <1>2, <1>3 DEF Within

\* Giving room in a bucket keeps the limiter within its limits.
LEMMA LowerWithin ==
  ASSUME NEW l \in Limits, NEW u \in [Buckets -> Nat], NEW b \in Buckets, u[b] > 0, Within(l, u)
  PROVE  Within(l, [u EXCEPT ![b] = @ - 1])
  <1> DEFINE v == [u EXCEPT ![b] = @ - 1]
  <1>1. l.total \in Nat \cup {Off} /\ l.override \in Nat \cup {Off} /\ l.identity \in Nat \cup {Off}
    BY DEF Limits
  <1>2. \A x \in Buckets : v[x] \in Int /\ u[x] \in Int /\ v[x] <= u[x]
    OBVIOUS
  <1>3. "total" \in Buckets /\ "override" \in Buckets /\ \A i \in Ids \cup {NoId} : i \in Buckets
    BY DEF Buckets
  <1> HIDE DEF v
  <1>4. l.total # Off => v["total"] <= l.total
    BY <1>1, <1>2, <1>3 DEF Within
  <1>5. l.override # Off => v["override"] <= l.override
    BY <1>1, <1>2, <1>3 DEF Within
  <1>6. l.identity # Off => \A i \in Ids \cup {NoId} : v[i] <= l.identity
    BY <1>1, <1>2, <1>3 DEF Within
  <1>7. Within(l, v)
    BY <1>4, <1>5, <1>6 DEF Within
  <1> QED  BY <1>7 DEF v

\* A request that finds room in a bucket is counted within that bucket's limit.
LEMMA CountedWithin ==
  ASSUME NEW l \in Limits, NEW u \in [Buckets -> Nat], Within(l, u),
         NEW b \in Buckets, NEW m,
         m = Off \/ u[b] < m,
         \/ b = "total" /\ m = l.total
         \/ b = "override" /\ m = l.override
         \/ b \in Ids \cup {NoId} /\ m = l.identity
  PROVE  Within(l, Counted(u, b, m)) /\ Counted(u, b, m) \in [Buckets -> Nat]
  <1>1. CASE m = Off
    BY <1>1 DEF Counted
  <1>2. CASE m # Off
    <2> DEFINE v == [u EXCEPT ![b] = @ + 1]
    <2>1. l.total \in Nat \cup {Off} /\ l.override \in Nat \cup {Off} /\ l.identity \in Nat \cup {Off}
      BY DEF Limits
    <2>2. v \in [Buckets -> Nat] /\ v[b] = u[b] + 1 /\ \A x \in Buckets : x # b => v[x] = u[x]
      OBVIOUS
    <2>3. "total" \in Buckets /\ "override" \in Buckets /\ \A i \in Ids \cup {NoId} : i \in Buckets
      BY DEF Buckets
    <2>4. "total" \notin Ids \cup {NoId} /\ "override" \notin Ids \cup {NoId}
      BY DistinctIds
    <2>5. v[b] <= m
      BY <1>2, <2>1, <2>2
    <2> HIDE DEF v
    <2>6. l.total # Off => v["total"] <= l.total
      BY <2>2, <2>3, <2>4, <2>5 DEF Within
    <2>7. l.override # Off => v["override"] <= l.override
      BY <2>2, <2>3, <2>4, <2>5 DEF Within
    <2>8. l.identity # Off => \A i \in Ids \cup {NoId} : v[i] <= l.identity
      BY <2>2, <2>3, <2>4, <2>5 DEF Within
    <2>9. Within(l, v)
      BY <2>6, <2>7, <2>8 DEF Within
    <2> QED  BY <1>2, <2>2, <2>9 DEF Counted, v
  <1> QED  BY <1>1, <1>2

\* The default policies establish the invariant.
LEMMA InitIInv == Init => IInv
  <1> SUFFICES ASSUME Init PROVE IInv  OBVIOUS
  <1> USE DEF Init, StoreInit
  <1>1. PICK d \in Held : history = <<d>>
    BY DEF Held
  <1>2. version = 1 /\ policy = d /\ history \in Seq(Held)
    BY <1>1 DEF version, policy
  <1>3. TypeOK
    <2>1. watched \in BOOLEAN
      BY Zenon
    <2> QED  BY <1>2, <2>1 DEF TypeOK, Unused, Stages, Statuses
  <1>4. WithinLimits
    <2>1. d.limits \in Limits
      BY HeldLimits
    <2> QED  BY <1>2, <2>1, UnusedWithin DEF WithinLimits
  <1> QED  BY <1>2, <1>3, <1>4 DEF IInv, PermitInv, StageInv, RequestsEnforced

\* What an update means for the history.
LEMMA AppendPolicy ==
  ASSUME NEW S, NEW h \in Seq(S), NEW p \in S
  PROVE  /\ Append(h, p) \in Seq(S)
         /\ Len(Append(h, p)) = Len(h) + 1
         /\ Append(h, p)[Len(h) + 1] = p
         /\ \A i \in 1 .. Len(h) : Append(h, p)[i] = h[i]
  OBVIOUS

\* A new policy: every receiver has a change to notice, every counter is unused.
LEMMA UpdateIInv ==
  ASSUME IInv, NEW p \in Policies \cup {Invalid}, Update(p)
  PROVE  IInv'
  <1> USE DEF IInv, Update
  <1>1. p \in Held /\ history \in Seq(Held) /\ version \in Nat
    BY DEF Held, TypeOK, version
  <1>2. /\ history' \in Seq(Held) /\ version' = version + 1 /\ policy' = p
        /\ \A i \in 1 .. version : history'[i] = history[i]
    BY <1>1, AppendPolicy DEF version, policy
  <1>3. TypeOK'
    <2>1. request' \in [Conns -> {NoRequest} \cup [kind : Kinds, at : 1 .. version', by : 0 .. version']]
      BY <1>1, <1>2 DEF TypeOK
    <2> QED  BY <1>1, <1>2, <2>1 DEF TypeOK, Unused
  <1>4. PermitInv'
    BY <1>1, <1>2 DEF PermitInv, TypeOK
  <1>5. RequestsEnforced'
    <2> SUFFICES ASSUME NEW c \in Conns, request[c] # NoRequest, request[c].by # 0
                 PROVE  /\ request[c].by >= request[c].at
                        /\ Route(history'[request[c].by], request[c].kind) # NoRoute
                        /\ \E a \in Route(history'[request[c].by], request[c].kind).authzs :
                              IsAuthorized(a, net[c], status[c])
      BY Zenon DEF RequestsEnforced
    <2>1. request[c].by \in 1 .. version
      BY <1>1 DEF TypeOK
    <2>2. history'[request[c].by] = history[request[c].by]
      BY <1>2, <2>1, Zenon
    <2> QED  BY <2>2 DEF RequestsEnforced
  <1>6. WithinLimits'
    <2>1. p.limits \in Limits
      BY <1>1, HeldLimits
    <2> QED  BY <1>2, <2>1, UnusedWithin DEF WithinLimits
  <1> QED  BY <1>2, <1>3, <1>4, <1>5, <1>6 DEF StageInv

\* Steps that leave the watch and the requests alone, but for one connection.
LEMMA GotoIInv ==
  ASSUME IInv, NEW c \in Conns, NEW stage \in Stages, NEW s \in Statuses, Goto(c, stage),
         Learn(c, s) \/ status' = status,
         request[c] = NoRequest,
         stage \in {"permitted", "open"} => /\ status' = status
                                            /\ Permits(policy, c) \/ seen[c] # version
  PROVE  IInv'
  <1> USE DEF IInv, Goto, Learn
  <1>1. version' = version /\ policy' = policy
    BY DEF version, policy
  <1>2. TypeOK'
    <2>1. pc' \in [Conns -> Stages]
      BY DEF TypeOK
    <2>2. status' \in [Conns -> Statuses]
      BY DEF TypeOK
    <2> QED  BY <1>1, <2>1, <2>2 DEF TypeOK
  <1>3. \A d \in Conns : d # c => pc'[d] = pc[d] /\ status'[d] = status[d]
    BY DEF TypeOK
  <1>4. PermitInv'
    <2> SUFFICES ASSUME NEW d \in Conns, pc'[d] \in {"permitted", "open"}
                 PROVE  CheckAuthorized(policy, net[d], status'[d]) \/ seen[d] # version
      BY <1>1 DEF PermitInv, Permits
    <2>1. CASE d = c
      BY <2>1 DEF Permits, TypeOK
    <2>2. CASE d # c
      BY <1>3, <2>2 DEF PermitInv, Permits
    <2> QED  BY <2>1, <2>2
  <1>5. StageInv'
    BY <1>3 DEF StageInv
  <1>6. RequestsEnforced'
    <2> SUFFICES ASSUME NEW d \in Conns, request[d] # NoRequest, request[d].by # 0
                 PROVE  /\ request[d].by >= request[d].at
                        /\ Route(history[request[d].by], request[d].kind) # NoRoute
                        /\ \E a \in Route(history[request[d].by], request[d].kind).authzs :
                              IsAuthorized(a, net[d], status'[d])
      BY DEF RequestsEnforced
    <2>1. status'[d] = status[d]
      BY <1>3
    <2> QED  BY <2>1 DEF RequestsEnforced
  <1>7. WithinLimits'
    BY <1>1 DEF WithinLimits
  <1> QED  BY <1>2, <1>4, <1>5, <1>6, <1>7

\* Only connections with the HTTP stack have requests.
LEMMA NoRequestYet ==
  ASSUME IInv, NEW c \in Conns, pc[c] # "http"
  PROVE  request[c] = NoRequest
  BY DEF IInv, StageInv

\* A connection's way from its detection to its end.
LEMMA WayIInv ==
  ASSUME IInv, NEW c \in Conns,
         \/ SwitchOpaque(c) \/ SwitchTls(c) \/ Switch(c) \/ SwitchTimeout(c)
         \/ Authorize(c) \/ Call(c) \/ Recheck(c) \/ Close(c) \/ ReadHeader(c)
         \/ \E s \in Statuses : DetectTls(c, s) \/ DirectTls(c, s)
         \/ \E stage \in Stages : DetectHttp(c, stage) \/ DirectHeader(c, stage)
  PROVE  IInv'
  <1>0. status[c] \in Statuses
    BY DEF IInv, TypeOK
  <1>1. CASE SwitchOpaque(c)
    BY <1>1, <1>0, NoRequestYet, GotoIInv DEF SwitchOpaque, Stages, Statuses
  <1>2. CASE SwitchTls(c)
    BY <1>2, <1>0, NoRequestYet, GotoIInv DEF SwitchTls, Stages
  <1>3. CASE Switch(c)
    <2>1. SwitchHttp(policy, status[c]) \in {"detectHttp", "http", "panicked"}
      BY DEF SwitchHttp
    <2> QED  BY <1>3, <2>1, <1>0, NoRequestYet, GotoIInv DEF Switch, Stages
  <1>4. CASE SwitchTimeout(c)
    BY <1>4, <1>0, NoRequestYet, GotoIInv DEF SwitchTimeout, Stages
  <1>5. CASE Authorize(c)
    <2>1. CASE CheckAuthorized(policy, net[c], status[c])
      BY <1>5, <2>1, <1>0, NoRequestYet, GotoIInv DEF Authorize, Permits, Stages
    <2>2. CASE ~CheckAuthorized(policy, net[c], status[c])
      BY <1>5, <2>2, <1>0, NoRequestYet, GotoIInv DEF Authorize, Stages
    <2> QED  BY <2>1, <2>2
  <1>6. CASE Call(c)
    <2>1. Permits(policy, c) \/ seen[c] # version
      BY <1>6 DEF IInv, PermitInv, Call
    <2> QED  BY <1>6, <2>1, <1>0, NoRequestYet, GotoIInv DEF Call, Stages
  <1>7. CASE Recheck(c)
    <2>1. CASE CheckAuthorized(policy, net[c], status[c])
      BY <1>7, <2>1, <1>0, NoRequestYet, GotoIInv, Zenon DEF Recheck, Permits, Stages
    <2>2. CASE ~CheckAuthorized(policy, net[c], status[c])
      BY <1>7, <2>2, <1>0, NoRequestYet, GotoIInv DEF Recheck, Stages
    <2> QED  BY <2>1, <2>2
  <1>8. CASE Close(c)
    BY <1>8, <1>0, GotoIInv DEF Close, Stages
  <1>9. ASSUME NEW s \in Statuses, DetectTls(c, s) \/ DirectTls(c, s) PROVE IInv'
    <2>1. CASE DetectTls(c, s)
      BY <2>1, NoRequestYet, GotoIInv DEF DetectTls, Stages
    <2>2. CASE DirectTls(c, s)
      BY <2>2, NoRequestYet, GotoIInv DEF DirectTls, Stages
    <2> QED  BY <1>9, <2>1, <2>2
  <1>10. ASSUME NEW stage \in Stages, DetectHttp(c, stage) \/ DirectHeader(c, stage) PROVE IInv'
    <2>1. CASE DetectHttp(c, stage)
      BY <2>1, <1>0, NoRequestYet, GotoIInv DEF DetectHttp
    <2>2. CASE DirectHeader(c, stage)
      BY <2>2, <1>0, NoRequestYet, GotoIInv DEF DirectHeader
    <2> QED  BY <1>10, <2>1, <2>2
  <1>11. CASE ReadHeader(c)
    <2>1. PICK stage \in {"direct", "closed"} : Goto(c, stage)
      BY <1>11 DEF ReadHeader
    <2> QED  BY <1>11, <2>1, <1>0, NoRequestYet, GotoIInv DEF ReadHeader, Stages
  <1> QED  BY <1>1, <1>2, <1>3, <1>4, <1>5, <1>6, <1>7, <1>8, <1>9, <1>10, <1>11

\* A new connection has seen the first version only; its check is still to come.
LEMMA AcceptIInv ==
  ASSUME IInv, NEW c \in Conns, NEW n \in Nets, Accept(c, n)
  PROVE  IInv'
  <1> USE DEF IInv, Accept, Learn
  <1>1. version' = version /\ policy' = policy /\ version \in Nat /\ version >= 1
    BY DEF version, policy, TypeOK
  <1>2. PICK stage \in {"accepted", "directTls"} : pc' = [pc EXCEPT ![c] = stage]
    OBVIOUS
  <1>3. TypeOK'
    <2>1. pc' \in [Conns -> Stages] /\ status' \in [Conns -> Statuses]
      BY <1>2 DEF TypeOK, Stages, Statuses
    <2>2. net' \in [Conns -> Nets] /\ seen' \in [Conns -> 1 .. version]
      BY <1>1 DEF TypeOK
    <2> QED  BY <1>1, <2>1, <2>2 DEF TypeOK
  <1>4. \A d \in Conns : d # c => /\ pc'[d] = pc[d] /\ status'[d] = status[d]
                                  /\ net'[d] = net[d] /\ seen'[d] = seen[d]
    BY <1>2 DEF TypeOK
  <1>5. pc'[c] \in {"accepted", "directTls"} /\ request[c] = NoRequest
    BY <1>2 DEF TypeOK, StageInv
  <1>6. PermitInv'
    BY <1>1, <1>4, <1>5 DEF PermitInv, Permits
  <1>7. StageInv'
    BY <1>4, <1>5 DEF StageInv
  <1>8. RequestsEnforced'
    <2> SUFFICES ASSUME NEW d \in Conns, request[d] # NoRequest, request[d].by # 0
                 PROVE  /\ request[d].by >= request[d].at
                        /\ Route(history[request[d].by], request[d].kind) # NoRoute
                        /\ \E a \in Route(history[request[d].by], request[d].kind).authzs :
                              IsAuthorized(a, net'[d], status'[d])
      BY DEF RequestsEnforced
    <2>1. status'[d] = status[d] /\ net'[d] = net[d]
      BY <1>4, <1>5
    <2> QED  BY <2>1 DEF RequestsEnforced
  <1>9. WithinLimits'
    BY <1>1 DEF WithinLimits
  <1> QED  BY <1>3, <1>6, <1>7, <1>8, <1>9

\* Noticing a change takes the connection out of the loop until it is checked.
LEMMA ChangedIInv ==
  ASSUME IInv, NEW c \in Conns, Changed(c)
  PROVE  IInv'
  <1> USE DEF IInv, Changed
  <1>1. version' = version /\ policy' = policy /\ version \in Nat /\ version >= 1
    BY DEF version, policy, TypeOK
  <1>2. TypeOK'
    <2>1. pc' \in [Conns -> Stages] /\ seen' \in [Conns -> 1 .. version]
      BY <1>1 DEF TypeOK, Stages
    <2> QED  BY <1>1, <2>1 DEF TypeOK
  <1>3. PermitInv'
    BY <1>1 DEF PermitInv, Permits, TypeOK
  <1>4. StageInv'
    BY DEF StageInv, TypeOK
  <1>5. RequestsEnforced'
    BY DEF RequestsEnforced
  <1>6. WithinLimits'
    BY <1>1 DEF WithinLimits
  <1> QED  BY <1>2, <1>3, <1>4, <1>5, <1>6

\* The end of discovery changes no policy.
LEMMA UnwatchIInv ==
  ASSUME IInv, Unwatch
  PROVE  IInv'
  <1> USE DEF IInv, Unwatch
  <1>1. version' = version /\ policy' = policy
    BY DEF version, policy
  <1>2. watched' \in BOOLEAN
    BY Zenon
  <1>3. TypeOK'
    BY <1>1, <1>2 DEF TypeOK
  <1>4. PermitInv' /\ StageInv' /\ RequestsEnforced' /\ WithinLimits'
    BY <1>1 DEF PermitInv, Permits, StageInv, RequestsEnforced, WithinLimits
  <1> QED  BY <1>3, <1>4

\* The policy in force is one the watch may hold.
LEMMA PolicyHeld ==
  ASSUME IInv
  PROVE  policy \in Held /\ policy.limits \in Limits
  <1>1. policy \in Held
    BY DEF IInv, TypeOK, version, policy
  <1> QED  BY <1>1, HeldLimits

\* Time gives the limiters room.
LEMMA ReplenishIInv ==
  ASSUME IInv, NEW b \in Buckets, Replenish(b)
  PROVE  IInv'
  <1> USE DEF IInv, Replenish
  <1>1. version' = version /\ policy' = policy
    BY DEF version, policy
  <1>2. TypeOK'
    <2>1. used' \in [Buckets -> Nat]
      BY DEF TypeOK
    <2> QED  BY <1>1, <2>1 DEF TypeOK
  <1>3. WithinLimits'
    BY <1>1, PolicyHeld, LowerWithin, Zenon DEF WithinLimits, TypeOK
  <1>4. PermitInv' /\ StageInv' /\ RequestsEnforced'
    BY <1>1 DEF PermitInv, Permits, StageInv, RequestsEnforced
  <1> QED  BY <1>2, <1>3, <1>4

\* Steps of a request that leave the rate limiter alone.
LEMMA RequestIInv ==
  ASSUME IInv, NEW c \in Conns, pc[c] = "http", UNCHANGED used,
         NEW r \in {NoRequest} \cup Handled, SetRequest(c, r),
         r # NoRequest /\ r.by # 0 =>
            /\ r.by >= r.at
            /\ Route(history[r.by], r.kind) # NoRoute
            /\ \E a \in Route(history[r.by], r.kind).authzs : IsAuthorized(a, net[c], status[c])
  PROVE  IInv'
  <1> USE DEF IInv, SetRequest
  <1>1. version' = version /\ policy' = policy
    BY DEF version, policy
  <1>2. request' \in [Conns -> {NoRequest} \cup Handled]
    BY DEF TypeOK, Handled
  <1>3. TypeOK'
    BY <1>1, <1>2, Zenon DEF TypeOK, Handled
  <1>4. request'[c] = r /\ \A d \in Conns : d # c => request'[d] = request[d]
    BY Zenon DEF TypeOK
  <1>5. PermitInv' /\ WithinLimits'
    BY <1>1, Zenon DEF PermitInv, Permits, WithinLimits
  <1>6. StageInv'
    BY <1>4, Zenon DEF StageInv
  <1>7. RequestsEnforced'
    BY <1>4 DEF RequestsEnforced
  <1> QED  BY <1>3, <1>5, <1>6, <1>7

\* A request arrives, and the policy that is in force then decides about it.
LEMMA RequestStepIInv ==
  ASSUME IInv, NEW c \in Conns,
         (\E kind \in Kinds : Arrive(c, kind)) \/ (\E failure \in BOOLEAN : AuthorizeRequest(c, failure))
  PROVE  IInv'
  <1>1. version \in Nat /\ version >= 1
    BY DEF IInv, TypeOK
  <1>2. ASSUME NEW kind \in Kinds, Arrive(c, kind) PROVE IInv'
    <2> DEFINE r == [kind |-> kind, at |-> version, by |-> 0]
    <2>1. r \in Handled /\ r.by = 0
      BY <1>1 DEF Handled
    <2> QED  BY <1>2, <2>1, RequestIInv, Zenon DEF Arrive
  <1>3. ASSUME NEW failure \in BOOLEAN, AuthorizeRequest(c, failure) PROVE IInv'
    <2>1. request[c] \in Handled
      BY <1>3 DEF IInv, TypeOK, AuthorizeRequest, Handled
    <2>2. CASE Passes(Route(policy, request[c].kind), c, failure)
      <3> DEFINE r == [request[c] EXCEPT !.by = version]
      <3>1. r \in Handled /\ r.by = version /\ r.at = request[c].at /\ r.kind = request[c].kind
        BY <1>1, <2>1 DEF Handled
      <3>2. r.by >= r.at
        BY <1>1, <2>1, <3>1 DEF Handled
      <3>3. history[r.by] = policy
        BY <3>1 DEF policy
      <3>4. SetRequest(c, r) /\ UNCHANGED used /\ pc[c] = "http"
        BY <1>3, <2>2 DEF AuthorizeRequest, PolicyOfRequest
      <3> HIDE DEF r
      <3> QED  BY <2>2, <3>1, <3>2, <3>3, <3>4, RequestIInv DEF Passes
    <2>3. CASE ~Passes(Route(policy, request[c].kind), c, failure)
      BY <1>3, <2>3, RequestIInv DEF AuthorizeRequest, PolicyOfRequest
    <2> QED  BY <2>2, <2>3
  <1> QED  BY <1>2, <1>3

\* The rate limiter counts a request only where there is room.
LEMMA CheckWithin ==
  ASSUME IInv, NEW c \in Conns, CheckRateLimit(c)
  PROVE  Within(policy.limits, used') /\ used' \in [Buckets -> Nat]
  <1> DEFINE l == policy.limits
             b == Scope(c).bucket
             m == Scope(c).limit
             u == Counted(used, "total", l.total)
  <1>1. l \in Limits /\ used \in [Buckets -> Nat] /\ Within(l, used)
    BY PolicyHeld DEF IInv, TypeOK, WithinLimits
  <1>2. /\ b \in Buckets /\ "total" \in Buckets /\ b # "total"
        /\ \/ b = "override" /\ m = l.override
           \/ b \in Ids \cup {NoId} /\ m = l.identity
    BY DistinctIds DEF Scope, ClientId, Buckets
  <1>3. CASE ~HasRoom("total", l.total)
    BY <1>1, <1>3 DEF CheckRateLimit
  <1>4. CASE HasRoom("total", l.total)
    <2>1. Within(l, u) /\ u \in [Buckets -> Nat]
      BY <1>1, <1>2, <1>4, CountedWithin DEF HasRoom
    <2>2. u[b] = used[b]
      BY <1>1, <1>2 DEF Counted
    <2>3. CASE ~HasRoom(b, m)
      BY <1>4, <2>1, <2>3 DEF CheckRateLimit
    <2>4. CASE HasRoom(b, m)
      <3>1. used' = Counted(u, b, m)
        BY <1>4, <2>4 DEF CheckRateLimit
      <3>2. m = Off \/ u[b] < m
        BY <2>2, <2>4 DEF HasRoom
      <3> HIDE DEF u, l, b, m
      <3>3. Within(l, used') /\ used' \in [Buckets -> Nat]
        BY <1>1, <1>2, <2>1, <3>1, <3>2, CountedWithin
      <3> QED  BY <3>3 DEF l
    <2> QED  BY <2>3, <2>4
  <1> QED  BY <1>3, <1>4

\* The end of a request.
LEMMA LimitIInv ==
  ASSUME IInv, NEW c \in Conns, Limit(c)
  PROVE  IInv'
  <1> USE DEF IInv, Limit, SetRequest
  <1>1. version' = version /\ policy' = policy
    BY DEF version, policy
  <1>2. Within(policy.limits, used') /\ used' \in [Buckets -> Nat]
    BY CheckWithin
  <1>3. \A d \in Conns : request'[d] = NoRequest \/ request'[d] = request[d]
    BY DEF TypeOK
  <1>4. TypeOK'
    <2>1. request' \in [Conns -> {NoRequest} \cup [kind : Kinds, at : 1 .. version, by : 0 .. version]]
      BY DEF TypeOK
    <2> QED  BY <1>1, <1>2, <2>1 DEF TypeOK
  <1>5. PermitInv' /\ WithinLimits'
    BY <1>1, <1>2, Zenon DEF PermitInv, Permits, WithinLimits
  <1>6. StageInv' /\ RequestsEnforced'
    BY <1>3, Zenon DEF StageInv, RequestsEnforced
  <1> QED  BY <1>4, <1>5, <1>6

\* Every step preserves the invariant.
LEMMA NextIInv == IInv /\ [Next]_vars => IInv'
  <1> SUFFICES ASSUME IInv, [Next]_vars PROVE IInv'  OBVIOUS
  <1>1. CASE UNCHANGED vars
    <2>1. version' = version /\ policy' = policy
      BY <1>1 DEF vars, version, policy
    <2> QED  BY <1>1, <2>1, Zenon DEF vars, IInv, TypeOK, PermitInv, Permits, StageInv, RequestsEnforced, WithinLimits
  <1>2. ASSUME NEW p \in Policies \cup {Invalid}, Update(p) PROVE IInv'
    BY <1>2, UpdateIInv
  <1>3. CASE Unwatch \/ \E b \in Buckets : Replenish(b)
    BY <1>3, UnwatchIInv, ReplenishIInv
  <1>4. ASSUME NEW c \in Conns, ConnStep(c) PROVE IInv'
    BY <1>4, WayIInv, ChangedIInv, RequestStepIInv, LimitIInv DEF ConnStep
  <1>5. ASSUME NEW c \in Conns, PeerStep(c) PROVE IInv'
    BY <1>5, AcceptIInv, WayIInv, RequestStepIInv DEF PeerStep
  <1> QED  BY <1>1, <1>2, <1>3, <1>4, <1>5 DEF Next

\* The invariant holds in every state.
THEOREM Invariance == Spec => []IInv
  BY InitIInv, NextIInv, PTL DEF Spec

\* Type correctness: no receiver has seen a version that was never sent.
THEOREM TypeCorrect == Spec => []TypeOK
  <1>1. IInv => TypeOK
    BY DEF IInv
  <1> QED  BY <1>1, Invariance, PTL

(***************************************************************************)
(* TcpPolicy: wherever an update comes between the check of a connection,  *)
(* the call and the loop, a connection that the policy in force does not   *)
(* allow has a change still to notice.                                     *)
(***************************************************************************)
THEOREM TcpSafe == Spec => []TcpEnforced
  <1>1. IInv => TcpEnforced
    BY DEF IInv, PermitInv, Permits, TcpEnforced
  <1> QED  BY <1>1, Invariance, PTL

(***************************************************************************)
(* HttpPolicyService and LocalRateLimit: requests are let through by a     *)
(* policy not older than they are, and counted within the limits of the    *)
(* policy in force.                                                        *)
(***************************************************************************)
THEOREM HttpSafe == Spec => []HttpEnforced
  <1>1. IInv => HttpEnforced
    BY DEF IInv, HttpEnforced
  <1> QED  BY <1>1, Invariance, PTL


-----------------------------------------------------------------------------
(* The two tasks of a body                                                 *)

(***************************************************************************)
(* A task that has registered its waker and not run since is still         *)
(* registered or was woken; what the reader did not report is in its       *)
(* hands, on the dirty list or in the driver's, and a driver that has      *)
(* taken the list was woken for what was marked since, or is about to be.  *)
(***************************************************************************)
Woken(t) == waker[t] = TRUE \/ runnable[t] = TRUE

Waiting ==
    /\ reader \in {"registered", "asleep"} => Woken("reader")
    /\ driver \in {"registered", "drained", "asleep"} => Woken("driver")
    /\ driver \in {"drained", "asleep"} /\ dirty = TRUE => runnable["driver"] = TRUE \/ reader = "marked"
    /\ unreported # 0 => dirty = TRUE \/ reader = "credited" \/ driver = "drained"
    /\ reader = "asleep" /\ runnable["reader"] = FALSE => (queued = 0 /\ eof = FALSE) \/ driver = "pushed"

BodyInv == BodyTypeOK /\ WindowKept /\ Waiting

\* Whoever was registered when it is woken will run, and the other task is left alone.
LEMMA WakeEffect ==
    ASSUME BodyTypeOK, NEW t \in Tasks, NEW u \in Tasks, u # t, Wake(t)
    PROVE  /\ waker' \in [Tasks -> BOOLEAN] /\ runnable' \in [Tasks -> BOOLEAN]
           /\ Woken(t) => runnable'[t] = TRUE
           /\ waker'[u] = waker[u] /\ runnable'[u] = runnable[u]
BY Zenon DEF Wake, BodyTypeOK, Woken

LEMMA RegisterEffect ==
    ASSUME BodyTypeOK, NEW t \in Tasks, NEW u \in Tasks, u # t, Register(t)
    PROVE  /\ waker' \in [Tasks -> BOOLEAN]
           /\ Woken(t)'
           /\ waker'[u] = waker[u] /\ runnable' = runnable
BY Zenon DEF Register, BodyTypeOK, Woken

\* A task that is polled has used up its wake-up.
LEMMA RunEffect ==
    ASSUME BodyTypeOK, NEW t \in Tasks, NEW u \in Tasks, u # t, runnable' = [runnable EXCEPT ![t] = FALSE]
    PROVE  runnable' \in [Tasks -> BOOLEAN] /\ runnable'[u] = runnable[u]
BY Zenon DEF BodyTypeOK

LEMMA RecheckEffect ==
    ASSUME BodyTypeOK, BodyRecheck
    PROVE  /\ runnable' \in [Tasks -> BOOLEAN]
           /\ runnable'["driver"] = runnable["driver"]
           /\ runnable["reader"] = TRUE => runnable'["reader"] = TRUE
           /\ runnable'["reader"] = FALSE => ~(queued > 0) /\ eof = FALSE
<1>1. "driver" \in Tasks /\ "reader" \in Tasks /\ "driver" # "reader"
  BY DEF Tasks
<1> QED
  BY <1>1, Zenon DEF BodyRecheck, BodyTypeOK

LEMMA BodyTypeNext ==
    ASSUME Window \in Nat, Chunks \in Nat, BodyTypeOK, WindowKept, [BodyNext]_bodyVars
    PROVE  BodyTypeOK' /\ WindowKept'
<1>0. "driver" \in Tasks /\ "reader" \in Tasks /\ "driver" # "reader"
  BY DEF Tasks
<1>n. /\ arrived \in Int /\ queued \in Int /\ unreported \in Int /\ credits \in Int
      /\ InReader \in 0 .. 1
  BY DEF BodyTypeOK, InReader
<1> USE DEF bodyVars, chunks, flow
<1>1. CASE DriverWakes
  <2>1. runnable' \in [Tasks -> BOOLEAN]
    BY <1>0, <1>1, RunEffect, Zenon DEF DriverWakes, BodyTypeOK
  <2> QED
    BY <1>1, <2>1 DEF DriverWakes, BodyTypeOK, WindowKept, InReader
<1>2. CASE Push
  BY <1>2, <1>n DEF Push, BodyTypeOK, WindowKept, InReader
<1>3. CASE WakeReader
  <2>1. waker' \in [Tasks -> BOOLEAN] /\ runnable' \in [Tasks -> BOOLEAN]
    BY <1>0, <1>3, WakeEffect, Zenon DEF WakeReader
  <2> QED
    BY <1>3, <2>1 DEF WakeReader, BodyTypeOK, WindowKept, InReader
<1>4. CASE RegisterDriver
  <2>1. waker' \in [Tasks -> BOOLEAN] /\ runnable' = runnable
    BY <1>0, <1>4, RegisterEffect DEF RegisterDriver
  <2> QED
    BY <1>4, <2>1 DEF RegisterDriver, BodyTypeOK, WindowKept, InReader
<1>5. CASE TakeDirty
  BY <1>5, Zenon DEF TakeDirty, BodyTypeOK, WindowKept, InReader
<1>6. CASE TakeConsumed
  BY <1>6, <1>n DEF TakeConsumed, BodyTypeOK, WindowKept, InReader
<1>7. CASE ReaderWakes
  <2>1. runnable' \in [Tasks -> BOOLEAN]
    BY <1>0, <1>7, RunEffect, Zenon DEF ReaderWakes
  <2> QED
    BY <1>7, <2>1 DEF ReaderWakes, BodyTypeOK, WindowKept, InReader
<1>8. CASE Poll
  BY <1>8, <1>n DEF Poll, BodyTypeOK, WindowKept, InReader
<1>9. CASE RegisterReader
  <2>1. waker' \in [Tasks -> BOOLEAN] /\ runnable' = runnable
    BY <1>0, <1>9, RegisterEffect DEF RegisterReader
  <2> QED
    BY <1>9, <2>1 DEF RegisterReader, BodyTypeOK, WindowKept, InReader
<1>10. CASE BodyRecheck
  <2>1. runnable' \in [Tasks -> BOOLEAN]
    BY <1>10, RecheckEffect
  <2>2. UNCHANGED <<arrived, chunks, flow, driver, waker>> /\ reader = "registered" /\ reader' = "asleep"
    BY <1>10 DEF BodyRecheck
  <2> QED
    BY <2>1, <2>2 DEF BodyTypeOK, WindowKept, InReader
<1>11. CASE FetchAdd
  BY <1>11, <1>n DEF FetchAdd, BodyTypeOK, WindowKept, InReader
<1>12. CASE Mark
  BY <1>12 DEF Mark, BodyTypeOK, WindowKept, InReader
<1>13. CASE WakeDriver
  <2>1. waker' \in [Tasks -> BOOLEAN] /\ runnable' \in [Tasks -> BOOLEAN]
    BY <1>0, <1>13, WakeEffect, Zenon DEF WakeDriver
  <2> QED
    BY <1>13, <2>1 DEF WakeDriver, BodyTypeOK, WindowKept, InReader
<1>14. CASE Die
  BY <1>14 DEF Die, BodyTypeOK, WindowKept, InReader
<1>15. CASE UNCHANGED bodyVars
  BY <1>15 DEF BodyTypeOK, WindowKept, InReader
<1> QED
  BY <1>1, <1>2, <1>3, <1>4, <1>5, <1>6, <1>7, <1>8, <1>9, <1>10, <1>11, <1>12, <1>13, <1>14, <1>15, Zenon
     DEF BodyNext, DriverStep, ReaderStep, Ended

LEMMA WaitingNext ==
    ASSUME BodyInv, [BodyNext]_bodyVars
    PROVE  Waiting'
<1>0. "driver" \in Tasks /\ "reader" \in Tasks /\ "driver" # "reader"
  BY DEF Tasks
<1>t. BodyTypeOK /\ Waiting
  BY DEF BodyInv
<1>n. queued \in Nat /\ unreported \in Nat
  BY <1>t DEF BodyTypeOK
<1>b. /\ \A t \in Tasks : waker[t] \in BOOLEAN /\ runnable[t] \in BOOLEAN
      /\ dirty \in BOOLEAN /\ eof \in BOOLEAN
  BY <1>t, Zenon DEF BodyTypeOK
<1>x. Waiting
  BY <1>t
<1> USE DEF bodyVars, chunks, flow
<1>1. CASE DriverWakes
  <2>1. runnable'["reader"] = runnable["reader"]
    BY <1>0, <1>1, <1>t, RunEffect, Zenon DEF DriverWakes
  <2> QED
    BY <1>1, <1>x, <2>1 DEF DriverWakes, Waiting, Woken
<1>2. CASE Push
  BY <1>2, <1>x DEF Push, Waiting, Woken
<1>3. CASE WakeReader
  <2>1. /\ Woken("reader") => runnable'["reader"] = TRUE
        /\ waker'["driver"] = waker["driver"] /\ runnable'["driver"] = runnable["driver"]
    BY <1>0, <1>3, <1>t, WakeEffect, Zenon DEF WakeReader
  <2> QED
    BY <1>3, <1>x, <2>1 DEF WakeReader, Waiting, Woken
<1>4. CASE RegisterDriver
  <2>1. /\ waker'["driver"] = TRUE \/ runnable'["driver"] = TRUE
        /\ waker'["reader"] = waker["reader"] /\ runnable' = runnable
    BY <1>0, <1>4, <1>t, RegisterEffect, Zenon DEF RegisterDriver, Woken
  <2> QED
    BY <1>4, <1>x, <2>1 DEF RegisterDriver, Waiting, Woken
<1>5. CASE TakeDirty
  BY <1>5, <1>x, <1>b DEF TakeDirty, Waiting, Woken
<1>6. CASE TakeConsumed
  BY <1>6, <1>x DEF TakeConsumed, Waiting, Woken
<1>7. CASE ReaderWakes
  <2>1. runnable'["driver"] = runnable["driver"]
    BY <1>0, <1>7, <1>t, RunEffect DEF ReaderWakes
  <2> QED
    BY <1>7, <1>x, <2>1 DEF ReaderWakes, Waiting, Woken
<1>8. CASE Poll
  BY <1>8, <1>x DEF Poll, Waiting, Woken
<1>9. CASE RegisterReader
  <2>1. /\ waker'["reader"] = TRUE \/ runnable'["reader"] = TRUE
        /\ waker'["driver"] = waker["driver"] /\ runnable' = runnable
    BY <1>0, <1>9, <1>t, RegisterEffect, Zenon DEF RegisterReader, Woken
  <2> QED
    BY <1>9, <1>x, <2>1 DEF RegisterReader, Waiting, Woken
<1>10. CASE BodyRecheck
  <2>1. /\ runnable'["driver"] = runnable["driver"]
        /\ runnable["reader"] = TRUE => runnable'["reader"] = TRUE
        /\ runnable'["reader"] = FALSE => queued = 0 /\ eof = FALSE
    <3>1. ~(queued > 0) => queued = 0
      BY <1>n
    <3> QED
      BY <1>10, <1>t, <3>1, RecheckEffect, Zenon
  <2>2. UNCHANGED <<arrived, chunks, flow, driver, waker>> /\ reader = "registered" /\ reader' = "asleep"
    BY <1>10 DEF BodyRecheck
  <2> QED
    BY <1>x, <2>1, <2>2 DEF Waiting, Woken
<1>11. CASE FetchAdd
  BY <1>11, <1>x DEF FetchAdd, Waiting, Woken
<1>12. CASE Mark
  BY <1>12, <1>x DEF Mark, Waiting, Woken
<1>13. CASE WakeDriver
  <2>1. /\ Woken("driver") => runnable'["driver"] = TRUE
        /\ waker'["reader"] = waker["reader"] /\ runnable'["reader"] = runnable["reader"]
    BY <1>0, <1>13, <1>t, WakeEffect, Zenon DEF WakeDriver
  <2> QED
    BY <1>13, <1>x, <2>1 DEF WakeDriver, Waiting, Woken
<1>14. CASE Die
  BY <1>14, <1>x DEF Die, Waiting, Woken
<1>15. CASE UNCHANGED bodyVars
  BY <1>15, <1>x DEF Waiting, Woken
<1> QED
  BY <1>1, <1>2, <1>3, <1>4, <1>5, <1>6, <1>7, <1>8, <1>9, <1>10, <1>11, <1>12, <1>13, <1>14, <1>15, Zenon
     DEF BodyNext, DriverStep, ReaderStep, Ended

LEMMA BodyInvHolds == BodySpec => []BodyInv
<1> USE BodyConstants
<1>1. BodyInit => BodyInv
  <2> SUFFICES ASSUME BodyInit PROVE BodyInv
    OBVIOUS
  <2>1. waker \in [Tasks -> BOOLEAN] /\ runnable \in [Tasks -> BOOLEAN]
    BY Zenon DEF BodyInit
  <2>2. BodyTypeOK
    <3>1. 0 \in 0 .. Chunks /\ 0 \in 0 .. Window /\ Window \in 0 .. Window
      OBVIOUS
    <3> QED
      BY <2>1, <3>1, Zenon DEF BodyInit, BodyTypeOK
  <2>3. WindowKept
    BY DEF BodyInit, WindowKept, InReader
  <2>4. Waiting
    BY DEF BodyInit, Waiting
  <2> QED
    BY <2>2, <2>3, <2>4 DEF BodyInv
<1>2. BodyInv /\ [BodyNext]_bodyVars => BodyInv'
  BY BodyTypeNext, WaitingNext DEF BodyInv
<1> QED
  BY <1>1, <1>2, PTL DEF BodySpec

(***************************************************************************)
(* Whatever the length of the body and the window: the reader of a body    *)
(* (RecvBody::poll_frame) and the driver of its connection never sleep     *)
(* through what the other one did, although each checks, registers its     *)
(* waker and marks its work in separate atomic steps; and no part of the   *)
(* window is lost between them: a chunk takes one credit when it arrives   *)
(* and gives it back once, after it was read.                              *)
(***************************************************************************)
THEOREM NoLostWakeup == BodySpec => []BodyNotLost
<1>1. BodyInv => BodyNotLost
  <2> SUFFICES ASSUME BodyInv PROVE BodyNotLost
    OBVIOUS
  <2>0. "driver" \in Tasks /\ "reader" \in Tasks
    BY DEF Tasks
  <2>1. /\ runnable["driver"] \in BOOLEAN /\ runnable["reader"] \in BOOLEAN
        /\ dirty \in BOOLEAN /\ eof \in BOOLEAN
    BY <2>0, Zenon DEF BodyInv, BodyTypeOK
  <2>2. Waiting
    BY DEF BodyInv
  <2>3. ReaderNotLost
    BY <2>1, <2>2, Zenon DEF Waiting, ReaderNotLost
  <2>4. driver = "asleep" => driver \in {"drained", "asleep"} /\ driver # "drained"
    OBVIOUS
  <2>5. reader = "credited" \/ reader = "marked" => reader \in {"credited", "marked"}
    OBVIOUS
  <2>6. DriverNotLost
    BY <2>1, <2>2, <2>4, <2>5, Zenon DEF Waiting, DriverNotLost
  <2> QED
    BY <2>3, <2>6 DEF BodyInv, BodyNotLost
<1> QED
  BY <1>1, BodyInvHolds, PTL

(***************************************************************************)
(* The state of a body and its two tasks has its type; in particular       *)
(* neither the queue nor the unreported bytes outgrow the window.          *)
(***************************************************************************)
THEOREM BodyTypeCorrect == BodySpec => []BodyTypeOK
<1>1. BodyInv => BodyTypeOK
  BY DEF BodyInv
<1> QED
  BY <1>1, BodyInvHolds, PTL

-----------------------------------------------------------------------------
(* The client driver                                                       *)

Distinct(s) == \A i, j \in 1 .. Len(s) : s[i] = s[j] => i = j

LEMMA InRange ==
    ASSUME NEW S, NEW s \in Seq(S), NEW x
    PROVE  x \in Range(s) <=> \E i \in 1 .. Len(s) : s[i] = x
<1>1. DOMAIN s = 1 .. Len(s)
  OBVIOUS
<1> QED
  BY <1>1 DEF Range

LEMMA Appended ==
    ASSUME NEW S, NEW s \in Seq(S), NEW e \in S
    PROVE  /\ Append(s, e) \in Seq(S) /\ Len(Append(s, e)) = Len(s) + 1
           /\ \A x : x \in Range(Append(s, e)) <=> x \in Range(s) \/ x = e
           /\ Distinct(s) /\ e \notin Range(s) => Distinct(Append(s, e))
<1>1. /\ Append(s, e) \in Seq(S) /\ Len(s) \in Nat /\ Len(Append(s, e)) = Len(s) + 1
      /\ \A i \in 1 .. Len(s) : Append(s, e)[i] = s[i]
      /\ Append(s, e)[Len(s) + 1] = e
  OBVIOUS
<1>2. ASSUME NEW x PROVE x \in Range(Append(s, e)) <=> x \in Range(s) \/ x = e
  BY <1>1 DEF Range
<1>3. Distinct(s) /\ e \notin Range(s) => Distinct(Append(s, e))
  BY <1>1 DEF Range, Distinct
<1> QED
  BY <1>1, <1>2, <1>3

LEMMA Taken ==
    ASSUME NEW S, NEW s \in Seq(S), s # << >>
    PROVE  /\ Head(s) \in S /\ Tail(s) \in Seq(S) /\ Len(Tail(s)) = Len(s) - 1
           /\ Head(s) \in Range(s)
           /\ \A x : x \in Range(s) => x \in Range(Tail(s)) \/ x = Head(s)
           /\ \A x : x \in Range(Tail(s)) => x \in Range(s)
           /\ Distinct(s) => Distinct(Tail(s)) /\ Head(s) \notin Range(Tail(s))
<1>1. /\ Head(s) \in S /\ Tail(s) \in Seq(S) /\ Len(s) \in Nat \ {0} /\ Len(Tail(s)) = Len(s) - 1
      /\ \A i \in 1 .. Len(Tail(s)) : Tail(s)[i] = s[i + 1]
      /\ Head(s) = s[1]
  BY HeadTailProperties, EmptySeq
<1>2. Head(s) \in Range(s)
  BY <1>1 DEF Range
<1>3. ASSUME NEW x, x \in Range(s), x # Head(s) PROVE x \in Range(Tail(s))
  <2>1. PICK i \in 1 .. Len(s) : s[i] = x
    BY <1>3 DEF Range
  <2>2. i - 1 \in 1 .. Len(Tail(s)) /\ (i - 1) + 1 = i
    BY <1>1, <1>3, <2>1
  <2>3. Tail(s)[i - 1] = x
    BY <1>1, <2>1, <2>2
  <2> QED
    BY <1>1, <2>2, <2>3, InRange, Zenon
<1>4. ASSUME NEW x, x \in Range(Tail(s)) PROVE x \in Range(s)
  BY <1>1, <1>4 DEF Range
<1>5. ASSUME Distinct(s) PROVE Distinct(Tail(s))
  BY <1>1, <1>5 DEF Distinct
<1>6. ASSUME Distinct(s), Head(s) \in Range(Tail(s)) PROVE FALSE
  BY <1>1, <1>6 DEF Distinct, Range
<1> QED
  BY <1>1, <1>2, <1>3, <1>4, <1>5, <1>6

LEMMA Joined ==
    ASSUME NEW S, NEW s \in Seq(S), NEW t \in Seq(S), NEW e \in S
    PROVE  /\ s \o t \o <<e>> \in Seq(S)
           /\ \A x : x \in Range(s) => x \in Range(s \o t \o <<e>>)
           /\ e \in Range(s \o t \o <<e>>)
<1>1. /\ s \o t \in Seq(S) /\ Len(s) \in Nat /\ Len(s \o t) \in Nat /\ Len(s) <= Len(s \o t)
      /\ \A i \in 1 .. Len(s) : (s \o t)[i] = s[i]
  BY ConcatProperties, LenProperties
<1>2. PICK u \in Seq(S) : u = s \o t
  BY <1>1, Zenon
<1>3. /\ u \o <<e>> \in Seq(S) /\ Len(u \o <<e>>) = Len(u) + 1
      /\ \A i \in 1 .. Len(u) : (u \o <<e>>)[i] = u[i]
      /\ (u \o <<e>>)[Len(u) + 1] = e
  OBVIOUS
<1>4. e \in Range(u \o <<e>>)
  <2>1. Len(u) + 1 \in 1 .. Len(u \o <<e>>)
    BY <1>1, <1>2, <1>3
  <2> QED
    BY <1>3, <2>1, InRange, Zenon
<1>5. ASSUME NEW x, x \in Range(s) PROVE x \in Range(u \o <<e>>)
  <2>1. PICK i \in 1 .. Len(s) : s[i] = x
    BY <1>5, InRange
  <2>2. i \in 1 .. Len(u \o <<e>>) /\ (u \o <<e>>)[i] = x
    BY <1>1, <1>2, <1>3, <2>1
  <2> QED
    BY <1>3, <2>2, InRange, Zenon
<1> QED
  BY <1>2, <1>3, <1>4, <1>5

Actions == [kind : {"head", "malformed", "closed"}, req : Requests]

(***************************************************************************)
(* A request is in the channel or among the pending ones, and once: what   *)
(* resolves it there leaves no second oneshot behind.                      *)
(***************************************************************************)
ClosedQueued(r) == Act("closed", r) \in Range(actions)

Once ==
    /\ Distinct(queue)
    /\ \A r \in pending : r \notin Range(queue)
    /\ \A r \in Requests : caller[r] = "waiting" <=> Dropped(r)
    /\ \A r \in pending : stream[r] = "open" \/ ClosedQueued(r)

ClientInv == ClientTypeOK /\ Once

LEMMA ClientTypeNext ==
    ASSUME QueueCap \in Nat, ClientTypeOK, [ClientNext]_clientVars
    PROVE  ClientTypeOK'
<1> USE DEF clientVars, driverVars, Running
<1>1. ASSUME NEW r \in Requests, SendRequest(r) PROVE ClientTypeOK'
  <2>1. caller' \in [Requests -> {"idle", "waiting", "response", "reset", "refused", "closed"}]
    BY <1>1, Zenon DEF SendRequest, ClientTypeOK
  <2>2. queue' \in Seq(Requests) /\ Len(queue') <= QueueCap
    <3>1. CASE UNCHANGED queue
      BY <3>1 DEF ClientTypeOK
    <3>2. CASE Len(queue) < QueueCap /\ queue' = Append(queue, r)
      BY <3>2, Appended, LenProperties DEF ClientTypeOK
    <3> QED
      BY <1>1, <3>1, <3>2, Zenon DEF SendRequest
  <2> QED
    BY <1>1, <2>1, <2>2 DEF SendRequest, ClientTypeOK
<1>2. CASE DropHandles
  BY <1>2, Zenon DEF DropHandles, ClientTypeOK
<1>3. CASE Submit
  <2>1. Head(queue) \in Requests /\ queue' \in Seq(Requests) /\ Len(queue') <= QueueCap
    BY <1>3, Taken, LenProperties DEF Submit, ClientTypeOK
  <2>2. /\ caller' \in [Requests -> {"idle", "waiting", "response", "reset", "refused", "closed"}]
        /\ stream' \in [Requests -> {"none", "open", "closed"}]
        /\ pending' \subseteq Requests
    BY <1>3, <2>1, Zenon DEF Submit, ClientTypeOK
  <2> QED
    BY <1>3, <2>1, <2>2 DEF Submit, ClientTypeOK
<1>4. CASE NoHandles
  BY <1>4 DEF NoHandles, ClientTypeOK
<1>5. CASE HandleAction
  <2>1. Head(actions) \in Actions /\ actions' \in Seq(Actions)
    BY <1>5, Taken, Zenon DEF HandleAction, ClientTypeOK, Actions
  <2>2. caller' \in [Requests -> {"idle", "waiting", "response", "reset", "refused", "closed"}]
    BY <1>5, <2>1 DEF HandleAction, Outcome, ClientTypeOK, Actions
  <2>3. pending' \subseteq Requests
    BY <1>5, Zenon DEF HandleAction, ClientTypeOK
  <2>4. UNCHANGED <<queue, handles, peerEof, stream, closing, result>>
    BY <1>5 DEF HandleAction
  <2> QED
    BY <2>1, <2>2, <2>3, <2>4 DEF ClientTypeOK, Actions
<1>6. ASSUME NEW r \in Requests, PeerAnswers(r) PROVE ClientTypeOK'
  <2>1. actions' \in Seq(Actions)
    <3>1. PICK head \in {<< >>, <<Act("head", r)>>, <<Act("malformed", r)>>} :
              actions' = actions \o head \o <<Act("closed", r)>>
      BY <1>6 DEF PeerAnswers
    <3>2. Act("head", r) \in Actions /\ Act("malformed", r) \in Actions /\ Act("closed", r) \in Actions
      BY DEF Act, Actions
    <3>3. head \in Seq(Actions)
      <4>1. << >> \in Seq(Actions) /\ \A a \in Actions : <<a>> \in Seq(Actions)
        OBVIOUS
      <4> QED
        BY <3>2, <4>1, Zenon
    <3>4. actions \in Seq(Actions)
      BY DEF ClientTypeOK, Actions
    <3> QED
      BY <3>1, <3>2, <3>3, <3>4, Joined
  <2>2. stream' \in [Requests -> {"none", "open", "closed"}]
    BY <1>6, Zenon DEF PeerAnswers, ClientTypeOK
  <2>3. UNCHANGED <<caller, queue, handles, peerEof, pending, closing, result>>
    BY <1>6 DEF PeerAnswers
  <2> QED
    BY <2>1, <2>2, <2>3 DEF ClientTypeOK, Actions
<1>7. CASE PeerEof
  BY <1>7 DEF PeerEof, ClientTypeOK
<1>8. CASE Fails
  <2>1. caller' \in [Requests -> {"idle", "waiting", "response", "reset", "refused", "closed"}]
    BY <1>8, Zenon DEF Fails, ClientTypeOK
  <2>2. queue' \in Seq(Requests) /\ Len(queue') <= QueueCap /\ actions' \in Seq(Actions)
    BY <1>8 DEF Fails
  <2>3. pending' = {} /\ result' = "error" /\ UNCHANGED <<handles, peerEof, stream, closing>>
    BY <1>8 DEF Fails
  <2> QED
    BY <2>1, <2>2, <2>3 DEF ClientTypeOK, Actions
<1>9. CASE Ends
  BY <1>9 DEF Ends, ClientTypeOK
<1>10. CASE UNCHANGED clientVars
  BY <1>10 DEF ClientTypeOK
<1> QED
  BY <1>1, <1>2, <1>3, <1>4, <1>5, <1>6, <1>7, <1>8, <1>9, <1>10, Zenon
     DEF ClientNext, ClientStep, Quiet

LEMMA OnceNext ==
    ASSUME ClientInv, [ClientNext]_clientVars
    PROVE  Once'
<1>t. ClientTypeOK /\ Once
  BY DEF ClientInv
<1>q. queue \in Seq(Requests) /\ pending \subseteq Requests /\ actions \in Seq(Actions)
  BY <1>t DEF ClientTypeOK, Actions
<1>c. DOMAIN caller = Requests /\ DOMAIN stream = Requests
  BY <1>t DEF ClientTypeOK
<1> USE DEF clientVars, driverVars, Running, Dropped, ClosedQueued
<1>1. ASSUME NEW r \in Requests, SendRequest(r) PROVE Once'
  <2>1. CASE UNCHANGED queue
    <3>1. caller' = [caller EXCEPT ![r] = "closed"] \/ queue' = Append(queue, r)
      BY <1>1, Zenon DEF SendRequest
    <3>2. queue' # Append(queue, r)
      BY <1>q, <2>1, Appended, LenProperties
    <3>3. ~Dropped(r)
      BY <1>1, <1>t DEF SendRequest, Once
    <3>4. \A d \in Requests : caller'[d] = "waiting" <=> caller[d] = "waiting"
      BY <1>1, <1>c, <3>1, <3>2 DEF SendRequest
    <3>5. UNCHANGED <<queue, pending, stream, actions>>
      BY <1>1, <2>1 DEF SendRequest
    <3> QED
      BY <1>t, <3>4, <3>5, Zenon DEF Once
  <2>2. CASE queue' = Append(queue, r) /\ caller' = [caller EXCEPT ![r] = "waiting"]
    <3>1. r \notin pending /\ r \notin Range(queue)
      BY <1>1, <1>t DEF SendRequest, Once
    <3>2. /\ \A x : x \in Range(queue') <=> x \in Range(queue) \/ x = r
          /\ Distinct(queue')
      BY <1>q, <1>t, <2>2, <3>1, Appended DEF Once
    <3>3. UNCHANGED <<pending, stream, actions>>
      BY <1>1 DEF SendRequest
    <3>4. caller'[r] = "waiting" /\ \A d \in Requests : d # r => caller'[d] = caller[d]
      BY <1>c, <2>2
    <3> QED
      BY <1>t, <3>1, <3>2, <3>3, <3>4, Zenon DEF Once
  <2> QED
    BY <1>1, <2>1, <2>2, Zenon DEF SendRequest
<1>2. CASE DropHandles
  <2>1. UNCHANGED <<caller, queue, pending, stream, actions>>
    BY <1>2 DEF DropHandles
  <2> QED
    BY <1>t, <2>1 DEF Once
<1>3. CASE Submit
  <2> DEFINE r == Head(queue)
  <2>1. /\ r \in Requests
        /\ r \in Range(queue)
        /\ \A x : x \in Range(queue) => x \in Range(queue') \/ x = r
        /\ \A x : x \in Range(queue') => x \in Range(queue)
        /\ Distinct(queue') /\ r \notin Range(queue')
    BY <1>3, <1>q, <1>t, Taken DEF Submit, Once
  <2>2. UNCHANGED actions
    BY <1>3 DEF Submit
  <2>3. r \notin pending /\ caller[r] = "waiting"
    BY <1>t, <2>1, Zenon DEF Once
  <2>4. \/ pending' = pending \cup {r} /\ stream' = [stream EXCEPT ![r] = "open"] /\ caller' = caller
        \/ caller' = [caller EXCEPT ![r] = "refused"] /\ pending' = pending /\ stream' = stream
    BY <1>3 DEF Submit
  <2> HIDE DEF r
  <2>5. CASE pending' = pending \cup {r} /\ stream' = [stream EXCEPT ![r] = "open"] /\ caller' = caller
    <3>1. stream'[r] = "open" /\ \A d \in Requests : d # r => stream'[d] = stream[d]
      BY <1>c, <2>1, <2>5
    <3> QED
      BY <1>t, <1>q, <2>1, <2>2, <2>3, <2>5, <3>1, Zenon DEF Once
  <2>6. CASE caller' = [caller EXCEPT ![r] = "refused"] /\ pending' = pending /\ stream' = stream
    <3>1. caller'[r] # "waiting" /\ \A d \in Requests : d # r => caller'[d] = caller[d]
      BY <1>c, <2>1, <2>6
    <3> QED
      BY <1>t, <2>1, <2>2, <2>3, <2>6, <3>1, Zenon DEF Once
  <2> QED
    BY <2>4, <2>5, <2>6, Zenon
<1>4. CASE NoHandles
  <2>1. UNCHANGED <<caller, queue, pending, stream, actions>>
    BY <1>4 DEF NoHandles
  <2> QED
    BY <1>t, <2>1 DEF Once
<1>5. CASE HandleAction
  <2> DEFINE a == Head(actions)
  <2>1. /\ a \in Actions
        /\ \A x : x \in Range(actions) => x \in Range(actions') \/ x = a
    BY <1>5, <1>q, Taken DEF HandleAction
  <2>2. UNCHANGED <<queue, stream>>
    BY <1>5 DEF HandleAction
  <2>3. IF a.kind # "malformed" /\ a.req \in pending
          THEN caller' = [caller EXCEPT ![a.req] = Outcome(a.kind)] /\ pending' = pending \ {a.req}
          ELSE caller' = caller /\ pending' = pending
    BY <1>5 DEF HandleAction
  <2> HIDE DEF a
  <2>4. CASE a.kind # "malformed" /\ a.req \in pending
    <3>1. caller'[a.req] # "waiting" /\ \A d \in Requests : d # a.req => caller'[d] = caller[d]
      BY <1>c, <1>q, <2>1, <2>3, <2>4 DEF Outcome, Actions
    <3>2. pending' = pending \ {a.req}
      BY <2>3, <2>4
    <3>3. \A d \in Requests : d # a.req => Act("closed", d) # a
      BY <2>1 DEF Act, Actions
    <3> QED
      BY <1>t, <1>q, <2>1, <2>2, <2>4, <3>1, <3>2, <3>3, Zenon DEF Once
  <2>5. CASE ~(a.kind # "malformed" /\ a.req \in pending)
    <3>1. caller' = caller /\ pending' = pending
      BY <2>3, <2>5
    <3>2. \A d \in pending : Act("closed", d) # a
      BY <2>1, <2>5 DEF Act, Actions
    <3> QED
      BY <1>t, <2>1, <2>2, <3>1, <3>2, Zenon DEF Once
  <2> QED
    BY <2>4, <2>5, Zenon
<1>6. ASSUME NEW r \in Requests, PeerAnswers(r) PROVE Once'
  <2>1. PICK head \in {<< >>, <<Act("head", r)>>, <<Act("malformed", r)>>} :
            actions' = actions \o head \o <<Act("closed", r)>>
    BY <1>6 DEF PeerAnswers
  <2>2. Act("head", r) \in Actions /\ Act("malformed", r) \in Actions /\ Act("closed", r) \in Actions
    BY DEF Act, Actions
  <2>3. << >> \in Seq(Actions) /\ \A a \in Actions : <<a>> \in Seq(Actions)
    OBVIOUS
  <2>4. head \in Seq(Actions)
    BY <2>2, <2>3, Zenon
  <2>5. /\ \A x : x \in Range(actions) => x \in Range(actions')
        /\ Act("closed", r) \in Range(actions')
    BY <1>q, <2>1, <2>2, <2>4, Joined
  <2>6. \A d \in Requests : d # r => stream'[d] = stream[d]
    BY <1>6, <1>c DEF PeerAnswers
  <2>7. UNCHANGED <<caller, queue, pending>>
    BY <1>6 DEF PeerAnswers
  <2> QED
    BY <1>t, <1>q, <2>5, <2>6, <2>7, Zenon DEF Once
<1>7. CASE PeerEof
  <2>1. UNCHANGED <<caller, queue, pending, stream, actions>>
    BY <1>7 DEF PeerEof
  <2> QED
    BY <1>t, <2>1 DEF Once
<1>8. CASE Fails
  <2>1. queue' = << >> /\ pending' = {}
    BY <1>8 DEF Fails
  <2>2. (\A x : x \notin Range(queue')) /\ Distinct(queue')
    BY <2>1 DEF Range, Distinct
  <2>3. \A r \in Requests : caller'[r] # "waiting"
    BY <1>8, <1>t DEF Fails, Once
  <2> QED
    BY <2>1, <2>2, <2>3, Zenon DEF Once
<1>9. CASE Ends
  <2>1. UNCHANGED <<caller, queue, pending, stream, actions>>
    BY <1>9 DEF Ends
  <2> QED
    BY <1>t, <2>1 DEF Once
<1>10. CASE UNCHANGED clientVars
  BY <1>10, <1>t, Zenon DEF Once
<1> QED
  BY <1>1, <1>2, <1>3, <1>4, <1>5, <1>6, <1>7, <1>8, <1>9, <1>10, Zenon
     DEF ClientNext, ClientStep, Quiet

(***************************************************************************)
(* No caller of send_request is forgotten, whatever the requests and the   *)
(* capacity of the channel: one that waits is in the channel or has its    *)
(* oneshot in `pending`, never both, and a pending one has an open stream  *)
(* or the action that will drop its oneshot is queued.                     *)
(***************************************************************************)
THEOREM CallersAccounted == ClientSpec => []Accounted
<1> USE ClientConstants
<1>1. ClientInit => ClientInv
  <2> SUFFICES ASSUME ClientInit PROVE ClientInv
    OBVIOUS
  <2>1. ClientTypeOK
    <3>1. << >> \in Seq(Requests) /\ << >> \in Seq(Actions) /\ Len(<< >>) <= QueueCap
      OBVIOUS
    <3> QED
      BY <3>1, Zenon DEF ClientInit, ClientTypeOK, Actions
  <2>2. \A r \in Requests : caller[r] = "idle"
    BY DEF ClientInit
  <2>3. pending = {} /\ Distinct(queue) /\ \A x : x \notin Range(queue)
    BY DEF ClientInit, Range, Distinct
  <2> QED
    BY <2>1, <2>2, <2>3 DEF ClientInv, Once, Dropped
<1>2. ClientInv /\ [ClientNext]_clientVars => ClientInv'
  BY ClientTypeNext, OnceNext DEF ClientInv
<1>3. ClientInv => Accounted
  <2> SUFFICES ASSUME ClientInv PROVE Accounted
    OBVIOUS
  <2>1. DOMAIN actions = 1 .. Len(actions)
    BY DEF ClientInv, ClientTypeOK
  <2> QED
    BY <2>1, Zenon DEF ClientInv, Once, Accounted, ClosedQueued, Range
<1> QED
  BY <1>1, <1>2, <1>3, PTL DEF ClientSpec
=============================================================================
