----------------------------- MODULE HttpStack -----------------------------
(***************************************************************************)
(* The HTTP stack around one hop: an application's connection to its       *)
(* outbound proxy, the request's way to the server application (directly,  *)
(* or through the inbound proxy over an upgraded HTTP/2 connection), and   *)
(* the way back.                                                           *)
(*                                                                         *)
(* The first half is the message transformations, one operator per         *)
(* function: the URI forms and their normalization, the l5d-orig-proto     *)
(* upgrade and downgrade, the stripping of connection headers, and the     *)
(* responses synthesized for errors.  The second half is two machines: the *)
(* server's connection with HTTP/1.1 upgrades, the tear-down signals and   *)
(* the process's drain (Hop...), and the timeouts that are enforced on a   *)
(* stream (Timeout...).                                                    *)
(*                                                                         *)
(* A message has the parts that the code reads: header values that nothing *)
(* looks at are not kept.  "" is an absent value; an Option or a Result is *)
(* a set with at most one element.                                         *)
(***************************************************************************)
EXTENDS Naturals, FiniteSets

CONSTANTS
    Requests,     \* the requests that an application may send on a stream
    Streams,      \* the requests that a connection may carry
    Hops,         \* how the hop may be configured
    AppAnswers,   \* the responses that a server application may give
    Failures,     \* [at, error]: the failures that may befall a request
    Limits,       \* the timeouts that a stream may have
    MaxTime       \* the last instant of the timeouts' clock

VARIABLES
    hop,          \* the hop's configuration
    conn,         \* the outbound proxy's server connection
    stream,       \* the requests on it
    signaled,     \* is the process draining?
    timeouts, clockT, touched, flush, req, fut, rsp   \* one stream with timeouts

hopVars == <<hop, conn, stream, signaled>>
timeoutVars == <<timeouts, clockT, touched, flush, req, fut, rsp>>

----------------------------------------------------------------------------
(* Requests.  A URI has a scheme, an authority and a path, or lacks them. *)

IsOriginForm(r) == ~r.scheme /\ ~r.path

\* "Just because a request parses doesn't mean it's correct."
IsBadRequest(r) ==
    IF r.method = "CONNECT" THEN r.version # 11 \/ ~IsOriginForm(r) ELSE IsOriginForm(r)

\* An h2c upgrade is not honoured: it would hide the HTTP/2 session.
WantsUpgrade(r) ==
    /\ r.version = 11
    /\ IF r.upgrade # "" THEN r.upgrade # "h2c" ELSE r.method = "CONNECT"

\* `named` stands for the headers that a Connection header names.
StripConnectionHeaders(m) ==
    [m EXCEPT !.upgrade = "",
              !.headers = @ \ ({"connection", "keep-alive", "proxy-connection"}
                                 \cup IF "connection" \in @ THEN {"named"} ELSE {})]

UpgradeService(r) ==
    IF WantsUpgrade(r) THEN [r EXCEPT !.ext = @ \cup {"Http11Upgrade"}] ELSE StripConnectionHeaders(r)

MarkAbsoluteForm(r) ==
    IF r.version \in {10, 11} /\ r.scheme THEN [r EXCEPT !.ext = @ \cup {"WasAbsoluteForm"}] ELSE r

\* An authority alone is left without a scheme: that is CONNECT's form.
SetAuthority(r, authority) == [r EXCEPT !.authority = authority, !.scheme = @ \/ r.path]

NormalizeUri(r, default) ==
    IF r.version \in {10, 11} /\ "WasAbsoluteForm" \notin r.ext /\ r.authority = ""
    THEN LET a == IF r.host # "" THEN r.host ELSE default
         IN  IF a = "" THEN {} ELSE {SetAuthority(r, a)}
    ELSE {r}

----------------------------------------------------------------------------
(* The protocol upgrade between proxies. *)

OrigProto(version, absolute) == [version |-> version, absolute |-> absolute]

NoOrigProto == [version |-> 0, absolute |-> FALSE]

\* A mistake: the absolute form is not told.
UpgradeCallFormless(r) ==
    [r EXCEPT !.ext = @ \ {"WasAbsoluteForm"}, !.version = 2,
              !.origProto = OrigProto(r.version, FALSE),
              !.headers = @ \ {"transfer-encoding"}]

UpgradeCall(r) ==
    [r EXCEPT !.ext = @ \ {"WasAbsoluteForm"}, !.version = 2,
              !.origProto = OrigProto(r.version, "WasAbsoluteForm" \in r.ext),
              !.headers = @ \ {"transfer-encoding"}]

UpgradeResponse(p, version) ==
    [p EXCEPT !.version = IF p.origProto.version \in {10, 11} THEN p.origProto.version ELSE version,
              !.origProto = NoOrigProto]

\* A value that names no known version leaves the request as HTTP/2.
Downgrade(r) ==
    IF r.version = 2 /\ r.origProto # NoOrigProto
    THEN [r EXCEPT !.version = IF r.origProto.version \in {10, 11} THEN r.origProto.version ELSE @,
                   !.ext = @ \cup {"WasUpgrade"}
                             \cup IF r.origProto.absolute THEN {"WasAbsoluteForm"} ELSE {},
                   !.origProto = NoOrigProto]
    ELSE r

DowngradeResponse(p, wasUpgrade) ==
    IF wasUpgrade /\ p.version \in {10, 11}
    THEN [p EXCEPT !.origProto = OrigProto(p.version, FALSE), !.version = 2,
                   !.headers = @ \ {"transfer-encoding"}]
    ELSE p

\* The HTTP/2 client asserts the version.  Extensions do not cross a wire.
H2Call(r) == [r EXCEPT !.ext = {}]

\* The request as its receiver parses it: hyper writes the form that the client was
\* built for, and adds a Host header only for the absolute form.
H1Call(r) ==
    LET absolute == "WasAbsoluteForm" \in r.ext
    IN  [r EXCEPT !.ext = {}, !.scheme = absolute,
                  !.authority = IF absolute \/ r.method = "CONNECT" THEN @ ELSE "",
                  !.host = IF r.host = "" /\ absolute THEN r.authority ELSE @]

IsUpgrade(p, connect) ==
    p.version = 11 /\ (p.status = 101 \/ (connect /\ p.status \in 200..299))

\* The HTTP/1 client: what it hands up of the application's response.
H1Response(p, connect) ==
    LET q == IF connect /\ p.status \in 200..299
             THEN [p EXCEPT !.headers = @ \ {"content-length", "transfer-encoding"}] ELSE p
    IN  IF IsUpgrade(q, connect) THEN q ELSE StripConnectionHeaders(q)

----------------------------------------------------------------------------
(* Error responses. *)

Synthetic(status, grpc, close) ==
    [status |-> status, grpc |-> grpc, close |-> close, location |-> FALSE]

UnexpectedError == Synthetic(500, 13, TRUE)
BadGateway == Synthetic(502, 14, TRUE)
GatewayTimeout == Synthetic(504, 4, TRUE)
GatewayTimeoutNonfatal == Synthetic(504, 4, FALSE)
Unavailable == Synthetic(503, 14, TRUE)
NotFound == Synthetic(404, 5, FALSE)
Redirect == [Synthetic(302, 5, FALSE) EXCEPT !.location = TRUE]

\* The endpoint stack's rescue: connection errors become responses there.
OutboundClientRescue(e) ==
    CASE e \in {"downgraded", "io"} -> {BadGateway}
      [] e = "connect-timeout"      -> {GatewayTimeout}
      [] OTHER                      -> {}

\* The outbound server's.  An HTTP/2 error resets the client's stream.
OutboundServerRescue(e) ==
    CASE e = "failfast"                                -> {GatewayTimeout}
      [] e = "loadshed"                                -> {Unavailable}
      [] e = "stream-timeout"                          -> {GatewayTimeoutNonfatal}
      [] e = "profile-timeout"                         -> {GatewayTimeout}
      [] e \in {"identity-required", "dispatcher"}     -> {BadGateway}
      [] e = "no-route"                                -> {NotFound}
      [] e = "redirect"                                -> {Redirect}
      [] e = "injected"                                -> {Synthetic(418, 9, FALSE)}
      [] e = "grpc-injected"                           -> {Synthetic(200, 8, FALSE)}
      [] e = "h2"                                      -> {}
      [] OTHER                                         -> {UnexpectedError}

InboundClientRescue(e) ==
    CASE e = "io"              -> {BadGateway}
      [] e = "connect-timeout" -> {GatewayTimeout}
      [] OTHER                 -> {}

InboundServerRescue(e) ==
    CASE e \in {"no-route", "gateway-domain"}          -> {NotFound}
      [] e = "unauthorized"                            -> {Synthetic(403, 7, FALSE)}
      [] e \in {"invalid-redirect", "invalid-policy"}  -> {UnexpectedError}
      [] e = "redirect"                                -> {Redirect}
      [] e = "rate-limited"                            -> {Synthetic(429, 8, FALSE)}
      [] e = "gateway-loop"                            -> {Synthetic(508, 10, TRUE)}
      [] e = "failfast"                                -> {GatewayTimeout}
      [] e = "loadshed"                                -> {Unavailable}
      [] e = "h2"                                      -> {}
      [] OTHER                                         -> {UnexpectedError}

ProxyHeaders(s, emit) ==
    IF emit THEN {"l5d-proxy-error"} \cup IF s.close THEN {"l5d-proxy-connection"} ELSE {} ELSE {}

GrpcResponse(s, emit) ==
    [version |-> 2, status |-> 200, grpc |-> s.grpc, upgrade |-> "", origProto |-> NoOrigProto,
     headers |-> ProxyHeaders(s, emit)]

HttpResponse(s, version, emit, wasUpgrade) ==
    [version |-> version, status |-> s.status, grpc |-> 0, upgrade |-> "", origProto |-> NoOrigProto,
     headers |-> ProxyHeaders(s, emit)
                   \cup (IF s.close /\ version = 11 /\ ~wasUpgrade THEN {"connection"} ELSE {})
                   \cup IF s.location THEN {"location"} ELSE {}]

\* What a stack with a rescue answers when its inner service fails for request `r`,
\* and whether it tears down the connection that the request came by.
Respond(s, r, emit) ==
    [rsp |-> IF r.version = 2 /\ r.grpc THEN GrpcResponse(s, emit)
             ELSE HttpResponse(s, r.version, emit, "WasUpgrade" \in r.ext),
     close |-> s.close]

\* The endpoint stack hides a peer proxy's headers, and acts on the close.
UpdateResponse(p, closable) ==
    LET told == closable /\ "l5d-proxy-connection" \in p.headers
    IN  [rsp |-> [p EXCEPT !.headers = (@ \ {"l5d-proxy-error", "l5d-proxy-connection"})
                                         \cup IF told /\ p.version = 11 THEN {"connection"} ELSE {}],
         close |-> told]

----------------------------------------------------------------------------
(* The way of a request and of its response. *)

Upgraded(r) == hop.mesh = "http2" /\ r.version # 2 /\ "Http11Upgrade" \notin r.ext

\* The request as the peer of the endpoint's client reads it.
ClientCall(r) ==
    IF r.version = 2 THEN H2Call(r)
    ELSE IF Upgraded(r) THEN H2Call(UpgradeCall(r)) ELSE H1Call(r)

\* The inbound proxy's server, down to the URI's normalization.
InboundCall(r) ==
    NormalizeUri(Downgrade(MarkAbsoluteForm(IF r.version = 2 THEN r ELSE UpgradeService(r))), hop.inDefault)

\* The request that a meshed peer dispatches, or that the application reads.
InboundRequest(r) == InboundCall(ClientCall(r))

AppRequest(r) ==
    IF hop.mesh = "none" THEN {ClientCall(r)}
    ELSE { IF i.version = 2 THEN H2Call(i) ELSE H1Call(i) : i \in InboundRequest(r) }

\* What the endpoint stack makes of a response off the wire.
ClientResponse(p, r) ==
    UpdateResponse(IF r.version = 2 THEN p
                   ELSE IF Upgraded(r) THEN UpgradeResponse(p, r.version)
                   ELSE H1Response(p, r.method = "CONNECT"),
                   hop.closable /\ hop.mesh # "none")

\* An application's response, at the edge of the inbound proxy.
InboundResponse(p, i) ==
    DowngradeResponse(IF i.version = 2 THEN p ELSE H1Response(p, i.method = "CONNECT"),
                      "WasUpgrade" \in i.ext)

\* What the client is answered for a response of the application.
Answer(p, r) ==
    IF hop.mesh = "none" THEN ClientResponse(p, r)
    ELSE LET i == CHOOSE i \in InboundRequest(r) : TRUE IN ClientResponse(InboundResponse(p, i), r)

\* The outbound stack's answer to an error below the endpoint's rescue: nothing when
\* the client's stream is reset.
OutboundFailure(e, r) ==
    LET c == OutboundClientRescue(e)
        s == IF c # {} THEN c ELSE OutboundServerRescue(e)
    IN  { Respond(x, r, hop.emit) : x \in s }

\* A failure of the inbound proxy: its answer travels back as a response, and an
\* unrescued one resets the stream, which the client sees as an HTTP/2 error.
InboundFailure(e, atClient, r) ==
    LET i == CHOOSE i \in InboundRequest(r) : TRUE
        c == IF atClient THEN InboundClientRescue(e) ELSE {}
        s == IF c # {} THEN c ELSE InboundServerRescue(e)
    IN  IF s = {} THEN OutboundFailure(IF Upgraded(r) THEN "downgraded" ELSE "h2", r)
        ELSE { ClientResponse(DowngradeResponse(Respond(x, i, TRUE).rsp, "WasUpgrade" \in i.ext), r) : x \in s }

----------------------------------------------------------------------------
(* The connection.  A stream is idle, accepted, sent to a peer, answered    *)
(* (its response is being written) or done.  The two halves of an HTTP/1.1 *)
(* upgrade are `server` (in the request's body) and `client` (in its       *)
(* extensions): none, held, inserted or dropped.                           *)

NoStream == [st |-> "idle", sent |-> {}, req |-> {}, app |-> {}, rsp |-> {}, attempt |-> 1,
             server |-> "none", client |-> "none", tunnel |-> "none", told |-> FALSE]

\* The last handle to go drops the pair, which spawns the tunnel if both are in.
DropInner(s) ==
    IF s.tunnel = "none" /\ s.server = "inserted" /\ s.client = "inserted"
    THEN [s EXCEPT !.tunnel = "joining"] ELSE s

\* A body that goes inserts the server's half, however it goes.
DropBody(s) == DropInner([s EXCEPT !.server = IF @ = "held" THEN "inserted" ELSE @])

DropExtension(s) == [s EXCEPT !.client = IF @ = "held" THEN "dropped" ELSE @]

Active(s) == s.st \in {"accepted", "sent", "answered"}

HopInit ==
    /\ hop \in Hops
    /\ conn = [phase |-> "serving", notified |-> FALSE]
    /\ stream = [i \in Streams |-> NoStream]
    /\ signaled = FALSE

\* A response is handed to the server; `a` is {} when the stream is reset.
Finish(i, a, s) ==
    /\ stream' = [stream EXCEPT ![i] =
         [s EXCEPT !.st = IF a = {} THEN "done" ELSE "answered", !.app = {}, !.rsp = {x.rsp : x \in a},
                   !.told = \E x \in a : x.close]]
    /\ conn' = [conn EXCEPT !.notified = @ \/ \E x \in a : x.close]
    /\ UNCHANGED <<hop, signaled>>

\* The server reads a request.  A shut-down HTTP/1 connection reads no more; an
\* HTTP/2 one does until its last GOAWAY.  Without an authority the request fails
\* above the rescue, and the connection ends with nothing answered.
Accept(i, r) ==
    /\ stream[i].st = "idle"
    /\ conn.phase = "serving" \/ (hop.version = 2 /\ conn.phase # "closed")
    /\ IF hop.version = 2 THEN r.version = 2
       ELSE r.version # 2 /\ \A j \in Streams : ~Active(stream[j]) /\ stream[j].tunnel = "none"
    /\ LET bad == hop.version = 1 /\ IsBadRequest(r)
           called == IF hop.version = 1 THEN UpgradeService(r) ELSE r
           ready == NormalizeUri(MarkAbsoluteForm(called), hop.outDefault)
           held == IF ~bad /\ "Http11Upgrade" \in called.ext THEN "held" ELSE "none"
           s == [NoStream EXCEPT !.sent = {r}, !.req = ready, !.server = held, !.client = held]
       IN  IF bad THEN Finish(i, {[rsp |-> HttpResponse(Synthetic(400, 0, FALSE), r.version, FALSE, FALSE),
                                   close |-> FALSE]}, s)
           ELSE IF ready = {}
           THEN /\ stream' = [stream EXCEPT ![i] = [DropExtension(DropBody(s)) EXCEPT !.st = "done"]]
                /\ conn' = [conn EXCEPT !.phase = "closed"]
                /\ UNCHANGED <<hop, signaled>>
           ELSE /\ stream' = [stream EXCEPT ![i] = [s EXCEPT !.st = "accepted"]]
                /\ UNCHANGED <<hop, conn, signaled>>

\* The endpoint's client sends the request; the inbound proxy of a meshed endpoint
\* answers 500 when it finds no authority.
Dispatch(i) ==
    /\ stream[i].st = "accepted"
    /\ \E r \in stream[i].req :
         stream' = [stream EXCEPT ![i] = [@ EXCEPT !.st = "sent", !.app = AppRequest(r)]]
    /\ UNCHANGED <<hop, conn, signaled>>

\* The request's body has been written, or given up.
BodyDone(i) ==
    /\ stream[i].st \in {"sent", "answered"} /\ stream[i].server = "held"
    /\ stream' = [stream EXCEPT ![i] = DropBody(@)]
    /\ UNCHANGED <<hop, conn, signaled>>

\* A retry of a failed attempt: of the extensions it keeps the timeouts, the client's
\* handle and the classifier, and neither the upgrade nor the absolute form.
Retry(i) ==
    /\ stream[i].st = "sent" /\ stream[i].attempt = 1 /\ hop.retries
    /\ stream' = [stream EXCEPT ![i] =
         DropExtension([@ EXCEPT !.st = "accepted", !.attempt = 2, !.app = {},
                                 !.req = {[r EXCEPT !.ext = {}] : r \in @}])]
    /\ UNCHANGED <<hop, conn, signaled>>

\* The application answers.  The HTTP/1 client inserts its half if that is an upgrade.
Reply(i, p) ==
    /\ stream[i].st = "sent" /\ stream[i].app # {}
    /\ \A x \in stream[i].app : p.version = 2 <=> x.version = 2
    /\ \E r \in stream[i].req :
         LET a == Answer(p, r)
             up == ~Upgraded(r) /\ r.version # 2
                     /\ IsUpgrade(IF hop.mesh = "none" THEN p ELSE InboundResponse(p, r), r.method = "CONNECT")
             s == [stream[i] EXCEPT !.client = IF @ # "held" THEN @ ELSE IF up THEN "inserted" ELSE "dropped"]
         IN  Finish(i, {a}, DropInner(s))

\* A failure in the outbound stack or in the inbound proxy.
Fail(i, f) ==
    /\ stream[i].st \in {"accepted", "sent"}
    /\ \E r \in stream[i].req :
         /\ f.at \in {"in-client", "in-server"} =>
              hop.mesh # "none" /\ stream[i].st = "sent" /\ InboundRequest(r) # {}
                /\ (f.error = "h2" => r.version = 2)
         /\ f.at = "out-client" => stream[i].st = "sent" /\ (f.error = "h2" => r.version = 2 \/ Upgraded(r))
         /\ Finish(i, CASE f.at = "out-server" ->
                             { Respond(x, r, hop.emit) : x \in OutboundServerRescue(f.error) }
                        [] f.at = "out-client" ->
                             OutboundFailure(IF f.error = "h2" /\ Upgraded(r) THEN "downgraded" ELSE f.error, r)
                        [] OTHER -> InboundFailure(f.error, f.at = "in-client", r),
                   DropExtension(DropBody(stream[i])))

\* No authority could be found by the inbound proxy.
FailInboundUri(i) ==
    /\ stream[i].st = "sent" /\ stream[i].app = {}
    /\ \E r \in stream[i].req :
         Finish(i, {ClientResponse(HttpResponse(UnexpectedError, r.version, FALSE, FALSE), r)},
                DropExtension(DropBody(stream[i])))

\* The response is written to its end.
Written(i) ==
    /\ stream[i].st = "answered"
    /\ stream' = [stream EXCEPT ![i] = [DropBody(@) EXCEPT !.st = "done"]]
    /\ UNCHANGED <<hop, conn, signaled>>

Drain == ~signaled /\ signaled' = TRUE /\ UNCHANGED <<hop, conn, stream>>

\* The server task's select: whichever of the two signals it sees first.
SeeDrain ==
    /\ conn.phase = "serving" /\ signaled
    /\ conn' = [conn EXCEPT !.phase = "draining"]
    /\ UNCHANGED <<hop, stream, signaled>>

SeeClosed ==
    /\ conn.phase = "serving" /\ conn.notified
    /\ conn' = [conn EXCEPT !.phase = "closing", !.notified = FALSE]
    /\ UNCHANGED <<hop, stream, signaled>>

\* A connection that is shut down ends when its streams have.  An upgraded one ends
\* with the response that upgrades it.
ConnEnds ==
    /\ conn.phase # "closed"
    /\ \A i \in Streams : ~Active(stream[i])
    /\ conn.phase \in {"draining", "closing"} \/ \E i \in Streams : stream[i].tunnel # "none"
    /\ conn' = [conn EXCEPT !.phase = "closed"]
    /\ UNCHANGED <<hop, stream, signaled>>

\* The client disconnects: what it was waiting for is dropped.
Disconnect ==
    /\ conn.phase # "closed"
    /\ conn' = [conn EXCEPT !.phase = "closed"]
    /\ stream' = [i \in Streams |-> IF Active(stream[i])
                                    THEN [DropExtension(DropBody(stream[i])) EXCEPT !.st = "done"]
                                    ELSE stream[i]]
    /\ UNCHANGED <<hop, signaled>>

\* The tunnel's task: both connections are handed over, or one is not, and then the
\* bytes are copied until both ends are done.
TunnelStep(i) ==
    /\ stream[i].tunnel \in {"joining", "open"}
    /\ stream[i].tunnel = "joining" => conn.phase = "closed"
    /\ \E t \in {"open", "done"} :
         /\ stream[i].tunnel = "open" => t = "done"
         /\ stream' = [stream EXCEPT ![i].tunnel = t]
    /\ UNCHANGED <<hop, conn, signaled>>

HopNext ==
    \/ \E i \in Streams :
         \/ \E r \in Requests[i] : Accept(i, r)
         \/ Dispatch(i)
         \/ BodyDone(i)
         \/ Retry(i)
         \/ \E p \in AppAnswers : Reply(i, p)
         \/ \E f \in Failures : Fail(i, f)
         \/ FailInboundUri(i)
         \/ Written(i)
         \/ TunnelStep(i)
    \/ Drain
    \/ SeeDrain
    \/ SeeClosed
    \/ ConnEnds
    \/ Disconnect

\* What the application is to read of the client's request: its version, form and
\* host, and the headers but for those of the connection.
Expected(r) ==
    LET q == IF WantsUpgrade(r) THEN r ELSE IF r.version = 2 THEN r ELSE StripConnectionHeaders(r)
    IN  [q EXCEPT !.host = IF @ = "" /\ r.scheme /\ r.version # 2 THEN r.authority ELSE @,
                  !.headers = @ \ {"transfer-encoding"}]

\* The first attempt of a request reaches the application in the version and the form
\* that the client used, whether or not the proxies upgraded it to HTTP/2 in between.
FormsKept ==
    \A i \in Streams : \A r \in stream[i].sent, x \in stream[i].app :
        stream[i].attempt = 1 => [x EXCEPT !.headers = @ \ {"transfer-encoding"}] = Expected(r)

\* The client of an HTTP/1 connection is answered in its own version, without a word
\* of the proxies' protocol; and it is answered, whatever fails, unless it hung up.
AnswersKept ==
    \A i \in Streams : \A r \in stream[i].sent :
        /\ \A p \in stream[i].rsp :
             /\ (p.version = 2) <=> (r.version = 2)
             /\ p.origProto = NoOrigProto
             /\ p.headers \cap {"l5d-proxy-error", "l5d-proxy-connection"} # {} => hop.emit
        /\ stream[i].st = "done" /\ r.version # 2 /\ conn.phase # "closed" => stream[i].rsp # {}

\* A tunnel joins a client and an application exactly when the client asked for an
\* upgrade and was told of one; and a response that is no upgrade leaves none behind.
TunnelExact ==
    \A i \in Streams :
        /\ stream[i].tunnel # "none" =>
             \A r \in stream[i].sent : /\ WantsUpgrade(r)
                                       /\ \E p \in stream[i].rsp : IsUpgrade(p, r.method = "CONNECT")
        /\ stream[i].st = "done" /\ conn.phase # "closed" /\ stream[i].attempt = 1 =>
             \A r \in stream[i].sent, p \in stream[i].rsp :
                 WantsUpgrade(r) /\ ~IsBadRequest(r) /\ IsUpgrade(p, r.method = "CONNECT")
                   => stream[i].tunnel # "none"

\* A connection that was told to close is being closed, or its task is yet to look:
\* the notification keeps, however many streams were answered in between.
CloseKept ==
    (\E i \in Streams : stream[i].told) => conn.notified \/ conn.phase # "serving"

\* Who holds the drain's watch: the task that serves HTTP/1, the tunnels, nghttp2's
\* server, and hyper's HTTP/2 server until it closes by itself.
HoldsDrain ==
    \/ conn.phase # "closed" /\ ~(hop.version = 2 /\ hop.engine = "hyper" /\ conn.phase = "closing")
    \/ \E i \in Streams : stream[i].tunnel \in {"joining", "open"}

\* While a drain waits for a connection, nothing that it carries is cut off: with no
\* holder left, every request is done and every tunnel ended, except where hyper's
\* HTTP/2 server is already closing the connection for another reason.
DrainWaits ==
    ~HoldsDrain /\ ~(hop.version = 2 /\ hop.engine = "hyper" /\ conn.phase = "closing") =>
        \A i \in Streams : ~Active(stream[i]) /\ stream[i].tunnel \in {"none", "done"}

\* The hop carries what the two applications said to each other: the forms of requests
\* and answers, the upgrades, the tear-downs and the drain (upgrade.rs, orig_proto.rs,
\* h1.rs, respond.rs, server.rs, handle_proxy_error_headers.rs).
HopFaithful == FormsKept /\ AnswersKept /\ TunnelExact /\ CloseKept /\ DrainWaits

----------------------------------------------------------------------------
(* The timeouts of a stream.  A time is an instant or Never; `armed` tells *)
(* that a task's last poll was pending, so that its timers wake it.  The   *)
(* runtime polls a woken task before time passes, and the response's       *)
(* future from the start; a body is polled when its consumer wants it.     *)

Never == 3 * MaxTime

Earlier(a, b) == IF a < b THEN a ELSE b

After(t, d) == IF t = Never \/ d = Never THEN Never ELSE t + d

NewRequestBody(l) ==
    [st |-> "open", deadline |-> l.limit, error |-> "lifetime", sleep |-> l.idle, armed |-> FALSE,
     last |-> 0]

NewResponseFuture(l) ==
    [st |-> "open", deadline |-> l.limit, error |-> "lifetime", at |-> Never, armed |-> FALSE]

NoResponseBody ==
    [st |-> "none", deadline |-> Never, error |-> "lifetime", sleep |-> Never, armed |-> FALSE,
     last |-> 0, head |-> Never]

TimeoutsInit ==
    /\ timeouts \in Limits
    /\ clockT = 0
    /\ touched = 0
    /\ flush = [st |-> "open", at |-> Never]
    /\ req = NewRequestBody(timeouts)
    /\ fut = NewResponseFuture(timeouts)
    /\ rsp = NoResponseBody

\* The head's deadline, once the request is flushed: `start` is when it was.
HeadTimeout(start) ==
    IF timeouts.headers # Never THEN [by |-> After(start, timeouts.headers), error |-> "headers"]
    ELSE [by |-> After(start, timeouts.end), error |-> "end"]

SeeFlush ==
    IF flush.st \notin {"sent", "dropped"} THEN fut
    ELSE LET start == IF flush.st = "sent" THEN flush.at ELSE clockT
             h == HeadTimeout(start)
             f == [fut EXCEPT !.at = start]
         IN  IF h.by < fut.deadline THEN [f EXCEPT !.deadline = h.by, !.error = h.error] ELSE f

\* The response's body: the response's end, since the flush or the head, or the limit.
NewResponseBody(f) ==
    LET start == IF f.at # Never THEN f.at ELSE clockT
        end == After(start, timeouts.end)
    IN  [st |-> "open", deadline |-> Earlier(end, timeouts.limit),
         error |-> IF end < timeouts.limit THEN "end" ELSE "lifetime",
         sleep |-> After(clockT, timeouts.idle), armed |-> FALSE, last |-> clockT,
         head |-> clockT]

PollFuture(x) ==
    LET f == SeeFlush
    IN  /\ fut.st = "open"
        /\ flush' = [flush EXCEPT !.st = IF @ \in {"sent", "dropped"} THEN "seen" ELSE @]
        /\ CASE x = "pending" ->
                  /\ fut' = IF f.deadline <= clockT THEN [f EXCEPT !.st = f.error]
                            ELSE [f EXCEPT !.armed = TRUE]
                  /\ UNCHANGED <<touched, rsp>>
             [] x = "head" ->
                  /\ fut' = [f EXCEPT !.st = "done"]
                  /\ touched' = clockT
                  /\ rsp' = NewResponseBody(f)
             [] x = "error" -> fut' = [f EXCEPT !.st = "done"] /\ UNCHANGED <<touched, rsp>>
        /\ UNCHANGED <<timeouts, clockT, req>>

\* The deadline first; an idle timer that fires is set again if the other body moved.
PollBodyTimeout(b) ==
    IF b.deadline <= clockT THEN [b EXCEPT !.st = b.error, !.deadline = Never]
    ELSE IF b.sleep > clockT THEN [b EXCEPT !.armed = TRUE]
    ELSE IF After(touched, timeouts.idle) <= clockT THEN [b EXCEPT !.st = "idle"]
    ELSE [b EXCEPT !.sleep = After(touched, timeouts.idle), !.armed = TRUE]

\* A frame came: the idle time starts again, for both bodies.
Reset(b, st) ==
    [b EXCEPT !.st = st, !.sleep = After(clockT, timeouts.idle), !.armed = FALSE, !.last = clockT]

PollRequest(x) ==
    /\ req.st = "open"
    /\ req' = CASE x = "pending" -> PollBodyTimeout(req)
                [] x = "frame"   -> Reset(req, "open")
                [] OTHER         -> Reset(req, "done")
    /\ touched' = IF x = "pending" THEN touched ELSE clockT
    /\ flush' = IF x = "last" /\ flush.st = "open" THEN [st |-> "sent", at |-> clockT] ELSE flush
    /\ UNCHANGED <<timeouts, clockT, fut, rsp>>

PollResponse(x) ==
    /\ rsp.st = "open"
    /\ rsp' = CASE x = "pending" -> PollBodyTimeout(rsp)
                [] x = "frame"   -> Reset(rsp, "open")
                [] OTHER         -> Reset(rsp, "done")
    /\ touched' = IF x = "pending" THEN touched ELSE clockT
    /\ UNCHANGED <<timeouts, clockT, flush, req, fut>>

\* The client gives the request's body up: the flush is never told, only the loss of
\* who would have told it.
DropRequest ==
    /\ req.st # "gone"
    /\ req' = [req EXCEPT !.st = "gone", !.armed = FALSE]
    /\ flush' = IF flush.st = "open" THEN [st |-> "dropped", at |-> clockT] ELSE flush
    /\ UNCHANGED <<timeouts, clockT, touched, fut, rsp>>

BodyDue(b) == b.st = "open" /\ b.armed /\ (b.deadline <= clockT \/ b.sleep <= clockT)

FutureDue ==
    fut.st = "open" /\ (~fut.armed \/ fut.deadline <= clockT \/ flush.st \in {"sent", "dropped"})

Woken == BodyDue(req) \/ BodyDue(rsp) \/ FutureDue

Tick ==
    /\ clockT < MaxTime /\ ~Woken
    /\ clockT' = clockT + 1
    /\ UNCHANGED <<timeouts, touched, flush, req, fut, rsp>>

TimeoutsNext ==
    \/ \E x \in {"pending", "head", "error"} : PollFuture(x)
    \/ \E x \in {"pending", "frame", "last", "error"} : PollRequest(x)
    \/ \E x \in {"pending", "frame", "end"} : PollResponse(x)
    \/ DropRequest
    \/ Tick

LastActive == IF req.last > rsp.last THEN req.last ELSE rsp.last

\* A task that waits, and that no timer has woken, is within every limit it has: the
\* stream is not overdue while someone wants its next frame or its head.
NotOverdue ==
    ~Woken =>
        /\ \A b \in {req, rsp} : b.st = "open" /\ b.armed =>
             clockT < timeouts.limit /\ clockT < After(LastActive, timeouts.idle)
        /\ rsp.st = "open" /\ rsp.armed =>
             clockT < After(Earlier(flush.at, rsp.head), timeouts.end)
        /\ fut.st = "open" => /\ clockT < timeouts.limit
                              /\ clockT < After(flush.at, timeouts.headers)
                              /\ timeouts.headers = Never => clockT < After(flush.at, timeouts.end)

\* No limit strikes early: idle only when neither direction has moved for that long,
\* whichever body's timer fires; the head's limit only counted from the flush.
NotEarly ==
    /\ \A b \in {<<req, req'>>, <<rsp, rsp'>>} : b[1].st = "open" =>
         /\ b[2].st = "idle" => clockT >= LastActive + timeouts.idle
         /\ b[2].st = "lifetime" => clockT >= timeouts.limit
         /\ b[2].st = "end" => clockT >= After(Earlier(flush.at, rsp.head), timeouts.end)
    /\ fut.st = "open" =>
         /\ fut'.st = "headers" => clockT >= After(flush.at, timeouts.headers)
         /\ fut'.st = "end" => clockT >= After(flush.at, timeouts.end)
         /\ fut'.st = "lifetime" => clockT >= timeouts.limit

============================================================================
