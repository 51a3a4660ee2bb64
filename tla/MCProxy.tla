----------------------------- MODULE MCProxy ------------------------------
(***************************************************************************)
(* What a proxy is made of besides its policies and balancers, for TLC:    *)
(* the process and its configuration (Lifecycle, Config), connections from *)
(* the listener to the application (Accept), requests through gateways     *)
(* (Gateways), the HTTP stack on either side of an endpoint (HttpStack:    *)
(* the hop, and a stream's timeouts), and the identity that secures the    *)
(* hop (Identity).  These machines share no state, so a behaviour runs one *)
(* of them, `part`, and leaves the others where they start.                *)
(* ProcessSound, ConfigSound, IdentitySound and GatewaysSound are the      *)
(* machines' own.                                                          *)
(***************************************************************************)
EXTENDS Lifecycle, Config, Identity, Gateways, TLC

CONSTANT Parts    \* the machines to run

VARIABLES part,
          hop, conn, stream, signaled,
          timeouts, clockT, touched, flush, req, fut, rsp,
          given, pc, bytes, arrived, fin, taken, buf, clientTls, transport, dst, variant, observed, counted,
          half, reply, poll, woken, blocks

hopVars == <<hop, conn, stream, signaled>>
timeoutVars == <<timeouts, clockT, touched, flush, req, fut, rsp>>
acceptVars == <<given, pc, bytes, arrived, fin, taken, buf, clientTls, transport, dst, variant, observed, counted,
                half, reply, poll, woken, blocks>>
vars == <<part, hopVars, timeoutVars, identityVars, acceptVars, gatewayVars, configVars, processVars>>

\* Requests in every form, with the headers that a connection owns.
Req(version, method, scheme, uri, authority, host, upgrade, headers, grpc) ==
    [version |-> version, method |-> method, scheme |-> scheme, path |-> uri, authority |-> authority,
     host |-> host, upgrade |-> upgrade, headers |-> headers, grpc |-> grpc,
     origProto |-> [version |-> 0, absolute |-> FALSE], ext |-> {}]

HopRequests ==
    { Req(11, "GET", FALSE, TRUE, "", "a", "", {"connection", "named", "x"}, FALSE),
      Req(11, "GET", TRUE, TRUE, "a", "", "", {"transfer-encoding"}, FALSE),
      Req(11, "GET", TRUE, TRUE, "a", "b", "h2c", {"connection", "x"}, FALSE),
      Req(10, "GET", FALSE, TRUE, "", "", "", {"x"}, FALSE),
      Req(11, "GET", FALSE, TRUE, "", "a", "other", {"connection", "x"}, FALSE),
      Req(11, "CONNECT", FALSE, FALSE, "a", "a", "", {"x"}, FALSE),
      Req(10, "CONNECT", FALSE, FALSE, "a", "", "", {}, FALSE),
      Req(11, "GET", FALSE, FALSE, "a", "", "", {}, FALSE),
      Req(2, "GET", TRUE, TRUE, "a", "", "", {"x"}, FALSE),
      Req(2, "POST", TRUE, TRUE, "a", "", "", {"x"}, TRUE) }

Rsp(version, status, upgrade, headers) ==
    [version |-> version, status |-> status, grpc |-> 0, upgrade |-> upgrade,
     origProto |-> [version |-> 0, absolute |-> FALSE], headers |-> headers]

HopAnswers ==
    { Rsp(11, 200, "", {"connection", "named", "content-length"}), Rsp(11, 101, "other", {"connection"}),
      Rsp(10, 200, "", {"transfer-encoding"}), Rsp(2, 200, "", {"x"}) }

HopFailures ==
    { [at |-> "out-server", error |-> e] : e \in {"failfast", "redirect"} }
    \cup { [at |-> "out-client", error |-> e] : e \in {"io", "h2"} }
    \cup { [at |-> "in-client", error |-> e] : e \in {"io", "h2"} }
    \cup { [at |-> "in-server", error |-> e] : e \in {"unauthorized", "loadshed"} }

HopConfig(version, engine, mesh, closable, emit, retries, outDefault, inDefault) ==
    [version |-> version, engine |-> engine, mesh |-> mesh, closable |-> closable, emit |-> emit,
     retries |-> retries, outDefault |-> outDefault, inDefault |-> inDefault]

HopConfigs ==
    { HopConfig(1, "hyper", "none", FALSE, FALSE, FALSE, "", ""),
      HopConfig(1, "hyper", "none", FALSE, TRUE, TRUE, "d", ""),
      HopConfig(1, "hyper", "http1", TRUE, FALSE, FALSE, "d", ""),
      HopConfig(1, "hyper", "http2", FALSE, FALSE, TRUE, "d", "d"),
      HopConfig(1, "hyper", "http2", TRUE, TRUE, FALSE, "d", "d"),
      HopConfig(2, "hyper", "http2", TRUE, FALSE, FALSE, "", ""),
      HopConfig(2, "nghttp2", "none", FALSE, TRUE, FALSE, "", "") }

StreamLimits ==
    { [headers |-> h, end |-> e, idle |-> i, limit |-> l] :
        h \in {2, 12}, e \in {3, 12}, i \in {2, 12}, l \in {4, 12} }

\* The second stream shows what the first leaves behind; it needs no variety.
StreamRequests ==
    [ s1 |-> HopRequests,
      s2 |-> { r \in HopRequests : r.grpc \/ (r.host = "a" /\ r.upgrade = "" /\ r.method = "GET") } ]

HS == INSTANCE HttpStack
        WITH Requests <- StreamRequests, Streams <- {"s1", "s2"}, Hops <- HopConfigs,
             AppAnswers <- HopAnswers, Failures <- HopFailures, Limits <- StreamLimits, MaxTime <- 4

\* Certificates: [trusted, sans, notAfter, keyOk].
San(form, id) == [form |-> form, id |-> id]
Mine == <<San("other", "x"), San("uri", ""), San("dns", "me")>>
Both == <<San("dns", "you"), San("dns", "me")>>
Yours == <<San("dns", "you")>>

Cert(trusted, sans, notAfter, keyOk) ==
    [trusted |-> trusted, sans |-> sans, notAfter |-> notAfter, keyOk |-> keyOk]
Good(notAfter) == Cert(TRUE, Mine, notAfter, TRUE)

CertifyAnswers ==
    { [ok |-> FALSE, until |-> {}, cert |-> Good(5)], [ok |-> TRUE, until |-> {}, cert |-> Good(5)] }
    \cup { [ok |-> TRUE, until |-> {cert.notAfter}, cert |-> cert] :
             cert \in {Good(5), Cert(TRUE, Both, 20, TRUE), Cert(TRUE, Yours, 20, TRUE),
                       Cert(FALSE, Mine, 20, TRUE), Cert(TRUE, Mine, 20, FALSE)} }
    \cup { [ok |-> TRUE, until |-> {20}, cert |-> Good(0)] }

Svid(id, key, leaf) == [id |-> id, key |-> key, chain |-> TRUE, leaf |-> leaf]

AgentUpdates ==
    { << >>,
      <<Svid("me", TRUE, Good(5)), Svid("you", TRUE, Cert(TRUE, Yours, 5, TRUE))>>,
      <<Svid("me", TRUE, Good(5)), Svid("me", TRUE, Cert(TRUE, Yours, 5, TRUE))>>,
      <<Svid("me", TRUE, Good(20)), Svid("me", FALSE, Good(5))>> }

Providers ==
    { [provider |-> "linkerd", min |-> 1, max |-> 9], [provider |-> "linkerd", min |-> 3, max |-> 2],
      [provider |-> "spire", min |-> 0, max |-> 0] }

TlsClients ==
    { [cert |-> {Cert(TRUE, Both, 3, TRUE)}, protocols |-> {"transport.l5d.io/v1"}, ecdsa |-> TRUE],
      [cert |-> {Cert(FALSE, Both, 3, TRUE)}, protocols |-> {}, ecdsa |-> TRUE],
      [cert |-> {}, protocols |-> {"h2"}, ecdsa |-> TRUE],
      [cert |-> {}, protocols |-> {}, ecdsa |-> FALSE] }

TlsServers == {Cert(TRUE, Both, 3, TRUE), Cert(FALSE, Yours, 20, TRUE)}

AC == INSTANCE Accept
        WITH PeekCapacity <- 2, CopyCapacity <- 2, SinkCapacity <- 1, MaxBlocks <- 1,
             stream <- bytes, tls <- clientTls, header <- transport

OneWorker == <<"w">>

\* A machine that does not run starts in one of its initial states.
Init ==
    /\ part \in Parts
    /\ HS!HopInit
    /\ part # "Hop" => hop = HopConfig(1, "hyper", "none", FALSE, FALSE, FALSE, "", "")
    /\ HS!TimeoutsInit
    /\ part # "Timeouts" => timeouts = [headers |-> 12, end |-> 12, idle |-> 12, limit |-> 12]
    /\ IdentityInit
    /\ part # "Identity" => source.provider = "spire"
    /\ AC!AcceptInit
    /\ part # "Accept" => ~given.allowed
    /\ GatewayInit
    /\ part # "Gateways" => profile = [n \in {"a"} |-> "logical"]
    /\ ConfigInit
    /\ part # "Config" => DOMAIN env = {}
    /\ ProcessInit

Next ==
    /\ UNCHANGED part
    /\ IF part = "Hop" THEN HS!HopNext ELSE UNCHANGED hopVars
    /\ IF part = "Timeouts" THEN HS!TimeoutsNext ELSE UNCHANGED timeoutVars
    /\ IF part = "Identity" THEN IdentityNext ELSE UNCHANGED identityVars
    /\ IF part = "Accept" THEN AC!AcceptNext ELSE UNCHANGED acceptVars
    /\ IF part = "Gateways" THEN GatewayNext ELSE UNCHANGED gatewayVars
    /\ IF part = "Config" THEN ConfigNext ELSE UNCHANGED configVars
    /\ IF part = "Lifecycle" THEN ProcessNext ELSE UNCHANGED processVars

Spec == Init /\ [][Next]_vars

\* The hop carries what the two applications said to each other, and the timeouts of
\* a stream strike when they are due, and not before (HttpStack).
StackFaithful ==
    /\ [](part = "Hop" => HS!HopFaithful)
    /\ [](part = "Timeouts" => HS!NotOverdue)
    /\ [][part = "Timeouts" => HS!NotEarly]_timeoutVars

\* No byte of a connection is lost, it is taken for what it is, it does not stall, and
\* it is counted once if it fails (Accept).
AcceptSound == part = "Accept" => AC!AcceptSound
=============================================================================
