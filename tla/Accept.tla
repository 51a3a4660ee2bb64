------------------------------- MODULE Accept -------------------------------
(***************************************************************************)
(* One inbound connection, from the listener to the application.  The      *)
(* proxy finds out what the connection is from bytes that arrive in pieces *)
(* of any size: it peeks and buffers a TLS ClientHello, reads a transport  *)
(* header, reads once for the HTTP version, and passes what it has read on *)
(* as a prefix of the connection.  Connections that are not HTTP are       *)
(* copied in both directions until both sides have been shut down.         *)
(*                                                                         *)
(* Bytes are tokens, each a piece that arrives at once.  The proxy's own   *)
(* port is "proxy" and the application's is "app".  How policies authorize *)
(* connections is the subject of InboundPolicy; here a policy is only the  *)
(* protocol that it gives to the port.                                     *)
(***************************************************************************)
EXTENDS Integers, Sequences, SequencesExt

CONSTANTS
    PeekCapacity,   \* tokens that one peek can see
    CopyCapacity,   \* tokens that the buffer of a copy holds
    SinkCapacity,   \* tokens that a writer keeps while its socket is full
    MaxBlocks       \* bound: how often sockets become full

VARIABLES
    given,     \* what the client, the listener and the policy bring
    pc,        \* how far the connection is handled
    stream,    \* what the client sends in the layer that is being read
    arrived,   \* tokens of it that have arrived
    fin,       \* whether the client has closed its side; nothing more arrives
    taken,     \* tokens of it that have been read from the socket
    buf,       \* tokens that were read and are passed on as the prefix
    tls,       \* what is known of the client's TLS
    header,    \* the transport header, if one was read
    dst,       \* the port to connect to
    variant,   \* the HTTP version of the connection
    observed,  \* results of HTTP detection that were counted
    counted,   \* errors that were counted
    half,      \* socket -> its state and that of the copy that reads it
    reply,     \* what the application has not sent, what of it was not read, and whether it has closed
    poll,      \* the step of Duplex::poll that comes next
    woken,     \* whether the task of the connection will be polled
    blocks     \* how often sockets became full

copyVars == <<half, reply, poll, woken, blocks>>
acceptVars == <<given, pc, stream, arrived, fin, taken, buf, tls, header, dst, variant, observed,
          counted, copyVars>>

-----------------------------------------------------------------------------
(* What clients send                                                       *)

Http1 == <<"ge", "t", "b">>
Http2 == <<"pr", "i", "b">>
Other == <<"x", "y", "z">>

\* Headers that a proxy sends before the connection's own bytes; the last is invalid.
Decode == [tcp  |-> {[port |-> "app", name |-> {}, protocol |-> {}]},
           loop |-> {[port |-> "proxy", name |-> {}, protocol |-> {}]},
           http |-> {[port |-> "app", name |-> {}, protocol |-> {"http2"}]},
           gate |-> {[port |-> "app", name |-> {"svc"}, protocol |-> {"http1"}]},
           none |-> {}]

Headers == {<<"pre", "size", m>> : m \in DOMAIN Decode} \cup {<<"pre", "huge", "none">>}

Foreign == {<<"hs", "hs", "other", "x">>, <<"hs", "unnamed", "x">>, <<"hs", "torn", "x">>}

\* Connections to the application's port, with or without mesh TLS, and to the
\* proxy's, which other proxies begin with a header.
Client(port, policies, wires, inners) ==
    [port : {port}, policy : policies, wire : wires, inner : inners, allowed : {TRUE}]

Clients ==
    Client("app", {"detect", "http1"}, {Http1, Other}, {<<>>})
    \cup Client("app", {"detect", "http2"}, {Http2}, {<<>>})
    \cup Client("app", {"detect"}, Foreign, {<<>>})
    \cup Client("app", {"tls", "opaque"}, {<<"hs", "hs", "other", "x">>}, {<<>>})
    \cup Client("app", {"detect"}, {<<"hs", "hs", "local">>}, {Http2, Other})
    \cup Client("app", {"http1"}, {<<"hs", "local">>}, {Http1})
    \cup Client("proxy", {"detect"}, {<<"hs", "local">>}, {Other} \cup {h \o <<"x", "y">> : h \in Headers})
    \cup [port : {"proxy"}, wire : {Other}, inner : {<<>>}, policy : {"detect"}, allowed : BOOLEAN]

Socket == [buf |-> <<>>, eof |-> FALSE, flushing |-> FALSE, shut |-> FALSE, sink |-> <<>>,
           got |-> <<>>, full |-> FALSE, rd |-> FALSE, wr |-> FALSE]

AcceptInit ==
    /\ given \in Clients
    /\ pc = "listen"
    /\ stream = given.wire
    /\ arrived = 0 /\ fin = FALSE /\ taken = 0 /\ buf = <<>>
    /\ tls = "unknown" /\ header = {} /\ dst = given.port /\ variant = {}
    /\ observed = <<>> /\ counted = <<>>
    /\ half = [h \in {"in", "out"} |-> Socket]
    /\ reply = [unsent |-> <<"r">>, left |-> <<>>, fin |-> FALSE]
    /\ poll = [at |-> "idle", who |-> "in", needsFlush |-> FALSE]
    /\ woken = TRUE
    /\ blocks = 0

Available == SubSeq(stream, taken + 1, arrived)
Rest == SubSeq(stream, taken + 1, Len(stream))

\* Bytes arrive, or the client closes its side.
Wakes(h) == IF half[h].rd THEN TRUE ELSE woken

Arrive(n) ==
    /\ pc # "closed" /\ ~fin /\ arrived + n <= Len(stream)
    /\ arrived' = arrived + n
    /\ woken' = Wakes("in")
    /\ half' = [half EXCEPT !["in"].rd = FALSE]
    /\ UNCHANGED <<given, pc, stream, fin, taken, buf, tls, header, dst, variant, observed,
                   counted, reply, poll, blocks>>

Finish ==
    /\ pc # "closed" /\ ~fin
    /\ fin' = TRUE
    /\ woken' = Wakes("in")
    /\ half' = [half EXCEPT !["in"].rd = FALSE]
    /\ UNCHANGED <<given, pc, stream, arrived, taken, buf, tls, header, dst, variant, observed,
                   counted, reply, poll, blocks>>

-----------------------------------------------------------------------------
(* The end of a connection that fails                                      *)

\* ErrorKind::mk: the label of an error.
Kind(error) ==
    CASE error \in {"eof", "handshake", "header", "refused", "reset"} -> "io"
      [] error = "tlsTimeout" -> "tlsDetectTimeout"
      [] OTHER -> "unexpected"

\* MonitorTcpErrorMetrics: the error is counted as the connection is dropped.
Fail(error) ==
    /\ pc' = "closed"
    /\ counted' = Append(counted, Kind(error))

-----------------------------------------------------------------------------
(* The listener                                                            *)

\* push_detect_tls: opaque ports skip TLS detection.
SkipsTls == given.port = "app" /\ given.policy = "opaque"

\* push_accept: connections to the proxy's port are direct; the others get the policy of
\* their port.
Accept ==
    /\ pc = "listen"
    /\ \/ /\ ~given.allowed
          /\ Fail("notAllowed")
          /\ tls' = tls
       \/ /\ given.allowed
          /\ pc' = IF SkipsTls THEN "connect" ELSE "peek"
          /\ tls' = IF SkipsTls THEN "skipped" ELSE tls
          /\ UNCHANGED counted
    /\ UNCHANGED <<given, stream, arrived, fin, taken, buf, header, dst, variant, observed, copyVars>>

-----------------------------------------------------------------------------
(* TLS detection                                                           *)

\* parse_sni: nothing while more input is needed.  A record whose inner lengths do
\* not fit ("torn") asks for more input for ever.
ParseSni(b) ==
    LET after == SelectSeq(b, LAMBDA t : t # "hs")
    IN  CASE b = <<>> -> {}
          [] b # <<>> /\ b[1] # "hs" -> {"none"}
          [] b # <<>> /\ b[1] = "hs" /\ after = <<>> -> {}
          [] OTHER -> IF after[1] = "torn" THEN {}
                      ELSE IF after[1] = "unnamed" THEN {"none"} ELSE {after[1]}

\* ClientInfo: direct connections need an identity and a negotiated header.
Identified(status, alpn) == status = "client" /\ alpn

\* The rest of DetectTls::call and the stacks above it: what is done with a
\* connection whose TLS is known.
AfterTls(status, alpn) ==
    /\ tls' = status
    /\ \/ /\ given.port = "proxy" /\ Identified(status, alpn)
          /\ pc' = "header"
          /\ UNCHANGED <<counted, variant>>
       \/ /\ given.port = "proxy" /\ ~Identified(status, alpn)
          /\ Fail("noIdentity")
          /\ UNCHANGED variant
       \/ /\ given.port = "app"
          /\ \/ /\ given.policy = "tls"
                /\ pc' = "connect"
                /\ UNCHANGED variant
             \/ /\ given.policy = "detect" \/ (given.policy = "http1" /\ status # "none")
                /\ pc' = "detect"
                /\ UNCHANGED variant
             \/ /\ given.policy = "http2" \/ (given.policy = "http1" /\ status = "none")
                /\ pc' = "http"
                /\ variant' = {given.policy}
          /\ UNCHANGED counted

\* DetectTls::call with the SNI that was found.
Detected(sni) ==
    \/ /\ sni = "local"
       /\ pc' = "handshake"
       /\ UNCHANGED <<tls, counted, variant>>
    \/ /\ sni = "other"
       /\ AfterTls("passthru", FALSE)
    \/ /\ sni = "none"
       /\ AfterTls("none", FALSE)

\* detect_sni: a peek leaves the bytes in the socket.
Peek ==
    /\ pc = "peek"
    /\ arrived > 0 \/ fin
    /\ LET found == ParseSni(SubSeq(stream, 1, IF arrived < PeekCapacity THEN arrived ELSE PeekCapacity))
       IN  \/ \E sni \in found : Detected(sni)
           \/ /\ found = {}
              /\ pc' = "buffer"
              /\ UNCHANGED <<tls, counted, variant>>
    /\ UNCHANGED <<given, stream, arrived, fin, taken, buf, header, dst, observed, copyVars>>

\* detect_sni: buffers until the ClientHello can be parsed or the client closes.
Buffer ==
    /\ pc = "buffer"
    /\ Available # <<>> \/ fin
    /\ buf' = buf \o Available
    /\ taken' = arrived
    /\ LET found == IF Available = <<>> THEN {"none"} ELSE ParseSni(buf')
       IN  \/ \E sni \in found : Detected(sni)
           \/ /\ found = {}
              /\ UNCHANGED <<pc, tls, counted, variant>>
    /\ UNCHANGED <<given, stream, arrived, fin, header, dst, observed, copyVars>>

TlsTimeout ==
    /\ pc \in {"peek", "buffer"}
    /\ Fail("tlsTimeout")
    /\ UNCHANGED <<given, stream, arrived, fin, taken, buf, tls, header, dst, variant, observed, copyVars>>

\* The handshake, of which Identity tells more, reads the prefix and the socket.  From
\* here on the connection is what the client sends inside the session.  Only the
\* proxy's own port offers the protocol of transport headers.
Handshake ==
    /\ pc = "handshake"
    /\ \/ /\ Fail("handshake")
          /\ UNCHANGED <<stream, arrived, taken, buf, tls, variant>>
       \/ /\ buf \o Rest = given.wire
          /\ stream' = given.inner
          /\ arrived' = 0 /\ taken' = 0 /\ buf' = <<>>
          /\ \E status \in {"client", "anonymous"}, alpn \in {given.port = "proxy", FALSE} :
                AfterTls(status, alpn)
    /\ UNCHANGED <<given, fin, header, dst, observed, copyVars>>

-----------------------------------------------------------------------------
(* The transport header                                                    *)

\* push_direct: a header that names a service is for the gateway; the others are
\* for a local port, as TCP or in the HTTP version that the header gives.
LocalTcp(h) == h.name = {} /\ h.protocol = {}
LocalHttp(h) == h.name = {} /\ h.protocol # {}

Dispatch(h) ==
    /\ header' = {h}
    /\ dst' = h.port
    /\ variant' = h.protocol
    /\ pc' = CASE LocalTcp(h) -> "connect" [] LocalHttp(h) -> "http" [] OTHER -> "gateway"

\* TransportHeader::read_prefaced and decode: what follows the header stays in buf.
UnreadForgotten(b) == <<>>
Unread(b) == SubSeq(b, 4, Len(b))

ReadHeader ==
    /\ pc = "header"
    /\ Available # <<>> \/ fin
    /\ taken' = arrived
    /\ LET b == buf \o Available
           bad == \/ Available = <<>>
                  \/ Len(b) >= 2 /\ (b[1] # "pre" \/ b[2] = "huge")
                  \/ Len(b) >= 3 /\ b[1] = "pre" /\ Decode[b[3]] = {}
       IN  \/ /\ bad
              /\ Fail("header")
              /\ UNCHANGED <<buf, header, dst, variant>>
           \/ /\ ~bad /\ Len(b) < 3
              /\ buf' = b
              /\ UNCHANGED <<pc, counted, header, dst, variant>>
           \/ /\ ~bad /\ Len(b) >= 3
              /\ buf' = Unread(b)
              /\ \E h \in Decode[b[3]] : Dispatch(h)
              /\ UNCHANGED counted
    /\ UNCHANGED <<given, stream, arrived, fin, tls, observed, copyVars>>

HeaderTimeout ==
    /\ pc = "header"
    /\ Fail("header")
    /\ UNCHANGED <<given, stream, arrived, fin, taken, buf, tls, header, dst, variant, observed, copyVars>>

-----------------------------------------------------------------------------
(* HTTP detection                                                          *)

\* detect: fewer than 14 bytes (two tokens) are not enough for either version.
Version(b) ==
    IF Len(b) < 2 THEN "notHttp"
    ELSE CASE SubSeq(b, 1, 2) = <<"pr", "i">> -> "http2"
           [] SubSeq(b, 1, 2) = <<"ge", "t">> -> "http1"
           [] OTHER -> "notHttp"

\* The switch above detection: a connection that says nothing in time is opaque,
\* unless its policy says HTTP/1.
Switch(result) ==
    LET http == IF result = "timeout" /\ given.policy = "http1" THEN {"http1"}
                ELSE {result} \cap {"http1", "http2"}
    IN  /\ variant' = http
        /\ pc' = IF http = {} THEN "connect" ELSE "http"

\* DetectMetrics: every result is counted.
Observe(result) == observed' = Append(observed, result)

\* Detect::call: one read, of the prefix if there is one, whose result is counted
\* whatever it is.
Detect ==
    /\ pc = "detect"
    /\ buf # <<>> \/ Available # <<>> \/ fin
    /\ taken' = IF buf # <<>> THEN taken ELSE arrived
    /\ buf' = IF buf # <<>> THEN buf ELSE Available
    /\ \/ /\ buf' = <<>>
          /\ Observe("error")
          /\ Fail("eof")
          /\ UNCHANGED variant
       \/ /\ buf' # <<>>
          /\ Observe(Version(buf'))
          /\ Switch(Version(buf'))
          /\ UNCHANGED counted
    /\ UNCHANGED <<given, stream, arrived, fin, tls, header, dst, copyVars>>

DetectTimeout ==
    /\ pc = "detect"
    /\ buf = <<>>
    /\ Observe("timeout")
    /\ Switch("timeout")
    /\ UNCHANGED <<given, stream, arrived, fin, taken, buf, tls, header, dst, counted, copyVars>>

-----------------------------------------------------------------------------
(* Forwarding                                                              *)

\* into_tcp_connect: the proxy never connects to its own port.
Loops(port) == port = "proxy"

\* push_tcp_forward
Connect ==
    /\ pc = "connect"
    /\ \/ /\ Loops(dst)
          /\ Fail("loop")
       \/ /\ ~Loops(dst)
          /\ Fail("refused") \/ Fail("connectTimeout")
       \/ /\ ~Loops(dst)
          /\ pc' = "copy"
          /\ UNCHANGED counted
    /\ UNCHANGED <<given, stream, arrived, fin, taken, buf, tls, header, dst, variant, observed, copyVars>>

Peer(h) == IF h = "in" THEN "out" ELSE "in"
who == poll.who
to == Peer(who)

\* What the socket of the copy being polled can give: the client's is read through
\* its prefix.
Readable ==
    CASE who = "in" /\ buf # <<>> -> buf
      [] who = "in" /\ buf = <<>> -> Available
      [] OTHER -> reply.left
Closed == IF who = "in" THEN fin /\ buf = <<>> /\ Available = <<>> ELSE reply.fin /\ reply.left = <<>>

Least(m, n) == IF m < n THEN m ELSE n

\* PrefixedIo::poll_read and the other sockets: up to n tokens are taken.
Take(n) ==
    \/ /\ who = "in" /\ buf # <<>>
       /\ buf' = SubSeq(buf, n + 1, Len(buf))
       /\ UNCHANGED <<taken, reply>>
    \/ /\ who = "in" /\ buf = <<>>
       /\ taken' = taken + n
       /\ UNCHANGED <<buf, reply>>
    \/ /\ who = "out"
       /\ reply' = [reply EXCEPT !.left = SubSeq(@, n + 1, Len(@))]
       /\ UNCHANGED <<buf, taken>>

\* Duplex::poll: the client's half first, then the application's.  The copy is
\* over when both sockets have been shut down.
Next1(at) == [poll EXCEPT !.at = at]
HalfDone(hs) ==
    IF who = "in"
    THEN /\ poll' = [at |-> "start", who |-> "out", needsFlush |-> FALSE]
         /\ UNCHANGED pc
    ELSE /\ poll' = [at |-> "idle", who |-> "in", needsFlush |-> FALSE]
         /\ pc' = IF hs["in"].shut /\ hs["out"].shut THEN "done" ELSE pc

copyRest == <<given, stream, arrived, fin, tls, header, dst, variant, observed, counted, blocks>>

Poll ==
    /\ pc = "copy" /\ poll.at = "idle" /\ woken
    /\ woken' = FALSE
    /\ poll' = Next1("start")
    /\ UNCHANGED <<copyRest, pc, taken, buf, half, reply>>

\* poll_flush of the socket that is written to, by the copy that sets flushing.
Flushed == [half EXCEPT ![to].got = @ \o half[to].sink, ![to].sink = <<>>, ![who].flushing = FALSE]
Unflushed == [half EXCEPT ![to].wr = TRUE, ![who].flushing = TRUE]
CanFlush == half[to].sink = <<>> \/ ~half[to].full

\* copy_into before its loop.
CopyStart ==
    /\ pc = "copy" /\ poll.at = "start"
    /\ \/ /\ half[to].shut
          /\ HalfDone(half)
          /\ UNCHANGED half
       \/ /\ ~half[to].shut /\ half[who].flushing /\ ~CanFlush
          /\ half' = Unflushed
          /\ HalfDone(half)
       \/ /\ ~half[to].shut /\ (half[who].flushing => CanFlush)
          /\ half' = IF half[who].flushing THEN Flushed ELSE half
          /\ poll' = Next1("buffer")
          /\ UNCHANGED pc
    /\ UNCHANGED <<copyRest, taken, buf, reply, woken>>

\* poll_buffer, with the flush of what was written when nothing can be read.
PollBuffer ==
    /\ pc = "copy" /\ poll.at = "buffer"
    /\ \/ /\ half[who].buf # <<>>
          /\ poll' = Next1("drain")
          /\ UNCHANGED <<pc, taken, buf, reply, half>>
       \/ /\ half[who].buf = <<>> /\ ~half[who].eof /\ Readable # <<>>
          /\ LET n == Least(Len(Readable), CopyCapacity)
             IN  /\ half' = [half EXCEPT ![who].buf = SubSeq(Readable, 1, n)]
                 /\ Take(n)
          /\ poll' = Next1("drain")
          /\ UNCHANGED pc
       \/ /\ half[who].buf = <<>> /\ (half[who].eof \/ Closed)
          /\ half' = [half EXCEPT ![who].eof = TRUE]
          /\ poll' = Next1("shutdown")
          /\ UNCHANGED <<pc, taken, buf, reply>>
       \/ /\ half[who].buf = <<>> /\ ~half[who].eof /\ Readable = <<>> /\ ~Closed
          /\ half' = [(IF ~poll.needsFlush THEN half ELSE IF CanFlush THEN Flushed ELSE Unflushed)
                      EXCEPT ![who].rd = TRUE]
          /\ HalfDone(half)
          /\ UNCHANGED <<taken, buf, reply>>
    /\ UNCHANGED <<copyRest, woken>>

\* A write: a full socket takes as much as the writer can keep, then nothing.
Room == IF half[to].full THEN SinkCapacity - Len(half[to].sink) ELSE Len(half[who].buf)
Written ==
    LET b == half[who].buf
        n == Least(Len(b), Room)
        front == SubSeq(b, 1, n)
    IN  [half EXCEPT ![who].buf = SubSeq(b, n + 1, Len(b)),
                     ![to].sink = IF half[to].full THEN @ \o front ELSE <<>>,
                     ![to].got = IF half[to].full THEN @ ELSE @ \o half[to].sink \o front]

\* drain_into, and what copy_into does when everything or only a part was written.
DrainInto ==
    /\ pc = "copy" /\ poll.at \in {"drain", "redrain"}
    /\ \/ /\ Room > 0
          /\ half' = Written
          /\ poll' = IF half'[who].buf # <<>> THEN poll
                     ELSE [poll EXCEPT !.at = "buffer", !.needsFlush = (poll.at = "drain")]
          /\ UNCHANGED pc
       \/ /\ Room = 0 /\ poll.at = "drain"
          /\ half' = [half EXCEPT ![to].wr = TRUE]
          /\ poll' = Next1("flush")
          /\ UNCHANGED pc
       \/ /\ Room = 0 /\ poll.at = "redrain"
          /\ half' = [half EXCEPT ![to].wr = TRUE]
          /\ HalfDone(half)
    /\ UNCHANGED <<copyRest, taken, buf, reply, woken>>

\* The flush after a partial write.
FlushPartial ==
    /\ pc = "copy" /\ poll.at = "flush"
    /\ \/ /\ CanFlush
          /\ half' = Flushed
          /\ poll' = Next1("redrain")
          /\ UNCHANGED pc
       \/ /\ ~CanFlush
          /\ half' = Unflushed
          /\ HalfDone(half)
    /\ UNCHANGED <<copyRest, taken, buf, reply, woken>>

\* poll_shutdown of the destination, which flushes it first.
Shutdown ==
    /\ pc = "copy" /\ poll.at = "shutdown"
    /\ LET hs == IF CanFlush
                 THEN [half EXCEPT ![to].got = @ \o half[to].sink, ![to].sink = <<>>, ![to].shut = TRUE]
                 ELSE [half EXCEPT ![to].wr = TRUE]
       IN  /\ half' = hs
           /\ HalfDone(hs)
    /\ UNCHANGED <<copyRest, taken, buf, reply, woken>>

\* A socket fails: the copy ends in both directions, and its buffers are dropped.
Reset ==
    /\ pc = "copy" /\ poll.at \in {"buffer", "drain", "flush", "redrain", "shutdown"}
    /\ Fail("reset")
    /\ buf' = <<>>
    /\ half' = [h \in {"in", "out"} |-> Socket]
    /\ poll' = [at |-> "idle", who |-> "in", needsFlush |-> FALSE]
    /\ woken' = FALSE
    /\ UNCHANGED <<given, stream, arrived, fin, taken, tls, header, dst, variant, observed, reply, blocks>>

\* The sockets: they become full and take bytes again, and the application sends and closes.
Block(h) ==
    /\ pc = "copy" /\ ~half[h].full /\ blocks < MaxBlocks
    /\ half' = [half EXCEPT ![h].full = TRUE]
    /\ blocks' = blocks + 1
    /\ UNCHANGED <<given, pc, stream, arrived, fin, taken, buf, tls, header, dst, variant, observed,
                   counted, reply, poll, woken>>

Unblock(h) ==
    /\ pc = "copy" /\ half[h].full
    /\ half' = [half EXCEPT ![h].full = FALSE, ![h].wr = FALSE]
    /\ woken' = IF half[h].wr THEN TRUE ELSE woken
    /\ UNCHANGED <<given, pc, stream, arrived, fin, taken, buf, tls, header, dst, variant, observed,
                   counted, reply, poll, blocks>>

AppSends ==
    /\ pc = "copy" /\ ~reply.fin
    /\ \/ reply' = [reply EXCEPT !.fin = TRUE]
       \/ reply.unsent # <<>> /\ reply' = [reply EXCEPT !.left = @ \o reply.unsent, !.unsent = <<>>]
    /\ half' = [half EXCEPT !["out"].rd = FALSE]
    /\ woken' = Wakes("out")
    /\ UNCHANGED <<given, pc, stream, arrived, fin, taken, buf, tls, header, dst, variant, observed,
                   counted, poll, blocks>>

AcceptNext ==
    \/ \E n \in 1..3 : Arrive(n)
    \/ Finish
    \/ Accept \/ Peek \/ Buffer \/ TlsTimeout \/ Handshake
    \/ ReadHeader \/ HeaderTimeout
    \/ Detect \/ DetectTimeout
    \/ Connect
    \/ Poll \/ CopyStart \/ PollBuffer \/ DrainInto \/ FlushPartial \/ Shutdown \/ Reset
    \/ \E h \in {"in", "out"} : Block(h) \/ Unblock(h)
    \/ AppSends

AcceptSpec == AcceptInit /\ [][AcceptNext]_acceptVars

-----------------------------------------------------------------------------
(* Properties                                                              *)

\* What the client means for whoever gets the connection: all that it sends in the
\* layer that was reached, but the transport header.
Meant == IF header = {} THEN stream ELSE SubSeq(stream, 4, Len(stream))

\* However its bytes arrive, and whatever was peeked, buffered or read ahead to find
\* out what the connection is, no byte is lost, repeated or moved (detect_sni,
\* read_prefaced, Detect::call, PrefixedIo, CopyBuf); a side is shut down when all
\* that was sent to it has been delivered, and the copy ends when both are.
BytesFaithful ==
    /\ pc # "closed" =>
        half["out"].got \o half["out"].sink \o half["in"].buf \o buf \o Rest = Meant
    /\ pc # "closed" =>
        half["in"].got \o half["in"].sink \o half["out"].buf \o reply.left \o reply.unsent = <<"r">>
    /\ half["out"].shut => fin /\ half["out"].got = SubSeq(Meant, 1, Len(Meant) - Len(stream) + arrived)
    /\ half["in"].shut => reply.fin /\ half["in"].got \o reply.unsent = <<"r">>
    /\ pc = "done" => half["in"].shut /\ half["out"].shut

\* What is found does not depend on how the bytes arrive: TLS is never mistaken
\* unless the client closes early, a version is never seen that the bytes do not
\* have, the proxy's port serves only clients that have an identity and negotiated
\* a header, and every connection goes to the port that it asked for.
DetectionSound ==
    /\ tls = "passthru" => ParseSni(given.wire) = {"other"}
    /\ tls \in {"client", "anonymous"} => ParseSni(given.wire) = {"local"}
    /\ tls = "none" => ParseSni(given.wire) = {"none"} \/ fin
    /\ \A v \in variant : given.policy = "detect" /\ header = {} => Version(stream) = v
    /\ pc \in {"connect", "copy", "done", "http", "gateway"} =>
        IF given.port = "proxy"
        THEN tls = "client" /\ \E h \in header : dst = h.port /\ {h} = Decode[given.inner[3]]
        ELSE dst = "app" /\ header = {}
    /\ pc \in {"copy", "done"} => dst # "proxy"

\* A connection that waits will be polled when it can go on: the copy has asked to
\* be told when its source can be read or its destination written (copy_into).
NeverStalls ==
    pc = "copy" /\ poll.at = "idle" /\ ~woken =>
        \A h \in {"in", "out"} :
            IF half[h].flushing \/ half[h].buf # <<>> \/ (half[h].eof /\ ~half[Peer(h)].shut)
            THEN half[Peer(h)].wr
            ELSE half[h].rd \/ half[Peer(h)].shut

\* Every connection that fails is counted once, and every HTTP detection.
CountedOnce ==
    /\ Len(counted) = (IF pc = "closed" THEN 1 ELSE 0)
    /\ Len(observed) <= 1
    /\ variant # {} /\ given.policy = "detect" /\ header = {} => observed = <<CHOOSE v \in variant : TRUE>>

AcceptSound == BytesFaithful /\ DetectionSound /\ NeverStalls /\ CountedOnce
=============================================================================
