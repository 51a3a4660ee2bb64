-------------------------------- MODULE MCHttp --------------------------------
(***************************************************************************)
(* The carriers of HTTP messages, for TLC: the bodies that retries replay  *)
(* and peek into (Retry) and the HTTP/2 engine's receive side, wake-ups,   *)
(* server and client (NgRecv, NgBody, NgServe, NgClient); and what is      *)
(* counted of them (HttpMetrics).  A behaviour runs one of them, `part`,   *)
(* and leaves the others where they start.  "NgRecv" receives two streams, *)
(* "LongBody" one with more data; "StreamMetrics" counts an HTTP stream,   *)
(* "Sensors" a connection, "Tracked" the clones of a service.              *)
(***************************************************************************)
EXTENDS Retry, NgBody, NgClient, FiniteSets, TLC

CONSTANTS
    Parts,                       \* the machines to run
    Streams, MaxData, ConnWindow,
    SendChunks, Cap, Endings

VARIABLES
    part,
    peer, localDone, connWin, rs, events, sh, touched, readers,
    sending, item, responding, outs, response, send, wire, unflushed, closed, leaving, goingAway, finish,
    metered, svc, conn, registry, entry, used, prom, counted, tracked, drops, waited, now

recvVars == <<peer, localDone, connWin, rs, events, sh, touched, readers>>
serveVars == <<sending, item, responding, outs, response, send, wire, unflushed, closed, leaving, goingAway, finish>>
metricsVars == <<metered, svc, conn, registry, entry, used, prom, counted, tracked, drops, waited, now>>
vars == <<part, retryVars, peekVars, recvVars, bodyVars, serveVars, clientVars, metricsVars>>

\* Bodies of up to three chunks of one or two bytes: some outgrow the buffer.
SmallBodies == UNION {[1 .. n -> 1 .. 2] : n \in 0 .. 3}

\* Responses of up to four frames; trailers and errors end a response.
SmallResponses ==
    LET frames0 == UNION {[1 .. n -> {"data", "unknown"}] : n \in 0 .. 3}
    IN  frames0 \cup {Append(b, last) : b \in frames0, last \in {"trailers", "error"}}

\* Streams that end in each of the ways that the recorders tell apart.
Data == [of |-> "data"]
TrailersOf(code) == [of |-> "trailers", code |-> code]
Failure == [of |-> "error", causes |-> {"Cancel"}]
Answer(status, grpc) == [ok |-> TRUE, status |-> status, grpc |-> grpc]
NoAnswer(causes) == [ok |-> FALSE, causes |-> causes]

Script(proto, request, head, body0, hint) ==
    [kind |-> proto, codes |-> {"500", "13"}, request |-> request, head |-> head, frames |-> body0, hint |-> hint]

StreamScripts ==
    { Script("http", 0, Answer("200", "none"), << >>, TRUE),
      Script("http", 1, Answer("500", "none"), <<Data>>, TRUE),
      Script("http", 1, Answer("200", "none"), <<Data, Failure>>, FALSE),
      Script("http", 0, Answer("200", "none"), <<Failure>>, FALSE),
      Script("grpc", 2, Answer("200", "none"), <<Data, TrailersOf("13")>>, TRUE),
      Script("grpc", 1, Answer("200", "0"), <<TrailersOf("none")>>, FALSE),
      Script("grpc", 0, NoAnswer({"Redirect", "LoadShed", "Odd"}), << >>, FALSE),
      Script("http", 1, NoAnswer({"Injected", "Io"}), << >>, FALSE) }

NR == INSTANCE NgRecv WITH Window <- ConnWindow, actions <- events, dirty <- touched, reader <- readers
N1 == INSTANCE NgRecv
        WITH Streams <- {"s"}, MaxData <- 3, Window <- 2, actions <- events, dirty <- touched, reader <- readers
NS == INSTANCE NgServe
        WITH Chunks <- SendChunks, stream <- sending, body <- response, actions <- closed, peer <- leaving,
             result <- finish
HM == INSTANCE HttpMetrics
        WITH stream <- metered, clones <- tracked, Streams <- {"s"}, Conns <- {}, Clones <- {}, Scripts <- StreamScripts,
             Errors <- {"reset"}, Entries <- 1 .. 3, Retain <- 1, Bounds <- <<0, 1>>, MaxTime <- 2
HS == INSTANCE HttpMetrics
        WITH stream <- metered, clones <- tracked, Streams <- {}, Conns <- {"c"}, Clones <- {}, Scripts <- StreamScripts,
             Errors <- {"reset"}, Entries <- 1 .. 3, Retain <- 1, Bounds <- <<0, 1>>, MaxTime <- 2
HT == INSTANCE HttpMetrics
        WITH stream <- metered, clones <- tracked, Streams <- {}, Conns <- {}, Clones <- 1 .. 2, Scripts <- StreamScripts,
             Errors <- {"reset"}, Entries <- {1}, Retain <- 1, Bounds <- <<0, 1>>, MaxTime <- 3

\* A machine that does not run starts in one of its initial states.
Init ==
    /\ part \in Parts
    /\ RetryInit /\ PeekInit /\ BodyInit /\ NS!ServeInit /\ ClientInit
    /\ IF part = "LongBody" THEN N1!RecvInit ELSE NR!RecvInit
    /\ part # "Retry" => sizes = << >> /\ ~hasTrailers /\ eager
    /\ part # "PeekTrailers" => frames = << >> /\ ~http1
    /\ part # "NgServe" => \A s \in Streams : response[s].end = "eof"
    /\ CASE part = "StreamMetrics" -> HM!MetricsInit [] part = "Sensors" -> HS!MetricsInit [] OTHER -> HT!MetricsInit

Next ==
    /\ UNCHANGED part
    /\ IF part = "Retry" THEN RetryNext ELSE UNCHANGED retryVars
    /\ IF part = "PeekTrailers" THEN PeekNext ELSE UNCHANGED peekVars
    /\ CASE part = "NgRecv" -> NR!RecvNext [] part = "LongBody" -> N1!RecvNext [] OTHER -> UNCHANGED recvVars
    /\ IF part = "NgBody" THEN BodyNext ELSE UNCHANGED bodyVars
    /\ IF part = "NgServe" THEN NS!ServeNext ELSE UNCHANGED serveVars
    /\ IF part = "NgClient" THEN ClientNext ELSE UNCHANGED clientVars
    /\ CASE part = "StreamMetrics" -> HM!MetricsNext [] part = "Sensors" -> HS!MetricsNext [] part = "Tracked" -> HT!MetricsNext
         [] OTHER -> UNCHANGED metricsVars

Spec == Init /\ [][Next]_vars

Symmetry == Permutations(Streams)

-----------------------------------------------------------------------------
(* Properties; each is defined, with its reason, in the machine's module.  *)
(* ReplayFaithful, BodyNotLost and Accounted are the machines' own.         *)

\* Whatever the transport does, an attempt repeats no data: "Don't return the
\* buffered data again" (Retry).
SentFaithfulAny == SentFaithful

\* Readers get the data of their streams in order and complete, and the peer gets
\* window only for bytes that were read (NgRecv); a stream carries a prefix of its
\* response, and a deferred body with something to send is resumed (NgServe).  The
\* buffer of a request holds all that was read, or nothing past its limit, and an
\* attempt loses nothing, whatever the transport; peeking leaves the response as it
\* was, and reports trailers exactly when they were read (Retry).
StreamsFaithful ==
    /\ part = "NgRecv" => NR!DataDelivered /\ NR!NoOverCredit
    /\ part = "LongBody" => N1!DataDelivered /\ N1!NoOverCredit
    /\ part = "NgServe" => NS!ResponseFaithful /\ NS!DeferredResumes
    /\ part = "Retry" => CapExact /\ NothingLost
    /\ part = "PeekTrailers" => Transparent /\ PeekEndMeansAll /\ PeekExact

\* Every answered stream is recorded once, whole and under the class and status that
\* it ended with, and sensors and evicted stores lose and keep nothing they should
\* not (HttpMetrics).
MetricsExact ==
    /\ part = "StreamMetrics" => HM!MetricsExact
    /\ part = "Sensors" => HS!MetricsExact
    /\ part = "Tracked" => HT!MetricsExact
=============================================================================
