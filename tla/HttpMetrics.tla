---------------------------- MODULE HttpMetrics ----------------------------
(***************************************************************************)
(* What the proxy counts: an HTTP stream passes through nested recorders   *)
(* (http/metrics, http/prom: classes, statuses, durations), a connection   *)
(* through a sensor (transport-metrics), and what they share is kept in    *)
(* stores whose idle entries a scrape evicts (metrics/store.rs).  The      *)
(* recorders wrap the body of a response and answer, for the layers around *)
(* them, whether it is at its end: from the inside out they are the        *)
(* classes of the endpoint, the duration of the response, its status, and  *)
(* the duration of the request.                                            *)
(***************************************************************************)
EXTENDS Integers, Sequences, FiniteSets, Bags, Folds

CONSTANTS
    Streams,      \* HTTP streams
    Scripts,      \* how a stream goes: [kind, codes, request, head, frames, hint]
    Conns,        \* transport connections
    Clones,       \* clones of a tracked service, the first one included
    Errors,       \* what an operation on a connection may fail with
    Entries,      \* identities of the entries of the stores
    Retain,       \* how long an entry is kept that nobody updates
    Bounds,       \* of a latency histogram, ascending
    MaxTime

VARIABLES
    stream,       \* HTTP streams, their recorders included
    svc,          \* the entry that the HTTP service holds, or none
    conn,         \* connections, their sensors included
    registry,     \* the stores: the entry of each key, or none
    entry,        \* the entries: counters
    used,         \* how many entries were ever made
    prom,         \* the families of the Prometheus client: what was observed
    counted,      \* its counters: calls (count_reqs.rs) and data frames (body_data)
    clones,       \* the clones of a tracked service (stack/metrics)
    drops,        \* its drop_total
    waited,       \* its poll_millis
    now

metricsVars == <<stream, svc, conn, registry, entry, used, prom, counted, clones, drops, waited, now>>

None == "none"
NoEntry == 0      \* an Option<Arc<Metrics>> that is None
NotYet == -1      \* a time that is not known
Keys == {"http", "tcp"}

NewSensor == [phase |-> "idle", entry |-> NoEntry, home |-> 0, moved |-> 0, why |-> None]

CountCall == [counted EXCEPT !.calls = @ + 1]

-----------------------------------------------------------------------------
(* Classes (app/core/classify.rs) and labels (stream_label).  A failure is *)
(* [fail |-> TRUE, of |-> what].                                           *)

Class(fail, what) == [fail |-> fail, what |-> what]

\* Response::start on a head, then Eos::eos: the head decides if it can, or the
\* gRPC code of the trailers; with neither, a gRPC stream is an unknown success.
StartAndEos(script, trailers) ==
    LET head == script.head
        code == IF head.grpc # None THEN head.grpc ELSE trailers
    IN  CASE script.kind = "http" -> Class(head.status \in script.codes, head.status)
          [] script.kind = "grpc" /\ code # None -> Class(code \in script.codes, code)
          [] script.kind = "grpc" /\ code = None -> Class(FALSE, "unknown")

\* Error::new_or_status: the causes of an error in the order they are looked for;
\* redirects and injected failures are statuses, the others errors.
Causes == <<"FailFast", "LoadShed", "Redirect", "Injected", "ResponseHeadersTimeout",
            "ResponseStreamTimeout", "RequestTimeout", "IdleTimeout", "Cancel", "Refused", "GoAway", "Io">>

NewOrStatus(causes) ==
    LET known == {i \in DOMAIN Causes : Causes[i] \in causes}
        first == Causes[CHOOSE i \in known : \A j \in known : i <= j]
    IN  CASE known = {} -> [status |-> None, error |-> "Unknown"]
          [] known # {} /\ first \in {"Redirect", "Injected"} -> [status |-> first, error |-> None]
          [] OTHER -> [status |-> None, error |-> first]

\* LabelHttpStatus and LabelGrpcStatus: a head's status, or the code of the
\* trailers in place of the head's.
LabelStatus(script, result) ==
    CASE script.kind = "http" -> script.head.status
      [] script.kind = "grpc" /\ result.of = "trailers" -> result.code
      [] OTHER -> script.head.grpc

\* status_labels: the status first, then what an error says.
StatusLabels(script, result) ==
    LET error == IF result.of = "error" THEN NewOrStatus(result.causes)
                 ELSE [status |-> None, error |-> None]
        status == IF script.head.ok THEN LabelStatus(script, result) ELSE None
    IN  [status |-> IF status # None THEN status ELSE error.status, error |-> error.error]

Eos == [of |-> "none"]
Cancelled == [of |-> "error", causes |-> {}]

-----------------------------------------------------------------------------
(* The stores. *)

NewEntry(key) ==
    [key |-> key, updated |-> now, total |-> 0, classes |-> EmptyBag, latency |-> << >>,
     open |-> 0, opened |-> 0, bytes |-> 0, closes |-> EmptyBag]

\* get_or_default: the entry of a key, made if there is none.
CanGet(key) == registry[key] # NoEntry \/ used < Cardinality(Entries)

GetOrDefault(key) == IF registry[key] # NoEntry THEN registry[key] ELSE used + 1

\* The entries and the registry once `key` was looked up.
LookUp(key) ==
    /\ CanGet(key)
    /\ IF registry[key] # NoEntry
       THEN UNCHANGED <<registry, used, entry>>
       ELSE /\ registry' = [registry EXCEPT ![key] = used + 1]
            /\ used' = used + 1
            /\ entry' = [entry EXCEPT ![used + 1] = NewEntry(key)]

\* Arc::strong_count: the registry's own, and those of services, streams, requests
\* and connections.
Holders(e) ==
    (IF svc = e THEN {<<"service", "http">>} ELSE {}) \cup
    {<<"request", s>> : s \in {x \in Streams : stream[x].reqEntry = e}} \cup
    {<<"response", s>> : s \in {x \in Streams : stream[x].rspEntry = e}} \cup
    {<<"sensor", c>> : c \in {x \in Conns : conn[x].entry = e}}

RetainSince(epoch) ==
    [k \in Keys |->
        IF registry[k] # NoEntry /\ (Holders(registry[k]) # {} \/ entry[registry[k]].updated >= epoch)
        THEN registry[k] ELSE NoEntry]

\* fmt_metrics: what there is is formatted, then idle entries leave.
Report ==
    /\ registry' = RetainSince(now - Retain)
    /\ UNCHANGED <<stream, svc, conn, entry, used, prom, counted, clones, drops, waited, now>>

-----------------------------------------------------------------------------
(* Histograms (metrics/histogram.rs): the first bucket that a value fits;  *)
(* the last bound is infinite.                                             *)

Bucket(value) ==
    LET fits == {i \in DOMAIN Bounds : value <= Bounds[i]} \cup {Len(Bounds) + 1}
    IN  CHOOSE i \in fits : \A j \in fits : i <= j

HistogramAdd(latency, value) ==
    [i \in 1 .. Len(Bounds) + 1 |->
        (IF latency = << >> THEN 0 ELSE latency[i]) + (IF i = Bucket(value) THEN 1 ELSE 0)]

\* fmt_metric: buckets are summed up as they are written.
FmtHistogram(latency) ==
    LET sum[i \in 0 .. Len(latency)] == IF i = 0 THEN 0 ELSE sum[i - 1] + latency[i]
    IN  [i \in DOMAIN latency |-> sum[i]]

-----------------------------------------------------------------------------
(* A stream's recorders.                                                   *)

IdleStream ==
    [phase |-> "idle", script |-> None, opened |-> 0, home |-> 0,
     reqEntry |-> NoEntry, reqSeen |-> 0, flushed |-> NotYet, rspEntry |-> NoEntry, classify |-> FALSE,
     latency |-> FALSE, layers |-> [l \in {"response", "status", "request"} |-> FALSE],
     taken |-> 0, eos |-> FALSE, data |-> 0, end |-> None]

Elapsed(t) == IF t = NotYet THEN 0 ELSE IF now >= t THEN now - t ELSE 0

\* end_stream and on_eos of every layer that still waits: durations since the
\* request was flushed, and since the call; the status of the stream.
EndLayers(s, ended, result) ==
    LET x == stream[s]
        dropped(l) == x.layers[l] /\ ended[l]
        one(cond, v) == IF cond THEN SetToBag({v}) ELSE EmptyBag
    IN  [prom EXCEPT
           !.response = @ (+) one(dropped("response"), <<Elapsed(x.flushed), s>>),
           !.status = @ (+) one(dropped("status"), <<StatusLabels(x.script, result), s>>),
           !.request = @ (+) one(dropped("request"), <<Elapsed(x.opened), s>>)]

\* Which layers see the end when the body they wrap answers `hint`: each asks the
\* one inside it, which is at its end once it has recorded.
SeesEnd(s, hint) ==
    LET response == ~stream[s].layers["response"] \/ hint
        status == ~stream[s].layers["status"] \/ response
    IN  [l \in {"response", "status", "request"} |->
            CASE l = "response" -> hint [] l = "status" -> response [] l = "request" -> status]

AllEnd == [l \in {"response", "status", "request"} |-> TRUE]

LayersAfter(s, ended) == [l \in DOMAIN ended |-> stream[s].layers[l] /\ ~ended[l]]

\* record_class and measure_class: once, for as long as the entry is held.
RecordClass(e, class) == [e EXCEPT !.classes = @ (+) SetToBag({class}), !.updated = now]

RecordLatency(e, t) == [e EXCEPT !.latency = HistogramAdd(@, Elapsed(t)), !.updated = now]

\* HttpMetrics::call inside the layers of http/prom: a request that has no body is
\* counted at once.
Call(s, script) ==
    /\ stream[s].phase = "idle" /\ svc # NoEntry
    /\ stream' = [stream EXCEPT ![s] =
         [@ EXCEPT !.phase = "called", !.script = script, !.opened = now, !.home = svc,
                   !.reqEntry = IF script.request = 0 THEN NoEntry ELSE svc,
                   !.flushed = IF script.request = 0 THEN now ELSE NotYet,
                   !.rspEntry = svc, !.classify = TRUE,
                   !.layers = [l \in DOMAIN @ |-> TRUE]]]
    /\ entry' = [entry EXCEPT ![svc] =
                   IF script.request = 0 THEN [@ EXCEPT !.total = @ + 1, !.updated = now] ELSE @]
    /\ counted' = CountCall
    /\ UNCHANGED <<svc, conn, registry, used, prom, clones, drops, waited, now>>

\* RequestBody::poll_frame: the first frame counts the request; the start of the
\* response's duration is when the body says that it is at its end.
PollRequest(s) ==
    LET x == stream[s] IN
    /\ x.phase # "idle" /\ x.reqSeen < x.script.request
    /\ stream' = [stream EXCEPT ![s].reqEntry = NoEntry, ![s].reqSeen = @ + 1,
                                ![s].flushed = IF @ = NotYet /\ x.reqSeen + 1 = x.script.request /\ x.script.hint
                                               THEN now ELSE @]
    /\ entry' = IF x.reqEntry # NoEntry
                THEN [entry EXCEPT ![x.reqEntry].total = @ + 1, ![x.reqEntry].updated = now]
                ELSE entry
    /\ counted' = [counted EXCEPT !.request = @ + 1]
    /\ UNCHANGED <<svc, conn, registry, used, prom, clones, drops, waited, now>>

\* RequestBody::drop: the start is sent if it was not yet.
DropRequest(s) ==
    LET x == stream[s] IN
    /\ x.phase # "idle" /\ x.script.request > 0 /\ (x.flushed = NotYet \/ x.reqEntry # NoEntry)
    /\ stream' = [stream EXCEPT ![s].reqEntry = NoEntry, ![s].reqSeen = x.script.request,
                                ![s].flushed = IF @ = NotYet THEN now ELSE @]
    /\ UNCHANGED <<svc, conn, registry, entry, used, prom, counted, clones, drops, waited, now>>

\* Where the wrapped body is at its end without being asked for another frame.
AtEnd(x) == x.eos \/ (x.script.hint /\ x.taken = Len(x.script.frames))

\* ResponseFuture::poll, on a head: the layers of an empty body end at once.
RspHead(s) ==
    LET x == stream[s]
        ended == SeesEnd(s, AtEnd(x))
    IN
    /\ x.phase = "called" /\ x.script.head.ok
    /\ prom' = EndLayers(s, ended, Eos)
    /\ stream' = [stream EXCEPT ![s].phase = "body", ![s].layers = LayersAfter(s, ended)]
    /\ UNCHANGED <<svc, conn, registry, entry, used, counted, clones, drops, waited, now>>

\* ResponseFuture::poll, on an error: every recorder ends.
RspErr(s) ==
    LET x == stream[s]
        result == [of |-> "error", causes |-> x.script.head.causes]
    IN
    /\ x.phase = "called" /\ ~x.script.head.ok
    /\ entry' = [entry EXCEPT ![x.rspEntry] = RecordClass(@, Class(TRUE, "error"))]
    /\ prom' = EndLayers(s, AllEnd, result)
    /\ stream' = [stream EXCEPT ![s].phase = "done", ![s].rspEntry = NoEntry, ![s].classify = FALSE,
                                ![s].layers = LayersAfter(s, AllEnd), ![s].end = "failed"]
    /\ UNCHANGED <<svc, conn, registry, used, counted, clones, drops, waited, now>>

\* The response's future is dropped: none of the recorders has a drop for it.
CancelFuture(s) ==
    /\ stream[s].phase = "called"
    /\ stream' = [stream EXCEPT ![s].phase = "done", ![s].rspEntry = NoEntry, ![s].classify = FALSE,
                                ![s].layers = LayersAfter(s, AllEnd), ![s].end = "unanswered"]
    /\ UNCHANGED <<svc, conn, registry, entry, used, prom, counted, clones, drops, waited, now>>

\* ResponseBody::poll_frame of HttpMetrics: an error is classified, which gives the
\* entry up, before the latency would be recorded; then the end, if it is one.
ClassAndLatency(x, frame) ==
    LET class == IF frame.of = "error" THEN Class(TRUE, "error")
                 ELSE StartAndEos(x.script, IF frame.of = "trailers" THEN frame.code ELSE None)
        timed == IF x.latency \/ frame.of = "error" THEN entry[x.rspEntry]
                 ELSE RecordLatency(entry[x.rspEntry], x.opened)
    IN  IF x.rspEntry = NoEntry THEN entry
        ELSE [entry EXCEPT ![x.rspEntry] = IF x.classify /\ frame.of # "data"
                                           THEN RecordClass(timed, class) ELSE timed]

\* Body::poll_frame through all the layers.
PollBody(s) ==
    LET x == stream[s]
        frame == IF x.taken < Len(x.script.frames) THEN x.script.frames[x.taken + 1] ELSE Eos
        isEos == frame.of # "data"
        after == [x EXCEPT !.taken = IF frame = Eos THEN @ ELSE @ + 1, !.eos = @ \/ isEos]
        ended == IF isEos THEN AllEnd ELSE SeesEnd(s, AtEnd(after))
        result == IF isEos THEN frame ELSE Eos
    IN
    /\ x.phase = "body" /\ ~x.eos
    /\ entry' = ClassAndLatency(x, frame)
    /\ prom' = EndLayers(s, ended, result)
    /\ stream' = [stream EXCEPT ![s] =
         [after EXCEPT !.rspEntry = IF isEos THEN NoEntry ELSE @, !.classify = @ /\ ~isEos,
                       !.latency = @ \/ frame.of # "error", !.layers = LayersAfter(s, ended),
                       !.data = IF frame.of = "data" THEN @ + 1 ELSE @]]
    /\ counted' = [counted EXCEPT !.response = IF frame.of = "data" THEN @ + 1 ELSE @]
    /\ UNCHANGED <<svc, conn, registry, used, clones, drops, waited, now>>

\* What the outermost layer answers to the server that writes the response.
IsEndStream(s) == ~stream[s].layers["request"]

\* The server drops the body, having seen its end, or before: latency and class are
\* recorded if they were not, the other layers see a cancellation.
DropBody(s) ==
    LET x == stream[s]
        timed == IF x.latency THEN entry[x.rspEntry] ELSE RecordLatency(entry[x.rspEntry], x.opened)
    IN
    /\ x.phase = "body"
    /\ entry' = IF x.rspEntry = NoEntry THEN entry
                ELSE [entry EXCEPT ![x.rspEntry] =
                        IF x.classify THEN RecordClass(timed, StartAndEos(x.script, None)) ELSE timed]
    /\ prom' = EndLayers(s, AllEnd, Cancelled)
    /\ stream' = [stream EXCEPT ![s].phase = "done", ![s].rspEntry = NoEntry, ![s].classify = FALSE,
                                ![s].latency = TRUE, ![s].layers = LayersAfter(s, AllEnd),
                                ![s].end = IF x.eos \/ IsEndStream(s) THEN "complete" ELSE "cancelled"]
    /\ UNCHANGED <<svc, conn, registry, used, counted, clones, drops, waited, now>>

-----------------------------------------------------------------------------
(* The service that holds the HTTP entry.                                  *)

NewService ==
    /\ svc = NoEntry
    /\ LookUp("http")
    /\ svc' = GetOrDefault("http")
    /\ UNCHANGED <<stream, conn, prom, counted, clones, drops, waited, now>>

DropService ==
    /\ svc # NoEntry
    /\ svc' = NoEntry
    /\ UNCHANGED <<stream, conn, registry, entry, used, prom, counted, clones, drops, waited, now>>

-----------------------------------------------------------------------------
(* Sensors (transport-metrics).                                            *)

\* Client::call: the metrics are looked up before the connection is made.
Connect(c) ==
    /\ conn[c].phase = "idle"
    /\ LookUp("tcp")
    /\ conn' = [conn EXCEPT ![c] = [@ EXCEPT !.phase = "connecting", !.entry = GetOrDefault("tcp")]]
    /\ UNCHANGED <<stream, svc, prom, counted, clones, drops, waited, now>>

ConnectFails(c) ==
    /\ conn[c].phase = "connecting"
    /\ conn' = [conn EXCEPT ![c] = [@ EXCEPT !.phase = "done", !.entry = NoEntry]]
    /\ UNCHANGED <<stream, svc, registry, entry, used, prom, counted, clones, drops, waited, now>>

\* Sensor::open
Open(c) ==
    /\ conn[c].phase = "connecting"
    /\ conn' = [conn EXCEPT ![c].phase = "open", ![c].home = conn[c].entry]
    /\ entry' = [entry EXCEPT ![conn[c].entry] = [@ EXCEPT !.open = @ + 1, !.opened = @ + 1, !.updated = now]]
    /\ UNCHANGED <<stream, svc, registry, used, prom, counted, clones, drops, waited, now>>

\* poll_read, poll_write, poll_write_vectored of SensorIo that moved bytes.
Transfer(c) ==
    /\ conn[c].phase = "open" /\ conn[c].moved < 1
    /\ conn' = [conn EXCEPT ![c].moved = @ + 1]
    /\ entry' = IF conn[c].entry = NoEntry THEN entry
                ELSE [entry EXCEPT ![conn[c].entry] = [@ EXCEPT !.bytes = @ + 1, !.updated = now]]
    /\ UNCHANGED <<stream, svc, registry, used, prom, counted, clones, drops, waited, now>>

\* record_close: the metrics are taken, so a later close records nothing.
RecordClose(c, error) ==
    IF conn[c].entry = NoEntry THEN entry
    ELSE [entry EXCEPT ![conn[c].entry] =
            [@ EXCEPT !.open = @ - 1, !.closes = @ (+) SetToBag({error}), !.updated = now]]

\* record_error that leaves the metrics in the sensor.
OpFailsKeeps(c, error) ==
    /\ conn[c].phase = "open" /\ conn[c].why = None
    /\ conn' = [conn EXCEPT ![c].why = error]
    /\ entry' = RecordClose(c, error)
    /\ UNCHANGED <<stream, svc, registry, used, prom, counted, clones, drops, waited, now>>

\* record_error: an operation failed, other than for WouldBlock.
OpFails(c, error) ==
    /\ conn[c].phase = "open"
    /\ conn' = [conn EXCEPT ![c].entry = NoEntry, ![c].why = IF conn[c].entry = NoEntry THEN @ ELSE error]
    /\ entry' = RecordClose(c, error)
    /\ UNCHANGED <<stream, svc, registry, used, prom, counted, clones, drops, waited, now>>

\* Sensor::drop
DropConn(c) ==
    /\ conn[c].phase = "open"
    /\ conn' = [conn EXCEPT ![c].phase = "done", ![c].entry = NoEntry]
    /\ entry' = RecordClose(c, None)
    /\ UNCHANGED <<stream, svc, registry, used, prom, counted, clones, drops, waited, now>>

-----------------------------------------------------------------------------
(* TrackService (stack/metrics): clones share a tracker, and what a clone  *)
(* waits is its own.  A clone that is dropped reads the count of the       *)
(* tracker first and gives its reference up after, so that two threads may *)
(* drop their clones at once.                                              *)

\* `since` is blocked_since; `first` and `spent` remember when a wait began and how
\* long those that are over were.
NewClone(at) == [at |-> at, since |-> NotYet, first |-> NotYet, spent |-> 0]

TrackClone(t) ==
    /\ clones[t].at = None /\ \E u \in DOMAIN clones : clones[u].at = "live"
    /\ clones' = [clones EXCEPT ![t] = NewClone("live")]
    /\ UNCHANGED <<stream, svc, conn, registry, entry, used, prom, counted, drops, waited, now>>

\* poll_ready: whatever the inner service answers, what was waited since the last
\* poll is added; only Pending goes on waiting.
PollReady(t, pending) ==
    LET c == clones[t] IN
    /\ c.at = "live"
    /\ waited' = waited + Elapsed(IF c.since = NotYet THEN now ELSE c.since)
    /\ clones' = [clones EXCEPT ![t] =
         IF pending
         THEN [@ EXCEPT !.since = now, !.first = IF @ = NotYet THEN now ELSE @]
         ELSE [@ EXCEPT !.since = NotYet, !.first = NotYet,
                        !.spent = @ + (IF c.first = NotYet THEN 0 ELSE now - c.first)]]
    /\ UNCHANGED <<stream, svc, conn, registry, entry, used, prom, counted, drops, now>>

StrongCount == Cardinality({t \in DOMAIN clones : clones[t].at \in {"live", "dropping"}})

TrackDrop(t) ==
    /\ clones[t].at = "live"
    /\ drops' = IF StrongCount = 1 THEN drops + 1 ELSE drops
    /\ clones' = [clones EXCEPT ![t].at = "dropping"]
    /\ UNCHANGED <<stream, svc, conn, registry, entry, used, prom, counted, waited, now>>

TrackDropped(t) ==
    /\ clones[t].at = "dropping"
    /\ clones' = [clones EXCEPT ![t].at = "gone"]
    /\ UNCHANGED <<stream, svc, conn, registry, entry, used, prom, counted, drops, waited, now>>

-----------------------------------------------------------------------------
Tick ==
    /\ now < MaxTime
    /\ now' = now + 1
    /\ UNCHANGED <<stream, svc, conn, registry, entry, used, prom, counted, clones, drops, waited>>

MetricsInit ==
    /\ stream = [s \in Streams |-> IdleStream]
    /\ svc = NoEntry
    /\ conn = [c \in Conns |-> NewSensor]
    /\ registry = [k \in Keys |-> NoEntry]
    /\ entry = [e \in Entries |-> << >>]
    /\ used = 0
    /\ prom = [f \in {"response", "status", "request"} |-> EmptyBag]
    /\ counted = [calls |-> 0, request |-> 0, response |-> 0]
    /\ clones = [t \in Clones |-> NewClone(IF t = 1 THEN "live" ELSE None)]
    /\ drops = 0 /\ waited = 0
    /\ now = 0

StreamStep(s) ==
    \/ \E script \in Scripts : Call(s, script)
    \/ PollRequest(s) \/ DropRequest(s)
    \/ RspHead(s) \/ RspErr(s) \/ CancelFuture(s) \/ PollBody(s) \/ DropBody(s)

ConnStep(c) ==
    \/ Connect(c) \/ ConnectFails(c) \/ Open(c) \/ Transfer(c) \/ DropConn(c)
    \/ \E error \in Errors : OpFails(c, error)

MetricsNext ==
    \/ \E s \in Streams : StreamStep(s)
    \/ \E c \in Conns : ConnStep(c)
    \/ \E t \in DOMAIN clones : \/ TrackClone(t) \/ TrackDrop(t) \/ TrackDropped(t)
                               \/ \E pending \in BOOLEAN : PollReady(t, pending)
    \/ NewService \/ DropService \/ Report \/ Tick

MetricsSpec == MetricsInit /\ [][MetricsNext]_metricsVars

-----------------------------------------------------------------------------
(* Properties. *)

\* How a stream ended, told from its script: with an error for a head, with the end
\* of its body, or before it.
Answered(s) == stream[s].phase \in {"body", "done"} /\ stream[s].end # "unanswered"

Settled(s) == Answered(s) /\ (stream[s].phase = "done" \/ AtEnd(stream[s]))

Result(s) ==
    LET x == stream[s] IN
    CASE ~x.script.head.ok -> [of |-> "error", causes |-> x.script.head.causes]
      [] x.script.head.ok /\ x.eos /\ x.taken > 0 /\ x.script.frames[x.taken].of # "data" ->
            x.script.frames[x.taken]
      [] x.script.head.ok /\ (x.eos \/ AtEnd(x)) -> Eos
      [] OTHER -> Cancelled

ValuesOf(family, s) == {v \in BagToSet(prom[family]) : v[2] = s}

\* Every recorder of http/prom records a stream that was answered exactly once,
\* when the stream is settled and not before: its status says how the stream ended
\* even if the server never polls past the last frame; its response takes no longer
\* than its request.
RecordedOnce ==
    \A s \in Streams :
      /\ \A f \in DOMAIN prom :
           LET vs == ValuesOf(f, s) IN
           /\ Cardinality(vs) = (IF Settled(s) THEN 1 ELSE 0)
           /\ \A v \in vs : CopiesIn(v, prom[f]) = 1
      /\ \A v \in ValuesOf("status", s) : v[1] = StatusLabels(stream[s].script, Result(s))
      /\ \A v \in ValuesOf("response", s), w \in ValuesOf("request", s) : v[1] <= w[1]

\* The server that trusts is_end_stream of the outermost recorder writes the whole
\* body: no recorder says that a stream is at its end before it is.
BodyWhole ==
    \A s \in Streams :
      LET x == stream[s] IN
      x.end = "complete" /\ (\A i \in DOMAIN x.script.frames : x.script.frames[i].of # "error")
        => x.taken = Len(x.script.frames)

StreamsOf(e) == {s \in Streams : stream[s].home = e}

ClassOf(s) ==
    LET x == stream[s] IN
    IF ~x.script.head.ok \/ (x.eos /\ x.taken > 0 /\ x.script.frames[x.taken].of = "error")
    THEN Class(TRUE, "error")
    ELSE StartAndEos(x.script,
           IF x.eos /\ x.taken > 0 /\ x.script.frames[x.taken].of = "trailers"
           THEN x.script.frames[x.taken].code ELSE None)

Classified(s) == Answered(s) /\ (stream[s].phase = "done" \/ stream[s].eos)

\* The classes of an entry are those of the streams that were called through it and
\* are over; a response has one latency unless an error was its first frame; a
\* request is counted when its body was looked at.  The buckets of what a scrape
\* writes grow with their bounds and end with the count.
EntryExact ==
    \A e \in 1 .. used :
      entry[e].key = "http" =>
        LET over == {s \in StreamsOf(e) : Classified(s)}
            timed == {s \in StreamsOf(e) : stream[s].script.head.ok /\ stream[s].latency
                                             /\ ~(stream[s].eos /\ stream[s].taken = 1
                                                    /\ stream[s].script.frames[1].of = "error")}
            written == FmtHistogram(entry[e].latency)
        IN  /\ BagCardinality(entry[e].classes) = Cardinality(over)
            /\ \A s \in over : BagIn(ClassOf(s), entry[e].classes)
            /\ IF written = << >> THEN timed = {} ELSE written[Len(written)] = Cardinality(timed)
            /\ \A i, j \in DOMAIN written : i <= j => written[i] <= written[j]

\* Of the connections opened through an entry, those that are not closed are its
\* gauge, each other is closed once, for the first error it met.
SensorsExact ==
    \A e \in 1 .. used :
      entry[e].key = "tcp" =>
        LET mine == {c \in Conns : conn[c].home = e}
            live == {c \in mine : conn[c].phase = "open" /\ conn[c].why = None}
        IN  /\ entry[e].opened = Cardinality(mine)
            /\ entry[e].open = Cardinality(live)
            /\ BagCardinality(entry[e].closes) = Cardinality(mine \ live)
            /\ \A c \in mine \ live : BagIn(conn[c].why, entry[e].closes)

\* An entry that something still counts in is the one that a scrape reports.
NoOrphans == \A e \in 1 .. used : Holders(e) # {} => registry[entry[e].key] = e

\* A tracked service is never counted as dropped twice, nor while a clone serves.
DropsBounded == drops <= 1 /\ (drops = 1 => \A t \in DOMAIN clones : clones[t].at # "live")

\* What a tracked service waited is the waits that are over and, of each that goes
\* on, what there was of it when it was last polled: no time is counted twice.
WaitsExact ==
    waited = MapThenFoldSet(+, 0,
               LAMBDA t : clones[t].spent + (IF clones[t].since = NotYet THEN 0
                                             ELSE clones[t].since - clones[t].first),
               LAMBDA T : CHOOSE t \in T : TRUE, DOMAIN clones)

\* Every call and every frame of data is counted, whatever becomes of the stream.
CountsExact ==
    LET sum(f(_)) == MapThenFoldSet(+, 0, f, LAMBDA T : CHOOSE s \in T : TRUE, Streams) IN
    /\ counted.calls = Cardinality({s \in Streams : stream[s].phase # "idle"})
    /\ counted.response = sum(LAMBDA s : stream[s].data)

MetricsExact == RecordedOnce /\ BodyWhole /\ EntryExact /\ SensorsExact /\ NoOrphans /\ DropsBounded
                  /\ WaitsExact /\ CountsExact
=============================================================================
