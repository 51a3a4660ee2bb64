------------------------------- MODULE NgServe -------------------------------
(***************************************************************************)
(* The server driver of the nghttp2 engine (linkerd/http/nghttp2/src/      *)
(* server.rs): requests become response futures, finished ones are         *)
(* submitted with a SendBody that the driver fills from the proxy's body   *)
(* and nghttp2 drains, and the connection ends on shutdown or when the     *)
(* peer is gone.                                                           *)
(*                                                                         *)
(* A response body is Chunks data frames, then trailers or not, or it      *)
(* fails; requests are complete when they are dispatched.                  *)
(***************************************************************************)
EXTENDS Integers, Sequences, SequencesExt, FiniteSets

CONSTANTS
    Streams,   \* stream ids
    Chunks,    \* data frames of a response
    Cap,       \* SEND_BUFFER_CAP, in chunks
    Endings    \* how response bodies may end: "eof", "trailers", "error"

VARIABLES
    stream,     \* stream -> its state in nghttp2
    item,       \* stream -> its outbound data item in nghttp2
    responding, \* the streams whose response future is running
    outs,       \* the streams that have a StreamOut
    body,       \* stream -> the proxy's response body
    send,       \* stream -> its SendBody
    wire,       \* stream -> what was sent to the peer
    unflushed,  \* whether `out` holds bytes
    actions,    \* the streams with a queued Closed action
    peer,       \* whether the peer has sent GOAWAY or ended its side (closing)
    goingAway,  \* going_away
    result      \* how the connection future has finished, if it has

tables == <<responding, outs, actions>>
conn == <<peer, goingAway, result>>
serveVars == <<stream, item, tables, body, send, wire, unflushed, conn>>

\* Frames to the peer: a chunk of data, or a mark.
Data(i) == <<"DATA", i>>
Mark(m) == <<m, 0>>

NoSend == [chunks |-> << >>, trailers |-> FALSE, done |-> FALSE, deferred |-> FALSE, failed |-> FALSE]

ServeTypeOK ==
    /\ stream \in [Streams -> {"idle", "open", "closed"}]
    /\ item \in [Streams -> {"none", "ready", "deferred"}]
    /\ responding \subseteq Streams /\ outs \subseteq Streams /\ actions \subseteq Streams
    /\ \A s \in Streams :
        /\ body[s].read \in 0 .. Chunks /\ body[s].end \in Endings
        /\ Len(send[s].chunks) <= Cap
    /\ unflushed \in BOOLEAN /\ goingAway \in BOOLEAN
    /\ peer \in {"here", "away", "eof"} /\ result \in {"none", "ok", "error"}

ServeInit ==
    /\ stream = [s \in Streams |-> "idle"]
    /\ item = [s \in Streams |-> "none"]
    /\ responding = {}
    /\ outs = {}
    /\ actions = {}
    /\ body \in [Streams -> [read : {0}, end : Endings]]
    /\ send = [s \in Streams |-> NoSend]
    /\ wire = [s \in Streams |-> << >>]
    /\ unflushed = FALSE
    /\ peer = "here"
    /\ goingAway = FALSE
    /\ result = "none"

Running == result = "none"

-----------------------------------------------------------------------------
(* Streams begin, are answered, and are closed.                            *)

\* nghttp2 takes no new stream once it has sent a GOAWAY.
Dispatch(s) ==
    /\ Running /\ peer # "eof" /\ ~goingAway
    /\ stream[s] = "idle"
    /\ stream' = [stream EXCEPT ![s] = "open"]
    /\ responding' = responding \cup {s}
    /\ UNCHANGED <<item, outs, actions, body, send, wire, unflushed, conn>>

\* submit_response of a response with a body; nghttp2 ignores a closed stream.
SubmitResponse(s) ==
    /\ Running
    /\ s \in responding
    /\ responding' = responding \ {s}
    /\ outs' = outs \cup {s}
    /\ send' = [send EXCEPT ![s] = NoSend]
    /\ item' = IF stream[s] = "open" THEN [item EXCEPT ![s] = "ready"] ELSE item
    /\ UNCHANGED <<stream, actions, body, wire, unflushed, conn>>

\* on_stream_close, when nghttp2 has sent the last frame of a stream.
CloseStream(s) ==
    /\ stream' = [stream EXCEPT ![s] = "closed"]
    /\ item' = [item EXCEPT ![s] = "none"]
    /\ actions' = actions \cup {s}

\* submit_response of an error, or of a response whose body is empty.
SubmitEmpty(s, frame) ==
    /\ Running
    /\ s \in responding
    /\ responding' = responding \ {s}
    /\ IF stream[s] = "open"
       THEN /\ CloseStream(s)
            /\ wire' = [wire EXCEPT ![s] = Append(@, Mark(frame))]
            /\ unflushed' = TRUE
       ELSE UNCHANGED <<stream, item, actions, wire, unflushed>>
    /\ UNCHANGED <<outs, body, send, conn>>

PeerResets(s) ==
    /\ Running /\ peer # "eof"
    /\ stream[s] = "open"
    /\ CloseStream(s)
    /\ UNCHANGED <<responding, outs, body, send, wire, unflushed, conn>>

\* handle_actions: Closed
HandleClosed ==
    /\ Running
    /\ actions # {}
    /\ outs' = outs \ actions
    /\ actions' = {}
    /\ UNCHANGED <<stream, item, responding, body, send, wire, unflushed, conn>>

-----------------------------------------------------------------------------
(* SendBody::pump polls the proxy's body, and pump_send_bodies resumes the *)
(* item it was deferred for.                                               *)

\* A body that ends does not resume its item.
ResumedDataOnly(b) == b.deferred /\ b.chunks # << >>

Resumed(b) == b.deferred /\ (b.chunks # << >> \/ b.done)

Pumped(s, b) ==
    /\ send' = [send EXCEPT ![s] = [b EXCEPT !.deferred = @ /\ ~Resumed(b)]]
    /\ item' = IF Resumed(b) /\ item[s] = "deferred" THEN [item EXCEPT ![s] = "ready"] ELSE item
    /\ UNCHANGED <<stream, tables, wire, unflushed, conn>>

CanPump(s) == Running /\ s \in outs /\ ~send[s].done /\ Len(send[s].chunks) < Cap

PumpData(s) ==
    /\ CanPump(s)
    /\ body[s].read < Chunks
    /\ body' = [body EXCEPT ![s].read = @ + 1]
    /\ Pumped(s, [send[s] EXCEPT !.chunks = Append(@, Data(body[s].read + 1))])

\* The body's last poll: trailers and the end, or an error (at any time).
PumpEnd(s) ==
    /\ CanPump(s)
    /\ body[s].read = Chunks \/ body[s].end = "error"
    /\ Pumped(s, [send[s] EXCEPT !.done = TRUE,
                                 !.trailers = body[s].end = "trailers",
                                 !.failed = body[s].end = "error"])
    /\ UNCHANGED body

-----------------------------------------------------------------------------
(* fill_out: nghttp2 asks send_read_callback for the data of a stream.     *)

Reading(s) == Running /\ item[s] = "ready" /\ UNCHANGED <<responding, outs, body, conn>>

Emit(s, frames) == wire' = [wire EXCEPT ![s] = @ \o frames] /\ unflushed' = TRUE

ReadFailed(s) ==
    /\ Reading(s)
    /\ send[s].failed
    /\ Emit(s, <<Mark("RST")>>)
    /\ CloseStream(s)
    /\ UNCHANGED send

ReadData(s) ==
    /\ Reading(s)
    /\ ~send[s].failed /\ send[s].chunks # << >>
    /\ Emit(s, <<Head(send[s].chunks)>>)
    /\ send' = [send EXCEPT ![s].chunks = Tail(@)]
    /\ UNCHANGED <<stream, item, actions>>

ReadDeferred(s) ==
    /\ Reading(s)
    /\ send[s].chunks = << >> /\ ~send[s].done
    /\ send' = [send EXCEPT ![s].deferred = TRUE]
    /\ item' = [item EXCEPT ![s] = "deferred"]
    /\ UNCHANGED <<stream, actions, wire, unflushed>>

ReadEnd(s) ==
    /\ Reading(s)
    /\ ~send[s].failed /\ send[s].chunks = << >> /\ send[s].done
    /\ Emit(s, (IF send[s].trailers THEN <<Mark("TRAILERS")>> ELSE << >>) \o <<Mark("END")>>)
    /\ CloseStream(s)
    /\ UNCHANGED send

Flush ==
    /\ Running /\ unflushed
    /\ unflushed' = FALSE
    /\ UNCHANGED <<stream, item, tables, body, send, wire, conn>>

-----------------------------------------------------------------------------
(* The end of the connection                                               *)

Shutdown ==
    /\ Running /\ ~goingAway
    /\ goingAway' = TRUE
    /\ unflushed' = TRUE
    /\ UNCHANGED <<stream, item, tables, body, send, wire, peer, result>>

PeerLeaves ==
    /\ Running
    /\ \/ peer = "here" /\ peer' = "away"
       \/ peer # "eof" /\ peer' = "eof"
    /\ UNCHANGED <<stream, item, tables, body, send, wire, unflushed, goingAway, result>>

WantWrite == \E s \in Streams : item[s] = "ready"

WantRead == (~goingAway /\ peer # "away") \/ \E s \in Streams : stream[s] = "open"

Finished ==
    /\ responding = {} /\ ~unflushed
    /\ peer = "eof" \/ ((~WantRead \/ goingAway) /\ ~WantWrite)

\* The connection stays while a stream has a StreamOut.
TerminateNoOuts ==
    /\ Running
    /\ Finished /\ outs = {}
    /\ result' = "ok"
    /\ UNCHANGED <<stream, item, tables, body, send, wire, unflushed, peer, goingAway>>

Terminate ==
    /\ Running
    /\ Finished
    /\ result' = "ok"
    /\ UNCHANGED <<stream, item, tables, body, send, wire, unflushed, peer, goingAway>>

\* A failed read, write or frame, or a keep-alive timeout.
Fails ==
    /\ Running
    /\ result' = "error"
    /\ UNCHANGED <<stream, item, tables, body, send, wire, unflushed, peer, goingAway>>

Idle ==
    /\ ~Running \/ (\A s \in Streams : stream[s] = "closed")
    /\ UNCHANGED serveVars

StreamStep(s) ==
    \/ SubmitResponse(s)
    \/ \E frame \in {"END", "RST"} : SubmitEmpty(s, frame)
    \/ PumpData(s)
    \/ PumpEnd(s)
    \/ ReadFailed(s)
    \/ ReadData(s)
    \/ ReadDeferred(s)
    \/ ReadEnd(s)

ServeNext ==
    \/ \E s \in Streams : Dispatch(s) \/ PeerResets(s) \/ StreamStep(s)
    \/ HandleClosed
    \/ Flush
    \/ Shutdown
    \/ PeerLeaves
    \/ Terminate
    \/ Fails
    \/ Idle

ServeSpec == ServeInit /\ [][ServeNext]_serveVars

-----------------------------------------------------------------------------
(* Properties                                                              *)

Whole(s) == [i \in 1 .. Chunks |-> Data(i)]
                \o (IF body[s].end = "trailers" THEN <<Mark("TRAILERS")>> ELSE << >>) \o <<Mark("END")>>

\* A stream that was answered without a body, or reset.
Bare(s) == wire[s] \in {<<Mark("END")>>, <<Mark("RST")>>}

(***************************************************************************)
(* What a stream sends is a prefix of its response, ended only after all   *)
(* chunks and the trailers, or broken off by a reset when the body failed. *)
(***************************************************************************)
ResponseFaithful ==
    \A s \in Streams :
        \/ Bare(s)
        \/ IsPrefix(wire[s], Whole(s)) /\ (body[s].end = "error" => Len(wire[s]) <= Chunks)
        \/ /\ body[s].end = "error" /\ wire[s] # << >> /\ Last(wire[s]) = Mark("RST")
           /\ IsPrefix(Front(wire[s]), Whole(s))

(***************************************************************************)
(* An item that nghttp2 has deferred is one whose SendBody remembers it,   *)
(* and a SendBody with something to send is never left deferred: the       *)
(* stream cannot stall with data or its end in the queue.                  *)
(***************************************************************************)
DeferredResumes ==
    \A s \in Streams :
        stream[s] = "open" /\ s \in outs =>
            /\ item[s] = "deferred" <=> send[s].deferred
            /\ send[s].deferred => send[s].chunks = << >> /\ ~send[s].done

(***************************************************************************)
(* Every dispatched stream is eventually closed, unless the connection     *)
(* ends first.                                                             *)
(***************************************************************************)
StreamsComplete == \A s \in Streams : stream[s] = "open" ~> stream[s] = "closed" \/ ~Running

(***************************************************************************)
(* A shutdown ends the connection.                                         *)
(***************************************************************************)
Drains == goingAway ~> ~Running

=============================================================================
