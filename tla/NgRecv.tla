-------------------------------- MODULE NgRecv --------------------------------
(***************************************************************************)
(* The receive path of the nghttp2 engine (linkerd/http/nghttp2): frames   *)
(* from the peer reach callbacks inside mem_recv, which update the table   *)
(* of receive streams and queue actions; the connection driver drains the  *)
(* actions later, hands each message to the proxy as a RecvBody, and       *)
(* returns to the peer the connection window that the bodies' readers free.*)
(*                                                                         *)
(* A data chunk is a number and has the size of one unit of window.  The   *)
(* same code serves requests on a server and responses on a client; a      *)
(* stream is closed by nghttp2 when both sides have ended it or the peer   *)
(* resets it (with an error code: a reset with NO_ERROR is not modelled).  *)
(***************************************************************************)
EXTENDS Integers, Sequences, SequencesExt, FiniteSetsExt

CONSTANTS
    Streams,    \* stream ids
    MaxData,    \* the most chunks a peer sends on a stream
    Window      \* the connection's receive window

VARIABLES
    peer,       \* stream -> what the peer has sent: state, chunks, trailers
    localDone,  \* stream -> whether our side of the stream has ended
    connWin,    \* the window the peer may still use
    rs,         \* stream -> RecvStream, and whether it is in ConnState::recv
    actions,    \* ConnState::actions
    sh,         \* stream -> RecvShared
    dirty,      \* ConnRecv::dirty
    reader      \* stream -> what the reader of the RecvBody saw

recvVars == <<peer, localDone, connWin, rs, actions, sh, dirty, reader>>

NoStream == [open |-> FALSE, builder |-> "none", headDone |-> FALSE, pending |-> << >>, wired |-> FALSE]
NoShared == [chunks |-> << >>, trailers |-> FALSE, eof |-> FALSE, error |-> FALSE,
             dropped |-> FALSE, unreported |-> 0]

Dispatch(s, end) == [type |-> "Dispatch", sid |-> s, flag |-> end]
Trailers(s) == [type |-> "Trailers", sid |-> s, flag |-> FALSE]
Eof(s) == [type |-> "Eof", sid |-> s, flag |-> FALSE]
Closed(s, error) == [type |-> "Closed", sid |-> s, flag |-> error]

RecvTypeOK ==
    /\ \A s \in Streams :
        /\ peer[s].state \in {"idle", "open", "ended", "reset"}
        /\ peer[s].data \in 0 .. MaxData
        /\ peer[s].trailers \in BOOLEAN
        /\ rs[s].builder \in {"none", "head"}
        /\ rs[s].wired => rs[s].headDone /\ rs[s].pending = << >>
        /\ sh[s].unreported \in 0 .. MaxData
        /\ reader[s].state \in {"none", "open", "ended", "error", "dropped"}
    /\ localDone \in [Streams -> BOOLEAN]
    /\ connWin \in 0 .. Window
    /\ dirty \subseteq Streams

RecvInit ==
    /\ peer = [s \in Streams |-> [state |-> "idle", data |-> 0, trailers |-> FALSE]]
    /\ localDone = [s \in Streams |-> FALSE]
    /\ connWin = Window
    /\ rs = [s \in Streams |-> NoStream]
    /\ actions = << >>
    /\ sh = [s \in Streams |-> NoShared]
    /\ dirty = {}
    /\ reader = [s \in Streams |-> [state |-> "none", got |-> << >>, trailers |-> FALSE]]

-----------------------------------------------------------------------------
(* Frames from the peer, each with the callbacks that it fires.            *)

\* on_stream_close, when the frame ends the stream.
ClosedIf(s, end) == IF end /\ localDone[s] THEN <<Closed(s, FALSE)>> ELSE << >>

\* on_begin_headers and on_frame_recv
RecvHeaders(s, end) ==
    /\ peer[s].state = "idle"
    /\ peer' = [peer EXCEPT ![s].state = IF end THEN "ended" ELSE "open"]
    /\ rs' = [rs EXCEPT ![s] = [NoStream EXCEPT !.open = TRUE, !.builder = "head", !.headDone = TRUE]]
    /\ actions' = actions \o <<Dispatch(s, end)>> \o ClosedIf(s, end)
    /\ UNCHANGED <<localDone, connWin, sh, dirty, reader>>

\* on_data_chunk_recv; a body whose reader is gone gives its window back at once.
Chunk(s, n) ==
    IF rs[s].wired
    THEN /\ UNCHANGED rs
         /\ IF sh[s].dropped
            THEN UNCHANGED <<sh, connWin>>
            ELSE /\ sh' = [sh EXCEPT ![s].chunks = Append(@, n)]
                 /\ connWin' = connWin - 1
    ELSE /\ rs' = [rs EXCEPT ![s].pending = Append(@, n)]
         /\ connWin' = connWin - 1
         /\ UNCHANGED sh

RecvData(s, end) ==
    /\ peer[s].state = "open" /\ peer[s].data < MaxData /\ connWin > 0
    /\ peer' = [peer EXCEPT ![s].state = IF end THEN "ended" ELSE @, ![s].data = @ + 1]
    /\ Chunk(s, peer[s].data + 1)
    /\ actions' = actions \o (IF end THEN <<Eof(s)>> ELSE << >>) \o ClosedIf(s, end)
    /\ UNCHANGED <<localDone, dirty, reader>>

\* Trailing HEADERS: on_header adds them to the builder if the head has not
\* been dispatched yet, and on_frame_recv takes the builder.
RecvTrailers(s) ==
    /\ peer[s].state = "open"
    /\ peer' = [peer EXCEPT ![s].state = "ended", ![s].trailers = TRUE]
    /\ rs' = [rs EXCEPT ![s].builder = "none"]
    /\ actions' = actions \o (IF rs[s].builder # "none" THEN <<Trailers(s)>> ELSE << >>)
                          \o <<Eof(s)>> \o ClosedIf(s, TRUE)
    /\ UNCHANGED <<localDone, connWin, sh, dirty, reader>>

IsOpen(s) == peer[s].state = "open" \/ (peer[s].state = "ended" /\ ~localDone[s])

RecvReset(s) ==
    /\ IsOpen(s)
    /\ peer' = [peer EXCEPT ![s].state = "reset"]
    /\ actions' = Append(actions, Closed(s, TRUE))
    /\ UNCHANGED <<localDone, connWin, rs, sh, dirty, reader>>

\* Our side of the stream ends (mem_send).
LocalEnd(s) ==
    /\ ~localDone[s]
    /\ localDone' = [localDone EXCEPT ![s] = TRUE]
    /\ actions' = IF peer[s].state = "ended" THEN Append(actions, Closed(s, FALSE)) ELSE actions
    /\ UNCHANGED <<peer, connWin, rs, sh, dirty, reader>>

-----------------------------------------------------------------------------
(* The connection driver.                                                  *)

\* dispatch and deliver_response
DoDispatch(st, s, end) ==
    IF ~st.rs[s].open \/ st.rs[s].builder = "none" THEN st
    ELSE [rs |-> [st.rs EXCEPT ![s].builder = "none", ![s].pending = << >>, ![s].wired = TRUE],
          sh |-> [st.sh EXCEPT ![s].chunks = st.rs[s].pending, ![s].eof = end],
          reader |-> [st.reader EXCEPT ![s].state = "open"]]

Wired(st, s) == st.rs[s].open /\ st.rs[s].wired

DoClosed(st, s, error) ==
    [st EXCEPT !.rs[s] = [@ EXCEPT !.open = FALSE],
               !.sh[s] = IF Wired(st, s)
                         THEN [@ EXCEPT !.error = @ \/ error, !.eof = @ \/ ~error]
                         ELSE @]

Handle(st, a) ==
    CASE a.type = "Dispatch" -> DoDispatch(st, a.sid, a.flag)
      [] a.type = "Eof" -> [st EXCEPT !.sh[a.sid].eof = @ \/ Wired(st, a.sid)]
      [] a.type = "Trailers" -> [st EXCEPT !.sh[a.sid].trailers = @ \/ Wired(st, a.sid)]
      [] a.type = "Closed" -> DoClosed(st, a.sid, a.flag)

HandleActions ==
    /\ actions # << >>
    /\ LET st == FoldLeft(Handle, [rs |-> rs, sh |-> sh, reader |-> reader], actions) IN
       rs' = st.rs /\ sh' = st.sh /\ reader' = st.reader
    /\ actions' = << >>
    /\ UNCHANGED <<peer, localDone, connWin, dirty>>

ForwardConsume ==
    /\ actions = << >> /\ dirty # {}
    /\ LET served == {s \in dirty : rs[s].open /\ rs[s].wired} IN
       /\ connWin' = connWin + MapThenSumSet(LAMBDA s : sh[s].unreported, served)
       /\ sh' = [s \in Streams |-> IF s \in served THEN [sh[s] EXCEPT !.unreported = 0] ELSE sh[s]]
    /\ dirty' = {}
    /\ UNCHANGED <<peer, localDone, rs, actions, reader>>

-----------------------------------------------------------------------------
(* The reader of a RecvBody.                                               *)

ReadChunk(s) ==
    /\ reader[s].state = "open" /\ sh[s].chunks # << >>
    /\ reader' = [reader EXCEPT ![s].got = Append(@, Head(sh[s].chunks))]
    /\ sh' = [sh EXCEPT ![s].chunks = Tail(@), ![s].unreported = @ + 1]
    /\ dirty' = dirty \cup {s}
    /\ UNCHANGED <<peer, localDone, connWin, rs, actions>>

Drained(s) == reader[s].state = "open" /\ sh[s].chunks = << >>

ReadTrailers(s) ==
    /\ Drained(s) /\ ~sh[s].error /\ sh[s].trailers
    /\ reader' = [reader EXCEPT ![s].trailers = TRUE]
    /\ sh' = [sh EXCEPT ![s].trailers = FALSE]
    /\ UNCHANGED <<peer, localDone, connWin, rs, actions, dirty>>

\* An error or the end of the stream, trailers first.
ReadEnd(s) ==
    /\ Drained(s)
    /\ sh[s].error \/ (sh[s].eof /\ ~sh[s].trailers)
    /\ reader' = [reader EXCEPT ![s].state = IF sh[s].error THEN "error" ELSE "ended"]
    /\ UNCHANGED <<peer, localDone, connWin, rs, actions, sh, dirty>>

DropBody(s) ==
    /\ reader[s].state = "open"
    /\ reader' = [reader EXCEPT ![s].state = "dropped"]
    /\ sh' = [sh EXCEPT ![s].dropped = ~(sh[s].eof /\ sh[s].chunks = << >> /\ ~sh[s].trailers)]
    /\ dirty' = dirty \cup {s}
    /\ UNCHANGED <<peer, localDone, connWin, rs, actions>>

\* Nothing is left to do, or the peer has no window to go on.
Rest == actions = << >> /\ dirty = {} /\ UNCHANGED recvVars

RecvNext ==
    \/ \E s \in Streams :
        \/ \E end \in BOOLEAN : RecvHeaders(s, end) \/ RecvData(s, end)
        \/ RecvTrailers(s)
        \/ RecvReset(s)
        \/ LocalEnd(s)
        \/ ReadChunk(s)
        \/ ReadTrailers(s)
        \/ ReadEnd(s)
        \/ DropBody(s)
    \/ HandleActions
    \/ ForwardConsume
    \/ Rest

RecvSpec == RecvInit /\ [][RecvNext]_recvVars

-----------------------------------------------------------------------------
(* Properties                                                              *)

Sent(s) == [i \in 1 .. peer[s].data |-> i]

(***************************************************************************)
(* A reader receives the chunks of its stream in order and without gaps,   *)
(* whether they arrive with the head, before the driver has wired the body *)
(* (`pending`), or after; and when it sees the end of the body it has      *)
(* received them all.                                                      *)
(***************************************************************************)
DataDelivered ==
    \A s \in Streams :
        /\ IsPrefix(reader[s].got, Sent(s))
        /\ reader[s].state = "ended" => peer[s].state # "open" /\ reader[s].got = Sent(s)

Owed(s) == Len(rs[s].pending) + Len(sh[s].chunks) + sh[s].unreported

(***************************************************************************)
(* The peer is never given window for bytes that are still held for a      *)
(* reader, so a connection buffers at most its window.                     *)
(***************************************************************************)
NoOverCredit == connWin + MapThenSumSet(Owed, Streams) <= Window

=============================================================================
