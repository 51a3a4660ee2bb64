-------------------------------- MODULE DmaIo --------------------------------
(***************************************************************************)
(* linkerd/doca: one connection over the DMA data path.  A DmeshIo is the  *)
(* stack's end and the driver's loop works on the handle of the same pair; *)
(* both lock the same Inner, so that each operation is one step.           *)
(*                                                                         *)
(* Bytes are numbered as they are sent: byte n of a stream is the number n *)
(* so that a buffer shows which bytes it holds.  Received bytes are read   *)
(* in place from a staging ring that the DPA fills up to what the driver   *)
(* released; written bytes are staged in a ring from which the driver      *)
(* publishes descriptors and the host fetches them later.                  *)
(***************************************************************************)
EXTENDS Integers, Sequences, SequencesExt, FiniteSetsExt

CONSTANTS
    RxLen,      \* bytes of the receive staging region
    TxLen,      \* usable bytes of the transmit staging region
    RingSize,   \* descriptors in the ring towards the host
    Align,      \* 128: descriptors cover a multiple of this, or at most one
    MaxChunk,   \* 8064: the most a descriptor covers
    MaxRx,      \* bound: bytes that the host sends
    MaxTx,      \* bound: bytes that the stack writes
    BufSizes    \* sizes of the buffers that the stack reads into or writes from

VARIABLES
    conn,       \* the slot's connection: "running", "reverse", "down", "freed"
    handle,     \* whether the driver holds the handle
    inner,      \* Inner
    rxMem, txMem,
    dpa,        \* the DPA: bytes written and the watermark it was told
    completed,  \* segments written and not popped by the driver
    ring,       \* descriptors that the host has not fetched
    fetched,    \* bytes the host has fetched
    reader, writer,
    got,        \* bytes the stack has read
    pc,         \* the driver's place in its loop
    staged      \* the run that pump_send is publishing

ioVars == <<conn, handle, inner, rxMem, txMem, dpa, completed, ring, fetched, reader, writer, got, pc, staged>>

NoRun == [pos |-> 0, len |-> 0]

Unpublished == inner.txWrite - inner.txPublish

\* What the two ends of a connection share, before a region is registered.
NewInner ==
    [base |-> FALSE, segs |-> << >>, readOff |-> 0, watermark |-> 0, dirty |-> FALSE,
     rxClosed |-> FALSE, rxWaker |-> FALSE, txLen |-> 0, txWrite |-> 0, txPublish |-> 0,
     txDead |-> FALSE, txClosed |-> FALSE, txWaker |-> FALSE, driverWaker |-> FALSE]

IoInit ==
    /\ conn = "running"
    /\ handle = FALSE
    /\ inner = NewInner
    /\ rxMem = [i \in 0 .. RxLen - 1 |-> 0]
    /\ txMem = [i \in 0 .. TxLen - 1 |-> 0]
    /\ dpa = [written |-> 0, released |-> 0]
    /\ completed = << >> /\ ring = << >>
    /\ fetched = << >> /\ got = << >>
    /\ reader = "polls" /\ writer = "polls"
    /\ pc = "emit"
    /\ staged = NoRun

-----------------------------------------------------------------------------
(* The stack's end: poll_read, poll_write, poll_shutdown and drop           *)

Bytes(mem, from, n, len) == [i \in 1 .. n |-> mem[(from + i - 1) % len]]

\* poll_read that copies from the start of the segment each time.
ReadSegmentAtStart(n) ==
    /\ inner.segs # << >>
    /\ LET seg == Head(inner.segs)
           k == Min({n, seg.len - inner.readOff})
       IN  /\ got' = got \o Bytes(rxMem, seg.pos, k, RxLen)
           /\ inner' = IF inner.readOff + k >= seg.len
                       THEN [inner EXCEPT !.segs = Tail(@), !.readOff = 0, !.watermark = seg.pos + seg.len,
                                          !.dirty = TRUE]
                       ELSE [inner EXCEPT !.readOff = @ + k]
    /\ UNCHANGED reader

\* poll_read with room for n bytes: the front segment, at most; a segment that is
\* consumed moves the watermark to its end.
ReadSegment(n) ==
    /\ inner.segs # << >>
    /\ LET seg == Head(inner.segs)
           k == Min({n, seg.len - inner.readOff})
           done == inner.readOff + k >= seg.len
       IN  /\ got' = got \o Bytes(rxMem, seg.pos + inner.readOff, k, RxLen)
           /\ inner' = IF done
                       THEN [inner EXCEPT !.segs = Tail(@), !.readOff = 0, !.watermark = seg.pos + seg.len,
                                          !.dirty = TRUE]
                       ELSE [inner EXCEPT !.readOff = @ + k]
    /\ UNCHANGED reader

\* Nothing to read: the end of the stream, or a waker is left.
ReadEmpty ==
    /\ inner.segs = << >>
    /\ IF inner.rxClosed
       THEN reader' = "eof" /\ UNCHANGED inner
       ELSE reader' = "parked" /\ inner' = [inner EXCEPT !.rxWaker = TRUE]
    /\ UNCHANGED got

PollRead ==
    /\ reader = "polls"
    /\ (\E n \in BufSizes : ReadSegment(n)) \/ ReadEmpty
    /\ UNCHANGED <<conn, handle, rxMem, txMem, dpa, completed, ring, fetched, writer, pc, staged>>

\* The driver task is woken where it sleeps in select.
WakeDriver(i) == [i EXCEPT !.driverWaker = FALSE]
Woken(i) == IF i.driverWaker /\ pc = "asleep" THEN "emit" ELSE pc

\* poll_write of n bytes: as many as there is room for, around the end of the ring.
WriteSome(n) ==
    LET room == inner.txLen - Unpublished
        k == Min({n, room, MaxTx - inner.txWrite})
    IN  /\ inner.txLen > 0 /\ room > 0 /\ k > 0
        /\ txMem' = [i \in DOMAIN txMem |->
                        IF \E j \in 0 .. k - 1 : (inner.txWrite + j) % inner.txLen = i
                        THEN CHOOSE b \in inner.txWrite + 1 .. inner.txWrite + k : (b - 1) % inner.txLen = i
                        ELSE txMem[i]]
        /\ inner' = WakeDriver([inner EXCEPT !.txWrite = @ + k])
        /\ pc' = Woken(inner)
        /\ UNCHANGED writer

WriteBlocked ==
    /\ inner.txLen = 0 \/ inner.txLen = Unpublished
    /\ writer' = "parked"
    /\ inner' = [inner EXCEPT !.txWaker = TRUE]
    /\ UNCHANGED <<txMem, pc>>

PollWrite ==
    /\ writer = "polls" /\ inner.txWrite < MaxTx
    /\ IF inner.txClosed \/ inner.txDead
       THEN writer' = "broken" /\ UNCHANGED <<inner, txMem, pc>>
       ELSE (\E n \in BufSizes : WriteSome(n)) \/ WriteBlocked
    /\ UNCHANGED <<conn, handle, rxMem, dpa, completed, ring, fetched, reader, got, staged>>

\* poll_shutdown; dropping the DmeshIo does the same, and nothing reads it any more.
Shutdown(drop) ==
    /\ writer = "polls" /\ ~inner.txClosed
    /\ drop => reader \in {"polls", "eof"}
    /\ inner' = WakeDriver([inner EXCEPT !.txClosed = TRUE])
    /\ pc' = Woken(inner)
    /\ writer' = "closed"
    /\ reader' = IF drop THEN "dropped" ELSE reader
    /\ UNCHANGED <<conn, handle, rxMem, txMem, dpa, completed, ring, fetched, got, staged>>

-----------------------------------------------------------------------------
(* The devices (external): the DPA fills the staging ring, the host fetches *)
(* The driver drains their completions at the top of its loop.             *)

\* Bytes that the reader released, counted from what the watermark says: the DPA
\* reuses the ring up to it.
Released == dpa.released

DpaWrites(n) ==
    /\ pc = "emit" /\ conn \in {"running", "reverse"}
    /\ dpa.written + n <= MaxRx
    /\ dpa.written + n - Released <= RxLen
    /\ (dpa.written % RxLen) + n <= RxLen
    /\ rxMem' = [i \in DOMAIN rxMem |-> IF i \in (dpa.written % RxLen) .. (dpa.written % RxLen) + n - 1
                                        THEN dpa.written + 1 + i - (dpa.written % RxLen) ELSE rxMem[i]]
    /\ completed' = Append(completed, [pos |-> dpa.written % RxLen, len |-> n])
    /\ dpa' = [dpa EXCEPT !.written = @ + n]
    /\ UNCHANGED <<conn, handle, inner, txMem, ring, fetched, reader, writer, got, pc, staged>>

HostFetches ==
    /\ ring # << >>
    /\ fetched' = fetched \o Bytes(txMem, Head(ring).pos, Head(ring).len, TxLen)
    /\ ring' = Tail(ring)
    /\ UNCHANGED <<conn, handle, inner, rxMem, txMem, dpa, completed, reader, writer, got, pc, staged>>

\* The reverse path is exported a while after the connection is ready.
Exported ==
    /\ pc = "emit" /\ conn = "running"
    /\ conn' = "reverse"
    /\ UNCHANGED <<handle, inner, rxMem, txMem, dpa, completed, ring, fetched, reader, writer, got, pc, staged>>

\* The host disconnects; its end of the ring is gone with it.
Disconnect ==
    /\ pc = "emit" /\ conn \in {"running", "reverse"}
    /\ conn' = "down"
    /\ ring' = << >> /\ completed' = << >>
    /\ UNCHANGED <<handle, inner, rxMem, txMem, dpa, fetched, reader, writer, got, pc, staged>>

-----------------------------------------------------------------------------
(* The driver's loop                                                       *)

WakeReader == reader' = IF inner.rxWaker /\ reader = "parked" THEN "polls" ELSE reader
WakeWriter == writer' = IF inner.txWaker /\ writer = "parked" THEN "polls" ELSE writer

\* emit_conn_events: clear_tx_staging and clear_rx_staging mark the regions before
\* the buffers of the slot are reaped.
Emit ==
    /\ pc = "emit"
    /\ pc' = "recv"
    /\ IF conn = "down"
       THEN /\ conn' = "freed"
            /\ handle' = FALSE
            /\ IF handle
               THEN /\ inner' = [inner EXCEPT !.txDead = TRUE, !.txLen = 0, !.txWaker = FALSE, !.driverWaker = FALSE,
                                              !.base = FALSE, !.segs = << >>, !.readOff = 0, !.rxClosed = TRUE,
                                              !.rxWaker = FALSE]
                    /\ WakeReader /\ WakeWriter
               ELSE UNCHANGED <<inner, reader, writer>>
       ELSE UNCHANGED <<conn, handle, inner, reader, writer>>
    /\ UNCHANGED <<rxMem, txMem, dpa, completed, ring, fetched, got, staged>>

\* drain_registrations: the acceptor's handle, with the slot's staging region.
Register ==
    /\ pc = "recv" /\ ~handle /\ conn \in {"running", "reverse"}
    /\ handle' = TRUE
    /\ inner' = [inner EXCEPT !.base = TRUE]
    /\ UNCHANGED <<conn, rxMem, txMem, dpa, completed, ring, fetched, reader, writer, got, pc, staged>>

\* dmesh_doca_conn_recv_pop, until there is nothing left to pop.
Popped == inner.segs \o completed

\* pump_recv: every completed segment goes to the handle.
PumpRecv ==
    /\ pc = "recv"
    /\ IF handle /\ completed # << >>
       THEN /\ inner' = [inner EXCEPT !.segs = Popped, !.rxWaker = FALSE]
            /\ completed' = << >>
            /\ WakeReader
       ELSE UNCHANGED <<inner, completed, reader>>
    /\ pc' = "wire"
    /\ UNCHANGED <<conn, handle, rxMem, txMem, dpa, ring, fetched, writer, got, staged>>

\* dmesh_doca_conn_tx_staging: the region's length once the reverse path is there.
TxStaging == IF conn = "reverse" THEN TxLen ELSE 0

\* wire_tx_staging: the transmit region, as soon as the reverse path is exported.
Wire ==
    /\ pc = "wire"
    /\ IF handle /\ TxStaging > 0 /\ inner.txLen = 0
       THEN inner' = [inner EXCEPT !.txLen = TxStaging, !.txWaker = FALSE] /\ WakeWriter
       ELSE UNCHANGED <<inner, writer>>
    /\ pc' = "take"
    /\ UNCHANGED <<conn, handle, rxMem, txMem, dpa, completed, ring, fetched, reader, got, staged>>

\* take_staged: the unpublished run, up to the end of the ring.
TakeStaged ==
    /\ pc = "take"
    /\ IF handle /\ ~inner.txDead /\ inner.txLen > 0 /\ Unpublished > 0
       THEN /\ LET off == inner.txPublish % inner.txLen
               IN  staged' = [pos |-> off, len |-> Min({Unpublished, inner.txLen - off})]
            /\ pc' = "send"
       ELSE staged' = NoRun /\ pc' = "watermark"
    /\ UNCHANGED <<conn, handle, inner, rxMem, txMem, dpa, completed, ring, fetched, reader, writer, got>>

\* The size of the next descriptor for what remains of a run.
Chunk(n) == IF n <= Align THEN n ELSE IF n >= MaxChunk THEN MaxChunk ELSE n - (n % Align)

Runs == [pos : 0 .. TxLen, len : 0 .. TxLen]

\* dmesh_doca_conn_send_staged: descriptors for the run while the ring has room.
Descriptors[run \in Runs, room \in 0 .. RingSize] ==
    IF run.len = 0 \/ room = 0 THEN << >>
    ELSE LET c == Chunk(run.len)
         IN  <<[pos |-> run.pos, len |-> c]>> \o
             Descriptors[[pos |-> run.pos + c, len |-> run.len - c], room - 1]

\* The driver publishes what was accepted, which makes room for the writer, and goes
\* on with the rest of the ring unless the host is behind.
Send ==
    /\ pc = "send"
    /\ IF conn = "reverse"
       THEN LET ds == Descriptors[staged, RingSize - Len(ring)]
                sent == FoldSeq(LAMBDA d, n : d.len + n, 0, ds)
            IN  /\ ring' = ring \o ds
                /\ IF sent > 0
                   THEN inner' = [inner EXCEPT !.txPublish = @ + sent, !.txWaker = FALSE] /\ WakeWriter
                   ELSE UNCHANGED <<inner, writer>>
                /\ pc' = IF sent < staged.len THEN "watermark" ELSE "take"
       ELSE pc' = "watermark" /\ UNCHANGED <<ring, inner, writer>>
    /\ staged' = NoRun
    /\ UNCHANGED <<conn, handle, rxMem, txMem, dpa, completed, fetched, reader, got>>

\* The end of the last consumed segment, counted in bytes: how far the DPA, whose
\* ring never runs ahead of it by more than a turn, takes the watermark to be.
Reached == CHOOSE b \in Released .. Released + RxLen :
              /\ b % RxLen = inner.watermark % RxLen
              /\ b > Released

\* take_rx_watermark: tells the DPA how far the reader got.
Watermark ==
    /\ pc = "watermark"
    /\ IF handle /\ inner.dirty
       THEN /\ dpa' = IF conn \in {"running", "reverse"} THEN [dpa EXCEPT !.released = Reached] ELSE dpa
            /\ inner' = [inner EXCEPT !.dirty = FALSE]
       ELSE UNCHANGED <<dpa, inner>>
    /\ pc' = "select"
    /\ UNCHANGED <<conn, handle, rxMem, txMem, completed, ring, fetched, reader, writer, got, staged>>

\* poll_tx_ready: sleeps only if nothing is to be published and the end is open.
Select ==
    /\ pc = "select"
    /\ IF handle /\ (Unpublished > 0 \/ inner.txClosed)
       THEN pc' = "emit" /\ UNCHANGED inner
       ELSE pc' = "asleep" /\ inner' = IF handle THEN [inner EXCEPT !.driverWaker = TRUE] ELSE inner
    /\ UNCHANGED <<conn, handle, rxMem, txMem, dpa, completed, ring, fetched, reader, writer, got, staged>>

\* The notification of a progress engine, or the tick of a millisecond.
Tick ==
    /\ pc = "asleep"
    /\ pc' = "emit"
    /\ UNCHANGED <<conn, handle, inner, rxMem, txMem, dpa, completed, ring, fetched, reader, writer, got, staged>>

DriverStep == Emit \/ Register \/ PumpRecv \/ Wire \/ TakeStaged \/ Send \/ Watermark \/ Select \/ Tick
StackStep == PollRead \/ PollWrite
DeviceStep == HostFetches \/ Exported

IoNext ==
    \/ DriverStep
    \/ StackStep
    \/ \E drop \in BOOLEAN : Shutdown(drop)
    \/ \E n \in 1 .. RxLen : DpaWrites(n)
    \/ DeviceStep
    \/ Disconnect

-----------------------------------------------------------------------------
(* Properties                                                              *)

\* The stack reads the bytes that the host sent, in order and each once, although it
\* reads them in place while the DPA reuses the ring behind the watermark, and
\* segments are consumed in pieces (poll_read, take_rx_watermark).
ReadsExact == \A i \in DOMAIN got : got[i] = i

\* No byte that is staged and not published is overwritten, and the descriptors
\* cover the published bytes in order without a gap, around the end of the ring and
\* whatever part of a run the ring took (poll_write, take_staged, advance_publish).
WritesExact ==
    /\ inner.txLen > 0 => \A b \in inner.txPublish + 1 .. inner.txWrite : txMem[(b - 1) % TxLen] = b
    /\ conn \in {"running", "reverse"} =>
        \A i \in DOMAIN ring :
            LET later == FoldSeq(LAMBDA d, n : d.len + n, 0, SubSeq(ring, i, Len(ring)))
            IN  /\ ring[i].pos = (inner.txPublish - later) % TxLen
                /\ ring[i].pos + ring[i].len <= TxLen
                /\ Len(fetched) + FoldSeq(LAMBDA d, n : d.len + n, 0, ring) = inner.txPublish

\* Once the buffers of the slot are freed, neither end can reach them: no segment is
\* left to read in place, and no region to write to (clear_rx_staging,
\* clear_tx_staging before dmesh_doca_reap_graves).
NoUseAfterFree == conn = "freed" => inner.segs = << >> /\ inner.txLen = 0

\* Whoever sleeps has nothing to do, and its waker is where the other end finds it:
\* the reader, the writer, and the driver in its select.
WakersKept ==
    /\ reader = "parked" => inner.rxWaker /\ inner.segs = << >> /\ ~inner.rxClosed
    /\ writer = "parked" => inner.txWaker /\ ~inner.txDead /\ inner.txLen \in {0, Unpublished}
    /\ pc = "asleep" /\ handle => inner.driverWaker /\ Unpublished = 0 /\ ~inner.txClosed

\* A connection that the host leaves ends for the stack: its reader gets the end of
\* the stream, and its writer an error if it has more to write.
TeardownEnds == (conn = "down" /\ handle) ~> (reader \in {"eof", "dropped"} /\ writer # "parked")

\* As long as the host stays and fetches, all that is written is published.
AllPublished == []<>(Unpublished = 0 \/ conn \in {"down", "freed"})
=============================================================================
