-------------------------------- MODULE NgBody --------------------------------
(***************************************************************************)
(* The two tasks that share a RecvBody (linkerd/http/nghttp2/src/body.rs): *)
(* the connection driver queues chunks and collects the credits of what    *)
(* was read; the reader, on any other task, pops chunks and marks its      *)
(* stream dirty.  Each waits for the other through an AtomicWaker.  The    *)
(* steps are the critical sections and the atomic operations between them. *)
(*                                                                         *)
(* A waker is registered, and wake takes it and makes its task runnable.   *)
(***************************************************************************)
EXTENDS Integers

CONSTANTS
    Chunks,     \* the number of chunks of the body
    Window,     \* how many may be sent before their credits return
    MayDie      \* whether the connection may fail in the middle

ASSUME BodyConstants == Window \in Nat /\ Chunks \in Nat

VARIABLES
    arrived,    \* chunks the driver has received
    queued,     \* RecvInner::chunks
    eof,        \* RecvInner::eof
    unreported, \* consumed_unreported
    dirty,      \* whether the stream is in ConnRecv::dirty
    credits,    \* window left to the peer
    driver,     \* where the driver is
    reader,     \* where the reader is
    waker,      \* task -> whether its waker is registered
    runnable    \* task -> whether it has been woken

chunks == <<queued, eof>>
flow == <<unreported, dirty, credits>>
bodyVars == <<arrived, chunks, flow, driver, reader, waker, runnable>>

Tasks == {"driver", "reader"}

BodyTypeOK ==
    /\ arrived \in 0 .. Chunks /\ queued \in 0 .. Window /\ eof \in BOOLEAN
    /\ unreported \in 0 .. Window /\ dirty \in BOOLEAN /\ credits \in 0 .. Window
    /\ driver \in {"asleep", "poll", "pushed", "registered", "drained", "gone"}
    /\ reader \in {"asleep", "poll", "empty", "registered", "popped", "credited", "marked", "ended"}
    /\ waker \in [Tasks -> BOOLEAN]
    /\ runnable \in [Tasks -> BOOLEAN]

BodyInit ==
    /\ arrived = 0
    /\ queued = 0
    /\ eof = FALSE
    /\ unreported = 0
    /\ dirty = FALSE
    /\ credits = Window
    /\ driver = "poll"
    /\ reader = "poll"
    /\ waker = [t \in Tasks |-> FALSE]
    /\ runnable = [t \in Tasks |-> FALSE]

Wake(t) ==
    /\ waker' = [waker EXCEPT ![t] = FALSE]
    /\ runnable' = [runnable EXCEPT ![t] = @ \/ waker[t]]

Register(t) == waker' = [waker EXCEPT ![t] = TRUE] /\ UNCHANGED runnable

-----------------------------------------------------------------------------
(* The driver                                                              *)

\* The socket has the peer's next frame, or the task was woken.
DriverWakes ==
    /\ driver = "asleep"
    /\ \/ arrived < Chunks /\ credits > 0 /\ UNCHANGED runnable
       \/ runnable["driver"] /\ runnable' = [runnable EXCEPT !["driver"] = FALSE]
    /\ driver' = "poll"
    /\ UNCHANGED <<arrived, chunks, flow, reader, waker>>

\* on_data_chunk_recv: push_chunk, under the lock; the last chunk is followed by Eof.
Push ==
    /\ driver = "poll"
    /\ arrived < Chunks /\ credits > 0
    /\ arrived' = arrived + 1
    /\ credits' = credits - 1
    /\ queued' = queued + 1
    /\ eof' = (arrived' = Chunks)
    /\ driver' = "pushed"
    /\ UNCHANGED <<unreported, dirty, reader, waker, runnable>>

WakeReader ==
    /\ driver = "pushed"
    /\ Wake("reader")
    /\ driver' = "poll"
    /\ UNCHANGED <<arrived, chunks, flow, reader>>

\* take_dirty: register, then take the list.
RegisterDriver ==
    /\ driver = "poll"
    /\ Register("driver")
    /\ driver' = "registered"
    /\ UNCHANGED <<arrived, chunks, flow, reader>>

TakeDirty ==
    /\ driver = "registered"
    /\ dirty' = FALSE
    /\ driver' = IF dirty THEN "drained" ELSE "asleep"
    /\ UNCHANGED <<arrived, chunks, unreported, credits, reader, waker, runnable>>

\* take_consumed, and nghttp2_session_consume; the driver then polls again.
TakeConsumed ==
    /\ driver = "drained"
    /\ credits' = credits + unreported
    /\ unreported' = 0
    /\ driver' = "asleep"
    /\ UNCHANGED <<arrived, chunks, dirty, reader, waker, runnable>>

\* The connection fails, and its future is dropped.
Die ==
    /\ MayDie
    /\ driver = "poll"
    /\ driver' = "gone"
    /\ UNCHANGED <<arrived, chunks, flow, reader, waker, runnable>>

-----------------------------------------------------------------------------
(* The reader: RecvBody::poll_frame                                        *)

ReaderWakes ==
    /\ reader = "asleep" /\ runnable["reader"]
    /\ runnable' = [runnable EXCEPT !["reader"] = FALSE]
    /\ reader' = "poll"
    /\ UNCHANGED <<arrived, chunks, flow, driver, waker>>

\* Under the lock
Poll ==
    /\ reader = "poll"
    /\ reader' = IF queued > 0 THEN "popped" ELSE IF eof THEN "ended" ELSE "empty"
    /\ queued' = IF queued > 0 THEN queued - 1 ELSE queued
    /\ UNCHANGED <<arrived, eof, flow, driver, waker, runnable>>

RegisterReader ==
    /\ reader = "empty"
    /\ Register("reader")
    /\ reader' = "registered"
    /\ UNCHANGED <<arrived, chunks, flow, driver>>

\* Mutant: it goes to sleep without looking again.
RecheckOmitted ==
    /\ reader = "registered"
    /\ reader' = "asleep"
    /\ UNCHANGED <<arrived, chunks, flow, driver, waker, runnable>>

BodyRecheck ==
    /\ reader = "registered"
    /\ reader' = "asleep"
    /\ runnable' = [runnable EXCEPT !["reader"] = @ \/ queued > 0 \/ eof]
    /\ UNCHANGED <<arrived, chunks, flow, driver, waker>>

FetchAdd ==
    /\ reader = "popped"
    /\ unreported' = unreported + 1
    /\ reader' = "credited"
    /\ UNCHANGED <<arrived, chunks, dirty, credits, driver, waker, runnable>>

\* ConnRecv::mark
Mark ==
    /\ reader = "credited"
    /\ dirty' = TRUE
    /\ reader' = "marked"
    /\ UNCHANGED <<arrived, chunks, unreported, credits, driver, waker, runnable>>

WakeDriver ==
    /\ reader = "marked"
    /\ Wake("driver")
    /\ reader' = "poll"
    /\ UNCHANGED <<arrived, chunks, flow, driver>>

Ended == (reader = "ended" \/ driver = "gone") /\ UNCHANGED bodyVars

DriverStep ==
    \/ DriverWakes
    \/ Push
    \/ WakeReader
    \/ RegisterDriver
    \/ TakeDirty
    \/ TakeConsumed

ReaderStep ==
    \/ ReaderWakes
    \/ Poll
    \/ RegisterReader
    \/ BodyRecheck
    \/ FetchAdd
    \/ Mark
    \/ WakeDriver

BodyNext == DriverStep \/ ReaderStep \/ Die \/ Ended

BodySpec == BodyInit /\ [][BodyNext]_bodyVars

-----------------------------------------------------------------------------
(* Properties                                                              *)

(***************************************************************************)
(* No lost wake-up: a reader that sleeps unwoken has nothing to read, or   *)
(* the driver is about to wake it.                                         *)
(***************************************************************************)
ReaderNotLost ==
    reader = "asleep" /\ ~runnable["reader"] => (queued = 0 /\ ~eof) \/ driver = "pushed"

(***************************************************************************)
(* No lost credit: when the driver sleeps unwoken, every chunk that was    *)
(* read is credited, or the reader is still about to report it.            *)
(***************************************************************************)
DriverNotLost ==
    driver = "asleep" /\ ~runnable["driver"]
        => (unreported = 0 /\ ~dirty) \/ reader \in {"credited", "marked"}

(***************************************************************************)
(* The window is kept: what the peer may still send, what is queued, what  *)
(* the reader has popped and what it has read but the driver has not       *)
(* collected make up the window, so no credit is lost or returned twice.   *)
(***************************************************************************)
InReader == IF reader = "popped" THEN 1 ELSE 0
WindowKept == credits + queued + InReader + unreported = Window

\* Neither the reader of a body nor the driver of its connection misses a wake-up,
\* and no part of the window is lost.
BodyNotLost == ReaderNotLost /\ DriverNotLost /\ WindowKept

(***************************************************************************)
(* The reader always reaches the end of the body: it does not wait forever *)
(* in poll_frame, whatever the connection task does.                       *)
(***************************************************************************)
BodyEnds == <>(reader = "ended")

=============================================================================
