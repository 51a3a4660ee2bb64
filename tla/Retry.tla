-------------------------------- MODULE Retry --------------------------------
(***************************************************************************)
(* Request retries (linkerd/http/retry): the loop of send_req_with_retries *)
(* and the ReplayBody it hands to each attempt.                            *)
(*                                                                         *)
(* The original body is a sequence of chunks (only their sizes matter)     *)
(* followed by optional trailers.  All clones of a ReplayBody share one    *)
(* BodyState; a clone acquires it when it is polled and gives it back when *)
(* it is dropped.  Attempt n sends clone n, and the next clone is kept as  *)
(* the backup.  The transport owns the bodies it was given: it may go on   *)
(* polling one after the response to its attempt has been read, and drops  *)
(* it when it likes.                                                       *)
(*                                                                         *)
(* Before a retry is decided, PeekTrailersBody reads up to two frames of   *)
(* the response so that the grpc-status of a short one can be inspected;   *)
(* the body it then returns must still deliver the response unchanged.     *)
(* That is a machine of its own: a response is a sequence of frames, the   *)
(* body's variant is `kind`, and the frames that a variant stores (data    *)
(* and trailers, or first and second) are the sequence `held`, in the      *)
(* order poll_frame takes them.                                            *)
(***************************************************************************)
EXTENDS Integers, Sequences, Functions

CONSTANTS
    Bodies,       \* the chunk sizes of the bodies a client may send
    MaxBytes,     \* Params::max_request_bytes
    MaxRetries,   \* Params::max_retries
    Transports,   \* the transports there are: eager ones (TRUE), or not
    Responses     \* the responses a server may send

ASSUME RetryConstants ==
    Bodies \subseteq Seq(Nat) /\ MaxBytes \in Nat /\ MaxRetries \in Nat /\ Transports \subseteq BOOLEAN

VARIABLES
    sizes,        \* the chunks of the original body
    hasTrailers,  \* whether it has trailers
    eager,        \* does a body yield something before its attempt is answered or dropped?
    failed,       \* whether reading it has failed
    st,           \* the BodyState: replay, trailers, frames read, is_completed, max_bytes
    owner,        \* the clone whose `state` is Some, or 0: the state is in `shared`
    body,         \* clone -> where it is
    replayBody,   \* clone -> replay_body
    replayTrailers, \* clone -> replay_trailers
    sent,         \* clone -> the frames it yielded
    eos,          \* clone -> how its stream stands
    cur,          \* the number of attempts sent
    phase,        \* where send_req_with_retries is
    panicked,     \* acquire_state found no state
    frames,       \* peeking: the response's frames
    http1,        \* whether its version is HTTP/1.1 or older
    pos,          \* the number of frames read from the inner body
    kind,         \* the variant, or where map_response is
    held,         \* the frames the variant stores
    out,          \* what the caller of poll_frame received
    ended         \* whether the caller saw the end of the stream

origin == <<sizes, hasTrailers, eager>>
clones == <<body, replayBody, replayTrailers, sent, eos>>
loop == <<cur, phase>>
retryVars == <<origin, failed, st, owner, clones, loop, panicked>>

Clones == 1 .. MaxRetries + 2
Trailers == 0

Original == [i \in 1 .. Len(sizes) |-> i] \o IF hasTrailers THEN <<Trailers>> ELSE << >>
Bytes(cs) == SumFunctionOnSet(sizes, Range(cs))
DataRead == [i \in 1 .. (IF st.read < Len(sizes) THEN st.read ELSE Len(sizes)) |-> i]

Max0(x) == IF x < 0 THEN 0 ELSE x

IsCapped == st.maxBytes = 0

RetryTypeOK ==
    /\ sizes \in Bodies /\ hasTrailers \in BOOLEAN /\ eager \in Transports /\ failed \in BOOLEAN
    /\ st \in [replay : Seq(1 .. Len(sizes)), trailers : BOOLEAN, read : 0 .. Len(sizes) + 1,
               completed : BOOLEAN, maxBytes : 0 .. MaxBytes + 1]
    /\ owner \in 0 .. MaxRetries + 1
    /\ body \in [Clones -> {"none", "backup", "live", "dropped"}]
    /\ replayBody \in [Clones -> BOOLEAN] /\ replayTrailers \in [Clones -> BOOLEAN]
    /\ sent \in [Clones -> Seq(0 .. Len(sizes))]
    /\ eos \in [Clones -> {"open", "ended", "error"}]
    /\ cur \in 1 .. MaxRetries + 1
    /\ phase \in {"sending", "backoff", "returned"}
    /\ panicked \in BOOLEAN

-----------------------------------------------------------------------------
(* HttpRetry::call accepts the request (ReplayBody::try_new), makes the    *)
(* first backup and sends the first attempt, whose body owns the state.    *)

RetryInit ==
    /\ sizes \in Bodies
    /\ hasTrailers \in BOOLEAN
    /\ eager \in Transports
    /\ failed = FALSE
    /\ st = [replay |-> << >>, trailers |-> FALSE, read |-> 0,
             completed |-> FALSE, maxBytes |-> MaxBytes + 1]
    /\ owner = 1
    /\ body = [c \in Clones |-> IF c = 1 THEN "live" ELSE IF c = 2 THEN "backup" ELSE "none"]
    /\ replayBody = [c \in Clones |-> c # 1]
    /\ replayTrailers = [c \in Clones |-> c # 1]
    /\ sent = [c \in Clones |-> << >>]
    /\ eos = [c \in Clones |-> "open"]
    /\ cur = 1
    /\ phase = "sending"
    /\ panicked = FALSE

-----------------------------------------------------------------------------
(* ReplayBody::poll_frame, by the branch it takes.                         *)

Pollable(c) == body[c] = "live" /\ eos[c] = "open" /\ ~panicked

Acquire(c) ==
    /\ Pollable(c)
    /\ owner \in {0, c}
    /\ owner' = c
    /\ UNCHANGED <<origin, body, loop, panicked>>

AtBuffer(c) == replayBody[c] /\ st.replay # << >>
AtCapped(c) == replayBody[c] /\ st.replay = << >> /\ IsCapped
AtTrailers(c) == ~AtBuffer(c) /\ ~AtCapped(c) /\ replayTrailers[c] /\ st.trailers
AtEnd(c) == ~AtBuffer(c) /\ ~AtCapped(c) /\ ~AtTrailers(c) /\ st.completed
AtInner(c) == ~AtBuffer(c) /\ ~AtCapped(c) /\ ~AtTrailers(c) /\ ~st.completed

Yield(c, fs) == sent' = [sent EXCEPT ![c] = @ \o fs] /\ UNCHANGED eos
Close(c, how) == eos' = [eos EXCEPT ![c] = how] /\ UNCHANGED sent

MissingState(c) ==
    /\ Pollable(c)
    /\ owner \notin {0, c}
    /\ panicked' = TRUE
    /\ UNCHANGED <<origin, failed, st, owner, clones, loop>>

ReplayBuffer(c) ==
    /\ Acquire(c)
    /\ AtBuffer(c)
    /\ Yield(c, st.replay)
    /\ replayBody' = [replayBody EXCEPT ![c] = FALSE]
    /\ UNCHANGED <<failed, st, replayTrailers>>

RefuseCapped(c) ==
    /\ Acquire(c)
    /\ AtCapped(c)
    /\ Close(c, "error")
    /\ UNCHANGED <<failed, st, replayBody, replayTrailers>>

SkipTrailers(c) == replayTrailers' = [replayTrailers EXCEPT ![c] = FALSE] /\ UNCHANGED replayBody

ReplayTrailers(c) ==
    /\ Acquire(c)
    /\ AtTrailers(c)
    /\ Yield(c, <<Trailers>>)
    /\ SkipTrailers(c)
    /\ UNCHANGED <<failed, st>>

Completed(c) ==
    /\ Acquire(c)
    /\ AtEnd(c)
    /\ Close(c, "ended")
    /\ SkipTrailers(c)
    /\ UNCHANGED <<failed, st>>

PollPending(c) ==
    /\ Acquire(c)
    /\ AtInner(c)
    /\ SkipTrailers(c)
    /\ UNCHANGED <<failed, st, sent, eos>>

\* BodyState::record_bytes
RecordBytes(i) ==
    LET left == Max0(st.maxBytes - sizes[i]) IN
    [st EXCEPT !.read = i,
               !.maxBytes = left,
               !.replay = IF left = 0 THEN << >> ELSE Append(@, i)]

ReadData(c) ==
    /\ Acquire(c)
    /\ AtInner(c)
    /\ ~failed
    /\ st.read < Len(sizes)
    /\ st' = RecordBytes(st.read + 1)
    /\ Yield(c, <<st.read + 1>>)
    /\ SkipTrailers(c)
    /\ UNCHANGED failed

ReadTrailers(c) ==
    /\ Acquire(c)
    /\ AtInner(c)
    /\ ~failed
    /\ hasTrailers /\ st.read = Len(sizes)
    /\ st' = [st EXCEPT !.read = @ + 1, !.trailers = TRUE, !.completed = TRUE]
    /\ Yield(c, <<Trailers>>)
    /\ SkipTrailers(c)
    /\ UNCHANGED failed

ReadEnd(c) ==
    /\ Acquire(c)
    /\ AtInner(c)
    /\ ~failed
    /\ ~hasTrailers /\ st.read = Len(sizes)
    /\ st' = [st EXCEPT !.completed = TRUE]
    /\ Close(c, "ended")
    /\ SkipTrailers(c)
    /\ UNCHANGED failed

\* The client resets the request; its body fails from then on.
ReadError(c) ==
    /\ Acquire(c)
    /\ AtInner(c)
    /\ failed' = TRUE
    /\ Close(c, "error")
    /\ SkipTrailers(c)
    /\ UNCHANGED st

\* ReplayBody::is_end_stream lets the transport finish without another poll.
IsEndStream(c) ==
    \/ Original = << >>
    \/ /\ owner = c
       /\ ~replayBody[c] /\ ~replayTrailers[c]
       /\ ~failed /\ st.read = Len(Original)

EndStream(c) ==
    /\ Pollable(c)
    /\ IsEndStream(c)
    /\ Close(c, "ended")
    /\ UNCHANGED <<origin, failed, st, owner, body, replayBody, replayTrailers, loop, panicked>>

\* An eager transport neither answers nor drops a request before its body has
\* yielded something.
Begun(c) == eager => sent[c] # << >> \/ eos[c] # "open"

DropBody(c) ==
    /\ body[c] = "live"
    /\ Begun(c)
    /\ body' = [body EXCEPT ![c] = "dropped"]
    /\ owner' = IF owner = c THEN 0 ELSE owner
    /\ UNCHANGED <<origin, failed, st, replayBody, replayTrailers, sent, eos, loop, panicked>>

-----------------------------------------------------------------------------
(* send_req_with_retries                                                   *)

\* A state that another clone holds is taken for one that is not capped.
BackupUsableUnknown == owner # 0 \/ ~IsCapped

BackupUsable == owner = 0 /\ ~IsCapped

Return ==
    /\ phase' = "returned"
    /\ body' = [body EXCEPT ![cur + 1] = "dropped"]

Respond(retryable) ==
    /\ phase = "sending"
    /\ Begun(cur)
    /\ ~panicked
    /\ IF retryable /\ BackupUsable /\ cur <= MaxRetries
       THEN phase' = "backoff" /\ UNCHANGED body
       ELSE Return
    /\ UNCHANGED <<origin, failed, st, owner, replayBody, replayTrailers, sent, eos, cur, panicked>>

Overflow ==
    /\ phase = "backoff"
    /\ Return
    /\ UNCHANGED <<origin, failed, st, owner, replayBody, replayTrailers, sent, eos, cur, panicked>>

SendBackup ==
    /\ phase = "backoff"
    /\ cur' = cur + 1
    /\ phase' = "sending"
    /\ body' = [body EXCEPT ![cur + 1] = "live", ![cur + 2] = "backup"]
    /\ UNCHANGED <<origin, failed, st, owner, replayBody, replayTrailers, sent, eos, panicked>>

PollFrame(c) ==
    \/ MissingState(c)
    \/ ReplayBuffer(c)
    \/ RefuseCapped(c)
    \/ ReplayTrailers(c)
    \/ Completed(c)
    \/ PollPending(c)
    \/ ReadData(c)
    \/ ReadTrailers(c)
    \/ ReadEnd(c)
    \/ ReadError(c)

\* The request is over once its bodies are dropped and the response returned.
Done ==
    /\ phase = "returned" \/ panicked
    /\ UNCHANGED retryVars

RetryNext ==
    \/ \E c \in 1 .. cur : PollFrame(c) \/ EndStream(c) \/ DropBody(c)
    \/ \E retryable \in BOOLEAN : Respond(retryable)
    \/ Overflow
    \/ SendBackup
    \/ Done

RetrySpec == RetryInit /\ [][RetryNext]_retryVars

-----------------------------------------------------------------------------
(* PeekTrailersBody                                                        *)

peekVars == <<frames, http1, pos, kind, held, out, ended>>

Rest == SubSeq(frames, pos + 1, Len(frames))
PeekAtEnd == pos = Len(frames)

\* What split_frame knows.
Known(fs) == SelectSeq(fs, LAMBDA f : f # "unknown")

PeekInit ==
    /\ frames \in Responses
    /\ http1 \in BOOLEAN
    /\ pos = 0
    /\ kind = "head"
    /\ held = << >>
    /\ out = << >>
    /\ ended = FALSE

\* map_response: old versions pass through, and a body that is known to be
\* empty is not read.
MapResponse ==
    /\ kind = "head"
    /\ \/ http1 /\ kind' = "Passthru"
       \/ ~http1 /\ frames = << >> /\ kind' = "Empty"
       \/ ~http1 /\ kind' = "reading"
    /\ UNCHANGED <<frames, http1, pos, held, out, ended>>

\* The first frame is awaited.
FirstFrame ==
    /\ kind = "reading"
    /\ UNCHANGED <<frames, http1, out, ended>>
    /\ IF PeekAtEnd
       THEN kind' = "Empty" /\ UNCHANGED <<pos, held>>
       ELSE LET f == frames[1] IN
            /\ pos' = 1
            /\ held' = IF f = "unknown" THEN << >> ELSE <<f>>
            /\ kind' = CASE f \in {"error", "trailers"} -> "Unary"
                         [] f = "unknown" -> "Buffered"
                         [] f = "data" -> "second"

\* The second frame is not there yet (now_or_never is None).
SecondPending ==
    /\ kind = "second"
    /\ kind' = "Buffered"
    /\ UNCHANGED <<frames, http1, pos, held, out, ended>>

SecondFrame ==
    /\ kind = "second"
    /\ UNCHANGED <<frames, http1, out, ended>>
    /\ IF PeekAtEnd
       THEN kind' = "Unary" /\ UNCHANGED <<pos, held>>
       ELSE LET f == frames[2] IN
            /\ pos' = 2
            /\ held' = IF f = "unknown" THEN held ELSE Append(held, f)
            /\ kind' = IF f \in {"error", "trailers"} THEN "Unary" ELSE "Buffered"

PeekTrailers == kind = "Unary" /\ held # << >> /\ held[Len(held)] = "trailers"

PeekReady == kind \in {"Empty", "Unary", "Buffered", "Passthru"} /\ ~ended

PeekPollFrame ==
    /\ PeekReady
    /\ UNCHANGED <<frames, http1, kind>>
    /\ IF held # << >>
       THEN out' = Append(out, Head(held)) /\ held' = Tail(held) /\ UNCHANGED <<pos, ended>>
       ELSE IF kind \in {"Buffered", "Passthru"} /\ ~PeekAtEnd
            THEN out' = Append(out, Head(Rest)) /\ pos' = pos + 1 /\ UNCHANGED <<held, ended>>
            ELSE ended' = TRUE /\ UNCHANGED <<pos, held, out>>

PeekIsEndStream ==
    \/ kind = "Empty"
    \/ kind = "Unary" /\ held = << >>
    \/ kind \in {"Buffered", "Passthru"} /\ held = << >> /\ PeekAtEnd

\* A caller may stop as soon as is_end_stream holds.
PeekEndStream ==
    /\ PeekReady
    /\ PeekIsEndStream
    /\ ended' = TRUE
    /\ UNCHANGED <<frames, http1, pos, kind, held, out>>

Delivered == ended /\ UNCHANGED peekVars

PeekNext ==
    \/ MapResponse
    \/ FirstFrame
    \/ SecondPending
    \/ SecondFrame
    \/ PeekPollFrame
    \/ PeekEndStream
    \/ Delivered

-----------------------------------------------------------------------------
(* Properties                                                              *)

(***************************************************************************)
(* What an attempt sends is a prefix of the original request: poll_frame   *)
(* neither repeats, skips nor reorders frames when it replays the buffer,  *)
(* goes on with the client's body and is replayed again.                   *)
(***************************************************************************)
SentFaithful ==
    \A c \in Clones :
        Len(sent[c]) <= Len(Original) /\ \A i \in 1 .. Len(sent[c]) : sent[c][i] = Original[i]

(***************************************************************************)
(* An attempt whose body ends normally has sent the whole request, the     *)
(* trailers included.  In particular a body that outgrew the buffer is     *)
(* never replayed truncated: the clone fails instead.                      *)
(***************************************************************************)
EndMeansAll == \A c \in Clones : eos[c] = "ended" => sent[c] = Original

(***************************************************************************)
(* Whatever the transport does, an attempt whose body ends normally has    *)
(* sent every chunk of the request and its trailers at least once.         *)
(***************************************************************************)
NothingLost == \A c \in Clones : eos[c] = "ended" => Range(sent[c]) = Range(Original)

(***************************************************************************)
(* record_bytes caps exactly the bodies longer than max_request_bytes, and *)
(* until then the buffer holds all that was read, so it never exceeds the  *)
(* limit.                                                                  *)
(***************************************************************************)
CapExact ==
    /\ IsCapped <=> Bytes(DataRead) > MaxBytes
    /\ st.replay = IF IsCapped THEN << >> ELSE DataRead

(***************************************************************************)
(* No clone is polled while another one holds the state: acquire_state's   *)
(* expect("missing body state") never fires.                               *)
(***************************************************************************)
NeverPanics == ~panicked

\* Of the attempts of a request that an eager transport makes, none sends anything but
\* a prefix of it, none ends before it has sent all of it, and none is polled without
\* its state.
ReplayFaithful == eager => SentFaithful /\ EndMeansAll /\ NeverPanics

(***************************************************************************)
(* Peeking is transparent: what the caller received, what is set aside and *)
(* what is still to be read are together the response, in its order (frames*)
(* of a kind split_frame does not know may be dropped).                    *)
(***************************************************************************)
Transparent == Known(out \o held \o Rest) = Known(frames)

(***************************************************************************)
(* When the caller sees the end of the body, by poll_frame or by           *)
(* is_end_stream, it has received the whole response.                      *)
(***************************************************************************)
PeekEndMeansAll == ended => Known(out) = Known(frames)

(***************************************************************************)
(* Trailers are reported to the retry policy only when they are the last   *)
(* frame of a response of at most one data frame; trailers that come first *)
(* are always reported for HTTP/2.                                         *)
(***************************************************************************)
PeekExact ==
    /\ PeekTrailers => Len(frames) <= 2 /\ frames[Len(frames)] = "trailers"
    /\ ~http1 /\ frames # << >> /\ Head(frames) = "trailers" /\ PeekReady /\ out = << >>
          => PeekTrailers
=============================================================================
