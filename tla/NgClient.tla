------------------------------- MODULE NgClient ------------------------------
(***************************************************************************)
(* The client driver of the nghttp2 engine (linkerd/http/nghttp2/src/      *)
(* client.rs): callers hand requests to the connection task through a      *)
(* channel and wait on a oneshot for the response.  A request's body is    *)
(* sent as NgServe describes for a response's.                             *)
(***************************************************************************)
EXTENDS Integers, Sequences, FiniteSets, Functions

CONSTANTS
    Requests,
    QueueCap,  \* the capacity of the channel
    MayEof     \* whether the peer may end its side of the connection

ASSUME ClientConstants == QueueCap \in Nat

VARIABLES
    caller,   \* request -> what its caller has come to
    queue,    \* the requests in the channel
    pending,  \* the requests with a waiting oneshot
    stream,   \* request -> the state of its stream in nghttp2
    actions,  \* the queued callback actions
    handles,  \* whether a Connection handle is left
    closing,
    peerEof,  \* the peer has ended its side
    result    \* how the driver has finished, if it has

driverVars == <<pending, stream, actions, closing, result>>
clientVars == <<caller, queue, handles, peerEof, driverVars>>

Act(k, r) == [kind |-> k, req |-> r]

ClientTypeOK ==
    /\ caller \in [Requests -> {"idle", "waiting", "response", "reset", "refused", "closed"}]
    /\ queue \in Seq(Requests) /\ Len(queue) <= QueueCap
    /\ pending \subseteq Requests
    /\ stream \in [Requests -> {"none", "open", "closed"}]
    /\ actions \in Seq([kind : {"head", "malformed", "closed"}, req : Requests])
    /\ handles \in BOOLEAN /\ closing \in BOOLEAN /\ peerEof \in BOOLEAN
    /\ result \in {"none", "ok", "error"}

ClientInit ==
    /\ caller = [r \in Requests |-> "idle"]
    /\ queue = << >>
    /\ pending = {}
    /\ stream = [r \in Requests |-> "none"]
    /\ actions = << >>
    /\ handles = TRUE
    /\ closing = FALSE
    /\ peerEof = FALSE
    /\ result = "none"

Running == result = "none"

-----------------------------------------------------------------------------
(* The callers                                                             *)

SendRequest(r) ==
    /\ handles
    /\ caller[r] = "idle"
    /\ IF Running
       THEN /\ Len(queue) < QueueCap
            /\ queue' = Append(queue, r)
            /\ caller' = [caller EXCEPT ![r] = "waiting"]
       ELSE /\ caller' = [caller EXCEPT ![r] = "closed"]
            /\ UNCHANGED queue
    /\ UNCHANGED <<handles, peerEof, driverVars>>

\* The last handle is dropped; a caller in send_request holds one.
DropHandles ==
    /\ handles
    /\ \A r \in Requests : caller[r] # "waiting"
    /\ handles' = FALSE
    /\ UNCHANGED <<caller, queue, peerEof, driverVars>>

-----------------------------------------------------------------------------
(* The driver                                                              *)

Submit ==
    /\ Running /\ queue # << >>
    /\ LET r == Head(queue) IN
        /\ queue' = Tail(queue)
        /\ \/ /\ pending' = pending \cup {r}
              /\ stream' = [stream EXCEPT ![r] = "open"]
              /\ UNCHANGED caller
           \/ /\ caller' = [caller EXCEPT ![r] = "refused"]
              /\ UNCHANGED <<pending, stream>>
    /\ UNCHANGED <<handles, peerEof, actions, closing, result>>

\* drain_submits on a channel without senders.
NoHandles ==
    /\ Running /\ ~handles /\ queue = << >> /\ ~closing
    /\ closing' = TRUE
    /\ UNCHANGED <<caller, queue, handles, peerEof, pending, stream, actions, result>>

\* What an action makes of a caller that waits for it.
Outcome(k) == IF k = "head" THEN "response" ELSE "reset"

\* Mutant: the oneshot is taken out before the head is looked at.
HandleActionTakesFirst ==
    /\ Running /\ actions # << >>
    /\ LET a == Head(actions) IN
        /\ actions' = Tail(actions)
        /\ pending' = pending \ {a.req}
        /\ IF a.kind # "malformed" /\ a.req \in pending
           THEN caller' = [caller EXCEPT ![a.req] = Outcome(a.kind)]
           ELSE UNCHANGED caller
    /\ UNCHANGED <<queue, handles, peerEof, stream, closing, result>>

\* handle_actions: deliver_response of a head, or Closed.
HandleAction ==
    /\ Running /\ actions # << >>
    /\ LET a == Head(actions) IN
        /\ actions' = Tail(actions)
        /\ IF a.kind # "malformed" /\ a.req \in pending
           THEN /\ caller' = [caller EXCEPT ![a.req] = Outcome(a.kind)]
                /\ pending' = pending \ {a.req}
           ELSE UNCHANGED <<caller, pending>>
    /\ UNCHANGED <<queue, handles, peerEof, stream, closing, result>>

\* The peer answers a request, or closes its stream before or after that.
PeerAnswers(r) ==
    /\ Running /\ ~peerEof
    /\ stream[r] = "open"
    /\ stream' = [stream EXCEPT ![r] = "closed"]
    /\ \E head \in {<< >>, <<Act("head", r)>>, <<Act("malformed", r)>>} :
        actions' = actions \o head \o <<Act("closed", r)>>
    /\ UNCHANGED <<caller, queue, handles, peerEof, pending, closing, result>>

PeerEof ==
    /\ MayEof /\ Running /\ ~peerEof
    /\ peerEof' = TRUE
    /\ closing' = TRUE
    /\ UNCHANGED <<caller, queue, handles, pending, stream, actions, result>>

\* The driver returns an error and drops what it holds: oneshots and channel.
Dropped(r) == r \in pending \/ r \in Range(queue)

Fails ==
    /\ Running
    /\ result' = "error"
    /\ caller' = [r \in Requests |-> IF Dropped(r) THEN "closed" ELSE caller[r]]
    /\ pending' = {}
    /\ queue' = << >>
    /\ actions' = << >>
    /\ UNCHANGED <<handles, peerEof, stream, closing>>

(***************************************************************************)
(* The driver returns when it is closing and idle.  The session's          *)
(* want_read is false only after a GOAWAY (the driver submits none; here   *)
(* the peer may have sent one) and with no stream open.                    *)
(***************************************************************************)
Ends ==
    /\ Running /\ closing
    /\ pending = {} /\ actions = << >> /\ queue = << >>
    /\ \A r \in Requests : stream[r] # "open"
    /\ result' = "ok"
    /\ UNCHANGED <<caller, queue, handles, peerEof, pending, stream, actions, closing>>

Quiet ==
    /\ ~Running \/ (\A r \in Requests : caller[r] # "idle") \/ ~handles
    /\ UNCHANGED clientVars

ClientStep == Submit \/ NoHandles \/ HandleAction

ClientNext ==
    \/ \E r \in Requests : SendRequest(r) \/ PeerAnswers(r)
    \/ DropHandles
    \/ ClientStep
    \/ PeerEof
    \/ Fails
    \/ Ends
    \/ Quiet

ClientSpec == ClientInit /\ [][ClientNext]_clientVars

-----------------------------------------------------------------------------
(* Properties                                                              *)

(***************************************************************************)
(* No caller is forgotten: one that waits is in the channel or has its     *)
(* oneshot in `pending`, and as long as its oneshot is there its stream is *)
(* open or the action that will resolve it is queued.                      *)
(***************************************************************************)
Accounted ==
    /\ \A r \in Requests : caller[r] = "waiting" <=> Dropped(r)
    /\ \A r \in pending :
        stream[r] = "open" \/ \E i \in DOMAIN actions : actions[i] = Act("closed", r)

(***************************************************************************)
(* Every call of send_request returns: with the response, or with an error *)
(* when the response never arrives.                                        *)
(***************************************************************************)
CallsReturn == \A r \in Requests : caller[r] = "waiting" ~> caller[r] # "waiting"

=============================================================================
