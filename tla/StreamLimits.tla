---------------------------- MODULE StreamLimits ----------------------------
(***************************************************************************)
(* The time limits on control plane streams (tonic-stream): a call and its *)
(* response stream are bounded until the first item, between items and as  *)
(* a whole. A limit that is not configured is Off.                         *)
(*                                                                         *)
(* The stream is polled whenever a timer fires or an item arrives, so what *)
(* a poll finds ready is due at the present instant.                       *)
(***************************************************************************)
EXTENDS Integers

CONSTANTS Initial, Idle, Lifetime, \* ReceiveLimits
          Off, MaxTime

\* A limit is a time or Off; with an initial limit there is an idle one.
ASSUME LimitsConstants ==
    /\ MaxTime \in Nat /\ Off \notin Nat
    /\ \A limit \in {Initial, Idle, Lifetime} : limit = Off \/ limit \in Nat
    /\ Initial # Off => Idle # Off

VARIABLES now,
          stage,    \* calling, streaming, ended or failed
          recv,     \* deadline of the receive timer
          lifetime, \* deadline of the lifetime timer
          recvInit, \* is the first item outstanding?
          opened, last \* when the call was made, when the last item came

limitsVars == <<now, stage, recv, lifetime, recvInit, opened, last>>

Never == MaxTime + 1
DeadlineIn(limit) == IF limit = Off THEN Never ELSE now + limit

LimitsTypeOK ==
    /\ now \in 0..MaxTime
    /\ stage \in {"idle", "calling", "streaming", "ended", "failed"}
    /\ recv \in Nat /\ lifetime \in Nat
    /\ recvInit \in BOOLEAN
    /\ opened \in 0..MaxTime /\ last \in 0..MaxTime

LimitsInit ==
    /\ now = 0 /\ stage = "idle"
    /\ recv = Never /\ lifetime = Never /\ recvInit = TRUE
    /\ opened = 0 /\ last = 0

\* LimitReceiveFuture::new: the initial limit, or else the idle one.
BeginCall ==
    /\ stage = "idle"
    /\ stage' = "calling"
    /\ recv' = IF Initial # Off THEN DeadlineIn(Initial) ELSE DeadlineIn(Idle)
    /\ opened' = now /\ last' = now
    /\ UNCHANGED <<now, lifetime, recvInit>>

\* Mutant: the response restarts the timer.
StreamOpensAfresh ==
    /\ stage = "calling"
    /\ stage' = "streaming"
    /\ recv' = IF Initial # Off THEN DeadlineIn(Initial) ELSE DeadlineIn(Idle)
    /\ lifetime' = DeadlineIn(Lifetime)
    /\ recvInit' = TRUE
    /\ UNCHANGED <<now, opened, last>>

\* LimitReceiveFuture::poll: the response arrives; the timer is handed over.
StreamOpens ==
    /\ stage = "calling"
    /\ stage' = "streaming"
    /\ lifetime' = DeadlineIn(Lifetime)
    /\ recvInit' = TRUE
    /\ UNCHANGED <<now, recv, opened, last>>

\* LimitReceiveFuture::poll: no response before the deadline.
CallTimeout ==
    /\ stage = "calling" /\ now >= recv
    /\ stage' = "failed"
    /\ UNCHANGED <<now, recv, lifetime, recvInit, opened, last>>

\* LimitReceiveStream::poll_next: the lifetime is over.
LifetimeOver ==
    /\ stage = "streaming" /\ now >= lifetime
    /\ stage' = "ended"
    /\ UNCHANGED <<now, recv, lifetime, recvInit, opened, last>>

\* LimitReceiveStream::poll_next: an item is ready.
Item ==
    /\ stage = "streaming" /\ now < lifetime
    /\ recvInit' = FALSE
    /\ recv' = IF Idle = Off THEN recv ELSE DeadlineIn(Idle)
    /\ last' = now
    /\ UNCHANGED <<now, stage, lifetime, opened>>

\* LimitReceiveStream::poll_next: the inner stream ends or fails.
InnerEnds ==
    /\ stage = "streaming" /\ now < lifetime
    /\ stage' = "idle"
    /\ recv' = Never /\ lifetime' = Never /\ recvInit' = TRUE
    /\ UNCHANGED <<now, opened, last>>

\* LimitReceiveStream::poll_next: the receive timer fires.
RecvTimeout ==
    /\ stage = "streaming" /\ now < lifetime
    /\ now >= recv
    /\ stage' = IF recvInit THEN "failed" ELSE "ended"
    /\ UNCHANGED <<now, recv, lifetime, recvInit, opened, last>>

\* Time passes, up to the next timer that is being polled.
LimitsTick ==
    /\ now < MaxTime
    /\ stage \in {"calling", "streaming"} => now < recv
    /\ stage = "streaming" => now < lifetime
    /\ now' = now + 1
    /\ UNCHANGED <<stage, recv, lifetime, recvInit, opened, last>>

LimitsNext ==
    \/ BeginCall \/ StreamOpens \/ CallTimeout \/ LifetimeOver \/ Item \/ InnerEnds
    \/ RecvTimeout \/ LimitsTick

LimitsSpec == LimitsInit /\ [][LimitsNext]_limitsVars
-----------------------------------------------------------------------------
(* Properties *)

Within(since, limit) == limit = Off \/ now <= since + limit

\* A caller is never left waiting past the configured limits: for the first
\* item, for the next one, or for the end of the stream.
WaitBounded ==
    /\ stage = "calling" => Within(opened, Initial)
    /\ stage = "streaming" =>
         IF recvInit THEN Within(opened, Initial) ELSE Within(last, Idle)

\* The initial limit covers the call and the wait for the first item together:
\* the timer of the call is not restarted by the response.
InitialSpansResponse ==
    (stage = "calling" \/ (stage = "streaming" /\ recvInit)) /\ Initial # Off =>
        recv = opened + Initial

\* "Bounds the amount of time until a gRPC stream's initial item is received":
\* a stream that got its first item ends only by the limits on idleness and
\* lifetime.  A property of steps.
EndsInTime ==
    stage = "streaming" /\ stage' = "ended" =>
        \/ now >= lifetime
        \/ Idle # Off /\ now >= last + Idle

\* Streams are waited for as long as their limits allow, and no longer.
LimitsKept == [](WaitBounded /\ InitialSpansResponse) /\ [][EndsInTime]_limitsVars
=============================================================================
