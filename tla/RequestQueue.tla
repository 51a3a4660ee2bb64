---------------------------- MODULE RequestQueue ----------------------------
(***************************************************************************)
(* What a PoolQueue promises its callers: a bounded first-in first-out     *)
(* queue in which every accepted request is answered at most once and in   *)
(* order.  While the queue is up a request is dispatched or failed fast;   *)
(* once it has gone down every remaining request gets the terminal error,  *)
(* and nothing is dispatched any more.                                     *)
(***************************************************************************)
EXTENDS Naturals, Sequences

CONSTANTS Callers, Gone, Limit

VARIABLES pending,  \* accepted requests that have no answer yet
          down,     \* the queue has failed
          answer    \* the answer that waits for each caller

vars == <<pending, down, answer>>

Init ==
    /\ pending = <<>>
    /\ down = FALSE
    /\ answer = [c \in Callers |-> "none"]

Waiting(c) == \E i \in DOMAIN pending : pending[i] = c

\* A request is accepted, also while the queue goes down.
Submit(c) ==
    /\ ~Waiting(c) /\ answer[c] = "none"
    /\ Len(pending) < Limit
    /\ pending' = Append(pending, c)
    /\ UNCHANGED <<down, answer>>

AnswerHead(r) ==
    /\ pending # <<>>
    /\ answer' = [c \in Callers |-> IF c = Head(pending) THEN r ELSE answer[c]]
    /\ pending' = Tail(pending)

Serve == ~down /\ down' = down /\ (AnswerHead("dispatched") \/ AnswerHead("failfast"))

\* The queue fails, with or without a request in the worker's hand.
GoDown ==
    /\ ~down
    /\ down' = TRUE
    /\ AnswerHead("terminal") \/ UNCHANGED <<pending, answer>>

Flush == down /\ down' = down /\ AnswerHead("terminal")

\* A caller takes its answer.
Take(c) ==
    /\ answer[c] # "none"
    /\ answer' = [answer EXCEPT ![c] = "none"]
    /\ UNCHANGED <<pending, down>>

\* A caller gives up; its place in the queue stays occupied.
Withdraw(c) ==
    /\ pending' = [i \in DOMAIN pending |-> IF pending[i] = c THEN Gone ELSE pending[i]]
    /\ answer' = [answer EXCEPT ![c] = "none"]
    /\ UNCHANGED down

Next ==
    \/ Serve \/ GoDown \/ Flush
    \/ \E c \in Callers : Submit(c) \/ Take(c) \/ Withdraw(c)

Spec == Init /\ [][Next]_vars
=============================================================================
