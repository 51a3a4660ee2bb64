---------------------------- MODULE StreamWatch -----------------------------
(***************************************************************************)
(* Control plane watches (tonic-watch): a background task copies the items *)
(* of a response stream into a watch channel, and looks the target up      *)
(* again, with backoff, when the stream fails. Service profiles and        *)
(* policies are kept up to date by such tasks.                             *)
(*                                                                         *)
(* The control plane's values are versions, in the order it makes them.    *)
(***************************************************************************)
EXTENDS Integers, Sequences

CONSTANTS Modes,      \* spawn_watch or spawn_with_init
          MaxVersion, MaxLosses, \* bounds on changes and on failures
          LossesEnd,  \* is the number of failures bounded?
          MaxDelays   \* where a backoff stream ends

ASSUME WatchConstants == MaxDelays \in Nat \ {0} /\ MaxVersion \in Nat /\ MaxLosses \in Nat

VARIABLES mode, phase,
          publishing, \* has the first value been obtained?
          delay,      \* the backoff; 0: None; n: a stream about to sleep its n-th delay
          newest,     \* the control plane's value
          items,      \* items on the current stream
          watch,      \* the value in the watch channel; -1: the given initial one
          receivers,  \* are there receivers?
          misses, losses

watchVars == <<mode, phase, publishing, delay, newest, items, watch, receivers, misses, losses>>

WatchTypeOK ==
    /\ mode \in Modes
    /\ phase \in {"call", "backoff", "stream", "done"}
    /\ publishing \in BOOLEAN /\ receivers \in BOOLEAN
    /\ delay \in 0..(MaxDelays + 1)
    /\ newest \in 0..MaxVersion /\ watch \in -1..MaxVersion
    /\ items \in Seq(0..MaxVersion)
    /\ misses \in Nat /\ losses \in 0..MaxLosses

\* A lookup begins: spawn_with_init hands out a receiver at once.
WatchInit ==
    /\ mode \in Modes
    /\ phase = "call" /\ publishing = FALSE /\ delay = 0
    /\ newest = 0 /\ items = <<>> /\ watch = -1
    /\ receivers = (mode = "spawn_with_init")
    /\ misses = 0 /\ losses = 0

\* A failure; a bounded number of them if they come to an end.
Loss ==
    /\ LossesEnd => losses < MaxLosses
    /\ losses' = IF LossesEnd THEN losses + 1 ELSE losses

\* init: the service answers and the stream yields its first item. spawn_watch
\* makes the channel with it; spawn_with_init sends it, and ends if it cannot.
FirstValue ==
    /\ phase = "call" /\ ~publishing
    /\ LET kept == mode = "spawn_watch" \/ receivers
       IN  /\ phase' = IF kept THEN "stream" ELSE "done"
           /\ watch' = IF kept THEN newest ELSE watch
           /\ receivers' = kept
    /\ publishing' = TRUE
    /\ misses' = 0
    /\ UNCHANGED <<mode, delay, newest, items, losses>>

\* Mutant: the first item of the new stream only served to open it.
RelookupDiscards ==
    /\ phase = "call" /\ publishing /\ receivers
    /\ phase' = "stream"
    /\ misses' = 0
    /\ UNCHANGED <<mode, publishing, delay, newest, items, watch, receivers, losses>>

\* recovering_next: the target was looked up again; the new stream's first item
\* is published.
Relookup ==
    /\ phase = "call" /\ publishing /\ receivers
    /\ phase' = "stream"
    /\ watch' = newest
    /\ misses' = 0
    /\ UNCHANGED <<mode, publishing, delay, newest, items, receivers, losses>>

\* init: readiness, the call or the first item fails; recover, or give up.
CallFails(reject) ==
    /\ phase = "call"
    /\ Loss
    /\ misses' = IF misses > MaxDelays THEN misses ELSE misses + 1
    /\ IF reject THEN phase' = "done" /\ delay' = delay
       ELSE /\ phase' = "backoff"
            /\ delay' = IF delay \in 1..MaxDelays THEN delay ELSE 1
    /\ UNCHANGED <<mode, publishing, newest, items, watch, receivers>>

\* Mutant: an exhausted backoff is waited for.
BackedOffNever ==
    /\ phase = "backoff" /\ delay < MaxDelays
    /\ phase' = "call"
    /\ delay' = delay + 1
    /\ UNCHANGED <<mode, publishing, newest, items, watch, receivers, misses, losses>>

\* init: the delay has elapsed.
BackedOff ==
    /\ phase = "backoff"
    /\ phase' = "call"
    /\ delay' = delay + 1
    /\ UNCHANGED <<mode, publishing, newest, items, watch, receivers, misses, losses>>

\* recovering_next: an item arrives and is sent to the receivers.
PublishItem ==
    /\ phase = "stream" /\ receivers
    /\ items # <<>>
    /\ items' = Tail(items)
    /\ watch' = Head(items)
    /\ UNCHANGED <<mode, phase, publishing, delay, newest, receivers, misses, losses>>

\* recovering_next: the stream fails or ends; its error gives a backoff that
\* applies if the next lookup fails.
WatchFails(reject) ==
    /\ phase = "stream"
    /\ Loss
    /\ phase' = IF reject THEN "done" ELSE "call"
    /\ delay' = 1
    /\ items' = <<>>
    /\ UNCHANGED <<mode, publishing, newest, watch, receivers, misses>>

\* publish_updates: all receivers are gone, and the task sees it first.
ReceiversGone ==
    /\ publishing /\ phase # "done"
    /\ ~receivers
    /\ phase' = "done"
    /\ UNCHANGED <<mode, publishing, delay, newest, items, watch, receivers, misses, losses>>

\* The caller of spawn_watch gives up before there is a value.
CancelLookup ==
    /\ mode = "spawn_watch" /\ ~publishing /\ phase # "done"
    /\ phase' = "done"
    /\ UNCHANGED <<mode, publishing, delay, newest, items, watch, receivers, misses, losses>>

\* The last receiver is dropped.
DropReceivers ==
    /\ receivers
    /\ receivers' = FALSE
    /\ UNCHANGED <<mode, phase, publishing, delay, newest, items, watch, misses, losses>>

\* The control plane has a new value.
NewVersion ==
    /\ newest < MaxVersion
    /\ newest' = newest + 1
    /\ items' = IF phase = "stream" THEN Append(items, newest') ELSE items
    /\ UNCHANGED <<mode, phase, publishing, delay, watch, receivers, misses, losses>>

\* What the task does when it is polled; calls return and delays elapse.
TaskStep ==
    \/ FirstValue \/ Relookup \/ BackedOff \/ PublishItem \/ ReceiversGone
    \/ \E reject \in BOOLEAN : CallFails(reject)

WatchNext ==
    \/ FirstValue \/ Relookup \/ BackedOff \/ PublishItem \/ ReceiversGone \/ CancelLookup \/ DropReceivers \/ NewVersion
    \/ \E reject \in BOOLEAN : CallFails(reject) \/ WatchFails(reject)

WatchSpec == WatchInit /\ [][WatchNext]_watchVars

-----------------------------------------------------------------------------
(* Properties *)

\* While the stream is up, receivers have the control plane's newest value or
\* it is the last item on its way to them, across any number of lookups.
NewestOnItsWay ==
    phase = "stream" =>
        newest = IF items = <<>> THEN watch ELSE items[Len(items)]

\* A property of steps: receivers never see the control plane go back to an older value.
OnlyForwards == watch' >= watch

\* Only a successful lookup resets the backoff: the n-th failed one in a row
\* waits for the n-th delay of one backoff stream.
DelaysGrow ==
    phase = "backoff" /\ misses <= MaxDelays => delay = misses

\* Receivers have the newest value or it is on its way, they never see an older one
\* again, and delays grow until a lookup succeeds.
WatchFaithful == [](NewestOnItsWay /\ DelaysGrow) /\ [][OnlyForwards]_watchVars

\* A watch that is still wanted ends up with the control plane's value, unless
\* the control plane rejected it.
WatchConverges == <>[](phase = "done" \/ ~receivers \/ watch = newest)

\* The background task "completes when the watch service errors in an
\* unrecoverable way or all receivers are dropped".
TaskCompletes ==
    (mode = "spawn_with_init" \/ publishing) /\ ~receivers ~> phase = "done"
=============================================================================
