------------------------------ MODULE P2cPool ------------------------------
(***************************************************************************)
(* linkerd/pool/p2c: a pool of endpoints fed by discovery updates that     *)
(* dispatches each request to the less loaded of two ready endpoints.      *)
(*                                                                         *)
(* One task owns the pool, so operations do not overlap; `pc` is the       *)
(* program point inside poll_pool or poll_ready.  tower's ReadyCache is    *)
(* external and is modelled from its use: `pending` and the index-ordered  *)
(* `ready`, which keep at most one service per address each.  A service is *)
(* named by its address and the target it was built for.  Whether an       *)
(* endpoint answers Ready, Pending or an error when polled is free.        *)
(***************************************************************************)
EXTENDS Naturals, Sequences, FiniteSets, Functions, TLC

CONSTANTS Addrs, Targets, Loads, NoTarget

ASSUME TargetAssumption == NoTarget \notin Targets
ASSUME LoadAssumption == Loads \subseteq Nat
ASSUME AddrAssumption == IsFiniteSet(Addrs)

VARIABLES endpoints,  \* the target known for each address
          pending,    \* ReadyCache: services that are not ready yet
          ready,      \* ReadyCache: services that were ready, by index
          nextIdx,    \* the index poll_ready selected; 0 for None
          idx,        \* the index being checked
          gauge,      \* the endpoints gauge
          load,       \* the current load of each address
          pc

vars == <<endpoints, pending, ready, nextIdx, idx, gauge, load, pc>>

Maybe == Targets \cup {NoTarget}

TypeOK ==
    /\ endpoints \in [Addrs -> Maybe]
    /\ pending \in [Addrs -> Maybe]
    /\ ready \in Seq([addr : Addrs, target : Targets])
    /\ nextIdx \in Nat
    /\ idx \in Nat
    /\ gauge \in Nat
    /\ load \in [Addrs -> Loads]
    /\ pc \in {"idle", "drive", "pending", "select", "check", "ready", "failed", "dropped"}

None == [a \in Addrs |-> NoTarget]

Init ==
    /\ endpoints = None /\ pending = None
    /\ ready = <<>>
    /\ nextIdx = 0 /\ idx = 0 /\ gauge = 0
    /\ load \in [Addrs -> Loads]
    /\ pc = "idle"

Known(eps) == {a \in Addrs : eps[a] # NoTarget}
ReadyAddrs == {ready[i].addr : i \in DOMAIN ready}

\* IndexMap::swap_remove_index: the last entry takes the place of the removed.
SwapRemove(s, i) ==
    [j \in 1..(Len(s) - 1) |-> IF j = i THEN s[Len(s)] ELSE s[j]]

\* ReadyCache::evict: the pending service is cancelled, the ready one removed.
Evict(a) ==
    /\ pending' = [pending EXCEPT ![a] = NoTarget]
    /\ ready' = IF a \in ReadyAddrs
                  THEN SwapRemove(ready, CHOOSE i \in DOMAIN ready : ready[i].addr = a)
                  ELSE ready

\* Every order in which the entries of s outside the set gone may be left
\* behind by evicting gone in the arbitrary order of a hash map; entries move
\* only if one is evicted.
Survivors(s, gone) ==
    LET kept == {i \in DOMAIN s : s[i].addr \notin gone}
        n == Cardinality(kept)
    IN  IF kept = DOMAIN s THEN {s}
        ELSE {[k \in 1..n |-> s[f[k]]] : f \in Bijection(1..n, kept)}

\* reset_pool: unchanged endpoints keep their service, new and changed ones are
\* pushed, the rest is evicted; the selection is dropped if anything changed.
\* An address of `again` is listed twice in the update, and always pushed anew.
ResetPool(update, again) ==
    /\ pc = "idle"
    /\ endpoints' = update
    /\ pending' = [a \in Addrs |-> IF update[a] = endpoints[a] /\ a \notin again
                                   THEN pending[a] ELSE update[a]]
    /\ ready' \in Survivors(ready, Known(endpoints) \ Known(update))
    /\ IF update # endpoints \/ again # {}
         THEN gauge' = Cardinality(Known(update)) /\ nextIdx' = 0
         ELSE UNCHANGED <<gauge, nextIdx>>
    /\ UNCHANGED <<idx, load, pc>>

\* add_endpoint: a new or changed target is pushed; a service of the old target
\* stays ready until the new one replaces it.
AddEndpoint(a, t) ==
    /\ pc = "idle"
    /\ endpoints[a] # t
    /\ endpoints' = [endpoints EXCEPT ![a] = t]
    /\ pending' = [pending EXCEPT ![a] = t]
    /\ gauge' = IF endpoints[a] = NoTarget THEN gauge + 1 ELSE gauge
    /\ UNCHANGED <<ready, nextIdx, idx, load, pc>>

\* Mutant: the selection is dropped only when it is out of bounds.
RemoveEndpointInBounds(a) ==
    /\ pc = "idle"
    /\ endpoints[a] # NoTarget
    /\ endpoints' = [endpoints EXCEPT ![a] = NoTarget]
    /\ Evict(a)
    /\ gauge' = gauge - 1
    /\ nextIdx' = IF nextIdx > Len(ready') THEN 0 ELSE nextIdx
    /\ UNCHANGED <<idx, load, pc>>

RemoveEndpoint(a) ==
    /\ pc = "idle"
    /\ endpoints[a] # NoTarget
    /\ endpoints' = [endpoints EXCEPT ![a] = NoTarget]
    /\ Evict(a)
    /\ gauge' = gauge - 1
    /\ nextIdx' = 0
    /\ UNCHANGED <<idx, load, pc>>

\* poll_pool and poll_ready begin with ReadyCache::poll_pending.
Poll(mode) ==
    /\ pc = "idle"
    /\ pc' = mode
    /\ UNCHANGED <<endpoints, pending, ready, nextIdx, idx, gauge, load>>

\* poll_pending: a pending service is ready; it takes the index of an older
\* service of the same address, or the last one.
Promote(a) ==
    /\ pc \in {"drive", "pending"}
    /\ pending[a] # NoTarget
    /\ LET svc == [addr |-> a, target |-> pending[a]]
       IN  ready' = IF a \in ReadyAddrs
                      THEN [i \in DOMAIN ready |-> IF ready[i].addr = a THEN svc ELSE ready[i]]
                      ELSE Append(ready, svc)
    /\ pending' = [pending EXCEPT ![a] = NoTarget]
    /\ UNCHANGED <<endpoints, nextIdx, idx, gauge, load, pc>>

\* poll_pending: a pending service fails, and the pool with it.
PendingFails(a) ==
    /\ pc \in {"drive", "pending"}
    /\ pending[a] # NoTarget
    /\ pending' = [pending EXCEPT ![a] = NoTarget]
    /\ pc' = "failed"
    /\ UNCHANGED <<endpoints, ready, nextIdx, idx, gauge, load>>

\* poll_pending returns; poll_pool is done and poll_ready goes on.
PendingDone ==
    /\ pc \in {"drive", "pending"}
    /\ pc' = IF pc = "drive" THEN "idle" ELSE "select"
    /\ UNCHANGED <<endpoints, pending, ready, nextIdx, idx, gauge, load>>

\* Mutant: the second draw may equal the first.
GenPairSame(len, a, b) == IF b > a THEN <<a, b + 1>> ELSE <<a, b>>

\* gen_pair: two draws become two distinct indices below len.
GenPair(len, a, b) == IF b >= a THEN <<a, b + 1>> ELSE <<a, b>>

\* p2c_ready_index (counting from zero): the index chosen for two draws.
P2cIndex(loads, a, b) ==
    LET pair == GenPair(Len(loads), a, b)
    IN  IF loads[pair[1] + 1] <= loads[pair[2] + 1] THEN pair[1] ELSE pair[2]

ReadyLoads == [i \in DOMAIN ready |-> load[ready[i].addr]]

\* poll_ready takes the earlier selection, or chooses one, or gives up.
Select ==
    /\ pc = "select"
    /\ nextIdx' = 0
    /\ \/ /\ nextIdx # 0
          /\ idx' = nextIdx /\ pc' = "check"
       \/ /\ nextIdx = 0 /\ Len(ready) = 0
          /\ idx' = idx /\ pc' = "idle"
       \/ /\ nextIdx = 0 /\ Len(ready) = 1
          /\ idx' = 1 /\ pc' = "check"
       \/ /\ nextIdx = 0 /\ Len(ready) > 1
          /\ \E a \in 0..(Len(ready) - 1), b \in 0..(Len(ready) - 2) :
                idx' = P2cIndex(ReadyLoads, a, b) + 1
          /\ pc' = "check"
    /\ UNCHANGED <<endpoints, pending, ready, gauge, load>>

\* check_ready_index: the service is still ready.
CheckReady ==
    /\ pc = "check"
    /\ idx \in DOMAIN ready
    /\ nextIdx' = idx
    /\ pc' = "ready"
    /\ UNCHANGED <<endpoints, pending, ready, idx, gauge, load>>

\* Mutant: a used service overwrites its pending replacement.
RequeueOverwrites(i) ==
    LET svc == ready[i] IN
    /\ ready' = SwapRemove(ready, i)
    /\ pending' = [pending EXCEPT ![svc.addr] = svc.target]

\* A service leaves the ready set at index i and becomes pending again, unless a
\* newer service of its address is pending already.
Requeue(i) ==
    LET svc == ready[i] IN
    /\ ready' = SwapRemove(ready, i)
    /\ pending' = [pending EXCEPT ![svc.addr] = IF @ = NoTarget THEN svc.target ELSE @]

\* check_ready_index: the service is no longer ready; poll_ready starts over.
CheckPending ==
    /\ pc = "check"
    /\ idx \in DOMAIN ready
    /\ Requeue(idx)
    /\ pc' = "pending"
    /\ UNCHANGED <<endpoints, nextIdx, idx, gauge, load>>

\* check_ready_index: the service failed, and the pool with it.
CheckFails ==
    /\ pc = "check"
    /\ idx \in DOMAIN ready
    /\ ready' = SwapRemove(ready, idx)
    /\ pc' = "failed"
    /\ UNCHANGED <<endpoints, pending, nextIdx, idx, gauge, load>>

\* call, which the queue's worker makes in the same poll that became ready.
Call ==
    /\ pc = "ready"
    /\ nextIdx \in DOMAIN ready
    /\ Requeue(nextIdx)
    /\ nextIdx' = 0
    /\ \E l \in Loads : load' = [load EXCEPT ![ready[nextIdx].addr] = l]
    /\ pc' = "idle"
    /\ UNCHANGED <<endpoints, idx, gauge>>

\* The worker was only waiting to leave failfast: the selection is kept.
KeepReady ==
    /\ pc = "ready"
    /\ pc' = "idle"
    /\ UNCHANGED <<endpoints, pending, ready, nextIdx, idx, gauge, load>>

\* Drop for P2cPool, when the worker ends.
Drop ==
    /\ pc \in {"idle", "failed"}
    /\ gauge' = 0
    /\ pc' = "dropped"
    /\ UNCHANGED <<endpoints, pending, ready, nextIdx, idx, load>>

Next ==
    \/ \E update \in [Addrs -> Maybe] :
          \E again \in SUBSET Known(update) : ResetPool(update, again)
    \/ \E a \in Addrs : RemoveEndpoint(a) \/ Promote(a) \/ PendingFails(a)
    \/ \E a \in Addrs, t \in Targets : AddEndpoint(a, t)
    \/ Poll("drive") \/ Poll("pending") \/ PendingDone
    \/ Select \/ CheckReady \/ CheckPending \/ CheckFails
    \/ Call \/ KeepReady \/ Drop

Spec == Init /\ [][Next]_vars
----------------------------------------------------------------------------
(* Properties *)

Running == pc \notin {"failed", "dropped"}

\* An index that poll_ready remembers or checks is an index of the ready set,
\* however endpoints were added, replaced, evicted and swapped in between: the
\* expect()s of call and call_ready_index cannot panic.
IndexValid ==
    /\ nextIdx # 0 => nextIdx \in DOMAIN ready
    /\ pc = "check" => idx \in DOMAIN ready
    /\ pc = "ready" => nextIdx # 0

\* The ready cache and the endpoint map agree: no endpoint is lost by a
\* replacement, a failed check or a call, and no removed endpoint lingers.
EndpointsTracked == Running => ReadyAddrs \cup Known(pending) = Known(endpoints)

\* The newest service the cache holds for an address is built for the address's
\* current target.
NewestService ==
    Running => \A a \in Known(endpoints) :
        IF pending[a] # NoTarget
          THEN pending[a] = endpoints[a]
          ELSE \E i \in DOMAIN ready : ready[i] = [addr |-> a, target |-> endpoints[a]]

\* The ready set holds at most one service per address.
ReadyUnique ==
    \A i, j \in DOMAIN ready : ready[i].addr = ready[j].addr => i = j

\* The gauge is "the number of endpoints currently in the balancer".
GaugeExact == pc # "dropped" => gauge = Cardinality(Known(endpoints))

\* The pool's endpoints, services and gauge are what discovery last said.
EndpointsExact == EndpointsTracked /\ NewestService /\ GaugeExact

\* While poll_ready's selection is remembered it keeps denoting the same
\* address, although new endpoints join the ready set and replace older ones.
SelectionStable ==
    [][nextIdx # 0 /\ nextIdx' = nextIdx
         => nextIdx \in DOMAIN ready' /\ ready'[nextIdx].addr = ready[nextIdx].addr]_vars

\* Of two or more ready endpoints the one with strictly the highest load is
\* never selected.
NeverMostLoaded ==
    [][Select /\ nextIdx = 0 /\ Len(ready) > 1
         => \E j \in DOMAIN ready \ {idx'} :
               load[ready[idx'].addr] <= load[ready[j].addr]]_vars

\* Addresses, and targets, are interchangeable: no action tells them apart.
Symmetry == Permutations(Addrs) \cup Permutations(Targets)
============================================================================
