----------------------------- MODULE IdleCache -----------------------------
(***************************************************************************)
(* linkerd/idle-cache: a map whose entries are evicted by one background   *)
(* task per entry once no `Cached` handle has been held for an idle        *)
(* timeout.                                                                *)
(*                                                                         *)
(* A generation g stands for one `Arc<Notify>` made by spawn_idle, for the *)
(* value inserted with it and for the eviction task that owns a clone of   *)
(* it.  The map's write lock is held across steps only by an eviction      *)
(* task; every other critical section is one step that needs the lock      *)
(* free.  Elapsed time is nondeterministic: an idle timer may fire at any  *)
(* moment at which the biased select! does not prefer a notification.      *)
(***************************************************************************)
CONSTANTS Keys,      \* cache keys
          Clients,   \* slots that may own one Cached handle each
          Gens,      \* generations available; their number bounds insertions
          Vacant, Permanent, NoLock, NoKey, NoHandle

ASSUME DistinctMarks ==
         /\ Vacant \notin Gens /\ Permanent \notin Gens /\ Vacant # Permanent
         /\ NoLock \notin Gens /\ NoHandle \notin Gens /\ NoHandle # Permanent
         /\ NoKey \notin Keys

VARIABLES cache,    \* entry of each key: Vacant, Permanent or a generation
          lock,     \* the eviction task holding the write lock, or NoLock
          alive,    \* some IdleCache clone still owns the map
          keyOf,    \* the key an eviction task was spawned for
          task,     \* program point of the eviction task of a generation
          permit,   \* the permit stored in the generation's Notify
          pc,       \* program point of a client
          want,     \* the key a client in get_or_insert_with asked for
          held      \* the handle a client's Cached holds

vars == <<cache, lock, alive, keyOf, task, permit, pc, want, held>>

TaskPoints == {"none", "start", "idle", "locking", "locked", "unwrapped", "done"}

\* The task still owns its clone of the Arc<Notify>.
Running == {"start", "idle", "locking", "locked"}

TypeOK ==
    /\ cache \in [Keys -> Gens \cup {Vacant, Permanent}]
    /\ lock \in Gens \cup {NoLock}
    /\ alive \in BOOLEAN
    /\ keyOf \in [Gens -> Keys \cup {NoKey}]
    /\ task \in [Gens -> TaskPoints]
    /\ permit \in [Gens -> BOOLEAN]
    /\ pc \in [Clients -> {"idle", "missed", "held", "dropping"}]
    /\ want \in [Clients -> Keys \cup {NoKey}]
    /\ held \in [Clients -> Gens \cup {Permanent, NoHandle}]

\* with_permanent_from_iter or with_hasher: any set of keys starts permanent.
Init ==
    /\ cache \in [Keys -> {Vacant, Permanent}]
    /\ lock = NoLock
    /\ alive = TRUE
    /\ keyOf = [g \in Gens |-> NoKey]
    /\ task = [g \in Gens |-> "none"]
    /\ permit = [g \in Gens |-> FALSE]
    /\ pc = [c \in Clients |-> "idle"]
    /\ want = [c \in Clients |-> NoKey]
    /\ held = [c \in Clients |-> NoHandle]

HeldByClient(g) == \E c \in Clients : held[c] = g

\* Arc::strong_count of the generation's Notify is not zero.
StrongRef(g) == HeldByClient(g) \/ task[g] \in Running

\* CacheEntry::cached: the client now shares the entry's handle.
TakeHandle(c, k) ==
    /\ held' = [held EXCEPT ![c] = cache[k]]
    /\ pc' = [pc EXCEPT ![c] = "held"]
    /\ want' = [want EXCEPT ![c] = NoKey]

\* get under the read lock finds an entry.
GetHit(c, k) ==
    /\ alive /\ lock = NoLock
    /\ pc[c] = "idle"
    /\ cache[k] # Vacant
    /\ TakeHandle(c, k)
    /\ UNCHANGED <<cache, lock, alive, keyOf, task, permit>>

\* get_or_insert_with misses under the read lock and releases it.
GetMiss(c, k) ==
    /\ alive /\ lock = NoLock
    /\ pc[c] = "idle"
    /\ cache[k] = Vacant
    /\ pc' = [pc EXCEPT ![c] = "missed"]
    /\ want' = [want EXCEPT ![c] = k]
    /\ UNCHANGED <<cache, lock, alive, keyOf, task, permit, held>>

\* Mutant: the write-locked half does not look the key up again.
InsertBlindly(c, g) ==
    /\ lock = NoLock
    /\ pc[c] = "missed"
    /\ task[g] = "none"
    /\ cache' = [cache EXCEPT ![want[c]] = g]
    /\ keyOf' = [keyOf EXCEPT ![g] = want[c]]
    /\ task' = [task EXCEPT ![g] = "start"]
    /\ held' = [held EXCEPT ![c] = g]
    /\ pc' = [pc EXCEPT ![c] = "held"]
    /\ want' = [want EXCEPT ![c] = NoKey]
    /\ UNCHANGED <<lock, alive, permit>>

\* The write-locked half of get_or_insert_with when the key is still vacant:
\* spawn_idle makes the generation and its task.
InsertVacant(c, g) ==
    /\ lock = NoLock
    /\ pc[c] = "missed"
    /\ cache[want[c]] = Vacant
    /\ task[g] = "none"
    /\ cache' = [cache EXCEPT ![want[c]] = g]
    /\ keyOf' = [keyOf EXCEPT ![g] = want[c]]
    /\ task' = [task EXCEPT ![g] = "start"]
    /\ held' = [held EXCEPT ![c] = g]
    /\ pc' = [pc EXCEPT ![c] = "held"]
    /\ want' = [want EXCEPT ![c] = NoKey]
    /\ UNCHANGED <<lock, alive, permit>>

\* The write-locked half when another thread inserted the key meanwhile.
InsertRaced(c) ==
    /\ lock = NoLock
    /\ pc[c] = "missed"
    /\ cache[want[c]] # Vacant
    /\ TakeHandle(c, want[c])
    /\ UNCHANGED <<cache, lock, alive, keyOf, task, permit>>

InsertPermanent(k) ==
    /\ alive /\ lock = NoLock
    /\ cache' = [cache EXCEPT ![k] = Permanent]
    /\ UNCHANGED <<lock, alive, keyOf, task, permit, pc, want, held>>

\* Cached::clone and clone_with copy the handle without the lock.
CloneHandle(c, d) ==
    /\ pc[c] = "held" /\ pc[d] = "idle"
    /\ held' = [held EXCEPT ![d] = held[c]]
    /\ pc' = [pc EXCEPT ![d] = "held"]
    /\ UNCHANGED <<cache, lock, alive, keyOf, task, permit, want>>

\* Mutant: a dropped handle does not wake the eviction task.
DropSilently(c) ==
    /\ pc[c] = "held"
    /\ pc' = [pc EXCEPT ![c] = "dropping"]
    /\ UNCHANGED <<cache, lock, alive, keyOf, task, permit, want, held>>

\* Drop for Cached, first half: notify_one while the Arc is still counted.
DropNotify(c) ==
    /\ pc[c] = "held"
    /\ IF held[c] \in Gens
         THEN /\ permit' = [permit EXCEPT ![held[c]] = TRUE]
              /\ pc' = [pc EXCEPT ![c] = "dropping"]
              /\ held' = held
         ELSE /\ permit' = permit
              /\ pc' = [pc EXCEPT ![c] = "idle"]
              /\ held' = [held EXCEPT ![c] = NoHandle]
    /\ UNCHANGED <<cache, lock, alive, keyOf, task, want>>

\* Drop for Cached, second half: the Arc itself is released.
DropRelease(c) ==
    /\ pc[c] = "dropping"
    /\ pc' = [pc EXCEPT ![c] = "idle"]
    /\ held' = [held EXCEPT ![c] = NoHandle]
    /\ UNCHANGED <<cache, lock, alive, keyOf, task, permit, want>>

\* The last IdleCache clone goes away; no call can be borrowing it.
DropCache ==
    /\ alive
    /\ \A c \in Clients : pc[c] # "missed"
    /\ alive' = FALSE
    /\ UNCHANGED <<cache, lock, keyOf, task, permit, pc, want, held>>

\* evict: reset.notified(), before the loop and in the select!'s first arm.
Notified(g) ==
    /\ task[g] \in {"start", "idle"}
    /\ permit[g]
    /\ permit' = [permit EXCEPT ![g] = FALSE]
    /\ task' = [task EXCEPT ![g] = "idle"]
    /\ UNCHANGED <<cache, lock, alive, keyOf, pc, want, held>>

\* evict: the idle timer wins the select!; the weak map is upgraded or gone.
Expire(g) ==
    /\ task[g] = "idle"
    /\ ~permit[g]
    /\ task' = [task EXCEPT ![g] = IF alive THEN "locking" ELSE "done"]
    /\ UNCHANGED <<cache, lock, alive, keyOf, permit, pc, want, held>>

\* evict: cache.write().
Lock(g) ==
    /\ task[g] = "locking"
    /\ lock = NoLock
    /\ lock' = g
    /\ task' = [task EXCEPT ![g] = "locked"]
    /\ UNCHANGED <<cache, alive, keyOf, permit, pc, want, held>>

\* evict: Arc::try_unwrap fails, another handle exists; wait once more.
StillHeld(g) ==
    /\ task[g] = "locked"
    /\ HeldByClient(g)
    /\ lock' = NoLock
    /\ task' = [task EXCEPT ![g] = "idle"]
    /\ UNCHANGED <<cache, alive, keyOf, permit, pc, want, held>>

\* Mutant: the handle is consumed before the map is locked.
UnwrapUnlocked(g) ==
    /\ task[g] \in {"locking", "locked"}
    /\ ~HeldByClient(g)
    /\ task' = [task EXCEPT ![g] = "unwrapped"]
    /\ UNCHANGED <<cache, lock, alive, keyOf, permit, pc, want, held>>

\* Mutant: the handle's reference count is not looked at.
UnwrapAnyway(g) ==
    /\ task[g] = "locked"
    /\ task' = [task EXCEPT ![g] = "unwrapped"]
    /\ UNCHANGED <<cache, lock, alive, keyOf, permit, pc, want, held>>

\* evict: Arc::try_unwrap consumes the last handle.
Unwrap(g) ==
    /\ task[g] = "locked"
    /\ ~HeldByClient(g)
    /\ task' = [task EXCEPT ![g] = "unwrapped"]
    /\ UNCHANGED <<cache, lock, alive, keyOf, permit, pc, want, held>>

\* evict: the entry is removed unless a permanent value replaced it.
Remove(g) ==
    /\ task[g] = "unwrapped"
    /\ cache' = [cache EXCEPT ![keyOf[g]] =
                   IF cache[keyOf[g]] = Permanent THEN Permanent ELSE Vacant]
    /\ lock' = NoLock
    /\ task' = [task EXCEPT ![g] = "done"]
    /\ UNCHANGED <<alive, keyOf, permit, pc, want, held>>

ClientStep(c) ==
    \/ \E k \in Keys : GetHit(c, k) \/ GetMiss(c, k)
    \/ \E g \in Gens : InsertVacant(c, g)
    \/ InsertRaced(c)
    \/ \E d \in Clients : CloneHandle(c, d)
    \/ DropNotify(c)
    \/ DropRelease(c)

Evict(g) == Notified(g) \/ Expire(g) \/ StillHeld(g) \/ Unwrap(g) \/ Remove(g)

Next ==
    \/ \E c \in Clients : ClientStep(c)
    \/ \E k \in Keys : InsertPermanent(k)
    \/ DropCache
    \/ \E g \in Gens : Evict(g) \/ Lock(g)

Spec == Init /\ [][Next]_vars

\* tokio runs every woken task and fires every timer; the parking_lot lock
\* does not starve a waiting writer; a drop that began completes.
Fairness ==
    /\ \A g \in Gens : WF_vars(Evict(g)) /\ SF_vars(Lock(g))
    /\ \A c \in Clients : WF_vars(DropRelease(c))

FairSpec == Spec /\ Fairness
----------------------------------------------------------------------------
\* Every entry that a reader can reach still has a live handle to upgrade:
\* the expect() in CacheEntry::cached never panics.
UpgradeSucceeds ==
    \A k \in Keys : alive /\ lock = NoLock /\ cache[k] \in Gens => StrongRef(cache[k])

\* The debug_assert! in evict: a task that consumed its handle still finds its
\* own entry, or a permanent one, under its key.
EntryExists ==
    \A g \in Gens : task[g] = "unwrapped" => cache[keyOf[g]] \in {g, Permanent}

\* No lookup and no eviction panics: handles upgrade and entries are found.
NoPanic == UpgradeSucceeds /\ EntryExists

\* "There should be at most one task per key" (evict).
OneTaskPerKey ==
    \A g, h \in Gens :
        /\ task[g] \in Running \cup {"unwrapped"}
        /\ task[h] \in Running \cup {"unwrapped"}
        /\ keyOf[g] = keyOf[h]
        => g = h

\* All clients that hold an evictable handle for one key share one value, even
\* when several of them missed the read-locked lookup at once.
HoldersShareValue ==
    \A c, d \in Clients :
        /\ held[c] \in Gens /\ held[d] \in Gens
        /\ keyOf[held[c]] = keyOf[held[d]]
        => held[c] = held[d]

\* A key has one task and one value at a time, whoever races to insert it.
OneValue == OneTaskPerKey /\ HoldersShareValue

\* A value is never evicted while some Cached handle to it is held.
NoEvictionWhileHeld ==
    [][\A k \in Keys : cache[k] \in Gens /\ cache'[k] = Vacant
                          => ~HeldByClient(cache[k])]_vars

\* insert_permanent: "a value in the cache that will never be evicted".
PermanentStays ==
    [][\A k \in Keys : cache[k] = Permanent => cache'[k] = Permanent]_vars

\* Eviction takes only entries that are idle and not permanent.
EvictsOnlyIdle == NoEvictionWhileHeld /\ PermanentStays

\* An entry whose handles are gone for good is evicted, and its task ends.
EvictsWhenIdle ==
    \A g \in Gens : <>[](~HeldByClient(g)) => <>[](task[g] \in {"none", "done"})
============================================================================
