--------------------------- MODULE Lifetimes_proofs ---------------------------
(***************************************************************************)
(* The safety properties of what has a lifetime: the services of an idle   *)
(* cache (IdleCache), proved for any sets of keys, clients and             *)
(* generations, and the process (Lifecycle), proved for any number of DMA  *)
(* workers and connections and any grace period.                           *)
(***************************************************************************)
EXTENDS IdleCache, Lifecycle, TLAPS

-----------------------------------------------------------------------------
(* The idle cache (IdleCache)                                              *)

Live == Running \cup {"unwrapped"}

\* An eviction task holds the write lock exactly between Lock and Remove.
LockInv == \A g \in Gens : task[g] \in {"locked", "unwrapped"} <=> lock = g

\* A live task finds its own generation, or a permanent value, under its key.
TaskInv ==
    \A g \in Gens : task[g] \in Live => /\ keyOf[g] \in Keys
                                        /\ cache[keyOf[g]] \in {g, Permanent}

\* As long as the map exists, the task of every evictable entry is live.
EntryInv ==
    \A k \in Keys : cache[k] \in Gens => /\ keyOf[cache[k]] = k
                                         /\ task[cache[k]] # "none"
                                         /\ alive => task[cache[k]] \in Live

\* A handle owned by a client was not consumed by its task.
HandleInv ==
    \A c \in Clients : held[c] \in Gens =>
        /\ task[held[c]] \notin {"none", "unwrapped"}
        /\ alive => task[held[c]] \in Running

\* A client between the two halves of get_or_insert_with borrows the cache.
ClientInv == \A c \in Clients : pc[c] = "missed" => alive /\ want[c] \in Keys

CacheInv ==
    /\ TypeOK
    /\ LockInv
    /\ TaskInv
    /\ EntryInv
    /\ HandleInv
    /\ ClientInv
    /\ OneTaskPerKey
    /\ HoldersShareValue

USE DistinctMarks

\* The constructors establish the inductive invariant.
LEMMA CacheInvInit == Init => CacheInv
BY DEF Init, CacheInv, TypeOK, LockInv, TaskInv, EntryInv, HandleInv, ClientInv,
       OneTaskPerKey, HoldersShareValue, TaskPoints, Live, Running

\* No step of a client, of the owner or of an eviction task breaks it.
LEMMA CacheInvNext == CacheInv /\ [Next]_vars => CacheInv'
<1> SUFFICES ASSUME CacheInv, [Next]_vars PROVE CacheInv'
  OBVIOUS
<1> USE DEF CacheInv, TypeOK, LockInv, TaskInv, EntryInv, HandleInv, ClientInv,
            OneTaskPerKey, HoldersShareValue, TaskPoints, Live, Running
<1>1. ASSUME NEW c \in Clients, NEW k \in Keys, GetHit(c, k) PROVE CacheInv'
  BY <1>1 DEF GetHit, TakeHandle
<1>2. ASSUME NEW c \in Clients, NEW k \in Keys, GetMiss(c, k) PROVE CacheInv'
  BY <1>2 DEF GetMiss
<1>3. ASSUME NEW c \in Clients, NEW g \in Gens, InsertVacant(c, g) PROVE CacheInv'
  BY <1>3 DEF InsertVacant
<1>4. ASSUME NEW c \in Clients, InsertRaced(c) PROVE CacheInv'
  BY <1>4 DEF InsertRaced, TakeHandle
<1>5. ASSUME NEW c \in Clients, NEW d \in Clients, CloneHandle(c, d) PROVE CacheInv'
  BY <1>5 DEF CloneHandle
<1>6. ASSUME NEW c \in Clients, DropNotify(c) PROVE CacheInv'
  <2>1. CASE held[c] \in Gens
    <3>1. /\ permit' = [permit EXCEPT ![held[c]] = TRUE]
          /\ pc' = [pc EXCEPT ![c] = "dropping"]
          /\ UNCHANGED <<cache, lock, alive, keyOf, task, want, held>>
      BY <1>6, <2>1 DEF DropNotify
    <3>2. permit' \in [Gens -> BOOLEAN]
      BY <3>1, <2>1
    <3>3. pc' \in [Clients -> {"idle", "missed", "held", "dropping"}]
      BY <3>1
    <3> QED
      BY <3>1, <3>2, <3>3
  <2>2. CASE held[c] \notin Gens
    BY <1>6, <2>2 DEF DropNotify
  <2> QED
    BY <2>1, <2>2
<1>7. ASSUME NEW c \in Clients, DropRelease(c) PROVE CacheInv'
  BY <1>7 DEF DropRelease
<1>8. ASSUME NEW k \in Keys, InsertPermanent(k) PROVE CacheInv'
  BY <1>8 DEF InsertPermanent
<1>9. CASE DropCache
  <2>1. alive' = FALSE /\ UNCHANGED <<cache, lock, keyOf, task, permit, pc, want, held>>
    BY <1>9 DEF DropCache
  <2>2. \A c \in Clients : pc[c] # "missed"
    BY <1>9 DEF DropCache
  <2>3. TypeOK'
    BY <2>1, Zenon
  <2>4. LockInv' /\ TaskInv' /\ OneTaskPerKey' /\ HoldersShareValue'
    BY <2>1
  <2>5. EntryInv'
    <3> SUFFICES ASSUME NEW k \in Keys, cache[k] \in Gens
                 PROVE  keyOf[cache[k]] = k /\ task[cache[k]] # "none"
      BY <2>1
    <3> QED
      OBVIOUS
  <2>7. HandleInv'
    <3> SUFFICES ASSUME NEW c \in Clients, held[c] \in Gens
                 PROVE  task[held[c]] \notin {"none", "unwrapped"}
      BY <2>1
    <3> QED
      OBVIOUS
  <2>6. ClientInv'
    BY <2>1, <2>2
  <2> QED
    BY <2>3, <2>4, <2>5, <2>6, <2>7
<1>10. ASSUME NEW g \in Gens, Notified(g) PROVE CacheInv'
  BY <1>10 DEF Notified
<1>11. ASSUME NEW g \in Gens, Expire(g) PROVE CacheInv'
  BY <1>11 DEF Expire
<1>12. ASSUME NEW g \in Gens, Lock(g) PROVE CacheInv'
  BY <1>12 DEF Lock
<1>13. ASSUME NEW g \in Gens, StillHeld(g) PROVE CacheInv'
  BY <1>13 DEF StillHeld
<1>14. ASSUME NEW g \in Gens, Unwrap(g) PROVE CacheInv'
  BY <1>14 DEF Unwrap, HeldByClient
<1>15. ASSUME NEW g \in Gens, Remove(g) PROVE CacheInv'
  BY <1>15 DEF Remove
<1>16. CASE UNCHANGED vars
  BY <1>16 DEF vars
<1> QED
  BY <1>1, <1>2, <1>3, <1>4, <1>5, <1>6, <1>7, <1>8, <1>9, <1>10, <1>11,
     <1>12, <1>13, <1>14, <1>15, <1>16, Zenon DEF Next, ClientStep, Evict

\* The inductive invariant holds in every reachable state of the cache.
LEMMA CacheInvHolds == Spec => []CacheInv
BY CacheInvInit, CacheInvNext, PTL DEF Spec

\* The cache is type-correct.
THEOREM TypeCorrect == Spec => []TypeOK
<1>1. CacheInv => TypeOK
  BY DEF CacheInv
<1> QED
  BY <1>1, CacheInvHolds, PTL

\* The expect() of CacheEntry::cached and the debug_assert! of evict never fail:
\* any entry that a lookup can reach has a live handle, and a task that consumed
\* its handle finds its entry.
THEOREM PanicFree == Spec => []NoPanic
<1>1. CacheInv => UpgradeSucceeds
  BY DEF CacheInv, TypeOK, LockInv, EntryInv, UpgradeSucceeds, StrongRef, Live, Running
<1>2. CacheInv => EntryExists
  BY DEF CacheInv, TaskInv, EntryExists, Live
<1>3. CacheInv => NoPanic
  BY <1>1, <1>2 DEF NoPanic
<1> QED
  BY <1>3, CacheInvHolds, PTL

\* At most one eviction task runs per key, and the holders of a key's evictable
\* handles share one value.
THEOREM OneValuePerKey == Spec => []OneValue
<1>1. CacheInv => OneValue
  BY DEF CacheInv, OneValue
<1> QED
  BY <1>1, CacheInvHolds, PTL

\* Only Remove vacates an entry, and it runs only after try_unwrap proved that
\* no client holds the handle: nothing in use is evicted.
LEMMA HeldSafe == Spec => NoEvictionWhileHeld
<1> DEFINE Keeps == \A k \in Keys : cache[k] \in Gens /\ cache'[k] = Vacant
                                      => ~HeldByClient(cache[k])
<1>1. CacheInv /\ [Next]_vars => Keeps
  <2> SUFFICES ASSUME CacheInv, [Next]_vars, NEW k \in Keys,
                      cache[k] \in Gens, cache'[k] = Vacant
               PROVE  ~HeldByClient(cache[k])
    OBVIOUS
  <2>1. PICK g \in Gens : Remove(g)
    BY DistinctMarks
       DEF CacheInv, TypeOK, Next, vars, ClientStep, Evict, GetHit, GetMiss, InsertVacant,
           InsertRaced, InsertPermanent, CloneHandle, DropNotify, DropRelease,
           DropCache, Notified, Expire, Lock, StillHeld, Unwrap
  <2>2. task[g] = "unwrapped" /\ keyOf[g] = k /\ cache[k] = g
    BY <2>1, DistinctMarks DEF Remove, CacheInv, TypeOK, TaskInv, Live
  <2> QED
    BY <2>2 DEF CacheInv, HandleInv, HeldByClient
<1>2. [Next]_vars /\ CacheInv => [Keeps]_vars
  BY <1>1
<1> QED
  BY <1>2, CacheInvHolds, PTL DEF Spec, NoEvictionWhileHeld

\* No step takes a permanent entry out of the map.
LEMMA PermanentSafe == Spec => PermanentStays
<1> DEFINE Stays == \A k \in Keys : cache[k] = Permanent => cache'[k] = Permanent
<1>1. CacheInv /\ [Next]_vars => Stays
  BY DistinctMarks
     DEF CacheInv, TypeOK, ClientInv, Next, vars, ClientStep, Evict, GetHit, GetMiss,
         InsertVacant, InsertRaced, InsertPermanent, CloneHandle, DropNotify, DropRelease,
         DropCache, Notified, Expire, Lock, StillHeld, Unwrap, Remove
<1> QED
  BY <1>1, CacheInvHolds, PTL DEF Spec, PermanentStays

\* The eviction task only ever takes entries that no client holds and that are
\* not permanent.
THEOREM EvictionSafe == Spec => EvictsOnlyIdle
BY HeldSafe, PermanentSafe DEF EvictsOnlyIdle

-----------------------------------------------------------------------------
(* The process (Lifecycle)                                                 *)

\* The phases in which nothing runs yet but main.
Alone == {"devices", "config", "identity", "tap", "inbound", "outbound", "admin", "dmesh"}
Proxied == {"inbound", "outbound"}

TypeInv ==
    /\ phase \in Alone \cup {"spawn", "running", "draining", "exited"}
    /\ exit \subseteq {"usage", "failure", "panic", "drained", "forced"}
    /\ identity \in {"unspawned", "waiting", "certified", "panicked"}
    /\ starter \in {"unspawned", "waiting", "done", "panicked"}
    /\ latch \in BOOLEAN
    /\ conns \in [DOMAIN conns -> [of : Listeners \cup Dma, http : BOOLEAN, busy : BOOLEAN]]

\* The process goes through its phases in order, and its tasks are spawned in them.
PhaseInv ==
    /\ exit # {} <=> phase = "exited"
    /\ phase \in Alone => serving = {} /\ DOMAIN conns = {} /\ told = {}
    /\ phase \in Alone \cup {"spawn"} => starter = "unspawned" /\ drained = {}
    /\ phase \in {"running", "draining"} => starter # "unspawned"

\* The proxy's sockets are bound before it is spawned, and each is closed together
\* with its acceptor.
BoundInv ==
    /\ phase \in {"outbound", "admin", "dmesh", "spawn"} => "inbound" \in bound
    /\ phase \in {"admin", "dmesh", "spawn"} => "outbound" \in bound
    /\ starter \in {"waiting", "done"} /\ drained = {} => Proxied \subseteq bound
    /\ starter = "done" => bound \cap Proxied \subseteq serving
    /\ starter = "panicked" => bound \cap Proxied = {}

\* What the identity task has come to is known to all that acted on it.
IdentityInv ==
    /\ starter = "unspawned" => identity = "unspawned"
    /\ starter = "panicked" => identity = "panicked"
    /\ serving \cap Proxied # {} => identity = "certified"
    /\ ~latch => identity \in {"certified", "panicked"}

ProcessInv == TypeInv /\ PhaseInv /\ BoundInv /\ IdentityInv /\ ProcessSound

-----------------------------------------------------------------------------
(* The kinds of steps. *)

LEMMA StepOrder ==
    /\ After["devices"] = "config" /\ After["config"] = "identity" /\ After["identity"] = "tap"
    /\ After["tap"] = "inbound" /\ After["inbound"] = "outbound" /\ After["outbound"] = "admin"
    /\ After["admin"] = "dmesh" /\ After["dmesh"] = "spawn"
<1>1. DOMAIN Steps = 1 .. 9 /\ Len(Steps) = 9
  BY DEF Steps
<1>2. /\ Steps[1] = "devices" /\ Steps[2] = "config" /\ Steps[3] = "identity" /\ Steps[4] = "tap"
      /\ Steps[5] = "inbound" /\ Steps[6] = "outbound" /\ Steps[7] = "admin" /\ Steps[8] = "dmesh"
      /\ Steps[9] = "spawn"
  BY DEF Steps
<1>3. ASSUME NEW j \in 1 .. 8 PROVE After[Steps[j]] = Steps[j + 1]
  <2>1. \A i \in 1 .. 9 : Steps[i] = Steps[j] => i = j
    BY <1>2
  <2>2. (CHOOSE i \in DOMAIN Steps : Steps[i] = Steps[j]) = j
    BY <1>1, <2>1
  <2>3. j \in 1 .. Len(Steps) - 1 /\ Steps[j] \in {Steps[i] : i \in 1 .. Len(Steps) - 1}
    <3>1. j \in 1 .. Len(Steps) - 1
      BY <1>1
    <3> QED
      BY <3>1, Zenon
  <2>4. After[Steps[j]] = Steps[1 + CHOOSE i \in DOMAIN Steps : Steps[i] = Steps[j]]
    BY <2>3, Zenon DEF After
  <2> QED
    <3>1. 1 + j = j + 1
      OBVIOUS
    <3> QED
      BY <2>2, <2>4, <3>1, Zenon
<1> QED
  BY <1>2, <1>3

quietVars == <<phase, exit, bound, identity, latch, starter, serving, drained>>

\* A step of a connection: the process is alive, and only its connections change and
\* what the admin server says on them.
ConnStep(c, a) == \/ Accept(c, a) \/ Request(c) \/ Respond(c) \/ Hangup(c) \/ Graceful(c)
                  \/ AnswerReady(c) \/ AnswerShutdown(c)

LEMMA ConnSteps ==
    ASSUME NEW c, NEW a, ConnStep(c, a)
    PROVE  exit = {} /\ UNCHANGED quietVars
<1> USE DEF Alive, quietVars
<1>1. Accept(c, a) => exit = {} /\ UNCHANGED quietVars
  BY DEF Accept
<1>2. Request(c) \/ Respond(c) \/ Hangup(c) \/ Graceful(c) => exit = {} /\ UNCHANGED quietVars
  BY Zenon DEF Request, Respond, Hangup, Graceful
<1>3. AnswerReady(c) \/ AnswerShutdown(c) => exit = {} /\ UNCHANGED quietVars
  BY Zenon DEF AnswerReady, AnswerShutdown
<1> QED
  BY <1>1, <1>2, <1>3 DEF ConnStep

\* A step that fails to start the proxy.
StartFails ==
    /\ phase \in Alone /\ phase' = "exited"
    /\ exit' \in {{"usage"}, {"failure"}, {"panic"}}
    /\ UNCHANGED <<bound, identity, latch, starter, serving, conns, drained, told>>

\* A step that goes on with starting it.
StartGoesOn ==
    /\ exit' = exit
    /\ UNCHANGED <<identity, latch, starter, serving, conns, drained, told>>
    /\ \/ phase \in {"devices", "config", "identity", "tap"} /\ bound \subseteq bound'
          /\ phase' \in {"devices", "config", "identity", "tap", "inbound"}
       \/ phase = "inbound" /\ phase' = "outbound" /\ bound' = bound \cup {"inbound"}
       \/ phase = "outbound" /\ phase' = "admin" /\ bound' = bound \cup {"outbound"}
       \/ phase = "admin" /\ phase' = "dmesh" /\ bound' = bound \cup {"admin"}

LEMMA StartSteps ==
    ASSUME Probe \/ StartWorker \/ TryFromEnv \/ BuildIdentity \/ (\E l \in Listeners : Bind(l)) \/ SkipTap
    PROVE  StartFails \/ StartGoesOn
<1> USE StepOrder DEF Exit, Alone, StartFails, StartGoesOn
<1>1. CASE Probe
  BY <1>1 DEF Probe
<1>2. CASE StartWorker
  <2>1. phase = "devices" /\ (phase' = After[phase] \/ phase' = phase \/ phase' = "exited")
    BY <1>2 DEF StartWorker
  <2> QED
    BY <1>2, <2>1 DEF StartWorker
<1>3. CASE TryFromEnv
  BY <1>3 DEF TryFromEnv
<1>4. CASE BuildIdentity
  BY <1>4 DEF BuildIdentity
<1>5. ASSUME NEW l \in Listeners, Bind(l) PROVE StartFails \/ StartGoesOn
  <2>1. CASE phase' = "exited" /\ exit' = {BindFailure(l)} /\ bound' = bound
    BY <1>5, <2>1 DEF Bind, BindFailure, Listeners
  <2>2. CASE phase' = After[phase] /\ bound' = bound \cup {l} /\ exit' = exit
    BY <1>5, <2>2 DEF Bind, Listeners
  <2> QED
    BY <1>5, <2>1, <2>2 DEF Bind
<1>6. CASE SkipTap
  BY <1>6 DEF SkipTap
<1> QED
  BY <1>1, <1>2, <1>3, <1>4, <1>5, <1>6

\* Every step is one of these.
LEMMA StepKinds ==
    ASSUME [ProcessNext]_processVars
    PROVE  \/ StartFails \/ StartGoesOn \/ SpawnDmesh \/ Spawn
           \/ RunAdmin \/ IdentityDone \/ ReleaseLatch \/ StartProxy
           \/ \E c \in Connections, a \in Listeners \cup Dma : ConnStep(c, a)
           \/ Signal \/ Shutdown \/ (\E a \in Listeners \cup Dma : StopServing(a))
           \/ Drained \/ Elapse \/ GraceOver
           \/ UNCHANGED processVars
<1>1. "tap" \in Listeners \cup Dma
  BY DEF Listeners
<1> QED
  BY <1>1, StartSteps DEF ProcessNext, ConnStep

-----------------------------------------------------------------------------
(* The invariant. *)

\* The acceptor of a connection is known from its record, which no step changes.
LEMMA ConnsKept ==
    ASSUME TypeInv, NEW c \in Connections, NEW a \in Listeners \cup Dma, ConnStep(c, a)
    PROVE  /\ conns' \in [DOMAIN conns' -> [of : Listeners \cup Dma, http : BOOLEAN, busy : BOOLEAN]]
           /\ \A d \in DOMAIN conns' : \/ d \in DOMAIN conns /\ conns'[d].of = conns[d].of
                                       \/ conns'[d].of = a /\ a \in serving
<1>0. conns \in [DOMAIN conns -> [of : Listeners \cup Dma, http : BOOLEAN, busy : BOOLEAN]]
  BY DEF TypeInv
<1>1. CASE Accept(c, a)
  <2>1. AcceptedAs(a) \subseteq BOOLEAN
    BY Zenon DEF AcceptedAs
  <2>2. PICK http \in AcceptedAs(a) :
            conns' = [d \in DOMAIN conns \cup {c} |->
                            IF d = c THEN [of |-> a, http |-> http, busy |-> ~http] ELSE conns[d]]
    BY <1>1 DEF Accept
  <2>3. http \in BOOLEAN /\ a \in serving
    BY <1>1, <2>1 DEF Accept
  <2>4. DOMAIN conns' = DOMAIN conns \cup {c} /\ conns'[c] = [of |-> a, http |-> http, busy |-> ~http]
    BY <2>2
  <2>5. \A d \in DOMAIN conns : d # c => conns'[d] = conns[d]
    BY <2>2
  <2>6. [of |-> a, http |-> http, busy |-> ~http] \in [of : Listeners \cup Dma, http : BOOLEAN, busy : BOOLEAN]
    BY <2>3
  <2>7. \A d \in DOMAIN conns' : conns'[d] \in [of : Listeners \cup Dma, http : BOOLEAN, busy : BOOLEAN]
    BY <1>0, <2>4, <2>5, <2>6, Zenon
  <2>8. conns' \in [DOMAIN conns' -> [of : Listeners \cup Dma, http : BOOLEAN, busy : BOOLEAN]]
    BY <2>2, <2>4, <2>7
  <2> QED
    BY <2>3, <2>4, <2>5, <2>8
<1>2. CASE \E b \in BOOLEAN : Busy(c, b) /\ c \in DOMAIN conns
  <2>1. PICK b \in BOOLEAN : conns' = [conns EXCEPT ![c].busy = b] /\ c \in DOMAIN conns
    BY <1>2, Zenon DEF Busy
  <2> QED
    BY <1>0, <2>1
<1>3. CASE Close(c)
  BY <1>0, <1>3 DEF Close
<1> QED
  BY <1>1, <1>2, <1>3, Zenon DEF ConnStep, Request, Respond, Hangup, Graceful, AnswerReady, AnswerShutdown

LEMMA NextType == TypeInv /\ [ProcessNext]_processVars => TypeInv'
<1> SUFFICES ASSUME TypeInv, [ProcessNext]_processVars PROVE TypeInv'
  OBVIOUS
<1>1. CASE StartFails
  BY <1>1 DEF TypeInv, StartFails, Alone
<1>2. CASE StartGoesOn
  BY <1>2 DEF TypeInv, StartGoesOn, Alone
<1>3. CASE SpawnDmesh \/ Spawn
  BY <1>3, StepOrder DEF TypeInv, SpawnDmesh, Spawn, Alone
<1>4. CASE RunAdmin \/ IdentityDone \/ ReleaseLatch \/ Signal \/ Shutdown \/ Elapse
  <2>1. CASE RunAdmin
    BY <2>1 DEF TypeInv, RunAdmin
  <2>2. CASE IdentityDone
    BY <2>2 DEF TypeInv, IdentityDone
  <2>3. CASE ReleaseLatch
    BY <2>3, Zenon DEF TypeInv, ReleaseLatch
  <2>4. CASE Signal
    BY <2>4 DEF TypeInv, Signal
  <2>5. CASE Shutdown
    BY <2>5 DEF TypeInv, Shutdown
  <2>6. CASE Elapse
    BY <2>6 DEF TypeInv, Elapse
  <2> QED
    BY <1>4, <2>1, <2>2, <2>3, <2>4, <2>5, <2>6, Zenon
<1>5. CASE StartProxy
  BY <1>5 DEF TypeInv, StartProxy
<1>6. ASSUME NEW c \in Connections, NEW a \in Listeners \cup Dma, ConnStep(c, a) PROVE TypeInv'
  BY <1>6, ConnSteps, ConnsKept DEF TypeInv, quietVars
<1>7. ASSUME NEW a \in Listeners \cup Dma, StopServing(a) PROVE TypeInv'
  BY <1>7 DEF TypeInv, StopServing
<1>8. CASE Drained \/ GraceOver
  BY <1>8 DEF TypeInv, Drained, GraceOver, Exit, Alone
<1>9. CASE UNCHANGED processVars
  BY <1>9 DEF TypeInv, processVars
<1> QED
  BY <1>1, <1>2, <1>3, <1>4, <1>5, <1>6, <1>7, <1>8, <1>9, StepKinds

LEMMA NextPhase == TypeInv /\ PhaseInv /\ IdentityInv /\ [ProcessNext]_processVars => PhaseInv'
<1> SUFFICES ASSUME TypeInv, PhaseInv, IdentityInv, [ProcessNext]_processVars PROVE PhaseInv'
  OBVIOUS
<1>1. CASE StartFails
  BY <1>1, Zenon DEF PhaseInv, StartFails, Alone
<1>2. CASE StartGoesOn
  BY <1>2 DEF PhaseInv, StartGoesOn, Alone
<1>3. CASE SpawnDmesh \/ Spawn
  BY <1>3, StepOrder DEF PhaseInv, SpawnDmesh, Spawn, Alone
<1>4. CASE RunAdmin \/ IdentityDone \/ ReleaseLatch \/ StartProxy
  <2>1. phase \notin Alone /\ exit = {} /\ starter # "unspawned"
    BY <1>4 DEF RunAdmin, IdentityDone, ReleaseLatch, StartProxy, Alive, PhaseInv, IdentityInv
  <2>2. UNCHANGED <<phase, exit, conns, told, drained>> /\ starter' # "unspawned"
    BY <1>4, <2>1 DEF RunAdmin, IdentityDone, ReleaseLatch, StartProxy
  <2> QED
    BY <2>1, <2>2 DEF PhaseInv
<1>5. ASSUME NEW c \in Connections, NEW a \in Listeners \cup Dma, ConnStep(c, a) PROVE PhaseInv'
  <2>1. exit = {} /\ UNCHANGED quietVars
    BY <1>5, ConnSteps
  <2>2. phase \notin Alone
    BY <1>5, Zenon DEF ConnStep, Accept, Request, Respond, Hangup, Graceful, AnswerReady, AnswerShutdown, PhaseInv
  <2> QED
    BY <2>1, <2>2 DEF PhaseInv, quietVars
<1>6. CASE Signal \/ Shutdown \/ Elapse
  BY <1>6 DEF PhaseInv, Signal, Shutdown, Elapse, Alone
<1>7. ASSUME NEW a \in Listeners \cup Dma, StopServing(a) PROVE PhaseInv'
  BY <1>7 DEF PhaseInv, StopServing
<1>8. CASE Drained \/ GraceOver
  BY <1>8 DEF PhaseInv, Drained, GraceOver, Exit, Alone
<1>9. CASE UNCHANGED processVars
  BY <1>9 DEF PhaseInv, processVars
<1> QED
  BY <1>1, <1>2, <1>3, <1>4, <1>5, <1>6, <1>7, <1>8, <1>9, StepKinds

LEMMA NextBound == ProcessInv /\ [ProcessNext]_processVars => BoundInv'
<1> SUFFICES ASSUME ProcessInv, [ProcessNext]_processVars PROVE BoundInv'
  OBVIOUS
<1> USE DEF ProcessInv, Proxied
<1>1. CASE StartFails
  BY <1>1 DEF BoundInv, StartFails
<1>2. CASE StartGoesOn
  <2>1. starter' = "unspawned"
    BY <1>2 DEF StartGoesOn, PhaseInv, Alone
  <2> QED
    BY <1>2, <2>1 DEF BoundInv, StartGoesOn
<1>3. CASE SpawnDmesh
  <2>1. starter' = "unspawned" /\ phase' = "spawn" /\ bound' = bound
    BY <1>3, StepOrder DEF SpawnDmesh, PhaseInv, Alone
  <2> QED
    BY <1>3, <2>1 DEF BoundInv, SpawnDmesh
<1>4. CASE Spawn
  BY <1>4 DEF BoundInv, Spawn
<1>5. CASE RunAdmin \/ IdentityDone \/ ReleaseLatch \/ Signal
  <2>1. UNCHANGED <<phase, bound, starter, drained>> /\ serving \subseteq serving'
    BY <1>5 DEF RunAdmin, IdentityDone, ReleaseLatch, Signal
  <2> QED
    BY <2>1 DEF BoundInv
<1>6. CASE StartProxy
  <2>1. phase \notin Alone \cup {"spawn"} /\ UNCHANGED <<phase, drained>>
    BY <1>6 DEF StartProxy, PhaseInv
  <2>2. CASE identity = "certified"
    BY <1>6, <2>1, <2>2 DEF StartProxy, BoundInv, Alone
  <2>3. CASE identity = "panicked"
    BY <1>6, <2>1, <2>3 DEF StartProxy, BoundInv, Alone
  <2> QED
    BY <1>6, <2>2, <2>3 DEF StartProxy
<1>7. ASSUME NEW c \in Connections, NEW a \in Listeners \cup Dma, ConnStep(c, a) PROVE BoundInv'
  BY <1>7, ConnSteps DEF BoundInv, quietVars
<1>8. CASE Shutdown \/ Elapse
  <2>1. UNCHANGED <<bound, starter, serving>> /\ phase' \notin Alone \cup {"spawn"} /\ drained' # {}
    BY <1>8 DEF Shutdown, Elapse, Alone
  <2> QED
    BY <2>1 DEF BoundInv, Alone
<1>9. ASSUME NEW a \in Listeners \cup Dma, StopServing(a) PROVE BoundInv'
  <2>1. /\ drained # {} /\ UNCHANGED <<phase, starter, drained>>
        /\ bound' = bound \ {a} /\ serving' = serving \ {a}
    BY <1>9 DEF StopServing
  <2>2. phase \notin Alone \cup {"spawn"}
    BY <2>1 DEF PhaseInv
  <2> QED
    BY <2>1, <2>2 DEF BoundInv, Alone
<1>10. CASE Drained \/ GraceOver
  <2>1. UNCHANGED <<bound, starter, serving, drained>> /\ phase' = "exited"
    BY <1>10 DEF Drained, GraceOver, Exit
  <2> QED
    BY <2>1 DEF BoundInv
<1>11. CASE UNCHANGED processVars
  BY <1>11 DEF BoundInv, processVars
<1> QED
  BY <1>1, <1>2, <1>3, <1>4, <1>5, <1>6, <1>7, <1>8, <1>9, <1>10, <1>11, StepKinds

LEMMA NextIdentity == ProcessInv /\ [ProcessNext]_processVars => IdentityInv'
<1> SUFFICES ASSUME ProcessInv, [ProcessNext]_processVars PROVE IdentityInv'
  OBVIOUS
<1> USE DEF ProcessInv, Proxied
<1>1. CASE StartFails \/ StartGoesOn
  BY <1>1 DEF IdentityInv, StartFails, StartGoesOn
<1>2. CASE SpawnDmesh
  <2>1. serving' \cap Proxied = serving \cap Proxied /\ UNCHANGED <<starter, identity, latch>>
    BY <1>2, ProcessConstants DEF SpawnDmesh, Listeners
  <2> QED
    BY <2>1 DEF IdentityInv
<1>3. CASE Spawn
  <2>1. starter' = "waiting" /\ UNCHANGED <<identity, latch, serving>>
    BY <1>3 DEF Spawn
  <2> QED
    BY <2>1 DEF IdentityInv
<1>4. CASE RunAdmin
  <2>1. serving' \cap Proxied = serving \cap Proxied /\ UNCHANGED <<starter, latch>>
    BY <1>4 DEF RunAdmin
  <2>2. starter # "unspawned" /\ identity = "unspawned"
    BY <1>4 DEF RunAdmin
  <2> QED
    BY <2>1, <2>2 DEF IdentityInv
<1>5. CASE IdentityDone
  <2>1. UNCHANGED <<starter, latch, serving>> /\ identity = "waiting" /\ identity' \in {"certified", "panicked"}
    BY <1>5 DEF IdentityDone
  <2> QED
    BY <2>1 DEF IdentityInv
<1>6. CASE ReleaseLatch
  BY <1>6 DEF IdentityInv, ReleaseLatch
<1>7. CASE StartProxy
  <2>1. CASE identity = "certified"
    BY <1>7, <2>1 DEF StartProxy, IdentityInv
  <2>2. CASE identity = "panicked"
    BY <1>7, <2>2 DEF StartProxy, IdentityInv
  <2> QED
    BY <1>7, <2>1, <2>2 DEF StartProxy
<1>8. ASSUME NEW c \in Connections, NEW a \in Listeners \cup Dma, ConnStep(c, a) PROVE IdentityInv'
  BY <1>8, ConnSteps DEF IdentityInv, quietVars
<1>9. ASSUME NEW a \in Listeners \cup Dma, StopServing(a) PROVE IdentityInv'
  <2>1. UNCHANGED <<starter, latch, identity>> /\ serving' \subseteq serving
    BY <1>9 DEF StopServing
  <2> QED
    BY <2>1 DEF IdentityInv
<1>10. CASE Signal \/ Shutdown \/ Elapse \/ Drained \/ GraceOver \/ UNCHANGED processVars
  <2>1. UNCHANGED <<starter, latch, identity, serving>>
    BY <1>10 DEF Signal, Shutdown, Elapse, Drained, GraceOver, processVars
  <2> QED
    BY <2>1 DEF IdentityInv
<1> QED
  BY <1>1, <1>2, <1>3, <1>4, <1>5, <1>6, <1>7, <1>8, <1>9, <1>10, StepKinds

\* What the identity task came to stays.
LEMMA Settled ==
    ASSUME [ProcessNext]_processVars, identity \in {"certified", "panicked"}
    PROVE  identity' = identity
<1>1. StartFails \/ StartGoesOn \/ SpawnDmesh \/ Spawn => identity' = identity
  BY DEF StartFails, StartGoesOn, SpawnDmesh, Spawn
<1>2. RunAdmin \/ IdentityDone \/ ReleaseLatch \/ StartProxy => identity' = identity
  BY DEF RunAdmin, IdentityDone, ReleaseLatch, StartProxy
<1>3. \A c \in Connections, a \in Listeners \cup Dma : ConnStep(c, a) => identity' = identity
  BY ConnSteps DEF quietVars
<1>4. \A a \in Listeners \cup Dma : StopServing(a) => identity' = identity
  BY DEF StopServing
<1>5. Signal \/ Shutdown \/ Drained \/ Elapse \/ GraceOver \/ UNCHANGED processVars => identity' = identity
  BY DEF Signal, Shutdown, Drained, Elapse, GraceOver, processVars
<1> QED
  BY <1>1, <1>2, <1>3, <1>4, <1>5, StepKinds

\* A step that is not of a connection changes none, nor what was said of readiness.
LEMMA OtherSteps ==
    ASSUME [ProcessNext]_processVars
    PROVE  \/ UNCHANGED <<conns, told>>
           \/ \E c \in Connections, a \in Listeners \cup Dma : ConnStep(c, a)
<1>1. StartFails \/ StartGoesOn \/ SpawnDmesh \/ Spawn => UNCHANGED <<conns, told>>
  BY Zenon DEF StartFails, StartGoesOn, SpawnDmesh, Spawn
<1>2. RunAdmin \/ IdentityDone \/ ReleaseLatch \/ StartProxy => UNCHANGED <<conns, told>>
  BY DEF RunAdmin, IdentityDone, ReleaseLatch, StartProxy
<1>3. \A a \in Listeners \cup Dma : StopServing(a) => UNCHANGED <<conns, told>>
  BY DEF StopServing
<1>4. Signal \/ Shutdown \/ Drained \/ Elapse \/ GraceOver \/ UNCHANGED processVars => UNCHANGED <<conns, told>>
  BY DEF Signal, Shutdown, Drained, Elapse, GraceOver, processVars
<1> QED
  BY <1>1, <1>2, <1>3, <1>4, StepKinds

\* How a process ends.
LEMMA Endings ==
    ASSUME PhaseInv, [ProcessNext]_processVars
    PROVE  exit' = {} \/ UNCHANGED processVars \/ StartFails \/ Drained \/ GraceOver
<1>1. StartGoesOn \/ SpawnDmesh \/ Spawn => exit' = {}
  BY DEF StartGoesOn, SpawnDmesh, Spawn, PhaseInv, Alone
<1>2. RunAdmin \/ IdentityDone \/ ReleaseLatch \/ StartProxy => exit' = {}
  BY DEF RunAdmin, IdentityDone, ReleaseLatch, StartProxy, Alive
<1>3. \A c \in Connections, a \in Listeners \cup Dma : ConnStep(c, a) => exit' = {}
  BY ConnSteps DEF quietVars
<1>4. \A a \in Listeners \cup Dma : StopServing(a) => exit' = {}
  BY DEF StopServing, Alive
<1>5. Signal \/ Shutdown \/ Elapse => exit' = {}
  BY DEF Signal, Shutdown, Elapse, PhaseInv
<1> QED
  BY <1>1, <1>2, <1>3, <1>4, <1>5, StepKinds

LEMMA NextSound ==
    ASSUME ProcessInv, [ProcessNext]_processVars, TypeInv', PhaseInv', BoundInv', IdentityInv'
    PROVE  ProcessSound'
<1> USE DEF ProcessInv, Proxied
<1>1. \A c \in DOMAIN conns' : conns'[c].of \in Proxied => identity' = "certified"
  <2>1. CASE UNCHANGED <<conns, told>>
    BY <2>1, Settled DEF ProcessSound
  <2>2. ASSUME NEW c \in Connections, NEW a \in Listeners \cup Dma, ConnStep(c, a),
               NEW d \in DOMAIN conns', conns'[d].of \in Proxied
        PROVE  identity' = "certified"
    <3>1. \/ d \in DOMAIN conns /\ conns'[d].of = conns[d].of
          \/ conns'[d].of = a /\ a \in serving
      BY <2>2, ConnsKept
    <3>2. identity = "certified"
      BY <2>2, <3>1 DEF ProcessSound, IdentityInv
    <3> QED
      BY <3>2, Settled
  <2> QED
    BY <2>1, <2>2, OtherSteps
<1>2. told' = {TRUE} => identity' \in {"certified", "panicked"}
  <2>1. CASE UNCHANGED told
    BY <2>1, Settled DEF ProcessSound
  <2>2. ASSUME NEW c \in Connections, AnswerReady(c), told' = {TRUE}
        PROVE  identity' \in {"certified", "panicked"}
    <3>1. told' = {~latch} /\ identity' = identity
      BY <2>2 DEF AnswerReady
    <3>2. ~latch
      BY <2>2, <3>1, Zenon
    <3> QED
      BY <3>1, <3>2 DEF IdentityInv
  <2>3. ASSUME NEW c \in Connections, NEW a \in Listeners \cup Dma, ConnStep(c, a), ~AnswerReady(c)
        PROVE  UNCHANGED told
    BY <2>3, Zenon DEF ConnStep, Accept, Request, Respond, Hangup, Graceful, AnswerShutdown
  <2> QED
    BY <2>1, <2>2, <2>3, OtherSteps, Zenon
<1>3. identity' = "certified" /\ drained' = {} => Proxied \subseteq bound'
  BY DEF TypeInv, BoundInv, IdentityInv
<1>4. /\ exit' \cap {"usage", "failure", "panic"} # {} => DOMAIN conns' = {} /\ serving' = {} /\ told' = {}
      /\ exit' = {"drained"} => /\ serving' = {} /\ bound' \cap Proxied = {}
                                /\ \A c \in DOMAIN conns' : conns'[c].of = "tap"
  <2>1. CASE exit' = {}
    BY <2>1
  <2>2. CASE UNCHANGED processVars
    BY <2>2 DEF ProcessSound, processVars
  <2>3. CASE StartFails
    <3>1. DOMAIN conns' = {} /\ serving' = {} /\ told' = {} /\ exit' # {"drained"}
      BY <2>3 DEF StartFails, PhaseInv
    <3> QED
      BY <3>1
  <2>4. CASE Drained
    <3>1. exit' = {"drained"} /\ UNCHANGED <<serving, bound, conns>>
      BY <2>4 DEF Drained, Exit
    <3>2. /\ serving = {} /\ identity # "unspawned" /\ starter # "waiting"
          /\ \A c \in DOMAIN conns : conns[c].of = "tap"
      BY <2>4 DEF Drained, Held
    <3>3. bound \cap Proxied = {}
      BY <3>2 DEF TypeInv, BoundInv, IdentityInv
    <3> QED
      BY <3>1, <3>2, <3>3
  <2>5. CASE GraceOver
    BY <2>5 DEF GraceOver, Exit
  <2> QED
    BY <2>1, <2>2, <2>3, <2>4, <2>5, Endings
<1> QED
  BY <1>1, <1>2, <1>3, <1>4, Zenon DEF ProcessSound

LEMMA ProcessInvInit == ProcessInit => ProcessInv
<1> SUFFICES ASSUME ProcessInit PROVE ProcessInv
  OBVIOUS
<1>1. DOMAIN conns = {} /\ conns \in [DOMAIN conns -> [of : Listeners \cup Dma, http : BOOLEAN, busy : BOOLEAN]]
  BY DEF ProcessInit
<1>2. TypeInv
  BY <1>1 DEF ProcessInit, TypeInv, Alone
<1>3. PhaseInv /\ BoundInv /\ IdentityInv
  BY <1>1 DEF ProcessInit, PhaseInv, BoundInv, IdentityInv, Alone, Proxied
<1>4. ProcessSound
  BY <1>1, Zenon DEF ProcessInit, ProcessSound
<1> QED
  BY <1>2, <1>3, <1>4 DEF ProcessInv

LEMMA ProcessInvNext == ProcessInv /\ [ProcessNext]_processVars => ProcessInv'
BY NextType, NextPhase, NextBound, NextIdentity, NextSound DEF ProcessInv

\* Whatever the order of the identity task, the admin thread, the start of the
\* listeners, connections and signals, for any number of workers and connections: the
\* proxy serves TCP only with its certificate, tells that it is ready only then and
\* with its sockets open, serves no one when its start fails, and ends by itself only
\* when nothing that it accepted is left but tap's streams.
THEOREM ProcessSafe == ProcessSpec => []ProcessSound
<1>1. ProcessInv => ProcessSound
  BY DEF ProcessInv
<1> QED
  BY <1>1, ProcessInvInit, ProcessInvNext, PTL DEF ProcessSpec

===============================================================================
