--------------------------- MODULE P2cPool_proofs ---------------------------
(***************************************************************************)
(* The safety properties of P2cPool, proved for any finite set of          *)
(* addresses, any targets and any loads.                                   *)
(***************************************************************************)
EXTENDS P2cPool, FiniteSetTheorems, TLAPS

Service == [addr : Addrs, target : Targets]

\* poll_ready has taken the remembered index while it checks one.
TakenInv == pc = "check" => nextIdx = 0

IInv ==
    /\ TypeOK
    /\ ReadyUnique
    /\ TakenInv
    /\ IndexValid
    /\ EndpointsTracked
    /\ NewestService
    /\ GaugeExact

USE TargetAssumption

\* One service per address.
Unique(s) == \A i, j \in DOMAIN s : s[i].addr = s[j].addr => i = j

\* The sequence r holds the entries of s at the indices kept, each once.
Keeps(r, s, kept) ==
    \E at \in [DOMAIN r -> kept] :
        /\ \A k \in DOMAIN r : r[k] = s[at[k]]
        /\ \A k, m \in DOMAIN r : at[k] = at[m] => k = m
        /\ \A j \in kept : \E k \in DOMAIN r : at[k] = j

\* What keeping entries means for a ready set.
LEMMA KeepsServices ==
    ASSUME NEW s \in Seq(Service), Unique(s), NEW kept \in SUBSET DOMAIN s,
           NEW r \in Seq(Service), Keeps(r, s, kept)
    PROVE  /\ Unique(r)
           /\ \A j \in kept : \E k \in DOMAIN r : r[k] = s[j]
           /\ \A k \in DOMAIN r : \E j \in kept : r[k] = s[j]
<1>1. PICK at \in [DOMAIN r -> kept] :
          /\ \A k \in DOMAIN r : r[k] = s[at[k]]
          /\ \A k, m \in DOMAIN r : at[k] = at[m] => k = m
          /\ \A j \in kept : \E k \in DOMAIN r : at[k] = j
  BY DEF Keeps
<1>2. ASSUME NEW k \in DOMAIN r, NEW m \in DOMAIN r, r[k].addr = r[m].addr PROVE k = m
  <2>1. at[k] \in DOMAIN s /\ at[m] \in DOMAIN s
    OBVIOUS
  <2>2. s[at[k]].addr = s[at[m]].addr
    BY <1>1, <1>2
  <2>3. at[k] = at[m]
    BY <2>1, <2>2 DEF Unique
  <2> QED
    BY <1>1, <2>3
<1> QED
  BY <1>1, <1>2 DEF Unique

\* SwapRemove keeps every entry but the removed one.
LEMMA SwapRemoveKeeps ==
    ASSUME NEW s \in Seq(Service), NEW i \in DOMAIN s, NEW r, r = SwapRemove(s, i)
    PROVE  r \in Seq(Service) /\ Keeps(r, s, DOMAIN s \ {i})
<1> DEFINE at == [k \in 1..(Len(s) - 1) |-> IF k = i THEN Len(s) ELSE k]
<1>1. Len(s) \in Nat /\ DOMAIN s = 1..Len(s) /\ i \in 1..Len(s)
  OBVIOUS
<1>2. r = [k \in 1..(Len(s) - 1) |-> s[at[k]]]
  BY <1>1 DEF SwapRemove
<1>3. at \in [1..(Len(s) - 1) -> DOMAIN s \ {i}]
  BY <1>1
<1>4. \A k, m \in 1..(Len(s) - 1) : at[k] = at[m] => k = m
  BY <1>1
<1>5. ASSUME NEW j \in DOMAIN s \ {i} PROVE \E k \in 1..(Len(s) - 1) : at[k] = j
  <2>1. CASE j = Len(s)
    <3>1. i \in 1..(Len(s) - 1) /\ at[i] = j
      BY <1>1, <2>1
    <3> QED
      BY <3>1
  <2>2. CASE j # Len(s)
    <3>1. j \in 1..(Len(s) - 1) /\ at[j] = j
      BY <1>1, <2>2
    <3> QED
      BY <3>1
  <2> QED
    BY <2>1, <2>2
<1> HIDE DEF at
<1>6. r \in [1..(Len(s) - 1) -> Service] /\ DOMAIN r = 1..(Len(s) - 1)
  BY <1>1, <1>2, <1>3
<1>7. r \in Seq(Service)
  <2>1. Len(s) - 1 \in Nat
    BY <1>1
  <2> QED
    BY <1>6, <2>1
<1>s. Keeps(r, s, DOMAIN s \ {i})
  BY <1>2, <1>3, <1>4, <1>5, <1>6 DEF Keeps
<1> QED
  BY <1>7, <1>s

\* Survivors keeps every entry that is not evicted.
LEMMA SurvivorsKeep ==
    ASSUME NEW s \in Seq(Service), NEW gone, NEW r \in Survivors(s, gone)
    PROVE  r \in Seq(Service) /\ Keeps(r, s, {i \in DOMAIN s : s[i].addr \notin gone})
<1> DEFINE kept == {i \in DOMAIN s : s[i].addr \notin gone}
           n == Cardinality(kept)
<1>1. CASE kept = DOMAIN s
  <2>1. r = s
    BY <1>1 DEF Survivors
  <2> DEFINE at == [k \in DOMAIN s |-> k]
  <2>2. at \in [DOMAIN s -> DOMAIN s] /\ \A k \in DOMAIN s : at[k] = k
    OBVIOUS
  <2> HIDE DEF at
  <2>3. Keeps(s, s, DOMAIN s)
    <3>1. /\ \A k \in DOMAIN s : s[k] = s[at[k]]
          /\ \A k, m \in DOMAIN s : at[k] = at[m] => k = m
          /\ \A j \in DOMAIN s : \E k \in DOMAIN s : at[k] = j
      BY <2>2
    <3> QED
      BY <2>2, <3>1 DEF Keeps
  <2> QED
    BY <1>1, <2>1, <2>3
<1>2. CASE kept # DOMAIN s
  <2>1. DOMAIN s = 1..Len(s) /\ Len(s) \in Nat
    OBVIOUS
  <2>2. n \in Nat
    <3>1. IsFiniteSet(1..Len(s))
      BY <2>1, FS_Interval
    <3>2. kept \in SUBSET (1..Len(s))
      BY <2>1
    <3> QED
      BY <3>1, <3>2, FS_Subset, FS_CardinalityType
  <2>3. PICK f \in Bijection(1..n, kept) : r = [k \in 1..n |-> s[f[k]]]
    BY <1>2, Zenon DEF Survivors
  <2>4. /\ f \in [1..n -> kept]
        /\ \A a, b \in 1..n : f[a] = f[b] => a = b
        /\ \A t \in kept : \E a \in 1..n : f[a] = t
    BY DEF Bijection, Injection, Surjection, IsInjective
  <2> HIDE DEF n
  <2>5. r \in [1..n -> Service] /\ DOMAIN r = 1..n
    BY <2>3, <2>4, <2>1
  <2>6. r \in Seq(Service)
    BY <2>2, <2>5
  <2>7. \A k \in 1..n : r[k] = s[f[k]]
    BY <2>3
  <2>8. Keeps(r, s, kept)
    <3> HIDE DEF kept
    <3>1. /\ f \in [DOMAIN r -> kept]
          /\ \A k \in DOMAIN r : r[k] = s[f[k]]
          /\ \A k, m \in DOMAIN r : f[k] = f[m] => k = m
          /\ \A j \in kept : \E k \in DOMAIN r : f[k] = j
      BY <2>4, <2>5, <2>7
    <3> QED
      BY <3>1 DEF Keeps
  <2> QED
    BY <2>6, <2>8
<1> QED
  BY <1>1, <1>2

\* What removing one index, or evicting addresses, does to the ready set.
LEMMA ServiceRemoved ==
    ASSUME NEW s \in Seq(Service), Unique(s), NEW i \in DOMAIN s, NEW r, r = SwapRemove(s, i)
    PROVE  /\ r \in Seq(Service)
           /\ Unique(r)
           /\ \A j \in DOMAIN s : j # i => \E k \in DOMAIN r : r[k] = s[j]
           /\ \A k \in DOMAIN r : \E j \in DOMAIN s : j # i /\ r[k] = s[j]
<1> DEFINE kept == DOMAIN s \ {i}
<1>1. r \in Seq(Service) /\ Keeps(r, s, kept)
  BY SwapRemoveKeeps
<1>2. kept \in SUBSET DOMAIN s
  OBVIOUS
<1>3. /\ Unique(r)
      /\ \A j \in kept : \E k \in DOMAIN r : r[k] = s[j]
      /\ \A k \in DOMAIN r : \E j \in kept : r[k] = s[j]
  <2> HIDE DEF kept
  <2> QED
    BY <1>1, <1>2, KeepsServices
<1> QED
  BY <1>1, <1>3

LEMMA ServicesEvicted ==
    ASSUME NEW s \in Seq(Service), Unique(s), NEW gone, NEW r \in Survivors(s, gone)
    PROVE  /\ r \in Seq(Service)
           /\ Unique(r)
           /\ \A j \in DOMAIN s : s[j].addr \notin gone => \E k \in DOMAIN r : r[k] = s[j]
           /\ \A k \in DOMAIN r : \E j \in DOMAIN s : s[j].addr \notin gone /\ r[k] = s[j]
<1> DEFINE kept == {i \in DOMAIN s : s[i].addr \notin gone}
<1>1. r \in Seq(Service) /\ Keeps(r, s, kept)
  BY SurvivorsKeep
<1>2. kept \in SUBSET DOMAIN s
  OBVIOUS
<1>3. /\ Unique(r)
      /\ \A j \in kept : \E k \in DOMAIN r : r[k] = s[j]
      /\ \A k \in DOMAIN r : \E j \in kept : r[k] = s[j]
  <2> HIDE DEF kept
  <2> QED
    BY <1>1, <1>2, KeepsServices
<1> QED
  BY <1>1, <1>3

LEMMA InitIInv == Init => IInv
<1> SUFFICES ASSUME Init PROVE IInv
  OBVIOUS
<1>1. ready = <<>> /\ DOMAIN ready = {}
  BY DEF Init
<1>2. TypeOK
  BY DEF Init, TypeOK, None, Maybe
<1>3. Known(endpoints) = {} /\ Cardinality({}) = 0
  BY FS_EmptySet DEF Init, None, Known
<1>4. GaugeExact
  BY <1>3 DEF Init, GaugeExact
<1> QED
  BY <1>1, <1>2, <1>4 DEF Init, IInv, ReadyUnique, TakenInv, IndexValid, EndpointsTracked,
     NewestService, Running, Known, ReadyAddrs, None

\* The gauge follows every change of the endpoint map, and never underflows.
LEMMA GaugeNext == TypeOK /\ GaugeExact /\ [Next]_vars => GaugeExact' /\ gauge' \in Nat
<1> SUFFICES ASSUME TypeOK, GaugeExact, [Next]_vars PROVE GaugeExact' /\ gauge' \in Nat
  OBVIOUS
<1>1. ASSUME NEW eps PROVE IsFiniteSet(Known(eps)) /\ Cardinality(Known(eps)) \in Nat
  <2>1. Known(eps) \in SUBSET Addrs
    BY DEF Known
  <2> QED
    BY <2>1, AddrAssumption, FS_Subset, FS_CardinalityType
<1>2. ASSUME NEW u \in [Addrs -> Maybe], NEW again \in SUBSET Known(u), ResetPool(u, again)
      PROVE  GaugeExact' /\ gauge' \in Nat
  BY <1>1, <1>2 DEF ResetPool, GaugeExact, TypeOK
<1>3. ASSUME NEW a \in Addrs, NEW t \in Targets, AddEndpoint(a, t)
      PROVE  GaugeExact' /\ gauge' \in Nat
  <2>1. Known(endpoints') = Known(endpoints) \cup {a}
    BY <1>3 DEF AddEndpoint, Known, TypeOK
  <2>2. a \in Known(endpoints) <=> endpoints[a] # NoTarget
    BY DEF Known
  <2>3. Cardinality(Known(endpoints')) = IF a \in Known(endpoints)
           THEN Cardinality(Known(endpoints)) ELSE Cardinality(Known(endpoints)) + 1
    BY <1>1, <2>1, FS_AddElement, Zenon
  <2> QED
    BY <1>3, <2>2, <2>3 DEF AddEndpoint, GaugeExact, TypeOK
<1>4. ASSUME NEW a \in Addrs, RemoveEndpoint(a) PROVE GaugeExact' /\ gauge' \in Nat
  <2>1. Known(endpoints') = Known(endpoints) \ {a} /\ a \in Known(endpoints)
    BY <1>4 DEF RemoveEndpoint, Known, TypeOK
  <2>2. Cardinality(Known(endpoints')) = Cardinality(Known(endpoints)) - 1
    BY <1>1, <2>1, FS_RemoveElement, Zenon
  <2>3. Cardinality(Known(endpoints')) \in Nat
    BY <1>1
  <2> QED
    BY <1>4, <2>2, <2>3 DEF RemoveEndpoint, GaugeExact
<1>5. CASE Drop
  BY <1>5 DEF Drop, GaugeExact
<1>6. ASSUME UNCHANGED <<endpoints, gauge>>, pc' # "dropped", pc # "dropped"
      PROVE  GaugeExact' /\ gauge' \in Nat
  BY <1>6 DEF GaugeExact, TypeOK
<1>7. CASE UNCHANGED vars
  BY <1>7 DEF vars, GaugeExact, TypeOK
<1> QED
  BY <1>2, <1>3, <1>4, <1>5, <1>6, <1>7, Zenon DEF Next, Poll, Promote, PendingFails, PendingDone,
     Select, CheckReady, CheckPending, CheckFails, Call, KeepReady

\* Steps that leave the endpoints and their services alone: they only move
\* poll_ready along and remember, check or forget an index.
SelectionStep ==
    \/ \E m \in {"drive", "pending"} : Poll(m)
    \/ PendingDone \/ Select \/ CheckReady \/ KeepReady \/ Drop
    \/ UNCHANGED vars

LEMMA SamePool ==
    ASSUME IInv, UNCHANGED <<endpoints, pending, ready>>, Running' => Running
    PROVE  ReadyUnique' /\ EndpointsTracked' /\ NewestService'
<1>1. ReadyUnique'
  BY DEF IInv, ReadyUnique
<1>2. Known(endpoints') = Known(endpoints) /\ Known(pending') = Known(pending)
  OBVIOUS
<1>3. ReadyAddrs' = ReadyAddrs
  BY DEF ReadyAddrs
<1>4. EndpointsTracked'
  BY <1>2, <1>3 DEF IInv, EndpointsTracked
<1>5. NewestService'
  BY <1>2 DEF IInv, NewestService
<1> QED
  BY <1>1, <1>4, <1>5

LEMMA SelectionNext ==
    ASSUME IInv, [Next]_vars, SelectionStep
    PROVE  IInv'
<1>a. ready \in Seq(Service) /\ Len(ready) \in Nat /\ DOMAIN ready = 1..Len(ready)
  BY DEF IInv, TypeOK, Service
<1>g. GaugeExact' /\ gauge' \in Nat
  BY GaugeNext DEF IInv
<1>s. ASSUME Select
      PROVE  idx' \in Nat /\ (pc' = "check" => idx' \in DOMAIN ready)
  <2>1. CASE nextIdx = 0 /\ Len(ready) > 1
    <3>0. Len(ready) # 0 /\ Len(ready) # 1
      <4>1. \A n \in Nat : n > 1 => n # 0 /\ n # 1
        OBVIOUS
      <4> QED
        BY <1>a, <2>1, <4>1, Zenon
    <3>1. PICK a \in 0..(Len(ready) - 1), b \in 0..(Len(ready) - 2) :
              idx' = P2cIndex(ReadyLoads, a, b) + 1
      BY <1>s, <2>1, <3>0, Zenon DEF Select
    <3>2. P2cIndex(ReadyLoads, a, b) \in 0..(Len(ready) - 1)
      <4> DEFINE pair == GenPair(Len(ReadyLoads), a, b)
      <4>1. pair[1] \in 0..(Len(ready) - 1) /\ pair[2] \in 0..(Len(ready) - 1)
        BY <1>a, <2>1 DEF GenPair
      <4>2. P2cIndex(ReadyLoads, a, b) \in {pair[1], pair[2]}
        BY DEF P2cIndex
      <4> QED
        BY <4>1, <4>2
    <3> QED
      BY <1>a, <3>1, <3>2
  <2>2. CASE ~(nextIdx = 0 /\ Len(ready) > 1)
    <3>1. CASE nextIdx # 0
      <4>1. idx' = nextIdx
        BY <1>s, <3>1 DEF Select
      <4> QED
        BY <3>1, <4>1 DEF IInv, TypeOK, IndexValid
    <3>2. CASE nextIdx = 0
      <4>1. ~(Len(ready) > 1)
        BY <2>2, <3>2
      <4>2. \/ Len(ready) = 0 /\ idx' = idx /\ pc' = "idle"
            \/ Len(ready) = 1 /\ idx' = 1
        BY <1>s, <3>2, <4>1 DEF Select
      <4>3. idx \in Nat
        BY DEF IInv, TypeOK
      <4> QED
        BY <1>a, <4>2, <4>3
    <3> QED
      BY <3>1, <3>2
  <2> QED
    BY <2>1, <2>2
<1>1. /\ UNCHANGED <<endpoints, pending, ready, load>>
      /\ nextIdx' \in {nextIdx, 0, idx}
  BY DEF SelectionStep, Poll, PendingDone, Select, CheckReady, KeepReady, Drop, vars
<1>2. Running' => Running
  BY DEF SelectionStep, Poll, PendingDone, Select, CheckReady, KeepReady, Drop, vars, Running
<1>3. ReadyUnique' /\ EndpointsTracked' /\ NewestService'
  BY <1>1, <1>2, SamePool
<1>4. idx' \in Nat /\ nextIdx' \in Nat
  BY <1>1, <1>s DEF SelectionStep, Poll, PendingDone, CheckReady, KeepReady, Drop, vars, IInv, TypeOK
<1>5. pc' \in {"idle", "drive", "pending", "select", "check", "ready", "failed", "dropped"}
  BY DEF SelectionStep, Poll, PendingDone, Select, CheckReady, KeepReady, Drop, vars, IInv, TypeOK
<1>6. TypeOK'
  BY <1>1, <1>4, <1>5, <1>g DEF IInv, TypeOK
<1>7. TakenInv' /\ IndexValid'
  BY <1>1, <1>s DEF SelectionStep, Poll, PendingDone, Select, CheckReady, KeepReady, Drop, vars,
     IInv, TakenInv, IndexValid, TypeOK
<1> QED
  BY <1>3, <1>6, <1>7, <1>g DEF IInv

\* No operation of the pool, whatever its endpoints answer, breaks it.
LEMMA NextIInv == IInv /\ [Next]_vars => IInv'
<1>k. ASSUME ready \in Seq(Service), Unique(ready),
             NEW i \in DOMAIN ready, ready' = SwapRemove(ready, i)
      PROVE  /\ ready' \in Seq(Service)
             /\ Unique(ready')
             /\ \A j \in DOMAIN ready : j # i => \E k \in DOMAIN ready' : ready'[k] = ready[j]
             /\ \A k \in DOMAIN ready' : \E j \in DOMAIN ready : j # i /\ ready'[k] = ready[j]
  BY <1>k, ServiceRemoved
<1>e. ASSUME ready \in Seq(Service), Unique(ready),
             NEW gone, ready' \in Survivors(ready, gone)
      PROVE  /\ ready' \in Seq(Service)
             /\ Unique(ready')
             /\ \A j \in DOMAIN ready : ready[j].addr \notin gone =>
                   \E k \in DOMAIN ready' : ready'[k] = ready[j]
             /\ \A k \in DOMAIN ready' :
                   \E j \in DOMAIN ready : ready[j].addr \notin gone /\ ready'[k] = ready[j]
  BY <1>e, ServicesEvicted
<1> SUFFICES ASSUME IInv, [Next]_vars PROVE IInv'
  OBVIOUS
<1>4. CASE SelectionStep
  BY <1>4, SelectionNext
<1> USE DEF IInv, TypeOK, ReadyUnique, TakenInv, IndexValid, EndpointsTracked,
            NewestService, Running, Known, ReadyAddrs, Maybe
<1>g. GaugeExact' /\ gauge' \in Nat
  BY GaugeNext
<1>a. ready \in Seq(Service) /\ Len(ready) \in Nat /\ DOMAIN ready = 1..Len(ready)
  BY DEF Service
<1>b. \A i \in DOMAIN ready : ready[i] \in Service /\ ready[i].addr \in Addrs
                                /\ ready[i].target \in Targets
  <2> SUFFICES ASSUME NEW i \in DOMAIN ready
               PROVE  ready[i] \in Service /\ ready[i].addr \in Addrs /\ ready[i].target \in Targets
    OBVIOUS
  <2>1. ready[i] \in Service
    BY <1>a
  <2> QED
    BY <2>1 DEF Service
<1>c. Unique(ready)
  BY DEF Unique
<1>1. ASSUME NEW u \in [Addrs -> Maybe], NEW again \in SUBSET Known(u), ResetPool(u, again)
      PROVE  IInv'
  <2> DEFINE gone == Known(endpoints) \ Known(u)
  <2>1. ready' \in Survivors(ready, gone)
    BY <1>g, <1>1 DEF ResetPool
  <2>2. /\ ready' \in Seq(Service)
        /\ Unique(ready')
        /\ \A j \in DOMAIN ready : ready[j].addr \notin gone =>
              \E k \in DOMAIN ready' : ready'[k] = ready[j]
        /\ \A k \in DOMAIN ready' :
              \E j \in DOMAIN ready : ready'[k] = ready[j] /\ ready[j].addr \notin gone
    <3> HIDE DEF gone
    <3> QED
      BY <1>a, <1>c, <1>e, <2>1
  <2>3. /\ endpoints' = u /\ pc = "idle" /\ pc' = pc
        /\ pending' = [a \in Addrs |-> IF u[a] = endpoints[a] /\ a \notin again
                                         THEN pending[a] ELSE u[a]]
    BY <1>g, <1>1 DEF ResetPool
  <2>4. ReadyUnique'
    BY <2>2 DEF Unique
  <2>5. TypeOK'
    BY <1>g, <1>1, <2>2, <2>3 DEF ResetPool, Service
  <2>6. EndpointsTracked' /\ NewestService'
    <3>1. ASSUME NEW a \in Addrs, u[a] # NoTarget, pending'[a] = NoTarget
          PROVE  \E k \in DOMAIN ready' : ready'[k] = [addr |-> a, target |-> u[a]]
      <4>1. u[a] = endpoints[a] /\ pending[a] = NoTarget
        BY <3>1, <2>3
      <4>2. PICK j \in DOMAIN ready : ready[j] = [addr |-> a, target |-> u[a]]
        BY <4>1, <3>1, <2>3
      <4>3. ready[j].addr \notin gone
        BY <4>2, <3>1
      <4> QED
        BY <2>2, <4>2, <4>3
    <3>2. ASSUME NEW a \in Addrs, u[a] # NoTarget, pending'[a] # NoTarget
          PROVE  pending'[a] = u[a]
      BY <3>2, <2>3
    <3>3. ASSUME NEW k \in DOMAIN ready' PROVE ready'[k].addr \in Known(u)
      BY <2>2, <2>3, <1>b
    <3>4. ASSUME NEW a \in Addrs, pending'[a] # NoTarget PROVE a \in Known(u)
      BY <3>4, <2>3
    <3> QED
      BY <2>3, <3>1, <3>2, <3>3, <3>4
  <2>7. IndexValid' /\ TakenInv'
    <3>1. CASE u # endpoints \/ again # {}
      BY <1>1, <3>1, <2>3 DEF ResetPool
    <3>2. CASE u = endpoints /\ again = {}
      <4>1. {i \in DOMAIN ready : ready[i].addr \notin gone} = DOMAIN ready
        BY <3>2, Zenon
      <4>2. ready' = ready
        BY <2>1, <4>1 DEF Survivors
      <4> QED
        BY <1>1, <3>2, <4>2 DEF ResetPool
    <3> QED
      BY <3>1, <3>2
  <2> QED
    BY <1>g, <2>4, <2>5, <2>6, <2>7
<1>2. ASSUME NEW a \in Addrs, NEW t \in Targets, AddEndpoint(a, t) PROVE IInv'
  BY <1>g, <1>2 DEF AddEndpoint
<1>3. ASSUME NEW a \in Addrs, RemoveEndpoint(a) PROVE IInv'
  <2>1. /\ endpoints' = [endpoints EXCEPT ![a] = NoTarget]
        /\ pending' = [pending EXCEPT ![a] = NoTarget]
        /\ a \in Known(endpoints)
        /\ pc = "idle" /\ pc' = pc /\ nextIdx' = 0 /\ gauge' = gauge - 1
        /\ UNCHANGED <<idx, load>>
    BY <1>g, <1>3 DEF RemoveEndpoint, Evict
  <2>4. /\ ready' \in Seq(Service) /\ ReadyUnique'
        /\ \A j \in DOMAIN ready : ready[j].addr # a => \E k \in DOMAIN ready' : ready'[k] = ready[j]
        /\ \A k \in DOMAIN ready' : \E j \in DOMAIN ready : ready'[k] = ready[j] /\ ready[j].addr # a
    <3>1. CASE a \in ReadyAddrs
      <4> DEFINE i == CHOOSE i \in DOMAIN ready : ready[i].addr = a
      <4>1. i \in DOMAIN ready /\ ready[i].addr = a
        BY <3>1
      <4>2. ready' = SwapRemove(ready, i)
        BY <1>3, <3>1 DEF RemoveEndpoint, Evict
      <4> HIDE DEF i
      <4>3. \A j \in DOMAIN ready : j # i => ready[j].addr # a
        BY <4>1
      <4>4. /\ ready' \in Seq(Service) /\ Unique(ready')
            /\ \A j \in DOMAIN ready : j # i => \E k \in DOMAIN ready' : ready'[k] = ready[j]
            /\ \A k \in DOMAIN ready' : \E j \in DOMAIN ready : j # i /\ ready'[k] = ready[j]
        BY <1>a, <1>c, <1>k, <4>1, <4>2
      <4> QED
        BY <4>1, <4>3, <4>4, Zenon DEF Unique
    <3>2. CASE a \notin ReadyAddrs
      BY <1>a, <1>3, <3>2 DEF RemoveEndpoint, Evict
    <3> QED
      BY <3>1, <3>2
  <2>5. EndpointsTracked' /\ NewestService'
    BY <1>b, <2>1, <2>4
  <2> QED
    BY <1>g, <2>1, <2>4, <2>5, Zenon DEF Service
<1>5. ASSUME NEW a \in Addrs, Promote(a) PROVE IInv'
  <2> DEFINE svc == [addr |-> a, target |-> pending[a]]
  <2>1. /\ pending' = [pending EXCEPT ![a] = NoTarget] /\ pending[a] \in Targets
        /\ pc \in {"drive", "pending"}
        /\ UNCHANGED <<endpoints, nextIdx, idx, gauge, load, pc>>
    <3>1. pending \in [Addrs -> Targets \cup {NoTarget}]
      OBVIOUS
    <3> HIDE DEF IInv
    <3> QED
      BY <1>5, <3>1 DEF Promote
  <2>2. svc \in Service /\ svc.addr = a
    BY <2>1 DEF Service
  <2>3. CASE a \in ReadyAddrs
    <3>1. ready' = [i \in DOMAIN ready |-> IF ready[i].addr = a THEN svc ELSE ready[i]]
      BY <1>5, <2>3 DEF Promote
    <3>2. ready' \in [1..Len(ready) -> Service] /\ DOMAIN ready' = DOMAIN ready
      BY <1>a, <1>b, <2>2, <3>1
    <3>3. ready' \in Seq(Service)
      <4> HIDE DEF IInv
      <4> QED
        BY <1>a, <3>2
    <3>4. \A i \in DOMAIN ready : ready'[i].addr = ready[i].addr
      BY <2>2, <3>1
    <3>5. EndpointsTracked' /\ NewestService'
      BY <1>b, <2>1, <2>2, <2>3, <3>1, <3>2, <3>4
    <3>6. TypeOK' /\ ReadyUnique' /\ TakenInv' /\ IndexValid'
      BY <1>g, <2>1, <3>2, <3>3, <3>4 DEF Service
    <3> QED
      BY <1>g, <2>1, <3>5, <3>6
  <2>4. CASE a \notin ReadyAddrs
    <3>1. ready' = Append(ready, svc)
      BY <1>5, <2>4 DEF Promote
    <3> HIDE DEF svc
    <3>2. /\ ready' \in Seq(Service) /\ DOMAIN ready' = 1..(Len(ready) + 1)
          /\ ready'[Len(ready) + 1] = svc
          /\ \A i \in DOMAIN ready : ready'[i] = ready[i]
      BY <1>a, <2>2, <3>1
    <3>3. \A i \in DOMAIN ready' : i \in DOMAIN ready \/ i = Len(ready) + 1
      BY <1>a, <3>2
    <3>4. ReadyUnique'
      BY <1>a, <2>2, <2>4, <3>2, <3>3
    <3>5. \A i \in DOMAIN ready : i \in DOMAIN ready'
      BY <1>a, <3>2
    <3>a. svc.addr = a /\ svc.target = pending[a]
      BY DEF svc
    <3>b. EndpointsTracked'
      <4>1. ReadyAddrs \cup Known(pending) = Known(endpoints)
        BY <2>1
      <4>2. a \in Known(pending)
        BY <2>1
      <4>5. pending \in [Addrs -> Maybe]
        OBVIOUS
      <4> HIDE DEF IInv
      <4>3. ReadyAddrs' = ReadyAddrs \cup {a}
        <5>1. ASSUME NEW i \in DOMAIN ready' PROVE ready'[i].addr \in ReadyAddrs \cup {a}
          BY <3>2, <3>3, <3>a
        <5>2. ASSUME NEW i \in DOMAIN ready PROVE ready[i].addr \in ReadyAddrs'
          BY <3>2, <3>5
        <5>3. a \in ReadyAddrs'
          BY <1>a, <3>2, <3>a
        <5> QED
          BY <5>1, <5>2, <5>3
      <4>4. Known(pending') = Known(pending) \ {a}
        <5>1. \A b \in Addrs : pending'[b] = IF b = a THEN NoTarget ELSE pending[b]
          BY <2>1, <4>5
        <5> QED
          BY <5>1
      <4> HIDE DEF Known, ReadyAddrs
      <4> QED
        BY <2>1, <4>1, <4>2, <4>3, <4>4, Zenon
    <3>c. NewestService'
      <4> SUFFICES ASSUME NEW b \in Known(endpoints)
                   PROVE  IF pending'[b] # NoTarget THEN pending'[b] = endpoints[b]
                          ELSE \E k \in DOMAIN ready' : ready'[k] = [addr |-> b, target |-> endpoints[b]]
        BY <2>1
      <4>1. /\ pending[b] # NoTarget => pending[b] = endpoints[b]
            /\ pending[b] = NoTarget =>
                  \E j \in DOMAIN ready : ready[j] = [addr |-> b, target |-> endpoints[b]]
        BY <2>1
      <4>2. pending \in [Addrs -> Maybe] /\ b \in Addrs
        OBVIOUS
      <4> HIDE DEF IInv
      <4>3. CASE b = a
        <5>1. pending'[b] = NoTarget /\ pending[a] = endpoints[a]
          BY <2>1, <4>1, <4>2, <4>3
        <5>2. Len(ready) + 1 \in DOMAIN ready'
          BY <1>a, <3>2
        <5>3. ready'[Len(ready) + 1] = [addr |-> b, target |-> endpoints[b]]
          BY <3>2, <4>3, <5>1 DEF svc
        <5> QED
          BY <5>1, <5>2, <5>3
      <4>4. CASE b # a
        <5>1. pending'[b] = pending[b]
          BY <2>1, <4>2, <4>4
        <5> QED
          BY <3>2, <3>5, <4>1, <5>1
      <4> QED
        BY <4>3, <4>4
    <3>6. EndpointsTracked' /\ NewestService'
      BY <3>b, <3>c
    <3>7. TypeOK' /\ TakenInv' /\ IndexValid'
      BY <1>g, <2>1, <3>2, <3>5 DEF Service
    <3> QED
      BY <1>g, <2>1, <3>4, <3>6, <3>7
  <2> QED
    BY <2>3, <2>4
<1>6. ASSUME NEW a \in Addrs, PendingFails(a) PROVE IInv'
  BY <1>g, <1>6 DEF PendingFails
<1>r. ASSUME NEW i \in DOMAIN ready, Requeue(i), Running, Running',
             UNCHANGED endpoints
      PROVE  /\ ready' \in Seq(Service) /\ pending' \in [Addrs -> Maybe]
             /\ ReadyUnique' /\ EndpointsTracked' /\ NewestService'
  <2>1. ready' = SwapRemove(ready, i)
    BY <1>r DEF Requeue
  <2>2. pending' = [pending EXCEPT ![ready[i].addr] =
                       IF @ = NoTarget THEN ready[i].target ELSE @]
    BY <1>r DEF Requeue
  <2>3. \A j \in DOMAIN ready : j # i => ready[j].addr # ready[i].addr
    OBVIOUS
  <2>4. /\ ready' \in Seq(Service) /\ Unique(ready')
        /\ \A j \in DOMAIN ready : j # i => \E k \in DOMAIN ready' : ready'[k] = ready[j]
        /\ \A k \in DOMAIN ready' : \E j \in DOMAIN ready : j # i /\ ready'[k] = ready[j]
    BY <1>a, <1>c, <1>k, <2>1
  <2>5. pending' \in [Addrs -> Maybe]
    BY <1>b, <2>2
  <2>6. EndpointsTracked'
    <3> DEFINE A == ready[i].addr
    <3>1. ReadyAddrs \cup Known(pending) = Known(endpoints)
      BY <1>r
    <3>2. A \in Addrs /\ A \in ReadyAddrs
      BY <1>b
    <3>3. Known(pending') = Known(pending) \cup {A}
      BY <1>b, <2>2
    <3>4. ReadyAddrs' = ReadyAddrs \ {A}
      <4>1. ASSUME NEW k \in DOMAIN ready' PROVE ready'[k].addr \in ReadyAddrs \ {A}
        BY <2>3, <2>4
      <4>2. ASSUME NEW j \in DOMAIN ready, ready[j].addr # A PROVE ready[j].addr \in ReadyAddrs'
        <5>1. PICK k \in DOMAIN ready' : ready'[k] = ready[j]
          BY <2>4, <4>2, Zenon
        <5> QED
          BY <5>1
      <4> QED
        BY <4>1, <4>2
    <3>5. ReadyAddrs' \cup Known(pending') = Known(endpoints)
      <4> HIDE DEF Known, ReadyAddrs, A
      <4> QED
        BY <3>1, <3>2, <3>3, <3>4
    <3> QED
      BY <1>r, <3>5
  <2>7. NewestService'
    <3> SUFFICES ASSUME NEW a \in Known(endpoints)
                 PROVE  IF pending'[a] # NoTarget THEN pending'[a] = endpoints[a]
                        ELSE \E k \in DOMAIN ready' : ready'[k] = [addr |-> a, target |-> endpoints[a]]
      BY <1>r
    <3>1. CASE a = ready[i].addr
      <4>1. /\ ready[i].target = endpoints[a] \/ pending[a] # NoTarget
            /\ pending[a] # NoTarget => pending[a] = endpoints[a]
        <5>1. ASSUME pending[a] = NoTarget PROVE ready[i].target = endpoints[a]
          <6>1. PICK j \in DOMAIN ready : ready[j] = [addr |-> a, target |-> endpoints[a]]
            BY <1>r, <5>1
          <6> HIDE DEF IInv
          <6> QED
            BY <2>3, <3>1, <6>1
        <5> QED
          BY <1>r, <5>1
      <4>2. pending \in [Addrs -> Maybe] /\ a \in Addrs
        OBVIOUS
      <4> HIDE DEF IInv
      <4>3. pending'[a] = IF pending[a] = NoTarget THEN ready[i].target ELSE pending[a]
        BY <2>2, <3>1, <4>2
      <4>4. ready[i].target # NoTarget
        BY <1>b, TargetAssumption
      <4> QED
        BY <4>1, <4>3, <4>4
    <3>2. CASE a # ready[i].addr
      <4>1. pending'[a] = pending[a]
        BY <2>2, <3>2
      <4>2. CASE pending[a] # NoTarget
        BY <1>r, <4>1, <4>2
      <4>3. CASE pending[a] = NoTarget
        <5>1. PICK j \in DOMAIN ready : ready[j] = [addr |-> a, target |-> endpoints[a]]
          BY <1>r, <4>3
        <5>2. j # i
          <6> HIDE DEF IInv
          <6> QED
            BY <3>2, <5>1
        <5>3. PICK k \in DOMAIN ready' : ready'[k] = ready[j]
          BY <2>4, <5>2
        <5> QED
          BY <4>1, <4>3, <5>1, <5>3
      <4> QED
        BY <4>2, <4>3
    <3> QED
      BY <3>1, <3>2
  <2> QED
    BY <2>4, <2>5, <2>6, <2>7 DEF Unique
<1>10. CASE CheckPending
  BY <1>g, <1>10, <1>r DEF CheckPending, Service
<1>11. CASE CheckFails
  <2>1. ready' = SwapRemove(ready, idx) /\ idx \in DOMAIN ready /\ pc = "check"
    BY <1>g, <1>11 DEF CheckFails
  <2>2. ready' \in Seq(Service) /\ ReadyUnique'
    BY <1>a, <1>c, <1>k, <2>1 DEF Unique
  <2> QED
    BY <1>g, <1>11, <2>2 DEF CheckFails, Service
<1>12. CASE Call
  <2>1. /\ nextIdx \in DOMAIN ready /\ Requeue(nextIdx) /\ Running /\ Running'
        /\ UNCHANGED <<endpoints, idx>> /\ nextIdx' = 0 /\ pc' = "idle"
    BY <1>12 DEF Call
  <2>2. /\ ready' \in Seq(Service) /\ pending' \in [Addrs -> Maybe]
        /\ ReadyUnique' /\ EndpointsTracked' /\ NewestService'
    BY <1>r, <2>1
  <2>3. load' \in [Addrs -> Loads]
    BY <1>12 DEF Call
  <2>4. TypeOK'
    BY <1>g, <2>1, <2>2, <2>3 DEF Service
  <2> HIDE DEF TypeOK, ReadyUnique, EndpointsTracked, NewestService
  <2> QED
    BY <1>g, <2>1, <2>2, <2>4
<1> HIDE DEF IInv, TypeOK, ReadyUnique, TakenInv, IndexValid, EndpointsTracked,
             NewestService, Running, Known, ReadyAddrs, Maybe
<1> QED
  BY <1>1, <1>2, <1>3, <1>4, <1>5, <1>6, <1>10, <1>11, <1>12 DEF Next, SelectionStep

\* The inductive invariant holds in every reachable state of the pool.
LEMMA Invariance == Spec => []IInv
BY InitIInv, NextIInv, PTL DEF Spec

\* An index that poll_ready remembers or checks is an index of the ready set.
THEOREM IndexSafe == Spec => []IndexValid
BY Invariance, PTL DEF IInv

\* The endpoint map and the ready cache agree, the newest service of each
\* address is built for its current target, and the gauge counts the endpoints
\* until the pool is dropped.
THEOREM EndpointsSafe == Spec => []EndpointsExact
<1>1. IInv => EndpointsExact
  BY DEF IInv, EndpointsExact
<1> QED
  BY <1>1, Invariance, PTL

\* A remembered selection keeps denoting the same address until it is used or
\* dropped.
THEOREM SelectionSafe == Spec => SelectionStable
<1> DEFINE Same == nextIdx \in DOMAIN ready' /\ ready'[nextIdx].addr = ready[nextIdx].addr
<1>1. ASSUME IInv, [Next]_vars, nextIdx # 0, nextIdx' = nextIdx PROVE Same
  <2>1. nextIdx \in DOMAIN ready /\ ready \in Seq(Service) /\ pc # "check"
    BY <1>1 DEF IInv, IndexValid, TypeOK, TakenInv, Service
  <2>2. CASE ready' = ready
    BY <2>1, <2>2
  <2>3. ASSUME NEW a \in Addrs, Promote(a) PROVE Same
    <3> DEFINE svc == [addr |-> a, target |-> pending[a]]
    <3>1. CASE a \in ReadyAddrs
      <4>1. ready' = [i \in DOMAIN ready |-> IF ready[i].addr = a THEN svc ELSE ready[i]]
        BY <2>3, <3>1 DEF Promote
      <4> QED
        BY <2>1, <4>1
    <3>2. CASE a \notin ReadyAddrs
      <4>1. ready' = Append(ready, svc)
        BY <2>3, <3>2 DEF Promote
      <4>2. pending[a] \in Targets
        BY <1>1, <2>3 DEF Promote, IInv, TypeOK, Maybe
      <4>3. svc \in Service
        BY <4>2 DEF Service
      <4> HIDE DEF svc
      <4> QED
        BY <2>1, <4>1, <4>3
    <3> QED
      BY <3>1, <3>2
  <2>4. ASSUME NEW u \in [Addrs -> Maybe], NEW again \in SUBSET Known(u), ResetPool(u, again)
        PROVE  Same
    <3>1. u = endpoints
      BY <1>1, <2>4 DEF ResetPool
    <3>2. ready' \in Survivors(ready, {})
      BY <2>4, <3>1, Zenon DEF ResetPool
    <3>3. ready' = ready
      BY <3>2, Zenon DEF Survivors
    <3> QED
      BY <2>1, <3>3
  <2>5. CASE UNCHANGED vars
    BY <2>1, <2>5 DEF vars
  <2> QED
    BY <1>1, <2>1, <2>2, <2>3, <2>4, <2>5 DEF Next, RemoveEndpoint, PendingFails, AddEndpoint,
       Poll, PendingDone, Select, CheckReady, CheckPending, CheckFails, Call, KeepReady, Drop
<1>2. IInv /\ [Next]_vars => [nextIdx # 0 /\ nextIdx' = nextIdx => Same]_vars
  BY <1>1
<1> QED
  BY <1>2, Invariance, PTL DEF Spec, SelectionStable

\* Of two or more ready endpoints, never the one with strictly the highest load.
THEOREM ChoiceSafe == Spec => NeverMostLoaded
<1> DEFINE Fair == \E j \in DOMAIN ready \ {idx'} : load[ready[idx'].addr] <= load[ready[j].addr]
<1>1. ASSUME IInv, Select, nextIdx = 0, Len(ready) > 1 PROVE Fair
  <2>1. /\ ready \in Seq(Service) /\ Len(ready) \in Nat /\ DOMAIN ready = 1..Len(ready)
        /\ load \in [Addrs -> Nat]
    <3>1. load \in [Addrs -> Loads]
      BY <1>1 DEF IInv, TypeOK
    <3>2. load \in [Addrs -> Nat]
      BY <3>1, LoadAssumption, Zenon
    <3> QED
      BY <1>1, <3>2 DEF IInv, TypeOK, Service
  <2>2. \A i \in DOMAIN ready : ready[i].addr \in Addrs
    <3> SUFFICES ASSUME NEW i \in DOMAIN ready PROVE ready[i].addr \in Addrs
      OBVIOUS
    <3>1. ready[i] \in Service
      BY <2>1
    <3> QED
      BY <3>1 DEF Service
  <2>3. PICK a \in 0..(Len(ready) - 1), b \in 0..(Len(ready) - 2) :
            idx' = P2cIndex(ReadyLoads, a, b) + 1
    <3>1. Len(ready) # 0 /\ Len(ready) # 1
      BY <1>1, <2>1
    <3> QED
      BY <1>1, <3>1, Zenon DEF Select
  <2> DEFINE p == a + 1
             q == IF b >= a THEN b + 2 ELSE b + 1
  <2>4. p \in DOMAIN ready /\ q \in DOMAIN ready /\ p # q
    BY <1>1, <2>1
  <2>5. idx' = IF ReadyLoads[p] <= ReadyLoads[q] THEN p ELSE q
    <3> DEFINE pair == GenPair(Len(ReadyLoads), a, b)
    <3>1. pair[1] \in Nat /\ pair[2] \in Nat /\ pair[1] + 1 = p /\ pair[2] + 1 = q
      BY <2>1 DEF GenPair
    <3>2. P2cIndex(ReadyLoads, a, b) = IF ReadyLoads[pair[1] + 1] <= ReadyLoads[pair[2] + 1]
                                         THEN pair[1] ELSE pair[2]
      BY DEF P2cIndex
    <3> HIDE DEF pair, p, q
    <3> QED
      BY <2>3, <3>1, <3>2
  <2>6. /\ ReadyLoads[p] = load[ready[p].addr] /\ ReadyLoads[q] = load[ready[q].addr]
        /\ load[ready[p].addr] \in Nat /\ load[ready[q].addr] \in Nat
    <3> HIDE DEF p, q
    <3>1. ready[p].addr \in Addrs /\ ready[q].addr \in Addrs
      BY <2>2, <2>4
    <3> QED
      BY <2>1, <2>4, <3>1 DEF ReadyLoads
  <2> HIDE DEF p, q
  <2> QED
    BY <2>4, <2>5, <2>6
<1>2. IInv => [Select /\ nextIdx = 0 /\ Len(ready) > 1 => Fair]_vars
  BY <1>1
<1> QED
  BY <1>2, Invariance, PTL DEF Spec, NeverMostLoaded
=============================================================================
