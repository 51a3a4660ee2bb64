---------------------------- MODULE Control_proofs ----------------------------
(***************************************************************************)
(* The safety properties of what the proxy hears from its control plane,   *)
(* proved for any addresses, metadata, versions and limits, backoff        *)
(* streams of any length, and any number of changes and failures.          *)
(***************************************************************************)
EXTENDS Resolution, StreamLimits, StreamWatch, WellFoundedInduction, TLAPS

-----------------------------------------------------------------------------
(* The recovery of a resolution (Resolution)                               *)

\* The properties without the choice of a last message.  On a stream without a useful
\* message yet, there is nothing that the control plane could have told.
ViewInv ==
    rstate = "connected" => \A a \in Valid :
        /\ (\A i \in Useful : ~Decides(i, a)) => truth[a] = IF isInitial THEN Gone ELSE pool[a]
        /\ \A i \in Useful :
              Decides(i, a) /\ (\A j \in Useful : Decides(j, a) => j <= i) => truth[a] = Decided(i, a)

\* The delay that comes next is that of the next failure.
BackoffInv ==
    /\ rstate = "connected" => fails = 0 /\ backoff = 0
    /\ rstate \in {"recover", "backoff"} => fails >= 1
    /\ rstate = "recover" /\ fails <= MaxBackoff => backoff = fails \/ (backoff = 0 /\ fails = 1)
    /\ rstate \in {"disconnected", "connecting"} /\ fails < MaxBackoff =>
          backoff = IF fails = 0 THEN 0 ELSE fails + 1
    /\ BackoffGrows

IInv == ResolutionTypeOK /\ ViewInv /\ InitialNotRemove /\ BackoffInv

-----------------------------------------------------------------------------
(* First and last of a set of positions. *)

LEMMA LessWellFounded == IsWellFoundedOn({ss \in Nat \X Nat : ss[1] < ss[2]}, Nat)
<1>1. OpToRel(<, Nat) = {ss \in Nat \X Nat : ss[1] < ss[2]}
  BY DEF OpToRel
<1> QED
  BY <1>1, NatLessThanWellFounded, Zenon

LEMMA Least ==
    ASSUME NEW S \in SUBSET Nat, S # {}
    PROVE  \E m \in S : \A k \in S : m <= k
<1> DEFINE R == {ss \in Nat \X Nat : ss[1] < ss[2]}
<1>1. PICK m \in S : \A k \in S : <<k, m>> \notin R
  <2>1. IsWellFoundedOn(R, Nat)
    BY LessWellFounded
  <2> HIDE DEF R
  <2> QED
    BY <2>1, WFMin, Zenon
<1>2. ASSUME NEW k \in S PROVE m <= k
  <2>1. m \in Nat /\ k \in Nat /\ <<k, m>> \in Nat \X Nat
    OBVIOUS
  <2>2. ~(k < m)
    BY <1>1, <2>1
  <2> QED
    BY <2>1, <2>2
<1> QED
  BY <1>2

LEMMA Greatest ==
    ASSUME NEW n \in Nat, NEW S \in SUBSET (1 .. n), S # {}
    PROVE  \E m \in S : \A k \in S : k <= m
<1> DEFINE T == {n - k : k \in S}
<1>1. T \in SUBSET Nat /\ T # {}
  <2>1. PICK s \in S : TRUE
    BY Zenon
  <2>2. n - s \in T
    OBVIOUS
  <2>3. \A k \in S : k \in 1 .. n /\ n - k \in Nat
    OBVIOUS
  <2>4. T \subseteq Nat
    BY <2>3
  <2> QED
    BY <2>2, <2>4
<1>2. PICK t \in T : \A u \in T : t <= u
  BY <1>1, Least, Zenon
<1>3. PICK m \in S : t = n - m
  BY <1>2
<1>4. \A k \in S : n - m <= n - k
  BY <1>2, <1>3
<1> QED
  BY <1>3, <1>4

-----------------------------------------------------------------------------
(* Types. *)

LEMMA MessageType ==
    /\ \A eps \in EndpointSets : UpdateAdd(eps) \in Messages
    /\ \A S \in SUBSET Addrs : UpdateRemove(S) \in Messages
    /\ \A exists \in BOOLEAN : UpdateNoEndpoints(exists) \in Messages
BY DEF UpdateAdd, UpdateRemove, UpdateNoEndpoints, Messages

LEMMA SetTypes ==
    /\ None \in EndpointSets
    /\ \A eps \in EndpointSets, S \in SUBSET Addrs : On(eps, S) \in EndpointSets
    /\ \A a \in Addrs, m \in Metas \cup {Gone}, eps \in EndpointSets : [eps EXCEPT ![a] = m] \in EndpointSets
BY DEF None, On, EndpointSets

LEMMA SnapshotType ==
    ASSUME truth \in EndpointSets, NEW w \in Snapshots
    PROVE  w \in Seq(Messages)
<1>1. CASE truth = None
  <2>1. PICK exists \in BOOLEAN : w = <<UpdateNoEndpoints(exists)>>
    BY <1>1 DEF Snapshots
  <2> QED
    BY <2>1, MessageType
<1>2. CASE w = <<UpdateAdd(truth)>>
  BY <1>2, MessageType
<1>3. CASE truth # None /\ w # <<UpdateAdd(truth)>>
  <2>1. PICK S \in SUBSET Present(truth) : w = <<UpdateAdd(On(truth, S)), UpdateAdd(On(truth, Addrs \ S))>>
    BY <1>3, Zenon DEF Snapshots
  <2>2. S \in SUBSET Addrs /\ Addrs \ S \in SUBSET Addrs
    BY DEF Present
  <2>3. UpdateAdd(On(truth, S)) \in Messages /\ UpdateAdd(On(truth, Addrs \ S)) \in Messages
    BY <2>2, MessageType, SetTypes
  <2> QED
    BY <2>1, <2>3
<1> QED
  BY <1>1, <1>2, <1>3

LEMMA MessageFields ==
    ASSUME NEW msg \in Messages
    PROVE  /\ msg.type \in {"Add", "Remove", "NoEndpoints"}
           /\ msg.type = "Add" => msg.eps \in EndpointSets
           /\ msg.type = "Remove" => msg.addrs \in SUBSET Addrs
BY DEF Messages

LEMMA UpdatedType ==
    ASSUME ResolutionTypeOK, NEW msg \in Messages, NEW initial \in BOOLEAN
    PROVE  Updated(msg, initial) \in EndpointSets
<1>1. ASSUME NEW a \in Addrs
      PROVE  Updated(msg, initial)[a] \in Metas \cup {Gone}
  <2>1. pool[a] \in Metas \cup {Gone}
    BY DEF ResolutionTypeOK, EndpointSets
  <2>2. msg.type = "Add" => msg.eps[a] \in Metas \cup {Gone}
    BY MessageFields DEF EndpointSets
  <2> QED
    BY <2>1, <2>2, MessageFields DEF Updated
<1> QED
  BY <1>1, Zenon DEF Updated, EndpointSets

\* A change of the control plane's endpoints, and the message that tells of it.
LEMMA ChangeSteps ==
    ASSUME ResolutionTypeOK, NEW eps, NEW msg, Change(eps, msg),
           eps \in EndpointSets, msg \in Messages
    PROVE  ResolutionTypeOK'
<1>1. wire' \in Seq(Messages)
  BY DEF Change, ResolutionTypeOK
<1> QED
  BY <1>1 DEF Change, ResolutionTypeOK

\* The control plane's steps.
CtlStep(eps, msg) ==
    /\ Change(eps, msg) /\ eps \in EndpointSets /\ msg \in Messages
    /\ \/ \E a \in Addrs, m \in Metas : eps = [truth EXCEPT ![a] = m] /\ msg = UpdateAdd(On(eps, {a}))
       \/ \E a \in Addrs : truth[a] # Gone /\ eps = [truth EXCEPT ![a] = Gone] /\ msg = UpdateRemove({a})
       \/ \E exists \in BOOLEAN : eps = None /\ msg = UpdateNoEndpoints(exists)

LEMMA StepKinds ==
    ASSUME ResolutionTypeOK, [ResolutionNext]_resolutionVars
    PROVE  \/ \E eps, msg : CtlStep(eps, msg)
           \/ Recv \/ Connected \/ Recover \/ BackoffElapsed \/ Reconnect
           \/ \E reject \in BOOLEAN : StreamFails(reject) \/ ConnectFails(reject)
           \/ UNCHANGED resolutionVars
<1>0. truth \in EndpointSets
  BY DEF ResolutionTypeOK
<1>1. ASSUME NEW a \in Addrs, NEW m \in Metas, CtlAdd(a, m) PROVE \E eps, msg : CtlStep(eps, msg)
  <2> DEFINE eps == [truth EXCEPT ![a] = m]
  <2>1. Change(eps, UpdateAdd(On(eps, {a})))
    BY <1>1 DEF CtlAdd
  <2>2. eps \in EndpointSets
    BY <1>0, SetTypes
  <2>3. On(eps, {a}) \in EndpointSets
    BY <2>2, SetTypes
  <2>4. UpdateAdd(On(eps, {a})) \in Messages
    BY <2>3, MessageType
  <2>5. CtlStep(eps, UpdateAdd(On(eps, {a})))
    BY <2>1, <2>2, <2>4, Zenon DEF CtlStep
  <2> QED
    BY <2>5, Zenon
<1>2. ASSUME NEW a \in Addrs, CtlRemove(a) PROVE \E eps, msg : CtlStep(eps, msg)
  <2> DEFINE eps == [truth EXCEPT ![a] = Gone]
  <2>1. truth[a] # Gone /\ Change(eps, UpdateRemove({a}))
    BY <1>2 DEF CtlRemove
  <2>2. eps \in EndpointSets /\ UpdateRemove({a}) \in Messages
    BY <1>0, SetTypes, MessageType
  <2>3. CtlStep(eps, UpdateRemove({a}))
    BY <2>1, <2>2, Zenon DEF CtlStep
  <2> QED
    BY <2>3, Zenon
<1>3. ASSUME NEW exists \in BOOLEAN, CtlNoEndpoints(exists) PROVE \E eps, msg : CtlStep(eps, msg)
  <2>1. Change(None, UpdateNoEndpoints(exists))
    BY <1>3 DEF CtlNoEndpoints
  <2>2. None \in EndpointSets /\ UpdateNoEndpoints(exists) \in Messages
    BY SetTypes, MessageType
  <2>3. CtlStep(None, UpdateNoEndpoints(exists))
    BY <2>1, <2>2, Zenon DEF CtlStep
  <2> QED
    BY <2>3, Zenon
<1> QED
  BY <1>1, <1>2, <1>3 DEF ResolutionNext, Worker

LEMMA NextType == ResolutionTypeOK /\ [ResolutionNext]_resolutionVars => ResolutionTypeOK'
<1> SUFFICES ASSUME ResolutionTypeOK, [ResolutionNext]_resolutionVars PROVE ResolutionTypeOK'
  OBVIOUS
<1> USE ResolutionConstants
<1>1. ASSUME NEW eps, NEW msg, CtlStep(eps, msg) PROVE ResolutionTypeOK'
  BY <1>1, ChangeSteps DEF CtlStep
<1>2. CASE Recv
  <2>1. Head(wire) \in Messages /\ wire' \in Seq(Messages)
    BY <1>2 DEF Recv, ResolutionTypeOK
  <2>2. Updated(Head(wire), isInitial) \in EndpointSets
    BY <2>1, UpdatedType DEF ResolutionTypeOK
  <2>3. pool' \in EndpointSets /\ isInitial' \in BOOLEAN
    BY <1>2, <2>2, Zenon DEF Recv, ResolutionTypeOK
  <2> QED
    BY <1>2, <2>1, <2>3 DEF Recv, ResolutionTypeOK, ctlVars
<1>3. CASE Connected
  <2>1. wire' \in Seq(Messages)
    BY <1>3, SnapshotType DEF Connected, ResolutionTypeOK
  <2> QED
    BY <1>3, <2>1 DEF Connected, ResolutionTypeOK, ctlVars
<1>4. CASE Recover
  BY <1>4 DEF Recover, ResolutionTypeOK, ctlVars, streamVars
<1>5. CASE BackoffElapsed
  BY <1>5 DEF BackoffElapsed, ResolutionTypeOK, ctlVars, streamVars
<1>6. CASE Reconnect
  BY <1>6 DEF Reconnect, ResolutionTypeOK, ctlVars, streamVars
<1>7. ASSUME NEW reject \in BOOLEAN, StreamFails(reject) PROVE ResolutionTypeOK'
  <2>1. wire' \in Seq(Messages)
    BY <1>7 DEF StreamFails
  <2>2. rejected' \in BOOLEAN /\ isInitial' \in BOOLEAN /\ rstate' = "recover" /\ backoff' = 0
    BY <1>7, Zenon DEF StreamFails
  <2>3. fails' = fails + 1 /\ faults' = faults + 1 /\ UNCHANGED <<truth, pool, changes>>
    BY <1>7 DEF StreamFails, ctlVars
  <2> QED
    BY <2>1, <2>2, <2>3 DEF ResolutionTypeOK
<1>8. ASSUME NEW reject \in BOOLEAN, ConnectFails(reject) PROVE ResolutionTypeOK'
  BY <1>8 DEF ConnectFails, ResolutionTypeOK, ctlVars, streamVars
<1>9. CASE UNCHANGED resolutionVars
  BY <1>9 DEF ResolutionTypeOK, resolutionVars
<1> QED
  BY <1>1, <1>2, <1>3, <1>4, <1>5, <1>6, <1>7, <1>8, <1>9, StepKinds

LEMMA NextBackoff == ResolutionTypeOK /\ BackoffInv /\ [ResolutionNext]_resolutionVars => BackoffInv'
<1> SUFFICES ASSUME ResolutionTypeOK, BackoffInv, [ResolutionNext]_resolutionVars PROVE BackoffInv'
  OBVIOUS
<1>0. backoff \in 0 .. MaxBackoff /\ fails \in Nat /\ MaxBackoff \in Nat \ {0}
  BY ResolutionConstants DEF ResolutionTypeOK
<1> USE DEF BackoffInv, BackoffGrows
<1>1. ASSUME UNCHANGED <<rstate, backoff, fails>> PROVE BackoffInv'
  BY <1>1
<1>2. CASE (\E eps, msg : CtlStep(eps, msg)) \/ Recv \/ UNCHANGED resolutionVars
  <2>1. UNCHANGED <<rstate, backoff, fails>>
    BY <1>2 DEF CtlStep, Change, Recv, resolutionVars
  <2> QED
    BY <1>1, <2>1
<1>3. CASE Connected
  BY <1>0, <1>3 DEF Connected
<1>4. CASE Recover
  BY <1>0, <1>4 DEF Recover
<1>5. CASE BackoffElapsed
  BY <1>0, <1>5 DEF BackoffElapsed
<1>6. CASE Reconnect
  BY <1>0, <1>6 DEF Reconnect
<1>7. ASSUME NEW reject \in BOOLEAN, StreamFails(reject) PROVE BackoffInv'
  BY <1>0, <1>7 DEF StreamFails
<1>8. ASSUME NEW reject \in BOOLEAN, ConnectFails(reject) PROVE BackoffInv'
  BY <1>0, <1>8 DEF ConnectFails
<1> QED
  BY <1>2, <1>3, <1>4, <1>5, <1>6, <1>7, <1>8, StepKinds

-----------------------------------------------------------------------------
(* The view: a message is received. *)

LEMMA TailPositions ==
    ASSUME ResolutionTypeOK, Recv
    PROVE  /\ Len(wire) \in Nat \ {0} /\ DOMAIN wire = 1 .. Len(wire)
           /\ \A i \in Useful : i \in 1 .. Len(wire)
           /\ \A i \in Useful' : i \in Nat \ {0} /\ i + 1 \in Useful /\ wire'[i] = wire[i + 1]
           /\ \A j \in Useful : j # 1 => j - 1 \in Useful' /\ (j - 1) + 1 = j
<1>1. wire \in Seq(Messages) /\ wire # << >> /\ wire' = Tail(wire)
  BY DEF ResolutionTypeOK, Recv
<1>2. Len(wire) \in Nat \ {0} /\ DOMAIN wire = 1 .. Len(wire) /\ DOMAIN wire' = 1 .. Len(wire) - 1
  BY <1>1
<1>3. \A i \in 1 .. Len(wire) - 1 : wire'[i] = wire[i + 1]
  BY <1>1
<1>4. \A i \in Useful' : i \in Nat \ {0} /\ i + 1 \in Useful /\ wire'[i] = wire[i + 1]
  <2> SUFFICES ASSUME NEW i \in Useful'
               PROVE  i \in Nat \ {0} /\ i + 1 \in Useful /\ wire'[i] = wire[i + 1]
    OBVIOUS
  <2>1. i \in 1 .. Len(wire) - 1 /\ ~Skipped(wire'[i])
    BY <1>2 DEF Useful, Skipped
  <2>2. i + 1 \in DOMAIN wire /\ wire'[i] = wire[i + 1] /\ i \in Nat \ {0}
    BY <1>2, <1>3, <2>1
  <2>3. ~Skipped(wire[i + 1])
    BY <2>1, <2>2
  <2> QED
    BY <2>2, <2>3 DEF Useful
<1>5. \A j \in Useful : j # 1 => j - 1 \in Useful' /\ (j - 1) + 1 = j
  <2> SUFFICES ASSUME NEW j \in Useful, j # 1 PROVE j - 1 \in Useful' /\ (j - 1) + 1 = j
    OBVIOUS
  <2>1. j \in 1 .. Len(wire) /\ ~Skipped(wire[j])
    BY <1>2 DEF Useful
  <2>2. j - 1 \in 1 .. Len(wire) - 1 /\ (j - 1) + 1 = j
    BY <1>2, <2>1
  <2>3. wire'[j - 1] = wire[j] /\ j - 1 \in DOMAIN wire'
    BY <1>2, <1>3, <2>2
  <2>4. ~Skipped(wire'[j - 1])
    BY <2>1, <2>3
  <2>5. ~Skipped(wire[j - 1])'
    BY <2>4 DEF Skipped
  <2> QED
    BY <2>2, <2>3, <2>5 DEF Useful
<1>6. \A i \in Useful : i \in 1 .. Len(wire)
  BY <1>2 DEF Useful
<1> QED
  BY <1>2, <1>4, <1>5, <1>6

\* A message that is skipped leaves the rest to say what they said.
LEMMA RecvSkips ==
    ASSUME ResolutionTypeOK, ViewInv, InitialNotRemove, Recv, Skipped(Head(wire))
    PROVE  ViewInv' /\ InitialNotRemove'
<1>1. UNCHANGED <<truth, pool, isInitial, rstate>> /\ rstate = "connected"
  BY DEF Recv, ctlVars
<1>2. 1 \notin Useful
  BY DEF Useful, ResolutionTypeOK
<1>3. \A i \in Useful' : (\A j \in Useful' : i <= j) <=> (\A j \in Useful : i + 1 <= j)
  <2> SUFFICES ASSUME NEW i \in Useful' PROVE (\A j \in Useful' : i <= j) <=> (\A j \in Useful : i + 1 <= j)
    OBVIOUS
  <2>1. ASSUME \A j \in Useful' : i <= j, NEW j \in Useful PROVE i + 1 <= j
    <3>1. j - 1 \in Useful' /\ j \in Nat /\ i \in Nat
      BY <1>2, TailPositions
    <3> QED
      BY <2>1, <3>1
  <2>2. ASSUME \A j \in Useful : i + 1 <= j, NEW j \in Useful' PROVE i <= j
    <3>1. j + 1 \in Useful /\ j \in Nat /\ i \in Nat
      BY TailPositions
    <3> QED
      BY <2>2, <3>1
  <2> QED
    BY <2>1, <2>2
<1>4. ASSUME NEW i \in Useful', NEW a \in Valid
      PROVE  (Decides(i, a)' <=> Decides(i + 1, a)) /\ Decided(i, a)' = Decided(i + 1, a)
  <2>1. wire'[i] = wire[i + 1]
    BY TailPositions
  <2> QED
    BY <1>1, <1>3, <2>1 DEF Decides, Decided, IsReset
<1>5. InitialNotRemove'
  <2> SUFFICES ASSUME isInitial, NEW i \in Useful', \A j \in Useful' : i <= j
               PROVE  wire'[i].type # "Remove"
    BY <1>1 DEF InitialNotRemove
  <2>1. i + 1 \in Useful /\ wire'[i] = wire[i + 1] /\ \A j \in Useful : i + 1 <= j
    BY <1>3, TailPositions
  <2> QED
    BY <1>1, <2>1 DEF InitialNotRemove
<1>6. ASSUME NEW a \in Valid, \A i \in Useful' : ~Decides(i, a)'
      PROVE  truth[a] = IF isInitial THEN Gone ELSE pool[a]
  <2>1. ASSUME NEW j \in Useful PROVE ~Decides(j, a)
    <3>1. j - 1 \in Useful' /\ (j - 1) + 1 = j
      BY <1>2, TailPositions
    <3>2. ~Decides((j - 1) + 1, a)
      BY <1>4, <1>6, <3>1
    <3> QED
      BY <3>1, <3>2
  <2> QED
    BY <1>1, <2>1 DEF ViewInv
<1>7. ASSUME NEW a \in Valid, NEW i \in Useful', Decides(i, a)', \A j \in Useful' : Decides(j, a)' => j <= i
      PROVE  truth[a] = Decided(i, a)'
  <2>1. i + 1 \in Useful /\ Decides(i + 1, a) /\ i \in Nat
    BY <1>4, <1>7, TailPositions
  <2>2. ASSUME NEW j \in Useful, Decides(j, a) PROVE j <= i + 1
    <3>1. j - 1 \in Useful' /\ (j - 1) + 1 = j /\ j \in Nat
      BY <1>2, TailPositions
    <3>2. Decides(j - 1, a)'
      BY <1>4, <2>2, <3>1
    <3>3. j - 1 <= i
      BY <1>7, <3>1, <3>2
    <3> QED
      BY <2>1, <3>1, <3>3
  <2>3. truth[a] = Decided(i + 1, a)
    BY <1>1, <2>1, <2>2 DEF ViewInv
  <2> QED
    BY <1>4, <2>3
<1> QED
  BY <1>1, <1>5, <1>6, <1>7 DEF ViewInv

\* A message that is applied: what it decides, the worker has.
LEMMA RecvApplies ==
    ASSUME ResolutionTypeOK, ViewInv, InitialNotRemove, Recv, ~Skipped(Head(wire))
    PROVE  ViewInv' /\ InitialNotRemove'
<1>1. /\ UNCHANGED <<truth, rstate>> /\ rstate = "connected"
      /\ 1 \in DOMAIN wire /\ Head(wire) = wire[1] /\ wire[1] \in Messages
  BY DEF Recv, ctlVars, ResolutionTypeOK
<1>2. 1 \in Useful /\ \A j \in Useful : 1 <= j /\ j \in Nat
  BY <1>1, TailPositions DEF Useful
<1>3. ~(isInitial /\ wire[1].type = "Remove")
  BY <1>1, <1>2 DEF InitialNotRemove
<1>4. isInitial' = FALSE /\ pool' = Updated(wire[1], isInitial)
  BY <1>1, <1>3 DEF Recv
<1>5. IsReset(1) <=> wire[1].type = "NoEndpoints" \/ isInitial
  BY <1>2 DEF IsReset
<1>6. ASSUME NEW a \in Valid
      PROVE  pool'[a] = IF Decides(1, a) THEN Decided(1, a) ELSE pool[a]
  <2>0. a \in Addrs
    BY ResolutionConstants
  <2>1. wire[1].type = "Add" => (a \in Present(On(wire[1].eps, Valid)) <=> wire[1].eps[a] # Gone)
    BY <2>0 DEF Present, On
  <2>2. CASE wire[1].type = "Add"
    BY <1>4, <1>5, <2>0, <2>1, <2>2 DEF Updated, Decides, Decided
  <2>3. CASE wire[1].type = "Remove"
    BY <1>3, <1>4, <1>5, <2>0, <2>3 DEF Updated, Decides, Decided
  <2>4. CASE wire[1].type = "NoEndpoints"
    BY <1>4, <1>5, <2>0, <2>4 DEF Updated, Decides, Decided
  <2> QED
    BY <1>1, <2>2, <2>3, <2>4, MessageFields
<1>7. ASSUME NEW i \in Useful', NEW a \in Valid
      PROVE  (Decides(i, a)' <=> Decides(i + 1, a)) /\ Decided(i, a)' = Decided(i + 1, a)
  <2>1. wire'[i] = wire[i + 1] /\ i \in Nat \ {0}
    BY TailPositions
  <2>2. ~(i + 1 <= 1)
    BY <2>1
  <2>3. IsReset(i)' <=> IsReset(i + 1)
    BY <1>2, <1>4, <2>1, <2>2 DEF IsReset
  <2> QED
    BY <2>1, <2>3 DEF Decides, Decided
<1>8. InitialNotRemove'
  BY <1>4 DEF InitialNotRemove
<1>9. ASSUME NEW a \in Valid, \A i \in Useful' : ~Decides(i, a)'
      PROVE  truth[a] = pool'[a]
  <2>1. ASSUME NEW j \in Useful, j # 1 PROVE ~Decides(j, a)
    <3>1. j - 1 \in Useful' /\ (j - 1) + 1 = j
      BY <2>1, TailPositions
    <3>2. ~Decides((j - 1) + 1, a)
      BY <1>7, <1>9, <3>1
    <3> QED
      BY <3>1, <3>2
  <2>2. CASE Decides(1, a)
    <3>1. \A j \in Useful : Decides(j, a) => j <= 1
      BY <2>1
    <3>2. truth[a] = Decided(1, a)
      BY <1>1, <1>2, <2>2, <3>1 DEF ViewInv
    <3> QED
      BY <1>6, <2>2, <3>2
  <2>3. CASE ~Decides(1, a)
    <3>1. ~isInitial
      BY <1>5, <2>3 DEF Decides
    <3>2. truth[a] = pool[a]
      BY <1>1, <2>1, <2>3, <3>1 DEF ViewInv
    <3> QED
      BY <1>6, <2>3, <3>2
  <2> QED
    BY <2>2, <2>3
<1>10. ASSUME NEW a \in Valid, NEW i \in Useful', Decides(i, a)', \A j \in Useful' : Decides(j, a)' => j <= i
       PROVE  truth[a] = Decided(i, a)'
  <2>1. i + 1 \in Useful /\ Decides(i + 1, a) /\ i \in Nat
    BY <1>7, <1>10, TailPositions
  <2>2. ASSUME NEW j \in Useful, Decides(j, a) PROVE j <= i + 1
    <3>1. CASE j = 1
      BY <2>1, <3>1
    <3>2. CASE j # 1
      <4>1. j - 1 \in Useful' /\ (j - 1) + 1 = j /\ j \in Nat
        BY <1>2, <3>2, TailPositions
      <4>2. Decides(j - 1, a)'
        BY <1>7, <2>2, <4>1
      <4>3. j - 1 <= i
        BY <1>10, <4>1, <4>2
      <4> QED
        BY <2>1, <4>1, <4>3
    <3> QED
      BY <3>1, <3>2
  <2>3. truth[a] = Decided(i + 1, a)
    BY <1>1, <2>1, <2>2 DEF ViewInv
  <2> QED
    BY <1>7, <2>3
<1> QED
  BY <1>1, <1>4, <1>8, <1>9, <1>10 DEF ViewInv

-----------------------------------------------------------------------------
(* The view: the control plane changes its endpoints. *)

LEMMA AppendPositions ==
    ASSUME ResolutionTypeOK, NEW msg \in Messages, wire' = Append(wire, msg), NEW n, n = Len(wire) + 1
    PROVE  /\ n \in Nat \ {0} /\ wire'[n] = msg
           /\ \A i \in Useful : i \in Nat /\ i < n /\ i \in Useful' /\ wire'[i] = wire[i]
           /\ \A i \in Useful' : i = n \/ i \in Useful
           /\ n \in Useful' <=> ~Skipped(msg)
<1>1. wire \in Seq(Messages) /\ DOMAIN wire = 1 .. Len(wire) /\ Len(wire) \in Nat
  BY DEF ResolutionTypeOK
<1>2. DOMAIN wire' = 1 .. n /\ wire'[n] = msg /\ \A i \in 1 .. Len(wire) : wire'[i] = wire[i]
  BY <1>1
<1>3. \A i : i \in Useful' <=> i \in 1 .. n /\ ~Skipped(wire'[i])
  BY <1>2 DEF Useful, Skipped
<1>4. \A i : i \in Useful <=> i \in 1 .. Len(wire) /\ ~Skipped(wire[i])
  BY <1>1 DEF Useful
<1>5. \A i \in Useful : i \in Nat /\ i < n /\ i \in Useful' /\ wire'[i] = wire[i]
  <2> SUFFICES ASSUME NEW i \in Useful PROVE i \in Nat /\ i < n /\ i \in Useful' /\ wire'[i] = wire[i]
    BY Zenon
  <2>1. i \in 1 .. Len(wire) /\ ~Skipped(wire[i])
    BY <1>4
  <2>2. i \in Nat /\ i < n /\ i \in 1 .. n /\ wire'[i] = wire[i]
    BY <1>1, <1>2, <2>1
  <2> QED
    BY <1>3, <2>1, <2>2
<1>6. \A i \in Useful' : i = n \/ i \in Useful
  <2> SUFFICES ASSUME NEW i \in Useful', i # n PROVE i \in Useful
    OBVIOUS
  <2>1. i \in 1 .. n /\ ~Skipped(wire'[i])
    BY <1>3
  <2>2. i \in 1 .. Len(wire) /\ wire'[i] = wire[i]
    BY <1>1, <1>2, <2>1
  <2> QED
    BY <1>4, <2>1, <2>2
<1>7. n \in Useful' <=> ~Skipped(msg)
  BY <1>1, <1>2, <1>3
<1>8. n \in Nat \ {0}
  BY <1>1
<1> QED
  BY <1>2, <1>5, <1>6, <1>7, <1>8, Zenon

\* What a change does to the endpoints the worker can have.
LEMMA ChangedTruth ==
    ASSUME ResolutionTypeOK, NEW eps, NEW msg, CtlStep(eps, msg), NEW a \in Valid
    PROVE  /\ Skipped(msg) => eps[a] = truth[a]
           /\ msg.type = "Add" => eps[a] = IF msg.eps[a] # Gone THEN msg.eps[a] ELSE truth[a]
           /\ msg.type = "Remove" => eps[a] = IF a \in msg.addrs THEN Gone ELSE truth[a]
           /\ msg.type = "NoEndpoints" => eps[a] = Gone
<1>0. a \in Addrs /\ Gone \notin Metas /\ truth \in EndpointSets
  BY ResolutionConstants DEF ResolutionTypeOK
<1>1. ASSUME NEW b \in Addrs, NEW m \in Metas, eps = [truth EXCEPT ![b] = m], msg = UpdateAdd(On(eps, {b}))
      PROVE  /\ Skipped(msg) => eps[a] = truth[a]
             /\ msg.type = "Add" /\ eps[a] = IF msg.eps[a] # Gone THEN msg.eps[a] ELSE truth[a]
  <2>1. eps[b] = m /\ m # Gone /\ (a # b => eps[a] = truth[a])
    BY <1>0, <1>1 DEF EndpointSets
  <2>2. msg.type = "Add" /\ msg.eps = On(eps, {b})
    BY <1>1 DEF UpdateAdd
  <2>3. msg.eps[a] = IF a = b THEN eps[a] ELSE Gone
    BY <1>0, <2>2 DEF On
  <2>4. ASSUME Skipped(msg) PROVE a # b
    <3>1. Present(On(msg.eps, Valid)) = {}
      BY <2>2, <2>4 DEF Skipped
    <3>2. On(msg.eps, Valid)[a] = msg.eps[a]
      BY <1>0 DEF On
    <3>3. msg.eps[a] = Gone
      BY <1>0, <3>1, <3>2 DEF Present
    <3> QED
      BY <2>1, <2>3, <3>3
  <2> QED
    BY <2>1, <2>2, <2>3, <2>4
<1>2. ASSUME NEW b \in Addrs, eps = [truth EXCEPT ![b] = Gone], msg = UpdateRemove({b})
      PROVE  /\ Skipped(msg) => eps[a] = truth[a]
             /\ msg.type = "Remove" /\ eps[a] = IF a \in msg.addrs THEN Gone ELSE truth[a]
  <2>1. msg.type = "Remove" /\ msg.addrs = {b}
    BY <1>2 DEF UpdateRemove
  <2>2. eps[a] = IF a = b THEN Gone ELSE truth[a]
    BY <1>0, <1>2 DEF EndpointSets
  <2>3. Skipped(msg) => a # b
    BY <2>1 DEF Skipped
  <2> QED
    BY <2>1, <2>2, <2>3
<1>3. ASSUME NEW exists \in BOOLEAN, eps = None, msg = UpdateNoEndpoints(exists)
      PROVE  ~Skipped(msg) /\ msg.type = "NoEndpoints" /\ eps[a] = Gone
  BY <1>0, <1>3 DEF Skipped, UpdateNoEndpoints, None
<1> QED
  BY <1>1, <1>2, <1>3, Zenon DEF CtlStep

LEMMA CtlView ==
    ASSUME ResolutionTypeOK, ViewInv, InitialNotRemove,
           NEW eps, NEW msg, CtlStep(eps, msg), rstate = "connected"
    PROVE  ViewInv' /\ InitialNotRemove'
<1>0. /\ truth' = eps /\ wire' = Append(wire, msg) /\ msg \in Messages
      /\ UNCHANGED <<rstate, isInitial, pool>>
  BY DEF CtlStep, Change
<1> PICK n : n = Len(wire) + 1
  OBVIOUS
<1>1. /\ n \in Nat \ {0} /\ wire'[n] = msg
      /\ \A i \in Useful : i \in Nat /\ i < n /\ i \in Useful' /\ wire'[i] = wire[i]
      /\ \A i \in Useful' : i = n \/ i \in Useful
      /\ n \in Useful' <=> ~Skipped(msg)
  BY <1>0, AppendPositions, Zenon
<1>2. ASSUME NEW i \in Useful
      PROVE  (\A j \in Useful' : i <= j) <=> (\A j \in Useful : i <= j)
  <2>1. i <= n
    BY <1>1
  <2> QED
    BY <1>1, <2>1
<1>3. ASSUME NEW i \in Useful, NEW a \in Valid
      PROVE  (Decides(i, a)' <=> Decides(i, a)) /\ Decided(i, a)' = Decided(i, a)
  <2>1. wire'[i] = wire[i]
    BY <1>1
  <2> QED
    BY <1>0, <1>2, <2>1 DEF Decides, Decided, IsReset
<1>4. ASSUME n \in Useful', \A j \in Useful' : n <= j PROVE Useful = {}
  <2>1. ASSUME NEW j \in Useful PROVE FALSE
    <3>1. j \in Nat /\ j < n /\ n <= j
      BY <1>1, <1>4
    <3> QED
      BY <1>1, <3>1
  <2> QED
    BY <2>1
<1>5. ASSUME isInitial, Useful = {}, NEW a \in Valid PROVE truth[a] = Gone
  BY <1>5 DEF ViewInv
<1>6. InitialNotRemove'
  <2> SUFFICES ASSUME isInitial, NEW i \in Useful', \A j \in Useful' : i <= j
               PROVE  wire'[i].type # "Remove"
    BY <1>0, Zenon DEF InitialNotRemove
  <2>1. CASE i \in Useful
    <3>1. \A j \in Useful : i <= j
      BY <1>2, <2>1
    <3> QED
      BY <1>1, <2>1, <3>1 DEF InitialNotRemove
  <2>2. CASE i = n
    <3>1. Useful = {} /\ ~Skipped(msg) /\ wire'[i] = msg
      BY <1>1, <1>4, <2>2
    <3>2. SUFFICES ASSUME msg.type = "Remove" PROVE FALSE
      BY <3>1
    <3>3. PICK b \in Addrs : truth[b] # Gone /\ msg = UpdateRemove({b})
      <4>1. (\A e : UpdateAdd(e).type # "Remove") /\ \A e : UpdateNoEndpoints(e).type # "Remove"
        BY DEF UpdateAdd, UpdateNoEndpoints
      <4> QED
        BY <3>2, <4>1, Zenon DEF CtlStep
    <3>4. b \in Valid
      BY <3>1, <3>3 DEF Skipped, UpdateRemove
    <3> QED
      BY <1>5, <3>1, <3>3, <3>4
  <2> QED
    BY <1>1, <2>1, <2>2
<1>7. ASSUME NEW a \in Valid, n \in Useful', Decides(n, a)' PROVE eps[a] = Decided(n, a)'
  <2>1. Decided(n, a)' = IF msg.type = "Add" THEN msg.eps[a] ELSE Gone
    BY <1>1 DEF Decided
  <2>2. CASE msg.type = "NoEndpoints"
    BY <2>1, <2>2, ChangedTruth
  <2>3. CASE isInitial /\ \A j \in Useful' : n <= j
    <3>1. truth[a] = Gone
      BY <1>4, <1>5, <1>7, <2>3
    <3> QED
      BY <1>0, <2>1, <3>1, ChangedTruth, MessageFields
  <2>4. CASE msg.type = "Add" /\ msg.eps[a] # Gone
    BY <2>1, <2>4, ChangedTruth
  <2>5. CASE msg.type = "Remove" /\ a \in msg.addrs
    BY <2>1, <2>5, ChangedTruth
  <2> QED
    BY <1>0, <1>1, <1>7, <2>2, <2>3, <2>4, <2>5 DEF Decides, IsReset
<1>8. ASSUME NEW a \in Valid, n \in Useful' => ~Decides(n, a)' PROVE eps[a] = truth[a]
  <2>1. CASE Skipped(msg)
    BY <2>1, ChangedTruth
  <2>2. CASE ~Skipped(msg)
    <3>1. ~Decides(n, a)' /\ wire'[n] = msg
      BY <1>1, <1>8, <2>2
    <3>2. /\ msg.type # "NoEndpoints" /\ ~(msg.type = "Add" /\ msg.eps[a] # Gone)
          /\ ~(msg.type = "Remove" /\ a \in msg.addrs)
      BY <3>1 DEF Decides, IsReset
    <3> QED
      BY <1>0, <3>2, ChangedTruth, MessageFields
  <2> QED
    BY <2>1, <2>2
<1>9. ASSUME NEW a \in Valid, \A i \in Useful' : ~Decides(i, a)'
      PROVE  truth'[a] = IF isInitial' THEN Gone ELSE pool'[a]
  <2>1. eps[a] = truth[a] /\ \A i \in Useful : ~Decides(i, a)
    BY <1>1, <1>3, <1>8, <1>9
  <2> QED
    BY <1>0, <2>1 DEF ViewInv
<1>10. ASSUME NEW a \in Valid, NEW i \in Useful', Decides(i, a)', \A j \in Useful' : Decides(j, a)' => j <= i
       PROVE  truth'[a] = Decided(i, a)'
  <2>1. CASE i = n
    BY <1>0, <1>7, <1>10, <2>1
  <2>2. CASE i # n
    <3>1. i \in Useful /\ i \in Nat /\ i < n
      BY <1>1, <2>2
    <3>2. n \in Useful' => ~Decides(n, a)'
      BY <1>1, <1>10, <3>1
    <3>3. eps[a] = truth[a]
      BY <1>8, <3>2
    <3>4. Decides(i, a) /\ \A j \in Useful : Decides(j, a) => j <= i
      BY <1>1, <1>3, <1>10, <3>1
    <3>5. truth[a] = Decided(i, a)
      BY <3>1, <3>4 DEF ViewInv
    <3> QED
      BY <1>0, <1>3, <3>1, <3>3, <3>5
  <2> QED
    BY <2>1, <2>2
<1> QED
  BY <1>0, <1>6, <1>9, <1>10 DEF ViewInv

-----------------------------------------------------------------------------
(* The view: a new stream starts with the endpoints there are. *)

LEMMA ConnectedView ==
    ASSUME ResolutionTypeOK, Connected
    PROVE  ViewInv' /\ InitialNotRemove'
<1>0. /\ truth' = truth /\ truth \in EndpointSets /\ isInitial' = TRUE /\ wire' \in Snapshots
      /\ \A a \in Valid : a \in Addrs
  BY ResolutionConstants DEF Connected, ctlVars, ResolutionTypeOK
<1>1. ASSUME NEW exists \in BOOLEAN, truth = None, wire' = <<UpdateNoEndpoints(exists)>>
      PROVE  ViewInv' /\ InitialNotRemove'
  <2>1. DOMAIN wire' = {1} /\ wire'[1].type = "NoEndpoints"
    BY <1>1 DEF UpdateNoEndpoints
  <2>2. Useful' \subseteq {1} /\ 1 \in Useful'
    BY <2>1 DEF Useful, Skipped
  <2>3. \A a \in Valid : Decides(1, a)' /\ Decided(1, a)' = Gone /\ truth'[a] = Gone
    BY <1>0, <1>1, <2>1 DEF Decides, Decided, IsReset, None
  <2> QED
    BY <2>1, <2>2, <2>3 DEF ViewInv, InitialNotRemove
<1>2. ASSUME wire' = <<UpdateAdd(truth)>>
      PROVE  ViewInv' /\ InitialNotRemove'
  <2>1. DOMAIN wire' = {1} /\ wire'[1].type = "Add" /\ wire'[1].eps = truth
    BY <1>2 DEF UpdateAdd
  <2>2. Useful' \subseteq {1}
    BY <2>1 DEF Useful
  <2>3. \A i \in Useful' : i = 1 /\ IsReset(i)'
    BY <1>0, <2>2 DEF IsReset
  <2>4. \A a \in Valid : Decided(1, a)' = truth'[a]
    BY <1>0, <2>1 DEF Decided
  <2>5. Useful' = {} => \A a \in Valid : truth[a] = Gone
    <3> SUFFICES ASSUME Useful' = {}, NEW a \in Valid PROVE truth[a] = Gone
      OBVIOUS
    <3>1. Present(On(truth, Valid)) = {}
      BY <2>1 DEF Useful, Skipped
    <3> QED
      BY <1>0, <3>1, Zenon DEF Present, On
  <2>6. ASSUME NEW a \in Valid, \A i \in Useful' : ~Decides(i, a)' PROVE truth'[a] = Gone
    <3>1. Useful' = {}
      BY <2>3, <2>6 DEF Decides
    <3> QED
      BY <1>0, <2>5, <3>1
  <2> QED
    BY <1>0, <2>1, <2>3, <2>4, <2>6 DEF ViewInv, InitialNotRemove
<1>3. ASSUME NEW S \in SUBSET Addrs,
             wire' = <<UpdateAdd(On(truth, S)), UpdateAdd(On(truth, Addrs \ S))>>
      PROVE  ViewInv' /\ InitialNotRemove'
  <2>1. /\ DOMAIN wire' = {1, 2} /\ wire'[1].type = "Add" /\ wire'[2].type = "Add"
        /\ wire'[1].eps = On(truth, S) /\ wire'[2].eps = On(truth, Addrs \ S)
    BY <1>3 DEF UpdateAdd
  <2>2. \A a \in Valid : /\ wire'[1].eps[a] = IF a \in S THEN truth[a] ELSE Gone
                         /\ wire'[2].eps[a] = IF a \in S THEN Gone ELSE truth[a]
    BY <1>0, <2>1 DEF On
  <2>3. \A i \in {1, 2} : i \in Useful' <=> \E a \in Valid : wire'[i].eps[a] # Gone
    <3> SUFFICES ASSUME NEW i \in {1, 2} PROVE i \in Useful' <=> \E a \in Valid : wire'[i].eps[a] # Gone
      OBVIOUS
    <3>1. i \in Useful' <=> Present(On(wire'[i].eps, Valid)) # {}
      BY <2>1 DEF Useful, Skipped
    <3> QED
      BY <1>0, <3>1, Zenon DEF Present, On
  <2>4. Useful' \subseteq {1, 2}
    BY <2>1 DEF Useful
  <2>5. ASSUME NEW i \in Useful', NEW a \in Valid
        PROVE  /\ Decided(i, a)' = wire'[i].eps[a]
               /\ Decides(i, a)' <=> i = 1 \/ 1 \notin Useful' \/ wire'[i].eps[a] # Gone
    <3>1. wire'[i].type = "Add" /\ i \in {1, 2}
      BY <2>1, <2>4
    <3>2. (\A j \in Useful' : i <= j) <=> i = 1 \/ 1 \notin Useful'
      <4>1. \A j \in Useful' : j = 1 \/ j = 2
        BY <2>4
      <4>2. CASE i = 1
        BY <4>1, <4>2
      <4>3. CASE i = 2
        BY <4>1, <4>3
      <4> QED
        BY <3>1, <4>2, <4>3
    <3> QED
      BY <1>0, <3>1, <3>2 DEF Decides, Decided, IsReset
  <2>6. ASSUME NEW a \in Valid, \A i \in Useful' : ~Decides(i, a)' PROVE truth'[a] = Gone
    <3>1. 1 \notin Useful'
      BY <2>5, <2>6
    <3>2. 2 \notin Useful'
      BY <2>5, <2>6, <3>1
    <3>3. \A i \in {1, 2} : wire'[i].eps[a] = Gone
      BY <2>3, <3>1, <3>2
    <3> QED
      BY <1>0, <2>2, <3>3
  <2>7. ASSUME NEW a \in Valid, NEW i \in Useful', Decides(i, a)', \A j \in Useful' : Decides(j, a)' => j <= i
        PROVE  truth'[a] = Decided(i, a)'
    <3>1. CASE i = 1
      <4>1. wire'[2].eps[a] = Gone
        <5>1. ~(2 \in Useful' /\ Decides(2, a)')
          BY <2>7, <3>1
        <5> QED
          BY <2>3, <2>5, <5>1
      <4> QED
        BY <1>0, <2>2, <2>5, <3>1, <4>1
    <3>2. CASE i = 2
      <4>1. wire'[2].eps[a] = Gone => wire'[1].eps[a] = Gone
        BY <2>3, <2>5, <2>7, <3>2
      <4> QED
        BY <1>0, <2>2, <2>5, <3>2, <4>1
    <3> QED
      BY <2>4, <3>1, <3>2
  <2> QED
    BY <1>0, <2>1, <2>4, <2>6, <2>7 DEF ViewInv, InitialNotRemove
<1>4. CASE truth = None
  BY <1>0, <1>1, <1>4 DEF Snapshots
<1>5. CASE truth # None
  <2>1. ASSUME wire' # <<UpdateAdd(truth)>>
        PROVE  \E S \in SUBSET Addrs : wire' = <<UpdateAdd(On(truth, S)), UpdateAdd(On(truth, Addrs \ S))>>
    <3>1. PICK S \in SUBSET Present(truth) : wire' = <<UpdateAdd(On(truth, S)), UpdateAdd(On(truth, Addrs \ S))>>
      BY <1>0, <1>5, <2>1, Zenon DEF Snapshots
    <3>2. S \in SUBSET Addrs
      BY DEF Present
    <3> QED
      BY <3>1, <3>2
  <2> QED
    BY <1>2, <1>3, <2>1, Zenon
<1> QED
  BY <1>4, <1>5

LEMMA NextView ==
    ResolutionTypeOK /\ ViewInv /\ InitialNotRemove /\ [ResolutionNext]_resolutionVars => ViewInv' /\ InitialNotRemove'
<1> SUFFICES ASSUME ResolutionTypeOK, ViewInv, InitialNotRemove, [ResolutionNext]_resolutionVars
             PROVE  ViewInv' /\ InitialNotRemove'
  OBVIOUS
<1>0. ASSUME rstate' # "connected" PROVE ViewInv' /\ InitialNotRemove'
  BY <1>0 DEF ViewInv, InitialNotRemove
<1>1. ASSUME NEW eps, NEW msg, CtlStep(eps, msg) PROVE ViewInv' /\ InitialNotRemove'
  <2>1. rstate' = rstate
    BY <1>1 DEF CtlStep, Change
  <2> QED
    BY <1>0, <1>1, <2>1, CtlView
<1>2. CASE Recv
  BY <1>2, RecvSkips, RecvApplies
<1>3. CASE Connected
  BY <1>3, ConnectedView
<1>4. CASE Recover \/ BackoffElapsed \/ Reconnect \/ \E reject \in BOOLEAN : StreamFails(reject) \/ ConnectFails(reject)
  <2>1. rstate' # "connected"
    BY <1>4 DEF Recover, BackoffElapsed, Reconnect, StreamFails, ConnectFails
  <2> QED
    BY <1>0, <2>1
<1>5. CASE UNCHANGED resolutionVars
  <2>1. UNCHANGED <<truth, wire, rstate, isInitial, pool>>
    BY <1>5 DEF resolutionVars
  <2>2. Useful' = Useful
    BY <2>1 DEF Useful, Skipped
  <2>3. \A i, a : (Decides(i, a)' <=> Decides(i, a)) /\ Decided(i, a)' = Decided(i, a)
    BY <2>1, <2>2 DEF Decides, Decided, IsReset
  <2>4. ViewInv'
    BY <2>1, <2>2, <2>3 DEF ViewInv
  <2>5. InitialNotRemove'
    BY <2>1, <2>2 DEF InitialNotRemove
  <2> QED
    BY <2>4, <2>5
<1> QED
  BY <1>1, <1>2, <1>3, <1>4, <1>5, StepKinds

\* Where the stream has, or had, a useful message, the worker's endpoints and
\* the messages under way add up to the control plane's endpoints.
LEMMA ViewSuffices == ResolutionTypeOK /\ ViewInv => ViewAddsUp
<1> SUFFICES ASSUME ResolutionTypeOK, ViewInv, rstate = "connected", isInitial => Useful # {}, NEW a \in Valid
             PROVE  LET deciding == {i \in Useful : Decides(i, a)}
                    IN  truth[a] = IF deciding = {} THEN pool[a]
                                   ELSE Decided(CHOOSE i \in deciding : \A j \in deciding : j <= i, a)
  BY DEF ViewAddsUp
<1> DEFINE deciding == {i \in Useful : Decides(i, a)}
<1>1. Len(wire) \in Nat /\ Useful \in SUBSET (1 .. Len(wire)) /\ Useful \in SUBSET Nat
  BY DEF Useful, ResolutionTypeOK
<1>2. CASE deciding = {}
  <2>1. ~isInitial
    <3> SUFFICES ASSUME isInitial PROVE FALSE
      OBVIOUS
    <3>1. PICK m \in Useful : \A k \in Useful : m <= k
      BY <1>1, Least
    <3>2. Decides(m, a)
      BY <3>1 DEF Decides, IsReset
    <3> QED
      BY <1>2, <3>2
  <2>2. truth[a] = pool[a]
    BY <1>2, <2>1 DEF ViewInv
  <2> QED
    BY <1>2, <2>2
<1>3. CASE deciding # {}
  <2> DEFINE m == CHOOSE i \in deciding : \A j \in deciding : j <= i
  <2>1. \E i \in deciding : \A j \in deciding : j <= i
    BY <1>1, <1>3, Greatest, Zenon
  <2>2. m \in deciding /\ \A j \in deciding : j <= m
    BY <2>1
  <2> HIDE DEF m
  <2>3. truth[a] = Decided(m, a)
    BY <2>2 DEF ViewInv
  <2> QED
    BY <1>3, <2>3 DEF m
<1> QED
  BY <1>2, <1>3

-----------------------------------------------------------------------------
(* The theorems. *)

LEMMA InitIInv == ResolutionInit => IInv
<1> SUFFICES ASSUME ResolutionInit PROVE IInv
  OBVIOUS
<1>0. /\ rstate = "connecting" /\ backoff = 0 /\ fails = 0 /\ MaxBackoff \in Nat \ {0}
      /\ wire = <<>> /\ pool = None /\ truth \in EndpointSets
  BY ResolutionConstants DEF ResolutionInit
<1>1. ResolutionTypeOK
  <2>1. wire \in Seq(Messages) /\ pool \in EndpointSets /\ backoff \in 0 .. MaxBackoff
    BY <1>0, SetTypes
  <2>2. rejected \in BOOLEAN /\ isInitial \in BOOLEAN
    BY Zenon DEF ResolutionInit
  <2>3. fails \in Nat /\ changes \in Nat /\ faults \in Nat
    BY DEF ResolutionInit
  <2> QED
    BY <1>0, <2>1, <2>2, <2>3, Zenon DEF ResolutionTypeOK
<1>2. ViewInv /\ InitialNotRemove
  BY <1>0 DEF ViewInv, InitialNotRemove
<1>3. BackoffInv
  BY <1>0 DEF BackoffInv, BackoffGrows
<1> QED
  BY <1>1, <1>2, <1>3 DEF IInv

LEMMA NextIInv == IInv /\ [ResolutionNext]_resolutionVars => IInv'
BY NextType, NextBackoff, NextView, Zenon DEF IInv

\* Messages, endpoint sets and counters keep their types through every change,
\* failure and reconnection of the resolution.
THEOREM TypeCorrect == ResolutionSpec => []ResolutionTypeOK
<1>1. ResolutionInit => IInv
  BY InitIInv
<1>2. IInv /\ [ResolutionNext]_resolutionVars => IInv'
  BY NextIInv
<1>3. IInv => ResolutionTypeOK
  BY DEF IInv
<1> QED
  BY <1>1, <1>2, <1>3, PTL DEF ResolutionSpec

\* Whatever the control plane changes, wherever streams break and however the
\* endpoints are split into messages: the endpoints the worker has applied and
\* the updates it has yet to receive add up to the control plane's endpoints
\* (api-resolve's mk_update and recover.rs's poll_next lose and invent nothing);
\* the first update of a stream is never a Remove (poll_next's assertion); and
\* the n-th consecutive failure waits for the n-th delay, as poll_connected keeps
\* one backoff stream until a connection succeeds or the stream is exhausted.
THEOREM ViewSafe == ResolutionSpec => []ResolutionSafe
<1>1. ResolutionInit => IInv
  BY InitIInv
<1>2. IInv /\ [ResolutionNext]_resolutionVars => IInv'
  BY NextIInv
<1>3. IInv => ResolutionSafe
  BY ViewSuffices DEF IInv, BackoffInv, BackoffGrows, ResolutionSafe
<1> QED
  BY <1>1, <1>2, <1>3, PTL DEF ResolutionSpec

-----------------------------------------------------------------------------
(* The time limits of a stream (StreamLimits)                              *)

IsLimit(limit) == limit \in Nat \/ limit = Off

\* Before the first item the timer is that of the call; afterwards it is the idle
\* limit's, if there is one.  It has not passed unnoticed.
TimerInv ==
    /\ (stage = "calling" \/ (stage = "streaming" /\ recvInit = TRUE)) =>
          recv = IF Initial # Off THEN opened + Initial ELSE IF Idle # Off THEN opened + Idle ELSE Never
    /\ stage = "streaming" /\ recvInit = FALSE /\ Idle # Off => recv = last + Idle
    /\ stage = "streaming" /\ Idle = Off /\ Initial = Off => recv = Never
    /\ stage \in {"calling", "streaming"} => now <= recv

LimitsInv == LimitsTypeOK /\ TimerInv

LEMMA Deadlines ==
    ASSUME MaxTime \in Nat, Off \notin Nat, now \in 0 .. MaxTime, NEW limit, IsLimit(limit)
    PROVE  /\ DeadlineIn(limit) \in Nat /\ now <= DeadlineIn(limit)
           /\ limit # Off => DeadlineIn(limit) = now + limit
           /\ limit = Off => DeadlineIn(limit) = Never
<1>1. CASE limit = Off
  BY <1>1 DEF DeadlineIn, Never
<1>2. CASE limit # Off
  BY <1>2 DEF DeadlineIn, IsLimit
<1> QED
  BY <1>1, <1>2

LEMMA NextLimits ==
    ASSUME MaxTime \in Nat, Off \notin Nat, IsLimit(Initial), IsLimit(Idle), IsLimit(Lifetime),
           LimitsInv, [LimitsNext]_limitsVars
    PROVE  LimitsInv'
<1>0. /\ now \in 0 .. MaxTime /\ recv \in Nat /\ lifetime \in Nat /\ opened \in 0 .. MaxTime /\ last \in 0 .. MaxTime
      /\ recvInit \in BOOLEAN /\ stage \in {"idle", "calling", "streaming", "ended", "failed"} /\ Never \in Nat
  BY DEF LimitsInv, LimitsTypeOK, Never
<1>i. TimerInv
  BY DEF LimitsInv
<1>d. \A limit : IsLimit(limit) =>
          /\ DeadlineIn(limit) \in Nat /\ now <= DeadlineIn(limit)
          /\ limit # Off => DeadlineIn(limit) = now + limit
          /\ limit = Off => DeadlineIn(limit) = Never
  BY <1>0, Deadlines
<1>1. CASE BeginCall
  <2>1. recv' = (IF Initial # Off THEN now + Initial ELSE IF Idle # Off THEN now + Idle ELSE Never)
    BY <1>1, <1>d DEF BeginCall
  <2>2. recv' \in Nat /\ now <= recv'
    BY <1>1, <1>d DEF BeginCall
  <2>3. LimitsTypeOK'
    BY <1>0, <1>1, <2>2 DEF BeginCall, LimitsTypeOK
  <2>4. recv' = Never \/ Idle # Off \/ Initial # Off
    BY <2>1
  <2>5. TimerInv'
    BY <1>0, <1>1, <2>1, <2>2, <2>4 DEF BeginCall, TimerInv, Never
  <2> QED
    BY <2>3, <2>5 DEF LimitsInv
<1>2. CASE StreamOpens
  <2>1. LimitsTypeOK'
    BY <1>0, <1>2, <1>d DEF StreamOpens, LimitsTypeOK
  <2>2. TimerInv'
    BY <1>0, <1>i, <1>2 DEF StreamOpens, TimerInv, Never
  <2> QED
    BY <2>1, <2>2 DEF LimitsInv
<1>3. CASE CallTimeout \/ LifetimeOver \/ RecvTimeout
  <2>1. stage' \in {"ended", "failed"} /\ UNCHANGED <<now, recv, lifetime, recvInit, opened, last>>
    BY <1>3 DEF CallTimeout, LifetimeOver, RecvTimeout
  <2> QED
    BY <1>0, <2>1 DEF LimitsInv, LimitsTypeOK, TimerInv
<1>4. CASE Item
  <2>1. /\ Idle # Off => recv' = now + Idle
        /\ Idle = Off => recv' = recv
        /\ recv' \in Nat /\ now <= recv'
    BY <1>0, <1>i, <1>4, <1>d DEF Item, TimerInv
  <2>2. LimitsTypeOK'
    BY <1>0, <1>4, <2>1, Zenon DEF Item, LimitsTypeOK
  <2>3. TimerInv'
    BY <1>0, <1>i, <1>4, <2>1 DEF Item, TimerInv, Never
  <2> QED
    BY <2>2, <2>3 DEF LimitsInv
<1>5. CASE InnerEnds
  BY <1>0, <1>5 DEF InnerEnds, LimitsInv, LimitsTypeOK, TimerInv
<1>6. CASE LimitsTick
  <2>1. LimitsTypeOK'
    BY <1>0, <1>6 DEF LimitsTick, LimitsTypeOK
  <2>2. stage \in {"calling", "streaming"} => now + 1 <= recv
    BY <1>0, <1>6 DEF LimitsTick
  <2>3. TimerInv'
    BY <1>0, <1>i, <1>6, <2>2 DEF LimitsTick, TimerInv, Never
  <2> QED
    BY <2>1, <2>3 DEF LimitsInv
<1>7. CASE UNCHANGED limitsVars
  BY <1>7 DEF limitsVars, LimitsInv, LimitsTypeOK, TimerInv, Never
<1> QED
  BY <1>1, <1>2, <1>3, <1>4, <1>5, <1>6, <1>7 DEF LimitsNext

(***************************************************************************)
(* Whatever the limits are: a control stream is waited for no longer than  *)
(* they allow, the initial one covers the call and the wait for the first  *)
(* item together, and a stream that has had its first item ends only when  *)
(* its idle limit or its lifetime is over (LimitReceiveFuture,             *)
(* LimitReceiveStream).  The last of these needs an idle limit wherever    *)
(* there is an initial one: without it the timer of the call stays armed.  *)
(***************************************************************************)
THEOREM LimitsSafe == LimitsSpec => LimitsKept
<1>c. MaxTime \in Nat /\ Off \notin Nat /\ (Initial # Off => Idle # Off) BY LimitsConstants
<1>l. IsLimit(Initial) /\ IsLimit(Idle) /\ IsLimit(Lifetime) BY LimitsConstants DEF IsLimit
<1> USE <1>c, <1>l
<1>1. LimitsInit => LimitsInv
  BY DEF LimitsInit, LimitsInv, LimitsTypeOK, TimerInv, Never
<1>2. LimitsInv /\ [LimitsNext]_limitsVars => LimitsInv'
  BY NextLimits
<1>3. LimitsInv => WaitBounded /\ InitialSpansResponse
  <2> SUFFICES ASSUME LimitsInv PROVE WaitBounded /\ InitialSpansResponse
    OBVIOUS
  <2>1. now \in 0 .. MaxTime /\ recvInit \in BOOLEAN /\ opened \in Nat /\ last \in Nat /\ TimerInv
    BY DEF LimitsInv, LimitsTypeOK
  <2>2. InitialSpansResponse
    BY <2>1 DEF InitialSpansResponse, TimerInv
  <2>3. stage = "calling" => Within(opened, Initial)
    BY <2>1 DEF TimerInv, Within, IsLimit
  <2>4. stage = "streaming" /\ recvInit = TRUE => Within(opened, Initial)
    BY <2>1 DEF TimerInv, Within, IsLimit
  <2>5. stage = "streaming" /\ recvInit = FALSE => Within(last, Idle)
    BY <2>1 DEF TimerInv, Within, IsLimit
  <2> QED
    BY <2>1, <2>2, <2>3, <2>4, <2>5, Zenon DEF WaitBounded
<1>4. LimitsInv /\ [LimitsNext]_limitsVars => [EndsInTime]_limitsVars
  <2> SUFFICES ASSUME LimitsInv, LimitsNext, stage = "streaming", stage' = "ended"
               PROVE  now >= lifetime \/ (Idle # Off /\ now >= last + Idle)
    BY DEF EndsInTime
  <2>1. now \in 0 .. MaxTime /\ recv \in Nat /\ recvInit \in BOOLEAN /\ TimerInv
    BY DEF LimitsInv, LimitsTypeOK
  <2>2. LifetimeOver \/ RecvTimeout
    BY DEF LimitsNext, BeginCall, StreamOpens, CallTimeout, Item, InnerEnds, LimitsTick
  <2>3. CASE LifetimeOver
    BY <2>3 DEF LifetimeOver
  <2>4. CASE RecvTimeout
    <3>1. recvInit = FALSE /\ now >= recv
      BY <2>1, <2>4 DEF RecvTimeout
    <3>2. Idle # Off
      BY <2>1, <3>1 DEF TimerInv, Never
    <3> QED
      BY <2>1, <3>1, <3>2 DEF TimerInv
  <2> QED
    BY <2>2, <2>3, <2>4
<1> QED
  BY <1>1, <1>2, <1>3, <1>4, PTL DEF LimitsSpec, LimitsKept

-----------------------------------------------------------------------------
(* The watches that are fed by control streams (StreamWatch)               *)

\* Items are on their way only while the stream is up; they are in order, none is
\* older than what receivers have, and the last one is the newest there is.
ItemsInv ==
    /\ phase \in {"call", "backoff"} => items = << >>
    /\ watch <= newest
    /\ \A i \in 1 .. Len(items) : watch <= items[i] /\ items[i] <= newest
    /\ \A i, j \in 1 .. Len(items) : i <= j => items[i] <= items[j]
    /\ NewestOnItsWay

\* The delay that comes next is that of the next failure.
DelayInv ==
    /\ phase = "backoff" => misses >= 1 /\ delay \in 1 .. MaxDelays
    /\ phase = "stream" => misses = 0
    /\ phase = "call" /\ misses = 0 => delay \in {0, 1}
    /\ phase = "call" /\ misses >= 1 /\ misses <= MaxDelays => delay = misses + 1
    /\ DelaysGrow

WatchInv == WatchTypeOK /\ ItemsInv /\ DelayInv

LEMMA WatchSteps ==
    ASSUME MaxDelays \in Nat \ {0}, MaxVersion \in Nat, MaxLosses \in Nat,
           WatchInv, [WatchNext]_watchVars
    PROVE  WatchInv' /\ watch' >= watch
<1>0. /\ mode \in Modes /\ phase \in {"call", "backoff", "stream", "done"}
      /\ publishing \in BOOLEAN /\ receivers \in BOOLEAN
      /\ delay \in 0 .. (MaxDelays + 1) /\ newest \in 0 .. MaxVersion /\ watch \in -1 .. MaxVersion
      /\ items \in Seq(0 .. MaxVersion) /\ misses \in Nat /\ losses \in 0 .. MaxLosses
      /\ ItemsInv /\ DelayInv
  BY DEF WatchInv, WatchTypeOK
<1>l. Loss => losses' \in 0 .. MaxLosses
  BY <1>0 DEF Loss
\* A step that obtains a value from a new stream.
<1>n. ASSUME phase = "call", phase' \in {"stream", "done"}, watch' \in {watch, newest},
             phase' = "stream" => watch' = newest, UNCHANGED <<newest, items, delay>>, misses' = 0
      PROVE  ItemsInv' /\ DelayInv' /\ watch' \in -1 .. MaxVersion /\ watch' >= watch
  <2>1. items = << >> /\ Len(items) = 0 /\ watch <= newest
    BY <1>0, <1>n DEF ItemsInv
  <2>2. watch' \in -1 .. MaxVersion /\ watch' >= watch /\ watch' <= newest
    BY <1>0, <1>n, <2>1
  <2>3. ItemsInv'
    BY <1>0, <1>n, <2>1, <2>2 DEF ItemsInv, NewestOnItsWay
  <2>4. DelayInv'
    BY <1>n DEF DelayInv, DelaysGrow
  <2> QED
    BY <2>2, <2>3, <2>4
<1>1. CASE FirstValue
  <2>1. /\ phase = "call" /\ phase' \in {"stream", "done"} /\ watch' \in {watch, newest}
        /\ phase' = "stream" => watch' = newest
        /\ misses' = 0 /\ UNCHANGED <<mode, delay, newest, items, losses>>
    BY <1>1 DEF FirstValue
  <2>2. publishing' = TRUE /\ receivers' \in BOOLEAN
    BY <1>1, Zenon DEF FirstValue
  <2>3. ItemsInv' /\ DelayInv' /\ watch' \in -1 .. MaxVersion /\ watch' >= watch
    BY <1>n, <2>1
  <2>4. WatchTypeOK'
    BY <1>0, <2>1, <2>2, <2>3 DEF WatchTypeOK
  <2> QED
    BY <2>3, <2>4 DEF WatchInv
<1>2. CASE Relookup
  <2>1. ItemsInv' /\ DelayInv' /\ watch' \in -1 .. MaxVersion /\ watch' >= watch
    BY <1>n, <1>2 DEF Relookup
  <2>2. WatchTypeOK'
    BY <1>0, <1>2, <2>1 DEF Relookup, WatchTypeOK
  <2> QED
    BY <2>1, <2>2 DEF WatchInv
<1>3. ASSUME NEW reject \in BOOLEAN, CallFails(reject)
      PROVE  WatchInv' /\ watch' >= watch
  <2>1. /\ phase = "call" /\ phase' \in {"done", "backoff"} /\ items = << >> /\ Len(items) = 0
        /\ UNCHANGED <<mode, publishing, newest, items, watch, receivers>>
        /\ losses' \in 0 .. MaxLosses
        /\ misses' = IF misses > MaxDelays THEN misses ELSE misses + 1
    BY <1>0, <1>3, <1>l DEF CallFails, ItemsInv
  <2>2. /\ delay' \in 0 .. (MaxDelays + 1)
        /\ phase' = "backoff" => delay' = IF delay \in 1 .. MaxDelays THEN delay ELSE 1
    BY <1>0, <1>3 DEF CallFails
  <2>3. WatchTypeOK'
    BY <1>0, <2>1, <2>2 DEF WatchTypeOK
  <2>4. ItemsInv'
    BY <1>0, <2>1 DEF ItemsInv, NewestOnItsWay
  <2>5. DelayInv'
    <3>1. misses' \in Nat /\ misses' >= 1
      BY <1>0, <2>1
    <3>2. phase' = "backoff" => delay' \in 1 .. MaxDelays
      BY <1>0, <2>2
    <3>3. ASSUME phase' = "backoff", misses' <= MaxDelays PROVE delay' = misses'
      <4>1. misses' = misses + 1
        BY <1>0, <2>1, <3>3
      <4>2. CASE misses = 0
        BY <1>0, <2>1, <2>2, <3>3, <4>1, <4>2 DEF DelayInv
      <4>3. CASE misses >= 1
        BY <1>0, <2>1, <2>2, <3>3, <4>1, <4>3 DEF DelayInv
      <4> QED
        BY <1>0, <4>2, <4>3
    <3> QED
      BY <2>1, <3>1, <3>2, <3>3 DEF DelayInv, DelaysGrow
  <2> QED
    BY <1>0, <2>1, <2>3, <2>4, <2>5 DEF WatchInv
<1>4. CASE BackedOff
  <2>1. WatchTypeOK'
    BY <1>0, <1>4 DEF BackedOff, WatchTypeOK, DelayInv
  <2>2. ItemsInv'
    BY <1>0, <1>4 DEF BackedOff, ItemsInv, NewestOnItsWay
  <2>3. DelayInv'
    BY <1>0, <1>4 DEF BackedOff, DelayInv, DelaysGrow
  <2> QED
    BY <1>0, <1>4, <2>1, <2>2, <2>3 DEF WatchInv, BackedOff
<1>5. CASE PublishItem
  <2>1. /\ items # << >> /\ Len(items) \in Nat /\ Len(items) > 0 /\ items' = Tail(items) /\ watch' = items[1]
        /\ items' \in Seq(0 .. MaxVersion) /\ Len(items') = Len(items) - 1
        /\ \A i \in 1 .. Len(items') : items'[i] = items[i + 1] /\ i + 1 \in 1 .. Len(items)
        /\ UNCHANGED <<mode, phase, publishing, delay, newest, receivers, misses, losses>> /\ phase = "stream"
    BY <1>0, <1>5 DEF PublishItem
  <2>2. \A i \in 1 .. Len(items) : items[i] \in 0 .. MaxVersion
    BY <1>0
  <2>3. 1 \in 1 .. Len(items) /\ watch' \in 0 .. MaxVersion /\ watch' >= watch /\ watch' <= newest
    BY <1>0, <2>1, <2>2 DEF ItemsInv
  <2>4. WatchTypeOK'
    BY <1>0, <2>1, <2>3 DEF WatchTypeOK
  <2>5. ASSUME NEW i \in 1 .. Len(items') PROVE watch' <= items'[i] /\ items'[i] <= newest'
    BY <1>0, <2>1, <2>3 DEF ItemsInv
  <2>6. ASSUME NEW i \in 1 .. Len(items'), NEW j \in 1 .. Len(items'), i <= j PROVE items'[i] <= items'[j]
    <3>1. i + 1 \in 1 .. Len(items) /\ j + 1 \in 1 .. Len(items) /\ i + 1 <= j + 1
      BY <2>1, <2>6
    <3> QED
      BY <1>0, <2>1, <3>1 DEF ItemsInv
  <2>7. NewestOnItsWay'
    <3>1. newest = items[Len(items)]
      BY <1>0, <2>1 DEF ItemsInv, NewestOnItsWay
    <3>2. CASE Len(items) = 1
      <4>1. items' \in Seq(0 .. MaxVersion) /\ Len(items') = 0
        BY <2>1, <3>2
      <4>2. items' = << >>
        BY <4>1
      <4>3. watch' = newest' /\ phase' = phase
        BY <2>1, <3>1, <3>2, Zenon
      <4> QED
        BY <4>2, <4>3, Zenon DEF NewestOnItsWay
    <3>3. CASE Len(items) # 1
      <4>1. Len(items') \in 1 .. Len(items') /\ items'[Len(items')] = items[Len(items)] /\ items' # << >>
        <5>1. Len(items') \in Nat /\ Len(items') >= 1 /\ Len(items') + 1 = Len(items)
          BY <2>1, <3>3
        <5>2. Len(items') \in 1 .. Len(items')
          BY <5>1
        <5>3. items'[Len(items')] = items[Len(items') + 1]
          BY <2>1, <5>2
        <5> QED
          BY <5>1, <5>2, <5>3
      <4> QED
        BY <2>1, <3>1, <4>1 DEF NewestOnItsWay
    <3> QED
      BY <3>2, <3>3
  <2>8. ItemsInv'
    BY <2>1, <2>3, <2>5, <2>6, <2>7 DEF ItemsInv
  <2>9. DelayInv'
    BY <1>0, <2>1 DEF DelayInv, DelaysGrow
  <2> QED
    BY <2>3, <2>4, <2>8, <2>9 DEF WatchInv
<1>6. ASSUME NEW reject \in BOOLEAN, WatchFails(reject)
      PROVE  WatchInv' /\ watch' >= watch
  <2>1. /\ phase' \in {"done", "call"} /\ delay' = 1 /\ items' = << >> /\ Len(items') = 0
        /\ items' \in Seq(0 .. MaxVersion) /\ losses' \in 0 .. MaxLosses
        /\ UNCHANGED <<mode, publishing, newest, watch, receivers, misses>> /\ phase = "stream"
    BY <1>6, <1>l DEF WatchFails
  <2>2. WatchTypeOK'
    BY <1>0, <2>1 DEF WatchTypeOK
  <2>3. ItemsInv'
    BY <1>0, <2>1 DEF ItemsInv, NewestOnItsWay
  <2>4. DelayInv'
    BY <1>0, <2>1 DEF DelayInv, DelaysGrow
  <2> QED
    BY <1>0, <2>1, <2>2, <2>3, <2>4 DEF WatchInv
<1>7. CASE ReceiversGone \/ CancelLookup
  <2>1. phase' = "done" /\ UNCHANGED <<mode, publishing, delay, newest, items, watch, receivers, misses, losses>>
    BY <1>7 DEF ReceiversGone, CancelLookup
  <2>2. ItemsInv' /\ DelayInv'
    BY <1>0, <2>1 DEF ItemsInv, NewestOnItsWay, DelayInv, DelaysGrow
  <2> QED
    BY <1>0, <2>1, <2>2 DEF WatchInv, WatchTypeOK
<1>8. CASE DropReceivers
  <2>1. ItemsInv' /\ DelayInv'
    BY <1>0, <1>8 DEF DropReceivers, ItemsInv, NewestOnItsWay, DelayInv, DelaysGrow
  <2>2. receivers' = FALSE /\ UNCHANGED <<mode, phase, publishing, delay, newest, items, watch, misses, losses>>
    BY <1>8 DEF DropReceivers
  <2>3. WatchTypeOK'
    BY <1>0, <2>2, Zenon DEF WatchTypeOK
  <2>4. watch' >= watch
    BY <1>0, <2>2
  <2> QED
    BY <2>1, <2>3, <2>4 DEF WatchInv
<1>9. CASE NewVersion
  <2>1. /\ newest' = newest + 1 /\ newest' \in 0 .. MaxVersion
        /\ UNCHANGED <<mode, phase, publishing, delay, watch, receivers, misses, losses>>
        /\ phase = "stream" => items' = Append(items, newest')
        /\ phase # "stream" => items' = items
    BY <1>0, <1>9 DEF NewVersion
  <2>2. items' \in Seq(0 .. MaxVersion)
    <3>1. Append(items, newest') \in Seq(0 .. MaxVersion)
      BY <1>0, <2>1
    <3> QED
      BY <1>0, <2>1, <3>1, Zenon
  <2>3. WatchTypeOK'
    BY <1>0, <2>1, <2>2 DEF WatchTypeOK
  <2>4. DelayInv'
    BY <1>0, <2>1 DEF DelayInv, DelaysGrow
  <2>5. ItemsInv'
    <3>0. \A i \in 1 .. Len(items) : items[i] \in 0 .. MaxVersion
      BY <1>0
    <3>1. CASE phase = "stream"
      <4>1. /\ Len(items) \in Nat /\ Len(items') = Len(items) + 1
            /\ \A i \in 1 .. Len(items) : items'[i] = items[i]
            /\ items'[Len(items')] = newest'
        <5>1. items \in Seq(0 .. MaxVersion) /\ newest' \in 0 .. MaxVersion /\ items' = Append(items, newest')
          BY <1>0, <2>1, <3>1, Zenon
        <5> QED
          BY <5>1
      <4>2. ASSUME NEW i \in 1 .. Len(items') PROVE watch' <= items'[i] /\ items'[i] <= newest'
        <5>1. /\ watch \in -1 .. MaxVersion /\ newest \in 0 .. MaxVersion /\ watch <= newest
              /\ watch' = watch /\ newest' = newest + 1
          BY <1>0, <2>1, Zenon DEF ItemsInv
        <5>2. CASE i = Len(items')
          <6>1. items'[i] = newest'
            BY <4>1, <5>2, Zenon
          <6> QED
            BY <5>1, <6>1
        <5>3. CASE i # Len(items')
          <6>1. i \in 1 .. Len(items)
            BY <4>1, <5>3
          <6>2. items'[i] = items[i] /\ items[i] \in 0 .. MaxVersion
            BY <3>0, <4>1, <6>1, Zenon
          <6>3. watch <= items[i] /\ items[i] <= newest
            BY <1>0, <6>1, Zenon DEF ItemsInv
          <6> QED
            BY <5>1, <6>2, <6>3
        <5> QED
          BY <5>2, <5>3, Zenon
      <4>3. ASSUME NEW i \in 1 .. Len(items'), NEW j \in 1 .. Len(items'), i <= j PROVE items'[i] <= items'[j]
        <5>1. CASE j = Len(items')
          <6>1. items'[j] = newest'
            BY <4>1, <5>1, Zenon
          <6>2. items'[i] <= newest'
            BY <4>2, Zenon
          <6> QED
            BY <6>1, <6>2, Zenon
        <5>2. CASE j # Len(items')
          <6>1. i \in 1 .. Len(items) /\ j \in 1 .. Len(items)
            BY <4>1, <4>3, <5>2
          <6>2. items'[i] = items[i] /\ items'[j] = items[j]
            BY <4>1, <6>1, Zenon
          <6>3. items[i] <= items[j]
            BY <1>0, <4>3, <6>1, Zenon DEF ItemsInv
          <6> QED
            BY <6>2, <6>3, Zenon
        <5> QED
          BY <5>1, <5>2
      <4>4. NewestOnItsWay'
        <5>1. items' # << >>
          BY <4>1
        <5>2. items'[Len(items')] = newest'
          BY <4>1, Zenon
        <5> QED
          BY <5>1, <5>2, Zenon DEF NewestOnItsWay
      <4> QED
        BY <1>0, <2>1, <3>1, <4>2, <4>3, <4>4 DEF ItemsInv
    <3>2. CASE phase # "stream"
      BY <1>0, <2>1, <3>0, <3>2 DEF ItemsInv, NewestOnItsWay
    <3> QED
      BY <3>1, <3>2
  <2> QED
    BY <1>0, <2>1, <2>3, <2>4, <2>5 DEF WatchInv
<1>10. CASE UNCHANGED watchVars
  <2>1. UNCHANGED <<mode, phase, publishing, delay, newest, items, watch, receivers, misses, losses>>
    BY <1>10, Zenon DEF watchVars
  <2>2. WatchInv'
    BY <2>1, Zenon DEF WatchInv, WatchTypeOK, ItemsInv, NewestOnItsWay, DelayInv, DelaysGrow
  <2>3. watch' = watch
    BY <2>1, Zenon
  <2> QED
    BY <1>0, <2>2, <2>3
<1> QED
  BY <1>1, <1>2, <1>3, <1>4, <1>5, <1>6, <1>7, <1>8, <1>9, <1>10, Zenon DEF WatchNext

(***************************************************************************)
(* However often a control stream fails and its target is looked up again  *)
(* (recovering_next, init): the receivers of a watch have the control      *)
(* plane's newest value or it is the last one on its way to them, they     *)
(* never go back to an older value, and the n-th failed lookup in a row is *)
(* followed by the n-th delay of one backoff stream.                       *)
(***************************************************************************)
THEOREM WatchSafe == WatchSpec => WatchFaithful
<1> USE WatchConstants
<1>1. WatchInit => WatchInv
  <2> SUFFICES ASSUME WatchInit PROVE WatchInv
    OBVIOUS
  <2>1. receivers \in BOOLEAN /\ publishing \in BOOLEAN
    BY Zenon DEF WatchInit
  <2>2. WatchTypeOK
    BY <2>1 DEF WatchInit, WatchTypeOK
  <2>3. ItemsInv
    BY DEF WatchInit, ItemsInv, NewestOnItsWay
  <2>4. DelayInv
    BY DEF WatchInit, DelayInv, DelaysGrow
  <2> QED
    BY <2>2, <2>3, <2>4 DEF WatchInv
<1>2. WatchInv /\ [WatchNext]_watchVars => WatchInv'
  BY WatchSteps
<1>3. WatchInv /\ [WatchNext]_watchVars => [OnlyForwards]_watchVars
  BY WatchSteps DEF OnlyForwards
<1>4. WatchInv => NewestOnItsWay /\ DelaysGrow
  BY DEF WatchInv, ItemsInv, DelayInv
<1> QED
  BY <1>1, <1>2, <1>3, <1>4, PTL DEF WatchSpec, WatchFaithful
=============================================================================
