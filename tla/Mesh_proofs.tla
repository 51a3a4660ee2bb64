----------------------------- MODULE Mesh_proofs -----------------------------
(***************************************************************************)
(* The safety properties of what makes proxies a mesh: identities and the  *)
(* TLS between them (Identity), for any certificates, updates, peers and   *)
(* times, and gateways (Gateways), for any gateways, names and requests.   *)
(***************************************************************************)
EXTENDS Identity, Gateways, WellFoundedInduction, SequenceTheorems, TLAPS

-----------------------------------------------------------------------------
(* Identities (Identity)                                                   *)

Certified(cert) == cert.trusted /\ cert.keyOk /\ verify_id(cert, LocalId)

Publishing == {"client", "server", "notify"}
LinkerdTask == {"start", "requested", "sleep", "sleeping"} \cup Publishing
SpireTask == {"subscribe", "panicked", "update", "await", "ended"} \cup Publishing

\* The fields of the records.
TaskFields(t) ==
    t = [pc |-> t.pc, cert |-> t.cert, until |-> t.until, expiry |-> t.expiry, slept |-> t.slept, wake |-> t.wake]
StoreFields(s) == s = [client |-> s.client, server |-> s.server, version |-> s.version]
AlpnFields(a) == a = [pc |-> a.pc, cfg |-> a.cfg, seen |-> a.seen]
CertMetricsFields(m) == m = [refreshes |-> m.refreshes, errors |-> m.errors, expiryTs |-> m.expiryTs]
TlsFields(h) ==
    h = [pc |-> h.pc, cfg |-> h.cfg, alpn |-> h.alpn, peer |-> h.peer, id |-> h.id,
         protocol |-> h.protocol, announced |-> h.announced]

\* What the task publishes is there, and is validated; the store has it in halves only
\* between its two steps.
TaskInv ==
    /\ TaskFields(task)
    /\ source \in Sources /\ time \in Nat
    /\ source.provider = "linkerd" => task.pc \in LinkerdTask /\ task.until \in Nat /\ task.expiry \in Nat
    /\ source.provider # "linkerd" => task.pc \in SpireTask
    /\ task.pc \in Publishing => task.cert # {}
    /\ \A cert \in task.cert : Certified(cert)
    /\ RefreshInTime

StoreInv ==
    /\ StoreFields(store) /\ store.version \in Nat
    /\ task.pc = "server" => store.client = task.cert
    /\ task.pc = "notify" => store.client = task.cert
    /\ HalvesAgree
    /\ \A cert \in store.client \cup store.server : Certified(cert)
    /\ ready \in BOOLEAN
    /\ ready = TRUE => store.client # {} /\ store.server # {}
    /\ awaiter = "ready" => ready = TRUE

AlpnInv ==
    /\ AlpnFields(alpn) /\ alpn.seen \in Nat /\ alpn.seen <= store.version
    /\ AlpnFollows
    /\ \A cert \in alpn.cfg : Certified(cert)

MetricsInv ==
    /\ CertMetricsFields(certMetrics) /\ certMetrics.refreshes \in Nat
    /\ certMetrics.refreshes = store.version - (IF task.pc = "notify" THEN 1 ELSE 0)
    /\ certMetrics.refreshes > 0 <=> ready = TRUE
    /\ (source.provider = "linkerd" /\ task.pc # "notify") => certMetrics.expiryTs = task.expiry

TlsInv ==
    /\ tls = [c \in TlsConns |-> tls[c]]
    /\ \A c \in TlsConns :
        /\ TlsFields(tls[c])
        /\ \A cert \in tls[c].cfg : Certified(cert)
        /\ (\/ tls[c].pc = "connecting" /\ tls[c].id # {}
            \/ tls[c].pc = "accepting" /\ ~tls[c].alpn) => (tls[c].announced => tls[c].cfg # {})
    /\ PeersAuthenticated

CoreInv == TaskInv /\ StoreInv /\ AlpnInv /\ MetricsInv
IdentityInv == CoreInv /\ TlsInv
coreVars == <<source, time, task, store, alpn, ready, awaiter, certMetrics>>

LEMMA First ==
    ASSUME NEW T \in SUBSET Nat, T # {}
    PROVE  \E x \in T : \A y \in T : x <= y
<1>1. PICK x \in T : \A y \in T : ~(<<y, x>> \in OpToRel(<, Nat)) BY NatLessThanWellFounded, WFMin, Zenon
<1>2. ASSUME NEW y \in T PROVE x <= y
  <2>1. ASSUME y < x PROVE <<y, x>> \in OpToRel(<, Nat) BY <2>1 DEF OpToRel
  <2>2. ~(y < x) BY <1>1, <2>1, Zenon
  <2> QED BY <2>2
<1> QED BY <1>2

-----------------------------------------------------------------------------
\* Handshakes

\* What a step of one connection may do.
LEMMA TlsStep ==
    ASSUME TlsInv, NEW c \in TlsConns, NEW h, tls' = [tls EXCEPT ![c] = h],
           TlsFields(h), \A cert \in h.cfg : Certified(cert),
           (\/ h.pc = "connecting" /\ h.id # {}
            \/ h.pc = "accepting" /\ ~h.alpn) => (h.announced => h.cfg # {}),
           h.pc = "established" =>
             /\ \A cert \in h.peer : cert.trusted
             /\ \A id \in h.id : \E cert \in h.peer : verify_id(cert, id)
             /\ h.id = {} => \A cert \in h.peer : extract_ids_from_cert(cert) = {}
    PROVE  TlsInv'
<1>1. tls' = [d \in TlsConns |-> tls'[d]] /\ tls'[c] = h /\ \A d \in TlsConns : d # c => tls'[d] = tls[d]
  BY DEF TlsInv
<1>2. ASSUME NEW d \in TlsConns
      PROVE  /\ TlsFields(tls'[d])
             /\ \A cert \in tls'[d].cfg : Certified(cert)
             /\ (\/ tls'[d].pc = "connecting" /\ tls'[d].id # {}
                 \/ tls'[d].pc = "accepting" /\ ~tls'[d].alpn) => (tls'[d].announced => tls'[d].cfg # {})
             /\ tls'[d].pc = "established" =>
                  /\ \A cert \in tls'[d].peer : cert.trusted
                  /\ \A id \in tls'[d].id : \E cert \in tls'[d].peer : verify_id(cert, id)
                  /\ tls'[d].id = {} => \A cert \in tls'[d].peer : extract_ids_from_cert(cert) = {}
  <2>1. CASE d = c BY <1>1, <2>1, Zenon
  <2>2. CASE d # c BY <1>1, <2>2, Zenon DEF TlsInv, PeersAuthenticated
  <2> QED BY <2>1, <2>2
<1>3. PeersAuthenticated' BY <1>2, Zenon DEF PeersAuthenticated, extract_ids_from_cert, verify_id
<1> QED BY <1>1, <1>2, <1>3, Zenon DEF TlsInv, Certified, verify_id, extract_ids_from_cert

LEMMA ConnectStep ==
    ASSUME IdentityInv, NEW c \in TlsConns, NEW ids, Connect(c, ids)
    PROVE  TlsInv'
<1> DEFINE cfg == IF ids = {} THEN {} ELSE store.client
           h == [tls[c] EXCEPT !.pc = "connecting", !.id = ids, !.cfg = cfg, !.announced = ready]
<1>1. tls' = [tls EXCEPT ![c] = h] BY DEF Connect, IdentityInv, TlsInv
<1>2. TlsFields(tls[c]) BY DEF IdentityInv, TlsInv
<1>3. TlsFields(h) /\ h.pc = "connecting" /\ h.id = ids /\ h.cfg = cfg /\ h.announced = ready
  <2>1. PICK k : k = h BY Zenon
  <2>2. k.pc = "connecting" /\ k.id = ids /\ k.cfg = cfg /\ k.announced = ready BY <1>2, <2>1 DEF TlsFields
  <2>3. TlsFields(k) BY <1>2, <2>1, Zenon DEF TlsFields
  <2> QED BY <2>1, <2>2, <2>3
<1>4. \A cert \in cfg : Certified(cert) BY DEF IdentityInv, CoreInv, StoreInv
<1>5. ids # {} => (ready => cfg # {}) BY DEF IdentityInv, CoreInv, StoreInv
<1> HIDE DEF h, cfg
<1> QED BY <1>1, <1>3, <1>4, <1>5, TlsStep, Zenon DEF IdentityInv

LEMMA AcceptStep ==
    ASSUME IdentityInv, NEW c \in TlsConns, NEW withAlpn \in BOOLEAN, AcceptTls(c, withAlpn)
    PROVE  TlsInv'
<1> DEFINE cfg == IF withAlpn THEN alpn.cfg ELSE store.server
           h == [tls[c] EXCEPT !.pc = "accepting", !.cfg = cfg, !.alpn = withAlpn, !.announced = ready]
<1>1. tls' = [tls EXCEPT ![c] = h] BY DEF AcceptTls, IdentityInv, TlsInv
<1>2. TlsFields(tls[c]) BY DEF IdentityInv, TlsInv
<1>3. TlsFields(h) /\ h.pc = "accepting" /\ h.cfg = cfg /\ h.alpn = withAlpn /\ h.announced = ready
  <2>1. PICK k : k = h OBVIOUS
  <2>2. k.pc = "accepting" /\ k.cfg = cfg /\ k.alpn = withAlpn /\ k.announced = ready BY <1>2, <2>1 DEF TlsFields
  <2>3. TlsFields(k) BY <1>2, <2>1, Zenon DEF TlsFields
  <2> QED BY <2>1, <2>2, <2>3
<1>4. \A cert \in cfg : Certified(cert) BY DEF IdentityInv, CoreInv, StoreInv, AlpnInv
<1>5. ~withAlpn => (ready => cfg # {}) BY DEF IdentityInv, CoreInv, StoreInv
<1> HIDE DEF h, cfg
<1> QED BY <1>1, <1>3, <1>4, <1>5, TlsStep, Zenon DEF IdentityInv

LEMMA ClientHandshakeStep ==
    ASSUME IdentityInv, NEW c \in TlsConns, NEW peer, ClientHandshake(c, peer)
    PROVE  TlsInv'
<1> DEFINE shown == IF tls[c].id = {} THEN {} ELSE {peer}
           next == Outcome(c, peer)
           h == [tls[c] EXCEPT !.pc = next, !.cfg = {}, !.peer = shown]
<1>1. tls' = [tls EXCEPT ![c] = h] BY DEF ClientHandshake, IdentityInv, TlsInv
<1>2. TlsFields(tls[c]) BY DEF IdentityInv, TlsInv
<1>3. TlsFields(h) /\ h.pc = next /\ h.cfg = {} /\ h.peer = shown /\ h.id = tls[c].id
  <2>1. PICK k : k = h BY Zenon
  <2>2. k.pc = next /\ k.cfg = {} /\ k.peer = shown /\ k.id = tls[c].id BY <1>2, <2>1 DEF TlsFields
  <2>3. TlsFields(k) BY <1>2, <2>1, Zenon DEF TlsFields
  <2> QED BY <2>1, <2>2, <2>3
<1>4. next \in {"plaintext", "established", "failed"} BY DEF Outcome
<1>5. ASSUME next = "established"
      PROVE  tls[c].id # {} /\ peer.trusted /\ \A id \in tls[c].id : verify_id(peer, id)
  BY <1>5 DEF Outcome, verify_server_cert
<1> HIDE DEF h, next
<1>6. next = "established" =>
        /\ \A cert \in shown : cert.trusted
        /\ \A id \in tls[c].id : \E cert \in shown : verify_id(cert, id)
        /\ tls[c].id # {}
  BY <1>5
<1> HIDE DEF shown
<1> QED BY <1>1, <1>3, <1>4, <1>6, TlsStep, Zenon DEF IdentityInv

LEMMA ServerHandshakeStep ==
    ASSUME IdentityInv, NEW c \in TlsConns, NEW peer \in ClientPeers, ServerHandshake(c, peer)
    PROVE  TlsInv'
<1>0. PICK accepted \in BOOLEAN : \E protocol :
        /\ accepted => \A cert \in peer.cert : verify_server_cert(cert)
        /\ tls' = [tls EXCEPT ![c] =
                     [@ EXCEPT !.pc = IF accepted THEN "established" ELSE "failed",
                               !.cfg = {}, !.peer = peer.cert,
                               !.id = IF accepted THEN UNION {client_identity(cert) : cert \in peer.cert} ELSE {},
                               !.protocol = protocol]]
  BY Zenon DEF ServerHandshake
<1>1. PICK protocol :
        /\ accepted => \A cert \in peer.cert : verify_server_cert(cert)
        /\ tls' = [tls EXCEPT ![c] =
                     [@ EXCEPT !.pc = IF accepted THEN "established" ELSE "failed",
                               !.cfg = {}, !.peer = peer.cert,
                               !.id = IF accepted THEN UNION {client_identity(cert) : cert \in peer.cert} ELSE {},
                               !.protocol = protocol]]
  BY <1>0, Zenon
<1> DEFINE ids == IF accepted THEN UNION {client_identity(cert) : cert \in peer.cert} ELSE {}
           next == IF accepted THEN "established" ELSE "failed"
           h == [tls[c] EXCEPT !.pc = next, !.cfg = {}, !.peer = peer.cert, !.id = ids, !.protocol = protocol]
<1>2. tls' = [tls EXCEPT ![c] = h] BY <1>1 DEF IdentityInv, TlsInv
<1>3. TlsFields(tls[c]) BY DEF IdentityInv, TlsInv
<1>4. TlsFields(h) /\ h.pc = next /\ h.cfg = {} /\ h.peer = peer.cert /\ h.id = ids
  <2>1. PICK k : k = h BY Zenon
  <2>2. k.pc = next /\ k.cfg = {} /\ k.peer = peer.cert /\ k.id = ids BY <1>3, <2>1 DEF TlsFields
  <2>3. TlsFields(k) BY <1>3, <2>1, Zenon DEF TlsFields
  <2> QED BY <2>1, <2>2, <2>3
<1>5. ASSUME accepted PROVE \A cert \in peer.cert : cert.trusted BY <1>1, <1>5 DEF verify_server_cert
<1>6. ASSUME NEW cert \in peer.cert, NEW id \in client_identity(cert) PROVE verify_id(cert, id)
  BY DEF client_identity, verify_id
<1>7. ASSUME NEW cert \in peer.cert, client_identity(cert) = {} PROVE extract_ids_from_cert(cert) = {}
  <2>1. extract_ids_from_cert(cert) \in SUBSET Nat BY IdentityConstants, Zenon DEF extract_ids_from_cert
  <2>2. ASSUME NEW i \in extract_ids_from_cert(cert), \A j \in extract_ids_from_cert(cert) : i <= j PROVE FALSE
    BY <1>7, <2>2, Zenon DEF client_identity
  <2> QED BY <2>1, <2>2, First
<1>8. accepted =>
        /\ \A id \in ids : \E cert \in peer.cert : verify_id(cert, id)
        /\ ids = {} => \A cert \in peer.cert : extract_ids_from_cert(cert) = {}
  <2> SUFFICES ASSUME accepted
               PROVE  /\ \A id \in ids : \E cert \in peer.cert : verify_id(cert, id)
                      /\ ids = {} => \A cert \in peer.cert : extract_ids_from_cert(cert) = {}
    OBVIOUS
  <2>1. \A id : id \in ids <=> \E cert \in peer.cert : id \in client_identity(cert) OBVIOUS
  <2> QED BY <1>6, <1>7, <2>1
<1>9. next \in {"established", "failed"} /\ (next = "established" => accepted) OBVIOUS
<1> HIDE DEF h, ids, next
<1> QED BY <1>2, <1>4, <1>5, <1>8, <1>9, TlsStep, Zenon DEF IdentityInv

-----------------------------------------------------------------------------
\* The identity task

RestPc == IF source.provider = "linkerd" THEN "sleep" ELSE "await"

LEMMA RestEffect ==
    ASSUME NEW t, TaskFields(t), NEW k, k = Rest(t)
    PROVE  /\ TaskFields(k) /\ k.pc = RestPc /\ k.cert = t.cert /\ k.until = t.until /\ k.expiry = t.expiry
           /\ k.slept = t.slept /\ k.wake = t.wake
<1>1. k = [t EXCEPT !.pc = RestPc] BY DEF Rest, RestPc
<1>2. k.pc = RestPc /\ k.cert = t.cert /\ k.until = t.until /\ k.expiry = t.expiry /\ k.slept = t.slept /\ k.wake = t.wake
  BY <1>1 DEF TaskFields
<1>3. TaskFields(k) BY <1>1 DEF TaskFields
<1> QED BY <1>2, <1>3

\* A step of the task that publishes nothing and leaves its certificate as it is.
LEMMA QuietStep ==
    ASSUME CoreInv, UNCHANGED <<source, time, store, alpn, ready>>, awaiter' = awaiter,
           TaskFields(task'), task'.cert = task.cert, task'.until = task.until, task'.expiry = task.expiry,
           task.pc \notin Publishing, task'.pc \notin Publishing,
           source.provider = "linkerd" => task'.pc \in LinkerdTask,
           source.provider # "linkerd" => task'.pc \in SpireTask,
           RefreshInTime', CertMetricsFields(certMetrics'),
           certMetrics'.refreshes = certMetrics.refreshes, certMetrics'.expiryTs = certMetrics.expiryTs
    PROVE  CoreInv'
<1>1. TaskInv' BY Zenon DEF CoreInv, TaskInv, Certified, verify_id, extract_ids_from_cert
<1>2. StoreInv'
  <2>1. task.pc # "server" /\ task'.pc \notin {"server", "notify"} BY DEF Publishing
  <2>2. HalvesAgree' BY <2>1 DEF CoreInv, StoreInv, HalvesAgree
  <2> QED BY <2>1, <2>2, Zenon DEF CoreInv, StoreInv, Certified, verify_id, extract_ids_from_cert
<1>3. AlpnInv' BY Zenon DEF CoreInv, AlpnInv, AlpnFollows, Certified, verify_id, extract_ids_from_cert
<1>4. MetricsInv'
  <2>1. task.pc # "notify" /\ task'.pc # "notify" BY DEF Publishing
  <2> QED BY <2>1 DEF CoreInv, MetricsInv
<1> QED BY <1>1, <1>2, <1>3, <1>4 DEF CoreInv

LEMMA RestStep ==
    ASSUME CoreInv, UNCHANGED <<source, time, store, alpn, ready, awaiter>>,
           task.pc \notin Publishing, task' = Rest(task), CertMetricsFields(certMetrics'),
           certMetrics'.refreshes = certMetrics.refreshes, certMetrics'.expiryTs = certMetrics.expiryTs
    PROVE  CoreInv' /\ task'.cert = task.cert
<1>1. /\ TaskFields(task') /\ task'.pc = RestPc /\ task'.cert = task.cert /\ task'.until = task.until
      /\ task'.expiry = task.expiry
  BY RestEffect DEF CoreInv, TaskInv
<1>2. RestPc \notin Publishing /\ RestPc # "sleeping" /\ (source.provider = "linkerd" => RestPc \in LinkerdTask)
      /\ (source.provider # "linkerd" => RestPc \in SpireTask)
  BY DEF RestPc, Publishing, LinkerdTask, SpireTask
<1>3. RefreshInTime' BY <1>1, <1>2 DEF RefreshInTime
<1>4. source' = source /\ time' = time /\ store' = store /\ alpn' = alpn /\ ready' = ready /\ awaiter' = awaiter OBVIOUS
<1> QED BY <1>1, <1>2, <1>3, <1>4, QuietStep

\* Store::set_certificate validates what it is about to publish.
LEMMA SetCertificateStep ==
    ASSUME CoreInv, UNCHANGED <<source, time, store, alpn, ready, awaiter>>,
           task.pc \in {"requested", "update"}, NEW cert, NEW until,
           source.provider = "linkerd" => until \in Nat, SetCertificate(cert, until)
    PROVE  CoreInv' /\ \A x \in task'.cert \ task.cert : time <= x.notAfter
<1>0. task.pc \notin Publishing BY DEF Publishing
<1>1. CASE Validate(cert) /\ cert.keyOk
  <2>1. task' = [task EXCEPT !.pc = "client", !.cert = {cert}, !.until = until] /\ certMetrics' = certMetrics
    BY <1>1 DEF SetCertificate
  <2>2. task'.pc = "client" /\ task'.cert = {cert} /\ task'.until = until /\ task'.expiry = task.expiry
    BY <2>1 DEF CoreInv, TaskInv, TaskFields
  <2>3. TaskFields(task') BY <2>1, Zenon DEF CoreInv, TaskInv, TaskFields
  <2>4. time <= cert.notAfter /\ Certified(cert) BY <1>1 DEF Validate, verify_server_cert, Certified
  <2>5. TaskInv'
    <3>1. "client" \in LinkerdTask /\ "client" \in SpireTask BY DEF LinkerdTask, SpireTask, Publishing
    <3>2. RefreshInTime' BY <2>2 DEF RefreshInTime
    <3>3. source' = source /\ time' = time OBVIOUS
    <3> QED BY <2>2, <2>3, <2>4, <3>1, <3>2, <3>3 DEF CoreInv, TaskInv
  <2>6. StoreInv' BY <1>0, <2>2 DEF CoreInv, StoreInv, HalvesAgree, Publishing
  <2>7. AlpnInv' BY DEF CoreInv, AlpnInv, AlpnFollows
  <2>8. MetricsInv' BY <1>0, <2>1, <2>2 DEF CoreInv, MetricsInv, Publishing
  <2> QED BY <2>2, <2>4, <2>5, <2>6, <2>7, <2>8 DEF CoreInv
<1>2. CASE ~(Validate(cert) /\ cert.keyOk)
  <2>1. task' = Rest(task) /\ certMetrics' = [certMetrics EXCEPT !.errors = @ + 1] BY <1>2 DEF SetCertificate
  <2>2. certMetrics'.refreshes = certMetrics.refreshes /\ certMetrics'.expiryTs = certMetrics.expiryTs
    BY <2>1 DEF CoreInv, MetricsInv, CertMetricsFields
  <2>3. CertMetricsFields(certMetrics') BY <2>1 DEF CoreInv, MetricsInv, CertMetricsFields
  <2> QED BY <1>0, <2>1, <2>2, <2>3, RestStep
<1> QED BY <1>1, <1>2

\* A step that leaves the store and the task's certificate as they are, and does not end
\* the task, keeps the credentials.
LEMMA KeptStep ==
    ASSUME store' = store, task'.cert = task.cert, task'.pc # "ended"
    PROVE  CredentialsKept
BY DEF CredentialsKept

LEMMA PublishStep ==
    ASSUME CoreInv, PublishClient \/ PublishServer
    PROVE  CoreInv' /\ CredentialsKept
<1>0. UNCHANGED <<source, time, alpn, ready, awaiter, certMetrics>> BY DEF PublishClient, PublishServer
<1>1. PICK next \in {"server", "notify"} :
        /\ task' = [task EXCEPT !.pc = next]
        /\ next = "server" => task.pc = "client" /\ store' = [store EXCEPT !.client = task.cert]
        /\ next = "notify" => task.pc = "server" /\ store' = [store EXCEPT !.server = task.cert, !.version = @ + 1]
  BY DEF PublishClient, PublishServer
<1>2. task'.pc = next /\ task'.cert = task.cert /\ task'.until = task.until /\ task'.expiry = task.expiry
  BY <1>1 DEF CoreInv, TaskInv, TaskFields
<1>3. TaskFields(task') BY <1>1 DEF CoreInv, TaskInv, TaskFields
<1>4. task.cert # {} /\ \A cert \in task.cert : Certified(cert) BY <1>1 DEF CoreInv, TaskInv, Publishing
<1>5. TaskInv'
  <2>1. next \in LinkerdTask /\ next \in SpireTask BY DEF LinkerdTask, SpireTask, Publishing
  <2>2. RefreshInTime' BY <1>2 DEF RefreshInTime
  <2> QED BY <1>0, <1>2, <1>3, <1>4, <2>1, <2>2 DEF CoreInv, TaskInv
<1>6. CASE next = "server"
  <2>1. store'.client = task.cert /\ store'.server = store.server /\ store'.version = store.version
    BY <1>1, <1>6 DEF CoreInv, StoreInv, StoreFields
  <2>2. StoreFields(store') BY <1>1, <1>6 DEF CoreInv, StoreInv, StoreFields
  <2>3. StoreInv' BY <1>0, <1>2, <1>4, <1>6, <2>1, <2>2 DEF CoreInv, StoreInv, HalvesAgree
  <2>4. AlpnInv' BY <1>0, <2>1 DEF CoreInv, AlpnInv, AlpnFollows
  <2>5. MetricsInv' BY <1>0, <1>1, <1>2, <1>6, <2>1 DEF CoreInv, MetricsInv
  <2>6. CredentialsKept BY <1>2, <1>4, <1>6, <2>1 DEF CredentialsKept
  <2> QED BY <1>5, <2>3, <2>4, <2>5, <2>6 DEF CoreInv
<1>7. CASE next = "notify"
  <2>1. store'.server = task.cert /\ store'.client = store.client /\ store'.version = store.version + 1
    BY <1>1, <1>7, Zenon DEF CoreInv, StoreInv, StoreFields
  <2>2. StoreFields(store') BY <1>1, <1>7 DEF CoreInv, StoreInv, StoreFields
  <2>3. store.client = task.cert BY <1>1, <1>7 DEF CoreInv, StoreInv
  <2>4. StoreInv' BY <1>0, <1>2, <1>4, <1>7, <2>1, <2>2, <2>3 DEF CoreInv, StoreInv, HalvesAgree
  <2>5. AlpnInv' BY <1>0, <2>1 DEF CoreInv, StoreInv, AlpnInv, AlpnFollows
  <2>6. MetricsInv' BY <1>0, <1>1, <1>2, <1>7, <2>1 DEF CoreInv, StoreInv, MetricsInv
  <2>7. CredentialsKept BY <1>2, <1>4, <1>7, <2>1 DEF CredentialsKept
  <2> QED BY <1>5, <2>4, <2>5, <2>6, <2>7 DEF CoreInv
<1> QED BY <1>6, <1>7

LEMMA NotifyStep ==
    ASSUME CoreInv, Notify
    PROVE  CoreInv' /\ CredentialsKept
<1>0. task.pc = "notify" /\ ready' = TRUE /\ UNCHANGED <<source, time, store, alpn, awaiter>> BY DEF Notify
<1>1. PICK rest : rest = Rest(task) OBVIOUS
<1>2. PICK expiry : expiry = IF source.provider = "linkerd" THEN task.until ELSE rest.expiry OBVIOUS
<1>3. task' = [rest EXCEPT !.cert = {}, !.expiry = expiry] BY <1>1, <1>2 DEF Notify
<1>4. TaskFields(rest) /\ rest.pc = RestPc /\ rest.until = task.until BY <1>1, RestEffect DEF CoreInv, TaskInv
<1>5. task'.pc = RestPc /\ task'.cert = {} /\ task'.until = task.until /\ task'.expiry = expiry
  BY <1>3, <1>4 DEF TaskFields
<1>6. TaskFields(task') BY <1>3, <1>4, Zenon DEF TaskFields
<1>7. /\ RestPc \notin Publishing /\ RestPc # "sleeping" /\ RestPc # "ended"
      /\ (source.provider = "linkerd" => RestPc \in LinkerdTask)
      /\ (source.provider # "linkerd" => RestPc \in SpireTask)
  BY DEF RestPc, Publishing, LinkerdTask, SpireTask
<1>8. TaskInv'
  <2>1. RefreshInTime' BY <1>5, <1>7 DEF RefreshInTime
  <2> QED BY <1>0, <1>2, <1>5, <1>6, <1>7, <2>1 DEF CoreInv, TaskInv
<1>9. store.client = task.cert /\ store.server = task.cert /\ task.cert # {}
  BY <1>0 DEF CoreInv, StoreInv, TaskInv, HalvesAgree, Publishing
<1>10. StoreInv'
  <2>1. HalvesAgree' BY <1>0, <1>9 DEF HalvesAgree
  <2> QED BY <1>0, <1>5, <1>7, <1>9, <2>1 DEF CoreInv, StoreInv, Publishing
<1>11. AlpnInv' BY <1>0 DEF CoreInv, AlpnInv, AlpnFollows
<1>12. PICK ts : ts = IF task.until >= 0 THEN task.until ELSE certMetrics.expiryTs OBVIOUS
<1>13. certMetrics' = [certMetrics EXCEPT !.refreshes = @ + 1, !.expiryTs = ts] BY <1>12 DEF Notify
<1>14. certMetrics'.refreshes = certMetrics.refreshes + 1 /\ certMetrics'.expiryTs = ts
  BY <1>13 DEF CoreInv, MetricsInv, CertMetricsFields
<1>15. CertMetricsFields(certMetrics') BY <1>13, Zenon DEF CoreInv, MetricsInv, CertMetricsFields
<1>16. MetricsInv'
  <2>1. source.provider = "linkerd" => ts = expiry BY <1>2, <1>12 DEF CoreInv, TaskInv
  <2>2. certMetrics.refreshes \in Nat /\ certMetrics.refreshes = store.version - 1 BY <1>0 DEF CoreInv, MetricsInv
  <2>3. task'.pc # "notify" BY <1>5, <1>7 DEF Publishing
  <2>4. certMetrics'.refreshes \in Nat /\ certMetrics'.refreshes = store.version /\ certMetrics'.refreshes > 0
    BY <1>14, <2>2 DEF CoreInv, StoreInv
  <2> QED BY <1>0, <1>5, <1>14, <1>15, <2>1, <2>3, <2>4 DEF MetricsInv
<1>17. CredentialsKept BY <1>0, <1>5, <1>7 DEF CredentialsKept
<1> QED BY <1>8, <1>10, <1>11, <1>16, <1>17 DEF CoreInv

LEMMA SleepStep ==
    ASSUME CoreInv, LoadToken \/ Sleep \/ Wake
    PROVE  CoreInv' /\ CredentialsKept
<1>0. UNCHANGED <<source, time, store, alpn, ready, awaiter, certMetrics>> BY DEF LoadToken, Sleep, Wake
<1>m. CertMetricsFields(certMetrics') BY <1>0 DEF CoreInv, MetricsInv
<1>p. source.provider \in {"linkerd", "spire"} /\ source.min \in Nat /\ source.max \in Nat
  BY IdentityConstants DEF CoreInv, TaskInv
<1>1. CASE LoadToken
  <2>1. task.pc \notin Publishing BY <1>1 DEF LoadToken, Publishing
  <2>2. CASE task' = Rest(task)
    <3>1. CoreInv' /\ task'.cert = task.cert BY <1>0, <1>m, <2>1, <2>2, RestStep
    <3>2. task'.pc # "ended" BY <2>2, RestEffect DEF CoreInv, TaskInv, RestPc
    <3> QED BY <1>0, <3>1, <3>2, KeptStep
  <2>3. CASE task' = [task EXCEPT !.pc = "requested"]
    <3>1. task'.pc = "requested" /\ task'.cert = task.cert /\ task'.until = task.until /\ task'.expiry = task.expiry
      BY <2>3 DEF CoreInv, TaskInv, TaskFields
    <3>2. TaskFields(task') BY <2>3 DEF CoreInv, TaskInv, TaskFields
    <3>3. source.provider = "linkerd" BY <1>1, <1>p DEF LoadToken, CoreInv, TaskInv, SpireTask, Publishing
    <3>4. RefreshInTime' BY <3>1 DEF RefreshInTime
    <3>5. CoreInv' BY <1>0, <1>m, <2>1, <3>1, <3>2, <3>3, <3>4, QuietStep DEF Publishing, LinkerdTask
    <3> QED BY <1>0, <3>1, <3>5, KeptStep
  <2> QED BY <1>1, <2>2, <2>3 DEF LoadToken
<1>2. CASE Sleep
  <2>1. PICK wake : wake = time + RefreshIn OBVIOUS
  <2>2. task.pc = "sleep" /\ task' = [task EXCEPT !.pc = "sleeping", !.slept = time, !.wake = wake]
    BY <1>2, <2>1 DEF Sleep
  <2>3. task'.pc = "sleeping" /\ task'.cert = task.cert /\ task'.until = task.until /\ task'.expiry = task.expiry
        /\ task'.slept = time /\ task'.wake = wake
    BY <2>2 DEF CoreInv, TaskInv, TaskFields
  <2>4. TaskFields(task') BY <2>2, Zenon DEF CoreInv, TaskInv, TaskFields
  <2>5. source.provider = "linkerd" BY <1>p, <2>2 DEF CoreInv, TaskInv, SpireTask, Publishing
  <2>6. time \in Nat /\ task.expiry \in Nat BY <2>5 DEF CoreInv, TaskInv
  <2>7. RefreshInTime'
    <3>1. ASSUME NEW d \in Nat PROVE (d * 7) \div 10 \in Nat /\ (d * 7) \div 10 <= d OBVIOUS
    <3>2. PICK lifetime : lifetime = ((task.expiry - time) * 7) \div 10 OBVIOUS
    <3>3. RefreshIn = IF task.expiry < time \/ lifetime < source.min THEN source.min
                      ELSE IF source.max < lifetime THEN source.max ELSE lifetime
      BY <3>2 DEF RefreshIn
    <3>4. CASE task.expiry < time \/ lifetime < source.min
      BY <1>0, <1>p, <2>1, <2>3, <2>6, <3>3, <3>4 DEF RefreshInTime
    <3>5. CASE ~(task.expiry < time \/ lifetime < source.min)
      <4>1. task.expiry - time \in Nat BY <2>6, <3>5
      <4>2. lifetime \in Nat /\ lifetime <= task.expiry - time BY <3>1, <3>2, <4>1
      <4> QED BY <1>0, <1>p, <2>1, <2>3, <2>6, <3>3, <3>5, <4>2 DEF RefreshInTime
    <3> QED BY <3>4, <3>5
  <2>8. CoreInv' BY <1>0, <1>m, <2>2, <2>3, <2>4, <2>5, <2>7, QuietStep DEF Publishing, LinkerdTask
  <2> QED BY <1>0, <2>3, <2>8, KeptStep
<1>3. CASE Wake
  <2>2. task.pc = "sleeping" /\ task' = [task EXCEPT !.pc = "start", !.slept = 0, !.wake = 0] BY <1>3 DEF Wake
  <2>3. task'.pc = "start" /\ task'.cert = task.cert /\ task'.until = task.until /\ task'.expiry = task.expiry
    BY <2>2 DEF CoreInv, TaskInv, TaskFields
  <2>4. TaskFields(task') BY <2>2, Zenon DEF CoreInv, TaskInv, TaskFields
  <2>5. source.provider = "linkerd" BY <1>p, <2>2 DEF CoreInv, TaskInv, SpireTask, Publishing
  <2>7. RefreshInTime' BY <2>3 DEF RefreshInTime
  <2>8. CoreInv' BY <1>0, <1>m, <2>2, <2>3, <2>4, <2>5, <2>7, QuietStep DEF Publishing, LinkerdTask
  <2> QED BY <1>0, <2>3, <2>8, KeptStep
<1> QED BY <1>1, <1>2, <1>3

\* What Certify and ProcessSvid have in common: they set a certificate, or rest.
LEMMA AnswerStep ==
    ASSUME CoreInv, UNCHANGED <<source, time, store, alpn, ready, awaiter>>, task.pc \in {"requested", "update"},
           \/ \E cert, until : (source.provider = "linkerd" => until \in Nat) /\ SetCertificate(cert, until)
           \/ task' = Rest(task) /\ certMetrics' = certMetrics
    PROVE  CoreInv' /\ CredentialsKept
<1>0. task.pc \notin Publishing /\ task.pc # "await" BY DEF Publishing
<1>1. CASE \E cert, until : (source.provider = "linkerd" => until \in Nat) /\ SetCertificate(cert, until)
  <2>1. CoreInv' /\ \A x \in task'.cert \ task.cert : time <= x.notAfter BY <1>1, SetCertificateStep
  <2> QED BY <1>0, <2>1 DEF CredentialsKept
<1>2. CASE task' = Rest(task) /\ certMetrics' = certMetrics
  <2>1. CoreInv' /\ task'.cert = task.cert BY <1>0, <1>2, RestStep, Zenon DEF CoreInv, MetricsInv
  <2> QED BY <1>0, <2>1 DEF CredentialsKept
<1> QED BY <1>1, <1>2

LEMMA CertifyStep ==
    ASSUME CoreInv, NEW a \in Answers, Certify(a)
    PROVE  CoreInv' /\ CredentialsKept
<1>0. UNCHANGED <<source, time, store, alpn, ready, awaiter>> /\ task.pc = "requested" BY DEF Certify
<1>1. CASE \E until \in a.until : time < until
  <2>1. PICK until : until = CHOOSE u \in a.until : TRUE OBVIOUS
  <2>2. until \in Nat BY <1>1, <2>1, IdentityConstants
  <2>3. SetCertificate(a.cert, until) \/ (task' = Rest(task) /\ certMetrics' = certMetrics) BY <2>1 DEF Certify
  <2> QED BY <1>0, <2>2, <2>3, AnswerStep
<1>2. CASE ~\E until \in a.until : time < until
  <2>1. task' = Rest(task) /\ certMetrics' = certMetrics BY <1>2 DEF Certify
  <2> QED BY <1>0, <2>1, AnswerStep
<1> QED BY <1>1, <1>2

LEMMA SpireStep ==
    ASSUME CoreInv, Subscribe \/ ProcessSvid \/ AwaitSvid
    PROVE  CoreInv' /\ CredentialsKept
<1>0. UNCHANGED <<source, time, store, alpn, ready, awaiter>> BY Zenon DEF Subscribe, ProcessSvid, AwaitSvid
<1>p. source.provider = "spire"
  BY IdentityConstants, Zenon DEF CoreInv, TaskInv, LinkerdTask, Publishing, Subscribe, ProcessSvid, AwaitSvid
<1>1. CASE ProcessSvid
  <2>1. \/ \E cert, until : SetCertificate(cert, until)
        \/ task' = Rest(task) /\ certMetrics' = certMetrics
    BY <1>1 DEF ProcessSvid
  <2>2. task.pc = "update" BY <1>1 DEF ProcessSvid
  <2> QED BY <1>0, <1>p, <2>1, <2>2, AnswerStep
<1>2. CASE Subscribe \/ AwaitSvid
  <2>1. PICK next \in {"panicked", "update", "ended"} :
          /\ task' = [task EXCEPT !.pc = next] /\ task.pc \in {"subscribe", "await"}
          /\ next = "ended" => svids.version = svids.seen
    BY <1>2, Zenon DEF Subscribe, AwaitSvid
  <2>2. task'.pc = next /\ task'.cert = task.cert /\ task'.until = task.until /\ task'.expiry = task.expiry
    BY <2>1 DEF CoreInv, TaskInv, TaskFields
  <2>3. TaskFields(task') BY <2>1 DEF CoreInv, TaskInv, TaskFields
  <2>4. RefreshInTime' BY <2>2 DEF RefreshInTime
  <2>5. certMetrics' = certMetrics /\ CertMetricsFields(certMetrics')
    BY <1>2, Zenon DEF CoreInv, MetricsInv, Subscribe, AwaitSvid
  <2>6. CoreInv' BY <1>0, <1>p, <2>1, <2>2, <2>3, <2>4, <2>5, QuietStep DEF Publishing, SpireTask
  <2>7. CredentialsKept BY <1>0, <2>1, <2>2 DEF CredentialsKept
  <2> QED BY <2>6, <2>7
<1> QED BY <1>1, <1>2

\* Readers of the watches, and the clock.
LEMMA ReaderStep ==
    ASSUME CoreInv, SpawnWithAlpn \/ AlpnChanged \/ AlpnCopy \/ AwaitReady \/ IdentityTick
    PROVE  CoreInv' /\ CredentialsKept
<1>0. UNCHANGED <<source, task, store, ready, certMetrics>>
  BY DEF SpawnWithAlpn, AlpnChanged, AlpnCopy, AwaitReady, IdentityTick
<1>1. CredentialsKept BY <1>0 DEF CredentialsKept
<1>2. MetricsInv' BY <1>0 DEF CoreInv, MetricsInv
<1>3. TaskInv'
  <2>1. time' \in Nat BY DEF SpawnWithAlpn, AlpnChanged, AlpnCopy, AwaitReady, IdentityTick, CoreInv, TaskInv
  <2> QED BY <1>0, <2>1, Zenon DEF CoreInv, TaskInv, RefreshInTime
<1>4. StoreInv'
  <2>1. awaiter' = "ready" => ready = TRUE
    BY DEF SpawnWithAlpn, AlpnChanged, AlpnCopy, AwaitReady, IdentityTick, CoreInv, StoreInv
  <2> QED BY <1>0, <2>1, Zenon DEF CoreInv, StoreInv, HalvesAgree
<1>5. AlpnInv'
  <2>1. CASE AwaitReady \/ IdentityTick
    <3>1. alpn' = alpn BY <2>1 DEF AwaitReady, IdentityTick
    <3> QED BY <1>0, <3>1, Zenon DEF CoreInv, AlpnInv, AlpnFollows
  <2>2. CASE SpawnWithAlpn
    <3>1. alpn' = [pc |-> "wait", cfg |-> store.server, seen |-> store.version] BY <2>2 DEF SpawnWithAlpn
    <3> QED BY <1>0, <3>1 DEF CoreInv, AlpnInv, StoreInv, AlpnFollows, AlpnFields
  <2>3. CASE AlpnCopy
    <3>1. alpn' = [alpn EXCEPT !.pc = "wait", !.cfg = store.server] BY <2>3 DEF AlpnCopy
    <3>2. alpn'.pc = "wait" /\ alpn'.cfg = store.server /\ alpn'.seen = alpn.seen
      BY <3>1 DEF CoreInv, AlpnInv, AlpnFields
    <3>3. AlpnFields(alpn') BY <3>1, Zenon DEF CoreInv, AlpnInv, AlpnFields
    <3> QED BY <1>0, <3>2, <3>3 DEF CoreInv, AlpnInv, StoreInv, AlpnFollows
  <2>4. CASE AlpnChanged
    <3>1. CASE store.version > alpn.seen /\ alpn' = [alpn EXCEPT !.pc = "copy", !.seen = store.version]
      <4>1. alpn'.pc = "copy" /\ alpn'.cfg = alpn.cfg /\ alpn'.seen = store.version
        BY <3>1 DEF CoreInv, AlpnInv, AlpnFields
      <4>2. AlpnFields(alpn') BY <3>1, Zenon DEF CoreInv, AlpnInv, AlpnFields
      <4> QED BY <1>0, <4>1, <4>2 DEF CoreInv, AlpnInv, StoreInv, AlpnFollows
    <3>2. CASE store.version = alpn.seen /\ alpn' = [alpn EXCEPT !.pc = "ended"]
      <4>1. alpn'.pc = "ended" /\ alpn'.cfg = alpn.cfg /\ alpn'.seen = alpn.seen
        BY <3>2 DEF CoreInv, AlpnInv, AlpnFields
      <4>2. AlpnFields(alpn') BY <3>2 DEF CoreInv, AlpnInv, AlpnFields
      <4>3. alpn.cfg = store.server BY <2>4, <3>2 DEF AlpnChanged, CoreInv, AlpnInv, StoreInv, AlpnFollows
      <4> QED BY <1>0, <4>1, <4>2, <4>3 DEF CoreInv, AlpnInv, StoreInv, AlpnFollows
    <3> QED BY <2>4, <3>1, <3>2 DEF AlpnChanged
  <2> QED BY <2>1, <2>2, <2>3, <2>4
<1> QED BY <1>1, <1>2, <1>3, <1>4, <1>5 DEF CoreInv

\* Steps of connections and of the agent leave the task, the store and its readers alone.
LEMMA CoreKept ==
    ASSUME CoreInv, UNCHANGED coreVars
    PROVE  CoreInv' /\ CredentialsKept
<1>0. /\ source' = source /\ time' = time /\ task' = task /\ store' = store /\ alpn' = alpn
      /\ ready' = ready /\ awaiter' = awaiter /\ certMetrics' = certMetrics
  BY DEF coreVars
<1>1. CredentialsKept BY <1>0 DEF CredentialsKept
<1>2. TaskInv' BY <1>0, Zenon DEF CoreInv, TaskInv, RefreshInTime
<1>3. StoreInv' BY <1>0, Zenon DEF CoreInv, StoreInv, HalvesAgree
<1>4. AlpnInv' BY <1>0, Zenon DEF CoreInv, AlpnInv, AlpnFollows
<1>5. MetricsInv' BY <1>0, Zenon DEF CoreInv, MetricsInv
<1> QED BY <1>1, <1>2, <1>3, <1>4, <1>5 DEF CoreInv

LEMMA TlsKept ==
    ASSUME TlsInv, tls' = tls
    PROVE  TlsInv'
BY Zenon DEF TlsInv, PeersAuthenticated

LEMMA IdentityStep ==
    ASSUME IdentityInv, IdentityNext
    PROVE  IdentityInv' /\ CredentialsKept
<1> USE DEF IdentityInv
<1>1. CASE LoadToken \/ Sleep \/ Wake BY <1>1, SleepStep, TlsKept DEF LoadToken, Sleep, Wake
<1>2. CASE \E a \in Answers : Certify(a) BY <1>2, CertifyStep, TlsKept DEF Certify
<1>3. CASE PublishClient \/ PublishServer BY <1>3, PublishStep, TlsKept DEF PublishClient, PublishServer
<1>4. CASE Notify BY <1>4, NotifyStep, TlsKept DEF Notify
<1>5. CASE Subscribe \/ ProcessSvid \/ AwaitSvid BY <1>5, SpireStep, TlsKept, Zenon DEF Subscribe, ProcessSvid, AwaitSvid
<1>6. CASE CloseUpdates \/ \E u \in Updates : SendUpdate(u)
  BY <1>6, CoreKept, TlsKept, Zenon DEF CloseUpdates, SendUpdate, coreVars
<1>7. CASE SpawnWithAlpn \/ AlpnChanged \/ AlpnCopy \/ AwaitReady \/ IdentityTick
  BY <1>7, ReaderStep, TlsKept DEF SpawnWithAlpn, AlpnChanged, AlpnCopy, AwaitReady, IdentityTick
<1>8. ASSUME NEW c \in TlsConns, \/ \E ids \in Targets : Connect(c, ids)
                                 \/ \E p \in ServerPeers : ClientHandshake(c, p)
                                 \/ \E b \in BOOLEAN : AcceptTls(c, b)
                                 \/ \E p \in ClientPeers : ServerHandshake(c, p)
      PROVE  IdentityInv' /\ CredentialsKept
  <2>1. TlsInv' BY <1>8, ConnectStep, ClientHandshakeStep, AcceptStep, ServerHandshakeStep
  <2>2. UNCHANGED coreVars BY <1>8, Zenon DEF Connect, ClientHandshake, AcceptTls, ServerHandshake, coreVars
  <2> QED BY <2>1, <2>2, CoreKept
<1> QED BY <1>1, <1>2, <1>3, <1>4, <1>5, <1>6, <1>7, <1>8 DEF IdentityNext

(***************************************************************************)
(* Whatever the identity service or the SPIRE agent sends, and however     *)
(* connections, the ALPN task and the clock come between the steps of the  *)
(* identity task, the proxy uses only validated certificates of its own,   *)
(* is ready when it has one, refreshes it in time, loses none and          *)
(* authenticates its peers (Certify::run, Spire::run, Store, NotifyReady,  *)
(* spawn_with_alpn): for any certificates, updates, peers and times.       *)
(***************************************************************************)
THEOREM IdentitySafe == IdentitySpec => IdentitySound
<1>1. IdentityInit => IdentityInv
  <2> SUFFICES ASSUME IdentityInit PROVE IdentityInv OBVIOUS
  <2>1. TaskInv
    <3>1. task.pc = (IF source.provider = "linkerd" THEN "start" ELSE "subscribe") /\ task.cert = {}
          /\ task.until = 0 /\ task.expiry = 0 /\ TaskFields(task)
      <4>1. PICK pc : pc = IF source.provider = "linkerd" THEN "start" ELSE "subscribe" BY Zenon
      <4>2. task = [pc |-> pc, cert |-> {}, until |-> 0, expiry |-> 0, slept |-> 0, wake |-> 0]
        BY <4>1, Zenon DEF IdentityInit, NewTask
      <4> QED BY <4>1, <4>2 DEF TaskFields
    <3>2. source \in Sources /\ time \in Nat /\ task.until \in Nat /\ task.expiry \in Nat BY <3>1 DEF IdentityInit
    <3>3. task.pc \notin Publishing /\ task.pc # "sleeping" BY <3>1 DEF Publishing
    <3>4. source.provider = "linkerd" => task.pc \in LinkerdTask BY <3>1 DEF LinkerdTask
    <3>5. source.provider # "linkerd" => task.pc \in SpireTask BY <3>1 DEF SpireTask
    <3>6. RefreshInTime BY <3>3 DEF RefreshInTime
    <3> QED BY <3>1, <3>2, <3>3, <3>4, <3>5, <3>6, Zenon DEF TaskInv
  <2>2. store.client = {} /\ store.server = {} /\ store.version = 0 /\ StoreFields(store)
    BY DEF IdentityInit, NewStore, StoreFields
  <2>3. task.pc \in {"start", "subscribe"} /\ task.expiry = 0 /\ ready = FALSE /\ awaiter = "waiting"
    BY DEF IdentityInit, NewTask
  <2>f. ready \in BOOLEAN /\ ~(ready = TRUE) BY <2>3, Zenon
  <2>4. StoreInv
    <3>1. store.version \in Nat /\ HalvesAgree /\ store.client \cup store.server = {} /\ task.pc \notin {"server", "notify"}
          /\ awaiter # "ready"
      BY <2>2, <2>3 DEF HalvesAgree
    <3> QED BY <2>2, <2>f, <3>1, Zenon DEF StoreInv
  <2>5. AlpnInv
    <3>1. alpn.pc = "none" /\ alpn.cfg = {} /\ alpn.seen = 0 /\ AlpnFields(alpn)
      BY DEF IdentityInit, NewServer, AlpnFields
    <3> QED BY <2>2, <3>1 DEF AlpnInv, AlpnFollows
  <2>6. MetricsInv
    <3>1. certMetrics.refreshes = 0 /\ certMetrics.expiryTs = 0 /\ CertMetricsFields(certMetrics)
      BY DEF IdentityInit, NewCertMetrics, CertMetricsFields
    <3>2. PICK less : less = IF task.pc = "notify" THEN 1 ELSE 0 OBVIOUS
    <3>z. less = 0 BY <2>3, <3>2
    <3>m. certMetrics.refreshes = store.version - less BY <2>2, <3>1, <3>z
    <3>3. certMetrics.refreshes \in Nat /\ ~(certMetrics.refreshes > 0) BY <3>1
    <3>4. certMetrics.refreshes = store.version - (IF task.pc = "notify" THEN 1 ELSE 0)
      BY <3>2, <3>m, Zenon
    <3>5. certMetrics.expiryTs = task.expiry BY <2>3, <3>1
    <3> QED BY <2>f, <3>1, <3>3, <3>4, <3>5, Zenon DEF MetricsInv
  <2>7. TlsInv
    <3>1. ASSUME NEW c \in TlsConns PROVE tls[c].pc = "none" /\ tls[c].cfg = {} /\ TlsFields(tls[c])
      BY DEF IdentityInit, TlsFields
    <3>2. tls = [c \in TlsConns |-> tls[c]] BY DEF IdentityInit
    <3> QED BY <3>1, <3>2 DEF TlsInv, PeersAuthenticated
  <2> QED BY <2>1, <2>4, <2>5, <2>6, <2>7 DEF IdentityInv, CoreInv
<1>2. IdentityInv /\ [IdentityNext]_identityVars => IdentityInv'
  <2> SUFFICES ASSUME IdentityInv, UNCHANGED identityVars PROVE IdentityInv' BY IdentityStep
  <2> QED BY CoreKept, TlsKept DEF IdentityInv, identityVars, coreVars
<1>3. IdentityInv => /\ OnlyValidated /\ ReadyMeansProvisioned /\ HalvesAgree /\ AlpnFollows
                     /\ RefreshInTime /\ CertMetricsExact /\ PeersAuthenticated
  <2> SUFFICES ASSUME IdentityInv
               PROVE  /\ OnlyValidated /\ ReadyMeansProvisioned /\ HalvesAgree /\ AlpnFollows
                      /\ RefreshInTime /\ CertMetricsExact /\ PeersAuthenticated
    OBVIOUS
  <2> USE DEF IdentityInv, CoreInv
  <2>1. OnlyValidated BY DEF OnlyValidated, TaskInv, StoreInv, AlpnInv, TlsInv, Certified
  <2>2. ReadyMeansProvisioned BY DEF ReadyMeansProvisioned, StoreInv, TlsInv
  <2>3. CertMetricsExact BY DEF CertMetricsExact, MetricsInv
  <2> QED BY <2>1, <2>2, <2>3 DEF TaskInv, StoreInv, AlpnInv, TlsInv
<1>4. IdentityInv /\ [IdentityNext]_identityVars => [CredentialsKept]_identityVars BY IdentityStep
<1> QED BY <1>1, <1>2, <1>3, <1>4, PTL DEF IdentitySpec, IdentitySound

-----------------------------------------------------------------------------
(* Gateways (Gateways)                                                     *)

Senders == Gates \cup {"client"}
By(g, c, n) == <<<<"by", g>>, <<"for", c>>, <<"host", n>>>>
Headers == {<<<<"for", "x">>, <<"by", "y">>>>} \cup {By(g, c, n) : g \in Gates, c \in Senders, n \in AllNames}
Hops == [gate : Gates, name : AllNames]
Messages == [version : {"http1", "http2"}, forwarded : Seq(Headers), canonical : SUBSET AllNames,
             authority : SUBSET AllNames, host : SUBSET AllNames]
Tags == [client : Senders, name : Option(AllNames), session : SUBSET {"http1", "http2"}, found : BOOLEAN]
Switches == [primary : {"pending", "ready", "failed"}, secondary : {"pending", "ready"},
             state : {"primary", "waiting", "secondary"}, wake : Nat, since : Nat]

\* Who sent the request to where it is.
Sender == IF path = << >> THEN "client" ELSE path[Len(path)].gate

TravelInv ==
    /\ request \in Messages
    /\ header \in Tags
    /\ path \in Seq(Hops)
    /\ at \in {"client", "out", "router"} \cup Gates
    /\ at = "client" => path = << >>
    /\ at \in {"client", "out"} => header.found = FALSE
    /\ header.found = TRUE => header.name \subseteq Allowed
    /\ header.client = Sender

SwitchInv ==
    /\ clock \in Nat
    /\ switch \in [Allowed -> Switches]
    /\ \A n \in Allowed :
        /\ switch[n].state # "primary" => switch[n].wake = switch[n].since + SwitchAfter
        /\ switch[n].state = "secondary" => clock >= switch[n].wake

GatewayInv == TravelInv /\ LoopFree /\ PathTold /\ SwitchInv

LEMMA RequestForms ==
    ASSUME NEW r \in AllRequests
    PROVE  r \in Messages
<1>1. ASSUME NEW f \in Foreign PROVE f \in Seq(Headers)
  <2>1. << >> \in Seq(Headers) OBVIOUS
  <2>2. <<<<"for", "x">>, <<"by", "y">>>> \in Headers BY DEF Headers
  <2>3. <<<<<<"for", "x">>, <<"by", "y">>>>>> \in Seq(Headers) BY <2>2
  <2> QED BY <2>1, <2>3, Zenon DEF Foreign
<1>2. << >> \in Seq(Headers) OBVIOUS
<1>3. \A s \in Option(Allowed) \cup Option(Refused) : s \in SUBSET AllNames BY DEF Option, AllNames
<1> QED BY <1>1, <1>2, <1>3, Zenon DEF AllRequests, Messages

\* A request is over: it is with no gateway, and nothing is known of its path.
LEMMA AnswerEffect ==
    ASSUME NEW how, Answer(how)
    PROVE  (TravelInv /\ LoopFree /\ PathTold)'
<1>1. at' = "client" /\ header' = NoHeader /\ request' = Idle /\ path' = << >> BY DEF Answer
<1>2. Idle \in Messages
  BY DEF Idle, Messages
<1>3. NoHeader \in Tags
  BY DEF NoHeader, Senders, Option, Tags
<1>4. NoHeader.found = FALSE /\ NoHeader.client = "client" BY DEF NoHeader
<1>5. TravelInv' BY <1>1, <1>2, <1>3, <1>4 DEF TravelInv, Sender
<1>6. LoopFree' BY <1>1 DEF LoopFree
<1>7. PathTold' BY <1>1 DEF PathTold
<1> QED BY <1>5, <1>6, <1>7

LEMMA FirstBy ==
    ASSUME NEW g, NEW c, NEW n
    PROVE  g \in FwdBy(By(g, c, n))
<1> DEFINE pairs == By(g, c, n)
<1>1. 1 \in DOMAIN pairs /\ pairs[1] = <<"by", g>> BY DEF By
<1>2. 1 \in {j \in DOMAIN pairs : pairs[j][1] = "by" /\ \A k \in 1 .. j - 1 : pairs[k][1] # "by"}
  BY <1>1
<1> HIDE DEF pairs
<1> QED BY <1>1, <1>2 DEF FwdBy, pairs

\* A gateway that forwards a request adds itself to a path that it was not on.
LEMMA ForwardStep ==
    ASSUME GatewayInv, NEW g \in Gates, NEW n \in header.name, at = g, header.found, ~Loops(g), Forward(g, n)
    PROVE  (TravelInv /\ LoopFree /\ PathTold)'
<1> DEFINE fs == request.forwarded
           own == Len(fs) - Len(path)
           last == Len(path) + 1
<1> USE DEF GatewayInv
<1>1. /\ path \in Seq(Hops) /\ fs \in Seq(Headers) /\ header.client = Sender /\ n \in Allowed /\ n \in AllNames
      /\ header.client \in Senders /\ request.version \in {"http1", "http2"}
  BY DEF TravelInv, AllNames, Tags, Messages
<1>2. Fwd(g, n) = By(g, header.client, n) /\ By(g, header.client, n) \in Headers
  BY <1>1 DEF Fwd, By, Headers
<1>3. /\ path' = Append(path, [gate |-> g, name |-> n])
      /\ at' = "out"
      /\ header' = [NoHeader EXCEPT !.client = g]
      /\ request' = [request EXCEPT !.forwarded = Append(fs, Fwd(g, n)),
                                    !.host = IF request.version = "http1" THEN {n} ELSE @]
  BY DEF Forward, Sent
<1>4. /\ path' \in Seq(Hops) /\ Len(path') = last /\ Len(path) \in Nat
      /\ \A i \in 1 .. Len(path) : path'[i] = path[i]
      /\ path'[last] = [gate |-> g, name |-> n]
      /\ DOMAIN path' = 1 .. last /\ DOMAIN path = 1 .. Len(path)
  BY <1>1, <1>3 DEF Hops
<1>len. Len(path') = last /\ Len(path) \in Nat BY <1>4, Zenon
<1>old. \A i \in 1 .. Len(path) : path'[i] = path[i] BY <1>4, Zenon
<1>new. path'[last].gate = g /\ path'[last].name = n
  <2>1. path'[last] = [gate |-> g, name |-> n] BY <1>4, Zenon
  <2> QED BY <2>1
<1>5. /\ Append(fs, Fwd(g, n)) \in Seq(Headers) /\ Len(Append(fs, Fwd(g, n))) = Len(fs) + 1 /\ Len(fs) \in Nat
      /\ \A i \in 1 .. Len(fs) : Append(fs, Fwd(g, n))[i] = fs[i]
      /\ Append(fs, Fwd(g, n))[Len(fs) + 1] = Fwd(g, n)
      /\ DOMAIN fs = 1 .. Len(fs)
  <2>1. PICK x \in Headers : x = Fwd(g, n) BY <1>2, Zenon
  <2>2. fs \in Seq(Headers) BY <1>1, Zenon
  <2> HIDE DEF fs
  <2>3. /\ Append(fs, x) \in Seq(Headers) /\ Len(Append(fs, x)) = Len(fs) + 1 /\ Len(fs) \in Nat
        /\ \A i \in 1 .. Len(fs) : Append(fs, x)[i] = fs[i]
        /\ Append(fs, x)[Len(fs) + 1] = x /\ DOMAIN fs = 1 .. Len(fs)
    BY <2>2
  <2> QED BY <2>1, <2>3, Zenon
<1>6. /\ request'.forwarded = Append(fs, Fwd(g, n)) /\ request'.version = request.version
      /\ request.version = "http1" => request'.host = {n}
      /\ request' \in Messages
  BY <1>1, <1>3, <1>5, Zenon DEF TravelInv, Messages
<1>7. own \in Nat /\ \A i \in 1 .. Len(path) : own + i \in 1 .. Len(fs)
  <2>1. Len(fs) \in Nat BY <1>5, Zenon
  <2>2. Len(path) = 0 \/ Len(fs) >= Len(path)
    <3>1. CASE path = << >> BY <3>1
    <3>2. CASE path # << >> BY <3>2, Zenon DEF PathTold
    <3> QED BY <3>1, <3>2, Zenon
  <2>3. ASSUME NEW a \in Nat, NEW b \in Nat, b = 0 \/ a >= b
        PROVE  a - b \in Nat /\ \A i \in 1 .. b : a - b + i \in 1 .. a
    BY <2>3
  <2> QED BY <1>len, <2>1, <2>2, <2>3, Zenon
<1>8. \A i \in 1 .. Len(path) : path[i].gate # g
  <2> SUFFICES ASSUME NEW i \in 1 .. Len(path), path[i].gate = g PROVE FALSE OBVIOUS
  <2>1. path # << >> BY <1>len
  <2>2. fs[own + i] = By(g, IF i = 1 THEN "client" ELSE path[i - 1].gate, path[i].name)
    BY <1>4, <2>1 DEF PathTold, By
  <2>3. g \in FwdBy(fs[own + i]) BY <2>2, FirstBy
  <2> QED BY <1>5, <1>7, <2>3, Zenon DEF Loops
<1>9. LoopFree'
  <2> SUFFICES ASSUME NEW i \in 1 .. last, NEW j \in 1 .. last
               PROVE  (path'[i].gate = path'[j].gate => i = j) /\ path'[i].name \in Allowed
    BY <1>4 DEF LoopFree
  <2>1. \A k \in 1 .. last : k # last => k \in 1 .. Len(path) BY <1>len
  <2>2. \A k \in 1 .. Len(path) : path'[k].gate # g /\ path'[k].name \in Allowed
    <3>1. DOMAIN path = 1 .. Len(path) BY <1>4, Zenon
    <3> QED BY <1>old, <1>8, <3>1, Zenon DEF LoopFree
  <2>3. n \in Allowed BY <1>1, Zenon
  <2>4. path'[i].name \in Allowed BY <1>new, <2>1, <2>2, <2>3, Zenon
  <2>5. ASSUME path'[i].gate = path'[j].gate PROVE i = j
    <3>1. DOMAIN path = 1 .. Len(path) BY <1>4, Zenon
    <3>2. CASE i = last \/ j = last BY <1>new, <2>1, <2>2, <2>5, <3>2, Zenon
    <3>3. CASE i # last /\ j # last BY <1>old, <2>1, <2>5, <3>1, <3>3, Zenon DEF LoopFree
    <3> QED BY <3>2, <3>3, Zenon
  <2> QED BY <2>4, <2>5
<1>10. PathTold'
  <2>1. Len(request'.forwarded) - Len(path') = own /\ Len(request'.forwarded) >= Len(path')
    <3>1. Len(request'.forwarded) = Len(fs) + 1 /\ Len(fs) \in Nat /\ own \in Nat BY <1>5, <1>6, <1>7, Zenon
    <3> QED BY <1>len, <3>1
  <2>2. ASSUME NEW i \in 1 .. last
        PROVE  request'.forwarded[own + i] = By(path'[i].gate, IF i = 1 THEN "client" ELSE path'[i - 1].gate, path'[i].name)
    <3>1. CASE i = last
      <4>1. own + i = Len(fs) + 1
        <5>1. ASSUME NEW a \in Nat, NEW b \in Nat PROVE (a - b) + (b + 1) = a + 1 OBVIOUS
        <5>2. Len(fs) \in Nat BY <1>5, Zenon
        <5> QED BY <1>len, <3>1, <5>1, <5>2, Zenon
      <4>2. request'.forwarded[own + i] = By(g, Sender, n) BY <1>1, <1>2, <1>5, <1>6, <4>1, Zenon
      <4>3. Sender = IF i = 1 THEN "client" ELSE path'[i - 1].gate
        <5>1. CASE path = << >> BY <3>1, <5>1 DEF Sender
        <5>2. CASE path # << >>
          <6>1. i # 1 /\ i - 1 = Len(path) /\ Len(path) \in 1 .. Len(path) BY <1>1, <1>len, <3>1, <5>2, EmptySeq
          <6>2. path'[i - 1] = path[Len(path)] BY <1>old, <6>1, Zenon
          <6> QED BY <5>2, <6>1, <6>2, Zenon DEF Sender
        <5> QED BY <5>1, <5>2, Zenon
      <4> QED BY <1>new, <3>1, <4>2, <4>3, Zenon
    <3>2. CASE i # last
      <4>1. i \in 1 .. Len(path) /\ (i # 1 => i - 1 \in 1 .. Len(path)) /\ path # << >> BY <1>len, <3>2
      <4>2. fs[own + i] = By(path[i].gate, IF i = 1 THEN "client" ELSE path[i - 1].gate, path[i].name)
        BY <1>4, <4>1, Zenon DEF PathTold, By
      <4>3. request'.forwarded[own + i] = fs[own + i] BY <1>5, <1>6, <1>7, <4>1, Zenon
      <4>4. path'[i] = path[i] /\ (i # 1 => path'[i - 1] = path[i - 1]) BY <1>old, <4>1, Zenon
      <4> QED BY <4>2, <4>3, <4>4, Zenon
    <3> QED BY <3>1, <3>2, Zenon
  <2>3. request'.version = "http1" => request'.host = {path'[Len(path')].name}
    BY <1>6, <1>len, <1>new, Zenon
  <2> QED BY <1>4, <2>1, <2>2, <2>3, Zenon DEF PathTold, By
<1>11. TravelInv'
  <2>1. header' \in Tags
        /\ header'.client = g
    BY <1>3, Zenon DEF NoHeader, Senders, Option, Tags
  <2>2. header'.found = FALSE BY <1>3, Zenon DEF NoHeader
  <2>3. Sender' = g
    <3>1. path' # << >> BY <1>len
    <3> QED BY <1>len, <1>new, <3>1, Zenon DEF Sender
  <2>4. path' \in Seq(Hops) /\ request' \in Messages /\ at' = "out" BY <1>3, <1>4, <1>6, Zenon
  <2> QED BY <2>1, <2>2, <2>3, <2>4 DEF TravelInv
<1> QED BY <1>9, <1>10, <1>11

\* Polling a switch keeps what its state says of the time.
LEMMA PollReadyEffect ==
    ASSUME SwitchInv, NEW n \in Allowed, NEW s, s = PollReady(switch[n])
    PROVE  /\ s \in Switches
           /\ s.state # "primary" => s.wake = s.since + SwitchAfter
           /\ s.state = "secondary" => clock >= s.wake
           /\ s.state = "primary" <=> switch[n].primary # "pending"
<1>1. switch[n] \in Switches /\ clock \in Nat /\ SwitchAfter \in Nat BY GatewayConstants DEF SwitchInv
<1>2. /\ switch[n].state # "primary" => switch[n].wake = switch[n].since + SwitchAfter
      /\ switch[n].state = "secondary" => clock >= switch[n].wake
  BY DEF SwitchInv
<1>3. CASE switch[n].primary # "pending" BY <1>1, <1>2, <1>3 DEF PollReady, Switches
<1>4. CASE switch[n].primary = "pending" /\ switch[n].state = "primary"
  <2>1. PICK state \in {"secondary", "waiting"} : state = "secondary" <=> clock >= clock + SwitchAfter BY <1>1
  <2>2. s = [switch[n] EXCEPT !.wake = clock + SwitchAfter, !.state = state, !.since = clock]
    BY <1>4, <2>1, Zenon DEF PollReady
  <2>3. clock + SwitchAfter \in Nat BY <1>1
  <2>4. s \in Switches /\ s.wake = clock + SwitchAfter /\ s.since = clock /\ s.state = state
    BY <1>1, <2>2, <2>3, Zenon DEF Switches
  <2> QED BY <1>1, <1>4, <2>1, <2>4
<1>5. CASE switch[n].primary = "pending" /\ switch[n].state # "primary" BY <1>1, <1>2, <1>5, Zenon DEF PollReady, Switches
<1> QED BY <1>3, <1>4, <1>5

\* Whatever leaves the request and its connection alone.
LEMMA TravelKept ==
    ASSUME GatewayInv, UNCHANGED travel
    PROVE  (TravelInv /\ LoopFree /\ PathTold)'
BY Zenon DEF travel, GatewayInv, TravelInv, LoopFree, PathTold, Sender

LEMMA SwitchKept ==
    ASSUME GatewayInv, UNCHANGED <<switch, clock>>
    PROVE  SwitchInv'
BY DEF GatewayInv, SwitchInv

\* A name is found, and then it is allowed, or the request is over.
LEMMA DiscoverEffect ==
    ASSUME NEW g, Discover(g)
    PROVE  \/ \E how : Answer(how)
           \/ \E n \in Allowed : /\ n \in header.name /\ header' = [header EXCEPT !.found = TRUE]
                                 /\ UNCHANGED <<request, at, path, served>>
<1>1. PICK n \in header.name :
        \E outcome \in {Resolver(n, found, policy) : found \in {"some", "none", "error"},
                                                  policy \in {"ok", "notFound", "unimplemented", "error"}} :
           IF outcome = "found"
           THEN header' = [header EXCEPT !.found = TRUE] /\ UNCHANGED <<request, at, path, served>>
           ELSE Answer(outcome)
  BY DEF Discover
<1>2. PICK outcome \in {Resolver(n, found, policy) : found \in {"some", "none", "error"},
                                                  policy \in {"ok", "notFound", "unimplemented", "error"}} :
        IF outcome = "found"
        THEN header' = [header EXCEPT !.found = TRUE] /\ UNCHANGED <<request, at, path, served>>
        ELSE Answer(outcome)
  BY <1>1
<1>3. \E found, policy : outcome = Resolver(n, found, policy) OBVIOUS
<1>4. outcome = "found" => n \in Allowed BY <1>3 DEF Resolver
<1> QED BY <1>2, <1>4

LEMMA GatewayStep ==
    ASSUME GatewayInv, GatewayNext
    PROVE  GatewayInv'
<1> DEFINE Travels == (TravelInv /\ LoopFree /\ PathTold)'
<1>1. CASE Start
  <2>1. path' = path /\ header' = header /\ at = "client" /\ at' = "out" /\ request' \in AllRequests BY <1>1 DEF Start
  <2>2. path = << >> BY <2>1 DEF GatewayInv, TravelInv
  <2>3. TravelInv' BY <2>1, <2>2, RequestForms DEF GatewayInv, TravelInv, Sender
  <2>4. LoopFree' /\ PathTold' BY <2>1, <2>2 DEF LoopFree, PathTold
  <2>5. SwitchInv' BY <1>1, SwitchKept DEF Start
  <2> QED BY <2>3, <2>4, <2>5 DEF GatewayInv
<1>2. CASE ConnectApp
  <2>1. request' = request /\ path' = path /\ header' = header /\ at' = "router" BY <1>2 DEF ConnectApp
  <2>2. TravelInv' BY <2>1 DEF GatewayInv, TravelInv, Sender
  <2>3. LoopFree' /\ PathTold' BY <2>1 DEF GatewayInv, LoopFree, PathTold
  <2>5. SwitchInv' BY <1>2, SwitchKept DEF ConnectApp
  <2> QED BY <2>2, <2>3, <2>5 DEF GatewayInv
<1>3. ASSUME NEW g \in Gates, NEW n \in AllNames, NEW p \in Option({"http1", "http2"}), ConnectGateway(g, n, p)
      PROVE  GatewayInv'
  <2>1. /\ request' = request /\ path' = path /\ at' = g /\ at = "out"
        /\ header' = [header EXCEPT !.name = {n}, !.session = p]
    BY <1>3 DEF ConnectGateway
  <2>2. p \in SUBSET {"http1", "http2"} BY DEF Option
  <2>3. header.found = FALSE BY <2>1 DEF GatewayInv, TravelInv
  <2>4. header' \in Tags
        /\ header'.client = header.client
    BY <2>1, <2>2, Zenon DEF GatewayInv, TravelInv, Option, Tags
  <2>5. header'.found = FALSE BY <2>1, <2>3 DEF GatewayInv, TravelInv
  <2>6. at' \notin {"client", "out", "router"} BY <2>1, GatewayConstants
  <2>7. TravelInv' BY <2>1, <2>4, <2>5, <2>6 DEF GatewayInv, TravelInv, Sender
  <2>8. LoopFree' /\ PathTold' BY <2>1 DEF GatewayInv, LoopFree, PathTold
  <2>9. SwitchInv' BY <1>3, SwitchKept DEF ConnectGateway
  <2> QED BY <2>7, <2>8, <2>9 DEF GatewayInv
<1>4. ASSUME NEW g \in Gates, Discover(g) PROVE GatewayInv'
  <2>1. SwitchInv' BY <1>4, SwitchKept DEF Discover
  <2>2. CASE \E how : Answer(how) BY <2>1, <2>2, AnswerEffect DEF GatewayInv
  <2>3. ASSUME NEW n \in Allowed, n \in header.name, header' = [header EXCEPT !.found = TRUE],
               UNCHANGED <<request, at, path, served>>
        PROVE  GatewayInv'
    <3>1. header \in Tags /\ header.name = {n} BY <2>3 DEF GatewayInv, TravelInv, Option, Tags
    <3>2. header' \in Tags BY <2>3, <3>1, Zenon DEF Tags
    <3>3. header'.client = header.client /\ header'.name = {n} BY <2>3, <3>1 DEF Tags
    <3>4. at \notin {"client", "out"} BY <1>4, GatewayConstants DEF Discover
    <3>5. TravelInv' BY <2>3, <3>2, <3>3, <3>4 DEF GatewayInv, TravelInv, Sender
    <3>6. LoopFree' /\ PathTold' BY <2>3 DEF GatewayInv, LoopFree, PathTold
    <3> QED BY <2>1, <3>5, <3>6 DEF GatewayInv
  <2> QED BY <1>4, <2>2, <2>3, DiscoverEffect
<1>5. ASSUME NEW g \in Gates, Opaq(g) PROVE GatewayInv'
  BY <1>5, AnswerEffect, SwitchKept DEF Opaq, GatewayInv
<1>6. ASSUME NEW g \in Gates, Http(g) PROVE GatewayInv'
  <2>1. SwitchInv' BY <1>6, SwitchKept DEF Http
  <2>2. CASE \E how : Answer(how) BY <2>1, <2>2, AnswerEffect DEF GatewayInv
  <2>3. CASE \E n \in header.name : ~Loops(g) /\ Forward(g, n)
    BY <1>6, <2>1, <2>3, ForwardStep DEF Http, GatewayInv
  <2> QED BY <1>6, <2>2, <2>3 DEF Http
<1>7. ASSUME NEW n \in Allowed, UpdateProfile(n) PROVE GatewayInv'
  BY <1>7, TravelKept, SwitchKept DEF UpdateProfile, GatewayInv
<1>8. ASSUME NEW n \in Allowed, Change(n) PROVE GatewayInv'
  <2>1. PICK p \in {"pending", "ready", "failed"}, s \in {"pending", "ready"} :
          switch' = [switch EXCEPT ![n].primary = p, ![n].secondary = s]
    BY <1>8, Zenon DEF Change
  <2>2. clock' = clock /\ UNCHANGED travel BY <1>8 DEF Change
  <2>3. \A m \in Allowed : /\ switch'[m] \in Switches /\ switch'[m].state = switch[m].state
                           /\ switch'[m].wake = switch[m].wake /\ switch'[m].since = switch[m].since
    BY <2>1, ZenonT(30) DEF GatewayInv, SwitchInv, Switches
  <2>4. switch' \in [Allowed -> Switches] BY <2>1, <2>3 DEF GatewayInv, SwitchInv
  <2>5. SwitchInv' BY <2>2, <2>3, <2>4 DEF GatewayInv, SwitchInv
  <2> QED BY <2>2, <2>5, TravelKept DEF GatewayInv
<1>9. ASSUME NEW n \in Allowed, Route(n) PROVE GatewayInv'
  <2>1. switch' = [switch EXCEPT ![n] = PollReady(@)] /\ clock' = clock BY <1>9 DEF Route
  <2>2. /\ PollReady(switch[n]) \in Switches
        /\ switch'[n] = PollReady(switch[n])
        /\ \A m \in Allowed : m # n => switch'[m] = switch[m]
        /\ switch' \in [Allowed -> Switches]
    BY <2>1, PollReadyEffect DEF GatewayInv, SwitchInv
  <2>3. SwitchInv' BY <2>1, <2>2, PollReadyEffect DEF GatewayInv, SwitchInv
  <2>4. CASE \E how : Answer(how) BY <2>3, <2>4, AnswerEffect DEF GatewayInv
  <2>5. CASE UNCHANGED travel BY <2>3, <2>5, TravelKept DEF GatewayInv
  <2> QED BY <1>9, <2>4, <2>5 DEF Route
<1>10. CASE GatewayTick
  <2>1. UNCHANGED travel /\ switch' = switch /\ clock' = clock + 1 BY <1>10 DEF GatewayTick
  <2>2. SwitchInv' BY <2>1 DEF GatewayInv, SwitchInv, Switches
  <2> QED BY <2>1, <2>2, TravelKept DEF GatewayInv
<1>11. CASE RoutePlain
  BY <1>11, AnswerEffect, SwitchKept DEF RoutePlain, GatewayInv
<1> QED BY <1>1, <1>2, <1>3, <1>4, <1>5, <1>6, <1>7, <1>8, <1>9, <1>10, <1>11 DEF GatewayNext

\* Only the router answers a request that is there.
LEMMA SkipStep ==
    ASSUME GatewayInv, GatewayNext
    PROVE  SkipsWhenDue
<1> SUFFICES ASSUME NEW n \in Allowed, served' # served, at = "router", Select = {n}
             PROVE  IF switch[n].primary = "pending"
                    THEN served'.last = "skipped" /\ clock - switch'[n].since >= SwitchAfter
                    ELSE served'.last # "skipped"
  BY DEF SkipsWhenDue
<1>1. Route(n)
  <2>1. at \notin Gates /\ at \notin {"client", "out"} BY GatewayConstants
  <2>2. ~RoutePlain BY DEF RoutePlain
  <2>3. ~Start /\ ~ConnectApp /\ ~GatewayTick BY <2>1 DEF Start, ConnectApp, GatewayTick
  <2>4. \A g \in Gates : ~Discover(g) /\ ~Opaq(g) /\ ~Http(g) BY <2>1 DEF Discover, Opaq, Http
  <2>5. \A g, m, p : ~ConnectGateway(g, m, p) BY <2>1 DEF ConnectGateway
  <2>6. \A m \in Allowed : ~UpdateProfile(m) /\ ~Change(m) /\ (Route(m) => m = n) BY DEF UpdateProfile, Change, Route
  <2> QED BY <2>2, <2>3, <2>4, <2>5, <2>6 DEF GatewayNext
<1>2. switch'[n] = PollReady(switch[n]) BY <1>1 DEF Route, GatewayInv, SwitchInv
<1>3. /\ switch'[n].state # "primary" => switch'[n].wake = switch'[n].since + SwitchAfter
      /\ switch'[n].state = "secondary" => clock >= switch'[n].wake
      /\ switch'[n].state = "primary" <=> switch[n].primary # "pending"
      /\ switch'[n].wake \in Nat /\ switch'[n].since \in Nat
  BY <1>2, PollReadyEffect DEF GatewayInv, Switches
<1>4. CASE switch'[n].state = "primary" /\ Answer(IF switch[n].primary = "failed" THEN "error" ELSE Stack(n))
  <2>1. served'.last = IF switch[n].primary = "failed" THEN "error" ELSE Stack(n) BY <1>4 DEF Answer
  <2> QED BY <1>3, <1>4, <2>1 DEF Stack
<1>5. CASE switch'[n].state = "secondary" /\ Answer("skipped")
  <2>1. served'.last = "skipped" BY <1>5 DEF Answer
  <2>2. clock - switch'[n].since >= SwitchAfter BY <1>3, <1>5, GatewayConstants DEF GatewayInv, SwitchInv
  <2> QED BY <1>3, <1>5, <2>1, <2>2
<1> QED BY <1>1, <1>4, <1>5 DEF Route

(***************************************************************************)
(* However requests travel between gateways, none forwards a request twice *)
(* or under a name that may not be discovered, what the Forwarded headers  *)
(* say of the path is true, and the application's proxy skips profile      *)
(* discovery only when it is due (HttpGateway::call, SwitchReady): for any *)
(* gateways, names and timeout, and any number of requests.                *)
(***************************************************************************)
THEOREM GatewaysSafe == GatewaySpec => GatewaysSound
<1>1. GatewayInit => GatewayInv
  <2> SUFFICES ASSUME GatewayInit PROVE GatewayInv OBVIOUS
  <2>1. TravelInv /\ LoopFree /\ PathTold
    <3>1. Idle \in Messages
      BY DEF Idle, Messages
    <3>2. NoHeader \in Tags
      BY DEF NoHeader, Senders, Option, Tags
    <3>3. NoHeader.found = FALSE /\ NoHeader.client = "client" BY DEF NoHeader
    <3>4. TravelInv BY <3>1, <3>2, <3>3 DEF GatewayInit, TravelInv, Sender
    <3> QED BY <3>4 DEF GatewayInit, LoopFree, PathTold
  <2>2. SwitchInv BY DEF GatewayInit, SwitchInv, NewSwitch, Switches
  <2> QED BY <2>1, <2>2 DEF GatewayInv
<1>2. GatewayInv /\ [GatewayNext]_gatewayVars => GatewayInv'
  <2> SUFFICES ASSUME GatewayInv, UNCHANGED gatewayVars PROVE GatewayInv' BY GatewayStep
  <2>1. UNCHANGED travel /\ UNCHANGED <<switch, clock>> BY DEF gatewayVars
  <2> QED BY <2>1, TravelKept, SwitchKept DEF GatewayInv
<1>3. GatewayInv => LoopFree /\ PathTold BY DEF GatewayInv
<1>4. GatewayInv /\ [GatewayNext]_gatewayVars => [SkipsWhenDue]_gatewayVars BY SkipStep
<1> QED BY <1>1, <1>2, <1>3, <1>4, PTL DEF GatewaySpec, GatewaysSound

=============================================================================
