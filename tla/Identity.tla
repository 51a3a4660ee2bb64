------------------------------ MODULE Identity ------------------------------
(***************************************************************************)
(* The proxy's own identity (linkerd/proxy/identity-client, spire-client,  *)
(* linkerd/meshtls, app/src/identity.rs).                                  *)
(*                                                                         *)
(* A task obtains certificates: `Certify::run` asks the identity service   *)
(* and sleeps until the next refresh; `Spire::run` follows a watch of      *)
(* SVIDs.  `WithCertMetrics<NotifyReady<Store>>` validates a certificate,  *)
(* publishes a client and then a server configuration on two watches,      *)
(* announces readiness, and counts.  Other threads read the watches in     *)
(* between: `NewClient` takes a client configuration when a connection is  *)
(* attempted, `Server` takes a server configuration when a handshake       *)
(* begins, and a task copies the server configuration to a third watch     *)
(* that adds an ALPN protocol (`spawn_with_alpn`).                         *)
(*                                                                         *)
(* A certificate is [trusted, sans, notAfter, keyOk]; its subject names    *)
(* are a sequence of [form, id], where a name that does not parse has the  *)
(* id "".  A configuration is the set of its at most one certificate.      *)
(***************************************************************************)
EXTENDS Integers, Sequences, Functions

CONSTANTS LocalId,       \* the identity that the proxy was given
          Sources,       \* configurations: [provider, min, max]
          Answers,       \* what the identity service may answer
          Updates,       \* what the SPIRE agent may send: sequences of X.509 SVIDs
          ClientPeers,   \* clients of the proxy: [cert, protocols, ecdsa]
          ServerPeers,   \* servers the proxy connects to, as certificates
          Targets,       \* what the proxy expects of a server: at most one identity
          TlsConns,      \* connections
          MaxAge,        \* bound on the clock
          MaxUpdates     \* bound on the agent's updates

ASSUME IdentityConstants ==
    /\ \A s \in Sources : s.provider \in {"linkerd", "spire"} /\ s.min \in Nat /\ s.max \in Nat
    /\ \A a \in Answers : a.until \subseteq Nat
    /\ \A p \in ClientPeers : \A cert \in p.cert : DOMAIN cert.sans \subseteq Nat

VARIABLES source,        \* the identity configuration
          time,          \* the clock
          task,          \* the identity task
          svids,         \* the watch of SVID updates
          store,         \* the two published configurations, and the server watch's version
          alpn,          \* the ALPN task and the configuration it publishes
          ready,         \* the watch of NotifyReady
          awaiter,       \* the future returned by Identity::ready
          tls,           \* TLS handshakes
          certMetrics    \* CertMetrics

identityVars == <<source, time, task, svids, store, alpn, ready, awaiter, tls, certMetrics>>

TransportHeader == "transport.l5d.io/v1"

-----------------------------------------------------------------------------
\* Certificates

\* The names of a certificate that are identities, by their positions.
extract_ids_from_cert(cert) ==
    {i \in DOMAIN cert.sans : cert.sans[i].form \in {"dns", "uri"} /\ cert.sans[i].id # ""}

\* The first of them.
client_identity(cert) ==
    LET ids == extract_ids_from_cert(cert)
    IN  {cert.sans[i].id : i \in {first \in ids : \A j \in ids : first <= j}}

verify_id(cert, id) == \E i \in extract_ids_from_cert(cert) : cert.sans[i].id = id

\* AnySanVerifier: signed by a trust root and not expired, whatever its names are.
verify_server_cert(cert) == cert.trusted /\ time <= cert.notAfter

\* Without the check of the certificate's names.
ValidateAnyName(cert) == verify_server_cert(cert)

\* Store::validate
Validate(cert) == verify_server_cert(cert) /\ verify_id(cert, LocalId)

-----------------------------------------------------------------------------
\* The store of credentials

Closed == task.pc \in {"ended", "panicked"}

\* When to try again: at 70% of what is left, within bounds.
RefreshIn ==
    LET lifetime == ((task.expiry - time) * 7) \div 10
    IN  IF task.expiry < time \/ lifetime < source.min THEN source.min
        ELSE IF source.max < lifetime THEN source.max
        ELSE lifetime

\* The task after an attempt that left the expiry at `expiry`.
Rest(t) ==
    IF source.provider = "linkerd" THEN [t EXCEPT !.pc = "sleep"] ELSE [t EXCEPT !.pc = "await"]

\* Store::set_certificate until it publishes: the certificate is validated and its key
\* loaded; a failure is counted and leaves the store as it is.
SetCertificate(cert, until) ==
    IF Validate(cert) /\ cert.keyOk
    THEN /\ task' = [task EXCEPT !.pc = "client", !.cert = {cert}, !.until = until]
         /\ UNCHANGED certMetrics
    ELSE /\ task' = Rest(task)
         /\ certMetrics' = [certMetrics EXCEPT !.errors = @ + 1]

PublishClient ==
    /\ task.pc = "client"
    /\ store' = [store EXCEPT !.client = task.cert]
    /\ task' = [task EXCEPT !.pc = "server"]
    /\ UNCHANGED <<source, time, svids, alpn, ready, awaiter, tls, certMetrics>>

PublishServer ==
    /\ task.pc = "server"
    /\ store' = [store EXCEPT !.server = task.cert, !.version = @ + 1]
    /\ task' = [task EXCEPT !.pc = "notify"]
    /\ UNCHANGED <<source, time, svids, alpn, ready, awaiter, tls, certMetrics>>

\* NotifyReady, then WithCertMetrics; Certify::run records the expiry.
Notify ==
    /\ task.pc = "notify"
    /\ ready' = TRUE
    /\ certMetrics' = [certMetrics EXCEPT !.refreshes = @ + 1,
                          !.expiryTs = IF task.until >= 0 THEN task.until ELSE @]
    /\ task' = [Rest(task) EXCEPT !.cert = {},
                   !.expiry = IF source.provider = "linkerd" THEN task.until ELSE @]
    /\ UNCHANGED <<source, time, svids, store, alpn, awaiter, tls>>

-----------------------------------------------------------------------------
\* Certify::run

\* The token is read anew for every attempt; it may be missing or empty.
LoadToken ==
    /\ task.pc = "start"
    /\ \E loaded \in BOOLEAN : task' = IF loaded THEN [task EXCEPT !.pc = "requested"] ELSE Rest(task)
    /\ UNCHANGED <<source, time, svids, store, alpn, ready, awaiter, tls, certMetrics>>

\* The answer of the identity service, or its failure.
Certify(a) ==
    /\ task.pc = "requested"
    /\ IF a.ok /\ \E until \in a.until : time < until
       THEN SetCertificate(a.cert, CHOOSE until \in a.until : TRUE)
       ELSE task' = Rest(task) /\ UNCHANGED certMetrics
    /\ UNCHANGED <<source, time, svids, store, alpn, ready, awaiter, tls>>

Sleep ==
    /\ task.pc = "sleep"
    /\ task' = [task EXCEPT !.pc = "sleeping", !.slept = time, !.wake = time + RefreshIn]
    /\ UNCHANGED <<source, time, svids, store, alpn, ready, awaiter, tls, certMetrics>>

Wake ==
    /\ task.pc = "sleeping" /\ time >= task.wake
    /\ task' = [task EXCEPT !.pc = "start", !.slept = 0, !.wake = 0]
    /\ UNCHANGED <<source, time, svids, store, alpn, ready, awaiter, tls, certMetrics>>

-----------------------------------------------------------------------------
\* Spire::run

\* Svid::try_from: an SVID needs a key, a chain and an identity in the form of a URI.
TryFromSvid(proto) == proto.key /\ proto.chain /\ proto.id # ""

\* The update's parsable SVIDs by identity; a later one replaces an earlier one.
SvidUpdate(protos) ==
    LET parsed == SelectSeq(protos, TryFromSvid)
        Latest(id) == CHOOSE k \in DOMAIN parsed :
                          parsed[k].id = id /\ \A j \in DOMAIN parsed : parsed[j].id = id => j <= k
    IN  [id \in {p.id : p \in Range(parsed)} |-> parsed[Latest(id)]]

\* Client::call connects to the agent's socket and waits for the first update; a
\* failure to connect, and an error that is not to be retried, end the task in a panic.
Subscribe ==
    /\ task.pc = "subscribe"
    /\ \/ /\ task' = [task EXCEPT !.pc = "panicked"]
          /\ UNCHANGED svids
       \/ \E u \in Updates :
            /\ task' = [task EXCEPT !.pc = "update"]
            /\ svids' = [svids EXCEPT !.value = SvidUpdate(u), !.version = 1]
    /\ UNCHANGED <<source, time, store, alpn, ready, awaiter, tls, certMetrics>>

\* process_svid on the watch's value, which is marked as seen.
ProcessSvid ==
    /\ task.pc = "update"
    /\ svids' = [svids EXCEPT !.seen = svids.version]
    /\ IF LocalId \in DOMAIN svids.value /\ svids.value[LocalId].leaf.notAfter >= 0
       THEN LET leaf == svids.value[LocalId].leaf IN SetCertificate(leaf, leaf.notAfter)
       ELSE task' = Rest(task) /\ UNCHANGED certMetrics
    /\ UNCHANGED <<source, time, store, alpn, ready, awaiter, tls>>

\* `updates.changed()`: an unseen value comes before the end of the watch.
AwaitSvid ==
    /\ task.pc = "await"
    /\ \/ svids.version > svids.seen /\ task' = [task EXCEPT !.pc = "update"]
       \/ svids.version = svids.seen /\ svids.closed /\ task' = [task EXCEPT !.pc = "ended"]
    /\ UNCHANGED <<source, time, svids, store, alpn, ready, awaiter, tls, certMetrics>>

\* The agent's stream: an update replaces the watch's value; an error that GrpcRecover
\* does not recover from closes it.
SendUpdate(u) ==
    /\ svids.version \in 1 .. MaxUpdates - 1 /\ ~svids.closed
    /\ svids' = [svids EXCEPT !.value = SvidUpdate(u), !.version = @ + 1]
    /\ UNCHANGED <<source, time, task, store, alpn, ready, awaiter, tls, certMetrics>>

CloseUpdates ==
    /\ svids.version > 0 /\ ~svids.closed
    /\ svids' = [svids EXCEPT !.closed = TRUE]
    /\ UNCHANGED <<source, time, task, store, alpn, ready, awaiter, tls, certMetrics>>

-----------------------------------------------------------------------------
\* Readers of the watches

SpawnWithAlpn ==
    /\ alpn.pc = "none"
    /\ alpn' = [pc |-> "wait", cfg |-> store.server, seen |-> store.version]
    /\ UNCHANGED <<source, time, task, svids, store, ready, awaiter, tls, certMetrics>>

AlpnChanged ==
    /\ alpn.pc = "wait"
    /\ \/ store.version > alpn.seen /\ alpn' = [alpn EXCEPT !.pc = "copy", !.seen = store.version]
       \/ store.version = alpn.seen /\ Closed /\ alpn' = [alpn EXCEPT !.pc = "ended"]
    /\ UNCHANGED <<source, time, task, svids, store, ready, awaiter, tls, certMetrics>>

\* The task copies what the watch holds now, which may be newer than what it was woken
\* for; it does not mark that as seen, so that it is woken once more.
AlpnCopy ==
    /\ alpn.pc = "copy"
    /\ alpn' = [alpn EXCEPT !.pc = "wait", !.cfg = store.server]
    /\ UNCHANGED <<source, time, task, svids, store, ready, awaiter, tls, certMetrics>>

\* Identity::ready panics when the identity task ends before it has a certificate.
AwaitReady ==
    /\ awaiter = "waiting" /\ (ready \/ Closed)
    /\ awaiter' = IF ready THEN "ready" ELSE "panicked"
    /\ UNCHANGED <<source, time, task, svids, store, alpn, ready, tls, certMetrics>>

\* tls::Client::call takes the configuration before the connection is established; a
\* target without an identity needs none.
Connect(c, ids) ==
    /\ tls[c].pc = "none"
    /\ tls' = [tls EXCEPT ![c] = [@ EXCEPT !.pc = "connecting", !.id = ids,
                                           !.cfg = IF ids = {} THEN {} ELSE store.client,
                                           !.announced = ready]]
    /\ UNCHANGED <<source, time, task, svids, store, alpn, ready, awaiter, certMetrics>>

\* Connect::poll: without an identity to expect there is no handshake.
Outcome(c, peer) ==
    CASE tls[c].id = {} -> "plaintext"
      [] tls[c].id # {} /\ verify_server_cert(peer) /\ \A id \in tls[c].id : verify_id(peer, id) -> "established"
      [] OTHER -> "failed"

\* Connect::poll once the connection is there: with an identity to expect, rustls
\* verifies the server's certificate and the client then looks for that identity in it.
ClientHandshake(c, peer) ==
    /\ tls[c].pc = "connecting"
    /\ tls' = [tls EXCEPT ![c] =
                 [@ EXCEPT !.pc = Outcome(c, peer),
                           !.cfg = {}, !.peer = IF tls[c].id = {} THEN {} ELSE {peer}]]
    /\ UNCHANGED <<source, time, task, svids, store, alpn, ready, awaiter, certMetrics>>

\* Server::call takes the configuration when the handshake starts: that of the ALPN task
\* for the direct server, and the store's for the others.
AcceptTls(c, withAlpn) ==
    /\ tls[c].pc = "none" /\ (withAlpn => alpn.pc # "none")
    /\ tls' = [tls EXCEPT ![c] = [@ EXCEPT !.pc = "accepting", !.cfg = IF withAlpn THEN alpn.cfg ELSE store.server,
                                           !.alpn = withAlpn, !.announced = ready]]
    /\ UNCHANGED <<source, time, task, svids, store, alpn, ready, awaiter, certMetrics>>

\* CertResolver: a peer that has not the proxy's signature scheme gets no certificate.
Resolve(cfg, peer) == IF peer.ecdsa THEN cfg ELSE {}

\* The handshake with a client.  Without a certificate it fails; the client may present
\* none, and one that it presents is verified; protocols that do not overlap fail it.
ServerHandshake(c, peer) ==
    LET offered == peer.protocols # {}
        accepted == /\ Resolve(tls[c].cfg, peer) # {}
                    /\ \A cert \in peer.cert : verify_server_cert(cert)
                    /\ (tls[c].alpn /\ offered) => TransportHeader \in peer.protocols
    IN  /\ tls[c].pc = "accepting"
        /\ tls' = [tls EXCEPT ![c] =
                     [@ EXCEPT !.pc = IF accepted THEN "established" ELSE "failed",
                               !.cfg = {}, !.peer = peer.cert,
                               !.id = IF accepted THEN UNION {client_identity(cert) : cert \in peer.cert} ELSE {},
                               !.protocol = IF accepted /\ tls[c].alpn /\ offered THEN {TransportHeader} ELSE {}]]
        /\ UNCHANGED <<source, time, task, svids, store, alpn, ready, awaiter, certMetrics>>

IdentityTick ==
    /\ time < MaxAge
    /\ time' = time + 1
    /\ UNCHANGED <<source, task, svids, store, alpn, ready, awaiter, tls, certMetrics>>

-----------------------------------------------------------------------------
\* The task of whichever provider is configured.
NewTask ==
    [pc |-> IF source.provider = "linkerd" THEN "start" ELSE "subscribe",
     cert |-> {}, until |-> 0, expiry |-> 0, slept |-> 0, wake |-> 0]

NewStore == [client |-> {}, server |-> {}, version |-> 0]

NewServer == [pc |-> "none", cfg |-> {}, seen |-> 0]

NewCertMetrics == [refreshes |-> 0, errors |-> 0, expiryTs |-> 0]

IdentityInit ==
    /\ source \in Sources
    /\ time = 0
    /\ task = NewTask
    /\ svids = [value |-> <<>>, version |-> 0, seen |-> 0, closed |-> FALSE]
    /\ store = NewStore
    /\ alpn = NewServer
    /\ ready = FALSE
    /\ awaiter = "waiting"
    /\ tls = [c \in TlsConns |-> [pc |-> "none", cfg |-> {}, alpn |-> FALSE, peer |-> {}, id |-> {},
                                  protocol |-> {}, announced |-> FALSE]]
    /\ certMetrics = NewCertMetrics

IdentityNext ==
    \/ LoadToken \/ Sleep \/ Wake
    \/ \E a \in Answers : Certify(a)
    \/ PublishClient \/ PublishServer \/ Notify
    \/ Subscribe \/ ProcessSvid \/ AwaitSvid \/ CloseUpdates
    \/ \E u \in Updates : SendUpdate(u)
    \/ SpawnWithAlpn \/ AlpnChanged \/ AlpnCopy
    \/ AwaitReady
    \/ \E c \in TlsConns : \/ \E ids \in Targets : Connect(c, ids)
                           \/ \E p \in ServerPeers : ClientHandshake(c, p)
                           \/ \E b \in BOOLEAN : AcceptTls(c, b)
                           \/ \E p \in ClientPeers : ServerHandshake(c, p)
    \/ IdentityTick

IdentitySpec == IdentityInit /\ [][IdentityNext]_identityVars

-----------------------------------------------------------------------------
\* Every configuration that anything holds was validated: it is for this proxy's own
\* identity, from a trusted issuer, and has its key.
OnlyValidated ==
    \A cert \in store.client \cup store.server \cup alpn.cfg \cup task.cert
                  \cup UNION {tls[c].cfg : c \in TlsConns} :
        cert.trusted /\ cert.keyOk /\ verify_id(cert, LocalId)

\* Readiness is announced when both configurations have a certificate, so that whoever
\* waits for it may connect, and accept without ALPN, with one.
ReadyMeansProvisioned ==
    /\ ready => store.client # {} /\ store.server # {}
    /\ awaiter = "ready" => ready
    /\ \A c \in TlsConns :
        (\/ tls[c].pc = "connecting" /\ tls[c].id # {}
         \/ tls[c].pc = "accepting" /\ ~tls[c].alpn) => (tls[c].announced => tls[c].cfg # {})

\* The halves of an identity differ only while a certificate is being published, and a
\* task that died took no half of one with it.
HalvesAgree == task.pc # "server" => store.client = store.server

\* The ALPN server lags behind the store only while a change waits for its task, even
\* when the identity task has ended.
AlpnFollows ==
    alpn.pc # "none" /\ alpn.cfg # store.server => alpn.pc = "copy" \/ store.version > alpn.seen

\* The task sleeps for as long as it was configured to (in either order: nothing rejects
\* a minimum above the maximum), and no longer than until the certificate expires, unless
\* that is sooner than it may retry.
RefreshInTime ==
    task.pc = "sleeping" =>
        /\ task.wake - task.slept \in source.min .. source.max \cup source.max .. source.min
        /\ task.wake <= task.expiry \/ task.wake = task.slept + source.min

\* The counters tell apart what the store accepted and what it refused.
CertMetricsExact ==
    /\ certMetrics.refreshes = store.version - (IF task.pc = "notify" THEN 1 ELSE 0)
    /\ certMetrics.refreshes > 0 <=> ready
    /\ (source.provider = "linkerd" /\ task.pc # "notify") => certMetrics.expiryTs = task.expiry

\* A connection that is established authenticated its peer by what the peer presented.
PeersAuthenticated ==
    \A c \in TlsConns : tls[c].pc = "established" =>
        /\ \A cert \in tls[c].peer : cert.trusted
        /\ \A id \in tls[c].id : \E cert \in tls[c].peer : verify_id(cert, id)
        /\ tls[c].id = {} => \A cert \in tls[c].peer : extract_ids_from_cert(cert) = {}

\* No step replaces a certificate by none, or publishes one that had expired when it was
\* validated; and an update of the agent that is not superseded is not overlooked.
CredentialsKept ==
    /\ store.client # {} => store'.client # {}
    /\ store.server # {} => store'.server # {}
    /\ \A cert \in task'.cert \ task.cert : time <= cert.notAfter
    /\ (task.pc = "await" /\ task'.pc = "ended") => svids.seen = svids.version

\* The proxy's credentials are whole, its own, announced when they are there, and
\* refreshed before they expire.
IdentitySound ==
    /\ [](/\ OnlyValidated /\ ReadyMeansProvisioned /\ HalvesAgree /\ AlpnFollows
         /\ RefreshInTime /\ CertMetricsExact /\ PeersAuthenticated)
    /\ [][CredentialsKept]_identityVars

=============================================================================
