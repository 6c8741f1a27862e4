---------------------------- MODULE TLSHandshake ----------------------------
(***************************************************************************)
(* The handshake of utls, both ends of it: UConn.clientHandshake with the   *)
(* client states of TLS 1.2 and 1.3, and Conn.serverHandshake with the      *)
(* server states, over a reliable stream that may break.  A client connects *)
(* again and again; between two attempts either end may be configured anew, *)
(* the server may rotate its ticket keys and tickets may expire, while the  *)
(* session cache of the client and the tickets it holds stay.               *)
(*                                                                         *)
(* An end takes one step per message it reads; a step writes all the code   *)
(* writes until its next read.  A hash is the sequence of the messages      *)
(* written to it, a secret is the record of what it is derived from, and a  *)
(* record carries the key it is encrypted with: what does not match cannot  *)
(* be read, and what is not flushed is not seen.                            *)
(*                                                                         *)
(* Left out: QUIC and early data, renegotiation (module TLSConn), versions  *)
(* before 1.2, the dummy ChangeCipherSpec of TLS 1.3 that the peer ignores, *)
(* cookies, application settings and compressed certificates, which the     *)
(* server never sends, and the arithmetic of keys and signatures.           *)
(***************************************************************************)
EXTENDS Naturals, FiniteSets, Sequences, SequencesExt

CONSTANTS
    ClientConfigs,  \* configurations and hellos of the client
    ServerConfigs,  \* configurations of the server
    MaxAttempts,    \* bound on the attempts to connect
    MaxBreaks,      \* bound on the connections that break
    None

(* The cipher suites: those of TLS 1.3 with the hash they use, and those of *)
(* TLS 1.2 with the key the certificate of the server needs for them.       *)
Hash == [aes128 |-> "sha256", aes256 |-> "sha384", chacha |-> "sha256"]
Suites13 == DOMAIN Hash
Suites12 == {"ecdhe_ecdsa", "ecdhe_rsa", "rsa"}
fallback_scsv == "fallback_scsv"
Hybrid == {"mlkem"}                     \* isPQKeyExchange
Groups == Hybrid \cup {"x25519", "p256"}

(* ClientAuth, in the order of its constants in common.go. *)
NoClientCert == 0
RequestClientCert == 1
RequireAnyClientCert == 2
VerifyClientCertIfGiven == 3
RequireAndVerifyClientCert == 4
requiresClientCert(auth) == auth \in {RequireAnyClientCert, RequireAndVerifyClientCert}

ClientConfig ==
    [golang : BOOLEAN,                          \* HelloGolang, or a preset
     versions : Seq({12, 13}), suites : Seq(Suites13 \cup Suites12 \cup {fallback_scsv}),
     curves : SUBSET Groups, shares : Seq(Groups),
     ems : BOOLEAN, alpn : Seq({"h2", "http/1.1"}),
     cache : BOOLEAN,                           \* ClientSessionCache is set
     ech : Nat,                                 \* the ECH key it encrypts to, 0: none
     skipVerify : BOOLEAN,
     cert : {"none", "unverifiable", "good"}]
ServerConfig ==
    [versions : Seq({12, 13}), suites : Seq(Suites12), curves : Seq(Groups),
     alpn : Seq({"h2", "http/1.1"}), ech : Nat, ticketsDisabled : BOOLEAN,
     clientAuth : 0..4, key : {"ecdsa", "rsa"}, staple : BOOLEAN, trusted : BOOLEAN]

ASSUME ConfigAssumption == ClientConfigs \subseteq ClientConfig /\ ServerConfigs \subseteq ServerConfig
(* HelloGolang offers the fixed suites of TLS 1.3, and so does every preset *)
(* that is used with ECH.                                                   *)
ASSUME SuitesAssumption ==
    \A x \in ClientConfigs :
        13 \in ToSet(x.versions) /\ (x.golang \/ x.ech # 0) => Suites13 \subseteq ToSet(x.suites)
ASSUME EchAssumption == \A x \in ClientConfigs : x.ech # 0 => 13 \in ToSet(x.versions)
(* The scope of InnerHello, used by no proof: the inner hello of HelloGolang *)
(* would carry the PSK of a cached session, and no client of this program    *)
(* has both ECH and a session cache.                                         *)
ASSUME EchScope == \A x \in ClientConfigs : x.ech # 0 => ~x.cache
ASSUME NoneAssumption == None \notin {"bad_certificate", "certificate_required"}
ASSUME BoundsAssumption == MaxAttempts \in Nat \ {0} /\ MaxBreaks \in Nat

VARIABLES
    attempt,        \* the number of the current attempt
    ccfg, scfg,     \* the configurations in use
    cache,          \* the session the client cached, or None
    ticketKey,      \* the server's ticket key
    epoch,          \* tickets of attempts before this one have expired
    c, s,           \* the two ends, see Idle
    breaks,         \* the attempts whose connection broke
    founded         \* history: the secrets the client completed attempts with

vars == <<attempt, ccfg, scfg, cache, ticketKey, epoch, c, s, breaks, founded>>
config == <<attempt, ccfg, scfg, ticketKey, epoch, breaks>>

-----------------------------------------------------------------------------
(* The state of an end: its next step, the records it wrote that the peer   *)
(* has not read, its buffer, its keys and what it has negotiated.           *)
Idle ==
    [pc |-> "start", in |-> None, pending |-> None,
     wire |-> [out |-> None, buffering |-> FALSE, buf |-> <<>>, sent |-> <<>>],
     hello |-> None, serverHello |-> None, session |-> None, share |-> None,
     vers |-> 0, suite |-> None, transcript |-> <<>>, inner |-> <<>>, echRejected |-> FALSE,
     secret |-> None, traffic |-> None, resumption |-> None, base |-> None, alpn |-> None, ems |-> FALSE,
     flight |-> 0, certReq |-> FALSE, peerCert |-> "none", verified |-> FALSE, ticket |-> None,
     clientFinished |-> None]

Msg(kind, body) == [kind |-> kind, body |-> body]
Put(w, m) ==
    LET r == [kind |-> m.kind, body |-> m.body, under |-> w.out]
    IN IF w.buffering THEN [w EXCEPT !.buf = Append(@, r)] ELSE [w EXCEPT !.sent = Append(@, r)]
Flushed(w) == [w EXCEPT !.sent = @ \o w.buf, !.buf = <<>>, !.buffering = FALSE]
Write(e, m) == [e EXCEPT !.wire = Put(@, m)]
(* writeHandshakeRecord with a transcript, and readHandshake with one. *)
Record(e, kind) == [e EXCEPT !.transcript = Append(@, kind)]
WriteRecorded(e, kind, body) == Record(Write(e, Msg(kind, body)), kind)
Buffer(e) == [e EXCEPT !.wire.buffering = TRUE]
flush(e) == [e EXCEPT !.wire = Flushed(@)]

(* An end that returns an error: the alert it sent, if any, is flushed by   *)
(* handshakeContext, and the application closes the connection.             *)
Failed(e, alert) ==
    LET told == IF alert = None THEN e ELSE Write(e, Msg("alert", alert))
    IN [flush(Write(told, Msg("eof", None))) EXCEPT !.pc = "failed"]
Done(e) == [e EXCEPT !.pc = "done"]
Ended(e) == e.pc \in {"done", "failed"}

(* What a read may find at each step of an end. *)
Reads ==
    [serverHello |-> {"serverHello", "helloRetryRequest"}, serverHello2 |-> {"serverHello", "helloRetryRequest"},
     certificate12 |-> {"certificate"},
     flight12 |-> {"certificateStatus", "serverKeyExchange", "certificateRequest", "serverHelloDone"},
     ticket12 |-> {"newSessionTicket"}, changeCipherSpec |-> {"changeCipherSpec"}, finished12 |-> {"finished"},
     encryptedExtensions |-> {"encryptedExtensions"}, certificate13 |-> {"certificateRequest", "certificate"},
     certificateVerify13 |-> {"certificateVerify"}, finished13 |-> {"finished"},
     clientHello |-> {"clientHello"}, clientHello2 |-> {"clientHello"},
     clientCertificate12 |-> {"certificate"}, clientKeyExchange |-> {"clientKeyExchange"},
     clientVerify12 |-> {"certificateVerify"}, clientCCS |-> {"changeCipherSpec"}, clientFinished12 |-> {"finished"},
     clientCertificate13 |-> {"certificate"}, clientVerify13 |-> {"certificateVerify"},
     clientFinished13 |-> {"finished"}]

(* The record the peer p sent next is one that e can decrypt and expects. *)
Receives(e, p, pc) ==
    /\ e.pc = pc
    /\ p.wire.sent # <<>>
    /\ Head(p.wire.sent).under = e.in
    /\ Head(p.wire.sent).kind \in Reads[pc]
Body(p) == Head(p.wire.sent).body
Kind(p) == Head(p.wire.sent).kind
Taken(p) == [p EXCEPT !.wire.sent = Tail(@)]

(* Every other record ends the handshake. *)
Refuses(e, p) ==
    /\ e.pc \in DOMAIN Reads
    /\ p.wire.sent # <<>>
    /\ Head(p.wire.sent).under # e.in \/ Head(p.wire.sent).kind \notin Reads[e.pc]
Refused(e, p) ==
    IF Kind(p) \in {"alert", "eof"} THEN Failed(e, None)
    ELSE IF Head(p.wire.sent).under # e.in THEN Failed(e, "bad_record_mac")
    ELSE Failed(e, "unexpected_message")

-----------------------------------------------------------------------------
(* Keys.  A key names its side, its purpose and what it is derived from.    *)
Key(side, level, e) == [side |-> side, level |-> level, secret |-> e.secret, transcript |-> e.transcript]
Key12(side, e) == [side |-> side, level |-> "tls12", secret |-> e.secret, transcript |-> <<>>]
(* The verify data of a Finished message. *)
Verify(key, e) == [key |-> key, transcript |-> e.transcript]

(* masterFromPreMasterSecret, and extMasterFromPreMasterSecret, which also  *)
(* depends on the transcript.                                               *)
masterSecret(e, ems) ==
    [attempt |-> attempt, early |-> None, share |-> None,
     context |-> IF ems THEN e.transcript ELSE <<>>]
(* EarlySecret, HandshakeSecret and MasterSecret of TLS 1.3. *)
masterSecret13(early, share) ==
    [attempt |-> attempt, early |-> early, share |-> share, context |-> <<>>]

(* sessionState: what an end keeps of the connection for a resumption. *)
sessionState(e, secret) ==
    [version |-> e.vers, suite |-> e.suite, ems |-> e.ems, secret |-> secret, base |-> e.secret,
     peerCert |-> e.peerCert, verified |-> e.verified, born |-> attempt, ticket |-> None]
(* encryptTicket and decryptTicket: only the key it was made with opens it. *)
encryptTicket(state) == [key |-> ticketKey, state |-> state]
decryptTicket(ticket) ==
    IF ticket = None \/ scfg.ticketsDisabled THEN None
    ELSE IF ticket.key # ticketKey THEN None ELSE ticket.state

(* Variants: the session is saved when its ticket is read; a session is kept *)
(* although the handshake that offered it failed.                           *)
CachedEarly(e) ==
    IF e.pc = "failed" /\ c.session # None THEN None
    ELSE IF e.ticket # None /\ ccfg.cache
         THEN [sessionState(e, e.secret) EXCEPT !.ticket = e.ticket]
    ELSE cache
CachedForever(e) ==
    IF e.pc = "done" /\ e.ticket # None /\ ccfg.cache
    THEN [sessionState(e, e.secret) EXCEPT !.ticket = e.ticket] ELSE cache
(* saveSessionTicket, and the session that a failed handshake that offered  *)
(* it throws away.                                                          *)
Cached(e) ==
    IF e.pc = "failed" /\ c.session # None THEN None
    ELSE IF e.pc = "done" /\ e.ticket # None /\ ccfg.cache
         THEN [sessionState(e, e.secret) EXCEPT !.ticket = e.ticket]
    ELSE cache

(* A step of the client that leads to e, or of the server. *)
ClientStep(e) ==
    /\ c' = e
    /\ s' = Taken(s)
    /\ cache' = Cached(e)
    /\ founded' = IF e.pc = "done" THEN founded \cup {e.secret} ELSE founded
    /\ UNCHANGED config
ServerStep(e) ==
    /\ s' = e
    /\ c' = Taken(c)
    /\ UNCHANGED <<config, cache, founded>>

-----------------------------------------------------------------------------
(* The hello. *)
FirstClassical(shares) ==
    LET i == SelectInSeq(shares, LAMBDA g : g \notin Hybrid)
    IN IF i = 0 THEN None ELSE shares[i]
(* The group of the one classical private key that is kept: that of the     *)
(* first classical share of a preset, and x25519 beside a hybrid of Go.     *)
keyShareKey(cfg) ==
    IF cfg.golang /\ cfg.shares # <<>> /\ Head(cfg.shares) \in Hybrid
    THEN "x25519" ELSE FirstClassical(cfg.shares)

(* loadSession: the cached session, if this hello may offer it. *)
Expired == cache # None /\ cache.version = 13 /\ cache.born < epoch
loadSession(cfg) ==
    IF /\ cfg.cache
       /\ cache # None
       /\ cache.version \in ToSet(cfg.versions)
       /\ cfg.skipVerify \/ cache.verified
       /\ IF cache.version = 12
          THEN cache.suite \in ToSet(cfg.suites)
          ELSE ~Expired /\ \E x \in ToSet(cfg.suites) \cap Suites13 : Hash[x] = Hash[cache.suite]
    THEN cache ELSE None

OffersTickets(cfg) == cfg.cache \/ ~cfg.golang
Binder(session, transcript) == [secret |-> session.secret, transcript |-> transcript]
ClientHello(cfg, session) ==
    [versions |-> cfg.versions, suites |-> cfg.suites, curves |-> cfg.curves,
     shares |-> cfg.shares, generation |-> 1, ems |-> cfg.ems, alpn |-> cfg.alpn, ech |-> cfg.ech,
     tickets |-> OffersTickets(cfg), random |-> "outer",
     ticket |-> IF session # None /\ session.version = 12 THEN session.ticket ELSE None,
     psk |-> IF session # None /\ session.version = 13
             THEN [ticket |-> session.ticket, binder |-> Binder(session, <<>>)] ELSE None]
(* The inner hello: makeClientHello's, with the extensions that decoding    *)
(* copies from the outer one, the key shares among them.                    *)
InnerHello(hello) ==
    [hello EXCEPT !.versions = <<13>>, !.suites = <<"aes128", "aes256", "chacha">>,
                  !.psk = None, !.ticket = None, !.random = "inner"]
HelloName(hello) == IF hello.random = "inner" THEN "innerHello" ELSE "clientHello"

(* clientHandshake, up to the read of the ServerHello. *)
clientHandshake ==
    LET session == loadSession(ccfg)
        hello == ClientHello(ccfg, session)
    IN
    /\ c.pc = "start"
    /\ c' = [Write(c, Msg("clientHello", hello)) EXCEPT
                !.pc = "serverHello", !.hello = hello, !.session = session,
                !.share = [group |-> keyShareKey(ccfg), generation |-> 1]]
    /\ cache' = IF ccfg.cache /\ Expired THEN None ELSE cache
    /\ UNCHANGED <<config, s, founded>>

-----------------------------------------------------------------------------
(* The server, readClientHello and processClientHello. *)
FirstIn(order, set) ==
    LET i == SelectInSeq(order, LAMBDA x : x \in set)
    IN IF i = 0 THEN None ELSE order[i]

(* processECHClientHello: the inner hello, if the server has the key. *)
AcceptsECH(hello) == hello.ech # 0 /\ hello.ech = scfg.ech
processECHClientHello(hello) == IF AcceptsECH(hello) THEN InnerHello(hello) ELSE hello

(* negotiateALPN: None is no protocol, "error" no common one. *)
negotiateALPN(server, client) ==
    IF server = <<>> \/ client = <<>> THEN None
    ELSE IF FirstIn(server, ToSet(client)) # None THEN FirstIn(server, ToSet(client))
    ELSE IF "h2" \in ToSet(server) /\ "http/1.1" \in ToSet(client) THEN None ELSE "error"

(* cipherSuiteOk of TLS 1.2: what the key of the server can do. *)
supportsECDHE(hello) == ToSet(scfg.curves) \cap hello.curves # {}
cipherSuiteOk(suite, hello) ==
    CASE suite = "ecdhe_ecdsa" -> supportsECDHE(hello) /\ scfg.key = "ecdsa"
      [] suite = "ecdhe_rsa" -> supportsECDHE(hello) /\ scfg.key = "rsa"
      [] suite = "rsa" -> scfg.key = "rsa"
      [] OTHER -> FALSE
pickCipherSuite(hello) ==
    FirstIn(scfg.suites, {x \in ToSet(hello.suites) : cipherSuiteOk(x, hello)})
InappropriateFallback(hello) == fallback_scsv \in ToSet(hello.suites) /\ 13 \in ToSet(scfg.versions)

(* Variant: a certificate shown once is good for every policy. *)
CertsOnceShown(state) ==
    /\ requiresClientCert(scfg.clientAuth) => state.peerCert # "none"
    /\ state.peerCert # "none" => scfg.clientAuth # NoClientCert
(* The conditions on client certificates under which both versions resume. *)
CertsAllowResumption(state) ==
    /\ requiresClientCert(scfg.clientAuth) => state.peerCert # "none"
    /\ state.peerCert # "none" =>
        /\ scfg.clientAuth # NoClientCert
        /\ scfg.clientAuth >= VerifyClientCertIfGiven => state.verified

(* checkForResumption of TLS 1.2: the session to resume, or None. *)
checkForResumption12(hello) ==
    LET state == decryptTicket(hello.ticket)
    IN IF /\ state # None
          /\ state.born >= epoch
          /\ state.version = 12
          /\ state.suite \in ToSet(hello.suites)
          /\ state.suite \in ToSet(scfg.suites) /\ cipherSuiteOk(state.suite, hello)
          /\ CertsAllowResumption(state)
          /\ state.ems \/ ~hello.ems
       THEN state ELSE None

(* checkForResumption of TLS 1.3, binders aside. *)
checkForResumption13(hello, suite) ==
    LET state == IF hello.tickets /\ hello.psk # None THEN decryptTicket(hello.psk.ticket) ELSE None
    IN IF /\ state # None
          /\ state.version = 13
          /\ state.born >= epoch
          /\ Hash[state.suite] = Hash[suite]
          /\ CertsAllowResumption(state)
       THEN state ELSE None

-----------------------------------------------------------------------------
(* The server of TLS 1.2. *)
ServerHello ==
    [vers |-> 0, suite |-> None, canary |-> FALSE, echo |-> FALSE, ems |-> FALSE, tickets |-> FALSE,
     alpn |-> None, staple |-> FALSE, group |-> None, share |-> None, psk |-> FALSE, ech |-> <<>>]

sendSessionTicket12(e) ==
    LET state == sessionState(e, e.secret)
        kept == IF e.session = None THEN state ELSE [state EXCEPT !.born = e.session.born]
    IN IF e.serverHello.tickets
       THEN WriteRecorded(e, "newSessionTicket", encryptTicket(kept)) ELSE e

(* writeChangeCipherRecord, which switches to the pending key, and Finished. *)
sendFinished12(e, side) ==
    LET key == Key12(side, e)
        x == [Write(e, Msg("changeCipherSpec", None)) EXCEPT !.wire.out = key]
    IN WriteRecorded(x, "finished", Verify(key, x))

doResumeHandshake(e, state) ==
    LET hello == [e.serverHello EXCEPT !.suite = state.suite, !.echo = TRUE, !.tickets = TRUE]
        x == WriteRecorded(
                Record([Buffer(e) EXCEPT !.suite = state.suite, !.session = state, !.serverHello = hello,
                            !.secret = state.secret, !.base = state.base, !.ems = state.ems,
                            !.peerCert = state.peerCert, !.verified = state.verified], "clientHello"),
                "serverHello", hello)
        y == flush(sendFinished12(sendSessionTicket12(x), "server"))
    IN [y EXCEPT !.pending = Key12("client", y), !.pc = "clientCCS"]

(* doFullHandshake, up to the first read.  The key exchange of "rsa" has no *)
(* ServerKeyExchange.                                                       *)
doFullHandshake12(e, suite) ==
    LET hello == [e.serverHello EXCEPT !.suite = suite, !.staple = scfg.staple,
                                       !.tickets = e.hello.tickets /\ ~scfg.ticketsDisabled]
        x == WriteRecorded(Record([Buffer(e) EXCEPT !.suite = suite, !.serverHello = hello], "clientHello"),
                           "serverHello", hello)
        x1 == WriteRecorded(x, "certificate", scfg.trusted)
        x2 == IF hello.staple THEN WriteRecorded(x1, "certificateStatus", None) ELSE x1
        x3 == IF suite # "rsa" THEN WriteRecorded(x2, "serverKeyExchange", None) ELSE x2
        x4 == IF scfg.clientAuth >= RequestClientCert
              THEN WriteRecorded(x3, "certificateRequest", None) ELSE x3
    IN [flush(WriteRecorded(x4, "serverHelloDone", None)) EXCEPT
            !.pc = IF scfg.clientAuth >= RequestClientCert
                   THEN "clientCertificate12" ELSE "clientKeyExchange"]

(* handshake and processClientHello of TLS 1.2. *)
ServerHandshake12(e) ==
    LET hello == e.hello
        alpn == negotiateALPN(scfg.alpn, hello.alpn)
        state == checkForResumption12(hello)
        suite == pickCipherSuite(hello)
        x == [e EXCEPT !.alpn = alpn,
                       !.serverHello = [ServerHello EXCEPT !.vers = 12, !.alpn = alpn, !.ems = hello.ems,
                                                           !.canary = 13 \in ToSet(scfg.versions)]]
    IN IF alpn = "error" THEN Failed(e, "no_application_protocol")
       ELSE IF state # None
            THEN IF state.ems /\ ~hello.ems THEN Failed(Buffer(x), None) ELSE doResumeHandshake(x, state)
       ELSE IF suite = None THEN Failed(Buffer(x), "handshake_failure")
       ELSE IF InappropriateFallback(hello) THEN Failed(Buffer(x), "inappropriate_fallback")
       ELSE doFullHandshake12(x, suite)

-----------------------------------------------------------------------------
(* The server of TLS 1.3. *)
Prefers13(hello) ==
    IF Head(SelectSeq(hello.suites, LAMBDA x : x # fallback_scsv)) \in {"aes128", "aes256"}
    THEN <<"aes128", "aes256", "chacha">> ELSE <<"chacha", "aes128", "aes256">>

(* The group: one both support; hybrids first, then those the client sent a *)
(* share for, then in the order of preference.                              *)
selectedGroup(hello) ==
    LET common == ToSet(scfg.curves) \cap hello.curves
        hybrids == IF common \cap Hybrid # {} THEN common \cap Hybrid ELSE common
        shared == hybrids \cap ToSet(hello.shares)
    IN FirstIn(scfg.curves, IF shared # {} THEN shared ELSE hybrids)

requestClientCert(e) == scfg.clientAuth >= RequestClientCert /\ e.session = None

(* sendSessionTickets: the Finished of the client is computed in advance,   *)
(* and the ticket wraps the resumption secret that follows it.              *)
sendSessionTickets(e) ==
    LET x == Record([e EXCEPT !.clientFinished = Verify(e.in, e)], "finished")
        secret == [x.secret EXCEPT !.context = x.transcript]
        y == [x EXCEPT !.resumption = secret]
    IN IF scfg.ticketsDisabled \/ ~e.hello.tickets THEN y
       ELSE Write(y, Msg("newSessionTicket", encryptTicket(sessionState(y, secret))))

sendServerParameters(e, share) ==
    LET name == HelloName(e.hello)
        hello == [e.serverHello EXCEPT
                    !.share = share.group, !.psk = e.session # None,
                    !.ech = IF name = "innerHello"
                            THEN e.transcript \o <<name, "serverHello">> ELSE <<>>]
        x == WriteRecorded(Record([Buffer(e) EXCEPT !.serverHello = hello], name), "serverHello", hello)
        y == [x EXCEPT !.secret = masterSecret13(IF e.session = None THEN None ELSE e.session.secret, share)]
    IN WriteRecorded([y EXCEPT !.in = Key("client", "handshake", y), !.wire.out = Key("server", "handshake", y)],
                     "encryptedExtensions", e.alpn)
(* The handshake once a key share is known. *)
ServerFlight13(e, share) ==
    LET alpn == negotiateALPN(scfg.alpn, e.hello.alpn)
        state == checkForResumption13(e.hello, e.suite)
        x == [e EXCEPT !.alpn = alpn, !.session = state,
                       !.base = IF state = None THEN None ELSE state.base,
                       !.peerCert = IF state = None THEN "none" ELSE state.peerCert,
                       !.verified = state # None /\ state.verified]
    IN IF alpn = "error" THEN Failed(e, "no_application_protocol")
       ELSE IF state # None /\ e.hello.psk.binder # Binder(state, e.transcript) THEN Failed(e, "decrypt_error")
       ELSE [sendServerParameters(x, share) EXCEPT !.pc = "sendServerCertificate"]

MessageHash(name) == IF name = "innerHello" THEN <<"hashOfInnerHello">> ELSE <<"hashOfClientHello">>
doHelloRetryRequest(e, group) ==
    LET hash == MessageHash(HelloName(e.hello))
        hello == [e.serverHello EXCEPT !.group = group,
                                       !.ech = IF e.hello.random = "inner" THEN hash ELSE <<>>]
    IN [WriteRecorded([e EXCEPT !.transcript = hash], "helloRetryRequest", hello) EXCEPT
            !.pc = "clientHello2", !.share = group]

(* handshake and processClientHello of TLS 1.3. *)
ServerHandshake13(e) ==
    LET hello == e.hello
        suite == FirstIn(Prefers13(hello), ToSet(hello.suites))
        group == selectedGroup(hello)
        x == [e EXCEPT !.suite = suite,
                       !.serverHello = [ServerHello EXCEPT !.vers = 13, !.suite = suite, !.echo = TRUE]]
    IN IF suite = None \/ group = None THEN Failed(e, "handshake_failure")
       ELSE IF group \in ToSet(hello.shares)
            THEN ServerFlight13(x, [group |-> group, generation |-> hello.generation])
       ELSE doHelloRetryRequest(x, group)

(* The two functions that end the flight. *)
sendServerCertificate ==
    LET x == IF requestClientCert(s) THEN WriteRecorded(s, "certificateRequest", None) ELSE s
        y == WriteRecorded(x, "certificate", scfg.trusted)
        z == IF s.session # None THEN s ELSE WriteRecorded(y, "certificateVerify", y.transcript)
    IN
    /\ s.pc = "sendServerCertificate"
    /\ s' = [z EXCEPT !.pc = "sendServerFinished"]
    /\ UNCHANGED <<config, cache, founded, c>>
sendServerFinished ==
    LET x == WriteRecorded(s, "finished", Verify(s.wire.out, s))
        y == [x EXCEPT !.wire.out = Key("server", "application", x), !.traffic = Key("client", "application", x)]
    IN
    /\ s.pc = "sendServerFinished"
    /\ s' = IF requestClientCert(s) THEN [flush(y) EXCEPT !.pc = "clientCertificate13"]
            ELSE [flush(sendSessionTickets(y)) EXCEPT !.pc = "clientFinished13"]
    /\ UNCHANGED <<config, cache, founded, c>>

(* serverHandshake and readClientHello. *)
serverHandshake ==
    /\ s.pc = "start"
    /\ s' = [s EXCEPT !.pc = "clientHello"]
    /\ UNCHANGED <<config, cache, founded, c>>
readClientHello ==
    LET hello == processECHClientHello(Body(c))
        vers == FirstIn(hello.versions, ToSet(scfg.versions))
        x == [s EXCEPT !.vers = vers, !.hello = hello]
    IN
    /\ Receives(s, c, "clientHello")
    /\ ServerStep(IF vers = None THEN Failed(s, "protocol_version")
                  ELSE IF vers = 13 THEN ServerHandshake13(x) ELSE ServerHandshake12(x))

(* The second hello must bring the one share that was asked for, and may    *)
(* change nothing else (illegalClientHelloChange).                          *)
illegalClientHelloChange(a, b) ==
    [a EXCEPT !.shares = b.shares, !.generation = b.generation, !.psk = b.psk] # b
readClientHello2 ==
    LET hello == IF s.hello.random = "inner" THEN InnerHello(Body(c)) ELSE Body(c)
    IN
    /\ Receives(s, c, "clientHello2")
    /\ ServerStep(IF hello.shares # <<s.share>> \/ illegalClientHelloChange(s.hello, hello)
                  THEN Failed(s, "illegal_parameter")
                  ELSE ServerFlight13([s EXCEPT !.hello = hello],
                                      [group |-> s.share, generation |-> hello.generation]))

-----------------------------------------------------------------------------
(* The server's later reads. *)
(* processCertsFromClient: None, or the alert. *)
processCertsFromClient(vers, cert) ==
    CASE cert = "none" /\ requiresClientCert(scfg.clientAuth) ->
            IF vers = 13 THEN "certificate_required" ELSE "bad_certificate"
      [] cert = "unverifiable" /\ scfg.clientAuth >= VerifyClientCertIfGiven -> "bad_certificate"
      [] OTHER -> None
TakesCert(e, cert) ==
    [Record(e, "certificate") EXCEPT
        !.peerCert = cert, !.verified = cert # "none" /\ scfg.clientAuth >= VerifyClientCertIfGiven]

readClientCertificate12 ==
    LET alert == processCertsFromClient(s.vers, Body(c))
    IN
    /\ Receives(s, c, "clientCertificate12")
    /\ ServerStep(IF alert # None THEN Failed(s, alert)
                  ELSE [TakesCert(s, Body(c)) EXCEPT !.pc = "clientKeyExchange"])
readClientKeyExchange ==
    LET x == Record(s, "clientKeyExchange")
        y == [x EXCEPT !.secret = masterSecret(x, s.hello.ems), !.ems = s.hello.ems]
    IN
    /\ Receives(s, c, "clientKeyExchange")
    /\ ServerStep([y EXCEPT !.pending = Key12("client", y),
                            !.pc = IF s.peerCert # "none" THEN "clientVerify12" ELSE "clientCCS"])
readCertificateVerify12 ==
    /\ Receives(s, c, "clientVerify12")
    /\ ServerStep(IF Body(c) # s.transcript THEN Failed(s, "decrypt_error")
                  ELSE [Record(s, "certificateVerify") EXCEPT !.pc = "clientCCS"])
readClientCCS ==
    /\ Receives(s, c, "clientCCS")
    /\ ServerStep([s EXCEPT !.in = s.pending, !.pc = "clientFinished12"])
(* readFinished, and the rest of a full handshake. *)
readClientFinished12 ==
    LET x == Record(s, "finished")
    IN
    /\ Receives(s, c, "clientFinished12")
    /\ ServerStep(IF Body(c) # Verify(s.in, s) THEN Failed(s, "handshake_failure")
                  ELSE IF s.session # None THEN Done(x)
                  ELSE Done(flush(sendFinished12(sendSessionTicket12(Buffer(x)), "server"))))

readClientCertificate13 ==
    LET alert == processCertsFromClient(s.vers, Body(c))
        x == TakesCert(s, Body(c))
    IN
    /\ Receives(s, c, "clientCertificate13")
    /\ ServerStep(IF alert # None THEN Failed(s, alert)
                  ELSE IF x.peerCert # "none" THEN [x EXCEPT !.pc = "clientVerify13"]
                  ELSE [sendSessionTickets(x) EXCEPT !.pc = "clientFinished13"])
readClientVerify13 ==
    /\ Receives(s, c, "clientVerify13")
    /\ ServerStep(IF Body(c) # s.transcript THEN Failed(s, "decrypt_error")
                  ELSE [sendSessionTickets(Record(s, "certificateVerify")) EXCEPT !.pc = "clientFinished13"])
readClientFinished13 ==
    /\ Receives(s, c, "clientFinished13")
    /\ ServerStep(IF Body(c) # s.clientFinished THEN Failed(s, "decrypt_error")
                  ELSE [Done(s) EXCEPT !.in = s.traffic])
ServerRefuses == Refuses(s, c) /\ ServerStep(Refused(s, c))

-----------------------------------------------------------------------------
(* The client's later reads. *)
AcceptedVersions == IF ccfg.ech # 0 THEN {13} ELSE ToSet(ccfg.versions)
checkALPN(client, server) == server = None \/ server \in ToSet(client)
(* verifyServerCertificate verifies unless told not to; a server that       *)
(* rejected ECH it verifies all the same.                                   *)
MustVerify(e) == ~ccfg.skipVerify \/ e.echRejected

(* readSessionTicket: the next read, before the Finished of the server. *)
readSessionTicket(e) ==
    IF ~e.serverHello.tickets THEN [e EXCEPT !.pc = "changeCipherSpec"]
    ELSE IF ~e.hello.tickets THEN Failed(e, "illegal_parameter")
    ELSE [e EXCEPT !.pc = "ticket12"]

(* serverResumedSession, and handshake and processServerHello of TLS 1.2. *)
serverResumedSession(e) == e.session # None /\ e.serverHello.echo
ClientHandshake12(e, hello) ==
    LET state == e.session
        x == Buffer([e EXCEPT !.vers = 12, !.suite = hello.suite, !.alpn = hello.alpn, !.serverHello = hello,
                              !.transcript = <<"clientHello", "serverHello">>])
        y == [x EXCEPT !.secret = state.secret, !.base = state.base, !.ems = state.ems,
                       !.peerCert = state.peerCert, !.verified = state.verified]
    IN IF hello.suite \notin ToSet(e.hello.suites) THEN Failed(e, "handshake_failure")
       ELSE IF ~checkALPN(e.hello.alpn, hello.alpn) THEN Failed(e, "unsupported_extension")
       ELSE IF ~serverResumedSession(x) THEN [x EXCEPT !.pc = "certificate12"]
       ELSE IF state.version # 12 \/ state.suite # hello.suite \/ state.ems # hello.ems
            THEN Failed(e, "handshake_failure")
       ELSE readSessionTicket([y EXCEPT !.pending = Key12("server", y)])

(* checkServerHelloOrHRR. *)
checkServerHelloOrHRR(e, hello) ==
    /\ hello.vers = 13
    /\ hello.echo
    /\ hello.suite \in ToSet(e.hello.suites) \cap Suites13
    /\ e.suite \in {None, hello.suite}

(* processHelloRetryRequest.  A preset marshals its own extensions: it has  *)
(* no binder for the second hello, an identity of another hash stays in it, *)
(* and if the server accepted ECH the new key share is not in it.           *)
processHelloRetryRequest(e) ==
    LET hello == e.serverHello
        accepted == e.inner # <<>> /\ hello.ech = MessageHash("innerHello")
        transcript == Append(MessageHash("clientHello"), "helloRetryRequest")
        retried == [e.hello EXCEPT
                        !.shares = <<hello.group>>, !.generation = 2,
                        !.psk = IF @ = None THEN None
                                ELSE IF Hash[e.session.suite] # Hash[e.suite] THEN None
                                ELSE [@ EXCEPT !.binder = Binder(e.session, transcript)]]
        preset == IF accepted THEN e.hello ELSE [retried EXCEPT !.psk = e.hello.psk]
        x == [e EXCEPT !.transcript = transcript,
                       !.inner = IF @ = <<>> THEN <<>>
                                 ELSE MessageHash("innerHello") \o <<"helloRetryRequest">>
                                      \o (IF accepted THEN <<"innerHello">> ELSE <<>>),
                       !.hello = retried, !.share = [group |-> hello.group, generation |-> 2]]
    IN IF hello.ech # <<>> /\ e.inner = <<>> THEN Failed(e, "unsupported_extension")
       ELSE IF hello.group \notin e.hello.curves \/ hello.group \in ToSet(e.hello.shares)
            THEN Failed(e, "illegal_parameter")
       ELSE IF hello.group \in Hybrid THEN Failed(e, "internal_error")
       ELSE IF ~ccfg.golang /\ retried.psk # None THEN Failed(x, None)
       ELSE [WriteRecorded(x, "clientHello", IF ccfg.golang THEN retried ELSE preset) EXCEPT
                !.pc = "serverHello2"]

(* The end of handshake's first part, processServerHello and                *)
(* establishHandshakeKeys of TLS 1.3.  A hybrid share needs a kept key of   *)
(* x25519, every other one a kept key of its own group.                     *)
processServerHello13(e) ==
    LET hello == e.serverHello
        accepted == e.inner # <<>> /\ hello.ech = Append(e.inner, "serverHello")
        x == Record([Buffer(e) EXCEPT
                        !.hello = IF accepted THEN InnerHello(@) ELSE @,
                        !.transcript = IF accepted THEN e.inner ELSE @,
                        !.echRejected = e.inner # <<>> /\ ~accepted], "serverHello")
        y == [x EXCEPT !.secret = masterSecret13(IF hello.psk THEN e.session.secret ELSE None,
                                                 [group |-> hello.share, generation |-> e.share.generation])]
        z == IF hello.psk
             THEN [y EXCEPT !.base = e.session.base, !.peerCert = e.session.peerCert,
                            !.verified = e.session.verified]
             ELSE y
    IN IF hello.share \notin ToSet(x.hello.shares) THEN Failed(x, "illegal_parameter")
       ELSE IF hello.psk /\ x.hello.psk = None THEN Failed(x, "illegal_parameter")
       ELSE IF hello.psk /\ Hash[e.session.suite] # Hash[e.suite] THEN Failed(x, "illegal_parameter")
       ELSE IF e.share.group # (IF hello.share \in Hybrid THEN "x25519" ELSE hello.share)
            THEN Failed(x, "illegal_parameter")
       ELSE [z EXCEPT !.in = Key("server", "handshake", z), !.wire.out = Key("client", "handshake", z),
                      !.pc = "encryptedExtensions"]

(* handshake of TLS 1.3, at its first ServerHello. *)
ClientHandshake13(e, hello, retry) ==
    LET x == [e EXCEPT !.vers = 13, !.suite = hello.suite, !.serverHello = hello,
                       !.transcript = <<"clientHello">>,
                       !.inner = IF ccfg.ech # 0 THEN <<"innerHello">> ELSE <<>>]
    IN IF e.share.group = None THEN Failed(e, "internal_error")
       ELSE IF ~checkServerHelloOrHRR(e, hello) THEN Failed(e, "illegal_parameter")
       ELSE IF retry THEN processHelloRetryRequest(x) ELSE processServerHello13(x)

(* clientHandshake after the first ServerHello, pickTLSVersion included. *)
readServerHello ==
    LET hello == Body(s)
    IN
    /\ Receives(c, s, "serverHello")
    /\ ClientStep(IF hello.vers \notin AcceptedVersions THEN Failed(c, "protocol_version")
                  ELSE IF hello.vers = 12
                       THEN IF 13 \in AcceptedVersions /\ hello.canary THEN Failed(c, "illegal_parameter")
                            ELSE ClientHandshake12(c, hello)
                  ELSE ClientHandshake13(c, hello, Kind(s) = "helloRetryRequest"))
readServerHello2 ==
    /\ Receives(c, s, "serverHello2")
    /\ ClientStep(IF ~checkServerHelloOrHRR(c, Body(s)) THEN Failed(c, "illegal_parameter")
                  ELSE IF Kind(s) = "helloRetryRequest" THEN Failed(c, "unexpected_message")
                  ELSE processServerHello13([c EXCEPT !.serverHello = Body(s)]))

readServerCertificate12 ==
    /\ Receives(c, s, "certificate12")
    /\ ClientStep([Record(c, "certificate") EXCEPT
                        !.peerCert = IF Body(s) THEN "good" ELSE "unverifiable", !.pc = "flight12"])
(* Variant: the flight stays in the buffer. *)
UnflushedFlight12(e) ==
    LET x == IF e.certReq THEN WriteRecorded(e, "certificate", ccfg.cert) ELSE e
        y == WriteRecorded(x, "clientKeyExchange", None)
        z == [y EXCEPT !.secret = masterSecret(y, e.serverHello.ems), !.ems = e.serverHello.ems]
    IN readSessionTicket(sendFinished12([z EXCEPT !.pending = Key12("server", z)], "client"))
(* The rest of doFullHandshake, establishKeys and sendFinished. *)
ClientFlight12(e) ==
    LET x == IF e.certReq THEN WriteRecorded(e, "certificate", ccfg.cert) ELSE e
        y == WriteRecorded(x, "clientKeyExchange", None)
        z == [y EXCEPT !.secret = masterSecret(y, e.serverHello.ems), !.ems = e.serverHello.ems]
        v == IF e.certReq /\ ccfg.cert # "none"
             THEN WriteRecorded(z, "certificateVerify", z.transcript) ELSE z
    IN readSessionTicket(flush(sendFinished12([v EXCEPT !.pending = Key12("server", v)], "client")))
(* The messages doFullHandshake reads after the certificate, each of them   *)
(* optional but the last; the certificate is verified once its status has   *)
(* been read or skipped.                                                    *)
FlightOrder == <<"certificateStatus", "serverKeyExchange", "certificateRequest", "serverHelloDone">>
readServerFlight12 ==
    LET i == CHOOSE k \in DOMAIN FlightOrder : FlightOrder[k] = Kind(s)
        verifies == c.flight <= 1 /\ i > 1
        x == [Record(c, Kind(s)) EXCEPT
                !.flight = i, !.certReq = @ \/ Kind(s) = "certificateRequest",
                !.verified = @ \/ (verifies /\ MustVerify(c))]
    IN
    /\ Receives(c, s, "flight12")
    /\ ClientStep(IF i <= c.flight \/ (Kind(s) = "certificateStatus" /\ ~c.serverHello.staple)
                  THEN Failed(c, "unexpected_message")
                  ELSE IF verifies /\ MustVerify(c) /\ c.peerCert # "good" THEN Failed(c, "bad_certificate")
                  ELSE IF Kind(s) = "serverHelloDone" THEN ClientFlight12(x) ELSE x)
readNewSessionTicket12 ==
    /\ Receives(c, s, "ticket12")
    /\ ClientStep([Record(c, "newSessionTicket") EXCEPT !.ticket = Body(s), !.pc = "changeCipherSpec"])
readServerCCS ==
    /\ Receives(c, s, "changeCipherSpec")
    /\ ClientStep([c EXCEPT !.in = c.pending, !.pc = "finished12"])
readServerFinished12 ==
    LET x == Record(c, "finished")
    IN
    /\ Receives(c, s, "finished12")
    /\ ClientStep(IF Body(s) # Verify(c.in, c) THEN Failed(c, "handshake_failure")
                  ELSE IF ~serverResumedSession(c) THEN Done(x)
                  ELSE Done(flush(sendFinished12(x, "client"))))

(* readServerParameters. *)
readEncryptedExtensions ==
    LET x == [Record(c, "encryptedExtensions") EXCEPT !.alpn = Body(s)]
    IN
    /\ Receives(c, s, "encryptedExtensions")
    /\ ClientStep(IF ~checkALPN(c.hello.alpn, Body(s)) THEN Failed(c, "no_application_protocol")
                  ELSE [x EXCEPT !.pc = IF c.serverHello.psk THEN "finished13" ELSE "certificate13"])
(* readServerCertificate. *)
readServerCertificate13 ==
    LET x == Record(c, Kind(s))
    IN
    /\ Receives(c, s, "certificate13")
    /\ ClientStep(IF Kind(s) = "certificateRequest"
                  THEN IF c.certReq THEN Failed(c, "unexpected_message") ELSE [x EXCEPT !.certReq = TRUE]
                  ELSE IF MustVerify(c) /\ ~Body(s) THEN Failed(c, "bad_certificate")
                  ELSE [x EXCEPT !.peerCert = IF Body(s) THEN "good" ELSE "unverifiable",
                                 !.verified = MustVerify(c), !.pc = "certificateVerify13"])
readServerVerify13 ==
    /\ Receives(c, s, "certificateVerify13")
    /\ ClientStep(IF Body(s) # c.transcript THEN Failed(c, "decrypt_error")
                  ELSE [Record(c, "certificateVerify") EXCEPT !.pc = "finished13"])
(* sendClientCertificate and sendClientFinished. *)
sendClientCertificate(e) ==
    LET cert == IF e.echRejected THEN "none" ELSE ccfg.cert
        x == WriteRecorded(e, "certificate", cert)
    IN IF ~e.certReq THEN e
       ELSE IF cert = "none" THEN x ELSE WriteRecorded(x, "certificateVerify", x.transcript)
sendClientFinished(e) ==
    LET x == WriteRecorded(e, "finished", Verify(e.wire.out, e))
    IN [x EXCEPT !.wire.out = e.traffic,
                 !.resumption = IF ccfg.cache THEN [e.secret EXCEPT !.context = x.transcript] ELSE None]
readServerFinished13 ==
    LET x == Record(c, "finished")
        y == [x EXCEPT !.in = Key("server", "application", x), !.traffic = Key("client", "application", x)]
        z == flush(sendClientFinished(sendClientCertificate(y)))
    IN
    /\ Receives(c, s, "finished13")
    /\ ClientStep(IF Body(s) # Verify(c.in, c) THEN Failed(c, "decrypt_error")
                  ELSE IF c.echRejected THEN Failed(z, "ech_required") ELSE Done(z))

(* handleNewSessionTicket, when the application reads. *)
handleNewSessionTicket ==
    /\ c.pc = "done" /\ c.vers = 13
    /\ s.wire.sent # <<>>
    /\ Kind(s) = "newSessionTicket"
    /\ Head(s.wire.sent).under = c.in
    /\ s' = Taken(s)
    /\ cache' = IF ccfg.cache
                THEN [sessionState(c, c.resumption) EXCEPT !.ticket = Body(s)] ELSE cache
    /\ UNCHANGED <<config, c, founded>>
ClientRefuses == Refuses(c, s) /\ ClientStep(Refused(c, s))

-----------------------------------------------------------------------------
(* The connection breaks: what is under way is lost. *)
Eof == [kind |-> "eof", body |-> None, under |-> None]
Break ==
    /\ attempt \notin breaks
    /\ Cardinality(breaks) < MaxBreaks
    /\ ~Ended(c) \/ ~Ended(s)
    /\ breaks' = breaks \cup {attempt}
    /\ c' = [c EXCEPT !.wire.sent = <<Eof>>]
    /\ s' = [s EXCEPT !.wire.sent = <<Eof>>]
    /\ UNCHANGED <<attempt, ccfg, scfg, cache, ticketKey, epoch, founded>>

(* The client connects again: with everything as it was, or after one of    *)
(* the configurations, the ticket key or the time has changed.              *)
Reconnect ==
    /\ Ended(c) /\ Ended(s)
    /\ attempt < MaxAttempts
    /\ attempt' = attempt + 1
    /\ c' = Idle /\ s' = Idle
    /\ \/ UNCHANGED <<ccfg, scfg, ticketKey, epoch>>
       \/ \E x \in ClientConfigs : ccfg' = x /\ UNCHANGED <<scfg, ticketKey, epoch>>
       \/ \E x \in ServerConfigs : scfg' = x /\ UNCHANGED <<ccfg, ticketKey, epoch>>
       \/ ticketKey' = ticketKey + 1 /\ UNCHANGED <<ccfg, scfg, epoch>>
       \/ epoch' = attempt + 1 /\ UNCHANGED <<ccfg, scfg, ticketKey>>
    /\ UNCHANGED <<cache, breaks, founded>>

Init ==
    /\ attempt = 1
    /\ ccfg \in ClientConfigs /\ scfg \in ServerConfigs
    /\ cache = None
    /\ ticketKey = 1 /\ epoch = 1
    /\ c = Idle /\ s = Idle
    /\ breaks = {} /\ founded = {}

ClientNext ==
    \/ clientHandshake \/ readServerHello \/ readServerHello2
    \/ readServerCertificate12 \/ readServerFlight12 \/ readNewSessionTicket12
    \/ readServerCCS \/ readServerFinished12
    \/ readEncryptedExtensions \/ readServerCertificate13 \/ readServerVerify13 \/ readServerFinished13
    \/ ClientRefuses
ServerNext ==
    \/ serverHandshake \/ readClientHello \/ readClientHello2
    \/ sendServerCertificate \/ sendServerFinished
    \/ readClientCertificate12 \/ readClientKeyExchange \/ readCertificateVerify12
    \/ readClientCCS \/ readClientFinished12
    \/ readClientCertificate13 \/ readClientVerify13 \/ readClientFinished13
    \/ ServerRefuses
Next == ClientNext \/ ServerNext \/ handleNewSessionTicket \/ Break \/ Reconnect

(* Each end runs its handshake in a goroutine of its own that reads what    *)
(* arrives; nobody is obliged to connect again or to read after that.  An   *)
(* end is ready exactly when a step of it is enabled, so the two conjuncts  *)
(* are the weak fairness of ClientNext and of ServerNext.                   *)
ClientReady ==
    \/ c.pc = "start"
    \/ c.pc \in DOMAIN Reads /\ s.wire.sent # <<>>
ServerReady ==
    \/ s.pc \in {"start", "sendServerCertificate", "sendServerFinished"}
    \/ s.pc \in DOMAIN Reads /\ c.wire.sent # <<>>
Spec ==
    /\ Init /\ [][Next]_vars
    /\ <>[]ClientReady => []<><<ClientNext>>_vars
    /\ <>[]ServerReady => []<><<ServerNext>>_vars

-----------------------------------------------------------------------------
(* The two configurations leave a full handshake nothing to fail for; with  *)
(* a client that prefers TLS 1.2 to TLS 1.3, that the server must not know  *)
(* 1.3, or the client takes its random for a downgrade.  Compatible leaves  *)
(* out one case that Fine excludes: a preset whose ECH is accepted and that *)
(* is asked for another key share.                                          *)
Retries == LET hello == processECHClientHello(ClientHello(ccfg, None))
           IN selectedGroup(hello) \notin ToSet(hello.shares)
Compatible ==
    LET hello == processECHClientHello(ClientHello(ccfg, None))
        vers == FirstIn(hello.versions, ToSet(scfg.versions))
        group == selectedGroup(hello)
        kept == keyShareKey(ccfg)
    IN
    /\ vers # None
    /\ ccfg.ech # 0 => AcceptsECH(ClientHello(ccfg, None))
    /\ negotiateALPN(scfg.alpn, hello.alpn) # "error"
    /\ ccfg.skipVerify \/ scfg.trusted
    /\ processCertsFromClient(vers, ccfg.cert) = None
    /\ vers = 12 =>
        /\ pickCipherSuite(hello) # None /\ ~InappropriateFallback(hello)
        /\ 13 \notin ToSet(hello.versions) \cap ToSet(scfg.versions)  \* the canary
    /\ vers = 13 =>
        /\ FirstIn(Prefers13(hello), ToSet(hello.suites)) # None
        /\ group # None /\ kept # None
        /\ IF Retries THEN group \notin Hybrid
           ELSE kept = IF group \in Hybrid THEN "x25519" ELSE group
Fine == Compatible /\ ~(Retries /\ ccfg.ech # 0 /\ ~ccfg.golang)
Cut == attempt \in breaks

(* What an end has negotiated, in the terms of module Agreement. *)
Is(e) == IF Ended(e) THEN e.pc ELSE "open"
View(e, ech) ==
    IF e.pc # "done" THEN {}
    ELSE {[vers |-> e.vers, suite |-> e.suite, alpn |-> e.alpn, ems |-> e.ems, ech |-> ech,
           secret |-> e.secret, base |-> e.base, in |-> e.in.secret, out |-> e.wire.out.secret]}
A == INSTANCE Agreement WITH
        is <- [client |-> Is(c), server |-> Is(s)],
        view <- [client |-> View(c, ccfg.ech # 0), server |-> View(s, s.hello.random = "inner")]

(* Two ends that complete an attempt agree on the version, the cipher       *)
(* suite, the protocol, the acceptance of ECH, the secrets and the keys,    *)
(* whichever of full handshake, retry and resumption they went through and  *)
(* however the configurations changed since the ticket was issued; and a    *)
(* session is only ever resumed from a secret with which the client         *)
(* completed a handshake (sessionState, checkForResumption, readFinished).  *)
Refines == A!Spec

(* A completed handshake has authenticated the peer as the configuration in *)
(* use now demands, also when the certificate was shown in an earlier       *)
(* connection made under another configuration (loadSession and the client  *)
(* certificate checks of checkForResumption).                               *)
PeersAuthenticated ==
    /\ c.pc = "done" /\ ~ccfg.skipVerify => c.peerCert = "good"
    /\ s.pc = "done" =>
        /\ requiresClientCert(scfg.clientAuth) => s.peerCert # "none"
        /\ scfg.clientAuth >= VerifyClientCertIfGiven => s.peerCert # "unverifiable"
        /\ scfg.clientAuth = NoClientCert => s.peerCert = "none"

(* Between configurations that go together, an attempt on a connection that *)
(* does not break fails only over a session it offered, and the session is  *)
(* thrown away then: the next attempt offers none, and does not fail (the   *)
(* deferred Put in clientHandshake).                                        *)
RetryRecovers ==
    Fine /\ ~Cut =>
        /\ c.pc = "failed" => c.session # None /\ cache = None
        /\ s.pc = "failed" => c.session # None

(* Every handshake ends at both ends, with success or with an error: at no  *)
(* point do both wait for the other, whatever was buffered and whichever    *)
(* messages were left out (the flushes of handshake and of sendAlert).      *)
HandshakesEnd ==
    /\ ~Ended(c) ~> Ended(c)
    /\ ~Ended(s) ~> Ended(s)

(* "Any extensions which have changed in hello, but are mirrored in the     *)
(* outer hello and compressed, need to be copied to the outer hello, so     *)
(* they can be properly decompressed by the server" (processHelloRetry-     *)
(* Request): a client whose ECH is accepted can be asked for another key    *)
(* share.                                                                   *)
EchSurvivesRetry == Compatible /\ ~Cut /\ ccfg.ech # 0 => c.pc # "failed" /\ s.pc # "failed"
=============================================================================
