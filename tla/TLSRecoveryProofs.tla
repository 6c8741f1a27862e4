------------------------- MODULE TLSRecoveryProofs -------------------------
(***************************************************************************)
(* Proof that TLSHandshake recovers from a failure, for any configurations  *)
(* that go together, any number of attempts and any number of broken        *)
(* connections: an attempt fails only over the session it offered, which is *)
(* dropped then, and the full handshake that follows does not fail.         *)
(*                                                                         *)
(* HandshakeInv says which messages may be under way.  Here it has to be    *)
(* known where exactly the two ends of a full handshake stand, and what is  *)
(* still under way between them (Full).  Every step leads from one of these *)
(* stages to the next.                                                      *)
(***************************************************************************)
EXTENDS TLSHandshakeProofs

-----------------------------------------------------------------------------
(* A full handshake between ends that go together: what is under way at     *)
(* each step of it, and what the reader has to compare it with.             *)

\* What a full handshake depends on: the configurations and the server's answer.
Setting ==
    [attempt |-> attempt, client |-> ccfg, server |-> scfg,
     hello |-> s.hello, serverHello |-> s.serverHello, suite |-> s.suite, alpn |-> s.alpn]

\* The stream of e is known.
HasWire(e, out, buffering, buf, sent) ==
    /\ DOMAIN e.wire = WireFields
    /\ e.wire.out = out /\ e.wire.buffering = buffering /\ e.wire.buf = buf /\ e.wire.sent = sent
Rec(kind, body, under) == [kind |-> kind, body |-> body, under |-> under]

\* The record r before q, and the message kind after the transcript t, if b.
Then(b, r, q) == IF b THEN <<r>> \o q ELSE q
On(b, t, kind) == IF b THEN Append(t, kind) ELSE t

\* The server asks for a certificate; the client has one to show.
Asks(n) == n.server.clientAuth >= RequestClientCert
Shows(n) == Asks(n) /\ n.client.cert # "none"

\* The hello of the client, the one the server goes by, and the client that waits
\* for the answer to it, of which the server has still to read q.
Offer(n) == ClientHello(n.client, None)
Heard(n, hello) == IF n.client.ech # 0 THEN InnerHello(hello) ELSE hello
Unused(e) ==
    /\ DOMAIN e = EndFields /\ HasWire(e, None, FALSE, <<>>, <<>>)
    /\ e.session = None /\ e.in = None /\ e.suite = None /\ e.transcript = <<>>
    /\ e.flight = 0 /\ e.certReq = FALSE /\ e.echRejected = FALSE /\ e.peerCert = "none"
Opened(e, n, q) ==
    /\ DOMAIN e = EndFields /\ HasWire(e, None, FALSE, <<>>, q)
    /\ e.pc = "serverHello" /\ e.hello = Offer(n)
    /\ e.share = [group |-> keyShareKey(n.client), generation |-> 1]
    /\ e.session = None /\ e.in = None /\ e.suite = None
    /\ e.flight = 0 /\ e.certReq = FALSE /\ e.echRejected = FALSE

Opens(e, p, n) ==
    /\ \/ e.pc = "start" /\ Unused(e)
       \/ Opened(e, n, <<Rec("clientHello", Offer(n), None)>>)
    /\ p.pc \in {"start", "clientHello"} /\ Unused(p)

-----------------------------------------------------------------------------
(* TLS 1.2.  The transcripts, and the records of the three flights, from    *)
(* each message to the last one.                                            *)
HelloDone == <<Rec("serverHelloDone", None, None)>>
FromRequest(n) == Then(Asks(n), Rec("certificateRequest", None, None), HelloDone)
FromExchange(n) == Then(n.suite # "rsa", Rec("serverKeyExchange", None, None), FromRequest(n))
FromStatus(n) == Then(n.serverHello.staple, Rec("certificateStatus", None, None), FromExchange(n))
FromCertificate(n) == <<Rec("certificate", n.server.trusted, None)>> \o FromStatus(n)
FromHello(n) == <<Rec("serverHello", n.serverHello, None)>> \o FromCertificate(n)

Hellos == <<"clientHello", "serverHello">>
ToCertificate == Append(Hellos, "certificate")
ToStatus(n) == On(n.serverHello.staple, ToCertificate, "certificateStatus")
ToExchange(n) == On(n.suite # "rsa", ToStatus(n), "serverKeyExchange")
ToRequest(n) == On(Asks(n), ToExchange(n), "certificateRequest")
ToDone(n) == Append(ToRequest(n), "serverHelloDone")
ToClientCert(n) == On(Asks(n), ToDone(n), "certificate")
ToKey(n) == Append(ToClientCert(n), "clientKeyExchange")
ToVerify(n) == On(Shows(n), ToKey(n), "certificateVerify")
ToFinished(n) == Append(ToVerify(n), "finished")
ToTicket(n) == On(n.serverHello.tickets, ToFinished(n), "newSessionTicket")

Master(n) ==
    [attempt |-> n.attempt, early |-> None, share |-> None,
     context |-> IF n.hello.ems THEN ToKey(n) ELSE <<>>]
KeyOf(side, n) == [side |-> side, level |-> "tls12", secret |-> Master(n), transcript |-> <<>>]
Proof(key, transcript) == [key |-> key, transcript |-> transcript]

ClientFin(n) ==
    <<Rec("finished", Proof(KeyOf("client", n), ToVerify(n)), KeyOf("client", n))>>
FromCCS(n) == <<Rec("changeCipherSpec", None, None)>> \o ClientFin(n)
FromVerify(n) == Then(Shows(n), Rec("certificateVerify", ToKey(n), None), FromCCS(n))
FromKey(n) == <<Rec("clientKeyExchange", None, None)>> \o FromVerify(n)
FromClientCert(n) == Then(Asks(n), Rec("certificate", n.client.cert, None), FromKey(n))

ServerFin(n) ==
    <<Rec("finished", Proof(KeyOf("server", n), ToTicket(n)), KeyOf("server", n))>>
FromServerCCS(n) == <<Rec("changeCipherSpec", None, None)>> \o ServerFin(n)

\* The server has answered with TLS 1.2.
Server12(p, n) ==
    /\ DOMAIN p = EndFields
    /\ p.vers = 12 /\ p.session = None
    /\ n.serverHello.ems = n.hello.ems
    /\ n.serverHello.tickets => OffersTickets(n.client)
\* The client can read the ServerHello.
Readable12(h, n) ==
    /\ n.client.ech = 0
    /\ h.vers = 12 /\ 12 \in ToSet(n.client.versions)
    /\ ~(13 \in ToSet(n.client.versions) /\ h.canary)
    /\ h.suite \in ToSet(n.client.suites) /\ checkALPN(n.client.alpn, h.alpn)

\* It has sent its first flight, of which the client has still to read q.
Sent12(p, n, q) ==
    /\ Server12(p, n)
    /\ p.in = None /\ p.peerCert = "none" /\ p.transcript = ToDone(n)
    /\ p.pc = IF Asks(n) THEN "clientCertificate12" ELSE "clientKeyExchange"
    /\ HasWire(p, None, FALSE, <<>>, q)
Answers12(e, p, n) ==
    Opened(e, n, <<>>) /\ Sent12(p, n, FromHello(n)) /\ Readable12(n.serverHello, n)

\* The client reads the flight: it is after the k-th of the optional messages.
Client12(e, n) ==
    /\ DOMAIN e = EndFields
    /\ e.session = None /\ e.hello = Offer(n) /\ e.serverHello = n.serverHello
    /\ e.in = None
Reading12(e, n) ==
    /\ Client12(e, n)
    /\ HasWire(e, None, TRUE, <<>>, <<>>) /\ e.echRejected = FALSE
ReadsCertificate12(e, p, n) ==
    /\ Reading12(e, n) /\ Sent12(p, n, FromCertificate(n))
    /\ e.pc = "certificate12" /\ e.transcript = Hellos /\ e.flight = 0 /\ e.certReq = FALSE
\* The client knows whether it has to show a certificate.
Knows(e, n) == IF Asks(n) THEN e.certReq = TRUE ELSE e.certReq = FALSE
AtFlight(e, p, n, k, q, transcript) ==
    /\ Reading12(e, n) /\ Sent12(p, n, q)
    /\ e.pc = "flight12" /\ e.transcript = transcript /\ e.flight \in 0 .. k
    /\ IF k = 3 THEN Knows(e, n) ELSE e.certReq = FALSE
    /\ e.peerCert = IF n.server.trusted THEN "good" ELSE "unverifiable"
ReadsFlight12(e, p, n) ==
    \/ AtFlight(e, p, n, 0, FromStatus(n), ToCertificate)
    \/ AtFlight(e, p, n, 1, FromExchange(n), ToStatus(n))
    \/ AtFlight(e, p, n, 2, FromRequest(n), ToExchange(n))
    \/ AtFlight(e, p, n, 3, HelloDone, ToRequest(n))

\* The client has sent its flight, and the server reads it.
Waits12(e, n) ==
    /\ Client12(e, n)
    /\ e.pc = IF n.serverHello.tickets THEN "ticket12" ELSE "changeCipherSpec"
    /\ e.secret = Master(n) /\ e.pending = KeyOf("server", n)
    /\ e.transcript = ToFinished(n)
Serves12(e, p, n, q) ==
    /\ Waits12(e, n) /\ Server12(p, n)
    /\ HasWire(e, KeyOf("client", n), FALSE, <<>>, q)
    /\ HasWire(p, None, FALSE, <<>>, <<>>)
Keyed(p, n) == p.secret = Master(n) /\ p.pending = KeyOf("client", n)
ServesCertificate12(e, p, n) ==
    /\ Serves12(e, p, n, FromClientCert(n)) /\ Asks(n)
    /\ p.pc = "clientCertificate12" /\ p.in = None
    /\ p.peerCert = "none" /\ p.transcript = ToDone(n)
ServesKey12(e, p, n) ==
    /\ Serves12(e, p, n, FromKey(n))
    /\ p.pc = "clientKeyExchange" /\ p.in = None
    /\ p.peerCert = (IF Asks(n) THEN n.client.cert ELSE "none") /\ p.transcript = ToClientCert(n)
ServesVerify12(e, p, n) ==
    /\ Serves12(e, p, n, FromVerify(n)) /\ Shows(n)
    /\ p.pc = "clientVerify12" /\ p.in = None
    /\ Keyed(p, n) /\ p.transcript = ToKey(n)
ServesCCS12(e, p, n) ==
    /\ Serves12(e, p, n, FromCCS(n))
    /\ p.pc = "clientCCS" /\ p.in = None
    /\ Keyed(p, n) /\ p.transcript = ToVerify(n)
ServesFinished12(e, p, n) ==
    /\ Serves12(e, p, n, ClientFin(n))
    /\ p.pc = "clientFinished12" /\ p.in = KeyOf("client", n)
    /\ Keyed(p, n) /\ p.transcript = ToVerify(n)

\* The server has completed the handshake, and the client reads the rest.
Closes12(e, p, n, q) ==
    /\ DOMAIN p = EndFields /\ p.pc = "done" /\ HasWire(p, KeyOf("server", n), FALSE, <<>>, q)
    /\ DOMAIN e = EndFields /\ e.session = None /\ e.wire.sent = <<>>
TakesTicket12(e, p, n) ==
    /\ \E b : Closes12(e, p, n, <<Rec("newSessionTicket", b, None)>> \o FromServerCCS(n))
    /\ Waits12(e, n) /\ n.serverHello.tickets
TakesCCS12(e, p, n) ==
    /\ Closes12(e, p, n, FromServerCCS(n))
    /\ e.pc = "changeCipherSpec" /\ e.in = None
    /\ e.pending = KeyOf("server", n) /\ e.transcript = ToTicket(n)
TakesFinished12(e, p, n) ==
    /\ Closes12(e, p, n, ServerFin(n))
    /\ e.pc = "finished12" /\ e.in = KeyOf("server", n) /\ e.transcript = ToTicket(n)

Full12(e, p, n) ==
    \/ Answers12(e, p, n) \/ ReadsCertificate12(e, p, n) \/ ReadsFlight12(e, p, n)
    \/ ServesCertificate12(e, p, n) \/ ServesKey12(e, p, n) \/ ServesVerify12(e, p, n)
    \/ ServesCCS12(e, p, n) \/ ServesFinished12(e, p, n)
    \/ TakesTicket12(e, p, n) \/ TakesCCS12(e, p, n) \/ TakesFinished12(e, p, n)

-----------------------------------------------------------------------------
(* TLS 1.3. *)
Retried(n, group) == [Offer(n) EXCEPT !.shares = <<group>>, !.generation = 2]
HashOf(n) == MessageHash(HelloName(n.hello))
AtRetry(n) == Append(HashOf(n), "helloRetryRequest")

To13Hello(n) ==
    Append(Append(IF n.hello.generation = 2 THEN AtRetry(n) ELSE <<>>, HelloName(n.hello)), "serverHello")
To13Extensions(n) == Append(To13Hello(n), "encryptedExtensions")
To13Request(n) == On(Asks(n), To13Extensions(n), "certificateRequest")
To13Certificate(n) == Append(To13Request(n), "certificate")
To13Verify(n) == Append(To13Certificate(n), "certificateVerify")
To13Finished(n) == Append(To13Verify(n), "finished")
To13ClientCert(n) == On(Asks(n), To13Finished(n), "certificate")
To13ClientVerify(n) == On(Shows(n), To13ClientCert(n), "certificateVerify")

Master13(n) ==
    [attempt |-> n.attempt, early |-> None,
     share |-> [group |-> n.serverHello.share, generation |-> n.hello.generation], context |-> <<>>]
Key13(side, n) ==
    [side |-> side, level |-> "handshake", secret |-> Master13(n), transcript |-> To13Hello(n)]

\* The server's flight, before rest, which no handshake reads.
From13Finished(n, rest) ==
    <<Rec("finished", Proof(Key13("server", n), To13Verify(n)), Key13("server", n))>> \o rest
From13Verify(n, rest) ==
    <<Rec("certificateVerify", To13Certificate(n), Key13("server", n))>> \o From13Finished(n, rest)
From13Certificate(n, rest) ==
    <<Rec("certificate", n.server.trusted, Key13("server", n))>> \o From13Verify(n, rest)
From13Request(n, rest) ==
    Then(Asks(n), Rec("certificateRequest", None, Key13("server", n)), From13Certificate(n, rest))
From13Extensions(n, rest) ==
    <<Rec("encryptedExtensions", n.alpn, Key13("server", n))>> \o From13Request(n, rest)
From13Hello(n, rest) ==
    <<Rec("serverHello", n.serverHello, None)>> \o From13Extensions(n, rest)
\* What of it is in the buffer before the certificates, and after them.
Begun(n) ==
    <<Rec("serverHello", n.serverHello, None), Rec("encryptedExtensions", n.alpn, Key13("server", n))>>
Certified(n) ==
    LET q == IF Asks(n) THEN Append(Begun(n), Rec("certificateRequest", None, Key13("server", n)))
             ELSE Begun(n)
    IN Append(Append(q, Rec("certificate", n.server.trusted, Key13("server", n))),
              Rec("certificateVerify", To13Certificate(n), Key13("server", n)))

From13ClientFin(n) ==
    <<Rec("finished", Proof(Key13("client", n), To13ClientVerify(n)), Key13("client", n))>>
From13ClientVerify(n) ==
    Then(Shows(n), Rec("certificateVerify", To13ClientCert(n), Key13("client", n)), From13ClientFin(n))
From13ClientCert(n) ==
    Then(Asks(n), Rec("certificate", n.client.cert, Key13("client", n)), From13ClientVerify(n))

\* The suite and the group that the ServerHello or the HelloRetryRequest names.
Chosen13(h, n) ==
    h.vers = 13 /\ h.echo /\ h.suite \in ToSet(n.client.suites) \cap Suites13
Offers13(n) == 13 \in ToSet(n.client.versions) /\ keyShareKey(n.client) # None

\* The server asks for another share, and waits for the second hello.
Asked(p, n) ==
    /\ DOMAIN p = EndFields
    /\ p.pc = "clientHello2" /\ p.vers = 13 /\ p.session = None /\ p.in = None
    /\ n.hello = Heard(n, Offer(n))
    /\ p.share \in n.client.curves /\ p.share \notin Hybrid \cup ToSet(n.client.shares)
    /\ n.serverHello = [ServerHello EXCEPT !.vers = 13, !.suite = n.suite, !.echo = TRUE]
    /\ p.transcript = AtRetry(n)
    /\ Offers13(n) /\ Chosen13(n.serverHello, n)
    /\ n.client.ech # 0 => n.client.golang
RetryRequest(p, n) ==
    [n.serverHello EXCEPT !.group = p.share, !.ech = IF n.hello.random = "inner" THEN HashOf(n) ELSE <<>>]
AsksAgain(e, p, n) ==
    /\ Opened(e, n, <<>>) /\ Asked(p, n)
    /\ HasWire(p, None, FALSE, <<>>, <<Rec("helloRetryRequest", RetryRequest(p, n), None)>>)

\* The client that has sent its second hello.
Reopened(e, n, group, suite, q) ==
    /\ DOMAIN e = EndFields
    /\ e.pc = "serverHello2" /\ e.session = None /\ e.in = None /\ e.suite = suite
    /\ e.hello = Retried(n, group) /\ e.share = [group |-> group, generation |-> 2]
    /\ e.transcript = <<"hashOfClientHello", "helloRetryRequest", "clientHello">>
    /\ e.inner = IF n.client.ech # 0 THEN <<"hashOfInnerHello", "helloRetryRequest", "innerHello">> ELSE <<>>
    /\ e.certReq = FALSE
    /\ HasWire(e, None, FALSE, <<>>, q)
OffersAgain(e, p, n) ==
    /\ Asked(p, n) /\ HasWire(p, None, FALSE, <<>>, <<>>)
    /\ Reopened(e, n, p.share, n.suite, <<Rec("clientHello", Retried(n, p.share), None)>>)

\* The server goes on with a share that the client has sent.
Server13(p, n) ==
    /\ DOMAIN p = EndFields
    /\ p.vers = 13 /\ p.session = None
    /\ n.serverHello.suite = n.suite /\ n.serverHello.psk = FALSE
    /\ Chosen13(n.serverHello, n) /\ Offers13(n)
    /\ n.serverHello.ech = IF n.client.ech # 0 THEN To13Hello(n) ELSE <<>>
    /\ checkALPN(n.client.alpn, n.alpn)
    /\ p.secret = Master13(n) /\ p.in = Key13("client", n)
\* The client that waits for the ServerHello to either of its hellos.
Awaits(e, n) ==
    \/ /\ Opened(e, n, <<>>)
       /\ n.hello = Heard(n, Offer(n)) /\ n.serverHello.share \in ToSet(n.client.shares)
       /\ keyShareKey(n.client) = IF n.serverHello.share \in Hybrid THEN "x25519" ELSE n.serverHello.share
    \/ /\ Reopened(e, n, n.serverHello.share, n.suite, <<>>)
       /\ n.hello = Heard(n, Retried(n, n.serverHello.share)) /\ n.serverHello.share \notin Hybrid

Certifies(e, p, n) ==
    /\ Awaits(e, n) /\ Server13(p, n) /\ p.peerCert = "none"
    /\ p.pc = "sendServerCertificate" /\ p.transcript = To13Extensions(n)
    /\ HasWire(p, Key13("server", n), TRUE, Begun(n), <<>>)
Finishes(e, p, n) ==
    /\ Awaits(e, n) /\ Server13(p, n) /\ p.peerCert = "none"
    /\ p.pc = "sendServerFinished" /\ p.transcript = To13Verify(n)
    /\ HasWire(p, Key13("server", n), TRUE, Certified(n), <<>>)

\* It has sent its flight, of which the client has still to read q.
Sent13(p, n, q) ==
    /\ Server13(p, n)
    /\ p.peerCert = "none" /\ DOMAIN p.wire = WireFields /\ p.wire.sent = q
    /\ IF Asks(n) THEN p.pc = "clientCertificate13" /\ p.transcript = To13Finished(n)
       ELSE p.pc = "clientFinished13" /\ p.clientFinished = Proof(Key13("client", n), To13Finished(n))
At13(e, n, pc, transcript) ==
    /\ DOMAIN e = EndFields
    /\ e.pc = pc /\ e.session = None /\ e.serverHello = n.serverHello
    /\ e.echRejected = FALSE /\ e.hello.alpn = n.client.alpn
    /\ e.in = Key13("server", n) /\ e.secret = Master13(n)
    /\ e.transcript = transcript
    /\ HasWire(e, Key13("client", n), TRUE, <<>>, <<>>)
ReadsHello13(e, p, n) ==
    Awaits(e, n) /\ \E rest : IsSeq(rest) /\ Sent13(p, n, From13Hello(n, rest))
ReadsExtensions13(e, p, n) ==
    /\ At13(e, n, "encryptedExtensions", To13Hello(n)) /\ e.certReq = FALSE
    /\ \E rest : IsSeq(rest) /\ Sent13(p, n, From13Extensions(n, rest))
ReadsRequest13(e, p, n) ==
    /\ At13(e, n, "certificate13", To13Extensions(n)) /\ e.certReq = FALSE
    /\ \E rest : IsSeq(rest) /\ Sent13(p, n, From13Request(n, rest))
ReadsCertificate13(e, p, n) ==
    /\ At13(e, n, "certificate13", To13Request(n)) /\ Knows(e, n)
    /\ \E rest : IsSeq(rest) /\ Sent13(p, n, From13Certificate(n, rest))
ReadsVerify13(e, p, n) ==
    /\ At13(e, n, "certificateVerify13", To13Certificate(n)) /\ Knows(e, n)
    /\ \E rest : IsSeq(rest) /\ Sent13(p, n, From13Verify(n, rest))
ReadsFinished13(e, p, n) ==
    /\ At13(e, n, "finished13", To13Verify(n)) /\ Knows(e, n)
    /\ \E rest : IsSeq(rest) /\ Sent13(p, n, From13Finished(n, rest))

\* The client has completed the handshake, and the server reads the rest.
Serves13(e, p, n, pc, q) ==
    /\ DOMAIN e = EndFields /\ e.session = None /\ e.pc = "done"
    /\ DOMAIN e.wire = WireFields /\ e.wire.sent = q
    /\ DOMAIN p = EndFields /\ p.pc = pc /\ p.in = Key13("client", n)
ServesCertificate13(e, p, n) ==
    /\ Serves13(e, p, n, "clientCertificate13", From13ClientCert(n)) /\ Asks(n)
    /\ p.vers = 13 /\ p.session = None /\ p.transcript = To13Finished(n)
ServesVerify13(e, p, n) ==
    /\ Serves13(e, p, n, "clientVerify13", From13ClientVerify(n)) /\ Shows(n)
    /\ p.session = None /\ p.transcript = To13ClientCert(n)
ServesFinished13(e, p, n) ==
    /\ Serves13(e, p, n, "clientFinished13", From13ClientFin(n))
    /\ p.clientFinished = Proof(Key13("client", n), To13ClientVerify(n))

Full13(e, p, n) ==
    \/ AsksAgain(e, p, n) \/ OffersAgain(e, p, n) \/ Certifies(e, p, n) \/ Finishes(e, p, n)
    \/ ReadsHello13(e, p, n) \/ ReadsExtensions13(e, p, n) \/ ReadsRequest13(e, p, n)
    \/ ReadsCertificate13(e, p, n) \/ ReadsVerify13(e, p, n) \/ ReadsFinished13(e, p, n)
    \/ ServesCertificate13(e, p, n) \/ ServesVerify13(e, p, n) \/ ServesFinished13(e, p, n)

Full(e, p, n) ==
    \/ Opens(e, p, n) \/ Full12(e, p, n) \/ Full13(e, p, n)
    \/ e.pc = "done" /\ p.pc = "done" /\ e.session = None

\* Where the two ends stand in an attempt that offers no session; one that offers
\* a session and fails has thrown it away.
RecoveryInv ==
    /\ c.session # None /\ c.pc = "failed" => cache = None
    /\ Fine /\ ~Cut => c.session # None \/ Full(c, s, Setting)
-----------------------------------------------------------------------------
(* The operations on an end whose stream is known. *)

\* One record, then those of q.
LEMMA HeadThen ==
    ASSUME NEW r, NEW q, IsSeq(q)
    PROVE  LET w == <<r>> \o q IN IsSeq(w) /\ w # <<>> /\ Head(w) = r /\ Tail(w) = q
<1> DEFINE S == ToSet(q) \cup {r}
           w == <<r>> \o q
<1>1. q \in Seq(S) /\ <<r>> \in Seq(S)
  BY SeqMonotonic DEF IsSeq
<1>2. w \in Seq(S) /\ Len(w) = 1 + Len(q) /\ \A i \in 1 .. Len(q) : w[i + 1] = q[i]
  BY <1>1, ConcatProperties
<1>3. w[1] = r /\ w # <<>> /\ Len(q) \in Nat
  BY <1>1, <1>2, ConcatProperties
<1> HIDE DEF w
<1>4. Head(w) = r /\ Tail(w) \in Seq(S) /\ Len(Tail(w)) = Len(q)
      /\ \A i \in 1 .. Len(Tail(w)) : Tail(w)[i] = w[i + 1]
  BY <1>2, <1>3, HeadTailProperties
<1>5. Tail(w) = q
  BY <1>1, <1>2, <1>3, <1>4, SeqEqual
<1>6. IsSeq(w)
  BY <1>2, SeqOfItself
<1> QED
  BY <1>3, <1>4, <1>5, <1>6 DEF w

\* What is appended comes before what follows.
LEMMA AppendThen ==
    ASSUME NEW b, IsSeq(b), NEW r, NEW q, IsSeq(q)
    PROVE  Append(b, r) \o q = b \o (<<r>> \o q)
<1> DEFINE S == ToSet(b) \cup ToSet(q) \cup {r}
<1>1. b \in Seq(S) /\ q \in Seq(S) /\ <<r>> \in Seq(S) /\ r \in S
  BY SeqMonotonic DEF IsSeq
<1>2. Append(b, r) = b \o <<r>>
  BY <1>1, AppendIsConcat
<1> QED
  BY <1>1, <1>2, ConcatAssociative

\* Nothing before q or after it.
LEMMA NothingMore ==
    ASSUME NEW q, IsSeq(q)
    PROVE  <<>> \o q = q /\ q \o <<>> = q
BY ConcatEmptySeq DEF IsSeq

\* A record that is there or not, before those of q.
LEMMA ThenSeq ==
    ASSUME NEW b, NEW r, NEW q, IsSeq(q)
    PROVE  IsSeq(Then(b, r, q))
BY HeadThen DEF Then

\* Writing into the buffer.
LEMMA Buffered ==
    ASSUME NEW e, DOMAIN e = EndFields, NEW o, NEW b, NEW q, HasWire(e, o, TRUE, b, q),
           NEW kind, NEW body
    PROVE  LET x == WriteRecorded(e, kind, body)
               y == Write(e, Msg(kind, body))
           IN
           /\ DOMAIN x = EndFields /\ SameBut(x, e, {"wire", "transcript"})
           /\ x.transcript = Append(e.transcript, kind)
           /\ HasWire(x, o, TRUE, Append(b, Rec(kind, body, o)), q)
           /\ DOMAIN y = EndFields /\ SameBut(y, e, {"wire"})
           /\ HasWire(y, o, TRUE, Append(b, Rec(kind, body, o)), q)
<1> DEFINE m == Msg(kind, body)
           y == Write(e, m)
           x == WriteRecorded(e, kind, body)
           r == Rec(kind, body, o)
           w == Put(e.wire, m)
<1>1. m.kind = kind /\ m.body = body
  BY DEF Msg
<1>2. DOMAIN w = WireFields /\ w.out = o /\ w.buffering = TRUE /\ w.buf = Append(b, r) /\ w.sent = q
  BY <1>1 DEF HasWire, WireFields, Put, Rec
<1>3. y = [e EXCEPT !.wire = w]
  BY DEF Write
<1> HIDE DEF m, w, r
<1>4. DOMAIN y = EndFields /\ SameBut(y, e, {"wire"}) /\ y.wire = w
  BY <1>3 DEF SameBut, EndFields
<1>5. x = [y EXCEPT !.transcript = Append(y.transcript, kind)]
  BY DEF WriteRecorded, Record, m
<1> HIDE DEF y, x
<1>6. y.transcript = e.transcript
  BY <1>4 DEF SameBut, EndFields
<1>7. /\ DOMAIN x = EndFields /\ SameBut(x, e, {"wire", "transcript"})
      /\ x.transcript = Append(e.transcript, kind) /\ x.wire = w
  BY <1>4, <1>5, <1>6 DEF SameBut, EndFields
<1>8. HasWire(x, o, TRUE, Append(b, r), q) /\ HasWire(y, o, TRUE, Append(b, r), q)
  BY <1>2, <1>4, <1>7 DEF HasWire
<1> QED
  BY <1>4, <1>7, <1>8 DEF x, y, r, m

\* Writing to the network.
LEMMA Unbuffered ==
    ASSUME NEW e, DOMAIN e = EndFields, NEW o, NEW b, NEW q, HasWire(e, o, FALSE, b, q),
           NEW kind, NEW body
    PROVE  LET x == WriteRecorded(e, kind, body)
               y == Write(e, Msg(kind, body))
           IN
           /\ DOMAIN x = EndFields /\ SameBut(x, e, {"wire", "transcript"})
           /\ x.transcript = Append(e.transcript, kind)
           /\ HasWire(x, o, FALSE, b, Append(q, Rec(kind, body, o)))
           /\ DOMAIN y = EndFields /\ SameBut(y, e, {"wire"})
           /\ HasWire(y, o, FALSE, b, Append(q, Rec(kind, body, o)))
<1> DEFINE m == Msg(kind, body)
           y == Write(e, m)
           x == WriteRecorded(e, kind, body)
           r == Rec(kind, body, o)
           w == Put(e.wire, m)
<1>1. m.kind = kind /\ m.body = body
  BY DEF Msg
<1>2. DOMAIN w = WireFields /\ w.out = o /\ w.buffering = FALSE /\ w.buf = b /\ w.sent = Append(q, r)
  BY <1>1 DEF HasWire, WireFields, Put, Rec
<1>3. y = [e EXCEPT !.wire = w]
  BY DEF Write
<1> HIDE DEF m, w, r
<1>4. DOMAIN y = EndFields /\ SameBut(y, e, {"wire"}) /\ y.wire = w
  BY <1>3 DEF SameBut, EndFields
<1>5. x = [y EXCEPT !.transcript = Append(y.transcript, kind)]
  BY DEF WriteRecorded, Record, m
<1> HIDE DEF y, x
<1>6. y.transcript = e.transcript
  BY <1>4 DEF SameBut, EndFields
<1>7. /\ DOMAIN x = EndFields /\ SameBut(x, e, {"wire", "transcript"})
      /\ x.transcript = Append(e.transcript, kind) /\ x.wire = w
  BY <1>4, <1>5, <1>6 DEF SameBut, EndFields
<1>8. HasWire(x, o, FALSE, b, Append(q, r)) /\ HasWire(y, o, FALSE, b, Append(q, r))
  BY <1>2, <1>4, <1>7 DEF HasWire
<1> QED
  BY <1>4, <1>7, <1>8 DEF x, y, r, m

\* The other operations.
LEMMA Rewires ==
    ASSUME NEW e, DOMAIN e = EndFields, NEW o, NEW x, NEW b, NEW q, HasWire(e, o, x, b, q)
    PROVE  /\ DOMAIN Buffer(e) = EndFields /\ SameBut(Buffer(e), e, {"wire"})
           /\ HasWire(Buffer(e), o, TRUE, b, q)
           /\ DOMAIN flush(e) = EndFields /\ SameBut(flush(e), e, {"wire"})
           /\ HasWire(flush(e), o, FALSE, <<>>, q \o b)
           /\ DOMAIN Taken(e) = EndFields /\ SameBut(Taken(e), e, {"wire"})
           /\ HasWire(Taken(e), o, x, b, Tail(q))
<1>1. /\ DOMAIN Buffer(e) = EndFields /\ SameBut(Buffer(e), e, {"wire"})
      /\ Buffer(e).wire = [e.wire EXCEPT !.buffering = TRUE]
  BY DEF Buffer, SameBut, EndFields
<1>2. /\ DOMAIN flush(e) = EndFields /\ SameBut(flush(e), e, {"wire"})
      /\ flush(e).wire = Flushed(e.wire)
  BY DEF flush, SameBut, EndFields
<1>3. /\ DOMAIN Taken(e) = EndFields /\ SameBut(Taken(e), e, {"wire"})
      /\ Taken(e).wire = [e.wire EXCEPT !.sent = Tail(e.wire.sent)]
  BY DEF Taken, SameBut, EndFields
<1>4. HasWire(Buffer(e), o, TRUE, b, q) /\ HasWire(Taken(e), o, x, b, Tail(q))
  BY <1>1, <1>3 DEF HasWire, WireFields
<1>5. HasWire(flush(e), o, FALSE, <<>>, q \o b)
  BY <1>2 DEF HasWire, WireFields, Flushed
<1> QED
  BY <1>1, <1>2, <1>3, <1>4, <1>5

\* An end whose first record was read.
LEMMA TakenSame ==
    ASSUME NEW e, DOMAIN e = EndFields
    PROVE  /\ DOMAIN Taken(e) = EndFields /\ SameBut(Taken(e), e, {"wire"})
           /\ DOMAIN e.wire = WireFields => Taken(e).wire.sent = Tail(e.wire.sent)
BY DEF Taken, SameBut, EndFields, WireFields
-----------------------------------------------------------------------------
(* The terms of a full handshake *)

\* A single record is a sequence with nothing after it.
LEMMA OneRecord ==
    ASSUME NEW r
    PROVE  IsSeq(<<r>>) /\ <<r>> # <<>> /\ Head(<<r>>) = r /\ Tail(<<r>>) = <<>> /\ <<r>> = <<r>> \o <<>>
<1>1. <<r>> \in Seq({r})
  OBVIOUS
<1>2. <<r>> = <<r>> \o <<>>
  BY <1>1, ConcatEmptySeq
<1> QED
  BY <1>2, HeadThen, EmptySeqs

\* The flights of TLS 1.2 are sequences,
LEMMA Flights12 ==
    ASSUME NEW n
    PROVE  /\ IsSeq(HelloDone) /\ IsSeq(FromRequest(n)) /\ IsSeq(FromExchange(n))
           /\ IsSeq(FromStatus(n)) /\ IsSeq(FromCertificate(n))
           /\ IsSeq(ClientFin(n)) /\ IsSeq(FromCCS(n)) /\ IsSeq(FromVerify(n))
           /\ IsSeq(FromKey(n)) /\ IsSeq(FromClientCert(n))
           /\ IsSeq(ServerFin(n)) /\ IsSeq(FromServerCCS(n))
<1>1. IsSeq(HelloDone) /\ IsSeq(ClientFin(n)) /\ IsSeq(ServerFin(n))
  BY OneRecord DEF HelloDone, ClientFin, ServerFin
<1>2. IsSeq(FromRequest(n))
  BY <1>1, ThenSeq DEF FromRequest
<1>3. IsSeq(FromExchange(n))
  BY <1>2, ThenSeq DEF FromExchange
<1>4. IsSeq(FromStatus(n))
  BY <1>3, ThenSeq DEF FromStatus
<1>5. IsSeq(FromCertificate(n))
  BY <1>4, HeadThen DEF FromCertificate
<1>6. IsSeq(FromCCS(n)) /\ IsSeq(FromServerCCS(n))
  BY <1>1, HeadThen DEF FromCCS, FromServerCCS
<1>7. IsSeq(FromVerify(n))
  BY <1>6, ThenSeq DEF FromVerify
<1>8. IsSeq(FromKey(n))
  BY <1>7, HeadThen DEF FromKey
<1>9. IsSeq(FromClientCert(n))
  BY <1>8, ThenSeq DEF FromClientCert
<1> QED
  BY <1>1, <1>2, <1>3, <1>4, <1>5, <1>6, <1>7, <1>8, <1>9

\* and so are those of TLS 1.3.
LEMMA Flights13 ==
    ASSUME NEW n, NEW rest, IsSeq(rest)
    PROVE  /\ IsSeq(From13Finished(n, rest)) /\ IsSeq(From13Verify(n, rest))
           /\ IsSeq(From13Certificate(n, rest)) /\ IsSeq(From13Request(n, rest))
           /\ IsSeq(From13Extensions(n, rest))
           /\ IsSeq(From13ClientFin(n)) /\ IsSeq(From13ClientVerify(n))
<1>1. IsSeq(From13Finished(n, rest))
  BY HeadThen DEF From13Finished
<1>2. IsSeq(From13Verify(n, rest))
  BY <1>1, HeadThen DEF From13Verify
<1>3. IsSeq(From13Certificate(n, rest))
  BY <1>2, HeadThen DEF From13Certificate
<1>4. IsSeq(From13Request(n, rest))
  BY <1>3, ThenSeq DEF From13Request
<1>5. IsSeq(From13Extensions(n, rest))
  BY <1>4, HeadThen DEF From13Extensions
<1>6. IsSeq(From13ClientFin(n))
  BY OneRecord DEF From13ClientFin
<1>7. IsSeq(From13ClientVerify(n))
  BY <1>6, ThenSeq DEF From13ClientVerify
<1> QED
  BY <1>1, <1>2, <1>3, <1>4, <1>5, <1>6, <1>7

\* What the setting holds.
LEMMA SettingIs ==
    /\ Setting.attempt = attempt /\ Setting.client = ccfg /\ Setting.server = scfg
    /\ Setting.hello = s.hello /\ Setting.serverHello = s.serverHello
    /\ Setting.suite = s.suite /\ Setting.alpn = s.alpn
BY DEF Setting

\* The terms stay the same while the configurations and the answer do.
LEMMA SettingStays ==
    ASSUME UNCHANGED config, s'.hello = s.hello, s'.serverHello = s.serverHello,
           s'.suite = s.suite, s'.alpn = s.alpn
    PROVE  Setting' = Setting
BY DEF Setting, config
-----------------------------------------------------------------------------
(* Where the two ends stand at each stage *)

\* The steps at which the ends stand, and who has something to read, in TLS 1.2,
LEMMA Places12 ==
    ASSUME NEW e, NEW p, NEW n
    PROVE  /\ Answers12(e, p, n) =>
                /\ e.pc = "serverHello" /\ e.wire.sent = <<>>
                /\ p.pc \in {"clientCertificate12", "clientKeyExchange"}
           /\ ReadsCertificate12(e, p, n) =>
                /\ e.pc = "certificate12" /\ e.wire.sent = <<>>
                /\ p.pc \in {"clientCertificate12", "clientKeyExchange"}
           /\ ReadsFlight12(e, p, n) =>
                /\ e.pc = "flight12" /\ e.wire.sent = <<>>
                /\ p.pc \in {"clientCertificate12", "clientKeyExchange"}
           /\ ServesCertificate12(e, p, n) =>
                /\ e.pc \in {"ticket12", "changeCipherSpec"} /\ p.pc = "clientCertificate12" /\ p.wire.sent = <<>>
           /\ ServesKey12(e, p, n) =>
                /\ e.pc \in {"ticket12", "changeCipherSpec"} /\ p.pc = "clientKeyExchange" /\ p.wire.sent = <<>>
           /\ ServesVerify12(e, p, n) =>
                /\ e.pc \in {"ticket12", "changeCipherSpec"} /\ p.pc = "clientVerify12" /\ p.wire.sent = <<>>
           /\ ServesCCS12(e, p, n) =>
                /\ e.pc \in {"ticket12", "changeCipherSpec"} /\ p.pc = "clientCCS" /\ p.wire.sent = <<>>
           /\ ServesFinished12(e, p, n) =>
                /\ e.pc \in {"ticket12", "changeCipherSpec"} /\ p.pc = "clientFinished12" /\ p.wire.sent = <<>>
           /\ TakesTicket12(e, p, n) => e.pc = "ticket12" /\ e.wire.sent = <<>> /\ p.pc = "done"
           /\ TakesCCS12(e, p, n) => e.pc = "changeCipherSpec" /\ e.wire.sent = <<>> /\ p.pc = "done"
           /\ TakesFinished12(e, p, n) => e.pc = "finished12" /\ e.wire.sent = <<>> /\ p.pc = "done"
           /\ Full12(e, p, n) => e.session = None
<1>1. /\ Answers12(e, p, n) =>
            /\ e.pc = "serverHello" /\ e.wire.sent = <<>>
            /\ p.pc \in {"clientCertificate12", "clientKeyExchange"}
      /\ Answers12(e, p, n) => e.session = None
  BY DEF Answers12, Opened, HasWire, Sent12
<1>2. /\ ReadsCertificate12(e, p, n) =>
            /\ e.pc = "certificate12" /\ e.wire.sent = <<>>
            /\ p.pc \in {"clientCertificate12", "clientKeyExchange"}
      /\ ReadsCertificate12(e, p, n) => e.session = None
  BY DEF ReadsCertificate12, Reading12, Client12, HasWire, Sent12
<1>3. ASSUME NEW k, NEW q, NEW t, AtFlight(e, p, n, k, q, t)
      PROVE  /\ e.pc = "flight12" /\ e.wire.sent = <<>> /\ e.session = None
             /\ p.pc \in {"clientCertificate12", "clientKeyExchange"}
  BY <1>3 DEF AtFlight, Reading12, Client12, HasWire, Sent12
<1>4. ReadsFlight12(e, p, n) =>
        /\ e.pc = "flight12" /\ e.wire.sent = <<>> /\ e.session = None
        /\ p.pc \in {"clientCertificate12", "clientKeyExchange"}
  BY <1>3 DEF ReadsFlight12
<1>5. ASSUME NEW q, Serves12(e, p, n, q)
      PROVE  e.pc \in {"ticket12", "changeCipherSpec"} /\ p.wire.sent = <<>> /\ e.session = None
  BY <1>5 DEF Serves12, Waits12, Client12, HasWire
<1>6. /\ ServesCertificate12(e, p, n) =>
            /\ e.pc \in {"ticket12", "changeCipherSpec"} /\ p.pc = "clientCertificate12" /\ p.wire.sent = <<>>
      /\ ServesCertificate12(e, p, n) => e.session = None
  BY <1>5 DEF ServesCertificate12
<1>7. /\ ServesKey12(e, p, n) =>
            /\ e.pc \in {"ticket12", "changeCipherSpec"} /\ p.pc = "clientKeyExchange" /\ p.wire.sent = <<>>
      /\ ServesKey12(e, p, n) => e.session = None
  BY <1>5 DEF ServesKey12
<1>8. /\ ServesVerify12(e, p, n) =>
            /\ e.pc \in {"ticket12", "changeCipherSpec"} /\ p.pc = "clientVerify12" /\ p.wire.sent = <<>>
      /\ ServesVerify12(e, p, n) => e.session = None
  BY <1>5 DEF ServesVerify12
<1>9. /\ ServesCCS12(e, p, n) =>
            /\ e.pc \in {"ticket12", "changeCipherSpec"} /\ p.pc = "clientCCS" /\ p.wire.sent = <<>>
      /\ ServesCCS12(e, p, n) => e.session = None
  BY <1>5 DEF ServesCCS12
<1>10. /\ ServesFinished12(e, p, n) =>
            /\ e.pc \in {"ticket12", "changeCipherSpec"} /\ p.pc = "clientFinished12" /\ p.wire.sent = <<>>
       /\ ServesFinished12(e, p, n) => e.session = None
  BY <1>5 DEF ServesFinished12
<1>11. /\ TakesTicket12(e, p, n) => e.pc = "ticket12" /\ e.wire.sent = <<>> /\ p.pc = "done"
       /\ TakesTicket12(e, p, n) => e.session = None
  BY DEF TakesTicket12, Closes12, Waits12
<1>12. /\ TakesCCS12(e, p, n) => e.pc = "changeCipherSpec" /\ e.wire.sent = <<>> /\ p.pc = "done"
       /\ TakesCCS12(e, p, n) => e.session = None
  BY DEF TakesCCS12, Closes12
<1>13. /\ TakesFinished12(e, p, n) => e.pc = "finished12" /\ e.wire.sent = <<>> /\ p.pc = "done"
       /\ TakesFinished12(e, p, n) => e.session = None
  BY DEF TakesFinished12, Closes12
<1>14. Full12(e, p, n) => e.session = None
  BY <1>1, <1>2, <1>4, <1>6, <1>7, <1>8, <1>9, <1>10, <1>11, <1>12, <1>13 DEF Full12
<1> QED
  BY <1>1, <1>2, <1>4, <1>6, <1>7, <1>8, <1>9, <1>10, <1>11, <1>12, <1>13, <1>14

\* and in TLS 1.3.
LEMMA Places13 ==
    ASSUME NEW e, NEW p, NEW n
    PROVE  /\ AsksAgain(e, p, n) =>
                e.pc = "serverHello" /\ e.wire.sent = <<>> /\ p.pc = "clientHello2"
           /\ OffersAgain(e, p, n) =>
                e.pc = "serverHello2" /\ p.pc = "clientHello2" /\ p.wire.sent = <<>>
           /\ Certifies(e, p, n) =>
                e.pc \in {"serverHello", "serverHello2"} /\ p.pc = "sendServerCertificate" /\ p.wire.sent = <<>>
           /\ Finishes(e, p, n) =>
                e.pc \in {"serverHello", "serverHello2"} /\ p.pc = "sendServerFinished" /\ p.wire.sent = <<>>
           /\ ReadsHello13(e, p, n) =>
                /\ e.pc \in {"serverHello", "serverHello2"} /\ e.wire.sent = <<>>
                /\ p.pc \in {"clientCertificate13", "clientFinished13"}
           /\ ReadsExtensions13(e, p, n) =>
                /\ e.pc = "encryptedExtensions" /\ e.wire.sent = <<>>
                /\ p.pc \in {"clientCertificate13", "clientFinished13"}
           /\ ReadsRequest13(e, p, n) \/ ReadsCertificate13(e, p, n) =>
                /\ e.pc = "certificate13" /\ e.wire.sent = <<>>
                /\ p.pc \in {"clientCertificate13", "clientFinished13"}
           /\ ReadsVerify13(e, p, n) =>
                /\ e.pc = "certificateVerify13" /\ e.wire.sent = <<>>
                /\ p.pc \in {"clientCertificate13", "clientFinished13"}
           /\ ReadsFinished13(e, p, n) =>
                /\ e.pc = "finished13" /\ e.wire.sent = <<>>
                /\ p.pc \in {"clientCertificate13", "clientFinished13"}
           /\ ServesCertificate13(e, p, n) => e.pc = "done" /\ p.pc = "clientCertificate13"
           /\ ServesVerify13(e, p, n) => e.pc = "done" /\ p.pc = "clientVerify13"
           /\ ServesFinished13(e, p, n) => e.pc = "done" /\ p.pc = "clientFinished13"
           /\ Full13(e, p, n) => e.session = None
<1>1. AsksAgain(e, p, n) =>
        e.session = None /\ e.pc = "serverHello" /\ e.wire.sent = <<>> /\ p.pc = "clientHello2"
  BY DEF AsksAgain, Opened, HasWire, Asked
<1>2. OffersAgain(e, p, n) =>
        e.session = None /\ e.pc = "serverHello2" /\ p.pc = "clientHello2" /\ p.wire.sent = <<>>
  BY DEF OffersAgain, Asked, Reopened, HasWire
<1>3. Awaits(e, n) =>
        e.session = None /\ e.pc \in {"serverHello", "serverHello2"} /\ e.wire.sent = <<>>
  BY DEF Awaits, Opened, Reopened, HasWire
<1>4. Certifies(e, p, n) =>
        /\ e.session = None /\ e.pc \in {"serverHello", "serverHello2"}
        /\ p.pc = "sendServerCertificate" /\ p.wire.sent = <<>>
  BY <1>3 DEF Certifies, HasWire
<1>5. Finishes(e, p, n) =>
        /\ e.session = None /\ e.pc \in {"serverHello", "serverHello2"}
        /\ p.pc = "sendServerFinished" /\ p.wire.sent = <<>>
  BY <1>3 DEF Finishes, HasWire
<1>6. ASSUME NEW q, Sent13(p, n, q)
      PROVE  p.pc \in {"clientCertificate13", "clientFinished13"}
  BY <1>6 DEF Sent13
<1>7. ReadsHello13(e, p, n) =>
        /\ e.session = None /\ e.pc \in {"serverHello", "serverHello2"} /\ e.wire.sent = <<>>
        /\ p.pc \in {"clientCertificate13", "clientFinished13"}
  BY <1>3, <1>6 DEF ReadsHello13
<1>8. ASSUME NEW pc, NEW t, At13(e, n, pc, t)
      PROVE  e.session = None /\ e.pc = pc /\ e.wire.sent = <<>>
  BY <1>8 DEF At13, HasWire
<1>9. ReadsExtensions13(e, p, n) =>
        /\ e.session = None /\ e.pc = "encryptedExtensions" /\ e.wire.sent = <<>>
        /\ p.pc \in {"clientCertificate13", "clientFinished13"}
  BY <1>6, <1>8 DEF ReadsExtensions13
<1>10. ReadsRequest13(e, p, n) \/ ReadsCertificate13(e, p, n) =>
        /\ e.session = None /\ e.pc = "certificate13" /\ e.wire.sent = <<>>
        /\ p.pc \in {"clientCertificate13", "clientFinished13"}
  BY <1>6, <1>8 DEF ReadsRequest13, ReadsCertificate13
<1>11. ReadsVerify13(e, p, n) =>
        /\ e.session = None /\ e.pc = "certificateVerify13" /\ e.wire.sent = <<>>
        /\ p.pc \in {"clientCertificate13", "clientFinished13"}
  BY <1>6, <1>8 DEF ReadsVerify13
<1>12. ReadsFinished13(e, p, n) =>
        /\ e.session = None /\ e.pc = "finished13" /\ e.wire.sent = <<>>
        /\ p.pc \in {"clientCertificate13", "clientFinished13"}
  BY <1>6, <1>8 DEF ReadsFinished13
<1>13. /\ ServesCertificate13(e, p, n) =>
            e.session = None /\ e.pc = "done" /\ p.pc = "clientCertificate13"
       /\ ServesVerify13(e, p, n) => e.session = None /\ e.pc = "done" /\ p.pc = "clientVerify13"
       /\ ServesFinished13(e, p, n) => e.session = None /\ e.pc = "done" /\ p.pc = "clientFinished13"
  BY DEF ServesCertificate13, ServesVerify13, ServesFinished13, Serves13
<1>14. Full13(e, p, n) => e.session = None
  BY <1>1, <1>2, <1>4, <1>5, <1>7, <1>9, <1>10, <1>11, <1>12, <1>13 DEF Full13
<1> QED
  BY <1>1, <1>2, <1>4, <1>5, <1>7, <1>9, <1>10, <1>11, <1>12, <1>13, <1>14

\* The step of an end tells the stage, and no end has failed.
LEMMA Stages ==
    ASSUME NEW e, NEW p, NEW n, Full(e, p, n)
    PROVE  /\ e.session = None /\ e.pc # "failed" /\ p.pc # "failed"
           /\ e.pc = "start" => Opens(e, p, n)
           /\ e.pc = "serverHello" /\ p.wire.sent # <<>> =>
                Answers12(e, p, n) \/ AsksAgain(e, p, n) \/ ReadsHello13(e, p, n)
           /\ e.pc = "serverHello2" /\ p.wire.sent # <<>> => ReadsHello13(e, p, n)
           /\ e.pc = "certificate12" => ReadsCertificate12(e, p, n)
           /\ e.pc = "flight12" => ReadsFlight12(e, p, n)
           /\ e.pc = "ticket12" /\ p.wire.sent # <<>> => TakesTicket12(e, p, n)
           /\ e.pc = "changeCipherSpec" /\ p.wire.sent # <<>> => TakesCCS12(e, p, n)
           /\ e.pc = "finished12" => TakesFinished12(e, p, n)
           /\ e.pc = "encryptedExtensions" => ReadsExtensions13(e, p, n)
           /\ e.pc = "certificate13" => ReadsRequest13(e, p, n) \/ ReadsCertificate13(e, p, n)
           /\ e.pc = "certificateVerify13" => ReadsVerify13(e, p, n)
           /\ e.pc = "finished13" => ReadsFinished13(e, p, n)
           /\ p.pc \in {"start", "clientHello"} => Opens(e, p, n)
           /\ p.pc = "clientHello2" /\ e.wire.sent # <<>> => OffersAgain(e, p, n)
           /\ p.pc = "sendServerCertificate" => Certifies(e, p, n)
           /\ p.pc = "sendServerFinished" => Finishes(e, p, n)
           /\ p.pc = "clientCertificate12" /\ e.wire.sent # <<>> => ServesCertificate12(e, p, n)
           /\ p.pc = "clientKeyExchange" /\ e.wire.sent # <<>> => ServesKey12(e, p, n)
           /\ p.pc = "clientVerify12" => ServesVerify12(e, p, n)
           /\ p.pc = "clientCCS" => ServesCCS12(e, p, n)
           /\ p.pc = "clientFinished12" => ServesFinished12(e, p, n)
           /\ p.pc = "clientCertificate13" /\ e.wire.sent # <<>> => ServesCertificate13(e, p, n)
           /\ p.pc = "clientVerify13" => ServesVerify13(e, p, n)
           /\ p.pc = "clientFinished13" /\ e.wire.sent # <<>> => ServesFinished13(e, p, n)
           /\ (e.pc = "done" /\ p.pc = "done") \/ e.pc # "done" \/ ServesCertificate13(e, p, n)
              \/ ServesVerify13(e, p, n) \/ ServesFinished13(e, p, n)
<1>1. Opens(e, p, n) =>
        /\ e.session = None /\ e.pc \in {"start", "serverHello"}
        /\ p.pc \in {"start", "clientHello"} /\ p.wire.sent = <<>>
  BY DEF Opens, Unused, Opened, HasWire
<1>2. CASE Opens(e, p, n)
  BY <1>1, <1>2
<1>3. CASE Full12(e, p, n)
  BY <1>3, Places12 DEF Full12
<1>4. CASE Full13(e, p, n)
  BY <1>4, Places13 DEF Full13
<1>5. CASE e.pc = "done" /\ p.pc = "done" /\ e.session = None
  BY <1>5
<1> QED
  BY <1>2, <1>3, <1>4, <1>5 DEF Full
-----------------------------------------------------------------------------
(* The next record, and the records after it *)

\* The records q start with r and go on with t.
Starts(q, r, t) == q # <<>> /\ Head(q) = r /\ Tail(q) = t

\* The first record of each rest of a flight, and what follows it, in TLS 1.2,
LEMMA Records12 ==
    ASSUME NEW n
    PROVE  /\ Starts(FromHello(n), Rec("serverHello", n.serverHello, None), FromCertificate(n))
           /\ Starts(FromCertificate(n), Rec("certificate", n.server.trusted, None), FromStatus(n))
           /\ IF n.serverHello.staple
              THEN Starts(FromStatus(n), Rec("certificateStatus", None, None), FromExchange(n))
              ELSE FromStatus(n) = FromExchange(n)
           /\ IF n.suite # "rsa"
              THEN Starts(FromExchange(n), Rec("serverKeyExchange", None, None), FromRequest(n))
              ELSE FromExchange(n) = FromRequest(n)
           /\ IF Asks(n) THEN Starts(FromRequest(n), Rec("certificateRequest", None, None), HelloDone)
              ELSE FromRequest(n) = HelloDone
           /\ Starts(HelloDone, Rec("serverHelloDone", None, None), <<>>)
           /\ IF Asks(n) THEN Starts(FromClientCert(n), Rec("certificate", n.client.cert, None), FromKey(n))
              ELSE FromClientCert(n) = FromKey(n)
           /\ Starts(FromKey(n), Rec("clientKeyExchange", None, None), FromVerify(n))
           /\ IF Shows(n) THEN Starts(FromVerify(n), Rec("certificateVerify", ToKey(n), None), FromCCS(n))
              ELSE FromVerify(n) = FromCCS(n)
           /\ Starts(FromCCS(n), Rec("changeCipherSpec", None, None), ClientFin(n))
           /\ Starts(ClientFin(n), Rec("finished", Proof(KeyOf("client", n), ToVerify(n)), KeyOf("client", n)),
                     <<>>)
           /\ Starts(FromServerCCS(n), Rec("changeCipherSpec", None, None), ServerFin(n))
           /\ Starts(ServerFin(n), Rec("finished", Proof(KeyOf("server", n), ToTicket(n)), KeyOf("server", n)),
                     <<>>)
<1>1. Starts(FromHello(n), Rec("serverHello", n.serverHello, None), FromCertificate(n))
  BY HeadThen, Flights12 DEF FromHello, Starts
<1>2. Starts(FromCertificate(n), Rec("certificate", n.server.trusted, None), FromStatus(n))
  BY HeadThen, Flights12 DEF FromCertificate, Starts
<1>3. IF n.serverHello.staple
      THEN Starts(FromStatus(n), Rec("certificateStatus", None, None), FromExchange(n))
      ELSE FromStatus(n) = FromExchange(n)
  BY HeadThen, Flights12 DEF FromStatus, Then, Starts
<1>4. IF n.suite # "rsa"
      THEN Starts(FromExchange(n), Rec("serverKeyExchange", None, None), FromRequest(n))
      ELSE FromExchange(n) = FromRequest(n)
  BY HeadThen, Flights12 DEF FromExchange, Then, Starts
<1>5. IF Asks(n) THEN Starts(FromRequest(n), Rec("certificateRequest", None, None), HelloDone)
      ELSE FromRequest(n) = HelloDone
  BY HeadThen, Flights12 DEF FromRequest, Then, Starts
<1>6. Starts(HelloDone, Rec("serverHelloDone", None, None), <<>>)
  BY OneRecord DEF HelloDone, Starts
<1>7. IF Asks(n) THEN Starts(FromClientCert(n), Rec("certificate", n.client.cert, None), FromKey(n))
      ELSE FromClientCert(n) = FromKey(n)
  BY HeadThen, Flights12 DEF FromClientCert, Then, Starts
<1>8. Starts(FromKey(n), Rec("clientKeyExchange", None, None), FromVerify(n))
  BY HeadThen, Flights12 DEF FromKey, Starts
<1>9. IF Shows(n) THEN Starts(FromVerify(n), Rec("certificateVerify", ToKey(n), None), FromCCS(n))
      ELSE FromVerify(n) = FromCCS(n)
  BY HeadThen, Flights12 DEF FromVerify, Then, Starts
<1>10. Starts(FromCCS(n), Rec("changeCipherSpec", None, None), ClientFin(n))
  BY HeadThen, Flights12 DEF FromCCS, Starts
<1>11. Starts(ClientFin(n), Rec("finished", Proof(KeyOf("client", n), ToVerify(n)), KeyOf("client", n)), <<>>)
  BY OneRecord DEF ClientFin, Starts
<1>12. Starts(FromServerCCS(n), Rec("changeCipherSpec", None, None), ServerFin(n))
  BY HeadThen, Flights12 DEF FromServerCCS, Starts
<1>13. Starts(ServerFin(n), Rec("finished", Proof(KeyOf("server", n), ToTicket(n)), KeyOf("server", n)), <<>>)
  BY OneRecord DEF ServerFin, Starts
<1> QED
  BY <1>1, <1>2, <1>3, <1>4, <1>5, <1>6, <1>7, <1>8, <1>9, <1>10, <1>11, <1>12, <1>13

\* and in TLS 1.3.
LEMMA Records13 ==
    ASSUME NEW n, NEW rest, IsSeq(rest)
    PROVE  /\ Starts(From13Hello(n, rest), Rec("serverHello", n.serverHello, None), From13Extensions(n, rest))
           /\ Starts(From13Extensions(n, rest), Rec("encryptedExtensions", n.alpn, Key13("server", n)),
                     From13Request(n, rest))
           /\ IF Asks(n)
              THEN Starts(From13Request(n, rest), Rec("certificateRequest", None, Key13("server", n)),
                          From13Certificate(n, rest))
              ELSE From13Request(n, rest) = From13Certificate(n, rest)
           /\ Starts(From13Certificate(n, rest), Rec("certificate", n.server.trusted, Key13("server", n)),
                     From13Verify(n, rest))
           /\ Starts(From13Verify(n, rest), Rec("certificateVerify", To13Certificate(n), Key13("server", n)),
                     From13Finished(n, rest))
           /\ Starts(From13Finished(n, rest),
                     Rec("finished", Proof(Key13("server", n), To13Verify(n)), Key13("server", n)), rest)
           /\ IF Asks(n)
              THEN Starts(From13ClientCert(n), Rec("certificate", n.client.cert, Key13("client", n)),
                          From13ClientVerify(n))
              ELSE From13ClientCert(n) = From13ClientVerify(n)
           /\ IF Shows(n)
              THEN Starts(From13ClientVerify(n), Rec("certificateVerify", To13ClientCert(n), Key13("client", n)),
                          From13ClientFin(n))
              ELSE From13ClientVerify(n) = From13ClientFin(n)
           /\ Starts(From13ClientFin(n),
                     Rec("finished", Proof(Key13("client", n), To13ClientVerify(n)), Key13("client", n)), <<>>)
<1>1. Starts(From13Hello(n, rest), Rec("serverHello", n.serverHello, None), From13Extensions(n, rest))
  BY HeadThen, Flights13 DEF From13Hello, Starts
<1>2. Starts(From13Extensions(n, rest), Rec("encryptedExtensions", n.alpn, Key13("server", n)),
             From13Request(n, rest))
  BY HeadThen, Flights13 DEF From13Extensions, Starts
<1>3. IF Asks(n)
      THEN Starts(From13Request(n, rest), Rec("certificateRequest", None, Key13("server", n)),
                  From13Certificate(n, rest))
      ELSE From13Request(n, rest) = From13Certificate(n, rest)
  BY HeadThen, Flights13 DEF From13Request, Then, Starts
<1>4. Starts(From13Certificate(n, rest), Rec("certificate", n.server.trusted, Key13("server", n)),
             From13Verify(n, rest))
  BY HeadThen, Flights13 DEF From13Certificate, Starts
<1>5. Starts(From13Verify(n, rest), Rec("certificateVerify", To13Certificate(n), Key13("server", n)),
             From13Finished(n, rest))
  BY HeadThen, Flights13 DEF From13Verify, Starts
<1>6. Starts(From13Finished(n, rest),
             Rec("finished", Proof(Key13("server", n), To13Verify(n)), Key13("server", n)), rest)
  BY HeadThen DEF From13Finished, Starts
<1>7. IF Asks(n)
      THEN Starts(From13ClientCert(n), Rec("certificate", n.client.cert, Key13("client", n)),
                  From13ClientVerify(n))
      ELSE From13ClientCert(n) = From13ClientVerify(n)
  BY HeadThen, Flights13 DEF From13ClientCert, Then, Starts
<1>8. IF Shows(n)
      THEN Starts(From13ClientVerify(n), Rec("certificateVerify", To13ClientCert(n), Key13("client", n)),
                  From13ClientFin(n))
      ELSE From13ClientVerify(n) = From13ClientFin(n)
  BY HeadThen, Flights13 DEF From13ClientVerify, Then, Starts
<1>9. Starts(From13ClientFin(n),
             Rec("finished", Proof(Key13("client", n), To13ClientVerify(n)), Key13("client", n)), <<>>)
  BY OneRecord DEF From13ClientFin, Starts
<1> QED
  BY <1>1, <1>2, <1>3, <1>4, <1>5, <1>6, <1>7, <1>8, <1>9

\* An optional message leaves the transcript as it is when it is left out.
LEMMA Transcripts ==
    ASSUME NEW n
    PROVE  /\ ToStatus(n) = IF n.serverHello.staple THEN Append(ToCertificate, "certificateStatus")
                            ELSE ToCertificate
           /\ ToExchange(n) = IF n.suite # "rsa" THEN Append(ToStatus(n), "serverKeyExchange") ELSE ToStatus(n)
           /\ ToRequest(n) = IF Asks(n) THEN Append(ToExchange(n), "certificateRequest") ELSE ToExchange(n)
           /\ ToDone(n) = Append(ToRequest(n), "serverHelloDone")
           /\ ToClientCert(n) = IF Asks(n) THEN Append(ToDone(n), "certificate") ELSE ToDone(n)
           /\ ToKey(n) = Append(ToClientCert(n), "clientKeyExchange")
           /\ ToVerify(n) = IF Shows(n) THEN Append(ToKey(n), "certificateVerify") ELSE ToKey(n)
           /\ ToFinished(n) = Append(ToVerify(n), "finished")
           /\ ToTicket(n) = IF n.serverHello.tickets THEN Append(ToFinished(n), "newSessionTicket")
                            ELSE ToFinished(n)
           /\ To13Extensions(n) = Append(To13Hello(n), "encryptedExtensions")
           /\ To13Request(n) = IF Asks(n) THEN Append(To13Extensions(n), "certificateRequest")
                               ELSE To13Extensions(n)
           /\ To13Certificate(n) = Append(To13Request(n), "certificate")
           /\ To13Verify(n) = Append(To13Certificate(n), "certificateVerify")
           /\ To13Finished(n) = Append(To13Verify(n), "finished")
           /\ To13ClientCert(n) = IF Asks(n) THEN Append(To13Finished(n), "certificate") ELSE To13Finished(n)
           /\ To13ClientVerify(n) = IF Shows(n) THEN Append(To13ClientCert(n), "certificateVerify")
                                    ELSE To13ClientCert(n)
<1>1. /\ ToStatus(n) = IF n.serverHello.staple THEN Append(ToCertificate, "certificateStatus")
                       ELSE ToCertificate
      /\ ToExchange(n) = IF n.suite # "rsa" THEN Append(ToStatus(n), "serverKeyExchange") ELSE ToStatus(n)
      /\ ToRequest(n) = IF Asks(n) THEN Append(ToExchange(n), "certificateRequest") ELSE ToExchange(n)
      /\ ToDone(n) = Append(ToRequest(n), "serverHelloDone")
  BY DEF ToStatus, ToExchange, ToRequest, ToDone, On
<1>2. /\ ToClientCert(n) = IF Asks(n) THEN Append(ToDone(n), "certificate") ELSE ToDone(n)
      /\ ToKey(n) = Append(ToClientCert(n), "clientKeyExchange")
      /\ ToVerify(n) = IF Shows(n) THEN Append(ToKey(n), "certificateVerify") ELSE ToKey(n)
      /\ ToFinished(n) = Append(ToVerify(n), "finished")
  BY DEF ToClientCert, ToKey, ToVerify, ToFinished, On
<1>3. ToTicket(n) = IF n.serverHello.tickets THEN Append(ToFinished(n), "newSessionTicket") ELSE ToFinished(n)
  BY DEF ToTicket, On
<1>4. /\ To13Extensions(n) = Append(To13Hello(n), "encryptedExtensions")
      /\ To13Request(n) = IF Asks(n) THEN Append(To13Extensions(n), "certificateRequest")
                          ELSE To13Extensions(n)
      /\ To13Certificate(n) = Append(To13Request(n), "certificate")
      /\ To13Verify(n) = Append(To13Certificate(n), "certificateVerify")
  BY DEF To13Extensions, To13Request, To13Certificate, To13Verify, On
<1>5. /\ To13Finished(n) = Append(To13Verify(n), "finished")
      /\ To13ClientCert(n) = IF Asks(n) THEN Append(To13Finished(n), "certificate") ELSE To13Finished(n)
      /\ To13ClientVerify(n) = IF Shows(n) THEN Append(To13ClientCert(n), "certificateVerify")
                               ELSE To13ClientCert(n)
  BY DEF To13Finished, To13ClientCert, To13ClientVerify, On
<1> QED
  BY <1>1, <1>2, <1>3, <1>4, <1>5

\* A record is what it was made of.
LEMMA RecFields == ASSUME NEW k, NEW b, NEW u PROVE Rec(k, b, u).kind = k /\ Rec(k, b, u).body = b /\ Rec(k, b, u).under = u
BY DEF Rec

\* What is expected at each step.
LEMMA ReadsAt ==
    /\ Reads.serverHello = {"serverHello", "helloRetryRequest"}
    /\ Reads.serverHello2 = {"serverHello", "helloRetryRequest"}
    /\ Reads.certificate12 = {"certificate"}
    /\ Reads.flight12 = {"certificateStatus", "serverKeyExchange", "certificateRequest", "serverHelloDone"}
    /\ Reads.ticket12 = {"newSessionTicket"} /\ Reads.changeCipherSpec = {"changeCipherSpec"}
    /\ Reads.finished12 = {"finished"} /\ Reads.encryptedExtensions = {"encryptedExtensions"}
    /\ Reads.certificate13 = {"certificateRequest", "certificate"}
    /\ Reads.certificateVerify13 = {"certificateVerify"} /\ Reads.finished13 = {"finished"}
    /\ Reads.clientHello = {"clientHello"} /\ Reads.clientHello2 = {"clientHello"}
    /\ Reads.clientCertificate12 = {"certificate"} /\ Reads.clientKeyExchange = {"clientKeyExchange"}
    /\ Reads.clientVerify12 = {"certificateVerify"} /\ Reads.clientCCS = {"changeCipherSpec"}
    /\ Reads.clientFinished12 = {"finished"} /\ Reads.clientCertificate13 = {"certificate"}
    /\ Reads.clientVerify13 = {"certificateVerify"} /\ Reads.clientFinished13 = {"finished"}
    /\ DOMAIN Reads =
        {"serverHello", "serverHello2", "certificate12", "flight12", "ticket12", "changeCipherSpec",
         "finished12", "encryptedExtensions", "certificate13", "certificateVerify13", "finished13",
         "clientHello", "clientHello2", "clientCertificate12", "clientKeyExchange", "clientVerify12",
         "clientCCS", "clientFinished12", "clientCertificate13", "clientVerify13", "clientFinished13"}
BY DEF Reads
\* The record that e reads next from p is one that it can read and expects.
Hears(e, p, kind, body) ==
    /\ p.wire.sent # <<>>
    /\ Head(p.wire.sent) = Rec(kind, body, e.in)
    /\ kind \in Reads[e.pc]

\* Such a record is not refused.
LEMMA Hearing ==
    ASSUME NEW e, NEW p, NEW kind, NEW body, Hears(e, p, kind, body)
    PROVE  ~Refuses(e, p) /\ Kind(p) = kind /\ Body(p) = body
BY RecFields DEF Hears, Refuses, Kind, Body

\* The client of TLS 1.2 finds what the stage promises,
LEMMA ClientHears12 ==
    ASSUME NEW e, NEW p, NEW n
    PROVE  /\ Answers12(e, p, n) => Hears(e, p, "serverHello", n.serverHello)
           /\ ReadsCertificate12(e, p, n) => Hears(e, p, "certificate", n.server.trusted)
           /\ TakesTicket12(e, p, n) => \E b : Hears(e, p, "newSessionTicket", b)
           /\ TakesCCS12(e, p, n) => Hears(e, p, "changeCipherSpec", None)
           /\ TakesFinished12(e, p, n) => Hears(e, p, "finished", Proof(KeyOf("server", n), ToTicket(n)))
<1>1. Answers12(e, p, n) => Hears(e, p, "serverHello", n.serverHello)
  BY Records12, ReadsAt DEF Answers12, Opened, Sent12, HasWire, Starts, Hears
<1>2. ReadsCertificate12(e, p, n) => Hears(e, p, "certificate", n.server.trusted)
  BY Records12, ReadsAt DEF ReadsCertificate12, Reading12, Client12, Sent12, HasWire, Starts, Hears
<1>3. TakesTicket12(e, p, n) => \E b : Hears(e, p, "newSessionTicket", b)
  <2> SUFFICES ASSUME TakesTicket12(e, p, n) PROVE \E b : Hears(e, p, "newSessionTicket", b)
    OBVIOUS
  <2>1. PICK b : Closes12(e, p, n, <<Rec("newSessionTicket", b, None)>> \o FromServerCCS(n))
    BY DEF TakesTicket12
  <2>2. p.wire.sent # <<>> /\ Head(p.wire.sent) = Rec("newSessionTicket", b, None)
    BY <2>1, HeadThen, Flights12 DEF Closes12, HasWire
  <2>3. e.in = None /\ e.pc = "ticket12"
    BY DEF TakesTicket12, Waits12, Client12
  <2> QED
    BY <2>2, <2>3, ReadsAt DEF Hears
<1>4. TakesCCS12(e, p, n) => Hears(e, p, "changeCipherSpec", None)
  BY Records12, ReadsAt DEF TakesCCS12, Closes12, HasWire, Starts, Hears
<1>5. TakesFinished12(e, p, n) => Hears(e, p, "finished", Proof(KeyOf("server", n), ToTicket(n)))
  BY Records12, ReadsAt DEF TakesFinished12, Closes12, HasWire, Starts, Hears
<1> QED
  BY <1>1, <1>2, <1>3, <1>4, <1>5

\* In the flight of TLS 1.2 the client is before one of four messages.
FlightCases(e, p, n) ==
    \/ n.serverHello.staple /\ AtFlight(e, p, n, 0, FromStatus(n), ToCertificate)
    \/ n.suite # "rsa" /\ AtFlight(e, p, n, 1, FromExchange(n), ToStatus(n))
    \/ Asks(n) /\ AtFlight(e, p, n, 2, FromRequest(n), ToExchange(n))
    \/ AtFlight(e, p, n, 3, HelloDone, ToRequest(n))

\* The optional messages of the flight that are still to come.
LEMMA FlightPlaces ==
    ASSUME NEW e, NEW p, NEW n, ReadsFlight12(e, p, n)
    PROVE  FlightCases(e, p, n)
<1>1. AtFlight(e, p, n, 2, FromRequest(n), ToExchange(n)) => FlightCases(e, p, n)
  <2>1. ~Asks(n) => FromRequest(n) = HelloDone /\ ToExchange(n) = ToRequest(n)
    BY Records12, Transcripts
  <2>2. ~Asks(n) /\ AtFlight(e, p, n, 2, FromRequest(n), ToExchange(n)) =>
            AtFlight(e, p, n, 3, FromRequest(n), ToExchange(n))
    BY DEF AtFlight, Knows
  <2> QED
    BY <2>1, <2>2 DEF FlightCases
<1>2. AtFlight(e, p, n, 1, FromExchange(n), ToStatus(n)) => FlightCases(e, p, n)
  <2>1. n.suite = "rsa" => FromExchange(n) = FromRequest(n) /\ ToStatus(n) = ToExchange(n)
    BY Records12, Transcripts
  <2>2. AtFlight(e, p, n, 1, FromRequest(n), ToExchange(n)) => AtFlight(e, p, n, 2, FromRequest(n), ToExchange(n))
    BY DEF AtFlight
  <2> QED
    BY <1>1, <2>1, <2>2 DEF FlightCases
<1>3. AtFlight(e, p, n, 0, FromStatus(n), ToCertificate) => FlightCases(e, p, n)
  <2>1. ~n.serverHello.staple => FromStatus(n) = FromExchange(n) /\ ToCertificate = ToStatus(n)
    BY Records12, Transcripts
  <2>2. AtFlight(e, p, n, 0, FromExchange(n), ToStatus(n)) => AtFlight(e, p, n, 1, FromExchange(n), ToStatus(n))
    BY DEF AtFlight
  <2> QED
    BY <1>2, <2>1, <2>2 DEF FlightCases
<1> QED
  BY <1>1, <1>2, <1>3 DEF ReadsFlight12, FlightCases

\* also in the middle of the flight,
LEMMA FlightHears ==
    ASSUME NEW e, NEW p, NEW n
    PROVE  /\ n.serverHello.staple /\ AtFlight(e, p, n, 0, FromStatus(n), ToCertificate) =>
                Hears(e, p, "certificateStatus", None)
           /\ n.suite # "rsa" /\ AtFlight(e, p, n, 1, FromExchange(n), ToStatus(n)) =>
                Hears(e, p, "serverKeyExchange", None)
           /\ Asks(n) /\ AtFlight(e, p, n, 2, FromRequest(n), ToExchange(n)) =>
                Hears(e, p, "certificateRequest", None)
           /\ AtFlight(e, p, n, 3, HelloDone, ToRequest(n)) => Hears(e, p, "serverHelloDone", None)
<1>1. n.serverHello.staple /\ AtFlight(e, p, n, 0, FromStatus(n), ToCertificate) =>
        Hears(e, p, "certificateStatus", None)
  <2>1. AtFlight(e, p, n, 0, FromStatus(n), ToCertificate) =>
            p.wire.sent = FromStatus(n) /\ e.in = None /\ e.pc = "flight12"
    BY DEF AtFlight, Reading12, Client12, Sent12, HasWire
  <2>2. n.serverHello.staple => Starts(FromStatus(n), Rec("certificateStatus", None, None), FromExchange(n))
    BY Records12
  <2> QED
    BY <2>1, <2>2, ReadsAt DEF Starts, Hears
<1>2. n.suite # "rsa" /\ AtFlight(e, p, n, 1, FromExchange(n), ToStatus(n)) =>
        Hears(e, p, "serverKeyExchange", None)
  <2>1. AtFlight(e, p, n, 1, FromExchange(n), ToStatus(n)) =>
            p.wire.sent = FromExchange(n) /\ e.in = None /\ e.pc = "flight12"
    BY DEF AtFlight, Reading12, Client12, Sent12, HasWire
  <2>2. n.suite # "rsa" => Starts(FromExchange(n), Rec("serverKeyExchange", None, None), FromRequest(n))
    BY Records12
  <2> QED
    BY <2>1, <2>2, ReadsAt DEF Starts, Hears
<1>3. Asks(n) /\ AtFlight(e, p, n, 2, FromRequest(n), ToExchange(n)) =>
        Hears(e, p, "certificateRequest", None)
  <2>1. AtFlight(e, p, n, 2, FromRequest(n), ToExchange(n)) =>
            p.wire.sent = FromRequest(n) /\ e.in = None /\ e.pc = "flight12"
    BY DEF AtFlight, Reading12, Client12, Sent12, HasWire
  <2>2. Asks(n) => Starts(FromRequest(n), Rec("certificateRequest", None, None), HelloDone)
    BY Records12
  <2> QED
    BY <2>1, <2>2, ReadsAt DEF Starts, Hears
<1>4. AtFlight(e, p, n, 3, HelloDone, ToRequest(n)) =>
        Hears(e, p, "serverHelloDone", None)
  <2>1. AtFlight(e, p, n, 3, HelloDone, ToRequest(n)) =>
            p.wire.sent = HelloDone /\ e.in = None /\ e.pc = "flight12"
    BY DEF AtFlight, Reading12, Client12, Sent12, HasWire
  <2>2. Starts(HelloDone, Rec("serverHelloDone", None, None), <<>>)
    BY Records12
  <2> QED
    BY <2>1, <2>2, ReadsAt DEF Starts, Hears
<1> QED
  BY <1>1, <1>2, <1>3, <1>4

\* the client of TLS 1.3 does,
LEMMA ClientHears13 ==
    ASSUME NEW e, NEW p, NEW n
    PROVE  /\ AsksAgain(e, p, n) => Hears(e, p, "helloRetryRequest", RetryRequest(p, n))
           /\ ReadsHello13(e, p, n) => Hears(e, p, "serverHello", n.serverHello)
           /\ ReadsExtensions13(e, p, n) => Hears(e, p, "encryptedExtensions", n.alpn)
           /\ Asks(n) /\ ReadsRequest13(e, p, n) => Hears(e, p, "certificateRequest", None)
           /\ ~Asks(n) /\ ReadsRequest13(e, p, n) => ReadsCertificate13(e, p, n)
           /\ ReadsCertificate13(e, p, n) => Hears(e, p, "certificate", n.server.trusted)
           /\ ReadsVerify13(e, p, n) => Hears(e, p, "certificateVerify", To13Certificate(n))
           /\ ReadsFinished13(e, p, n) => Hears(e, p, "finished", Proof(Key13("server", n), To13Verify(n)))
<1>1. AsksAgain(e, p, n) => Hears(e, p, "helloRetryRequest", RetryRequest(p, n))
  BY OneRecord, ReadsAt DEF AsksAgain, Opened, HasWire, Hears
<1>2. Awaits(e, n) => e.in = None /\ Reads[e.pc] = {"serverHello", "helloRetryRequest"}
  BY ReadsAt DEF Awaits, Opened, Reopened
<1>3. ASSUME NEW q, Sent13(p, n, q) PROVE p.wire.sent = q
  BY <1>3 DEF Sent13
<1>4. ASSUME NEW pc, NEW t, At13(e, n, pc, t)
      PROVE  e.in = Key13("server", n) /\ e.pc = pc
  BY <1>4 DEF At13
<1>5. ReadsHello13(e, p, n) => Hears(e, p, "serverHello", n.serverHello)
  BY <1>2, <1>3, Records13 DEF ReadsHello13, Starts, Hears
<1>6. ReadsExtensions13(e, p, n) => Hears(e, p, "encryptedExtensions", n.alpn)
  BY <1>4, <1>3, Records13, ReadsAt DEF ReadsExtensions13, Starts, Hears
<1>7. Asks(n) /\ ReadsRequest13(e, p, n) => Hears(e, p, "certificateRequest", None)
  BY <1>4, <1>3, Records13, ReadsAt DEF ReadsRequest13, Starts, Hears
<1>8. ~Asks(n) /\ ReadsRequest13(e, p, n) => ReadsCertificate13(e, p, n)
  <2> SUFFICES ASSUME ~Asks(n), ReadsRequest13(e, p, n) PROVE ReadsCertificate13(e, p, n)
    OBVIOUS
  <2>1. PICK rest : IsSeq(rest) /\ Sent13(p, n, From13Request(n, rest))
    BY DEF ReadsRequest13
  <2>2. From13Request(n, rest) = From13Certificate(n, rest) /\ To13Extensions(n) = To13Request(n)
    BY <2>1, Records13, Transcripts
  <2>3. At13(e, n, "certificate13", To13Request(n)) /\ Knows(e, n)
    BY <2>2 DEF ReadsRequest13, Knows
  <2> QED
    BY <2>1, <2>2, <2>3 DEF ReadsCertificate13
<1>9. ReadsCertificate13(e, p, n) => Hears(e, p, "certificate", n.server.trusted)
  BY <1>4, <1>3, Records13, ReadsAt DEF ReadsCertificate13, Starts, Hears
<1>10. ReadsVerify13(e, p, n) => Hears(e, p, "certificateVerify", To13Certificate(n))
  BY <1>4, <1>3, Records13, ReadsAt DEF ReadsVerify13, Starts, Hears
<1>11. ReadsFinished13(e, p, n) => Hears(e, p, "finished", Proof(Key13("server", n), To13Verify(n)))
  BY <1>4, <1>3, Records13, ReadsAt DEF ReadsFinished13, Starts, Hears
<1> QED
  BY <1>1, <1>5, <1>6, <1>7, <1>8, <1>9, <1>10, <1>11

\* and so does the server.
LEMMA ServerHears ==
    ASSUME NEW e, NEW p, NEW n
    PROVE  /\ Opens(e, p, n) /\ p.pc = "clientHello" /\ e.wire.sent # <<>> =>
                Hears(p, e, "clientHello", Offer(n)) /\ Opened(e, n, <<Rec("clientHello", Offer(n), None)>>)
           /\ OffersAgain(e, p, n) => Hears(p, e, "clientHello", Retried(n, p.share))
           /\ ServesCertificate12(e, p, n) => Hears(p, e, "certificate", n.client.cert)
           /\ ServesKey12(e, p, n) => Hears(p, e, "clientKeyExchange", None)
           /\ ServesVerify12(e, p, n) => Hears(p, e, "certificateVerify", ToKey(n))
           /\ ServesCCS12(e, p, n) => Hears(p, e, "changeCipherSpec", None)
           /\ ServesFinished12(e, p, n) => Hears(p, e, "finished", Proof(KeyOf("client", n), ToVerify(n)))
           /\ ServesCertificate13(e, p, n) => Hears(p, e, "certificate", n.client.cert)
           /\ ServesVerify13(e, p, n) => Hears(p, e, "certificateVerify", To13ClientCert(n))
           /\ ServesFinished13(e, p, n) =>
                Hears(p, e, "finished", Proof(Key13("client", n), To13ClientVerify(n)))
<1>1. Opens(e, p, n) /\ p.pc = "clientHello" /\ e.wire.sent # <<>> =>
        Hears(p, e, "clientHello", Offer(n)) /\ Opened(e, n, <<Rec("clientHello", Offer(n), None)>>)
  BY OneRecord, ReadsAt DEF Opens, Opened, Unused, HasWire, Hears
<1>2. OffersAgain(e, p, n) => Hears(p, e, "clientHello", Retried(n, p.share))
  BY OneRecord, ReadsAt DEF OffersAgain, Asked, Reopened, HasWire, Hears
<1>3. ASSUME NEW q, Serves12(e, p, n, q) PROVE e.wire.sent = q
  BY <1>3 DEF Serves12, HasWire
<1>4. ServesCertificate12(e, p, n) => Hears(p, e, "certificate", n.client.cert)
  BY <1>3, Records12, ReadsAt DEF ServesCertificate12, Starts, Hears
<1>5. ServesKey12(e, p, n) => Hears(p, e, "clientKeyExchange", None)
  BY <1>3, Records12, ReadsAt DEF ServesKey12, Starts, Hears
<1>6. ServesVerify12(e, p, n) => Hears(p, e, "certificateVerify", ToKey(n))
  BY <1>3, Records12, ReadsAt DEF ServesVerify12, Starts, Hears
<1>7. ServesCCS12(e, p, n) => Hears(p, e, "changeCipherSpec", None)
  BY <1>3, Records12, ReadsAt DEF ServesCCS12, Starts, Hears
<1>8. ServesFinished12(e, p, n) => Hears(p, e, "finished", Proof(KeyOf("client", n), ToVerify(n)))
  BY <1>3, Records12, ReadsAt DEF ServesFinished12, Starts, Hears
<1>9. ServesCertificate13(e, p, n) => Hears(p, e, "certificate", n.client.cert)
  BY Records13, EmptySeqs, ReadsAt DEF ServesCertificate13, Serves13, Starts, Hears
<1>10. ServesVerify13(e, p, n) => Hears(p, e, "certificateVerify", To13ClientCert(n))
  BY Records13, EmptySeqs, ReadsAt DEF ServesVerify13, Serves13, Starts, Hears
<1>11. ServesFinished13(e, p, n) => Hears(p, e, "finished", Proof(Key13("client", n), To13ClientVerify(n)))
  BY Records13, EmptySeqs, ReadsAt DEF ServesFinished13, Serves13, Starts, Hears
<1> QED
  BY <1>1, <1>2, <1>4, <1>5, <1>6, <1>7, <1>8, <1>9, <1>10, <1>11

\* Nothing arrives that has to be refused.
LEMMA NothingRefused ==
    ASSUME NEW e, NEW p, NEW n, Full(e, p, n)
    PROVE  ~Refuses(e, p) /\ ~Refuses(p, e)
<1> DEFINE client == {"serverHello", "serverHello2", "certificate12", "flight12", "ticket12", "changeCipherSpec",
                      "finished12", "encryptedExtensions", "certificate13", "certificateVerify13", "finished13"}
           server == {"clientHello", "clientHello2", "clientCertificate12", "clientKeyExchange", "clientVerify12",
                      "clientCCS", "clientFinished12", "clientCertificate13", "clientVerify13", "clientFinished13"}
<1>1. DOMAIN Reads = client \cup server
  BY ReadsAt
<1>2. /\ e.pc \in client \cup {"start", "done"}
      /\ p.pc \in server \cup {"start", "sendServerCertificate", "sendServerFinished", "done"}
  <2>1. CASE Opens(e, p, n)
    BY <2>1 DEF Opens, Opened
  <2>2. CASE Full12(e, p, n)
    BY <2>2, Places12 DEF Full12
  <2>3. CASE Full13(e, p, n)
    BY <2>3, Places13 DEF Full13
  <2> QED
    BY <2>1, <2>2, <2>3 DEF Full
<1>3. ASSUME Refuses(e, p) PROVE FALSE
  <2>1. e.pc \in client /\ p.wire.sent # <<>>
    BY <1>1, <1>2, <1>3 DEF Refuses
  <2>2. \/ Answers12(e, p, n) \/ AsksAgain(e, p, n) \/ ReadsHello13(e, p, n)
        \/ ReadsCertificate12(e, p, n) \/ ReadsFlight12(e, p, n) \/ TakesTicket12(e, p, n)
        \/ TakesCCS12(e, p, n) \/ TakesFinished12(e, p, n) \/ ReadsExtensions13(e, p, n)
        \/ ReadsRequest13(e, p, n) \/ ReadsCertificate13(e, p, n) \/ ReadsVerify13(e, p, n)
        \/ ReadsFinished13(e, p, n)
    BY <2>1, Stages
  <2>3. \E kind, body : Hears(e, p, kind, body)
    BY <2>2, ClientHears12, ClientHears13, FlightPlaces, FlightHears DEF FlightCases
  <2> QED
    BY <1>3, <2>3, Hearing
<1>4. ASSUME Refuses(p, e) PROVE FALSE
  <2>1. p.pc \in server /\ e.wire.sent # <<>>
    BY <1>1, <1>2, <1>4 DEF Refuses
  <2>2. \/ p.pc = "clientHello" /\ Opens(e, p, n)
        \/ OffersAgain(e, p, n) \/ ServesCertificate12(e, p, n) \/ ServesKey12(e, p, n)
        \/ ServesVerify12(e, p, n) \/ ServesCCS12(e, p, n) \/ ServesFinished12(e, p, n)
        \/ ServesCertificate13(e, p, n) \/ ServesVerify13(e, p, n) \/ ServesFinished13(e, p, n)
    BY <2>1, Stages
  <2>3. \E kind, body : Hears(p, e, kind, body)
    BY <2>1, <2>2, ServerHears
  <2> QED
    BY <1>4, <2>3, Hearing
<1> QED
  BY <1>3, <1>4
-----------------------------------------------------------------------------
(* Flights *)

\* What e has in its buffer is whole but for w.
Emitting(e, out, whole, w) ==
    \E b : IsSeq(b) /\ HasWire(e, out, TRUE, b, <<>>) /\ b \o w = whole

\* Writing the next record,
LEMMA Emits ==
    ASSUME NEW e, DOMAIN e = EndFields, NEW out, NEW whole, NEW kind, NEW body, NEW w, IsSeq(w),
           Emitting(e, out, whole, <<Rec(kind, body, out)>> \o w)
    PROVE  LET x == WriteRecorded(e, kind, body)
               y == Write(e, Msg(kind, body))
           IN
           /\ DOMAIN x = EndFields /\ SameBut(x, e, {"wire", "transcript"})
           /\ x.transcript = Append(e.transcript, kind) /\ Emitting(x, out, whole, w)
           /\ DOMAIN y = EndFields /\ SameBut(y, e, {"wire"}) /\ Emitting(y, out, whole, w)
<1> DEFINE x == WriteRecorded(e, kind, body)
           y == Write(e, Msg(kind, body))
           r == Rec(kind, body, out)
<1>1. PICK b : IsSeq(b) /\ HasWire(e, out, TRUE, b, <<>>) /\ b \o (<<r>> \o w) = whole
  BY DEF Emitting
<1> HIDE DEF r
<1>a. IsSeq(Append(b, r))
  BY <1>1, AppendSeq
<1>b. Append(b, r) \o w = b \o (<<r>> \o w)
  BY <1>1, AppendThen
<1>2. IsSeq(Append(b, r)) /\ Append(b, r) \o w = whole
  BY <1>1, <1>a, <1>b
<1>3. /\ DOMAIN x = EndFields /\ SameBut(x, e, {"wire", "transcript"})
      /\ x.transcript = Append(e.transcript, kind) /\ HasWire(x, out, TRUE, Append(b, r), <<>>)
      /\ DOMAIN y = EndFields /\ SameBut(y, e, {"wire"}) /\ HasWire(y, out, TRUE, Append(b, r), <<>>)
  BY <1>1, Buffered DEF r
<1> HIDE DEF x, y
<1>4. Emitting(x, out, whole, w) /\ Emitting(y, out, whole, w)
  BY <1>2, <1>3 DEF Emitting
<1> QED
  BY <1>3, <1>4 DEF x, y

\* The same of the last message.
LEMMA EmitsLast ==
    ASSUME NEW e, DOMAIN e = EndFields, NEW out, NEW whole, NEW kind, NEW body,
           Emitting(e, out, whole, <<Rec(kind, body, out)>>)
    PROVE  LET x == WriteRecorded(e, kind, body) IN
           /\ DOMAIN x = EndFields /\ SameBut(x, e, {"wire", "transcript"})
           /\ x.transcript = Append(e.transcript, kind) /\ Emitting(x, out, whole, <<>>)
<1> DEFINE w == <<>>
<1>1. IsSeq(w)
  BY EmptySeqs
<1>2. <<Rec(kind, body, out)>> = <<Rec(kind, body, out)>> \o w
  BY OneRecord
<1> HIDE DEF w
<1>3. Emitting(e, out, whole, <<Rec(kind, body, out)>> \o w)
  BY <1>2
<1> QED
  BY <1>1, <1>3, Emits DEF w

\* The same of an optional message.
LEMMA EmitsOptional ==
    ASSUME NEW e, DOMAIN e = EndFields, NEW out, NEW whole, NEW kind, NEW body, NEW w, IsSeq(w), NEW x,
           \/ Emitting(e, out, whole, <<Rec(kind, body, out)>> \o w) /\ x = WriteRecorded(e, kind, body)
           \/ Emitting(e, out, whole, w) /\ x = e
    PROVE  /\ DOMAIN x = EndFields /\ SameBut(x, e, {"wire", "transcript"})
           /\ Emitting(x, out, whole, w)
<1>1. CASE Emitting(e, out, whole, <<Rec(kind, body, out)>> \o w) /\ x = WriteRecorded(e, kind, body)
  BY <1>1, Emits
<1>2. CASE Emitting(e, out, whole, w) /\ x = e
  BY <1>2 DEF SameBut
<1> QED
  BY <1>1, <1>2

\* and flushing the buffer.
LEMMA Emitted ==
    ASSUME NEW e, DOMAIN e = EndFields, NEW out, NEW whole, Emitting(e, out, whole, <<>>)
    PROVE  /\ DOMAIN flush(e) = EndFields /\ SameBut(flush(e), e, {"wire"})
           /\ HasWire(flush(e), out, FALSE, <<>>, whole)
<1>1. PICK b : IsSeq(b) /\ HasWire(e, out, TRUE, b, <<>>) /\ b \o <<>> = whole
  BY DEF Emitting
<1>2. b = whole /\ <<>> \o b = whole
  BY <1>1, NothingMore
<1> QED
  BY <1>1, <1>2, Rewires

\* An end whose fields outside the wire changed.
LEMMA SameWire ==
    ASSUME NEW x, NEW e, x.wire = e.wire, NEW out, NEW b, NEW buf, NEW sent, NEW whole, NEW w
    PROVE  /\ HasWire(e, out, b, buf, sent) => HasWire(x, out, b, buf, sent)
           /\ Emitting(e, out, whole, w) => Emitting(x, out, whole, w)
BY DEF HasWire, Emitting

\* ChangeCipherSpec and Finished, under a key that follows from the secret.
LEMMA Concludes12 ==
    ASSUME NEW e, DOMAIN e = EndFields, NEW whole, NEW key, NEW side, key = Key12(side, e),
           Emitting(e, None, whole,
                    <<Rec("changeCipherSpec", None, None)>> \o <<Rec("finished", Proof(key, e.transcript), key)>>)
    PROVE  LET x == flush(sendFinished12(e, side)) IN
           /\ DOMAIN x = EndFields /\ SameBut(x, e, {"wire", "transcript"})
           /\ x.transcript = Append(e.transcript, "finished") /\ HasWire(x, key, FALSE, <<>>, whole)
<1> DEFINE r == Rec("finished", Proof(key, e.transcript), key)
           a == Write(e, Msg("changeCipherSpec", None))
           b == [a EXCEPT !.wire.out = key]
           d == WriteRecorded(b, "finished", Verify(key, b))
<1>1. IsSeq(<<r>>) /\ <<r>> = <<r>> \o <<>>
  BY OneRecord
<1>2. DOMAIN a = EndFields /\ SameBut(a, e, {"wire"}) /\ Emitting(a, None, whole, <<r>>)
  BY <1>1, Emits
<1> HIDE DEF a, r
<1>3. DOMAIN b = EndFields /\ SameBut(b, e, {"wire"}) /\ b.wire = [a.wire EXCEPT !.out = key]
  BY <1>2 DEF SameBut, EndFields
<1>4. Emitting(b, key, whole, <<r>>)
  BY <1>2, <1>3 DEF Emitting, HasWire, WireFields
<1>5. Verify(key, b) = Proof(key, e.transcript) /\ b.transcript = e.transcript
  BY <1>3 DEF Verify, Proof, SameBut, EndFields
<1> HIDE DEF b
<1>6. /\ DOMAIN d = EndFields /\ SameBut(d, b, {"wire", "transcript"})
      /\ d.transcript = Append(e.transcript, "finished") /\ Emitting(d, key, whole, <<>>)
  <2>1. Emitting(b, key, whole, <<Rec("finished", Verify(key, b), key)>>)
    BY <1>4, <1>5 DEF r
  <2> QED
    BY <1>3, <1>5, <2>1, EmitsLast
<1> HIDE DEF d
<1>7. SameBut(d, e, {"wire", "transcript"})
  BY <1>3, <1>6 DEF SameBut
<1>8. sendFinished12(e, side) = d
  BY DEF sendFinished12, a, b, d
<1>9. /\ DOMAIN flush(d) = EndFields /\ SameBut(flush(d), d, {"wire"})
      /\ HasWire(flush(d), key, FALSE, <<>>, whole)
  BY <1>6, Emitted
<1>10. SameBut(flush(d), e, {"wire", "transcript"}) /\ flush(d).transcript = d.transcript
  BY <1>7, <1>9 DEF SameBut, EndFields
<1> QED
  BY <1>6, <1>8, <1>9, <1>10
-----------------------------------------------------------------------------
(* The steps of the client of TLS 1.2 *)

Going == Fine /\ ccfg \in ClientConfigs /\ scfg \in ServerConfigs /\ Full(c, s, Setting)

\* What the client offers.
LEMMA OfferFields ==
    ASSUME NEW n
    PROVE  LET hello == Offer(n) IN
           /\ DOMAIN hello = HelloFields
           /\ hello.versions = n.client.versions /\ hello.suites = n.client.suites
           /\ hello.curves = n.client.curves /\ hello.shares = n.client.shares
           /\ hello.generation = 1 /\ hello.ems = n.client.ems /\ hello.alpn = n.client.alpn
           /\ hello.ech = n.client.ech /\ hello.tickets = OffersTickets(n.client)
           /\ hello.random = "outer" /\ hello.ticket = None /\ hello.psk = None
BY DEF Offer, ClientHello, HelloFields

\* A step of the client leaves the server as it was, but for its stream,
LEMMA ClientGoesOn ==
    ASSUME NEW x, ClientStep(x), DOMAIN s = EndFields
    PROVE  /\ c' = x /\ s' = Taken(s) /\ DOMAIN s' = EndFields /\ SameBut(s', s, {"wire"})
           /\ Setting' = Setting
<1>1. c' = x /\ s' = Taken(s) /\ UNCHANGED config
  BY DEF ClientStep
<1>2. DOMAIN s' = EndFields /\ SameBut(s', s, {"wire"})
  BY <1>1, TakenSame
<1>3. s'.hello = s.hello /\ s'.serverHello = s.serverHello /\ s'.suite = s.suite /\ s'.alpn = s.alpn
  BY <1>2 DEF SameBut, EndFields
<1> QED
  BY <1>1, <1>2, <1>3, SettingStays

\* and one of the server the client.
LEMMA ServerGoesOn ==
    ASSUME NEW x, ServerStep(x), DOMAIN c = EndFields
    PROVE  /\ s' = x /\ c' = Taken(c) /\ DOMAIN c' = EndFields /\ SameBut(c', c, {"wire"})
           /\ UNCHANGED config
BY TakenSame DEF ServerStep

\* The client has read one record of the flight.
LEMMA TakenSent12 ==
    ASSUME NEW p, NEW n, NEW q, Sent12(p, n, q)
    PROVE  DOMAIN p = EndFields /\ Sent12(Taken(p), n, Tail(q))
<1>1. /\ DOMAIN Taken(p) = EndFields /\ SameBut(Taken(p), p, {"wire"})
      /\ HasWire(Taken(p), None, FALSE, <<>>, Tail(q)) /\ DOMAIN p = EndFields
  BY Rewires DEF Sent12, Server12
<1> QED
  BY <1>1 DEF Sent12, Server12, SameBut, EndFields

\* readServerHello takes the answer of a server of TLS 1.2.
LEMMA ReadsHello12 ==
    ASSUME Answers12(c, s, Setting), readServerHello
    PROVE  Setting' = Setting /\ ReadsCertificate12(c', s', Setting)
<1> DEFINE n == Setting
           hello == n.serverHello
           a == [c EXCEPT !.vers = 12, !.suite = hello.suite, !.alpn = hello.alpn, !.serverHello = hello,
                          !.transcript = <<"clientHello", "serverHello">>]
           x == Buffer(a)
           y == [x EXCEPT !.pc = "certificate12"]
<1>1. Kind(s) = "serverHello" /\ Body(s) = hello
  BY ClientHears12, Hearing
<1>2. n.client = ccfg /\ c.hello = Offer(n) /\ c.session = None
  BY SettingIs DEF Answers12, Opened
<1>3. c.hello.suites = ccfg.suites /\ c.hello.alpn = ccfg.alpn
  BY <1>2, OfferFields
<1>4. /\ hello.vers = 12 /\ AcceptedVersions = ToSet(ccfg.versions) /\ 12 \in ToSet(ccfg.versions)
      /\ ~(13 \in ToSet(ccfg.versions) /\ hello.canary)
      /\ hello.suite \in ToSet(ccfg.suites) /\ checkALPN(ccfg.alpn, hello.alpn)
  BY <1>2 DEF Answers12, Readable12, AcceptedVersions
<1>5. DOMAIN c = EndFields /\ HasWire(c, None, FALSE, <<>>, <<>>) /\ c.in = None /\ c.flight = 0
      /\ c.certReq = FALSE /\ c.echRejected = FALSE
  BY DEF Answers12, Opened
<1>6. /\ DOMAIN a = EndFields /\ SameBut(a, c, {"vers", "suite", "alpn", "serverHello", "transcript"})
      /\ a.transcript = Hellos /\ a.serverHello = hello
  BY <1>5 DEF SameBut, EndFields, Hellos
<1> HIDE DEF a
<1>7. HasWire(a, None, FALSE, <<>>, <<>>)
  BY <1>5, <1>6 DEF HasWire, SameBut, EndFields
<1>8. DOMAIN x = EndFields /\ SameBut(x, a, {"wire"}) /\ HasWire(x, None, TRUE, <<>>, <<>>)
  BY <1>6, <1>7, Rewires
<1> HIDE DEF x
<1>9. DOMAIN y = EndFields /\ SameBut(y, x, {"pc"}) /\ y.pc = "certificate12"
  BY <1>8 DEF SameBut, EndFields
<1> HIDE DEF y
<1>10. ClientHandshake12(c, hello) = y
  <2>1. x.session = None
    BY <1>2, <1>6, <1>8 DEF SameBut, EndFields
  <2>2. ~serverResumedSession(x)
    BY <2>1 DEF serverResumedSession
  <2> QED
    BY <1>3, <1>4, <2>2 DEF ClientHandshake12, a, x, y
<1>11. ClientStep(y)
  BY <1>1, <1>4, <1>10 DEF readServerHello
<1>12. Sent12(s, n, FromHello(n)) /\ DOMAIN s = EndFields
  BY DEF Answers12, Sent12, Server12
<1>13. c' = y /\ s' = Taken(s) /\ n' = n
  BY <1>11, <1>12, ClientGoesOn
<1>14. Sent12(s', n, FromCertificate(n))
  BY <1>12, <1>13, TakenSent12, Records12 DEF Starts
<1>15. Reading12(y, n) /\ y.pc = "certificate12" /\ y.transcript = Hellos /\ y.flight = 0 /\ y.certReq = FALSE
  BY <1>2, <1>5, <1>6, <1>8, <1>9 DEF Reading12, Client12, HasWire, SameBut, EndFields
<1> QED
  BY <1>13, <1>14, <1>15 DEF ReadsCertificate12

\* readServerCertificate12 leads to the rest of the flight.
LEMMA ReadsServerCertificate12 ==
    ASSUME Going, readServerCertificate12
    PROVE  Setting' = Setting /\ ReadsFlight12(c', s', Setting)
<1> DEFINE n == Setting
           y == [Record(c, "certificate") EXCEPT
                    !.peerCert = IF Body(s) THEN "good" ELSE "unverifiable", !.pc = "flight12"]
<1>1. ReadsCertificate12(c, s, n)
  BY Stages DEF Going, readServerCertificate12, Receives
<1>2. Body(s) = n.server.trusted
  BY <1>1, ClientHears12, Hearing
<1>3. Sent12(s, n, FromCertificate(n)) /\ DOMAIN s = EndFields
  BY <1>1 DEF ReadsCertificate12, Sent12, Server12
<1>4. c' = y /\ s' = Taken(s) /\ n' = n
  BY <1>3, ClientGoesOn DEF readServerCertificate12
<1>5. Sent12(s', n, FromStatus(n))
  BY <1>3, <1>4, TakenSent12, Records12 DEF Starts
<1>6. /\ DOMAIN c = EndFields /\ c.transcript = Hellos /\ Reading12(c, n)
      /\ c.flight = 0 /\ c.certReq = FALSE
  BY <1>1 DEF ReadsCertificate12, Reading12, Client12
<1>7. /\ DOMAIN y = EndFields /\ SameBut(y, c, {"transcript", "peerCert", "pc"})
      /\ y.pc = "flight12" /\ y.transcript = ToCertificate
      /\ y.peerCert = IF n.server.trusted THEN "good" ELSE "unverifiable"
  BY <1>2, <1>6 DEF Record, SameBut, EndFields, ToCertificate
<1> HIDE DEF y
<1>8. Reading12(y, n) /\ y.flight = 0 /\ y.certReq = FALSE
  BY <1>6, <1>7 DEF Reading12, Client12, HasWire, SameBut, EndFields
<1>9. AtFlight(y, s', n, 0, FromStatus(n), ToCertificate)
  BY <1>5, <1>7, <1>8 DEF AtFlight
<1> QED
  BY <1>4, <1>9 DEF ReadsFlight12

\* The place of a message in the flight.
LEMMA FlightIndex ==
    ASSUME NEW i, i = CHOOSE k \in DOMAIN FlightOrder : FlightOrder[k] = Kind(s)
    PROVE  /\ Kind(s) = "certificateStatus" => i = 1
           /\ Kind(s) = "serverKeyExchange" => i = 2
           /\ Kind(s) = "certificateRequest" => i = 3
           /\ Kind(s) = "serverHelloDone" => i = 4
<1>1. /\ DOMAIN FlightOrder = 1 .. 4 /\ FlightOrder[1] = "certificateStatus"
      /\ FlightOrder[2] = "serverKeyExchange" /\ FlightOrder[3] = "certificateRequest"
      /\ FlightOrder[4] = "serverHelloDone"
  BY DEF FlightOrder
<1>2. \A k \in 1 .. 4 : k = 1 \/ k = 2 \/ k = 3 \/ k = 4
  OBVIOUS
<1>3. ASSUME Kind(s) = "certificateStatus" PROVE i = 1
  <2>1. \A k \in DOMAIN FlightOrder : FlightOrder[k] = Kind(s) <=> k = 1
    BY <1>1, <1>2, <1>3
  <2> QED
    BY <1>1, <2>1
<1>4. ASSUME Kind(s) = "serverKeyExchange" PROVE i = 2
  <2>1. \A k \in DOMAIN FlightOrder : FlightOrder[k] = Kind(s) <=> k = 2
    BY <1>1, <1>2, <1>4
  <2> QED
    BY <1>1, <2>1
<1>5. ASSUME Kind(s) = "certificateRequest" PROVE i = 3
  <2>1. \A k \in DOMAIN FlightOrder : FlightOrder[k] = Kind(s) <=> k = 3
    BY <1>1, <1>2, <1>5
  <2> QED
    BY <1>1, <2>1
<1>6. ASSUME Kind(s) = "serverHelloDone" PROVE i = 4
  <2>1. \A k \in DOMAIN FlightOrder : FlightOrder[k] = Kind(s) <=> k = 4
    BY <1>1, <1>2, <1>6
  <2> QED
    BY <1>1, <2>1
<1> QED
  BY <1>3, <1>4, <1>5, <1>6

\* The flight of the client is the one that the server reads.
LEMMA SendsFlight12 ==
    ASSUME NEW n, n = Setting, NEW e, Client12(e, n), HasWire(e, None, TRUE, <<>>, <<>>),
           e.transcript = ToDone(n), Knows(e, n), Server12(s, n)
    PROVE  LET x == ClientFlight12(e) IN
           Waits12(x, n) /\ HasWire(x, KeyOf("client", n), FALSE, <<>>, FromClientCert(n))
<1> DEFINE x == IF e.certReq THEN WriteRecorded(e, "certificate", ccfg.cert) ELSE e
           y == WriteRecorded(x, "clientKeyExchange", None)
           z == [y EXCEPT !.secret = masterSecret(y, e.serverHello.ems), !.ems = e.serverHello.ems]
           v == IF e.certReq /\ ccfg.cert # "none"
                THEN WriteRecorded(z, "certificateVerify", z.transcript) ELSE z
           u == [v EXCEPT !.pending = Key12("server", v)]
           f == flush(sendFinished12(u, "client"))
           whole == FromClientCert(n)
           key == KeyOf("client", n)
<1>1. n.attempt = attempt /\ n.client = ccfg /\ n.server = scfg /\ DOMAIN e = EndFields
  BY SettingIs DEF Client12
<1>2. Emitting(e, None, whole, whole)
  BY NothingMore, EmptySeqs, Flights12 DEF Emitting
<1>3. /\ DOMAIN x = EndFields /\ SameBut(x, e, {"wire", "transcript"})
      /\ Emitting(x, None, whole, FromKey(n)) /\ x.transcript = ToClientCert(n)
  <2>1. CASE Asks(n)
    <3>1. x = WriteRecorded(e, "certificate", n.client.cert)
      BY <1>1, <2>1 DEF Knows
    <3>2. Emitting(e, None, whole, <<Rec("certificate", n.client.cert, None)>> \o FromKey(n))
      BY <1>2, <2>1 DEF FromClientCert, Then
    <3>3. IsSeq(FromKey(n)) /\ ToClientCert(n) = Append(ToDone(n), "certificate")
      BY <2>1, Flights12, Transcripts
    <3> HIDE DEF x, whole
    <3>4. /\ DOMAIN x = EndFields /\ SameBut(x, e, {"wire", "transcript"})
          /\ Emitting(x, None, whole, FromKey(n)) /\ x.transcript = Append(e.transcript, "certificate")
      <4> DEFINE body == n.client.cert
                 w == FromKey(n)
      <4>1. DOMAIN e = EndFields /\ IsSeq(w)
        BY <1>1, <3>3
      <4>2. x = WriteRecorded(e, "certificate", body) /\ Emitting(e, None, whole, <<Rec("certificate", body, None)>> \o w)
        BY <3>1, <3>2
      <4> HIDE DEF body, w
      <4>3. Emitting(x, None, whole, w) /\ DOMAIN x = EndFields /\ SameBut(x, e, {"wire", "transcript"}) /\ x.transcript = Append(e.transcript, "certificate")
        BY <4>1, <4>2, Emits
      <4> QED
        BY <4>3 DEF w
    <3> QED
      BY <3>3, <3>4
  <2>2. CASE ~Asks(n)
    <3>1. x = e
      BY <2>2 DEF Knows
    <3>2. Emitting(e, None, whole, FromKey(n))
      BY <1>2, <2>2 DEF FromClientCert, Then
    <3> QED
      BY <1>1, <2>2, <3>1, <3>2, Transcripts DEF SameBut
  <2> QED
    BY <2>1, <2>2
<1> HIDE DEF x, whole
<1>4. /\ DOMAIN y = EndFields /\ SameBut(y, x, {"wire", "transcript"})
      /\ Emitting(y, None, whole, FromVerify(n)) /\ y.transcript = ToKey(n)
  <2>1. IsSeq(FromVerify(n)) /\ ToKey(n) = Append(ToClientCert(n), "clientKeyExchange")
    BY Flights12, Transcripts
  <2>2. Emitting(x, None, whole, <<Rec("clientKeyExchange", None, None)>> \o FromVerify(n))
    BY <1>3 DEF FromKey
  <2> QED
    BY <1>3, <2>1, <2>2, Emits
<1> HIDE DEF y
<1>5. masterSecret(y, e.serverHello.ems) = Master(n)
  BY <1>1, <1>4 DEF masterSecret, Master, Client12, Server12
<1>6. /\ DOMAIN z = EndFields /\ SameBut(z, y, {"secret", "ems"}) /\ z.secret = Master(n)
      /\ z.transcript = ToKey(n) /\ z.wire = y.wire
  BY <1>4, <1>5 DEF SameBut, EndFields
<1> HIDE DEF z
<1>7. Emitting(z, None, whole, FromVerify(n))
  BY <1>4, <1>6 DEF Emitting, HasWire
<1>8. /\ DOMAIN v = EndFields /\ SameBut(v, z, {"wire", "transcript"})
      /\ Emitting(v, None, whole, FromCCS(n)) /\ v.transcript = ToVerify(n)
  <2>1. CASE Shows(n)
    <3>1. v = WriteRecorded(z, "certificateVerify", ToKey(n))
      BY <1>1, <1>6, <2>1 DEF Knows, Shows
    <3>2. Emitting(z, None, whole, <<Rec("certificateVerify", ToKey(n), None)>> \o FromCCS(n))
      BY <1>7, <2>1 DEF FromVerify, Then
    <3>3. IsSeq(FromCCS(n)) /\ ToVerify(n) = Append(ToKey(n), "certificateVerify")
      BY <2>1, Flights12, Transcripts
    <3> HIDE DEF v
    <3> QED
      BY <1>6, <3>1, <3>2, <3>3, Emits
  <2>2. CASE ~Shows(n)
    <3>1. v = z
      BY <1>1, <2>2 DEF Knows, Shows
    <3>2. Emitting(z, None, whole, FromCCS(n))
      BY <1>7, <2>2 DEF FromVerify, Then
    <3> QED
      BY <1>6, <2>2, <3>1, <3>2, Transcripts DEF SameBut
  <2> QED
    BY <2>1, <2>2
<1> HIDE DEF v
<1>9. v.secret = Master(n)
  BY <1>6, <1>8 DEF SameBut, EndFields
<1>10. Key12("server", v) = KeyOf("server", n)
  BY <1>9 DEF Key12, KeyOf
<1>11. /\ DOMAIN u = EndFields /\ SameBut(u, v, {"pending"}) /\ u.pending = KeyOf("server", n)
       /\ u.transcript = ToVerify(n) /\ u.secret = Master(n) /\ u.wire = v.wire
  BY <1>8, <1>9, <1>10 DEF SameBut, EndFields
<1> HIDE DEF u
<1>12. Emitting(u, None, whole, FromCCS(n)) /\ key = Key12("client", u)
  BY <1>8, <1>11 DEF Emitting, HasWire, Key12, KeyOf
<1>13. FromCCS(n) = <<Rec("changeCipherSpec", None, None)>> \o <<Rec("finished", Proof(key, u.transcript), key)>>
  BY <1>11 DEF FromCCS, ClientFin
<1> HIDE DEF key
<1>14. /\ DOMAIN f = EndFields /\ SameBut(f, u, {"wire", "transcript"})
       /\ f.transcript = Append(u.transcript, "finished") /\ HasWire(f, key, FALSE, <<>>, whole)
  BY <1>11, <1>12, <1>13, Concludes12
<1>15. SameBut(f, e, {"wire", "transcript", "secret", "ems", "pending"})
  BY <1>3, <1>4, <1>6, <1>8, <1>11, <1>14 DEF SameBut
<1> DEFINE r == [f EXCEPT !.pc = IF n.serverHello.tickets THEN "ticket12" ELSE "changeCipherSpec"]
<1>16. ClientFlight12(e) = readSessionTicket(f)
  BY DEF ClientFlight12, x, y, z, v, u, f
<1>17. f.serverHello = n.serverHello /\ f.hello = Offer(n) /\ f.session = None /\ f.in = None
  BY <1>15 DEF SameBut, EndFields, Client12
<1>18. f.secret = Master(n) /\ f.pending = KeyOf("server", n) /\ f.transcript = ToFinished(n)
  BY <1>11, <1>14, Transcripts DEF SameBut, EndFields
<1> HIDE DEF f
<1>19. ClientFlight12(e) = r
  <2>1. n.serverHello.tickets => f.hello.tickets
    BY <1>17, OfferFields DEF Server12
  <2> QED
    BY <1>16, <1>17, <2>1 DEF readSessionTicket
<1>20. /\ DOMAIN r = EndFields /\ SameBut(r, f, {"pc"})
       /\ r.pc = IF n.serverHello.tickets THEN "ticket12" ELSE "changeCipherSpec"
  BY <1>14 DEF SameBut, EndFields
<1> HIDE DEF r
<1>21. Waits12(r, n)
  BY <1>17, <1>18, <1>20 DEF Waits12, Client12, SameBut, EndFields
<1>22. HasWire(r, key, FALSE, <<>>, whole)
  BY <1>14, <1>20 DEF HasWire, SameBut, EndFields
<1> QED
  BY <1>19, <1>21, <1>22 DEF key, whole

\* What holds in the middle of the flight.
LEMMA FlightGoesOn ==
    ASSUME NEW n, NEW k, NEW q, NEW t, AtFlight(c, s, n, k, q, t), n = Setting
    PROVE  /\ DOMAIN c = EndFields /\ DOMAIN s = EndFields /\ Sent12(s, n, q) /\ Client12(c, n)
           /\ HasWire(c, None, TRUE, <<>>, <<>>) /\ c.echRejected = FALSE /\ c.pc = "flight12"
           /\ c.transcript = t /\ c.serverHello = n.serverHello
           /\ c.peerCert = IF scfg.trusted THEN "good" ELSE "unverifiable"
BY SettingIs DEF AtFlight, Reading12, Client12, Sent12, Server12

\* readServerFlight12 reads on, or answers with the flight of the client.
LEMMA ReadsServerFlight12 ==
    ASSUME Going, readServerFlight12
    PROVE  Setting' = Setting /\ Full12(c', s', Setting)
<1> DEFINE n == Setting
           i == CHOOSE k \in DOMAIN FlightOrder : FlightOrder[k] = Kind(s)
           verifies == c.flight <= 1 /\ i > 1
           x == [Record(c, Kind(s)) EXCEPT
                    !.flight = i, !.certReq = @ \/ Kind(s) = "certificateRequest",
                    !.verified = @ \/ (verifies /\ MustVerify(c))]
           y == IF Kind(s) = "serverHelloDone" THEN ClientFlight12(x) ELSE x
<1>1. FlightCases(c, s, n)
  BY Stages, FlightPlaces DEF Going, readServerFlight12, Receives
<1>2. \E k, q, t : AtFlight(c, s, n, k, q, t)
  BY <1>1 DEF FlightCases
<1>3. /\ DOMAIN c = EndFields /\ DOMAIN s = EndFields /\ c.echRejected = FALSE /\ c.pc = "flight12"
      /\ c.serverHello = n.serverHello
      /\ c.peerCert = IF scfg.trusted THEN "good" ELSE "unverifiable"
  BY <1>2, FlightGoesOn
<1>4. ~(MustVerify(c) /\ c.peerCert # "good")
  BY <1>3 DEF Going, Fine, Compatible, MustVerify
<1>5. ClientStep(IF i <= c.flight \/ (Kind(s) = "certificateStatus" /\ ~c.serverHello.staple)
                 THEN Failed(c, "unexpected_message") ELSE y)
  BY <1>4 DEF readServerFlight12
<1>6. ASSUME i > c.flight, ~(Kind(s) = "certificateStatus" /\ ~c.serverHello.staple), i \in Nat, c.flight \in Nat
      PROVE  c' = y /\ s' = Taken(s) /\ n' = n
  BY <1>3, <1>5, <1>6, ClientGoesOn
<1>7. /\ DOMAIN x = EndFields /\ SameBut(x, c, {"transcript", "flight", "certReq", "verified"})
      /\ x.transcript = Append(c.transcript, Kind(s)) /\ x.flight = i
      /\ x.certReq = (c.certReq \/ Kind(s) = "certificateRequest")
  BY <1>3 DEF Record, SameBut, EndFields
<1>8. /\ Kind(s) = "certificateStatus" => i = 1
      /\ Kind(s) = "serverKeyExchange" => i = 2
      /\ Kind(s) = "certificateRequest" => i = 3
      /\ Kind(s) = "serverHelloDone" => i = 4
  BY FlightIndex
<1> HIDE DEF i, x
<1>9. /\ Reading12(x, n) /\ x.pc = "flight12"
      /\ x.peerCert = IF n.server.trusted THEN "good" ELSE "unverifiable"
  <2>1. Reading12(c, n)
    BY <1>2 DEF AtFlight
  <2>2. Reading12(x, n)
    BY <1>7, <2>1 DEF Reading12, Client12, HasWire, SameBut, EndFields
  <2> QED
    BY <1>3, <1>7, <2>2, SettingIs DEF SameBut, EndFields
<1>10. CASE n.serverHello.staple /\ AtFlight(c, s, n, 0, FromStatus(n), ToCertificate)
  <2>1. Kind(s) = "certificateStatus"
    BY <1>10, FlightHears, Hearing
  <2>2. c.flight = 0 /\ c.certReq = FALSE /\ c.transcript = ToCertificate
    BY <1>10 DEF AtFlight
  <2>3. c' = x /\ s' = Taken(s) /\ n' = n
    BY <1>3, <1>6, <1>8, <1>10, <2>1, <2>2
  <2>4. Sent12(s', n, FromExchange(n))
    <3>1. Sent12(s, n, FromStatus(n))
      BY <1>10 DEF AtFlight
    <3> QED
      BY <1>10, <2>3, <3>1, TakenSent12, Records12 DEF Starts
  <2>5. x.certReq = FALSE /\ x.flight = 1 /\ x.transcript = ToStatus(n)
    BY <1>7, <1>8, <1>10, <2>1, <2>2, Transcripts DEF SameBut, EndFields
  <2>6. AtFlight(x, s', n, 1, FromExchange(n), ToStatus(n))
    BY <1>9, <2>4, <2>5 DEF AtFlight
  <2> QED
    BY <2>3, <2>6 DEF Full12, ReadsFlight12
<1>11. CASE n.suite # "rsa" /\ AtFlight(c, s, n, 1, FromExchange(n), ToStatus(n))
  <2>1. Kind(s) = "serverKeyExchange"
    BY <1>11, FlightHears, Hearing
  <2>2. c.flight \in 0 .. 1 /\ c.certReq = FALSE /\ c.transcript = ToStatus(n)
    BY <1>11 DEF AtFlight
  <2>3. c' = x /\ s' = Taken(s) /\ n' = n
    BY <1>3, <1>6, <1>8, <2>1, <2>2
  <2>4. Sent12(s', n, FromRequest(n))
    <3>1. Sent12(s, n, FromExchange(n))
      BY <1>11 DEF AtFlight
    <3> QED
      BY <1>11, <2>3, <3>1, TakenSent12, Records12 DEF Starts
  <2>5. x.certReq = FALSE /\ x.flight = 2 /\ x.transcript = ToExchange(n)
    BY <1>7, <1>8, <1>11, <2>1, <2>2, Transcripts DEF SameBut, EndFields
  <2>6. AtFlight(x, s', n, 2, FromRequest(n), ToExchange(n))
    BY <1>9, <2>4, <2>5 DEF AtFlight
  <2> QED
    BY <2>3, <2>6 DEF Full12, ReadsFlight12
<1>12. CASE Asks(n) /\ AtFlight(c, s, n, 2, FromRequest(n), ToExchange(n))
  <2>1. Kind(s) = "certificateRequest"
    BY <1>12, FlightHears, Hearing
  <2>2. c.flight \in 0 .. 2 /\ c.certReq = FALSE /\ c.transcript = ToExchange(n)
    BY <1>12 DEF AtFlight
  <2>3. c' = x /\ s' = Taken(s) /\ n' = n
    BY <1>3, <1>6, <1>8, <2>1, <2>2
  <2>4. Sent12(s', n, HelloDone)
    <3>1. Sent12(s, n, FromRequest(n))
      BY <1>12 DEF AtFlight
    <3> QED
      BY <1>12, <2>3, <3>1, TakenSent12, Records12 DEF Starts
  <2>5. x.certReq = TRUE /\ x.flight = 3 /\ x.transcript = ToRequest(n)
    BY <1>7, <1>8, <1>12, <2>1, <2>2, Transcripts DEF SameBut, EndFields
  <2>6. AtFlight(x, s', n, 3, HelloDone, ToRequest(n))
    <3>1. Knows(x, n)
      BY <1>12, <2>5 DEF Knows
    <3> QED
      BY <1>9, <2>4, <2>5, <3>1 DEF AtFlight
  <2> QED
    BY <2>3, <2>6 DEF Full12, ReadsFlight12
<1>13. CASE AtFlight(c, s, n, 3, HelloDone, ToRequest(n))
  <2>1. Kind(s) = "serverHelloDone"
    BY <1>13, FlightHears, Hearing
  <2>2. c.flight \in 0 .. 3 /\ Knows(c, n) /\ c.transcript = ToRequest(n)
    BY <1>13 DEF AtFlight
  <2>3. c' = ClientFlight12(x) /\ s' = Taken(s) /\ n' = n
    BY <1>3, <1>6, <1>8, <2>1, <2>2
  <2>4. Sent12(s', n, <<>>) /\ Server12(s, n)
    <3>1. Sent12(s, n, HelloDone)
      BY <1>13 DEF AtFlight
    <3>2. Tail(HelloDone) = <<>>
      BY Records12 DEF Starts
    <3>3. Sent12(s', n, <<>>)
      BY <2>3, <3>1, <3>2, TakenSent12
    <3> QED
      BY <3>1, <3>3 DEF Sent12
  <2>5. Knows(x, n) /\ x.transcript = ToDone(n)
    BY <1>7, <2>1, <2>2, Transcripts DEF Knows
  <2>6. Client12(x, n) /\ HasWire(x, None, TRUE, <<>>, <<>>)
    BY <1>9 DEF Reading12, Client12
  <2>7. Waits12(c', n) /\ HasWire(c', KeyOf("client", n), FALSE, <<>>, FromClientCert(n))
    BY <2>3, <2>4, <2>5, <2>6, SendsFlight12
  <2>8. Waits12(c', n)
    BY <2>7 DEF Waits12, Client12
  <2>9. Serves12(c', s', n, FromClientCert(n))
    BY <2>4, <2>7, <2>8 DEF Serves12, Sent12
  <2>10. CASE Asks(n)
    BY <2>3, <2>4, <2>9, <2>10 DEF Full12, ServesCertificate12, Sent12
  <2>11. CASE ~Asks(n)
    <3>1. FromClientCert(n) = FromKey(n) /\ ToClientCert(n) = ToDone(n)
      BY <2>11, Records12, Transcripts
    <3> QED
      BY <2>3, <2>4, <2>9, <2>11, <3>1 DEF Full12, ServesKey12, Sent12
  <2> QED
    BY <2>10, <2>11
<1> QED
  BY <1>1, <1>10, <1>11, <1>12, <1>13 DEF FlightCases

\* readNewSessionTicket12 leads to the ChangeCipherSpec,
LEMMA ReadsTicket12 ==
    ASSUME Going, readNewSessionTicket12
    PROVE  Setting' = Setting /\ TakesCCS12(c', s', Setting)
<1> DEFINE n == Setting
           y == [Record(c, "newSessionTicket") EXCEPT !.ticket = Body(s), !.pc = "changeCipherSpec"]
<1>1. TakesTicket12(c, s, n)
  BY Stages DEF Going, readNewSessionTicket12, Receives
<1>2. PICK b : Closes12(c, s, n, <<Rec("newSessionTicket", b, None)>> \o FromServerCCS(n))
  BY <1>1 DEF TakesTicket12
<1>3. DOMAIN s = EndFields /\ DOMAIN c = EndFields
  BY <1>2 DEF Closes12
<1>4. c' = y /\ s' = Taken(s) /\ n' = n
  BY <1>3, ClientGoesOn DEF readNewSessionTicket12
<1>5. Tail(<<Rec("newSessionTicket", b, None)>> \o FromServerCCS(n)) = FromServerCCS(n)
  BY HeadThen, Flights12
<1>6. /\ DOMAIN s' = EndFields /\ SameBut(s', s, {"wire"})
      /\ HasWire(s', KeyOf("server", n), FALSE, <<>>, FromServerCCS(n))
  BY <1>2, <1>3, <1>4, <1>5, Rewires DEF Closes12
<1>7. /\ DOMAIN y = EndFields /\ SameBut(y, c, {"transcript", "ticket", "pc"})
      /\ y.pc = "changeCipherSpec" /\ y.transcript = Append(c.transcript, "newSessionTicket")
  BY <1>3 DEF Record, SameBut, EndFields
<1> HIDE DEF y
<1>8. /\ c.transcript = ToFinished(n) /\ n.serverHello.tickets /\ c.pending = KeyOf("server", n)
      /\ c.in = None /\ c.session = None /\ c.wire.sent = <<>> /\ s.pc = "done"
  BY <1>1, <1>2 DEF TakesTicket12, Waits12, Client12, Closes12
<1>9. y.transcript = ToTicket(n)
  BY <1>7, <1>8, Transcripts
<1>10. Closes12(y, s', n, FromServerCCS(n))
  BY <1>6, <1>7, <1>8 DEF Closes12, SameBut, EndFields
<1> QED
  BY <1>4, <1>7, <1>8, <1>9, <1>10 DEF TakesCCS12, SameBut, EndFields

\* readServerCCS to the Finished message,
LEMMA ReadsServerCCS ==
    ASSUME Going, readServerCCS
    PROVE  Setting' = Setting /\ TakesFinished12(c', s', Setting)
<1> DEFINE n == Setting
           y == [c EXCEPT !.in = c.pending, !.pc = "finished12"]
<1>1. TakesCCS12(c, s, n)
  BY Stages DEF Going, readServerCCS, Receives
<1>2. /\ DOMAIN s = EndFields /\ DOMAIN c = EndFields /\ s.pc = "done" /\ c.session = None
      /\ c.wire.sent = <<>> /\ c.pending = KeyOf("server", n) /\ c.transcript = ToTicket(n)
      /\ HasWire(s, KeyOf("server", n), FALSE, <<>>, FromServerCCS(n))
  BY <1>1 DEF TakesCCS12, Closes12
<1>3. c' = y /\ s' = Taken(s) /\ n' = n
  BY <1>2, ClientGoesOn DEF readServerCCS
<1>4. Tail(FromServerCCS(n)) = ServerFin(n)
  BY Records12 DEF Starts
<1>5. /\ DOMAIN s' = EndFields /\ SameBut(s', s, {"wire"})
      /\ HasWire(s', KeyOf("server", n), FALSE, <<>>, ServerFin(n))
  BY <1>2, <1>3, <1>4, Rewires
<1>6. /\ DOMAIN y = EndFields /\ SameBut(y, c, {"in", "pc"})
      /\ y.pc = "finished12" /\ y.in = KeyOf("server", n)
  BY <1>2 DEF SameBut, EndFields
<1> HIDE DEF y
<1> QED
  BY <1>2, <1>3, <1>5, <1>6 DEF TakesFinished12, Closes12, SameBut, EndFields

\* and readServerFinished12 to the end of the handshake.
LEMMA ReadsServerFinished12 ==
    ASSUME Going, readServerFinished12
    PROVE  Setting' = Setting /\ Full(c', s', Setting)
<1> DEFINE n == Setting
           x == Record(c, "finished")
<1>1. TakesFinished12(c, s, n)
  BY Stages DEF Going, readServerFinished12, Receives
<1>2. Body(s) = Proof(KeyOf("server", n), ToTicket(n))
  BY <1>1, ClientHears12, Hearing
<1>3. /\ DOMAIN s = EndFields /\ DOMAIN c = EndFields /\ s.pc = "done" /\ c.session = None
      /\ c.in = KeyOf("server", n) /\ c.transcript = ToTicket(n)
  BY <1>1 DEF TakesFinished12, Closes12
<1>4. Body(s) = Verify(c.in, c) /\ ~serverResumedSession(c)
  BY <1>2, <1>3 DEF Verify, Proof, serverResumedSession
<1>5. c' = Done(x) /\ s' = Taken(s) /\ n' = n /\ SameBut(s', s, {"wire"})
  BY <1>3, <1>4, ClientGoesOn DEF readServerFinished12
<1>6. Done(x).pc = "done" /\ Done(x).session = None
  BY <1>3 DEF Done, Record, EndFields
<1> QED
  BY <1>3, <1>5, <1>6 DEF Full, SameBut, EndFields
-----------------------------------------------------------------------------
(* The steps of the server of TLS 1.2, after its flight *)

\* The server has read one record of the flight of the client.
LEMMA TakenServes12 ==
    ASSUME NEW e, NEW p, NEW n, NEW q, Serves12(e, p, n, q)
    PROVE  /\ DOMAIN e = EndFields /\ DOMAIN p = EndFields /\ Server12(p, n)
           /\ HasWire(p, None, FALSE, <<>>, <<>>)
           /\ Waits12(Taken(e), n) /\ HasWire(Taken(e), KeyOf("client", n), FALSE, <<>>, Tail(q))
<1>1. /\ DOMAIN e = EndFields /\ DOMAIN p = EndFields /\ Server12(p, n)
      /\ HasWire(p, None, FALSE, <<>>, <<>>) /\ Waits12(e, n)
      /\ HasWire(e, KeyOf("client", n), FALSE, <<>>, q)
  BY DEF Serves12, Server12, Waits12, Client12
<1>2. /\ DOMAIN Taken(e) = EndFields /\ SameBut(Taken(e), e, {"wire"})
      /\ HasWire(Taken(e), KeyOf("client", n), FALSE, <<>>, Tail(q))
  BY <1>1, Rewires
<1>3. Waits12(Taken(e), n)
  BY <1>1, <1>2 DEF Waits12, Client12, SameBut, EndFields
<1> QED
  BY <1>1, <1>2, <1>3

\* The server that goes on without writing, and keeps what it answered.
Proceeds(x, n) ==
    /\ DOMAIN x = EndFields
    /\ x.hello = s.hello /\ x.serverHello = s.serverHello /\ x.suite = s.suite /\ x.alpn = s.alpn
    /\ x.vers = s.vers /\ x.session = s.session

\* It goes on with the next one.
LEMMA ServesOn12 ==
    ASSUME NEW n, n = Setting, NEW q, Serves12(c, s, n, q), NEW x, ServerStep(x), Proceeds(x, n), x.wire = s.wire
    PROVE  s' = x /\ Setting' = n /\ Serves12(c', s', n, Tail(q))
<1>1. s' = x /\ c' = Taken(c) /\ UNCHANGED config
  BY DEF ServerStep
<1>2. Setting' = n
  BY <1>1, SettingStays DEF Proceeds
<1>3. Server12(s', n) /\ HasWire(s', None, FALSE, <<>>, <<>>)
  <2>1. Server12(s, n) /\ HasWire(s, None, FALSE, <<>>, <<>>)
    BY TakenServes12
  <2> QED
    BY <1>1, <2>1 DEF Proceeds, Server12, HasWire
<1> QED
  BY <1>1, <1>2, <1>3, TakenServes12 DEF Serves12

\* The certificate that the client has, or has not, is one the server accepts.
LEMMA CertAccepted ==
    ASSUME Fine, NEW v
    PROVE  processCertsFromClient(v, ccfg.cert) = None
<1>1. \E w : processCertsFromClient(w, ccfg.cert) = None
  BY DEF Fine, Compatible
<1>2. /\ ~(ccfg.cert = "none" /\ requiresClientCert(scfg.clientAuth))
      /\ ~(ccfg.cert = "unverifiable" /\ scfg.clientAuth >= VerifyClientCertIfGiven)
  BY <1>1, NoneAssumption DEF processCertsFromClient
<1> QED
  BY <1>2 DEF processCertsFromClient

\* readClientCertificate12 leads to the key exchange,
LEMMA ReadsClientCertificate12 ==
    ASSUME Going, readClientCertificate12
    PROVE  Setting' = Setting /\ ServesKey12(c', s', Setting)
<1> DEFINE n == Setting
           y == [TakesCert(s, ccfg.cert) EXCEPT !.pc = "clientKeyExchange"]
<1>1. ServesCertificate12(c, s, n)
  BY Stages DEF Going, readClientCertificate12, Receives
<1>2. Body(c) = ccfg.cert /\ n.client = ccfg
  <2>1. Hears(s, c, "certificate", n.client.cert)
    BY <1>1, ServerHears
  <2> QED
    BY <2>1, Hearing, SettingIs
<1>3. ServerStep(y)
  BY <1>2, CertAccepted DEF readClientCertificate12, Going
<1>4. /\ Serves12(c, s, n, FromClientCert(n)) /\ Asks(n) /\ s.transcript = ToDone(n) /\ s.in = None
      /\ DOMAIN s = EndFields
  BY <1>1, TakenServes12 DEF ServesCertificate12
<1>5. /\ DOMAIN y = EndFields /\ SameBut(y, s, {"transcript", "peerCert", "verified", "pc"})
      /\ y.pc = "clientKeyExchange" /\ y.peerCert = ccfg.cert
      /\ y.transcript = Append(s.transcript, "certificate")
  BY <1>4 DEF TakesCert, Record, SameBut, EndFields
<1> HIDE DEF y
<1>6. Proceeds(y, n) /\ y.wire = s.wire /\ y.in = None
  BY <1>4, <1>5 DEF Proceeds, SameBut, EndFields
<1>7. s' = y /\ n' = n /\ Serves12(c', s', n, Tail(FromClientCert(n)))
  BY <1>3, <1>4, <1>6, ServesOn12
<1>8. Tail(FromClientCert(n)) = FromKey(n) /\ ToClientCert(n) = Append(ToDone(n), "certificate")
  BY <1>4, Records12, Transcripts DEF Starts
<1> QED
  BY <1>2, <1>4, <1>5, <1>6, <1>7, <1>8 DEF ServesKey12

\* readClientKeyExchange to the CertificateVerify, or to the ChangeCipherSpec,
LEMMA ReadsClientKeyExchange ==
    ASSUME Going, readClientKeyExchange
    PROVE  Setting' = Setting /\ Full12(c', s', Setting)
<1> DEFINE n == Setting
           x == Record(s, "clientKeyExchange")
           y == [x EXCEPT !.secret = masterSecret(x, s.hello.ems), !.ems = s.hello.ems]
           z == [y EXCEPT !.pending = Key12("client", y),
                          !.pc = IF s.peerCert # "none" THEN "clientVerify12" ELSE "clientCCS"]
<1>1. ServesKey12(c, s, n)
  BY Stages DEF Going, readClientKeyExchange, Receives
<1>2. ServerStep(z)
  BY DEF readClientKeyExchange
<1>3. /\ Serves12(c, s, n, FromKey(n)) /\ s.transcript = ToClientCert(n) /\ s.in = None
      /\ DOMAIN s = EndFields /\ s.peerCert = IF Asks(n) THEN n.client.cert ELSE "none"
  BY <1>1, TakenServes12 DEF ServesKey12
<1>4. n.attempt = attempt /\ n.hello = s.hello
  BY SettingIs
<1>5. /\ DOMAIN x = EndFields /\ SameBut(x, s, {"transcript"})
      /\ x.transcript = Append(s.transcript, "clientKeyExchange")
  BY <1>3 DEF Record, SameBut, EndFields
<1> HIDE DEF x
<1>6. x.transcript = ToKey(n)
  BY <1>3, <1>5, Transcripts
<1>7. masterSecret(x, s.hello.ems) = Master(n)
  BY <1>4, <1>6 DEF masterSecret, Master
<1>8. /\ DOMAIN y = EndFields /\ SameBut(y, x, {"secret", "ems"}) /\ y.secret = Master(n)
  BY <1>5, <1>7 DEF SameBut, EndFields
<1> HIDE DEF y
<1>9. Key12("client", y) = KeyOf("client", n)
  BY <1>8 DEF Key12, KeyOf
<1>10. /\ DOMAIN z = EndFields /\ SameBut(z, y, {"pending", "pc"}) /\ z.pending = KeyOf("client", n)
       /\ z.pc = IF s.peerCert # "none" THEN "clientVerify12" ELSE "clientCCS"
  BY <1>8, <1>9 DEF SameBut, EndFields
<1> HIDE DEF z
<1>11. /\ Proceeds(z, n) /\ z.wire = s.wire /\ z.in = None /\ Keyed(z, n) /\ z.transcript = ToKey(n)
  BY <1>3, <1>5, <1>6, <1>8, <1>10 DEF Proceeds, Keyed, SameBut, EndFields
<1>12. s' = z /\ n' = n /\ Serves12(c', s', n, Tail(FromKey(n)))
  BY <1>2, <1>3, <1>11, ServesOn12
<1>13. Tail(FromKey(n)) = FromVerify(n)
  BY Records12 DEF Starts
<1>14. CASE Shows(n)
  <2>1. z.pc = "clientVerify12"
    BY <1>3, <1>10, <1>14 DEF Shows
  <2> QED
    BY <1>11, <1>12, <1>13, <1>14, <2>1 DEF Full12, ServesVerify12
<1>15. CASE ~Shows(n)
  <2>1. z.pc = "clientCCS"
    BY <1>3, <1>10, <1>15 DEF Shows
  <2>2. FromVerify(n) = FromCCS(n) /\ ToVerify(n) = ToKey(n)
    BY <1>15, Records12, Transcripts
  <2> QED
    BY <1>11, <1>12, <1>13, <2>1, <2>2 DEF Full12, ServesCCS12
<1> QED
  BY <1>14, <1>15

\* readCertificateVerify12 to the ChangeCipherSpec,
LEMMA ReadsCertificateVerify12 ==
    ASSUME Going, readCertificateVerify12
    PROVE  Setting' = Setting /\ ServesCCS12(c', s', Setting)
<1> DEFINE n == Setting
           y == [Record(s, "certificateVerify") EXCEPT !.pc = "clientCCS"]
<1>1. ServesVerify12(c, s, n)
  BY Stages DEF Going, readCertificateVerify12, Receives
<1>2. Body(c) = ToKey(n)
  BY <1>1, ServerHears, Hearing
<1>3. /\ Serves12(c, s, n, FromVerify(n)) /\ Shows(n) /\ s.transcript = ToKey(n) /\ s.in = None
      /\ DOMAIN s = EndFields /\ Keyed(s, n)
  BY <1>1, TakenServes12 DEF ServesVerify12
<1>4. ServerStep(y)
  BY <1>2, <1>3 DEF readCertificateVerify12
<1>5. /\ DOMAIN y = EndFields /\ SameBut(y, s, {"transcript", "pc"})
      /\ y.pc = "clientCCS" /\ y.transcript = Append(s.transcript, "certificateVerify")
  BY <1>3 DEF Record, SameBut, EndFields
<1> HIDE DEF y
<1>6. Proceeds(y, n) /\ y.wire = s.wire /\ y.in = None /\ Keyed(y, n)
  BY <1>3, <1>5 DEF Proceeds, Keyed, SameBut, EndFields
<1>7. s' = y /\ n' = n /\ Serves12(c', s', n, Tail(FromVerify(n)))
  BY <1>3, <1>4, <1>6, ServesOn12
<1>8. Tail(FromVerify(n)) = FromCCS(n) /\ ToVerify(n) = Append(ToKey(n), "certificateVerify")
  BY <1>3, Records12, Transcripts DEF Starts
<1> QED
  BY <1>3, <1>5, <1>6, <1>7, <1>8 DEF ServesCCS12

\* and readClientCCS to the Finished message.
LEMMA ReadsClientCCS ==
    ASSUME Going, readClientCCS
    PROVE  Setting' = Setting /\ ServesFinished12(c', s', Setting)
<1> DEFINE n == Setting
           y == [s EXCEPT !.in = s.pending, !.pc = "clientFinished12"]
<1>1. ServesCCS12(c, s, n)
  BY Stages DEF Going, readClientCCS, Receives
<1>2. /\ Serves12(c, s, n, FromCCS(n)) /\ s.transcript = ToVerify(n)
      /\ DOMAIN s = EndFields /\ Keyed(s, n)
  BY <1>1, TakenServes12 DEF ServesCCS12
<1>3. ServerStep(y)
  BY DEF readClientCCS
<1>4. /\ DOMAIN y = EndFields /\ SameBut(y, s, {"in", "pc"})
      /\ y.pc = "clientFinished12" /\ y.in = KeyOf("client", n)
  BY <1>2 DEF SameBut, EndFields, Keyed
<1> HIDE DEF y
<1>5. Proceeds(y, n) /\ y.wire = s.wire /\ Keyed(y, n) /\ y.transcript = ToVerify(n)
  BY <1>2, <1>4 DEF Proceeds, Keyed, SameBut, EndFields
<1>6. s' = y /\ n' = n /\ Serves12(c', s', n, Tail(FromCCS(n)))
  BY <1>2, <1>3, <1>5, ServesOn12
<1>7. Tail(FromCCS(n)) = ClientFin(n)
  BY Records12 DEF Starts
<1> QED
  BY <1>4, <1>5, <1>6, <1>7 DEF ServesFinished12

\* The last flight of the server is the one that the client reads.
LEMMA ReadsClientFinished12 ==
    ASSUME Going, readClientFinished12
    PROVE  Setting' = Setting /\ Full12(c', s', Setting)
<1> DEFINE n == Setting
           x == Record(s, "finished")
           y == Buffer(x)
           z == sendSessionTicket12(y)
           f == flush(sendFinished12(z, "server"))
           key == KeyOf("server", n)
<1>1. ServesFinished12(c, s, n)
  BY Stages DEF Going, readClientFinished12, Receives
<1>2. Body(c) = Proof(KeyOf("client", n), ToVerify(n))
  <2>1. Hears(s, c, "finished", Proof(KeyOf("client", n), ToVerify(n)))
    BY <1>1, ServerHears
  <2> QED
    BY <2>1, Hearing
<1>3. /\ Serves12(c, s, n, ClientFin(n)) /\ s.transcript = ToVerify(n) /\ s.in = KeyOf("client", n)
      /\ DOMAIN s = EndFields /\ DOMAIN c = EndFields /\ Keyed(s, n) /\ s.session = None
      /\ HasWire(s, None, FALSE, <<>>, <<>>)
  BY <1>1, TakenServes12 DEF ServesFinished12, Server12
<1>4. Body(c) = Verify(s.in, s)
  BY <1>2, <1>3 DEF Verify, Proof
<1>5. ServerStep(Done(f))
  BY <1>3, <1>4 DEF readClientFinished12
<1>6. /\ DOMAIN x = EndFields /\ SameBut(x, s, {"transcript"})
      /\ x.transcript = ToFinished(n) /\ HasWire(x, None, FALSE, <<>>, <<>>)
  BY <1>3, Transcripts DEF Record, SameBut, EndFields, HasWire
<1> HIDE DEF x
<1>7. DOMAIN y = EndFields /\ SameBut(y, x, {"wire"}) /\ HasWire(y, None, TRUE, <<>>, <<>>)
  BY <1>6, Rewires
<1> HIDE DEF y
<1>8. /\ SameBut(y, s, {"wire", "transcript"}) /\ y.transcript = ToFinished(n)
      /\ y.serverHello = n.serverHello
  BY <1>6, <1>7, SettingIs DEF SameBut, EndFields
<1>9. PICK whole :
        /\ IF n.serverHello.tickets
           THEN \E b : whole = <<Rec("newSessionTicket", b, None)>> \o FromServerCCS(n)
           ELSE whole = FromServerCCS(n)
        /\ DOMAIN z = EndFields /\ SameBut(z, s, {"wire", "transcript"}) /\ z.transcript = ToTicket(n)
        /\ Emitting(z, None, whole, FromServerCCS(n))
  <2> DEFINE w == FromServerCCS(n)
  <2>1. IsSeq(w)
    BY Flights12
  <2>2. CASE n.serverHello.tickets
    <3>1. PICK b : z = WriteRecorded(y, "newSessionTicket", b)
      BY <1>8, <2>2 DEF sendSessionTicket12
    <3> DEFINE whole == <<Rec("newSessionTicket", b, None)>> \o w
    <3>2. IsSeq(whole)
      BY <2>1, HeadThen
    <3>3. Emitting(y, None, whole, whole)
      BY <1>7, <3>2, NothingMore, EmptySeqs DEF Emitting
    <3> HIDE DEF w, z
    <3>4. /\ DOMAIN z = EndFields /\ SameBut(z, y, {"wire", "transcript"})
          /\ z.transcript = Append(y.transcript, "newSessionTicket") /\ Emitting(z, None, whole, w)
      BY <1>7, <2>1, <3>1, <3>3, Emits
    <3>5. z.transcript = ToTicket(n)
      BY <1>8, <2>2, <3>4, Transcripts
    <3>6. SameBut(z, s, {"wire", "transcript"})
      BY <1>8, <3>4 DEF SameBut
    <3> QED
      BY <2>2, <3>4, <3>5, <3>6 DEF w
  <2>3. CASE ~n.serverHello.tickets
    <3>1. z = y
      BY <1>8, <2>3 DEF sendSessionTicket12
    <3>2. Emitting(y, None, w, w)
      BY <1>7, <2>1, NothingMore, EmptySeqs DEF Emitting
    <3>3. ToTicket(n) = ToFinished(n)
      BY <2>3, Transcripts
    <3> QED
      BY <1>7, <1>8, <2>3, <3>1, <3>2, <3>3
  <2> QED
    BY <2>2, <2>3
<1> HIDE DEF z
<1>10. key = Key12("server", z)
  BY <1>3, <1>9 DEF Key12, KeyOf, Keyed, SameBut, EndFields
<1>11. FromServerCCS(n) = <<Rec("changeCipherSpec", None, None)>> \o <<Rec("finished", Proof(key, z.transcript), key)>>
  BY <1>9 DEF FromServerCCS, ServerFin
<1> HIDE DEF key
<1>12. /\ DOMAIN f = EndFields /\ SameBut(f, z, {"wire", "transcript"}) /\ HasWire(f, key, FALSE, <<>>, whole)
  BY <1>9, <1>10, <1>11, Concludes12
<1> HIDE DEF f
<1>13. SameBut(f, s, {"wire", "transcript"})
  BY <1>9, <1>12 DEF SameBut
<1>14. DOMAIN Done(f) = EndFields /\ SameBut(Done(f), f, {"pc"}) /\ Done(f).pc = "done"
  BY <1>12 DEF Done, SameBut, EndFields
<1>15. s' = Done(f) /\ c' = Taken(c) /\ UNCHANGED config
  BY <1>5 DEF ServerStep
<1>16. n' = n
  BY <1>13, <1>14, <1>15, SettingStays DEF SameBut, EndFields
<1>17. Waits12(c', n) /\ HasWire(c', KeyOf("client", n), FALSE, <<>>, <<>>)
  BY <1>3, <1>15, TakenServes12, Records12 DEF Starts
<1>18. Closes12(c', s', n, whole)
  BY <1>12, <1>14, <1>15, <1>17 DEF Closes12, Waits12, Client12, HasWire, SameBut, EndFields, key
<1>19. CASE n.serverHello.tickets
  BY <1>9, <1>16, <1>17, <1>18, <1>19 DEF Full12, TakesTicket12
<1>20. CASE ~n.serverHello.tickets
  <2>1. ToTicket(n) = ToFinished(n)
    BY <1>20, Transcripts
  <2> QED
    BY <1>9, <1>16, <1>17, <1>18, <1>20, <2>1 DEF Full12, TakesCCS12, Waits12, Client12
<1> QED
  BY <1>19, <1>20
-----------------------------------------------------------------------------
(* The steps of the client of TLS 1.3 *)

\* The client has read one record of the flight.
LEMMA TakenSent13 ==
    ASSUME NEW p, NEW n, NEW q, Sent13(p, n, q)
    PROVE  DOMAIN p = EndFields /\ Server13(p, n) /\ Sent13(Taken(p), n, Tail(q))
<1>1. /\ DOMAIN p = EndFields /\ Server13(p, n) /\ DOMAIN p.wire = WireFields /\ p.wire.sent = q
  BY DEF Sent13, Server13
<1>2. DOMAIN Taken(p) = EndFields /\ SameBut(Taken(p), p, {"wire"}) /\ Taken(p).wire.sent = Tail(q)
  BY <1>1, TakenSame
<1>3. DOMAIN Taken(p).wire = WireFields
  BY <1>1 DEF Taken, EndFields
<1>4. Server13(Taken(p), n)
  BY <1>1, <1>2 DEF Server13, SameBut, EndFields
<1> QED
  BY <1>1, <1>2, <1>3, <1>4 DEF Sent13, SameBut, EndFields

\* What is left of the flight of the server.
LEMMA Tails13 ==
    ASSUME NEW n, NEW rest, IsSeq(rest)
    PROVE  /\ Tail(From13Hello(n, rest)) = From13Extensions(n, rest)
           /\ Tail(From13Extensions(n, rest)) = From13Request(n, rest)
           /\ Asks(n) => Tail(From13Request(n, rest)) = From13Certificate(n, rest)
           /\ Tail(From13Certificate(n, rest)) = From13Verify(n, rest)
           /\ Tail(From13Verify(n, rest)) = From13Finished(n, rest)
           /\ Tail(From13Finished(n, rest)) = rest
BY Records13 DEF Starts

\* A client that goes on without writing.
LEMMA MovesOn13 ==
    ASSUME NEW e, NEW n, NEW pc, NEW t, At13(e, n, pc, t), NEW x, DOMAIN x = EndFields,
           SameBut(x, e, {"pc", "transcript", "alpn", "certReq", "peerCert", "verified"})
    PROVE  At13(x, n, x.pc, x.transcript)
BY DEF At13, HasWire, SameBut, EndFields

\* readEncryptedExtensions leads to the certificate, or to the request for one,
LEMMA ReadsEncryptedExtensions ==
    ASSUME Going, readEncryptedExtensions
    PROVE  Setting' = Setting /\ ReadsRequest13(c', s', Setting)
<1> DEFINE n == Setting
           y == [[Record(c, "encryptedExtensions") EXCEPT !.alpn = Body(s)] EXCEPT !.pc = "certificate13"]
<1>1. ReadsExtensions13(c, s, n)
  BY Stages DEF Going, readEncryptedExtensions, Receives
<1>2. Body(s) = n.alpn
  BY <1>1, ClientHears13, Hearing
<1>3. PICK rest : IsSeq(rest) /\ Sent13(s, n, From13Extensions(n, rest))
  BY <1>1 DEF ReadsExtensions13
<1>4. At13(c, n, "encryptedExtensions", To13Hello(n)) /\ c.certReq = FALSE
  BY <1>1 DEF ReadsExtensions13
<1>5. /\ DOMAIN c = EndFields /\ c.serverHello = n.serverHello /\ c.hello.alpn = n.client.alpn
      /\ c.transcript = To13Hello(n)
  BY <1>4 DEF At13
<1>6. DOMAIN s = EndFields /\ n.serverHello.psk = FALSE /\ checkALPN(n.client.alpn, n.alpn)
  BY <1>3, TakenSent13 DEF Server13
<1>7. c' = y /\ s' = Taken(s) /\ n' = n
  <2>1. ClientStep(y)
    BY <1>2, <1>5, <1>6 DEF readEncryptedExtensions
  <2> QED
    BY <1>6, <2>1, ClientGoesOn
<1>8. /\ DOMAIN y = EndFields /\ SameBut(y, c, {"transcript", "alpn", "pc"})
      /\ y.pc = "certificate13" /\ y.transcript = Append(To13Hello(n), "encryptedExtensions")
  BY <1>5 DEF Record, SameBut, EndFields
<1> HIDE DEF y
<1>9. At13(y, n, y.pc, y.transcript)
  BY <1>4, <1>8, MovesOn13 DEF SameBut
<1>10. y.transcript = To13Extensions(n) /\ y.certReq = FALSE
  BY <1>4, <1>8 DEF To13Extensions, SameBut, EndFields
<1>11. Sent13(s', n, From13Request(n, rest))
  <2>1. Tail(From13Extensions(n, rest)) = From13Request(n, rest)
    BY <1>3, Tails13
  <2> QED
    BY <1>3, <1>7, <2>1, TakenSent13
<1> QED
  BY <1>3, <1>7, <1>8, <1>9, <1>10, <1>11 DEF ReadsRequest13

\* readServerCertificate13 to the certificate, or to the CertificateVerify,
LEMMA ReadsServerCertificate13 ==
    ASSUME Going, readServerCertificate13
    PROVE  Setting' = Setting /\ Full13(c', s', Setting)
<1> DEFINE n == Setting
           x == Record(c, Kind(s))
<1>1. (Asks(n) /\ ReadsRequest13(c, s, n)) \/ ReadsCertificate13(c, s, n)
  BY Stages, ClientHears13 DEF Going, readServerCertificate13, Receives
<1>2. CASE Asks(n) /\ ReadsRequest13(c, s, n)
  <2> DEFINE y == [x EXCEPT !.certReq = TRUE]
  <2>1. Kind(s) = "certificateRequest"
    BY <1>2, ClientHears13, Hearing
  <2>2. PICK rest : IsSeq(rest) /\ Sent13(s, n, From13Request(n, rest))
    BY <1>2 DEF ReadsRequest13
  <2>3. At13(c, n, "certificate13", To13Extensions(n)) /\ c.certReq = FALSE
    BY <1>2 DEF ReadsRequest13
  <2>4. DOMAIN c = EndFields /\ c.transcript = To13Extensions(n) /\ c.pc = "certificate13"
    BY <2>3 DEF At13
  <2>5. DOMAIN s = EndFields
    BY <2>2, TakenSent13
  <2>6. ClientStep(y)
    BY <2>1, <2>3 DEF readServerCertificate13
  <2>7. c' = y /\ s' = Taken(s) /\ n' = n
    BY <2>5, <2>6, ClientGoesOn
  <2>8. /\ DOMAIN y = EndFields /\ SameBut(y, c, {"transcript", "certReq"})
        /\ y.certReq = TRUE /\ y.transcript = Append(To13Extensions(n), "certificateRequest")
    BY <2>1, <2>4 DEF Record, SameBut, EndFields
  <2> HIDE DEF y
  <2>9. At13(y, n, y.pc, y.transcript) /\ y.pc = "certificate13"
    BY <2>3, <2>4, <2>8, MovesOn13 DEF SameBut, EndFields
  <2>10. y.transcript = To13Request(n) /\ Knows(y, n)
    BY <1>2, <2>8, Transcripts DEF Knows
  <2>11. Sent13(s', n, From13Certificate(n, rest))
    <3>1. Tail(From13Request(n, rest)) = From13Certificate(n, rest)
      BY <1>2, <2>2, Tails13
    <3> QED
      BY <2>2, <2>7, <3>1, TakenSent13
  <2> QED
    BY <2>2, <2>7, <2>9, <2>10, <2>11 DEF ReadsCertificate13, Full13
<1>3. CASE ReadsCertificate13(c, s, n)
  <2> DEFINE y == [x EXCEPT !.peerCert = IF Body(s) THEN "good" ELSE "unverifiable",
                            !.verified = MustVerify(c), !.pc = "certificateVerify13"]
  <2>1. Kind(s) = "certificate" /\ Body(s) = n.server.trusted
    BY <1>3, ClientHears13, Hearing
  <2>2. PICK rest : IsSeq(rest) /\ Sent13(s, n, From13Certificate(n, rest))
    BY <1>3 DEF ReadsCertificate13
  <2>3. At13(c, n, "certificate13", To13Request(n)) /\ Knows(c, n)
    BY <1>3 DEF ReadsCertificate13
  <2>4. DOMAIN c = EndFields /\ c.transcript = To13Request(n) /\ c.echRejected = FALSE
    BY <2>3 DEF At13
  <2>5. DOMAIN s = EndFields
    BY <2>2, TakenSent13
  <2>6. ~(MustVerify(c) /\ ~Body(s))
    BY <2>1, <2>4, SettingIs DEF Going, Fine, Compatible, MustVerify
  <2>7. ClientStep(y)
    BY <2>1, <2>6 DEF readServerCertificate13
  <2>8. c' = y /\ s' = Taken(s) /\ n' = n
    BY <2>5, <2>7, ClientGoesOn
  <2>9. /\ DOMAIN y = EndFields /\ SameBut(y, c, {"transcript", "peerCert", "verified", "pc"})
        /\ y.pc = "certificateVerify13" /\ y.transcript = Append(To13Request(n), "certificate")
    BY <2>1, <2>4 DEF Record, SameBut, EndFields
  <2> HIDE DEF y
  <2>10. At13(y, n, y.pc, y.transcript)
    BY <2>3, <2>9, MovesOn13 DEF SameBut
  <2>11. y.transcript = To13Certificate(n) /\ Knows(y, n)
    BY <2>3, <2>9 DEF Knows, To13Certificate, SameBut, EndFields
  <2>12. Sent13(s', n, From13Verify(n, rest))
    <3>1. Tail(From13Certificate(n, rest)) = From13Verify(n, rest)
      BY <2>2, Tails13
    <3> QED
      BY <2>2, <2>8, <3>1, TakenSent13
  <2> QED
    BY <2>2, <2>8, <2>9, <2>10, <2>11, <2>12 DEF ReadsVerify13, Full13
<1> QED
  BY <1>1, <1>2, <1>3

\* and readServerVerify13 to the Finished message.
LEMMA ReadsServerVerify13 ==
    ASSUME Going, readServerVerify13
    PROVE  Setting' = Setting /\ ReadsFinished13(c', s', Setting)
<1> DEFINE n == Setting
           y == [Record(c, "certificateVerify") EXCEPT !.pc = "finished13"]
<1>1. ReadsVerify13(c, s, n)
  BY Stages DEF Going, readServerVerify13, Receives
<1>2. Body(s) = To13Certificate(n)
  BY <1>1, ClientHears13, Hearing
<1>3. PICK rest : IsSeq(rest) /\ Sent13(s, n, From13Verify(n, rest))
  BY <1>1 DEF ReadsVerify13
<1>4. At13(c, n, "certificateVerify13", To13Certificate(n)) /\ Knows(c, n)
  BY <1>1 DEF ReadsVerify13
<1>5. DOMAIN c = EndFields /\ c.transcript = To13Certificate(n)
  BY <1>4 DEF At13
<1>6. DOMAIN s = EndFields
  BY <1>3, TakenSent13
<1>7. c' = y /\ s' = Taken(s) /\ n' = n
  BY <1>2, <1>5, <1>6, ClientGoesOn DEF readServerVerify13
<1>8. /\ DOMAIN y = EndFields /\ SameBut(y, c, {"transcript", "pc"})
      /\ y.pc = "finished13" /\ y.transcript = Append(To13Certificate(n), "certificateVerify")
  BY <1>5 DEF Record, SameBut, EndFields
<1> HIDE DEF y
<1>9. At13(y, n, y.pc, y.transcript)
  BY <1>4, <1>8, MovesOn13 DEF SameBut
<1>10. y.transcript = To13Verify(n) /\ Knows(y, n)
  BY <1>4, <1>8 DEF Knows, To13Verify, SameBut, EndFields
<1>11. Sent13(s', n, From13Finished(n, rest))
  <2>1. Tail(From13Verify(n, rest)) = From13Finished(n, rest)
    BY <1>3, Tails13
  <2> QED
    BY <1>3, <1>7, <2>1, TakenSent13
<1> QED
  BY <1>3, <1>7, <1>8, <1>9, <1>10, <1>11 DEF ReadsFinished13

\* The flight of the client is the one that the server reads.
LEMMA SendsFlight13 ==
    ASSUME NEW n, n = Setting, NEW e, DOMAIN e = EndFields, e.echRejected = FALSE, Knows(e, n),
           e.transcript = To13Finished(n), HasWire(e, Key13("client", n), TRUE, <<>>, <<>>)
    PROVE  LET x == flush(sendClientFinished(sendClientCertificate(e))) IN
           /\ DOMAIN x = EndFields /\ x.session = e.session
           /\ DOMAIN x.wire = WireFields /\ x.wire.sent = From13ClientCert(n)
<1> DEFINE key == Key13("client", n)
           whole == From13ClientCert(n)
           x == WriteRecorded(e, "certificate", ccfg.cert)
           y == sendClientCertificate(e)
           f == WriteRecorded(y, "finished", Verify(y.wire.out, y))
           g == sendClientFinished(y)
<1>1. n.client = ccfg
  BY SettingIs
<1>2. IsSeq(whole) /\ IsSeq(From13ClientVerify(n)) /\ IsSeq(From13ClientFin(n))
  <2>1. IsSeq(From13ClientVerify(n)) /\ IsSeq(From13ClientFin(n))
    BY EmptySeqs, Flights13
  <2> QED
    BY <2>1, ThenSeq DEF From13ClientCert
<1>3. Emitting(e, key, whole, whole)
  BY <1>2, NothingMore, EmptySeqs DEF Emitting
<1>4. /\ DOMAIN y = EndFields /\ SameBut(y, e, {"wire", "transcript"})
      /\ y.transcript = To13ClientVerify(n) /\ Emitting(y, key, whole, From13ClientFin(n))
  <2>1. CASE ~Asks(n)
    <3>1. y = e
      BY <2>1 DEF sendClientCertificate, Knows
    <3>2. ~Shows(n)
      BY <2>1 DEF Shows
    <3>3. whole = From13ClientFin(n) /\ To13ClientVerify(n) = To13Finished(n)
      BY <2>1, <3>2, Transcripts DEF From13ClientCert, From13ClientVerify, Then
    <3> HIDE DEF y
    <3> QED
      BY <1>3, <3>1, <3>3 DEF SameBut
  <2>2. CASE Asks(n)
    <3> DEFINE cert == ccfg.cert
               w == From13ClientVerify(n)
    <3>1. Emitting(e, key, whole, <<Rec("certificate", cert, key)>> \o w) /\ IsSeq(w)
      BY <1>1, <1>2, <1>3, <2>2 DEF From13ClientCert, Then
    <3>a. x = WriteRecorded(e, "certificate", cert)
      OBVIOUS
    <3> HIDE DEF cert, w, key, whole, x
    <3>2. /\ DOMAIN x = EndFields /\ SameBut(x, e, {"wire", "transcript"})
          /\ x.transcript = Append(e.transcript, "certificate") /\ Emitting(x, key, whole, w)
      BY <3>1, <3>a, Emits
    <3>3. x.transcript = To13ClientCert(n)
      BY <2>2, <3>2, Transcripts
    <3>4. CASE ~Shows(n)
      <4>1. y = x
        BY <1>1, <2>2, <3>4 DEF sendClientCertificate, Knows, Shows, x
      <4>2. w = From13ClientFin(n) /\ To13ClientVerify(n) = To13ClientCert(n)
        BY <3>4, Transcripts DEF From13ClientVerify, Then, w
      <4> HIDE DEF y
      <4> QED
        BY <3>2, <3>3, <4>1, <4>2
    <3>5. CASE Shows(n)
      <4> DEFINE t == x.transcript
                 v == From13ClientFin(n)
      <4>1. y = WriteRecorded(x, "certificateVerify", t)
        BY <1>1, <2>2, <3>5 DEF sendClientCertificate, Knows, Shows, x
      <4>2. Emitting(x, key, whole, <<Rec("certificateVerify", t, key)>> \o v) /\ IsSeq(v)
        BY <1>2, <3>2, <3>3, <3>5 DEF From13ClientVerify, Then, w, key
      <4>3. To13ClientVerify(n) = Append(t, "certificateVerify")
        BY <3>3, <3>5, Transcripts
      <4> HIDE DEF y, t, v
      <4>4. /\ DOMAIN y = EndFields /\ SameBut(y, x, {"wire", "transcript"})
            /\ y.transcript = Append(x.transcript, "certificateVerify") /\ Emitting(y, key, whole, v)
        <5>1. Emitting(x, key, whole, <<Rec("certificateVerify", t, key)>> \o v) /\ IsSeq(v) /\ DOMAIN x = EndFields
          BY <3>2, <4>2
        <5> HIDE DEF x
        <5> QED
          BY <4>1, <5>1, Emits
      <4> QED
        BY <3>2, <4>3, <4>4 DEF SameBut, t, v
    <3> QED
      BY <3>4, <3>5
  <2> QED
    BY <2>1, <2>2
<1> HIDE DEF y, whole
<1>5. Verify(y.wire.out, y) = Proof(key, To13ClientVerify(n))
  BY <1>4 DEF Verify, Proof, Emitting, HasWire
<1>6. Emitting(y, key, whole, <<Rec("finished", Verify(y.wire.out, y), key)>>)
  BY <1>4, <1>5 DEF From13ClientFin
<1> HIDE DEF key
<1>7. DOMAIN f = EndFields /\ SameBut(f, y, {"wire", "transcript"}) /\ Emitting(f, key, whole, <<>>)
  BY <1>4, <1>6, EmitsLast
<1> HIDE DEF f
<1>8. g = [f EXCEPT !.wire.out = y.traffic,
                    !.resumption = IF ccfg.cache THEN [y.secret EXCEPT !.context = f.transcript] ELSE None]
  BY DEF sendClientFinished, f
<1> HIDE DEF g
<1>9. /\ DOMAIN g = EndFields /\ SameBut(g, f, {"wire", "resumption"})
      /\ g.wire = [f.wire EXCEPT !.out = y.traffic]
  BY <1>7, <1>8 DEF SameBut, EndFields
<1>10. Emitting(g, y.traffic, whole, <<>>)
  BY <1>7, <1>9 DEF Emitting, HasWire, WireFields
<1>11. /\ DOMAIN flush(g) = EndFields /\ SameBut(flush(g), g, {"wire"})
       /\ HasWire(flush(g), y.traffic, FALSE, <<>>, whole)
  BY <1>9, <1>10, Emitted
<1>12. flush(g).session = e.session
  BY <1>4, <1>7, <1>9, <1>11 DEF SameBut, EndFields
<1> QED
  BY <1>11, <1>12 DEF HasWire, g, y, whole

\* readServerFinished13 ends the handshake of the client with its flight.
LEMMA ReadsServerFinished13 ==
    ASSUME Going, readServerFinished13
    PROVE  Setting' = Setting /\ Full13(c', s', Setting)
<1> DEFINE n == Setting
           x == Record(c, "finished")
           y == [x EXCEPT !.in = Key("server", "application", x), !.traffic = Key("client", "application", x)]
           z == flush(sendClientFinished(sendClientCertificate(y)))
<1>1. ReadsFinished13(c, s, n)
  BY Stages DEF Going, readServerFinished13, Receives
<1>2. Body(s) = Proof(Key13("server", n), To13Verify(n))
  BY <1>1, ClientHears13, Hearing
<1>3. PICK rest : IsSeq(rest) /\ Sent13(s, n, From13Finished(n, rest))
  BY <1>1 DEF ReadsFinished13
<1>4. At13(c, n, "finished13", To13Verify(n)) /\ Knows(c, n)
  BY <1>1 DEF ReadsFinished13
<1>5. /\ DOMAIN c = EndFields /\ c.transcript = To13Verify(n) /\ c.in = Key13("server", n)
      /\ c.echRejected = FALSE /\ c.session = None /\ HasWire(c, Key13("client", n), TRUE, <<>>, <<>>)
  BY <1>4 DEF At13
<1>6. DOMAIN s = EndFields
  BY <1>3, TakenSent13
<1>7. Body(s) = Verify(c.in, c)
  BY <1>2, <1>5 DEF Verify, Proof
<1>8. c' = Done(z) /\ s' = Taken(s) /\ n' = n
  <2>1. ClientStep(Done(z))
    BY <1>5, <1>7 DEF readServerFinished13
  <2> QED
    BY <1>6, <2>1, ClientGoesOn
<1>9. /\ DOMAIN x = EndFields /\ SameBut(x, c, {"transcript"})
      /\ x.transcript = To13Finished(n)
  BY <1>5, Transcripts DEF Record, SameBut, EndFields
<1> HIDE DEF x
<1>10. DOMAIN y = EndFields /\ SameBut(y, x, {"in", "traffic"})
  BY <1>9 DEF SameBut, EndFields
<1> HIDE DEF y
<1>11. /\ y.echRejected = FALSE /\ Knows(y, n) /\ y.transcript = To13Finished(n) /\ y.session = None
       /\ HasWire(y, Key13("client", n), TRUE, <<>>, <<>>)
  BY <1>4, <1>5, <1>9, <1>10 DEF Knows, HasWire, SameBut, EndFields
<1>12. /\ DOMAIN z = EndFields /\ z.session = None
       /\ DOMAIN z.wire = WireFields /\ z.wire.sent = From13ClientCert(n)
  BY <1>10, <1>11, SendsFlight13
<1> HIDE DEF z
<1>13. /\ DOMAIN c' = EndFields /\ c'.session = None /\ c'.pc = "done"
       /\ DOMAIN c'.wire = WireFields /\ c'.wire.sent = From13ClientCert(n)
  BY <1>8, <1>12 DEF Done, EndFields
<1>14. Sent13(s', n, rest)
  <2>1. Tail(From13Finished(n, rest)) = rest
    BY <1>3, Tails13
  <2> QED
    BY <1>3, <1>8, <2>1, TakenSent13
<1>15. /\ DOMAIN s' = EndFields /\ s'.in = Key13("client", n) /\ s'.vers = 13 /\ s'.session = None
       /\ IF Asks(n) THEN s'.pc = "clientCertificate13" /\ s'.transcript = To13Finished(n)
          ELSE s'.pc = "clientFinished13" /\ s'.clientFinished = Proof(Key13("client", n), To13Finished(n))
  BY <1>14 DEF Sent13, Server13
<1>16. CASE Asks(n)
  BY <1>8, <1>13, <1>15, <1>16 DEF Full13, ServesCertificate13, Serves13
<1>17. CASE ~Asks(n)
  <2>1. ~Shows(n)
    BY <1>17 DEF Shows
  <2>2. From13ClientCert(n) = From13ClientFin(n) /\ To13ClientVerify(n) = To13Finished(n)
    BY <1>17, <2>1, Transcripts DEF From13ClientCert, From13ClientVerify, Then
  <2> QED
    BY <1>8, <1>13, <1>15, <1>17, <2>2 DEF Full13, ServesFinished13, Serves13
<1> QED
  BY <1>16, <1>17
-----------------------------------------------------------------------------
(* The steps of the server of TLS 1.3, after the hellos *)

\* The server writes into its buffer, and the client waits.
LEMMA ServerGoesAlone ==
    ASSUME UNCHANGED <<config, cache, founded, c>>, NEW F, DOMAIN s = EndFields, SameBut(s', s, F),
           F \cap {"hello", "serverHello", "suite", "alpn"} = {}
    PROVE  Setting' = Setting
<1>1. s'.hello = s.hello /\ s'.serverHello = s.serverHello /\ s'.suite = s.suite /\ s'.alpn = s.alpn
  BY DEF SameBut, EndFields
<1> QED
  BY <1>1, SettingStays

\* sendServerCertificate puts the certificates into the buffer.
LEMMA SendsServerCertificate ==
    ASSUME Going, sendServerCertificate
    PROVE  Setting' = Setting /\ Finishes(c', s', Setting)
<1> DEFINE n == Setting
           key == Key13("server", n)
           x == IF requestClientCert(s) THEN WriteRecorded(s, "certificateRequest", None) ELSE s
           y == WriteRecorded(x, "certificate", scfg.trusted)
           z == WriteRecorded(y, "certificateVerify", y.transcript)
           r == [z EXCEPT !.pc = "sendServerFinished"]
           q == IF Asks(n) THEN Append(Begun(n), Rec("certificateRequest", None, key)) ELSE Begun(n)
           w == Append(q, Rec("certificate", n.server.trusted, key))
<1>1. Certifies(c, s, n)
  BY Stages DEF Going, sendServerCertificate
<1>2. /\ Awaits(c, n) /\ Server13(s, n) /\ s.peerCert = "none" /\ s.transcript = To13Extensions(n)
      /\ HasWire(s, key, TRUE, Begun(n), <<>>) /\ DOMAIN s = EndFields /\ s.session = None
  BY <1>1 DEF Certifies, Server13
<1>3. n.server = scfg
  BY SettingIs
<1>4. requestClientCert(s) <=> Asks(n)
  BY <1>2, <1>3 DEF requestClientCert, Asks
<1>5. Certified(n) = Append(w, Rec("certificateVerify", To13Certificate(n), key))
  BY DEF Certified
<1>6. s' = r /\ UNCHANGED <<config, cache, founded, c>>
  BY <1>2 DEF sendServerCertificate
<1> HIDE DEF key
<1>7. /\ DOMAIN x = EndFields /\ SameBut(x, s, {"wire", "transcript"})
      /\ x.transcript = To13Request(n) /\ HasWire(x, key, TRUE, q, <<>>)
  <2>1. CASE Asks(n)
    <3>1. x = WriteRecorded(s, "certificateRequest", None)
      BY <1>4, <2>1
    <3>2. To13Request(n) = Append(To13Extensions(n), "certificateRequest")
      BY <2>1, Transcripts
    <3> HIDE DEF x
    <3>3. /\ DOMAIN x = EndFields /\ SameBut(x, s, {"wire", "transcript"})
          /\ x.transcript = Append(s.transcript, "certificateRequest")
          /\ HasWire(x, key, TRUE, Append(Begun(n), Rec("certificateRequest", None, key)), <<>>)
      BY <1>2, <3>1, Buffered
    <3> QED
      BY <1>2, <2>1, <3>2, <3>3
  <2>2. CASE ~Asks(n)
    <3>1. x = s
      BY <1>4, <2>2
    <3>2. To13Request(n) = To13Extensions(n)
      BY <2>2, Transcripts
    <3> HIDE DEF x
    <3> QED
      BY <1>2, <2>2, <3>1, <3>2 DEF SameBut
  <2> QED
    BY <2>1, <2>2
<1> HIDE DEF x, q
<1>8. /\ DOMAIN y = EndFields /\ SameBut(y, x, {"wire", "transcript"})
      /\ y.transcript = Append(x.transcript, "certificate") /\ HasWire(y, key, TRUE, w, <<>>)
  BY <1>3, <1>7, Buffered
<1>9. y.transcript = To13Certificate(n)
  <2>1. To13Certificate(n) = Append(To13Request(n), "certificate")
    BY Transcripts
  <2> QED
    BY <1>7, <1>8, <2>1
<1> HIDE DEF y, w
<1>10. /\ DOMAIN z = EndFields /\ SameBut(z, y, {"wire", "transcript"})
       /\ z.transcript = Append(y.transcript, "certificateVerify")
       /\ HasWire(z, key, TRUE, Append(w, Rec("certificateVerify", y.transcript, key)), <<>>)
  BY <1>8, Buffered
<1> HIDE DEF z
<1>11. z.transcript = To13Verify(n) /\ HasWire(z, key, TRUE, Certified(n), <<>>)
  <2>1. To13Verify(n) = Append(To13Certificate(n), "certificateVerify")
    BY Transcripts
  <2> QED
    BY <1>5, <1>9, <1>10, <2>1
<1>12. DOMAIN r = EndFields /\ SameBut(r, z, {"pc"}) /\ r.pc = "sendServerFinished"
  BY <1>10 DEF SameBut, EndFields
<1> HIDE DEF r
<1>13. SameBut(r, s, {"pc", "wire", "transcript"})
  BY <1>7, <1>8, <1>10, <1>12 DEF SameBut
<1>14. n' = n
  BY <1>2, <1>6, <1>13, ServerGoesAlone
<1>15. r.transcript = To13Verify(n) /\ HasWire(r, key, TRUE, Certified(n), <<>>) /\ r.peerCert = "none"
  BY <1>2, <1>11, <1>12, <1>13 DEF HasWire, SameBut, EndFields
<1>16. Server13(r, n)
  BY <1>2, <1>12, <1>13 DEF Server13, SameBut, EndFields
<1> QED
  BY <1>2, <1>6, <1>12, <1>14, <1>15, <1>16 DEF Finishes, key

\* p before q is h; then so is p with the first record of q moved to its end.
Joins(p, q, h) == IsSeq(p) /\ p \o q = h
\* x is b and r; w is r and q.
Appended(x, b, r) == x = Append(b, r)
Leads(w, r, q) == w = <<r>> \o q

\* The record r goes from the front of w to the end of b.
LEMMA AppendMoves ==
    ASSUME NEW b, NEW r, NEW x, Appended(x, b, r), NEW q, IsSeq(q), NEW w, Leads(w, r, q),
           NEW h, Joins(b, w, h)
    PROVE  Joins(x, q, h)
<1>1. IsSeq(b) /\ b \o w = h /\ x = Append(b, r) /\ w = <<r>> \o q
  BY DEF Joins, Appended, Leads
<1>2. IsSeq(Append(b, r))
  BY <1>1, AppendSeq
<1>3. Append(b, r) \o q = b \o (<<r>> \o q)
  BY <1>1, AppendThen
<1> QED
  BY <1>1, <1>2, <1>3 DEF Joins

\* What is in the buffer at the end is the flight that the client reads.
LEMMA WholeFlight ==
    ASSUME NEW n, NEW rest, IsSeq(rest)
    PROVE  LET q == Append(Certified(n), Rec("finished", Proof(Key13("server", n), To13Verify(n)), Key13("server", n)))
           IN IsSeq(q) /\ q \o rest = From13Hello(n, rest)
<1> DEFINE key == Key13("server", n)
           f == Rec("finished", Proof(key, To13Verify(n)), key)
           v == Rec("certificateVerify", To13Certificate(n), key)
           t == Rec("certificate", n.server.trusted, key)
           a == Rec("certificateRequest", None, key)
           x == Rec("encryptedExtensions", n.alpn, key)
           h == Rec("serverHello", n.serverHello, None)
           q == IF Asks(n) THEN Append(Begun(n), a) ELSE Begun(n)
<1>1. Certified(n) = Append(Append(q, t), v)
  BY DEF Certified
<1>2. Begun(n) = Append(<<h>>, x)
  BY DEF Begun
<1>3. /\ From13Finished(n, rest) = <<f>> \o rest
      /\ From13Verify(n, rest) = <<v>> \o From13Finished(n, rest)
      /\ From13Certificate(n, rest) = <<t>> \o From13Verify(n, rest)
      /\ From13Request(n, rest) = IF Asks(n) THEN <<a>> \o From13Certificate(n, rest)
                                  ELSE From13Certificate(n, rest)
      /\ From13Extensions(n, rest) = <<x>> \o From13Request(n, rest)
      /\ From13Hello(n, rest) = <<h>> \o From13Extensions(n, rest)
  BY DEF From13Finished, From13Verify, From13Certificate, From13Request, From13Extensions, From13Hello, Then
<1>4. /\ IsSeq(From13Finished(n, rest)) /\ IsSeq(From13Verify(n, rest)) /\ IsSeq(From13Certificate(n, rest))
      /\ IsSeq(From13Request(n, rest)) /\ IsSeq(From13Extensions(n, rest))
  BY Flights13
<1> HIDE DEF key, f, v, t, a, x, h
<1>5. IsSeq(<<h>>)
  BY OneRecord
<1> DEFINE f0 == From13Finished(n, rest)
           v0 == From13Verify(n, rest)
           t0 == From13Certificate(n, rest)
           a0 == From13Request(n, rest)
           x0 == From13Extensions(n, rest)
           h0 == From13Hello(n, rest)
           b == Begun(n)
           d == Certified(n)
<1>6. /\ Leads(f0, f, rest) /\ Leads(v0, v, f0) /\ Leads(t0, t, v0)
      /\ IF Asks(n) THEN Leads(a0, a, t0) ELSE a0 = t0
      /\ Leads(x0, x, a0)
  BY <1>3 DEF Leads
<1>7. /\ IsSeq(f0) /\ IsSeq(v0) /\ IsSeq(t0) /\ IsSeq(a0)
      /\ Appended(b, <<h>>, x) /\ d = Append(Append(q, t), v)
      /\ IF Asks(n) THEN Appended(q, b, a) ELSE q = b
  BY <1>1, <1>2, <1>4 DEF Appended
<1>8. Joins(<<h>>, x0, h0)
  BY <1>3, <1>5 DEF Joins
<1> DEFINE p == Append(q, t)
           g == Append(d, f)
           h1 == <<h>>
<1>9. Appended(p, q, t) /\ Appended(d, p, v) /\ Appended(g, d, f) /\ Appended(b, h1, x) /\ Joins(h1, x0, h0)
  BY <1>7, <1>8 DEF Appended
<1> HIDE DEF q, f0, v0, t0, a0, x0, h0, b, d, p, g, h1
<1>10. Joins(b, a0, h0)
  BY <1>6, <1>7, <1>9, AppendMoves
<1>11. Joins(q, t0, h0)
  BY <1>6, <1>7, <1>10, AppendMoves
<1>12. Joins(p, v0, h0)
  BY <1>6, <1>7, <1>9, <1>11, AppendMoves
<1>13. Joins(d, f0, h0)
  BY <1>6, <1>7, <1>9, <1>12, AppendMoves
<1>14. Joins(g, rest, h0)
  BY <1>6, <1>9, <1>13, AppendMoves
<1> QED
  BY <1>14 DEF Joins, f, key, d, h0, g

\* The Finished message that the server waits for; the ticket is written or it is not.
LEMMA SendsSessionTickets ==
    ASSUME NEW e, DOMAIN e = EndFields
    PROVE  LET x == sendSessionTickets(e) IN
           /\ DOMAIN x = EndFields /\ SameBut(x, e, {"clientFinished", "transcript", "resumption", "wire"})
           /\ x.clientFinished = Proof(e.in, e.transcript)
           /\ \A out, buf : HasWire(e, out, TRUE, buf, <<>>) =>
                \/ HasWire(x, out, TRUE, buf, <<>>)
                \/ \E r : HasWire(x, out, TRUE, Append(buf, r), <<>>)
<1> DEFINE a == [e EXCEPT !.clientFinished = Verify(e.in, e)]
           x == Record(a, "finished")
           secret == [x.secret EXCEPT !.context = x.transcript]
           y == [x EXCEPT !.resumption = secret]
           body == encryptTicket(sessionState(y, secret))
           z == sendSessionTickets(e)
<1>1. DOMAIN a = EndFields /\ SameBut(a, e, {"clientFinished"}) /\ a.clientFinished = Proof(e.in, e.transcript)
  BY DEF Verify, Proof, SameBut, EndFields
<1>2. z = IF scfg.ticketsDisabled \/ ~e.hello.tickets THEN y ELSE Write(y, Msg("newSessionTicket", body))
  BY DEF sendSessionTickets
<1> HIDE DEF a, z, body, secret
<1>3. DOMAIN x = EndFields /\ SameBut(x, a, {"transcript"})
  BY <1>1 DEF Record, SameBut, EndFields
<1> HIDE DEF x
<1>4. DOMAIN y = EndFields /\ SameBut(y, x, {"resumption"})
  BY <1>3 DEF SameBut, EndFields
<1> HIDE DEF y
<1>5. /\ SameBut(y, e, {"clientFinished", "transcript", "resumption"}) /\ y.wire = e.wire
      /\ y.clientFinished = Proof(e.in, e.transcript)
  BY <1>1, <1>3, <1>4 DEF SameBut, EndFields
<1>6. CASE z = y
  <2>1. \A out, buf : HasWire(e, out, TRUE, buf, <<>>) => HasWire(z, out, TRUE, buf, <<>>)
    BY <1>5, <1>6 DEF HasWire
  <2>2. SameBut(z, e, {"clientFinished", "transcript", "resumption", "wire"})
    BY <1>5, <1>6 DEF SameBut
  <2> QED
    BY <1>4, <1>5, <1>6, <2>1, <2>2 DEF z
<1>7. CASE z = Write(y, Msg("newSessionTicket", body))
  <2>1. DOMAIN z = EndFields /\ SameBut(z, y, {"wire"})
    BY <1>4, <1>7 DEF Write, SameBut, EndFields
  <2>2. ASSUME NEW out, NEW buf, HasWire(e, out, TRUE, buf, <<>>)
        PROVE  \E r : HasWire(z, out, TRUE, Append(buf, r), <<>>)
    <3>1. HasWire(y, out, TRUE, buf, <<>>)
      BY <1>5, <2>2 DEF HasWire
    <3>2. HasWire(z, out, TRUE, Append(buf, Rec("newSessionTicket", body, out)), <<>>)
      BY <1>4, <1>7, <3>1, Buffered
    <3> QED
      BY <3>2
  <2>3. SameBut(z, e, {"clientFinished", "transcript", "resumption", "wire"})
    BY <1>5, <2>1 DEF SameBut
  <2>4. z.clientFinished = Proof(e.in, e.transcript)
    BY <1>5, <2>1 DEF SameBut, EndFields
  <2> QED
    BY <2>1, <2>2, <2>3, <2>4 DEF z
<1> QED
  BY <1>2, <1>6, <1>7

\* sendServerFinished sends what is in the buffer.
LEMMA SendsServerFinished ==
    ASSUME Going, sendServerFinished
    PROVE  Setting' = Setting /\ ReadsHello13(c', s', Setting)
<1> DEFINE n == Setting
           key == Key13("server", n)
           x == WriteRecorded(s, "finished", Verify(s.wire.out, s))
           k == Key("server", "application", x)
           y == [x EXCEPT !.wire.out = k, !.traffic = Key("client", "application", x)]
           q == Append(Certified(n), Rec("finished", Proof(key, To13Verify(n)), key))
           t == sendSessionTickets(y)
<1>1. Finishes(c, s, n)
  BY Stages DEF Going, sendServerFinished
<1>2. /\ Awaits(c, n) /\ Server13(s, n) /\ s.peerCert = "none" /\ s.transcript = To13Verify(n)
      /\ HasWire(s, key, TRUE, Certified(n), <<>>) /\ DOMAIN s = EndFields /\ s.session = None
  BY <1>1 DEF Finishes, Server13
<1>3. requestClientCert(s) <=> Asks(n)
  BY <1>2, SettingIs DEF requestClientCert, Asks
<1>4. /\ s' = IF Asks(n) THEN [flush(y) EXCEPT !.pc = "clientCertificate13"]
              ELSE [flush(t) EXCEPT !.pc = "clientFinished13"]
      /\ UNCHANGED <<config, cache, founded, c>>
  BY <1>3 DEF sendServerFinished
<1>5. Verify(s.wire.out, s) = Proof(key, To13Verify(n))
  BY <1>2 DEF Verify, Proof, HasWire
<1>6. \A rest : IsSeq(rest) => IsSeq(q) /\ q \o rest = From13Hello(n, rest)
  BY WholeFlight
<1> HIDE DEF key
<1>7. /\ DOMAIN x = EndFields /\ SameBut(x, s, {"wire", "transcript"})
      /\ x.transcript = Append(s.transcript, "finished") /\ HasWire(x, key, TRUE, q, <<>>)
  <2>1. x = WriteRecorded(s, "finished", Proof(key, To13Verify(n)))
    BY <1>5
  <2> HIDE DEF x
  <2> QED
    BY <1>2, <2>1, Buffered
<1>8. x.transcript = To13Finished(n)
  <2>1. To13Finished(n) = Append(To13Verify(n), "finished")
    BY Transcripts
  <2> QED
    BY <1>2, <1>7, <2>1
<1> HIDE DEF x, k, q
<1>9. DOMAIN y = EndFields /\ SameBut(y, x, {"wire", "traffic"}) /\ y.wire = [x.wire EXCEPT !.out = k]
  BY <1>7 DEF SameBut, EndFields
<1> HIDE DEF y
<1>10. HasWire(y, k, TRUE, q, <<>>)
  BY <1>7, <1>9 DEF HasWire, WireFields
<1>11. SameBut(y, s, {"wire", "transcript", "traffic"}) /\ y.transcript = To13Finished(n)
  BY <1>7, <1>8, <1>9 DEF SameBut, EndFields
<1>12. IsSeq(<<>>)
  BY EmptySeqs
<1>13. CASE Asks(n)
  <2> DEFINE f == flush(y)
             r == [f EXCEPT !.pc = "clientCertificate13"]
  <2>1. q \o <<>> = q /\ <<>> \o q = q /\ q = From13Hello(n, <<>>)
    BY <1>6, <1>12, NothingMore
  <2>2. DOMAIN f = EndFields /\ SameBut(f, y, {"wire"}) /\ HasWire(f, k, FALSE, <<>>, <<>> \o q)
    BY <1>9, <1>10, Rewires
  <2> HIDE DEF f
  <2>3. DOMAIN r = EndFields /\ SameBut(r, f, {"pc"}) /\ r.pc = "clientCertificate13"
    BY <2>2 DEF SameBut, EndFields
  <2> HIDE DEF r
  <2>4. SameBut(r, s, {"wire", "transcript", "traffic", "pc"}) /\ r.transcript = To13Finished(n)
    BY <1>11, <2>2, <2>3 DEF SameBut, EndFields
  <2>5. DOMAIN r.wire = WireFields /\ r.wire.sent = From13Hello(n, <<>>)
    BY <2>1, <2>2, <2>3 DEF HasWire, SameBut, EndFields
  <2>6. s' = r
    BY <1>4, <1>13 DEF r, f
  <2>7. n' = n
    BY <1>2, <1>4, <2>4, <2>6, ServerGoesAlone
  <2>8. Server13(r, n) /\ r.peerCert = "none"
    BY <1>2, <2>3, <2>4 DEF Server13, SameBut, EndFields
  <2>9. Sent13(r, n, From13Hello(n, <<>>))
    BY <1>13, <2>3, <2>4, <2>5, <2>8 DEF Sent13
  <2> QED
    BY <1>2, <1>4, <1>12, <2>6, <2>7, <2>9 DEF ReadsHello13
<1>14. CASE ~Asks(n)
  <2> DEFINE f == flush(t)
             r == [f EXCEPT !.pc = "clientFinished13"]
  <2>1. /\ DOMAIN t = EndFields /\ SameBut(t, y, {"clientFinished", "transcript", "resumption", "wire"})
        /\ t.clientFinished = Proof(y.in, y.transcript)
        /\ \/ HasWire(t, k, TRUE, q, <<>>)
           \/ \E rec : HasWire(t, k, TRUE, Append(q, rec), <<>>)
    BY <1>9, <1>10, SendsSessionTickets
  <2> HIDE DEF t
  <2>2. \E rest : IsSeq(rest) /\ HasWire(t, k, TRUE, From13Hello(n, rest), <<>>) /\ IsSeq(From13Hello(n, rest))
    <3>1. CASE HasWire(t, k, TRUE, q, <<>>)
      <4>1. q = From13Hello(n, <<>>) /\ IsSeq(q)
        BY <1>6, <1>12, NothingMore
      <4> QED
        BY <1>12, <3>1, <4>1
    <3>2. CASE \E rec : HasWire(t, k, TRUE, Append(q, rec), <<>>)
      <4>1. PICK rec : HasWire(t, k, TRUE, Append(q, rec), <<>>)
        BY <3>2
      <4>2. IsSeq(<<rec>>) /\ <<rec>> = <<rec>> \o <<>>
        BY OneRecord
      <4> DEFINE one == <<rec>>
      <4> HIDE DEF one
      <4>3. IsSeq(q) /\ q \o one = From13Hello(n, one)
        BY <1>6, <4>2 DEF one
      <4>4. Append(q, rec) = q \o one
        <5>1. Append(q, rec) \o <<>> = q \o (<<rec>> \o <<>>) /\ IsSeq(Append(q, rec))
          BY <1>12, <4>3, AppendThen, AppendSeq
        <5> QED
          BY <4>2, <5>1, NothingMore DEF one
      <4>5. IsSeq(one) /\ IsSeq(From13Hello(n, one))
        <5>1. IsSeq(Append(q, rec))
          BY <4>3, AppendSeq
        <5> QED
          BY <4>2, <4>3, <4>4, <5>1 DEF one
      <4>6. HasWire(t, k, TRUE, From13Hello(n, one), <<>>)
        BY <4>1, <4>3, <4>4
      <4> QED
        BY <4>5, <4>6
    <3> QED
      BY <2>1, <3>1, <3>2
  <2>3. PICK rest : IsSeq(rest) /\ HasWire(t, k, TRUE, From13Hello(n, rest), <<>>) /\ IsSeq(From13Hello(n, rest))
    BY <2>2
  <2>4. DOMAIN f = EndFields /\ SameBut(f, t, {"wire"}) /\ HasWire(f, k, FALSE, <<>>, From13Hello(n, rest))
    <3> DEFINE w == From13Hello(n, rest)
    <3>1. <<>> \o w = w
      BY <2>3, NothingMore
    <3>2. HasWire(t, k, TRUE, w, <<>>)
      BY <2>3
    <3> HIDE DEF w
    <3> QED
      BY <2>1, <3>1, <3>2, Rewires DEF w
  <2> HIDE DEF f
  <2>5. DOMAIN r = EndFields /\ SameBut(r, f, {"pc"}) /\ r.pc = "clientFinished13"
    BY <2>4 DEF SameBut, EndFields
  <2> HIDE DEF r
  <2>6. SameBut(r, s, {"wire", "transcript", "traffic", "pc", "clientFinished", "resumption"})
    BY <1>11, <2>1, <2>4, <2>5 DEF SameBut
  <2>7. DOMAIN r.wire = WireFields /\ r.wire.sent = From13Hello(n, rest) /\ r.clientFinished = t.clientFinished
    BY <2>4, <2>5 DEF HasWire, SameBut, EndFields
  <2>8. y.in = Key13("client", n) /\ y.transcript = To13Finished(n)
    BY <1>2, <1>11 DEF Server13, SameBut, EndFields
  <2>9. s' = r
    BY <1>4, <1>14 DEF r, f
  <2>10. n' = n
    BY <1>2, <1>4, <2>6, <2>9, ServerGoesAlone
  <2>11. Server13(r, n) /\ r.peerCert = "none"
    BY <1>2, <2>5, <2>6 DEF Server13, SameBut, EndFields
  <2>12. Sent13(r, n, From13Hello(n, rest))
    BY <1>14, <2>1, <2>5, <2>7, <2>8, <2>11 DEF Sent13
  <2> QED
    BY <1>2, <1>4, <2>3, <2>9, <2>10, <2>12 DEF ReadsHello13
<1> QED
  BY <1>13, <1>14

\* The server that waits for the last messages of the client.
LEMMA TakenServes13 ==
    ASSUME NEW e, NEW p, NEW n, NEW pc, NEW q, Serves13(e, p, n, pc, q)
    PROVE  /\ DOMAIN p = EndFields /\ p.in = Key13("client", n)
           /\ DOMAIN Taken(e) = EndFields /\ Taken(e).session = None /\ Taken(e).pc = "done"
           /\ DOMAIN Taken(e).wire = WireFields /\ Taken(e).wire.sent = Tail(q)
<1>1. /\ DOMAIN e = EndFields /\ e.session = None /\ e.pc = "done"
      /\ DOMAIN e.wire = WireFields /\ e.wire.sent = q /\ DOMAIN p = EndFields /\ p.in = Key13("client", n)
  BY DEF Serves13
<1>2. DOMAIN Taken(e) = EndFields /\ SameBut(Taken(e), e, {"wire"}) /\ Taken(e).wire.sent = Tail(q)
  BY <1>1, TakenSame
<1>3. DOMAIN Taken(e).wire = WireFields
  BY <1>1 DEF Taken, EndFields
<1> QED
  BY <1>1, <1>2, <1>3 DEF SameBut, EndFields

\* It goes on with the next one.
LEMMA ServesOn13 ==
    ASSUME NEW n, n = Setting, NEW pc, NEW q, Serves13(c, s, n, pc, q), NEW x, ServerStep(x), Proceeds(x, n),
           x.in = s.in
    PROVE  s' = x /\ Setting' = n /\ Serves13(c', s', n, x.pc, Tail(q))
<1>1. s' = x /\ c' = Taken(c) /\ UNCHANGED config
  BY DEF ServerStep
<1>2. Setting' = n
  BY <1>1, SettingStays DEF Proceeds
<1> QED
  BY <1>1, <1>2, TakenServes13 DEF Serves13, Proceeds

\* readClientCertificate13 leads to the CertificateVerify, or to the Finished message,
LEMMA ReadsClientCertificate13 ==
    ASSUME Going, readClientCertificate13
    PROVE  Setting' = Setting /\ Full13(c', s', Setting)
<1> DEFINE n == Setting
           x == TakesCert(s, ccfg.cert)
           t == sendSessionTickets(x)
           y == [x EXCEPT !.pc = "clientVerify13"]
           z == [t EXCEPT !.pc = "clientFinished13"]
<1>1. ServesCertificate13(c, s, n)
  BY Stages DEF Going, readClientCertificate13, Receives
<1>2. Body(c) = ccfg.cert /\ n.client = ccfg
  <2>1. Hears(s, c, "certificate", n.client.cert)
    BY <1>1, ServerHears
  <2> QED
    BY <2>1, Hearing, SettingIs
<1>3. ServerStep(IF x.peerCert # "none" THEN y ELSE z)
  BY <1>2, CertAccepted DEF readClientCertificate13, Going
<1>4. /\ Serves13(c, s, n, "clientCertificate13", From13ClientCert(n)) /\ Asks(n)
      /\ s.transcript = To13Finished(n) /\ s.session = None
  BY <1>1 DEF ServesCertificate13
<1>5. DOMAIN s = EndFields /\ s.in = Key13("client", n)
  BY <1>4, TakenServes13
<1>6. /\ DOMAIN x = EndFields /\ SameBut(x, s, {"transcript", "peerCert", "verified"})
      /\ x.peerCert = ccfg.cert /\ x.transcript = Append(s.transcript, "certificate")
  BY <1>5 DEF TakesCert, Record, SameBut, EndFields
<1>7. To13ClientCert(n) = Append(To13Finished(n), "certificate")
  BY <1>4, Transcripts
<1>8. Tail(From13ClientCert(n)) = From13ClientVerify(n)
  BY <1>4, EmptySeqs, Records13 DEF Starts
<1>9. x.transcript = To13ClientCert(n)
  BY <1>4, <1>6, <1>7
<1> HIDE DEF x
<1>10. CASE ccfg.cert # "none"
  <2>1. DOMAIN y = EndFields /\ SameBut(y, x, {"pc"}) /\ y.pc = "clientVerify13"
    BY <1>6 DEF SameBut, EndFields
  <2>2. ServerStep(y)
    BY <1>3, <1>6, <1>10
  <2> HIDE DEF y
  <2>3. Proceeds(y, n) /\ y.in = s.in /\ y.transcript = To13ClientCert(n) /\ y.session = None
    BY <1>4, <1>6, <1>9, <2>1 DEF Proceeds, SameBut, EndFields
  <2>4. s' = y /\ n' = n /\ Serves13(c', s', n, y.pc, Tail(From13ClientCert(n)))
    BY <1>4, <2>2, <2>3, ServesOn13
  <2>5. Shows(n)
    BY <1>2, <1>4, <1>10 DEF Shows
  <2> QED
    BY <1>8, <2>1, <2>3, <2>4, <2>5 DEF ServesVerify13, Full13
<1>11. CASE ccfg.cert = "none"
  <2>1. ServerStep(z)
    BY <1>3, <1>6, <1>11
  <2>2. /\ DOMAIN t = EndFields /\ SameBut(t, x, {"clientFinished", "transcript", "resumption", "wire"})
        /\ t.clientFinished = Proof(x.in, x.transcript)
    BY <1>6, SendsSessionTickets
  <2> HIDE DEF t
  <2>3. DOMAIN z = EndFields /\ SameBut(z, t, {"pc"}) /\ z.pc = "clientFinished13"
    BY <2>2 DEF SameBut, EndFields
  <2> HIDE DEF z
  <2>4. Proceeds(z, n) /\ z.in = s.in /\ z.clientFinished = Proof(Key13("client", n), To13ClientCert(n))
    BY <1>5, <1>6, <1>9, <2>2, <2>3 DEF Proceeds, SameBut, EndFields
  <2>5. s' = z /\ n' = n /\ Serves13(c', s', n, z.pc, Tail(From13ClientCert(n)))
    BY <1>4, <2>1, <2>4, ServesOn13
  <2>6. ~Shows(n)
    BY <1>2, <1>11 DEF Shows
  <2>7. From13ClientVerify(n) = From13ClientFin(n) /\ To13ClientVerify(n) = To13ClientCert(n)
    BY <2>6, Transcripts DEF From13ClientVerify, Then
  <2> QED
    BY <1>8, <2>3, <2>4, <2>5, <2>7 DEF ServesFinished13, Full13
<1> QED
  BY <1>10, <1>11

\* readClientVerify13 to the Finished message,
LEMMA ReadsClientVerify13 ==
    ASSUME Going, readClientVerify13
    PROVE  Setting' = Setting /\ Full13(c', s', Setting)
<1> DEFINE n == Setting
           x == Record(s, "certificateVerify")
           t == sendSessionTickets(x)
           z == [t EXCEPT !.pc = "clientFinished13"]
<1>1. ServesVerify13(c, s, n)
  BY Stages DEF Going, readClientVerify13, Receives
<1>2. Body(c) = To13ClientCert(n)
  BY <1>1, ServerHears, Hearing
<1>3. /\ Serves13(c, s, n, "clientVerify13", From13ClientVerify(n)) /\ Shows(n)
      /\ s.transcript = To13ClientCert(n) /\ s.session = None
  BY <1>1 DEF ServesVerify13
<1>4. ServerStep(z)
  BY <1>2, <1>3 DEF readClientVerify13
<1>5. DOMAIN s = EndFields /\ s.in = Key13("client", n)
  BY <1>3, TakenServes13
<1>6. /\ DOMAIN x = EndFields /\ SameBut(x, s, {"transcript"})
      /\ x.transcript = Append(s.transcript, "certificateVerify")
  BY <1>5 DEF Record, SameBut, EndFields
<1>7. To13ClientVerify(n) = Append(To13ClientCert(n), "certificateVerify")
  BY <1>3, Transcripts
<1>8. Tail(From13ClientVerify(n)) = From13ClientFin(n)
  BY <1>3, EmptySeqs, Records13 DEF Starts
<1> HIDE DEF x
<1>9. /\ DOMAIN t = EndFields /\ SameBut(t, x, {"clientFinished", "transcript", "resumption", "wire"})
      /\ t.clientFinished = Proof(x.in, x.transcript)
  BY <1>6, SendsSessionTickets
<1> HIDE DEF t
<1>10. DOMAIN z = EndFields /\ SameBut(z, t, {"pc"}) /\ z.pc = "clientFinished13"
  BY <1>9 DEF SameBut, EndFields
<1> HIDE DEF z
<1>11. Proceeds(z, n) /\ z.in = s.in /\ z.clientFinished = Proof(Key13("client", n), To13ClientVerify(n))
  BY <1>3, <1>5, <1>6, <1>7, <1>9, <1>10 DEF Proceeds, SameBut, EndFields
<1>12. s' = z /\ n' = n /\ Serves13(c', s', n, z.pc, Tail(From13ClientVerify(n)))
  BY <1>3, <1>4, <1>11, ServesOn13
<1> QED
  BY <1>8, <1>10, <1>11, <1>12 DEF ServesFinished13, Full13

\* and readClientFinished13 to the end of the handshake.
LEMMA ReadsClientFinished13 ==
    ASSUME Going, readClientFinished13
    PROVE  Full(c', s', Setting')
<1> DEFINE n == Setting
<1>1. ServesFinished13(c, s, n)
  BY Stages DEF Going, readClientFinished13, Receives
<1>2. Body(c) = Proof(Key13("client", n), To13ClientVerify(n))
  <2>1. Hears(s, c, "finished", Proof(Key13("client", n), To13ClientVerify(n)))
    BY <1>1, ServerHears
  <2> QED
    BY <2>1, Hearing
<1>3. /\ Serves13(c, s, n, "clientFinished13", From13ClientFin(n))
      /\ s.clientFinished = Proof(Key13("client", n), To13ClientVerify(n))
  BY <1>1 DEF ServesFinished13
<1>4. ServerStep([Done(s) EXCEPT !.in = s.traffic])
  BY <1>2, <1>3 DEF readClientFinished13
<1>5. s'.pc = "done" /\ c' = Taken(c)
  BY <1>3, <1>4, TakenServes13 DEF ServerStep, Done, EndFields
<1> QED
  BY <1>3, <1>5, TakenServes13 DEF Full
-----------------------------------------------------------------------------
(* The hellos *)

\* What the inner hello holds,
LEMMA InnerFields ==
    ASSUME NEW h, DOMAIN h = HelloFields
    PROVE  LET x == InnerHello(h) IN
           /\ DOMAIN x = HelloFields
           /\ x.versions = <<13>> /\ x.suites = <<"aes128", "aes256", "chacha">>
           /\ x.curves = h.curves /\ x.shares = h.shares /\ x.generation = h.generation
           /\ x.ems = h.ems /\ x.alpn = h.alpn /\ x.ech = h.ech /\ x.tickets = h.tickets
           /\ x.random = "inner" /\ x.ticket = None /\ x.psk = None
BY DEF InnerHello, HelloFields

\* and the second one.
LEMMA RetriedFields ==
    ASSUME NEW n, NEW group
    PROVE  LET x == Retried(n, group) IN
           /\ DOMAIN x = HelloFields
           /\ x.versions = n.client.versions /\ x.suites = n.client.suites
           /\ x.curves = n.client.curves /\ x.shares = <<group>>
           /\ x.generation = 2 /\ x.ems = n.client.ems /\ x.alpn = n.client.alpn
           /\ x.ech = n.client.ech /\ x.tickets = OffersTickets(n.client)
           /\ x.random = "outer" /\ x.ticket = None /\ x.psk = None
<1> DEFINE h == Offer(n)
<1>1. /\ DOMAIN h = HelloFields
      /\ h.versions = n.client.versions /\ h.suites = n.client.suites
      /\ h.curves = n.client.curves /\ h.shares = n.client.shares
      /\ h.generation = 1 /\ h.ems = n.client.ems /\ h.alpn = n.client.alpn
      /\ h.ech = n.client.ech /\ h.tickets = OffersTickets(n.client)
      /\ h.random = "outer" /\ h.ticket = None /\ h.psk = None
  BY OfferFields
<1>2. Retried(n, group) = [h EXCEPT !.shares = <<group>>, !.generation = 2]
  BY DEF Retried
<1> HIDE DEF h
<1> QED
  BY <1>1, <1>2 DEF HelloFields

\* The hello that the server goes by.
LEMMA HeardFields ==
    ASSUME NEW n, NEW h, DOMAIN h = HelloFields, h.random = "outer", h.ticket = None, h.psk = None
    PROVE  LET x == Heard(n, h) IN
           /\ DOMAIN x = HelloFields
           /\ IF n.client.ech # 0 THEN x.versions = <<13>> /\ x.suites = <<"aes128", "aes256", "chacha">>
              ELSE x.versions = h.versions /\ x.suites = h.suites
           /\ x.curves = h.curves /\ x.shares = h.shares /\ x.generation = h.generation
           /\ x.ems = h.ems /\ x.alpn = h.alpn /\ x.ech = h.ech /\ x.tickets = h.tickets
           /\ x.random = IF n.client.ech # 0 THEN "inner" ELSE "outer"
           /\ x.ticket = None /\ x.psk = None
BY InnerFields DEF Heard

\* Its name in the transcript.
LEMMA HeardName ==
    ASSUME NEW n, NEW h, DOMAIN h = HelloFields, h.random = "outer", h.ticket = None, h.psk = None
    PROVE  LET x == Heard(n, h) IN
           /\ (x.random = "inner") <=> (n.client.ech # 0)
           /\ HelloName(x) = IF n.client.ech # 0 THEN "innerHello" ELSE "clientHello"
<1>1. Heard(n, h).random = IF n.client.ech # 0 THEN "inner" ELSE "outer"
  BY HeardFields
<1> QED
  BY <1>1 DEF HelloName

\* The fields of a ServerHello, and their values before any is set.
AnswerFields ==
    {"vers", "suite", "canary", "echo", "ems", "tickets", "alpn", "staple", "group", "share", "psk", "ech"}

\* An empty ServerHello.
LEMMA ServerHelloFields ==
    /\ DOMAIN ServerHello = AnswerFields
    /\ ServerHello.vers = 0 /\ ServerHello.suite = None /\ ServerHello.canary = FALSE
    /\ ServerHello.echo = FALSE /\ ServerHello.ems = FALSE /\ ServerHello.tickets = FALSE
    /\ ServerHello.alpn = None /\ ServerHello.staple = FALSE /\ ServerHello.group = None
    /\ ServerHello.share = None /\ ServerHello.psk = FALSE /\ ServerHello.ech = <<>>
BY DEF ServerHello, AnswerFields

\* An end that has not begun.
LEMMA IdleUnused == Unused(Idle) /\ Idle.pc = "start"
BY DEF Idle, Unused, HasWire, EndFields, WireFields

\* The configurations, by the assumptions on the constants.
LEMMA ConfigFields ==
    ASSUME ccfg \in ClientConfigs, scfg \in ServerConfigs
    PROVE  /\ ccfg.versions \in Seq({12, 13}) /\ ccfg.alpn \in Seq({"h2", "http/1.1"})
           /\ ccfg.shares \in Seq(Groups) /\ ccfg.curves \subseteq Groups
           /\ ccfg.ech # 0 => 13 \in ToSet(ccfg.versions) /\ Suites13 \subseteq ToSet(ccfg.suites)
           /\ scfg.suites \in Seq(Suites12) /\ scfg.curves \in Seq(Groups)
           /\ scfg.alpn \in Seq({"h2", "http/1.1"})
<1>1. ccfg \in ClientConfig /\ scfg \in ServerConfig
  BY ConfigAssumption
<1>2. ccfg.ech # 0 => 13 \in ToSet(ccfg.versions)
  BY EchAssumption
<1>3. ccfg.ech # 0 => Suites13 \subseteq ToSet(ccfg.suites)
  BY <1>2, SuitesAssumption
<1> QED
  BY <1>1, <1>2, <1>3 DEF ClientConfig, ServerConfig

\* What the server reads, and what the configurations promise of it.
LEMMA HelloRead ==
    ASSUME Fine, NEW n, n.client = ccfg
    PROVE  /\ processECHClientHello(Offer(n)) = Heard(n, Offer(n))
           /\ processECHClientHello(ClientHello(ccfg, None)) = Heard(n, Offer(n))
<1>1. ClientHello(ccfg, None) = Offer(n)
  BY DEF Offer
<1>2. Offer(n).ech = ccfg.ech
  BY OfferFields
<1>3. ccfg.ech # 0 => AcceptsECH(Offer(n))
  BY <1>1 DEF Fine, Compatible
<1>4. AcceptsECH(Offer(n)) <=> ccfg.ech # 0
  BY <1>2, <1>3 DEF AcceptsECH
<1> HIDE DEF Fine
<1> QED
  BY <1>1, <1>4 DEF processECHClientHello, Heard

\* The versions, suites, groups and protocols of ends that go together.
LEMMA FineFacts ==
    ASSUME Fine, NEW n, n.client = ccfg, NEW hello, hello = Heard(n, Offer(n)),
           NEW vers, vers = FirstIn(hello.versions, ToSet(scfg.versions)),
           NEW group, group = selectedGroup(hello)
    PROVE  /\ vers # None /\ negotiateALPN(scfg.alpn, hello.alpn) # "error"
           /\ vers = 12 =>
                /\ pickCipherSuite(hello) # None /\ ~InappropriateFallback(hello)
                /\ 13 \notin ToSet(hello.versions) \cap ToSet(scfg.versions)
           /\ vers = 13 =>
                /\ FirstIn(Prefers13(hello), ToSet(hello.suites)) # None
                /\ group # None /\ keyShareKey(ccfg) # None
                /\ IF group \notin ToSet(hello.shares)
                   THEN group \notin Hybrid /\ (ccfg.ech # 0 => ccfg.golang)
                   ELSE keyShareKey(ccfg) = IF group \in Hybrid THEN "x25519" ELSE group
<1>1. processECHClientHello(ClientHello(ccfg, None)) = hello
  BY HelloRead
<1>2. Retries <=> group \notin ToSet(hello.shares)
  BY <1>1 DEF Retries
<1> QED
  BY <1>1, <1>2 DEF Fine, Compatible
-----------------------------------------------------------------------------
(* The first steps *)

\* clientHandshake sends the hello, with a session or without one.
LEMMA Begins ==
    ASSUME Going, clientHandshake
    PROVE  c'.session # None \/ (Setting' = Setting /\ Opens(c', s', Setting))
<1> DEFINE n == Setting
           session == loadSession(ccfg)
           hello == ClientHello(ccfg, session)
           w == Write(c, Msg("clientHello", hello))
           share == [group |-> keyShareKey(ccfg), generation |-> 1]
           e == [w EXCEPT !.pc = "serverHello", !.hello = hello, !.session = session, !.share = share]
<1>1. c.pc = "start" /\ c' = e /\ UNCHANGED <<config, s>>
  BY DEF clientHandshake
<1>2. Opens(c, s, n)
  BY <1>1, Stages DEF Going
<1>3. Unused(c) /\ s.pc \in {"start", "clientHello"} /\ Unused(s)
  BY <1>1, <1>2 DEF Opens, Opened
<1>4. n' = n /\ n.client = ccfg
  BY <1>1, SettingStays, SettingIs
<1>5. DOMAIN c = EndFields /\ HasWire(c, None, FALSE, <<>>, <<>>)
  BY <1>3 DEF Unused
<1> HIDE DEF session, hello, share
<1>6. /\ DOMAIN w = EndFields /\ SameBut(w, c, {"wire"})
      /\ HasWire(w, None, FALSE, <<>>, Append(<<>>, Rec("clientHello", hello, None)))
  BY <1>5, Unbuffered
<1> HIDE DEF w
<1>7. /\ DOMAIN e = EndFields /\ SameBut(e, w, {"pc", "hello", "session", "share"})
      /\ e.pc = "serverHello" /\ e.hello = hello /\ e.session = session /\ e.share = share
  BY <1>6 DEF SameBut, EndFields
<1> HIDE DEF e
<1>8. CASE session # None
  BY <1>1, <1>7, <1>8
<1>9. CASE session = None
  <2>1. hello = Offer(n)
    BY <1>4, <1>9 DEF hello, Offer
  <2>2. Append(<<>>, Rec("clientHello", hello, None)) = <<Rec("clientHello", Offer(n), None)>>
    BY <2>1
  <2>3. HasWire(e, None, FALSE, <<>>, <<Rec("clientHello", Offer(n), None)>>)
    BY <1>6, <1>7, <2>2 DEF HasWire, SameBut, EndFields
  <2>4. /\ e.in = None /\ e.suite = None /\ e.flight = 0 /\ e.certReq = FALSE /\ e.echRejected = FALSE
    BY <1>3, <1>6, <1>7 DEF Unused, SameBut, EndFields
  <2>5. Opened(e, n, <<Rec("clientHello", Offer(n), None)>>)
    BY <1>4, <1>7, <1>9, <2>1, <2>3, <2>4 DEF Opened, share
  <2> QED
    BY <1>1, <1>3, <1>4, <2>5 DEF Opens
<1> QED
  BY <1>8, <1>9

\* serverHandshake waits for it.
LEMMA ServerBegins ==
    ASSUME Going, serverHandshake
    PROVE  Setting' = Setting /\ Opens(c', s', Setting)
<1> DEFINE n == Setting
           r == [s EXCEPT !.pc = "clientHello"]
<1>1. s.pc = "start" /\ s' = r /\ UNCHANGED <<config, cache, founded, c>>
  BY DEF serverHandshake
<1>2. Opens(c, s, n)
  BY <1>1, Stages DEF Going
<1>3. Unused(s) /\ DOMAIN s = EndFields
  BY <1>2 DEF Opens, Unused
<1>4. DOMAIN r = EndFields /\ SameBut(r, s, {"pc"}) /\ r.pc = "clientHello"
  BY <1>3 DEF SameBut, EndFields
<1> HIDE DEF r
<1>5. n' = n
  BY <1>1, <1>3, <1>4, ServerGoesAlone
<1>6. Unused(r)
  BY <1>3, <1>4 DEF Unused, HasWire, SameBut, EndFields
<1> QED
  BY <1>1, <1>2, <1>4, <1>5, <1>6 DEF Opens

\* Short sequences.
LEMMA AppendOne == ASSUME NEW a, NEW b PROVE Append(<<>>, a) = <<a>> /\ Append(<<a>>, b) = <<a, b>>
<1>1. Append(<<>>, a) = <<a>>
  OBVIOUS
<1>2. Append(<<a>>, b) = [i \in 1 .. 2 |-> IF i = 1 THEN a ELSE b]
  BY SMT
<1>3. <<a, b>> = [i \in 1 .. 2 |-> IF i = 1 THEN a ELSE b]
  BY SMT
<1> QED
  BY <1>1, <1>2, <1>3

\* The end b writes on as y, with the transcript t, and q is still to come.
Sends(y, b, whole, t, q) ==
    /\ DOMAIN y = EndFields /\ SameBut(y, b, {"wire", "transcript"})
    /\ y.transcript = t /\ Emitting(y, None, whole, q)

\* It writes the next record.
LEMMA SendsNext ==
    ASSUME NEW b, NEW whole, NEW y, NEW t, NEW q, Sends(y, b, whole, t, q), NEW kind, NEW body, NEW w, IsSeq(w),
           Leads(q, Rec(kind, body, None), w), NEW z, z = WriteRecorded(y, kind, body), NEW v, v = Append(t, kind)
    PROVE  Sends(z, b, whole, v, w)
<1>1. /\ DOMAIN y = EndFields /\ SameBut(y, b, {"wire", "transcript"}) /\ y.transcript = t
      /\ Emitting(y, None, whole, <<Rec(kind, body, None)>> \o w)
  BY DEF Sends, Leads
<1>2. /\ DOMAIN z = EndFields /\ SameBut(z, y, {"wire", "transcript"})
      /\ z.transcript = Append(y.transcript, kind) /\ Emitting(z, None, whole, w)
  BY <1>1, Emits
<1>3. SameBut(z, b, {"wire", "transcript"})
  BY <1>1, <1>2 DEF SameBut
<1> QED
  BY <1>1, <1>2, <1>3 DEF Sends

\* The ServerHello of a full handshake.
FullAnswer12(e, suite) ==
    [e.serverHello EXCEPT !.suite = suite, !.staple = scfg.staple,
                          !.tickets = e.hello.tickets /\ ~scfg.ticketsDisabled]
\* The end e has answered as x.
Answering12(x, e, n) ==
    /\ DOMAIN x = EndFields /\ SameBut(x, e, {"wire", "transcript", "suite", "serverHello", "pc"})
    /\ x.suite = n.suite /\ x.serverHello = n.serverHello /\ x.transcript = ToDone(n)
    /\ x.pc = IF Asks(n) THEN "clientCertificate12" ELSE "clientKeyExchange"
    /\ HasWire(x, None, FALSE, <<>>, FromHello(n))
\* The flight of the server of TLS 1.2 is the one that the client reads.
LEMMA FullFlight12 ==
    ASSUME NEW e, NEW suite, DOMAIN e = EndFields, HasWire(e, None, FALSE, <<>>, <<>>), e.transcript = <<>>,
           NEW n, n.server = scfg, n.suite = suite,
           n.serverHello = FullAnswer12(e, suite),
           NEW x, x = doFullHandshake12(e, suite)
    PROVE  Answering12(x, e, n)
<1> DEFINE hello == FullAnswer12(e, suite)
           b == Buffer(e)
           b1 == [b EXCEPT !.suite = suite, !.serverHello = hello]
           b2 == Record(b1, "clientHello")
           x0 == WriteRecorded(b2, "serverHello", hello)
           x1 == WriteRecorded(x0, "certificate", scfg.trusted)
           x2 == IF hello.staple THEN WriteRecorded(x1, "certificateStatus", None) ELSE x1
           x3 == IF suite # "rsa" THEN WriteRecorded(x2, "serverKeyExchange", None) ELSE x2
           x4 == IF scfg.clientAuth >= RequestClientCert
                 THEN WriteRecorded(x3, "certificateRequest", None) ELSE x3
           x5 == WriteRecorded(x4, "serverHelloDone", None)
           f == flush(x5)
           pc == IF scfg.clientAuth >= RequestClientCert THEN "clientCertificate12" ELSE "clientKeyExchange"
           whole == FromHello(n)
<1>1. x = [f EXCEPT !.pc = pc]
  BY DEF doFullHandshake12, FullAnswer12
<1>2. DOMAIN b = EndFields /\ SameBut(b, e, {"wire"}) /\ HasWire(b, None, TRUE, <<>>, <<>>)
  BY Rewires
<1> HIDE DEF b, hello
<1>3. /\ DOMAIN b1 = EndFields /\ SameBut(b1, b, {"suite", "serverHello"})
      /\ b1.suite = suite /\ b1.serverHello = hello
  BY <1>2 DEF SameBut, EndFields
<1> HIDE DEF b1
<1>4. DOMAIN b2 = EndFields /\ SameBut(b2, b1, {"transcript"}) /\ b2.transcript = Append(b1.transcript, "clientHello")
  BY <1>3 DEF Record, SameBut, EndFields
<1> HIDE DEF b2
<1>5. /\ SameBut(b2, e, {"wire", "transcript", "suite", "serverHello"})
      /\ b2.suite = suite /\ b2.serverHello = hello /\ b2.transcript = <<"clientHello">>
      /\ HasWire(b2, None, TRUE, <<>>, <<>>)
  <2>1. b1.transcript = <<>> /\ b2.wire = b.wire /\ b2.suite = suite /\ b2.serverHello = hello
    BY <1>2, <1>3, <1>4 DEF SameBut, EndFields
  <2>2. Append(b1.transcript, "clientHello") = <<"clientHello">>
    BY <2>1
  <2>3. SameBut(b2, e, {"wire", "transcript", "suite", "serverHello"})
    BY <1>2, <1>3, <1>4 DEF SameBut
  <2> QED
    BY <1>2, <1>4, <2>1, <2>2, <2>3 DEF HasWire
<1>7. /\ IsSeq(FromCertificate(n)) /\ IsSeq(FromStatus(n)) /\ IsSeq(FromExchange(n)) /\ IsSeq(FromRequest(n))
      /\ IsSeq(HelloDone) /\ IsSeq(whole)
  BY Flights12, HeadThen DEF FromHello
<1>8. Sends(b2, b2, whole, <<"clientHello">>, whole)
  <2>1. Emitting(b2, None, whole, whole)
    BY <1>5, <1>7, NothingMore, EmptySeqs DEF Emitting
  <2> QED
    BY <1>4, <1>5, <2>1 DEF SameBut, Sends
<1>9. n.serverHello = hello
  BY DEF hello
<1>10. Sends(x0, b2, whole, Hellos, FromCertificate(n))
  <2>1. Leads(whole, Rec("serverHello", hello, None), FromCertificate(n))
    BY <1>9 DEF Leads, FromHello
  <2>2. Append(<<"clientHello">>, "serverHello") = Hellos
    BY AppendOne DEF Hellos
  <2> HIDE DEF whole
  <2> QED
    BY <1>7, <1>8, <2>1, <2>2, SendsNext
<1> HIDE DEF x0
<1>11. Sends(x1, b2, whole, ToCertificate, FromStatus(n))
  <2>1. Leads(FromCertificate(n), Rec("certificate", scfg.trusted, None), FromStatus(n))
    BY DEF Leads, FromCertificate
  <2> DEFINE body == scfg.trusted
  <2> HIDE DEF body
  <2> QED
    BY <1>7, <1>10, <2>1, SendsNext DEF ToCertificate, body
<1> HIDE DEF x1
<1>12. Sends(x2, b2, whole, ToStatus(n), FromExchange(n))
  <2>1. CASE hello.staple
    <3>1. Leads(FromStatus(n), Rec("certificateStatus", None, None), FromExchange(n))
      BY <1>9, <2>1 DEF Leads, FromStatus, Then
    <3>2. ToStatus(n) = Append(ToCertificate, "certificateStatus")
      BY <1>9, <2>1, Transcripts
    <3>3. x2 = WriteRecorded(x1, "certificateStatus", None)
      BY <2>1
    <3>4. Sends(WriteRecorded(x1, "certificateStatus", None), b2, whole, Append(ToCertificate, "certificateStatus"), FromExchange(n))
      BY <1>7, <1>11, <3>1, SendsNext
    <3> HIDE DEF x2
    <3> QED
      BY <3>2, <3>3, <3>4
  <2>2. CASE ~hello.staple
    <3>1. FromStatus(n) = FromExchange(n) /\ ToStatus(n) = ToCertificate
      BY <1>9, <2>2, Transcripts DEF FromStatus, Then
    <3> QED
      BY <1>11, <2>2, <3>1
  <2> QED
    BY <2>1, <2>2
<1> HIDE DEF x2
<1>13. Sends(x3, b2, whole, ToExchange(n), FromRequest(n))
  <2>1. CASE suite # "rsa"
    <3>1. Leads(FromExchange(n), Rec("serverKeyExchange", None, None), FromRequest(n))
      BY <2>1 DEF Leads, FromExchange, Then
    <3>2. ToExchange(n) = Append(ToStatus(n), "serverKeyExchange")
      BY <2>1, Transcripts
    <3>3. x3 = WriteRecorded(x2, "serverKeyExchange", None)
      BY <2>1
    <3>4. Sends(WriteRecorded(x2, "serverKeyExchange", None), b2, whole, Append(ToStatus(n), "serverKeyExchange"), FromRequest(n))
      BY <1>7, <1>12, <3>1, SendsNext
    <3> HIDE DEF x3
    <3> QED
      BY <3>2, <3>3, <3>4
  <2>2. CASE suite = "rsa"
    <3>1. FromExchange(n) = FromRequest(n) /\ ToExchange(n) = ToStatus(n)
      BY <2>2, Transcripts DEF FromExchange, Then
    <3> QED
      BY <1>12, <2>2, <3>1
  <2> QED
    BY <2>1, <2>2
<1> HIDE DEF x3
<1>14. Asks(n) <=> scfg.clientAuth >= RequestClientCert
  BY DEF Asks
<1>15. Sends(x4, b2, whole, ToRequest(n), HelloDone)
  <2>1. CASE Asks(n)
    <3>1. Leads(FromRequest(n), Rec("certificateRequest", None, None), HelloDone)
      BY <2>1 DEF Leads, FromRequest, Then
    <3>2. ToRequest(n) = Append(ToExchange(n), "certificateRequest")
      BY <2>1, Transcripts
    <3>3. x4 = WriteRecorded(x3, "certificateRequest", None)
      BY <1>14, <2>1
    <3>4. Sends(WriteRecorded(x3, "certificateRequest", None), b2, whole, Append(ToExchange(n), "certificateRequest"), HelloDone)
      BY <1>7, <1>13, <3>1, SendsNext
    <3> HIDE DEF x4
    <3> QED
      BY <3>2, <3>3, <3>4
  <2>2. CASE ~Asks(n)
    <3>1. FromRequest(n) = HelloDone /\ ToRequest(n) = ToExchange(n)
      BY <2>2, Transcripts DEF FromRequest, Then
    <3>2. x4 = x3
      BY <1>14, <2>2
    <3> HIDE DEF x4
    <3> QED
      BY <1>13, <3>1, <3>2
  <2> QED
    BY <2>1, <2>2
<1> HIDE DEF x4, whole
<1>16. /\ DOMAIN x5 = EndFields /\ SameBut(x5, b2, {"wire", "transcript"})
       /\ x5.transcript = ToDone(n) /\ Emitting(x5, None, whole, <<>>)
  <2>1. /\ DOMAIN x4 = EndFields /\ SameBut(x4, b2, {"wire", "transcript"}) /\ x4.transcript = ToRequest(n)
        /\ Emitting(x4, None, whole, HelloDone)
    BY <1>15 DEF Sends
  <2>2. Emitting(x4, None, whole, <<Rec("serverHelloDone", None, None)>>)
    BY <2>1 DEF HelloDone
  <2>3. /\ DOMAIN x5 = EndFields /\ SameBut(x5, x4, {"wire", "transcript"})
        /\ x5.transcript = Append(x4.transcript, "serverHelloDone") /\ Emitting(x5, None, whole, <<>>)
    BY <2>1, <2>2, EmitsLast
  <2>4. ToDone(n) = Append(ToRequest(n), "serverHelloDone")
    BY Transcripts
  <2> HIDE DEF x5
  <2>5. SameBut(x5, b2, {"wire", "transcript"})
    BY <2>1, <2>3 DEF SameBut
  <2> QED
    BY <2>1, <2>3, <2>4, <2>5
<1> HIDE DEF x5
<1>17. DOMAIN f = EndFields /\ SameBut(f, x5, {"wire"}) /\ HasWire(f, None, FALSE, <<>>, whole)
  BY <1>16, Emitted
<1> HIDE DEF f
<1>18. DOMAIN x = EndFields /\ SameBut(x, f, {"pc"}) /\ x.pc = pc
  BY <1>1, <1>17 DEF SameBut, EndFields
<1>19. SameBut(x, b2, {"wire", "transcript", "pc"}) /\ x.wire = f.wire /\ x.transcript = ToDone(n)
  BY <1>16, <1>17, <1>18 DEF SameBut, EndFields
<1>20. SameBut(x, e, {"wire", "transcript", "suite", "serverHello", "pc"})
  BY <1>5, <1>19 DEF SameBut
<1>21. x.suite = suite /\ x.serverHello = n.serverHello
  BY <1>5, <1>9, <1>19 DEF SameBut, EndFields
<1>22. HasWire(x, None, FALSE, <<>>, whole)
  BY <1>17, <1>19 DEF HasWire
<1> QED
  BY <1>14, <1>18, <1>19, <1>20, <1>21, <1>22 DEF whole, Answering12

\* The protocol that the server selects is one the client offered.
LEMMA ALPNFits ==
    ASSUME scfg \in ServerConfigs, ccfg \in ClientConfigs, NEW alpn, alpn = negotiateALPN(scfg.alpn, ccfg.alpn),
           alpn # "error"
    PROVE  checkALPN(ccfg.alpn, alpn)
<1> DEFINE f == FirstIn(scfg.alpn, ToSet(ccfg.alpn))
<1>1. f = None \/ f \in ToSet(ccfg.alpn)
  BY ConfigFields, FirstFound
<1> HIDE DEF f
<1>2. alpn = None \/ alpn = f
  BY DEF negotiateALPN, f
<1> QED
  BY <1>1, <1>2 DEF checkALPN

\* The server reads the first hello.
LEMMA HelloArrives ==
    ASSUME Going, readClientHello
    PROVE  LET hello == Heard(Setting, Offer(Setting))
               vers == FirstIn(hello.versions, ToSet(scfg.versions))
               x == [s EXCEPT !.vers = vers, !.hello = hello]
           IN
           /\ vers \in {12, 13}
           /\ vers = 12 => ccfg.ech = 0 /\ 12 \in ToSet(ccfg.versions)
           /\ vers = 13 => 13 \in ToSet(ccfg.versions)
           /\ ServerStep(IF vers = 13 THEN ServerHandshake13(x) ELSE ServerHandshake12(x))
           /\ \A m : m.client = ccfg => Opened(Taken(c), m, <<>>)
           /\ DOMAIN x = EndFields /\ x.vers = vers /\ x.hello = hello /\ Unused(x)
           /\ x.alpn = s.alpn /\ x.share = s.share
<1> DEFINE n == Setting
           hello == Heard(n, Offer(n))
           vers == FirstIn(hello.versions, ToSet(scfg.versions))
           x == [s EXCEPT !.vers = vers, !.hello = hello]
           r == Rec("clientHello", Offer(n), None)
<1>1. Opens(c, s, n) /\ s.pc = "clientHello" /\ c.wire.sent # <<>>
  BY Stages DEF Going, readClientHello, Receives
<1>2. Hears(s, c, "clientHello", Offer(n)) /\ Opened(c, n, <<r>>) /\ Unused(s) /\ DOMAIN s = EndFields
  BY <1>1, ServerHears DEF Opens, Unused
<1>3. Body(c) = Offer(n)
  BY <1>2, Hearing
<1>4. n.client = ccfg /\ Fine /\ ccfg \in ClientConfigs /\ scfg \in ServerConfigs
  BY SettingIs DEF Going
<1>5. processECHClientHello(Body(c)) = hello
  BY <1>3, <1>4, HelloRead
<1>6. /\ DOMAIN hello = HelloFields
      /\ IF ccfg.ech # 0 THEN hello.versions = <<13>> ELSE hello.versions = ccfg.versions
  BY <1>4, OfferFields, HeardFields
<1>7. vers # None
  <2>1. \A group, v : group = selectedGroup(hello) /\ v = vers => v # None
    BY <1>4, FineFacts
  <2> QED
    BY <2>1
<1> HIDE DEF hello
<1>8. /\ vers \in {12, 13}
      /\ vers = 12 => ccfg.ech = 0 /\ 12 \in ToSet(ccfg.versions)
      /\ vers = 13 => 13 \in ToSet(ccfg.versions)
  <2>1. CASE ccfg.ech # 0
    <3>1. <<13>> \in Seq({13})
      OBVIOUS
    <3>2. hello.versions \in Seq({13})
      BY <1>6, <2>1, <3>1
    <3>3. vers = 13
      BY <1>7, <3>2, FirstFound
    <3> QED
      BY <1>4, <2>1, <3>3, ConfigFields
  <2>2. CASE ccfg.ech = 0
    <3>1. hello.versions = ccfg.versions /\ ccfg.versions \in Seq({12, 13})
      BY <1>4, <1>6, <2>2, ConfigFields
    <3>2. vers \in {12, 13} /\ vers \in ToSet(ccfg.versions)
      BY <1>7, <3>1, FirstFound
    <3> QED
      BY <2>2, <3>2
  <2> QED
    BY <2>1, <2>2
<1>9. ServerStep(IF vers = 13 THEN ServerHandshake13(x) ELSE ServerHandshake12(x))
  BY <1>5, <1>7 DEF readClientHello
<1>10. ASSUME NEW m, m.client = ccfg PROVE Opened(Taken(c), m, <<>>)
  <2>1. DOMAIN c = EndFields /\ HasWire(c, None, FALSE, <<>>, <<r>>)
    BY <1>2 DEF Opened
  <2>2. Tail(<<r>>) = <<>>
    BY OneRecord
  <2>3. /\ DOMAIN Taken(c) = EndFields /\ SameBut(Taken(c), c, {"wire"})
        /\ HasWire(Taken(c), None, FALSE, <<>>, Tail(<<r>>))
    BY <2>1, Rewires
  <2>4. HasWire(Taken(c), None, FALSE, <<>>, <<>>)
    BY <2>2, <2>3
  <2>5. Offer(m) = Offer(n) /\ m.client = n.client
    BY <1>4, <1>10 DEF Offer
  <2> QED
    BY <1>2, <2>3, <2>4, <2>5 DEF Opened, SameBut, EndFields
<1>11. /\ DOMAIN x = EndFields /\ x.vers = vers /\ x.hello = hello /\ SameBut(x, s, {"vers", "hello"})
  BY <1>2 DEF SameBut, EndFields
<1> HIDE DEF x
<1>12. Unused(x) /\ x.alpn = s.alpn /\ x.share = s.share
  BY <1>2, <1>11 DEF Unused, HasWire, SameBut, EndFields
<1> QED
  BY <1>8, <1>9, <1>10, <1>11, <1>12 DEF x, hello

\* The setting after a step that answers.
LEMMA SettingBecomes ==
    ASSUME UNCHANGED config
    PROVE  Setting' = [attempt |-> attempt, client |-> ccfg, server |-> scfg, hello |-> s'.hello,
                       serverHello |-> s'.serverHello, suite |-> s'.suite, alpn |-> s'.alpn]
BY DEF Setting, config

\* readClientHello answers with the flight of TLS 1.2.
LEMMA AnswersHello12 ==
    ASSUME Going, readClientHello,
           FirstIn(Heard(Setting, Offer(Setting)).versions, ToSet(scfg.versions)) = 12
    PROVE  Full12(c', s', Setting')
<1> DEFINE hello == Heard(Setting, Offer(Setting))
           x == [s EXCEPT !.vers = 12, !.hello = hello]
           alpn == negotiateALPN(scfg.alpn, hello.alpn)
           suite == pickCipherSuite(hello)
           h0 == [ServerHello EXCEPT !.vers = 12, !.alpn = alpn, !.ems = hello.ems,
                                     !.canary = 13 \in ToSet(scfg.versions)]
           y == [x EXCEPT !.alpn = alpn, !.serverHello = h0]
           z == doFullHandshake12(y, suite)
           h == [h0 EXCEPT !.suite = suite, !.staple = scfg.staple,
                           !.tickets = hello.tickets /\ ~scfg.ticketsDisabled]
           m == [attempt |-> attempt, client |-> ccfg, server |-> scfg, hello |-> hello,
                 serverHello |-> h, suite |-> suite, alpn |-> alpn]
<1>1. /\ ccfg.ech = 0 /\ 12 \in ToSet(ccfg.versions)
      /\ ServerStep(ServerHandshake12(x))
      /\ \A k : k.client = ccfg => Opened(Taken(c), k, <<>>)
      /\ DOMAIN x = EndFields /\ x.vers = 12 /\ x.hello = hello /\ Unused(x)
  BY HelloArrives
<1>2. Setting.client = ccfg /\ Fine /\ ccfg \in ClientConfigs /\ scfg \in ServerConfigs
  BY SettingIs DEF Going
<1>3. /\ DOMAIN hello = HelloFields /\ hello.versions = ccfg.versions /\ hello.suites = ccfg.suites
      /\ hello.ems = ccfg.ems /\ hello.alpn = ccfg.alpn /\ hello.tickets = OffersTickets(ccfg)
      /\ hello.ticket = None
  BY <1>1, <1>2, OfferFields, HeardFields
<1>4. /\ alpn # "error" /\ suite # None /\ ~InappropriateFallback(hello)
      /\ 13 \notin ToSet(hello.versions) \cap ToSet(scfg.versions)
  <2> DEFINE v == FirstIn(hello.versions, ToSet(scfg.versions))
             group == selectedGroup(hello)
  <2>1. v = 12
    OBVIOUS
  <2> HIDE DEF group
  <2> QED
    BY <1>2, <2>1, FineFacts
<1> HIDE DEF hello
<1>5. checkForResumption12(hello) = None
  BY <1>3 DEF checkForResumption12, decryptTicket
<1>6. ServerStep(z)
  <2>1. ServerHandshake12(x) = z
    <3> HIDE DEF x
    <3> QED
      BY <1>1, <1>4, <1>5 DEF ServerHandshake12, h0
  <2> QED
    BY <1>1, <2>1
<1> HIDE DEF x
<1>7. /\ DOMAIN h0 = AnswerFields /\ h0.vers = 12 /\ h0.alpn = alpn /\ h0.ems = hello.ems
      /\ (h0.canary => 13 \in ToSet(scfg.versions))
  BY ServerHelloFields DEF AnswerFields
<1> HIDE DEF h0, alpn, suite
<1>8. /\ DOMAIN y = EndFields /\ SameBut(y, x, {"alpn", "serverHello"}) /\ y.alpn = alpn /\ y.serverHello = h0
  BY <1>1 DEF SameBut, EndFields
<1> HIDE DEF y
<1>9. y.transcript = <<>> /\ HasWire(y, None, FALSE, <<>>, <<>>) /\ y.hello = hello
  BY <1>1, <1>8 DEF Unused, HasWire, SameBut, EndFields
<1>10. /\ h.vers = 12 /\ h.alpn = alpn /\ h.ems = hello.ems /\ (h.canary => 13 \in ToSet(scfg.versions))
       /\ h.suite = suite /\ (h.tickets => hello.tickets)
  BY <1>7 DEF AnswerFields
<1>11. h = FullAnswer12(y, suite)
  BY <1>8, <1>9 DEF FullAnswer12
<1> HIDE DEF h
<1>12. /\ m.client = ccfg /\ m.server = scfg /\ m.hello = hello /\ m.serverHello = h /\ m.suite = suite
       /\ m.alpn = alpn
  OBVIOUS
<1>13. /\ DOMAIN z = EndFields /\ SameBut(z, y, {"wire", "transcript", "suite", "serverHello", "pc"})
       /\ z.suite = suite /\ z.serverHello = h /\ z.transcript = ToDone(m)
       /\ z.pc = IF Asks(m) THEN "clientCertificate12" ELSE "clientKeyExchange"
       /\ HasWire(z, None, FALSE, <<>>, FromHello(m))
  <2> HIDE DEF z, m
  <2>1. z = doFullHandshake12(y, suite)
    BY DEF z
  <2>2. m.serverHello = FullAnswer12(y, suite)
    BY <1>11, <1>12
  <2>3. m.server = scfg /\ m.suite = suite
    BY <1>12
  <2>4. DOMAIN y = EndFields /\ HasWire(y, None, FALSE, <<>>, <<>>) /\ y.transcript = <<>>
    BY <1>8, <1>9
  <2>5. Answering12(z, y, m)
    BY <2>1, <2>2, <2>3, <2>4, FullFlight12
  <2> QED
    BY <1>12, <2>5 DEF Answering12
<1>14. z.hello = hello /\ z.alpn = alpn /\ z.vers = 12 /\ z.session = None /\ z.in = None /\ z.peerCert = "none"
  <2> HIDE DEF z
  <2> QED
    BY <1>1, <1>8, <1>9, <1>13 DEF Unused, SameBut, EndFields
<1>15. s' = z /\ c' = Taken(c) /\ UNCHANGED config
  BY <1>6 DEF ServerStep
<1> HIDE DEF z
<1>16. Setting' = m
  BY <1>13, <1>14, <1>15, SettingBecomes
<1> HIDE DEF m
<1>17. Sent12(s', m, FromHello(m))
  <2>1. Server12(z, m)
    BY <1>3, <1>10, <1>12, <1>13, <1>14 DEF Server12
  <2> QED
    BY <1>13, <1>14, <1>15, <2>1 DEF Sent12
<1>18. Readable12(m.serverHello, m)
  <2>1. suite \in ToSet(ccfg.suites)
    <3>1. scfg.suites \in Seq(Suites12)
      BY <1>2, ConfigFields
    <3>2. suite \in {u \in ToSet(hello.suites) : cipherSuiteOk(u, hello)}
      BY <1>4, <3>1, FirstFound DEF suite, pickCipherSuite
    <3> QED
      BY <1>3, <3>2
  <2>2. checkALPN(ccfg.alpn, alpn)
    BY <1>2, <1>3, <1>4, ALPNFits DEF alpn
  <2>3. ~(13 \in ToSet(ccfg.versions) /\ h.canary)
    BY <1>3, <1>4, <1>10
  <2> QED
    BY <1>1, <1>10, <1>12, <2>1, <2>2, <2>3 DEF Readable12
<1>19. Opened(c', m, <<>>)
  BY <1>1, <1>12, <1>15
<1> QED
  BY <1>16, <1>17, <1>18, <1>19 DEF Full12, Answers12
-----------------------------------------------------------------------------
(* The hellos of TLS 1.3 at the server *)

\* Two more messages.
LEMMA TwoMore ==
    ASSUME NEW t, IsSeq(t), NEW a, NEW b
    PROVE  t \o <<a, b>> = Append(Append(t, a), b)
<1> DEFINE u == Append(t, a)
           w == <<b>>
<1>1. IsSeq(u)
  BY AppendSeq
<1>2. IsSeq(w) /\ IsSeq(<<>>)
  BY OneRecord, EmptySeqs
<1>3. w = <<b>> \o <<>>
  BY OneRecord
<1>4. Append(<<a>>, b) = <<a, b>>
  BY AppendOne
<1>5. Append(<<a>>, b) \o <<>> = <<a>> \o (<<b>> \o <<>>)
  BY <1>2, OneRecord, AppendThen
<1>6. Append(<<a>>, b) \o <<>> = Append(<<a>>, b)
  BY OneRecord, AppendSeq, NothingMore
<1> HIDE DEF w
<1>7. <<a>> \o w = <<a, b>>
  BY <1>3, <1>4, <1>5, <1>6
<1>8. Append(t, a) \o w = t \o (<<a>> \o w)
  BY <1>2, AppendThen
<1> HIDE DEF u
<1>9. Append(u, b) \o <<>> = u \o (<<b>> \o <<>>)
  BY <1>1, <1>2, AppendThen
<1>10. Append(u, b) \o <<>> = Append(u, b)
  BY <1>1, AppendSeq, NothingMore
<1>11. Append(u, b) = u \o w
  BY <1>3, <1>9, <1>10
<1> QED
  BY <1>7, <1>8, <1>11 DEF u

\* The ServerHello of sendServerParameters.
SharedHello(e, share) ==
    [e.serverHello EXCEPT !.share = share.group, !.psk = e.session # None,
                          !.ech = IF HelloName(e.hello) = "innerHello"
                                  THEN e.transcript \o <<HelloName(e.hello), "serverHello">> ELSE <<>>]

\* What it holds.
LEMMA SharedHelloFields ==
    ASSUME NEW e, NEW share, DOMAIN e.serverHello = AnswerFields, e.session = None, IsSeq(e.transcript)
    PROVE  LET h == SharedHello(e, share) IN
           /\ h.vers = e.serverHello.vers /\ h.suite = e.serverHello.suite /\ h.echo = e.serverHello.echo
           /\ h.share = share.group /\ h.psk = FALSE
           /\ h.ech = IF HelloName(e.hello) = "innerHello"
                      THEN Append(Append(e.transcript, HelloName(e.hello)), "serverHello") ELSE <<>>
<1> DEFINE name == HelloName(e.hello)
           ech == IF name = "innerHello" THEN e.transcript \o <<name, "serverHello">> ELSE <<>>
           h == SharedHello(e, share)
<1>1. h = [e.serverHello EXCEPT !.share = share.group, !.psk = FALSE, !.ech = ech]
  BY DEF SharedHello
<1>2. ech = IF name = "innerHello" THEN Append(Append(e.transcript, name), "serverHello") ELSE <<>>
  <2> HIDE DEF name
  <2>1. e.transcript \o <<name, "serverHello">> = Append(Append(e.transcript, name), "serverHello")
    BY TwoMore
  <2> QED
    BY <2>1
<1> HIDE DEF h, ech
<1>3. /\ h.vers = e.serverHello.vers /\ h.suite = e.serverHello.suite /\ h.echo = e.serverHello.echo
      /\ h.share = share.group /\ h.psk = FALSE /\ h.ech = ech
  BY <1>1 DEF AnswerFields
<1> QED
  BY <1>2, <1>3 DEF h

\* What a transcript holds before the hello that the server answers.
BeforeHello(n) == IF n.hello.generation = 2 THEN AtRetry(n) ELSE <<>>

\* The transcript up to the ServerHello.
LEMMA HelloTranscript ==
    ASSUME NEW n
    PROVE  /\ IsSeq(BeforeHello(n))
           /\ To13Hello(n) = Append(Append(BeforeHello(n), HelloName(n.hello)), "serverHello")
<1>1. IsSeq(HashOf(n))
  BY OneRecord DEF HashOf, MessageHash
<1>2. IsSeq(AtRetry(n))
  BY <1>1, AppendSeq DEF AtRetry
<1> QED
  BY <1>2, EmptySeqs DEF BeforeHello, To13Hello

\* The end e has written the record r into its buffer, after b, as x.
Wrote(x, e, kind, r, out, b) ==
    /\ DOMAIN x = EndFields /\ SameBut(x, e, {"wire", "transcript"})
    /\ x.transcript = Append(e.transcript, kind) /\ HasWire(x, out, TRUE, Append(b, r), <<>>)

\* Writing does that.
LEMMA Writes ==
    ASSUME NEW e, DOMAIN e = EndFields, NEW out, NEW b, HasWire(e, out, TRUE, b, <<>>),
           NEW kind, NEW body, NEW x, x = WriteRecorded(e, kind, body)
    PROVE  Wrote(x, e, kind, Rec(kind, body, out), out, b)
<1>1. /\ DOMAIN x = EndFields /\ SameBut(x, e, {"wire", "transcript"})
      /\ x.transcript = Append(e.transcript, kind)
      /\ HasWire(x, out, TRUE, Append(b, Rec(kind, body, out)), <<>>)
  BY Buffered
<1> QED
  BY <1>1 DEF Wrote

\* The end e has sent the parameters as x.
Parameters(x, e, n) ==
    /\ DOMAIN x = EndFields /\ SameBut(x, e, {"wire", "serverHello", "transcript", "secret", "in"})
    /\ x.serverHello = n.serverHello /\ x.transcript = To13Extensions(n)
    /\ x.secret = Master13(n) /\ x.in = Key13("client", n)
    /\ HasWire(x, Key13("server", n), TRUE, Begun(n), <<>>)

\* sendServerParameters does that.
LEMMA SendsParameters ==
    ASSUME NEW e, DOMAIN e = EndFields, HasWire(e, None, FALSE, <<>>, <<>>), e.session = None,
           NEW share, NEW n, n.attempt = attempt, n.hello = e.hello, n.alpn = e.alpn,
           n.serverHello = SharedHello(e, share), e.transcript = BeforeHello(n),
           share = [group |-> n.serverHello.share, generation |-> n.hello.generation],
           NEW x, x = sendServerParameters(e, share)
    PROVE  Parameters(x, e, n)
<1> DEFINE name == HelloName(e.hello)
           hello == SharedHello(e, share)
           b == Buffer(e)
           b1 == [b EXCEPT !.serverHello = hello]
           b2 == Record(b1, name)
           x0 == WriteRecorded(b2, "serverHello", hello)
           sec == masterSecret13(IF e.session = None THEN None ELSE e.session.secret, share)
           y == [x0 EXCEPT !.secret = sec]
           z == [y EXCEPT !.in = Key("client", "handshake", y), !.wire.out = Key("server", "handshake", y)]
           r0 == Rec("serverHello", n.serverHello, None)
           key == Key13("server", n)
           r1 == Rec("encryptedExtensions", n.alpn, key)
<1>1. x = WriteRecorded(z, "encryptedExtensions", e.alpn)
  BY DEF sendServerParameters, SharedHello
<1>2. DOMAIN b = EndFields /\ SameBut(b, e, {"wire"}) /\ HasWire(b, None, TRUE, <<>>, <<>>)
  BY Rewires
<1> HIDE DEF b, hello, name
<1>3. DOMAIN b1 = EndFields /\ SameBut(b1, b, {"serverHello"}) /\ b1.serverHello = hello
  BY <1>2 DEF SameBut, EndFields
<1> HIDE DEF b1
<1>4. DOMAIN b2 = EndFields /\ SameBut(b2, b1, {"transcript"}) /\ b2.transcript = Append(b1.transcript, name)
  BY <1>3 DEF Record, SameBut, EndFields
<1> HIDE DEF b2
<1>5. /\ SameBut(b2, e, {"wire", "transcript", "serverHello"}) /\ b2.serverHello = hello
      /\ b2.transcript = Append(BeforeHello(n), name) /\ HasWire(b2, None, TRUE, <<>>, <<>>)
  BY <1>2, <1>3, <1>4 DEF SameBut, EndFields, HasWire
<1>6. /\ DOMAIN x0 = EndFields /\ SameBut(x0, b2, {"wire", "transcript"})
      /\ x0.transcript = Append(b2.transcript, "serverHello")
      /\ HasWire(x0, None, TRUE, Append(<<>>, Rec("serverHello", hello, None)), <<>>)
  <2>1. Wrote(x0, b2, "serverHello", Rec("serverHello", hello, None), None, <<>>)
    BY <1>4, <1>5, Writes
  <2> HIDE DEF x0
  <2> QED
    BY <2>1 DEF Wrote
<1>7. n.serverHello = hello
  BY DEF hello
<1> HIDE DEF x0
<1>8. /\ SameBut(x0, e, {"wire", "transcript", "serverHello"}) /\ x0.serverHello = n.serverHello
      /\ x0.transcript = To13Hello(n)
  <2>1. x0.transcript = Append(Append(BeforeHello(n), name), "serverHello")
    BY <1>5, <1>6
  <2>2. x0.transcript = To13Hello(n)
    BY <2>1, HelloTranscript DEF name
  <2> QED
    BY <1>5, <1>6, <1>7, <2>2 DEF SameBut, EndFields
<1>9. HasWire(x0, None, TRUE, <<r0>>, <<>>)
  <2>1. Append(<<>>, r0) = <<r0>>
    BY AppendOne
  <2> QED
    BY <1>6, <1>7, <2>1
<1>10. sec = Master13(n)
  BY DEF masterSecret13, Master13
<1> HIDE DEF sec, r0
<1>11. DOMAIN y = EndFields /\ SameBut(y, x0, {"secret"}) /\ y.secret = Master13(n)
  BY <1>6, <1>10 DEF SameBut, EndFields
<1> HIDE DEF y
<1>12. y.transcript = To13Hello(n) /\ HasWire(y, None, TRUE, <<r0>>, <<>>)
  BY <1>8, <1>9, <1>11 DEF SameBut, EndFields, HasWire
<1>13. Key("client", "handshake", y) = Key13("client", n) /\ Key("server", "handshake", y) = key
  BY <1>11, <1>12 DEF Key, Key13
<1> HIDE DEF key
<1>14. /\ DOMAIN z = EndFields /\ SameBut(z, y, {"in", "wire"}) /\ z.in = Key13("client", n)
       /\ z.wire = [y.wire EXCEPT !.out = key]
  BY <1>11, <1>13 DEF SameBut, EndFields
<1> HIDE DEF z
<1>15. HasWire(z, key, TRUE, <<r0>>, <<>>)
  BY <1>12, <1>14 DEF HasWire, WireFields
<1>16. /\ DOMAIN x = EndFields /\ SameBut(x, z, {"wire", "transcript"})
       /\ x.transcript = Append(z.transcript, "encryptedExtensions")
       /\ HasWire(x, key, TRUE, Append(<<r0>>, Rec("encryptedExtensions", e.alpn, key)), <<>>)
  <2>1. Wrote(x, z, "encryptedExtensions", Rec("encryptedExtensions", e.alpn, key), key, <<r0>>)
    BY <1>1, <1>14, <1>15, Writes
  <2> QED
    BY <2>1 DEF Wrote
<1>17. Append(<<r0>>, Rec("encryptedExtensions", e.alpn, key)) = Begun(n)
  BY AppendOne DEF Begun, r0, key
<1>18. x.transcript = To13Extensions(n)
  <2>1. z.transcript = To13Hello(n)
    BY <1>12, <1>14 DEF SameBut, EndFields
  <2> QED
    BY <1>16, <2>1 DEF To13Extensions
<1>19. SameBut(x, e, {"wire", "serverHello", "transcript", "secret", "in"})
  BY <1>8, <1>11, <1>14, <1>16 DEF SameBut
<1>20. x.serverHello = n.serverHello /\ x.secret = Master13(n) /\ x.in = Key13("client", n)
  BY <1>8, <1>11, <1>14, <1>16 DEF SameBut, EndFields
<1> QED
  BY <1>16, <1>17, <1>18, <1>19, <1>20 DEF Parameters, key

\* The same of the whole handshake function, once a key share is known.
Certifying(x, e, n) ==
    /\ DOMAIN x = EndFields
    /\ SameBut(x, e, {"wire", "serverHello", "transcript", "secret", "in", "alpn", "base", "peerCert", "verified", "pc", "session"})
    /\ x.serverHello = n.serverHello /\ x.transcript = To13Extensions(n) /\ x.alpn = n.alpn
    /\ x.secret = Master13(n) /\ x.in = Key13("client", n)
    /\ x.session = None /\ x.peerCert = "none" /\ x.pc = "sendServerCertificate"
    /\ HasWire(x, Key13("server", n), TRUE, Begun(n), <<>>)

\* ServerFlight13 does that.
LEMMA SendsFlightOf13 ==
    ASSUME NEW e, DOMAIN e = EndFields, HasWire(e, None, FALSE, <<>>, <<>>), e.session = None,
           e.hello.psk = None, NEW share, NEW n, n.attempt = attempt, n.hello = e.hello,
           n.alpn = negotiateALPN(scfg.alpn, e.hello.alpn), n.alpn # "error",
           n.serverHello = SharedHello(e, share), e.transcript = BeforeHello(n),
           share = [group |-> n.serverHello.share, generation |-> n.hello.generation],
           NEW x, x = ServerFlight13(e, share)
    PROVE  Certifying(x, e, n)
<1> DEFINE alpn == negotiateALPN(scfg.alpn, e.hello.alpn)
           y == [e EXCEPT !.alpn = alpn, !.session = None, !.base = None, !.peerCert = "none", !.verified = FALSE]
           z == sendServerParameters(y, share)
<1>1. checkForResumption13(e.hello, e.suite) = None
  BY DEF checkForResumption13
<1>2. x = [z EXCEPT !.pc = "sendServerCertificate"]
  BY <1>1 DEF ServerFlight13
<1>3. /\ DOMAIN y = EndFields /\ SameBut(y, e, {"alpn", "session", "base", "peerCert", "verified"})
      /\ y.alpn = n.alpn /\ y.session = None /\ y.peerCert = "none"
  <2> HIDE DEF alpn
  <2>1. alpn = n.alpn
    BY DEF alpn
  <2> QED
    BY <2>1 DEF SameBut, EndFields
<1> HIDE DEF y
<1>4. HasWire(y, None, FALSE, <<>>, <<>>) /\ n.hello = y.hello /\ y.transcript = BeforeHello(n)
  BY <1>3 DEF SameBut, EndFields, HasWire
<1>5. SharedHello(y, share) = n.serverHello
  <2>1. y.serverHello = e.serverHello /\ y.session = e.session /\ y.hello = e.hello /\ y.transcript = e.transcript
    BY <1>3 DEF SameBut, EndFields
  <2> QED
    BY <2>1 DEF SharedHello
<1>6. Parameters(z, y, n)
  BY <1>3, <1>4, <1>5, SendsParameters
<1> HIDE DEF z
<1>7. DOMAIN z = EndFields
  BY <1>6 DEF Parameters
<1>8. DOMAIN x = EndFields /\ SameBut(x, z, {"pc"}) /\ x.pc = "sendServerCertificate"
  BY <1>2, <1>7 DEF SameBut, EndFields
<1>9. SameBut(x, e, {"wire", "serverHello", "transcript", "secret", "in", "alpn", "base", "peerCert", "verified", "pc", "session"})
  BY <1>3, <1>6, <1>8 DEF SameBut, Parameters
<1>10. HasWire(x, Key13("server", n), TRUE, Begun(n), <<>>)
  BY <1>6, <1>8 DEF Parameters, HasWire, SameBut, EndFields
<1>11. /\ x.serverHello = n.serverHello /\ x.transcript = To13Extensions(n) /\ x.alpn = n.alpn
       /\ x.secret = Master13(n) /\ x.in = Key13("client", n) /\ x.session = None /\ x.peerCert = "none"
  BY <1>3, <1>6, <1>8 DEF Parameters, SameBut, EndFields
<1> QED
  BY <1>8, <1>9, <1>10, <1>11 DEF Certifying

\* What the server picks for TLS 1.3 is something the client can do.
LEMMA PreferredSuites == ASSUME NEW hello PROVE Prefers13(hello) \in Seq(Suites13)
<1>1. Suites13 = {"aes128", "aes256", "chacha"}
  BY DEF Suites13, Hash
<1>2. /\ <<"aes128", "aes256", "chacha">> \in Seq({"aes128", "aes256", "chacha"})
      /\ <<"chacha", "aes128", "aes256">> \in Seq({"aes128", "aes256", "chacha"})
  OBVIOUS
<1> QED
  BY <1>1, <1>2 DEF Prefers13

\* A group the server selects is one that the client supports.
LEMMA GroupOffered ==
    ASSUME scfg.curves \in Seq(Groups), NEW hello, selectedGroup(hello) # None
    PROVE  selectedGroup(hello) \in hello.curves
<1> DEFINE common == ToSet(scfg.curves) \cap hello.curves
           hybrids == IF common \cap Hybrid # {} THEN common \cap Hybrid ELSE common
           shared == hybrids \cap ToSet(hello.shares)
           T == IF shared # {} THEN shared ELSE hybrids
<1>1. T \subseteq hello.curves
  OBVIOUS
<1>2. selectedGroup(hello) = FirstIn(scfg.curves, T)
  BY DEF selectedGroup
<1> HIDE DEF T
<1> QED
  BY <1>1, <1>2, FirstFound

\* The suite, the group and the protocol of TLS 1.3.
LEMMA Picks13 ==
    ASSUME Fine, ccfg \in ClientConfigs, scfg \in ServerConfigs, NEW n, n.client = ccfg,
           NEW hello, hello = Heard(n, Offer(n)), FirstIn(hello.versions, ToSet(scfg.versions)) = 13,
           NEW suite, suite = FirstIn(Prefers13(hello), ToSet(hello.suites)),
           NEW group, group = selectedGroup(hello)
    PROVE  /\ suite # None /\ suite \in ToSet(ccfg.suites) \cap Suites13
           /\ group # None /\ group \in ccfg.curves /\ keyShareKey(ccfg) # None
           /\ negotiateALPN(scfg.alpn, hello.alpn) # "error"
           /\ checkALPN(ccfg.alpn, negotiateALPN(scfg.alpn, hello.alpn))
           /\ hello.shares = ccfg.shares /\ hello.generation = 1 /\ hello.psk = None
           /\ group \in ToSet(ccfg.shares) => keyShareKey(ccfg) = IF group \in Hybrid THEN "x25519" ELSE group
           /\ group \notin ToSet(ccfg.shares) => group \notin Hybrid /\ (ccfg.ech # 0 => ccfg.golang)
<1>1. /\ IF ccfg.ech # 0 THEN TRUE ELSE hello.suites = ccfg.suites
      /\ hello.curves = ccfg.curves /\ hello.shares = ccfg.shares /\ hello.generation = 1
      /\ hello.alpn = ccfg.alpn /\ hello.psk = None
  BY OfferFields, HeardFields
<1>2. /\ negotiateALPN(scfg.alpn, hello.alpn) # "error"
      /\ FirstIn(Prefers13(hello), ToSet(hello.suites)) # None
      /\ group # None /\ keyShareKey(ccfg) # None
      /\ IF group \notin ToSet(hello.shares)
         THEN group \notin Hybrid /\ (ccfg.ech # 0 => ccfg.golang)
         ELSE keyShareKey(ccfg) = IF group \in Hybrid THEN "x25519" ELSE group
  <2> DEFINE v == FirstIn(hello.versions, ToSet(scfg.versions))
  <2>1. v = 13
    OBVIOUS
  <2> HIDE DEF v
  <2>2. v = FirstIn(hello.versions, ToSet(scfg.versions))
    BY DEF v
  <2> QED
    BY <2>1, <2>2, FineFacts
<1>3. suite # None
  BY <1>2
<1>4. suite \in Suites13 /\ suite \in ToSet(hello.suites)
  <2>1. Prefers13(hello) \in Seq(Suites13)
    BY PreferredSuites
  <2> QED
    BY <1>3, <2>1, FirstFound
<1>5. ccfg.ech # 0 => Suites13 \subseteq ToSet(ccfg.suites)
  BY ConfigFields
<1>6. suite \in ToSet(ccfg.suites)
  BY <1>1, <1>4, <1>5
<1>7. group \in ccfg.curves
  BY <1>1, <1>2, ConfigFields, GroupOffered
<1>8. checkALPN(ccfg.alpn, negotiateALPN(scfg.alpn, hello.alpn))
  BY <1>1, <1>2, ALPNFits
<1> QED
  BY <1>1, <1>2, <1>3, <1>4, <1>6, <1>7, <1>8

\* The server goes on with a share of the first hello.
LEMMA TakesShare ==
    ASSUME Going, readClientHello, NEW hello, hello = Heard(Setting, Offer(Setting)),
           FirstIn(hello.versions, ToSet(scfg.versions)) = 13, selectedGroup(hello) \in ToSet(ccfg.shares)
    PROVE  Certifies(c', s', Setting')
<1> DEFINE x == [s EXCEPT !.vers = 13, !.hello = hello]
           suite == FirstIn(Prefers13(hello), ToSet(hello.suites))
           group == selectedGroup(hello)
           alpn == negotiateALPN(scfg.alpn, hello.alpn)
           h0 == [ServerHello EXCEPT !.vers = 13, !.suite = suite, !.echo = TRUE]
           y == [x EXCEPT !.suite = suite, !.serverHello = h0]
           share == [group |-> group, generation |-> hello.generation]
           z == ServerFlight13(y, share)
           h == SharedHello(y, share)
           m == [attempt |-> attempt, client |-> ccfg, server |-> scfg, hello |-> hello,
                 serverHello |-> h, suite |-> suite, alpn |-> alpn]
<1>1. /\ 13 \in ToSet(ccfg.versions)
      /\ ServerStep(ServerHandshake13(x))
      /\ \A k : k.client = ccfg => Opened(Taken(c), k, <<>>)
      /\ DOMAIN x = EndFields /\ x.vers = 13 /\ x.hello = hello /\ Unused(x)
  BY HelloArrives
<1>2. Setting.client = ccfg /\ Fine /\ ccfg \in ClientConfigs /\ scfg \in ServerConfigs
  BY SettingIs DEF Going
<1>3. /\ suite # None /\ suite \in ToSet(ccfg.suites) \cap Suites13
      /\ group # None /\ group \in ccfg.curves /\ keyShareKey(ccfg) # None
      /\ alpn # "error" /\ checkALPN(ccfg.alpn, alpn)
      /\ hello.shares = ccfg.shares /\ hello.generation = 1 /\ hello.psk = None
      /\ keyShareKey(ccfg) = IF group \in Hybrid THEN "x25519" ELSE group
  BY <1>2, Picks13
<1>4. ServerStep(z)
  <2>1. ServerHandshake13(x) = z
    <3> HIDE DEF x
    <3> QED
      BY <1>1, <1>3 DEF ServerHandshake13
  <2> QED
    BY <1>1, <2>1
<1> HIDE DEF x, suite, group, alpn
<1>5. DOMAIN h0 = AnswerFields /\ h0.vers = 13 /\ h0.suite = suite /\ h0.echo = TRUE
  BY ServerHelloFields DEF AnswerFields
<1> HIDE DEF h0
<1>6. /\ DOMAIN y = EndFields /\ SameBut(y, x, {"suite", "serverHello"}) /\ y.suite = suite /\ y.serverHello = h0
  BY <1>1 DEF SameBut, EndFields
<1> HIDE DEF y
<1>7. /\ y.transcript = <<>> /\ HasWire(y, None, FALSE, <<>>, <<>>) /\ y.hello = hello /\ y.session = None
      /\ y.vers = 13
  BY <1>1, <1>6 DEF Unused, HasWire, SameBut, EndFields
<1>8. share.group = group /\ share.generation = hello.generation
  OBVIOUS
<1>9. /\ h.vers = 13 /\ h.suite = suite /\ h.echo = TRUE /\ h.share = group /\ h.psk = FALSE
      /\ h.ech = IF HelloName(hello) = "innerHello"
                 THEN Append(Append(y.transcript, HelloName(hello)), "serverHello") ELSE <<>>
  <2>1. DOMAIN y.serverHello = AnswerFields /\ IsSeq(y.transcript)
    BY <1>5, <1>6, <1>7, EmptySeqs
  <2> HIDE DEF share
  <2>2. LET k == SharedHello(y, share) IN
        /\ k.vers = y.serverHello.vers /\ k.suite = y.serverHello.suite /\ k.echo = y.serverHello.echo
        /\ k.share = share.group /\ k.psk = FALSE
        /\ k.ech = IF HelloName(y.hello) = "innerHello"
                   THEN Append(Append(y.transcript, HelloName(y.hello)), "serverHello") ELSE <<>>
    BY <1>7, <2>1, SharedHelloFields
  <2> HIDE DEF h
  <2>3. h = SharedHello(y, share)
    BY DEF h
  <2> QED
    BY <1>5, <1>6, <1>7, <1>8, <2>2, <2>3
<1>10. h = SharedHello(y, share) /\ share = [group |-> h.share, generation |-> hello.generation]
  BY <1>9
<1> HIDE DEF h, share
<1>11. /\ m.attempt = attempt /\ m.client = ccfg /\ m.server = scfg /\ m.hello = hello /\ m.serverHello = h
       /\ m.suite = suite /\ m.alpn = alpn
  OBVIOUS
<1> HIDE DEF m
<1>12. BeforeHello(m) = <<>>
  BY <1>3, <1>11 DEF BeforeHello
<1>13. Certifying(z, y, m)
  <2> HIDE DEF z
  <2>1. z = ServerFlight13(y, share)
    BY DEF z
  <2>2. share = [group |-> m.serverHello.share, generation |-> m.hello.generation]
    BY <1>10, <1>11
  <2>3. /\ m.hello = y.hello /\ m.serverHello = SharedHello(y, share) /\ y.transcript = BeforeHello(m)
        /\ m.alpn = negotiateALPN(scfg.alpn, y.hello.alpn) /\ m.alpn # "error" /\ y.hello.psk = None
    BY <1>3, <1>7, <1>10, <1>11, <1>12 DEF alpn
  <2> QED
    BY <1>6, <1>7, <1>11, <2>1, <2>2, <2>3, SendsFlightOf13
<1>14. s' = z /\ c' = Taken(c) /\ UNCHANGED config
  BY <1>4 DEF ServerStep
<1> HIDE DEF z
<1>15. z.hello = hello /\ z.suite = suite /\ z.vers = 13
  BY <1>6, <1>7, <1>13 DEF Certifying, SameBut, EndFields
<1>16. Setting' = m
  <2>1. z.serverHello = h /\ z.alpn = alpn
    BY <1>11, <1>13 DEF Certifying
  <2> QED
    BY <1>14, <1>15, <2>1, SettingBecomes DEF m
<1>17. hello = Heard(m, Offer(m))
  BY <1>2, <1>11 DEF Heard, Offer
<1>18. h.ech = IF ccfg.ech # 0 THEN To13Hello(m) ELSE <<>>
  <2>1. HelloName(hello) = IF ccfg.ech # 0 THEN "innerHello" ELSE "clientHello"
    BY <1>11, <1>17, OfferFields, HeardName
  <2>2. To13Hello(m) = Append(Append(<<>>, HelloName(hello)), "serverHello")
    BY <1>11, <1>12, HelloTranscript
  <2> QED
    BY <1>7, <1>9, <2>1, <2>2
<1>19. Server13(z, m)
  <2>1. Chosen13(h, m) /\ Offers13(m)
    BY <1>1, <1>3, <1>9, <1>11 DEF Chosen13, Offers13
  <2> QED
    BY <1>3, <1>9, <1>11, <1>13, <1>15, <1>18, <2>1 DEF Server13, Certifying
<1>20. Awaits(c', m)
  <2>1. Opened(c', m, <<>>)
    BY <1>1, <1>11, <1>14
  <2>2. h.share \in ToSet(m.client.shares)
    BY <1>9, <1>11 DEF group
  <2> QED
    BY <1>3, <1>9, <1>11, <1>17, <2>1, <2>2 DEF Awaits
<1> QED
  BY <1>13, <1>14, <1>16, <1>19, <1>20 DEF Certifies, Certifying

\* The server asks for another share.
Asking(x, e, m, group) ==
    /\ DOMAIN x = EndFields /\ SameBut(x, e, {"wire", "transcript", "pc", "share"})
    /\ x.transcript = AtRetry(m) /\ x.pc = "clientHello2" /\ x.share = group
    /\ HasWire(x, None, FALSE, <<>>, <<Rec("helloRetryRequest", RetryRequest(x, m), None)>>)

\* doHelloRetryRequest does that.
LEMMA SendsRetryRequest ==
    ASSUME NEW e, DOMAIN e = EndFields, HasWire(e, None, FALSE, <<>>, <<>>), NEW group,
           NEW m, m.hello = e.hello, m.serverHello = e.serverHello,
           NEW x, x = doHelloRetryRequest(e, group)
    PROVE  Asking(x, e, m, group)
<1> DEFINE hash == MessageHash(HelloName(e.hello))
           hello == [e.serverHello EXCEPT !.group = group,
                                          !.ech = IF e.hello.random = "inner" THEN hash ELSE <<>>]
           b == [e EXCEPT !.transcript = hash]
           w == WriteRecorded(b, "helloRetryRequest", hello)
<1>1. x = [w EXCEPT !.pc = "clientHello2", !.share = group]
  BY DEF doHelloRetryRequest
<1>2. hash = HashOf(m)
  BY DEF HashOf
<1> HIDE DEF hash
<1>3. DOMAIN b = EndFields /\ SameBut(b, e, {"transcript"}) /\ b.transcript = hash
  BY DEF SameBut, EndFields
<1> HIDE DEF b, hello
<1>4. HasWire(b, None, FALSE, <<>>, <<>>)
  BY <1>3 DEF HasWire, SameBut, EndFields
<1> DEFINE q == <<>>
           r == Rec("helloRetryRequest", hello, None)
<1>5. DOMAIN w = EndFields /\ SameBut(w, b, {"wire", "transcript"})
      /\ w.transcript = Append(b.transcript, "helloRetryRequest")
      /\ HasWire(w, None, FALSE, <<>>, Append(q, r))
  <2> HIDE DEF q
  <2>1. HasWire(b, None, FALSE, q, q)
    BY <1>4 DEF q
  <2>2. /\ DOMAIN w = EndFields /\ SameBut(w, b, {"wire", "transcript"})
        /\ w.transcript = Append(b.transcript, "helloRetryRequest")
        /\ HasWire(w, None, FALSE, q, Append(q, r))
    BY <1>3, <2>1, Unbuffered
  <2> HIDE DEF w
  <2> QED
    BY <2>2 DEF q
<1> HIDE DEF w
<1>6. /\ DOMAIN x = EndFields /\ SameBut(x, w, {"pc", "share"}) /\ x.pc = "clientHello2" /\ x.share = group
  BY <1>1, <1>5 DEF SameBut, EndFields
<1>7. RetryRequest(x, m) = hello
  BY <1>2, <1>6 DEF RetryRequest, hello
<1>8. Append(q, r) = <<Rec("helloRetryRequest", RetryRequest(x, m), None)>>
  BY <1>7
<1>9. HasWire(x, None, FALSE, <<>>, <<Rec("helloRetryRequest", RetryRequest(x, m), None)>>)
  <2> DEFINE t == <<Rec("helloRetryRequest", RetryRequest(x, m), None)>>
  <2>1. HasWire(w, None, FALSE, <<>>, t)
    BY <1>5, <1>8
  <2> HIDE DEF t
  <2>2. HasWire(x, None, FALSE, <<>>, t)
    BY <1>6, <2>1 DEF HasWire, SameBut, EndFields
  <2> QED
    BY <2>2 DEF t
<1>10. x.transcript = AtRetry(m)
  BY <1>2, <1>3, <1>5, <1>6 DEF SameBut, EndFields, AtRetry
<1>11. SameBut(x, e, {"wire", "transcript", "pc", "share"})
  BY <1>3, <1>5, <1>6 DEF SameBut
<1> QED
  BY <1>6, <1>9, <1>10, <1>11 DEF Asking

\* readClientHello asks for a share that the first hello has not.
LEMMA AsksForShare ==
    ASSUME Going, readClientHello, NEW hello, hello = Heard(Setting, Offer(Setting)),
           FirstIn(hello.versions, ToSet(scfg.versions)) = 13, selectedGroup(hello) \notin ToSet(ccfg.shares)
    PROVE  AsksAgain(c', s', Setting')
<1> DEFINE x == [s EXCEPT !.vers = 13, !.hello = hello]
           suite == FirstIn(Prefers13(hello), ToSet(hello.suites))
           group == selectedGroup(hello)
           h0 == [ServerHello EXCEPT !.vers = 13, !.suite = suite, !.echo = TRUE]
           y == [x EXCEPT !.suite = suite, !.serverHello = h0]
           z == doHelloRetryRequest(y, group)
           m == [attempt |-> attempt, client |-> ccfg, server |-> scfg, hello |-> hello,
                 serverHello |-> h0, suite |-> suite, alpn |-> y.alpn]
<1>1. /\ 13 \in ToSet(ccfg.versions)
      /\ ServerStep(ServerHandshake13(x))
      /\ \A k : k.client = ccfg => Opened(Taken(c), k, <<>>)
      /\ DOMAIN x = EndFields /\ x.vers = 13 /\ x.hello = hello /\ Unused(x)
  BY HelloArrives
<1>2. Setting.client = ccfg /\ Fine /\ ccfg \in ClientConfigs /\ scfg \in ServerConfigs
  BY SettingIs DEF Going
<1>3. /\ suite # None /\ suite \in ToSet(ccfg.suites) \cap Suites13
      /\ group # None /\ group \in ccfg.curves /\ keyShareKey(ccfg) # None
      /\ hello.shares = ccfg.shares
      /\ group \notin Hybrid /\ (ccfg.ech # 0 => ccfg.golang)
  BY <1>2, Picks13
<1>4. ServerStep(z)
  <2>1. ServerHandshake13(x) = z
    <3> HIDE DEF x
    <3> QED
      BY <1>1, <1>3 DEF ServerHandshake13
  <2> QED
    BY <1>1, <2>1
<1> HIDE DEF x, suite, group
<1>5. DOMAIN h0 = AnswerFields /\ h0.vers = 13 /\ h0.suite = suite /\ h0.echo = TRUE
  BY ServerHelloFields DEF AnswerFields
<1> HIDE DEF h0
<1>6. /\ DOMAIN y = EndFields /\ SameBut(y, x, {"suite", "serverHello"}) /\ y.suite = suite /\ y.serverHello = h0
  BY <1>1 DEF SameBut, EndFields
<1> HIDE DEF y
<1>7. /\ HasWire(y, None, FALSE, <<>>, <<>>) /\ y.hello = hello /\ y.session = None /\ y.in = None
      /\ y.vers = 13
  BY <1>1, <1>6 DEF Unused, HasWire, SameBut, EndFields
<1>8. /\ m.client = ccfg /\ m.server = scfg /\ m.hello = hello /\ m.serverHello = h0
      /\ m.suite = suite /\ m.alpn = y.alpn
  OBVIOUS
<1> HIDE DEF m
<1>9. Asking(z, y, m, group)
  BY <1>6, <1>7, <1>8, SendsRetryRequest
<1>10. s' = z /\ c' = Taken(c) /\ UNCHANGED config
  BY <1>4 DEF ServerStep
<1> HIDE DEF z
<1>11. /\ z.hello = hello /\ z.suite = suite /\ z.vers = 13 /\ z.serverHello = h0 /\ z.alpn = y.alpn
       /\ z.session = None /\ z.in = None
  BY <1>6, <1>7, <1>9 DEF Asking, SameBut, EndFields
<1>12. Setting' = m
  BY <1>10, <1>11, SettingBecomes DEF m
<1>13. hello = Heard(m, Offer(m))
  BY <1>2, <1>8 DEF Heard, Offer
<1>14. Asked(z, m)
  <2>1. Chosen13(h0, m) /\ Offers13(m)
    BY <1>1, <1>3, <1>5, <1>8 DEF Chosen13, Offers13
  <2>2. m.serverHello = [ServerHello EXCEPT !.vers = 13, !.suite = m.suite, !.echo = TRUE]
    BY <1>8 DEF h0
  <2>3. z.share \in m.client.curves /\ z.share \notin Hybrid \cup ToSet(m.client.shares)
    BY <1>3, <1>8, <1>9 DEF Asking, group
  <2>4. DOMAIN z = EndFields /\ z.pc = "clientHello2" /\ z.transcript = AtRetry(m)
    BY <1>9 DEF Asking
  <2> QED
    BY <1>3, <1>8, <1>11, <1>13, <2>1, <2>2, <2>3, <2>4 DEF Asked
<1>15. Opened(c', m, <<>>)
  BY <1>1, <1>8, <1>10
<1>16. HasWire(z, None, FALSE, <<>>, <<Rec("helloRetryRequest", RetryRequest(z, m), None)>>)
  BY <1>9 DEF Asking
<1> QED
  BY <1>10, <1>12, <1>14, <1>15, <1>16 DEF AsksAgain

\* The server reads the first hello.
LEMMA ReadsClientHello ==
    ASSUME Going, readClientHello
    PROVE  Full(c', s', Setting')
<1> DEFINE hello == Heard(Setting, Offer(Setting))
           vers == FirstIn(hello.versions, ToSet(scfg.versions))
<1>1. vers \in {12, 13}
  BY HelloArrives
<1>2. CASE vers = 12
  BY <1>2, AnswersHello12 DEF Full
<1>3. CASE vers = 13
  <2> HIDE DEF hello
  <2>1. hello = Heard(Setting, Offer(Setting))
    BY DEF hello
  <2>2. CASE selectedGroup(hello) \in ToSet(ccfg.shares)
    <3>1. Certifies(c', s', Setting')
      BY <1>3, <2>1, <2>2, TakesShare
    <3> QED
      BY <3>1 DEF Full, Full13
  <2>3. CASE selectedGroup(hello) \notin ToSet(ccfg.shares)
    <3>1. AsksAgain(c', s', Setting')
      BY <1>3, <2>1, <2>3, AsksForShare
    <3> QED
      BY <3>1 DEF Full, Full13
  <2> QED
    BY <2>2, <2>3
<1> QED
  BY <1>1, <1>2, <1>3

\* The second hello changes nothing but the share.
Filled(h) == h = [f \in HelloFields |-> h[f]]

\* The first hello has just the fields of a hello.
LEMMA OfferFilled == ASSUME NEW n PROVE Filled(Offer(n))
BY DEF Filled, Offer, ClientHello, HelloFields

\* The server finds no illegal change in it.
LEMMA HelloKept ==
    ASSUME NEW n, NEW group
    PROVE  ~illegalClientHelloChange(Heard(n, Offer(n)), Heard(n, Retried(n, group)))
<1> DEFINE o == Offer(n)
           r == Retried(n, group)
           a == Heard(n, o)
           b == Heard(n, r)
           k == [a EXCEPT !.shares = b.shares, !.generation = b.generation, !.psk = b.psk]
<1>1. Filled(o) /\ DOMAIN o = HelloFields /\ o.random = "outer" /\ o.ticket = None /\ o.psk = None
  BY OfferFilled, OfferFields
<1>2. DOMAIN r = HelloFields /\ r.random = "outer" /\ r.ticket = None /\ r.psk = None
  BY RetriedFields
<1>3. Filled(r)
  <2>1. r = [o EXCEPT !.shares = <<group>>, !.generation = 2]
    BY DEF Retried
  <2> HIDE DEF o, r
  <2> QED
    BY <1>1, <2>1 DEF Filled
<1>4. /\ r.versions = o.versions /\ r.suites = o.suites /\ r.curves = o.curves /\ r.ems = o.ems
      /\ r.alpn = o.alpn /\ r.ech = o.ech /\ r.tickets = o.tickets
  BY OfferFields, RetriedFields
<1> HIDE DEF o, r
<1>5. Filled(InnerHello(r))
  BY <1>2 DEF Filled, InnerHello
<1>6. Filled(b)
  BY <1>3, <1>5 DEF Heard
<1>7. /\ DOMAIN a = HelloFields /\ DOMAIN b = HelloFields
      /\ a.versions = b.versions /\ a.suites = b.suites /\ a.curves = b.curves /\ a.ems = b.ems
      /\ a.alpn = b.alpn /\ a.ech = b.ech /\ a.tickets = b.tickets /\ a.random = b.random
      /\ a.ticket = b.ticket
  <2>1. /\ DOMAIN a = HelloFields
        /\ IF n.client.ech # 0 THEN a.versions = <<13>> /\ a.suites = <<"aes128", "aes256", "chacha">>
           ELSE a.versions = o.versions /\ a.suites = o.suites
        /\ a.curves = o.curves /\ a.ems = o.ems /\ a.alpn = o.alpn /\ a.ech = o.ech /\ a.tickets = o.tickets
        /\ a.random = IF n.client.ech # 0 THEN "inner" ELSE "outer"
        /\ a.ticket = None
    BY <1>1, HeardFields
  <2>2. /\ DOMAIN b = HelloFields
        /\ IF n.client.ech # 0 THEN b.versions = <<13>> /\ b.suites = <<"aes128", "aes256", "chacha">>
           ELSE b.versions = r.versions /\ b.suites = r.suites
        /\ b.curves = r.curves /\ b.ems = r.ems /\ b.alpn = r.alpn /\ b.ech = r.ech /\ b.tickets = r.tickets
        /\ b.random = IF n.client.ech # 0 THEN "inner" ELSE "outer"
        /\ b.ticket = None
    BY <1>2, HeardFields
  <2> HIDE DEF a, b
  <2> QED
    BY <1>4, <2>1, <2>2
<1> HIDE DEF a, b
<1>8. Filled(k) /\ DOMAIN k = HelloFields
  BY <1>7 DEF Filled
<1>9. \A f \in HelloFields : k[f] = b[f]
  BY <1>7 DEF HelloFields
<1> HIDE DEF k
<1>10. [f \in HelloFields |-> k[f]] = [f \in HelloFields |-> b[f]]
  BY <1>9
<1>11. k = b
  BY <1>6, <1>8, <1>10 DEF Filled
<1> QED
  BY <1>11 DEF illegalClientHelloChange, k, a, b, o, r

\* readClientHello2 goes on with the share of the second hello.
LEMMA ReadsClientHello2 ==
    ASSUME Going, readClientHello2
    PROVE  Certifies(c', s', Setting')
<1> DEFINE n == Setting
           group == s.share
           hello == Heard(n, Retried(n, group))
           alpn == negotiateALPN(scfg.alpn, hello.alpn)
           y == [s EXCEPT !.hello = hello]
           share == [group |-> group, generation |-> hello.generation]
           z == ServerFlight13(y, share)
           h == SharedHello(y, share)
           m == [attempt |-> attempt, client |-> ccfg, server |-> scfg, hello |-> hello,
                 serverHello |-> h, suite |-> s.suite, alpn |-> alpn]
           r == Rec("clientHello", Retried(n, group), None)
<1>1. OffersAgain(c, s, n)
  BY Stages DEF Going, readClientHello2, Receives
<1>2. Hears(s, c, "clientHello", Retried(n, group))
  BY <1>1, ServerHears
<1>3. Body(c) = Retried(n, group)
  BY <1>2, Hearing
<1>4. /\ n.client = ccfg /\ n.suite = s.suite /\ n.serverHello = s.serverHello /\ n.hello = s.hello
      /\ Fine /\ ccfg \in ClientConfigs /\ scfg \in ServerConfigs
  BY SettingIs DEF Going
<1>5. Asked(s, n) /\ HasWire(s, None, FALSE, <<>>, <<>>) /\ Reopened(c, n, group, n.suite, <<r>>)
  BY <1>1 DEF OffersAgain
<1>6. s.hello = Heard(n, Offer(n)) /\ DOMAIN s = EndFields
  BY <1>4, <1>5 DEF Asked
<1>7. (s.hello.random = "inner") <=> (ccfg.ech # 0)
  BY <1>4, <1>6, OfferFields, HeardName
<1>8. (IF s.hello.random = "inner" THEN InnerHello(Body(c)) ELSE Body(c)) = hello
  BY <1>3, <1>4, <1>7 DEF Heard
<1>9. /\ hello.shares = <<group>> /\ hello.generation = 2 /\ hello.psk = None /\ hello.alpn = ccfg.alpn
      /\ HelloName(hello) = (IF ccfg.ech # 0 THEN "innerHello" ELSE "clientHello")
  BY <1>4, RetriedFields, HeardFields, HeardName
<1>10. ~illegalClientHelloChange(s.hello, hello)
  BY <1>6, HelloKept
<1>11. ServerStep(z)
  <2> HIDE DEF hello
  <2> QED
    BY <1>8, <1>9, <1>10 DEF readClientHello2
<1>12. alpn # "error" /\ checkALPN(ccfg.alpn, alpn)
  <2> DEFINE first == Heard(n, Offer(n))
             v == FirstIn(first.versions, ToSet(scfg.versions))
             g == selectedGroup(first)
  <2>1. first.alpn = ccfg.alpn
    BY <1>4, OfferFields, HeardFields
  <2> HIDE DEF first
  <2>2. first = Heard(n, Offer(n))
    BY DEF first
  <2> HIDE DEF v, g
  <2>3. v = FirstIn(first.versions, ToSet(scfg.versions)) /\ g = selectedGroup(first)
    BY DEF v, g
  <2>4. negotiateALPN(scfg.alpn, first.alpn) # "error"
    BY <1>4, <2>2, <2>3, FineFacts
  <2>5. alpn # "error"
    BY <1>9, <2>1, <2>4
  <2> QED
    BY <1>4, <1>9, <2>5, ALPNFits
<1>13. hello = Heard(n, Retried(n, group))
  OBVIOUS
<1> HIDE DEF hello, alpn, group
<1>14. DOMAIN y = EndFields /\ SameBut(y, s, {"hello"}) /\ y.hello = hello
  BY <1>6 DEF SameBut, EndFields
<1> HIDE DEF y
<1>15. /\ y.transcript = AtRetry(n) /\ HasWire(y, None, FALSE, <<>>, <<>>) /\ y.session = None
       /\ y.vers = 13 /\ y.suite = s.suite /\ y.serverHello = n.serverHello
  <2>1. s.transcript = AtRetry(n) /\ s.session = None /\ s.vers = 13
    BY <1>5 DEF Asked
  <2> QED
    BY <1>4, <1>5, <1>14, <2>1 DEF HasWire, SameBut, EndFields
<1>16. share.group = group /\ share.generation = hello.generation
  OBVIOUS
<1>17. DOMAIN n.serverHello = AnswerFields
  <2>1. n.serverHello = [ServerHello EXCEPT !.vers = 13, !.suite = n.suite, !.echo = TRUE]
    BY <1>5 DEF Asked
  <2> QED
    BY <2>1, ServerHelloFields
<1>18. /\ n.serverHello.vers = 13 /\ n.serverHello.echo /\ n.serverHello.suite \in ToSet(ccfg.suites) \cap Suites13
       /\ n.serverHello.suite = n.suite
  <2>1. n.serverHello = [ServerHello EXCEPT !.vers = 13, !.suite = n.suite, !.echo = TRUE] /\ Chosen13(n.serverHello, n)
    BY <1>5 DEF Asked
  <2> HIDE DEF n
  <2>2. n.serverHello.suite = n.suite
    BY <2>1, ServerHelloFields DEF AnswerFields
  <2> QED
    BY <1>4, <2>1, <2>2 DEF Chosen13
<1>19. /\ h.vers = 13 /\ h.suite = n.suite /\ h.echo /\ h.share = group /\ h.psk = FALSE
       /\ h.ech = IF HelloName(hello) = "innerHello"
                  THEN Append(Append(y.transcript, HelloName(hello)), "serverHello") ELSE <<>>
  <2>1. DOMAIN y.serverHello = AnswerFields /\ IsSeq(y.transcript)
    <3>1. IsSeq(HashOf(n))
      BY OneRecord DEF HashOf, MessageHash
    <3> QED
      BY <1>15, <1>17, <3>1, AppendSeq DEF AtRetry
  <2> HIDE DEF share
  <2>2. LET k == SharedHello(y, share) IN
        /\ k.vers = y.serverHello.vers /\ k.suite = y.serverHello.suite /\ k.echo = y.serverHello.echo
        /\ k.share = share.group /\ k.psk = FALSE
        /\ k.ech = IF HelloName(y.hello) = "innerHello"
                   THEN Append(Append(y.transcript, HelloName(y.hello)), "serverHello") ELSE <<>>
    BY <1>15, <2>1, SharedHelloFields
  <2> HIDE DEF h
  <2>3. h = SharedHello(y, share)
    BY DEF h
  <2> QED
    BY <1>14, <1>15, <1>16, <1>18, <2>2, <2>3
<1>20. h = SharedHello(y, share) /\ share = [group |-> h.share, generation |-> hello.generation]
  BY <1>19
<1> HIDE DEF h, share
<1>21. /\ m.attempt = attempt /\ m.client = ccfg /\ m.server = scfg /\ m.hello = hello /\ m.serverHello = h
       /\ m.suite = s.suite /\ m.alpn = alpn
  OBVIOUS
<1> HIDE DEF m
<1>22. BeforeHello(m) = AtRetry(n)
  <2>1. HelloName(n.hello) = HelloName(hello)
    BY <1>4, <1>6, <1>9, OfferFields, HeardName
  <2>2. AtRetry(m) = AtRetry(n)
    BY <1>21, <2>1 DEF AtRetry, HashOf
  <2> QED
    BY <1>9, <1>21, <2>2 DEF BeforeHello
<1>23. Certifying(z, y, m)
  <2> HIDE DEF z
  <2>1. z = ServerFlight13(y, share)
    BY DEF z
  <2>2. share = [group |-> m.serverHello.share, generation |-> m.hello.generation]
    BY <1>20, <1>21
  <2>3. /\ m.hello = y.hello /\ m.serverHello = SharedHello(y, share) /\ y.transcript = BeforeHello(m)
        /\ m.alpn = negotiateALPN(scfg.alpn, y.hello.alpn) /\ m.alpn # "error" /\ y.hello.psk = None
    BY <1>9, <1>12, <1>14, <1>15, <1>20, <1>21, <1>22 DEF alpn
  <2> QED
    BY <1>14, <1>15, <1>21, <2>1, <2>2, <2>3, SendsFlightOf13
<1>24. s' = z /\ c' = Taken(c) /\ UNCHANGED config
  BY <1>11 DEF ServerStep
<1> HIDE DEF z
<1>25. z.hello = hello /\ z.suite = s.suite /\ z.vers = 13
  BY <1>14, <1>15, <1>23 DEF Certifying, SameBut, EndFields
<1>26. Setting' = m
  <2>1. z.serverHello = h /\ z.alpn = alpn
    BY <1>21, <1>23 DEF Certifying
  <2> QED
    BY <1>24, <1>25, <2>1, SettingBecomes DEF m
<1>27. Retried(m, group) = Retried(n, group) /\ hello = Heard(m, Retried(m, group))
  BY <1>4, <1>13, <1>21 DEF Heard, Retried, Offer
<1>28. h.ech = IF ccfg.ech # 0 THEN To13Hello(m) ELSE <<>>
  <2>1. To13Hello(m) = Append(Append(AtRetry(n), HelloName(hello)), "serverHello")
    BY <1>21, <1>22, HelloTranscript
  <2> QED
    BY <1>9, <1>15, <1>19, <2>1
<1>29. Server13(z, m)
  <2>1. Chosen13(h, m) /\ Offers13(m)
    <3>1. Offers13(n)
      BY <1>5 DEF Asked
    <3> QED
      BY <1>4, <1>18, <1>19, <1>21, <3>1 DEF Chosen13, Offers13
  <2> QED
    BY <1>4, <1>12, <1>19, <1>21, <1>23, <1>25, <1>28, <2>1 DEF Server13, Certifying
<1>30. Awaits(c', m)
  <2>1. Reopened(c', m, group, m.suite, <<>>)
    <3>1. DOMAIN c = EndFields /\ HasWire(c, None, FALSE, <<>>, <<r>>)
      BY <1>5 DEF Reopened
    <3>2. Tail(<<r>>) = <<>>
      BY OneRecord
    <3>3. /\ DOMAIN Taken(c) = EndFields /\ SameBut(Taken(c), c, {"wire"})
          /\ HasWire(Taken(c), None, FALSE, <<>>, Tail(<<r>>))
      BY <3>1, Rewires
    <3>4. HasWire(c', None, FALSE, <<>>, <<>>) /\ SameBut(c', c, {"wire"}) /\ DOMAIN c' = EndFields
      BY <1>24, <3>2, <3>3
    <3>5. /\ c.pc = "serverHello2" /\ c.session = None /\ c.in = None /\ c.suite = m.suite
          /\ c.hello = Retried(m, group) /\ c.share = [group |-> group, generation |-> 2]
          /\ c.transcript = <<"hashOfClientHello", "helloRetryRequest", "clientHello">>
          /\ c.inner = (IF m.client.ech # 0 THEN <<"hashOfInnerHello", "helloRetryRequest", "innerHello">> ELSE <<>>)
          /\ c.certReq = FALSE
      BY <1>4, <1>5, <1>21, <1>27 DEF Reopened
    <3> QED
      BY <3>4, <3>5 DEF Reopened, SameBut, EndFields
  <2>2. group \notin Hybrid
    BY <1>5 DEF Asked, group
  <2> QED
    BY <1>19, <1>21, <1>27, <2>1, <2>2 DEF Awaits
<1> QED
  BY <1>23, <1>24, <1>26, <1>29, <1>30 DEF Certifies, Certifying
-----------------------------------------------------------------------------
(* The hellos of TLS 1.3 at the client *)

\* Transcripts of three messages.
LEMMA AppendTwo ==
    ASSUME NEW a, NEW b, NEW d
    PROVE  Append(Append(<<a>>, b), d) = <<a, b, d>> /\ <<a>> \o <<b>> \o <<d>> = <<a, b, d>>
<1> DEFINE f == [i \in 1 .. 3 |-> IF i = 1 THEN a ELSE IF i = 2 THEN b ELSE d]
<1>1. <<a, b, d>> = f
  BY SMT
<1>2. Append(<<a, b>>, d) = f
  BY SMT
<1>3. Append(<<a>>, b) = <<a, b>>
  BY AppendOne
<1>4. <<a, b>> \o <<d>> = f
  BY SMT
<1>5. <<a>> \o <<b>> = <<a, b>>
  <2>1. <<b>> = <<b>> \o <<>>
    BY OneRecord
  <2>2. Append(<<a>>, b) \o <<>> = <<a>> \o (<<b>> \o <<>>)
    BY OneRecord, EmptySeqs, AppendThen
  <2>3. Append(<<a>>, b) \o <<>> = Append(<<a>>, b)
    BY OneRecord, AppendSeq, NothingMore
  <2> QED
    BY <1>3, <2>1, <2>2, <2>3, Zenon
<1> HIDE DEF f
<1> QED
  BY <1>1, <1>2, <1>3, <1>4, <1>5, Zenon

\* The second hello is the first one with another share, also that of a preset.
RetriedFrom(hello, group) == [hello EXCEPT !.shares = <<group>>, !.generation = 2, !.psk = None]
PresetFrom(hello, group) == [RetriedFrom(hello, group) EXCEPT !.psk = None]

\* Both are the hello that the server expects.
LEMMA RetriedSame ==
    ASSUME NEW n, NEW group
    PROVE  /\ RetriedFrom(Offer(n), group) = Retried(n, group)
           /\ PresetFrom(Offer(n), group) = Retried(n, group)
<1> DEFINE o == Offer(n)
           r == Retried(n, group)
           k == RetriedFrom(o, group)
           p == PresetFrom(o, group)
<1>1. DOMAIN o = HelloFields /\ o.psk = None
  BY OfferFields
<1>2. r = [o EXCEPT !.shares = <<group>>, !.generation = 2]
  BY DEF Retried
<1>3. k = [o EXCEPT !.shares = <<group>>, !.generation = 2, !.psk = None] /\ p = [k EXCEPT !.psk = None]
  BY DEF RetriedFrom, PresetFrom
<1> HIDE DEF o
<1>4. DOMAIN r = HelloFields /\ Filled(r) /\ r.psk = None
  BY <1>1, <1>2 DEF Filled, HelloFields
<1>5. DOMAIN k = HelloFields /\ Filled(k) /\ k.psk = None
  BY <1>1, <1>3 DEF Filled, HelloFields
<1>6. \A f \in HelloFields : k[f] = r[f]
  BY <1>1, <1>2, <1>3 DEF HelloFields
<1> HIDE DEF k
<1>7. DOMAIN p = HelloFields /\ Filled(p)
  BY <1>3, <1>5 DEF Filled, HelloFields
<1>8. \A f \in HelloFields : p[f] = k[f]
  BY <1>3, <1>5 DEF HelloFields
<1> HIDE DEF r, p
<1>9. [f \in HelloFields |-> k[f]] = [f \in HelloFields |-> r[f]]
  BY <1>6
<1>10. [f \in HelloFields |-> p[f]] = [f \in HelloFields |-> k[f]]
  BY <1>8
<1>11. k = r /\ p = k
  BY <1>4, <1>5, <1>7, <1>9, <1>10 DEF Filled
<1> QED
  BY <1>11 DEF k, r, p, o

\* The end e has sent its second hello as x.
Retrying(x, e, n, group) ==
    /\ DOMAIN x = EndFields /\ SameBut(x, e, {"wire", "transcript", "inner", "hello", "share", "pc"})
    /\ x.pc = "serverHello2" /\ x.hello = Retried(n, group) /\ x.share = [group |-> group, generation |-> 2]
    /\ x.transcript = <<"hashOfClientHello", "helloRetryRequest", "clientHello">>
    /\ x.inner = IF n.client.ech # 0 THEN <<"hashOfInnerHello", "helloRetryRequest", "innerHello">> ELSE <<>>
    /\ HasWire(x, None, FALSE, <<>>, <<Rec("clientHello", Retried(n, group), None)>>)

\* processHelloRetryRequest does that.
LEMMA SendsSecondHello ==
    ASSUME NEW e, DOMAIN e = EndFields, HasWire(e, None, FALSE, <<>>, <<>>), NEW n, n.client = ccfg,
           e.hello = Offer(n), NEW hello, hello = e.serverHello, NEW group, hello.group = group,
           IF ccfg.ech # 0 THEN e.inner = <<"innerHello">> /\ hello.ech = <<"hashOfInnerHello">> /\ ccfg.golang
           ELSE e.inner = <<>> /\ hello.ech = <<>>,
           group \in ccfg.curves, group \notin Hybrid \cup ToSet(ccfg.shares),
           NEW x, x = processHelloRetryRequest(e)
    PROVE  Retrying(x, e, n, group)
<1> DEFINE transcript == Append(MessageHash("clientHello"), "helloRetryRequest")
           inner == IF ccfg.ech # 0 THEN <<"hashOfInnerHello", "helloRetryRequest", "innerHello">> ELSE <<>>
           r == Retried(n, group)
           share == [group |-> group, generation |-> 2]
           y == [e EXCEPT !.transcript = transcript, !.inner = inner, !.hello = r, !.share = share]
           w == WriteRecorded(y, "clientHello", r)
<1>1. e.hello.psk = None /\ e.hello.curves = ccfg.curves /\ e.hello.shares = ccfg.shares
  BY OfferFields
<1>2. MessageHash("innerHello") = <<"hashOfInnerHello">> /\ MessageHash("clientHello") = <<"hashOfClientHello">>
  BY DEF MessageHash
<1>3. /\ RetriedFrom(e.hello, group) = r /\ r.psk = None
      /\ [RetriedFrom(e.hello, group) EXCEPT !.psk = None] = r
  <2>1. RetriedFrom(e.hello, group) = r /\ PresetFrom(e.hello, group) = r /\ r.psk = None
    BY RetriedSame, RetriedFields
  <2> QED
    BY <2>1 DEF PresetFrom
<1>4. ~(<<"innerHello">> = <<>>)
  OBVIOUS
<1>5. x = [w EXCEPT !.pc = "serverHello2"]
  <2> DEFINE accepted == e.inner # <<>> /\ hello.ech = MessageHash("innerHello")
             retried == [e.hello EXCEPT
                            !.shares = <<hello.group>>, !.generation = 2,
                            !.psk = IF @ = None THEN None
                                    ELSE IF Hash[e.session.suite] # Hash[e.suite] THEN None
                                    ELSE [@ EXCEPT !.binder = Binder(e.session, transcript)]]
             preset == IF accepted THEN e.hello ELSE [retried EXCEPT !.psk = e.hello.psk]
             ninner == IF e.inner = <<>> THEN <<>>
                       ELSE MessageHash("innerHello") \o <<"helloRetryRequest">>
                            \o (IF accepted THEN <<"innerHello">> ELSE <<>>)
             u == [e EXCEPT !.transcript = transcript, !.inner = ninner,
                            !.hello = retried, !.share = [group |-> hello.group, generation |-> 2]]
  <2>1. accepted <=> ccfg.ech # 0
    BY <1>2, <1>4
  <2>2. retried = r
    <3>1. retried = RetriedFrom(e.hello, group)
      BY <1>1 DEF RetriedFrom
    <3> QED
      BY <1>3, <3>1
  <2> HIDE DEF retried
  <2>3. ~ccfg.golang => preset = r
    <3>1. ASSUME ~ccfg.golang PROVE ~accepted
      BY <2>1, <3>1
    <3>2. [retried EXCEPT !.psk = e.hello.psk] = r
      <4>1. retried = RetriedFrom(e.hello, group)
        BY <1>3, <2>2
      <4> QED
        BY <1>1, <1>3, <4>1
    <3> QED
      BY <3>1, <3>2
  <2>4. ninner = inner
    <3>1. CASE ccfg.ech # 0
      <4>1. ninner = <<"hashOfInnerHello">> \o <<"helloRetryRequest">> \o <<"innerHello">>
        BY <1>2, <1>4, <2>1, <3>1
      <4> QED
        BY <3>1, <4>1, AppendTwo
    <3>2. CASE ccfg.ech = 0
      BY <3>2
    <3> QED
      BY <3>1, <3>2
  <2> HIDE DEF ninner, accepted, preset
  <2>5. u = y
    BY <2>2, <2>4
  <2>6. ~(hello.ech # <<>> /\ e.inner = <<>>)
    BY <1>4
  <2>7. x = [WriteRecorded(u, "clientHello", IF ccfg.golang THEN retried ELSE preset) EXCEPT !.pc = "serverHello2"]
    <3>1. ~(~ccfg.golang /\ retried.psk # None)
      BY <1>3, <2>2
    <3>2. ~(hello.group \notin e.hello.curves \/ hello.group \in ToSet(e.hello.shares)) /\ hello.group \notin Hybrid
      BY <1>1
    <3>3. processHelloRetryRequest(e) =
            IF hello.ech # <<>> /\ e.inner = <<>> THEN Failed(e, "unsupported_extension")
            ELSE IF hello.group \notin e.hello.curves \/ hello.group \in ToSet(e.hello.shares)
                 THEN Failed(e, "illegal_parameter")
            ELSE IF hello.group \in Hybrid THEN Failed(e, "internal_error")
            ELSE IF ~ccfg.golang /\ retried.psk # None THEN Failed(u, None)
            ELSE [WriteRecorded(u, "clientHello", IF ccfg.golang THEN retried ELSE preset) EXCEPT
                    !.pc = "serverHello2"]
      BY Zenon DEF processHelloRetryRequest, retried, preset, ninner, accepted
    <3> HIDE DEF u
    <3> QED
      BY <2>6, <3>1, <3>2, <3>3
  <2>8. (IF ccfg.golang THEN retried ELSE preset) = r
    BY <2>2, <2>3
  <2> HIDE DEF u, y, r
  <2> QED
    BY <2>5, <2>7, <2>8 DEF w
<1> HIDE DEF transcript, inner, r, share
<1>6. /\ DOMAIN y = EndFields /\ SameBut(y, e, {"transcript", "inner", "hello", "share"})
      /\ y.transcript = transcript /\ y.inner = inner /\ y.hello = r /\ y.share = share
  BY DEF SameBut, EndFields
<1> HIDE DEF y
<1>7. HasWire(y, None, FALSE, <<>>, <<>>)
  BY <1>6 DEF HasWire, SameBut, EndFields
<1> DEFINE q == <<>>
           rec == Rec("clientHello", r, None)
<1>8. /\ DOMAIN w = EndFields /\ SameBut(w, y, {"wire", "transcript"})
      /\ w.transcript = Append(y.transcript, "clientHello")
      /\ HasWire(w, None, FALSE, <<>>, Append(q, rec))
  <2> HIDE DEF q
  <2>1. HasWire(y, None, FALSE, q, q)
    BY <1>7 DEF q
  <2>2. /\ DOMAIN w = EndFields /\ SameBut(w, y, {"wire", "transcript"})
        /\ w.transcript = Append(y.transcript, "clientHello")
        /\ HasWire(w, None, FALSE, q, Append(q, rec))
    BY <1>6, <2>1, Unbuffered
  <2> HIDE DEF w
  <2> QED
    BY <2>2 DEF q
<1> HIDE DEF w, rec
<1>9. DOMAIN x = EndFields /\ SameBut(x, w, {"pc"}) /\ x.pc = "serverHello2"
  BY <1>5, <1>8 DEF SameBut, EndFields
<1>10. HasWire(x, None, FALSE, <<>>, <<rec>>)
  <2>1. Append(q, rec) = <<rec>>
    BY AppendOne
  <2> QED
    BY <1>8, <1>9, <2>1 DEF HasWire, SameBut, EndFields
<1>11. x.transcript = <<"hashOfClientHello", "helloRetryRequest", "clientHello">>
  <2>1. x.transcript = Append(transcript, "clientHello")
    BY <1>6, <1>8, <1>9 DEF SameBut, EndFields
  <2> QED
    BY <1>2, <2>1, AppendTwo DEF transcript
<1>12. x.hello = r /\ x.share = share /\ x.inner = inner
  BY <1>6, <1>8, <1>9 DEF SameBut, EndFields
<1>13. SameBut(x, e, {"wire", "transcript", "inner", "hello", "share", "pc"})
  BY <1>6, <1>8, <1>9 DEF SameBut
<1> QED
  BY <1>9, <1>10, <1>11, <1>12, <1>13 DEF Retrying, r, share, inner, rec

\* readServerHello answers the HelloRetryRequest with the second hello.
LEMMA ReadsRetryRequest ==
    ASSUME AsksAgain(c, s, Setting), readServerHello
    PROVE  Setting' = Setting /\ OffersAgain(c', s', Setting)
<1> DEFINE n == Setting
           group == s.share
           hello == RetryRequest(s, n)
           e == [c EXCEPT !.vers = 13, !.suite = hello.suite, !.serverHello = hello,
                          !.transcript = <<"clientHello">>,
                          !.inner = IF ccfg.ech # 0 THEN <<"innerHello">> ELSE <<>>]
           x == processHelloRetryRequest(e)
<1>1. Hears(c, s, "helloRetryRequest", hello)
  BY ClientHears13
<1>2. Kind(s) = "helloRetryRequest" /\ Body(s) = hello
  BY <1>1, Hearing
<1>3. Opened(c, n, <<>>) /\ Asked(s, n) /\ HasWire(s, None, FALSE, <<>>, <<Rec("helloRetryRequest", hello, None)>>)
  BY DEF AsksAgain
<1>4. n.client = ccfg /\ n.hello = s.hello
  BY SettingIs
<1>5. /\ DOMAIN s = EndFields /\ n.hello = Heard(n, Offer(n))
      /\ group \in ccfg.curves /\ group \notin Hybrid \cup ToSet(ccfg.shares)
      /\ n.serverHello = [ServerHello EXCEPT !.vers = 13, !.suite = n.suite, !.echo = TRUE]
      /\ Offers13(n) /\ Chosen13(n.serverHello, n) /\ (ccfg.ech # 0 => ccfg.golang)
  BY <1>3, <1>4 DEF Asked
<1>6. /\ (n.hello.random = "inner") <=> (ccfg.ech # 0)
      /\ HelloName(n.hello) = IF ccfg.ech # 0 THEN "innerHello" ELSE "clientHello"
  BY <1>4, <1>5, OfferFields, HeardName
<1>7. ccfg.ech # 0 => HashOf(n) = <<"hashOfInnerHello">>
  BY <1>6 DEF HashOf, MessageHash
<1>8. DOMAIN n.serverHello = AnswerFields /\ n.serverHello.suite = n.suite
  <2> HIDE DEF n
  <2> QED
    BY <1>5, ServerHelloFields DEF AnswerFields
<1>9. /\ hello.vers = n.serverHello.vers /\ hello.echo = n.serverHello.echo /\ hello.suite = n.suite
      /\ hello.group = group
      /\ hello.ech = IF ccfg.ech # 0 THEN <<"hashOfInnerHello">> ELSE <<>>
  <2> DEFINE ech == IF n.hello.random = "inner" THEN HashOf(n) ELSE <<>>
  <2>1. ech = IF ccfg.ech # 0 THEN <<"hashOfInnerHello">> ELSE <<>>
    BY <1>6, <1>7
  <2>2. hello = [n.serverHello EXCEPT !.group = group, !.ech = ech]
    BY DEF RetryRequest
  <2> HIDE DEF ech, hello, n, group
  <2> QED
    BY <1>8, <2>1, <2>2 DEF AnswerFields
<1> HIDE DEF hello
<1>10. /\ hello.vers = 13 /\ hello.echo /\ hello.suite \in ToSet(ccfg.suites) \cap Suites13
       /\ 13 \in ToSet(ccfg.versions) /\ keyShareKey(ccfg) # None
  BY <1>4, <1>5, <1>8, <1>9 DEF Chosen13, Offers13
<1>11. /\ DOMAIN c = EndFields /\ HasWire(c, None, FALSE, <<>>, <<>>) /\ c.hello = Offer(n)
       /\ c.share = [group |-> keyShareKey(ccfg), generation |-> 1]
       /\ c.session = None /\ c.in = None /\ c.suite = None /\ c.certReq = FALSE
  BY <1>3, <1>4 DEF Opened
<1>12. c.share.group = keyShareKey(ccfg) /\ c.hello.suites = ccfg.suites
  BY <1>4, <1>11, OfferFields
<1>13. checkServerHelloOrHRR(c, hello)
  BY <1>10, <1>11, <1>12 DEF checkServerHelloOrHRR
<1>14. ClientHandshake13(c, hello, Kind(s) = "helloRetryRequest") = x
  BY <1>2, <1>10, <1>12, <1>13 DEF ClientHandshake13
<1>15. 13 \in AcceptedVersions
  BY <1>10 DEF AcceptedVersions
<1> HIDE DEF x
<1>16. ClientStep(x)
  BY <1>2, <1>10, <1>14, <1>15 DEF readServerHello
<1>17. /\ DOMAIN e = EndFields /\ SameBut(e, c, {"vers", "suite", "serverHello", "transcript", "inner"})
       /\ e.suite = hello.suite /\ e.serverHello = hello
       /\ e.inner = (IF ccfg.ech # 0 THEN <<"innerHello">> ELSE <<>>)
  BY <1>11 DEF SameBut, EndFields
<1>18. x = processHelloRetryRequest(e)
  BY DEF x
<1> HIDE DEF e
<1>19. HasWire(e, None, FALSE, <<>>, <<>>) /\ e.hello = Offer(n)
  BY <1>11, <1>17 DEF HasWire, SameBut, EndFields
<1>20. Retrying(x, e, n, group)
  <2> HIDE DEF group, n
  <2> QED
    BY <1>4, <1>5, <1>9, <1>17, <1>18, <1>19, SendsSecondHello
<1>21. c' = x /\ s' = Taken(s) /\ DOMAIN s' = EndFields /\ SameBut(s', s, {"wire"}) /\ n' = n
  BY <1>5, <1>16, ClientGoesOn
<1>22. HasWire(s', None, FALSE, <<>>, <<>>)
  <2> DEFINE r == Rec("helloRetryRequest", hello, None)
  <2>1. Tail(<<r>>) = <<>>
    BY OneRecord
  <2>2. HasWire(Taken(s), None, FALSE, <<>>, Tail(<<r>>))
    BY <1>3, <1>5, Rewires
  <2> QED
    BY <1>21, <2>1, <2>2
<1>23. s'.share = group
  BY <1>21 DEF SameBut, EndFields
<1>24. Asked(s', n)
  <2> HIDE DEF n
  <2> QED
    BY <1>3, <1>21 DEF Asked, SameBut, EndFields
<1>25. Reopened(x, n, group, n.suite, <<Rec("clientHello", Retried(n, group), None)>>)
  <2>1. x.session = None /\ x.in = None /\ x.suite = n.suite /\ x.certReq = FALSE
    BY <1>9, <1>11, <1>17, <1>20 DEF Retrying, SameBut, EndFields
  <2> HIDE DEF n, group
  <2> QED
    BY <1>20, <2>1 DEF Reopened, Retrying
<1> QED
  BY <1>21, <1>22, <1>23, <1>24, <1>25 DEF OffersAgain

\* The client takes the ServerHello of TLS 1.3 to either of its hellos.
Reading(x, e, n) ==
    At13(x, n, "encryptedExtensions", To13Hello(n)) /\ x.certReq = e.certReq

\* processServerHello13 does that.
LEMMA TakesServerHello ==
    ASSUME NEW e, DOMAIN e = EndFields, HasWire(e, None, FALSE, <<>>, <<>>), e.session = None,
           NEW n, n.attempt = attempt, n.client = ccfg, e.serverHello = n.serverHello,
           n.serverHello.psk = FALSE,
           n.serverHello.ech = IF ccfg.ech # 0 THEN To13Hello(n) ELSE <<>>,
           IF ccfg.ech # 0 THEN e.inner # <<>> /\ Append(e.inner, "serverHello") = To13Hello(n)
           ELSE e.inner = <<>> /\ Append(e.transcript, "serverHello") = To13Hello(n),
           DOMAIN e.hello = HelloFields, e.hello.alpn = ccfg.alpn,
           n.serverHello.share \in ToSet(e.hello.shares),
           e.share.group = IF n.serverHello.share \in Hybrid THEN "x25519" ELSE n.serverHello.share,
           e.share.generation = n.hello.generation,
           NEW x, x = processServerHello13(e)
    PROVE  Reading(x, e, n)
<1> DEFINE hello == n.serverHello
           accepted == e.inner # <<>> /\ hello.ech = Append(e.inner, "serverHello")
           rejected == e.inner # <<>> /\ ~accepted
           b == Buffer(e)
           h1 == IF accepted THEN InnerHello(b.hello) ELSE b.hello
           t1 == IF accepted THEN e.inner ELSE b.transcript
           b1 == [b EXCEPT !.hello = h1, !.transcript = t1, !.echRejected = rejected]
           r == Record(b1, "serverHello")
           sec == masterSecret13(None, [group |-> hello.share, generation |-> e.share.generation])
           y == [r EXCEPT !.secret = sec]
           z == [y EXCEPT !.in = Key("server", "handshake", y), !.wire.out = Key("client", "handshake", y),
                          !.pc = "encryptedExtensions"]
<1>1. accepted <=> ccfg.ech # 0
  OBVIOUS
<1>2. rejected = FALSE
  BY <1>1
<1>3. DOMAIN b = EndFields /\ SameBut(b, e, {"wire"}) /\ HasWire(b, None, TRUE, <<>>, <<>>)
  BY Rewires
<1>4. b.hello = e.hello /\ b.transcript = e.transcript
  BY <1>3 DEF SameBut, EndFields
<1>5. processServerHello13(e) =
        IF hello.share \notin ToSet(r.hello.shares) THEN Failed(r, "illegal_parameter")
        ELSE IF e.share.group # (IF hello.share \in Hybrid THEN "x25519" ELSE hello.share)
             THEN Failed(r, "illegal_parameter")
        ELSE z
  <2> DEFINE h == e.serverHello
             ok == e.inner # <<>> /\ h.ech = Append(e.inner, "serverHello")
             r0 == Record([Buffer(e) EXCEPT
                              !.hello = IF ok THEN InnerHello(@) ELSE @,
                              !.transcript = IF ok THEN e.inner ELSE @,
                              !.echRejected = e.inner # <<>> /\ ~ok], "serverHello")
             sec0 == masterSecret13(IF h.psk THEN e.session.secret ELSE None,
                                    [group |-> h.share, generation |-> e.share.generation])
             y0 == [r0 EXCEPT !.secret = sec0]
             z0 == IF h.psk
                   THEN [y0 EXCEPT !.base = e.session.base, !.peerCert = e.session.peerCert,
                                   !.verified = e.session.verified]
                   ELSE y0
             f0 == [z0 EXCEPT !.in = Key("server", "handshake", z0), !.wire.out = Key("client", "handshake", z0),
                              !.pc = "encryptedExtensions"]
  <2>1. processServerHello13(e) =
          IF h.share \notin ToSet(r0.hello.shares) THEN Failed(r0, "illegal_parameter")
          ELSE IF h.psk /\ r0.hello.psk = None THEN Failed(r0, "illegal_parameter")
          ELSE IF h.psk /\ Hash[e.session.suite] # Hash[e.suite] THEN Failed(r0, "illegal_parameter")
          ELSE IF e.share.group # (IF h.share \in Hybrid THEN "x25519" ELSE h.share)
               THEN Failed(r0, "illegal_parameter")
          ELSE f0
    BY Zenon DEF processServerHello13
  <2>2. h = hello /\ h.psk = FALSE
    OBVIOUS
  <2>3. r0 = r
    <3>1. ok = accepted
      BY <2>2
    <3> QED
      BY <3>1, Zenon
  <2>4. sec0 = sec
    BY <2>2
  <2> HIDE DEF r0, r, sec0, sec
  <2>5. y0 = y
    BY <2>3, <2>4, Zenon
  <2> HIDE DEF y0, y
  <2>6. z0 = y
    BY <2>2, <2>5
  <2> HIDE DEF z0
  <2>7. f0 = z
    BY <2>6, Zenon
  <2> HIDE DEF f0, z, h, hello
  <2> QED
    BY <2>1, <2>2, <2>3, <2>7
<1> HIDE DEF accepted
<1>6. h1.shares = e.hello.shares /\ h1.alpn = ccfg.alpn
  <2> HIDE DEF b
  <2>1. InnerHello(e.hello).shares = e.hello.shares /\ InnerHello(e.hello).alpn = e.hello.alpn
    BY InnerFields
  <2> QED
    BY <1>4, <2>1
<1>7. Append(t1, "serverHello") = To13Hello(n)
  <2> HIDE DEF b
  <2> QED
    BY <1>1, <1>4
<1> HIDE DEF b, rejected, h1, t1
<1>8. /\ DOMAIN b1 = EndFields /\ SameBut(b1, b, {"hello", "transcript", "echRejected"})
      /\ b1.hello = h1 /\ b1.transcript = t1 /\ b1.echRejected = FALSE
  BY <1>2, <1>3 DEF SameBut, EndFields
<1> HIDE DEF b1
<1>9. DOMAIN r = EndFields /\ SameBut(r, b1, {"transcript"}) /\ r.transcript = To13Hello(n)
  BY <1>7, <1>8 DEF Record, SameBut, EndFields
<1> HIDE DEF r
<1>10. sec = Master13(n)
  BY DEF masterSecret13, Master13
<1> HIDE DEF sec
<1>11. DOMAIN y = EndFields /\ SameBut(y, r, {"secret"}) /\ y.secret = Master13(n)
  BY <1>9, <1>10 DEF SameBut, EndFields
<1> HIDE DEF y
<1>12. y.transcript = To13Hello(n) /\ HasWire(y, None, TRUE, <<>>, <<>>)
  BY <1>3, <1>8, <1>9, <1>11 DEF SameBut, EndFields, HasWire
<1>13. Key("client", "handshake", y) = Key13("client", n) /\ Key("server", "handshake", y) = Key13("server", n)
  BY <1>11, <1>12 DEF Key, Key13
<1>14. /\ DOMAIN z = EndFields /\ SameBut(z, y, {"in", "wire", "pc"}) /\ z.in = Key13("server", n)
       /\ z.wire = [y.wire EXCEPT !.out = Key13("client", n)] /\ z.pc = "encryptedExtensions"
  BY <1>11, <1>13 DEF SameBut, EndFields
<1> HIDE DEF z
<1>15. HasWire(z, Key13("client", n), TRUE, <<>>, <<>>)
  BY <1>12, <1>14 DEF HasWire, WireFields
<1>16. x = z
  <2>1. r.hello = h1
    BY <1>8, <1>9 DEF SameBut, EndFields
  <2> QED
    BY <1>5, <1>6, <2>1
<1>17. /\ z.session = None /\ z.serverHello = n.serverHello /\ z.echRejected = FALSE /\ z.hello = h1
       /\ z.secret = Master13(n) /\ z.transcript = To13Hello(n) /\ z.certReq = e.certReq
  BY <1>3, <1>8, <1>9, <1>11, <1>12, <1>14 DEF SameBut, EndFields
<1> QED
  BY <1>6, <1>14, <1>15, <1>16, <1>17 DEF Reading, At13

\* The two transcripts of the client at the ServerHello.
LEMMA FirstTranscripts ==
    ASSUME NEW n, n.hello = Heard(n, Offer(n))
    PROVE  /\ n.hello.generation = 1
           /\ To13Hello(n) = IF n.client.ech # 0 THEN Append(<<"innerHello">>, "serverHello")
                             ELSE Append(<<"clientHello">>, "serverHello")
<1>1. /\ n.hello.generation = 1
      /\ HelloName(n.hello) = IF n.client.ech # 0 THEN "innerHello" ELSE "clientHello"
  BY OfferFields, HeardFields, HeardName
<1>2. BeforeHello(n) = <<>>
  BY <1>1 DEF BeforeHello
<1>3. To13Hello(n) = Append(Append(<<>>, HelloName(n.hello)), "serverHello")
  BY <1>2, HelloTranscript
<1>4. Append(<<>>, HelloName(n.hello)) = <<HelloName(n.hello)>>
  BY AppendOne
<1> QED
  BY <1>1, <1>3, <1>4

\* After the second hello.
LEMMA SecondTranscripts ==
    ASSUME NEW n, NEW group, n.hello = Heard(n, Retried(n, group))
    PROVE  /\ n.hello.generation = 2
           /\ To13Hello(n) =
                IF n.client.ech # 0
                THEN Append(<<"hashOfInnerHello", "helloRetryRequest", "innerHello">>, "serverHello")
                ELSE Append(<<"hashOfClientHello", "helloRetryRequest", "clientHello">>, "serverHello")
<1>1. /\ n.hello.generation = 2
      /\ HelloName(n.hello) = IF n.client.ech # 0 THEN "innerHello" ELSE "clientHello"
  BY RetriedFields, HeardFields, HeardName
<1>2. BeforeHello(n) = AtRetry(n)
  BY <1>1 DEF BeforeHello
<1>3. To13Hello(n) = Append(Append(AtRetry(n), HelloName(n.hello)), "serverHello")
  BY <1>2, HelloTranscript
<1>4. HashOf(n) = IF n.client.ech # 0 THEN <<"hashOfInnerHello">> ELSE <<"hashOfClientHello">>
  BY <1>1 DEF HashOf, MessageHash
<1>5. Append(AtRetry(n), HelloName(n.hello)) =
        IF n.client.ech # 0 THEN <<"hashOfInnerHello", "helloRetryRequest", "innerHello">>
        ELSE <<"hashOfClientHello", "helloRetryRequest", "clientHello">>
  <2>1. CASE n.client.ech # 0
    <3>1. Append(AtRetry(n), HelloName(n.hello))
            = Append(Append(<<"hashOfInnerHello">>, "helloRetryRequest"), "innerHello")
      BY <1>1, <1>4, <2>1 DEF AtRetry
    <3> QED
      BY <2>1, <3>1, AppendTwo
  <2>2. CASE n.client.ech = 0
    <3>1. Append(AtRetry(n), HelloName(n.hello))
            = Append(Append(<<"hashOfClientHello">>, "helloRetryRequest"), "clientHello")
      BY <1>1, <1>4, <2>2 DEF AtRetry
    <3> QED
      BY <2>2, <3>1, AppendTwo
  <2> QED
    BY <2>1, <2>2
<1> DEFINE a == Append(AtRetry(n), HelloName(n.hello))
<1>6. To13Hello(n) = Append(a, "serverHello")
  BY <1>3
<1> QED
  BY <1>1, <1>5, <1>6

\* The rest of a step of the client that takes the ServerHello.
LEMMA GoesOnToExtensions ==
    ASSUME ReadsHello13(c, s, Setting), NEW e, e.certReq = FALSE, NEW x, Reading(x, e, Setting), ClientStep(x)
    PROVE  Setting' = Setting /\ ReadsExtensions13(c', s', Setting)
<1> DEFINE n == Setting
<1>1. PICK rest : IsSeq(rest) /\ Sent13(s, n, From13Hello(n, rest))
  BY DEF ReadsHello13
<1>2. DOMAIN s = EndFields
  BY <1>1, TakenSent13
<1>3. c' = x /\ s' = Taken(s) /\ n' = n
  BY <1>2, ClientGoesOn
<1>4. Sent13(s', n, From13Extensions(n, rest))
  <2>1. Tail(From13Hello(n, rest)) = From13Extensions(n, rest)
    BY <1>1, Tails13
  <2> QED
    BY <1>1, <1>3, <2>1, TakenSent13
<1>5. At13(x, n, "encryptedExtensions", To13Hello(n)) /\ x.certReq = FALSE
  BY DEF Reading
<1> QED
  BY <1>1, <1>3, <1>4, <1>5 DEF ReadsExtensions13

\* What the server has put into its hello.
LEMMA ServerHelloIs ==
    ASSUME ReadsHello13(c, s, Setting)
    PROVE  LET n == Setting IN
           /\ Kind(s) = "serverHello" /\ Body(s) = n.serverHello
           /\ n.client = ccfg /\ n.attempt = attempt /\ Awaits(c, n)
           /\ n.serverHello.suite = n.suite /\ n.serverHello.psk = FALSE
           /\ n.serverHello.vers = 13 /\ n.serverHello.echo
           /\ n.serverHello.suite \in ToSet(ccfg.suites) \cap Suites13
           /\ 13 \in ToSet(ccfg.versions) /\ keyShareKey(ccfg) # None
           /\ n.serverHello.ech = IF ccfg.ech # 0 THEN To13Hello(n) ELSE <<>>
<1> DEFINE n == Setting
<1>1. Hears(c, s, "serverHello", n.serverHello)
  BY ClientHears13
<1>2. Kind(s) = "serverHello" /\ Body(s) = n.serverHello
  BY <1>1, Hearing
<1>3. Server13(s, n)
  BY TakenSent13 DEF ReadsHello13
<1>4. n.client = ccfg /\ n.attempt = attempt
  BY SettingIs
<1>5. Awaits(c, n)
  BY DEF ReadsHello13
<1> HIDE DEF n
<1>6. /\ n.serverHello.suite = n.suite /\ n.serverHello.psk = FALSE
      /\ n.serverHello.vers = 13 /\ n.serverHello.echo
      /\ n.serverHello.suite \in ToSet(ccfg.suites) \cap Suites13
      /\ 13 \in ToSet(ccfg.versions) /\ keyShareKey(ccfg) # None
      /\ n.serverHello.ech = IF ccfg.ech # 0 THEN To13Hello(n) ELSE <<>>
  BY <1>3, <1>4 DEF Server13, Chosen13, Offers13
<1> QED
  BY <1>2, <1>4, <1>5, <1>6 DEF n

\* readServerHello takes the ServerHello of TLS 1.3,
LEMMA ReadsFirstHello13 ==
    ASSUME ReadsHello13(c, s, Setting), readServerHello
    PROVE  Setting' = Setting /\ ReadsExtensions13(c', s', Setting)
<1> DEFINE n == Setting
           hello == n.serverHello
           e == [c EXCEPT !.vers = 13, !.suite = hello.suite, !.serverHello = hello,
                          !.transcript = <<"clientHello">>,
                          !.inner = IF ccfg.ech # 0 THEN <<"innerHello">> ELSE <<>>]
           x == processServerHello13(e)
<1>1. /\ Kind(s) = "serverHello" /\ Body(s) = hello
      /\ n.client = ccfg /\ n.attempt = attempt /\ Awaits(c, n)
      /\ hello.psk = FALSE /\ hello.vers = 13 /\ hello.echo
      /\ hello.suite \in ToSet(ccfg.suites) \cap Suites13
      /\ 13 \in ToSet(ccfg.versions) /\ keyShareKey(ccfg) # None
      /\ hello.ech = IF ccfg.ech # 0 THEN To13Hello(n) ELSE <<>>
  BY ServerHelloIs
<1>2. c.pc = "serverHello"
  BY DEF readServerHello, Receives
<1>3. /\ Opened(c, n, <<>>) /\ n.hello = Heard(n, Offer(n)) /\ hello.share \in ToSet(ccfg.shares)
      /\ keyShareKey(ccfg) = IF hello.share \in Hybrid THEN "x25519" ELSE hello.share
  BY <1>1, <1>2 DEF Awaits, Reopened
<1>4. /\ DOMAIN c = EndFields /\ HasWire(c, None, FALSE, <<>>, <<>>) /\ c.hello = Offer(n)
      /\ c.share = [group |-> keyShareKey(ccfg), generation |-> 1]
      /\ c.session = None /\ c.suite = None /\ c.certReq = FALSE
  BY <1>1, <1>3 DEF Opened
<1>5. /\ c.share.group = keyShareKey(ccfg) /\ c.share.generation = 1 /\ c.hello.suites = ccfg.suites
      /\ DOMAIN c.hello = HelloFields /\ c.hello.alpn = ccfg.alpn /\ c.hello.shares = ccfg.shares
  BY <1>1, <1>4, OfferFields
<1>6. checkServerHelloOrHRR(c, hello)
  BY <1>1, <1>4, <1>5 DEF checkServerHelloOrHRR
<1>7. ClientHandshake13(c, hello, Kind(s) = "helloRetryRequest") = x
  BY <1>1, <1>5, <1>6 DEF ClientHandshake13
<1>8. 13 \in AcceptedVersions
  BY <1>1 DEF AcceptedVersions
<1> HIDE DEF x, hello
<1>9. ClientStep(x)
  BY <1>1, <1>7, <1>8 DEF readServerHello
<1>10. /\ DOMAIN e = EndFields /\ SameBut(e, c, {"vers", "suite", "serverHello", "transcript", "inner"})
       /\ e.serverHello = hello /\ e.transcript = <<"clientHello">>
       /\ e.inner = (IF ccfg.ech # 0 THEN <<"innerHello">> ELSE <<>>)
  BY <1>4 DEF SameBut, EndFields
<1>11. x = processServerHello13(e)
  BY DEF x
<1> HIDE DEF e
<1>12. /\ HasWire(e, None, FALSE, <<>>, <<>>) /\ e.hello = c.hello /\ e.share = c.share /\ e.session = None
       /\ e.certReq = FALSE
  BY <1>4, <1>10 DEF HasWire, SameBut, EndFields
<1>13. /\ n.hello.generation = 1
       /\ IF ccfg.ech # 0 THEN e.inner # <<>> /\ Append(e.inner, "serverHello") = To13Hello(n)
          ELSE e.inner = <<>> /\ Append(e.transcript, "serverHello") = To13Hello(n)
  <2>1. /\ n.hello.generation = 1
        /\ To13Hello(n) = IF n.client.ech # 0 THEN Append(<<"innerHello">>, "serverHello")
                          ELSE Append(<<"clientHello">>, "serverHello")
    BY <1>3, FirstTranscripts
  <2>2. <<"innerHello">> # <<>>
    OBVIOUS
  <2> HIDE DEF n
  <2> QED
    BY <1>1, <1>10, <2>1, <2>2
<1>14. Reading(x, e, n)
  <2>1. hello = n.serverHello
    BY DEF hello
  <2> HIDE DEF n
  <2> QED
    BY <1>1, <1>3, <1>5, <1>10, <1>11, <1>12, <1>13, <2>1, TakesServerHello
<1> QED
  BY <1>9, <1>12, <1>14, GoesOnToExtensions

\* and that of either version, or a HelloRetryRequest;
LEMMA ReadsServerHello ==
    ASSUME Going, readServerHello
    PROVE  Setting' = Setting /\ Full(c', s', Setting)
<1>1. Answers12(c, s, Setting) \/ AsksAgain(c, s, Setting) \/ ReadsHello13(c, s, Setting)
  BY Stages DEF Going, readServerHello, Receives
<1>2. CASE Answers12(c, s, Setting)
  <2>1. Setting' = Setting /\ ReadsCertificate12(c', s', Setting)
    BY <1>2, ReadsHello12
  <2> QED
    BY <2>1 DEF Full, Full12
<1>3. CASE AsksAgain(c, s, Setting)
  <2>1. Setting' = Setting /\ OffersAgain(c', s', Setting)
    BY <1>3, ReadsRetryRequest
  <2> QED
    BY <2>1 DEF Full, Full13
<1>4. CASE ReadsHello13(c, s, Setting)
  <2>1. Setting' = Setting /\ ReadsExtensions13(c', s', Setting)
    BY <1>4, ReadsFirstHello13
  <2> QED
    BY <2>1 DEF Full, Full13
<1> QED
  BY <1>1, <1>2, <1>3, <1>4

\* readServerHello2 takes the one that follows the second hello.
LEMMA ReadsServerHello2 ==
    ASSUME Going, readServerHello2
    PROVE  Setting' = Setting /\ ReadsExtensions13(c', s', Setting)
<1> DEFINE n == Setting
           hello == n.serverHello
           group == hello.share
           e == [c EXCEPT !.serverHello = hello]
           x == processServerHello13(e)
<1>0. ReadsHello13(c, s, n)
  BY Stages DEF Going, readServerHello2, Receives
<1>1. /\ Kind(s) = "serverHello" /\ Body(s) = hello
      /\ n.client = ccfg /\ n.attempt = attempt /\ Awaits(c, n)
      /\ hello.psk = FALSE /\ hello.vers = 13 /\ hello.echo /\ hello.suite = n.suite
      /\ hello.suite \in ToSet(ccfg.suites) \cap Suites13
      /\ hello.ech = IF ccfg.ech # 0 THEN To13Hello(n) ELSE <<>>
  BY <1>0, ServerHelloIs
<1>2. c.pc = "serverHello2"
  BY DEF readServerHello2, Receives
<1>3. Reopened(c, n, group, n.suite, <<>>) /\ n.hello = Heard(n, Retried(n, group)) /\ group \notin Hybrid
  BY <1>1, <1>2 DEF Awaits, Opened
<1>4. /\ DOMAIN c = EndFields /\ HasWire(c, None, FALSE, <<>>, <<>>) /\ c.hello = Retried(n, group)
      /\ c.share = [group |-> group, generation |-> 2]
      /\ c.transcript = <<"hashOfClientHello", "helloRetryRequest", "clientHello">>
      /\ c.inner = (IF ccfg.ech # 0 THEN <<"hashOfInnerHello", "helloRetryRequest", "innerHello">> ELSE <<>>)
      /\ c.session = None /\ c.suite = n.suite /\ c.certReq = FALSE
  BY <1>1, <1>3 DEF Reopened
<1>5. /\ c.share.group = group /\ c.share.generation = 2 /\ c.hello.suites = ccfg.suites
      /\ DOMAIN c.hello = HelloFields /\ c.hello.alpn = ccfg.alpn /\ c.hello.shares = <<group>>
  BY <1>1, <1>4, RetriedFields
<1>6. checkServerHelloOrHRR(c, hello)
  BY <1>1, <1>4, <1>5 DEF checkServerHelloOrHRR
<1>7. group \in ToSet(c.hello.shares)
  <2>1. <<group>> \in Seq({group}) /\ Len(<<group>>) = 1 /\ <<group>>[1] = group
    OBVIOUS
  <2> QED
    BY <1>5, <2>1 DEF ToSet
<1> HIDE DEF x
<1>8. ClientStep(x)
  BY <1>1, <1>6 DEF readServerHello2, x
<1> HIDE DEF hello
<1>9. DOMAIN e = EndFields /\ SameBut(e, c, {"serverHello"}) /\ e.serverHello = hello
  BY <1>4 DEF SameBut, EndFields
<1>10. x = processServerHello13(e)
  BY DEF x
<1> HIDE DEF e
<1>11. /\ HasWire(e, None, FALSE, <<>>, <<>>) /\ e.hello = c.hello /\ e.share = c.share /\ e.session = None
       /\ e.certReq = FALSE /\ e.transcript = c.transcript /\ e.inner = c.inner
  BY <1>4, <1>9 DEF HasWire, SameBut, EndFields
<1>12. /\ n.hello.generation = 2
       /\ IF ccfg.ech # 0 THEN e.inner # <<>> /\ Append(e.inner, "serverHello") = To13Hello(n)
          ELSE e.inner = <<>> /\ Append(e.transcript, "serverHello") = To13Hello(n)
  <2> DEFINE a == <<"hashOfInnerHello", "helloRetryRequest", "innerHello">>
             b == <<"hashOfClientHello", "helloRetryRequest", "clientHello">>
  <2>1. /\ n.hello.generation = 2
        /\ To13Hello(n) = IF n.client.ech # 0 THEN Append(a, "serverHello") ELSE Append(b, "serverHello")
    BY <1>3, SecondTranscripts
  <2>2. a # <<>>
    OBVIOUS
  <2>3. e.inner = (IF ccfg.ech # 0 THEN a ELSE <<>>) /\ e.transcript = b
    BY <1>4, <1>11
  <2> HIDE DEF n, a, b
  <2> QED
    BY <1>1, <2>1, <2>2, <2>3
<1>13. Reading(x, e, n)
  <2>1. hello = n.serverHello
    BY DEF hello
  <2> HIDE DEF n
  <2> QED
    BY <1>1, <1>3, <1>5, <1>7, <1>9, <1>10, <1>11, <1>12, <2>1, TakesServerHello
<1> QED
  BY <1>0, <1>8, <1>11, <1>13, GoesOnToExtensions
-----------------------------------------------------------------------------
(* From stage to stage *)

\* A step of the client takes an attempt that offers no session to a stage.
LEMMA ClientMovesOn ==
    ASSUME Going, ClientNext
    PROVE  c'.session # None \/ Full(c', s', Setting')
<1>1. CASE clientHandshake
  BY <1>1, Begins DEF Full
<1>2. CASE readServerHello
  BY <1>2, ReadsServerHello
<1>3. CASE readServerHello2
  BY <1>3, ReadsServerHello2 DEF Full, Full13
<1>4. CASE readServerCertificate12
  BY <1>4, ReadsServerCertificate12 DEF Full, Full12
<1>5. CASE readServerFlight12
  BY <1>5, ReadsServerFlight12 DEF Full
<1>6. CASE readNewSessionTicket12
  BY <1>6, ReadsTicket12 DEF Full, Full12
<1>7. CASE readServerCCS
  BY <1>7, ReadsServerCCS DEF Full, Full12
<1>8. CASE readServerFinished12
  BY <1>8, ReadsServerFinished12
<1>9. CASE readEncryptedExtensions
  BY <1>9, ReadsEncryptedExtensions DEF Full, Full13
<1>10. CASE readServerCertificate13
  BY <1>10, ReadsServerCertificate13 DEF Full
<1>11. CASE readServerVerify13
  BY <1>11, ReadsServerVerify13 DEF Full, Full13
<1>12. CASE readServerFinished13
  BY <1>12, ReadsServerFinished13 DEF Full
<1>13. CASE ClientRefuses
  BY <1>13, NothingRefused DEF Going, ClientRefuses
<1> QED
  BY <1>1, <1>2, <1>3, <1>4, <1>5, <1>6, <1>7, <1>8, <1>9, <1>10, <1>11, <1>12, <1>13 DEF ClientNext

\* So does a step of the server,
LEMMA ServerMovesOn ==
    ASSUME Going, ServerNext
    PROVE  Full(c', s', Setting')
<1>1. CASE serverHandshake
  BY <1>1, ServerBegins DEF Full
<1>2. CASE readClientHello
  BY <1>2, ReadsClientHello
<1>3. CASE readClientHello2
  BY <1>3, ReadsClientHello2 DEF Full, Full13
<1>4. CASE sendServerCertificate
  BY <1>4, SendsServerCertificate DEF Full, Full13
<1>5. CASE sendServerFinished
  BY <1>5, SendsServerFinished DEF Full, Full13
<1>6. CASE readClientCertificate12
  BY <1>6, ReadsClientCertificate12 DEF Full, Full12
<1>7. CASE readClientKeyExchange
  BY <1>7, ReadsClientKeyExchange DEF Full
<1>8. CASE readCertificateVerify12
  BY <1>8, ReadsCertificateVerify12 DEF Full, Full12
<1>9. CASE readClientCCS
  BY <1>9, ReadsClientCCS DEF Full, Full12
<1>10. CASE readClientFinished12
  BY <1>10, ReadsClientFinished12 DEF Full
<1>11. CASE readClientCertificate13
  BY <1>11, ReadsClientCertificate13 DEF Full
<1>12. CASE readClientVerify13
  BY <1>12, ReadsClientVerify13 DEF Full
<1>13. CASE readClientFinished13
  BY <1>13, ReadsClientFinished13
<1>14. CASE ServerRefuses
  BY <1>14, NothingRefused DEF Going, ServerRefuses
<1> QED
  BY <1>1, <1>2, <1>3, <1>4, <1>5, <1>6, <1>7, <1>8, <1>9, <1>10, <1>11, <1>12, <1>13, <1>14 DEF ServerNext

\* and a ticket that is read after the handshake leaves the server at its stage.
LEMMA TicketLeaves ==
    ASSUME Going, IsEnd(s), handleNewSessionTicket
    PROVE  Full(c', s', Setting')
<1> DEFINE n == Setting
           p == Taken(s)
<1>1. c.pc = "done" /\ c' = c /\ s' = p /\ UNCHANGED config
  BY DEF handleNewSessionTicket
<1>2. Full(c, s, n)
  BY DEF Going
<1>3. DOMAIN p = EndFields /\ SameBut(p, s, {"wire"})
  BY TakenSame DEF IsEnd
<1> HIDE DEF p
<1>4. /\ p.pc = s.pc /\ p.in = s.in /\ p.vers = s.vers /\ p.session = s.session
      /\ p.transcript = s.transcript /\ p.clientFinished = s.clientFinished
      /\ p.hello = s.hello /\ p.serverHello = s.serverHello /\ p.suite = s.suite /\ p.alpn = s.alpn
  BY <1>3 DEF SameBut, EndFields
<1>5. Setting' = n
  BY <1>1, <1>4, SettingStays
<1> HIDE DEF n
<1>6. c.session = None /\ (s.pc = "done" \/ ServesCertificate13(c, s, n)
                           \/ ServesVerify13(c, s, n) \/ ServesFinished13(c, s, n))
  BY <1>1, <1>2, Stages
<1>7. \A pc, q : Serves13(c, s, n, pc, q) => Serves13(c, p, n, pc, q)
  BY <1>3, <1>4 DEF Serves13
<1>8. CASE s.pc = "done"
  BY <1>1, <1>4, <1>5, <1>6, <1>8 DEF Full
<1>9. CASE ServesCertificate13(c, s, n)
  <2>1. ServesCertificate13(c, p, n)
    BY <1>4, <1>7, <1>9 DEF ServesCertificate13
  <2> QED
    BY <1>1, <1>5, <2>1 DEF Full, Full13
<1>10. CASE ServesVerify13(c, s, n)
  <2>1. ServesVerify13(c, p, n)
    BY <1>4, <1>7, <1>10 DEF ServesVerify13
  <2> QED
    BY <1>1, <1>5, <2>1 DEF Full, Full13
<1>11. CASE ServesFinished13(c, s, n)
  <2>1. ServesFinished13(c, p, n)
    BY <1>4, <1>7, <1>11 DEF ServesFinished13
  <2> QED
    BY <1>1, <1>5, <2>1 DEF Full, Full13
<1> QED
  BY <1>6, <1>8, <1>9, <1>10, <1>11

-----------------------------------------------------------------------------
(* Recovery *)

\* What Compatible compares.
FullHello == processECHClientHello(ClientHello(ccfg, None))
FullVers == FirstIn(FullHello.versions, ToSet(scfg.versions))
FullAlpn == negotiateALPN(scfg.alpn, FullHello.alpn)
FullCert == processCertsFromClient(FullVers, ccfg.cert)
FullPick == pickCipherSuite(FullHello)
FullSuite == FirstIn(Prefers13(FullHello), ToSet(FullHello.suites))
FullGroup == selectedGroup(FullHello)

\* The server selects a group by its configuration.
LEMMA GroupStays ==
    ASSUME UNCHANGED <<ccfg, scfg>>, NEW h
    PROVE  selectedGroup(h)' = selectedGroup(h)
BY DEF selectedGroup

\* Whether the ends go together depends on the configurations only.
LEMMA FineStays ==
    ASSUME UNCHANGED <<ccfg, scfg>>
    PROVE  Fine' = Fine
<1>1. FullHello' = FullHello
  BY DEF FullHello, processECHClientHello, ClientHello, AcceptsECH, InnerHello, OffersTickets, Binder
<1>2. FullVers' = FullVers
  BY <1>1 DEF FullVers
<1>3. FullAlpn' = FullAlpn
  BY <1>1 DEF FullAlpn
<1>4. FullCert' = FullCert
  BY <1>2 DEF FullCert, processCertsFromClient, requiresClientCert
<1>5. FullPick' = FullPick
  BY <1>1 DEF FullPick, pickCipherSuite, cipherSuiteOk, supportsECDHE
<1>6. FullSuite' = FullSuite
  BY <1>1 DEF FullSuite
<1>7. FullGroup' = FullGroup
  BY <1>1, GroupStays DEF FullGroup
<1>8. keyShareKey(ccfg)' = keyShareKey(ccfg)
  OBVIOUS
<1>9. InappropriateFallback(FullHello)' = InappropriateFallback(FullHello)
  BY <1>1 DEF InappropriateFallback
<1>10. AcceptsECH(ClientHello(ccfg, None))' = AcceptsECH(ClientHello(ccfg, None))
  BY DEF AcceptsECH
<1>11. Retries' = Retries
  BY <1>1, <1>7 DEF Retries, FullGroup, FullHello
<1>12. Compatible' = Compatible
  BY <1>1, <1>2, <1>3, <1>4, <1>5, <1>6, <1>7, <1>8, <1>9, <1>10, <1>11 DEF Compatible,
     FullHello, FullVers, FullAlpn, FullCert, FullPick, FullSuite, FullGroup
<1> QED
  BY <1>11, <1>12 DEF Fine

\* The two ends begin an attempt.
LEMMA IdleOpens ==
    ASSUME NEW e, NEW p, NEW n, e = Idle, p = Idle
    PROVE  e.session = None /\ e.pc = "start" /\ Full(e, p, n)
<1>1. Opens(e, p, n)
  BY IdleUnused DEF Opens
<1> QED
  BY <1>1, IdleUnused DEF Full, Unused

\* What a step leaves alone, of which RecoveryInv depends.
LEMMA RecoveryKept ==
    ASSUME HandshakeInv, RecoveryInv, UNCHANGED <<attempt, ccfg, scfg, breaks>>,
           c.session # None => c'.session # None,
           c'.session # None /\ c'.pc = "failed" => cache' = None,
           Going => c'.session # None \/ Full(c', s', Setting')
    PROVE  RecoveryInv'
<1>1. Fine' = Fine
  BY FineStays
<1>2. Cut' = Cut
  BY DEF Cut
<1>3. ccfg \in ClientConfigs /\ scfg \in ServerConfigs
  BY DEF HandshakeInv
<1>4. Fine' /\ ~Cut' => c'.session # None \/ Full(c', s', Setting')
  <2> SUFFICES ASSUME Fine', ~Cut' PROVE c'.session # None \/ Full(c', s', Setting')
    OBVIOUS
  <2>1. Fine /\ ~Cut
    BY <1>1, <1>2
  <2>2. c.session # None \/ Full(c, s, Setting)
    BY <2>1 DEF RecoveryInv
  <2> QED
    BY <1>3, <2>1, <2>2 DEF Going
<1> QED
  BY <1>4 DEF RecoveryInv

\* A session is offered from the start or not at all, and one step of the
\* client throws it away with the attempt;
LEMMA ClientRecovers ==
    ASSUME HandshakeInv, RecoveryInv, ClientNext
    PROVE  RecoveryInv'
<1>1. /\ UNCHANGED <<attempt, ccfg, scfg, breaks>>
      /\ c'.pc = "failed" => c.pc # "start" /\ cache' = Cached(c')
  BY ClientShape
<1>2. c.pc = "start" \/ c'.session = c.session
  BY ClientNextInv DEF ClientGoes
<1>3. c.pc = "start" => c.session = None
  BY DEF HandshakeInv, ClientInv, ClientState, ClientSecret, Opening
<1>4. c'.session # None /\ c'.pc = "failed" => cache' = None
  BY <1>1, <1>2 DEF Cached
<1>5. c.session # None => c'.session # None
  BY <1>2, <1>3
<1> QED
  BY <1>1, <1>4, <1>5, ClientMovesOn, RecoveryKept

\* a step of the server leaves it alone.
LEMMA ServerRecovers ==
    ASSUME HandshakeInv, RecoveryInv, ServerNext
    PROVE  RecoveryInv'
<1>1. /\ UNCHANGED <<attempt, ccfg, scfg, breaks, cache>>
      /\ c' = c \/ (c' = Taken(c) /\ c.wire.sent # <<>>)
  BY ServerShape
<1>2. DOMAIN c = EndFields
  BY DEF HandshakeInv, ClientInv, IsEnd
<1>3. c'.session = c.session /\ c'.pc = c.pc
  <2>1. SameBut(Taken(c), c, {"wire"})
    BY <1>2, TakenSame
  <2>2. Taken(c).session = c.session /\ Taken(c).pc = c.pc
    BY <2>1 DEF SameBut, EndFields
  <2> QED
    BY <1>1, <2>2
<1>4. c'.session # None /\ c'.pc = "failed" => cache' = None
  BY <1>1, <1>3 DEF RecoveryInv
<1> QED
  BY <1>1, <1>3, <1>4, ServerMovesOn, RecoveryKept

\* The steps of neither end: one that breaks the connection is no matter here,
\* and a new attempt begins at the first stage.
LEMMA OtherRecovers ==
    ASSUME HandshakeInv, RecoveryInv, handleNewSessionTicket \/ Break \/ Reconnect \/ UNCHANGED vars
    PROVE  RecoveryInv'
<1>1. IsEnd(c) /\ IsEnd(s)
  BY DEF HandshakeInv, ClientInv, ServerInv
<1>2. CASE handleNewSessionTicket
  <2>1. c.pc = "done" /\ c' = c /\ UNCHANGED <<attempt, ccfg, scfg, breaks>>
    BY <1>2 DEF handleNewSessionTicket, config
  <2> QED
    BY <1>1, <1>2, <2>1, TicketLeaves, RecoveryKept
<1>3. CASE Break
  <2>1. c' = [c EXCEPT !.wire.sent = <<Eof>>] /\ cache' = cache /\ Cut'
    BY <1>3 DEF Break, Cut
  <2>2. SameBut(c', c, {"wire"})
    BY <1>1, <2>1, EofRewires DEF Rewired
  <2>3. c'.session = c.session /\ c'.pc = c.pc
    BY <2>2 DEF SameBut, EndFields
  <2> QED
    BY <2>1, <2>3 DEF RecoveryInv
<1>4. CASE Reconnect
  <2>1. c' = Idle /\ s' = Idle
    BY <1>4 DEF Reconnect
  <2>2. c'.session = None /\ Full(c', s', Setting')
    BY <2>1, IdleOpens
  <2> QED
    BY <2>2 DEF RecoveryInv
<1>5. CASE UNCHANGED vars
  <2>1. UNCHANGED <<attempt, ccfg, scfg, breaks, c, s, cache>> /\ Setting' = Setting
    BY <1>5 DEF vars, Setting
  <2>2. c'.session # None /\ c'.pc = "failed" => cache' = None
    BY <2>1 DEF RecoveryInv
  <2>3. Going => Full(c', s', Setting')
    BY <2>1 DEF Going
  <2> QED
    BY <2>1, <2>2, <2>3, RecoveryKept
<1> QED
  BY <1>2, <1>3, <1>4, <1>5

\* Every step keeps it.
LEMMA RecoveryStep == HandshakeInv /\ RecoveryInv /\ [Next]_vars => RecoveryInv'
BY ClientRecovers, ServerRecovers, OtherRecovers DEF Next

\* It holds at first.
LEMMA RecoveryInit == Init => RecoveryInv
<1> SUFFICES ASSUME Init PROVE RecoveryInv
  OBVIOUS
<1>1. c = Idle /\ s = Idle
  BY DEF Init
<1>2. c.session = None /\ Full(c, s, Setting)
  BY <1>1, IdleOpens
<1> QED
  BY <1>2 DEF RecoveryInv

\* At no stage of a full handshake has an end failed.
LEMMA RecoveryEnough == RecoveryInv => RetryRecovers
<1> SUFFICES ASSUME RecoveryInv, Fine, ~Cut
             PROVE  /\ c.pc = "failed" => c.session # None /\ cache = None
                    /\ s.pc = "failed" => c.session # None
  BY DEF RetryRecovers
<1>1. CASE c.session # None
  BY <1>1 DEF RecoveryInv
<1>2. CASE Full(c, s, Setting)
  <2> DEFINE n == Setting
  <2> HIDE DEF n
  <2>1. c.pc # "failed" /\ s.pc # "failed"
    BY <1>2, Stages DEF n
  <2> QED
    BY <2>1
<1> QED
  BY <1>1, <1>2 DEF RecoveryInv

(* Between configurations that go together, an attempt on a connection that *)
(* does not break fails only over a session it offered, which is thrown     *)
(* away then; without one, every message of a full handshake, of either     *)
(* version, with or without a HelloRetryRequest, ECH and a client           *)
(* certificate, is the one its reader expects, under the key it holds (the  *)
(* deferred Put in clientHandshake).                                        *)
THEOREM FailureIsRecovered == Spec => []RetryRecovers
<1>1. Spec => Init /\ [][Next]_vars
  BY DEF Spec
<1> QED
  BY <1>1, RecoveryInit, RecoveryStep, RecoveryEnough, EndsFit, PTL
=============================================================================
