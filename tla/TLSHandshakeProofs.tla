------------------------ MODULE TLSHandshakeProofs ------------------------
(***************************************************************************)
(* Proofs about TLSHandshake, for any configurations of the two ends, any   *)
(* number of attempts and any number of broken connections: its inductive   *)
(* invariant HandshakeInv, the authentication of the peers, and that the    *)
(* handshake implements Agreement.                                          *)
(*                                                                         *)
(* The invariant ties three things together: what each end has settled, the *)
(* messages that are under way, which say only what the sender has settled, *)
(* and the sessions kept from earlier attempts.  A step of one end is shown *)
(* to keep what the other relies on: a server that has answered goes on     *)
(* with what it answered (Follows), and a client says only what a client of *)
(* its configuration may say (Speaks).                                      *)
(***************************************************************************)
EXTENDS TLSHandshake, WellFoundedInduction, SequenceTheorems, TLAPS

-----------------------------------------------------------------------------
(* The state of an end, as a record. *)
EndFields ==
    {"pc", "in", "pending", "wire", "hello", "serverHello", "session", "share", "vers", "suite",
     "transcript", "inner", "echRejected", "secret", "traffic", "resumption", "base", "alpn", "ems",
     "flight", "certReq", "peerCert", "verified", "ticket", "clientFinished"}
WireFields == {"out", "buffering", "buf", "sent"}
HelloFields ==
    {"versions", "suites", "curves", "shares", "generation", "ems", "alpn", "ech", "tickets", "random",
     "ticket", "psk"}

IsSeq(q) == q \in Seq(ToSet(q))
IsWire(w) == DOMAIN w = WireFields /\ IsSeq(w.sent) /\ IsSeq(w.buf)
IsEnd(e) == DOMAIN e = EndFields /\ IsWire(e.wire)

\* What an end has written and the peer has not read, sent or still buffered.
Said(e) == ToSet(e.wire.sent) \cup ToSet(e.wire.buf)

\* Field by field, x is e but for the fields F.
SameBut(x, e, F) == \A f \in EndFields \ F : x[f] = e[f]

-----------------------------------------------------------------------------
(* Sessions and tickets *)

\* The master secret a resumption secret of TLS 1.3 was derived from.
BaseOf(k) == [attempt |-> k.attempt, early |-> k.early, share |-> k.share, context |-> <<>>]

\* A session continues the secret it was made with, and says that its peer was
\* verified only of one with a good certificate.
Sound(x) ==
    /\ x.verified \in BOOLEAN /\ x.ems \in BOOLEAN
    /\ x.verified => x.peerCert = "good"
    /\ x.base = IF x.version = 13 THEN BaseOf(x.secret) ELSE x.secret

\* A ticket that came from a handshake the client completed, and a session.
SoundTicket(t, n) == t # None => Sound(t.state) /\ t.state.base \in n.founded
SoundSession(x, n) == x # None => Sound(x) /\ x.base \in n.founded /\ SoundTicket(x.ticket, n)

\* A hello of this client, which offers the session sess.
SoundHello(h, sess, n) ==
    /\ DOMAIN h = HelloFields
    /\ h.random = "outer" /\ h.ech = n.client.ech /\ h.versions = n.client.versions /\ h.ems = n.client.ems
    /\ SoundTicket(h.ticket, n)
    /\ h.ticket # None => sess # None
    /\ h.psk # None =>
        /\ sess # None /\ sess.version = 13
        /\ DOMAIN h.psk = {"ticket", "binder"} /\ SoundTicket(h.psk.ticket, n)

-----------------------------------------------------------------------------
(* The server *)
Before == {"start", "clientHello", "clientHello2"}
Exchange12 == {"clientCertificate12", "clientKeyExchange"}
Closing12 == {"clientVerify12", "clientCCS", "clientFinished12"}
Flight13 == {"sendServerCertificate", "sendServerFinished"}
Closing13 == {"clientCertificate13", "clientVerify13", "clientFinished13"}

\* It has answered the hello; it may have sent its Finished.
Answered == Exchange12 \cup Closing12 \cup Flight13 \cup Closing13 \cup {"done", "failed"}
Late == {"clientCCS", "clientFinished12", "done", "failed"} \cup Closing13

\* What its ServerHello stands for, to a client that offered the session sess.
Answer(p, sess, n) ==
    /\ p.pc \in Answered
    /\ p.vers = p.serverHello.vers /\ p.suite = p.serverHello.suite
    /\ p.serverHello.ems \in BOOLEAN /\ p.serverHello.echo \in BOOLEAN /\ p.serverHello.psk \in BOOLEAN
    /\ p.vers = 12 => p.alpn = p.serverHello.alpn /\ (p.serverHello.echo => sess # None)
    /\ p.serverHello.ech # <<>> => p.hello.random = "inner"
    /\ p.hello.random = "inner" => n.client.ech # 0

\* What its Finished stands for: the secret continues that of the session.
Continues12(p) ==
    p.ems = p.serverHello.ems /\ p.base = IF p.serverHello.echo THEN p.secret ELSE None
Continues13(p) ==
    p.ems = FALSE /\ p.base = IF p.serverHello.psk THEN BaseOf(p.secret.early) ELSE None
Continues(p) ==
    /\ p.pc \in Late
    /\ p.vers = 12 => Continues12(p)
    /\ p.vers = 13 => Continues13(p)

\* A ticket it made in this attempt.
Issued(t, p) == Sound(t.state) /\ t.state.base = p.secret /\ p.pc \in Late

\* A message on its way to the client says what the server has settled.
ServerSays(r, p, sess, n) ==
    /\ r.kind = "serverHello" => r.body = p.serverHello /\ Answer(p, sess, n)
    /\ r.kind = "helloRetryRequest" =>
        /\ r.body.vers = 13 /\ r.body.suite = p.suite
        /\ p.vers = 13 /\ p.pc \in Answered \cup {"clientHello2"}
    /\ r.kind = "encryptedExtensions" => r.body = p.alpn /\ p.pc \in Answered
    /\ r.kind = "finished" => r.body.key.secret = p.secret /\ Continues(p)
    /\ r.kind = "newSessionTicket" => Issued(r.body, p)

\* The client certificate is one the policy in force accepts.
Policy(p, n) ==
    /\ requiresClientCert(n.server.clientAuth) => p.peerCert # "none"
    /\ n.server.clientAuth >= VerifyClientCertIfGiven => p.peerCert # "unverifiable"
    /\ n.server.clientAuth = NoClientCert => p.peerCert = "none"

ServerCert(p, n) ==
    /\ p.verified \in BOOLEAN
    /\ p.verified => p.peerCert = "good"
    /\ p.pc \in Before => p.peerCert = "none"
    /\ p.pc \in {"clientKeyExchange", "clientVerify13", "clientFinished13", "done"} \cup Closing12 => Policy(p, n)
    /\ p.pc \in {"clientCertificate12", "clientCertificate13"} => n.server.clientAuth >= RequestClientCert
    /\ p.pc \in Flight13 => IF p.session # None THEN Policy(p, n) ELSE p.peerCert = "none"

ServerSecret(p, n) ==
    /\ p.ems \in BOOLEAN /\ p.base \in n.founded \cup {None}
    /\ p.pc \in Before => p.base = None /\ p.ems = FALSE /\ p.session = None
    /\ p.pc \in Exchange12 =>
        /\ p.vers = 12 /\ p.session = None /\ p.base = None
        /\ ~p.serverHello.echo /\ p.serverHello.ems = p.hello.ems
    /\ p.pc \in Closing12 =>
        /\ p.vers = 12 /\ Continues12(p)
        /\ p.session # None => p.wire.out.secret = p.secret
        /\ IF p.pc = "clientFinished12" THEN p.in.secret = p.secret ELSE p.pending.secret = p.secret
    /\ p.pc \in Flight13 \cup Closing13 =>
        /\ p.vers = 13 /\ Continues13(p) /\ p.secret = BaseOf(p.secret)
        /\ p.wire.out.secret = p.secret
    /\ p.pc \in Closing13 => p.traffic.secret = p.secret
    /\ p.pc = "done" => Continues(p) /\ p.in.secret = p.secret /\ p.wire.out.secret = p.secret

ServerHelloInv(p, sess, n) ==
    /\ p.pc \in Answered => Answer(p, sess, n)
    /\ p.pc = "clientHello2" =>
        /\ p.vers = 13 /\ p.serverHello = [ServerHello EXCEPT !.vers = 13, !.suite = p.suite, !.echo = TRUE]
        /\ p.hello.random = "inner" => n.client.ech # 0

ServerState(p, sess, n) ==
    /\ p.pc \in Before \cup Answered
    /\ ServerCert(p, n) /\ ServerSecret(p, n) /\ ServerHelloInv(p, sess, n)

ServerInv(p, sess, n) ==
    /\ IsEnd(p)
    /\ \A r \in Said(p) : ServerSays(r, p, sess, n)
    /\ p.pc # "failed" => ServerState(p, sess, n)

-----------------------------------------------------------------------------
(* The client, with p the server it talks to *)
Opening == {"start", "serverHello", "serverHello2"}
Certs12 == {"certificate12", "flight12"}
Keyed12 == {"ticket12", "changeCipherSpec", "finished12"}
Reading13 == {"encryptedExtensions", "certificate13", "certificateVerify13", "finished13"}

ClientSays(r, sess, n) ==
    /\ r.kind = "clientHello" => SoundHello(r.body, sess, n)
    /\ r.kind = "certificate" => r.body \in {"none", "unverifiable", "good"}

\* The server's certificate has been verified, by this client or one before it.
ClientCert(e, n) ==
    /\ e.verified \in BOOLEAN
    /\ e.verified => e.peerCert = "good"
    /\ e.pc \in Opening \cup {"certificate12"} => ~e.verified /\ e.flight = 0
    /\ e.pc = "flight12" => e.flight \in Nat
    /\ ~n.client.skipVerify =>
        /\ e.pc = "flight12" /\ e.flight > 1 => e.verified
        /\ e.pc = "encryptedExtensions" /\ e.serverHello.psk => e.verified
        /\ e.pc \in Keyed12 \cup {"certificateVerify13", "finished13", "done"} => e.verified

\* What it has read so far is what the server has settled.
ClientKnows(e, p, n) ==
    /\ e.pc = "serverHello2" =>
        /\ e.vers = 13 /\ p.vers = 13 /\ e.suite = p.suite
        /\ p.pc \in Answered \cup {"clientHello2"}
        /\ IsSeq(e.inner) /\ (n.client.ech # 0 => e.inner # <<>>)
    /\ e.pc \in Certs12 \cup Keyed12 \cup Reading13 \cup {"done"} =>
        /\ Answer(p, e.session, n)
        /\ e.serverHello = p.serverHello /\ e.vers = p.vers /\ e.suite = p.suite
    /\ e.pc \in Certs12 \cup Keyed12 => e.vers = 12 /\ n.client.ech = 0 /\ e.alpn = e.serverHello.alpn
    /\ e.pc \in Reading13 =>
        /\ e.vers = 13
        /\ n.client.ech # 0 /\ ~e.echRejected => p.hello.random = "inner"
        /\ e.pc # "encryptedExtensions" => e.alpn = p.alpn

ClientSecret(e, p, n) ==
    /\ e.ems \in BOOLEAN /\ e.base \in n.founded \cup {None}
    /\ e.pc \in Opening => e.base = None /\ e.ems = FALSE /\ e.ticket = None
    /\ e.pc = "start" => e.session = None
    /\ e.pc \in {"serverHello", "serverHello2"} => SoundHello(e.hello, e.session, n)
    /\ e.pc \in Certs12 => ~serverResumedSession(e) /\ e.base = None /\ e.ticket = None
    /\ e.pc \in Keyed12 =>
        /\ e.ems = e.serverHello.ems
        /\ e.base = IF serverResumedSession(e) THEN e.secret ELSE None
        /\ ~serverResumedSession(e) => e.wire.out.secret = e.secret
        /\ IF e.pc = "finished12" THEN e.in.secret = e.secret ELSE e.pending.secret = e.secret
        /\ e.ticket # None => Issued(e.ticket, p)
    /\ e.pc \in Reading13 =>
        /\ Continues13(e) /\ e.secret = BaseOf(e.secret)
        /\ e.in.secret = e.secret /\ e.ticket = None

\* Both ends have come to the same, or the server is about to.
Agrees(e, p, n) ==
    /\ e.alpn = p.alpn /\ e.ems = p.ems /\ e.secret = p.secret /\ e.base = p.base
    /\ e.in.secret = e.secret /\ e.wire.out.secret = e.secret
    /\ (n.client.ech # 0) <=> (p.hello.random = "inner")
    /\ p.pc \in Late
    /\ e.secret \in n.founded
    /\ e.vers = 13 /\ n.client.cache => e.secret = BaseOf(e.resumption)

ClientState(e, p, n) ==
    /\ e.pc \in Opening \cup Certs12 \cup Keyed12 \cup Reading13 \cup {"done"}
    /\ ClientCert(e, n) /\ ClientKnows(e, p, n) /\ ClientSecret(e, p, n)
    /\ e.pc = "done" => Agrees(e, p, n)

ClientInv(e, p, n) ==
    /\ IsEnd(e)
    /\ SoundSession(e.session, n)
    /\ e.session # None /\ ~n.client.skipVerify => e.session.verified
    /\ \A r \in Said(e) : ClientSays(r, e.session, n)
    /\ e.pc # "failed" => ClientState(e, p, n)

\* What an attempt depends on beside the two ends.
Now == [client |-> ccfg, server |-> scfg, founded |-> founded]

HandshakeInv ==
    /\ ccfg \in ClientConfigs /\ scfg \in ServerConfigs
    /\ SoundSession(cache, Now)
    /\ ClientInv(c, s, Now)
    /\ ServerInv(s, c.session, Now)
-----------------------------------------------------------------------------
(* Sequences of records, and what an end has written *)

\* A sequence is one over the set of its elements.
LEMMA SeqOfItself ==
    ASSUME NEW S, NEW q \in Seq(S)
    PROVE  IsSeq(q) /\ ToSet(q) \subseteq S
<1>1. ToSet(q) = Range(q)
  BY DEF ToSet, Range
<1> QED
  BY <1>1, SeqOfRange, RangeOfSeq DEF IsSeq

\* Append adds one element to those of a sequence.
LEMMA AppendSeq ==
    ASSUME NEW q, IsSeq(q), NEW r
    PROVE  IsSeq(Append(q, r)) /\ ToSet(Append(q, r)) \subseteq ToSet(q) \cup {r}
<1> DEFINE S == ToSet(q) \cup {r}
<1>1. q \in Seq(S) /\ r \in S
  BY SeqMonotonic DEF IsSeq
<1>2. Append(q, r) \in Seq(S)
  BY <1>1, AppendProperties
<1> QED
  BY <1>2, SeqOfItself

\* A concatenation has the elements of its two parts.
LEMMA ConcatSeq ==
    ASSUME NEW q, IsSeq(q), NEW w, IsSeq(w)
    PROVE  IsSeq(q \o w) /\ ToSet(q \o w) \subseteq ToSet(q) \cup ToSet(w)
<1> DEFINE S == ToSet(q) \cup ToSet(w)
<1>1. q \in Seq(S) /\ w \in Seq(S)
  BY SeqMonotonic DEF IsSeq
<1>2. q \o w \in Seq(S)
  BY <1>1, ConcatProperties
<1> QED
  BY <1>2, SeqOfItself

\* The head of a sequence is one of its elements, and its tail has no others.
LEMMA HeadTailSeq ==
    ASSUME NEW q, IsSeq(q), q # <<>>
    PROVE  Head(q) \in ToSet(q) /\ IsSeq(Tail(q)) /\ ToSet(Tail(q)) \subseteq ToSet(q)
<1>1. q \in Seq(ToSet(q))
  BY DEF IsSeq
<1>2. Head(q) \in ToSet(q) /\ Tail(q) \in Seq(ToSet(q))
  BY <1>1, HeadTailProperties
<1> QED
  BY <1>2, SeqOfItself

\* The empty sequence has no elements.
LEMMA EmptySeqs == IsSeq(<<>>) /\ ToSet(<<>>) = {}
BY DEF IsSeq, ToSet

-----------------------------------------------------------------------------
(* The operations on an end: x has the fields of e but for those named.     *)

\* Put adds one record to what was sent or is buffered.
LEMMA PutWire ==
    ASSUME NEW w, IsWire(w), NEW m
    PROVE  /\ IsWire(Put(w, m)) /\ Put(w, m).out = w.out
           /\ \A r \in ToSet(Put(w, m).sent) \cup ToSet(Put(w, m).buf) :
                r \in ToSet(w.sent) \cup ToSet(w.buf) \/ (r.kind = m.kind /\ r.body = m.body)
<1> DEFINE r0 == [kind |-> m.kind, body |-> m.body, under |-> w.out]
<1>1. CASE w.buffering
  <2>1. Put(w, m) = [w EXCEPT !.buf = Append(w.buf, r0)]
    BY <1>1 DEF Put
  <2> HIDE DEF r0
  <2>2. IsWire(Put(w, m)) /\ Put(w, m).out = w.out /\ Put(w, m).sent = w.sent /\ Put(w, m).buf = Append(w.buf, r0)
    BY <2>1, AppendSeq DEF IsWire, WireFields
  <2>3. r0.kind = m.kind /\ r0.body = m.body
    BY DEF r0
  <2> QED
    BY <2>2, <2>3, AppendSeq DEF IsWire
<1>2. CASE ~ w.buffering
  <2>1. Put(w, m) = [w EXCEPT !.sent = Append(w.sent, r0)]
    BY <1>2 DEF Put
  <2> HIDE DEF r0
  <2>2. IsWire(Put(w, m)) /\ Put(w, m).out = w.out /\ Put(w, m).buf = w.buf /\ Put(w, m).sent = Append(w.sent, r0)
    BY <2>1, AppendSeq DEF IsWire, WireFields
  <2>3. r0.kind = m.kind /\ r0.body = m.body
    BY DEF r0
  <2> QED
    BY <2>2, <2>3, AppendSeq DEF IsWire
<1> QED
  BY <1>1, <1>2

\* Write says one message more, and changes the stream alone.
LEMMA WriteEnd ==
    ASSUME NEW e, IsEnd(e), NEW m
    PROVE  /\ IsEnd(Write(e, m)) /\ SameBut(Write(e, m), e, {"wire"})
           /\ Write(e, m).wire.out = e.wire.out
           /\ \A r \in Said(Write(e, m)) : r \in Said(e) \/ (r.kind = m.kind /\ r.body = m.body)
<1>1. IsWire(e.wire) /\ DOMAIN e = EndFields
  BY DEF IsEnd
<1>2. Write(e, m).wire = Put(e.wire, m) /\ DOMAIN Write(e, m) = EndFields
  BY <1>1 DEF Write, EndFields
<1>3. SameBut(Write(e, m), e, {"wire"})
  BY <1>1 DEF Write, SameBut
<1>4. /\ IsWire(Put(e.wire, m)) /\ Put(e.wire, m).out = e.wire.out
      /\ \A r \in ToSet(Put(e.wire, m).sent) \cup ToSet(Put(e.wire, m).buf) :
            r \in ToSet(e.wire.sent) \cup ToSet(e.wire.buf) \/ (r.kind = m.kind /\ r.body = m.body)
  BY <1>1, PutWire
<1>5. IsEnd(Write(e, m)) /\ Write(e, m).wire.out = e.wire.out
  BY <1>2, <1>4 DEF IsEnd
<1> QED
  BY <1>2, <1>3, <1>4, <1>5 DEF Said

\* So does WriteRecorded, which also writes it to the transcript.
LEMMA WriteRecordedEnd ==
    ASSUME NEW e, IsEnd(e), NEW kind, NEW body
    PROVE  LET x == WriteRecorded(e, kind, body) IN
           /\ IsEnd(x) /\ SameBut(x, e, {"wire", "transcript"})
           /\ x.wire.out = e.wire.out
           /\ \A r \in Said(x) : r \in Said(e) \/ (r.kind = kind /\ r.body = body)
<1> DEFINE m == Msg(kind, body)
           y == Write(e, m)
           x == WriteRecorded(e, kind, body)
<1>1. m.kind = kind /\ m.body = body
  BY DEF Msg
<1>2. x = [y EXCEPT !.transcript = Append(@, kind)]
  BY DEF WriteRecorded, Record
<1> HIDE DEF m, x
<1>3. /\ IsEnd(y) /\ SameBut(y, e, {"wire"}) /\ y.wire.out = e.wire.out
      /\ \A r \in Said(y) : r \in Said(e) \/ (r.kind = m.kind /\ r.body = m.body)
  BY WriteEnd
<1> HIDE DEF y
<1>4. IsEnd(x) /\ x.wire = y.wire /\ SameBut(x, y, {"transcript"})
  BY <1>2, <1>3 DEF IsEnd, SameBut, EndFields
<1>5. SameBut(x, e, {"wire", "transcript"})
  BY <1>3, <1>4 DEF SameBut
<1> QED
  BY <1>1, <1>3, <1>4, <1>5 DEF Said, x

\* Record changes the transcript alone.
LEMMA RecordEnd ==
    ASSUME NEW e, IsEnd(e), NEW kind
    PROVE  IsEnd(Record(e, kind)) /\ SameBut(Record(e, kind), e, {"transcript"})
BY DEF IsEnd, Record, SameBut, EndFields

\* Buffer says nothing.
LEMMA BufferEnd ==
    ASSUME NEW e, IsEnd(e)
    PROVE  /\ IsEnd(Buffer(e)) /\ SameBut(Buffer(e), e, {"wire"})
           /\ Buffer(e).wire.out = e.wire.out /\ Said(Buffer(e)) = Said(e)
<1>1. IsWire(e.wire) /\ DOMAIN e = EndFields
  BY DEF IsEnd
<1>2. Buffer(e).wire = [e.wire EXCEPT !.buffering = TRUE] /\ DOMAIN Buffer(e) = EndFields
  BY <1>1 DEF Buffer, EndFields
<1>3. SameBut(Buffer(e), e, {"wire"})
  BY <1>1 DEF Buffer, SameBut
<1>4. IsWire(Buffer(e).wire) /\ Buffer(e).wire.out = e.wire.out
      /\ Buffer(e).wire.sent = e.wire.sent /\ Buffer(e).wire.buf = e.wire.buf
  BY <1>1, <1>2 DEF IsWire, WireFields
<1> QED
  BY <1>2, <1>3, <1>4 DEF IsEnd, Said

\* flush says nothing that was not in the buffer.
LEMMA flushEnd ==
    ASSUME NEW e, IsEnd(e)
    PROVE  /\ IsEnd(flush(e)) /\ SameBut(flush(e), e, {"wire"})
           /\ flush(e).wire.out = e.wire.out /\ Said(flush(e)) \subseteq Said(e)
<1>1. IsWire(e.wire) /\ DOMAIN e = EndFields
  BY DEF IsEnd
<1>2. flush(e).wire = Flushed(e.wire) /\ DOMAIN flush(e) = EndFields
  BY <1>1 DEF flush, EndFields
<1>3. SameBut(flush(e), e, {"wire"})
  BY <1>1 DEF flush, SameBut
<1>4. /\ DOMAIN Flushed(e.wire) = WireFields /\ Flushed(e.wire).out = e.wire.out
      /\ Flushed(e.wire).sent = e.wire.sent \o e.wire.buf /\ Flushed(e.wire).buf = <<>>
  BY <1>1 DEF IsWire, WireFields, Flushed
<1>5. IsWire(Flushed(e.wire)) /\ Said(flush(e)) \subseteq Said(e)
  BY <1>1, <1>2, <1>4, ConcatSeq, EmptySeqs DEF IsWire, Said
<1> QED
  BY <1>2, <1>3, <1>4, <1>5 DEF IsEnd

\* An end that fails says no more than an alert and the end of the stream.
LEMMA FailedEnd ==
    ASSUME NEW e, IsEnd(e), NEW alert
    PROVE  /\ IsEnd(Failed(e, alert)) /\ SameBut(Failed(e, alert), e, {"wire", "pc"})
           /\ Failed(e, alert).pc = "failed"
           /\ \A r \in Said(Failed(e, alert)) : r \in Said(e) \/ r.kind \in {"alert", "eof"}
<1> DEFINE told == IF alert = None THEN e ELSE Write(e, Msg("alert", alert))
           y == Write(told, Msg("eof", None))
           z == flush(y)
<1>1. /\ IsEnd(told) /\ SameBut(told, e, {"wire"})
      /\ \A r \in Said(told) : r \in Said(e) \/ r.kind = "alert"
  <2>1. CASE alert = None
    BY <2>1 DEF SameBut
  <2>2. CASE alert # None
    <3>1. told = Write(e, Msg("alert", alert)) /\ Msg("alert", alert).kind = "alert"
      BY <2>2 DEF Msg
    <3> QED
      BY <3>1, WriteEnd
  <2> QED
    BY <2>1, <2>2
<1>2. Failed(e, alert) = [z EXCEPT !.pc = "failed"]
  BY DEF Failed
<1> HIDE DEF told
<1>3. /\ IsEnd(y) /\ SameBut(y, told, {"wire"})
      /\ \A r \in Said(y) : r \in Said(told) \/ r.kind = "eof"
  BY <1>1, WriteEnd DEF Msg
<1> HIDE DEF y
<1>4. IsEnd(z) /\ SameBut(z, y, {"wire"}) /\ Said(z) \subseteq Said(y)
  BY <1>3, flushEnd
<1> HIDE DEF z
<1>5. SameBut(z, e, {"wire"})
  BY <1>1, <1>3, <1>4 DEF SameBut
<1>6. /\ IsEnd(Failed(e, alert)) /\ Failed(e, alert).pc = "failed"
      /\ Failed(e, alert).wire = z.wire /\ SameBut(Failed(e, alert), z, {"pc"})
  BY <1>2, <1>4 DEF IsEnd, SameBut, EndFields
<1>7. SameBut(Failed(e, alert), e, {"wire", "pc"})
  BY <1>5, <1>6 DEF SameBut
<1> QED
  BY <1>1, <1>3, <1>4, <1>6, <1>7 DEF Said

\* An end whose record was read by the other has said what is left.
LEMMA TakenEnd ==
    ASSUME NEW e, IsEnd(e), e.wire.sent # <<>>
    PROVE  /\ IsEnd(Taken(e)) /\ SameBut(Taken(e), e, {"wire"})
           /\ Taken(e).wire.out = e.wire.out /\ Said(Taken(e)) \subseteq Said(e)
           /\ Head(e.wire.sent) \in Said(e)
<1>1. IsWire(e.wire) /\ DOMAIN e = EndFields
  BY DEF IsEnd
<1>2. Taken(e).wire = [e.wire EXCEPT !.sent = Tail(@)] /\ DOMAIN Taken(e) = EndFields
  BY <1>1 DEF Taken, EndFields
<1>3. SameBut(Taken(e), e, {"wire"})
  BY <1>1 DEF Taken, SameBut
<1>4. /\ DOMAIN Taken(e).wire = WireFields /\ Taken(e).wire.out = e.wire.out
      /\ Taken(e).wire.sent = Tail(e.wire.sent) /\ Taken(e).wire.buf = e.wire.buf
  BY <1>1, <1>2 DEF IsWire, WireFields
<1> QED
  BY <1>1, <1>2, <1>3, <1>4, HeadTailSeq DEF IsEnd, IsWire, Said
-----------------------------------------------------------------------------
(* What a step of the server leaves to the client: e follows p if it keeps  *)
(* what p has settled.                                                      *)
Follows(e, p) ==
    /\ p.pc \in Answered =>
        /\ e.pc \in Answered /\ e.serverHello = p.serverHello /\ e.vers = p.vers
        /\ e.suite = p.suite /\ e.alpn = p.alpn /\ e.hello = p.hello
    /\ p.pc \in Late => e.pc \in Late /\ e.secret = p.secret /\ e.ems = p.ems /\ e.base = p.base
    /\ p.pc = "clientHello2" =>
        e.pc \in Answered \cup {"clientHello2"} /\ e.vers = p.vers /\ e.suite = p.suite

\* The messages that settle nothing.
Silent(r) == r.kind \notin {"serverHello", "helloRetryRequest", "encryptedExtensions", "finished",
                            "newSessionTicket"}

\* A server that has sent its Finished has sent its ServerHello.
LEMMA LateAnswered == Late \subseteq Answered /\ "clientHello2" \notin Answered
BY DEF Late, Answered, Exchange12, Closing12, Flight13, Closing13

\* A message that settles nothing is always true.
LEMMA SilentSays ==
    ASSUME NEW r, Silent(r), NEW p, NEW sess, NEW n
    PROVE  ServerSays(r, p, sess, n)
BY DEF Silent, ServerSays

\* What the ServerHello stands for remains true of a server that follows.
LEMMA AnswerFollows ==
    ASSUME NEW p, NEW e, Follows(e, p), NEW sess, NEW n, Answer(p, sess, n)
    PROVE  Answer(e, sess, n)
BY DEF Follows, Answer

\* So does what a ticket stands for ...
LEMMA IssuedFollows ==
    ASSUME NEW p, NEW e, Follows(e, p), NEW t, Issued(t, p)
    PROVE  Issued(t, e)
BY DEF Follows, Issued

\* ... and every message on its way to the client.
LEMMA SaysFollows ==
    ASSUME NEW p, NEW e, Follows(e, p), NEW r, NEW sess, NEW n, ServerSays(r, p, sess, n)
    PROVE  ServerSays(r, e, sess, n)
<1>1. r.kind = "serverHello" => r.body = e.serverHello /\ Answer(e, sess, n)
  BY AnswerFollows DEF ServerSays, Follows, Answer
<1>2. r.kind = "helloRetryRequest" =>
        /\ r.body.vers = 13 /\ r.body.suite = e.suite
        /\ e.vers = 13 /\ e.pc \in Answered \cup {"clientHello2"}
  BY DEF ServerSays, Follows
<1>3. r.kind = "encryptedExtensions" => r.body = e.alpn /\ e.pc \in Answered
  BY DEF ServerSays, Follows
<1>4. r.kind = "finished" => r.body.key.secret = e.secret /\ Continues(e)
  BY LateAnswered DEF ServerSays, Follows, Continues, Continues12, Continues13
<1>5. r.kind = "newSessionTicket" => Issued(r.body, e)
  BY IssuedFollows DEF ServerSays
<1> QED
  BY <1>1, <1>2, <1>3, <1>4, <1>5 DEF ServerSays

\* What the client knows of the server remains true as well,
LEMMA KnowsFollows ==
    ASSUME NEW p, NEW e, Follows(e, p), NEW x, NEW n, ClientKnows(x, p, n)
    PROVE  ClientKnows(x, e, n)
<1>1. x.pc = "serverHello2" =>
        /\ x.vers = 13 /\ e.vers = 13 /\ x.suite = e.suite
        /\ e.pc \in Answered \cup {"clientHello2"}
        /\ IsSeq(x.inner) /\ (n.client.ech # 0 => x.inner # <<>>)
  BY DEF ClientKnows, Follows
<1>2. x.pc \in Certs12 \cup Keyed12 \cup Reading13 \cup {"done"} =>
        /\ p.pc \in Answered /\ Answer(e, x.session, n)
        /\ x.serverHello = e.serverHello /\ x.vers = e.vers /\ x.suite = e.suite
  BY AnswerFollows DEF ClientKnows, Follows, Answer
<1>3. x.pc \in Certs12 \cup Keyed12 => x.vers = 12 /\ n.client.ech = 0 /\ x.alpn = x.serverHello.alpn
  BY DEF ClientKnows
<1>4. x.pc \in Reading13 =>
        /\ x.vers = 13
        /\ n.client.ech # 0 /\ ~x.echRejected => e.hello.random = "inner"
        /\ x.pc # "encryptedExtensions" => x.alpn = e.alpn
  BY <1>2 DEF ClientKnows, Follows
<1> QED
  BY <1>1, <1>2, <1>3, <1>4 DEF ClientKnows

\* and what its secrets have to do with the server,
LEMMA SecretFollows ==
    ASSUME NEW p, NEW e, Follows(e, p), NEW x, NEW n, ClientSecret(x, p, n)
    PROVE  ClientSecret(x, e, n)
BY IssuedFollows DEF ClientSecret

\* and the agreement of a client that has completed the attempt,
LEMMA AgreesFollows ==
    ASSUME NEW p, NEW e, Follows(e, p), NEW x, NEW n, Agrees(x, p, n)
    PROVE  Agrees(x, e, n)
BY LateAnswered DEF Agrees, Follows

\* and hence the state of the client
LEMMA StateFollows ==
    ASSUME NEW p, NEW e, Follows(e, p), NEW x, NEW n, ClientState(x, p, n)
    PROVE  ClientState(x, e, n)
BY KnowsFollows, SecretFollows, AgreesFollows DEF ClientState

\* and its invariant.
LEMMA ClientFollows ==
    ASSUME NEW p, NEW e, Follows(e, p), NEW x, NEW n, ClientInv(x, p, n)
    PROVE  ClientInv(x, e, n)
BY StateFollows DEF ClientInv

\* A server that changes nothing, or fails, follows itself.
LEMMA SameFollows ==
    ASSUME NEW p, NEW e, SameBut(e, p, {"wire", "pc"}), e.pc \in {p.pc, "failed"}
    PROVE  Follows(e, p)
<1>1. /\ e.serverHello = p.serverHello /\ e.vers = p.vers /\ e.suite = p.suite /\ e.alpn = p.alpn
      /\ e.hello = p.hello /\ e.secret = p.secret /\ e.ems = p.ems /\ e.base = p.base
  BY DEF SameBut, EndFields
<1>2. "failed" \in Late /\ "failed" \in Answered
  BY DEF Late, Answered
<1> QED
  BY <1>1, <1>2 DEF Follows

\* Enough for the invariant of the server after a step to e.
LEMMA ServerMoves ==
    ASSUME NEW p, NEW e, NEW sess, NEW n, ServerInv(p, sess, n),
           IsEnd(e), Follows(e, p),
           \A r \in Said(e) : r \in Said(p) \/ ServerSays(r, e, sess, n),
           e.pc # "failed" => ServerState(e, sess, n)
    PROVE  ServerInv(e, sess, n)
BY SaysFollows DEF ServerInv

\* The invariant of a server that fails.
LEMMA ServerFails ==
    ASSUME NEW p, NEW sess, NEW n, ServerInv(p, sess, n), NEW alert
    PROVE  ServerInv(Failed(p, alert), sess, n) /\ Follows(Failed(p, alert), p)
<1> DEFINE e == Failed(p, alert)
<1>1. IsEnd(p)
  BY DEF ServerInv
<1>2. /\ IsEnd(e) /\ SameBut(e, p, {"wire", "pc"}) /\ e.pc = "failed"
      /\ \A r \in Said(e) : r \in Said(p) \/ r.kind \in {"alert", "eof"}
  BY <1>1, FailedEnd
<1> HIDE DEF e
<1>3. Follows(e, p)
  BY <1>2, SameFollows
<1>4. \A r \in Said(e) : r \in Said(p) \/ ServerSays(r, e, sess, n)
  BY <1>2, SilentSays DEF Silent
<1>5. ServerInv(e, sess, n)
  BY <1>2, <1>3, <1>4, ServerMoves
<1> QED
  BY <1>3, <1>5 DEF e

\* The stream of an end read or cut by the other.
Rewired(e, x) ==
    /\ IsEnd(e) /\ SameBut(e, x, {"wire"}) /\ e.wire.out = x.wire.out
    /\ \A r \in Said(e) : r \in Said(x) \/ r = Eof

\* A server whose stream is read or cut keeps its invariant.
LEMMA ServerRewired ==
    ASSUME NEW p, NEW sess, NEW n, ServerInv(p, sess, n), NEW e, Rewired(e, p)
    PROVE  ServerInv(e, sess, n) /\ Follows(e, p)
<1>1. Eof.kind = "eof"
  BY DEF Eof
<1>2. /\ IsEnd(e) /\ SameBut(e, p, {"wire"}) /\ e.wire.out = p.wire.out
      /\ \A r \in Said(e) : r \in Said(p) \/ Silent(r)
  BY <1>1 DEF Rewired, Silent
<1>3. SameBut(e, p, {"wire", "pc"}) /\ e.pc = p.pc
  BY <1>2 DEF SameBut, EndFields
<1>4. Follows(e, p)
  BY <1>3, SameFollows
<1>5. ServerState(p, sess, n) => ServerState(e, sess, n)
  <2>1. /\ e.serverHello = p.serverHello /\ e.vers = p.vers /\ e.suite = p.suite /\ e.alpn = p.alpn
        /\ e.hello = p.hello /\ e.secret = p.secret /\ e.ems = p.ems /\ e.base = p.base
        /\ e.verified = p.verified /\ e.peerCert = p.peerCert /\ e.session = p.session
        /\ e.in = p.in /\ e.pending = p.pending /\ e.traffic = p.traffic
    BY <1>2 DEF SameBut, EndFields
  <2>2. ServerCert(p, n) => ServerCert(e, n)
    BY <1>3, <2>1 DEF ServerCert, Policy
  <2>3. ServerSecret(p, n) => ServerSecret(e, n)
    BY <1>2, <1>3, <2>1 DEF ServerSecret, Continues, Continues12, Continues13
  <2>4. ServerHelloInv(p, sess, n) => ServerHelloInv(e, sess, n)
    BY <1>3, <2>1 DEF ServerHelloInv, Answer
  <2> QED
    BY <1>3, <2>2, <2>3, <2>4 DEF ServerState
<1>6. ServerInv(e, sess, n)
  BY <1>2, <1>3, <1>4, <1>5, ServerMoves, SilentSays DEF ServerInv
<1> QED
  BY <1>4, <1>6

\* A server whose record was read.
LEMMA ServerTaken ==
    ASSUME NEW p, NEW sess, NEW n, ServerInv(p, sess, n), p.wire.sent # <<>>
    PROVE  ServerInv(Taken(p), sess, n) /\ Follows(Taken(p), p)
BY TakenEnd, ServerRewired DEF ServerInv, Rewired

\* A client whose stream is read or cut keeps its invariant.
LEMMA ClientRewired ==
    ASSUME NEW x, NEW p, NEW n, ClientInv(x, p, n), NEW e, Rewired(e, x)
    PROVE  ClientInv(e, p, n) /\ e.session = x.session
<1>1. \A sess : ClientSays(Eof, sess, n)
  BY DEF Eof, ClientSays
<1>2. /\ IsEnd(e) /\ SameBut(e, x, {"wire"}) /\ e.wire.out = x.wire.out
      /\ \A r \in Said(e) : r \in Said(x) \/ r = Eof
  BY DEF Rewired
<1>3. /\ e.pc = x.pc /\ e.session = x.session
      /\ e.serverHello = x.serverHello /\ e.vers = x.vers /\ e.suite = x.suite /\ e.alpn = x.alpn
      /\ e.hello = x.hello /\ e.secret = x.secret /\ e.ems = x.ems /\ e.base = x.base
      /\ e.verified = x.verified /\ e.peerCert = x.peerCert /\ e.flight = x.flight
      /\ e.in = x.in /\ e.pending = x.pending /\ e.ticket = x.ticket /\ e.inner = x.inner
      /\ e.echRejected = x.echRejected /\ e.resumption = x.resumption
  BY <1>2 DEF SameBut, EndFields
<1>4. ClientCert(x, n) => ClientCert(e, n)
  BY <1>3 DEF ClientCert
<1>5. ClientKnows(x, p, n) => ClientKnows(e, p, n)
  BY <1>3 DEF ClientKnows
<1>6. ClientSecret(x, p, n) => ClientSecret(e, p, n)
  BY <1>2, <1>3 DEF ClientSecret, Continues13, serverResumedSession
<1>7. Agrees(x, p, n) => Agrees(e, p, n)
  BY <1>2, <1>3 DEF Agrees
<1>8. ClientState(x, p, n) => ClientState(e, p, n)
  BY <1>3, <1>4, <1>5, <1>6, <1>7 DEF ClientState
<1>9. ClientInv(e, p, n)
  BY <1>1, <1>2, <1>3, <1>8 DEF ClientInv
<1> QED
  BY <1>3, <1>9

\* A client whose record was read.
LEMMA ClientTaken ==
    ASSUME NEW x, NEW p, NEW n, ClientInv(x, p, n), x.wire.sent # <<>>
    PROVE  ClientInv(Taken(x), p, n) /\ Taken(x).session = x.session
BY TakenEnd, ClientRewired DEF ClientInv, Rewired
-----------------------------------------------------------------------------
(* What is enough for the invariant after a step of either end *)

\* A step of the server to an end that follows and has its invariant.
LEMMA ServerPreserves ==
    ASSUME HandshakeInv, ServerInv(s', c.session, Now), Follows(s', s),
           c' = c \/ (c' = Taken(c) /\ c.wire.sent # <<>>),
           UNCHANGED <<ccfg, scfg, cache, founded>>
    PROVE  HandshakeInv'
<1>1. Now' = Now
  BY DEF Now
<1>2. ClientInv(c', s, Now) /\ c'.session = c.session
  BY ClientTaken DEF HandshakeInv
<1>3. ClientInv(c', s', Now)
  BY <1>2, ClientFollows
<1>4. ClientInv(c, s, Now)' /\ ServerInv(s, c.session, Now)'
  BY <1>1, <1>2, <1>3
<1>5. SoundSession(cache, Now)'
  BY <1>1 DEF HandshakeInv
<1> QED
  BY <1>4, <1>5 DEF HandshakeInv

\* A client that completes its attempt founds a secret.
Grows(n, m) == m.client = n.client /\ m.server = n.server /\ n.founded \subseteq m.founded

\* A session stays sound when one more secret is founded,
LEMMA SessionGrows ==
    ASSUME NEW n, NEW m, Grows(n, m), NEW x, SoundSession(x, n)
    PROVE  SoundSession(x, m)
BY DEF Grows, SoundSession, SoundTicket

\* and so does a hello,
LEMMA HelloGrows ==
    ASSUME NEW n, NEW m, Grows(n, m), NEW h, NEW sess, SoundHello(h, sess, n)
    PROVE  SoundHello(h, sess, m)
BY DEF Grows, SoundHello, SoundTicket

\* a message of the client
LEMMA ClientSaysGrows ==
    ASSUME NEW n, NEW m, Grows(n, m), NEW r, NEW sess, ClientSays(r, sess, n)
    PROVE  ClientSays(r, sess, m)
BY HelloGrows DEF ClientSays

\* and the server.
LEMMA ServerGrows ==
    ASSUME NEW n, NEW m, Grows(n, m), NEW p, NEW sess, ServerInv(p, sess, n)
    PROVE  ServerInv(p, sess, m)
<1>1. Answer(p, sess, n) => Answer(p, sess, m)
  BY DEF Answer, Grows
<1>2. \A r : ServerSays(r, p, sess, n) => ServerSays(r, p, sess, m)
  BY <1>1 DEF ServerSays
<1>3. ServerCert(p, n) => ServerCert(p, m)
  BY DEF ServerCert, Policy, Grows
<1>4. ServerSecret(p, n) => ServerSecret(p, m)
  BY DEF ServerSecret, Grows
<1>5. ServerHelloInv(p, sess, n) => ServerHelloInv(p, sess, m)
  BY <1>1 DEF ServerHelloInv, Grows
<1> QED
  BY <1>2, <1>3, <1>4, <1>5 DEF ServerInv, ServerState

\* A step of the client: if it completes the attempt, what it resumes was
\* founded before.  A session is offered with the hello or not at all.
ClientGoes ==
    /\ HandshakeInv'
    /\ c'.pc = "done" => c'.base \in founded \cup {None}
    /\ c.pc = "start" \/ c'.session = c.session

\* A client that goes on, with the session it began with.
LEMMA ClientPreserves ==
    ASSUME HandshakeInv, IsEnd(c'), c'.session = c.session,
           \A r \in Said(c') : r \in Said(c) \/ ClientSays(r, c.session, Now),
           c'.pc # "failed" => ClientState(c', s, Now),
           c'.pc # "done", s' = Taken(s), s.wire.sent # <<>>,
           cache' \in {cache, None},
           UNCHANGED <<ccfg, scfg, founded>>
    PROVE  ClientGoes
<1>1. Now' = Now
  BY DEF Now
<1>2. ServerInv(s', c.session, Now) /\ Follows(s', s)
  BY ServerTaken DEF HandshakeInv
<1>3. ClientInv(c', s, Now)
  BY DEF HandshakeInv, ClientInv
<1>4. ClientInv(c', s', Now)
  BY <1>2, <1>3, ClientFollows
<1>5. ClientInv(c, s, Now)' /\ ServerInv(s, c.session, Now)'
  BY <1>1, <1>2, <1>4
<1>6. SoundSession(cache', Now)
  BY DEF HandshakeInv, SoundSession
<1> QED
  BY <1>1, <1>5, <1>6 DEF HandshakeInv, ClientGoes

\* A client that completes its attempt.
LEMMA ClientCompletes ==
    ASSUME HandshakeInv, IsEnd(c'), c'.session = c.session, c'.pc = "done",
           \A r \in Said(c') : r \in Said(c) \/ ClientSays(r, c.session, Now),
           ClientState(c', s, Now'), s' = Taken(s), s.wire.sent # <<>>,
           c'.ticket # None => c'.vers = 12 /\ Issued(c'.ticket, s),
           c'.base \in founded \cup {None}, cache' = Cached(c'), founded' = founded \cup {c'.secret},
           UNCHANGED <<ccfg, scfg>>
    PROVE  ClientGoes
<1>1. Grows(Now, Now')
  BY DEF Now, Grows
<1>2. ServerInv(s, c.session, Now') /\ ServerInv(s', c.session, Now') /\ Follows(s', s)
  BY <1>1, ServerGrows, ServerTaken DEF HandshakeInv
<1>3. ClientInv(c', s, Now')
  <2>1. SoundSession(c.session, Now')
    BY <1>1, SessionGrows DEF HandshakeInv, ClientInv
  <2>2. \A r \in Said(c') : ClientSays(r, c.session, Now')
    BY <1>1, ClientSaysGrows DEF HandshakeInv, ClientInv
  <2>3. c.session # None /\ ~Now'.client.skipVerify => c.session.verified
    BY <1>1 DEF HandshakeInv, ClientInv, Grows
  <2> QED
    BY <2>1, <2>2, <2>3 DEF ClientInv
<1>4. ClientInv(c', s', Now')
  BY <1>2, <1>3, ClientFollows
<1>5. ClientInv(c, s, Now)' /\ ServerInv(s, c.session, Now)'
  BY <1>2, <1>4
<1>6. SoundSession(cache', Now')
  <2>1. CASE cache' = cache
    BY <2>1, <1>1, SessionGrows DEF HandshakeInv
  <2>2. CASE c'.ticket # None /\ cache' = [sessionState(c', c'.secret) EXCEPT !.ticket = c'.ticket]
    <3> DEFINE x == cache'
    <3>1. /\ x.version = 12 /\ x.ems = c'.ems /\ x.secret = c'.secret /\ x.base = c'.secret
          /\ x.peerCert = c'.peerCert /\ x.verified = c'.verified /\ x.ticket = c'.ticket
      BY <2>2 DEF sessionState
    <3>2. /\ c'.verified \in BOOLEAN /\ c'.ems \in BOOLEAN /\ (c'.verified => c'.peerCert = "good")
          /\ c'.secret = s.secret /\ c'.secret \in Now'.founded
      BY DEF ClientState, ClientCert, ClientSecret, Agrees
    <3>3. Sound(x) /\ x.base \in Now'.founded
      BY <3>1, <3>2 DEF Sound
    <3>4. SoundTicket(x.ticket, Now')
      BY <2>2, <3>1, <3>2 DEF SoundTicket, Issued
    <3> QED
      BY <3>3, <3>4 DEF SoundSession
  <2> QED
    BY <2>1, <2>2 DEF Cached
<1> QED
  BY <1>5, <1>6 DEF HandshakeInv, ClientGoes
-----------------------------------------------------------------------------
(* The server answers *)

\* FirstIn finds an element of the sequence that is in the set, or none.
LEMMA FirstFound ==
    ASSUME NEW S, NEW q \in Seq(S), NEW T
    PROVE  FirstIn(q, T) = None \/ (FirstIn(q, T) \in S /\ FirstIn(q, T) \in T /\ FirstIn(q, T) \in ToSet(q))
<1> DEFINE I == {i \in 1 .. Len(q) : q[i] \in T}
           i0 == SelectInSeq(q, LAMBDA x : x \in T)
<1>1. i0 = IF I # {} THEN Min(I) ELSE 0
  BY DEF SelectInSeq
<1>2. FirstIn(q, T) = IF i0 = 0 THEN None ELSE q[i0]
  BY DEF FirstIn
<1>3. Len(q) \in Nat
  BY LenProperties
<1>4. I \subseteq Nat /\ I \subseteq 1 .. Len(q) /\ \A i \in I : q[i] \in T
  BY <1>3
<1>5. CASE I = {}
  BY <1>1, <1>2, <1>5
<1>6. CASE I # {}
  <2> HIDE DEF I
  <2>1. PICK a \in I : \A b \in I : ~ (<<b, a>> \in OpToRel(<, Nat))
    BY <1>4, <1>6, NatLessThanWellFounded, WFMin
  <2>2. \A x, y \in Nat : x < y => <<x, y>> \in OpToRel(<, Nat)
    BY DEF OpToRel
  <2>3. \A b \in I : ~ (b < a)
    BY <1>4, <2>1, <2>2
  <2>4. \A b \in I : a <= b
    BY <1>4, <2>3
  <2>5. Min(I) \in I
    BY <2>4 DEF Min
  <2>6. i0 \in 1 .. Len(q) /\ q[i0] \in T
    BY <1>1, <1>4, <1>6, <2>5
  <2>7. q[i0] \in ToSet(q)
    BY <2>6, LenProperties DEF ToSet
  <2> HIDE DEF i0
  <2> QED
    BY <1>2, <1>3, <2>6, <2>7, ElementOfSeq
<1> QED
  BY <1>5, <1>6

\* So it is one of the sequence, or none.
LEMMA FirstOf ==
    ASSUME NEW S, NEW q \in Seq(S), NEW T
    PROVE  FirstIn(q, T) \in S \cup {None}
BY FirstFound

\* The hello the server goes by: that of the client, or the one inside it.
SoundRead(h, sess, n) ==
    /\ h.random = "inner" => n.client.ech # 0
    /\ h.versions \in Seq({12, 13}) /\ h.ems \in BOOLEAN
    /\ SoundTicket(h.ticket, n)
    /\ h.ticket # None => sess # None
    /\ h.psk # None => SoundTicket(h.psk.ticket, n)

\* The hello of the client can be read, and so can the one inside it.
LEMMA InnerRead ==
    ASSUME NEW h, NEW sess, SoundHello(h, sess, Now), ccfg \in ClientConfigs
    PROVE  /\ SoundRead(h, sess, Now) /\ h.random = "outer"
           /\ ccfg.ech # 0 => SoundRead(InnerHello(h), sess, Now) /\ InnerHello(h).random = "inner"
<1>1. ccfg.versions \in Seq({12, 13}) /\ ccfg.ems \in BOOLEAN
  BY ConfigAssumption DEF ClientConfig
<1>2. Now.client = ccfg
  BY DEF Now
<1>3. SoundRead(h, sess, Now) /\ h.random = "outer"
  BY <1>1, <1>2 DEF SoundHello, SoundRead
<1>4. DOMAIN h = HelloFields /\ h.ems = ccfg.ems
  BY <1>2 DEF SoundHello
<1>5. /\ InnerHello(h).random = "inner" /\ InnerHello(h).versions = <<13>> /\ InnerHello(h).ems = h.ems
      /\ InnerHello(h).psk = None /\ InnerHello(h).ticket = None
  BY <1>4 DEF InnerHello, HelloFields
<1>6. <<13>> \in Seq({12, 13})
  OBVIOUS
<1> QED
  BY <1>1, <1>2, <1>3, <1>4, <1>5, <1>6 DEF SoundRead, SoundTicket

\* A session the server resumes is one whose certificate its policy accepts.
Resumable(x, n) ==
    /\ Sound(x) /\ x.base \in n.founded
    /\ requiresClientCert(n.server.clientAuth) => x.peerCert # "none"
    /\ n.server.clientAuth >= VerifyClientCertIfGiven => x.peerCert # "unverifiable"
    /\ n.server.clientAuth = NoClientCert => x.peerCert = "none"

\* What checkForResumption of TLS 1.2 lets through may be resumed,
LEMMA Resumes12 ==
    ASSUME NEW h, NEW sess, SoundRead(h, sess, Now), checkForResumption12(h) # None
    PROVE  LET x == checkForResumption12(h) IN
           Resumable(x, Now) /\ x.version = 12 /\ sess # None /\ (x.ems \/ ~h.ems)
<1> DEFINE x == checkForResumption12(h)
<1>1. /\ x = decryptTicket(h.ticket) /\ x # None /\ x.version = 12 /\ CertsAllowResumption(x)
      /\ x.ems \/ ~h.ems
  BY DEF checkForResumption12
<1> HIDE DEF x
<1>2. x = h.ticket.state /\ h.ticket # None
  BY <1>1 DEF decryptTicket
<1>3. Sound(x) /\ x.base \in Now.founded /\ sess # None
  BY <1>2 DEF SoundRead, SoundTicket
<1>4. Resumable(x, Now)
  BY <1>1, <1>3 DEF Resumable, CertsAllowResumption, Sound, Now
<1> QED
  BY <1>1, <1>3, <1>4 DEF x

\* and what that of TLS 1.3 does.
LEMMA Resumes13 ==
    ASSUME NEW h, NEW sess, SoundRead(h, sess, Now), NEW suite, checkForResumption13(h, suite) # None
    PROVE  LET x == checkForResumption13(h, suite) IN Resumable(x, Now) /\ x.version = 13
<1> DEFINE x == checkForResumption13(h, suite)
<1>1. /\ x = decryptTicket(h.psk.ticket) /\ h.psk # None
      /\ x # None /\ x.version = 13 /\ CertsAllowResumption(x)
  BY DEF checkForResumption13
<1> HIDE DEF x
<1>2. x = h.psk.ticket.state /\ h.psk.ticket # None
  BY <1>1 DEF decryptTicket
<1>3. Sound(x) /\ x.base \in Now.founded
  BY <1>1, <1>2 DEF SoundRead, SoundTicket
<1>4. Resumable(x, Now)
  BY <1>1, <1>3 DEF Resumable, CertsAllowResumption, Sound, Now
<1> QED
  BY <1>1, <1>4 DEF x

\* A server that has read a hello and settled nothing but a version and perhaps a suite.
Fresh(e, sess, n) ==
    /\ IsEnd(e)
    /\ \A r \in Said(e) :
        \/ Silent(r)
        \/ /\ r.kind = "helloRetryRequest" /\ r.body.vers = 13 /\ r.body.suite = e.suite
           /\ e.vers = 13
    /\ e.base = None /\ e.ems = FALSE /\ e.session = None /\ e.peerCert = "none" /\ e.verified = FALSE
    /\ SoundRead(e.hello, sess, n)

\* A server that has just read the hello may fail.
LEMMA FreshFails ==
    ASSUME NEW e, NEW sess, NEW n, Fresh(e, sess, n), NEW alert
    PROVE  ServerInv(Failed(e, alert), sess, n)
<1> DEFINE x == Failed(e, alert)
<1>1. /\ IsEnd(x) /\ SameBut(x, e, {"wire", "pc"}) /\ x.pc = "failed"
      /\ \A r \in Said(x) : r \in Said(e) \/ r.kind \in {"alert", "eof"}
  BY FailedEnd DEF Fresh
<1> HIDE DEF x
<1>2. x.vers = e.vers /\ x.suite = e.suite /\ x.pc \in Answered
  BY <1>1 DEF SameBut, EndFields, Answered
<1>3. \A r \in Said(x) : ServerSays(r, x, sess, n)
  BY <1>1, <1>2 DEF Fresh, Silent, ServerSays
<1>4. ServerInv(x, sess, n)
  BY <1>1, <1>3 DEF ServerInv
<1> QED
  BY <1>4 DEF x

\* What the server keeps of its connection in a ticket.
LEMMA TicketSaid ==
    ASSUME NEW e, IsEnd(e), e.vers = 12, e.verified \in BOOLEAN, e.ems \in BOOLEAN,
           e.verified => e.peerCert = "good"
    PROVE  LET x == sendSessionTicket12(e) IN
           /\ IsEnd(x) /\ SameBut(x, e, {"wire", "transcript"}) /\ x.wire.out = e.wire.out
           /\ \A r \in Said(x) :
                \/ r \in Said(e)
                \/ /\ r.kind = "newSessionTicket" /\ Sound(r.body.state)
                   /\ r.body.state.base = e.secret
<1> DEFINE state == sessionState(e, e.secret)
           kept == IF e.session = None THEN state ELSE [state EXCEPT !.born = e.session.born]
           x == sendSessionTicket12(e)
<1>1. /\ kept.version = 12 /\ kept.ems = e.ems /\ kept.secret = e.secret /\ kept.base = e.secret
      /\ kept.peerCert = e.peerCert /\ kept.verified = e.verified
  BY DEF sessionState
<1>2. x = IF e.serverHello.tickets THEN WriteRecorded(e, "newSessionTicket", encryptTicket(kept)) ELSE e
  BY DEF sendSessionTicket12
<1>3. encryptTicket(kept).state = kept
  BY DEF encryptTicket
<1> HIDE DEF x, kept
<1>4. Sound(kept)
  BY <1>1 DEF Sound
<1>5. CASE e.serverHello.tickets
  BY <1>1, <1>2, <1>3, <1>4, <1>5, WriteRecordedEnd DEF x
<1>6. CASE ~ e.serverHello.tickets
  BY <1>2, <1>6 DEF x, SameBut
<1> QED
  BY <1>5, <1>6

\* sendFinished says the ChangeCipherSpec and a Finished under its secret.
LEMMA FinishedSaid ==
    ASSUME NEW e, IsEnd(e), NEW side
    PROVE  LET x == sendFinished12(e, side) IN
           /\ IsEnd(x) /\ SameBut(x, e, {"wire", "transcript"}) /\ x.wire.out.secret = e.secret
           /\ \A r \in Said(x) :
                \/ r \in Said(e)
                \/ r.kind = "changeCipherSpec"
                \/ r.kind = "finished" /\ r.body.key.secret = e.secret
<1> DEFINE key == Key12(side, e)
           w == Write(e, Msg("changeCipherSpec", None))
           y == [w EXCEPT !.wire.out = key]
           x == sendFinished12(e, side)
<1>1. x = WriteRecorded(y, "finished", Verify(key, y))
  BY DEF sendFinished12
<1>2. key.secret = e.secret
  BY DEF Key12
<1>3. Verify(key, y).key = key
  BY DEF Verify
<1>4. /\ IsEnd(w) /\ SameBut(w, e, {"wire"})
      /\ \A r \in Said(w) : r \in Said(e) \/ r.kind = "changeCipherSpec"
  <2>1. Msg("changeCipherSpec", None).kind = "changeCipherSpec"
    BY DEF Msg
  <2> QED
    BY <2>1, WriteEnd
<1> HIDE DEF w, key, x
<1>5. y.wire = [w.wire EXCEPT !.out = key] /\ DOMAIN y = EndFields /\ SameBut(y, w, {"wire"})
  BY <1>4 DEF IsEnd, EndFields, SameBut
<1> HIDE DEF y
<1>6. IsWire(y.wire) /\ y.wire.out = key /\ y.wire.sent = w.wire.sent /\ y.wire.buf = w.wire.buf
  BY <1>4, <1>5 DEF IsEnd, IsWire, WireFields
<1>7. IsEnd(y) /\ Said(y) = Said(w)
  BY <1>5, <1>6 DEF IsEnd, Said
<1>8. /\ IsEnd(x) /\ SameBut(x, y, {"wire", "transcript"}) /\ x.wire.out = key
      /\ \A r \in Said(x) : r \in Said(y) \/ (r.kind = "finished" /\ r.body = Verify(key, y))
  BY <1>1, <1>6, <1>7, WriteRecordedEnd
<1>9. SameBut(x, e, {"wire", "transcript"})
  BY <1>4, <1>5, <1>8 DEF SameBut
<1> QED
  BY <1>2, <1>3, <1>4, <1>7, <1>8, <1>9 DEF x
\* Its answer in TLS 1.2, before the suite is chosen.
Hello12(e) ==
    /\ e.vers = 12
    /\ \E canary :
        e.serverHello = [ServerHello EXCEPT !.vers = 12, !.alpn = e.alpn, !.ems = e.hello.ems, !.canary = canary]

\* The server of TLS 1.2 that resumes a session,
LEMMA Resumed12 ==
    ASSUME NEW e, NEW sess, Fresh(e, sess, Now), Hello12(e),
           NEW state, Resumable(state, Now), state.version = 12, sess # None, state # None,
           state.ems = e.hello.ems
    PROVE  ServerInv(doResumeHandshake(e, state), sess, Now)
<1> DEFINE hello == [e.serverHello EXCEPT !.suite = state.suite, !.echo = TRUE, !.tickets = TRUE]
           b == Buffer(e)
           x0 == [b EXCEPT !.suite = state.suite, !.session = state, !.serverHello = hello,
                           !.secret = state.secret, !.base = state.base, !.ems = state.ems,
                           !.peerCert = state.peerCert, !.verified = state.verified]
           x1 == Record(x0, "clientHello")
           x2 == WriteRecorded(x1, "serverHello", hello)
           x3 == sendSessionTicket12(x2)
           x4 == sendFinished12(x3, "server")
           y == flush(x4)
           z == [y EXCEPT !.pending = Key12("client", y), !.pc = "clientCCS"]
<1>1. doResumeHandshake(e, state) = z
  BY DEF doResumeHandshake
<1>2. /\ hello.vers = 12 /\ hello.suite = state.suite /\ hello.echo = TRUE /\ hello.psk = FALSE
      /\ hello.ech = <<>> /\ hello.ems = e.hello.ems /\ hello.alpn = e.alpn
  BY DEF Hello12, ServerHello
<1>3. /\ e.hello.ems \in BOOLEAN /\ e.vers = 12
      /\ e.hello.random = "inner" => ccfg.ech # 0
  BY DEF Fresh, SoundRead, Hello12, Now
<1>4. /\ IsEnd(b) /\ SameBut(b, e, {"wire"}) /\ Said(b) = Said(e)
  BY BufferEnd DEF Fresh
<1> HIDE DEF hello, b
<1>5. /\ IsEnd(x0) /\ x0.wire = b.wire /\ x0.vers = b.vers /\ x0.alpn = b.alpn /\ x0.hello = b.hello
      /\ x0.suite = state.suite /\ x0.session = state /\ x0.serverHello = hello
      /\ x0.secret = state.secret /\ x0.base = state.base /\ x0.ems = state.ems
      /\ x0.peerCert = state.peerCert /\ x0.verified = state.verified
  BY <1>4 DEF IsEnd, EndFields
<1>6. Said(x0) = Said(e) /\ x0.vers = 12 /\ x0.alpn = e.alpn /\ x0.hello = e.hello
  BY <1>3, <1>4, <1>5 DEF Said, SameBut, EndFields
<1> HIDE DEF x0
<1>7. IsEnd(x1) /\ SameBut(x1, x0, {"transcript"})
  BY <1>5, RecordEnd
<1> HIDE DEF x1
<1>8. /\ IsEnd(x2) /\ SameBut(x2, x1, {"wire", "transcript"})
      /\ \A r \in Said(x2) : r \in Said(x1) \/ (r.kind = "serverHello" /\ r.body = hello)
  BY <1>7, WriteRecordedEnd
<1> HIDE DEF x2
<1>9. SameBut(x2, x0, {"wire", "transcript"}) /\ Said(x1) = Said(x0)
  BY <1>7, <1>8 DEF SameBut, Said, EndFields
<1>10. /\ state.verified \in BOOLEAN /\ state.ems \in BOOLEAN /\ (state.verified => state.peerCert = "good")
       /\ state.base = state.secret /\ state.base \in founded
  BY DEF Resumable, Sound, Now
<1>11. /\ x2.vers = 12 /\ x2.verified = state.verified /\ x2.ems = state.ems /\ x2.peerCert = state.peerCert
       /\ x2.secret = state.secret
  BY <1>5, <1>6, <1>9 DEF SameBut, EndFields
<1>12. /\ IsEnd(x3) /\ SameBut(x3, x2, {"wire", "transcript"})
       /\ \A r \in Said(x3) :
            \/ r \in Said(x2)
            \/ r.kind = "newSessionTicket" /\ Sound(r.body.state) /\ r.body.state.base = state.secret
  BY <1>8, <1>10, <1>11, TicketSaid
<1> HIDE DEF x3
<1>13. x3.secret = state.secret
  BY <1>11, <1>12 DEF SameBut, EndFields
<1>14. /\ IsEnd(x4) /\ SameBut(x4, x3, {"wire", "transcript"}) /\ x4.wire.out.secret = state.secret
       /\ \A r \in Said(x4) :
            \/ r \in Said(x3)
            \/ r.kind = "changeCipherSpec"
            \/ r.kind = "finished" /\ r.body.key.secret = state.secret
  BY <1>12, <1>13, FinishedSaid
<1> HIDE DEF x4
<1>15. IsEnd(y) /\ SameBut(y, x4, {"wire"}) /\ y.wire.out = x4.wire.out /\ Said(y) \subseteq Said(x4)
  BY <1>14, flushEnd
<1> HIDE DEF y
<1>16. SameBut(y, x0, {"wire", "transcript"})
  BY <1>9, <1>12, <1>14, <1>15 DEF SameBut
<1>17. Key12("client", y).secret = y.secret
  BY DEF Key12
<1>18. /\ IsEnd(z) /\ z.wire = y.wire /\ z.pc = "clientCCS" /\ z.pending.secret = y.secret
       /\ SameBut(z, y, {"pc", "pending"})
  BY <1>15, <1>17 DEF IsEnd, EndFields, SameBut
<1> HIDE DEF z
<1>19. /\ z.vers = 12 /\ z.alpn = e.alpn /\ z.hello = e.hello /\ z.suite = state.suite
       /\ z.session = state /\ z.serverHello = hello /\ z.secret = state.secret /\ z.base = state.base
       /\ z.ems = state.ems /\ z.peerCert = state.peerCert /\ z.verified = state.verified
       /\ z.pending.secret = state.secret /\ z.wire.out.secret = state.secret
  BY <1>5, <1>6, <1>14, <1>15, <1>16, <1>18 DEF SameBut, EndFields
<1>20. Answer(z, sess, Now)
  BY <1>2, <1>3, <1>18, <1>19 DEF Answer, Answered, Closing12, Now
<1>21. z.pc \in Late /\ Continues12(z) /\ Continues(z)
  BY <1>2, <1>10, <1>18, <1>19 DEF Continues, Continues12, Late
<1>22. \A r \in Said(z) : ServerSays(r, z, sess, Now)
  <2> SUFFICES ASSUME NEW r \in Said(z) PROVE ServerSays(r, z, sess, Now)
    OBVIOUS
  <2>0. r \in Said(x4)
    BY <1>15, <1>18 DEF Said
  <2>1. CASE r \in Said(e)
    BY <2>1, <1>3, SilentSays DEF Fresh
  <2>2. CASE r.kind = "serverHello" /\ r.body = hello
    BY <2>2, <1>19, <1>20 DEF ServerSays
  <2>3. CASE r.kind = "newSessionTicket" /\ Sound(r.body.state) /\ r.body.state.base = state.secret
    BY <2>3, <1>19, <1>21 DEF ServerSays, Issued
  <2>4. CASE r.kind = "changeCipherSpec"
    BY <2>4, SilentSays DEF Silent
  <2>5. CASE r.kind = "finished" /\ r.body.key.secret = state.secret
    BY <2>5, <1>19, <1>21 DEF ServerSays
  <2> QED
    BY <2>0, <2>1, <2>2, <2>3, <2>4, <2>5, <1>6, <1>8, <1>9, <1>12, <1>14
<1>23. ServerCert(z, Now)
  BY <1>10, <1>18, <1>19 DEF ServerCert, Policy, Resumable, Before, Flight13
<1>24. ServerSecret(z, Now)
  BY <1>10, <1>18, <1>19, <1>21
     DEF ServerSecret, Before, Exchange12, Closing12, Flight13, Closing13, Now
<1>25. ServerHelloInv(z, sess, Now)
  BY <1>18, <1>20 DEF ServerHelloInv
<1>26. ServerInv(z, sess, Now)
  BY <1>18, <1>20, <1>22, <1>23, <1>24, <1>25 DEF ServerInv, ServerState, Answer
<1> QED
  BY <1>1, <1>26

\* and the one that begins a full handshake.
LEMMA FullHandshake12 ==
    ASSUME NEW e, NEW sess, Fresh(e, sess, Now), Hello12(e), NEW suite, scfg \in ServerConfigs
    PROVE  ServerInv(doFullHandshake12(e, suite), sess, Now)
<1> DEFINE hello == [e.serverHello EXCEPT !.suite = suite, !.staple = scfg.staple,
                                          !.tickets = e.hello.tickets /\ ~scfg.ticketsDisabled]
           b == Buffer(e)
           x0 == [b EXCEPT !.suite = suite, !.serverHello = hello]
           a == Record(x0, "clientHello")
           x == WriteRecorded(a, "serverHello", hello)
           x1 == WriteRecorded(x, "certificate", scfg.trusted)
           x2 == IF hello.staple THEN WriteRecorded(x1, "certificateStatus", None) ELSE x1
           x3 == IF suite # "rsa" THEN WriteRecorded(x2, "serverKeyExchange", None) ELSE x2
           x4 == IF scfg.clientAuth >= RequestClientCert
                 THEN WriteRecorded(x3, "certificateRequest", None) ELSE x3
           x5 == WriteRecorded(x4, "serverHelloDone", None)
           y == flush(x5)
           pc == IF scfg.clientAuth >= RequestClientCert THEN "clientCertificate12" ELSE "clientKeyExchange"
           z == [y EXCEPT !.pc = pc]
           Others == {"certificate", "certificateStatus", "serverKeyExchange", "certificateRequest",
                      "serverHelloDone"}
<1>1. doFullHandshake12(e, suite) = z
  BY DEF doFullHandshake12
<1>2. /\ hello.vers = 12 /\ hello.suite = suite /\ hello.echo = FALSE /\ hello.psk = FALSE
      /\ hello.ech = <<>> /\ hello.ems = e.hello.ems /\ hello.alpn = e.alpn
  BY DEF Hello12, ServerHello
<1>3. /\ e.hello.ems \in BOOLEAN /\ e.vers = 12
      /\ e.hello.random = "inner" => ccfg.ech # 0
  BY DEF Fresh, SoundRead, Hello12, Now
<1>4. /\ IsEnd(b) /\ SameBut(b, e, {"wire"}) /\ Said(b) = Said(e)
  BY BufferEnd DEF Fresh
<1> HIDE DEF hello, b
<1>5. /\ IsEnd(x0) /\ x0.wire = b.wire /\ SameBut(x0, b, {"suite", "serverHello"})
      /\ x0.suite = suite /\ x0.serverHello = hello
  BY <1>4 DEF IsEnd, EndFields, SameBut
<1>6. Said(x0) = Said(e) /\ SameBut(x0, e, {"wire", "suite", "serverHello"})
  BY <1>4, <1>5 DEF Said, SameBut
<1> HIDE DEF x0
<1>7. IsEnd(a) /\ SameBut(a, x0, {"transcript"}) /\ Said(a) = Said(e)
  BY <1>5, <1>6, RecordEnd DEF SameBut, EndFields, Said
<1> HIDE DEF a
<1>8. /\ IsEnd(x) /\ SameBut(x, a, {"wire", "transcript"})
      /\ \A r \in Said(x) : r \in Said(e) \/ (r.kind = "serverHello" /\ r.body = hello)
  BY <1>7, WriteRecordedEnd
<1> HIDE DEF x
<1>9. /\ IsEnd(x1) /\ SameBut(x1, x, {"wire", "transcript"})
      /\ \A r \in Said(x1) : r \in Said(x) \/ r.kind \in Others
  BY <1>8, WriteRecordedEnd
<1> HIDE DEF x1
<1>10. /\ IsEnd(x2) /\ SameBut(x2, x, {"wire", "transcript"})
       /\ \A r \in Said(x2) : r \in Said(x) \/ r.kind \in Others
  <2>1. CASE hello.staple
    <3>1. x2 = WriteRecorded(x1, "certificateStatus", None)
      BY <2>1
    <3>2. /\ IsEnd(x2) /\ SameBut(x2, x1, {"wire", "transcript"})
          /\ \A r \in Said(x2) : r \in Said(x1) \/ r.kind = "certificateStatus"
      BY <3>1, <1>9, WriteRecordedEnd
    <3> QED
      BY <3>2, <1>9 DEF SameBut
  <2> QED
    BY <2>1, <1>9
<1> HIDE DEF x2
<1>11. /\ IsEnd(x3) /\ SameBut(x3, x, {"wire", "transcript"})
       /\ \A r \in Said(x3) : r \in Said(x) \/ r.kind \in Others
  <2>1. CASE suite # "rsa"
    <3>1. x3 = WriteRecorded(x2, "serverKeyExchange", None)
      BY <2>1
    <3>2. /\ IsEnd(x3) /\ SameBut(x3, x2, {"wire", "transcript"})
          /\ \A r \in Said(x3) : r \in Said(x2) \/ r.kind = "serverKeyExchange"
      BY <3>1, <1>10, WriteRecordedEnd
    <3> QED
      BY <3>2, <1>10 DEF SameBut
  <2> QED
    BY <2>1, <1>10
<1> HIDE DEF x3
<1>12. /\ IsEnd(x4) /\ SameBut(x4, x, {"wire", "transcript"})
       /\ \A r \in Said(x4) : r \in Said(x) \/ r.kind \in Others
  <2>1. CASE scfg.clientAuth >= RequestClientCert
    <3>1. x4 = WriteRecorded(x3, "certificateRequest", None)
      BY <2>1
    <3>2. /\ IsEnd(x4) /\ SameBut(x4, x3, {"wire", "transcript"})
          /\ \A r \in Said(x4) : r \in Said(x3) \/ r.kind = "certificateRequest"
      BY <3>1, <1>11, WriteRecordedEnd
    <3> QED
      BY <3>2, <1>11 DEF SameBut
  <2> QED
    BY <2>1, <1>11
<1> HIDE DEF x4
<1>13. /\ IsEnd(x5) /\ SameBut(x5, x4, {"wire", "transcript"})
       /\ \A r \in Said(x5) : r \in Said(x4) \/ r.kind = "serverHelloDone"
  BY <1>12, WriteRecordedEnd
<1> HIDE DEF x5
<1>14. IsEnd(y) /\ SameBut(y, x5, {"wire"}) /\ Said(y) \subseteq Said(x5)
  BY <1>13, flushEnd
<1> HIDE DEF y
<1>15. /\ SameBut(y, x0, {"wire", "transcript"})
       /\ \A r \in Said(y) : r \in Said(e) \/ (r.kind = "serverHello" /\ r.body = hello) \/ r.kind \in Others
  BY <1>7, <1>8, <1>12, <1>13, <1>14 DEF SameBut
<1>16. IsEnd(z) /\ z.wire = y.wire /\ z.pc = pc /\ SameBut(z, y, {"pc"})
  BY <1>14 DEF IsEnd, EndFields, SameBut
<1> HIDE DEF z
<1>17. /\ z.vers = 12 /\ z.alpn = e.alpn /\ z.hello = e.hello /\ z.suite = suite /\ z.serverHello = hello
       /\ z.session = None /\ z.base = None /\ z.ems = FALSE /\ z.peerCert = "none" /\ z.verified = FALSE
  BY <1>3, <1>5, <1>6, <1>15, <1>16 DEF SameBut, EndFields, Fresh
<1>18. Answer(z, sess, Now)
  BY <1>2, <1>3, <1>16, <1>17 DEF Answer, Answered, Exchange12, Now
<1>19. \A r \in Said(z) : ServerSays(r, z, sess, Now)
  <2> SUFFICES ASSUME NEW r \in Said(z) PROVE ServerSays(r, z, sess, Now)
    OBVIOUS
  <2>0. r \in Said(y)
    BY <1>16 DEF Said
  <2>1. CASE r \in Said(e)
    BY <2>1, <1>3, SilentSays DEF Fresh
  <2>2. CASE r.kind = "serverHello" /\ r.body = hello
    BY <2>2, <1>17, <1>18 DEF ServerSays
  <2>3. CASE r.kind \in Others
    BY <2>3, SilentSays DEF Silent
  <2> QED
    BY <2>0, <2>1, <2>2, <2>3, <1>15
<1>20. scfg.clientAuth \in 0 .. 4
  BY ConfigAssumption DEF ServerConfig
<1>21. ServerCert(z, Now)
  <2>1. z.pc = "clientKeyExchange" => scfg.clientAuth = 0
    BY <1>16, <1>20 DEF RequestClientCert
  <2>2. z.pc = "clientKeyExchange" => Policy(z, Now)
    BY <2>1, <1>17 DEF Policy, Now, requiresClientCert, RequireAnyClientCert, RequireAndVerifyClientCert
  <2>3. /\ z.pc \in {"clientKeyExchange", "clientCertificate12"}
        /\ z.pc = "clientCertificate12" => Now.server.clientAuth >= RequestClientCert
    BY <1>16 DEF Now
  <2> QED
    BY <2>2, <2>3, <1>17 DEF ServerCert, Before, Flight13, Closing12
<1>22. ServerSecret(z, Now)
  BY <1>2, <1>16, <1>17 DEF ServerSecret, Before, Exchange12, Closing12, Flight13, Closing13, Now
<1>23. ServerHelloInv(z, sess, Now)
  BY <1>16, <1>18 DEF ServerHelloInv
<1>24. ServerInv(z, sess, Now)
  BY <1>16, <1>18, <1>19, <1>21, <1>22, <1>23 DEF ServerInv, ServerState, Answer
<1> QED
  BY <1>1, <1>24

\* The answer of a server of TLS 1.2 to the hello.
LEMMA Answer12 ==
    ASSUME NEW e, NEW sess, Fresh(e, sess, Now), e.vers = 12, scfg \in ServerConfigs
    PROVE  ServerInv(ServerHandshake12(e), sess, Now)
<1> DEFINE hello == e.hello
           alpn == negotiateALPN(scfg.alpn, hello.alpn)
           state == checkForResumption12(hello)
           suite == pickCipherSuite(hello)
           x == [e EXCEPT !.alpn = alpn,
                          !.serverHello = [ServerHello EXCEPT !.vers = 12, !.alpn = alpn, !.ems = hello.ems,
                                                              !.canary = 13 \in ToSet(scfg.versions)]]
<1>1. ServerHandshake12(e) \in
        {Failed(e, "no_application_protocol"), Failed(Buffer(x), None), Failed(Buffer(x), "handshake_failure"),
         Failed(Buffer(x), "inappropriate_fallback"), doFullHandshake12(x, suite)}
      \/ /\ state # None /\ ~(state.ems /\ ~hello.ems)
         /\ ServerHandshake12(e) = doResumeHandshake(x, state)
  BY DEF ServerHandshake12
<1> HIDE DEF alpn
<1>2. /\ IsEnd(x) /\ x.wire = e.wire /\ SameBut(x, e, {"alpn", "serverHello"}) /\ x.alpn = alpn
      /\ x.serverHello = [ServerHello EXCEPT !.vers = 12, !.alpn = alpn, !.ems = hello.ems,
                                             !.canary = 13 \in ToSet(scfg.versions)]
  BY DEF Fresh, IsEnd, EndFields, SameBut
<1> HIDE DEF x
<1>3. Fresh(x, sess, Now) /\ Hello12(x) /\ x.hello = hello
  <2>1. /\ x.vers = 12 /\ x.hello = e.hello /\ x.base = e.base /\ x.ems = e.ems /\ x.session = e.session
        /\ x.peerCert = e.peerCert /\ x.verified = e.verified /\ x.suite = e.suite /\ Said(x) = Said(e)
    BY <1>2 DEF SameBut, EndFields, Said
  <2>2. Hello12(x)
    <3> DEFINE canary == 13 \in ToSet(scfg.versions)
    <3>1. x.serverHello = [ServerHello EXCEPT !.vers = 12, !.alpn = x.alpn, !.ems = x.hello.ems,
                                              !.canary = canary]
      BY <1>2, <2>1
    <3> HIDE DEF canary
    <3> QED
      BY <2>1, <3>1 DEF Hello12
  <2> QED
    BY <1>2, <2>1, <2>2 DEF Fresh
<1>4. Fresh(Buffer(x), sess, Now)
  <2> DEFINE b == Buffer(x)
  <2>1. IsEnd(b) /\ SameBut(b, x, {"wire"}) /\ Said(b) = Said(x)
    BY <1>3, BufferEnd DEF Fresh
  <2> HIDE DEF b
  <2>2. /\ b.vers = x.vers /\ b.hello = x.hello /\ b.base = x.base /\ b.ems = x.ems /\ b.session = x.session
        /\ b.peerCert = x.peerCert /\ b.verified = x.verified /\ b.suite = x.suite
    BY <2>1 DEF SameBut, EndFields
  <2>3. Fresh(b, sess, Now)
    BY <1>3, <2>1, <2>2 DEF Fresh
  <2> QED
    BY <2>3 DEF b
<1>5. CASE state # None /\ ~(state.ems /\ ~hello.ems) /\ ServerHandshake12(e) = doResumeHandshake(x, state)
  <2>1. Resumable(state, Now) /\ state.version = 12 /\ sess # None /\ (state.ems \/ ~hello.ems)
    BY <1>5, Resumes12 DEF Fresh
  <2>2. state.ems = hello.ems
    BY <1>5, <2>1 DEF Resumable, Sound, Fresh, SoundRead
  <2> HIDE DEF state
  <2> QED
    BY <1>3, <1>5, <2>1, <2>2, Resumed12
<1> QED
  BY <1>1, <1>3, <1>4, <1>5, FreshFails, FullHandshake12
-----------------------------------------------------------------------------
(* The server of TLS 1.3 *)
Hello13(e) ==
    /\ e.vers = 13
    /\ e.serverHello = [ServerHello EXCEPT !.vers = 13, !.suite = e.suite, !.echo = TRUE]

\* The server of TLS 1.3 that knows a key share,
LEMMA Flight13Said ==
    ASSUME NEW e, NEW sess, Fresh(e, sess, Now), Hello13(e), NEW share
    PROVE  /\ ServerInv(ServerFlight13(e, share), sess, Now)
           /\ ServerFlight13(e, share).pc \in Answered
           /\ ServerFlight13(e, share).vers = 13 /\ ServerFlight13(e, share).suite = e.suite
<1> DEFINE alpn == negotiateALPN(scfg.alpn, e.hello.alpn)
           state == checkForResumption13(e.hello, e.suite)
           base == IF state = None THEN None ELSE state.base
           cert == IF state = None THEN "none" ELSE state.peerCert
           verified == state # None /\ state.verified
           early == IF state = None THEN None ELSE state.secret
           x == [e EXCEPT !.alpn = alpn, !.session = state, !.base = base, !.peerCert = cert,
                          !.verified = verified]
           sent == [sendServerParameters(x, share) EXCEPT !.pc = "sendServerCertificate"]
<1>1. CASE ServerFlight13(e, share) # sent
  <2>1. \E alert : ServerFlight13(e, share) = Failed(e, alert)
    BY <1>1 DEF ServerFlight13
  <2>2. PICK alert : ServerFlight13(e, share) = Failed(e, alert)
    BY <2>1
  <2>3. SameBut(Failed(e, alert), e, {"wire", "pc"}) /\ Failed(e, alert).pc = "failed"
    BY FailedEnd DEF Fresh
  <2>4. Failed(e, alert).vers = 13 /\ Failed(e, alert).suite = e.suite /\ Failed(e, alert).pc \in Answered
    BY <2>3 DEF SameBut, EndFields, Hello13, Answered
  <2> QED
    BY <2>2, <2>4, FreshFails
<1>2. CASE ServerFlight13(e, share) = sent
  <2>1. /\ state # None => Resumable(state, Now) /\ state.version = 13
        /\ verified \in BOOLEAN /\ (verified => cert = "good")
    BY Resumes13 DEF Fresh, Resumable, Sound
  <2>2. base \in founded \cup {None} /\ (state # None => base = BaseOf(early))
    BY <2>1 DEF Resumable, Sound, Now
  <2>3. IF state # None THEN Policy([peerCert |-> cert], Now) ELSE cert = "none"
    BY <2>1 DEF Resumable, Policy
  <2> HIDE DEF alpn, state, base, cert, verified, early
  <2>4. /\ IsEnd(x) /\ x.wire = e.wire /\ SameBut(x, e, {"alpn", "session", "base", "peerCert", "verified"})
        /\ x.alpn = alpn /\ x.session = state /\ x.base = base /\ x.peerCert = cert /\ x.verified = verified
    BY DEF Fresh, IsEnd, EndFields, SameBut
  <2>5. /\ x.vers = 13 /\ x.hello = e.hello /\ x.suite = e.suite /\ x.ems = FALSE
        /\ x.serverHello = [ServerHello EXCEPT !.vers = 13, !.suite = e.suite, !.echo = TRUE]
        /\ Said(x) = Said(e)
    BY <2>4 DEF SameBut, EndFields, Fresh, Hello13, Said
  <2> DEFINE name == HelloName(x.hello)
             ech == IF name = "innerHello" THEN x.transcript \o <<name, "serverHello">> ELSE <<>>
             hello == [x.serverHello EXCEPT !.share = share.group, !.psk = x.session # None, !.ech = ech]
             b == Buffer(x)
             b1 == [b EXCEPT !.serverHello = hello]
             b2 == Record(b1, name)
             w == WriteRecorded(b2, "serverHello", hello)
             y == [w EXCEPT !.secret = masterSecret13(IF x.session = None THEN None ELSE x.session.secret, share)]
             k == [y EXCEPT !.in = Key("client", "handshake", y), !.wire.out = Key("server", "handshake", y)]
             v == WriteRecorded(k, "encryptedExtensions", x.alpn)
             z == [v EXCEPT !.pc = "sendServerCertificate"]
  <2>6. sent = z
    BY DEF sendServerParameters
  <2> HIDE DEF x, sent
  <2>7. /\ hello.vers = 13 /\ hello.suite = e.suite /\ hello.ems = FALSE /\ hello.echo = TRUE
        /\ hello.psk = (state # None) /\ hello.ech = ech
    BY <2>4, <2>5 DEF ServerHello
  <2>8. ech # <<>> => x.hello.random = "inner"
    BY DEF HelloName
  <2> HIDE DEF hello, ech, name
  <2>9. IsEnd(b) /\ SameBut(b, x, {"wire"}) /\ Said(b) = Said(e)
    BY <2>4, <2>5, BufferEnd
  <2> HIDE DEF b
  <2>10. IsEnd(b1) /\ SameBut(b1, b, {"serverHello"}) /\ b1.serverHello = hello /\ Said(b1) = Said(e)
    BY <2>9 DEF IsEnd, EndFields, SameBut, Said
  <2> HIDE DEF b1
  <2>11. IsEnd(b2) /\ SameBut(b2, b1, {"transcript"}) /\ Said(b2) = Said(e)
    BY <2>10, RecordEnd DEF SameBut, EndFields, Said
  <2> HIDE DEF b2
  <2>12. /\ IsEnd(w) /\ SameBut(w, b2, {"wire", "transcript"})
         /\ \A r \in Said(w) : r \in Said(e) \/ (r.kind = "serverHello" /\ r.body = hello)
    BY <2>11, WriteRecordedEnd
  <2> HIDE DEF w
  <2>13. SameBut(w, x, {"wire", "transcript", "serverHello"}) /\ w.serverHello = hello
    BY <2>9, <2>10, <2>11, <2>12 DEF SameBut, EndFields
  <2>14. /\ IsEnd(y) /\ SameBut(y, w, {"secret"}) /\ Said(y) = Said(w) /\ y.wire = w.wire
         /\ y.secret = masterSecret13(early, share)
    BY <2>4, <2>12 DEF IsEnd, EndFields, SameBut, Said, early
  <2>15. y.secret.early = early /\ y.secret = BaseOf(y.secret)
    BY <2>14 DEF masterSecret13, BaseOf
  <2>16. Key("server", "handshake", y).secret = y.secret
    BY DEF Key
  <2> HIDE DEF y
  <2>17. /\ DOMAIN k = EndFields /\ SameBut(k, y, {"in", "wire"})
         /\ k.wire = [y.wire EXCEPT !.out = Key("server", "handshake", y)]
    BY <2>14 DEF IsEnd, EndFields, SameBut
  <2> HIDE DEF k
  <2>18. /\ IsWire(k.wire) /\ k.wire.out.secret = y.secret
         /\ k.wire.sent = y.wire.sent /\ k.wire.buf = y.wire.buf
    BY <2>14, <2>16, <2>17 DEF IsEnd, IsWire, WireFields
  <2>19. IsEnd(k) /\ Said(k) = Said(w)
    BY <2>14, <2>17, <2>18 DEF IsEnd, Said
  <2>20. /\ IsEnd(v) /\ SameBut(v, k, {"wire", "transcript"}) /\ v.wire.out = k.wire.out
         /\ \A r \in Said(v) : r \in Said(w) \/ (r.kind = "encryptedExtensions" /\ r.body = x.alpn)
    BY <2>19, WriteRecordedEnd
  <2> HIDE DEF v
  <2>21. IsEnd(z) /\ SameBut(z, v, {"pc"}) /\ z.pc = "sendServerCertificate" /\ z.wire = v.wire
    BY <2>20 DEF IsEnd, EndFields, SameBut
  <2> HIDE DEF z
  <2>22. SameBut(z, x, {"wire", "transcript", "serverHello", "secret", "in", "pc"})
    BY <2>13, <2>14, <2>17, <2>20, <2>21 DEF SameBut
  <2>23. z.serverHello = hello /\ z.secret = y.secret /\ z.wire.out.secret = y.secret
    BY <2>13, <2>14, <2>17, <2>18, <2>20, <2>21 DEF SameBut, EndFields
  <2>24. /\ z.vers = 13 /\ z.hello = e.hello /\ z.suite = e.suite /\ z.ems = FALSE /\ z.alpn = x.alpn
         /\ z.session = state /\ z.base = base /\ z.peerCert = cert /\ z.verified = verified
    BY <2>4, <2>5, <2>22 DEF SameBut, EndFields
  <2>25. Answer(z, sess, Now)
    <3>1. hello.psk \in BOOLEAN
      BY <2>7
    <3>2. e.hello.random = "inner" => Now.client.ech # 0
      BY DEF Fresh, SoundRead
    <3>3. z.pc \in Answered
      BY <2>21 DEF Answered, Flight13
    <3>4. z.serverHello.ech # <<>> => z.hello.random = "inner"
      BY <2>5, <2>7, <2>8, <2>23, <2>24
    <3>5. hello.ems \in BOOLEAN /\ hello.echo \in BOOLEAN
      BY <2>7
    <3>6. z.vers = hello.vers /\ z.suite = hello.suite /\ z.vers # 12 /\ z.hello = e.hello
      BY <2>7, <2>24
    <3> QED
      BY <2>23, <3>1, <3>2, <3>3, <3>4, <3>5, <3>6 DEF Answer
  <2>26. \A r \in Said(z) : ServerSays(r, z, sess, Now)
    <3> SUFFICES ASSUME NEW r \in Said(z) PROVE ServerSays(r, z, sess, Now)
      OBVIOUS
    <3>1. r \in Said(v)
      BY <2>21 DEF Said
    <3>2. CASE r \in Said(e)
      <4>1. CASE Silent(r)
        BY <4>1, SilentSays
      <4>2. CASE r.kind = "helloRetryRequest" /\ r.body.vers = 13 /\ r.body.suite = e.suite
        BY <4>2, <2>24, <2>25 DEF ServerSays, Answer
      <4> QED
        BY <3>2, <4>1, <4>2 DEF Fresh
    <3>3. CASE r.kind = "serverHello" /\ r.body = hello
      BY <3>3, <2>23, <2>25 DEF ServerSays
    <3>4. CASE r.kind = "encryptedExtensions" /\ r.body = x.alpn
      BY <3>4, <2>24, <2>25 DEF ServerSays, Answer
    <3> QED
      BY <3>1, <3>2, <3>3, <3>4, <2>12, <2>20
  <2>27. ServerCert(z, Now)
    BY <2>1, <2>3, <2>21, <2>24 DEF ServerCert, Policy, Before, Closing12, Flight13
  <2>28. Continues13(z)
    BY <2>2, <2>7, <2>15, <2>23, <2>24 DEF Continues13, base
  <2>29. ServerSecret(z, Now)
    BY <2>2, <2>15, <2>21, <2>23, <2>24, <2>28
       DEF ServerSecret, Before, Exchange12, Closing12, Flight13, Closing13, Now
  <2>30. ServerHelloInv(z, sess, Now)
    BY <2>21, <2>25 DEF ServerHelloInv
  <2>31. ServerInv(z, sess, Now)
    BY <2>21, <2>25, <2>26, <2>27, <2>29, <2>30 DEF ServerInv, ServerState, Answer
  <2> QED
    BY <1>2, <2>6, <2>24, <2>25, <2>31 DEF Answer
<1> QED
  BY <1>1, <1>2

\* and the one that asks for another.
LEMMA Retry13Said ==
    ASSUME NEW e, NEW sess, Fresh(e, sess, Now), Hello13(e), NEW group
    PROVE  ServerInv(doHelloRetryRequest(e, group), sess, Now)
<1> DEFINE hash == MessageHash(HelloName(e.hello))
           ech == IF e.hello.random = "inner" THEN hash ELSE <<>>
           hello == [e.serverHello EXCEPT !.group = group, !.ech = ech]
           x == [e EXCEPT !.transcript = hash]
           y == WriteRecorded(x, "helloRetryRequest", hello)
           z == [y EXCEPT !.pc = "clientHello2", !.share = group]
<1>1. doHelloRetryRequest(e, group) = z
  BY DEF doHelloRetryRequest
<1>2. hello.vers = 13 /\ hello.suite = e.suite
  BY DEF Hello13, ServerHello
<1> HIDE DEF hash, ech, hello
<1>3. IsEnd(x) /\ SameBut(x, e, {"transcript"}) /\ Said(x) = Said(e)
  BY DEF Fresh, IsEnd, EndFields, SameBut, Said
<1> HIDE DEF x
<1>4. /\ IsEnd(y) /\ SameBut(y, x, {"wire", "transcript"})
      /\ \A r \in Said(y) : r \in Said(e) \/ (r.kind = "helloRetryRequest" /\ r.body = hello)
  BY <1>3, WriteRecordedEnd
<1> HIDE DEF y
<1>5. IsEnd(z) /\ SameBut(z, y, {"pc", "share"}) /\ z.pc = "clientHello2" /\ z.wire = y.wire
  BY <1>4 DEF IsEnd, EndFields, SameBut
<1> HIDE DEF z
<1>6. /\ z.vers = 13 /\ z.suite = e.suite /\ z.serverHello = e.serverHello /\ z.hello = e.hello
      /\ z.base = None /\ z.ems = FALSE /\ z.session = None /\ z.peerCert = "none" /\ z.verified = FALSE
  BY <1>3, <1>4, <1>5 DEF SameBut, EndFields, Fresh, Hello13
<1>7. \A r \in Said(z) : ServerSays(r, z, sess, Now)
  <2> SUFFICES ASSUME NEW r \in Said(z) PROVE ServerSays(r, z, sess, Now)
    OBVIOUS
  <2>1. r \in Said(y)
    BY <1>5 DEF Said
  <2>2. CASE r \in Said(e)
    BY <2>2, <1>5, <1>6, SilentSays DEF Fresh, ServerSays
  <2>3. CASE r.kind = "helloRetryRequest" /\ r.body = hello
    BY <2>3, <1>2, <1>5, <1>6 DEF ServerSays
  <2> QED
    BY <2>1, <2>2, <2>3, <1>4
<1>8. ServerCert(z, Now)
  BY <1>5, <1>6 DEF ServerCert, Closing12, Flight13
<1>9. ServerSecret(z, Now)
  BY <1>5, <1>6 DEF ServerSecret, Exchange12, Closing12, Flight13, Closing13
<1>10. ServerHelloInv(z, sess, Now)
  BY <1>5, <1>6, LateAnswered DEF ServerHelloInv, Hello13, Fresh, SoundRead
<1>11. ServerInv(z, sess, Now)
  BY <1>5, <1>7, <1>8, <1>9, <1>10 DEF ServerInv, ServerState, Before
<1> QED
  BY <1>1, <1>11

\* The answer of a server of TLS 1.3 to the hello.
LEMMA Answer13 ==
    ASSUME NEW e, NEW sess, Fresh(e, sess, Now), e.vers = 13, \A r \in Said(e) : Silent(r)
    PROVE  ServerInv(ServerHandshake13(e), sess, Now)
<1> DEFINE hello == e.hello
           suite == FirstIn(Prefers13(hello), ToSet(hello.suites))
           group == selectedGroup(hello)
           x == [e EXCEPT !.suite = suite,
                          !.serverHello = [ServerHello EXCEPT !.vers = 13, !.suite = suite, !.echo = TRUE]]
<1>1. ServerHandshake13(e) \in
        {Failed(e, "handshake_failure"), ServerFlight13(x, [group |-> group, generation |-> hello.generation]),
         doHelloRetryRequest(x, group)}
  BY DEF ServerHandshake13
<1> HIDE DEF suite, group
<1>2. /\ IsEnd(x) /\ x.wire = e.wire /\ SameBut(x, e, {"suite", "serverHello"}) /\ x.suite = suite
      /\ x.serverHello = [ServerHello EXCEPT !.vers = 13, !.suite = suite, !.echo = TRUE]
  BY DEF Fresh, IsEnd, EndFields, SameBut
<1> HIDE DEF x
<1>3. /\ x.vers = 13 /\ x.hello = e.hello /\ x.base = e.base /\ x.ems = e.ems /\ x.session = e.session
      /\ x.peerCert = e.peerCert /\ x.verified = e.verified /\ Said(x) = Said(e)
  BY <1>2 DEF SameBut, EndFields, Said
<1>4. Fresh(x, sess, Now) /\ Hello13(x)
  BY <1>2, <1>3 DEF Fresh, Hello13
<1> QED
  BY <1>1, <1>4, FreshFails, Flight13Said, Retry13Said

\* sendSessionTickets says no more than a ticket made of the secret of this attempt.
LEMMA TicketsSaid ==
    ASSUME NEW e, IsEnd(e), e.vers = 13, e.verified \in BOOLEAN, e.ems \in BOOLEAN,
           e.verified => e.peerCert = "good", e.secret = BaseOf(e.secret)
    PROVE  LET x == sendSessionTickets(e) IN
           /\ IsEnd(x) /\ SameBut(x, e, {"wire", "transcript", "clientFinished", "resumption"})
           /\ x.wire.out = e.wire.out
           /\ \A r \in Said(x) :
                \/ r \in Said(e)
                \/ /\ r.kind = "newSessionTicket" /\ Sound(r.body.state)
                   /\ r.body.state.base = e.secret
<1> DEFINE x1 == [e EXCEPT !.clientFinished = Verify(e.in, e)]
           x2 == Record(x1, "finished")
           secret == [x2.secret EXCEPT !.context = x2.transcript]
           y == [x2 EXCEPT !.resumption = secret]
           state == sessionState(y, secret)
           z == Write(y, Msg("newSessionTicket", encryptTicket(state)))
           x == sendSessionTickets(e)
<1>1. x \in {y, z}
  BY DEF sendSessionTickets
<1>2. IsEnd(x1) /\ SameBut(x1, e, {"clientFinished"}) /\ Said(x1) = Said(e) /\ x1.wire = e.wire
  BY DEF IsEnd, EndFields, SameBut, Said
<1> HIDE DEF x1
<1>3. IsEnd(x2) /\ SameBut(x2, x1, {"transcript"})
  BY <1>2, RecordEnd
<1>4. Said(x2) = Said(e) /\ x2.wire = e.wire /\ x2.secret = e.secret
  BY <1>2, <1>3 DEF SameBut, EndFields, Said
<1> HIDE DEF x2
<1>5. BaseOf(secret) = e.secret
  BY <1>4 DEF BaseOf
<1> HIDE DEF secret
<1>6. IsEnd(y) /\ SameBut(y, x2, {"resumption"}) /\ Said(y) = Said(e) /\ y.wire = e.wire
  BY <1>3, <1>4 DEF IsEnd, EndFields, SameBut, Said
<1> HIDE DEF y
<1>7. SameBut(y, e, {"wire", "transcript", "clientFinished", "resumption"})
  BY <1>2, <1>3, <1>6 DEF SameBut
<1>8. /\ y.vers = 13 /\ y.verified = e.verified /\ y.ems = e.ems /\ y.peerCert = e.peerCert
      /\ y.secret = e.secret
  BY <1>7 DEF SameBut, EndFields
<1>9. /\ state.version = 13 /\ state.ems = e.ems /\ state.secret = secret /\ state.base = e.secret
      /\ state.peerCert = e.peerCert /\ state.verified = e.verified
  BY <1>8 DEF sessionState
<1> HIDE DEF state
<1>10. Sound(state)
  BY <1>5, <1>9 DEF Sound
<1>11. encryptTicket(state).state = state
  BY DEF encryptTicket
<1> DEFINE m == Msg("newSessionTicket", encryptTicket(state))
<1>12. m.kind = "newSessionTicket" /\ m.body.state = state
  BY <1>11 DEF Msg
<1>13. z = Write(y, m)
  BY DEF m
<1> HIDE DEF m, z
<1>14. /\ IsEnd(Write(y, m)) /\ SameBut(Write(y, m), y, {"wire"}) /\ Write(y, m).wire.out = y.wire.out
       /\ \A r \in Said(Write(y, m)) : r \in Said(y) \/ (r.kind = m.kind /\ r.body = m.body)
  BY <1>6, WriteEnd
<1>15. /\ IsEnd(z) /\ SameBut(z, y, {"wire"}) /\ z.wire.out = e.wire.out
       /\ \A r \in Said(z) : r \in Said(y) \/ (r.kind = m.kind /\ r.body = m.body)
  BY <1>6, <1>13, <1>14
<1> HIDE DEF z, x
<1>16. SameBut(z, e, {"wire", "transcript", "clientFinished", "resumption"})
  BY <1>7, <1>15 DEF SameBut
<1>17. CASE x = y
  BY <1>6, <1>7, <1>17 DEF x
<1>18. CASE x = z
  BY <1>6, <1>9, <1>10, <1>12, <1>15, <1>16, <1>18 DEF x
<1> QED
  BY <1>1, <1>17, <1>18
-----------------------------------------------------------------------------
(* The steps of the server *)

\* What the server reads is what the client may say.
LEMMA FromClient ==
    ASSUME HandshakeInv, NEW pc, Receives(s, c, pc)
    PROVE  /\ s.pc = pc /\ c.wire.sent # <<>> /\ Kind(c) \in Reads[pc]
           /\ Head(c.wire.sent) \in Said(c)
           /\ ClientSays(Head(c.wire.sent), c.session, Now)
<1>1. IsEnd(c) /\ c.wire.sent # <<>>
  BY DEF HandshakeInv, ClientInv, Receives
<1>2. Head(c.wire.sent) \in Said(c)
  BY <1>1, TakenEnd
<1> QED
  BY <1>2 DEF HandshakeInv, ClientInv, Receives, Kind

\* A step of the server that reads a record.
LEMMA ServerSteps ==
    ASSUME HandshakeInv, NEW e, ServerStep(e), c.wire.sent # <<>>,
           ServerInv(e, c.session, Now), Follows(e, s)
    PROVE  HandshakeInv'
<1>1. s' = e /\ c' = Taken(c) /\ UNCHANGED <<ccfg, scfg, cache, founded>>
  BY DEF ServerStep, config
<1> QED
  BY <1>1, ServerPreserves

\* A server that has settled nothing yet is followed by any other,
LEMMA EarlyFollows ==
    ASSUME NEW e, NEW p, p.pc \in {"start", "clientHello"}
    PROVE  Follows(e, p)
BY DEF Follows, Answered, Late, Exchange12, Closing12, Flight13, Closing13

\* has said nothing,
LEMMA EarlySilent ==
    ASSUME NEW p, NEW sess, NEW n, ServerInv(p, sess, n), p.pc \in {"start", "clientHello"}
    PROVE  \A r \in Said(p) : Silent(r)
<1>1. p.pc \notin Answered /\ p.pc \notin Late /\ p.pc # "clientHello2"
  BY DEF Answered, Late, Exchange12, Closing12, Flight13, Closing13
<1> QED
  BY <1>1 DEF ServerInv, ServerSays, Answer, Continues, Issued, Silent

\* and resumes nothing.
LEMMA EarlyState ==
    ASSUME HandshakeInv, s.pc \in Before
    PROVE  /\ s.base = None /\ s.ems = FALSE /\ s.session = None /\ s.peerCert = "none"
           /\ s.verified = FALSE /\ IsEnd(s)
<1>1. ServerState(s, c.session, Now) /\ IsEnd(s)
  BY DEF HandshakeInv, ServerInv, Before
<1> QED
  BY <1>1 DEF ServerState, ServerCert, ServerSecret

\* serverHandshake keeps the invariant.
LEMMA serverHandshakeInv == HandshakeInv /\ serverHandshake => HandshakeInv'
<1> SUFFICES ASSUME HandshakeInv, serverHandshake PROVE HandshakeInv'
  OBVIOUS
<1>1. s.pc = "start" /\ s' = [s EXCEPT !.pc = "clientHello"] /\ UNCHANGED <<ccfg, scfg, cache, founded, c>>
  BY DEF serverHandshake, config
<1>2. ServerInv(s, c.session, Now)
  BY DEF HandshakeInv
<1>3. Follows(s', s)
  BY <1>1, EarlyFollows
<1>4. IsEnd(s') /\ s'.wire = s.wire /\ SameBut(s', s, {"pc"}) /\ s'.pc = "clientHello"
  BY <1>1, <1>2 DEF ServerInv, IsEnd, EndFields, SameBut
<1>5. Said(s') = Said(s)
  BY <1>4 DEF Said
<1>6. /\ s'.base = None /\ s'.ems = FALSE /\ s'.session = None /\ s'.peerCert = "none" /\ s'.verified = FALSE
  BY <1>1, <1>4, EarlyState DEF SameBut, EndFields, Before
<1>7. ServerState(s', c.session, Now)
  BY <1>4, <1>6 DEF ServerState, ServerCert, ServerSecret, ServerHelloInv, Before, Answered, Exchange12,
        Closing12, Flight13, Closing13
<1>8. ServerInv(s', c.session, Now)
  BY <1>2, <1>3, <1>4, <1>5, <1>7, ServerMoves
<1> QED
  BY <1>1, <1>3, <1>8, ServerPreserves

\* readClientHello keeps the invariant.
LEMMA readClientHelloInv == HandshakeInv /\ readClientHello => HandshakeInv'
<1> SUFFICES ASSUME HandshakeInv, readClientHello PROVE HandshakeInv'
  OBVIOUS
<1> DEFINE hello == processECHClientHello(Body(c))
           vers == FirstIn(hello.versions, ToSet(scfg.versions))
           x == [s EXCEPT !.vers = vers, !.hello = hello]
           e == IF vers = None THEN Failed(s, "protocol_version")
                ELSE IF vers = 13 THEN ServerHandshake13(x) ELSE ServerHandshake12(x)
<1>1. Receives(s, c, "clientHello") /\ ServerStep(e)
  BY DEF readClientHello
<1>2. /\ s.pc = "clientHello" /\ c.wire.sent # <<>> /\ Kind(c) \in Reads["clientHello"]
      /\ ClientSays(Head(c.wire.sent), c.session, Now)
  BY <1>1, FromClient
<1>3. SoundHello(Body(c), c.session, Now)
  BY <1>2 DEF Kind, Body, Reads, ClientSays
<1>4. ccfg \in ClientConfigs /\ scfg \in ServerConfigs /\ ServerInv(s, c.session, Now)
  BY DEF HandshakeInv
<1>5. SoundRead(hello, c.session, Now)
  <2>1. AcceptsECH(Body(c)) => ccfg.ech # 0
    BY <1>3 DEF AcceptsECH, SoundHello, Now
  <2> QED
    BY <1>3, <1>4, <2>1, InnerRead DEF processECHClientHello
<1> HIDE DEF hello
<1>6. vers \in {12, 13} \cup {None}
  BY <1>5, FirstOf DEF SoundRead
<1> HIDE DEF vers
<1>7. IsEnd(x) /\ SameBut(x, s, {"vers", "hello"}) /\ x.vers = vers /\ x.hello = hello /\ x.wire = s.wire
  BY <1>4 DEF ServerInv, IsEnd, EndFields, SameBut
<1> HIDE DEF x
<1>8. \A r \in Said(x) : Silent(r)
  BY <1>2, <1>4, <1>7, EarlySilent DEF Said
<1>9. x.base = None /\ x.ems = FALSE /\ x.session = None /\ x.peerCert = "none" /\ x.verified = FALSE
  BY <1>2, <1>7, EarlyState DEF SameBut, EndFields, Before
<1>10. Fresh(x, c.session, Now)
  BY <1>5, <1>7, <1>8, <1>9 DEF Fresh
<1>11. ServerInv(e, c.session, Now)
  <2>1. CASE vers = None
    BY <2>1, <1>4, ServerFails
  <2>2. CASE vers # None /\ vers = 13
    BY <2>2, <1>7, <1>8, <1>10, Answer13
  <2>3. CASE vers # None /\ vers # 13
    BY <2>3, <1>4, <1>6, <1>7, <1>10, Answer12
  <2> QED
    BY <2>1, <2>2, <2>3
<1>12. Follows(e, s)
  BY <1>2, EarlyFollows
<1> HIDE DEF e
<1> QED
  BY <1>1, <1>2, <1>11, <1>12, ServerSteps

\* readClientHello2 keeps the invariant.
LEMMA readClientHello2Inv == HandshakeInv /\ readClientHello2 => HandshakeInv'
<1> SUFFICES ASSUME HandshakeInv, readClientHello2 PROVE HandshakeInv'
  OBVIOUS
<1> DEFINE hello == IF s.hello.random = "inner" THEN InnerHello(Body(c)) ELSE Body(c)
           x == [s EXCEPT !.hello = hello]
           share == [group |-> s.share, generation |-> hello.generation]
           e == IF hello.shares # <<s.share>> \/ illegalClientHelloChange(s.hello, hello)
                THEN Failed(s, "illegal_parameter") ELSE ServerFlight13(x, share)
<1>1. Receives(s, c, "clientHello2") /\ ServerStep(e)
  BY DEF readClientHello2
<1>2. /\ s.pc = "clientHello2" /\ c.wire.sent # <<>> /\ Kind(c) \in Reads["clientHello2"]
      /\ ClientSays(Head(c.wire.sent), c.session, Now)
  BY <1>1, FromClient
<1>3. SoundHello(Body(c), c.session, Now)
  BY <1>2 DEF Kind, Body, Reads, ClientSays
<1>4. ccfg \in ClientConfigs /\ ServerInv(s, c.session, Now) /\ ServerHelloInv(s, c.session, Now)
  BY <1>2 DEF HandshakeInv, ServerInv, ServerState
<1>5. SoundRead(hello, c.session, Now)
  <2>1. s.hello.random = "inner" => ccfg.ech # 0
    BY <1>2, <1>4 DEF ServerHelloInv, Now
  <2> QED
    BY <1>3, <1>4, <2>1, InnerRead
<1> HIDE DEF hello, share
<1>6. IsEnd(x) /\ SameBut(x, s, {"hello"}) /\ x.hello = hello /\ x.wire = s.wire
  BY <1>4 DEF ServerInv, IsEnd, EndFields, SameBut
<1> HIDE DEF x
<1>7. /\ x.vers = 13 /\ x.suite = s.suite
      /\ x.serverHello = [ServerHello EXCEPT !.vers = 13, !.suite = s.suite, !.echo = TRUE]
  BY <1>2, <1>4, <1>6 DEF ServerHelloInv, SameBut, EndFields
<1>8. x.base = None /\ x.ems = FALSE /\ x.session = None /\ x.peerCert = "none" /\ x.verified = FALSE
  BY <1>2, <1>6, EarlyState DEF SameBut, EndFields, Before
<1>9. \A r \in Said(x) :
        \/ Silent(r)
        \/ r.kind = "helloRetryRequest" /\ r.body.vers = 13 /\ r.body.suite = x.suite
  <2>1. s.pc \notin Answered /\ s.pc \notin Late
    BY <1>2, LateAnswered
  <2>2. Said(x) = Said(s)
    BY <1>6 DEF Said
  <2> QED
    BY <1>4, <1>7, <2>1, <2>2 DEF ServerInv, ServerSays, Answer, Continues, Issued, Silent
<1>10. Fresh(x, c.session, Now) /\ Hello13(x)
  BY <1>5, <1>6, <1>7, <1>8, <1>9 DEF Fresh, Hello13
<1>11. ServerInv(e, c.session, Now) /\ Follows(e, s)
  <2>1. CASE e = Failed(s, "illegal_parameter")
    BY <2>1, <1>4, ServerFails
  <2>2. CASE e = ServerFlight13(x, share)
    <3>1. ServerInv(e, c.session, Now)
      BY <2>2, <1>10, Flight13Said
    <3>2. e.pc \in Answered /\ e.vers = 13 /\ e.suite = s.suite
      BY <2>2, <1>7, <1>10, Flight13Said
    <3>3. Follows(e, s)
      BY <1>2, <1>4, <3>2, LateAnswered DEF Follows, ServerHelloInv
    <3> QED
      BY <3>1, <3>3
  <2> QED
    BY <2>1, <2>2
<1> HIDE DEF e
<1> QED
  BY <1>1, <1>2, <1>11, ServerSteps
\* sendServerCertificate keeps the invariant.
LEMMA sendServerCertificateInv == HandshakeInv /\ sendServerCertificate => HandshakeInv'
<1> SUFFICES ASSUME HandshakeInv, sendServerCertificate PROVE HandshakeInv'
  OBVIOUS
<1> DEFINE x == IF requestClientCert(s) THEN WriteRecorded(s, "certificateRequest", None) ELSE s
           y == WriteRecorded(x, "certificate", scfg.trusted)
           v == WriteRecorded(y, "certificateVerify", y.transcript)
           z == IF s.session # None THEN s ELSE v
           Others == {"certificateRequest", "certificate", "certificateVerify"}
<1>1. /\ s.pc = "sendServerCertificate" /\ s' = [z EXCEPT !.pc = "sendServerFinished"]
      /\ UNCHANGED <<ccfg, scfg, cache, founded, c>>
  BY DEF sendServerCertificate, config
<1>2. ServerInv(s, c.session, Now) /\ IsEnd(s) /\ ServerState(s, c.session, Now)
  BY <1>1 DEF HandshakeInv, ServerInv
<1>3. /\ IsEnd(x) /\ SameBut(x, s, {"wire", "transcript"}) /\ x.wire.out = s.wire.out
      /\ \A r \in Said(x) : r \in Said(s) \/ r.kind \in Others
  <2>1. CASE requestClientCert(s)
    BY <2>1, <1>2, WriteRecordedEnd
  <2>2. CASE ~ requestClientCert(s)
    BY <2>2, <1>2 DEF SameBut
  <2> QED
    BY <2>1, <2>2
<1> HIDE DEF x
<1>4. /\ IsEnd(y) /\ SameBut(y, x, {"wire", "transcript"}) /\ y.wire.out = x.wire.out
      /\ \A r \in Said(y) : r \in Said(x) \/ r.kind \in Others
  BY <1>3, WriteRecordedEnd
<1> HIDE DEF y
<1>5. /\ IsEnd(v) /\ SameBut(v, y, {"wire", "transcript"}) /\ v.wire.out = y.wire.out
      /\ \A r \in Said(v) : r \in Said(y) \/ r.kind \in Others
  BY <1>4, WriteRecordedEnd
<1> HIDE DEF v
<1>6. /\ IsEnd(z) /\ SameBut(z, s, {"wire", "transcript"}) /\ z.wire.out = s.wire.out
      /\ \A r \in Said(z) : r \in Said(s) \/ r.kind \in Others
  BY <1>2, <1>3, <1>4, <1>5 DEF SameBut
<1> HIDE DEF z
<1>7. IsEnd(s') /\ s'.wire = z.wire /\ SameBut(s', z, {"pc"}) /\ s'.pc = "sendServerFinished"
  BY <1>1, <1>6 DEF IsEnd, EndFields, SameBut
<1>8. /\ s'.serverHello = s.serverHello /\ s'.vers = s.vers /\ s'.suite = s.suite /\ s'.alpn = s.alpn
      /\ s'.hello = s.hello /\ s'.secret = s.secret /\ s'.ems = s.ems /\ s'.base = s.base
      /\ s'.verified = s.verified /\ s'.peerCert = s.peerCert /\ s'.session = s.session
  BY <1>6, <1>7 DEF SameBut, EndFields
<1>9. Follows(s', s)
  BY <1>1, <1>7, <1>8 DEF Follows, Answered, Late, Flight13, Closing13
<1>10. \A r \in Said(s') : r \in Said(s) \/ ServerSays(r, s', c.session, Now)
  BY <1>6, <1>7, SilentSays DEF Said, Silent
<1>11. ServerCert(s', Now)
  BY <1>1, <1>2, <1>7, <1>8 DEF ServerState, ServerCert, Policy, Before, Closing12, Flight13
<1>12. ServerSecret(s', Now)
  BY <1>1, <1>2, <1>6, <1>7, <1>8 DEF ServerState, ServerSecret, Continues13, Before, Exchange12, Closing12,
        Flight13, Closing13
<1>13. ServerHelloInv(s', c.session, Now) /\ s'.pc \in Answered
  BY <1>1, <1>2, <1>7, <1>8 DEF ServerState, ServerHelloInv, Answer, Answered, Flight13
<1>14. ServerInv(s', c.session, Now)
  BY <1>2, <1>7, <1>9, <1>10, <1>11, <1>12, <1>13, ServerMoves DEF ServerState
<1> QED
  BY <1>1, <1>9, <1>14, ServerPreserves

\* sendServerFinished keeps the invariant.
LEMMA sendServerFinishedInv == HandshakeInv /\ sendServerFinished => HandshakeInv'
<1> SUFFICES ASSUME HandshakeInv, sendServerFinished PROVE HandshakeInv'
  OBVIOUS
<1> DEFINE x == WriteRecorded(s, "finished", Verify(s.wire.out, s))
           y == [x EXCEPT !.wire.out = Key("server", "application", x), !.traffic = Key("client", "application", x)]
           t == sendSessionTickets(y)
           w == IF requestClientCert(s) THEN y ELSE t
           z == flush(w)
           pc == IF requestClientCert(s) THEN "clientCertificate13" ELSE "clientFinished13"
<1>1. /\ s.pc = "sendServerFinished" /\ s' = [z EXCEPT !.pc = pc]
      /\ UNCHANGED <<ccfg, scfg, cache, founded, c>>
  BY DEF sendServerFinished, config
<1>2. ServerInv(s, c.session, Now) /\ IsEnd(s) /\ ServerState(s, c.session, Now) /\ scfg \in ServerConfigs
  BY <1>1 DEF HandshakeInv, ServerInv
<1>3. /\ s.vers = 13 /\ Continues13(s) /\ s.secret = BaseOf(s.secret) /\ s.wire.out.secret = s.secret
      /\ s.verified \in BOOLEAN /\ (s.verified => s.peerCert = "good") /\ s.ems \in BOOLEAN
      /\ s.base \in Now.founded \cup {None}
      /\ IF s.session # None THEN Policy(s, Now) ELSE s.peerCert = "none"
      /\ Answer(s, c.session, Now)
  BY <1>1, <1>2 DEF ServerState, ServerSecret, ServerCert, ServerHelloInv, Flight13, Answered
<1>4. /\ IsEnd(x) /\ SameBut(x, s, {"wire", "transcript"})
      /\ \A r \in Said(x) : r \in Said(s) \/ (r.kind = "finished" /\ r.body.key.secret = s.secret)
  <2>1. Verify(s.wire.out, s).key.secret = s.secret
    BY <1>3 DEF Verify
  <2> QED
    BY <1>2, <2>1, WriteRecordedEnd
<1>5. Key("server", "application", x).secret = x.secret /\ Key("client", "application", x).secret = x.secret
  BY DEF Key
<1> HIDE DEF x
<1>6. x.secret = s.secret
  BY <1>4 DEF SameBut, EndFields
<1>7. /\ DOMAIN y = EndFields /\ SameBut(y, x, {"wire", "traffic"}) /\ y.traffic.secret = s.secret
      /\ y.wire = [x.wire EXCEPT !.out = Key("server", "application", x)]
  BY <1>4, <1>5, <1>6 DEF IsEnd, EndFields, SameBut
<1> HIDE DEF y
<1>8. IsWire(y.wire) /\ y.wire.out.secret = s.secret /\ y.wire.sent = x.wire.sent /\ y.wire.buf = x.wire.buf
  BY <1>4, <1>5, <1>6, <1>7 DEF IsEnd, IsWire, WireFields
<1>9. IsEnd(y) /\ Said(y) = Said(x) /\ SameBut(y, s, {"wire", "transcript", "traffic"})
  BY <1>4, <1>7, <1>8 DEF IsEnd, Said, SameBut
<1>10. /\ y.vers = 13 /\ y.verified = s.verified /\ y.ems = s.ems /\ y.peerCert = s.peerCert
       /\ y.secret = s.secret
  BY <1>3, <1>9 DEF SameBut, EndFields
<1>11. /\ IsEnd(t) /\ SameBut(t, y, {"wire", "transcript", "clientFinished", "resumption"})
       /\ t.wire.out = y.wire.out
       /\ \A r \in Said(t) :
            \/ r \in Said(y)
            \/ r.kind = "newSessionTicket" /\ Sound(r.body.state) /\ r.body.state.base = s.secret
  BY <1>3, <1>9, <1>10, TicketsSaid
<1> HIDE DEF t
<1>12. /\ IsEnd(w) /\ SameBut(w, s, {"wire", "transcript", "traffic", "clientFinished", "resumption"})
       /\ w.wire.out = y.wire.out /\ w.traffic = y.traffic
       /\ \A r \in Said(w) :
            \/ r \in Said(s)
            \/ r.kind = "finished" /\ r.body.key.secret = s.secret
            \/ r.kind = "newSessionTicket" /\ Sound(r.body.state) /\ r.body.state.base = s.secret
  <2>1. CASE w = y
    BY <2>1, <1>4, <1>9 DEF SameBut
  <2>2. CASE w = t
    BY <2>2, <1>4, <1>9, <1>11 DEF SameBut, EndFields
  <2> QED
    BY <2>1, <2>2
<1> HIDE DEF w
<1>13. IsEnd(z) /\ SameBut(z, w, {"wire"}) /\ z.wire.out = w.wire.out /\ Said(z) \subseteq Said(w)
  BY <1>12, flushEnd
<1> HIDE DEF z
<1>14. IsEnd(s') /\ SameBut(s', z, {"pc"}) /\ s'.wire = z.wire /\ s'.pc = pc
  BY <1>1, <1>13 DEF IsEnd, EndFields, SameBut
<1>15. /\ s'.serverHello = s.serverHello /\ s'.vers = s.vers /\ s'.suite = s.suite /\ s'.alpn = s.alpn
       /\ s'.hello = s.hello /\ s'.secret = s.secret /\ s'.ems = s.ems /\ s'.base = s.base
       /\ s'.verified = s.verified /\ s'.peerCert = s.peerCert /\ s'.session = s.session
       /\ s'.wire.out.secret = s.secret /\ s'.traffic.secret = s.secret
  BY <1>7, <1>8, <1>12, <1>13, <1>14 DEF SameBut, EndFields
<1>16. s'.pc \in Closing13 /\ s'.pc \in Late /\ s'.pc \in Answered
  BY <1>14 DEF Late, Answered, Closing13
<1>17. Follows(s', s)
  BY <1>1, <1>15, <1>16 DEF Follows, Late, Closing13
<1>18. Continues13(s') /\ Continues(s')
  BY <1>3, <1>15, <1>16 DEF Continues, Continues13
<1>19. \A r \in Said(s') : r \in Said(s) \/ ServerSays(r, s', c.session, Now)
  BY <1>12, <1>13, <1>14, <1>15, <1>16, <1>18 DEF Said, ServerSays, Issued
<1>20. ServerCert(s', Now)
  <2>1. s'.pc = "clientFinished13" => Policy(s, Now)
    <3>1. scfg.clientAuth \in 0 .. 4
      BY <1>2, ConfigAssumption DEF ServerConfig
    <3>2. s'.pc = "clientFinished13" => s.session # None \/ scfg.clientAuth = 0
      BY <1>14, <3>1 DEF requestClientCert, RequestClientCert
    <3>3. scfg.clientAuth = 0 /\ s.peerCert = "none" => Policy(s, Now)
      BY DEF Policy, Now, requiresClientCert, RequireAnyClientCert, RequireAndVerifyClientCert
    <3> QED
      BY <1>3, <3>2, <3>3
  <2>2. /\ s'.pc \in {"clientFinished13", "clientCertificate13"}
        /\ s'.pc = "clientCertificate13" => Now.server.clientAuth >= RequestClientCert
    BY <1>14 DEF Now, requestClientCert
  <2> QED
    BY <1>3, <1>15, <2>1, <2>2 DEF ServerCert, Policy, Before, Flight13, Closing12
<1>21. ServerSecret(s', Now)
  BY <1>3, <1>15, <1>16, <1>18 DEF ServerSecret, Before, Exchange12, Closing12, Flight13, Closing13
<1>22. ServerHelloInv(s', c.session, Now)
  BY <1>3, <1>15, <1>16, LateAnswered DEF ServerHelloInv, Answer
<1>23. ServerInv(s', c.session, Now)
  BY <1>2, <1>14, <1>16, <1>17, <1>19, <1>20, <1>21, <1>22, ServerMoves DEF ServerState
<1> QED
  BY <1>1, <1>17, <1>23, ServerPreserves
\* A server that has answered and goes on.
LEMMA ServerAdvances ==
    ASSUME NEW p, NEW e, NEW sess, NEW n, ServerInv(p, sess, n), p.pc \in Answered, p.pc # "failed",
           IsEnd(e), Follows(e, p), e.pc \in Answered,
           \A r \in Said(e) : r \in Said(p) \/ ServerSays(r, e, sess, n),
           ServerCert(e, n), ServerSecret(e, n)
    PROVE  ServerInv(e, sess, n)
<1>1. Answer(p, sess, n)
  BY DEF ServerInv, ServerState, ServerHelloInv
<1>2. Answer(e, sess, n)
  BY <1>1, AnswerFollows
<1>3. ServerState(e, sess, n)
  BY <1>2, LateAnswered DEF ServerState, ServerHelloInv
<1> QED
  BY <1>3, ServerMoves

\* processCertsFromClient, and what it leaves of the certificate.
LEMMA CertTaken ==
    ASSUME HandshakeInv, NEW cert, cert \in {"none", "unverifiable", "good"}, IsEnd(s),
           scfg.clientAuth >= RequestClientCert,
           processCertsFromClient(s.vers, cert) = None
    PROVE  LET x == TakesCert(s, cert) IN
           /\ IsEnd(x) /\ SameBut(x, s, {"transcript", "peerCert", "verified"})
           /\ x.peerCert = cert /\ x.verified \in BOOLEAN /\ (x.verified => cert = "good")
           /\ Policy(x, Now)
<1> DEFINE y == Record(s, "certificate")
           verified == cert # "none" /\ scfg.clientAuth >= VerifyClientCertIfGiven
           x == TakesCert(s, cert)
<1>1. scfg.clientAuth \in 0 .. 4
  BY ConfigAssumption DEF HandshakeInv, ServerConfig
<1>2. /\ ~(cert = "none" /\ requiresClientCert(scfg.clientAuth))
      /\ ~(cert = "unverifiable" /\ scfg.clientAuth >= VerifyClientCertIfGiven)
  BY NoneAssumption DEF processCertsFromClient
<1>3. verified \in BOOLEAN /\ (verified => cert = "good")
  BY <1>2
<1>4. x = [y EXCEPT !.peerCert = cert, !.verified = verified]
  BY DEF TakesCert
<1> HIDE DEF verified
<1>5. IsEnd(y) /\ SameBut(y, s, {"transcript"})
  BY RecordEnd
<1> HIDE DEF y, x
<1>6. /\ IsEnd(x) /\ SameBut(x, y, {"peerCert", "verified"}) /\ x.peerCert = cert /\ x.verified = verified
  BY <1>4, <1>5 DEF IsEnd, EndFields, SameBut
<1>7. SameBut(x, s, {"transcript", "peerCert", "verified"})
  BY <1>5, <1>6 DEF SameBut
<1>8. Policy(x, Now)
  BY <1>1, <1>2, <1>6 DEF Policy, Now, NoClientCert, RequestClientCert
<1> QED
  BY <1>3, <1>6, <1>7, <1>8 DEF x

\* readClientCertificate12 keeps the invariant.
LEMMA readClientCertificate12Inv == HandshakeInv /\ readClientCertificate12 => HandshakeInv'
<1> SUFFICES ASSUME HandshakeInv, readClientCertificate12 PROVE HandshakeInv'
  OBVIOUS
<1> DEFINE alert == processCertsFromClient(s.vers, Body(c))
           x == TakesCert(s, Body(c))
           z == [x EXCEPT !.pc = "clientKeyExchange"]
           e == IF alert # None THEN Failed(s, alert) ELSE z
<1>1. Receives(s, c, "clientCertificate12") /\ ServerStep(e)
  BY DEF readClientCertificate12
<1>2. /\ s.pc = "clientCertificate12" /\ c.wire.sent # <<>> /\ Kind(c) \in Reads["clientCertificate12"]
      /\ ClientSays(Head(c.wire.sent), c.session, Now)
  BY <1>1, FromClient
<1>3. Body(c) \in {"none", "unverifiable", "good"}
  BY <1>2 DEF Kind, Body, Reads, ClientSays
<1>4. ServerInv(s, c.session, Now) /\ IsEnd(s) /\ ServerState(s, c.session, Now)
  BY <1>2 DEF HandshakeInv, ServerInv
<1>5. CASE alert # None
  BY <1>1, <1>2, <1>4, <1>5, ServerFails, ServerSteps
<1>6. CASE alert = None
  <2>1. scfg.clientAuth >= RequestClientCert
    BY <1>2, <1>4 DEF ServerState, ServerCert, Now
  <2>2. /\ IsEnd(x) /\ SameBut(x, s, {"transcript", "peerCert", "verified"})
        /\ x.verified \in BOOLEAN /\ (x.verified => x.peerCert = "good") /\ Policy(x, Now)
    BY <1>3, <1>4, <1>6, <2>1, CertTaken
  <2> HIDE DEF x
  <2>3. IsEnd(z) /\ SameBut(z, x, {"pc"}) /\ z.pc = "clientKeyExchange" /\ z.wire = s.wire
    BY <2>2 DEF IsEnd, EndFields, SameBut
  <2> HIDE DEF z
  <2>4. /\ z.serverHello = s.serverHello /\ z.vers = s.vers /\ z.suite = s.suite /\ z.alpn = s.alpn
        /\ z.hello = s.hello /\ z.ems = s.ems /\ z.base = s.base /\ z.session = s.session
        /\ z.verified = x.verified /\ z.peerCert = x.peerCert
    BY <2>2, <2>3 DEF SameBut, EndFields
  <2>5. s.pc \in Answered /\ s.pc \notin Late /\ z.pc \in Answered
    BY <1>2, <2>3 DEF Answered, Exchange12, Late, Closing13
  <2>6. Follows(z, s)
    BY <2>4, <2>5, LateAnswered DEF Follows
  <2>7. ServerCert(z, Now)
    BY <2>2, <2>3, <2>4 DEF ServerCert, Policy, Before, Flight13
  <2>8. ServerSecret(z, Now)
    BY <1>2, <1>4, <2>3, <2>4 DEF ServerState, ServerSecret, Before, Exchange12, Closing12, Flight13, Closing13
  <2>9. ServerInv(z, c.session, Now)
    <3>1. Said(z) = Said(s)
      BY <2>3 DEF Said
    <3> QED
      BY <1>2, <1>4, <2>3, <2>5, <2>6, <2>7, <2>8, <3>1, ServerAdvances
  <2> QED
    BY <1>1, <1>2, <1>6, <2>6, <2>9, ServerSteps
<1> QED
  BY <1>5, <1>6

\* readClientKeyExchange keeps the invariant.
LEMMA readClientKeyExchangeInv == HandshakeInv /\ readClientKeyExchange => HandshakeInv'
<1> SUFFICES ASSUME HandshakeInv, readClientKeyExchange PROVE HandshakeInv'
  OBVIOUS
<1> DEFINE x == Record(s, "clientKeyExchange")
           y == [x EXCEPT !.secret = masterSecret(x, s.hello.ems), !.ems = s.hello.ems]
           pc == IF s.peerCert # "none" THEN "clientVerify12" ELSE "clientCCS"
           z == [y EXCEPT !.pending = Key12("client", y), !.pc = pc]
<1>1. Receives(s, c, "clientKeyExchange") /\ ServerStep(z)
  BY DEF readClientKeyExchange
<1>2. s.pc = "clientKeyExchange" /\ c.wire.sent # <<>>
  BY <1>1, FromClient
<1>3. ServerInv(s, c.session, Now) /\ IsEnd(s) /\ ServerState(s, c.session, Now)
  BY <1>2 DEF HandshakeInv, ServerInv
<1>4. IsEnd(x) /\ SameBut(x, s, {"transcript"})
  BY <1>3, RecordEnd
<1> HIDE DEF x
<1>5. IsEnd(y) /\ SameBut(y, x, {"secret", "ems"}) /\ y.ems = s.hello.ems
  BY <1>4 DEF IsEnd, EndFields, SameBut
<1> HIDE DEF y
<1>6. Key12("client", y).secret = y.secret
  BY DEF Key12
<1>7. /\ IsEnd(z) /\ SameBut(z, y, {"pending", "pc"}) /\ z.pc = pc /\ z.pending.secret = y.secret
  BY <1>5, <1>6 DEF IsEnd, EndFields, SameBut
<1> HIDE DEF z
<1>8. /\ z.serverHello = s.serverHello /\ z.vers = s.vers /\ z.suite = s.suite /\ z.alpn = s.alpn
      /\ z.hello = s.hello /\ z.ems = s.hello.ems /\ z.base = s.base /\ z.session = s.session
      /\ z.verified = s.verified /\ z.peerCert = s.peerCert /\ z.wire = s.wire /\ z.pending.secret = z.secret
  BY <1>4, <1>5, <1>7 DEF SameBut, EndFields
<1>9. s.pc \in Answered /\ s.pc \notin Late /\ z.pc \in Answered /\ z.pc \in {"clientVerify12", "clientCCS"}
  BY <1>2, <1>7 DEF Answered, Exchange12, Late, Closing12, Closing13
<1>10. Follows(z, s)
  BY <1>8, <1>9, LateAnswered DEF Follows
<1>11. ServerCert(z, Now)
  BY <1>2, <1>3, <1>8, <1>9 DEF ServerState, ServerCert, Policy, Before, Flight13
<1>12. /\ s.vers = 12 /\ s.session = None /\ s.base = None /\ ~s.serverHello.echo
       /\ s.serverHello.ems = s.hello.ems /\ s.serverHello.ems \in BOOLEAN
  BY <1>2, <1>3, <1>9 DEF ServerState, ServerSecret, ServerHelloInv, Answer, Exchange12
<1>13. ServerSecret(z, Now)
  BY <1>8, <1>9, <1>12 DEF ServerSecret, Continues12, Before, Exchange12, Closing12, Flight13, Closing13
<1>14. ServerInv(z, c.session, Now)
  <2>1. Said(z) = Said(s)
    BY <1>8 DEF Said
  <2> QED
    BY <1>2, <1>3, <1>7, <1>9, <1>10, <1>11, <1>13, <2>1, ServerAdvances
<1> QED
  BY <1>1, <1>2, <1>10, <1>14, ServerSteps

\* readCertificateVerify12 keeps the invariant.
LEMMA readCertificateVerify12Inv == HandshakeInv /\ readCertificateVerify12 => HandshakeInv'
<1> SUFFICES ASSUME HandshakeInv, readCertificateVerify12 PROVE HandshakeInv'
  OBVIOUS
<1> DEFINE x == Record(s, "certificateVerify")
           z == [x EXCEPT !.pc = "clientCCS"]
           e == IF Body(c) # s.transcript THEN Failed(s, "decrypt_error") ELSE z
<1>1. Receives(s, c, "clientVerify12") /\ ServerStep(e)
  BY DEF readCertificateVerify12
<1>2. s.pc = "clientVerify12" /\ c.wire.sent # <<>>
  BY <1>1, FromClient
<1>3. ServerInv(s, c.session, Now) /\ IsEnd(s) /\ ServerState(s, c.session, Now)
  BY <1>2 DEF HandshakeInv, ServerInv
<1>4. IsEnd(x) /\ SameBut(x, s, {"transcript"})
  BY <1>3, RecordEnd
<1> HIDE DEF x
<1>5. IsEnd(z) /\ SameBut(z, x, {"pc"}) /\ z.pc = "clientCCS"
  BY <1>4 DEF IsEnd, EndFields, SameBut
<1> HIDE DEF z
<1>6. /\ z.serverHello = s.serverHello /\ z.vers = s.vers /\ z.suite = s.suite /\ z.alpn = s.alpn
      /\ z.hello = s.hello /\ z.ems = s.ems /\ z.base = s.base /\ z.session = s.session
      /\ z.verified = s.verified /\ z.peerCert = s.peerCert /\ z.wire = s.wire
      /\ z.secret = s.secret /\ z.pending = s.pending
  BY <1>4, <1>5 DEF SameBut, EndFields
<1>7. s.pc \in Answered /\ s.pc \notin Late /\ z.pc \in Answered
  BY <1>2, <1>5 DEF Answered, Late, Closing12, Closing13
<1>8. Follows(z, s)
  BY <1>6, <1>7, LateAnswered DEF Follows
<1>9. ServerCert(z, Now)
  BY <1>2, <1>3, <1>5, <1>6 DEF ServerState, ServerCert, Policy, Before, Flight13, Closing12
<1>10. ServerSecret(z, Now)
  BY <1>2, <1>3, <1>5, <1>6 DEF ServerState, ServerSecret, Continues12, Before, Exchange12, Closing12,
        Flight13, Closing13
<1>11. ServerInv(z, c.session, Now)
  <2>1. Said(z) = Said(s)
    BY <1>6 DEF Said
  <2> QED
    BY <1>2, <1>3, <1>5, <1>7, <1>8, <1>9, <1>10, <2>1, ServerAdvances
<1>12. ServerInv(e, c.session, Now) /\ Follows(e, s)
  BY <1>3, <1>8, <1>11, ServerFails
<1> HIDE DEF e
<1> QED
  BY <1>1, <1>2, <1>12, ServerSteps

\* readClientCCS keeps the invariant.
LEMMA readClientCCSInv == HandshakeInv /\ readClientCCS => HandshakeInv'
<1> SUFFICES ASSUME HandshakeInv, readClientCCS PROVE HandshakeInv'
  OBVIOUS
<1> DEFINE z == [s EXCEPT !.in = s.pending, !.pc = "clientFinished12"]
<1>1. Receives(s, c, "clientCCS") /\ ServerStep(z)
  BY DEF readClientCCS
<1>2. s.pc = "clientCCS" /\ c.wire.sent # <<>>
  BY <1>1, FromClient
<1>3. ServerInv(s, c.session, Now) /\ IsEnd(s) /\ ServerState(s, c.session, Now)
  BY <1>2 DEF HandshakeInv, ServerInv
<1>4. IsEnd(z) /\ SameBut(z, s, {"in", "pc"}) /\ z.pc = "clientFinished12" /\ z.in = s.pending
  BY <1>3 DEF IsEnd, EndFields, SameBut
<1> HIDE DEF z
<1>5. /\ z.serverHello = s.serverHello /\ z.vers = s.vers /\ z.suite = s.suite /\ z.alpn = s.alpn
      /\ z.hello = s.hello /\ z.ems = s.ems /\ z.base = s.base /\ z.session = s.session
      /\ z.verified = s.verified /\ z.peerCert = s.peerCert /\ z.wire = s.wire
      /\ z.secret = s.secret
  BY <1>4 DEF SameBut, EndFields
<1>6. s.pc \in Answered /\ z.pc \in Late /\ z.pc \in Answered
  BY <1>2, <1>4 DEF Answered, Late, Closing12
<1>7. Follows(z, s)
  BY <1>5, <1>6, LateAnswered DEF Follows
<1>8. ServerCert(z, Now)
  BY <1>2, <1>3, <1>4, <1>5 DEF ServerState, ServerCert, Policy, Before, Flight13, Closing12
<1>9. ServerSecret(z, Now)
  BY <1>2, <1>3, <1>4, <1>5 DEF ServerState, ServerSecret, Continues12, Before, Exchange12, Closing12,
        Flight13, Closing13
<1>10. ServerInv(z, c.session, Now)
  <2>1. Said(z) = Said(s)
    BY <1>5 DEF Said
  <2> QED
    BY <1>2, <1>3, <1>4, <1>6, <1>7, <1>8, <1>9, <2>1, ServerAdvances
<1> QED
  BY <1>1, <1>2, <1>7, <1>10, ServerSteps

\* readClientFinished12 keeps the invariant.
LEMMA readClientFinished12Inv == HandshakeInv /\ readClientFinished12 => HandshakeInv'
<1> SUFFICES ASSUME HandshakeInv, readClientFinished12 PROVE HandshakeInv'
  OBVIOUS
<1> DEFINE x == Record(s, "finished")
           b == Buffer(x)
           t == sendSessionTicket12(b)
           f == sendFinished12(t, "server")
           y == flush(f)
           w == IF s.session # None THEN x ELSE y
           z == [w EXCEPT !.pc = "done"]
           e == IF Body(c) # Verify(s.in, s) THEN Failed(s, "handshake_failure") ELSE z
<1>1. Receives(s, c, "clientFinished12") /\ ServerStep(e)
  BY DEF readClientFinished12, Done
<1>2. s.pc = "clientFinished12" /\ c.wire.sent # <<>>
  BY <1>1, FromClient
<1>3. ServerInv(s, c.session, Now) /\ IsEnd(s) /\ ServerState(s, c.session, Now)
  BY <1>2 DEF HandshakeInv, ServerInv
<1>4. /\ s.vers = 12 /\ Continues12(s) /\ (s.session # None => s.wire.out.secret = s.secret)
      /\ s.in.secret = s.secret /\ s.ems \in BOOLEAN /\ s.base \in Now.founded \cup {None}
      /\ s.verified \in BOOLEAN /\ (s.verified => s.peerCert = "good") /\ Policy(s, Now)
  BY <1>2, <1>3 DEF ServerState, ServerSecret, ServerCert, Closing12
<1>5. IsEnd(x) /\ SameBut(x, s, {"wire", "transcript"}) /\ x.wire = s.wire
  BY <1>3, RecordEnd DEF SameBut, EndFields
<1> HIDE DEF x
<1>6. IsEnd(b) /\ SameBut(b, x, {"wire"}) /\ Said(b) = Said(x)
  BY <1>5, BufferEnd
<1> HIDE DEF b
<1>7. /\ b.vers = 12 /\ b.verified = s.verified /\ b.ems = s.ems /\ b.peerCert = s.peerCert
      /\ b.secret = s.secret
  BY <1>4, <1>5, <1>6 DEF SameBut, EndFields
<1>8. /\ IsEnd(t) /\ SameBut(t, b, {"wire", "transcript"})
      /\ \A r \in Said(t) :
            \/ r \in Said(b)
            \/ r.kind = "newSessionTicket" /\ Sound(r.body.state) /\ r.body.state.base = s.secret
  BY <1>4, <1>6, <1>7, TicketSaid
<1> HIDE DEF t
<1>9. t.secret = s.secret
  BY <1>7, <1>8 DEF SameBut, EndFields
<1>10. /\ IsEnd(f) /\ SameBut(f, t, {"wire", "transcript"}) /\ f.wire.out.secret = s.secret
       /\ \A r \in Said(f) :
            \/ r \in Said(t)
            \/ r.kind = "changeCipherSpec"
            \/ r.kind = "finished" /\ r.body.key.secret = s.secret
  BY <1>8, <1>9, FinishedSaid
<1> HIDE DEF f
<1>11. IsEnd(y) /\ SameBut(y, f, {"wire"}) /\ y.wire.out = f.wire.out /\ Said(y) \subseteq Said(f)
  BY <1>10, flushEnd
<1> HIDE DEF y
<1>12. /\ IsEnd(w) /\ SameBut(w, s, {"wire", "transcript"}) /\ w.wire.out.secret = s.secret
       /\ \A r \in Said(w) :
            \/ r \in Said(s)
            \/ r.kind = "changeCipherSpec"
            \/ r.kind = "finished" /\ r.body.key.secret = s.secret
            \/ r.kind = "newSessionTicket" /\ Sound(r.body.state) /\ r.body.state.base = s.secret
  <2>1. CASE w = x /\ s.session # None
    BY <2>1, <1>4, <1>5 DEF Said
  <2>2. CASE w = y
    BY <2>2, <1>5, <1>6, <1>8, <1>10, <1>11 DEF SameBut, Said
  <2> QED
    BY <2>1, <2>2
<1> HIDE DEF w
<1>13. IsEnd(z) /\ SameBut(z, w, {"pc"}) /\ z.pc = "done" /\ z.wire = w.wire
  BY <1>12 DEF IsEnd, EndFields, SameBut
<1> HIDE DEF z
<1>14. /\ z.serverHello = s.serverHello /\ z.vers = s.vers /\ z.suite = s.suite /\ z.alpn = s.alpn
       /\ z.hello = s.hello /\ z.ems = s.ems /\ z.base = s.base /\ z.session = s.session
       /\ z.verified = s.verified /\ z.peerCert = s.peerCert /\ z.in = s.in
       /\ z.secret = s.secret /\ z.wire.out.secret = s.secret
  BY <1>12, <1>13 DEF SameBut, EndFields
<1>15. s.pc \in Answered /\ z.pc \in Late /\ z.pc \in Answered
  BY <1>2, <1>13 DEF Answered, Late, Closing12
<1>16. Follows(z, s)
  BY <1>2, <1>14, <1>15 DEF Follows
<1>17. Continues(z)
  BY <1>4, <1>14, <1>15 DEF Continues, Continues12
<1>18. \A r \in Said(z) : r \in Said(s) \/ ServerSays(r, z, c.session, Now)
  BY <1>12, <1>13, <1>14, <1>15, <1>17 DEF Said, ServerSays, Issued
<1>19. ServerCert(z, Now)
  BY <1>4, <1>13, <1>14 DEF ServerCert, Policy, Before, Flight13
<1>20. ServerSecret(z, Now)
  BY <1>4, <1>13, <1>14, <1>17 DEF ServerSecret, Before, Exchange12, Closing12, Flight13, Closing13
<1>21. ServerInv(z, c.session, Now)
  BY <1>2, <1>3, <1>13, <1>15, <1>16, <1>18, <1>19, <1>20, ServerAdvances
<1>22. ServerInv(e, c.session, Now) /\ Follows(e, s)
  BY <1>3, <1>16, <1>21, ServerFails
<1> HIDE DEF e
<1> QED
  BY <1>1, <1>2, <1>22, ServerSteps
\* The state of TLS 1.3 in which the server has sent its Finished.
LEMMA Closing13State ==
    ASSUME HandshakeInv, s.pc \in Closing13
    PROVE  /\ s.vers = 13 /\ Continues13(s) /\ s.secret = BaseOf(s.secret)
           /\ s.wire.out.secret = s.secret /\ s.traffic.secret = s.secret
           /\ s.ems \in BOOLEAN /\ s.base \in Now.founded \cup {None}
           /\ s.verified \in BOOLEAN /\ (s.verified => s.peerCert = "good")
           /\ s.pc \in Answered /\ s.pc \in Late
           /\ ServerInv(s, c.session, Now) /\ IsEnd(s) /\ ServerState(s, c.session, Now)
<1>1. s.pc # "failed" /\ s.pc \in Answered /\ s.pc \in Late
  BY DEF Closing13, Answered, Late
<1>2. ServerInv(s, c.session, Now) /\ IsEnd(s) /\ ServerState(s, c.session, Now)
  BY <1>1 DEF HandshakeInv, ServerInv
<1> QED
  BY <1>1, <1>2 DEF ServerState, ServerSecret, ServerCert

\* It goes on with the certificate x has, and perhaps tickets.
LEMMA Goes13 ==
    ASSUME HandshakeInv, s.pc \in Closing13, NEW x, IsEnd(x),
           SameBut(x, s, {"transcript", "peerCert", "verified"}),
           x.verified \in BOOLEAN, x.verified => x.peerCert = "good", Policy(x, Now)
    PROVE  /\ ServerInv([x EXCEPT !.pc = "clientVerify13"], c.session, Now)
           /\ Follows([x EXCEPT !.pc = "clientVerify13"], s)
           /\ ServerInv([sendSessionTickets(x) EXCEPT !.pc = "clientFinished13"], c.session, Now)
           /\ Follows([sendSessionTickets(x) EXCEPT !.pc = "clientFinished13"], s)
<1>1. /\ s.vers = 13 /\ Continues13(s) /\ s.secret = BaseOf(s.secret)
      /\ s.wire.out.secret = s.secret /\ s.traffic.secret = s.secret
      /\ s.ems \in BOOLEAN /\ s.base \in Now.founded \cup {None} /\ s.pc \in Answered /\ s.pc \in Late
      /\ ServerInv(s, c.session, Now) /\ s.pc # "failed"
  BY Closing13State DEF Closing13
<1>2. /\ x.vers = 13 /\ x.secret = s.secret /\ x.ems = s.ems /\ x.wire = s.wire
  BY <1>1 DEF SameBut, EndFields
<1> DEFINE t == sendSessionTickets(x)
<1>3. /\ IsEnd(t) /\ SameBut(t, x, {"wire", "transcript", "clientFinished", "resumption"})
      /\ t.wire.out = s.wire.out
      /\ \A r \in Said(t) :
            \/ r \in Said(s)
            \/ r.kind = "newSessionTicket" /\ Sound(r.body.state) /\ r.body.state.base = s.secret
  <2>1. Said(x) = Said(s)
    BY <1>2 DEF Said
  <2> QED
    BY <1>1, <1>2, <2>1, TicketsSaid
<1> HIDE DEF t
<1>4. ASSUME NEW y, NEW pc, pc \in {"clientVerify13", "clientFinished13"}, IsEnd(y),
             SameBut(y, x, {"wire", "transcript", "clientFinished", "resumption"}), y.wire.out = s.wire.out,
             \A r \in Said(y) :
                \/ r \in Said(s)
                \/ r.kind = "newSessionTicket" /\ Sound(r.body.state) /\ r.body.state.base = s.secret
      PROVE  ServerInv([y EXCEPT !.pc = pc], c.session, Now) /\ Follows([y EXCEPT !.pc = pc], s)
  <2> DEFINE z == [y EXCEPT !.pc = pc]
  <2>1. IsEnd(z) /\ SameBut(z, y, {"pc"}) /\ z.pc = pc /\ z.wire = y.wire
    BY <1>4 DEF IsEnd, EndFields, SameBut
  <2> HIDE DEF z
  <2>2. /\ z.serverHello = s.serverHello /\ z.vers = s.vers /\ z.suite = s.suite /\ z.alpn = s.alpn
        /\ z.hello = s.hello /\ z.ems = s.ems /\ z.base = s.base /\ z.secret = s.secret
        /\ z.traffic = s.traffic /\ z.wire.out = s.wire.out
        /\ z.verified = x.verified /\ z.peerCert = x.peerCert
    BY <1>4, <2>1 DEF SameBut, EndFields
  <2>3. z.pc \in Answered /\ z.pc \in Late
    BY <1>4, <2>1 DEF Answered, Late, Closing13
  <2>4. Follows(z, s)
    BY <1>1, <2>2, <2>3, LateAnswered DEF Follows
  <2>5. \A r \in Said(z) : r \in Said(s) \/ ServerSays(r, z, c.session, Now)
    BY <1>4, <2>1, <2>2, <2>3 DEF Said, ServerSays, Issued
  <2>6. ServerCert(z, Now)
    BY <1>4, <2>1, <2>2 DEF ServerCert, Policy, Before, Flight13
  <2>7. ServerSecret(z, Now)
    BY <1>1, <1>4, <2>1, <2>2 DEF ServerSecret, Continues13, Before, Exchange12, Closing12, Flight13, Closing13
  <2>8. ServerInv(z, c.session, Now)
    BY <1>1, <2>1, <2>3, <2>4, <2>5, <2>6, <2>7, ServerAdvances
  <2> QED
    BY <2>4, <2>8 DEF z
<1>5. SameBut(x, x, {"wire", "transcript", "clientFinished", "resumption"}) /\ \A r \in Said(x) : r \in Said(s)
  BY <1>2 DEF SameBut, Said
<1> QED
  BY <1>2, <1>3, <1>4, <1>5 DEF t

\* readClientCertificate13 keeps the invariant.
LEMMA readClientCertificate13Inv == HandshakeInv /\ readClientCertificate13 => HandshakeInv'
<1> SUFFICES ASSUME HandshakeInv, readClientCertificate13 PROVE HandshakeInv'
  OBVIOUS
<1> DEFINE alert == processCertsFromClient(s.vers, Body(c))
           x == TakesCert(s, Body(c))
           e == IF alert # None THEN Failed(s, alert)
                ELSE IF x.peerCert # "none" THEN [x EXCEPT !.pc = "clientVerify13"]
                ELSE [sendSessionTickets(x) EXCEPT !.pc = "clientFinished13"]
<1>1. Receives(s, c, "clientCertificate13") /\ ServerStep(e)
  BY DEF readClientCertificate13
<1>2. /\ s.pc = "clientCertificate13" /\ c.wire.sent # <<>> /\ Kind(c) \in Reads["clientCertificate13"]
      /\ ClientSays(Head(c.wire.sent), c.session, Now)
  BY <1>1, FromClient
<1>3. Body(c) \in {"none", "unverifiable", "good"}
  BY <1>2 DEF Kind, Body, Reads, ClientSays
<1>4. s.pc \in Closing13 /\ ServerInv(s, c.session, Now) /\ IsEnd(s) /\ ServerState(s, c.session, Now)
  BY <1>2, Closing13State DEF Closing13
<1>5. ServerInv(e, c.session, Now) /\ Follows(e, s)
  <2>1. CASE alert # None
    BY <2>1, <1>4, ServerFails
  <2>2. CASE alert = None
    <3>1. scfg.clientAuth >= RequestClientCert
      BY <1>2, <1>4 DEF ServerState, ServerCert, Now
    <3>2. /\ IsEnd(x) /\ SameBut(x, s, {"transcript", "peerCert", "verified"})
          /\ x.verified \in BOOLEAN /\ (x.verified => x.peerCert = "good") /\ Policy(x, Now)
      BY <1>3, <1>4, <2>2, <3>1, CertTaken
    <3> HIDE DEF x
    <3> QED
      BY <1>4, <2>2, <3>2, Goes13
  <2> QED
    BY <2>1, <2>2
<1> HIDE DEF e
<1> QED
  BY <1>1, <1>2, <1>5, ServerSteps

\* readClientVerify13 keeps the invariant.
LEMMA readClientVerify13Inv == HandshakeInv /\ readClientVerify13 => HandshakeInv'
<1> SUFFICES ASSUME HandshakeInv, readClientVerify13 PROVE HandshakeInv'
  OBVIOUS
<1> DEFINE x == Record(s, "certificateVerify")
           e == IF Body(c) # s.transcript THEN Failed(s, "decrypt_error")
                ELSE [sendSessionTickets(x) EXCEPT !.pc = "clientFinished13"]
<1>1. Receives(s, c, "clientVerify13") /\ ServerStep(e)
  BY DEF readClientVerify13
<1>2. s.pc = "clientVerify13" /\ c.wire.sent # <<>>
  BY <1>1, FromClient
<1>3. /\ s.pc \in Closing13 /\ ServerInv(s, c.session, Now) /\ IsEnd(s) /\ ServerState(s, c.session, Now)
      /\ s.verified \in BOOLEAN /\ (s.verified => s.peerCert = "good")
  BY <1>2, Closing13State DEF Closing13
<1>4. IsEnd(x) /\ SameBut(x, s, {"transcript"})
  BY <1>3, RecordEnd
<1> HIDE DEF x
<1>5. /\ SameBut(x, s, {"transcript", "peerCert", "verified"})
      /\ x.verified = s.verified /\ x.peerCert = s.peerCert
  BY <1>4 DEF SameBut, EndFields
<1>6. Policy(x, Now)
  BY <1>2, <1>3, <1>5 DEF ServerState, ServerCert, Policy
<1>7. ServerInv(e, c.session, Now) /\ Follows(e, s)
  BY <1>3, <1>4, <1>5, <1>6, ServerFails, Goes13
<1> HIDE DEF e
<1> QED
  BY <1>1, <1>2, <1>7, ServerSteps

\* readClientFinished13 keeps the invariant.
LEMMA readClientFinished13Inv == HandshakeInv /\ readClientFinished13 => HandshakeInv'
<1> SUFFICES ASSUME HandshakeInv, readClientFinished13 PROVE HandshakeInv'
  OBVIOUS
<1> DEFINE x == [s EXCEPT !.pc = "done"]
           z == [x EXCEPT !.in = s.traffic]
           e == IF Body(c) # s.clientFinished THEN Failed(s, "decrypt_error") ELSE z
<1>1. Receives(s, c, "clientFinished13") /\ ServerStep(e)
  BY DEF readClientFinished13, Done
<1>2. s.pc = "clientFinished13" /\ c.wire.sent # <<>>
  BY <1>1, FromClient
<1>3. /\ s.vers = 13 /\ Continues13(s) /\ s.wire.out.secret = s.secret /\ s.traffic.secret = s.secret
      /\ s.ems \in BOOLEAN /\ s.base \in Now.founded \cup {None}
      /\ s.verified \in BOOLEAN /\ (s.verified => s.peerCert = "good")
      /\ s.pc \in Answered /\ s.pc \in Late
      /\ ServerInv(s, c.session, Now) /\ IsEnd(s) /\ ServerState(s, c.session, Now)
  BY <1>2, Closing13State DEF Closing13
<1>4. IsEnd(z) /\ SameBut(z, s, {"in", "pc"}) /\ z.pc = "done" /\ z.in = s.traffic
  BY <1>3 DEF IsEnd, EndFields, SameBut
<1> HIDE DEF z
<1>5. /\ z.serverHello = s.serverHello /\ z.vers = s.vers /\ z.suite = s.suite /\ z.alpn = s.alpn
      /\ z.hello = s.hello /\ z.ems = s.ems /\ z.base = s.base /\ z.session = s.session
      /\ z.verified = s.verified /\ z.peerCert = s.peerCert /\ z.wire = s.wire
      /\ z.secret = s.secret
  BY <1>4 DEF SameBut, EndFields
<1>6. z.pc \in Late /\ z.pc \in Answered
  BY <1>4 DEF Answered, Late
<1>7. Follows(z, s)
  BY <1>2, <1>5, <1>6 DEF Follows
<1>8. Continues(z)
  BY <1>3, <1>5, <1>6 DEF Continues, Continues13
<1>9. ServerCert(z, Now)
  BY <1>2, <1>3, <1>4, <1>5 DEF ServerState, ServerCert, Policy, Before, Flight13, Closing12
<1>10. ServerSecret(z, Now)
  BY <1>3, <1>4, <1>5, <1>8 DEF ServerSecret, Before, Exchange12, Closing12, Flight13, Closing13
<1>11. ServerInv(z, c.session, Now)
  <2>1. Said(z) = Said(s)
    BY <1>5 DEF Said
  <2> QED
    BY <1>2, <1>3, <1>4, <1>6, <1>7, <1>9, <1>10, <2>1, ServerAdvances
<1>12. ServerInv(e, c.session, Now) /\ Follows(e, s)
  BY <1>3, <1>7, <1>11, ServerFails
<1> HIDE DEF e
<1> QED
  BY <1>1, <1>2, <1>12, ServerSteps

\* ServerRefuses keeps the invariant.
LEMMA ServerRefusesInv == HandshakeInv /\ ServerRefuses => HandshakeInv'
<1> SUFFICES ASSUME HandshakeInv, ServerRefuses PROVE HandshakeInv'
  OBVIOUS
<1>1. c.wire.sent # <<>> /\ ServerStep(Refused(s, c)) /\ ServerInv(s, c.session, Now)
  BY DEF ServerRefuses, Refuses, HandshakeInv
<1>2. \E alert : Refused(s, c) = Failed(s, alert)
  BY DEF Refused
<1>3. ServerInv(Refused(s, c), c.session, Now) /\ Follows(Refused(s, c), s)
  BY <1>1, <1>2, ServerFails
<1> QED
  BY <1>1, <1>3, ServerSteps

\* Every step of the server keeps the invariant.
LEMMA ServerNextInv == HandshakeInv /\ ServerNext => HandshakeInv'
BY serverHandshakeInv, readClientHelloInv, readClientHello2Inv, sendServerCertificateInv, sendServerFinishedInv,
   readClientCertificate12Inv, readClientKeyExchangeInv, readCertificateVerify12Inv, readClientCCSInv,
   readClientFinished12Inv, readClientCertificate13Inv, readClientVerify13Inv, readClientFinished13Inv,
   ServerRefusesInv
   DEF ServerNext
-----------------------------------------------------------------------------
(* The steps of the client: y says what x may say. *)
Speaks(y, x, n) ==
    IsEnd(y) /\ y.session = x.session /\ \A r \in Said(y) : r \in Said(x) \/ ClientSays(r, x.session, n)

Continued(e, x, p, n) ==
    Speaks(e, x, n) /\ e.pc # "done" /\ (e.pc # "failed" => ClientState(e, p, n))

\* A client may write any message it may say,
LEMMA SpeaksWrite ==
    ASSUME NEW x, NEW n, NEW y, Speaks(y, x, n), NEW kind, NEW body,
           kind = "clientHello" => SoundHello(body, x.session, n),
           kind = "certificate" => body \in {"none", "unverifiable", "good"}
    PROVE  LET z == WriteRecorded(y, kind, body) IN
           Speaks(z, x, n) /\ SameBut(z, y, {"wire", "transcript"}) /\ z.wire.out = y.wire.out
<1> DEFINE z == WriteRecorded(y, kind, body)
<1>1. /\ IsEnd(z) /\ SameBut(z, y, {"wire", "transcript"}) /\ z.wire.out = y.wire.out
      /\ \A r \in Said(z) : r \in Said(y) \/ (r.kind = kind /\ r.body = body)
  BY WriteRecordedEnd DEF Speaks
<1> HIDE DEF z
<1>2. z.session = y.session
  BY <1>1 DEF SameBut, EndFields
<1>3. \A r \in Said(z) : r \in Said(x) \/ ClientSays(r, x.session, n)
  BY <1>1 DEF Speaks, ClientSays
<1> QED
  BY <1>1, <1>2, <1>3 DEF Speaks, z

\* buffer,
LEMMA SpeaksBuffer ==
    ASSUME NEW x, NEW n, NEW y, Speaks(y, x, n)
    PROVE  LET z == Buffer(y) IN
           Speaks(z, x, n) /\ SameBut(z, y, {"wire"}) /\ z.wire.out = y.wire.out
<1> DEFINE z == Buffer(y)
<1>1. IsEnd(z) /\ SameBut(z, y, {"wire"}) /\ z.wire.out = y.wire.out /\ Said(z) = Said(y)
  BY BufferEnd DEF Speaks
<1> HIDE DEF z
<1>2. z.session = y.session
  BY <1>1 DEF SameBut, EndFields
<1> QED
  BY <1>1, <1>2 DEF Speaks, z

\* flush,
LEMMA SpeaksFlush ==
    ASSUME NEW x, NEW n, NEW y, Speaks(y, x, n)
    PROVE  LET z == flush(y) IN
           Speaks(z, x, n) /\ SameBut(z, y, {"wire"}) /\ z.wire.out = y.wire.out
<1> DEFINE z == flush(y)
<1>1. IsEnd(z) /\ SameBut(z, y, {"wire"}) /\ z.wire.out = y.wire.out /\ Said(z) \subseteq Said(y)
  BY flushEnd DEF Speaks
<1> HIDE DEF z
<1>2. z.session = y.session
  BY <1>1 DEF SameBut, EndFields
<1> QED
  BY <1>1, <1>2 DEF Speaks, z

\* send its Finished,
LEMMA SpeaksFinished12 ==
    ASSUME NEW x, NEW n, NEW y, Speaks(y, x, n)
    PROVE  LET z == sendFinished12(y, "client") IN
           Speaks(z, x, n) /\ SameBut(z, y, {"wire", "transcript"}) /\ z.wire.out.secret = y.secret
<1> DEFINE z == sendFinished12(y, "client")
<1>1. /\ IsEnd(z) /\ SameBut(z, y, {"wire", "transcript"}) /\ z.wire.out.secret = y.secret
      /\ \A r \in Said(z) : r \in Said(y) \/ r.kind \in {"changeCipherSpec", "finished"}
  BY FinishedSaid DEF Speaks
<1> HIDE DEF z
<1>2. z.session = y.session
  BY <1>1 DEF SameBut, EndFields
<1>3. \A r \in Said(z) : r \in Said(x) \/ ClientSays(r, x.session, n)
  BY <1>1 DEF Speaks, ClientSays
<1> QED
  BY <1>1, <1>2, <1>3 DEF Speaks, z

\* change its state
LEMMA SpeaksSame ==
    ASSUME NEW x, NEW n, NEW y, Speaks(y, x, n), NEW z, DOMAIN z = EndFields,
           z.wire = y.wire, z.session = y.session
    PROVE  Speaks(z, x, n)
BY DEF Speaks, IsEnd, Said

\* and its transcript.
LEMMA SpeaksRecord ==
    ASSUME NEW x, NEW n, NEW y, Speaks(y, x, n), NEW kind
    PROVE  Speaks(Record(y, kind), x, n) /\ SameBut(Record(y, kind), y, {"transcript"})
<1> DEFINE z == Record(y, kind)
<1>1. IsEnd(z) /\ SameBut(z, y, {"transcript"})
  BY RecordEnd DEF Speaks
<1> HIDE DEF z
<1>2. z.session = y.session /\ z.wire = y.wire /\ DOMAIN z = EndFields
  BY <1>1 DEF SameBut, EndFields, IsEnd
<1> QED
  BY <1>1, <1>2, SpeaksSame DEF z

\* A client may always fail.
LEMMA FailedContinued ==
    ASSUME NEW x, NEW p, NEW n, NEW y, Speaks(y, x, n), NEW alert
    PROVE  Continued(Failed(y, alert), x, p, n)
<1> DEFINE z == Failed(y, alert)
<1>1. /\ IsEnd(z) /\ SameBut(z, y, {"wire", "pc"}) /\ z.pc = "failed"
      /\ \A r \in Said(z) : r \in Said(y) \/ r.kind \in {"alert", "eof"}
  BY FailedEnd DEF Speaks
<1> HIDE DEF z
<1>2. z.session = y.session
  BY <1>1 DEF SameBut, EndFields
<1>3. \A r \in Said(z) : r \in Said(x) \/ ClientSays(r, x.session, n)
  BY <1>1 DEF Speaks, ClientSays
<1>4. Continued(z, x, p, n)
  BY <1>1, <1>2, <1>3 DEF Speaks, Continued
<1> QED
  BY <1>4 DEF z

\* What the client reads is true of the server.
LEMMA FromServer ==
    ASSUME HandshakeInv, NEW pc, Receives(c, s, pc), pc \notin {"failed", "done"}
    PROVE  /\ c.pc = pc /\ s.wire.sent # <<>> /\ Kind(s) \in Reads[pc]
           /\ ServerSays(Head(s.wire.sent), s, c.session, Now)
           /\ Speaks(c, c, Now) /\ IsEnd(c) /\ ClientState(c, s, Now)
           /\ SoundSession(c.session, Now)
           /\ c.session # None /\ ~ccfg.skipVerify => c.session.verified
           /\ ccfg \in ClientConfigs
<1>1. IsEnd(s) /\ s.wire.sent # <<>> /\ c.pc = pc
  BY DEF HandshakeInv, ServerInv, Receives
<1>2. Head(s.wire.sent) \in Said(s)
  BY <1>1, TakenEnd
<1>3. ClientInv(c, s, Now) /\ ServerInv(s, c.session, Now) /\ ccfg \in ClientConfigs
  BY DEF HandshakeInv
<1>4. c.session # None /\ ~ccfg.skipVerify => c.session.verified
  BY <1>3 DEF ClientInv, Now
<1> QED
  BY <1>1, <1>2, <1>3, <1>4 DEF ClientInv, ServerInv, Receives, Kind, Speaks

\* A step of the client to an end that continues.
LEMMA ClientContinues ==
    ASSUME HandshakeInv, NEW e, ClientStep(e), s.wire.sent # <<>>, Continued(e, c, s, Now)
    PROVE  ClientGoes
<1>1. /\ c' = e /\ s' = Taken(s) /\ cache' = Cached(e) /\ UNCHANGED <<ccfg, scfg>>
      /\ founded' = IF e.pc = "done" THEN founded \cup {e.secret} ELSE founded
  BY DEF ClientStep, config
<1>2. cache' \in {cache, None} /\ founded' = founded
  BY <1>1 DEF Continued, Cached
<1> QED
  BY <1>1, <1>2, ClientPreserves DEF Continued, Speaks

\* The hello it sends offers the session it found in its cache, if any.
LEMMA OffersSession ==
    ASSUME HandshakeInv
    PROVE  LET session == loadSession(ccfg) IN
           /\ SoundSession(session, Now)
           /\ session # None /\ ~ccfg.skipVerify => session.verified
           /\ SoundHello(ClientHello(ccfg, session), session, Now)
<1> DEFINE session == loadSession(ccfg)
           h == ClientHello(ccfg, session)
<1>1. SoundSession(cache, Now)
  BY DEF HandshakeInv
<1>2. session = None \/ (session = cache /\ cache # None /\ (ccfg.skipVerify \/ cache.verified))
  BY DEF loadSession
<1> HIDE DEF session
<1>3. SoundSession(session, Now) /\ (session # None /\ ~ccfg.skipVerify => session.verified)
  BY <1>1, <1>2 DEF SoundSession
<1>4. /\ DOMAIN h = HelloFields /\ h.random = "outer" /\ h.ech = ccfg.ech /\ h.versions = ccfg.versions
      /\ h.ems = ccfg.ems
      /\ h.ticket = IF session # None /\ session.version = 12 THEN session.ticket ELSE None
      /\ h.psk = IF session # None /\ session.version = 13
                 THEN [ticket |-> session.ticket, binder |-> Binder(session, <<>>)] ELSE None
  BY DEF ClientHello, HelloFields
<1> HIDE DEF h
<1>5. SoundTicket(None, Now) /\ (session # None => SoundTicket(session.ticket, Now))
  BY <1>3 DEF SoundSession, SoundTicket
<1>6. h.psk # None =>
        /\ session # None /\ session.version = 13
        /\ DOMAIN h.psk = {"ticket", "binder"} /\ SoundTicket(h.psk.ticket, Now)
  BY <1>4, <1>5
<1>7. SoundTicket(h.ticket, Now) /\ (h.ticket # None => session # None)
  BY <1>4, <1>5
<1>8. SoundHello(h, session, Now)
  BY <1>4, <1>6, <1>7 DEF SoundHello, Now
<1> QED
  BY <1>3, <1>8 DEF session, h

\* A server that is sound for a client without a session is so for any.
LEMMA NoSession ==
    ASSUME NEW p, NEW sess, NEW n, ServerInv(p, None, n)
    PROVE  ServerInv(p, sess, n)
<1>1. Answer(p, None, n) => Answer(p, sess, n)
  BY DEF Answer
<1>2. \A r : ServerSays(r, p, None, n) => ServerSays(r, p, sess, n)
  BY <1>1 DEF ServerSays
<1>3. ServerHelloInv(p, None, n) => ServerHelloInv(p, sess, n)
  BY <1>1 DEF ServerHelloInv
<1> QED
  BY <1>2, <1>3 DEF ServerInv, ServerState

\* clientHandshake keeps the invariant.
LEMMA clientHandshakeInv == HandshakeInv /\ clientHandshake => ClientGoes
<1> SUFFICES ASSUME HandshakeInv, clientHandshake PROVE ClientGoes
  OBVIOUS
<1> DEFINE session == loadSession(ccfg)
           hello == ClientHello(ccfg, session)
           m == Msg("clientHello", hello)
           w == Write(c, m)
           share == [group |-> keyShareKey(ccfg), generation |-> 1]
           e == [w EXCEPT !.pc = "serverHello", !.hello = hello, !.session = session, !.share = share]
<1>1. /\ c.pc = "start" /\ c' = e /\ UNCHANGED <<ccfg, scfg, s, founded>> /\ cache' \in {cache, None}
  BY DEF clientHandshake, config
<1>2. /\ SoundSession(session, Now) /\ (session # None /\ ~ccfg.skipVerify => session.verified)
      /\ SoundHello(hello, session, Now)
  BY OffersSession
<1>3. m.kind = "clientHello" /\ m.body = hello
  BY DEF Msg
<1>4. ClientInv(c, s, Now) /\ IsEnd(c) /\ ClientState(c, s, Now)
  BY <1>1 DEF HandshakeInv, ClientInv
<1>5. /\ c.session = None /\ c.base = None /\ c.ems = FALSE /\ c.ticket = None /\ c.verified = FALSE /\ c.flight = 0
  BY <1>1, <1>4 DEF ClientState, ClientSecret, ClientCert, Opening
<1> HIDE DEF session, hello, m, share
<1>6. /\ IsEnd(w) /\ SameBut(w, c, {"wire"})
      /\ \A r \in Said(w) : r \in Said(c) \/ (r.kind = "clientHello" /\ r.body = hello)
  BY <1>3, <1>4, WriteEnd
<1> HIDE DEF w
<1>7. /\ IsEnd(e) /\ e.wire = w.wire /\ SameBut(e, w, {"pc", "hello", "session", "share"})
      /\ e.pc = "serverHello" /\ e.hello = hello /\ e.session = session
  BY <1>6 DEF IsEnd, EndFields, SameBut
<1> HIDE DEF e
<1>8. e.base = None /\ e.ems = FALSE /\ e.ticket = None /\ e.verified = FALSE /\ e.flight = 0
  BY <1>5, <1>6, <1>7 DEF SameBut, EndFields
<1>9. ClientState(e, s, Now)
  <2>1. ClientCert(e, Now)
    BY <1>7, <1>8 DEF ClientCert, Opening, Keyed12
  <2>2. ClientKnows(e, s, Now)
    BY <1>7 DEF ClientKnows, Certs12, Keyed12, Reading13
  <2>3. ClientSecret(e, s, Now)
    BY <1>2, <1>7, <1>8 DEF ClientSecret, Opening, Certs12, Keyed12, Reading13
  <2> QED
    BY <1>7, <2>1, <2>2, <2>3 DEF ClientState, Opening
<1>10. \A r \in Said(e) : ClientSays(r, session, Now)
  <2> SUFFICES ASSUME NEW r \in Said(e) PROVE ClientSays(r, session, Now)
    OBVIOUS
  <2>1. r \in Said(w)
    BY <1>7 DEF Said
  <2>2. CASE r \in Said(c)
    <3>1. ClientSays(r, None, Now)
      BY <1>4, <1>5, <2>2 DEF ClientInv
    <3> QED
      BY <3>1 DEF ClientSays, SoundHello
  <2>3. CASE r.kind = "clientHello" /\ r.body = hello
    BY <2>3, <1>2 DEF ClientSays
  <2> QED
    BY <1>6, <2>1, <2>2, <2>3
<1>11. ClientInv(e, s, Now)
  BY <1>2, <1>7, <1>9, <1>10 DEF ClientInv, Now
<1>12. ServerInv(s, e.session, Now)
  BY <1>5, NoSession DEF HandshakeInv
<1>13. SoundSession(cache', Now)
  BY <1>1 DEF HandshakeInv, SoundSession
<1>14. Now' = Now
  BY <1>1 DEF Now
<1>15. ClientInv(c, s, Now)' /\ ServerInv(s, c.session, Now)' /\ SoundSession(cache, Now)'
  BY <1>1, <1>11, <1>12, <1>13, <1>14
<1> QED
  BY <1>1, <1>7, <1>15 DEF HandshakeInv, ClientGoes
\* The client before it has read a ServerHello.
LEMMA OpeningState ==
    ASSUME NEW e, NEW p, NEW n, ClientState(e, p, n), e.pc \in {"serverHello", "serverHello2"}
    PROVE  /\ e.base = None /\ e.ems = FALSE /\ e.ticket = None /\ e.verified = FALSE /\ e.flight = 0
           /\ SoundHello(e.hello, e.session, n)
BY DEF ClientState, ClientCert, ClientSecret, Opening

\* readSessionTicket, with all but the ticket settled.
LEMMA TicketNext ==
    ASSUME NEW x, NEW p, NEW n, NEW e, Speaks(e, x, n),
           Answer(p, x.session, n), e.serverHello = p.serverHello, e.vers = p.vers, e.suite = p.suite,
           e.vers = 12, n.client.ech = 0, e.alpn = e.serverHello.alpn,
           e.verified \in BOOLEAN, e.verified => e.peerCert = "good", ~n.client.skipVerify => e.verified,
           e.ems = e.serverHello.ems, e.base \in n.founded \cup {None},
           e.base = IF serverResumedSession(e) THEN e.secret ELSE None,
           ~serverResumedSession(e) => e.wire.out.secret = e.secret,
           e.pending.secret = e.secret, e.ticket = None
    PROVE  Continued(readSessionTicket(e), x, p, n)
<1>1. ASSUME NEW pc, pc \in {"changeCipherSpec", "ticket12"}
      PROVE  Continued([e EXCEPT !.pc = pc], x, p, n)
  <2> DEFINE z == [e EXCEPT !.pc = pc]
  <2>1. DOMAIN z = EndFields /\ SameBut(z, e, {"pc"}) /\ z.pc = pc
    BY DEF Speaks, IsEnd, EndFields, SameBut
  <2> HIDE DEF z
  <2>2. /\ z.serverHello = e.serverHello /\ z.vers = e.vers /\ z.suite = e.suite /\ z.alpn = e.alpn
        /\ z.verified = e.verified /\ z.peerCert = e.peerCert /\ z.ems = e.ems /\ z.base = e.base
        /\ z.secret = e.secret /\ z.pending = e.pending /\ z.ticket = e.ticket /\ z.wire = e.wire
        /\ z.session = e.session
    BY <2>1 DEF SameBut, EndFields
  <2>3. Speaks(z, x, n) /\ z.session = x.session
    BY <2>1, <2>2, SpeaksSame DEF Speaks
  <2>4. z.pc \in Keyed12 /\ z.pc \notin Opening \cup Certs12 \cup Reading13 \cup {"done", "failed", "finished12"}
    BY <1>1, <2>1 DEF Keyed12, Opening, Certs12, Reading13
  <2>5. ClientCert(z, n)
    BY <2>2, <2>4 DEF ClientCert, Certs12, Reading13
  <2>6. ClientKnows(z, p, n)
    BY <2>2, <2>3, <2>4 DEF ClientKnows, Opening
  <2>7. ClientSecret(z, p, n)
    BY <2>2, <2>4 DEF ClientSecret, Opening, serverResumedSession, Answer
  <2>8. Continued(z, x, p, n)
    BY <2>3, <2>4, <2>5, <2>6, <2>7 DEF Continued, ClientState
  <2> QED
    BY <2>8 DEF z
<1>2. readSessionTicket(e) \in {[e EXCEPT !.pc = "changeCipherSpec"], [e EXCEPT !.pc = "ticket12"],
                                Failed(e, "illegal_parameter")}
  BY DEF readSessionTicket
<1>3. Continued(Failed(e, "illegal_parameter"), x, p, n)
  BY FailedContinued
<1> QED
  BY <1>1, <1>2, <1>3

\* The client at a ServerHello of TLS 1.2.
LEMMA Reads12 ==
    ASSUME HandshakeInv, Receives(c, s, "serverHello"), Kind(s) = "serverHello",
           Body(s).vers = 12, 12 \in AcceptedVersions
    PROVE  Continued(ClientHandshake12(c, Body(s)), c, s, Now)
<1> DEFINE hello == Body(s)
           state == c.session
           x0 == [c EXCEPT !.vers = 12, !.suite = hello.suite, !.alpn = hello.alpn, !.serverHello = hello,
                           !.transcript = <<"clientHello", "serverHello">>]
           x == Buffer(x0)
           y == [x EXCEPT !.secret = state.secret, !.base = state.base, !.ems = state.ems,
                          !.peerCert = state.peerCert, !.verified = state.verified]
           v == [y EXCEPT !.pending = Key12("server", y)]
           z == [x EXCEPT !.pc = "certificate12"]
<1>1. /\ c.pc = "serverHello" /\ ServerSays(Head(s.wire.sent), s, c.session, Now)
      /\ Speaks(c, c, Now) /\ IsEnd(c) /\ ClientState(c, s, Now) /\ SoundSession(c.session, Now)
      /\ c.session # None /\ ~ccfg.skipVerify => c.session.verified
  BY FromServer
<1>2. hello = s.serverHello /\ Answer(s, c.session, Now)
  BY <1>1 DEF ServerSays, Kind, Body
<1>3. s.vers = 12 /\ s.suite = hello.suite /\ hello.ems \in BOOLEAN
  BY <1>2 DEF Answer
<1>4. ccfg.ech = 0 /\ Now.client = ccfg
  BY DEF AcceptedVersions, Now
<1>5. c.base = None /\ c.ems = FALSE /\ c.ticket = None /\ c.verified = FALSE /\ c.flight = 0
  BY <1>1, OpeningState
<1>6. \/ \E alert : ClientHandshake12(c, hello) = Failed(c, alert)
      \/ ~serverResumedSession(x) /\ ClientHandshake12(c, hello) = z
      \/ /\ serverResumedSession(x) /\ state.version = 12 /\ state.ems = hello.ems
         /\ ClientHandshake12(c, hello) = readSessionTicket(v)
  BY DEF ClientHandshake12
<1> HIDE DEF hello
<1>7. /\ DOMAIN x0 = EndFields /\ SameBut(x0, c, {"vers", "suite", "alpn", "serverHello", "transcript"})
      /\ x0.vers = 12 /\ x0.suite = hello.suite /\ x0.alpn = hello.alpn /\ x0.serverHello = hello
  BY <1>1 DEF IsEnd, EndFields, SameBut
<1> HIDE DEF x0
<1>8. Speaks(x0, c, Now)
  BY <1>1, <1>7, SpeaksSame DEF SameBut, EndFields
<1>9. Speaks(x, c, Now) /\ SameBut(x, x0, {"wire"})
  BY <1>8, SpeaksBuffer
<1> HIDE DEF x
<1>10. /\ x.vers = 12 /\ x.suite = hello.suite /\ x.alpn = hello.alpn /\ x.serverHello = hello
       /\ x.base = None /\ x.ems = FALSE /\ x.ticket = None /\ x.verified = FALSE /\ x.flight = 0
       /\ x.session = state /\ DOMAIN x = EndFields
  BY <1>5, <1>7, <1>9 DEF SameBut, EndFields, Speaks, IsEnd
<1>11. CASE \E alert : ClientHandshake12(c, hello) = Failed(c, alert)
  BY <1>1, <1>11, FailedContinued DEF hello
<1>12. CASE ~serverResumedSession(x) /\ ClientHandshake12(c, hello) = z
  <2>1. DOMAIN z = EndFields /\ SameBut(z, x, {"pc"}) /\ z.pc = "certificate12"
    BY <1>10 DEF EndFields, SameBut
  <2> HIDE DEF z
  <2>2. /\ z.vers = 12 /\ z.suite = hello.suite /\ z.alpn = hello.alpn /\ z.serverHello = hello
        /\ z.base = None /\ z.ems = FALSE /\ z.ticket = None /\ z.verified = FALSE /\ z.flight = 0
        /\ z.session = state /\ z.wire = x.wire
    BY <1>10, <2>1 DEF SameBut, EndFields
  <2>3. Speaks(z, c, Now)
    BY <1>9, <1>10, <2>1, <2>2, SpeaksSame
  <2>4. ~serverResumedSession(z)
    BY <1>10, <1>12, <2>2 DEF serverResumedSession
  <2>5. ClientCert(z, Now)
    BY <2>1, <2>2 DEF ClientCert, Opening, Keyed12
  <2>6. ClientKnows(z, s, Now)
    BY <1>2, <1>3, <1>4, <2>1, <2>2 DEF ClientKnows, Opening, Certs12, Reading13
  <2>7. ClientSecret(z, s, Now)
    BY <2>1, <2>2, <2>4 DEF ClientSecret, Opening, Keyed12, Reading13
  <2>8. Continued(z, c, s, Now)
    BY <2>1, <2>3, <2>5, <2>6, <2>7 DEF Continued, ClientState, Certs12
  <2> QED
    BY <1>12, <2>8 DEF hello
<1>13. CASE /\ serverResumedSession(x) /\ state.version = 12 /\ state.ems = hello.ems
            /\ ClientHandshake12(c, hello) = readSessionTicket(v)
  <2>1. state # None
    BY <1>10, <1>13 DEF serverResumedSession
  <2>2. /\ state.verified \in BOOLEAN /\ (state.verified => state.peerCert = "good")
        /\ state.base = state.secret /\ state.base \in Now.founded /\ (~ccfg.skipVerify => state.verified)
    BY <1>1, <1>13, <2>1 DEF SoundSession, Sound
  <2>3. /\ DOMAIN y = EndFields /\ SameBut(y, x, {"secret", "base", "ems", "peerCert", "verified"})
        /\ y.secret = state.secret /\ y.base = state.base /\ y.ems = state.ems
        /\ y.peerCert = state.peerCert /\ y.verified = state.verified
    BY <1>10 DEF EndFields, SameBut
  <2> HIDE DEF y
  <2>4. Key12("server", y).secret = state.secret
    BY <2>3 DEF Key12
  <2>5. DOMAIN v = EndFields /\ SameBut(v, y, {"pending"}) /\ v.pending.secret = state.secret
    BY <2>3, <2>4 DEF EndFields, SameBut
  <2> HIDE DEF v
  <2>6. /\ v.vers = 12 /\ v.suite = hello.suite /\ v.alpn = hello.alpn /\ v.serverHello = hello
        /\ v.secret = state.secret /\ v.base = state.base /\ v.ems = state.ems
        /\ v.peerCert = state.peerCert /\ v.verified = state.verified /\ v.ticket = None
        /\ v.session = state /\ v.wire = x.wire
    BY <1>10, <2>3, <2>5 DEF SameBut, EndFields
  <2>7. Speaks(v, c, Now)
    BY <1>9, <1>10, <2>5, <2>6, SpeaksSame
  <2>8. serverResumedSession(v)
    BY <1>10, <1>13, <2>6 DEF serverResumedSession
  <2>9. Continued(readSessionTicket(v), c, s, Now)
    BY <1>2, <1>3, <1>4, <1>13, <2>2, <2>5, <2>6, <2>7, <2>8, TicketNext
  <2> QED
    BY <1>13, <2>9 DEF hello
<1> QED
  BY <1>6, <1>11, <1>12, <1>13 DEF hello

\* A client of TLS 1.3 that has read a ServerHello, but not yet checked it.
Heard13(e) ==
    /\ Speaks(e, c, Now)
    /\ e.base = None /\ e.ems = FALSE /\ e.ticket = None /\ e.verified = FALSE
    /\ SoundHello(e.hello, e.session, Now)
    /\ e.vers = 13 /\ e.suite = s.suite /\ s.vers = 13
    /\ IsSeq(e.inner) /\ (ccfg.ech # 0 => e.inner # <<>>)

\* The client at a ServerHello of TLS 1.3,
LEMMA ServerHello13 ==
    ASSUME NEW e, Heard13(e), SoundSession(c.session, Now),
           c.session # None /\ ~ccfg.skipVerify => c.session.verified,
           e.serverHello = s.serverHello, Answer(s, c.session, Now)
    PROVE  Continued(processServerHello13(e), c, s, Now)
<1> DEFINE hello == e.serverHello
           accepted == e.inner # <<>> /\ hello.ech = Append(e.inner, "serverHello")
           hi == IF accepted THEN InnerHello(e.hello) ELSE e.hello
           tr == IF accepted THEN e.inner ELSE e.transcript
           rejected == e.inner # <<>> /\ ~accepted
           b == Buffer(e)
           b1 == [b EXCEPT !.hello = hi, !.transcript = tr, !.echRejected = rejected]
           x == Record(b1, "serverHello")
           y == [x EXCEPT !.secret = masterSecret13(IF hello.psk THEN e.session.secret ELSE None,
                                                    [group |-> hello.share, generation |-> e.share.generation])]
           z == IF hello.psk
                THEN [y EXCEPT !.base = e.session.base, !.peerCert = e.session.peerCert,
                               !.verified = e.session.verified]
                ELSE y
           v == [z EXCEPT !.in = Key("server", "handshake", z), !.wire.out = Key("client", "handshake", z),
                          !.pc = "encryptedExtensions"]
<1>1. Speaks(b, c, Now) /\ SameBut(b, e, {"wire"})
  BY SpeaksBuffer DEF Heard13
<1>2. b.hello = e.hello /\ b.transcript = e.transcript
  BY <1>1 DEF SameBut, EndFields
<1>3. \/ \E alert : processServerHello13(e) = Failed(x, alert)
      \/ (hello.psk => x.hello.psk # None) /\ processServerHello13(e) = v
  BY <1>2, ZenonT(40) DEF processServerHello13
<1>4. accepted => s.hello.random = "inner"
  <2>1. Append(e.inner, "serverHello") # <<>>
    BY AppendProperties DEF Heard13, IsSeq
  <2> QED
    BY <2>1 DEF Answer
<1>5. ccfg.ech # 0 /\ ~rejected => s.hello.random = "inner"
  BY <1>4 DEF Heard13
<1>6. accepted => hi.psk = None
  BY DEF InnerHello, Heard13, SoundHello, HelloFields
<1>7. hello.psk \in BOOLEAN
  BY DEF Answer
<1> HIDE DEF b
<1>8. /\ DOMAIN b1 = EndFields /\ SameBut(b1, b, {"hello", "transcript", "echRejected"})
      /\ b1.hello = hi /\ b1.echRejected = rejected
  BY <1>1 DEF Speaks, IsEnd, EndFields, SameBut
<1> HIDE DEF b1, hi, tr, rejected, accepted
<1>9. Speaks(b1, c, Now)
  BY <1>1, <1>8, SpeaksSame DEF SameBut, EndFields
<1>10. Speaks(x, c, Now) /\ SameBut(x, b1, {"transcript"})
  BY <1>9, SpeaksRecord
<1> HIDE DEF x
<1>11. /\ x.hello = hi /\ x.echRejected = rejected /\ x.base = None /\ x.ems = FALSE /\ x.ticket = None
       /\ x.verified = FALSE /\ x.vers = 13 /\ x.suite = s.suite /\ x.serverHello = hello
       /\ x.session = e.session /\ x.session = c.session /\ DOMAIN x = EndFields
  BY <1>1, <1>8, <1>10 DEF SameBut, EndFields, Heard13, Speaks, IsEnd
<1>12. CASE \E alert : processServerHello13(e) = Failed(x, alert)
  BY <1>10, <1>12, FailedContinued
<1>13. CASE (hello.psk => x.hello.psk # None) /\ processServerHello13(e) = v
  <2>1. hello.psk => e.session # None /\ e.session.version = 13
    BY <1>6, <1>11, <1>13 DEF Heard13, SoundHello, hi
  <2> DEFINE early == IF hello.psk THEN e.session.secret ELSE None
  <2>2. /\ DOMAIN y = EndFields /\ SameBut(y, x, {"secret"}) /\ y.secret = BaseOf(y.secret)
        /\ y.secret.early = early
    BY <1>11 DEF EndFields, SameBut, masterSecret13, BaseOf
  <2> HIDE DEF y
  <2>3. /\ DOMAIN z = EndFields /\ SameBut(z, y, {"base", "peerCert", "verified"})
        /\ hello.psk => /\ z.base = e.session.base /\ z.peerCert = e.session.peerCert
                        /\ z.verified = e.session.verified
        /\ ~hello.psk => z.base = y.base /\ z.verified = y.verified
    <3>1. CASE hello.psk
      BY <2>2, <3>1 DEF EndFields, SameBut
    <3>2. CASE ~hello.psk
      BY <2>2, <3>2 DEF SameBut
    <3> QED
      BY <3>1, <3>2
  <2> HIDE DEF z
  <2>4. /\ z.wire = x.wire /\ z.session = x.session /\ z.secret = y.secret /\ z.ems = FALSE /\ z.ticket = None
        /\ z.vers = 13 /\ z.suite = s.suite /\ z.serverHello = hello /\ z.echRejected = rejected
        /\ ~hello.psk => z.base = None /\ z.verified = FALSE
    BY <1>11, <2>2, <2>3 DEF SameBut, EndFields
  <2>5. /\ z.verified \in BOOLEAN /\ (z.verified => z.peerCert = "good")
        /\ z.base \in Now.founded \cup {None}
        /\ hello.psk => z.base = BaseOf(early) /\ (~ccfg.skipVerify => z.verified)
    <3>1. CASE hello.psk
      BY <1>11, <2>1, <2>3, <3>1 DEF SoundSession, Sound
    <3>2. CASE ~hello.psk
      BY <2>4, <3>2
    <3> QED
      BY <3>1, <3>2
  <2>6. Key("server", "handshake", z).secret = z.secret
    BY DEF Key
  <2>7. /\ DOMAIN v = EndFields /\ SameBut(v, z, {"in", "wire", "pc"}) /\ v.pc = "encryptedExtensions"
        /\ v.in.secret = z.secret /\ v.wire = [z.wire EXCEPT !.out = Key("client", "handshake", z)]
    BY <2>3, <2>6 DEF EndFields, SameBut
  <2> HIDE DEF v
  <2>8. IsWire(v.wire) /\ v.wire.sent = x.wire.sent /\ v.wire.buf = x.wire.buf
    BY <1>10, <2>4, <2>7 DEF Speaks, IsEnd, IsWire, WireFields
  <2>9. /\ v.session = x.session /\ v.secret = y.secret /\ v.ems = FALSE /\ v.ticket = None
        /\ v.vers = 13 /\ v.suite = s.suite /\ v.serverHello = hello /\ v.echRejected = rejected
        /\ v.verified = z.verified /\ v.peerCert = z.peerCert /\ v.base = z.base
    BY <2>4, <2>7 DEF SameBut, EndFields
  <2>10. Speaks(v, c, Now)
    BY <1>10, <2>7, <2>8, <2>9 DEF Speaks, IsEnd, Said
  <2>11. ClientCert(v, Now)
    BY <2>5, <2>7, <2>9 DEF ClientCert, Opening, Keyed12, Now
  <2>12. ClientKnows(v, s, Now)
    BY <1>5, <1>11, <2>7, <2>9 DEF ClientKnows, Opening, Certs12, Keyed12, Reading13, Heard13, Now
  <2>13. Continues13(v)
    BY <1>7, <2>2, <2>4, <2>5, <2>9 DEF Continues13
  <2>14. ClientSecret(v, s, Now)
    BY <2>2, <2>4, <2>5, <2>7, <2>9, <2>13 DEF ClientSecret, Opening, Certs12, Keyed12, Reading13
  <2>15. Continued(v, c, s, Now)
    BY <2>7, <2>10, <2>11, <2>12, <2>14 DEF Continued, ClientState, Reading13
  <2> QED
    BY <1>13, <2>15
<1> QED
  BY <1>3, <1>12, <1>13

\* The second hello is one of this client too.
LEMMA RetriedHello ==
    ASSUME NEW h, NEW sess, NEW n, SoundHello(h, sess, n), NEW shares, NEW psk,
           psk = None \/ (h.psk # None /\ psk = h.psk)
             \/ (h.psk # None /\ DOMAIN psk = {"ticket", "binder"} /\ psk.ticket = h.psk.ticket)
    PROVE  SoundHello([h EXCEPT !.shares = shares, !.generation = 2, !.psk = psk], sess, n)
<1> DEFINE g == [h EXCEPT !.shares = shares, !.generation = 2, !.psk = psk]
<1>1. /\ DOMAIN g = HelloFields /\ g.random = h.random /\ g.ech = h.ech /\ g.versions = h.versions
      /\ g.ems = h.ems /\ g.ticket = h.ticket /\ g.psk = psk
  BY DEF SoundHello, HelloFields
<1> HIDE DEF g
<1>2. SoundHello(g, sess, n)
  BY <1>1 DEF SoundHello
<1> QED
  BY <1>2 DEF g

\* What the client keeps of its inner hello for the second one.
RetriedInner(inner, accepted) ==
    IF inner = <<>> THEN <<>>
    ELSE MessageHash("innerHello") \o <<"helloRetryRequest">> \o (IF accepted THEN <<"innerHello">> ELSE <<>>)

\* A sequence of one element.
LEMMA OneSeq ==
    ASSUME NEW x
    PROVE  IsSeq(<<x>>) /\ <<x>> # <<>>
<1>1. <<x>> \in Seq({x})
  OBVIOUS
<1>2. <<x>> # <<>>
  OBVIOUS
<1> QED
  BY <1>1, <1>2, SeqOfItself

\* A concatenation that begins with a sequence that is not empty.
LEMMA LongerSeq ==
    ASSUME NEW q, IsSeq(q), q # <<>>, NEW w, IsSeq(w)
    PROVE  IsSeq(q \o w) /\ q \o w # <<>>
<1> DEFINE S == ToSet(q) \cup ToSet(w)
<1>1. q \in Seq(S) /\ w \in Seq(S)
  BY SeqMonotonic DEF IsSeq
<1>2. q \o w \in Seq(S) /\ q \o w # <<>>
  BY <1>1, ConcatProperties, ConcatEmptySeq, EmptySeq
<1> QED
  BY <1>2, SeqOfItself

\* It is not empty, if there was one.
LEMMA RetriedInnerSeq ==
    ASSUME NEW inner, NEW accepted
    PROVE  IsSeq(RetriedInner(inner, accepted)) /\ (inner # <<>> => RetriedInner(inner, accepted) # <<>>)
<1> DEFINE a == <<"hashOfInnerHello">>
           b == <<"helloRetryRequest">>
           d == IF accepted THEN <<"innerHello">> ELSE <<>>
<1>1. IsSeq(a) /\ a # <<>> /\ IsSeq(b) /\ IsSeq(d)
  BY OneSeq, EmptySeqs
<1>2. MessageHash("innerHello") = a
  BY DEF MessageHash
<1>3. RetriedInner(inner, accepted) = IF inner = <<>> THEN <<>> ELSE (a \o b) \o d
  BY <1>2 DEF RetriedInner
<1> HIDE DEF a, b, d
<1>4. IsSeq((a \o b) \o d) /\ (a \o b) \o d # <<>>
  BY <1>1, LongerSeq
<1> QED
  BY <1>3, <1>4, EmptySeqs

\* and at a HelloRetryRequest.
LEMMA HelloRetry13 ==
    ASSUME NEW e, Heard13(e), e.flight = 0, s.pc \in Answered \cup {"clientHello2"}
    PROVE  Continued(processHelloRetryRequest(e), c, s, Now)
<1> DEFINE hello == e.serverHello
           accepted == e.inner # <<>> /\ hello.ech = MessageHash("innerHello")
           transcript == Append(MessageHash("clientHello"), "helloRetryRequest")
           psk == IF e.hello.psk = None THEN None
                  ELSE IF Hash[e.session.suite] # Hash[e.suite] THEN None
                  ELSE [e.hello.psk EXCEPT !.binder = Binder(e.session, transcript)]
           shares == <<hello.group>>
           retried == [e.hello EXCEPT !.shares = shares, !.generation = 2, !.psk = psk]
           stale == [e.hello EXCEPT !.shares = shares, !.generation = 2, !.psk = e.hello.psk]
           inner == RetriedInner(e.inner, accepted)
           share == [group |-> hello.group, generation |-> 2]
           x == [e EXCEPT !.transcript = transcript, !.inner = inner, !.hello = retried, !.share = share]
           body == IF ccfg.golang THEN retried ELSE IF accepted THEN e.hello ELSE stale
           y == WriteRecorded(x, "clientHello", body)
           z == [y EXCEPT !.pc = "serverHello2"]
<1>1. DOMAIN e.hello = HelloFields /\ SoundHello(e.hello, c.session, Now) /\ Speaks(e, c, Now)
  BY DEF Heard13, SoundHello, Speaks
<1>2. [retried EXCEPT !.psk = e.hello.psk] = stale
  BY <1>1 DEF HelloFields
<1>3. SoundHello(retried, c.session, Now)
  <2>1. e.hello.psk # None => DOMAIN e.hello.psk = {"ticket", "binder"}
    BY <1>1 DEF SoundHello
  <2>2. psk = None \/ (e.hello.psk # None /\ DOMAIN psk = {"ticket", "binder"} /\ psk.ticket = e.hello.psk.ticket)
    BY <2>1
  <2> HIDE DEF psk, shares
  <2> QED
    BY <1>1, <2>2, RetriedHello
<1>4. SoundHello(stale, c.session, Now)
  <2> HIDE DEF shares
  <2>1. e.hello.psk = None \/ e.hello.psk # None
    OBVIOUS
  <2> QED
    BY <1>1, <2>1, RetriedHello
<1>5. \/ \E alert : processHelloRetryRequest(e) = Failed(e, alert)
      \/ \E alert : processHelloRetryRequest(e) = Failed(x, alert)
      \/ processHelloRetryRequest(e) = z
  BY <1>2, ZenonT(40) DEF processHelloRetryRequest, RetriedInner
<1>6. SoundHello(body, c.session, Now)
  BY <1>1, <1>3, <1>4
<1>7. IsSeq(inner) /\ (e.inner # <<>> => inner # <<>>)
  BY RetriedInnerSeq
<1> HIDE DEF accepted, transcript, psk, shares, retried, stale, inner, share, body
<1>8. /\ DOMAIN x = EndFields /\ SameBut(x, e, {"transcript", "inner", "hello", "share"})
      /\ x.inner = inner /\ x.hello = retried
  BY <1>1 DEF Speaks, IsEnd, EndFields, SameBut
<1> HIDE DEF x
<1>9. Speaks(x, c, Now)
  BY <1>1, <1>8, SpeaksSame DEF SameBut, EndFields
<1>10. Speaks(y, c, Now) /\ SameBut(y, x, {"wire", "transcript"})
  BY <1>6, <1>9, SpeaksWrite
<1> HIDE DEF y
<1>11. DOMAIN z = EndFields /\ SameBut(z, y, {"pc"}) /\ z.pc = "serverHello2"
  BY <1>10 DEF Speaks, IsEnd, EndFields, SameBut
<1> HIDE DEF z
<1>12. /\ z.base = None /\ z.ems = FALSE /\ z.ticket = None /\ z.verified = FALSE /\ z.flight = 0
       /\ z.vers = 13 /\ z.suite = s.suite /\ z.inner = inner /\ z.hello = retried
       /\ z.wire = y.wire /\ z.session = y.session
  BY <1>8, <1>10, <1>11 DEF SameBut, EndFields, Heard13
<1>13. Speaks(z, c, Now) /\ z.session = c.session
  BY <1>10, <1>11, <1>12, SpeaksSame DEF Speaks
<1>14. ClientCert(z, Now)
  BY <1>11, <1>12 DEF ClientCert, Opening, Keyed12
<1>15. ClientKnows(z, s, Now)
  BY <1>7, <1>11, <1>12 DEF ClientKnows, Certs12, Keyed12, Reading13, Heard13, Now
<1>16. ClientSecret(z, s, Now)
  BY <1>3, <1>11, <1>12, <1>13 DEF ClientSecret, Opening, Certs12, Keyed12, Reading13
<1>17. Continued(z, c, s, Now)
  BY <1>11, <1>13, <1>14, <1>15, <1>16 DEF Continued, ClientState, Opening
<1> QED
  BY <1>1, <1>5, <1>9, <1>17, FailedContinued

\* The client at the first message of a server of TLS 1.3.
LEMMA Reads13 ==
    ASSUME HandshakeInv, Receives(c, s, "serverHello")
    PROVE  Continued(ClientHandshake13(c, Body(s), Kind(s) = "helloRetryRequest"), c, s, Now)
<1> DEFINE hello == Body(s)
           inner == IF ccfg.ech # 0 THEN <<"innerHello">> ELSE <<>>
           tr == <<"clientHello">>
           x == [c EXCEPT !.vers = 13, !.suite = hello.suite, !.serverHello = hello,
                          !.transcript = tr, !.inner = inner]
<1>1. /\ c.pc = "serverHello" /\ ServerSays(Head(s.wire.sent), s, c.session, Now)
      /\ Speaks(c, c, Now) /\ IsEnd(c) /\ ClientState(c, s, Now) /\ SoundSession(c.session, Now)
      /\ c.session # None /\ ~ccfg.skipVerify => c.session.verified
      /\ Kind(s) \in Reads["serverHello"]
  BY FromServer
<1>2. Kind(s) \in {"serverHello", "helloRetryRequest"}
  BY <1>1 DEF Reads
<1>3. /\ c.base = None /\ c.ems = FALSE /\ c.ticket = None /\ c.verified = FALSE /\ c.flight = 0
      /\ SoundHello(c.hello, c.session, Now)
  BY <1>1, OpeningState
<1>4. /\ Kind(s) = "serverHello" => hello = s.serverHello /\ Answer(s, c.session, Now)
      /\ Kind(s) = "helloRetryRequest" =>
           hello.suite = s.suite /\ s.vers = 13 /\ s.pc \in Answered \cup {"clientHello2"}
  BY <1>1 DEF ServerSays, Kind, Body
<1>5. \/ \E alert : ClientHandshake13(c, hello, Kind(s) = "helloRetryRequest") = Failed(c, alert)
      \/ /\ hello.vers = 13
         /\ ClientHandshake13(c, hello, Kind(s) = "helloRetryRequest")
              = IF Kind(s) = "helloRetryRequest" THEN processHelloRetryRequest(x) ELSE processServerHello13(x)
  BY DEF ClientHandshake13, checkServerHelloOrHRR
<1>6. CASE \E alert : ClientHandshake13(c, hello, Kind(s) = "helloRetryRequest") = Failed(c, alert)
  BY <1>1, <1>6, FailedContinued
<1>7. CASE hello.vers = 13 /\ ClientHandshake13(c, hello, Kind(s) = "helloRetryRequest")
              = IF Kind(s) = "helloRetryRequest" THEN processHelloRetryRequest(x) ELSE processServerHello13(x)
  <2>1. hello.suite = s.suite /\ s.vers = 13
    BY <1>2, <1>4, <1>7 DEF Answer
  <2>2. IsSeq(inner) /\ (ccfg.ech # 0 => inner # <<>>)
    BY OneSeq, EmptySeqs
  <2> HIDE DEF hello, inner, tr
  <2>3. /\ DOMAIN x = EndFields /\ SameBut(x, c, {"vers", "suite", "serverHello", "transcript", "inner"})
        /\ x.vers = 13 /\ x.suite = hello.suite /\ x.serverHello = hello /\ x.inner = inner
    BY <1>1 DEF IsEnd, EndFields, SameBut
  <2> HIDE DEF x
  <2>4. /\ x.base = None /\ x.ems = FALSE /\ x.ticket = None /\ x.verified = FALSE /\ x.flight = 0
        /\ x.hello = c.hello /\ x.session = c.session /\ x.wire = c.wire
    BY <1>3, <2>3 DEF SameBut, EndFields
  <2>5. Heard13(x)
    BY <1>1, <1>3, <2>1, <2>2, <2>3, <2>4, SpeaksSame DEF Heard13
  <2>6. CASE Kind(s) = "helloRetryRequest"
    <3>1. Continued(processHelloRetryRequest(x), c, s, Now)
      BY <1>4, <2>4, <2>5, <2>6, HelloRetry13
    <3> QED
      BY <1>7, <2>6, <3>1 DEF hello
  <2>7. CASE Kind(s) # "helloRetryRequest"
    <3>1. Continued(processServerHello13(x), c, s, Now)
      BY <1>1, <1>2, <1>4, <2>3, <2>5, <2>7, ServerHello13
    <3> QED
      BY <1>7, <2>7, <3>1 DEF hello
  <2> QED
    BY <2>6, <2>7
<1> QED
  BY <1>5, <1>6, <1>7

\* readServerHello keeps the invariant.
LEMMA readServerHelloInv == HandshakeInv /\ readServerHello => ClientGoes
<1> SUFFICES ASSUME HandshakeInv, readServerHello PROVE ClientGoes
  OBVIOUS
<1> DEFINE hello == Body(s)
           retry == Kind(s) = "helloRetryRequest"
           e == IF hello.vers \notin AcceptedVersions THEN Failed(c, "protocol_version")
                ELSE IF hello.vers = 12
                     THEN IF 13 \in AcceptedVersions /\ hello.canary THEN Failed(c, "illegal_parameter")
                          ELSE ClientHandshake12(c, hello)
                ELSE ClientHandshake13(c, hello, retry)
<1>1. Receives(c, s, "serverHello") /\ ClientStep(e)
  BY DEF readServerHello
<1>2. /\ c.pc = "serverHello" /\ s.wire.sent # <<>> /\ Kind(s) \in Reads["serverHello"]
      /\ ServerSays(Head(s.wire.sent), s, c.session, Now) /\ Speaks(c, c, Now)
  BY <1>1, FromServer
<1>3. hello.vers = 12 => Kind(s) = "serverHello"
  BY <1>2 DEF ServerSays, Kind, Body, Reads
<1>4. \/ \E alert : e = Failed(c, alert)
      \/ hello.vers = 12 /\ hello.vers \in AcceptedVersions /\ e = ClientHandshake12(c, hello)
      \/ e = ClientHandshake13(c, hello, retry)
  OBVIOUS
<1>5. Continued(e, c, s, Now)
  <2> HIDE DEF e
  <2>1. CASE \E alert : e = Failed(c, alert)
    BY <1>2, <2>1, FailedContinued
  <2>2. CASE hello.vers = 12 /\ hello.vers \in AcceptedVersions /\ e = ClientHandshake12(c, hello)
    BY <1>1, <1>3, <2>2, Reads12
  <2>3. CASE e = ClientHandshake13(c, hello, retry)
    BY <1>1, <2>3, Reads13
  <2> QED
    BY <1>4, <2>1, <2>2, <2>3
<1> QED
  BY <1>1, <1>2, <1>5, ClientContinues

\* readServerHello2 keeps the invariant.
LEMMA readServerHello2Inv == HandshakeInv /\ readServerHello2 => ClientGoes
<1> SUFFICES ASSUME HandshakeInv, readServerHello2 PROVE ClientGoes
  OBVIOUS
<1> DEFINE hello == Body(s)
           x == [c EXCEPT !.serverHello = hello]
           e == IF ~checkServerHelloOrHRR(c, hello) THEN Failed(c, "illegal_parameter")
                ELSE IF Kind(s) = "helloRetryRequest" THEN Failed(c, "unexpected_message")
                ELSE processServerHello13(x)
<1>1. Receives(c, s, "serverHello2") /\ ClientStep(e)
  BY DEF readServerHello2
<1>2. /\ c.pc = "serverHello2" /\ s.wire.sent # <<>> /\ Kind(s) \in Reads["serverHello2"]
      /\ ServerSays(Head(s.wire.sent), s, c.session, Now) /\ Speaks(c, c, Now) /\ IsEnd(c)
      /\ ClientState(c, s, Now) /\ SoundSession(c.session, Now)
      /\ c.session # None /\ ~ccfg.skipVerify => c.session.verified
  BY <1>1, FromServer
<1>3. \/ \E alert : e = Failed(c, alert)
      \/ Kind(s) # "helloRetryRequest" /\ e = processServerHello13(x)
  OBVIOUS
<1>4. CASE \E alert : e = Failed(c, alert)
  <2> HIDE DEF e
  <2>1. Continued(e, c, s, Now)
    BY <1>2, <1>4, FailedContinued
  <2> QED
    BY <1>1, <1>2, <2>1, ClientContinues
<1>5. CASE Kind(s) # "helloRetryRequest" /\ e = processServerHello13(x)
  <2>1. hello = s.serverHello /\ Answer(s, c.session, Now)
    BY <1>2, <1>5 DEF ServerSays, Kind, Body, Reads
  <2>2. /\ c.vers = 13 /\ s.vers = 13 /\ c.suite = s.suite
        /\ IsSeq(c.inner) /\ (ccfg.ech # 0 => c.inner # <<>>)
    BY <1>2 DEF ClientState, ClientKnows, Now
  <2>3. /\ c.base = None /\ c.ems = FALSE /\ c.ticket = None /\ c.verified = FALSE /\ c.flight = 0
        /\ SoundHello(c.hello, c.session, Now)
    BY <1>2, OpeningState
  <2> HIDE DEF hello, e
  <2>4. DOMAIN x = EndFields /\ SameBut(x, c, {"serverHello"}) /\ x.serverHello = hello
    BY <1>2 DEF IsEnd, EndFields, SameBut
  <2> HIDE DEF x
  <2>5. /\ x.base = None /\ x.ems = FALSE /\ x.ticket = None /\ x.verified = FALSE
        /\ x.hello = c.hello /\ x.session = c.session /\ x.wire = c.wire
        /\ x.vers = c.vers /\ x.suite = c.suite /\ x.inner = c.inner
    BY <2>3, <2>4 DEF SameBut, EndFields
  <2>6. Heard13(x)
    BY <1>2, <2>2, <2>3, <2>4, <2>5, SpeaksSame DEF Heard13
  <2>7. Continued(e, c, s, Now)
    BY <1>2, <1>5, <2>1, <2>4, <2>6, ServerHello13
  <2> QED
    BY <1>1, <1>2, <2>7, ClientContinues
<1> QED
  BY <1>3, <1>4, <1>5

-----------------------------------------------------------------------------
(* The client of TLS 1.2 *)

\* readServerCertificate12 keeps the invariant.
LEMMA readServerCertificate12Inv == HandshakeInv /\ readServerCertificate12 => ClientGoes
<1> SUFFICES ASSUME HandshakeInv, readServerCertificate12 PROVE ClientGoes
  OBVIOUS
<1> DEFINE x == Record(c, "certificate")
           cert == IF Body(s) THEN "good" ELSE "unverifiable"
           e == [x EXCEPT !.peerCert = cert, !.pc = "flight12"]
<1>1. Receives(c, s, "certificate12") /\ ClientStep(e)
  BY DEF readServerCertificate12
<1>2. /\ c.pc = "certificate12" /\ s.wire.sent # <<>> /\ Speaks(c, c, Now) /\ ClientState(c, s, Now)
  BY <1>1, FromServer
<1>3. Speaks(x, c, Now) /\ SameBut(x, c, {"transcript"})
  BY <1>2, SpeaksRecord
<1> HIDE DEF x, cert
<1>4. DOMAIN e = EndFields /\ SameBut(e, x, {"peerCert", "pc"}) /\ e.pc = "flight12"
  BY <1>3 DEF Speaks, IsEnd, EndFields, SameBut
<1> HIDE DEF e
<1>5. /\ e.session = c.session /\ e.wire = x.wire /\ e.vers = c.vers /\ e.suite = c.suite /\ e.alpn = c.alpn
      /\ e.serverHello = c.serverHello /\ e.verified = c.verified /\ e.flight = c.flight
      /\ e.ems = c.ems /\ e.base = c.base /\ e.ticket = c.ticket /\ x.session = c.session
  BY <1>3, <1>4 DEF SameBut, EndFields
<1>6. Speaks(e, c, Now)
  BY <1>3, <1>4, <1>5, SpeaksSame
<1>7. ClientCert(e, Now)
  BY <1>2, <1>4, <1>5 DEF ClientState, ClientCert, Opening, Keyed12
<1>8. ClientKnows(e, s, Now)
  BY <1>2, <1>4, <1>5 DEF ClientState, ClientKnows, Opening, Certs12, Keyed12, Reading13
<1>9. ClientSecret(e, s, Now)
  BY <1>2, <1>4, <1>5 DEF ClientState, ClientSecret, Opening, Certs12, Keyed12, Reading13, serverResumedSession
<1>10. Continued(e, c, s, Now)
  BY <1>4, <1>6, <1>7, <1>8, <1>9 DEF Continued, ClientState, Certs12
<1> QED
  BY <1>1, <1>2, <1>10, ClientContinues

\* The client certificate, the key exchange and the Finished.
LEMMA Flight12 ==
    ASSUME NEW e, Speaks(e, c, Now), ccfg \in ClientConfigs,
           Answer(s, c.session, Now), e.serverHello = s.serverHello, e.vers = s.vers, e.suite = s.suite,
           e.vers = 12, ccfg.ech = 0, e.alpn = e.serverHello.alpn,
           e.verified \in BOOLEAN, e.verified => e.peerCert = "good", ~ccfg.skipVerify => e.verified,
           ~serverResumedSession(e), e.base = None, e.ticket = None
    PROVE  Continued(ClientFlight12(e), c, s, Now)
<1> DEFINE x == IF e.certReq THEN WriteRecorded(e, "certificate", ccfg.cert) ELSE e
           y == WriteRecorded(x, "clientKeyExchange", None)
           z == [y EXCEPT !.secret = masterSecret(y, e.serverHello.ems), !.ems = e.serverHello.ems]
           v == IF e.certReq /\ ccfg.cert # "none"
                THEN WriteRecorded(z, "certificateVerify", z.transcript) ELSE z
           u == [v EXCEPT !.pending = Key12("server", v)]
           f == sendFinished12(u, "client")
           g == flush(f)
<1>1. ClientFlight12(e) = readSessionTicket(g)
  BY DEF ClientFlight12
<1>2. ccfg.cert \in {"none", "unverifiable", "good"}
  BY ConfigAssumption DEF ClientConfig
<1>3. Speaks(x, c, Now) /\ SameBut(x, e, {"wire", "transcript"})
  <2>1. CASE e.certReq
    BY <1>2, <2>1, SpeaksWrite
  <2>2. CASE ~e.certReq
    BY <2>2 DEF SameBut
  <2> QED
    BY <2>1, <2>2
<1> HIDE DEF x
<1>4. Speaks(y, c, Now) /\ SameBut(y, x, {"wire", "transcript"})
  BY <1>3, SpeaksWrite
<1> HIDE DEF y
<1>5. /\ DOMAIN z = EndFields /\ SameBut(z, y, {"secret", "ems"}) /\ z.ems = e.serverHello.ems
  BY <1>4 DEF Speaks, IsEnd, EndFields, SameBut
<1> HIDE DEF z
<1>6. Speaks(z, c, Now)
  BY <1>4, <1>5, SpeaksSame DEF SameBut, EndFields
<1>7. Speaks(v, c, Now) /\ SameBut(v, z, {"wire", "transcript"})
  <2>1. CASE e.certReq /\ ccfg.cert # "none"
    BY <1>6, <2>1, SpeaksWrite
  <2>2. CASE ~(e.certReq /\ ccfg.cert # "none")
    BY <1>6, <2>2 DEF SameBut
  <2> QED
    BY <2>1, <2>2
<1> HIDE DEF v
<1>8. Key12("server", v).secret = v.secret
  BY DEF Key12
<1>9. DOMAIN u = EndFields /\ SameBut(u, v, {"pending"}) /\ u.pending.secret = v.secret
  BY <1>7, <1>8 DEF Speaks, IsEnd, EndFields, SameBut
<1> HIDE DEF u
<1>10. Speaks(u, c, Now)
  BY <1>7, <1>9, SpeaksSame DEF SameBut, EndFields
<1>11. Speaks(f, c, Now) /\ SameBut(f, u, {"wire", "transcript"}) /\ f.wire.out.secret = u.secret
  BY <1>10, SpeaksFinished12
<1> HIDE DEF f
<1>12. Speaks(g, c, Now) /\ SameBut(g, f, {"wire"}) /\ g.wire.out = f.wire.out
  BY <1>11, SpeaksFlush
<1> HIDE DEF g
<1>13. /\ g.serverHello = e.serverHello /\ g.vers = e.vers /\ g.suite = e.suite /\ g.alpn = e.alpn
       /\ g.verified = e.verified /\ g.peerCert = e.peerCert /\ g.base = e.base /\ g.ticket = e.ticket
       /\ g.session = e.session
  BY <1>3, <1>4, <1>5, <1>7, <1>9, <1>11, <1>12 DEF SameBut, EndFields
<1>14. /\ g.ems = e.serverHello.ems /\ g.secret = u.secret /\ u.secret = v.secret
       /\ g.pending = u.pending
  BY <1>5, <1>7, <1>9, <1>11, <1>12 DEF SameBut, EndFields
<1>15. ~serverResumedSession(g)
  BY <1>13 DEF serverResumedSession
<1>16. Continued(readSessionTicket(g), c, s, Now)
  BY <1>9, <1>11, <1>12, <1>13, <1>14, <1>15, TicketNext DEF Now
<1> QED
  BY <1>1, <1>16

\* readServerFlight12 keeps the invariant.
LEMMA readServerFlight12Inv == HandshakeInv /\ readServerFlight12 => ClientGoes
<1> SUFFICES ASSUME HandshakeInv, readServerFlight12 PROVE ClientGoes
  OBVIOUS
<1> DEFINE i == CHOOSE k \in DOMAIN FlightOrder : FlightOrder[k] = Kind(s)
           verifies == c.flight <= 1 /\ i > 1
           req == c.certReq \/ Kind(s) = "certificateRequest"
           ver == c.verified \/ (verifies /\ MustVerify(c))
           x0 == Record(c, Kind(s))
           x == [x0 EXCEPT !.flight = i, !.certReq = req, !.verified = ver]
           e == IF i <= c.flight \/ (Kind(s) = "certificateStatus" /\ ~c.serverHello.staple)
                THEN Failed(c, "unexpected_message")
                ELSE IF verifies /\ MustVerify(c) /\ c.peerCert # "good" THEN Failed(c, "bad_certificate")
                ELSE IF Kind(s) = "serverHelloDone" THEN ClientFlight12(x) ELSE x
<1>1. /\ c.pc = "flight12" /\ s.wire.sent # <<>> /\ Speaks(c, c, Now) /\ ClientState(c, s, Now)
      /\ ccfg \in ClientConfigs /\ Kind(s) \in Reads["flight12"]
  BY FromServer DEF readServerFlight12
<1>2. Speaks(x0, c, Now) /\ SameBut(x0, c, {"transcript"})
  BY <1>1, SpeaksRecord
<1>3. x0.certReq = c.certReq /\ x0.verified = c.verified
  BY <1>2 DEF SameBut, EndFields
<1>4. ClientStep(e)
  BY <1>3 DEF readServerFlight12
<1>5. i \in 1..4 /\ (Kind(s) = "serverHelloDone" => i = 4)
  <2>1. DOMAIN FlightOrder = 1..4
    BY DEF FlightOrder
  <2>2. \E k \in 1..4 : FlightOrder[k] = Kind(s)
    <3>1. Kind(s) \in {"certificateStatus", "serverKeyExchange", "certificateRequest", "serverHelloDone"}
      BY <1>1 DEF Reads
    <3>2. /\ FlightOrder[1] = "certificateStatus" /\ FlightOrder[2] = "serverKeyExchange"
          /\ FlightOrder[3] = "certificateRequest" /\ FlightOrder[4] = "serverHelloDone"
      BY DEF FlightOrder
    <3> QED
      BY <3>1, <3>2
  <2>3. i \in 1..4 /\ FlightOrder[i] = Kind(s)
    BY <2>1, <2>2
  <2> HIDE DEF i
  <2>4. i = 1 \/ i = 2 \/ i = 3 \/ i = 4
    BY <2>3
  <2> QED
    BY <2>3, <2>4 DEF FlightOrder
<1> HIDE DEF i
<1>6. /\ c.flight \in Nat /\ c.verified \in BOOLEAN /\ (c.verified => c.peerCert = "good")
      /\ (~ccfg.skipVerify /\ c.flight > 1 => c.verified)
  BY <1>1 DEF ClientState, ClientCert, Now
<1>7. /\ Answer(s, c.session, Now) /\ c.serverHello = s.serverHello /\ c.vers = s.vers /\ c.suite = s.suite
      /\ c.vers = 12 /\ ccfg.ech = 0 /\ c.alpn = c.serverHello.alpn
  BY <1>1 DEF ClientState, ClientKnows, Certs12, Now
<1>8. /\ ~serverResumedSession(c) /\ c.base = None /\ c.ticket = None /\ c.ems \in BOOLEAN
  BY <1>1 DEF ClientState, ClientSecret, Certs12
<1>9. \/ \E alert : e = Failed(c, alert)
      \/ /\ ~(i <= c.flight) /\ ~(verifies /\ MustVerify(c) /\ c.peerCert # "good")
         /\ \/ Kind(s) = "serverHelloDone" /\ e = ClientFlight12(x)
            \/ e = x
  OBVIOUS
<1>10. CASE \E alert : e = Failed(c, alert)
  <2> HIDE DEF e
  <2>1. Continued(e, c, s, Now)
    BY <1>1, <1>10, FailedContinued
  <2> QED
    BY <1>1, <1>4, <2>1, ClientContinues
<1>11. CASE /\ ~(i <= c.flight) /\ ~(verifies /\ MustVerify(c) /\ c.peerCert # "good")
            /\ \/ Kind(s) = "serverHelloDone" /\ e = ClientFlight12(x)
               \/ e = x
  <2>1. ver \in BOOLEAN /\ (ver => c.peerCert = "good")
    BY <1>6, <1>11
  <2>2. ~ccfg.skipVerify /\ i > 1 => ver
    BY <1>5, <1>6, <1>11 DEF MustVerify
  <2> HIDE DEF ver, req, verifies, x0, e
  <2>3. DOMAIN x = EndFields /\ SameBut(x, x0, {"flight", "certReq", "verified"}) /\ x.flight = i /\ x.verified = ver
    BY <1>2 DEF Speaks, IsEnd, EndFields, SameBut
  <2> HIDE DEF x
  <2>4. /\ x.session = c.session /\ x.wire = x0.wire /\ x.vers = c.vers /\ x.suite = c.suite /\ x.alpn = c.alpn
        /\ x.serverHello = c.serverHello /\ x.peerCert = c.peerCert /\ x.pc = c.pc
        /\ x.ems = c.ems /\ x.base = c.base /\ x.ticket = c.ticket /\ x0.session = c.session
    BY <1>2, <2>3 DEF SameBut, EndFields
  <2>5. Speaks(x, c, Now)
    BY <1>2, <2>3, <2>4, SpeaksSame
  <2>6. ~serverResumedSession(x)
    BY <1>8, <2>4 DEF serverResumedSession
  <2>7. CASE Kind(s) = "serverHelloDone" /\ e = ClientFlight12(x)
    <3>1. ~ccfg.skipVerify => ver
      BY <1>5, <2>2, <2>7
    <3>2. Continued(ClientFlight12(x), c, s, Now)
      BY <1>1, <1>7, <1>8, <2>1, <2>3, <2>4, <2>5, <2>6, <3>1, Flight12
    <3> QED
      BY <1>1, <1>4, <2>7, <3>2, ClientContinues
  <2>8. CASE e = x
    <3>1. ClientCert(x, Now)
      BY <1>1, <1>5, <2>1, <2>2, <2>3, <2>4 DEF ClientCert, Opening, Keyed12, Now
    <3>2. ClientKnows(x, s, Now)
      BY <1>1, <2>4 DEF ClientState, ClientKnows, Opening, Certs12, Keyed12, Reading13
    <3>3. ClientSecret(x, s, Now)
      BY <1>1, <1>8, <2>4, <2>6 DEF ClientSecret, Opening, Certs12, Keyed12, Reading13
    <3>4. Continued(x, c, s, Now)
      BY <1>1, <2>4, <2>5, <3>1, <3>2, <3>3 DEF Continued, ClientState, Certs12
    <3> QED
      BY <1>1, <1>4, <2>8, <3>4, ClientContinues
  <2> QED
    BY <1>11, <2>7, <2>8
<1> QED
  BY <1>9, <1>10, <1>11

\* readNewSessionTicket12 keeps the invariant.
LEMMA readNewSessionTicket12Inv == HandshakeInv /\ readNewSessionTicket12 => ClientGoes
<1> SUFFICES ASSUME HandshakeInv, readNewSessionTicket12 PROVE ClientGoes
  OBVIOUS
<1> DEFINE x == Record(c, "newSessionTicket")
           t == Body(s)
           e == [x EXCEPT !.ticket = t, !.pc = "changeCipherSpec"]
<1>1. Receives(c, s, "ticket12") /\ ClientStep(e)
  BY DEF readNewSessionTicket12
<1>2. /\ c.pc = "ticket12" /\ s.wire.sent # <<>> /\ Speaks(c, c, Now) /\ ClientState(c, s, Now)
      /\ ServerSays(Head(s.wire.sent), s, c.session, Now) /\ Kind(s) \in Reads["ticket12"]
  BY <1>1, FromServer
<1>3. Issued(t, s)
  BY <1>2 DEF ServerSays, Reads, Kind, Body
<1>4. Speaks(x, c, Now) /\ SameBut(x, c, {"transcript"})
  BY <1>2, SpeaksRecord
<1> HIDE DEF x, t
<1>5. DOMAIN e = EndFields /\ SameBut(e, x, {"ticket", "pc"}) /\ e.pc = "changeCipherSpec" /\ e.ticket = t
  BY <1>4 DEF Speaks, IsEnd, EndFields, SameBut
<1> HIDE DEF e
<1>6. /\ e.session = c.session /\ e.wire = x.wire /\ x.wire = c.wire /\ e.vers = c.vers /\ e.suite = c.suite
      /\ e.alpn = c.alpn /\ e.serverHello = c.serverHello /\ e.verified = c.verified
      /\ e.ems = c.ems /\ e.base = c.base /\ x.session = c.session /\ e.peerCert = c.peerCert
      /\ e.secret = c.secret /\ e.pending = c.pending
  BY <1>4, <1>5 DEF SameBut, EndFields
<1>7. Speaks(e, c, Now)
  BY <1>4, <1>5, <1>6, SpeaksSame
<1>8. ClientCert(e, Now)
  BY <1>2, <1>5, <1>6 DEF ClientState, ClientCert, Opening, Keyed12
<1>9. ClientKnows(e, s, Now)
  BY <1>2, <1>5, <1>6 DEF ClientState, ClientKnows, Opening, Certs12, Keyed12, Reading13
<1>10. ClientSecret(e, s, Now)
  BY <1>2, <1>3, <1>5, <1>6 DEF ClientState, ClientSecret, Opening, Certs12, Keyed12, Reading13, serverResumedSession
<1>11. Continued(e, c, s, Now)
  BY <1>5, <1>7, <1>8, <1>9, <1>10 DEF Continued, ClientState, Keyed12
<1> QED
  BY <1>1, <1>2, <1>11, ClientContinues

\* readServerCCS keeps the invariant.
LEMMA readServerCCSInv == HandshakeInv /\ readServerCCS => ClientGoes
<1> SUFFICES ASSUME HandshakeInv, readServerCCS PROVE ClientGoes
  OBVIOUS
<1> DEFINE e == [c EXCEPT !.in = c.pending, !.pc = "finished12"]
<1>1. Receives(c, s, "changeCipherSpec") /\ ClientStep(e)
  BY DEF readServerCCS
<1>2. /\ c.pc = "changeCipherSpec" /\ s.wire.sent # <<>> /\ Speaks(c, c, Now) /\ ClientState(c, s, Now)
  BY <1>1, FromServer
<1>3. DOMAIN e = EndFields /\ SameBut(e, c, {"in", "pc"}) /\ e.pc = "finished12" /\ e.in = c.pending
  BY <1>2 DEF Speaks, IsEnd, EndFields, SameBut
<1> HIDE DEF e
<1>4. /\ e.session = c.session /\ e.wire = c.wire /\ e.vers = c.vers /\ e.suite = c.suite
      /\ e.alpn = c.alpn /\ e.serverHello = c.serverHello /\ e.verified = c.verified
      /\ e.ems = c.ems /\ e.base = c.base /\ e.peerCert = c.peerCert
      /\ e.secret = c.secret /\ e.ticket = c.ticket
  BY <1>3 DEF SameBut, EndFields
<1>5. Speaks(e, c, Now)
  BY <1>2, <1>3, <1>4, SpeaksSame
<1>6. ClientCert(e, Now)
  BY <1>2, <1>3, <1>4 DEF ClientState, ClientCert, Opening, Keyed12
<1>7. ClientKnows(e, s, Now)
  BY <1>2, <1>3, <1>4 DEF ClientState, ClientKnows, Opening, Certs12, Keyed12, Reading13
<1>8. ClientSecret(e, s, Now)
  BY <1>2, <1>3, <1>4 DEF ClientState, ClientSecret, Opening, Certs12, Keyed12, Reading13, serverResumedSession
<1>9. Continued(e, c, s, Now)
  BY <1>3, <1>5, <1>6, <1>7, <1>8 DEF Continued, ClientState, Keyed12
<1> QED
  BY <1>1, <1>2, <1>9, ClientContinues

\* What a Finished that verifies tells of a client that is to complete: e is
\* the client that has it, apart from the keys in use and the transcript.
LEMMA Completed ==
    ASSUME NEW e, e.pc = "done", Speaks(e, c, Now),
           NEW n, n.client = ccfg, e.base \in n.founded \cup {None}, e.secret \in n.founded,
           e.verified \in BOOLEAN, e.verified => e.peerCert = "good", ~ccfg.skipVerify => e.verified,
           Answer(s, c.session, Now), Now.client = ccfg,
           e.serverHello = s.serverHello, e.vers = s.vers, e.suite = s.suite,
           e.alpn = s.alpn, e.ems = s.ems, e.ems \in BOOLEAN, e.secret = s.secret, e.base = s.base,
           e.in.secret = e.secret, e.wire.out.secret = e.secret,
           (ccfg.ech # 0) <=> (s.hello.random = "inner"), s.pc \in Late,
           e.vers = 13 /\ ccfg.cache => e.secret = BaseOf(e.resumption)
    PROVE  ClientState(e, s, n)
<1>1. e.pc \notin Opening \cup Certs12 \cup Keyed12 \cup Reading13 \cup {"failed"}
  BY DEF Opening, Certs12, Keyed12, Reading13
<1>2. ClientCert(e, n)
  BY <1>1 DEF ClientCert, Opening, Certs12, Reading13
<1>3. Answer(s, e.session, n)
  BY DEF Answer, Speaks
<1>4. ClientKnows(e, s, n)
  BY <1>1, <1>3 DEF ClientKnows, Opening
<1>5. ClientSecret(e, s, n)
  BY <1>1 DEF ClientSecret, Opening
<1>6. Agrees(e, s, n)
  BY DEF Agrees
<1> QED
  BY <1>2, <1>4, <1>5, <1>6 DEF ClientState

\* The end that completes, for both versions.
LEMMA DoneSame ==
    ASSUME NEW x, Speaks(x, c, Now)
    PROVE  Speaks(Done(x), c, Now) /\ SameBut(Done(x), x, {"pc"}) /\ Done(x).pc = "done"
<1> DEFINE e == Done(x)
<1>1. DOMAIN e = EndFields /\ SameBut(e, x, {"pc"}) /\ e.pc = "done"
  BY DEF Done, Speaks, IsEnd, EndFields, SameBut
<1> HIDE DEF e
<1>2. e.wire = x.wire /\ e.session = x.session
  BY <1>1 DEF SameBut, EndFields
<1>3. Speaks(e, c, Now)
  BY <1>1, <1>2, SpeaksSame
<1> QED
  BY <1>1, <1>3 DEF e

\* readServerFinished12 keeps the invariant.
LEMMA readServerFinished12Inv == HandshakeInv /\ readServerFinished12 => ClientGoes
<1> SUFFICES ASSUME HandshakeInv, readServerFinished12 PROVE ClientGoes
  OBVIOUS
<1> DEFINE x == Record(c, "finished")
           f == sendFinished12(x, "client")
           y == IF ~serverResumedSession(c) THEN x ELSE flush(f)
           z == Done(y)
           e == IF Body(s) # Verify(c.in, c) THEN Failed(c, "handshake_failure") ELSE z
<1>1. Receives(c, s, "finished12") /\ ClientStep(e)
  BY DEF readServerFinished12
<1>2. /\ c.pc = "finished12" /\ s.wire.sent # <<>> /\ Speaks(c, c, Now) /\ ClientState(c, s, Now)
      /\ ServerSays(Head(s.wire.sent), s, c.session, Now) /\ Kind(s) \in Reads["finished12"]
  BY <1>1, FromServer
<1>3. CASE Body(s) # Verify(c.in, c)
  <2>1. e = Failed(c, "handshake_failure")
    BY <1>3
  <2> HIDE DEF e
  <2>2. Continued(e, c, s, Now)
    BY <1>2, <2>1, FailedContinued
  <2> QED
    BY <1>1, <1>2, <2>2, ClientContinues
<1>4. CASE Body(s) = Verify(c.in, c)
  <2>1. Body(s).key.secret = s.secret /\ Continues(s)
    BY <1>2 DEF ServerSays, Reads, Kind, Body
  <2>2. c.in.secret = s.secret
    BY <1>4, <2>1 DEF Verify
  <2>3. /\ Answer(s, c.session, Now) /\ c.serverHello = s.serverHello /\ c.vers = s.vers /\ c.suite = s.suite
        /\ c.vers = 12 /\ ccfg.ech = 0 /\ c.alpn = c.serverHello.alpn /\ Now.client = ccfg
    BY <1>2 DEF ClientState, ClientKnows, Keyed12, Now
  <2>4. /\ c.ems \in BOOLEAN /\ c.base \in founded \cup {None} /\ c.ems = c.serverHello.ems
        /\ c.base = IF serverResumedSession(c) THEN c.secret ELSE None
        /\ ~serverResumedSession(c) => c.wire.out.secret = c.secret
        /\ c.in.secret = c.secret /\ (c.ticket # None => Issued(c.ticket, s))
    BY <1>2 DEF ClientState, ClientSecret, Keyed12, Now
  <2>5. s.pc \in Late /\ s.ems = s.serverHello.ems /\ s.base = IF s.serverHello.echo THEN s.secret ELSE None
    BY <2>1, <2>3 DEF Continues, Continues12
  <2>6. serverResumedSession(c) <=> s.serverHello.echo
    BY <2>3 DEF serverResumedSession, Answer
  <2>7. c.secret = s.secret /\ c.base = s.base /\ c.ems = s.ems
    BY <2>2, <2>3, <2>4, <2>5, <2>6
  <2>8. c.alpn = s.alpn /\ s.hello.random # "inner"
    BY <2>3 DEF Answer
  <2>9. c.verified \in BOOLEAN /\ (c.verified => c.peerCert = "good") /\ (~ccfg.skipVerify => c.verified)
    BY <1>2 DEF ClientState, ClientCert, Keyed12, Now
  <2>10. e = z
    BY <1>4
  <2>11. Speaks(x, c, Now) /\ SameBut(x, c, {"transcript"})
    BY <1>2, SpeaksRecord
  <2> HIDE DEF x
  <2>12. Speaks(f, c, Now) /\ SameBut(f, x, {"wire", "transcript"}) /\ f.wire.out.secret = x.secret
    BY <2>11, SpeaksFinished12
  <2> HIDE DEF f
  <2>13. Speaks(flush(f), c, Now) /\ SameBut(flush(f), f, {"wire"}) /\ flush(f).wire.out = f.wire.out
    BY <2>12, SpeaksFlush
  <2>14. x.secret = c.secret /\ x.wire = c.wire
    BY <2>11 DEF SameBut, EndFields
  <2>15. Speaks(y, c, Now) /\ SameBut(y, c, {"wire", "transcript"}) /\ y.wire.out.secret = c.secret
    <3>1. CASE serverResumedSession(c)
      <4>1. SameBut(y, c, {"wire", "transcript"})
        BY <2>11, <2>12, <2>13, <3>1 DEF SameBut
      <4> QED
        BY <2>12, <2>13, <2>14, <3>1, <4>1
    <3>2. CASE ~serverResumedSession(c)
      <4>1. SameBut(y, c, {"wire", "transcript"})
        BY <2>11, <3>2 DEF SameBut
      <4> QED
        BY <2>4, <2>11, <2>14, <3>2, <4>1
    <3> QED
      BY <3>1, <3>2
  <2> HIDE DEF y, e
  <2>16. Speaks(z, c, Now) /\ SameBut(z, y, {"pc"}) /\ z.pc = "done"
    BY <2>15, DoneSame
  <2> HIDE DEF z
  <2>17. /\ z.session = c.session /\ z.vers = c.vers /\ z.suite = c.suite /\ z.in = c.in
         /\ z.alpn = c.alpn /\ z.serverHello = c.serverHello /\ z.verified = c.verified
         /\ z.ems = c.ems /\ z.base = c.base /\ z.peerCert = c.peerCert
         /\ z.secret = c.secret /\ z.ticket = c.ticket /\ z.wire = y.wire
    BY <2>15, <2>16 DEF SameBut, EndFields
  <2>18. /\ c' = z /\ s' = Taken(s) /\ cache' = Cached(z) /\ UNCHANGED <<ccfg, scfg>>
         /\ founded' = founded \cup {z.secret}
    BY <1>1, <2>10, <2>16 DEF ClientStep, config
  <2>19. Now'.client = ccfg /\ Now'.founded = founded \cup {z.secret}
    BY <2>18 DEF Now
  <2>20. z.base \in Now'.founded \cup {None} /\ z.secret \in Now'.founded
    BY <2>4, <2>17, <2>19
  <2>21. ClientState(z, s, Now')
    BY <2>3, <2>4, <2>5, <2>7, <2>8, <2>9, <2>15, <2>16, <2>17, <2>19, <2>20, Completed
  <2> QED
    BY <1>2, <2>3, <2>4, <2>16, <2>17, <2>18, <2>21, ClientCompletes DEF Speaks
<1> QED
  BY <1>3, <1>4

-----------------------------------------------------------------------------
(* The client of TLS 1.3 *)

\* A step that reads on in TLS 1.3, and settles no more than it says.
LEMMA ReadsOn13 ==
    ASSUME ClientState(c, s, Now), c.pc \in Reading13, NEW e, Speaks(e, c, Now), e.pc \in Reading13,
           SameBut(e, c, {"transcript", "wire", "pc", "alpn", "certReq", "peerCert", "verified"}),
           e.verified \in BOOLEAN, e.verified => e.peerCert = "good",
           e.pc # "encryptedExtensions", e.alpn = s.alpn,
           ~ccfg.skipVerify /\ e.pc \in {"certificateVerify13", "finished13"} => e.verified
    PROVE  Continued(e, c, s, Now)
<1>1. e.pc \notin Opening \cup Certs12 \cup Keyed12 \cup {"done", "failed"}
  BY DEF Opening, Certs12, Keyed12, Reading13
<1>2. /\ e.session = c.session /\ e.vers = c.vers /\ e.suite = c.suite /\ e.in = c.in
      /\ e.serverHello = c.serverHello /\ e.ems = c.ems /\ e.base = c.base
      /\ e.secret = c.secret /\ e.ticket = c.ticket /\ e.echRejected = c.echRejected
  BY DEF SameBut, EndFields
<1>3. ClientCert(e, Now)
  BY <1>1 DEF ClientCert, Opening, Certs12, Now
<1>4. ClientKnows(e, s, Now)
  BY <1>1, <1>2 DEF ClientState, ClientKnows, Opening
<1>5. ClientSecret(e, s, Now)
  BY <1>1, <1>2 DEF ClientState, ClientSecret, Opening, Continues13
<1> QED
  BY <1>1, <1>3, <1>4, <1>5 DEF Continued, ClientState

\* readEncryptedExtensions keeps the invariant.
LEMMA readEncryptedExtensionsInv == HandshakeInv /\ readEncryptedExtensions => ClientGoes
<1> SUFFICES ASSUME HandshakeInv, readEncryptedExtensions PROVE ClientGoes
  OBVIOUS
<1> DEFINE x0 == Record(c, "encryptedExtensions")
           alpn == Body(s)
           pc == IF c.serverHello.psk THEN "finished13" ELSE "certificate13"
           x == [x0 EXCEPT !.alpn = alpn]
           y == [x EXCEPT !.pc = pc]
           e == IF ~checkALPN(c.hello.alpn, Body(s)) THEN Failed(c, "no_application_protocol") ELSE y
<1>1. Receives(c, s, "encryptedExtensions") /\ ClientStep(e)
  BY DEF readEncryptedExtensions
<1>2. /\ c.pc = "encryptedExtensions" /\ s.wire.sent # <<>> /\ Speaks(c, c, Now) /\ ClientState(c, s, Now)
      /\ ServerSays(Head(s.wire.sent), s, c.session, Now) /\ Kind(s) \in Reads["encryptedExtensions"]
  BY <1>1, FromServer
<1>3. alpn = s.alpn
  BY <1>2 DEF ServerSays, Reads, Kind, Body
<1>4. Continued(Failed(c, "no_application_protocol"), c, s, Now)
  BY <1>2, FailedContinued
<1>5. Continued(y, c, s, Now)
  <2>1. Speaks(x0, c, Now) /\ SameBut(x0, c, {"transcript"})
    BY <1>2, SpeaksRecord
  <2> HIDE DEF x0, alpn
  <2>2. DOMAIN x = EndFields /\ SameBut(x, x0, {"alpn"}) /\ x.alpn = alpn
    BY <2>1 DEF Speaks, IsEnd, EndFields, SameBut
  <2>3. pc \in {"finished13", "certificate13"} /\ (pc = "finished13" => c.serverHello.psk)
    OBVIOUS
  <2> HIDE DEF x, pc
  <2>4. DOMAIN y = EndFields /\ SameBut(y, x, {"pc"}) /\ y.pc = pc
    BY <2>2 DEF EndFields, SameBut
  <2> HIDE DEF y
  <2>5. /\ SameBut(y, c, {"transcript", "wire", "pc", "alpn", "certReq", "peerCert", "verified"})
    BY <2>1, <2>2, <2>4 DEF SameBut
  <2>6. /\ y.wire = x0.wire /\ y.session = x0.session /\ y.verified = c.verified
        /\ y.peerCert = c.peerCert /\ y.alpn = alpn
    BY <2>1, <2>2, <2>4 DEF SameBut, EndFields
  <2>7. Speaks(y, c, Now)
    BY <2>1, <2>4, <2>6, SpeaksSame
  <2>8. /\ y.verified \in BOOLEAN /\ (y.verified => y.peerCert = "good")
        /\ ~ccfg.skipVerify /\ c.serverHello.psk => y.verified
    BY <1>2, <2>6 DEF ClientState, ClientCert, Now
  <2>9. y.pc \in Reading13 /\ y.pc # "encryptedExtensions" /\ c.pc \in Reading13 /\ y.pc # "certificateVerify13"
    BY <1>2, <2>3, <2>4 DEF Reading13
  <2> QED
    BY <1>2, <1>3, <2>3, <2>4, <2>5, <2>6, <2>7, <2>8, <2>9, ReadsOn13
<1>6. Continued(e, c, s, Now)
  BY <1>4, <1>5
<1> QED
  BY <1>1, <1>2, <1>6, ClientContinues

\* readServerCertificate13 keeps the invariant.
LEMMA readServerCertificate13Inv == HandshakeInv /\ readServerCertificate13 => ClientGoes
<1> SUFFICES ASSUME HandshakeInv, readServerCertificate13 PROVE ClientGoes
  OBVIOUS
<1> DEFINE x == Record(c, Kind(s))
           cert == IF Body(s) THEN "good" ELSE "unverifiable"
           y == [x EXCEPT !.certReq = TRUE]
           z == [x EXCEPT !.peerCert = cert, !.verified = MustVerify(c), !.pc = "certificateVerify13"]
           e == IF Kind(s) = "certificateRequest"
                THEN IF c.certReq THEN Failed(c, "unexpected_message") ELSE y
                ELSE IF MustVerify(c) /\ ~Body(s) THEN Failed(c, "bad_certificate") ELSE z
<1>1. Receives(c, s, "certificate13") /\ ClientStep(e)
  BY DEF readServerCertificate13
<1>2. /\ c.pc = "certificate13" /\ s.wire.sent # <<>> /\ Speaks(c, c, Now) /\ ClientState(c, s, Now)
  BY <1>1, FromServer
<1>3. \/ \E alert : e = Failed(c, alert)
      \/ e = y
      \/ (MustVerify(c) => Body(s)) /\ e = z
  OBVIOUS
<1>4. Speaks(x, c, Now) /\ SameBut(x, c, {"transcript"})
  BY <1>2, SpeaksRecord
<1>5. /\ c.verified \in BOOLEAN /\ (c.verified => c.peerCert = "good") /\ c.alpn = s.alpn /\ c.pc \in Reading13
  BY <1>2 DEF ClientState, ClientCert, ClientKnows, Reading13
<1>6. CASE \E alert : e = Failed(c, alert)
  <2> HIDE DEF e
  <2>1. Continued(e, c, s, Now)
    BY <1>2, <1>6, FailedContinued
  <2> QED
    BY <1>1, <1>2, <2>1, ClientContinues
<1>7. CASE e = y
  <2> HIDE DEF x, e
  <2>1. DOMAIN y = EndFields /\ SameBut(y, x, {"certReq"})
    BY <1>4 DEF Speaks, IsEnd, EndFields, SameBut
  <2> HIDE DEF y
  <2>2. SameBut(y, c, {"transcript", "wire", "pc", "alpn", "certReq", "peerCert", "verified"})
    BY <1>4, <2>1 DEF SameBut
  <2>3. /\ y.wire = x.wire /\ y.session = x.session /\ y.verified = c.verified
        /\ y.peerCert = c.peerCert /\ y.alpn = c.alpn /\ y.pc = c.pc
    BY <1>4, <2>1 DEF SameBut, EndFields
  <2>4. Speaks(y, c, Now)
    BY <1>4, <2>1, <2>3, SpeaksSame
  <2>5. Continued(y, c, s, Now)
    BY <1>2, <1>5, <2>2, <2>3, <2>4, ReadsOn13
  <2> QED
    BY <1>1, <1>2, <1>7, <2>5, ClientContinues
<1>8. CASE (MustVerify(c) => Body(s)) /\ e = z
  <2>1. cert = "good" \/ ~MustVerify(c)
    BY <1>8
  <2>2. MustVerify(c) \in BOOLEAN /\ (~ccfg.skipVerify => MustVerify(c))
    BY DEF MustVerify
  <2> HIDE DEF x, e, cert
  <2>3. /\ DOMAIN z = EndFields /\ SameBut(z, x, {"peerCert", "verified", "pc"})
        /\ z.peerCert = cert /\ z.verified = MustVerify(c) /\ z.pc = "certificateVerify13"
    BY <1>4 DEF Speaks, IsEnd, EndFields, SameBut
  <2> HIDE DEF z
  <2>4. SameBut(z, c, {"transcript", "wire", "pc", "alpn", "certReq", "peerCert", "verified"})
    BY <1>4, <2>3 DEF SameBut
  <2>5. z.wire = x.wire /\ z.session = x.session /\ z.alpn = c.alpn
    BY <1>4, <2>3 DEF SameBut, EndFields
  <2>6. Speaks(z, c, Now)
    BY <1>4, <2>3, <2>5, SpeaksSame
  <2>7. z.pc \in Reading13
    BY <2>3 DEF Reading13
  <2>8. z.verified \in BOOLEAN /\ (z.verified => z.peerCert = "good") /\ (~ccfg.skipVerify => z.verified)
    BY <2>1, <2>2, <2>3
  <2>9. Continued(z, c, s, Now)
    BY <1>2, <1>5, <2>3, <2>4, <2>5, <2>6, <2>7, <2>8, ReadsOn13
  <2> QED
    BY <1>1, <1>2, <1>8, <2>9, ClientContinues
<1> QED
  BY <1>3, <1>6, <1>7, <1>8

\* readServerVerify13 keeps the invariant.
LEMMA readServerVerify13Inv == HandshakeInv /\ readServerVerify13 => ClientGoes
<1> SUFFICES ASSUME HandshakeInv, readServerVerify13 PROVE ClientGoes
  OBVIOUS
<1> DEFINE x == Record(c, "certificateVerify")
           y == [x EXCEPT !.pc = "finished13"]
           e == IF Body(s) # c.transcript THEN Failed(c, "decrypt_error") ELSE y
<1>1. Receives(c, s, "certificateVerify13") /\ ClientStep(e)
  BY DEF readServerVerify13
<1>2. /\ c.pc = "certificateVerify13" /\ s.wire.sent # <<>> /\ Speaks(c, c, Now) /\ ClientState(c, s, Now)
  BY <1>1, FromServer
<1>3. Continued(Failed(c, "decrypt_error"), c, s, Now)
  BY <1>2, FailedContinued
<1>4. Continued(y, c, s, Now)
  <2>1. Speaks(x, c, Now) /\ SameBut(x, c, {"transcript"})
    BY <1>2, SpeaksRecord
  <2> HIDE DEF x
  <2>2. DOMAIN y = EndFields /\ SameBut(y, x, {"pc"}) /\ y.pc = "finished13"
    BY <2>1 DEF Speaks, IsEnd, EndFields, SameBut
  <2> HIDE DEF y
  <2>3. SameBut(y, c, {"transcript", "wire", "pc", "alpn", "certReq", "peerCert", "verified"})
    BY <2>1, <2>2 DEF SameBut
  <2>4. /\ y.wire = x.wire /\ y.session = x.session /\ y.verified = c.verified
        /\ y.peerCert = c.peerCert /\ y.alpn = c.alpn
    BY <2>1, <2>2 DEF SameBut, EndFields
  <2>5. Speaks(y, c, Now)
    BY <2>1, <2>2, <2>4, SpeaksSame
  <2>6. /\ c.verified \in BOOLEAN /\ (c.verified => c.peerCert = "good") /\ c.alpn = s.alpn
        /\ ~ccfg.skipVerify => c.verified
    BY <1>2 DEF ClientState, ClientCert, ClientKnows, Reading13, Now
  <2>7. c.pc \in Reading13 /\ y.pc \in Reading13
    BY <1>2, <2>2 DEF Reading13
  <2> QED
    BY <1>2, <2>2, <2>3, <2>4, <2>5, <2>6, <2>7, ReadsOn13
<1>5. Continued(e, c, s, Now)
  BY <1>3, <1>4
<1> QED
  BY <1>1, <1>2, <1>5, ClientContinues

\* sendClientCertificate and sendClientFinished.
LEMMA ClientFlight13 ==
    ASSUME NEW e, Speaks(e, c, Now), ccfg \in ClientConfigs
    PROVE  LET z == flush(sendClientFinished(sendClientCertificate(e))) IN
           /\ Speaks(z, c, Now) /\ SameBut(z, e, {"wire", "transcript", "resumption"})
           /\ z.wire.out = e.traffic
           /\ ccfg.cache => \E t : z.resumption = [e.secret EXCEPT !.context = t]
<1> DEFINE cert == IF e.echRejected THEN "none" ELSE ccfg.cert
           x == WriteRecorded(e, "certificate", cert)
           x2 == WriteRecorded(x, "certificateVerify", x.transcript)
           y == sendClientCertificate(e)
           f == WriteRecorded(y, "finished", Verify(y.wire.out, y))
           res == IF ccfg.cache THEN [y.secret EXCEPT !.context = f.transcript] ELSE None
           g == [f EXCEPT !.wire.out = y.traffic, !.resumption = res]
           z == flush(g)
<1>1. cert \in {"none", "unverifiable", "good"}
  BY ConfigAssumption DEF ClientConfig
<1>2. y = IF ~e.certReq THEN e ELSE IF cert = "none" THEN x ELSE x2
  BY DEF sendClientCertificate
<1>3. sendClientFinished(y) = g
  BY DEF sendClientFinished
<1> HIDE DEF cert
<1>4. Speaks(x, c, Now) /\ SameBut(x, e, {"wire", "transcript"})
  BY <1>1, SpeaksWrite
<1> HIDE DEF x
<1>5. Speaks(x2, c, Now) /\ SameBut(x2, x, {"wire", "transcript"})
  BY <1>4, SpeaksWrite
<1> HIDE DEF x2, y
<1>6. Speaks(y, c, Now) /\ SameBut(y, e, {"wire", "transcript"})
  <2>1. SameBut(x2, e, {"wire", "transcript"}) /\ SameBut(e, e, {"wire", "transcript"})
    BY <1>4, <1>5 DEF SameBut
  <2> QED
    BY <1>2, <1>4, <1>5, <2>1
<1>7. y.traffic = e.traffic /\ y.secret = e.secret
  BY <1>6 DEF SameBut, EndFields
<1>8. Speaks(f, c, Now) /\ SameBut(f, y, {"wire", "transcript"})
  BY <1>6, SpeaksWrite
<1>9. ccfg.cache => \E t : res = [e.secret EXCEPT !.context = t]
  BY <1>7
<1> HIDE DEF f, res
<1>10. /\ DOMAIN g = EndFields /\ SameBut(g, f, {"wire", "resumption"}) /\ g.resumption = res
       /\ g.wire = [f.wire EXCEPT !.out = y.traffic]
  BY <1>8 DEF Speaks, IsEnd, EndFields, SameBut
<1> HIDE DEF g
<1>11. IsWire(g.wire) /\ g.wire.out = y.traffic /\ g.wire.sent = f.wire.sent /\ g.wire.buf = f.wire.buf
  BY <1>8, <1>10 DEF Speaks, IsEnd, IsWire, WireFields
<1>12. g.session = f.session
  BY <1>10 DEF SameBut, EndFields
<1>13. Speaks(g, c, Now)
  BY <1>8, <1>10, <1>11, <1>12 DEF Speaks, IsEnd, Said
<1>14. Speaks(z, c, Now) /\ SameBut(z, g, {"wire"}) /\ z.wire.out = g.wire.out
  BY <1>13, SpeaksFlush
<1> HIDE DEF z
<1>15. SameBut(z, e, {"wire", "transcript", "resumption"})
  BY <1>6, <1>8, <1>10, <1>14 DEF SameBut
<1>16. z.resumption = res
  BY <1>10, <1>14 DEF SameBut, EndFields
<1>17. z = flush(sendClientFinished(sendClientCertificate(e)))
  BY <1>3 DEF z, y
<1> QED
  BY <1>7, <1>9, <1>11, <1>14, <1>15, <1>16, <1>17

\* readServerFinished13 keeps the invariant.
LEMMA readServerFinished13Inv == HandshakeInv /\ readServerFinished13 => ClientGoes
<1> SUFFICES ASSUME HandshakeInv, readServerFinished13 PROVE ClientGoes
  OBVIOUS
<1> DEFINE x == Record(c, "finished")
           y == [x EXCEPT !.in = Key("server", "application", x), !.traffic = Key("client", "application", x)]
           w == flush(sendClientFinished(sendClientCertificate(y)))
           z == Done(w)
           e == IF Body(s) # Verify(c.in, c) THEN Failed(c, "decrypt_error")
                ELSE IF c.echRejected THEN Failed(w, "ech_required") ELSE z
<1>1. Receives(c, s, "finished13") /\ ClientStep(e)
  BY DEF readServerFinished13
<1>2. /\ c.pc = "finished13" /\ s.wire.sent # <<>> /\ Speaks(c, c, Now) /\ ClientState(c, s, Now)
      /\ ServerSays(Head(s.wire.sent), s, c.session, Now) /\ Kind(s) \in Reads["finished13"]
      /\ ccfg \in ClientConfigs
  BY <1>1, FromServer
<1>3. Speaks(x, c, Now) /\ SameBut(x, c, {"transcript"})
  BY <1>2, SpeaksRecord
<1>4. x.secret = c.secret
  BY <1>3 DEF SameBut, EndFields
<1>5. Key("server", "application", x).secret = c.secret /\ Key("client", "application", x).secret = c.secret
  BY <1>4 DEF Key
<1> HIDE DEF x
<1>6. /\ DOMAIN y = EndFields /\ SameBut(y, x, {"in", "traffic"})
      /\ y.in.secret = c.secret /\ y.traffic.secret = c.secret
  BY <1>3, <1>5 DEF Speaks, IsEnd, EndFields, SameBut
<1> HIDE DEF y
<1>7. Speaks(y, c, Now)
  BY <1>3, <1>6, SpeaksSame DEF SameBut, EndFields
<1>8. /\ Speaks(w, c, Now) /\ SameBut(w, y, {"wire", "transcript", "resumption"})
      /\ w.wire.out = y.traffic /\ (ccfg.cache => \E t : w.resumption = [y.secret EXCEPT !.context = t])
  BY <1>2, <1>7, ClientFlight13
<1> HIDE DEF w
<1>9. \/ \E alert : e = Failed(c, alert)
      \/ \E alert : e = Failed(w, alert)
      \/ Body(s) = Verify(c.in, c) /\ ~c.echRejected /\ e = z
  OBVIOUS
<1>10. CASE (\E alert : e = Failed(c, alert)) \/ (\E alert : e = Failed(w, alert))
  <2> HIDE DEF e
  <2>1. Continued(e, c, s, Now)
    BY <1>2, <1>8, <1>10, FailedContinued
  <2> QED
    BY <1>1, <1>2, <2>1, ClientContinues
<1>11. CASE Body(s) = Verify(c.in, c) /\ ~c.echRejected /\ e = z
  <2>1. Body(s).key.secret = s.secret /\ Continues(s)
    BY <1>2 DEF ServerSays, Reads, Kind, Body
  <2>2. c.in.secret = s.secret
    BY <1>11, <2>1 DEF Verify
  <2>3. /\ Answer(s, c.session, Now) /\ c.serverHello = s.serverHello /\ c.vers = s.vers /\ c.suite = s.suite
        /\ c.vers = 13 /\ c.alpn = s.alpn /\ Now.client = ccfg
        /\ ccfg.ech # 0 => s.hello.random = "inner"
    BY <1>2, <1>11 DEF ClientState, ClientKnows, Reading13, Now
  <2>4. /\ c.ems \in BOOLEAN /\ c.base \in founded \cup {None} /\ Continues13(c)
        /\ c.secret = BaseOf(c.secret) /\ c.in.secret = c.secret /\ c.ticket = None
    BY <1>2 DEF ClientState, ClientSecret, Reading13, Now
  <2>5. s.pc \in Late /\ Continues13(s)
    BY <2>1, <2>3 DEF Continues
  <2>6. c.secret = s.secret /\ c.base = s.base /\ c.ems = s.ems
    BY <2>2, <2>3, <2>4, <2>5 DEF Continues13
  <2>7. (ccfg.ech # 0) <=> (s.hello.random = "inner")
    BY <2>3 DEF Answer
  <2>8. c.verified \in BOOLEAN /\ (c.verified => c.peerCert = "good") /\ (~ccfg.skipVerify => c.verified)
    BY <1>2 DEF ClientState, ClientCert, Now
  <2> HIDE DEF e
  <2>9. Speaks(z, c, Now) /\ SameBut(z, w, {"pc"}) /\ z.pc = "done"
    BY <1>8, DoneSame
  <2> HIDE DEF z
  <2>10. /\ z.session = c.session /\ z.vers = c.vers /\ z.suite = c.suite /\ z.in = y.in
         /\ z.alpn = c.alpn /\ z.serverHello = c.serverHello /\ z.verified = c.verified
         /\ z.ems = c.ems /\ z.base = c.base /\ z.peerCert = c.peerCert
         /\ z.secret = c.secret /\ z.ticket = c.ticket /\ z.wire = w.wire
         /\ z.resumption = w.resumption /\ y.secret = c.secret
    BY <1>3, <1>6, <1>8, <2>9 DEF SameBut, EndFields
  <2>11. ccfg.cache => z.secret = BaseOf(z.resumption)
    <3> SUFFICES ASSUME ccfg.cache PROVE z.secret = BaseOf(z.resumption)
      OBVIOUS
    <3>1. PICK t : z.resumption = [c.secret EXCEPT !.context = t]
      <4>1. PICK t : w.resumption = [y.secret EXCEPT !.context = t]
        BY <1>8
      <4>2. z.resumption = [c.secret EXCEPT !.context = t]
        BY <2>10, <4>1
      <4> QED
        BY <4>2
    <3> DEFINE k == BaseOf(c.secret)
    <3>2. z.resumption = [k EXCEPT !.context = t]
      BY <2>4, <3>1
    <3>3. BaseOf([k EXCEPT !.context = t]) = k
      BY DEF BaseOf
    <3> QED
      BY <2>4, <2>10, <3>2, <3>3
  <2>12. /\ c' = z /\ s' = Taken(s) /\ cache' = Cached(z) /\ UNCHANGED <<ccfg, scfg>>
         /\ founded' = founded \cup {z.secret}
    BY <1>1, <1>11, <2>9 DEF ClientStep, config
  <2>13. Now'.client = ccfg /\ Now'.founded = founded \cup {z.secret}
    BY <2>12 DEF Now
  <2>14. z.base \in Now'.founded \cup {None} /\ z.secret \in Now'.founded
    BY <2>4, <2>10, <2>13
  <2>15. z.in.secret = z.secret /\ z.wire.out.secret = z.secret
    BY <1>6, <1>8, <2>10
  <2>16. ClientState(z, s, Now')
    BY <2>3, <2>4, <2>5, <2>6, <2>7, <2>8, <2>9, <2>10, <2>11, <2>13, <2>14, <2>15, Completed
  <2> QED
    BY <1>2, <2>4, <2>9, <2>10, <2>12, <2>16, ClientCompletes DEF Speaks
<1> QED
  BY <1>9, <1>10, <1>11

\* The session made from a ticket continues the secret of the attempt.
LEMMA handleNewSessionTicketInv == HandshakeInv /\ handleNewSessionTicket => HandshakeInv'
<1> SUFFICES ASSUME HandshakeInv, handleNewSessionTicket PROVE HandshakeInv'
  OBVIOUS
<1> DEFINE t == Body(s)
           new == [sessionState(c, c.resumption) EXCEPT !.ticket = t]
<1>1. /\ c.pc = "done" /\ c.vers = 13 /\ s.wire.sent # <<>> /\ Kind(s) = "newSessionTicket"
      /\ s' = Taken(s) /\ c' = c /\ UNCHANGED <<ccfg, scfg, founded>>
      /\ cache' = IF ccfg.cache THEN new ELSE cache
  BY DEF handleNewSessionTicket, config
<1>2. ClientInv(c, s, Now) /\ ServerInv(s, c.session, Now) /\ SoundSession(cache, Now) /\ Now' = Now
  BY <1>1 DEF HandshakeInv, Now
<1>3. ServerInv(s', c.session, Now) /\ Follows(s', s)
  BY <1>1, <1>2, ServerTaken
<1>4. ClientInv(c, s', Now)
  BY <1>2, <1>3, ClientFollows
<1>5. Issued(t, s)
  <2>1. IsEnd(s)
    BY <1>2 DEF ServerInv
  <2>2. Head(s.wire.sent) \in Said(s)
    BY <1>1, <2>1, TakenEnd
  <2> QED
    BY <1>1, <1>2, <2>2 DEF ServerInv, ServerSays, Kind, Body
<1>6. /\ c.verified \in BOOLEAN /\ (c.verified => c.peerCert = "good") /\ c.ems \in BOOLEAN
      /\ c.secret = s.secret /\ c.secret \in Now.founded /\ (ccfg.cache => c.secret = BaseOf(c.resumption))
  BY <1>1, <1>2 DEF ClientInv, ClientState, ClientCert, ClientSecret, Agrees, Now
<1>7. ccfg.cache => SoundSession(new, Now)
  <2> HIDE DEF t
  <2>1. /\ new.version = 13 /\ new.ems = c.ems /\ new.secret = c.resumption /\ new.base = c.secret
        /\ new.peerCert = c.peerCert /\ new.verified = c.verified /\ new.ticket = t
    BY <1>1 DEF sessionState
  <2> HIDE DEF new
  <2>2. ccfg.cache => Sound(new) /\ new.base \in Now.founded
    BY <1>6, <2>1 DEF Sound
  <2>3. SoundTicket(new.ticket, Now)
    BY <1>5, <1>6, <2>1 DEF SoundTicket, Issued
  <2> QED
    BY <2>2, <2>3 DEF SoundSession
<1>8. SoundSession(cache', Now)
  BY <1>1, <1>2, <1>7
<1>9. ClientInv(c, s, Now)' /\ ServerInv(s, c.session, Now)' /\ SoundSession(cache, Now)'
  BY <1>1, <1>2, <1>3, <1>4, <1>8
<1> QED
  BY <1>1, <1>9 DEF HandshakeInv

\* ClientRefuses keeps the invariant.
LEMMA ClientRefusesInv == HandshakeInv /\ ClientRefuses => ClientGoes
<1> SUFFICES ASSUME HandshakeInv, ClientRefuses PROVE ClientGoes
  OBVIOUS
<1>1. s.wire.sent # <<>> /\ ClientStep(Refused(c, s))
  BY DEF ClientRefuses, Refuses
<1>2. \E alert : Refused(c, s) = Failed(c, alert)
  BY DEF Refused
<1>3. Speaks(c, c, Now)
  BY DEF HandshakeInv, ClientInv, Speaks
<1>4. Continued(Refused(c, s), c, s, Now)
  BY <1>2, <1>3, FailedContinued
<1> QED
  BY <1>1, <1>4, ClientContinues

-----------------------------------------------------------------------------
(* The connection and the attempts *)

\* A stream that is cut says only that it has ended.
LEMMA EofRewires ==
    ASSUME NEW x, IsEnd(x)
    PROVE  Rewired([x EXCEPT !.wire.sent = <<Eof>>], x)
<1> DEFINE q == <<Eof>>
           w == [x.wire EXCEPT !.sent = q]
           e == [x EXCEPT !.wire.sent = q]
<1>1. IsSeq(q) /\ ToSet(q) \subseteq {Eof}
  <2>1. q \in Seq({Eof})
    OBVIOUS
  <2> QED
    BY <2>1, SeqOfItself
<1> HIDE DEF q
<1>2. DOMAIN x = EndFields /\ IsWire(x.wire)
  BY DEF IsEnd
<1>3. DOMAIN w = WireFields /\ w.sent = q /\ w.buf = x.wire.buf /\ w.out = x.wire.out
  BY <1>2 DEF IsWire, WireFields
<1>4. DOMAIN e = EndFields /\ e.wire = w /\ SameBut(e, x, {"wire"})
  BY <1>2 DEF EndFields, SameBut
<1> HIDE DEF w, e
<1>5. IsEnd(e)
  BY <1>1, <1>2, <1>3, <1>4 DEF IsEnd, IsWire
<1>6. \A r \in Said(e) : r \in Said(x) \/ r = Eof
  BY <1>1, <1>3, <1>4 DEF Said
<1>7. Rewired(e, x)
  BY <1>3, <1>4, <1>5, <1>6 DEF Rewired
<1> QED
  BY <1>7 DEF e, q

\* A connection that breaks.
LEMMA BreakInv == HandshakeInv /\ Break => HandshakeInv'
<1> SUFFICES ASSUME HandshakeInv, Break PROVE HandshakeInv'
  OBVIOUS
<1>1. /\ c' = [c EXCEPT !.wire.sent = <<Eof>>] /\ s' = [s EXCEPT !.wire.sent = <<Eof>>]
      /\ UNCHANGED <<ccfg, scfg, cache, founded>>
  BY DEF Break
<1>2. Now' = Now
  BY <1>1 DEF Now
<1>3. ServerInv(s', c.session, Now) /\ Follows(s', s)
  <2>1. ServerInv(s, c.session, Now) /\ IsEnd(s)
    BY DEF HandshakeInv, ServerInv
  <2>2. Rewired(s', s)
    BY <1>1, <2>1, EofRewires
  <2> QED
    BY <2>1, <2>2, ServerRewired
<1>4. ClientInv(c', s, Now) /\ c'.session = c.session
  <2>1. ClientInv(c, s, Now) /\ IsEnd(c)
    BY DEF HandshakeInv, ClientInv
  <2>2. Rewired(c', c)
    BY <1>1, <2>1, EofRewires
  <2> QED
    BY <2>1, <2>2, ClientRewired
<1>5. ClientInv(c', s', Now)
  BY <1>3, <1>4, ClientFollows
<1>6. ClientInv(c, s, Now)' /\ ServerInv(s, c.session, Now)'
  BY <1>2, <1>3, <1>4, <1>5
<1>7. SoundSession(cache, Now)'
  BY <1>1, <1>2 DEF HandshakeInv
<1> QED
  BY <1>1, <1>6, <1>7 DEF HandshakeInv

\* Two idle ends, under any configurations.
LEMMA IdleInv ==
    ASSUME NEW n
    PROVE  ClientInv(Idle, Idle, n) /\ ServerInv(Idle, None, n)
<1>1. DOMAIN Idle = EndFields
  BY DEF Idle, EndFields
<1>2. Idle.wire = [out |-> None, buffering |-> FALSE, buf |-> <<>>, sent |-> <<>>]
  BY DEF Idle
<1>3. IsWire(Idle.wire) /\ Said(Idle) = {}
  BY <1>2, EmptySeqs DEF IsWire, WireFields, Said
<1>4. /\ Idle.pc = "start" /\ Idle.session = None /\ Idle.base = None /\ Idle.ems = FALSE
      /\ Idle.verified = FALSE /\ Idle.flight = 0 /\ Idle.peerCert = "none" /\ Idle.ticket = None
  BY DEF Idle
<1>5. ClientState(Idle, Idle, n)
  <2>1. ClientCert(Idle, n)
    BY <1>4 DEF ClientCert, Keyed12
  <2>2. ClientKnows(Idle, Idle, n)
    BY <1>4 DEF ClientKnows, Certs12, Keyed12, Reading13
  <2>3. ClientSecret(Idle, Idle, n)
    BY <1>4 DEF ClientSecret, Opening, Certs12, Keyed12, Reading13
  <2> QED
    BY <1>4, <2>1, <2>2, <2>3 DEF ClientState, Opening
<1>6. ServerState(Idle, None, n)
  <2>1. ServerCert(Idle, n)
    BY <1>4 DEF ServerCert, Closing12, Flight13
  <2>2. ServerSecret(Idle, n)
    BY <1>4 DEF ServerSecret, Exchange12, Closing12, Flight13, Closing13
  <2>3. ServerHelloInv(Idle, None, n)
    BY <1>4 DEF ServerHelloInv, Answered, Exchange12, Closing12, Flight13, Closing13
  <2> QED
    BY <1>4, <2>1, <2>2, <2>3 DEF ServerState, Before
<1>7. SoundSession(None, n)
  BY DEF SoundSession
<1> QED
  BY <1>1, <1>3, <1>4, <1>5, <1>6, <1>7 DEF ClientInv, ServerInv, IsEnd

\* The initial states.
LEMMA InitInv == Init => HandshakeInv
<1> SUFFICES ASSUME Init PROVE HandshakeInv
  OBVIOUS
<1>1. c = Idle /\ s = Idle /\ cache = None /\ ccfg \in ClientConfigs /\ scfg \in ServerConfigs
  BY DEF Init
<1>2. Idle.session = None
  BY DEF Idle
<1> QED
  BY <1>1, <1>2, IdleInv DEF HandshakeInv, SoundSession

\* A new attempt: the session in the cache is all that is left.
LEMMA ReconnectInv == HandshakeInv /\ Reconnect => HandshakeInv'
<1> SUFFICES ASSUME HandshakeInv, Reconnect PROVE HandshakeInv'
  OBVIOUS
<1>1. c' = Idle /\ s' = Idle /\ cache' = cache /\ founded' = founded
  BY DEF Reconnect
<1>2. ccfg' \in ClientConfigs /\ scfg' \in ServerConfigs
  BY DEF Reconnect, HandshakeInv
<1>3. Idle.session = None
  BY DEF Idle
<1>4. SoundSession(cache, Now')
  BY <1>1 DEF HandshakeInv, SoundSession, SoundTicket, Now
<1>5. ClientInv(c, s, Now)' /\ ServerInv(s, c.session, Now)' /\ SoundSession(cache, Now)'
  BY <1>1, <1>3, <1>4, IdleInv
<1> QED
  BY <1>2, <1>5 DEF HandshakeInv

-----------------------------------------------------------------------------
(* The theorems *)

\* Every step of the client,
LEMMA ClientNextInv == HandshakeInv /\ ClientNext => ClientGoes
BY clientHandshakeInv, readServerHelloInv, readServerHello2Inv, readServerCertificate12Inv,
   readServerFlight12Inv, readNewSessionTicket12Inv, readServerCCSInv, readServerFinished12Inv,
   readEncryptedExtensionsInv, readServerCertificate13Inv, readServerVerify13Inv, readServerFinished13Inv,
   ClientRefusesInv
   DEF ClientNext

\* and every step.
LEMMA NextInv == HandshakeInv /\ [Next]_vars => HandshakeInv'
<1> SUFFICES ASSUME HandshakeInv, [Next]_vars PROVE HandshakeInv'
  OBVIOUS
<1>1. CASE UNCHANGED vars
  <2>1. UNCHANGED <<ccfg, scfg, cache, founded, c, s>>
    BY <1>1 DEF vars
  <2>2. Now' = Now
    BY <2>1 DEF Now
  <2> QED
    BY <2>1, <2>2 DEF HandshakeInv
<1>2. CASE Next
  BY <1>2, ClientNextInv, ServerNextInv, handleNewSessionTicketInv, BreakInv, ReconnectInv DEF Next, ClientGoes
<1> QED
  BY <1>1, <1>2

(* In every state the two ends, what they have sent each other and the      *)
(* session the client keeps fit together as HandshakeInv says: the secret   *)
(* of a session is one a handshake was completed with, its peer was         *)
(* verified if it says so, and what a client has read is what the server    *)
(* has settled.                                                             *)
THEOREM EndsFit == Spec => []HandshakeInv
<1>1. Spec => Init /\ [][Next]_vars
  BY DEF Spec
<1> QED
  BY <1>1, InitInv, NextInv, PTL

(* A completed handshake has authenticated the peer as the configuration in *)
(* use now demands, resumed sessions included (loadSession and the client   *)
(* certificate checks of checkForResumption).                               *)
THEOREM AuthenticatesPeers == Spec => []PeersAuthenticated
<1>1. HandshakeInv => PeersAuthenticated
  <2> SUFFICES ASSUME HandshakeInv PROVE PeersAuthenticated
    OBVIOUS
  <2>1. c.pc = "done" /\ ~ccfg.skipVerify => c.peerCert = "good"
    BY DEF HandshakeInv, ClientInv, ClientState, ClientCert, Now
  <2>2. s.pc = "done" => Policy(s, Now)
    BY DEF HandshakeInv, ServerInv, ServerState, ServerCert
  <2> QED
    BY <2>1, <2>2 DEF PeersAuthenticated, Policy, Now
<1> QED
  BY <1>1, EndsFit, PTL

-----------------------------------------------------------------------------
(* The refinement of Agreement *)

\* The view of an end does not depend on its stream.
LEMMA SameView ==
    ASSUME NEW x, NEW e, NEW b, SameBut(e, x, {"wire"}), e.wire.out = x.wire.out
    PROVE  Is(e) = Is(x) /\ View(e, b) = View(x, b) /\ e.hello = x.hello /\ e.pc = x.pc
<1>1. /\ e.pc = x.pc /\ e.vers = x.vers /\ e.suite = x.suite /\ e.alpn = x.alpn /\ e.ems = x.ems
      /\ e.secret = x.secret /\ e.base = x.base /\ e.in = x.in /\ e.hello = x.hello
  BY DEF SameBut, EndFields
<1> QED
  BY <1>1 DEF Is, Ended, View

\* Two ends that have both completed the attempt.
LEMMA BothDone ==
    ASSUME NEW x, NEW p, NEW n, ClientInv(x, p, n), ServerInv(p, x.session, n), x.pc = "done", p.pc = "done"
    PROVE  View(x, n.client.ech # 0) = View(p, p.hello.random = "inner")
<1>1. ClientState(x, p, n) /\ ServerState(p, x.session, n)
  BY DEF ClientInv, ServerInv
<1>2. /\ x.alpn = p.alpn /\ x.ems = p.ems /\ x.secret = p.secret /\ x.base = p.base
      /\ x.in.secret = x.secret /\ x.wire.out.secret = x.secret
      /\ (n.client.ech # 0) <=> (p.hello.random = "inner")
  BY <1>1 DEF ClientState, Agrees
<1>3. x.vers = p.vers /\ x.suite = p.suite
  BY <1>1 DEF ClientState, ClientKnows
<1>4. p.in.secret = p.secret /\ p.wire.out.secret = p.secret
  BY <1>1 DEF ServerState, ServerSecret
<1>5. (n.client.ech # 0) = (p.hello.random = "inner")
  BY <1>2
<1> QED
  BY <1>2, <1>3, <1>4, <1>5 DEF View

\* Nor on what the other has read of it.
LEMMA TakenView ==
    ASSUME NEW x, IsEnd(x), NEW e, e = x \/ (e = Taken(x) /\ x.wire.sent # <<>>), NEW b
    PROVE  Is(e) = Is(x) /\ View(e, b) = View(x, b) /\ e.hello = x.hello /\ e.pc = x.pc
<1>1. CASE e = x
  BY <1>1
<1>2. CASE e = Taken(x) /\ x.wire.sent # <<>>
  <2>1. SameBut(e, x, {"wire"}) /\ e.wire.out = x.wire.out
    BY <1>2, TakenEnd
  <2> QED
    BY <2>1, SameView
<1> QED
  BY <1>1, <1>2

\* The shape of a step of either end: the other is left alone, but for the
\* record it had sent.
LEMMA ClientShape ==
    ASSUME ClientNext
    PROVE  /\ ~Ended(c) /\ UNCHANGED <<attempt, ccfg, scfg, breaks>>
           /\ s' = s \/ (s' = Taken(s) /\ s.wire.sent # <<>>)
           /\ founded' = IF c'.pc = "done" THEN founded \cup {c'.secret} ELSE founded
           /\ c'.pc = "failed" => c.pc # "start" /\ cache' = Cached(c')
<1>1. CASE clientHandshake
  <2> DEFINE session == loadSession(ccfg)
             hello == ClientHello(ccfg, session)
             w == Write(c, Msg("clientHello", hello))
             share == [group |-> keyShareKey(ccfg), generation |-> 1]
  <2>1. /\ c.pc = "start" /\ UNCHANGED <<config, s, founded>>
        /\ c' = [w EXCEPT !.pc = "serverHello", !.hello = hello, !.session = session, !.share = share]
    BY <1>1 DEF clientHandshake
  <2> HIDE DEF w, hello, session, share
  <2>2. c'.pc # "done" /\ c'.pc # "failed"
    BY <2>1
  <2> QED
    BY <2>1, <2>2 DEF config, Ended
<1>2. ASSUME NEW pc, Receives(c, s, pc) \/ (c.pc = pc /\ s.wire.sent # <<>>), pc \notin {"start", "done", "failed"},
             NEW e, ClientStep(e)
      PROVE  /\ ~Ended(c) /\ UNCHANGED <<attempt, ccfg, scfg, breaks>>
             /\ s' = s \/ (s' = Taken(s) /\ s.wire.sent # <<>>)
             /\ founded' = IF c'.pc = "done" THEN founded \cup {c'.secret} ELSE founded
             /\ c'.pc = "failed" => c.pc # "start" /\ cache' = Cached(c')
  BY <1>2 DEF Receives, ClientStep, config, Ended
<1>3. CASE readServerHello
  BY <1>2, <1>3 DEF readServerHello
<1>4. CASE readServerHello2
  BY <1>2, <1>4 DEF readServerHello2
<1>5. CASE readServerCertificate12
  BY <1>2, <1>5 DEF readServerCertificate12
<1>6. CASE readServerFlight12
  BY <1>2, <1>6 DEF readServerFlight12
<1>7. CASE readNewSessionTicket12
  BY <1>2, <1>7 DEF readNewSessionTicket12
<1>8. CASE readServerCCS
  BY <1>2, <1>8 DEF readServerCCS
<1>9. CASE readServerFinished12
  BY <1>2, <1>9 DEF readServerFinished12
<1>10. CASE readEncryptedExtensions
  BY <1>2, <1>10 DEF readEncryptedExtensions
<1>11. CASE readServerCertificate13
  BY <1>2, <1>11 DEF readServerCertificate13
<1>12. CASE readServerVerify13
  BY <1>2, <1>12 DEF readServerVerify13
<1>13. CASE readServerFinished13
  BY <1>2, <1>13 DEF readServerFinished13
<1>14. CASE ClientRefuses
  <2>1. s.wire.sent # <<>> /\ ClientStep(Refused(c, s)) /\ c.pc \in DOMAIN Reads
    BY <1>14 DEF ClientRefuses, Refuses
  <2>2. c.pc \notin {"start", "done", "failed"}
    BY <2>1 DEF Reads
  <2> QED
    BY <1>2, <2>1, <2>2
<1> QED
  BY <1>1, <1>3, <1>4, <1>5, <1>6, <1>7, <1>8, <1>9, <1>10, <1>11, <1>12, <1>13, <1>14 DEF ClientNext

\* The same of a step of the server.
LEMMA ServerShape ==
    ASSUME ServerNext
    PROVE  /\ ~Ended(s) /\ UNCHANGED <<attempt, ccfg, scfg, breaks, cache, founded>>
           /\ c' = c \/ (c' = Taken(c) /\ c.wire.sent # <<>>)
<1>1. CASE serverHandshake \/ sendServerCertificate \/ sendServerFinished
  BY <1>1 DEF serverHandshake, sendServerCertificate, sendServerFinished, config, Ended
<1>2. ASSUME NEW pc, Receives(s, c, pc) \/ (s.pc = pc /\ c.wire.sent # <<>>), pc \notin {"done", "failed"},
             NEW e, ServerStep(e)
      PROVE  /\ ~Ended(s) /\ UNCHANGED <<attempt, ccfg, scfg, breaks, cache, founded>>
             /\ c' = c \/ (c' = Taken(c) /\ c.wire.sent # <<>>)
  BY <1>2 DEF Receives, ServerStep, config, Ended
<1>3. CASE readClientHello
  BY <1>2, <1>3 DEF readClientHello
<1>4. CASE readClientHello2
  BY <1>2, <1>4 DEF readClientHello2
<1>5. CASE readClientCertificate12
  BY <1>2, <1>5 DEF readClientCertificate12
<1>6. CASE readClientKeyExchange
  BY <1>2, <1>6 DEF readClientKeyExchange
<1>7. CASE readCertificateVerify12
  BY <1>2, <1>7 DEF readCertificateVerify12
<1>8. CASE readClientCCS
  BY <1>2, <1>8 DEF readClientCCS
<1>9. CASE readClientFinished12
  BY <1>2, <1>9 DEF readClientFinished12
<1>10. CASE readClientCertificate13
  BY <1>2, <1>10 DEF readClientCertificate13
<1>11. CASE readClientVerify13
  BY <1>2, <1>11 DEF readClientVerify13
<1>12. CASE readClientFinished13
  BY <1>2, <1>12 DEF readClientFinished13
<1>13. CASE ServerRefuses
  <2>1. c.wire.sent # <<>> /\ ServerStep(Refused(s, c)) /\ s.pc \in DOMAIN Reads
    BY <1>13 DEF ServerRefuses, Refuses
  <2>2. s.pc \notin {"done", "failed"}
    BY <2>1 DEF Reads
  <2> QED
    BY <1>2, <2>1, <2>2
<1> QED
  BY <1>1, <1>3, <1>4, <1>5, <1>6, <1>7, <1>8, <1>9, <1>10, <1>11, <1>12, <1>13 DEF ServerNext

\* A pair of the two ends, one of which changes.
LEMMA PairExcept ==
    ASSUME NEW a, NEW b, NEW x
    PROVE  LET pair == [client |-> a, server |-> b] IN
           /\ [pair EXCEPT !["client"] = x] = [client |-> x, server |-> b]
           /\ [pair EXCEPT !["server"] = x] = [client |-> a, server |-> x]
           /\ pair["client"] = a /\ pair["server"] = b
<1> DEFINE pair == [client |-> a, server |-> b]
<1>1. [pair EXCEPT !["client"] = x] = [client |-> x, server |-> b]
  OBVIOUS
<1>2. [pair EXCEPT !["server"] = x] = [client |-> a, server |-> x]
  OBVIOUS
<1> QED
  BY <1>1, <1>2

\* What the steps of Agreement say, in the terms of the two ends.
LEMMA AbsFail ==
    ASSUME UNCHANGED <<attempt, founded>>,
           View(c, ccfg.ech # 0)' = View(c, ccfg.ech # 0),
           View(s, s.hello.random = "inner")' = View(s, s.hello.random = "inner"),
           \/ Is(c) = "open" /\ Is(c)' = "failed" /\ Is(s)' = Is(s)
           \/ Is(s) = "open" /\ Is(s)' = "failed" /\ Is(c)' = Is(c)
    PROVE  A!Next
<1>1. CASE Is(c) = "open" /\ Is(c)' = "failed" /\ Is(s)' = Is(s)
  <2>1. A!Fail("client")
    BY <1>1, PairExcept DEF A!Fail
  <2> QED
    BY <2>1 DEF A!Next, A!Ends
<1>2. CASE Is(s) = "open" /\ Is(s)' = "failed" /\ Is(c)' = Is(c)
  <2>1. A!Fail("server")
    BY <1>2, PairExcept DEF A!Fail
  <2> QED
    BY <2>1 DEF A!Next, A!Ends
<1> QED
  BY <1>1, <1>2

\* The client completes,
LEMMA AbsClientDone ==
    ASSUME UNCHANGED attempt, NEW v, View(c, ccfg.ech # 0)' = {v},
           View(s, s.hello.random = "inner")' = View(s, s.hello.random = "inner"),
           Is(c) = "open", Is(c)' = "done", Is(s)' = Is(s),
           Is(s) = "done" => View(s, s.hello.random = "inner") = {v},
           v.base \in founded \cup {None}, founded' = founded \cup {v.secret}
    PROVE  A!Next
<1> DEFINE is == [client |-> Is(c), server |-> Is(s)]
           view == [client |-> View(c, ccfg.ech # 0), server |-> View(s, s.hello.random = "inner")]
<1>2. is["client"] = "open" /\ is' = [is EXCEPT !["client"] = "done"]
  BY PairExcept
<1>3. v \in view'["client"] /\ view' = [view EXCEPT !["client"] = {v}]
  BY PairExcept
<1>4. \A f \in {"client", "server"} : is[f] = "done" => view[f] = {v}
  BY PairExcept
<1>1. A!Complete("client")
  <2> HIDE DEF is, view
  <2>1. \E u \in view'["client"] :
           /\ view' = [view EXCEPT !["client"] = {u}]
           /\ \A f \in {"client", "server"} : is[f] = "done" => view[f] = {u}
           /\ u.base \in founded \cup {None}
           /\ founded' = founded \cup {u.secret}
    BY <1>3, <1>4
  <2> QED
    BY <1>2, <2>1 DEF A!Complete, A!Ends, is, view
<1> QED
  BY <1>1 DEF A!Next, A!Ends

\* or the server does.
LEMMA AbsServerDone ==
    ASSUME UNCHANGED <<attempt, founded>>, NEW v, View(s, s.hello.random = "inner")' = {v},
           View(c, ccfg.ech # 0)' = View(c, ccfg.ech # 0),
           Is(s) = "open", Is(s)' = "done", Is(c)' = Is(c),
           Is(c) = "done" => View(c, ccfg.ech # 0) = {v},
           v.base \in founded \cup {None}
    PROVE  A!Next
<1> DEFINE is == [client |-> Is(c), server |-> Is(s)]
           view == [client |-> View(c, ccfg.ech # 0), server |-> View(s, s.hello.random = "inner")]
<1>2. is["server"] = "open" /\ is' = [is EXCEPT !["server"] = "done"]
  BY PairExcept
<1>3. v \in view'["server"] /\ view' = [view EXCEPT !["server"] = {v}]
  BY PairExcept
<1>4. \A f \in {"client", "server"} : is[f] = "done" => view[f] = {v}
  BY PairExcept
<1>1. A!Complete("server")
  <2> HIDE DEF is, view
  <2>1. \E u \in view'["server"] :
           /\ view' = [view EXCEPT !["server"] = {u}]
           /\ \A f \in {"client", "server"} : is[f] = "done" => view[f] = {u}
           /\ u.base \in founded \cup {None}
           /\ founded' = founded
    BY <1>3, <1>4
  <2> QED
    BY <1>2, <2>1 DEF A!Complete, A!Ends, is, view
<1> QED
  BY <1>1 DEF A!Next, A!Ends

\* An end that has not completed the attempt has no view of it.
LEMMA OpenView ==
    ASSUME NEW e, NEW b
    PROVE  /\ ~Ended(e) => Is(e) = "open" /\ View(e, b) = {}
           /\ e.pc = "failed" => Is(e) = "failed" /\ View(e, b) = {}
           /\ e.pc = "done" => Is(e) = "done"
BY DEF Ended, Is, View

\* What a view that is completed with holds.
LEMMA DoneView ==
    ASSUME NEW e, NEW b, e.pc = "done"
    PROVE  \E v : View(e, b) = {v} /\ v.base = e.base /\ v.secret = e.secret
<1> DEFINE v == [vers |-> e.vers, suite |-> e.suite, alpn |-> e.alpn, ems |-> e.ems, ech |-> b,
                 secret |-> e.secret, base |-> e.base, in |-> e.in.secret, out |-> e.wire.out.secret]
<1>1. View(e, b) = {v} /\ v.base = e.base /\ v.secret = e.secret
  BY DEF View
<1> QED
  BY <1>1

\* A step of the client is one of Agreement, or changes nothing there,
LEMMA ClientRefines ==
    ASSUME HandshakeInv, ClientNext
    PROVE  A!Next \/ UNCHANGED A!vars
<1>1. HandshakeInv' /\ (c'.pc = "done" => c'.base \in founded \cup {None})
  BY ClientNextInv DEF ClientGoes
<1>2. /\ ~Ended(c) /\ UNCHANGED <<attempt, ccfg>>
      /\ s' = s \/ (s' = Taken(s) /\ s.wire.sent # <<>>)
      /\ founded' = IF c'.pc = "done" THEN founded \cup {c'.secret} ELSE founded
  BY ClientShape
<1>3. IsEnd(s)
  BY DEF HandshakeInv, ServerInv
<1>4. /\ Is(s') = Is(s) /\ s'.pc = s.pc /\ s'.hello = s.hello
      /\ View(s', s'.hello.random = "inner") = View(s, s.hello.random = "inner")
  BY <1>2, <1>3, TakenView
<1>5. Is(c) = "open" /\ View(c, ccfg.ech # 0) = {}
  BY <1>2, OpenView
<1>6. CASE ~Ended(c')
  <2>1. Is(c') = "open" /\ View(c', ccfg'.ech # 0) = {} /\ founded' = founded
    BY <1>2, <1>6, OpenView DEF Ended
  <2> QED
    BY <1>2, <1>4, <1>5, <2>1 DEF A!vars
<1>7. CASE c'.pc = "failed"
  <2>1. Is(c') = "failed" /\ View(c', ccfg'.ech # 0) = {} /\ founded' = founded
    BY <1>2, <1>7, OpenView
  <2> QED
    BY <1>2, <1>4, <1>5, <2>1, AbsFail
<1>8. CASE c'.pc = "done"
  <2>1. Is(c') = "done" /\ founded' = founded \cup {c'.secret}
    BY <1>2, <1>8, OpenView
  <2>2. PICK v : View(c', ccfg'.ech # 0) = {v} /\ v.base = c'.base /\ v.secret = c'.secret
    BY <1>8, DoneView
  <2>3. Is(s) = "done" => View(s, s.hello.random = "inner") = {v}
    <3> SUFFICES ASSUME Is(s) = "done" PROVE View(s, s.hello.random = "inner") = {v}
      OBVIOUS
    <3>1. s'.pc = "done"
      BY <1>4 DEF Is, Ended
    <3>2. ClientInv(c', s', Now') /\ ServerInv(s', c'.session, Now') /\ Now'.client = ccfg'
      BY <1>1 DEF HandshakeInv, Now
    <3>3. View(c', ccfg'.ech # 0) = View(s', s'.hello.random = "inner")
      BY <1>8, <3>1, <3>2, BothDone
    <3> QED
      BY <1>4, <2>2, <3>3
  <2> QED
    BY <1>1, <1>2, <1>4, <1>5, <1>8, <2>1, <2>2, <2>3, AbsClientDone
<1> QED
  BY <1>6, <1>7, <1>8 DEF Ended

\* and so is one of the server.
LEMMA ServerRefines ==
    ASSUME HandshakeInv, ServerNext
    PROVE  A!Next \/ UNCHANGED A!vars
<1>1. HandshakeInv'
  BY ServerNextInv
<1>2. /\ ~Ended(s) /\ UNCHANGED <<attempt, ccfg, founded>>
      /\ c' = c \/ (c' = Taken(c) /\ c.wire.sent # <<>>)
  BY ServerShape
<1>3. IsEnd(c)
  BY DEF HandshakeInv, ClientInv
<1>4. Is(c') = Is(c) /\ c'.pc = c.pc /\ View(c', ccfg'.ech # 0) = View(c, ccfg.ech # 0)
  BY <1>2, <1>3, TakenView
<1>5. Is(s) = "open" /\ View(s, s.hello.random = "inner") = {}
  BY <1>2, OpenView
<1>6. CASE ~Ended(s')
  <2>1. Is(s') = "open" /\ View(s', s'.hello.random = "inner") = {}
    BY <1>6, OpenView
  <2> QED
    BY <1>2, <1>4, <1>5, <2>1 DEF A!vars
<1>7. CASE s'.pc = "failed"
  <2>1. Is(s') = "failed" /\ View(s', s'.hello.random = "inner") = {}
    BY <1>7, OpenView
  <2> QED
    BY <1>2, <1>4, <1>5, <2>1, AbsFail
<1>8. CASE s'.pc = "done"
  <2>1. Is(s') = "done"
    BY <1>8, OpenView
  <2>2. PICK v : View(s', s'.hello.random = "inner") = {v} /\ v.base = s'.base /\ v.secret = s'.secret
    BY <1>8, DoneView
  <2>3. ClientInv(c', s', Now') /\ ServerInv(s', c'.session, Now') /\ Now'.client = ccfg' /\ Now'.founded = founded
    BY <1>1, <1>2 DEF HandshakeInv, Now
  <2>4. v.base \in founded \cup {None}
    BY <1>8, <2>2, <2>3 DEF ServerInv, ServerState, ServerSecret
  <2>5. Is(c) = "done" => View(c, ccfg.ech # 0) = {v}
    <3> SUFFICES ASSUME Is(c) = "done" PROVE View(c, ccfg.ech # 0) = {v}
      OBVIOUS
    <3>1. c'.pc = "done"
      BY <1>4 DEF Is, Ended
    <3>2. View(c', ccfg'.ech # 0) = View(s', s'.hello.random = "inner")
      BY <1>8, <2>3, <3>1, BothDone
    <3> QED
      BY <1>4, <2>2, <3>2
  <2> QED
    BY <1>2, <1>4, <1>5, <2>1, <2>2, <2>4, <2>5, AbsServerDone
<1> QED
  BY <1>6, <1>7, <1>8 DEF Ended

\* The steps of neither end.
LEMMA OtherRefines ==
    ASSUME HandshakeInv, handleNewSessionTicket \/ Break \/ Reconnect \/ UNCHANGED vars
    PROVE  A!Next \/ UNCHANGED A!vars
<1>1. IsEnd(c) /\ IsEnd(s)
  BY DEF HandshakeInv, ClientInv, ServerInv
<1>2. CASE handleNewSessionTicket
  <2>1. s' = Taken(s) /\ s.wire.sent # <<>> /\ UNCHANGED <<attempt, ccfg, c, founded>>
    BY <1>2 DEF handleNewSessionTicket, config
  <2>2. Is(s') = Is(s) /\ View(s', s'.hello.random = "inner") = View(s, s.hello.random = "inner")
    BY <1>1, <2>1, TakenView
  <2> QED
    BY <2>1, <2>2 DEF A!vars
<1>3. CASE Break
  <2>1. /\ c' = [c EXCEPT !.wire.sent = <<Eof>>] /\ s' = [s EXCEPT !.wire.sent = <<Eof>>]
        /\ UNCHANGED <<attempt, ccfg, founded>>
    BY <1>3 DEF Break
  <2>2. Rewired(c', c) /\ Rewired(s', s)
    BY <1>1, <2>1, EofRewires
  <2>3. Is(c') = Is(c) /\ View(c', ccfg'.ech # 0) = View(c, ccfg.ech # 0)
    <3>1. SameBut(c', c, {"wire"}) /\ c'.wire.out = c.wire.out
      BY <2>2 DEF Rewired
    <3> QED
      BY <2>1, <3>1, SameView
  <2>4. Is(s') = Is(s) /\ View(s', s'.hello.random = "inner") = View(s, s.hello.random = "inner")
    <3>1. SameBut(s', s, {"wire"}) /\ s'.wire.out = s.wire.out
      BY <2>2 DEF Rewired
    <3> QED
      BY <3>1, SameView
  <2> QED
    BY <2>1, <2>3, <2>4 DEF A!vars
<1>4. CASE Reconnect
  <2>1. Ended(c) /\ Ended(s) /\ attempt' = attempt + 1 /\ c' = Idle /\ s' = Idle /\ founded' = founded
    BY <1>4 DEF Reconnect
  <2>2. Idle.pc = "start"
    BY DEF Idle
  <2>3. /\ Is(c') = "open" /\ View(c', ccfg'.ech # 0) = {}
        /\ Is(s') = "open" /\ View(s', s'.hello.random = "inner") = {}
    BY <2>1, <2>2 DEF Is, Ended, View
  <2>4. Is(c) # "open" /\ Is(s) # "open"
    BY <2>1 DEF Is, Ended
  <2>5. A!Begin
    BY <2>1, <2>3, <2>4, PairExcept DEF A!Begin, A!Ends
  <2> QED
    BY <2>5 DEF A!Next
<1>5. CASE UNCHANGED vars
  BY <1>5 DEF vars, A!vars
<1> QED
  BY <1>2, <1>3, <1>4, <1>5

\* Every step is one of Agreement, or changes nothing there.
LEMMA StepRefines == HandshakeInv /\ [Next]_vars => [A!Next]_(A!vars)
BY ClientRefines, ServerRefines, OtherRefines DEF Next

\* The initial states are initial there.
LEMMA InitRefines == Init => A!Init
<1> SUFFICES ASSUME Init PROVE A!Init
  OBVIOUS
<1>1. attempt = 1 /\ c = Idle /\ s = Idle /\ founded = {}
  BY DEF Init
<1>2. Idle.pc = "start"
  BY DEF Idle
<1>3. Is(c) = "open" /\ Is(s) = "open" /\ View(c, ccfg.ech # 0) = {} /\ View(s, s.hello.random = "inner") = {}
  BY <1>1, <1>2 DEF Is, Ended, View
<1> QED
  BY <1>1, <1>3 DEF A!Init, A!Ends

(* The handshake implements Agreement: two ends that complete an attempt    *)
(* have the same view of it, whichever of full handshake, retry and         *)
(* resumption they went through, and resume only a secret that the client   *)
(* completed an attempt with (sessionState, checkForResumption,             *)
(* readFinished).                                                           *)
THEOREM ImplementsAgreement == Spec => Refines
<1>1. Spec => Init /\ [][Next]_vars
  BY DEF Spec
<1> QED
  BY <1>1, InitRefines, StepRefines, EndsFit, PTL DEF Refines, A!Spec
=============================================================================
