---------------------------- MODULE ConnectPath ----------------------------
(***************************************************************************)
(* What happens to one proxied connection, from the CONNECT request (HTTP  *)
(* proxy) or the SOCKS5 request to the moment its handler returns, for     *)
(* several connections at once.  A handler runs in a goroutine of its own  *)
(* and shares one thing with the others: the ECH configuration of a        *)
(* profile, which every handler reads before a handshake and which a       *)
(* handler whose handshake was rejected refreshes over DNS and stores.     *)
(*                                                                         *)
(* Addresses are numbered in the order the code tries them.  Bytes are     *)
(* left out; a network operation ends in any way its caller distinguishes. *)
(* ECH configurations are version numbers, 0 for none; `key' is the        *)
(* version the servers accept now, and a DNS answer is any version         *)
(* published so far.                                                       *)
(***************************************************************************)
EXTENDS Naturals, FiniteSets

CONSTANTS
    Conn,            \* the connections the proxy accepts
    Traffic,         \* Traffic[c]: the requests that may arrive on c
    MaxCandidates,   \* longest list of dial candidates
    MaxKey           \* bound: how often the servers change their ECH key

VARIABLES
    conn,            \* conn[c]: the state of the handler of c
    profile,         \* the stored ECH configuration of the profile
    key              \* the ECH configuration the servers accept

vars == <<conn, profile, key>>

Entries  == {"http", "socks5"}
Modes    == {"mitm", "transparent", "tls-rf", "quic", "server", "direct", "block"}
Policies == {"", "tunnel_origin", "tunnel_upstream", "mitm", "direct"}

(* What a matched rule says.  ech: off; a stored profile without or with   *)
(* auto-update; a profile the rule names and the configuration lacks, as   *)
(* auto-routed rules may.                                                  *)
Rule == [mode : Modes, policy : Policies, ech : {"off", "manual", "auto", "missing"},
         fallback : BOOLEAN, pool : BOOLEAN]

Request == [entry : Entries, rule : Rule]

ASSUME TrafficAssumption == Traffic \in [Conn -> SUBSET Request]
ASSUME CandidatesAssumption == MaxCandidates \in Nat \ {0}
ASSUME KeyAssumption == MaxKey \in Nat \ {0}

Candidates == 1 .. MaxCandidates
Versions   == 0 .. MaxKey

Steps == {"idle", "directConnect", "dialUpstream", "hijack", "clientHandshake",
          "resolveECH", "fetchECH", "syncECH", "dialWithRule", "handshake",
          "refreshECH", "storeECH", "clientHello", "probe", "fallback",
          "tunnel", "serve", "done"}
Sockets   == {"none", "open", "closed"}
Direction == {"toUpstream", "toClient"}
Copying   == {"off", "read", "write", "over"}

(* The state of a handler.  raw: cr.conn; up: the connection that          *)
(* establishUpstreamConn or the TLS-RF fallback opens; client: who closes  *)
(* the client's connection.  sent: the ECH configuration of the handshake; *)
(* fresh: the one a refresh brought; disturbed: somebody else stored after *)
(* it.  told: what the pool last heard of each candidate.            *)
Handler ==
    [pc : Steps, req : Request, cands : SUBSET Candidates,
     untried : SUBSET Candidates, first : Candidates, attempt : {0, 1},
     raw : Sockets, up : Sockets, client : {"server", "hijacked", "closed"},
     sent : Versions, fresh : Versions, disturbed : BOOLEAN,
     copy : [Direction -> Copying], told : [Candidates -> {"", "ok", "failed"}]]

Untold == [a \in Candidates |-> ""]
NoCopy == [d \in Direction |-> "off"]

----------------------------------------------------------------------------
(* Rules *)

\* prepareConnect: the connect policy overrides the mode of the rule.
EffectiveMode(r) ==
    IF r.policy \in {"tunnel_origin", "tunnel_upstream"} THEN "transparent"
    ELSE IF r.policy \in {"mitm", "direct"} THEN r.policy
    ELSE r.mode

Mode(h) == EffectiveMode(h.req.rule)
HTTP(h) == h.req.entry = "http"

\* The profile the rule names exists.
HasProfile(h) == h.req.rule.ech \in {"manual", "auto"}

\* buildDialCandidates: the upstream list, the pool's IPs, the DNS answer or
\* the target itself; in every case at least one address.
BuildDialCandidates == {1 .. n : n \in Candidates}

\* handleServerMITM: the pool's IPs, if the rule wants them, then the server.
ServerCandidates(r) == IF r.pool THEN BuildDialCandidates ELSE {1 .. 1}

\* The order of the loops over candidates: in MITM mode the address that
\* dialUpstream reached comes first (orderedCandidates).
Current(h) ==
    IF h.first \in h.untried THEN h.first
    ELSE CHOOSE a \in h.untried : \A b \in h.untried : a <= b

\* ReportSuccess and ReportFailure of the pool, for rules that use it.
Tell(h, what) ==
    IF h.req.rule.pool THEN [h.told EXCEPT ![Current(h)] = what] ELSE h.told

----------------------------------------------------------------------------
(* Handlers *)

Closed(socket) == IF socket = "open" THEN "closed" ELSE socket

Go(c, h) == conn' = [conn EXCEPT ![c] = h]

Idle(q) ==
    [pc |-> "idle", req |-> q, cands |-> {1}, untried |-> {}, first |-> 1,
     attempt |-> 0, raw |-> "none", up |-> "none", client |-> "server",
     sent |-> 0, fresh |-> 0, disturbed |-> FALSE, copy |-> NoCopy, told |-> Untold]

\* The handler returns and its local variables end; the SOCKS5 handler has
\* deferred cr.conn.Close().
Return(h) ==
    [Idle(h.req) EXCEPT !.pc = "done", !.up = h.up, !.client = h.client,
                        !.raw = IF HTTP(h) THEN h.raw ELSE Closed(h.raw)]

\* The handler closes the client's connection and returns.
Drop(h) == Return([h EXCEPT !.client = "closed"])

\* The handler closes both ends and returns.
DropBoth(h) == Return([h EXCEPT !.client = "closed", !.raw = Closed(@)])

\* directTunnel, directConnect: two copying goroutines.  Nothing but the
\* connections is used any more.
StartTunnel(h) ==
    [Idle(h.req) EXCEPT !.pc = "tunnel", !.copy = [d \in Direction |-> "read"],
                        !.raw = h.raw, !.up = h.up, !.client = h.client]

\* establishUpstreamConn: the first attempt at the next candidate.
StartAttempts(h) == [h EXCEPT !.pc = "resolveECH", !.attempt = 0, !.fresh = 0,
                              !.disturbed = FALSE, !.sent = 0]

\* The rest of the handler once the client has its positive answer.
Answered(h) ==
    LET m == Mode(h) IN
    IF m \in {"server", "quic"} THEN [h EXCEPT !.pc = "clientHandshake"]
    ELSE IF m = "mitm" THEN StartAttempts([h EXCEPT !.untried = h.cands])
    ELSE IF m = "tls-rf" THEN [h EXCEPT !.pc = "clientHello"]
    ELSE StartTunnel(h)

\* SOCKS5 has no case for blocked hosts: it goes on as for "transparent".
HandleSocks5Connect(h, cands) ==
    LET m == Mode(h) IN
    IF m = "direct" THEN [h EXCEPT !.pc = "directConnect"]
    ELSE IF m \in {"server", "quic"} THEN Answered(h)
    ELSE [h EXCEPT !.pc = "dialUpstream", !.cands = cands, !.untried = cands]

HandleConnect(h, cands) ==
    LET m == Mode(h) IN
    IF m = "direct" THEN [h EXCEPT !.pc = "directConnect"]
    ELSE IF m = "block" THEN Return(h)
    ELSE IF m \in {"server", "quic"} THEN [h EXCEPT !.pc = "hijack"]
    ELSE [h EXCEPT !.pc = "dialUpstream", !.cands = cands, !.untried = cands]

Accept(c) ==
    /\ conn[c].pc = "idle"
    /\ \E q \in Traffic[c], cands \in BuildDialCandidates :
          \/ q.entry = "http" /\ Go(c, HandleConnect(Idle(q), cands))
          \/ q.entry = "socks5" /\ Go(c, HandleSocks5Connect(Idle(q), cands))
          \/ q.entry = "socks5" /\ Go(c, Return(Idle(q)))  \* connection not tracked
    /\ UNCHANGED <<profile, key>>

DirectConnect(c) ==
    /\ conn[c].pc = "directConnect"
    /\ \/ Go(c, [conn[c] EXCEPT !.pc = "hijack", !.raw = "open"])
       \/ Go(c, Return(conn[c]))
    /\ UNCHANGED <<profile, key>>

\* Only a list of several candidates is reported to the pool.
DialUpstream(c) ==
    LET h == conn[c]
        several == h.cands # {1}
        told(what) == IF several THEN Tell(h, what) ELSE h.told
        failed == [h EXCEPT !.untried = @ \ {Current(h)}, !.told = told("failed")]
    IN  /\ h.pc = "dialUpstream"
        /\ \/ Go(c, [h EXCEPT !.pc = "hijack", !.raw = "open", !.first = Current(h),
                              !.told = told("ok")])
           \/ Go(c, IF failed.untried = {} THEN Return(failed) ELSE failed)
        /\ UNCHANGED <<profile, key>>

\* Variant: the error path of the 200 answer forgets the upstream connection.
HijackKeepsUpstream(c) ==
    LET h == conn[c] IN
    /\ h.pc = "hijack"
    /\ \/ HTTP(h) /\ Go(c, Drop(h))
       \/ Go(c, Answered(IF HTTP(h) THEN [h EXCEPT !.client = "hijacked"] ELSE h))
    /\ UNCHANGED <<profile, key>>

\* HTTP: hijacking or writing the 200 may fail; SOCKS5: SendReply, whose
\* result is ignored, on a connection the SOCKS5 library keeps owning.  If the
\* CA could not be loaded, handleMITM closes the client and returns.
Hijack(c) ==
    LET h == conn[c] IN
    /\ h.pc = "hijack"
    /\ \/ HTTP(h) /\ Go(c, Return([h EXCEPT !.raw = Closed(@)]))
       \/ HTTP(h) /\ Go(c, DropBoth(h))
       \/ Mode(h) = "mitm" /\ Go(c, Drop(h))
       \/ Go(c, Answered(IF HTTP(h) THEN [h EXCEPT !.client = "hijacked"] ELSE h))
    /\ UNCHANGED <<profile, key>>

----------------------------------------------------------------------------
(* establishUpstreamConn *)

\* What resolveRuleECHConfig's caller does with the configuration.
Resolved(h) ==
    [h EXCEPT !.pc = IF Mode(h) = "quic" THEN "serve" ELSE "dialWithRule"]

\* Variant: the retry reuses the configuration of the first attempt.
CachedECHConfig(h) == IF h.attempt = 0 THEN profile ELSE h.sent

\* The profile is read anew for every attempt.
GetBinaryECHConfig(h) == profile

ResolveECH(c) ==
    LET h == conn[c] IN
    /\ h.pc = "resolveECH"
    /\ \/ /\ h.req.rule.ech = "off"
          /\ Go(c, Resolved([h EXCEPT !.sent = 0]))
       \/ /\ HasProfile(h)
          /\ profile # 0 \/ h.req.rule.ech = "manual"
          /\ Go(c, Resolved([h EXCEPT !.sent = GetBinaryECHConfig(h)]))
       \/ /\ \/ h.req.rule.ech = "missing"
             \/ h.req.rule.ech = "auto" /\ profile = 0
          /\ Go(c, [h EXCEPT !.pc = "fetchECH"])
    /\ UNCHANGED <<profile, key>>

\* FetchECH: a failed lookup leaves the handshake without ECH.
FetchECH(c) ==
    LET h == conn[c] IN
    /\ h.pc = "fetchECH"
    /\ \/ Go(c, Resolved([h EXCEPT !.sent = 0]))
       \/ \E v \in 1 .. key :
             Go(c, IF HasProfile(h) THEN [h EXCEPT !.sent = v, !.pc = "syncECH"]
                   ELSE Resolved([h EXCEPT !.sent = v]))
    /\ UNCHANGED <<profile, key>>

\* Another goroutine has stored a configuration after h's refresh.
Disturbed(h) == [h EXCEPT !.disturbed = @ \/ h.fresh # 0]

\* UpdateECHProfileConfig by the handler of c, which goes on as h.
UpdateECHProfileConfig(c, v, h) ==
    /\ profile' = v
    /\ conn' = [d \in Conn |-> IF d = c THEN h ELSE Disturbed(conn[d])]
    /\ UNCHANGED key

\* The other writers: a DoH node that uses the same profile refreshes it after
\* a failed query, or the user saves it with another configuration
\* (UpsertECHProfile).
ExchangeNodeWithRetry ==
    /\ \E v \in 1 .. key : profile' = v
    /\ conn' = [d \in Conn |-> Disturbed(conn[d])]
    /\ UNCHANGED key

SyncECH(c) ==
    /\ conn[c].pc = "syncECH"
    /\ UpdateECHProfileConfig(c, conn[c].sent, Resolved(conn[c]))

\* The candidate is given up: the next one, or the handler's error path.
NextCandidate(h) ==
    LET g == [h EXCEPT !.untried = @ \ {Current(h)}]
    IN  IF g.untried = {} THEN Drop(g) ELSE StartAttempts(g)

DialWithRule(c) ==
    LET h == conn[c] IN
    /\ h.pc = "dialWithRule"
    /\ \/ Go(c, [h EXCEPT !.pc = "handshake", !.up = "open"])
       \/ Go(c, NextCandidate([h EXCEPT !.told = Tell(h, "failed")]))
    /\ UNCHANGED <<profile, key>>

\* uconn.Handshake: accepted, rejected for its ECH configuration, or failed.
HandshakeAccepted(c) ==
    LET h == conn[c] IN
    /\ h.pc = "handshake"
    /\ h.sent \in {0, key}
    /\ Go(c, [h EXCEPT !.pc = IF Mode(h) = "server" THEN "serve" ELSE "clientHandshake",
                       !.told = Tell(h, "ok"), !.attempt = 0, !.sent = 0, !.fresh = 0,
                       !.disturbed = FALSE])
    /\ UNCHANGED <<profile, key>>

\* Variant: a rejected retry is retried as well.
HandshakeRejectedAgain(c) ==
    LET h == conn[c] IN
    /\ h.pc = "handshake"
    /\ h.sent \notin {0, key}
    /\ Go(c, [h EXCEPT !.pc = "refreshECH", !.up = "closed"])
    /\ UNCHANGED <<profile, key>>

HandshakeRejected(c) ==
    LET h == conn[c] IN
    /\ h.pc = "handshake"
    /\ h.sent \notin {0, key}
    /\ h.attempt = 0
    /\ Go(c, [h EXCEPT !.pc = "refreshECH", !.up = "closed"])
    /\ UNCHANGED <<profile, key>>

\* Variant: a failed handshake is not reported to the pool.
HandshakeFailedUnreported(c) ==
    LET h == conn[c] IN
    /\ h.pc = "handshake"
    /\ Go(c, NextCandidate([h EXCEPT !.up = "closed"]))
    /\ UNCHANGED <<profile, key>>

\* Any other error, which every handshake may meet, or a second rejection.
HandshakeFailed(c) ==
    LET h == conn[c] IN
    /\ h.pc = "handshake"
    /\ Go(c, NextCandidate([h EXCEPT !.up = "closed", !.told = Tell(h, "failed")]))
    /\ UNCHANGED <<profile, key>>

\* Variant: a refresh that found nothing is stored and retried all the same.
RefreshECHIgnoresError(c) ==
    LET h == conn[c] IN
    /\ h.pc = "refreshECH"
    /\ \E v \in 0 .. key : Go(c, [h EXCEPT !.fresh = v, !.pc = "storeECH"])
    /\ UNCHANGED <<profile, key>>

\* ResolveECHSafe; without an answer the candidate is given up.
RefreshECH(c) ==
    LET h == conn[c] IN
    /\ h.pc = "refreshECH"
    /\ \/ \E v \in 1 .. key :
             Go(c, [h EXCEPT !.fresh = v,
                             !.pc = IF HasProfile(h) THEN "storeECH" ELSE "resolveECH",
                             !.attempt = IF HasProfile(h) THEN @ ELSE @ + 1])
       \/ Go(c, NextCandidate([h EXCEPT !.told = Tell(h, "failed")]))
    /\ UNCHANGED <<profile, key>>

StoreECH(c) ==
    LET h == conn[c] IN
    /\ h.pc = "storeECH"
    /\ UpdateECHProfileConfig(c, h.fresh,
          [h EXCEPT !.pc = "resolveECH", !.attempt = @ + 1, !.disturbed = FALSE])

----------------------------------------------------------------------------
(* The client's TLS handshake, TLS-RF, tunnels *)

\* Server and QUIC mode: before the upstream; MITM mode: after it.
ClientHandshake(c) ==
    LET h == conn[c] IN
    /\ h.pc = "clientHandshake"
    /\ \/ Go(c, Drop([h EXCEPT !.up = Closed(@)]))
       \/ Mode(h) = "mitm" /\ Go(c, StartTunnel(h))
       \/ Mode(h) = "quic" /\ Go(c, StartAttempts(h))
       \/ /\ Mode(h) = "server"
          /\ \E cands \in ServerCandidates(h.req.rule) :
                Go(c, StartAttempts([h EXCEPT !.cands = cands, !.untried = cands]))
    /\ UNCHANGED <<profile, key>>

\* The loop of srv.Serve over the one connection ends when that is closed.
ServeOver(c) ==
    /\ conn[c].pc = "serve"
    /\ Go(c, Drop([conn[c] EXCEPT !.up = Closed(@)]))
    /\ UNCHANGED <<profile, key>>

\* handleTLSFragment up to the fragmented ClientHello.
HandleTLSFragment(c) ==
    LET h == conn[c] IN
    /\ h.pc = "clientHello"
    /\ \/ Go(c, DropBoth(h))                 \* no record, no ClientHello, write failed
       \/ Go(c, StartTunnel(h))              \* no SNI: sent as it is
       \/ Go(c, IF h.req.rule.fallback THEN [h EXCEPT !.pc = "probe"] ELSE StartTunnel(h))
       \/ /\ h.req.rule.fallback             \* sending the fragments failed
          /\ Go(c, [h EXCEPT !.pc = "fallback", !.raw = "closed"])
    /\ UNCHANGED <<profile, key>>

Probe(c) ==
    LET h == conn[c] IN
    /\ h.pc = "probe"
    /\ \/ Go(c, StartTunnel(h))
       \/ Go(c, [h EXCEPT !.pc = "fallback", !.raw = "closed"])
    /\ UNCHANGED <<profile, key>>

\* handleTLSRFFallback: dial the server, repeat the ClientHello.
Fallback(c) ==
    LET h == conn[c] IN
    /\ h.pc = "fallback"
    /\ \/ Go(c, Drop(h))
       \/ Go(c, Drop([h EXCEPT !.up = "closed"]))
       \/ Go(c, StartTunnel([h EXCEPT !.up = "open"]))
    /\ UNCHANGED <<profile, key>>

\* The upstream end of a tunnel: the connection that was opened last.
CloseUpstream(h) ==
    IF h.up = "none" THEN [h EXCEPT !.raw = Closed(@)] ELSE [h EXCEPT !.up = Closed(@)]

UpstreamOpen(h) == IF h.up = "none" THEN h.raw = "open" ELSE h.up = "open"

SourceOpen(h, d) == IF d = "toUpstream" THEN h.client # "closed" ELSE UpstreamOpen(h)

\* A copying goroutine has read something and writes it, or has written it.
CopyData(c, d) ==
    LET h == conn[c] IN
    /\ h.pc = "tunnel"
    /\ \/ /\ h.copy[d] = "read"
          /\ SourceOpen(h, d)
          /\ Go(c, [h EXCEPT !.copy[d] = "write"])
       \/ /\ h.copy[d] = "write"
          /\ Go(c, [h EXCEPT !.copy[d] = "read"])
    /\ UNCHANGED <<profile, key>>

\* Variant: a goroutine that ends closes the connection it read from.
CopyEndsClosingSource(c, d) ==
    LET h == [conn[c] EXCEPT !.copy[d] = "over"] IN
    /\ conn[c].pc = "tunnel"
    /\ conn[c].copy[d] \in {"read", "write"}
    /\ Go(c, IF d = "toClient" THEN CloseUpstream(h) ELSE [h EXCEPT !.client = "closed"])
    /\ UNCHANGED <<profile, key>>

\* It ends, at EOF or on an error, and closes the connection it wrote to.
CopyEnds(c, d) ==
    LET h == [conn[c] EXCEPT !.copy[d] = "over"] IN
    /\ conn[c].pc = "tunnel"
    /\ conn[c].copy[d] \in {"read", "write"}
    /\ Go(c, IF d = "toUpstream" THEN CloseUpstream(h) ELSE [h EXCEPT !.client = "closed"])
    /\ UNCHANGED <<profile, key>>

\* wg.Wait() returns.
TunnelOver(c) ==
    /\ conn[c].pc = "tunnel"
    /\ \A d \in Direction : conn[c].copy[d] = "over"
    /\ Go(c, Return(conn[c]))
    /\ UNCHANGED <<profile, key>>

\* The servers publish a new ECH key.
RotateKey ==
    /\ key < MaxKey
    /\ key' = key + 1
    /\ UNCHANGED <<conn, profile>>

Init ==
    /\ conn = [c \in Conn |-> Idle(CHOOSE q \in Request : TRUE)]
    /\ profile \in {0, 1}
    /\ key = 1

\* The steps that end by themselves: a timeout, or no waiting at all.
Timed(c) ==
    \/ DirectConnect(c) \/ DialUpstream(c) \/ Hijack(c)
    \/ ResolveECH(c) \/ FetchECH(c) \/ SyncECH(c)
    \/ DialWithRule(c) \/ RefreshECH(c) \/ StoreECH(c)
    \/ HandleTLSFragment(c) \/ Probe(c) \/ Fallback(c) \/ TunnelOver(c)

\* The steps that wait for a peer as long as it likes.
Untimed(c) ==
    \/ Accept(c) \/ ClientHandshake(c) \/ ServeOver(c)
    \/ HandshakeAccepted(c) \/ HandshakeRejected(c) \/ HandshakeFailed(c)
    \/ \E d \in Direction : CopyData(c, d) \/ CopyEnds(c, d)

Next ==
    \/ \E c \in Conn : Timed(c) \/ Untimed(c)
    \/ RotateKey
    \/ ExchangeNodeWithRetry

Spec == Init /\ [][Next]_vars

\* A read from a connection this process has closed returns at once.
ReadFails(c, d) ==
    /\ conn[c].copy[d] = "read"
    /\ ~ SourceOpen(conn[c], d)
    /\ CopyEnds(c, d)

FairSpec ==
    /\ Spec
    /\ \A c \in Conn : WF_vars(Timed(c))
    /\ \A c \in Conn, d \in Direction : WF_vars(ReadFails(c, d))

----------------------------------------------------------------------------
(* Properties *)

TypeOK ==
    /\ conn \in [Conn -> Handler]
    /\ profile \in Versions
    /\ key \in 1 .. MaxKey

(* No error path of the handlers leaks a connection: when the handler has  *)
(* returned, what it opened or hijacked is closed.  One exception is in    *)
(* the code: in MITM mode handleConnect never closes cr.conn, which only   *)
(* tested that the address answers.                                        *)
LeaksProbe(h) == HTTP(h) /\ Mode(h) = "mitm"

NothingLeftOpen ==
    \A c \in Conn : conn[c].pc = "done" =>
        /\ conn[c].up # "open"
        /\ conn[c].client # "hijacked"
        /\ conn[c].raw # "open" \/ LeaksProbe(conn[c])

(* The second attempt at a candidate uses the configuration that the       *)
(* refresh brought (establishUpstreamConn passes it through the profile)   *)
(* unless another handler, a DoH node or the user stored one in between.   *)
RetryUsesRefreshed ==
    \A c \in Conn :
        LET h == conn[c] IN
        h.pc = "handshake" /\ h.attempt = 1 /\ HasProfile(h) /\ ~ h.disturbed
            => h.sent = h.fresh

(* Whatever the other writers store meanwhile, a retry after a rejection   *)
(* never goes out without ECH when the rule's profile exists and nobody    *)
(* empties it.                                                             *)
RetryNeverInClear ==
    \A c \in Conn :
        conn[c].pc = "handshake" /\ conn[c].attempt = 1 /\ HasProfile(conn[c])
            => conn[c].sent # 0

(* The pool has heard of every candidate that establishUpstreamConn gave   *)
(* up, also where dialUpstream had reported the same address as working.   *)
Establishing == {"resolveECH", "fetchECH", "syncECH", "dialWithRule", "handshake",
                 "refreshECH", "storeECH"}

LosersReported ==
    \A c \in Conn :
        conn[c].pc \in Establishing /\ conn[c].req.rule.pool /\ Mode(conn[c]) # "quic" =>
            \A a \in conn[c].cands \ conn[c].untried : conn[c].told[a] = "failed"

(* A handler comes to rest: it has returned, it waits for a peer that has  *)
(* no deadline, or it is tunnelling; a half-closed tunnel rests only while *)
(* its other direction is stuck in a write.  The retries are finite.       *)
Resting(h) ==
    \/ h.pc \in {"idle", "handshake", "clientHandshake", "serve", "done"}
    \/ /\ h.pc = "tunnel"
       /\ \/ \A d \in Direction : h.copy[d] # "over"
          \/ \E d \in Direction : h.copy[d] = "write"

EveryHandlerSettles == \A c \in Conn : <>[]Resting(conn[c])
=============================================================================
