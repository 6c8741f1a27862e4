------------------------- MODULE ConnectPathProofs -------------------------
(***************************************************************************)
(* Proofs about ConnectPath, for any number of connections, any traffic,   *)
(* any number of candidates and of key changes.                            *)
(***************************************************************************)
EXTENDS ConnectPath, WellFoundedInduction, TLAPS

(* The inductive invariant, handler by handler; p is the stored profile.   *)

\* Which connections exist at which step.
Stage(h) ==
    /\ h.pc \in {"idle", "directConnect", "dialUpstream", "hijack"}
          => h.up = "none" /\ h.client = "server"
    /\ h.pc \in {"idle", "directConnect", "dialUpstream"} => h.raw = "none"
    /\ h.pc \in {"directConnect", "dialUpstream"} => Mode(h) \notin {"server", "quic"}
    /\ Mode(h) \in {"server", "quic"} => h.raw = "none"
    /\ h.pc \in Establishing \cup {"clientHandshake"}
          => Mode(h) \in {"mitm", "server", "quic"}
    /\ h.pc \in Establishing \ {"handshake"} => h.up # "open"
    /\ h.pc = "clientHandshake" /\ Mode(h) \in {"server", "quic"} => h.up = "none"
    /\ h.pc \in {"dialWithRule", "handshake", "refreshECH", "storeECH"} => Mode(h) # "quic"
    /\ h.pc = "serve" => Mode(h) \in {"server", "quic"}
    /\ h.pc \in {"clientHello", "probe", "fallback"} => Mode(h) = "tls-rf"
    /\ h.pc \in {"clientHello", "probe"} => h.up = "none"
    /\ h.pc = "fallback" => h.up = "none" /\ h.raw = "closed"

\* The direction that ended closed its destination.
Halves(h) ==
    h.pc = "tunnel" =>
        /\ h.copy["toUpstream"] = "over" => ~ UpstreamOpen(h)
        /\ h.copy["toClient"] = "over" => h.client = "closed"
        /\ h.up # "none" => Mode(h) = "mitm" \/ h.raw # "open"

\* Nothing is open when the handler has returned.
Ended(h) ==
    h.pc = "done" =>
        /\ h.up # "open"
        /\ h.client # "hijacked"
        /\ h.raw # "open" \/ LeaksProbe(h)

\* The candidates still to be tried, and what was said of the others.
Tries(h) ==
    /\ h.cands # {}
    /\ h.untried \subseteq h.cands
    /\ h.pc = "dialUpstream" => h.untried # {}
    /\ h.pc \in Establishing /\ Mode(h) # "quic" =>
          /\ h.untried # {}
          /\ h.req.rule.pool => \A a \in h.cands \ h.untried : h.told[a] = "failed"

\* The versions of the ECH configuration that a handler holds.
Held(h, p) ==
    /\ h.pc = "syncECH" => h.sent # 0
    /\ h.pc = "storeECH" => h.fresh # 0 /\ HasProfile(h)
    /\ h.pc \in {"refreshECH", "storeECH"} => h.attempt = 0
    /\ h.pc \in {"fetchECH", "syncECH"} /\ HasProfile(h) => h.attempt = 0
    /\ h.attempt = 1 =>
          /\ h.pc \in {"resolveECH", "fetchECH", "syncECH", "dialWithRule", "handshake"}
          /\ h.fresh # 0 /\ Mode(h) # "quic"
    /\ h.attempt = 1 /\ HasProfile(h) =>
          /\ p # 0
          /\ h.pc = "resolveECH" /\ ~ h.disturbed => p = h.fresh
          /\ h.pc \in {"dialWithRule", "handshake"} =>
                h.sent # 0 /\ (~ h.disturbed => h.sent = h.fresh)

Ok(h, p) == h \in Handler /\ Stage(h) /\ Halves(h) /\ Ended(h) /\ Tries(h) /\ Held(h, p)

IInv ==
    /\ TypeOK
    /\ \A c \in Conn : Ok(conn[c], profile)

----------------------------------------------------------------------------
(* What the helpers return *)

(* The loops over candidates find a next one while any is left.            *)
LEMMA CurrentUntried ==
    ASSUME NEW h, h.untried \subseteq Candidates, h.untried # {}
    PROVE  Current(h) \in h.untried
<1>1. h.untried \subseteq Nat
  BY CandidatesAssumption DEF Candidates
<1>2. PICK a \in h.untried : \A b \in h.untried : ~ (<<b, a>> \in OpToRel(<, Nat))
  BY <1>1, NatLessThanWellFounded, WFMin
<1>3. \A b \in h.untried : a <= b
  <2>1. \A x, y \in Nat : x < y => <<x, y>> \in OpToRel(<, Nat)
    BY DEF OpToRel
  <2>2. \A b \in h.untried : ~ (b < a)
    BY <1>1, <1>2, <2>1
  <2> QED
    BY <1>1, <2>2
<1>4. CASE h.first \in h.untried
  BY <1>4 DEF Current
<1>5. CASE h.first \notin h.untried
  <2>1. \E x \in h.untried : \A b \in h.untried : x <= b
    BY <1>3
  <2>2. Current(h) = CHOOSE x \in h.untried : \A b \in h.untried : x <= b
    BY <1>5 DEF Current
  <2> QED
    BY <2>1, <2>2, Zenon
<1> QED
  BY <1>4, <1>5

(* The values that the handlers start from.                                *)
LEMMA Basics ==
    /\ 0 \in Versions /\ 1 \in Candidates /\ {1} \subseteq Candidates
    /\ Untold \in [Candidates -> {"", "ok", "failed"}]
    /\ NoCopy \in [Direction -> Copying]
    /\ [d \in Direction |-> "read"] \in [Direction -> Copying]
    /\ \A x \in Sockets : Closed(x) \in Sockets
<1>1. 0 \in Versions /\ 1 \in Candidates
  BY KeyAssumption, CandidatesAssumption DEF Versions, Candidates
<1> QED
  BY <1>1 DEF Untold, NoCopy, Copying, Sockets, Closed

(* A handler that returns with its connections closed is fine.             *)
LEMMA ReturnOk ==
    ASSUME NEW h \in Handler, NEW p,
           h.up # "open", h.client # "hijacked",
           HTTP(h) /\ Mode(h) # "mitm" => h.raw # "open",
           Mode(h) \in {"server", "quic"} => h.raw = "none"
    PROVE  Ok(Return(h), p)
<1> DEFINE g == Return(h)
           r == IF HTTP(h) THEN h.raw ELSE Closed(h.raw)
           i == Idle(h.req)
<1>a. r \in Sockets
  BY DEF Handler, Sockets, Closed
<1>b. h.req \in Request /\ h.up \in Sockets /\ h.client \in {"server", "hijacked", "closed"}
  BY DEF Handler
<1>c. /\ i \in Handler
      /\ i.req = h.req /\ i.cands = {1} /\ i.untried = {} /\ i.attempt = 0
  BY <1>b, Basics DEF Idle, Handler, Steps, Sockets
<1>d. g = [i EXCEPT !.pc = "done", !.up = h.up, !.client = h.client, !.raw = r]
  BY DEF Return
<1>1. /\ g \in Handler
      /\ g.pc = "done" /\ g.req = h.req /\ g.up = h.up /\ g.client = h.client
      /\ g.raw = (IF HTTP(h) THEN h.raw ELSE Closed(h.raw))
      /\ g.cands = {1} /\ g.untried = {} /\ g.attempt = 0
  <2> HIDE DEF r, i, g
  <2>1. "done" \in Steps
    BY DEF Steps
  <2>2. /\ g \in Handler
        /\ g.pc = "done" /\ g.req = h.req /\ g.up = h.up /\ g.client = h.client
        /\ g.raw = r /\ g.cands = {1} /\ g.untried = {} /\ g.attempt = 0
    BY <1>a, <1>b, <1>c, <1>d, <2>1 DEF Handler
  <2> QED
    BY <2>2 DEF r
<1> HIDE DEF g
<1>2. Mode(g) = Mode(h) /\ HTTP(g) = HTTP(h)
  BY <1>1 DEF Mode, HTTP
<1> QED
  BY <1>1, <1>2 DEF Ok, Stage, Halves, Ended, Tries, Held, Establishing, LeaksProbe, Closed, g

(* A tunnel starts with both directions running.                           *)
LEMMA TunnelOk ==
    ASSUME NEW h \in Handler, NEW p,
           Mode(h) \notin {"server", "quic"},
           h.up # "none" => Mode(h) = "mitm" \/ h.raw # "open"
    PROVE  Ok(StartTunnel(h), p)
<1> DEFINE g == StartTunnel(h)
<1>1. /\ g \in Handler
      /\ g.pc = "tunnel" /\ g.req = h.req /\ g.up = h.up /\ g.raw = h.raw
      /\ g.cands = {1} /\ g.untried = {} /\ g.attempt = 0
      /\ g.copy["toUpstream"] = "read" /\ g.copy["toClient"] = "read"
  BY Basics DEF StartTunnel, Idle, Handler, Steps, Sockets, Direction
<1> HIDE DEF g
<1>2. Mode(g) = Mode(h)
  BY <1>1 DEF Mode
<1> QED
  BY <1>1, <1>2 DEF Ok, Stage, Halves, Ended, Tries, Held, Establishing, g

(* The first attempt at a candidate.                                       *)
LEMMA AttemptsOk ==
    ASSUME NEW h \in Handler, NEW p,
           Mode(h) \in {"mitm", "server", "quic"},
           Mode(h) \in {"server", "quic"} => h.raw = "none",
           h.up # "open", h.cands # {}, h.untried \subseteq h.cands,
           Mode(h) # "quic" => h.untried # {},
           Mode(h) # "quic" /\ h.req.rule.pool =>
              \A a \in h.cands \ h.untried : h.told[a] = "failed"
    PROVE  Ok(StartAttempts(h), p)
<1> DEFINE g == StartAttempts(h)
<1>1. /\ g \in Handler
      /\ g.pc = "resolveECH" /\ g.req = h.req /\ g.up = h.up /\ g.raw = h.raw
      /\ g.cands = h.cands /\ g.untried = h.untried /\ g.attempt = 0 /\ g.told = h.told
  BY Basics DEF StartAttempts, Handler, Steps
<1> HIDE DEF g
<1>2. Mode(g) = Mode(h)
  BY <1>1 DEF Mode
<1> QED
  BY <1>1, <1>2 DEF Ok, Stage, Halves, Ended, Tries, Held, Establishing, g

(* A candidate that was reported is given up.                              *)
LEMMA NextCandidateOk ==
    ASSUME NEW h \in Handler, NEW p,
           Mode(h) \in {"mitm", "server"},
           Mode(h) = "server" => h.raw = "none",
           h.up # "open", h.cands # {}, h.untried \subseteq h.cands, h.untried # {},
           h.req.rule.pool =>
              /\ \A a \in h.cands \ h.untried : h.told[a] = "failed"
              /\ h.told[Current(h)] = "failed"
    PROVE  Ok(NextCandidate(h), p)
<1> DEFINE g == [h EXCEPT !.untried = @ \ {Current(h)}]
           k == [g EXCEPT !.client = "closed"]
<1>1. /\ g \in Handler
      /\ g.req = h.req /\ g.up = h.up /\ g.raw = h.raw /\ g.cands = h.cands
      /\ g.untried = h.untried \ {Current(h)} /\ g.told = h.told
  BY DEF Handler
<1>2. /\ k \in Handler
      /\ k.req = h.req /\ k.up = h.up /\ k.raw = h.raw /\ k.client = "closed"
  BY DEF Handler
<1>3. NextCandidate(h) = IF g.untried = {} THEN Return(k) ELSE StartAttempts(g)
  BY DEF NextCandidate, Drop
<1> HIDE DEF g, k
<1>4. Mode(g) = Mode(h) /\ Mode(k) = Mode(h)
  BY <1>1, <1>2 DEF Mode
<1>5. Ok(Return(k), p)
  BY <1>2, <1>4, ReturnOk
<1>6. g.untried # {} => Ok(StartAttempts(g), p)
  BY <1>1, <1>4, AttemptsOk
<1> QED
  BY <1>3, <1>5, <1>6

(* The client has its answer.                                              *)
LEMMA AnsweredOk ==
    ASSUME NEW h \in Handler, NEW p,
           Mode(h) \in {"server", "quic"} => h.raw = "none",
           h.up = "none", h.cands # {}, h.untried \subseteq h.cands, h.attempt = 0
    PROVE  Ok(Answered(h), p)
<1>1. CASE Mode(h) \in {"server", "quic"}
  <2> DEFINE g == [h EXCEPT !.pc = "clientHandshake"]
  <2>1. /\ g \in Handler /\ g.pc = "clientHandshake" /\ g.req = h.req /\ g.raw = h.raw
        /\ g.up = "none" /\ g.cands = h.cands /\ g.untried = h.untried /\ g.attempt = 0
    BY DEF Handler, Steps
  <2>2. Answered(h) = g
    BY <1>1 DEF Answered
  <2> HIDE DEF g
  <2>3. Mode(g) = Mode(h)
    BY <2>1 DEF Mode
  <2>4. Ok(g, p)
    BY <1>1, <2>1, <2>3 DEF Ok, Stage, Halves, Ended, Tries, Held, Establishing
  <2> QED
    BY <2>2, <2>4
<1>2. CASE Mode(h) = "mitm"
  <2> DEFINE g == [h EXCEPT !.untried = h.cands]
  <2>1. /\ g \in Handler /\ g.req = h.req /\ g.up = h.up
        /\ g.cands = h.cands /\ g.untried = h.cands
    BY DEF Handler
  <2>2. Answered(h) = StartAttempts(g)
    BY <1>2 DEF Answered
  <2> HIDE DEF g
  <2>3. Mode(g) = Mode(h)
    BY <2>1 DEF Mode
  <2> QED
    BY <1>2, <2>1, <2>2, <2>3, AttemptsOk
<1>3. CASE Mode(h) = "tls-rf"
  <2> DEFINE g == [h EXCEPT !.pc = "clientHello"]
  <2>1. /\ g \in Handler /\ g.pc = "clientHello" /\ g.req = h.req /\ g.up = "none"
        /\ g.cands = h.cands /\ g.untried = h.untried /\ g.attempt = 0
    BY DEF Handler, Steps
  <2>2. Answered(h) = g
    BY <1>3 DEF Answered
  <2> HIDE DEF g
  <2>3. Mode(g) = "tls-rf"
    BY <1>3, <2>1 DEF Mode
  <2>4. Ok(g, p)
    BY <2>1, <2>3 DEF Ok, Stage, Halves, Ended, Tries, Held, Establishing
  <2> QED
    BY <2>2, <2>4
<1>4. CASE Mode(h) \notin {"server", "quic", "mitm", "tls-rf"}
  <2>1. Answered(h) = StartTunnel(h)
    BY <1>4 DEF Answered
  <2> QED
    BY <1>4, <2>1, TunnelOk
<1> QED
  BY <1>1, <1>2, <1>3, <1>4

(* A step of one handler that leaves the profile alone preserves the       *)
(* invariant when the handler it leads to is fine.                         *)
LEMMA GoOk ==
    ASSUME IInv, NEW c \in Conn, NEW g, Ok(g, profile), Go(c, g),
           profile' = profile, key' \in 1 .. MaxKey
    PROVE  IInv'
<1>1. conn' = [conn EXCEPT ![c] = g] /\ conn \in [Conn -> Handler] /\ g \in Handler
  BY DEF Go, IInv, TypeOK, Ok
<1>2. conn' \in [Conn -> Handler] /\ conn'[c] = g
  BY <1>1
<1>3. \A d \in Conn : Ok(conn'[d], profile)
  <2> SUFFICES ASSUME NEW d \in Conn PROVE Ok(conn'[d], profile)
    OBVIOUS
  <2>1. CASE d = c
    BY <1>2, <2>1
  <2>2. CASE d # c
    <3>1. conn'[d] = conn[d]
      BY <1>1, <2>2
    <3> QED
      BY <3>1 DEF IInv
  <2> QED
    BY <2>1, <2>2
<1>4. TypeOK'
  BY <1>2 DEF IInv, TypeOK
<1> QED
  BY <1>3, <1>4 DEF IInv

(* A handler stays fine when somebody else stores a configuration, which   *)
(* is never empty.                                                         *)
LEMMA DisturbedOk ==
    ASSUME NEW h, NEW p, NEW v \in Versions \ {0}, Ok(h, p)
    PROVE  Ok(Disturbed(h), v)
<1> DEFINE k == Disturbed(h)
<1>1. h \in Handler
  BY DEF Ok
<1>2. k = [h EXCEPT !.disturbed = @ \/ h.fresh # 0]
  BY DEF Disturbed
<1> HIDE DEF k
<1>3. /\ k \in Handler
      /\ k.pc = h.pc /\ k.req = h.req /\ k.cands = h.cands /\ k.untried = h.untried
      /\ k.attempt = h.attempt /\ k.raw = h.raw /\ k.up = h.up
      /\ k.client = h.client /\ k.sent = h.sent /\ k.fresh = h.fresh
      /\ k.copy = h.copy /\ k.told = h.told
      /\ h.fresh # 0 => k.disturbed
  BY <1>1, <1>2 DEF Handler
<1>4. Mode(k) = Mode(h) /\ HTTP(k) = HTTP(h) /\ HasProfile(k) = HasProfile(h)
  BY <1>3 DEF Mode, HTTP, HasProfile
<1>5. Stage(k) /\ Halves(k) /\ Ended(k) /\ Tries(k)
  BY <1>3, <1>4 DEF Ok, Stage, Halves, Ended, Tries, UpstreamOpen, LeaksProbe
<1>6. Held(k, v)
  BY <1>3, <1>4 DEF Ok, Held
<1> QED
  BY <1>3, <1>5, <1>6 DEF Ok, k

(* So a step that stores a configuration preserves the invariant.          *)
LEMMA UpdateOk ==
    ASSUME IInv, NEW c \in Conn, NEW v \in Versions \ {0}, NEW g, Ok(g, v),
           UpdateECHProfileConfig(c, v, g)
    PROVE  IInv'
<1>1. /\ profile' = v /\ key' = key
      /\ conn' = [d \in Conn |-> IF d = c THEN g ELSE Disturbed(conn[d])]
  BY DEF UpdateECHProfileConfig
<1>2. \A d \in Conn : Ok(conn[d], profile)
  BY DEF IInv
<1>3. \A d \in Conn : Ok(Disturbed(conn[d]), v)
  BY <1>2, DisturbedOk
<1>4. \A d \in Conn : Ok(conn'[d], v)
  BY <1>1, <1>3
<1>5. conn' \in [Conn -> Handler]
  BY <1>1, <1>4 DEF Ok
<1>6. TypeOK'
  BY <1>1, <1>5 DEF IInv, TypeOK
<1> QED
  BY <1>1, <1>4, <1>6 DEF IInv

(* The same for the writers that are no handlers.                          *)
LEMMA ExchangeOk ==
    ASSUME IInv, ExchangeNodeWithRetry
    PROVE  IInv'
<1>1. PICK v \in 1 .. key : profile' = v
  BY DEF ExchangeNodeWithRetry
<1>2. conn' = [d \in Conn |-> Disturbed(conn[d])] /\ key' = key
  BY DEF ExchangeNodeWithRetry
<1>3. v \in Versions \ {0}
  BY <1>1, KeyAssumption DEF IInv, TypeOK, Versions
<1>4. \A d \in Conn : Ok(conn[d], profile)
  BY DEF IInv
<1>5. \A d \in Conn : Ok(Disturbed(conn[d]), v)
  BY <1>3, <1>4, DisturbedOk
<1>6. \A d \in Conn : Ok(conn'[d], v)
  BY <1>2, <1>5
<1>7. conn' \in [Conn -> Handler]
  BY <1>2, <1>6 DEF Ok
<1>8. TypeOK'
  BY <1>1, <1>2, <1>3, <1>7 DEF IInv, TypeOK
<1> QED
  BY <1>1, <1>6, <1>8 DEF IInv

(* buildDialCandidates returns at least one address.                       *)
LEMMA CandidateListOk ==
    ASSUME NEW cands \in BuildDialCandidates
    PROVE  cands \subseteq Candidates /\ cands # {}
<1>1. PICK n \in Candidates : cands = 1 .. n
  BY DEF BuildDialCandidates
<1>2. n \in Nat /\ 1 <= n /\ n <= MaxCandidates
  BY CandidatesAssumption DEF Candidates
<1>3. 1 \in cands
  BY <1>1, <1>2
<1>4. cands \subseteq Candidates
  BY <1>1, <1>2, CandidatesAssumption DEF Candidates
<1> QED
  BY <1>3, <1>4

----------------------------------------------------------------------------
(* The invariant *)

(* It holds when no connection has arrived.                                *)
LEMMA InitOk == Init => IInv
<1> SUFFICES ASSUME Init PROVE IInv
  OBVIOUS
<1> DEFINE q == CHOOSE q \in Request : TRUE
<1>1. q \in Request
  <2> DEFINE r == [mode |-> "direct", policy |-> "", ech |-> "off",
                   fallback |-> FALSE, pool |-> FALSE]
  <2>1. r \in Rule
    BY DEF Rule, Modes, Policies
  <2> HIDE DEF r
  <2>2. [entry |-> "http", rule |-> r] \in Request
    BY <2>1 DEF Request, Entries
  <2> QED
    BY <2>2, Zenon
<1> DEFINE h == Idle(q)
<1>2. /\ h \in Handler
      /\ h.pc = "idle" /\ h.raw = "none" /\ h.up = "none" /\ h.client = "server"
      /\ h.cands = {1} /\ h.untried = {} /\ h.attempt = 0
  BY <1>1, Basics DEF Idle, Handler, Steps, Sockets
<1>3. conn = [c \in Conn |-> h]
  BY DEF Init
<1> HIDE DEF h, q
<1>4. Ok(h, profile)
  BY <1>2 DEF Ok, Stage, Halves, Ended, Tries, Held, Establishing
<1>5. TypeOK
  BY <1>2, <1>3, KeyAssumption DEF Init, TypeOK, Versions
<1> QED
  BY <1>3, <1>4, <1>5 DEF IInv

(* Arrival of a request.                                                   *)
LEMMA AcceptOk ==
    ASSUME IInv, NEW c \in Conn, Accept(c)
    PROVE  IInv'
<1>1. PICK q \in Traffic[c], cands \in BuildDialCandidates :
         \/ q.entry = "http" /\ Go(c, HandleConnect(Idle(q), cands))
         \/ q.entry = "socks5" /\ Go(c, HandleSocks5Connect(Idle(q), cands))
         \/ q.entry = "socks5" /\ Go(c, Return(Idle(q)))
  BY DEF Accept
<1>2. q \in Request
  BY TrafficAssumption
<1>3. cands \subseteq Candidates /\ cands # {}
  BY CandidateListOk
<1> DEFINE h == Idle(q)
<1>4. /\ h \in Handler
      /\ h.pc = "idle" /\ h.raw = "none" /\ h.up = "none" /\ h.client = "server"
      /\ h.cands = {1} /\ h.untried = {} /\ h.attempt = 0
  BY <1>2, Basics DEF Idle, Handler, Steps, Sockets
<1> HIDE DEF h
<1> DEFINE direct == [h EXCEPT !.pc = "directConnect"]
           hijack == [h EXCEPT !.pc = "hijack"]
           dial == [h EXCEPT !.pc = "dialUpstream", !.cands = cands, !.untried = cands]
<1>5. Ok(Return(h), profile)
  BY <1>4, ReturnOk
<1>6. Ok(Answered(h), profile)
  BY <1>4, AnsweredOk
<1>7. Mode(h) = "direct" => Ok(direct, profile)
  <2>1. /\ direct \in Handler /\ direct.pc = "directConnect" /\ direct.req = h.req
        /\ direct.raw = "none" /\ direct.up = "none" /\ direct.client = "server"
        /\ direct.cands = {1} /\ direct.untried = {} /\ direct.attempt = 0
    BY <1>4 DEF Handler, Steps
  <2> HIDE DEF direct
  <2>2. Mode(direct) = Mode(h)
    BY <2>1 DEF Mode
  <2> QED
    BY <2>1, <2>2 DEF Ok, Stage, Halves, Ended, Tries, Held, Establishing
<1>8. Ok(hijack, profile)
  <2>1. /\ hijack \in Handler /\ hijack.pc = "hijack"
        /\ hijack.raw = "none" /\ hijack.up = "none" /\ hijack.client = "server"
        /\ hijack.cands = {1} /\ hijack.untried = {} /\ hijack.attempt = 0
    BY <1>4 DEF Handler, Steps
  <2> HIDE DEF hijack
  <2> QED
    BY <2>1 DEF Ok, Stage, Halves, Ended, Tries, Held, Establishing
<1>9. Mode(h) \notin {"server", "quic"} => Ok(dial, profile)
  <2>1. /\ dial \in Handler /\ dial.pc = "dialUpstream" /\ dial.req = h.req
        /\ dial.raw = "none" /\ dial.up = "none" /\ dial.client = "server"
        /\ dial.cands = cands /\ dial.untried = cands /\ dial.attempt = 0
    BY <1>3, <1>4 DEF Handler, Steps
  <2> HIDE DEF dial
  <2>2. Mode(dial) = Mode(h)
    BY <2>1 DEF Mode
  <2> QED
    BY <1>3, <2>1, <2>2 DEF Ok, Stage, Halves, Ended, Tries, Held, Establishing
<1> HIDE DEF direct, hijack, dial
<1>10. Ok(HandleConnect(h, cands), profile)
  BY <1>5, <1>7, <1>8, <1>9 DEF HandleConnect, direct, hijack, dial
<1>11. Ok(HandleSocks5Connect(h, cands), profile)
  BY <1>6, <1>7, <1>9 DEF HandleSocks5Connect, direct, dial
<1>12. profile' = profile /\ key' \in 1 .. MaxKey
  BY DEF Accept, IInv, TypeOK
<1>13. \E g : Ok(g, profile) /\ Go(c, g)
  BY <1>1, <1>5, <1>10, <1>11 DEF h
<1> QED
  BY <1>12, <1>13, GoOk

(* The configuration is resolved: the dial, or the QUIC transport, follows. *)
LEMMA ResolvedOk ==
    ASSUME NEW h \in Handler, NEW p, Stage(h), Tries(h),
           h.pc \in {"resolveECH", "fetchECH", "syncECH"},
           h.attempt = 1 => h.fresh # 0 /\ Mode(h) # "quic",
           h.attempt = 1 /\ HasProfile(h) =>
              p # 0 /\ h.sent # 0 /\ (~ h.disturbed => h.sent = h.fresh)
    PROVE  Ok(Resolved(h), p)
<1> DEFINE g == Resolved(h)
<1>1. /\ g \in Handler
      /\ g.pc = (IF Mode(h) = "quic" THEN "serve" ELSE "dialWithRule")
      /\ g.req = h.req /\ g.up = h.up /\ g.raw = h.raw /\ g.client = h.client
      /\ g.cands = h.cands /\ g.untried = h.untried /\ g.told = h.told
      /\ g.attempt = h.attempt /\ g.sent = h.sent /\ g.fresh = h.fresh
      /\ g.disturbed = h.disturbed
  BY DEF Resolved, Handler, Steps
<1> HIDE DEF g
<1>2. Mode(g) = Mode(h) /\ HasProfile(g) = HasProfile(h)
  BY <1>1 DEF Mode, HasProfile
<1>3. g.attempt \in {0, 1}
  BY <1>1 DEF Handler
<1>4. Stage(g) /\ Halves(g) /\ Ended(g)
  BY <1>1, <1>2 DEF Stage, Halves, Ended, Establishing
<1>5. Tries(g)
  BY <1>1, <1>2 DEF Tries, Establishing
<1>6. Held(g, p)
  BY <1>1, <1>2, <1>3 DEF Held
<1> QED
  BY <1>1, <1>4, <1>5, <1>6 DEF Ok, g

(* Reports to the pool.                                                    *)
LEMMA TellOk ==
    ASSUME NEW h \in Handler, h.untried # {}, NEW what \in {"ok", "failed"}
    PROVE  /\ Tell(h, what) \in [Candidates -> {"", "ok", "failed"}]
           /\ Current(h) \in h.untried /\ Current(h) \in Candidates
           /\ h.req.rule.pool =>
                 /\ Tell(h, what)[Current(h)] = what
                 /\ \A a \in Candidates \ {Current(h)} : Tell(h, what)[a] = h.told[a]
<1>1. h.untried \subseteq Candidates /\ h.told \in [Candidates -> {"", "ok", "failed"}]
  BY DEF Handler
<1>2. Current(h) \in h.untried
  BY <1>1, CurrentUntried
<1> QED
  BY <1>1, <1>2 DEF Tell

(* The steps up to the answer to the client.                               *)
LEMMA DialOk ==
    ASSUME IInv, NEW c \in Conn, DirectConnect(c) \/ DialUpstream(c) \/ Hijack(c)
    PROVE  IInv'
<1> DEFINE h == conn[c]
<1>h. Ok(h, profile) /\ h \in Handler
  BY DEF IInv, Ok
<1>u. profile' = profile /\ key' \in 1 .. MaxKey
  BY DEF DirectConnect, DialUpstream, Hijack, IInv, TypeOK
<1>a. h.attempt \in {0, 1} /\ h.cands # {} /\ h.untried \subseteq h.cands
  BY <1>h DEF Ok, Tries, Handler
<1>1. CASE DirectConnect(c)
  <2> DEFINE g == [h EXCEPT !.pc = "hijack", !.raw = "open"]
  <2>1. h.pc = "directConnect" /\ (Go(c, g) \/ Go(c, Return(h)))
    BY <1>1 DEF DirectConnect
  <2> HIDE DEF h
  <2>2. /\ h.attempt = 0 /\ h.raw = "none" /\ h.up = "none" /\ h.client = "server"
        /\ Mode(h) \notin {"server", "quic"}
    BY <1>h, <1>a, <2>1 DEF Ok, Stage, Held
  <2>3. /\ g \in Handler /\ g.pc = "hijack" /\ g.req = h.req /\ g.up = "none"
        /\ g.client = "server" /\ g.attempt = 0 /\ g.cands = h.cands
        /\ g.untried = h.untried
    BY <1>h, <2>2 DEF Handler, Steps, Sockets
  <2>4. Ok(Return(h), profile)
    BY <1>h, <2>2, ReturnOk
  <2> HIDE DEF g
  <2>5. Mode(g) = Mode(h)
    BY <2>3 DEF Mode
  <2>6. Ok(g, profile)
    BY <1>a, <2>2, <2>3, <2>5 DEF Ok, Stage, Halves, Ended, Tries, Held, Establishing
  <2> QED
    BY <1>u, <2>1, <2>4, <2>6, GoOk
<1>2. CASE DialUpstream(c)
  <2> DEFINE told(what) == IF h.cands # {1} THEN Tell(h, what) ELSE h.told
             g == [h EXCEPT !.pc = "hijack", !.raw = "open", !.first = Current(h),
                            !.told = told("ok")]
             f == [h EXCEPT !.untried = @ \ {Current(h)}, !.told = told("failed")]
  <2>1. /\ h.pc = "dialUpstream"
        /\ Go(c, g) \/ Go(c, IF f.untried = {} THEN Return(f) ELSE f)
    BY <1>2 DEF DialUpstream
  <2> HIDE DEF h
  <2>2. /\ h.attempt = 0 /\ h.raw = "none" /\ h.up = "none" /\ h.client = "server"
        /\ Mode(h) \notin {"server", "quic"} /\ h.untried # {}
    BY <1>h, <1>a, <2>1 DEF Ok, Stage, Held, Tries
  <2>3. /\ \A what \in {"ok", "failed"} : told(what) \in [Candidates -> {"", "ok", "failed"}]
        /\ Current(h) \in h.untried /\ Current(h) \in Candidates
    BY <1>h, <2>2, TellOk DEF Handler
  <2> HIDE DEF told
  <2>4. /\ g \in Handler /\ g.pc = "hijack" /\ g.req = h.req /\ g.up = "none"
        /\ g.client = "server" /\ g.attempt = 0 /\ g.cands = h.cands
        /\ g.untried = h.untried
    BY <1>h, <2>2, <2>3 DEF Handler, Steps, Sockets
  <2>5. /\ f \in Handler /\ f.pc = "dialUpstream" /\ f.req = h.req /\ f.up = "none"
        /\ f.raw = "none" /\ f.client = "server" /\ f.attempt = 0 /\ f.cands = h.cands
        /\ f.untried \subseteq h.untried
    BY <1>h, <2>1, <2>2, <2>3 DEF Handler
  <2> HIDE DEF g, f
  <2>6. Mode(g) = Mode(h) /\ Mode(f) = Mode(h)
    BY <2>4, <2>5 DEF Mode
  <2>7. Ok(g, profile)
    BY <1>a, <2>2, <2>4, <2>6 DEF Ok, Stage, Halves, Ended, Tries, Held, Establishing
  <2>8. Ok(Return(f), profile)
    BY <2>5, ReturnOk
  <2>9. f.untried # {} => Ok(f, profile)
    BY <1>a, <2>2, <2>5, <2>6 DEF Ok, Stage, Halves, Ended, Tries, Held, Establishing
  <2> QED
    BY <1>u, <2>1, <2>7, <2>8, <2>9, GoOk
<1>3. CASE Hijack(c)
  <2> DEFINE g == [h EXCEPT !.raw = Closed(@)]
             b == [h EXCEPT !.client = "closed", !.raw = Closed(@)]
             d == [h EXCEPT !.client = "closed"]
             k == [h EXCEPT !.client = "hijacked"]
  <2>1. /\ h.pc = "hijack"
        /\ \/ Go(c, Return(g))
           \/ Go(c, Return(b))
           \/ Mode(h) = "mitm" /\ Go(c, Return(d))
           \/ Go(c, Answered(IF HTTP(h) THEN k ELSE h))
    BY <1>3 DEF Hijack, DropBoth, Drop
  <2> HIDE DEF h
  <2>2. /\ h.attempt = 0 /\ h.up = "none" /\ h.client = "server"
        /\ Mode(h) \in {"server", "quic"} => h.raw = "none"
    BY <1>h, <1>a, <2>1 DEF Ok, Stage, Held
  <2>3. Closed(h.raw) \in Sockets /\ Closed(h.raw) # "open"
        /\ (h.raw = "none" => Closed(h.raw) = "none")
    BY <1>h DEF Handler, Sockets, Closed
  <2>4. /\ g \in Handler /\ g.req = h.req /\ g.up = "none" /\ g.client = "server"
        /\ g.raw = Closed(h.raw)
    BY <1>h, <2>2, <2>3 DEF Handler
  <2>5. /\ b \in Handler /\ b.req = h.req /\ b.up = "none" /\ b.client = "closed"
        /\ b.raw = Closed(h.raw)
    BY <1>h, <2>2, <2>3 DEF Handler
  <2>6. /\ k \in Handler /\ k.req = h.req /\ k.up = "none" /\ k.raw = h.raw
        /\ k.cands = h.cands /\ k.untried = h.untried /\ k.attempt = 0
        /\ d \in Handler /\ d.req = h.req /\ d.up = "none" /\ d.client = "closed"
    BY <1>h, <2>2 DEF Handler
  <2> HIDE DEF g, b, d, k
  <2>7. Mode(g) = Mode(h) /\ Mode(b) = Mode(h) /\ Mode(d) = Mode(h) /\ Mode(k) = Mode(h)
    BY <2>4, <2>5, <2>6 DEF Mode
  <2>8. /\ Ok(Return(g), profile) /\ Ok(Return(b), profile)
        /\ Mode(h) = "mitm" => Ok(Return(d), profile)
    BY <2>2, <2>3, <2>4, <2>5, <2>6, <2>7, ReturnOk
  <2>9. Ok(Answered(k), profile) /\ Ok(Answered(h), profile)
    BY <1>h, <1>a, <2>2, <2>6, <2>7, AnsweredOk
  <2> QED
    BY <1>u, <2>1, <2>8, <2>9, GoOk
<1> QED
  BY <1>1, <1>2, <1>3

(* Finding the ECH configuration of an attempt.                            *)
LEMMA ResolveOk ==
    ASSUME IInv, NEW c \in Conn, ResolveECH(c) \/ FetchECH(c) \/ SyncECH(c)
    PROVE  IInv'
<1> DEFINE h == conn[c]
           s(v) == [h EXCEPT !.sent = v]
<1>h. Ok(h, profile) /\ h \in Handler /\ profile \in Versions /\ key \in 1 .. MaxKey
  BY DEF IInv, Ok, TypeOK
<1>v. 0 \in Versions /\ \A v \in 1 .. key : v \in Versions \ {0}
  BY <1>h, KeyAssumption DEF Versions
<1>a. h.attempt \in {0, 1}
  BY <1>h DEF Handler
<1>s. ASSUME NEW v \in Versions
      PROVE  /\ s(v) \in Handler /\ s(v).pc = h.pc /\ s(v).req = h.req
             /\ s(v).raw = h.raw /\ s(v).up = h.up /\ s(v).client = h.client
             /\ s(v).cands = h.cands /\ s(v).untried = h.untried
             /\ s(v).attempt = h.attempt /\ s(v).fresh = h.fresh /\ s(v).sent = v
             /\ s(v).disturbed = h.disturbed /\ s(v).told = h.told
             /\ Mode(s(v)) = Mode(h) /\ HasProfile(s(v)) = HasProfile(h)
  <2> HIDE DEF h
  <2>1. s(v) \in Handler
    BY <1>h DEF Handler
  <2>2. /\ s(v).pc = h.pc /\ s(v).req = h.req
        /\ s(v).raw = h.raw /\ s(v).up = h.up /\ s(v).client = h.client
        /\ s(v).cands = h.cands /\ s(v).untried = h.untried
        /\ s(v).attempt = h.attempt /\ s(v).fresh = h.fresh /\ s(v).sent = v
        /\ s(v).disturbed = h.disturbed /\ s(v).told = h.told
    BY <1>h DEF Handler
  <2> HIDE DEF s
  <2> QED
    BY <2>1, <2>2 DEF Mode, HasProfile
<1>r. ASSUME NEW v \in Versions, h.pc \in {"resolveECH", "fetchECH"},
             h.attempt = 1 /\ HasProfile(h) => v # 0 /\ (~ h.disturbed => v = h.fresh)
      PROVE  Ok(Resolved(s(v)), profile)
  <2> HIDE DEF h, s
  <2>1. Stage(s(v)) /\ Tries(s(v))
    BY <1>h, <1>s DEF Ok, Stage, Tries
  <2>2. /\ h.attempt = 1 => h.fresh # 0 /\ Mode(h) # "quic"
        /\ h.attempt = 1 /\ HasProfile(h) => profile # 0
    BY <1>h DEF Ok, Held
  <2> QED
    BY <1>s, <1>r, <2>1, <2>2, ResolvedOk
<1>1. CASE ResolveECH(c)
  <2> DEFINE g == [h EXCEPT !.pc = "fetchECH"]
  <2>1. /\ h.pc = "resolveECH" /\ profile' = profile /\ key' = key
        /\ \/ h.req.rule.ech = "off" /\ Go(c, Resolved(s(0)))
           \/ HasProfile(h) /\ (profile # 0 \/ h.req.rule.ech = "manual")
                 /\ Go(c, Resolved(s(profile)))
           \/ (h.req.rule.ech = "missing" \/ profile = 0) /\ Go(c, g)
    BY <1>1 DEF ResolveECH, GetBinaryECHConfig
  <2> HIDE DEF h, s
  <2>2. /\ h.attempt = 1 => h.fresh # 0 /\ Mode(h) # "quic"
        /\ h.attempt = 1 /\ HasProfile(h) =>
              profile # 0 /\ (~ h.disturbed => profile = h.fresh)
    BY <1>h, <2>1 DEF Ok, Held
  <2>3. h.req.rule.ech = "off" => Ok(Resolved(s(0)), profile)
    BY <1>r, <1>v, <2>1 DEF HasProfile
  <2>4. Ok(Resolved(s(profile)), profile)
    BY <1>h, <1>r, <2>1, <2>2
  <2>5. /\ g \in Handler /\ g.pc = "fetchECH" /\ g.req = h.req
        /\ g.raw = h.raw /\ g.up = h.up /\ g.client = h.client
        /\ g.cands = h.cands /\ g.untried = h.untried
        /\ g.attempt = h.attempt /\ g.fresh = h.fresh /\ g.told = h.told
    BY <1>h DEF Handler, Steps
  <2> HIDE DEF g
  <2>6. Mode(g) = Mode(h) /\ HasProfile(g) = HasProfile(h)
    BY <2>5 DEF Mode, HasProfile
  <2>7. h.req.rule.ech = "missing" \/ profile = 0 => Ok(g, profile)
    <3>1. Stage(g) /\ Halves(g) /\ Ended(g)
      BY <1>h, <2>1, <2>5, <2>6 DEF Ok, Stage, Halves, Ended, Establishing
    <3>2. Tries(g)
      BY <1>h, <2>1, <2>5, <2>6 DEF Ok, Tries, Establishing
    <3>3. h.req.rule.ech = "missing" \/ profile = 0 => Held(g, profile)
      BY <1>a, <2>2, <2>5, <2>6 DEF Held, HasProfile
    <3> QED
      BY <2>5, <3>1, <3>2, <3>3 DEF Ok
  <2> QED
    BY <1>h, <2>1, <2>3, <2>4, <2>7, GoOk
<1>2. CASE FetchECH(c)
  <2> DEFINE g(v) == [h EXCEPT !.sent = v, !.pc = "syncECH"]
  <2>1. /\ h.pc = "fetchECH" /\ profile' = profile /\ key' = key
        /\ \/ Go(c, Resolved(s(0)))
           \/ \E v \in 1 .. key : Go(c, IF HasProfile(h) THEN g(v) ELSE Resolved(s(v)))
    BY <1>2 DEF FetchECH
  <2> HIDE DEF h, s
  <2>2. HasProfile(h) => h.attempt = 0
    BY <1>h, <2>1 DEF Ok, Held
  <2>3. ASSUME NEW v \in Versions PROVE Ok(Resolved(s(v)), profile)
    <3>1. h.attempt = 1 /\ HasProfile(h) => FALSE
      BY <2>2
    <3> QED
      BY <1>r, <2>1, <3>1
  <2>4. ASSUME NEW v \in 1 .. key, HasProfile(h) PROVE Ok(g(v), profile)
    <3> DEFINE k == g(v)
    <3>1. /\ k \in Handler /\ k.pc = "syncECH" /\ k.req = h.req
          /\ k.raw = h.raw /\ k.up = h.up /\ k.client = h.client
          /\ k.cands = h.cands /\ k.untried = h.untried
          /\ k.attempt = h.attempt /\ k.sent = v /\ k.told = h.told
      BY <1>h, <1>v DEF Handler, Steps
    <3> HIDE DEF k
    <3>2. Mode(k) = Mode(h)
      BY <3>1 DEF Mode
    <3>3. Stage(k) /\ Halves(k) /\ Ended(k)
      BY <1>h, <2>1, <3>1, <3>2 DEF Ok, Stage, Halves, Ended, Establishing
    <3>4. Tries(k)
      BY <1>h, <2>1, <3>1, <3>2 DEF Ok, Tries, Establishing
    <3>5. Held(k, profile)
      BY <1>v, <2>2, <2>4, <3>1 DEF Held
    <3> QED
      BY <3>1, <3>3, <3>4, <3>5 DEF Ok, k
  <2> HIDE DEF g
  <2>5. \E k : Ok(k, profile) /\ Go(c, k)
    BY <1>v, <2>1, <2>3, <2>4
  <2> QED
    BY <1>h, <2>1, <2>5, GoOk
<1>3. CASE SyncECH(c)
  <2>1. h.pc = "syncECH" /\ UpdateECHProfileConfig(c, h.sent, Resolved(h))
    BY <1>3 DEF SyncECH
  <2>2. h.sent \in Versions \ {0}
    BY <1>h, <2>1 DEF Ok, Held, Handler
  <2>3. Ok(Resolved(h), h.sent)
    <3> HIDE DEF h
    <3>1. Stage(h) /\ Tries(h)
      BY <1>h DEF Ok
    <3>2. /\ h.attempt = 1 => h.fresh # 0 /\ Mode(h) # "quic"
          /\ ~ (h.attempt = 1 /\ HasProfile(h))
      BY <1>h, <2>1 DEF Ok, Held
    <3> QED
      BY <1>h, <2>1, <3>1, <3>2, ResolvedOk
  <2> QED
    BY <2>1, <2>2, <2>3, UpdateOk
<1> QED
  BY <1>1, <1>2, <1>3

(* A failed candidate is reported and given up.                            *)
LEMMA GiveUpOk ==
    ASSUME NEW h, NEW p, Ok(h, p), NEW g,
           h.pc \in {"dialWithRule", "handshake", "refreshECH"},
           g \in Handler, g.req = h.req, g.raw = h.raw, g.up # "open",
           g.cands = h.cands, g.untried = h.untried, g.first = h.first,
           g.told = Tell(h, "failed")
    PROVE  Ok(NextCandidate(g), p)
<1>1. Mode(g) = Mode(h) /\ Current(g) = Current(h)
  BY DEF Mode, Current
<1>2. /\ h \in Handler /\ Mode(h) \in {"mitm", "server"}
      /\ Mode(h) = "server" => h.raw = "none"
  BY DEF Ok, Stage, Establishing
<1>3. /\ h.cands # {} /\ h.untried \subseteq h.cands /\ h.untried # {}
      /\ h.req.rule.pool => \A a \in h.cands \ h.untried : h.told[a] = "failed"
  BY <1>2 DEF Ok, Tries, Establishing
<1>4. h.cands \subseteq Candidates
  BY <1>2 DEF Handler
<1>5. h.req.rule.pool =>
         /\ g.told[Current(g)] = "failed"
         /\ \A a \in g.cands \ g.untried : g.told[a] = "failed"
  <2>1. CASE h.req.rule.pool
    <3>1. /\ Tell(h, "failed")[Current(h)] = "failed"
          /\ \A a \in Candidates \ {Current(h)} : Tell(h, "failed")[a] = h.told[a]
      BY <1>2, <1>3, <2>1, TellOk
    <3> QED
      BY <1>1, <1>3, <1>4, <2>1, <3>1
  <2> QED
    BY <2>1
<1> QED
  BY <1>1, <1>2, <1>3, <1>5, NextCandidateOk

(* An attempt at a candidate: dial, handshake, refresh.                    *)
LEMMA AttemptOk ==
    ASSUME IInv, NEW c \in Conn,
           \/ DialWithRule(c) \/ HandshakeAccepted(c) \/ HandshakeRejected(c)
           \/ HandshakeFailed(c) \/ RefreshECH(c) \/ StoreECH(c)
    PROVE  IInv'
<1> DEFINE h == conn[c]
<1>h. Ok(h, profile) /\ h \in Handler /\ profile \in Versions /\ key \in 1 .. MaxKey
  BY DEF IInv, Ok, TypeOK
<1>v. \A v \in 1 .. key : v \in Versions \ {0}
  BY <1>h, KeyAssumption DEF Versions
<1>a. h.attempt \in {0, 1} /\ h.told \in [Candidates -> {"", "ok", "failed"}]
  BY <1>h DEF Handler
<1>t. ASSUME h.pc \in Establishing, Mode(h) # "quic"
      PROVE  \A what \in {"ok", "failed"} :
                Tell(h, what) \in [Candidates -> {"", "ok", "failed"}]
  <2>1. h.untried # {}
    BY <1>h, <1>t DEF Ok, Tries
  <2> QED
    BY <1>h, <2>1, TellOk
<1>m. h.pc \in {"dialWithRule", "handshake", "refreshECH", "storeECH"} =>
         h.pc \in Establishing /\ Mode(h) # "quic"
  BY <1>h DEF Ok, Stage, Establishing
<1>1. CASE DialWithRule(c)
  <2> DEFINE g == [h EXCEPT !.pc = "handshake", !.up = "open"]
             f == [h EXCEPT !.told = Tell(h, "failed")]
  <2>1. /\ h.pc = "dialWithRule" /\ profile' = profile /\ key' = key
        /\ Go(c, g) \/ Go(c, NextCandidate(f))
    BY <1>1 DEF DialWithRule
  <2> HIDE DEF h
  <2>2. /\ g \in Handler /\ g.pc = "handshake" /\ g.req = h.req /\ g.raw = h.raw
        /\ g.cands = h.cands /\ g.untried = h.untried /\ g.told = h.told
        /\ g.attempt = h.attempt /\ g.sent = h.sent /\ g.fresh = h.fresh
        /\ g.disturbed = h.disturbed
    BY <1>h DEF Handler, Steps, Sockets
  <2>3. /\ f \in Handler /\ f.req = h.req /\ f.raw = h.raw /\ f.up = h.up
        /\ f.cands = h.cands /\ f.untried = h.untried /\ f.first = h.first
        /\ f.told = Tell(h, "failed")
    BY <1>h, <1>t, <1>m, <2>1 DEF Handler
  <2>4. h.up # "open"
    BY <1>h, <2>1 DEF Ok, Stage, Establishing
  <2> HIDE DEF g, f
  <2>5. Mode(g) = Mode(h) /\ HasProfile(g) = HasProfile(h)
    BY <2>2 DEF Mode, HasProfile
  <2>6. Stage(g) /\ Halves(g) /\ Ended(g)
    BY <1>h, <2>1, <2>2, <2>5 DEF Ok, Stage, Halves, Ended, Establishing
  <2>7. Tries(g)
    BY <1>h, <2>1, <2>2, <2>5 DEF Ok, Tries, Establishing
  <2>8. Held(g, profile)
    BY <1>h, <2>1, <2>2, <2>5 DEF Ok, Held
  <2>9. Ok(g, profile)
    BY <2>2, <2>6, <2>7, <2>8 DEF Ok
  <2>10. Ok(NextCandidate(f), profile)
    BY <1>h, <2>1, <2>3, <2>4, GiveUpOk
  <2> QED
    BY <1>h, <2>1, <2>9, <2>10, GoOk
<1>2. CASE HandshakeAccepted(c)
  <2> DEFINE g == [h EXCEPT !.pc = IF Mode(h) = "server" THEN "serve" ELSE "clientHandshake",
                            !.told = Tell(h, "ok"), !.attempt = 0, !.sent = 0, !.fresh = 0,
                            !.disturbed = FALSE]
  <2>1. h.pc = "handshake" /\ profile' = profile /\ key' = key /\ Go(c, g)
    BY <1>2 DEF HandshakeAccepted
  <2> HIDE DEF h
  <2>2. /\ g \in Handler
        /\ g.pc = (IF Mode(h) = "server" THEN "serve" ELSE "clientHandshake")
        /\ g.req = h.req /\ g.raw = h.raw /\ g.cands = h.cands
        /\ g.untried = h.untried /\ g.attempt = 0
    BY <1>h, <1>t, <1>m, <2>1, Basics DEF Handler, Steps
  <2> HIDE DEF g
  <2>3. Mode(g) = Mode(h)
    BY <2>2 DEF Mode
  <2>4. Stage(g) /\ Halves(g) /\ Ended(g)
    BY <1>h, <2>1, <2>2, <2>3 DEF Ok, Stage, Halves, Ended, Establishing
  <2>5. Tries(g) /\ Held(g, profile)
    BY <1>h, <2>2, <2>3 DEF Ok, Tries, Held, Establishing
  <2>6. Ok(g, profile)
    BY <2>2, <2>4, <2>5 DEF Ok
  <2> QED
    BY <1>h, <2>1, <2>6, GoOk
<1>3. CASE HandshakeRejected(c)
  <2> DEFINE g == [h EXCEPT !.pc = "refreshECH", !.up = "closed"]
  <2>1. /\ h.pc = "handshake" /\ h.attempt = 0 /\ profile' = profile /\ key' = key
        /\ Go(c, g)
    BY <1>3 DEF HandshakeRejected
  <2> HIDE DEF h
  <2>2. /\ g \in Handler /\ g.pc = "refreshECH" /\ g.req = h.req /\ g.raw = h.raw
        /\ g.up = "closed" /\ g.cands = h.cands /\ g.untried = h.untried
        /\ g.told = h.told /\ g.attempt = 0
    BY <1>h, <2>1 DEF Handler, Steps, Sockets
  <2> HIDE DEF g
  <2>3. Mode(g) = Mode(h)
    BY <2>2 DEF Mode
  <2>4. Stage(g) /\ Halves(g) /\ Ended(g)
    BY <1>h, <2>1, <2>2, <2>3 DEF Ok, Stage, Halves, Ended, Establishing
  <2>5. Tries(g)
    BY <1>h, <2>1, <2>2, <2>3 DEF Ok, Tries, Establishing
  <2>6. Ok(g, profile)
    BY <2>2, <2>4, <2>5 DEF Ok, Held
  <2> QED
    BY <1>h, <2>1, <2>6, GoOk
<1>4. CASE HandshakeFailed(c)
  <2> DEFINE f == [h EXCEPT !.up = "closed", !.told = Tell(h, "failed")]
  <2>1. h.pc = "handshake" /\ profile' = profile /\ key' = key /\ Go(c, NextCandidate(f))
    BY <1>4 DEF HandshakeFailed
  <2> HIDE DEF h
  <2>2. /\ f \in Handler /\ f.req = h.req /\ f.raw = h.raw /\ f.up = "closed"
        /\ f.cands = h.cands /\ f.untried = h.untried /\ f.first = h.first
        /\ f.told = Tell(h, "failed")
    BY <1>h, <1>t, <1>m, <2>1 DEF Handler, Sockets
  <2> HIDE DEF f
  <2>3. Ok(NextCandidate(f), profile)
    BY <1>h, <2>1, <2>2, GiveUpOk
  <2> QED
    BY <1>h, <2>1, <2>3, GoOk
<1>5. CASE RefreshECH(c)
  <2> DEFINE g(v) == [h EXCEPT !.fresh = v,
                               !.pc = IF HasProfile(h) THEN "storeECH" ELSE "resolveECH",
                               !.attempt = IF HasProfile(h) THEN @ ELSE @ + 1]
             f == [h EXCEPT !.told = Tell(h, "failed")]
  <2>1. /\ h.pc = "refreshECH" /\ profile' = profile /\ key' = key
        /\ (\E v \in 1 .. key : Go(c, g(v))) \/ Go(c, NextCandidate(f))
    BY <1>5 DEF RefreshECH
  <2> HIDE DEF h
  <2>2. h.attempt = 0 /\ h.up # "open"
    BY <1>h, <2>1 DEF Ok, Held, Stage, Establishing
  <2>3. /\ f \in Handler /\ f.req = h.req /\ f.raw = h.raw /\ f.up = h.up
        /\ f.cands = h.cands /\ f.untried = h.untried /\ f.first = h.first
        /\ f.told = Tell(h, "failed")
    BY <1>h, <1>t, <1>m, <2>1 DEF Handler
  <2>4. ASSUME NEW v \in 1 .. key PROVE Ok(g(v), profile)
    <3> DEFINE k == g(v)
    <3>a. (IF HasProfile(h) THEN h.attempt ELSE h.attempt + 1)
             = IF HasProfile(h) THEN 0 ELSE 1
      BY <2>2
    <3>b. k = [h EXCEPT !.fresh = v,
                        !.pc = IF HasProfile(h) THEN "storeECH" ELSE "resolveECH",
                        !.attempt = IF HasProfile(h) THEN 0 ELSE 1]
      BY <3>a
    <3> HIDE DEF k
    <3>1. /\ k \in Handler
          /\ k.pc = (IF HasProfile(h) THEN "storeECH" ELSE "resolveECH")
          /\ k.req = h.req /\ k.raw = h.raw /\ k.up = h.up
          /\ k.cands = h.cands /\ k.untried = h.untried /\ k.told = h.told
          /\ k.attempt = (IF HasProfile(h) THEN 0 ELSE 1) /\ k.fresh = v
      <4>1. CASE HasProfile(h)
        BY <1>h, <1>v, <3>b, <4>1 DEF Handler, Steps
      <4>2. CASE ~ HasProfile(h)
        BY <1>h, <1>v, <3>b, <4>2 DEF Handler, Steps
      <4> QED
        BY <4>1, <4>2
    <3> HIDE DEF k
    <3>2. Mode(k) = Mode(h) /\ HasProfile(k) = HasProfile(h)
      BY <3>1 DEF Mode, HasProfile
    <3>3. Stage(k) /\ Halves(k) /\ Ended(k)
      BY <1>h, <2>1, <3>1, <3>2 DEF Ok, Stage, Halves, Ended, Establishing
    <3>4. Tries(k)
      BY <1>h, <2>1, <3>1, <3>2 DEF Ok, Tries, Establishing
    <3>5. Held(k, profile)
      <4>1. CASE HasProfile(h)
        <5>1. HasProfile(k)
          BY <3>1, <4>1 DEF HasProfile
        <5>2. k.pc = "storeECH" /\ k.fresh # 0 /\ k.attempt = 0
          BY <1>v, <3>1, <4>1
        <5> QED
          BY <5>1, <5>2 DEF Held
      <4>2. CASE ~ HasProfile(h)
        BY <1>v, <1>m, <2>1, <3>1, <3>2, <4>2 DEF Held
      <4> QED
        BY <4>1, <4>2
    <3> QED
      BY <3>1, <3>3, <3>4, <3>5 DEF Ok, k
  <2> HIDE DEF f, g
  <2>5. Ok(NextCandidate(f), profile)
    BY <1>h, <2>1, <2>2, <2>3, GiveUpOk
  <2>6. \E k : Ok(k, profile) /\ Go(c, k)
    BY <2>1, <2>4, <2>5
  <2> QED
    BY <1>h, <2>1, <2>6, GoOk
<1>6. CASE StoreECH(c)
  <2> DEFINE g == [h EXCEPT !.pc = "resolveECH", !.attempt = @ + 1, !.disturbed = FALSE]
  <2>1. h.pc = "storeECH" /\ UpdateECHProfileConfig(c, h.fresh, g)
    BY <1>6 DEF StoreECH
  <2> HIDE DEF h
  <2>2. h.fresh \in Versions \ {0} /\ h.attempt = 0
    BY <1>h, <2>1 DEF Ok, Held, Handler
  <2>a. g = [h EXCEPT !.pc = "resolveECH", !.attempt = 1, !.disturbed = FALSE]
    BY <2>2
  <2> HIDE DEF g
  <2>3. /\ g \in Handler /\ g.pc = "resolveECH" /\ g.req = h.req /\ g.raw = h.raw
        /\ g.up = h.up /\ g.cands = h.cands /\ g.untried = h.untried
        /\ g.told = h.told /\ g.attempt = 1 /\ g.fresh = h.fresh
    BY <1>h, <2>a DEF Handler, Steps
  <2>4. Mode(g) = Mode(h)
    BY <2>3 DEF Mode
  <2>5. Stage(g) /\ Halves(g) /\ Ended(g)
    BY <1>h, <2>1, <2>3, <2>4 DEF Ok, Stage, Halves, Ended, Establishing
  <2>6. Tries(g)
    BY <1>h, <2>1, <2>3, <2>4 DEF Ok, Tries, Establishing
  <2>7. Held(g, h.fresh)
    BY <1>m, <2>1, <2>2, <2>3, <2>4 DEF Held
  <2>8. Ok(g, h.fresh)
    BY <2>3, <2>5, <2>6, <2>7 DEF Ok
  <2> QED
    BY <2>1, <2>2, <2>8, UpdateOk
<1> QED
  BY <1>1, <1>2, <1>3, <1>4, <1>5, <1>6

(* What has no upstream end yet, or only one that is closed on the way out. *)
LEMMA LeaveOk ==
    ASSUME NEW h, NEW p, Ok(h, p), NEW g \in Handler,
           h.pc \in {"clientHandshake", "serve"},
           g.req = h.req, g.raw = h.raw, g.up = Closed(h.up), g.client = "closed"
    PROVE  Ok(Return(g), p)
<1>1. /\ Mode(h) \in {"mitm", "server", "quic"}
      /\ Mode(h) \in {"server", "quic"} => h.raw = "none"
  BY DEF Ok, Stage
<1>2. Mode(g) = Mode(h)
  BY DEF Mode
<1>3. g.up # "open"
  BY DEF Closed
<1> QED
  BY <1>1, <1>2, <1>3, ReturnOk

(* The client's handshake and the served connection.                       *)
LEMMA ServeOk ==
    ASSUME IInv, NEW c \in Conn, ClientHandshake(c) \/ ServeOver(c)
    PROVE  IInv'
<1> DEFINE h == conn[c]
           u == [h EXCEPT !.up = Closed(@)]
           g == [u EXCEPT !.client = "closed"]
<1>h. Ok(h, profile) /\ h \in Handler /\ key \in 1 .. MaxKey
  BY DEF IInv, Ok, TypeOK
<1>1. /\ h.pc \in {"clientHandshake", "serve"} /\ profile' = profile /\ key' = key
      /\ \/ Go(c, Return(g))
         \/ /\ h.pc = "clientHandshake"
            /\ \/ Mode(h) = "mitm" /\ Go(c, StartTunnel(h))
               \/ Mode(h) = "quic" /\ Go(c, StartAttempts(h))
               \/ /\ Mode(h) = "server"
                  /\ \E cands \in ServerCandidates(h.req.rule) :
                        Go(c, StartAttempts([h EXCEPT !.cands = cands, !.untried = cands]))
  BY DEF ClientHandshake, ServeOver, Drop
<1> HIDE DEF h
<1>2. /\ g \in Handler /\ g.req = h.req /\ g.raw = h.raw /\ g.up = Closed(h.up)
      /\ g.client = "closed"
  <2>1. u \in Handler /\ u.req = h.req /\ u.raw = h.raw /\ u.up = Closed(h.up)
    BY <1>h, Basics DEF Handler
  <2> HIDE DEF u
  <2> QED
    BY <2>1 DEF Handler
<1> HIDE DEF g
<1>3. Ok(Return(g), profile)
  BY <1>h, <1>1, <1>2, LeaveOk
<1>4. /\ Mode(h) \in {"server", "quic"} => h.raw = "none"
      /\ h.cands # {} /\ h.untried \subseteq h.cands
  BY <1>h DEF Ok, Stage, Tries
<1>5. Mode(h) = "mitm" => Ok(StartTunnel(h), profile)
  BY <1>h, TunnelOk
<1>6. CASE h.pc = "clientHandshake" /\ h.up # "open"
  <2>1. Mode(h) = "quic" => Ok(StartAttempts(h), profile)
    BY <1>h, <1>4, <1>6, AttemptsOk
  <2>2. ASSUME NEW cands \in ServerCandidates(h.req.rule), Mode(h) = "server"
        PROVE  Ok(StartAttempts([h EXCEPT !.cands = cands, !.untried = cands]), profile)
    <3>1. 1 .. 1 \in BuildDialCandidates
      BY CandidatesAssumption DEF BuildDialCandidates, Candidates
    <3>2. cands \in BuildDialCandidates
      BY <3>1 DEF ServerCandidates
    <3>3. cands \subseteq Candidates /\ cands # {}
      BY <3>2, CandidateListOk
    <3> DEFINE k == [h EXCEPT !.cands = cands, !.untried = cands]
    <3>4. /\ k \in Handler /\ k.req = h.req /\ k.raw = h.raw /\ k.up = h.up
          /\ k.cands = cands /\ k.untried = cands
      BY <1>h, <3>3 DEF Handler
    <3> HIDE DEF k
    <3>5. Mode(k) = Mode(h)
      BY <3>4 DEF Mode
    <3>6. Ok(StartAttempts(k), profile)
      BY <1>4, <1>6, <2>2, <3>3, <3>4, <3>5, AttemptsOk
    <3> QED
      BY <3>6 DEF k
  <2>3. \E k : Ok(k, profile) /\ Go(c, k)
    BY <1>1, <1>3, <1>5, <2>1, <2>2
  <2> QED
    BY <1>h, <1>1, <2>3, GoOk
<1>7. CASE ~ (h.pc = "clientHandshake" /\ h.up # "open")
  <2>1. h.pc = "clientHandshake" => Mode(h) = "mitm"
    BY <1>h, <1>7 DEF Ok, Stage
  <2>2. \E k : Ok(k, profile) /\ Go(c, k)
    BY <1>1, <1>3, <1>5, <2>1
  <2> QED
    BY <1>h, <1>1, <2>2, GoOk
<1> QED
  BY <1>6, <1>7

(* TLS-RF: the fragmented ClientHello, the probe and the fallback.         *)
LEMMA FragmentOk ==
    ASSUME IInv, NEW c \in Conn, HandleTLSFragment(c) \/ Probe(c) \/ Fallback(c)
    PROVE  IInv'
<1> DEFINE h == conn[c]
           b == [h EXCEPT !.client = "closed", !.raw = Closed(@)]
           d == [h EXCEPT !.client = "closed"]
           x == [h EXCEPT !.up = "closed"]
           e == [x EXCEPT !.client = "closed"]
           f == [h EXCEPT !.pc = "fallback", !.raw = "closed"]
           n == [h EXCEPT !.up = "open"]
           q == [h EXCEPT !.pc = "probe"]
<1>h. Ok(h, profile) /\ h \in Handler /\ key \in 1 .. MaxKey
  BY DEF IInv, Ok, TypeOK
<1>1. /\ h.pc \in {"clientHello", "probe", "fallback"} /\ profile' = profile /\ key' = key
      /\ \/ h.pc = "clientHello" /\ Go(c, Return(b))
         \/ h.pc = "clientHello" /\ Go(c, q)
         \/ h.pc \in {"clientHello", "probe"} /\ Go(c, StartTunnel(h))
         \/ h.pc \in {"clientHello", "probe"} /\ Go(c, f)
         \/ h.pc = "fallback" /\ Go(c, Return(d))
         \/ h.pc = "fallback" /\ Go(c, Return(e))
         \/ h.pc = "fallback" /\ Go(c, StartTunnel(n))
  BY DEF HandleTLSFragment, Probe, Fallback, Drop, DropBoth
<1> HIDE DEF h
<1>2. /\ h.up = "none" /\ (h.pc = "fallback" => h.raw = "closed")
      /\ Mode(h) \in {"server", "quic"} => h.raw = "none"
      /\ h.cands # {} /\ h.untried \subseteq h.cands /\ h.attempt = 0
  BY <1>h, <1>1 DEF Ok, Stage, Tries, Held, Handler
<1>3. Mode(h) = "tls-rf"
  BY <1>h, <1>1 DEF Ok, Stage
<1>4. h.pc = "clientHello" => Ok(Return(b), profile)
  <2>1. /\ b \in Handler /\ b.req = h.req /\ b.up = h.up /\ b.client = "closed"
        /\ b.raw = Closed(h.raw)
    BY <1>h, Basics DEF Handler
  <2> HIDE DEF b
  <2>2. Mode(b) = Mode(h) /\ b.raw # "open"
    BY <2>1 DEF Mode, Closed
  <2> QED
    BY <1>2, <1>3, <2>1, <2>2, ReturnOk
<1>5. Ok(StartTunnel(h), profile)
  BY <1>h, <1>1, <1>2, <1>3, TunnelOk
<1>6. h.pc \in {"clientHello", "probe"} => Ok(f, profile)
  <2>1. /\ f \in Handler /\ f.pc = "fallback" /\ f.req = h.req /\ f.up = h.up
        /\ f.raw = "closed" /\ f.cands = h.cands /\ f.untried = h.untried
        /\ f.attempt = h.attempt
    BY <1>h DEF Handler, Steps, Sockets
  <2> HIDE DEF f
  <2>2. Mode(f) = Mode(h)
    BY <2>1 DEF Mode
  <2> QED
    BY <1>2, <1>3, <2>1, <2>2 DEF Ok, Stage, Halves, Ended, Tries, Held, Establishing
<1>7. h.pc = "clientHello" => Ok(q, profile)
  <2>1. /\ q \in Handler /\ q.pc = "probe" /\ q.req = h.req /\ q.up = h.up
        /\ q.raw = h.raw /\ q.cands = h.cands /\ q.untried = h.untried
        /\ q.attempt = h.attempt
    BY <1>h DEF Handler, Steps
  <2> HIDE DEF q
  <2>2. Mode(q) = Mode(h)
    BY <2>1 DEF Mode
  <2> QED
    BY <1>2, <1>3, <2>1, <2>2 DEF Ok, Stage, Halves, Ended, Tries, Held, Establishing
<1>8. h.pc = "fallback" =>
         Ok(Return(d), profile) /\ Ok(Return(e), profile) /\ Ok(StartTunnel(n), profile)
  <2>1. d \in Handler /\ d.req = h.req /\ d.up = h.up /\ d.raw = h.raw /\ d.client = "closed"
    BY <1>h DEF Handler
  <2>2. x \in Handler /\ x.req = h.req /\ x.up = "closed" /\ x.raw = h.raw
    BY <1>h DEF Handler, Sockets
  <2>3. n \in Handler /\ n.req = h.req /\ n.up = "open" /\ n.raw = h.raw
    BY <1>h DEF Handler, Sockets
  <2>4. e \in Handler /\ e.req = h.req /\ e.up = "closed" /\ e.raw = h.raw /\ e.client = "closed"
    <3> HIDE DEF x
    <3> QED
      BY <2>2 DEF Handler
  <2> HIDE DEF d, e, n
  <2>5. Mode(d) = Mode(h) /\ Mode(e) = Mode(h) /\ Mode(n) = Mode(h)
    BY <2>1, <2>3, <2>4 DEF Mode
  <2>6. h.pc = "fallback" => Ok(Return(d), profile)
    BY <1>2, <1>3, <2>1, <2>5, ReturnOk
  <2>7. h.pc = "fallback" => Ok(Return(e), profile)
    BY <1>2, <1>3, <2>4, <2>5, ReturnOk
  <2>8. h.pc = "fallback" => Ok(StartTunnel(n), profile)
    BY <1>2, <1>3, <2>3, <2>5, TunnelOk
  <2> QED
    BY <2>6, <2>7, <2>8
<1> HIDE DEF b, d, x, e, f, n, q
<1>9. \E k : Ok(k, profile) /\ Go(c, k)
  BY <1>1, <1>4, <1>5, <1>6, <1>7, <1>8
<1> QED
  BY <1>h, <1>1, <1>9, GoOk

(* A tunnel, to its end.                                                   *)
LEMMA CopyOk ==
    ASSUME IInv, NEW c \in Conn,
           TunnelOver(c) \/ \E d \in Direction : CopyData(c, d) \/ CopyEnds(c, d)
    PROVE  IInv'
<1> DEFINE h == conn[c]
           s(d, v) == [h EXCEPT !.copy[d] = v]
<1>h. Ok(h, profile) /\ h \in Handler /\ key \in 1 .. MaxKey
  BY DEF IInv, Ok, TypeOK
<1>u. h.pc = "tunnel" /\ profile' = profile /\ key' = key
  BY DEF TunnelOver, CopyData, CopyEnds
<1>1. /\ h.copy \in [Direction -> Copying]
      /\ Mode(h) \in {"server", "quic"} => h.raw = "none"
      /\ h.copy["toUpstream"] = "over" => ~ UpstreamOpen(h)
      /\ h.copy["toClient"] = "over" => h.client = "closed"
      /\ h.up # "none" => Mode(h) = "mitm" \/ h.raw # "open"
      /\ h.cands # {} /\ h.untried \subseteq h.cands /\ h.attempt = 0
  BY <1>h, <1>u DEF Ok, Stage, Halves, Tries, Held, Handler
<1>s. ASSUME NEW d \in Direction, NEW v \in Copying
      PROVE  /\ s(d, v) \in Handler
             /\ s(d, v).pc = h.pc /\ s(d, v).req = h.req /\ s(d, v).raw = h.raw
             /\ s(d, v).up = h.up /\ s(d, v).client = h.client
             /\ s(d, v).cands = h.cands /\ s(d, v).untried = h.untried
             /\ s(d, v).attempt = h.attempt
             /\ s(d, v).copy = [h.copy EXCEPT ![d] = v]
  <2> HIDE DEF h
  <2>1. [h.copy EXCEPT ![d] = v] \in [Direction -> Copying]
    BY <1>1
  <2> QED
    BY <1>h, <2>1 DEF Handler
<1>2. CASE TunnelOver(c)
  <2>1. Go(c, Return(h)) /\ \A d \in Direction : h.copy[d] = "over"
    BY <1>2 DEF TunnelOver
  <2>2. ~ UpstreamOpen(h) /\ h.client = "closed"
    BY <1>1, <2>1 DEF Direction
  <2>3. Ok(Return(h), profile)
    BY <1>h, <1>1, <2>2, ReturnOk DEF UpstreamOpen
  <2> QED
    BY <1>h, <1>u, <2>1, <2>3, GoOk
<1>3. ASSUME NEW d \in Direction, CopyData(c, d) PROVE IInv'
  <2>1. PICK v \in {"read", "write"} : h.copy[d] # "over" /\ Go(c, s(d, v))
    BY <1>3 DEF CopyData
  <2> DEFINE g == s(d, v)
  <2>2. v \in Copying
    BY DEF Copying
  <2>3. /\ g \in Handler /\ g.pc = "tunnel" /\ g.req = h.req /\ g.raw = h.raw
        /\ g.up = h.up /\ g.client = h.client /\ g.cands = h.cands
        /\ g.untried = h.untried /\ g.attempt = 0 /\ g.copy = [h.copy EXCEPT ![d] = v]
    BY <1>s, <1>u, <1>1, <2>2
  <2>4. Go(c, g)
    BY <2>1
  <2> HIDE DEF g, h, s
  <2>5. Mode(g) = Mode(h) /\ UpstreamOpen(g) = UpstreamOpen(h)
    BY <2>3 DEF Mode, UpstreamOpen
  <2>6. /\ g.copy["toUpstream"] = "over" => h.copy["toUpstream"] = "over"
        /\ g.copy["toClient"] = "over" => h.copy["toClient"] = "over"
    BY <1>1, <2>3 DEF Direction
  <2>7. Ok(g, profile)
    BY <1>1, <2>3, <2>5, <2>6 DEF Ok, Stage, Halves, Ended, Tries, Held, Establishing
  <2> QED
    BY <1>h, <1>u, <2>4, <2>7, GoOk
<1>4. ASSUME NEW d \in Direction, CopyEnds(c, d) PROVE IInv'
  <2> DEFINE k == s(d, "over")
             r == [k EXCEPT !.raw = Closed(@)]
             w == [k EXCEPT !.up = Closed(@)]
             e == [k EXCEPT !.client = "closed"]
             g == IF d = "toUpstream" THEN (IF k.up = "none" THEN r ELSE w) ELSE e
  <2>1. Go(c, g)
    BY <1>4 DEF CopyEnds, CloseUpstream
  <2>2. /\ k \in Handler /\ k.pc = "tunnel" /\ k.req = h.req /\ k.raw = h.raw
        /\ k.up = h.up /\ k.client = h.client /\ k.cands = h.cands
        /\ k.untried = h.untried /\ k.attempt = 0
        /\ k.copy = [h.copy EXCEPT ![d] = "over"]
    BY <1>s, <1>u, <1>1 DEF Copying
  <2> HIDE DEF k, h, s
  <2>3. /\ g \in Handler /\ g.pc = "tunnel" /\ g.req = h.req
        /\ g.cands = h.cands /\ g.untried = h.untried /\ g.attempt = 0
        /\ g.copy = k.copy
        /\ g.raw = IF d = "toUpstream" /\ h.up = "none" THEN Closed(h.raw) ELSE h.raw
        /\ g.up = IF d = "toUpstream" /\ h.up # "none" THEN Closed(h.up) ELSE h.up
        /\ g.client = IF d = "toUpstream" THEN h.client ELSE "closed"
    <3>1. CASE d = "toUpstream" /\ k.up = "none"
      BY <2>2, <3>1, Basics DEF Handler
    <3>2. CASE d = "toUpstream" /\ k.up # "none"
      BY <2>2, <3>2, Basics DEF Handler
    <3>3. CASE d # "toUpstream"
      BY <2>2, <3>3 DEF Handler
    <3> QED
      BY <3>1, <3>2, <3>3
  <2> HIDE DEF g
  <2>4. Mode(g) = Mode(h)
    BY <2>3 DEF Mode
  <2>5. /\ d = "toUpstream" => ~ UpstreamOpen(g)
        /\ d # "toUpstream" => UpstreamOpen(g) = UpstreamOpen(h) /\ d = "toClient"
    BY <2>3 DEF UpstreamOpen, Closed, Direction
  <2>6. /\ g.copy["toUpstream"] = "over" => ~ UpstreamOpen(g)
        /\ g.copy["toClient"] = "over" => g.client = "closed"
    <3>1. CASE d = "toUpstream"
      BY <1>1, <2>2, <2>3, <2>5, <3>1 DEF Direction
    <3>2. CASE d # "toUpstream"
      BY <1>1, <2>2, <2>3, <2>5, <3>2 DEF Direction
    <3> QED
      BY <3>1, <3>2
  <2>7. g.up # "none" => Mode(g) = "mitm" \/ g.raw # "open"
    BY <1>1, <2>3, <2>4 DEF Closed
  <2>8. Mode(g) \in {"server", "quic"} => g.raw = "none"
    BY <1>1, <2>3, <2>4 DEF Closed
  <2>9. Ok(g, profile)
    BY <1>1, <2>3, <2>6, <2>7, <2>8 DEF Ok, Stage, Halves, Ended, Tries, Held, Establishing
  <2> QED
    BY <1>h, <1>u, <2>1, <2>9, GoOk
<1> QED
  BY <1>2, <1>3, <1>4

(* Every step preserves the invariant.                                     *)
LEMMA NextOk == IInv /\ [Next]_vars => IInv'
<1> SUFFICES ASSUME IInv, [Next]_vars PROVE IInv'
  OBVIOUS
<1>1. ASSUME NEW c \in Conn, Timed(c) PROVE IInv'
  BY <1>1, DialOk, ResolveOk, AttemptOk, FragmentOk, CopyOk DEF Timed
<1>2. ASSUME NEW c \in Conn, Untimed(c) PROVE IInv'
  BY <1>2, AcceptOk, AttemptOk, ServeOk, CopyOk DEF Untimed
<1>3. CASE RotateKey
  BY <1>3, KeyAssumption DEF RotateKey, IInv, TypeOK
<1>4. CASE ExchangeNodeWithRetry
  BY <1>4, ExchangeOk
<1>5. CASE UNCHANGED vars
  BY <1>5 DEF vars, IInv, TypeOK
<1> QED
  BY <1>1, <1>2, <1>3, <1>4, <1>5 DEF Next

(* The inductive invariant holds in every reachable state.                 *)
LEMMA Invariant == Spec => []IInv
<1> QED
  BY InitOk, NextOk, PTL DEF Spec

(* The types of the handlers, whatever requests arrive.                    *)
THEOREM HandlerTypes == Spec => []TypeOK
<1>1. IInv => TypeOK
  BY DEF IInv
<1> QED
  BY <1>1, Invariant, PTL

(* No path through the handlers, however many connections run at once,     *)
(* leaves a connection open, except the one handleConnect forgets in MITM  *)
(* mode.                                                                   *)
THEOREM NoConnectionLeaks == Spec => []NothingLeftOpen
<1>1. IInv => NothingLeftOpen
  BY DEF IInv, Ok, Ended, NothingLeftOpen
<1> QED
  BY <1>1, Invariant, PTL

(* A retry uses the refreshed configuration unless somebody else stored    *)
(* one after it, for any interleaving of handlers and key changes.         *)
THEOREM RetryGetsRefreshed == Spec => []RetryUsesRefreshed
<1>1. IInv => RetryUsesRefreshed
  <2> SUFFICES ASSUME IInv, NEW c \in Conn, conn[c].pc = "handshake", conn[c].attempt = 1,
                      HasProfile(conn[c]), ~ conn[c].disturbed
               PROVE  conn[c].sent = conn[c].fresh
    BY DEF RetryUsesRefreshed
  <2>1. Held(conn[c], profile)
    BY DEF IInv, Ok
  <2> QED
    BY <2>1 DEF Held
<1> QED
  BY <1>1, Invariant, PTL

(* A retry for a rule whose profile exists and is not emptied is never     *)
(* sent without ECH.                                                       *)
THEOREM RetryKeepsECH == Spec => []RetryNeverInClear
<1>1. IInv => RetryNeverInClear
  <2> SUFFICES ASSUME IInv, NEW c \in Conn, conn[c].pc = "handshake", conn[c].attempt = 1,
                      HasProfile(conn[c])
               PROVE  conn[c].sent # 0
    BY DEF RetryNeverInClear
  <2>1. Held(conn[c], profile)
    BY DEF IInv, Ok
  <2> QED
    BY <2>1 DEF Held
<1> QED
  BY <1>1, Invariant, PTL

(* The pool hears of every candidate given up, for lists of any length.    *)
THEOREM EveryLoserReported == Spec => []LosersReported
<1>1. IInv => LosersReported
  BY DEF IInv, Ok, Tries, LosersReported
<1> QED
  BY <1>1, Invariant, PTL
=============================================================================
