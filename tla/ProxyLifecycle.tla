--------------------------- MODULE ProxyLifecycle ---------------------------
(***************************************************************************)
(* Starting and stopping the proxy: startProxy, stopProxy and shutdown of  *)
(* core_runtime.go, ProxyServer.Start and Stop of proxy/proxy.go, the      *)
(* goroutine that runs http.Server.Serve, the health loop of the           *)
(* Cloudflare pool, and EnsurePortAvailable of proxy/port_manager_linux.go.*)
(*                                                                         *)
(* Two actors call into the server.  "op" is the holder of proxyOpMu: the  *)
(* start or stop asked for by the command line, the dashboard or startTUN, *)
(* one at a time.  "shutdown" runs once, on a signal, without proxyOpMu.   *)
(* Each critical section of ProxyServer.mu is a step, except in Stop,      *)
(* which keeps the mutex while it waits for the pool's goroutine.          *)
(***************************************************************************)
EXTENDS Integers, FiniteSets

CONSTANTS
    MaxPort,    \* ports are 1..MaxPort; those above are taken by others
    Attempts,   \* ports EnsurePortAvailable tries (10 in the code)
    SelfNamed,  \* this process's comm is one of selfNames ("snishaper")
    MaxStarts   \* bound on the servers created by Start

ASSUME LifecycleConstants ==
    /\ MaxPort \in Nat \ {0}
    /\ Attempts \in Nat \ {0}
    /\ SelfNamed \in BOOLEAN
    /\ MaxStarts \in Nat

VARIABLES
    pc,             \* where each actor is in startProxy, stopProxy or Stop
    mu,             \* who keeps ProxyServer.mu from step to step
    running,        \* p.running
    server,         \* p.Server: the number of its http.Server, 0 for nil
    nsrv,           \* http.Servers created so far; the op's own is the last
    srvClosed,      \* servers on which Close was called
    ln,             \* the port each server's listener holds, 0 when none
    serve,          \* the Serve goroutine of each server
    listenPort,     \* p.listenAddr
    tunnels,        \* ports with a live hijacked connection of this process
    holder,         \* other processes that listen on each port
    socks5Enabled,  \* p.socks5Enabled
    socks5Ln,       \* the SOCKS5 listener is open
    poolRunning,    \* cfPool.running
    stopChan,       \* the number of cfPool.stopChan
    chanClosed,     \* the channels that were closed
    loop,           \* the health loop started with each channel
    waitsOn,        \* the channel each health loop waits on
    proc            \* the process: "up", "signalled" or "exited"

net == <<ln, tunnels, holder>>
srv == <<running, server, nsrv, srvClosed, serve>>
socks == <<socks5Enabled, socks5Ln>>
pool == <<poolRunning, stopChan, chanClosed, loop, waitsOn>>
vars == <<pc, mu, srv, net, listenPort, socks, pool, proc>>

Port == 1..MaxPort
Srv == 1..MaxStarts
Actor == {"op", "shutdown"}

Init ==
    /\ pc = [a \in Actor |-> "idle"]
    /\ mu = "free"
    /\ running = FALSE
    /\ server = 0
    /\ nsrv = 0
    /\ srvClosed = {}
    /\ ln = [s \in Srv |-> 0]
    /\ serve = [s \in Srv |-> "none"]
    /\ listenPort \in Port
    /\ tunnels = {}
    /\ holder = [p \in Port |-> "none"]
    /\ socks5Enabled \in BOOLEAN
    /\ socks5Ln = FALSE
    /\ poolRunning = FALSE
    /\ stopChan = 0
    /\ chanClosed = {}
    /\ loop = [g \in Srv |-> "none"]
    /\ waitsOn = [g \in Srv |-> 0]
    /\ proc = "up"

Goto(a, from, to) ==
    /\ proc # "exited"
    /\ pc[a] = from
    /\ pc' = [pc EXCEPT ![a] = to]

-----------------------------------------------------------------------------
(* The pool's health loop (cf_pool.go) *)

\* Variant: cfPool.Start does not look whether the pool is running.
PoolStartUnguarded ==
    /\ poolRunning' = TRUE
    /\ stopChan' = stopChan + 2
    /\ loop' = [loop EXCEPT ![stopChan + 1] = "unread", ![stopChan + 2] = "unread"]
    /\ UNCHANGED <<chanClosed, waitsOn>>

\* Start calls cfPool.Start twice; the second call returns at once.
PoolStart ==
    IF poolRunning THEN UNCHANGED pool
    ELSE /\ poolRunning' = TRUE
         /\ stopChan' = stopChan + 1
         /\ loop' = [loop EXCEPT ![stopChan + 1] = "unread"]
         /\ UNCHANGED <<chanClosed, waitsOn>>

\* Variant: the channel is not closed.
PoolSignalNoClose ==
    /\ poolRunning' = FALSE
    /\ UNCHANGED <<stopChan, chanClosed, loop, waitsOn>>

\* The first half of cfPool.Stop; the second is wg.Wait.
PoolSignal ==
    IF ~poolRunning THEN UNCHANGED pool
    ELSE /\ poolRunning' = FALSE
         /\ chanClosed' = chanClosed \cup {stopChan}
         /\ UNCHANGED <<stopChan, loop, waitsOn>>

PoolDrained == \A g \in Srv : loop[g] \in {"none", "done"}

\* healthCheckLoop reads p.stopChan without the pool's lock, whenever it runs.
LoopRead(g) ==
    /\ proc # "exited"
    /\ loop[g] = "unread"
    /\ loop' = [loop EXCEPT ![g] = "wait"]
    /\ waitsOn' = [waitsOn EXCEPT ![g] = stopChan]
    /\ UNCHANGED <<pc, mu, srv, net, listenPort, socks, poolRunning, stopChan, chanClosed, proc>>

LoopExit(g) ==
    /\ proc # "exited"
    /\ loop[g] = "wait"
    /\ waitsOn[g] \in chanClosed
    /\ loop' = [loop EXCEPT ![g] = "done"]
    /\ UNCHANGED <<pc, mu, srv, net, listenPort, socks, poolRunning, stopChan, chanClosed, waitsOn, proc>>

-----------------------------------------------------------------------------
(* Choosing the port *)

Listening(p) == holder[p] # "none" \/ \E s \in Srv : ln[s] = p

\* Whom FindProcessByPort may report: it matches the local port of any socket,
\* so also that of an accepted connection.
Owners(p) ==
    {o \in {"self", "foreign", "sibling", "dying"} :
        \/ o = "self" /\ (p \in tunnels \/ \E s \in Srv : ln[s] = p)
        \/ o = holder[p]}

SelfName(o) == o \in {"sibling", "dying"} \/ (o = "self" /\ SelfNamed)

\* EnsurePortAvailable passes over port p: somebody else's.
PassedOver(p) == \E o \in Owners(p) : ~SelfName(o)

\* ... returns port p, nobody holding it;
FoundFree(p) == Owners(p) = {} /\ UNCHANGED <<holder, proc>>

\* ... or sends SIGTERM to a holder of p called snishaper and returns p without
\* waiting for it to go.
Evicted(p) ==
    \E o \in Owners(p) :
        /\ SelfName(o)
        /\ holder' = IF o = "self" THEN holder ELSE [holder EXCEPT ![p] = "dying"]
        /\ proc' = IF o = "self" THEN "signalled" ELSE proc

EnsurePortAvailable(p) ==
    LET tried == {q \in Port : listenPort <= q /\ q < listenPort + Attempts} IN
    \/ /\ p \in tried
       /\ \A q \in tried : q < p => PassedOver(q)
       /\ FoundFree(p) \/ Evicted(p)
    \/ /\ p = listenPort
       /\ \A q \in tried : PassedOver(q)
       /\ UNCHANGED <<holder, proc>>

BeginStart ==
    /\ nsrv < MaxStarts
    /\ Goto("op", "idle", "ensure")
    /\ UNCHANGED <<mu, srv, net, listenPort, socks, pool, proc>>

\* startProxy up to the call of Start.  setListenPort fails if the address is
\* locked, and after the change if the configuration cannot be saved.
SettlePort(p, locked) ==
    /\ EnsurePortAvailable(p)
    /\ mu = "free"
    /\ \/ /\ p = listenPort
          /\ Goto("op", "ensure", "start")
          /\ UNCHANGED listenPort
       \/ /\ p # listenPort /\ locked
          /\ Goto("op", "ensure", "idle")
          /\ UNCHANGED listenPort
       \/ /\ p # listenPort /\ ~locked
          /\ Goto("op", "ensure", "start") \/ Goto("op", "ensure", "idle")
          /\ listenPort' = p
    /\ UNCHANGED <<mu, srv, ln, tunnels, socks, pool>>

\* Variant: SetListenAddr accepts a change at any time.
ChoosePortUnlocked(p) == SettlePort(p, FALSE)

\* SetListenAddr refuses while the server runs.
ChoosePort(p) == SettlePort(p, running)

-----------------------------------------------------------------------------
(* ProxyServer.Start *)

\* The first critical section; the second one is Publish.
StartLocked ==
    /\ mu = "free"
    /\ IF running
       THEN Goto("op", "start", "wait") /\ UNCHANGED <<nsrv, pool>>
       ELSE Goto("op", "start", "listen") /\ nsrv' = nsrv + 1 /\ PoolStart
    /\ UNCHANGED <<mu, running, server, srvClosed, net, listenPort, serve, socks, proc>>

Listen ==
    /\ IF Listening(listenPort)
       THEN Goto("op", "listen", "unpool") /\ UNCHANGED ln
       ELSE Goto("op", "listen", "publish") /\ ln' = [ln EXCEPT ![nsrv] = listenPort]
    /\ UNCHANGED <<mu, srv, tunnels, holder, listenPort, socks, pool, proc>>

\* After a failed Listen the pool is stopped without ProxyServer.mu.
ListenFailed ==
    /\ Goto("op", "unpool", "unpoolwait")
    /\ PoolSignal
    /\ UNCHANGED <<mu, srv, net, listenPort, socks, proc>>

StartFailed ==
    /\ PoolDrained
    /\ Goto("op", "unpoolwait", "idle")
    /\ UNCHANGED <<mu, srv, net, listenPort, socks, pool, proc>>

Publish ==
    /\ mu = "free"
    /\ IF running  \* never, as Start is only called with proxyOpMu held
       THEN /\ Goto("op", "publish", "wait")
            /\ ln' = [ln EXCEPT ![nsrv] = 0]
            /\ UNCHANGED <<running, server, serve>>
       ELSE /\ Goto("op", "publish", "socks")
            /\ server' = nsrv
            /\ running' = TRUE
            /\ serve' = [serve EXCEPT ![nsrv] = "spawned"]
            /\ UNCHANGED ln
    /\ UNCHANGED <<mu, nsrv, srvClosed, tunnels, holder, listenPort, socks, pool, proc>>

\* startSocks5 fails when the listener of an earlier start is still open.
StartSocks5 ==
    /\ Goto("op", "socks", "wait")
    /\ socks5Ln' = (socks5Ln \/ socks5Enabled)
    /\ UNCHANGED <<mu, srv, net, listenPort, socks5Enabled, pool, proc>>

\* waitForListen connects to listenAddr for two seconds.
ListenSeen ==
    /\ Listening(listenPort)
    /\ Goto("op", "wait", "idle")
    /\ UNCHANGED <<mu, srv, net, listenPort, socks, pool, proc>>

ListenNotSeen ==
    /\ Goto("op", "wait", "stop")
    /\ UNCHANGED <<mu, srv, net, listenPort, socks, pool, proc>>

-----------------------------------------------------------------------------
(* ProxyServer.Stop, by either actor *)

BeginStop ==
    /\ Goto("op", "idle", "stop")
    /\ UNCHANGED <<mu, srv, net, listenPort, socks, pool, proc>>

AfterStop(a) == IF a = "op" THEN "idle" ELSE "done"

StopLocked(a) ==
    /\ mu = "free"
    /\ IF ~running
       THEN Goto(a, "stop", AfterStop(a)) /\ UNCHANGED <<mu, running, pool>>
       ELSE /\ Goto(a, "stop", "stopwait")
            /\ mu' = a
            /\ running' = FALSE
            /\ PoolSignal
    /\ UNCHANGED <<server, nsrv, srvClosed, net, serve, listenPort, socks, proc>>

\* http.Server.Close closes the listener if Serve has registered it; hijacked
\* connections and the SOCKS5 listener stay.
CloseServer(a) ==
    /\ Goto(a, "stopwait", AfterStop(a))
    /\ mu' = "free"
    /\ srvClosed' = srvClosed \cup {server}
    /\ ln' = IF serve[server] = "serving" THEN [ln EXCEPT ![server] = 0] ELSE ln
    /\ UNCHANGED <<running, server, nsrv, tunnels, holder, serve, listenPort, socks, pool, proc>>

\* Variant: the pool's goroutine is not waited for.
StopCloseNoWait(a) == CloseServer(a)

StopClose(a) == PoolDrained /\ CloseServer(a)

-----------------------------------------------------------------------------
(* The Serve goroutine of server s *)

Returns(s) ==
    /\ serve' = [serve EXCEPT ![s] = "returned"]
    /\ ln' = [ln EXCEPT ![s] = 0]

\* Serve registers the listener, unless the server was closed before it ran:
\* then it closes the listener and returns.
Registers(s, late) ==
    /\ proc # "exited"
    /\ serve[s] = "spawned"
    /\ \/ /\ s \notin srvClosed
          /\ serve' = [serve EXCEPT ![s] = "serving"]
          /\ UNCHANGED ln
       \/ s \in srvClosed /\ late
    /\ UNCHANGED <<pc, mu, running, server, nsrv, srvClosed, tunnels, holder, listenPort, socks, pool, proc>>

\* Variant: a late Serve leaves the listener open.
ServeBeginLeaks(s) == Registers(s, serve' = [serve EXCEPT ![s] = "returned"] /\ UNCHANGED ln)

ServeBegin(s) == Registers(s, Returns(s))

ServeReturns(s) ==
    /\ proc # "exited"
    /\ serve[s] = "serving"
    /\ s \in srvClosed
    /\ Returns(s)
    /\ UNCHANGED <<pc, mu, running, server, nsrv, srvClosed, tunnels, holder, listenPort, socks, pool, proc>>

\* Accept failed for good.
ServeError(s) ==
    /\ proc # "exited"
    /\ serve[s] = "serving"
    /\ Returns(s)
    /\ UNCHANGED <<pc, mu, running, server, nsrv, srvClosed, tunnels, holder, listenPort, socks, pool, proc>>

Cleanup(s, clears) ==
    /\ proc # "exited"
    /\ serve[s] = "returned"
    /\ mu = "free"
    /\ serve' = [serve EXCEPT ![s] = "done"]
    /\ running' = (running /\ ~clears)
    /\ UNCHANGED <<pc, mu, server, nsrv, srvClosed, net, listenPort, socks, pool, proc>>

\* Variant: every goroutine clears running.
ServeCleanupAlways(s) == Cleanup(s, TRUE)

\* Only the goroutine of the current server may clear running.
ServeCleanup(s) == Cleanup(s, server = s)

-----------------------------------------------------------------------------
(* Connections, the dashboard's SOCKS5 switch, signals, other processes *)

TunnelOpens(s) ==
    /\ proc # "exited"
    /\ serve[s] = "serving" /\ ln[s] # 0
    /\ tunnels' = tunnels \cup {ln[s]}
    /\ UNCHANGED <<pc, mu, srv, ln, holder, listenPort, socks, pool, proc>>

TunnelCloses(p) ==
    /\ p \in tunnels
    /\ tunnels' = tunnels \ {p}
    /\ UNCHANGED <<pc, mu, srv, ln, holder, listenPort, socks, pool, proc>>

SetSocks5Enabled ==
    /\ proc # "exited"
    /\ mu = "free"
    /\ socks5Enabled' = ~socks5Enabled
    /\ UNCHANGED <<pc, mu, srv, net, listenPort, socks5Ln, pool, proc>>

Signal ==
    /\ proc = "up"
    /\ proc' = "signalled"
    /\ UNCHANGED <<pc, mu, srv, net, listenPort, socks, pool>>

\* The start command handles the signal: shutdown stops the server.
Shutdown ==
    /\ proc = "signalled"
    /\ Goto("shutdown", "idle", "stop")
    /\ UNCHANGED <<mu, srv, net, listenPort, socks, pool, proc>>

\* After shutdown, or at once in the web command, which handles no signal.
Exit ==
    /\ proc = "signalled"
    /\ pc["shutdown"] \in {"idle", "done"}
    /\ proc' = "exited"
    /\ ln' = [s \in Srv |-> 0]
    /\ tunnels' = {}
    /\ socks5Ln' = FALSE
    /\ UNCHANGED <<pc, mu, srv, holder, listenPort, socks5Enabled, pool>>

OtherBinds(p, o) ==
    /\ ~Listening(p)
    /\ holder' = [holder EXCEPT ![p] = o]
    /\ UNCHANGED <<pc, mu, srv, ln, tunnels, listenPort, socks, pool, proc>>

OtherExits(p) ==
    /\ holder[p] # "none"
    /\ holder' = [holder EXCEPT ![p] = "none"]
    /\ UNCHANGED <<pc, mu, srv, ln, tunnels, listenPort, socks, pool, proc>>

-----------------------------------------------------------------------------
\* The steps of the op after it was asked for.
OpStep ==
    \/ \E p \in Port : ChoosePort(p)
    \/ StartLocked
    \/ Listen
    \/ ListenFailed
    \/ StartFailed
    \/ Publish
    \/ StartSocks5
    \/ ListenSeen
    \/ ListenNotSeen
    \/ StopLocked("op")
    \/ StopClose("op")

ShutdownStep == StopLocked("shutdown") \/ StopClose("shutdown")

ServeStep(s) == ServeBegin(s) \/ ServeReturns(s) \/ ServeCleanup(s)

LoopStep(g) == LoopRead(g) \/ LoopExit(g)

Environment ==
    \/ BeginStart
    \/ BeginStop
    \/ \E s \in Srv : ServeError(s) \/ TunnelOpens(s)
    \/ \E p \in Port : TunnelCloses(p) \/ OtherExits(p)
    \/ \E p \in Port, o \in {"foreign", "sibling"} : OtherBinds(p, o)
    \/ SetSocks5Enabled
    \/ Signal
    \/ Shutdown
    \/ Exit

Next ==
    \/ OpStep
    \/ ShutdownStep
    \/ \E s \in Srv : ServeStep(s) \/ LoopStep(s)
    \/ Environment

Spec == Init /\ [][Next]_vars

\* Goroutines that can go on do: the Go scheduler runs them, and every wait of
\* the op is bounded by a timeout or by a goroutine that is itself fair.
\* Nothing is assumed of users, connections, signals and other processes.
FairSpec ==
    /\ Spec
    /\ WF_vars(OpStep)
    /\ WF_vars(ShutdownStep)
    /\ \A s \in Srv : WF_vars(ServeStep(s)) /\ WF_vars(LoopStep(s))

-----------------------------------------------------------------------------
(* Properties *)

TypeOK ==
    /\ pc \in [Actor -> {"idle", "ensure", "start", "listen", "unpool", "unpoolwait",
                         "publish", "socks", "wait", "stop", "stopwait", "done"}]
    /\ mu \in Actor \cup {"free"}
    /\ running \in BOOLEAN
    /\ server \in Srv \cup {0}
    /\ nsrv \in Srv \cup {0}
    /\ srvClosed \subseteq Srv
    /\ ln \in [Srv -> Port \cup {0}]
    /\ serve \in [Srv -> {"none", "spawned", "serving", "returned", "done"}]
    /\ listenPort \in Port
    /\ tunnels \subseteq Port
    /\ holder \in [Port -> {"none", "foreign", "sibling", "dying"}]
    /\ socks5Enabled \in BOOLEAN
    /\ socks5Ln \in BOOLEAN
    /\ poolRunning \in BOOLEAN
    /\ stopChan \in Srv \cup {0}
    /\ chanClosed \subseteq Srv
    /\ loop \in [Srv -> {"none", "unread", "wait", "done"}]
    /\ waitsOn \in [Srv -> Srv \cup {0}]
    /\ proc \in {"up", "signalled", "exited"}

\* While the server says it is running, its Serve goroutine has not ended
\* unnoticed and its listener holds the port that listenAddr advertises (and
\* that startTUN hands to mihomo): the address does not change under it.
RunningServesAdvertisedPort ==
    running /\ proc # "exited" =>
        /\ server \in Srv
        /\ \/ serve[server] = "returned"
           \/ serve[server] \in {"spawned", "serving"} /\ ln[server] = listenPort

\* A server that accepts connections and was not closed is the current one and
\* can be stopped: the goroutine of a predecessor, which may run its last lines
\* after the next Start, does not clear the flag Stop looks at.
ServingCanBeStopped ==
    \A s \in Srv : serve[s] \in {"spawned", "serving"} /\ s \notin srvClosed =>
        s = server /\ (running \/ mu # "free")

\* A listener that is open is one that Start is about to publish or one whose
\* goroutine still has to run Serve to its end: none is leaked by a failed or
\* repeated Start, or by a Stop that comes before Serve.
NoListenerLeaked ==
    \A s \in Srv : ln[s] # 0 =>
        \/ serve[s] \in {"spawned", "serving"}
        \/ pc["op"] = "publish" /\ s = nsrv

\* The health loop reads stopChan late and without the lock.  Still it never
\* waits on a channel that a later Stop would not close, there is never a
\* second loop, and a running server has its pool running.
PoolLoopStoppable ==
    /\ \A g \in Srv : loop[g] \in {"unread", "wait"} =>
           /\ g = stopChan
           /\ loop[g] = "wait" => waitsOn[g] = stopChan
           /\ poolRunning \/ stopChan \in chanClosed
    /\ poolRunning => stopChan \notin chanClosed
    /\ running => poolRunning

\* Stop waits for the health loop with the server's mutex held, and everybody
\* else waits for the mutex: every start and stop still comes to an end.
OpFinishes ==
    pc["op"] # "idle" ~> (pc["op"] = "idle" \/ proc = "exited")
=============================================================================
