------------------------------ MODULE MihomoTUN ------------------------------
(***************************************************************************)
(* TUN mode (external_mihomo.go, the TUN part of core_runtime.go and       *)
(* cmdTUN of cli.go): a mihomo process is started, watched through its     *)
(* log lines and found again through a pid file. Several SniShaper         *)
(* processes work on that file at once, the daemon behind the dashboard    *)
(* and the commands "tun start", "tun stop" and "tun status"; each has a   *)
(* manager of its own, and m.mu serialises only the requests of one.       *)
(*                                                                         *)
(* A log line is abstracted to what the code looks for in it, and the      *)
(* message of a status is left out. Process ids are not reused.            *)
(***************************************************************************)
EXTENDS Naturals, Sequences

CONSTANTS
    Req,     \* requests, numbered as they come
    Mgr,     \* SniShaper processes
    Cli,     \* those of them that run one command
    Root,    \* those of them that run as root
    Pid,     \* process ids mihomo can get
    LogMax   \* lines a log buffer keeps (50 in the code)

ASSUME TUNConstants ==
    /\ Cli \subseteq Mgr
    /\ Root \subseteq Mgr
    /\ Pid \subseteq Nat \ {0}
    /\ LogMax \in Nat \ {0}
    /\ Req \subseteq Nat \ {0}
    /\ "none" \notin Mgr

VARIABLES
    pc,       \* where each request is
    kind,     \* what it asks for
    mgr,      \* the manager it was made to
    seen,     \* the pid it has read from the pid file, 0 for none
    child,    \* the mihomo a start has started, 0 for none
    answer,   \* the answer it got
    mu,       \* the holder of each manager's mutex, 0 for nobody
    alive,    \* the SniShaper processes that have not ended
    tun,      \* tunStarting and tunStartErr of each daemon
    log,      \* each manager's log buffer: is a line one that says "ready"?
    proc,     \* the state of each mihomo
    own,      \* the manager that reads its output
    said,     \* history: those whose output said "ready"
    chan,     \* what readyChan and fatalChan of its Start hold
    pidfile,  \* the pid in the file, 0 if there is no file
    astray,   \* history: the file was worked on by two processes at once,
              \* or not written
    barred    \* history: the mihomos of root that a process without the right
              \* to signal them tried to stop or to look at

reqs == <<pc, kind, mgr, seen, child, answer>>
mihomo == <<proc, own, said, chan>>
vars == <<reqs, mu, alive, tun, log, mihomo, pidfile, astray, barred>>

Kind == {"start", "stop", "status"}
Line == {"ready", "fatal", "other"}

\* Where a request is between reading the pid file and its last use of it.
FileWork == {"read", "kill", "remove", "spawn", "pid", "sread", "scheck"}
AtRest == {"idle", "done"}

Init ==
    /\ pc = [r \in Req |-> "idle"]
    /\ kind = [r \in Req |-> "none"]
    /\ mgr = [r \in Req |-> "none"]
    /\ seen = [r \in Req |-> 0]
    /\ child = [r \in Req |-> 0]
    /\ answer = [r \in Req |-> "none"]
    /\ mu = [m \in Mgr |-> 0]
    /\ alive = Mgr
    /\ tun = [m \in Mgr |-> "quiet"]
    /\ log = [m \in Mgr |-> <<>>]
    /\ proc = [p \in Pid |-> "none"]
    /\ own = [p \in Pid |-> "none"]
    /\ said = {}
    /\ chan = [p \in Pid |-> {}]
    /\ pidfile = 0
    /\ astray = FALSE
    /\ barred = {}

-----------------------------------------------------------------------------
(* Requests *)

Goto(r, from, to) ==
    /\ pc[r] = from
    /\ pc' = [pc EXCEPT ![r] = to]

Daemon(m) == m \in Mgr \ Cli

\* Request r begins to work on the pid file: astray if another process is
\* at it.
Enter(r, from, to) ==
    /\ Goto(r, from, to)
    /\ astray' = (astray \/ \E s \in Req : mgr[s] # mgr[r] /\ pc[s] \in FileWork)

\* The dashboard's handlers, or cmdTUN: a command is one request, "tun start"
\* needs root, and stops its mihomo when it is told to end.
Request(r, m, k) ==
    /\ m \in alive /\ \A s \in Req : s < r => pc[s] # "idle"
    /\ m \in Cli /\ k = "start" => m \in Root
    /\ m \in Cli =>
         \A s \in Req : mgr[s] = m => answer[s] = "started" /\ k = "stop"
    /\ Goto(r, "idle", IF k = "start" /\ Daemon(m) THEN "proxy" ELSE "lock")
    /\ kind' = [kind EXCEPT ![r] = k]
    /\ mgr' = [mgr EXCEPT ![r] = m]
    /\ tun' = IF Daemon(m) /\ k # "status"
              THEN [tun EXCEPT ![m] = IF k = "start" THEN "starting" ELSE "quiet"]
              ELSE tun
    /\ UNCHANGED <<seen, child, answer, mu, alive, log, mihomo, pidfile, astray, barred>>

\* startTUN starts the proxy if it is not running, and needs its port.
ProxyReady(r) ==
    /\ Goto(r, "proxy", "lock")
    /\ UNCHANGED <<kind, mgr, seen, child, answer, mu, alive, tun, log, mihomo,
                   pidfile, astray, barred>>

\* Variant: the early return of startTUN is taken without the defer.
ProxyFailedNoDefer(r) ==
    /\ Goto(r, "proxy", "done")
    /\ answer' = [answer EXCEPT ![r] = "failed"]
    /\ UNCHANGED <<kind, mgr, seen, child, mu, alive, tun, log, mihomo, pidfile,
                   astray, barred>>

ProxyFailed(r) ==
    /\ Goto(r, "proxy", "finish")
    /\ answer' = [answer EXCEPT ![r] = "failed"]
    /\ UNCHANGED <<kind, mgr, seen, child, mu, alive, tun, log, mihomo, pidfile,
                   astray, barred>>

Lock(r) ==
    /\ pc[r] = "lock" /\ mu[mgr[r]] = 0
    /\ mu' = [mu EXCEPT ![mgr[r]] = r]
    /\ \/ kind[r] = "start" /\ Goto(r, "lock", "config") /\ UNCHANGED astray
       \/ kind[r] = "stop" /\ Enter(r, "lock", "read")
       \/ kind[r] = "status" /\ Enter(r, "lock", "sread")
    /\ UNCHANGED <<kind, mgr, seen, child, answer, alive, tun, log, mihomo, pidfile, barred>>

\* Return from the manager, its mutex released (deferred) and its locals gone.
\* The dashboard's start has tunStarting to reset after it.
Return(r, from, a) ==
    /\ Goto(r, from, IF kind[r] = "start" /\ Daemon(mgr[r]) THEN "finish" ELSE "done")
    /\ answer' = [answer EXCEPT ![r] = a]
    /\ mu' = [mu EXCEPT ![mgr[r]] = 0]
    /\ seen' = [seen EXCEPT ![r] = 0]

\* setTUNStartState in startTUN's defer.
Finish(r) ==
    /\ Goto(r, "finish", "done")
    /\ tun' = [tun EXCEPT ![mgr[r]] =
                 IF answer[r] = "failed" THEN "failed" ELSE "quiet"]
    /\ UNCHANGED <<kind, mgr, seen, child, answer, mu, alive, log, mihomo, pidfile,
                   astray, barred>>

-----------------------------------------------------------------------------
(* stopLocked, for a stop and at the beginning of a start *)

ReadPID(r) ==
    /\ Goto(r, "read", IF pidfile = 0 THEN "remove" ELSE "kill")
    /\ seen' = [seen EXCEPT ![r] = pidfile]
    /\ UNCHANGED <<kind, mgr, child, answer, mu, alive, tun, log, mihomo, pidfile,
                   astray, barred>>

\* A signal to mihomo p from manager m: what root has started only root may
\* signal.
Permitted(m, p) == m \in Root \/ own[p] \notin Root

Bar(r) ==
    barred' = IF seen[r] # 0 /\ ~Permitted(mgr[r], seen[r]) THEN barred \cup {seen[r]} ELSE barred

\* The error of proc.Kill is dropped.
Kill(r) ==
    /\ Goto(r, "kill", "remove")
    /\ proc' = [proc EXCEPT ![seen[r]] =
                  IF @ = "run" /\ Permitted(mgr[r], seen[r]) THEN "zombie" ELSE @]
    /\ Bar(r)
    /\ UNCHANGED <<kind, mgr, seen, child, answer, mu, alive, tun, log, own,
                   said, chan, pidfile, astray>>

\* The error of os.Remove is dropped too.
RemoveFile == pidfile' \in {0, pidfile}

Remove(r) ==
    /\ RemoveFile
    /\ \/ kind[r] = "stop" /\ Return(r, "remove", "stopped")
       \/ /\ kind[r] = "start"
          /\ Goto(r, "remove", "spawn")
          /\ UNCHANGED <<seen, answer, mu>>
    /\ UNCHANGED <<kind, mgr, child, alive, tun, log, mihomo, astray, barred>>

-----------------------------------------------------------------------------
(* Start *)

\* Variant: Start does not call stopLocked.
EnsureConfigNoStop(r) ==
    /\ Enter(r, "config", "spawn")
    /\ UNCHANGED <<kind, mgr, seen, child, answer, mu, alive, tun, log, mihomo,
                   pidfile, barred>>

EnsureConfig(r) ==
    /\ Enter(r, "config", "read")
    /\ UNCHANGED <<kind, mgr, seen, child, answer, mu, alive, tun, log, mihomo,
                   pidfile, barred>>

\* No mihomo core, or config.yaml cannot be written.
ConfigFailed(r) ==
    /\ Return(r, "config", "failed")
    /\ UNCHANGED <<kind, mgr, child, alive, tun, log, mihomo, pidfile, astray, barred>>

Spawn(r, p) ==
    /\ proc[p] = "none" /\ \A q \in Pid : q < p => proc[q] # "none"
    /\ Goto(r, "spawn", "pid")
    /\ log' = [log EXCEPT ![mgr[r]] = <<>>]
    /\ child' = [child EXCEPT ![r] = p]
    /\ proc' = [proc EXCEPT ![p] = "run"]
    /\ own' = [own EXCEPT ![p] = mgr[r]]
    /\ UNCHANGED <<kind, mgr, seen, answer, mu, alive, tun, said, chan, pidfile,
                   astray, barred>>

SpawnFailed(r) ==
    /\ Return(r, "spawn", "failed")
    /\ log' = [log EXCEPT ![mgr[r]] = <<>>]
    /\ UNCHANGED <<kind, mgr, child, alive, tun, mihomo, pidfile, astray, barred>>

\* Variant: the pid file is left to what stopLocked made of it.
WritePIDForgotten(r) ==
    /\ Goto(r, "pid", "wait")
    /\ UNCHANGED <<kind, mgr, seen, child, answer, mu, alive, tun, log, mihomo,
                   pidfile, astray, barred>>

WritePID(r) ==
    /\ Goto(r, "pid", "wait")
    /\ pidfile' = child[r]
    /\ UNCHANGED <<kind, mgr, seen, child, answer, mu, alive, tun, log, mihomo, astray, barred>>

\* The error of os.WriteFile is dropped.
WritePIDFailed(r) ==
    /\ Goto(r, "pid", "wait")
    /\ astray' = TRUE
    /\ UNCHANGED <<kind, mgr, seen, child, answer, mu, alive, tun, log, mihomo, pidfile, barred>>

Ready(r) ==
    /\ Return(r, "wait", "started")
    /\ "ready" \in chan[child[r]]
    /\ chan' = [chan EXCEPT ![child[r]] = {}]
    /\ UNCHANGED <<kind, mgr, child, alive, tun, log, proc, own, said, pidfile, astray, barred>>

\* Variant: Start unlocks by hand and forgets one of its returns.
FatalKeepsLock(r) ==
    /\ Goto(r, "wait", "done")
    /\ "fatal" \in chan[child[r]]
    /\ answer' = [answer EXCEPT ![r] = "failed"]
    /\ UNCHANGED <<kind, mgr, seen, child, mu, alive, tun, log, mihomo, pidfile, astray, barred>>

Fatal(r) ==
    /\ Return(r, "wait", "failed")
    /\ "fatal" \in chan[child[r]]
    /\ chan' = [chan EXCEPT ![child[r]] = {}]
    /\ UNCHANGED <<kind, mgr, child, alive, tun, log, proc, own, said, pidfile, astray, barred>>

\* Twelve seconds are over: the reason is looked up as a status is.
Timeout(r) ==
    /\ Enter(r, "wait", "sread")
    /\ chan' = [chan EXCEPT ![child[r]] = {}]
    /\ UNCHANGED <<kind, mgr, seen, child, answer, mu, alive, tun, log, proc, own, said,
                   pidfile, barred>>

-----------------------------------------------------------------------------
(* Status, and the end of a start that timed out *)

StatusRead(r) ==
    /\ Goto(r, "sread", "scheck")
    /\ seen' = [seen EXCEPT ![r] = pidfile]
    /\ UNCHANGED <<kind, mgr, child, answer, mu, alive, tun, log, mihomo, pidfile,
                   astray, barred>>

\* Status looks for the mihomo core before anything else.
NoCore(r) ==
    /\ kind[r] = "status"
    /\ Return(r, "sread", "down")
    /\ UNCHANGED <<kind, mgr, child, alive, tun, log, mihomo, pidfile, astray, barred>>

\* processRunning: signal 0 reaches a process until it has been waited for; one
\* that may not be signalled is taken for one that does not run.
ProcessRunning(m, p) == proc[p] \in {"run", "zombie"} /\ Permitted(m, p)

\* runningStateLocked
RunningState(r) ==
    /\ seen[r] # 0
    /\ ProcessRunning(mgr[r], seen[r])
    /\ \E i \in DOMAIN log[mgr[r]] : log[mgr[r]][i]

StatusCheck(r) ==
    /\ Return(r, "scheck", CASE kind[r] = "start" -> "failed"
                             [] RunningState(r)   -> "running"
                             [] OTHER             -> "down")
    /\ IF seen[r] # 0 /\ ~ProcessRunning(mgr[r], seen[r]) THEN RemoveFile ELSE UNCHANGED pidfile
    /\ Bar(r)
    /\ UNCHANGED <<kind, mgr, child, alive, tun, log, mihomo, astray>>

-----------------------------------------------------------------------------
(* mihomo and the goroutines that watch it *)

\* ringLogWriter.Write
Append1(s, ready) ==
    LET t == Append(s, ready) IN IF Len(t) > LogMax THEN Tail(t) ELSE t

\* Start is still there to receive from the channels it made for p.
Awaited(p) == \E r \in Req : pc[r] = "wait" /\ child[r] = p

\* mihomo prints a line and pipeDrain and checkLine read it; what a killed
\* mihomo has left in the pipe is read until cmd.Wait closes it. The goroutines
\* begin once the pid file is written. The line is appended to the log with
\* add, and its kind sent to the Starts that wait for one of to.
DrainWith(p, l, add(_, _), to) ==
    /\ proc[p] \in {"run", "zombie"} /\ own[p] \in alive
    /\ \A r \in Req : child[r] = p => pc[r] # "pid"
    /\ log' = [log EXCEPT ![own[p]] = add(@, l = "ready")]
    /\ said' = IF l = "ready" THEN said \cup {p} ELSE said
    /\ chan' = [q \in Pid |-> IF q \in to /\ l # "other" /\ Awaited(q)
                              THEN chan[q] \cup {l} ELSE chan[q]]
    /\ UNCHANGED <<reqs, mu, alive, tun, proc, own, pidfile, astray, barred>>

\* Variant: the channels are the manager's, not those of one Start.
DrainShared(p, l) == DrainWith(p, l, Append1, {q \in Pid : own[q] = own[p]})

Drain(p, l) == DrainWith(p, l, Append1, {p})

Exit(p) ==
    /\ proc[p] = "run"
    /\ proc' = [proc EXCEPT ![p] = "zombie"]
    /\ UNCHANGED <<reqs, mu, alive, tun, log, own, said, chan, pidfile, astray, barred>>

\* cmd.Wait, or init once its parent has gone.
Reap(p) ==
    /\ proc[p] = "zombie"
    /\ proc' = [proc EXCEPT ![p] = "gone"]
    /\ UNCHANGED <<reqs, mu, alive, tun, log, own, said, chan, pidfile, astray, barred>>

\* A SniShaper process is killed, or its command is over. mihomo stays.
ProcessEnds(m) ==
    /\ m \in alive
    /\ alive' = alive \ {m}
    /\ pc' = [r \in Req |-> IF mgr[r] = m THEN "done" ELSE pc[r]]
    /\ seen' = [r \in Req |-> IF mgr[r] = m THEN 0 ELSE seen[r]]
    /\ mu' = [mu EXCEPT ![m] = 0]
    /\ tun' = [tun EXCEPT ![m] = "quiet"]
    /\ log' = [log EXCEPT ![m] = <<>>]
    /\ astray' = (astray \/ \E r \in Req : mgr[r] = m /\ pc[r] = "pid")
    /\ chan' = [p \in Pid |-> IF own[p] = m THEN {} ELSE chan[p]]
    /\ UNCHANGED <<kind, mgr, child, answer, proc, own, said, pidfile, barred>>

-----------------------------------------------------------------------------
Step(r) ==
    \/ ProxyReady(r) \/ ProxyFailed(r) \/ Lock(r) \/ Finish(r)
    \/ ReadPID(r) \/ Kill(r) \/ Remove(r)
    \/ EnsureConfig(r) \/ ConfigFailed(r)
    \/ \E p \in Pid : Spawn(r, p)
    \/ SpawnFailed(r) \/ WritePID(r) \/ WritePIDFailed(r)
    \/ Ready(r) \/ Fatal(r) \/ Timeout(r)
    \/ StatusRead(r) \/ NoCore(r) \/ StatusCheck(r)

Next ==
    \/ \E r \in Req : Step(r) \/ \E m \in Mgr, k \in Kind : Request(r, m, k)
    \/ \E p \in Pid : Exit(p) \/ Reap(p) \/ \E l \in Line : Drain(p, l)
    \/ \E m \in Mgr : ProcessEnds(m)

\* Go runs every goroutine and hands a mutex over to who waits for it; the
\* twelve-second timer fires. Of mihomo nothing is assumed.
Fairness == \A r \in Req : WF_vars(Step(r)) /\ SF_vars(Lock(r))

Spec == Init /\ [][Next]_vars
FairSpec == Spec /\ Fairness

-----------------------------------------------------------------------------
(* Properties *)

\* The requests, processes and files keep their types, and a log buffer its
\* bound, whatever order the output of an old and a new mihomo arrives in.
TypeOK ==
    /\ pc \in [Req -> AtRest \cup FileWork \cup {"proxy", "lock", "config", "wait", "finish"}]
    /\ kind \in [Req -> Kind \cup {"none"}]
    /\ mgr \in [Req -> Mgr \cup {"none"}]
    /\ seen \in [Req -> Pid \cup {0}]
    /\ child \in [Req -> Pid \cup {0}]
    /\ answer \in [Req -> {"none", "started", "stopped", "failed", "running", "down"}]
    /\ mu \in [Mgr -> Req \cup {0}]
    /\ alive \subseteq Mgr
    /\ tun \in [Mgr -> {"quiet", "starting", "failed"}]
    /\ log \in [Mgr -> Seq(BOOLEAN)]
    /\ \A m \in Mgr : Len(log[m]) <= LogMax
    /\ proc \in [Pid -> {"none", "run", "zombie", "gone"}]
    /\ own \in [Pid -> Mgr \cup {"none"}]
    /\ said \subseteq Pid
    /\ chan \in [Pid -> SUBSET {"ready", "fatal"}]
    /\ pidfile \in Pid \cup {0}
    /\ astray \in BOOLEAN
    /\ barred \subseteq Pid

\* Unless two processes worked on the pid file at once or it could not be
\* written, a mihomo that nobody has killed is the one named in the pid file,
\* so that "tun stop" reaches it (stopLocked knows no other way); the only
\* exceptions are one that is just being started, and one of root's that a
\* process without the right to signal it tried to stop or to look at. This
\* covers starts that failed, statuses that remove the file, files that cannot
\* be removed, and SniShaper being killed.
MihomoInPidFile ==
    ~astray =>
        \A p \in Pid \ barred : proc[p] = "run" =>
            \/ pidfile = p
            \/ \E r \in Req : pc[r] = "pid" /\ child[r] = p

\* Under the same condition two mihomos never run at once, but for those of
\* root's that were out of a start's reach: Start does away with the one it
\* finds before it starts another.
OneMihomo ==
    ~astray =>
        \A p, q \in Pid \ barred : proc[p] = "run" /\ proc[q] = "run" => p = q

\* Start answers success only when the mihomo it has itself started printed a
\* line that isReadyMihomoLine accepts; late output of the one it killed,
\* which lands in the same log buffer, does not count.
StartedMeansReady ==
    \A r \in Req : answer[r] = "started" => child[r] \in said

\* tunStarting is up only while a start of the dashboard is in progress,
\* however starts and stops overlap: getTUNStatus never shows "TUN startup in
\* progress" for good.
StartingMeansInFlight ==
    \A m \in Mgr : tun[m] = "starting" =>
        \E r \in Req : mgr[r] = m /\ kind[r] = "start" /\ pc[r] \notin AtRest

\* Every request is answered or its process ends: no error path of Start
\* keeps m.mu, and a mihomo that says nothing is given up after the timeout.
EveryTUNRequestAnswered ==
    \A r \in Req : pc[r] = "lock" ~> pc[r] = "done"
=============================================================================
