--------------------------- MODULE MihomoTUNProofs ---------------------------
(***************************************************************************)
(* That the pid file leads to the mihomo that runs, and that there is only *)
(* one, for any number of requests, processes and mihomos.                 *)
(***************************************************************************)
EXTENDS MihomoTUN, SequenceTheorems, TLAPS

\* A request inside a manager holds its mutex.
LockedOf(r) ==
    /\ pc[r] # "idle" => mgr[r] \in Mgr
    /\ pc[r] \in FileWork \cup {"config", "wait"} => mu[mgr[r]] = r

LockedInv == \A r \in Req : LockedOf(r)

\* One request at a time works on the pid file, of whatever process.
AloneInv ==
    ~astray => \A r, s \in Req : pc[r] \in FileWork /\ pc[s] \in FileWork => r = s

\* What the request that works on the file knows.
KnowsOf(r) ==
    /\ pc[r] \in {"kill", "scheck"} => seen[r] = pidfile
    /\ pc[r] \in {"remove", "spawn"} => \A q \in Pid \ barred : proc[q] # "run"
    /\ pc[r] = "pid" => \A q \in Pid \ barred : proc[q] = "run" => q = child[r]

KnowsInv == ~astray => \A r \in Req : KnowsOf(r)

FileInv == AloneInv /\ KnowsInv /\ MihomoInPidFile

\* A line in a channel was printed by the mihomo the channel was made for.
ReadyOf(r) ==
    /\ pc[r] \notin {"finish", "done"} => answer[r] = "none"
    /\ pc[r] \in {"pid", "wait"} => child[r] \in Pid
    /\ answer[r] = "started" => child[r] \in said

ReadyInv ==
    /\ \A q \in Pid : "ready" \in chan[q] => q \in said
    /\ \A r \in Req : ReadyOf(r)

-----------------------------------------------------------------------------
\* ringLogWriter.Write keeps the bound of the log.
LEMMA AppendCut ==
    ASSUME NEW s \in Seq(BOOLEAN), NEW b \in BOOLEAN, Len(s) <= LogMax
    PROVE  Append1(s, b) \in Seq(BOOLEAN) /\ Len(Append1(s, b)) <= LogMax
<1>1. Append(s, b) \in Seq(BOOLEAN) /\ Append(s, b) # <<>> /\ Len(Append(s, b)) = Len(s) + 1
  BY AppendProperties
<1>2. Tail(Append(s, b)) \in Seq(BOOLEAN) /\ Len(Tail(Append(s, b))) = Len(Append(s, b)) - 1
  BY <1>1, HeadTailProperties
<1>3. Len(s) \in Nat /\ LogMax \in Nat
  BY TUNConstants
<1>4. CASE Len(Append(s, b)) > LogMax
  <2>1. Append1(s, b) = Tail(Append(s, b))
    BY <1>4 DEF Append1
  <2> QED
    BY <1>1, <1>2, <1>3, <2>1
<1>5. CASE ~(Len(Append(s, b)) > LogMax)
  <2>1. Append1(s, b) = Append(s, b)
    BY <1>5 DEF Append1
  <2>2. Len(Append(s, b)) <= LogMax
    BY <1>1, <1>3, <1>5
  <2> QED
    BY <1>1, <2>1, <2>2
<1> QED
  BY <1>4, <1>5

\* An empty log is within its bound.
LEMMA EmptyLog == <<>> \in Seq(BOOLEAN) /\ Len(<<>>) <= LogMax
BY TUNConstants

\* The initial states have the right types.
LEMMA TUNTypeInit == Init => TypeOK
<1> SUFFICES ASSUME Init
             PROVE  TypeOK
  OBVIOUS
<1>1. log \in [Mgr -> Seq(BOOLEAN)] /\ \A m \in Mgr : Len(log[m]) <= LogMax
  BY EmptyLog DEF Init
<1>2. said \subseteq Pid /\ barred \subseteq Pid /\ alive \subseteq Mgr /\ astray \in BOOLEAN
  BY DEF Init
<1> QED
  BY <1>1, <1>2, TUNConstants DEF Init, TypeOK, Kind, FileWork, AtRest

\* Every step keeps the types.
LEMMA TUNTypeStep ==
    ASSUME TypeOK, [Next]_vars
    PROVE  TypeOK'
<1> USE TUNConstants DEF TypeOK, FileWork, AtRest, Kind
<1>1. ASSUME NEW r \in Req, NEW m \in Mgr, NEW k \in Kind, Request(r, m, k)
      PROVE  TypeOK'
  BY <1>1 DEF Request, Goto, Daemon, reqs, mihomo
<1>2. ASSUME NEW r \in Req, ProxyReady(r)
      PROVE  TypeOK'
  BY <1>2 DEF ProxyReady, Goto, reqs, mihomo
<1>3. ASSUME NEW r \in Req, ProxyFailed(r)
      PROVE  TypeOK'
  BY <1>3 DEF ProxyFailed, Goto, reqs, mihomo
<1>4. ASSUME NEW r \in Req, Lock(r)
      PROVE  TypeOK'
  BY <1>4 DEF Lock, Goto, Enter, reqs, mihomo
<1>5. ASSUME NEW r \in Req, Finish(r)
      PROVE  TypeOK'
  BY <1>5 DEF Finish, Goto, reqs, mihomo
<1>6. ASSUME NEW r \in Req, ReadPID(r)
      PROVE  TypeOK'
  BY <1>6 DEF ReadPID, Goto, reqs, mihomo
<1>7. ASSUME NEW r \in Req, Kill(r)
      PROVE  TypeOK'
  BY <1>7 DEF Kill, Bar, Goto, reqs, mihomo
<1>8. ASSUME NEW r \in Req, Remove(r)
      PROVE  TypeOK'
  BY <1>8 DEF Remove, RemoveFile, Goto, Return, reqs, mihomo
<1>9. ASSUME NEW r \in Req, EnsureConfig(r)
      PROVE  TypeOK'
  BY <1>9 DEF EnsureConfig, Goto, Enter, reqs, mihomo
<1>10. ASSUME NEW r \in Req, ConfigFailed(r)
      PROVE  TypeOK'
  BY <1>10 DEF ConfigFailed, Goto, Return, reqs, mihomo
<1>11. ASSUME NEW r \in Req, NEW p \in Pid, Spawn(r, p)
      PROVE  TypeOK'
  BY <1>11, EmptyLog DEF Spawn, Goto, reqs, mihomo
<1>12. ASSUME NEW r \in Req, SpawnFailed(r)
      PROVE  TypeOK'
  BY <1>12, EmptyLog DEF SpawnFailed, Goto, Return, reqs, mihomo
<1>13. ASSUME NEW r \in Req, WritePID(r)
      PROVE  TypeOK'
  BY <1>13 DEF WritePID, Goto, reqs, mihomo
<1>14. ASSUME NEW r \in Req, WritePIDFailed(r)
      PROVE  TypeOK'
  BY <1>14 DEF WritePIDFailed, Goto, reqs, mihomo
<1>15. ASSUME NEW r \in Req, Ready(r)
      PROVE  TypeOK'
  BY <1>15 DEF Ready, Goto, Return, reqs, mihomo
<1>16. ASSUME NEW r \in Req, Fatal(r)
      PROVE  TypeOK'
  BY <1>16 DEF Fatal, Goto, Return, reqs, mihomo
<1>17. ASSUME NEW r \in Req, Timeout(r)
      PROVE  TypeOK'
  BY <1>17 DEF Timeout, Goto, Enter, reqs, mihomo
<1>18. ASSUME NEW r \in Req, StatusRead(r)
      PROVE  TypeOK'
  BY <1>18 DEF StatusRead, Goto, reqs, mihomo
<1>19. ASSUME NEW r \in Req, NoCore(r)
      PROVE  TypeOK'
  BY <1>19 DEF NoCore, Goto, Return, reqs, mihomo
<1>20. ASSUME NEW r \in Req, StatusCheck(r)
      PROVE  TypeOK'
  BY <1>20 DEF StatusCheck, RemoveFile, Bar, Goto, Return, reqs, mihomo
<1>21. ASSUME NEW p \in Pid, Exit(p)
      PROVE  TypeOK'
  BY <1>21 DEF Exit, reqs, mihomo
<1>22. ASSUME NEW p \in Pid, Reap(p)
      PROVE  TypeOK'
  BY <1>22 DEF Reap, reqs, mihomo
<1>23. ASSUME NEW p \in Pid, NEW l \in Line, Drain(p, l)
      PROVE  TypeOK'
  <2>1. CASE own[p] \in Mgr
    <3>1. log[own[p]] \in Seq(BOOLEAN) /\ Len(log[own[p]]) <= LogMax
      BY <2>1
    <3>2. (l = "ready") \in BOOLEAN
      OBVIOUS
    <3> DEFINE new == Append1(log[own[p]], l = "ready")
    <3>3. new \in Seq(BOOLEAN) /\ Len(new) <= LogMax
      BY <3>1, <3>2, AppendCut
    <3>4. log' = [log EXCEPT ![own[p]] = new]
      BY <1>23 DEF Drain, DrainWith
    <3> HIDE DEF new
    <3>5. log' \in [Mgr -> Seq(BOOLEAN)] /\ \A m \in Mgr : Len(log'[m]) <= LogMax
      BY <3>3, <3>4
    <3>6. chan' \in [Pid -> SUBSET {"ready", "fatal"}] /\ said' \subseteq Pid
      BY <1>23 DEF Drain, DrainWith, Line
    <3> QED
      BY <1>23, <3>5, <3>6 DEF Drain, DrainWith, reqs
  <2> QED
    BY <1>23, <2>1 DEF Drain, DrainWith
<1>24. ASSUME NEW m \in Mgr, ProcessEnds(m)
      PROVE  TypeOK'
  BY <1>24, EmptyLog DEF ProcessEnds
<1>25. CASE UNCHANGED vars
  BY <1>25 DEF vars, reqs, mihomo
<1> HIDE DEF TypeOK
<1>26. QED
  BY <1>1, <1>2, <1>3, <1>4, <1>5, <1>6, <1>7, <1>8, <1>9, <1>10, <1>11, <1>12, <1>13,
     <1>14, <1>15, <1>16, <1>17, <1>18, <1>19, <1>20, <1>21, <1>22, <1>23, <1>24, <1>25 DEF Next, Step

-----------------------------------------------------------------------------
\* Initially nobody holds a mutex.
LEMMA LockedInit == Init => LockedInv
<1> SUFFICES ASSUME Init, NEW r \in Req
             PROVE  LockedOf(r)
  BY DEF LockedInv
<1>1. pc[r] = "idle"
  BY DEF Init
<1> QED
  BY <1>1 DEF LockedOf, FileWork

\* Every step keeps the mutexes with the requests that hold them.
LEMMA LockedStep ==
    ASSUME TypeOK, LockedInv, [Next]_vars
    PROVE  LockedInv'
<1> SUFFICES ASSUME NEW x \in Req
             PROVE  LockedOf(x)'
  BY DEF LockedInv
<1>0. LockedOf(x) /\ (\A r \in Req : LockedOf(r)) /\ (\A r \in Req : r # 0) /\ "none" \notin Mgr
  BY TUNConstants DEF LockedInv
<1> USE <1>0 DEF TypeOK, FileWork, AtRest, LockedOf
<1>1. ASSUME NEW r \in Req, NEW m \in Mgr, NEW k \in Kind, Request(r, m, k)
      PROVE  LockedOf(x)'
  BY <1>1 DEF Request, Goto, Daemon, reqs, mihomo
<1>2. ASSUME NEW r \in Req, ProxyReady(r)
      PROVE  LockedOf(x)'
  BY <1>2 DEF ProxyReady, Goto, reqs, mihomo
<1>3. ASSUME NEW r \in Req, ProxyFailed(r)
      PROVE  LockedOf(x)'
  BY <1>3 DEF ProxyFailed, Goto, reqs, mihomo
<1>4. ASSUME NEW r \in Req, Lock(r)
      PROVE  LockedOf(x)'
  BY <1>4 DEF Lock, Goto, Enter, reqs, mihomo
<1>5. ASSUME NEW r \in Req, Finish(r)
      PROVE  LockedOf(x)'
  BY <1>5 DEF Finish, Goto, reqs, mihomo
<1>6. ASSUME NEW r \in Req, ReadPID(r)
      PROVE  LockedOf(x)'
  BY <1>6 DEF ReadPID, Goto, reqs, mihomo
<1>7. ASSUME NEW r \in Req, Kill(r)
      PROVE  LockedOf(x)'
  BY <1>7 DEF Kill, Bar, Goto, reqs, mihomo
<1>8. ASSUME NEW r \in Req, Remove(r)
      PROVE  LockedOf(x)'
  BY <1>8 DEF Remove, RemoveFile, Goto, Return, reqs, mihomo
<1>9. ASSUME NEW r \in Req, EnsureConfig(r)
      PROVE  LockedOf(x)'
  BY <1>9 DEF EnsureConfig, Goto, Enter, reqs, mihomo
<1>10. ASSUME NEW r \in Req, ConfigFailed(r)
      PROVE  LockedOf(x)'
  BY <1>10 DEF ConfigFailed, Goto, Return, reqs, mihomo
<1>11. ASSUME NEW r \in Req, NEW p \in Pid, Spawn(r, p)
      PROVE  LockedOf(x)'
  BY <1>11 DEF Spawn, Goto, reqs, mihomo
<1>12. ASSUME NEW r \in Req, SpawnFailed(r)
      PROVE  LockedOf(x)'
  BY <1>12 DEF SpawnFailed, Goto, Return, reqs, mihomo
<1>13. ASSUME NEW r \in Req, WritePID(r)
      PROVE  LockedOf(x)'
  BY <1>13 DEF WritePID, Goto, reqs, mihomo
<1>14. ASSUME NEW r \in Req, WritePIDFailed(r)
      PROVE  LockedOf(x)'
  BY <1>14 DEF WritePIDFailed, Goto, reqs, mihomo
<1>15. ASSUME NEW r \in Req, Ready(r)
      PROVE  LockedOf(x)'
  BY <1>15 DEF Ready, Goto, Return, reqs, mihomo
<1>16. ASSUME NEW r \in Req, Fatal(r)
      PROVE  LockedOf(x)'
  BY <1>16 DEF Fatal, Goto, Return, reqs, mihomo
<1>17. ASSUME NEW r \in Req, Timeout(r)
      PROVE  LockedOf(x)'
  BY <1>17 DEF Timeout, Goto, Enter, reqs, mihomo
<1>18. ASSUME NEW r \in Req, StatusRead(r)
      PROVE  LockedOf(x)'
  BY <1>18 DEF StatusRead, Goto, reqs, mihomo
<1>19. ASSUME NEW r \in Req, NoCore(r)
      PROVE  LockedOf(x)'
  BY <1>19 DEF NoCore, Goto, Return, reqs, mihomo
<1>20. ASSUME NEW r \in Req, StatusCheck(r)
      PROVE  LockedOf(x)'
  BY <1>20 DEF StatusCheck, RemoveFile, Bar, Goto, Return, reqs, mihomo
<1>21. ASSUME NEW p \in Pid, Exit(p)
      PROVE  LockedOf(x)'
  BY <1>21 DEF Exit, reqs, mihomo
<1>22. ASSUME NEW p \in Pid, Reap(p)
      PROVE  LockedOf(x)'
  BY <1>22 DEF Reap, reqs, mihomo
<1>23. ASSUME NEW p \in Pid, NEW l \in Line, Drain(p, l)
      PROVE  LockedOf(x)'
  BY <1>23 DEF Drain, DrainWith, reqs, mihomo
<1>24. ASSUME NEW m \in Mgr, ProcessEnds(m)
      PROVE  LockedOf(x)'
  BY <1>24 DEF ProcessEnds, reqs, mihomo
<1>25. CASE UNCHANGED vars
  BY <1>25 DEF vars, reqs, mihomo
<1>26. QED
  BY <1>1, <1>2, <1>3, <1>4, <1>5, <1>6, <1>7, <1>8, <1>9, <1>10, <1>11, <1>12, <1>13,
     <1>14, <1>15, <1>16, <1>17, <1>18, <1>19, <1>20, <1>21, <1>22, <1>23, <1>24, <1>25 DEF Next, Step

-----------------------------------------------------------------------------
\* Initially there is no mihomo and nobody looks for one.
LEMMA FileInit == Init => FileInv
BY DEF Init, FileInv, AloneInv, KnowsInv, KnowsOf, MihomoInPidFile, FileWork

\* Every step leaves at most one request at the pid file, or the file astray.
LEMMA AloneStep ==
    ASSUME TypeOK, LockedInv, AloneInv, [Next]_vars
    PROVE  AloneInv'
<1> SUFFICES ASSUME ~astray', NEW x \in Req, NEW y \in Req,
                    pc'[x] \in FileWork, pc'[y] \in FileWork
             PROVE  x = y
  BY DEF AloneInv
<1>0. /\ LockedOf(x) /\ LockedOf(y) /\ x # 0 /\ y # 0
      /\ ~astray /\ pc[x] \in FileWork /\ pc[y] \in FileWork => x = y
  BY TUNConstants DEF LockedInv, AloneInv
<1> USE <1>0 DEF TypeOK, FileWork, AtRest, LockedOf
<1>1. ASSUME NEW r \in Req, NEW m \in Mgr, NEW k \in Kind, Request(r, m, k)
      PROVE  x = y
  BY <1>1 DEF Request, Goto, Daemon, reqs, mihomo
<1>2. ASSUME NEW r \in Req, ProxyReady(r)
      PROVE  x = y
  BY <1>2 DEF ProxyReady, Goto, reqs, mihomo
<1>3. ASSUME NEW r \in Req, ProxyFailed(r)
      PROVE  x = y
  BY <1>3 DEF ProxyFailed, Goto, reqs, mihomo
<1>4. ASSUME NEW r \in Req, Lock(r)
      PROVE  x = y
  <2>0. CASE kind[r] = "start"
    BY <1>4, <2>0 DEF Lock, Goto
  <2>1. CASE kind[r] # "start" /\ \E s \in Req : mgr[s] # mgr[r] /\ pc[s] \in FileWork
    BY <1>4, <2>1 DEF Lock, Enter
  <2>2. CASE x # r /\ y # r
    BY <1>4, <2>2 DEF Lock, Enter, Goto
  <2>3. CASE x = r /\ ~\E s \in Req : mgr[s] # mgr[r] /\ pc[s] \in FileWork
    BY <1>4, <2>3 DEF Lock, Enter, Goto
  <2>4. CASE y = r /\ ~\E s \in Req : mgr[s] # mgr[r] /\ pc[s] \in FileWork
    BY <1>4, <2>4 DEF Lock, Enter, Goto
  <2> QED
    BY <2>0, <2>1, <2>2, <2>3, <2>4
<1>5. ASSUME NEW r \in Req, Finish(r)
      PROVE  x = y
  BY <1>5 DEF Finish, Goto, reqs, mihomo
<1>6. ASSUME NEW r \in Req, ReadPID(r)
      PROVE  x = y
  BY <1>6 DEF ReadPID, Goto, reqs, mihomo
<1>7. ASSUME NEW r \in Req, Kill(r)
      PROVE  x = y
  BY <1>7 DEF Kill, Bar, Goto, reqs, mihomo
<1>8. ASSUME NEW r \in Req, Remove(r)
      PROVE  x = y
  BY <1>8 DEF Remove, RemoveFile, Goto, Return, reqs, mihomo
<1>9. ASSUME NEW r \in Req, EnsureConfig(r)
      PROVE  x = y
  <2>1. CASE \E s \in Req : mgr[s] # mgr[r] /\ pc[s] \in FileWork
    BY <1>9, <2>1 DEF EnsureConfig, Enter
  <2>2. CASE x # r /\ y # r
    BY <1>9, <2>2 DEF EnsureConfig, Enter, Goto
  <2>3. CASE x = r /\ ~\E s \in Req : mgr[s] # mgr[r] /\ pc[s] \in FileWork
    BY <1>9, <2>3 DEF EnsureConfig, Enter, Goto
  <2>4. CASE y = r /\ ~\E s \in Req : mgr[s] # mgr[r] /\ pc[s] \in FileWork
    BY <1>9, <2>4 DEF EnsureConfig, Enter, Goto
  <2> QED
    BY <2>1, <2>2, <2>3, <2>4
<1>10. ASSUME NEW r \in Req, ConfigFailed(r)
      PROVE  x = y
  BY <1>10 DEF ConfigFailed, Goto, Return, reqs, mihomo
<1>11. ASSUME NEW r \in Req, NEW p \in Pid, Spawn(r, p)
      PROVE  x = y
  BY <1>11 DEF Spawn, Goto, reqs, mihomo
<1>12. ASSUME NEW r \in Req, SpawnFailed(r)
      PROVE  x = y
  BY <1>12 DEF SpawnFailed, Goto, Return, reqs, mihomo
<1>13. ASSUME NEW r \in Req, WritePID(r)
      PROVE  x = y
  BY <1>13 DEF WritePID, Goto, reqs, mihomo
<1>14. ASSUME NEW r \in Req, WritePIDFailed(r)
      PROVE  x = y
  BY <1>14 DEF WritePIDFailed, Goto, reqs, mihomo
<1>15. ASSUME NEW r \in Req, Ready(r)
      PROVE  x = y
  BY <1>15 DEF Ready, Goto, Return, reqs, mihomo
<1>16. ASSUME NEW r \in Req, Fatal(r)
      PROVE  x = y
  BY <1>16 DEF Fatal, Goto, Return, reqs, mihomo
<1>17. ASSUME NEW r \in Req, Timeout(r)
      PROVE  x = y
  <2>1. CASE \E s \in Req : mgr[s] # mgr[r] /\ pc[s] \in FileWork
    BY <1>17, <2>1 DEF Timeout, Enter
  <2>2. CASE x # r /\ y # r
    BY <1>17, <2>2 DEF Timeout, Enter, Goto
  <2>3. CASE x = r /\ ~\E s \in Req : mgr[s] # mgr[r] /\ pc[s] \in FileWork
    BY <1>17, <2>3 DEF Timeout, Enter, Goto
  <2>4. CASE y = r /\ ~\E s \in Req : mgr[s] # mgr[r] /\ pc[s] \in FileWork
    BY <1>17, <2>4 DEF Timeout, Enter, Goto
  <2> QED
    BY <2>1, <2>2, <2>3, <2>4
<1>18. ASSUME NEW r \in Req, StatusRead(r)
      PROVE  x = y
  BY <1>18 DEF StatusRead, Goto, reqs, mihomo
<1>19. ASSUME NEW r \in Req, NoCore(r)
      PROVE  x = y
  BY <1>19 DEF NoCore, Goto, Return, reqs, mihomo
<1>20. ASSUME NEW r \in Req, StatusCheck(r)
      PROVE  x = y
  BY <1>20 DEF StatusCheck, RemoveFile, Bar, Goto, Return, reqs, mihomo
<1>21. ASSUME NEW p \in Pid, Exit(p)
      PROVE  x = y
  BY <1>21 DEF Exit, reqs, mihomo
<1>22. ASSUME NEW p \in Pid, Reap(p)
      PROVE  x = y
  BY <1>22 DEF Reap, reqs, mihomo
<1>23. ASSUME NEW p \in Pid, NEW l \in Line, Drain(p, l)
      PROVE  x = y
  BY <1>23 DEF Drain, DrainWith, reqs, mihomo
<1>24. ASSUME NEW m \in Mgr, ProcessEnds(m)
      PROVE  x = y
  BY <1>24 DEF ProcessEnds, reqs, mihomo
<1>25. CASE UNCHANGED vars
  BY <1>25 DEF vars, reqs, mihomo
<1>26. QED
  BY <1>1, <1>2, <1>3, <1>4, <1>5, <1>6, <1>7, <1>8, <1>9, <1>10, <1>11, <1>12, <1>13,
     <1>14, <1>15, <1>16, <1>17, <1>18, <1>19, <1>20, <1>21, <1>22, <1>23, <1>24, <1>25 DEF Next, Step

\* Every step keeps what the request at the pid file knows.
LEMMA KnowsStep ==
    ASSUME TypeOK, LockedInv, FileInv, AloneInv', [Next]_vars
    PROVE  KnowsInv'
<1> SUFFICES ASSUME ~astray', NEW x \in Req
             PROVE  KnowsOf(x)'
  BY DEF KnowsInv
<1>0. /\ ~astray => KnowsOf(x) /\ \A r \in Req : KnowsOf(r)
      /\ ~astray => \A r \in Req : pc[r] \in FileWork /\ pc[x] \in FileWork => r = x
      /\ \A r \in Req : pc'[r] \in FileWork /\ pc'[x] \in FileWork => r = x
      /\ MihomoInPidFile /\ 0 \notin Pid
  BY TUNConstants DEF FileInv, AloneInv, KnowsInv
<1> USE <1>0 DEF TypeOK, FileWork, AtRest, KnowsOf, MihomoInPidFile
<1>1. ASSUME NEW r \in Req, NEW m \in Mgr, NEW k \in Kind, Request(r, m, k)
      PROVE  KnowsOf(x)'
  BY <1>1 DEF Request, Goto, Daemon, reqs, mihomo
<1>2. ASSUME NEW r \in Req, ProxyReady(r)
      PROVE  KnowsOf(x)'
  BY <1>2 DEF ProxyReady, Goto, reqs, mihomo
<1>3. ASSUME NEW r \in Req, ProxyFailed(r)
      PROVE  KnowsOf(x)'
  BY <1>3 DEF ProxyFailed, Goto, reqs, mihomo
<1>4. ASSUME NEW r \in Req, Lock(r)
      PROVE  KnowsOf(x)'
  BY <1>4 DEF Lock, Goto, Enter, reqs, mihomo
<1>5. ASSUME NEW r \in Req, Finish(r)
      PROVE  KnowsOf(x)'
  BY <1>5 DEF Finish, Goto, reqs, mihomo
<1>6. ASSUME NEW r \in Req, ReadPID(r)
      PROVE  KnowsOf(x)'
  <2>1. CASE x # r
    BY <1>6, <2>1 DEF ReadPID, Goto
  <2>2. CASE x = r
    <3>1. ~astray /\ pc[x] = "read" /\ \A s \in Req : pc[s] # "pid"
      BY <1>6, <2>2 DEF ReadPID, Goto
    <3>2. \A q \in Pid \ barred : proc[q] = "run" => pidfile = q
      BY <3>1
    <3>3. proc' = proc /\ barred' = barred /\ pidfile' = pidfile /\ seen'[x] = pidfile
          /\ pc'[x] = IF pidfile = 0 THEN "remove" ELSE "kill"
      BY <1>6, <2>2 DEF ReadPID, Goto, mihomo
    <3> QED
      BY <3>2, <3>3
  <2> QED
    BY <2>1, <2>2
<1>7. ASSUME NEW r \in Req, Kill(r)
      PROVE  KnowsOf(x)'
  BY <1>7 DEF Kill, Bar, Goto, reqs, mihomo
<1>8. ASSUME NEW r \in Req, Remove(r)
      PROVE  KnowsOf(x)'
  BY <1>8 DEF Remove, RemoveFile, Goto, Return, reqs, mihomo
<1>9. ASSUME NEW r \in Req, EnsureConfig(r)
      PROVE  KnowsOf(x)'
  BY <1>9 DEF EnsureConfig, Goto, Enter, reqs, mihomo
<1>10. ASSUME NEW r \in Req, ConfigFailed(r)
      PROVE  KnowsOf(x)'
  BY <1>10 DEF ConfigFailed, Goto, Return, reqs, mihomo
<1>11. ASSUME NEW r \in Req, NEW p \in Pid, Spawn(r, p)
      PROVE  KnowsOf(x)'
  BY <1>11 DEF Spawn, Goto, reqs, mihomo
<1>12. ASSUME NEW r \in Req, SpawnFailed(r)
      PROVE  KnowsOf(x)'
  BY <1>12 DEF SpawnFailed, Goto, Return, reqs, mihomo
<1>13. ASSUME NEW r \in Req, WritePID(r)
      PROVE  KnowsOf(x)'
  BY <1>13 DEF WritePID, Goto, reqs, mihomo
<1>14. ASSUME NEW r \in Req, WritePIDFailed(r)
      PROVE  KnowsOf(x)'
  BY <1>14 DEF WritePIDFailed, Goto, reqs, mihomo
<1>15. ASSUME NEW r \in Req, Ready(r)
      PROVE  KnowsOf(x)'
  BY <1>15 DEF Ready, Goto, Return, reqs, mihomo
<1>16. ASSUME NEW r \in Req, Fatal(r)
      PROVE  KnowsOf(x)'
  BY <1>16 DEF Fatal, Goto, Return, reqs, mihomo
<1>17. ASSUME NEW r \in Req, Timeout(r)
      PROVE  KnowsOf(x)'
  BY <1>17 DEF Timeout, Goto, Enter, reqs, mihomo
<1>18. ASSUME NEW r \in Req, StatusRead(r)
      PROVE  KnowsOf(x)'
  BY <1>18 DEF StatusRead, Goto, reqs, mihomo
<1>19. ASSUME NEW r \in Req, NoCore(r)
      PROVE  KnowsOf(x)'
  BY <1>19 DEF NoCore, Goto, Return, reqs, mihomo
<1>20. ASSUME NEW r \in Req, StatusCheck(r)
      PROVE  KnowsOf(x)'
  BY <1>20 DEF StatusCheck, RemoveFile, Bar, Goto, Return, reqs, mihomo
<1>21. ASSUME NEW p \in Pid, Exit(p)
      PROVE  KnowsOf(x)'
  BY <1>21 DEF Exit, reqs, mihomo
<1>22. ASSUME NEW p \in Pid, Reap(p)
      PROVE  KnowsOf(x)'
  BY <1>22 DEF Reap, reqs, mihomo
<1>23. ASSUME NEW p \in Pid, NEW l \in Line, Drain(p, l)
      PROVE  KnowsOf(x)'
  BY <1>23 DEF Drain, DrainWith, reqs, mihomo
<1>24. ASSUME NEW m \in Mgr, ProcessEnds(m)
      PROVE  KnowsOf(x)'
  BY <1>24 DEF ProcessEnds, reqs, mihomo
<1>25. CASE UNCHANGED vars
  BY <1>25 DEF vars, reqs, mihomo
<1>26. QED
  BY <1>1, <1>2, <1>3, <1>4, <1>5, <1>6, <1>7, <1>8, <1>9, <1>10, <1>11, <1>12, <1>13,
     <1>14, <1>15, <1>16, <1>17, <1>18, <1>19, <1>20, <1>21, <1>22, <1>23, <1>24, <1>25 DEF Next, Step

\* Every step leaves the mihomo that runs in the pid file.
LEMMA InPidFileStep ==
    ASSUME TypeOK, LockedInv, FileInv, [Next]_vars
    PROVE  MihomoInPidFile'
<1> SUFFICES ASSUME ~astray', NEW q \in Pid, q \notin barred', proc'[q] = "run"
             PROVE  \/ pidfile' = q
                    \/ \E s \in Req : pc'[s] = "pid" /\ child'[s] = q
  BY DEF MihomoInPidFile
<1>0. /\ ~astray => \A r \in Req : KnowsOf(r)
      /\ ~astray => \A r, s \in Req : pc[r] \in FileWork /\ pc[s] \in FileWork => r = s
      /\ ~astray /\ q \notin barred /\ proc[q] = "run" =>
            pidfile = q \/ \E s \in Req : pc[s] = "pid" /\ child[s] = q
      /\ q # 0
  BY TUNConstants DEF FileInv, AloneInv, KnowsInv, MihomoInPidFile
<1> USE <1>0 DEF TypeOK, FileWork, AtRest, KnowsOf
<1> DEFINE Goal == pidfile' = q \/ \E s \in Req : pc'[s] = "pid" /\ child'[s] = q
<1>1. ASSUME NEW r \in Req, NEW m \in Mgr, NEW k \in Kind, Request(r, m, k)
      PROVE  Goal
  BY <1>1 DEF Request, Goto, Daemon, reqs, mihomo
<1>2. ASSUME NEW r \in Req, ProxyReady(r)
      PROVE  Goal
  BY <1>2 DEF ProxyReady, Goto, reqs, mihomo
<1>3. ASSUME NEW r \in Req, ProxyFailed(r)
      PROVE  Goal
  BY <1>3 DEF ProxyFailed, Goto, reqs, mihomo
<1>4. ASSUME NEW r \in Req, Lock(r)
      PROVE  Goal
  BY <1>4 DEF Lock, Goto, Enter, reqs, mihomo
<1>5. ASSUME NEW r \in Req, Finish(r)
      PROVE  Goal
  BY <1>5 DEF Finish, Goto, reqs, mihomo
<1>6. ASSUME NEW r \in Req, ReadPID(r)
      PROVE  Goal
  BY <1>6 DEF ReadPID, Goto, reqs, mihomo
<1>7. ASSUME NEW r \in Req, Kill(r)
      PROVE  Goal
  BY <1>7 DEF Kill, Bar, Goto, reqs, mihomo
<1>8. ASSUME NEW r \in Req, Remove(r)
      PROVE  Goal
  BY <1>8 DEF Remove, RemoveFile, Goto, Return, reqs, mihomo
<1>9. ASSUME NEW r \in Req, EnsureConfig(r)
      PROVE  Goal
  BY <1>9 DEF EnsureConfig, Goto, Enter, reqs, mihomo
<1>10. ASSUME NEW r \in Req, ConfigFailed(r)
      PROVE  Goal
  BY <1>10 DEF ConfigFailed, Goto, Return, reqs, mihomo
<1>11. ASSUME NEW r \in Req, NEW p \in Pid, Spawn(r, p)
      PROVE  Goal
  BY <1>11 DEF Spawn, Goto, reqs, mihomo
<1>12. ASSUME NEW r \in Req, SpawnFailed(r)
      PROVE  Goal
  BY <1>12 DEF SpawnFailed, Goto, Return, reqs, mihomo
<1>13. ASSUME NEW r \in Req, WritePID(r)
      PROVE  Goal
  BY <1>13 DEF WritePID, Goto, reqs, mihomo
<1>14. ASSUME NEW r \in Req, WritePIDFailed(r)
      PROVE  Goal
  BY <1>14 DEF WritePIDFailed, Goto, reqs, mihomo
<1>15. ASSUME NEW r \in Req, Ready(r)
      PROVE  Goal
  BY <1>15 DEF Ready, Goto, Return, reqs, mihomo
<1>16. ASSUME NEW r \in Req, Fatal(r)
      PROVE  Goal
  BY <1>16 DEF Fatal, Goto, Return, reqs, mihomo
<1>17. ASSUME NEW r \in Req, Timeout(r)
      PROVE  Goal
  BY <1>17 DEF Timeout, Goto, Enter, reqs, mihomo
<1>18. ASSUME NEW r \in Req, StatusRead(r)
      PROVE  Goal
  BY <1>18 DEF StatusRead, Goto, reqs, mihomo
<1>19. ASSUME NEW r \in Req, NoCore(r)
      PROVE  Goal
  BY <1>19 DEF NoCore, Goto, Return, reqs, mihomo
<1>20. ASSUME NEW r \in Req, StatusCheck(r)
      PROVE  Goal
  <2>1. ~astray /\ q \notin barred /\ proc[q] = "run" /\ pc[r] = "scheck"
    BY <1>20 DEF StatusCheck, Bar, Return, Goto, mihomo
  <2>2. pidfile = q /\ seen[r] = q
    BY <2>1
  <2>3. Permitted(mgr[r], q)
    BY <1>20, <2>1, <2>2 DEF StatusCheck, Bar
  <2>4. pidfile' = q
    BY <1>20, <2>1, <2>2, <2>3 DEF StatusCheck, ProcessRunning
  <2> QED
    BY <2>4
<1>21. ASSUME NEW p \in Pid, Exit(p)
      PROVE  Goal
  BY <1>21 DEF Exit, reqs, mihomo
<1>22. ASSUME NEW p \in Pid, Reap(p)
      PROVE  Goal
  BY <1>22 DEF Reap, reqs, mihomo
<1>23. ASSUME NEW p \in Pid, NEW l \in Line, Drain(p, l)
      PROVE  Goal
  BY <1>23 DEF Drain, DrainWith, reqs, mihomo
<1>24. ASSUME NEW m \in Mgr, ProcessEnds(m)
      PROVE  Goal
  BY <1>24 DEF ProcessEnds, reqs, mihomo
<1>25. CASE UNCHANGED vars
  BY <1>25 DEF vars, reqs, mihomo
<1>26. QED
  BY <1>1, <1>2, <1>3, <1>4, <1>5, <1>6, <1>7, <1>8, <1>9, <1>10, <1>11, <1>12, <1>13,
     <1>14, <1>15, <1>16, <1>17, <1>18, <1>19, <1>20, <1>21, <1>22, <1>23, <1>24, <1>25 DEF Next, Step

-----------------------------------------------------------------------------
\* Initially no start has succeeded.
LEMMA ReadyInit == Init => ReadyInv
BY DEF Init, ReadyInv, ReadyOf

\* Every step keeps the channels with the mihomo they were made for.
LEMMA ChannelStep ==
    ASSUME TypeOK, \A q \in Pid : "ready" \in chan[q] => q \in said, [Next]_vars,
           NEW y \in Pid
    PROVE  ("ready" \in chan[y] => y \in said)'
<1> DEFINE Goal == ("ready" \in chan[y] => y \in said)'
<1> USE DEF TypeOK
<1>1. ASSUME NEW r \in Req, NEW m \in Mgr, NEW k \in Kind, Request(r, m, k)
      PROVE  Goal
  BY <1>1 DEF Request, Goto, Daemon, reqs, mihomo
<1>2. ASSUME NEW r \in Req, ProxyReady(r)
      PROVE  Goal
  BY <1>2 DEF ProxyReady, Goto, reqs, mihomo
<1>3. ASSUME NEW r \in Req, ProxyFailed(r)
      PROVE  Goal
  BY <1>3 DEF ProxyFailed, Goto, reqs, mihomo
<1>4. ASSUME NEW r \in Req, Lock(r)
      PROVE  Goal
  BY <1>4 DEF Lock, Goto, Enter, reqs, mihomo
<1>5. ASSUME NEW r \in Req, Finish(r)
      PROVE  Goal
  BY <1>5 DEF Finish, Goto, reqs, mihomo
<1>6. ASSUME NEW r \in Req, ReadPID(r)
      PROVE  Goal
  BY <1>6 DEF ReadPID, Goto, reqs, mihomo
<1>7. ASSUME NEW r \in Req, Kill(r)
      PROVE  Goal
  BY <1>7 DEF Kill, Bar, Goto, reqs, mihomo
<1>8. ASSUME NEW r \in Req, Remove(r)
      PROVE  Goal
  BY <1>8 DEF Remove, RemoveFile, Goto, Return, reqs, mihomo
<1>9. ASSUME NEW r \in Req, EnsureConfig(r)
      PROVE  Goal
  BY <1>9 DEF EnsureConfig, Goto, Enter, reqs, mihomo
<1>10. ASSUME NEW r \in Req, ConfigFailed(r)
      PROVE  Goal
  BY <1>10 DEF ConfigFailed, Goto, Return, reqs, mihomo
<1>11. ASSUME NEW r \in Req, NEW p \in Pid, Spawn(r, p)
      PROVE  Goal
  BY <1>11 DEF Spawn, Goto, reqs, mihomo
<1>12. ASSUME NEW r \in Req, SpawnFailed(r)
      PROVE  Goal
  BY <1>12 DEF SpawnFailed, Goto, Return, reqs, mihomo
<1>13. ASSUME NEW r \in Req, WritePID(r)
      PROVE  Goal
  BY <1>13 DEF WritePID, Goto, reqs, mihomo
<1>14. ASSUME NEW r \in Req, WritePIDFailed(r)
      PROVE  Goal
  BY <1>14 DEF WritePIDFailed, Goto, reqs, mihomo
<1>15. ASSUME NEW r \in Req, Ready(r)
      PROVE  Goal
  BY <1>15 DEF Ready, Goto, Return, reqs, mihomo
<1>16. ASSUME NEW r \in Req, Fatal(r)
      PROVE  Goal
  BY <1>16 DEF Fatal, Goto, Return, reqs, mihomo
<1>17. ASSUME NEW r \in Req, Timeout(r)
      PROVE  Goal
  BY <1>17 DEF Timeout, Goto, Enter, reqs, mihomo
<1>18. ASSUME NEW r \in Req, StatusRead(r)
      PROVE  Goal
  BY <1>18 DEF StatusRead, Goto, reqs, mihomo
<1>19. ASSUME NEW r \in Req, NoCore(r)
      PROVE  Goal
  BY <1>19 DEF NoCore, Goto, Return, reqs, mihomo
<1>20. ASSUME NEW r \in Req, StatusCheck(r)
      PROVE  Goal
  BY <1>20 DEF StatusCheck, RemoveFile, Bar, Goto, Return, reqs, mihomo
<1>21. ASSUME NEW p \in Pid, Exit(p)
      PROVE  Goal
  BY <1>21 DEF Exit, reqs, mihomo
<1>22. ASSUME NEW p \in Pid, Reap(p)
      PROVE  Goal
  BY <1>22 DEF Reap, reqs, mihomo
<1>23. ASSUME NEW p \in Pid, NEW l \in Line, Drain(p, l)
      PROVE  Goal
  BY <1>23 DEF Drain, DrainWith, reqs, mihomo
<1>24. ASSUME NEW m \in Mgr, ProcessEnds(m)
      PROVE  Goal
  BY <1>24 DEF ProcessEnds, reqs, mihomo
<1>25. CASE UNCHANGED vars
  BY <1>25 DEF vars, reqs, mihomo
<1>26. QED
  BY <1>1, <1>2, <1>3, <1>4, <1>5, <1>6, <1>7, <1>8, <1>9, <1>10, <1>11, <1>12, <1>13,
     <1>14, <1>15, <1>16, <1>17, <1>18, <1>19, <1>20, <1>21, <1>22, <1>23, <1>24, <1>25 DEF Next, Step

\* Every step keeps the successful starts with a mihomo that is ready.
LEMMA ReadyStep ==
    ASSUME TypeOK, ReadyInv, [Next]_vars
    PROVE  ReadyInv'
<1>a. \A y \in Pid : ("ready" \in chan[y] => y \in said)'
  BY ChannelStep DEF ReadyInv
<1> SUFFICES ASSUME NEW x \in Req
             PROVE  ReadyOf(x)'
  BY <1>a DEF ReadyInv
<1>0. ReadyOf(x) /\ \A q \in Pid : "ready" \in chan[q] => q \in said
  BY DEF ReadyInv
<1> USE <1>0 DEF TypeOK, FileWork, AtRest, ReadyOf
<1>1. ASSUME NEW r \in Req, NEW m \in Mgr, NEW k \in Kind, Request(r, m, k)
      PROVE  ReadyOf(x)'
  BY <1>1 DEF Request, Goto, Daemon, reqs, mihomo
<1>2. ASSUME NEW r \in Req, ProxyReady(r)
      PROVE  ReadyOf(x)'
  BY <1>2 DEF ProxyReady, Goto, reqs, mihomo
<1>3. ASSUME NEW r \in Req, ProxyFailed(r)
      PROVE  ReadyOf(x)'
  BY <1>3 DEF ProxyFailed, Goto, reqs, mihomo
<1>4. ASSUME NEW r \in Req, Lock(r)
      PROVE  ReadyOf(x)'
  BY <1>4 DEF Lock, Goto, Enter, reqs, mihomo
<1>5. ASSUME NEW r \in Req, Finish(r)
      PROVE  ReadyOf(x)'
  BY <1>5 DEF Finish, Goto, reqs, mihomo
<1>6. ASSUME NEW r \in Req, ReadPID(r)
      PROVE  ReadyOf(x)'
  BY <1>6 DEF ReadPID, Goto, reqs, mihomo
<1>7. ASSUME NEW r \in Req, Kill(r)
      PROVE  ReadyOf(x)'
  BY <1>7 DEF Kill, Bar, Goto, reqs, mihomo
<1>8. ASSUME NEW r \in Req, Remove(r)
      PROVE  ReadyOf(x)'
  BY <1>8 DEF Remove, RemoveFile, Goto, Return, reqs, mihomo
<1>9. ASSUME NEW r \in Req, EnsureConfig(r)
      PROVE  ReadyOf(x)'
  BY <1>9 DEF EnsureConfig, Goto, Enter, reqs, mihomo
<1>10. ASSUME NEW r \in Req, ConfigFailed(r)
      PROVE  ReadyOf(x)'
  BY <1>10 DEF ConfigFailed, Goto, Return, reqs, mihomo
<1>11. ASSUME NEW r \in Req, NEW p \in Pid, Spawn(r, p)
      PROVE  ReadyOf(x)'
  BY <1>11 DEF Spawn, Goto, reqs, mihomo
<1>12. ASSUME NEW r \in Req, SpawnFailed(r)
      PROVE  ReadyOf(x)'
  BY <1>12 DEF SpawnFailed, Goto, Return, reqs, mihomo
<1>13. ASSUME NEW r \in Req, WritePID(r)
      PROVE  ReadyOf(x)'
  BY <1>13 DEF WritePID, Goto, reqs, mihomo
<1>14. ASSUME NEW r \in Req, WritePIDFailed(r)
      PROVE  ReadyOf(x)'
  BY <1>14 DEF WritePIDFailed, Goto, reqs, mihomo
<1>15. ASSUME NEW r \in Req, Ready(r)
      PROVE  ReadyOf(x)'
  BY <1>15 DEF Ready, Goto, Return, reqs, mihomo
<1>16. ASSUME NEW r \in Req, Fatal(r)
      PROVE  ReadyOf(x)'
  BY <1>16 DEF Fatal, Goto, Return, reqs, mihomo
<1>17. ASSUME NEW r \in Req, Timeout(r)
      PROVE  ReadyOf(x)'
  BY <1>17 DEF Timeout, Goto, Enter, reqs, mihomo
<1>18. ASSUME NEW r \in Req, StatusRead(r)
      PROVE  ReadyOf(x)'
  BY <1>18 DEF StatusRead, Goto, reqs, mihomo
<1>19. ASSUME NEW r \in Req, NoCore(r)
      PROVE  ReadyOf(x)'
  BY <1>19 DEF NoCore, Goto, Return, reqs, mihomo
<1>20. ASSUME NEW r \in Req, StatusCheck(r)
      PROVE  ReadyOf(x)'
  BY <1>20 DEF StatusCheck, RemoveFile, Bar, Goto, Return, reqs, mihomo
<1>21. ASSUME NEW p \in Pid, Exit(p)
      PROVE  ReadyOf(x)'
  BY <1>21 DEF Exit, reqs, mihomo
<1>22. ASSUME NEW p \in Pid, Reap(p)
      PROVE  ReadyOf(x)'
  BY <1>22 DEF Reap, reqs, mihomo
<1>23. ASSUME NEW p \in Pid, NEW l \in Line, Drain(p, l)
      PROVE  ReadyOf(x)'
  BY <1>23 DEF Drain, DrainWith, reqs, mihomo
<1>24. ASSUME NEW m \in Mgr, ProcessEnds(m)
      PROVE  ReadyOf(x)'
  BY <1>24 DEF ProcessEnds, reqs, mihomo
<1>25. CASE UNCHANGED vars
  BY <1>25 DEF vars, reqs, mihomo
<1>26. QED
  BY <1>1, <1>2, <1>3, <1>4, <1>5, <1>6, <1>7, <1>8, <1>9, <1>10, <1>11, <1>12, <1>13,
     <1>14, <1>15, <1>16, <1>17, <1>18, <1>19, <1>20, <1>21, <1>22, <1>23, <1>24, <1>25 DEF Next, Step

-----------------------------------------------------------------------------
\* A start of the dashboard that keeps tunStarting of manager m up.
Starter(m, r) == mgr[r] = m /\ kind[r] = "start" /\ pc[r] \notin AtRest

\* Only a daemon has a tunStarting, and a start in progress answers for it.
StartingInv ==
    \A m \in Mgr : tun[m] = "starting" => m \notin Cli /\ \E r \in Req : Starter(m, r)

\* A step other than a request leaves a start that is in progress so, or the
\* flag is no longer up.
LEMMA StarterStays ==
    ASSUME TypeOK, [Next]_vars, NEW x \in Mgr, NEW w \in Req, x \notin Cli, Starter(x, w),
           \A r \in Req, m \in Mgr, k \in Kind : ~Request(r, m, k), tun'[x] = "starting"
    PROVE  Starter(x, w)' /\ tun[x] = "starting"
<1> USE DEF TypeOK, FileWork, AtRest, Starter
<1>1. ASSUME NEW r \in Req, ProxyReady(r)
      PROVE  Starter(x, w)' /\ tun[x] = "starting"
  BY <1>1 DEF ProxyReady, Goto, reqs, mihomo
<1>2. ASSUME NEW r \in Req, ProxyFailed(r)
      PROVE  Starter(x, w)' /\ tun[x] = "starting"
  BY <1>2 DEF ProxyFailed, Goto, reqs, mihomo
<1>3. ASSUME NEW r \in Req, Lock(r)
      PROVE  Starter(x, w)' /\ tun[x] = "starting"
  BY <1>3 DEF Lock, Goto, Enter, reqs, mihomo
<1>4. ASSUME NEW r \in Req, Finish(r)
      PROVE  Starter(x, w)' /\ tun[x] = "starting"
  BY <1>4 DEF Finish, Goto, reqs, mihomo
<1>5. ASSUME NEW r \in Req, ReadPID(r)
      PROVE  Starter(x, w)' /\ tun[x] = "starting"
  BY <1>5 DEF ReadPID, Goto, reqs, mihomo
<1>6. ASSUME NEW r \in Req, Kill(r)
      PROVE  Starter(x, w)' /\ tun[x] = "starting"
  BY <1>6 DEF Kill, Bar, Goto, reqs, mihomo
<1>7. ASSUME NEW r \in Req, Remove(r)
      PROVE  Starter(x, w)' /\ tun[x] = "starting"
  BY <1>7 DEF Remove, RemoveFile, Goto, Return, Daemon, reqs, mihomo
<1>8. ASSUME NEW r \in Req, EnsureConfig(r)
      PROVE  Starter(x, w)' /\ tun[x] = "starting"
  BY <1>8 DEF EnsureConfig, Goto, Enter, reqs, mihomo
<1>9. ASSUME NEW r \in Req, ConfigFailed(r)
      PROVE  Starter(x, w)' /\ tun[x] = "starting"
  BY <1>9 DEF ConfigFailed, Goto, Return, Daemon, reqs, mihomo
<1>10. ASSUME NEW r \in Req, NEW p \in Pid, Spawn(r, p)
      PROVE  Starter(x, w)' /\ tun[x] = "starting"
  BY <1>10 DEF Spawn, Goto, reqs, mihomo
<1>11. ASSUME NEW r \in Req, SpawnFailed(r)
      PROVE  Starter(x, w)' /\ tun[x] = "starting"
  BY <1>11 DEF SpawnFailed, Goto, Return, Daemon, reqs, mihomo
<1>12. ASSUME NEW r \in Req, WritePID(r)
      PROVE  Starter(x, w)' /\ tun[x] = "starting"
  BY <1>12 DEF WritePID, Goto, reqs, mihomo
<1>13. ASSUME NEW r \in Req, WritePIDFailed(r)
      PROVE  Starter(x, w)' /\ tun[x] = "starting"
  BY <1>13 DEF WritePIDFailed, Goto, reqs, mihomo
<1>14. ASSUME NEW r \in Req, Ready(r)
      PROVE  Starter(x, w)' /\ tun[x] = "starting"
  BY <1>14 DEF Ready, Goto, Return, Daemon, reqs, mihomo
<1>15. ASSUME NEW r \in Req, Fatal(r)
      PROVE  Starter(x, w)' /\ tun[x] = "starting"
  BY <1>15 DEF Fatal, Goto, Return, Daemon, reqs, mihomo
<1>16. ASSUME NEW r \in Req, Timeout(r)
      PROVE  Starter(x, w)' /\ tun[x] = "starting"
  BY <1>16 DEF Timeout, Goto, Enter, reqs, mihomo
<1>17. ASSUME NEW r \in Req, StatusRead(r)
      PROVE  Starter(x, w)' /\ tun[x] = "starting"
  BY <1>17 DEF StatusRead, Goto, reqs, mihomo
<1>18. ASSUME NEW r \in Req, NoCore(r)
      PROVE  Starter(x, w)' /\ tun[x] = "starting"
  BY <1>18 DEF NoCore, Goto, Return, Daemon, reqs, mihomo
<1>19. ASSUME NEW r \in Req, StatusCheck(r)
      PROVE  Starter(x, w)' /\ tun[x] = "starting"
  BY <1>19 DEF StatusCheck, RemoveFile, Bar, Goto, Return, Daemon, reqs, mihomo
<1>20. ASSUME NEW p \in Pid, Exit(p)
      PROVE  Starter(x, w)' /\ tun[x] = "starting"
  BY <1>20 DEF Exit, reqs, mihomo
<1>21. ASSUME NEW p \in Pid, Reap(p)
      PROVE  Starter(x, w)' /\ tun[x] = "starting"
  BY <1>21 DEF Reap, reqs, mihomo
<1>22. ASSUME NEW p \in Pid, NEW l \in Line, Drain(p, l)
      PROVE  Starter(x, w)' /\ tun[x] = "starting"
  BY <1>22 DEF Drain, DrainWith, reqs, mihomo
<1>23. ASSUME NEW m \in Mgr, ProcessEnds(m)
      PROVE  Starter(x, w)' /\ tun[x] = "starting"
  BY <1>23 DEF ProcessEnds, reqs, mihomo
<1>24. CASE UNCHANGED vars
  BY <1>24 DEF vars, reqs, mihomo
<1> QED
  BY <1>1, <1>2, <1>3, <1>4, <1>5, <1>6, <1>7, <1>8, <1>9, <1>10, <1>11, <1>12,
     <1>13, <1>14, <1>15, <1>16, <1>17, <1>18, <1>19, <1>20, <1>21, <1>22, <1>23, <1>24 DEF Next, Step

\* The flag comes up with a start only, or was up before.
LEMMA FlagRises ==
    ASSUME TypeOK, [Next]_vars, NEW x \in Mgr, tun'[x] = "starting",
           \A r \in Req, m \in Mgr, k \in Kind : ~Request(r, m, k)
    PROVE  tun[x] = "starting"
<1>1. ASSUME NEW r \in Req, Step(r)
      PROVE  tun[x] = "starting"
  <2>1. CASE Finish(r)
    BY <2>1 DEF Finish, TypeOK
  <2>2. CASE ~Finish(r)
    <3>1. tun' = tun
      BY <1>1, <2>2 DEF Step, ProxyReady, ProxyFailed, Lock, ReadPID, Kill, Remove, EnsureConfig,
         ConfigFailed, Spawn, SpawnFailed, WritePID, WritePIDFailed, Ready, Fatal, Timeout,
         StatusRead, NoCore, StatusCheck
    <3> QED
      BY <3>1
  <2> QED
    BY <2>1, <2>2
<1>2. ASSUME NEW p \in Pid, Exit(p) \/ Reap(p) \/ \E l \in Line : Drain(p, l)
      PROVE  tun[x] = "starting"
  BY <1>2 DEF Exit, Reap, Drain, DrainWith
<1>3. ASSUME NEW m \in Mgr, ProcessEnds(m)
      PROVE  tun[x] = "starting"
  BY <1>3 DEF ProcessEnds, TypeOK
<1>4. CASE UNCHANGED vars
  BY <1>4 DEF vars
<1> QED
  BY <1>1, <1>2, <1>3, <1>4 DEF Next

\* Every step keeps a start in progress behind each flag.
LEMMA StartingStep ==
    ASSUME TypeOK, StartingInv, [Next]_vars
    PROVE  StartingInv'
<1> SUFFICES ASSUME NEW x \in Mgr, tun'[x] = "starting"
             PROVE  x \notin Cli /\ \E w \in Req : Starter(x, w)'
  BY DEF StartingInv
<1>1. ASSUME NEW r \in Req, NEW m \in Mgr, NEW k \in Kind, Request(r, m, k)
      PROVE  x \notin Cli /\ \E w \in Req : Starter(x, w)'
  <2> USE DEF TypeOK, FileWork, AtRest, Starter
  <2>1. CASE x = m /\ Daemon(m) /\ k = "start"
    <3>1. Starter(x, r)' /\ x \notin Cli
      BY <1>1, <2>1 DEF Request, Goto, Daemon
    <3> QED
      BY <3>1
  <2>2. CASE x = m /\ Daemon(m) /\ k = "stop"
    BY <1>1, <2>2 DEF Request
  <2>3. CASE x # m \/ ~Daemon(m) \/ k = "status"
    <3>1. tun[x] = "starting"
      BY <1>1, <2>3 DEF Request
    <3>2. PICK w \in Req : x \notin Cli /\ Starter(x, w)
      BY <3>1 DEF StartingInv
    <3>3. w # r
      BY <1>1, <3>2 DEF Request, Goto
    <3>4. Starter(x, w)'
      BY <1>1, <3>2, <3>3 DEF Request, Goto
    <3> QED
      BY <3>2, <3>4
  <2> QED
    BY <2>1, <2>2, <2>3 DEF Kind
<1>2. CASE \A r \in Req, m \in Mgr, k \in Kind : ~Request(r, m, k)
  <2>1. tun[x] = "starting"
    BY <1>2, FlagRises
  <2>2. PICK w \in Req : x \notin Cli /\ Starter(x, w)
    BY <2>1 DEF StartingInv
  <2>3. Starter(x, w)'
    BY <1>2, <2>2, StarterStays
  <2> QED
    BY <2>2, <2>3
<1> QED
  BY <1>1, <1>2

-----------------------------------------------------------------------------
\* Every request, mutex, log buffer and process keeps its type.
THEOREM TUNTypeCorrect == Spec => []TypeOK
<1>1. Init => TypeOK
  BY TUNTypeInit
<1>2. TypeOK /\ [Next]_vars => TypeOK'
  BY TUNTypeStep
<1> QED
  BY <1>1, <1>2, PTL DEF Spec

\* What the two theorems below rest on.
LEMMA FileInvariant == Spec => [](TypeOK /\ LockedInv /\ FileInv)
<1>1. Init => TypeOK /\ LockedInv /\ FileInv
  BY TUNTypeInit, LockedInit, FileInit
<1>2. TypeOK /\ LockedInv /\ FileInv /\ [Next]_vars => (TypeOK /\ LockedInv /\ FileInv)'
  <2> SUFFICES ASSUME TypeOK, LockedInv, FileInv, [Next]_vars
               PROVE  TypeOK' /\ LockedInv' /\ FileInv'
    OBVIOUS
  <2>1. TypeOK' /\ LockedInv'
    BY TUNTypeStep, LockedStep
  <2>2. AloneInv'
    BY AloneStep DEF FileInv
  <2>3. KnowsInv'
    BY <2>2, KnowsStep
  <2>4. MihomoInPidFile'
    BY InPidFileStep
  <2> QED
    BY <2>1, <2>2, <2>3, <2>4 DEF FileInv
<1> QED
  BY <1>1, <1>2, PTL DEF Spec

\* Whatever the numbers of requests, SniShaper processes and mihomos, a mihomo
\* that nobody has killed can be found through the pid file, unless two
\* processes worked on the file at once or it was not written, or it is root's
\* and a process that may not signal it tried to (external_mihomo.go: Start,
\* stopLocked, statusMessageLocked, processRunning).
THEOREM RunningMihomoIsInPidFile == Spec => []MihomoInPidFile
<1>1. TypeOK /\ LockedInv /\ FileInv => MihomoInPidFile
  BY DEF FileInv
<1> QED
  BY <1>1, FileInvariant, PTL

\* Under the same condition no two mihomos run at once: stopLocked at the
\* beginning of Start leaves none that it may kill.
THEOREM AtMostOneMihomo == Spec => []OneMihomo
<1>1. FileInv => OneMihomo
  <2> SUFFICES ASSUME FileInv, ~astray, NEW p \in Pid \ barred, NEW q \in Pid \ barred,
                      proc[p] = "run", proc[q] = "run"
               PROVE  p = q
    BY DEF OneMihomo
  <2>1. CASE \E r \in Req : pc[r] = "pid"
    BY <2>1 DEF FileInv, KnowsInv, KnowsOf
  <2>2. CASE ~\E r \in Req : pc[r] = "pid"
    BY <2>2 DEF FileInv, MihomoInPidFile
  <2> QED
    BY <2>1, <2>2
<1> QED
  BY <1>1, FileInvariant, PTL

\* A start succeeds only on the word of the mihomo it started, however many
\* others still write into the same log buffer (Start, checkLine).
THEOREM StartedMihomoIsReady == Spec => []StartedMeansReady
<1>1. Init => TypeOK /\ ReadyInv
  BY TUNTypeInit, ReadyInit
<1>2. TypeOK /\ ReadyInv /\ [Next]_vars => (TypeOK /\ ReadyInv)'
  BY TUNTypeStep, ReadyStep
<1>3. ReadyInv => StartedMeansReady
  BY DEF ReadyInv, ReadyOf, StartedMeansReady
<1> QED
  BY <1>1, <1>2, <1>3, PTL DEF Spec
\* The dashboard shows "TUN startup in progress" only while a start of that
\* process is in progress, for any number of overlapping starts and stops
\* (startTUN's defer, setTUNStartState).
THEOREM StartingFlagIsInFlight == Spec => []StartingMeansInFlight
<1>1. Init => TypeOK /\ StartingInv
  <2>1. Init => StartingInv
    BY DEF Init, StartingInv
  <2> QED
    BY <2>1, TUNTypeInit
<1>2. TypeOK /\ StartingInv /\ [Next]_vars => (TypeOK /\ StartingInv)'
  BY TUNTypeStep, StartingStep
<1>3. StartingInv => StartingMeansInFlight
  BY DEF StartingInv, StartingMeansInFlight, Starter
<1> QED
  BY <1>1, <1>2, <1>3, PTL DEF Spec
=============================================================================
