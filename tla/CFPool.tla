------------------------------- MODULE CFPool -------------------------------
(***************************************************************************)
(* The Cloudflare IP pool of proxy/cf_pool.go: statistics of every known   *)
(* IP, the list of IPs that are served to dialers, and the goroutines that *)
(* probe IPs and rebuild that list.                                        *)
(*                                                                         *)
(* Every critical section of p.mu is one step.  What the code does after   *)
(* an unlock is a later step of the same goroutine, so that the steps of   *)
(* other goroutines come in between: the probes of a check, the rebuild    *)
(* after them, and the rebuild that ReportFailure and RemoveInvalidIPs do  *)
(* in a second critical section.                                           *)
(*                                                                         *)
(* activeIPs holds pointers to the records of allIPs.  A record is never   *)
(* re-created while the list still holds the old one, since only UpdateIPs *)
(* adds an IP and it refilters the list in the same section; so the list   *)
(* is modelled as a sequence of IPs, whose records are in failures,        *)
(* latency and checked.                                                    *)
(***************************************************************************)
EXTENDS Integers, Sequences, FiniteSets, SequencesExt

CONSTANTS
    IP,           \* the IPs a configuration may list
    Job,          \* identifiers of check goroutines that can exist at once
    Measured,     \* latencies a probe may measure
    Penalty,      \* what a failure report adds to the latency (1000 ms)
    Concurrency,  \* capacity of the semaphore of one check (10 in the code)
    MaxFailures,  \* bound: no report or check is asked for beyond it
    MaxLatency,   \* bound: no report is made that would exceed it
    MaxRebuilds   \* bound on reports and removals waiting to rebuild

ASSUME PoolConstants ==
    /\ IsFiniteSet(IP)
    /\ Measured \subseteq Nat \ {0}
    /\ Penalty \in Nat \ {0}
    /\ Concurrency \in Nat \ {0}
    /\ MaxFailures \in Nat
    /\ MaxLatency \in Nat
    /\ MaxRebuilds \in Nat

VARIABLES
    allIPs,     \* the keys of p.allIPs
    failures,   \* Failures of each IP's record
    latency,    \* latencyVal of each IP's record, 0 when invalid
    checked,    \* what the last probe said: "never" is a zero lastCheckTime
    activeIPs,  \* the list GetTopIPs serves
    phase,      \* where each check goroutine is
    queue,      \* IPs a check has still to launch a probe for
    testing,    \* IPs whose probe holds a slot of the check's semaphore
    rebuilds    \* goroutines between an unlock and rebuildActiveIPs

poolVars == <<allIPs, failures, latency, checked, activeIPs,
              phase, queue, testing, rebuilds>>
job == <<phase, queue, testing>>
stats == <<failures, latency, checked>>

-----------------------------------------------------------------------------
(* Check goroutines *)

\* "all" and "incremental" are spawned and have not read the pool yet;
\* "probe" runs the probes.
Phase == {"idle", "all", "incremental", "probe"}

\* go p.checkAllIPs() or go p.checkIncremental()
Spawn(kind) ==
    \E j \in Job :
        /\ phase[j] = "idle"
        /\ phase' = [phase EXCEPT ![j] = kind]
        /\ UNCHANGED <<queue, testing>>

-----------------------------------------------------------------------------
(* The filter and the order of activeIPs *)

Eligible(ips, lat, fail) == {ip \in ips : lat[ip] > 0 /\ fail[ip] < 3}

\* sort.Slice over a map's values: ties come out in any order.
SortedByLatency(s, lat) ==
    \A a, b \in DOMAIN s : a < b => lat[s[a]] <= lat[s[b]]

\* Variant: the list is not sorted.
UnsortedOrders(ips, lat) == SetToSeqs(ips)

Orders(ips, lat) == {s \in SetToSeqs(ips) : SortedByLatency(s, lat)}

\* One critical section of rebuildActiveIPs.
Rebuild == activeIPs' \in Orders(Eligible(allIPs, latency, failures), latency)

\* What GetTopIPs(n) may answer: the head of the list, or any n IPs of the map
\* when the list is empty.
GetTopIPs(n) ==
    IF activeIPs = <<>>
    THEN UNION {SetToSeqs(s) : s \in
             {t \in SUBSET allIPs :
                 Cardinality(t) = IF n < Cardinality(allIPs) THEN n ELSE Cardinality(allIPs)}}
    ELSE {SubSeq(activeIPs, 1, IF n < Len(activeIPs) THEN n ELSE Len(activeIPs))}

PoolInit ==
    /\ allIPs = {}
    /\ failures = [ip \in IP |-> 0]
    /\ latency = [ip \in IP |-> 0]
    /\ checked = [ip \in IP |-> "never"]
    /\ activeIPs = <<>>
    /\ \E j \in Job : phase = [i \in Job |-> IF i = j THEN "all" ELSE "idle"]
    /\ queue = [j \in Job |-> {}]
    /\ testing = [j \in Job |-> {}]
    /\ rebuilds = 0

-----------------------------------------------------------------------------
(* Operations of the configuration and of the dashboard *)

\* The records of IPs that leave the map are forgotten; an IP that comes back
\* starts from a new record.
Kept(f, ips, new) == [ip \in IP |-> IF ip \in ips \cap allIPs THEN f[ip] ELSE new]

\* Bounds the checks that are asked for, never the steps of one that runs.
ChecksBounded == \A ip \in allIPs : failures[ip] < MaxFailures

UpdateIPs(ips) ==
    /\ ChecksBounded
    /\ allIPs' = ips
    /\ failures' = Kept(failures, ips, 0)
    /\ latency' = Kept(latency, ips, 0)
    /\ checked' = Kept(checked, ips, "never")
    /\ activeIPs' \in Orders(Eligible(ips, latency', failures'), latency')
    /\ Spawn("all")
    /\ UNCHANGED rebuilds

\* TriggerHealthCheck, and the first step of healthCheckLoop.
TriggerHealthCheck ==
    /\ ChecksBounded
    /\ Spawn("all")
    /\ UNCHANGED <<allIPs, stats, activeIPs, rebuilds>>

Invalid == {ip \in allIPs : failures[ip] >= 3}

\* Deletes under the lock; the list is rebuilt in a later section.
RemoveInvalidIPs ==
    /\ Invalid # {}
    /\ rebuilds < MaxRebuilds
    /\ LET kept == allIPs \ Invalid IN
        /\ allIPs' = kept
        /\ failures' = Kept(failures, kept, 0)
        /\ latency' = Kept(latency, kept, 0)
        /\ checked' = Kept(checked, kept, "never")
    /\ rebuilds' = rebuilds + 1
    /\ UNCHANGED <<activeIPs, job>>

-----------------------------------------------------------------------------
(* Reports of dialers; they may name any IP, also one that has left the pool. *)
(* The check is started inside the section, the rebuild is a later one.      *)

Failed(ip, threshold) ==
    /\ rebuilds < MaxRebuilds
    /\ rebuilds' = rebuilds + 1
    /\ UNCHANGED <<allIPs, checked, activeIPs>>
    /\ IF ip \in allIPs
       THEN /\ ChecksBounded
            /\ latency[ip] + Penalty <= MaxLatency
            /\ failures' = [failures EXCEPT ![ip] = @ + 1]
            /\ latency' = [latency EXCEPT ![ip] = @ + Penalty]
            /\ IF failures'[ip] >= threshold THEN Spawn("incremental") ELSE UNCHANGED job
       ELSE UNCHANGED <<failures, latency, job>>

\* Variant: the check starts one failure too late.
ReportFailureLateCheck(ip) == Failed(ip, 3)

ReportFailure(ip) == Failed(ip, 2)

\* Variant: the counter has no floor.
ReportSuccessNoFloor(ip) ==
    /\ ip \in allIPs
    /\ failures' = [failures EXCEPT ![ip] = @ - 1]
    /\ UNCHANGED <<allIPs, latency, checked, activeIPs, job, rebuilds>>

\* The list is not rebuilt.
ReportSuccess(ip) ==
    /\ ip \in allIPs
    /\ failures[ip] > 0
    /\ failures' = [failures EXCEPT ![ip] = @ - 1]
    /\ UNCHANGED <<allIPs, latency, checked, activeIPs, job, rebuilds>>

\* The second critical section of ReportFailure and RemoveInvalidIPs.
FinishReport ==
    /\ rebuilds > 0
    /\ rebuilds' = rebuilds - 1
    /\ Rebuild
    /\ UNCHANGED <<allIPs, stats, job>>

-----------------------------------------------------------------------------
(* Steps of a check goroutine *)

\* A check with nothing to probe returns without a rebuild.
Begin(j, ips) ==
    /\ phase' = [phase EXCEPT ![j] = IF ips = {} THEN "idle" ELSE "probe"]
    /\ queue' = [queue EXCEPT ![j] = ips]
    /\ UNCHANGED <<allIPs, stats, activeIPs, testing, rebuilds>>

CheckAllIPs(j) ==
    /\ phase[j] = "all"
    /\ Begin(j, allIPs)

\* IPs with enough failures, IPs never probed (their zero lastCheckTime is long
\* past), and those of the others whose last probe is over 30 minutes old.
CheckFrom(j, threshold) ==
    /\ phase[j] = "incremental"
    /\ LET due == {ip \in allIPs : failures[ip] >= threshold \/ checked[ip] = "never"}
       IN  \E old \in SUBSET (allIPs \ due) : Begin(j, due \cup old)

\* Variant: the check skips IPs that are at the report's threshold.
CheckIncrementalOffByOne(j) == CheckFrom(j, 3)

CheckIncremental(j) == CheckFrom(j, 2)

Launch(j, ip) ==
    /\ ip \in queue[j]
    /\ Cardinality(testing[j]) < Concurrency
    /\ queue' = [queue EXCEPT ![j] = @ \ {ip}]
    /\ testing' = [testing EXCEPT ![j] = @ \cup {ip}]
    /\ UNCHANGED <<allIPs, stats, activeIPs, phase, rebuilds>>

\* The probe of ip is over: the slot is given back, and its result is written
\* to the record the pool has by now, if any.
ProbeDone(j, ip) ==
    /\ ip \in testing[j]
    /\ testing' = [testing EXCEPT ![j] = @ \ {ip}]
    /\ UNCHANGED <<allIPs, activeIPs, phase, queue, rebuilds>>

ProbeFailed(j, ip) ==
    /\ ProbeDone(j, ip)
    /\ IF ip \in allIPs
       THEN /\ failures' = [failures EXCEPT ![ip] = @ + 1]
            /\ latency' = [latency EXCEPT ![ip] = 0]
            /\ checked' = [checked EXCEPT ![ip] = "failed"]
       ELSE UNCHANGED stats

ProbeSucceeded(j, ip, l) ==
    /\ ProbeDone(j, ip)
    /\ IF ip \in allIPs
       THEN /\ failures' = [failures EXCEPT ![ip] = 0]
            /\ latency' = [latency EXCEPT ![ip] = l]
            /\ checked' = [checked EXCEPT ![ip] = "ok"]
       ELSE UNCHANGED stats

\* wg.Wait has returned.
ProbesOver(j) ==
    /\ phase[j] = "probe"
    /\ queue[j] = {} /\ testing[j] = {}
    /\ phase' = [phase EXCEPT ![j] = "idle"]
    /\ UNCHANGED <<allIPs, stats, queue, testing, rebuilds>>

\* Variant: the check does not rebuild the list.
FinishCheckNoRebuild(j) == ProbesOver(j) /\ UNCHANGED activeIPs

FinishCheck(j) == ProbesOver(j) /\ Rebuild

JobStep(j) ==
    \/ CheckAllIPs(j)
    \/ CheckIncremental(j)
    \/ \E ip \in IP : Launch(j, ip)
    \/ \E ip \in IP : ProbeFailed(j, ip)
    \/ \E ip \in IP, l \in Measured : ProbeSucceeded(j, ip, l)
    \/ FinishCheck(j)

PoolNext ==
    \/ \E ips \in SUBSET IP : UpdateIPs(ips)
    \/ TriggerHealthCheck
    \/ RemoveInvalidIPs
    \/ \E ip \in IP : ReportFailure(ip) \/ ReportSuccess(ip)
    \/ FinishReport
    \/ \E j \in Job : JobStep(j)

PoolSpec == PoolInit /\ [][PoolNext]_poolVars

\* Every goroutine that has begun goes on: a probe ends within the dialer's
\* three seconds and critical sections are short.  Nothing is assumed of the
\* callers.
FairPoolSpec ==
    /\ PoolSpec
    /\ WF_poolVars(FinishReport)
    /\ \A j \in Job : WF_poolVars(JobStep(j))

-----------------------------------------------------------------------------
(* Properties *)

PoolTypeOK ==
    /\ allIPs \subseteq IP
    /\ failures \in [IP -> Nat]
    /\ latency \in [IP -> Nat]
    /\ checked \in [IP -> {"never", "ok", "failed"}]
    /\ activeIPs \in Seq(IP)
    /\ phase \in [Job -> Phase]
    /\ queue \in [Job -> SUBSET IP]
    /\ testing \in [Job -> SUBSET IP]
    /\ rebuilds \in Nat

\* Some goroutine will rebuild the list.
RebuildPending == rebuilds > 0 \/ \E j \in Job : phase[j] = "probe"

Served == {activeIPs[i] : i \in DOMAIN activeIPs}

\* activeIPs is read by dialers between the critical section that changes a
\* record and the one that rebuilds the list.  Outside those gaps every IP of
\* the list is in the map and passes the filter: a removed or failing IP is
\* never left behind, whatever the order of reports, probes and removals.
ServedEligible ==
    RebuildPending \/ Served \subseteq Eligible(allIPs, latency, failures)

\* Outside the same gaps the list is sorted.
ServedSorted == RebuildPending \/ SortedByLatency(activeIPs, latency)

\* Outside the same gaps GetTopIPs answers with the fastest IPs of the list,
\* although failure reports and probes change latencies behind its back.
TopIPsFastest ==
    RebuildPending \/
        \A n \in 1..Cardinality(IP) : \A s \in GetTopIPs(n) :
            \A i \in DOMAIN s : \A ip \in Served :
                (\A k \in DOMAIN s : s[k] # ip) => latency[s[i]] <= latency[ip]

\* An IP that reports alone have put on two or more failures (a probe would
\* have reset its failures or its latency).
Suspect(ip) == ip \in allIPs /\ failures[ip] >= 2 /\ latency[ip] > 0

\* ReportFailure starts the check from inside its critical section, and the
\* check reads the pool later: a suspect always has a check on its way that
\* will probe it.
WillProbe(j, ip) ==
    phase[j] \in {"all", "incremental"} \/ ip \in queue[j] \cup testing[j]

SuspectUnderCheck ==
    \A ip \in IP : Suspect(ip) => \E j \in Job : WillProbe(j, ip)

\* A served IP that no longer passes the filter leaves the list, or is
\* rehabilitated by a success.
StaleEntryLeaves ==
    \A ip \in IP :
        (ip \in Served /\ ip \notin Eligible(allIPs, latency, failures))
          ~> (ip \notin Served \/ ip \in Eligible(allIPs, latency, failures))

\* A suspect is eventually probed (or removed, or cleared by successes).
SuspectResolved == \A ip \in IP : Suspect(ip) ~> ~Suspect(ip)
=============================================================================
