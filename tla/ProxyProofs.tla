----------------------------- MODULE ProxyProofs -----------------------------
(***************************************************************************)
(* Proofs about the server of proxy/proxy.go and its Cloudflare pool: the   *)
(* safety properties of CFPool for every set of IPs and checks, and those   *)
(* of ProxyLifecycle for every number of ports, attempts and restarts.  The *)
(* two specifications share no state.                                       *)
(***************************************************************************)
EXTENDS CFPool, ProxyLifecycle, FiniteSetTheorems, TLAPS

-----------------------------------------------------------------------------
(* The Cloudflare pool *)

\* What a rebuild stores: a sequence of the filtered IPs, fastest first.
LEMMA OrdersType ==
    ASSUME NEW S, S \subseteq IP, NEW lat \in [IP -> Nat], NEW s \in Orders(S, lat)
    PROVE  /\ s \in Seq(IP)
           /\ \A i \in DOMAIN s : s[i] \in S
           /\ SortedByLatency(s, lat)
<1>1. Cardinality(S) \in Nat
  BY PoolConstants, FS_Subset, FS_CardinalityType
<1>2. s \in [1..Cardinality(S) -> S] /\ SortedByLatency(s, lat)
  BY DEF Orders, SetToSeqs
<1>3. s \in [1..Cardinality(S) -> IP]
  BY <1>2
<1> QED BY <1>1, <1>2, <1>3, SMT

\* The filter selects from the map.
LEMMA EligibleSubset ==
    ASSUME NEW ips, ips \subseteq IP, NEW lat, NEW fail
    PROVE  Eligible(ips, lat, fail) \subseteq IP /\ Eligible(ips, lat, fail) \subseteq ips
  BY DEF Eligible

\* Dropping records keeps their types.
LEMMA KeptType ==
    ASSUME NEW S, NEW f \in [IP -> S], NEW new \in S, NEW ips
    PROVE  Kept(f, ips, new) \in [IP -> S]
  BY DEF Kept

LEMMA RebuildType ==
    ASSUME PoolTypeOK, Rebuild
    PROVE  /\ activeIPs' \in Seq(IP)
           /\ \A i \in DOMAIN activeIPs' : activeIPs'[i] \in Eligible(allIPs, latency, failures)
           /\ SortedByLatency(activeIPs', latency)
<1>1. Eligible(allIPs, latency, failures) \subseteq IP
  BY EligibleSubset DEF PoolTypeOK
<1>2. activeIPs' \in Orders(Eligible(allIPs, latency, failures), latency)
  BY DEF Rebuild
<1>3. latency \in [IP -> Nat]
  BY DEF PoolTypeOK
<1> QED BY <1>1, <1>2, <1>3, OrdersType

\* The list UpdateIPs stores, in the terms of the new records.
LEMMA UpdateType ==
    ASSUME PoolTypeOK, NEW ips \in SUBSET IP, UpdateIPs(ips)
    PROVE  /\ failures' \in [IP -> Nat] /\ latency' \in [IP -> Nat]
           /\ checked' \in [IP -> {"never", "ok", "failed"}]
           /\ activeIPs' \in Seq(IP)
           /\ \A i \in DOMAIN activeIPs' : activeIPs'[i] \in Eligible(ips, latency', failures')
           /\ SortedByLatency(activeIPs', latency')
<1>1. failures' \in [IP -> Nat] /\ latency' \in [IP -> Nat]
  BY KeptType DEF UpdateIPs, PoolTypeOK
<1>2. checked' \in [IP -> {"never", "ok", "failed"}]
  BY KeptType DEF UpdateIPs, PoolTypeOK
<1>3. Eligible(ips, latency', failures') \subseteq IP
  BY EligibleSubset
<1>4. activeIPs' \in Orders(Eligible(ips, latency', failures'), latency')
  BY DEF UpdateIPs
<1> QED BY <1>1, <1>2, <1>3, <1>4, OrdersType

LEMMA SpawnType ==
    ASSUME PoolTypeOK, NEW k \in {"all", "incremental"}, Spawn(k)
    PROVE  /\ phase' \in [Job -> Phase] /\ UNCHANGED <<queue, testing>>
           /\ \E j \in Job : phase'[j] = k
           /\ \A j \in Job : phase[j] # "idle" => phase'[j] = phase[j]
  BY DEF Spawn, PoolTypeOK, Phase

-----------------------------------------------------------------------------
LEMMA TypeStep == PoolTypeOK /\ [PoolNext]_poolVars => PoolTypeOK'
<1> SUFFICES ASSUME PoolTypeOK, [PoolNext]_poolVars PROVE PoolTypeOK'
  OBVIOUS
<1>a. Penalty \in Nat /\ Measured \subseteq Nat
  BY PoolConstants
<1>b. failures \in [IP -> Nat] /\ latency \in [IP -> Nat]
  BY DEF PoolTypeOK
<1>1. ASSUME NEW ips \in SUBSET IP, UpdateIPs(ips) PROVE PoolTypeOK'
  <2>1. Spawn("all") /\ allIPs' = ips /\ UNCHANGED rebuilds
    BY <1>1 DEF UpdateIPs
  <2> QED BY <1>1, <2>1, UpdateType, SpawnType DEF PoolTypeOK
<1>2. CASE TriggerHealthCheck
  BY <1>2, SpawnType DEF TriggerHealthCheck, PoolTypeOK, stats
<1>3. CASE RemoveInvalidIPs
  <2> DEFINE kept == allIPs \ Invalid
  <2>1. Kept(failures, kept, 0) \in [IP -> Nat] /\ Kept(latency, kept, 0) \in [IP -> Nat]
    BY KeptType DEF PoolTypeOK
  <2>2. Kept(checked, kept, "never") \in [IP -> {"never", "ok", "failed"}]
    BY KeptType DEF PoolTypeOK
  <2>3. /\ failures' = Kept(failures, kept, 0) /\ latency' = Kept(latency, kept, 0)
        /\ checked' = Kept(checked, kept, "never") /\ allIPs' = kept
    BY <1>3 DEF RemoveInvalidIPs
  <2>4. kept \subseteq IP /\ rebuilds' \in Nat /\ UNCHANGED <<activeIPs, phase, queue, testing>>
    BY <1>3 DEF RemoveInvalidIPs, PoolTypeOK, job
  <2> QED BY <2>1, <2>2, <2>3, <2>4 DEF PoolTypeOK
<1>4. ASSUME NEW ip \in IP, ReportFailure(ip) PROVE PoolTypeOK'
  <2>1. phase' \in [Job -> Phase] /\ UNCHANGED <<queue, testing>>
    BY <1>4, SpawnType DEF ReportFailure, Failed, PoolTypeOK, job
  <2>2. failures' \in [IP -> Nat] /\ latency' \in [IP -> Nat]
    <3>1. CASE ip \in allIPs
      BY <1>a, <1>b, <1>4, <3>1 DEF ReportFailure, Failed
    <3>2. CASE ip \notin allIPs
      BY <1>b, <1>4, <3>2 DEF ReportFailure, Failed
    <3> QED BY <3>1, <3>2
  <2> QED BY <1>4, <2>1, <2>2 DEF ReportFailure, Failed, PoolTypeOK
<1>5. ASSUME NEW ip \in IP, ReportSuccess(ip) PROVE PoolTypeOK'
  BY <1>5 DEF ReportSuccess, PoolTypeOK, job
<1>6. CASE FinishReport
  <2>1. activeIPs' \in Seq(IP)
    BY <1>6, RebuildType DEF FinishReport
  <2> QED BY <1>6, <2>1 DEF FinishReport, PoolTypeOK, job, stats
<1>7. ASSUME NEW j \in Job, JobStep(j) PROVE PoolTypeOK'
  <2>1. ASSUME NEW ips \in SUBSET IP, Begin(j, ips) PROVE PoolTypeOK'
    BY <2>1 DEF Begin, PoolTypeOK, Phase, stats
  <2>2. CASE CheckAllIPs(j)
    BY <2>1, <2>2 DEF CheckAllIPs, PoolTypeOK
  <2>3. CASE CheckIncremental(j)
    BY <2>1, <2>3 DEF CheckIncremental, CheckFrom, PoolTypeOK
  <2>4. ASSUME NEW ip \in IP, Launch(j, ip) PROVE PoolTypeOK'
    BY <2>4 DEF Launch, PoolTypeOK, stats
  <2>5. ASSUME NEW ip \in IP, ProbeFailed(j, ip) PROVE PoolTypeOK'
    <3>1. testing' \in [Job -> SUBSET IP] /\ UNCHANGED <<allIPs, activeIPs, phase, queue, rebuilds>>
      BY <2>5 DEF ProbeFailed, ProbeDone, PoolTypeOK
    <3>2. failures' \in [IP -> Nat] /\ latency' \in [IP -> Nat]
      <4>1. CASE ip \in allIPs
        BY <1>a, <1>b, <2>5, <4>1 DEF ProbeFailed
      <4>2. CASE ip \notin allIPs
        BY <1>b, <2>5, <4>2 DEF ProbeFailed, stats
      <4> QED BY <4>1, <4>2
    <3>3. checked' \in [IP -> {"never", "ok", "failed"}]
      BY <2>5 DEF ProbeFailed, PoolTypeOK, stats
    <3> QED BY <3>1, <3>2, <3>3 DEF PoolTypeOK
  <2>6. ASSUME NEW ip \in IP, NEW l \in Measured, ProbeSucceeded(j, ip, l) PROVE PoolTypeOK'
    <3>1. testing' \in [Job -> SUBSET IP] /\ UNCHANGED <<allIPs, activeIPs, phase, queue, rebuilds>>
      BY <2>6 DEF ProbeSucceeded, ProbeDone, PoolTypeOK
    <3>2. failures' \in [IP -> Nat] /\ latency' \in [IP -> Nat]
      <4>1. CASE ip \in allIPs
        BY <1>a, <1>b, <2>6, <4>1 DEF ProbeSucceeded
      <4>2. CASE ip \notin allIPs
        BY <1>b, <2>6, <4>2 DEF ProbeSucceeded, stats
      <4> QED BY <4>1, <4>2
    <3>3. checked' \in [IP -> {"never", "ok", "failed"}]
      BY <2>6 DEF ProbeSucceeded, PoolTypeOK, stats
    <3> QED BY <3>1, <3>2, <3>3 DEF PoolTypeOK
  <2>7. CASE FinishCheck(j)
    <3>1. activeIPs' \in Seq(IP)
      BY <2>7, RebuildType DEF FinishCheck
    <3> QED BY <2>7, <3>1 DEF FinishCheck, ProbesOver, PoolTypeOK, stats, Phase
  <2> QED BY <1>7, <2>2, <2>3, <2>4, <2>5, <2>6, <2>7 DEF JobStep
<1>8. CASE UNCHANGED poolVars
  BY <1>8 DEF poolVars, PoolTypeOK
<1> QED BY <1>1, <1>2, <1>3, <1>4, <1>5, <1>6, <1>7, <1>8 DEF PoolNext

\* Every step leaves the variables in their types: failure counters never go
\* below zero and the served list holds known IPs, for any set of IPs.
THEOREM PoolTypeCorrect == PoolSpec => []PoolTypeOK
<1>1. PoolInit => PoolTypeOK
  BY DEF PoolInit, PoolTypeOK, Phase
<1> QED BY <1>1, TypeStep, PTL DEF PoolSpec

-----------------------------------------------------------------------------
\* A rebuild establishes both facts about the list at once.
LEMMA RebuildEstablishes ==
    ASSUME PoolTypeOK, Rebuild, UNCHANGED <<allIPs, latency, failures>>
    PROVE  ServedEligible' /\ ServedSorted'
<1>1. \A i \in DOMAIN activeIPs' : activeIPs'[i] \in Eligible(allIPs', latency', failures')
  BY RebuildType
<1>2. SortedByLatency(activeIPs', latency')
  BY RebuildType
<1> QED BY <1>1, <1>2 DEF ServedEligible, ServedSorted, Served

\* Steps that leave the map, the list and the records of served IPs alone keep
\* the list's properties if they cancel no pending rebuild.
LEMMA ListUntouched ==
    ASSUME ServedEligible, ServedSorted, RebuildPending => RebuildPending',
           UNCHANGED <<allIPs, latency, failures, activeIPs>>
    PROVE  ServedEligible' /\ ServedSorted'
  BY DEF ServedEligible, ServedSorted, Served, Eligible, SortedByLatency

\* Only a check that runs probes has IPs to probe: the result of a probe is
\* always followed by the rebuild of its check.
ProbesInCheck ==
    \A j \in Job : phase[j] # "probe" => queue[j] = {} /\ testing[j] = {}

LEMMA ProbesStep == PoolTypeOK /\ ProbesInCheck /\ [PoolNext]_poolVars => ProbesInCheck'
<1> SUFFICES ASSUME PoolTypeOK, ProbesInCheck, [PoolNext]_poolVars PROVE ProbesInCheck'
  OBVIOUS
<1>0. ASSUME NEW k \in {"all", "incremental"}, Spawn(k) PROVE ProbesInCheck'
  BY <1>0 DEF Spawn, ProbesInCheck, PoolTypeOK
<1>1. ASSUME NEW ips \in SUBSET IP, UpdateIPs(ips) PROVE ProbesInCheck'
  BY <1>0, <1>1 DEF UpdateIPs
<1>2. CASE TriggerHealthCheck
  BY <1>0, <1>2 DEF TriggerHealthCheck
<1>3. ASSUME UNCHANGED job PROVE ProbesInCheck'
  BY <1>3 DEF job, ProbesInCheck
<1>4. ASSUME NEW ip \in IP, ReportFailure(ip) PROVE ProbesInCheck'
  BY <1>0, <1>3, <1>4 DEF ReportFailure, Failed, job
<1>5. ASSUME NEW j \in Job, JobStep(j) PROVE ProbesInCheck'
  <2>1. ASSUME NEW ips \in SUBSET IP, Begin(j, ips), phase[j] # "probe" PROVE ProbesInCheck'
    BY <2>1 DEF Begin, ProbesInCheck, PoolTypeOK
  <2>2. CASE CheckAllIPs(j)
    BY <2>1, <2>2 DEF CheckAllIPs, PoolTypeOK
  <2>3. CASE CheckIncremental(j)
    BY <2>1, <2>3 DEF CheckIncremental, CheckFrom, PoolTypeOK
  <2>4. ASSUME NEW ip \in IP, Launch(j, ip) PROVE ProbesInCheck'
    BY <2>4 DEF Launch, ProbesInCheck, PoolTypeOK
  <2>5. ASSUME NEW ip \in IP, ProbeDone(j, ip) PROVE ProbesInCheck'
    BY <2>5 DEF ProbeDone, ProbesInCheck, PoolTypeOK
  <2>6. CASE FinishCheck(j)
    BY <2>6 DEF FinishCheck, ProbesOver, ProbesInCheck, PoolTypeOK
  <2> QED BY <1>5, <2>2, <2>3, <2>4, <2>5, <2>6 DEF JobStep, ProbeFailed, ProbeSucceeded
<1> QED BY <1>1, <1>2, <1>3, <1>4, <1>5
        DEF PoolNext, poolVars, job, RemoveInvalidIPs, ReportSuccess, FinishReport

ListInv == ServedEligible /\ ServedSorted

LEMMA ListStep == PoolTypeOK /\ ProbesInCheck /\ ListInv /\ [PoolNext]_poolVars => ListInv'
<1> SUFFICES ASSUME PoolTypeOK, ProbesInCheck, ListInv, [PoolNext]_poolVars PROVE ListInv'
  OBVIOUS
<1>0. ASSUME RebuildPending' PROVE ListInv'
  BY <1>0 DEF ListInv, ServedEligible, ServedSorted
<1>1. ASSUME NEW ips \in SUBSET IP, UpdateIPs(ips) PROVE ListInv'
  <2>1. allIPs' = ips
    BY <1>1 DEF UpdateIPs
  <2> QED BY <1>1, <2>1, UpdateType DEF ListInv, ServedEligible, ServedSorted, Served
<1>2. CASE TriggerHealthCheck
  <2>1. RebuildPending => RebuildPending'
    BY <1>2, SpawnType DEF TriggerHealthCheck, RebuildPending
  <2> QED BY <1>2, <2>1, ListUntouched DEF TriggerHealthCheck, stats, ListInv
<1>3. CASE RemoveInvalidIPs
  BY <1>0, <1>3 DEF RemoveInvalidIPs, RebuildPending, PoolTypeOK
<1>4. ASSUME NEW ip \in IP, ReportFailure(ip) PROVE ListInv'
  BY <1>0, <1>4 DEF ReportFailure, Failed, RebuildPending, PoolTypeOK
<1>5. ASSUME NEW ip \in IP, ReportSuccess(ip) PROVE ListInv'
  <2>1. RebuildPending <=> RebuildPending'
    BY <1>5 DEF ReportSuccess, RebuildPending, job
  <2>2. Eligible(allIPs, latency, failures) \subseteq Eligible(allIPs', latency', failures')
    BY <1>5 DEF ReportSuccess, Eligible, PoolTypeOK
  <2>3. UNCHANGED <<activeIPs, latency>>
    BY <1>5 DEF ReportSuccess
  <2> QED BY <2>1, <2>2, <2>3 DEF ListInv, ServedEligible, ServedSorted, Served, SortedByLatency
<1>6. CASE FinishReport
  BY <1>6, RebuildEstablishes DEF FinishReport, stats, ListInv
<1>7. ASSUME NEW j \in Job, JobStep(j) PROVE ListInv'
  <2>1. ASSUME NEW ips \in SUBSET IP, phase[j] # "probe", Begin(j, ips) PROVE ListInv'
    <3>1. RebuildPending => RebuildPending'
      BY <2>1 DEF Begin, RebuildPending, PoolTypeOK
    <3> QED BY <2>1, <3>1, ListUntouched DEF Begin, stats, ListInv
  <2>2. CASE CheckAllIPs(j)
    BY <2>1, <2>2 DEF CheckAllIPs, PoolTypeOK
  <2>3. CASE CheckIncremental(j)
    BY <2>1, <2>3 DEF CheckIncremental, CheckFrom, PoolTypeOK
  <2>4. ASSUME NEW ip \in IP, Launch(j, ip) PROVE ListInv'
    <3>1. RebuildPending <=> RebuildPending'
      BY <2>4 DEF Launch, RebuildPending
    <3> QED BY <2>4, <3>1, ListUntouched DEF Launch, stats, ListInv
  <2>5. ASSUME NEW ip \in IP, ProbeDone(j, ip) PROVE ListInv'
    BY <1>0, <2>5 DEF ProbeDone, RebuildPending, ProbesInCheck
  <2>6. CASE FinishCheck(j)
    BY <2>6, RebuildEstablishes DEF FinishCheck, ProbesOver, stats, ListInv
  <2> QED BY <1>7, <2>2, <2>3, <2>4, <2>5, <2>6 DEF JobStep, ProbeFailed, ProbeSucceeded
<1>8. CASE UNCHANGED poolVars
  BY <1>8, ListUntouched DEF poolVars, RebuildPending, ListInv
<1> QED BY <1>1, <1>2, <1>3, <1>4, <1>5, <1>6, <1>7, <1>8 DEF PoolNext

\* Outside the gaps between a change and its rebuild, every served IP is in the
\* map and passes the filter.
THEOREM ServedEligibleAlways == PoolSpec => []ServedEligible
<1>1. PoolInit => PoolTypeOK /\ ProbesInCheck /\ ListInv
  BY DEF PoolInit, PoolTypeOK, Phase, ProbesInCheck, ListInv, ServedEligible, ServedSorted,
         Served, SortedByLatency
<1>2. ListInv => ServedEligible
  BY DEF ListInv
<1> QED BY <1>1, <1>2, TypeStep, ProbesStep, ListStep, PTL DEF PoolSpec

\* Outside the same gaps, no IP of the list that GetTopIPs leaves out is faster
\* than one it returns.
THEOREM TopIPsFastestAlways == PoolSpec => []TopIPsFastest
<1>1. PoolInit => PoolTypeOK /\ ProbesInCheck /\ ListInv
  BY DEF PoolInit, PoolTypeOK, Phase, ProbesInCheck, ListInv, ServedEligible, ServedSorted,
         Served, SortedByLatency
<1>2. PoolTypeOK /\ ListInv => TopIPsFastest
  <2> SUFFICES ASSUME PoolTypeOK, SortedByLatency(activeIPs, latency),
                      NEW n \in 1..Cardinality(IP), NEW s \in GetTopIPs(n),
                      NEW i \in DOMAIN s, NEW ip \in Served, \A k \in DOMAIN s : s[k] # ip
               PROVE  latency[s[i]] <= latency[ip]
    BY DEF TopIPsFastest, ListInv, ServedSorted
  <2>1. activeIPs # <<>> /\ activeIPs \in Seq(IP)
    BY DEF Served, PoolTypeOK
  <2>2. PICK m \in 0..Len(activeIPs) : s = SubSeq(activeIPs, 1, m)
    <3>1. Cardinality(IP) \in Nat
      BY PoolConstants, FS_CardinalityType
    <3> QED BY <2>1, <3>1 DEF GetTopIPs
  <2>3. DOMAIN s = 1..m /\ \A k \in 1..m : s[k] = activeIPs[k]
    BY <2>1, <2>2
  <2>4. PICK k \in 1..Len(activeIPs) : ip = activeIPs[k]
    BY <2>1 DEF Served
  <2>5. i < k /\ i \in DOMAIN activeIPs /\ k \in DOMAIN activeIPs
    BY <2>1, <2>3, <2>4
  <2> QED BY <2>3, <2>4, <2>5 DEF SortedByLatency
<1> QED BY <1>1, <1>2, TypeStep, ProbesStep, ListStep, PTL DEF PoolSpec

-----------------------------------------------------------------------------
LEMMA SuspectStep == PoolTypeOK /\ SuspectUnderCheck /\ [PoolNext]_poolVars => SuspectUnderCheck'
<1> SUFFICES ASSUME PoolTypeOK, SuspectUnderCheck, [PoolNext]_poolVars, NEW ip \in IP, Suspect(ip)'
             PROVE  \E j \in Job : WillProbe(j, ip)'
  BY DEF SuspectUnderCheck
<1>0. ASSUME NEW k \in {"all", "incremental"}, Spawn(k) PROVE \E j \in Job : WillProbe(j, ip)'
  BY <1>0, SpawnType DEF WillProbe
<1>a. ASSUME Suspect(ip), UNCHANGED job PROVE \E j \in Job : WillProbe(j, ip)'
  BY <1>a DEF SuspectUnderCheck, WillProbe, job
<1>1. ASSUME NEW ips \in SUBSET IP, UpdateIPs(ips) PROVE \E j \in Job : WillProbe(j, ip)'
  BY <1>0, <1>1 DEF UpdateIPs
<1>2. CASE TriggerHealthCheck
  BY <1>0, <1>2 DEF TriggerHealthCheck
<1>3. CASE RemoveInvalidIPs
  <2>1. failures'[ip] = failures[ip] /\ latency'[ip] = latency[ip] /\ ip \in allIPs
    BY <1>3 DEF RemoveInvalidIPs, Kept, Suspect
  <2> QED BY <1>3, <1>a, <2>1 DEF RemoveInvalidIPs, Suspect
<1>4. ASSUME NEW r \in IP, ReportFailure(r) PROVE \E j \in Job : WillProbe(j, ip)'
  <2>1. CASE r = ip /\ ip \in allIPs
    <3>1. failures'[ip] >= 2
      BY DEF Suspect
    <3>2. Spawn("incremental")
      BY <1>4, <2>1, <3>1 DEF ReportFailure, Failed
    <3> QED BY <1>0, <3>2
  <2>2. CASE ~(r = ip /\ ip \in allIPs)
    <3>1. Suspect(ip)
      BY <1>4, <2>2 DEF ReportFailure, Failed, Suspect, PoolTypeOK
    <3>2. Spawn("incremental") \/ UNCHANGED job
      BY <1>4 DEF ReportFailure, Failed, job
    <3> QED BY <1>0, <1>a, <3>1, <3>2
  <2> QED BY <2>1, <2>2
<1>5. ASSUME NEW r \in IP, ReportSuccess(r) PROVE \E j \in Job : WillProbe(j, ip)'
  <2>1. Suspect(ip)
    BY <1>5 DEF ReportSuccess, Suspect, PoolTypeOK
  <2> QED BY <1>5, <1>a, <2>1 DEF ReportSuccess
<1>6. CASE FinishReport
  BY <1>6, <1>a DEF FinishReport, stats, Suspect
<1>7. ASSUME NEW j \in Job, JobStep(j) PROVE \E i \in Job : WillProbe(i, ip)'
  <2>0. ASSUME Suspect(ip), WillProbe(j, ip) => WillProbe(j, ip)',
               \A i \in Job \ {j} : phase'[i] = phase[i] /\ queue'[i] = queue[i] /\ testing'[i] = testing[i]
        PROVE  \E i \in Job : WillProbe(i, ip)'
    BY <2>0 DEF SuspectUnderCheck, WillProbe
  <2>1. CASE CheckAllIPs(j)
    <3>1. Suspect(ip) /\ ip \in allIPs
      BY <2>1 DEF CheckAllIPs, Begin, stats, Suspect
    <3>2. WillProbe(j, ip)'
      BY <2>1, <3>1 DEF CheckAllIPs, Begin, WillProbe, PoolTypeOK
    <3> QED BY <3>2
  <2>2. CASE CheckIncremental(j)
    <3>1. Suspect(ip) /\ ip \in allIPs /\ failures[ip] >= 2
      BY <2>2 DEF CheckIncremental, CheckFrom, Begin, stats, Suspect
    <3>2. PICK ips : ip \in ips /\ Begin(j, ips)
      BY <2>2, <3>1 DEF CheckIncremental, CheckFrom
    <3>3. WillProbe(j, ip)'
      BY <3>2 DEF Begin, WillProbe, PoolTypeOK
    <3> QED BY <3>3
  <2>3. ASSUME NEW r \in IP, Launch(j, r) PROVE \E i \in Job : WillProbe(i, ip)'
    <3>1. Suspect(ip)
      BY <2>3 DEF Launch, stats, Suspect
    <3>2. WillProbe(j, ip) => WillProbe(j, ip)'
      BY <2>3 DEF Launch, WillProbe, PoolTypeOK
    <3> QED BY <2>0, <2>3, <3>1, <3>2 DEF Launch, PoolTypeOK
  <2>4. ASSUME NEW r \in IP, ProbeDone(j, r), r # ip, Suspect(ip)
        PROVE  \E i \in Job : WillProbe(i, ip)'
    <3>1. WillProbe(j, ip) => WillProbe(j, ip)'
      BY <2>4 DEF ProbeDone, WillProbe, PoolTypeOK
    <3> QED BY <2>0, <2>4, <3>1 DEF ProbeDone, PoolTypeOK
  <2>5. ASSUME NEW r \in IP, ProbeFailed(j, r) PROVE \E i \in Job : WillProbe(i, ip)'
    <3>1. r # ip
      BY <2>5 DEF ProbeFailed, ProbeDone, Suspect, PoolTypeOK
    <3>2. Suspect(ip)
      BY <2>5, <3>1 DEF ProbeFailed, ProbeDone, Suspect, PoolTypeOK, stats
    <3> QED BY <2>4, <2>5, <3>1, <3>2 DEF ProbeFailed
  <2>6. ASSUME NEW r \in IP, NEW l \in Measured, ProbeSucceeded(j, r, l)
        PROVE  \E i \in Job : WillProbe(i, ip)'
    <3>1. r # ip
      BY <2>6 DEF ProbeSucceeded, ProbeDone, Suspect, PoolTypeOK
    <3>2. Suspect(ip)
      BY <2>6, <3>1 DEF ProbeSucceeded, ProbeDone, Suspect, PoolTypeOK, stats
    <3> QED BY <2>4, <2>6, <3>1, <3>2 DEF ProbeSucceeded
  <2>7. CASE FinishCheck(j)
    <3>1. Suspect(ip)
      BY <2>7 DEF FinishCheck, ProbesOver, stats, Suspect
    <3>2. ~WillProbe(j, ip)
      BY <2>7 DEF FinishCheck, ProbesOver, WillProbe
    <3> QED BY <2>0, <2>7, <3>1, <3>2 DEF FinishCheck, ProbesOver, PoolTypeOK
  <2> QED BY <1>7, <2>1, <2>2, <2>3, <2>5, <2>6, <2>7 DEF JobStep
<1>8. CASE UNCHANGED poolVars
  BY <1>8, <1>a DEF poolVars, job, Suspect
<1> QED BY <1>1, <1>2, <1>3, <1>4, <1>5, <1>6, <1>7, <1>8 DEF PoolNext

\* An IP that reports have brought to two failures always has a check on its
\* way that will probe it, whatever happens between the report that started
\* the check and the moment the check reads the pool.
THEOREM SuspectAlwaysUnderCheck == PoolSpec => []SuspectUnderCheck
<1>1. PoolInit => PoolTypeOK /\ SuspectUnderCheck
  BY DEF PoolInit, PoolTypeOK, Phase, SuspectUnderCheck, Suspect
<1> QED BY <1>1, TypeStep, SuspectStep, PTL DEF PoolSpec

-----------------------------------------------------------------------------
(* Starting and stopping the proxy *)

\* Who keeps the mutex, and what Stop has done by then.
MutexInv ==
    /\ pc["shutdown"] \in {"idle", "stop", "stopwait", "done"}
    /\ \A a \in Actor : (mu = a) <=> (pc[a] = "stopwait")
    /\ mu # "free" => ~running /\ server \in Srv /\ ~poolRunning

\* Between its two critical sections Start owns a server nobody else knows.
StartInv ==
    /\ pc["op"] \in {"ensure", "start"} => nsrv < MaxStarts
    /\ server <= nsrv
    /\ server # 0 => serve[server] # "none"
    /\ \A s \in Srv : s > nsrv => serve[s] = "none" /\ ln[s] = 0
    /\ \A s \in srvClosed : serve[s] # "none"
    /\ pc["op"] \in {"listen", "unpool", "unpoolwait", "publish"} =>
          /\ ~running
          /\ nsrv \in Srv
          /\ server < nsrv
          /\ serve[nsrv] = "none"
    /\ pc["op"] \in {"listen", "unpool", "publish"} => poolRunning
    /\ pc["op"] = "publish" /\ proc # "exited" => ln[nsrv] = listenPort

\* The loop that is alive belongs to the channel that is open, or to the one
\* that the Stop in progress has closed.
PoolInv ==
    /\ stopChan <= nsrv
    /\ poolRunning => stopChan \in Srv
    /\ \A c \in chanClosed : c <= stopChan
    /\ \A g \in Srv : loop[g] \in {"unread", "wait"} =>
          poolRunning \/ pc["op"] = "unpoolwait" \/ mu # "free"

LifecycleInv ==
    /\ TypeOK /\ MutexInv /\ StartInv /\ PoolInv
    /\ RunningServesAdvertisedPort /\ ServingCanBeStopped
    /\ NoListenerLeaked /\ PoolLoopStoppable

LEMMA LifecycleStep == LifecycleInv /\ [Next]_vars => LifecycleInv'
<1> SUFFICES ASSUME LifecycleInv, [Next]_vars PROVE LifecycleInv'
  OBVIOUS
<1> USE LifecycleConstants DEF LifecycleInv, TypeOK, MutexInv, StartInv, PoolInv,
        RunningServesAdvertisedPort, ServingCanBeStopped, NoListenerLeaked, PoolLoopStoppable,
        Goto, Port, Srv, Actor, net, srv, socks, pool
<1>1. ASSUME NEW p \in Port, ChoosePort(p) PROVE LifecycleInv'
  <2>1. TypeOK'
    BY <1>1 DEF ChoosePort, SettlePort, EnsurePortAvailable, FoundFree, Evicted
  <2>2. MutexInv'
    BY <1>1 DEF ChoosePort, SettlePort, EnsurePortAvailable, FoundFree, Evicted
  <2>3. StartInv'
    BY <1>1 DEF ChoosePort, SettlePort, EnsurePortAvailable, FoundFree, Evicted
  <2>4. PoolInv'
    BY <1>1 DEF ChoosePort, SettlePort, EnsurePortAvailable, FoundFree, Evicted
  <2>5. RunningServesAdvertisedPort'
    BY <1>1 DEF ChoosePort, SettlePort, EnsurePortAvailable, FoundFree, Evicted
  <2>6. ServingCanBeStopped'
    BY <1>1 DEF ChoosePort, SettlePort, EnsurePortAvailable, FoundFree, Evicted
  <2>7. NoListenerLeaked'
    BY <1>1 DEF ChoosePort, SettlePort, EnsurePortAvailable, FoundFree, Evicted
  <2>8. PoolLoopStoppable'
    BY <1>1 DEF ChoosePort, SettlePort, EnsurePortAvailable, FoundFree, Evicted
  <2> QED BY <2>1, <2>2, <2>3, <2>4, <2>5, <2>6, <2>7, <2>8 DEF LifecycleInv
<1>2. CASE StartLocked
  <2>1. CASE running
    <3>1. Goto("op", "start", "wait") /\ UNCHANGED <<mu, srv, net, listenPort, socks, pool, proc>>
      BY <1>2, <2>1 DEF StartLocked
    <3>2. TypeOK'
      BY <2>1, <3>1
    <3>3. MutexInv'
      BY <2>1, <3>1
    <3>4. StartInv'
      BY <2>1, <3>1
    <3>5. PoolInv'
      BY <2>1, <3>1
    <3>6. RunningServesAdvertisedPort'
      BY <2>1, <3>1
    <3>7. ServingCanBeStopped'
      BY <2>1, <3>1
    <3>8. NoListenerLeaked'
      BY <2>1, <3>1
    <3>9. PoolLoopStoppable'
      BY <2>1, <3>1
    <3> QED BY <3>2, <3>3, <3>4, <3>5, <3>6, <3>7, <3>8, <3>9 DEF LifecycleInv
  <2>2. CASE ~running /\ poolRunning
    <3>1. nsrv' = nsrv + 1 /\ nsrv' \in Srv /\ UNCHANGED pool
      BY <1>2, <2>2 DEF StartLocked, PoolStart
    <3>2. TypeOK'
      BY <1>2, <2>2, <3>1 DEF StartLocked
    <3>3. MutexInv'
      BY <1>2, <2>2, <3>1 DEF StartLocked
    <3>4. StartInv'
      BY <1>2, <2>2, <3>1 DEF StartLocked
    <3>5. PoolInv'
      BY <1>2, <2>2, <3>1 DEF StartLocked
    <3>6. RunningServesAdvertisedPort'
      BY <1>2, <2>2, <3>1 DEF StartLocked
    <3>7. ServingCanBeStopped'
      BY <1>2, <2>2, <3>1 DEF StartLocked
    <3>8. NoListenerLeaked'
      BY <1>2, <2>2, <3>1 DEF StartLocked
    <3>9. PoolLoopStoppable'
      BY <1>2, <2>2, <3>1 DEF StartLocked
    <3> QED BY <3>2, <3>3, <3>4, <3>5, <3>6, <3>7, <3>8, <3>9 DEF LifecycleInv
  <2>3. CASE ~running /\ ~poolRunning
    <3>1. nsrv' = nsrv + 1 /\ nsrv' \in Srv /\ stopChan' = stopChan + 1 /\ stopChan' \in Srv
      BY <1>2, <2>3 DEF StartLocked, PoolStart
    <3>2. /\ poolRunning' /\ UNCHANGED <<chanClosed, waitsOn>>
          /\ loop' = [loop EXCEPT ![stopChan + 1] = "unread"]
      BY <1>2, <2>3 DEF StartLocked, PoolStart
    <3>3. \A g \in Srv : loop[g] \notin {"unread", "wait"}
      BY <1>2, <2>3 DEF StartLocked
    <3>4. TypeOK'
      BY <1>2, <2>3, <3>1, <3>2, <3>3 DEF StartLocked
    <3>5. MutexInv'
      BY <1>2, <2>3, <3>1, <3>2, <3>3 DEF StartLocked
    <3>6. StartInv'
      BY <1>2, <2>3, <3>1, <3>2, <3>3 DEF StartLocked
    <3>7. PoolInv'
      BY <1>2, <2>3, <3>1, <3>2, <3>3 DEF StartLocked
    <3>8. RunningServesAdvertisedPort'
      BY <1>2, <2>3, <3>1, <3>2, <3>3 DEF StartLocked
    <3>9. ServingCanBeStopped'
      BY <1>2, <2>3, <3>1, <3>2, <3>3 DEF StartLocked
    <3>10. NoListenerLeaked'
      BY <1>2, <2>3, <3>1, <3>2, <3>3 DEF StartLocked
    <3>11. PoolLoopStoppable'
      BY <1>2, <2>3, <3>1, <3>2, <3>3 DEF StartLocked
    <3> QED BY <3>4, <3>5, <3>6, <3>7, <3>8, <3>9, <3>10, <3>11 DEF LifecycleInv
  <2> QED BY <2>1, <2>2, <2>3
<1>3. CASE Listen
  BY <1>3 DEF Listen
<1>4. CASE ListenFailed
  <2>1. poolRunning' = FALSE /\ chanClosed' = chanClosed \cup {stopChan} /\ stopChan \in Srv
    BY <1>4 DEF ListenFailed, PoolSignal
  <2>2. UNCHANGED <<mu, srv, net, listenPort, socks, stopChan, loop, waitsOn, proc>>
    BY <1>4 DEF ListenFailed, PoolSignal
  <2>3. TypeOK'
    BY <1>4, <2>1, <2>2 DEF ListenFailed
  <2>4. MutexInv'
    BY <1>4, <2>1, <2>2 DEF ListenFailed
  <2>5. StartInv'
    BY <1>4, <2>1, <2>2 DEF ListenFailed
  <2>6. PoolInv'
    BY <1>4, <2>1, <2>2 DEF ListenFailed
  <2>7. RunningServesAdvertisedPort'
    BY <1>4, <2>1, <2>2 DEF ListenFailed
  <2>8. ServingCanBeStopped'
    BY <1>4, <2>1, <2>2 DEF ListenFailed
  <2>9. NoListenerLeaked'
    BY <1>4, <2>1, <2>2 DEF ListenFailed
  <2>10. PoolLoopStoppable'
    BY <1>4, <2>1, <2>2 DEF ListenFailed
  <2> QED BY <2>3, <2>4, <2>5, <2>6, <2>7, <2>8, <2>9, <2>10 DEF LifecycleInv
<1>5. CASE StartFailed
  BY <1>5 DEF StartFailed, PoolDrained
<1>6. CASE Publish
  <2>1. /\ server' = nsrv /\ running' = TRUE /\ serve' = [serve EXCEPT ![nsrv] = "spawned"]
        /\ nsrv \in Srv
    BY <1>6 DEF Publish
  <2>2. UNCHANGED <<mu, nsrv, srvClosed, net, listenPort, socks, pool, proc>> /\ mu = "free"
    BY <1>6 DEF Publish
  <2>3. Goto("op", "publish", "socks")
    BY <1>6 DEF Publish
  <2>4. TypeOK'
    BY <2>1, <2>2, <2>3
  <2>5. MutexInv'
    BY <2>1, <2>2, <2>3
  <2>6. StartInv'
    BY <2>1, <2>2, <2>3
  <2>7. PoolInv'
    BY <2>1, <2>2, <2>3
  <2>8. RunningServesAdvertisedPort'
    BY <2>1, <2>2, <2>3
  <2>9. ServingCanBeStopped'
    BY <2>1, <2>2, <2>3
  <2>10. NoListenerLeaked'
    BY <2>1, <2>2, <2>3
  <2>11. PoolLoopStoppable'
    BY <2>1, <2>2, <2>3
  <2> QED BY <2>4, <2>5, <2>6, <2>7, <2>8, <2>9, <2>10, <2>11 DEF LifecycleInv
<1>7. CASE StartSocks5
  BY <1>7 DEF StartSocks5
<1>8. CASE ListenSeen
  BY <1>8 DEF ListenSeen
<1>9. CASE ListenNotSeen
  BY <1>9 DEF ListenNotSeen
<1>10. ASSUME NEW a \in Actor, StopLocked(a) PROVE LifecycleInv'
  <2>1. CASE ~running
    <3>1. Goto(a, "stop", AfterStop(a)) /\ UNCHANGED <<mu, srv, net, listenPort, socks, pool, proc>>
      BY <1>10, <2>1 DEF StopLocked
    <3>2. TypeOK'
      BY <2>1, <3>1 DEF AfterStop
    <3>3. MutexInv'
      BY <2>1, <3>1 DEF AfterStop
    <3>4. StartInv'
      BY <2>1, <3>1 DEF AfterStop
    <3>5. PoolInv'
      BY <2>1, <3>1 DEF AfterStop
    <3>6. RunningServesAdvertisedPort'
      BY <2>1, <3>1 DEF AfterStop
    <3>7. ServingCanBeStopped'
      BY <2>1, <3>1 DEF AfterStop
    <3>8. NoListenerLeaked'
      BY <2>1, <3>1 DEF AfterStop
    <3>9. PoolLoopStoppable'
      BY <2>1, <3>1 DEF AfterStop
    <3> QED BY <3>2, <3>3, <3>4, <3>5, <3>6, <3>7, <3>8, <3>9 DEF LifecycleInv
  <2>2. CASE running
    <3>1. poolRunning' = FALSE /\ chanClosed' = chanClosed \cup {stopChan} /\ stopChan \in Srv
      BY <1>10, <2>2 DEF StopLocked, PoolSignal
    <3>2. UNCHANGED <<server, nsrv, srvClosed, net, serve, listenPort, socks, stopChan, loop, waitsOn, proc>>
      BY <1>10, <2>2 DEF StopLocked, PoolSignal
    <3>3. Goto(a, "stop", "stopwait") /\ mu = "free" /\ mu' = a /\ running' = FALSE
      BY <1>10, <2>2 DEF StopLocked
    <3>4. pc["op"] \notin {"listen", "unpool", "unpoolwait", "publish"}
      BY <2>2
    <3>5. TypeOK'
      BY <2>2, <3>1, <3>2, <3>3, <3>4
    <3>6. MutexInv'
      BY <2>2, <3>1, <3>2, <3>3, <3>4
    <3>7. StartInv'
      BY <2>2, <3>1, <3>2, <3>3, <3>4
    <3>8. PoolInv'
      BY <2>2, <3>1, <3>2, <3>3, <3>4
    <3>9. RunningServesAdvertisedPort'
      BY <2>2, <3>1, <3>2, <3>3, <3>4
    <3>10. ServingCanBeStopped'
      BY <2>2, <3>1, <3>2, <3>3, <3>4
    <3>11. NoListenerLeaked'
      BY <2>2, <3>1, <3>2, <3>3, <3>4
    <3>12. PoolLoopStoppable'
      BY <2>2, <3>1, <3>2, <3>3, <3>4
    <3> QED BY <3>5, <3>6, <3>7, <3>8, <3>9, <3>10, <3>11, <3>12 DEF LifecycleInv
  <2> QED BY <2>1, <2>2
<1>11. ASSUME NEW a \in Actor, StopClose(a) PROVE LifecycleInv'
  <2>1. TypeOK'
    BY <1>11 DEF StopClose, CloseServer, PoolDrained, AfterStop
  <2>2. MutexInv'
    BY <1>11 DEF StopClose, CloseServer, PoolDrained, AfterStop
  <2>3. StartInv'
    BY <1>11 DEF StopClose, CloseServer, PoolDrained, AfterStop
  <2>4. PoolInv'
    BY <1>11 DEF StopClose, CloseServer, PoolDrained, AfterStop
  <2>5. RunningServesAdvertisedPort'
    BY <1>11 DEF StopClose, CloseServer, PoolDrained, AfterStop
  <2>6. ServingCanBeStopped'
    BY <1>11 DEF StopClose, CloseServer, PoolDrained, AfterStop
  <2>7. NoListenerLeaked'
    BY <1>11 DEF StopClose, CloseServer, PoolDrained, AfterStop
  <2>8. PoolLoopStoppable'
    BY <1>11 DEF StopClose, CloseServer, PoolDrained, AfterStop
  <2> QED BY <2>1, <2>2, <2>3, <2>4, <2>5, <2>6, <2>7, <2>8 DEF LifecycleInv
<1>12. ASSUME NEW s \in Srv, ServeBegin(s) PROVE LifecycleInv'
  <2>0. /\ serve[s] = "spawned" /\ proc # "exited"
        /\ UNCHANGED <<pc, mu, running, server, nsrv, srvClosed, tunnels, holder, listenPort, socks, pool, proc>>
    BY <1>12 DEF ServeBegin, Registers
  <2>1. CASE s \notin srvClosed
    <3>1. serve' = [serve EXCEPT ![s] = "serving"] /\ UNCHANGED ln
      BY <1>12, <2>1 DEF ServeBegin, Registers
    <3>2. TypeOK'
      BY <2>0, <2>1, <3>1
    <3>3. MutexInv'
      BY <2>0, <2>1, <3>1
    <3>4. StartInv'
      BY <2>0, <2>1, <3>1
    <3>5. PoolInv'
      BY <2>0, <2>1, <3>1
    <3>6. RunningServesAdvertisedPort'
      BY <2>0, <2>1, <3>1
    <3>7. ServingCanBeStopped'
      BY <2>0, <2>1, <3>1
    <3>8. NoListenerLeaked'
      BY <2>0, <2>1, <3>1
    <3>9. PoolLoopStoppable'
      BY <2>0, <2>1, <3>1
    <3> QED BY <3>2, <3>3, <3>4, <3>5, <3>6, <3>7, <3>8, <3>9 DEF LifecycleInv
  <2>2. CASE s \in srvClosed
    <3>1. Returns(s)
      BY <1>12, <2>2 DEF ServeBegin, Registers
    <3>2. TypeOK'
      BY <2>0, <2>2, <3>1 DEF Returns
    <3>3. MutexInv'
      BY <2>0, <2>2, <3>1 DEF Returns
    <3>4. StartInv'
      BY <2>0, <2>2, <3>1 DEF Returns
    <3>5. PoolInv'
      BY <2>0, <2>2, <3>1 DEF Returns
    <3>6. RunningServesAdvertisedPort'
      BY <2>0, <2>2, <3>1 DEF Returns
    <3>7. ServingCanBeStopped'
      BY <2>0, <2>2, <3>1 DEF Returns
    <3>8. NoListenerLeaked'
      BY <2>0, <2>2, <3>1 DEF Returns
    <3>9. PoolLoopStoppable'
      BY <2>0, <2>2, <3>1 DEF Returns
    <3> QED BY <3>2, <3>3, <3>4, <3>5, <3>6, <3>7, <3>8, <3>9 DEF LifecycleInv
  <2> QED BY <2>1, <2>2
<1>13. ASSUME NEW s \in Srv, ServeReturns(s) \/ ServeError(s) PROVE LifecycleInv'
  <2>1. serve[s] = "serving" /\ Returns(s) /\ proc # "exited"
    BY <1>13 DEF ServeReturns, ServeError
  <2>2. UNCHANGED <<pc, mu, running, server, nsrv, srvClosed, tunnels, holder, listenPort, socks, pool, proc>>
    BY <1>13 DEF ServeReturns, ServeError
  <2>3. TypeOK'
    BY <2>1, <2>2 DEF Returns
  <2>4. MutexInv'
    BY <2>1, <2>2 DEF Returns
  <2>5. StartInv'
    BY <2>1, <2>2 DEF Returns
  <2>6. PoolInv'
    BY <2>1, <2>2 DEF Returns
  <2>7. RunningServesAdvertisedPort'
    BY <2>1, <2>2 DEF Returns
  <2>8. ServingCanBeStopped'
    BY <2>1, <2>2 DEF Returns
  <2>9. NoListenerLeaked'
    BY <2>1, <2>2 DEF Returns
  <2>10. PoolLoopStoppable'
    BY <2>1, <2>2 DEF Returns
  <2> QED BY <2>3, <2>4, <2>5, <2>6, <2>7, <2>8, <2>9, <2>10 DEF LifecycleInv
<1>14. ASSUME NEW s \in Srv, ServeCleanup(s) PROVE LifecycleInv'
  <2>1. TypeOK'
    BY <1>14 DEF ServeCleanup, Cleanup
  <2>2. MutexInv'
    BY <1>14 DEF ServeCleanup, Cleanup
  <2>3. StartInv'
    BY <1>14 DEF ServeCleanup, Cleanup
  <2>4. PoolInv'
    BY <1>14 DEF ServeCleanup, Cleanup
  <2>5. RunningServesAdvertisedPort'
    BY <1>14 DEF ServeCleanup, Cleanup
  <2>6. ServingCanBeStopped'
    BY <1>14 DEF ServeCleanup, Cleanup
  <2>7. NoListenerLeaked'
    BY <1>14 DEF ServeCleanup, Cleanup
  <2>8. PoolLoopStoppable'
    BY <1>14 DEF ServeCleanup, Cleanup
  <2> QED BY <2>1, <2>2, <2>3, <2>4, <2>5, <2>6, <2>7, <2>8 DEF LifecycleInv
<1>15. ASSUME NEW g \in Srv, LoopRead(g) PROVE LifecycleInv'
  BY <1>15 DEF LoopRead
<1>16. ASSUME NEW g \in Srv, LoopExit(g) PROVE LifecycleInv'
  BY <1>16 DEF LoopExit
<1>17. CASE BeginStart
  BY <1>17 DEF BeginStart
<1>18. CASE BeginStop
  BY <1>18 DEF BeginStop
<1>19. CASE Shutdown
  BY <1>19 DEF Shutdown
<1>20. CASE Exit
  BY <1>20 DEF Exit
<1>21. ASSUME UNCHANGED <<pc, mu, srv, ln, listenPort, pool>>,
       (proc' = proc) \/ (proc' # "exited" /\ proc # "exited"),
       tunnels' \subseteq Port, holder' \in [Port -> {"none", "foreign", "sibling", "dying"}],
       socks5Enabled' \in BOOLEAN, socks5Ln' \in BOOLEAN, proc' \in {"up", "signalled", "exited"}
      PROVE LifecycleInv'
  BY <1>21
<1>22. CASE UNCHANGED vars
  BY <1>21, <1>22 DEF vars
<1>23. CASE OpStep \/ ShutdownStep
  BY <1>1, <1>2, <1>3, <1>4, <1>5, <1>6, <1>7, <1>8, <1>9, <1>10, <1>11, <1>23
     DEF OpStep, ShutdownStep
<1>24. ASSUME NEW s \in Srv, ServeStep(s) \/ LoopStep(s) PROVE LifecycleInv'
  BY <1>12, <1>13, <1>14, <1>15, <1>16, <1>24 DEF ServeStep, LoopStep
<1>25. CASE Environment
  <2>1. ASSUME NEW s \in Srv, TunnelOpens(s) PROVE LifecycleInv'
    <3>1. UNCHANGED <<pc, mu, srv, ln, holder, listenPort, socks, pool, proc>>
      BY <2>1 DEF TunnelOpens
    <3>2. ln[s] \in Port
      BY ONLY <2>1, LifecycleInv DEF TunnelOpens, LifecycleInv, TypeOK
    <3>3. tunnels' \subseteq Port
      BY ONLY <2>1, <3>2, LifecycleInv DEF TunnelOpens, LifecycleInv, TypeOK
    <3> QED BY <1>21, <3>1, <3>3
  <2>2. ASSUME NEW p \in Port, TunnelCloses(p) PROVE LifecycleInv'
    BY <1>21, <2>2 DEF TunnelCloses
  <2>3. ASSUME NEW p \in Port, OtherExits(p) PROVE LifecycleInv'
    BY <1>21, <2>3 DEF OtherExits
  <2>4. ASSUME NEW p \in Port, NEW o \in {"foreign", "sibling"}, OtherBinds(p, o) PROVE LifecycleInv'
    BY <1>21, <2>4 DEF OtherBinds
  <2>5. CASE SetSocks5Enabled
    BY <1>21, <2>5 DEF SetSocks5Enabled
  <2>6. CASE Signal
    BY <1>21, <2>6 DEF Signal
  <2> QED BY ONLY <1>13, <1>17, <1>18, <1>19, <1>20, <1>25, <2>1, <2>2, <2>3, <2>4, <2>5, <2>6
          DEF Environment
<1> QED BY <1>22, <1>23, <1>24, <1>25 DEF Next

LEMMA LifecycleInvariant == Spec => []LifecycleInv
<1>1. Init => LifecycleInv
  <2> SUFFICES ASSUME Init PROVE LifecycleInv
    OBVIOUS
  <2> USE LifecycleConstants DEF Init, Port, Srv, Actor
  <2>1. TypeOK
    BY DEF TypeOK
  <2>2. MutexInv /\ StartInv /\ PoolInv
    BY DEF MutexInv, StartInv, PoolInv
  <2>3. RunningServesAdvertisedPort /\ ServingCanBeStopped /\ NoListenerLeaked /\ PoolLoopStoppable
    BY DEF RunningServesAdvertisedPort, ServingCanBeStopped, NoListenerLeaked, PoolLoopStoppable
  <2> QED BY <2>1, <2>2, <2>3 DEF LifecycleInv
<1> QED BY <1>1, LifecycleStep, PTL DEF Spec

\* Every variable keeps its type, however Start, Stop, Serve and the pool
\* interleave: no restart runs out of servers, channels or ports.
THEOREM TypeCorrect == Spec => []TypeOK
<1>1. LifecycleInv => TypeOK
  BY DEF LifecycleInv
<1> QED BY <1>1, LifecycleInvariant, PTL

\* While the server says it is running, its listener holds the advertised port,
\* for any number of ports and restarts.
THEOREM AdvertisedPortIsServed == Spec => []RunningServesAdvertisedPort
<1>1. LifecycleInv => RunningServesAdvertisedPort
  BY DEF LifecycleInv
<1> QED BY <1>1, LifecycleInvariant, PTL

\* A server that accepts connections can be stopped: a late goroutine of a
\* predecessor never clears its flag.
THEOREM ServingServerCanBeStopped == Spec => []ServingCanBeStopped
<1>1. LifecycleInv => ServingCanBeStopped
  BY DEF LifecycleInv
<1> QED BY <1>1, LifecycleInvariant, PTL

\* No path through Start, Stop and Serve leaks a listener.
THEOREM ListenersAccountedFor == Spec => []NoListenerLeaked
<1>1. LifecycleInv => NoListenerLeaked
  BY DEF LifecycleInv
<1> QED BY <1>1, LifecycleInvariant, PTL

\* The health loop never waits on a channel that no Stop will close.
THEOREM PoolLoopAlwaysStoppable == Spec => []PoolLoopStoppable
<1>1. LifecycleInv => PoolLoopStoppable
  BY DEF LifecycleInv
<1> QED BY <1>1, LifecycleInvariant, PTL
==============================================================================
