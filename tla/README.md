# SniShaper-Linux in TLA+

SniShaper-Linux is a local HTTP and SOCKS5 proxy that decides per host how a
connection leaves the machine: tunnelled as it is, with a fragmented
ClientHello, through a TLS interception with another SNI or with ECH, over
QUIC, or through a relay server. Its TLS is a fork of utls in `utls/`, which
imitates the handshakes of browsers. This directory models the concurrent core of
both in TLA+, checks the models with TLC on small instances, and proves their
safety properties with TLAPS for every value of the constants.

Paths below are relative to `src/`. Line numbers of every definition are in
`PROJECT.json` ("map").

## 1. Inventory

| Part | Source | State it keeps | Operations | Modelled in |
|---|---|---|---|---|
| Cloudflare IP pool | `proxy/cf_pool.go` | statistics per IP, the served list, running checks | `UpdateIPs`, `GetTopIPs`, `ReportFailure`, `ReportSuccess`, `RemoveInvalidIPs`, full and incremental checks | `CFPool` |
| Proxy server lifecycle, port manager | `core_runtime.go`, `proxy/proxy.go`, `proxy/port_manager_linux.go` | current `http.Server`, listeners, SOCKS5 listener, pool loop, advertised port | `startProxy`, `stopProxy`, `shutdown`, `Start`, `Stop`, `EnsurePortAvailable` | `ProxyLifecycle` |
| Configuration store | `proxy/proxy.go`, `proxy/config.go`, `web.go` | settings and rules in memory, `rm.mu`, two JSON files | setters, rule operations, import, `SaveConfig`, `LoadConfig`, `matchRule` | `ConfigStore` |
| TUN mode | `external_mihomo.go`, `core_runtime.go`, `cli.go` | mihomo process, pid file, log buffer, `tunStarting` | start, stop, status of the daemon and of commands | `MihomoTUN` |
| Connect path | `proxy/proxy.go`, `proxy/socks5.go`, `proxy/tls_fragment.go` | the connections of a handler, the ECH profile | `handleConnect`, `handleSocks5Connect`, `dialUpstream`, `establishUpstreamConn`, `handleMITM`, `handleServerMITM`, `handleQUICMITM`, `handleTLSFragment`, tunnels | `ConnectPath` |
| DoH resolver | `proxy/doh.go` | none of its own; reads DNS nodes, writes ECH profiles | lookups with failover and ECH refresh | outcomes only (`ConnectPath`, `ConfigStore`) |
| Auto-routing, GFW list | `proxy/auto_routing.go`, `proxy/gfwlist.go` | list of domains, cache of Cloudflare verdicts | `Decide`, `IsCloudflare`, refresh | its locks (`ConfigStore`), its rules (`ConnectPath`) |
| Rule table | `proxy/proxy.go`, `proxy/config.go` | compiled rules | `buildRules`, matching, import merge | planned |
| CA store, leaf cache | `cert/cert.go`, `proxy/proxy.go` | `ca.crt`, `ca.key`, cache of leaves | load, generate, regenerate, `generateCert` | planned |
| uTLS: fingerprints and ClientHello | `utls/u_parrots.go`, `utls/u_tls_extensions.go`, `utls/u_common.go`, `utls/u_fingerprinter.go`, `utls/u_conn.go` | a spec, its extensions, the bytes of a hello | `utlsIdToSpec`, `generateRandomizedSpec`, `ShuffleChromeTLSExtensions`, `ApplyPreset`, `MarshalClientHelloNoECH`, `FromRaw` | `TLSExtensions`, `Parrots`, `HelloSpec` |
| uTLS: client connection and session controller | `utls/u_conn.go`, `utls/u_session_controller.go`, `utls/u_pre_shared_key.go`, `utls/u_session_ticket.go` | build status, extension objects, session state, private keys | `BuildHandshakeState`, `Set...Extension`, `SetSessionCache`, `Handshake`, renegotiation | `UConn` |
| uTLS: connection | `utls/conn.go`, `utls/u_conn.go` | three mutexes, record keys and sequence numbers, buffers, errors | `Read`, `Write`, `Close`, `CloseWrite`, `HandshakeContext` | `TLSConn` |
| uTLS: handshake | `utls/handshake_*.go`, `utls/u_handshake_client.go`, `utls/ticket.go`, `utls/ech.go` | transcripts, secrets, session cache, ticket keys | both ends of TLS 1.2 and 1.3 | `TLSHandshake`, `Agreement` |
| Certificate policy, HTTP forwarding, uTLS configuration, dashboard, command line, logs, error pages, TUN flow planning, web UI | see `PROJECT.json` | little or none | | see section 8 |

**How the parts interact.** The dashboard and the command line call the runtime
(`proxyOpMu` serialises starts and stops), which calls `ProxyServer`
(`ProxyServer.mu`) and the TUN manager (`m.mu`). Every proxied connection runs in
a goroutine of its own: it asks the rule manager for a rule (`rm.mu`, read
lock), the pool for addresses (`p.mu`), the resolver for addresses and ECH
configurations, and reports back to the pool; a rejected ECH handshake writes a
new configuration into the rule manager, which saves it to disk. The health
loop of the pool is started and stopped with the server. mihomo is a process
of its own, known by its output and by a pid file that other SniShaper
processes use as well.

A MITM handler builds a `UConn` with a custom hello, performs its handshake and
then reads and writes it from two goroutines. The hello comes from a spec, which
`UConn` applies and marshals; the session controller decides which session the
hello offers; the handshake reads and writes records through the connection, and
leaves a session in a cache for the next one. The proxy itself sets no session
cache; sessions matter to users of the library only.

**What is hard.** Steps after an unlock (the pool rebuilds its list and the
settings are saved outside the section that changed them); a goroutine of an old
server that ends after the next start; a stop that waits with a mutex held; read
locks taken twice; overlapping writes and crashes of two files; a pid file
shared by processes; late output of a killed mihomo; nested retries over
candidates, attempts and a refresh whose result travels through shared state;
error paths that must close what was opened; extension objects shared between
a spec, a controller and a user; hellos rebuilt after a failure, a retry or a
renegotiation; sessions that outlive the configuration they were made under; keys
changed by readers under concurrent writers. `PROJECT.json` ("hazards") lists
these at their lines, with the properties that would catch them.

**What makes each part correct.**

* Pool: dialers are served fast, eligible addresses; a failing address is
  probed; nothing stale stays.
* Lifecycle: a running server serves the advertised port and can be stopped;
  nothing leaks; every start and stop ends.
* Configuration: what was answered as saved is in a readable file; files are
  never a mixture; requests and connections do not wait for ever.
* TUN: at most one mihomo, always reachable through the pid file; success
  means that this mihomo came up; requests are answered.
* Connect path: no connection is left open; an ECH retry uses what the refresh
  brought and never goes out in the clear; the pool learns of failures; every
  handler comes to rest.
* Hellos: well formed, padded past the lengths that buggy servers refuse, and
  reproduced by parsing and applying them again.
* Client connection: what is sent and what the handshake computes with belong to
  one session, and no rebuild changes the session that was locked.
* Connection: the peer can read what is sent; a completed handshake is not an
  interrupted one; Close releases everybody.
* Handshake: both ends agree, on what the configuration in use demands, and end.

## 2. Plan

Done, in this order:

1. `CFPool`: the addresses every connection depends on.
2. `ProxyLifecycle`: composes the HTTP server, its Serve goroutines, the port
   manager, the SOCKS5 listener and the start and stop of the pool's loop.
3. `ConfigStore`: locking and durability of the configuration.
4. `MihomoTUN`: several SniShaper processes and mihomo.
5. `ConnectPath`: both entries, all modes, the shared ECH profile.
6. `TLSExtensions`, `Parrots`, `HelloSpec`: fingerprints and hellos.
7. `UConn`: repeated builds of a hello and the session it offers.
8. `TLSConn`: concurrent use of a connection.
9. `Agreement` and `TLSHandshake`, which implements it.

Next:

10. `DoHResolver`: primary node, race of the others, system DNS, one refresh per
    node, nested lookups and the unlocked append of A and AAAA answers. Bounds:
    two or three nodes, nesting depth three. Questions: does a lookup end, is an
    address lost, is the depth of nesting bounded.
11. `CertStore`: several CertManagers on `ca.crt` and `ca.key`, crashes between
    the writes, regeneration under a running proxy, the leaf cache. Questions: do
    the files match, is a served leaf signed by the CA that is installed.
12. `RuleTable`: domain matching, choice of the best rule, compilation and the
    import merge, checked against reference definitions over small sets of
    domains; compiled rules related to upstreams and profiles.
13. Proofs: the files of `CertStore`.

## 3. The modules and the code

Conventions: one step is one critical section, or the code between two points
where another goroutine or process can be noticed. A definition keeps the name
of its function. Definitions marked "Variant" are plausible bugs; nothing uses
them in the specifications, they show that the properties can fail.

### CFPool

Its specification is `PoolSpec` (`PoolInit`, `PoolNext`), so that one module can
extend it together with `ProxyLifecycle`.

`failures`, `latency`, `checked` are the fields of `IPStats`; `activeIPs` is the
served list; `phase`, `queue`, `testing` are the check goroutines, their
remaining IPs and the probes that hold a slot of their semaphore; `rebuilds`
counts goroutines between the unlock in `ReportFailure` or `RemoveInvalidIPs`
and their `rebuildActiveIPs`. `ReportFailure` adds the penalty to whatever the
latency is; sorting leaves ties in any order (`Orders`). Measuring is a choice
from `Measured` or a failure.

### ProxyLifecycle

`op` is the holder of `proxyOpMu`; `shutdown` runs on a signal and does not take
it. `server`, `running`, `ln`, `serve`, `srvClosed` are the servers Start
creates; `Stop` keeps `ProxyServer.mu` (`mu`) while it waits for the health loop.
`loop`, `waitsOn`, `stopChan`, `chanClosed` are the pool's goroutines and
channels: a loop reads `p.stopChan` once, late and without the lock. Ports have
owners: this process (listener or live tunnel), a sibling named "snishaper", a
foreign process; `EnsurePortAvailable` passes over foreign owners and signals
those with a name of its own.

### ConfigStore

`wlock` and `readers` are `rm.mu` with Go's rule that an announced writer stops
new readers. A request changes one field of its own; `mem`, `snap`, `content`
hold, per field, "old", "new" or "torn" (read during its assignment). Kinds of
requests differ in how they lock: settings unlock and then save, rule operations
save with the mutex held, `handleConfig` saves both files under the read lock,
an import unlocks and then saves. `os.WriteFile` is a truncation and a write;
two overlapping writes may leave the tail of the longer text ("corrupt").
`LoadConfig` creates defaults, migrates, or refuses an unreadable file. A
connection in `matchRule` holds the read lock, resolves the host for
auto-routing (`Decide`, with further read locks and, if a DNS node's ECH
configuration is refreshed, a write lock: `RefreshNodeECH`), and takes the read
lock again in `emitRouteEvent`. A rule operation that finds nothing to change
(`SetDNSNodePriority`, `UpdateECHProfileConfig`) returns nil without a save and is
answered like one that saved (`NoChange`, answer "same"); one that finds nothing to
act on is an error (`NotFound`).

### MihomoTUN

`Mgr` are SniShaper processes (the daemon and commands), each with its own `m.mu`
and log buffer; `pidfile` is shared. A mihomo prints lines that are ready, fatal
or other; drains of a killed one go on. `astray` remembers that two processes
worked on the pid file at once or that it could not be written: nothing in the
code protects against that, and the two properties about the file are stated
for the other executions.

`Root` are the processes that run as root. Signals of the others to root's mihomo
fail: `Kill` then kills nobody, and `ProcessRunning` reads the error of signal 0 as
"not running"; both remove the pid file all the same (`external_mihomo.go:165-167`,
`254`, `297-299`), and a removal may fail. `barred` remembers the mihomos that were
met this way. The two properties about the file are about the others.

### ConnectPath

A handler is a record: where it is (`pc`), its request, the candidates it has not
tried, the state of the connections it opened (`raw` is `cr.conn`, `up` the one
of `establishUpstreamConn` or of the TLS-RF fallback), the client's connection,
the ECH configuration of the handshake, and what the pool last heard of each
candidate. `fresh` and `disturbed` record what a refresh brought and whether
somebody else stored a configuration since: another handler, or
`ExchangeNodeWithRetry`, which stands for a DoH node that refreshes the same profile
(`proxy/doh.go:164`) and for a user who saves it with another configuration. A user
who empties or deletes the profile (`UpsertECHProfile`, `DeleteECHProfile`) is left
out: the retry then goes out without ECH, as the user asked. `Traffic` says which requests
arrive. Candidate lists are any non-empty prefix of the addresses: where they
come from (upstream list, pool, DNS) makes no difference to the handler. The
fallback of `establishUpstreamConn` to "tls-rf" or "quic" is left out because
`FallbackMode` is only ever set to "server" (`proxy/auto_routing.go:159`).
Requests inside a served (QUIC, server mode) connection are one wait.

### TLSExtensions, Parrots, HelloSpec

An extension is its kind and the size of its list; `TLSExtensions` says for every
type what `Len` computes, what `Read` writes, and what `Write` makes of those
bytes when they are parsed. `Parrots` holds the specs of `utlsIdToSpec`.
`HelloSpec` follows one hello: chosen (a preset, a randomized spec from the
outcomes of its coins, or one of an application), shuffled, applied, marshalled
with its padding, parsed by `FromRaw`, possibly given padding by the
fingerprinter, applied and marshalled again. The tables of lengths and presets keep
every entry of the source although most presets take the same paths: a preset
whose extensions add up to another length is another case for `PaddedLength`.

### UConn

`ticketExt` and `pskExt` are the extension objects by owner (the spec or the
user); `ctl` says which of them the session controller refers to, `list` which of
them are in `uconn.Extensions`. `state`, `locked` and `tracker` are the
controller's; `hs` is what the handshake computes with, `raw` what the bytes
carry. A build is a sequence of steps, one per function, and each may fail or
panic; then the application may go on with any call. A session stands for all
that is derived from it. A PSK object is a `UtlsPreSharedKeyExtension` or a
`FakePreSharedKeyExtension`, whose identities and binders the user gives and which
has no session. A handshake over TLS 1.2, or one that fails, replaces the whole
`HandshakeState` (`toPublic12`, `Without13`): early secret, binder key and private
keys of the shares are gone, while the objects and the bytes stay.

### TLSConn

Goroutines (`Procs`) with a program counter each; `handshakeMutex`, `inMutex`,
`outMutex` are the mutexes, `closing` and `writing` the two parts of
`activeCall`. `out` is the key in use and its next sequence number, `wire` all
records that were handed to the network, `ok` if it took them. A call of
the network may also last for ever (section 5). `Answer` is what a
handshake waits for; the peer sends any record at any time, may be silent, and
the network may fail at every call. `ctx` and `interrupter` are the context of a
`HandshakeContext` and the goroutine that watches it. A step takes a mutex and
does what follows up to the next wait: what happens in between cannot be seen
from outside the section.

### TLSHandshake, Agreement

`c` and `s` are the two ends; a step reads one message and writes all that the
code writes before it reads again. Hashes are the sequences written to them,
secrets the records of what they are derived from, and a record carries the key
it is sealed with. `Reconnect` begins the next attempt after one of the
configurations, the ticket key or the time has changed; `cache` and the tickets
in it stay. `Agreement` is the abstract specification: an end completes only with
the view the other one completed with, and resumes only a secret with which the
client completed an earlier attempt. The view of an end is the set of the one
view it completed with, empty before. `Refines` (`A!Spec` under the mapping of
`is` and `view`) says that `TLSHandshake` implements it. `NoneAssumption` keeps
the absent ticket apart from the two alerts that a client's certificate can
cause. `Compatible` is what a full handshake needs of the two configurations, one
conjunct per way in which it can fail: a common version, suite, group and
protocol, acceptable certificates, a share whose private key the client has kept,
and, at TLS 1.2, no canary in the server's random that a client which also
offers 1.3 takes for a downgrade. Of certificates only "trusted" and "good" are
modelled: expiry and names, which `loadSession` checks again for a cached session,
are left out. An expired session is dropped from the cache even where the code
returns before it looks at the time, and a HelloRetryRequest is checked against
the groups of the outer hello, which are those of the inner one. `EchScope` keeps
clients with ECH and a session cache out of the instances: the inner hello of
`HelloGolang` may then carry a PSK, which `InnerHello` drops. The proxy sets no
cache, and no proof uses the assumption.

## 4. Runs

| Run | Instance | Shows |
|---|---|---|
| `pool` | 2 IPs, 2 checks at once, one pending rebuild | list filtered and sorted outside the rebuild gap, suspects always under check and finally resolved, stale entries leave |
| `lifecycle` | 2 ports, 2 starts | advertised port, stoppable server, no leaked listener, stoppable loop, every operation ends |
| `config` | 2 requests of any kind, 1 connection, 1 crash, failing saves | until somebody imports, the rules file keeps answered changes (those answered without a save too, if no save of the same change failed) and is never a mixture; requests end |
| `config_match_deadlock` | 2 requests, 2 connections | *violated*: `matchRule` waits for ever |
| `tun` | unprivileged daemon and root's command, 2 requests, 2 mihomos | no mihomo lost or doubled but those of root's that the daemon could not signal, success means ready, requests answered |
| `connect` | 1 connection of every kind beside 1 refreshing MITM connection, 2 candidates, 2 keys, other writers of the profile | no leak, retries use the refreshed configuration and ECH, failures reported, handlers settle |
| `hello` | every preset, randomized specs with at most one coin different, custom specs of all lengths around the padding limits | well-formed hellos, padding past the limits, the round trip through the bytes |
| `uconn` | 3 IDs, 5 calls, all specs and caches | one session in bytes and state, locked sessions stay, only a TLS 1.2 or failed handshake makes the assertion on the PSK fail |
| `uconn_renegotiation` | `HelloGolang`, 2 calls | *violated*: a renegotiation loads the session twice and panics |
| `tlsconn` | reader, writer, closer, 3 calls, 2 records of the peer | readable records, nil means usable, complete means no error, Close releases all unless it hangs itself |
| `handshake` | 6 client and 5 server configurations, 3 attempts, 1 break | agreement, authentication, recovery after a failed resumption, every handshake ends |
| `handshake_ech_retry` | the same, 1 attempt | *violated*: a preset with accepted ECH does not survive a HelloRetryRequest |

A violated run states what a comment, a message or a document of the repository
says; "findings" quotes it and describes what the code does.

**Bounds.** `MaxFailures`, `MaxLatency` (no further report beyond it),
`MaxRebuilds`, `MaxStarts`, `MaxPort`, `MaxCrashes`, `MaxCandidates`, `MaxKey`,
`LogMax`, `MaxSwaps`, `MaxCalls`, `MaxRecords`, `MaxUselessRecords`,
`MaxAttempts`, `MaxBreaks` and the sets of IPs, checks, requests, connections,
processes and configurations. Two
of each kind are enough for one actor to act between any two steps of another,
for an old and a new server, mihomo or snapshot, and for a candidate to be tried
after one that failed. `MaxFailures = 3` crosses both thresholds of the pool (2
and 3); `LogMax = 1` makes every line push out the one before it; two keys make
a stored configuration outdated once, and each handler can be rejected, refresh
and be rejected again. Five calls of a client connection are a set session, an
inspection, a build, a handshake and a renegotiation; three calls on a connection are one of each goroutine; two records
of the peer are one more than `MaxUselessRecords`, or a renegotiation and a
record after it; three attempts issue a ticket, use it, and come back after the
session was thrown away. In `lifecycle` the process has another name than
"snishaper" (`SelfNamed`). The proofs below remove the bounds for the safety
properties: the constants are arbitrary there.

**Deadlock** is checked in `pool`, `lifecycle`, `hello`, `uconn` and `tlsconn`,
where a finished behaviour is a step of its own. The other systems may stop:
every request has been made, or every connection has ended.

## 5. Fairness

* `CFPool`: weak fairness of every check goroutine and of pending rebuilds. A
  probe has a timeout, and nothing else in a check waits for the outside.
* `ProxyLifecycle`: weak fairness of a start or stop that is under way, of the
  shutdown, of Serve goroutines and of health loops. None of signals, users,
  other processes or errors.
* `ConfigStore`: weak fairness of requests and of `emitRouteEvent`; none of
  crashes, new requests and new connections.
* `MihomoTUN`: weak fairness of a request's steps (a start has its timeout) and
  strong fairness of taking `m.mu`, which Go's mutex gives: after a millisecond
  of waiting it hands the lock over in order.
* `ConnectPath`: weak fairness of the steps with a timeout (dials 10 s, ECH
  lookups 5 s, ClientHello 10 s, probe 5 s) or without any waiting, and of a read
  from a connection that this process has closed. None of TLS handshakes, of
  served connections and of peers: the code sets no deadline there, and
  `EveryHandlerSettles` counts such a wait as rest.
* `TLSConn`: weak fairness of each goroutine's own steps and of the calls of the
  network that must return: on a connection this process has closed, after an
  error or a deadline, into the buffer, and the `close_notify`, which has a
  deadline (`utls/conn.go:1482`). None of the peer and none of other writes: a
  peer that does not read can hold a `Write`, an alert, the answer to a KeyUpdate
  or a hello for ever (`Proceeds`, `WriteEnds`, `ReadEnds`). `Close` breaks a
  `Write` by closing the network connection. It cannot break the others: it waits
  for `out` at line 1477, before it sets its deadline. `CloseReleasesAll` names
  that case (`CloseBlocked`) and promises the release in every other one.
* `TLSHandshake`: weak fairness of each end, written with the condition under
  which it has a step (`ClientReady`, `ServerReady`). None of breaks, of new
  attempts and of the reading of tickets.

## 6. What is proved

For arbitrary constants that satisfy the named assumptions (`PoolConstants`,
`LifecycleConstants`, `ConfigConstants`, `TUNConstants`, and those named
`...Assumption` of the other modules), which TLC evaluates in the runs.

* `ProxyProofs`, on `CFPool`: types; `ServedEligible`; `TopIPsFastest`; `SuspectUnderCheck`.
  The list is inductive only together with its order (`ServedSorted`) and with
  the fact that probes belong to a check (`ProbesInCheck`): a probe that ended in
  no check would change a record with no rebuild to come. `TopIPsFastest` then
  follows from sortedness, because `GetTopIPs` takes a prefix.
* `ProxyProofs`, on `ProxyLifecycle`: types, `RunningServesAdvertisedPort`,
  `ServingCanBeStopped`, `NoListenerLeaked`, `PoolLoopStoppable`. They hold each
  other up and need who has the mutex (`MutexInv`), what Start owns between its
  critical sections (`StartInv`) and which channel a living loop can have
  (`PoolInv`).
* `ConfigStoreProofs`: types; `RulesFileKeepsAnswered` and `RulesFileNeverMixed`.
  The argument: every save of the rules but that of an import holds `rm.mu`
  (`LockInv`), so its snapshot stays equal to the memory until it is written
  (`SnapInv`), and the memory holds every answered change (`DurableInv`, which also
  says that a change found in memory was put there by a request whose save
  succeeded, failed or is to come); an
  import ends this for good (`NobodyImports`), see section 10.
* `MihomoTUNProofs`: types and the bound of the log buffers; `MihomoInPidFile`,
  `OneMihomo`, `StartedMeansReady`, `StartingMeansInFlight`, for any set of root's
  processes and with signals and removals that fail. Needed: who is inside `m.mu` (`LockedInv`),
  that one request at a time works on the file (`AloneInv`), what it knows at
  each step (`KnowsInv`), and that a ready line in a channel was printed by the
  mihomo of that channel (`ReadyInv`). The flag of a starting
  process needs only an invariant of its own (`StartingInv`): only a
  daemon has one, and a start of it is in progress while the flag is up.
* `ConnectPathProofs`: types; `NothingLeftOpen`, `RetryUsesRefreshed`,
  `RetryNeverInClear`, `LosersReported`, for any traffic, any number of
  connections and candidate lists of any length. The invariant is a conjunction
  over handlers of what a handler has open at each point (`Stage`, `Halves`,
  `Ended`), of what was tried and told (`Tries`) and of what a retry has in its
  hands, which alone refers to the shared profile (`Held`) and survives every
  writer that stores a configuration (`DisturbedOk`).
* `UConnProofs`: types; `OnlyHandshakeAltersPsk`, `SentHelloConsistent`,
  `LockedSessionStable`, for any number of calls. The invariant says what each
  step of a build may find (`FlowInv`), which session is in which object
  (`ObjectInv`), what the handshake state holds in each state of the controller
  and after a handshake dropped it (`HandshakeInv`), whose identities it holds
  (`IdentitiesInv`) and how the bytes relate to the objects (`RawInv`). The
  assertion of `setPskToUConn`, that only binders change, can fail; the first
  theorem says after what.
* `TLSConnProofs`: `WireReadable`, `NilMeansUsable`, `CompleteMeansNoError`, for
  any number of goroutines, calls and records. Half of the invariant (`LockInv`)
  says which step holds which mutex; the step that makes it useful is
  `NoDataInside`: a hello is sealed while its goroutine holds `out`, so no `Write`
  is under way then, and none starts before the handshake is over. The other half
  (`StreamInv`) ties the record being written, `sendBuf` and the wire together:
  what was sent last and the state of `out` match (`Link`), the buffer continues
  the wire until it is flushed and is its end afterwards (`Joint`), and a
  handshake that has not failed has lost nothing (`Progress`). It is conditional
  on no alert having been sent without `out`, and, for the order of records, on
  the write deadline: a `close_notify` that a concurrent flush drops leaves a gap,
  but then the deadline has passed and nothing is sent any more.
* `TLSHandshakeProofs`: `PeersAuthenticated` and `Refines`, for any configurations
  of the two ends, any number of attempts and of broken connections. Of the
  constants only `ConfigAssumption` and `NoneAssumption` are used. The invariant,
  `HandshakeInv`, which is also a theorem (`EndsFit`), has three parts that need
  each other: what each end has settled at each point (`ServerState`,
  `ClientState`); that a message under way says only what its sender has settled
  (`ServerSays`, `ClientSays`), whatever is still buffered included; and that a
  session kept from an earlier attempt continues a secret in `founded` and calls
  its peer verified only if the certificate was good (`SoundSession`). Each step
  of one end is shown to keep what the other relies on: a server that has
  answered goes on with what it answered (`Follows`), a client says only what its
  configuration lets it say (`Speaks`). A client that completes has opened a
  Finished keyed with the server's secret, so its view is that of the server
  (`Agrees`), which has completed or can only complete with it. That is the step
  condition of `Agreement`. Steps of an end that does not leave the attempt, and
  reads of tickets, are stutters.
* `TLSRecoveryProofs`: `RetryRecovers`, with `SuitesAssumption` and `EchAssumption`
  (ECH comes with TLS 1.3) besides: the inner hello names the suites of TLS 1.3 by itself, so the outer one
  must offer them for the client to accept the server's choice. The property says
  that an attempt does not fail, for which it is not enough to know what any
  message may contain. `RecoveryInv` says of an attempt that offers
  no session, between configurations that go together and on a connection that has
  not broken, that it is at one of the stages of a full handshake (`Full`: eleven of
  TLS 1.2, thirteen of TLS 1.3, the hellos before and the end after them). A stage
  fixes where both ends stand, their transcripts and keys, and the very sequence of
  records still under way, including what is only buffered. From that follows what
  the next reader finds (`ClientHears12`, `ClientHears13`, `ServerHears`), so that
  nothing is refused (`NothingRefused`), and one lemma per action shows that the
  check it makes succeeds and leads to the next stage (`ClientMovesOn`,
  `ServerMovesOn`). The other half is short: a session is offered with the hello
  or not at all (`ClientGoes`), and the step in which the client fails empties the
  cache.

## 7. Only model-checked

Liveness (`StaleEntryLeaves`, `SuspectResolved`, `OpFinishes`,
`EveryRequestAnswered`, `EveryTUNRequestAnswered`, `EveryHandlerSettles`,
`CloseReleasesAll`, `HandshakesEnd`) depends on fairness, which the prover does
not handle. The properties of `HelloSpec` (`HelloWellFormed`, `PaddedLength`,
`RoundTrip`) add up the lengths of lists of extensions, which needs induction over
them. The three violated properties are refuted by TLC.

Some properties say less than their names might suggest. `LosersReported` looks at
the candidates before the present one: that the last one is reported before the
handler gives up is in the actions, not in the property. `EveryHandlerSettles` takes
`rm.mu` as obtained sooner or later; `config_match_deadlock` shows a way in which it
is not. `RulesFileKeepsAnswered` and `RulesFileNeverMixed` stop at the first import,
which saves without the mutex, and are about the rules file only.

## 8. Not modelled

* Bytes: headers, bodies, fragmenting of ClientHellos by the proxy, PEM and JSON
  text. Of the hellos of utls the kinds and lengths are modelled, not the values.
* The arithmetic of keys, signatures, HPKE and certificate compression; QUIC
  branches, versions before TLS 1.2 and early data of utls, JSON specs, the
  roller.
* Pure decisions without state: certificate policy, choice of the SNI, plain HTTP
  forwarding, rendering of pages and of the dashboard.
* Code without callers: `proxy/tun_flow.go`, `proxy/error_page.go`.
* Counters, ring buffers of logs and route events: read only by the dashboard.
* Reuse of process ids, and of ports between `SO_REUSEADDR` sockets.
* A process whose CA could not be loaded at start: handleMITM's panic is
  recovered and is a step of `ConnectPath`; the one of server and QUIC mode is
  the failed client handshake there (in the SOCKS5 server, which does not
  recover, it would end the process).
* The resolver, the CA store and the rule table: see the plan.

## 9. Running

In this directory: `tlc -config Connect.cfg MCConnectPath` (module and
configuration of each run are in `PROJECT.json`), `tlapm ConnectPathProofs.tla`.

## 10. Behaviour of the code that the properties leave room for

Met while modelling; the models show each of them, and the properties are stated
so that they say what holds beside them.

* One failed dial makes an address that was never probed count as healthy, since
  the penalty raises latency 0 above the filter (`proxy/cf_pool.go:199`).
* Stopping the proxy leaves the SOCKS5 listener open (`proxy/proxy.go:1194`); the
  next start cannot listen there.
* A process named "snishaper" that finds itself on the port it is about to use
  signals itself (`proxy/port_manager_linux.go:148`).
* Settings and imports are saved after `rm.mu` was released
  (`proxy/proxy.go:2428`, `proxy/config.go:285`): an answered change can be missing
  from its file, and the file can be a mixture.
* A priority move whose save failed has changed the memory. Sent again, it finds
  nothing to change and is answered "updated" with the old order on disk
  (`proxy/proxy.go:2612`).
* Two SniShaper processes at the pid file at once can lose a mihomo
  (`external_mihomo.go:167`).
* A mihomo started with sudo and then stopped or queried by an unprivileged
  SniShaper goes on without a pid file, and the next start doubles it
  (`external_mihomo.go:165`, `254`, `297`).
* "tun status" reads a 50-line buffer of its own process
  (`external_mihomo.go:239`) and can call a running mihomo stopped.
* SOCKS5 has no case for hosts that a rule blocks (`proxy/socks5.go:144`).
* `handleConnect` forgets its first connection in MITM mode (`proxy/proxy.go:1492`).
* A spec applied twice by a preset ID, which `BuildHandshakeStateWithoutSession`
  followed by a build does, loses the private keys of its shares
  (`utls/u_parrots.go:2783`): over TLS 1.3 the handshake then fails. Of several
  classical shares only the first one's key is kept (`utls/u_parrots.go:2921`).
* After a handshake over TLS 1.2 with a PSK offered, or a failed handshake, the
  early secret is gone (`utls/u_handshake_client.go:568`); a build or renegotiation
  that follows meets the assertion of `setPskToUConn` and panics
  (`utls/u_session_controller.go:206`). The same happens when an extension set after
  `ApplyPreset` on `HelloCustom` leaves another object in the list than in the
  controller. `OnlyHandshakeAltersPsk` names both cases.
* A server that answers a renegotiation with TLS 1.3 makes a client without a
  session dereference it, because the master secret of the first handshake is still
  there (`utls/u_handshake_client.go:545`).
* A `FakePreSharedKeyExtension` without identities meets a cached session of TLS 1.3
  with a panic (`utls/u_pre_shared_key.go:338`).
* A preset with a PSK extension, a cached TLS 1.2 session and `OmitEmptyPsk` off
  fails to marshal, and the next `Handshake` panics. A failed build leaves
  `handshakeErr` unset.
* The randomized spec may offer an X25519MLKEM768 share without the group
  (`utls/u_parrots.go:3062`).
* `readHandshake` sends the alert for an oversized message without holding `out`
  (`utls/conn.go:1111`): `WireReadable` excludes it.
* `Close` waits for ever behind an alert, a KeyUpdate answer or a hello that the
  peer does not take (`utls/conn.go:1477`).
* Cancelling the context of a `HandshakeContext` closes the connection even if
  another goroutine has completed the handshake (`utls/u_conn.go:364`).
* A renegotiation that fails leaves its alert in the buffer
  (`utls/u_conn.go:966`). With two readers, the second may renegotiate once more;
  until it ends, `isHandshakeComplete` can be true with the old `handshakeErr`
  still set. `CompleteMeansNoError` is stated outside the section of
  `handshakeMutex`.
* A client that lists TLS 1.2 before 1.3 fails with a server that knows both: the
  server follows the client's order (`utls/common.go:1288`) and then marks its
  random as a downgrade, which the client refuses. The proof of `RetryRecovers`
  showed it; `Compatible` excludes it.
* A preset's PSK with a HelloRetryRequest fails; the session is thrown away and the
  next attempt succeeds (`RetryRecovers`).
* `ticketKeys` returns with a read lock held when the configuration of the client
  has tickets disabled (`utls/common.go:1073`).
