----------------------------- MODULE ConfigStore -----------------------------
(***************************************************************************)
(* How RuleManager (proxy/proxy.go) keeps settings.json and the rules file *)
(* in step with its memory: the read-write mutex rm.mu, the setters that   *)
(* save after they have released it, the rule operations that save with it *)
(* held, SaveConfig under the read lock, os.WriteFile as a truncation and  *)
(* a write, LoadConfig at boot, crashes, and matchRule, which every        *)
(* proxied connection runs under the read lock.                            *)
(*                                                                         *)
(* Contents are abstracted to the requests they reflect: a request of the  *)
(* dashboard changes one field (or list entry), its own or that of an      *)
(* earlier request it repeats, which a snapshot holds "old", "new" or,     *)
(* when it was read while it was being assigned, "torn".                   *)
(***************************************************************************)
EXTENDS Naturals, FiniteSets

CONSTANTS
    Op,         \* requests of the dashboard, each made once
    Conn,       \* connections being routed
    Kinds,      \* the kinds of request that are made
    MaxCrashes  \* bound on crashes of the process

ASSUME ConfigConstants ==
    /\ {"boot", "none"} \cap Op = {}
    /\ ({"boot", "none"} \cup Op) \cap Conn = {}
    /\ Kinds \subseteq {"setting", "config", "rules", "import"}
    /\ MaxCrashes \in Nat

VARIABLES
    pc,       \* where each request, and the start of the process, is
    kind,     \* what each request is; for the start, which save it makes
    field,    \* the field each request sets
    tgt,      \* the file a save is about
    wlock,    \* the writer that has announced itself on rm.mu, or "none"
    readers,  \* the holders of the read lock
    match,    \* where each connection is in matchRule
    mem,      \* the fields in memory, for each file
    snap,     \* what each save has read of them
    fstate,   \* the state of each file
    content,  \* the fields in each file
    crashes   \* crashes so far

lock == <<wlock, readers>>
disk == <<fstate, content>>
vars == <<pc, kind, field, tgt, lock, match, mem, snap, disk, crashes>>

Actor == Op \cup {"boot"}
File == {"settings", "rules"}
Old == [o \in Op |-> "old"]
Contents == [Op -> {"old", "new", "torn"}]
Up == pc["boot"] = "ready"

\* How a request ends: saved, as it was already, with nothing to change, or with
\* the error of a save.
Answers == {"ok", "same", "notfound", "err"}

\* Where a request is inside saveSettingsConfig or saveRulesConfig.
Saving == {"read", "marshal", "open", "write"}

Init ==
    /\ pc = [a \in Actor |-> IF a = "boot" THEN "off" ELSE "idle"]
    /\ kind = [a \in Actor |-> "none"]
    /\ field = [o \in Op |-> o]
    /\ tgt = [a \in Actor |-> "settings"]
    /\ wlock = "none"
    /\ readers = {}
    /\ match = [c \in Conn |-> "idle"]
    /\ mem = [f \in File |-> Old]
    /\ snap = [a \in Actor |-> Old]
    /\ fstate \in [File -> {"missing", "ok"}]
    /\ content = [f \in File |-> Old]
    /\ crashes = 0

Goto(a, from, to) ==
    /\ pc[a] = from
    /\ pc' = [pc EXCEPT ![a] = to]

-----------------------------------------------------------------------------
(* Requests: the critical section of rm.mu *)

\* The file a request of kind k changes a field of.
FileOf(k) == IF k \in {"setting", "config"} THEN "settings" ELSE "rules"

\* What a request of kind k may set: a field of its own, or, for a change of
\* the rules, what an earlier request set, sent again.
Sets(o, k) == {o} \cup {f \in Op : k = "rules" /\ kind[f] = "rules" /\ field[f] = f}

Request(o, k) ==
    /\ Up
    /\ Goto(o, "idle", "lock")
    /\ kind' = [kind EXCEPT ![o] = k]
    /\ \E f \in Sets(o, k) : field' = [field EXCEPT ![o] = f]
    /\ tgt' = [tgt EXCEPT ![o] = FileOf(k)]
    /\ UNCHANGED <<lock, match, mem, snap, disk, crashes>>

\* rm.mu.Lock announces the writer: from now on new readers wait.
Announce(o) ==
    /\ Up
    /\ wlock = "none"
    /\ Goto(o, "lock", "drain")
    /\ wlock' = o
    /\ UNCHANGED <<kind, field, tgt, readers, match, mem, snap, disk, crashes>>

\* The readers are gone: the request assigns its field.  A rule operation
\* keeps the mutex for its save; the others release it first.
Enter(o, keeps) ==
    /\ wlock = o
    /\ readers = {}
    /\ Goto(o, "drain", IF kind[o] = "config" THEN "rlock" ELSE "read")
    /\ mem' = [mem EXCEPT ![tgt[o]][field[o]] = "new"]
    /\ wlock' = IF kind[o] \in keeps THEN o ELSE "none"
    /\ UNCHANGED <<kind, field, tgt, readers, match, snap, disk, crashes>>

\* Variant: every operation releases the mutex before it saves.
AssignReleases(o) == Enter(o, {})

Assign(o) == Enter(o, {"rules"})

\* A rule operation that has nothing to change returns without a save.
Returns(o, answer) ==
    /\ wlock = o
    /\ readers = {}
    /\ kind[o] = "rules"
    /\ Goto(o, "drain", answer)
    /\ wlock' = "none"
    /\ UNCHANGED <<kind, field, tgt, readers, match, mem, snap, disk, crashes>>

\* The DNS node or the ECH profile it is about is unknown: an error.
NotFound(o) == Returns(o, "notfound")

\* The node has that priority, or the profile that configuration, already: no
\* error, and the dashboard answers as if the change had been saved.
NoChange(o) ==
    /\ mem["rules"][field[o]] = "new"
    /\ Returns(o, "same")

\* SaveConfig takes the read lock for both of its saves.
SaveConfigLocks(o, newReaders) ==
    /\ Up
    /\ wlock = "none"
    /\ Goto(o, "rlock", "read")
    /\ readers' = newReaders
    /\ UNCHANGED <<kind, field, tgt, wlock, match, mem, snap, disk, crashes>>

\* Variant: SaveConfig takes no lock.
SaveConfigUnlocked(o) == SaveConfigLocks(o, readers)

SaveConfig(o) == SaveConfigLocks(o, readers \cup {o})

-----------------------------------------------------------------------------
(* saveSettingsConfig and saveRulesConfig *)

\* The save reads its first field ...
BeginRead(a) ==
    /\ Goto(a, "read", "marshal")
    /\ snap' = [snap EXCEPT ![a] = mem[tgt[a]]]
    /\ UNCHANGED <<kind, field, tgt, lock, match, mem, disk, crashes>>

\* ... and its last: a field assigned in between was read before, after or
\* during its assignment.
EndRead(a) ==
    /\ Goto(a, "marshal", "open")
    /\ \E s \in Contents :
        /\ \A o \in Op : snap[a][o] = mem[tgt[a]][o] => s[o] = snap[a][o]
        /\ snap' = [snap EXCEPT ![a] = s]
    /\ UNCHANGED <<kind, field, tgt, lock, match, mem, disk, crashes>>

\* os.WriteFile first truncates the file,
Truncate(a) ==
    /\ Goto(a, "open", "write")
    /\ fstate' = [fstate EXCEPT ![tgt[a]] = "empty"]
    /\ UNCHANGED <<kind, field, tgt, lock, match, mem, snap, content, crashes>>

\* then writes from its start.  If another save has written meanwhile, its bytes
\* are overwritten, but for the end of a longer text.
Alone(a) ==
    \/ fstate[tgt[a]] = "empty"
    \/ fstate[tgt[a]] = "ok" /\ content[tgt[a]] = snap[a]

Written(a) ==
    /\ content' = [content EXCEPT ![tgt[a]] = snap[a]]
    /\ \E s \in {"ok", "corrupt"} :
        /\ Alone(a) => s = "ok"
        /\ fstate' = [fstate EXCEPT ![tgt[a]] = s]

\* A request gives back what it holds of rm.mu when it returns.
Unlock(a) ==
    /\ wlock' = IF wlock = a THEN "none" ELSE wlock
    /\ readers' = readers \ {a}

\* The return of a save that succeeded: the request is answered, SaveConfig
\* goes on with the rules file, and the start of the process goes on.
Saved(a) ==
    /\ pc[a] = "write"
    /\ Written(a)
    /\ \/ /\ a # "boot" /\ kind[a] = "config" /\ tgt[a] = "settings"
          /\ pc' = [pc EXCEPT ![a] = "read"]
          /\ tgt' = [tgt EXCEPT ![a] = "rules"]
          /\ UNCHANGED lock
       \/ /\ a # "boot" /\ ~(kind[a] = "config" /\ tgt[a] = "settings")
          /\ pc' = [pc EXCEPT ![a] = "ok"]
          /\ Unlock(a)
          /\ UNCHANGED tgt
       \/ /\ a = "boot"
          /\ pc' = [pc EXCEPT ![a] = IF tgt[a] = "settings" THEN "loadrules" ELSE "ready"]
          /\ UNCHANGED <<tgt, lock>>
    /\ UNCHANGED <<kind, field, match, mem, snap, crashes>>

\* The return of a save that failed to open or to write the file.  The change
\* stays in memory.  handleConfig ignores the error of SaveConfig and answers
\* "saved".
RequestFailed(a) ==
    /\ \E r \in {"ok", "err"} :
        /\ r = "ok" => kind[a] = "config"
        /\ pc' = [pc EXCEPT ![a] = r]
    /\ Unlock(a)

\* The start of the process goes on when the save was a migration.
BootFailed ==
    /\ pc' = [pc EXCEPT !["boot"] = IF kind["boot"] = "migrate" THEN "ready" ELSE "off"]
    /\ UNCHANGED lock

Failed(a, return) ==
    /\ pc[a] \in {"open", "write"}
    /\ fstate' = IF pc[a] = "open" \/ Alone(a) THEN fstate
                 ELSE [fstate EXCEPT ![tgt[a]] = "corrupt"]
    /\ return
    /\ UNCHANGED <<kind, field, tgt, match, mem, snap, content, crashes>>

\* Variant: the error path of a rule operation forgets to unlock.
SaveFailedKeepsLock(a) ==
    Failed(a, IF a = "boot" THEN BootFailed ELSE pc' = [pc EXCEPT ![a] = "err"] /\ UNCHANGED lock)

SaveFailed(a) == Failed(a, IF a = "boot" THEN BootFailed ELSE RequestFailed(a))

-----------------------------------------------------------------------------
(* LoadConfig, when the process starts *)

\* A missing file is created with the defaults; one that does not parse ends
\* the process.
LoadSettings ==
    /\ \/ /\ fstate["settings"] = "ok"
          /\ Goto("boot", "off", "loadrules")
          /\ mem' = [mem EXCEPT !["settings"] = content["settings"]]
       \/ /\ fstate["settings"] = "missing"
          /\ Goto("boot", "off", "read")
          /\ mem' = [mem EXCEPT !["settings"] = Old]
    /\ kind' = [kind EXCEPT !["boot"] = "default"]
    /\ tgt' = [tgt EXCEPT !["boot"] = "settings"]
    /\ UNCHANGED <<field, lock, match, snap, disk, crashes>>

\* Loaded rules may need a migration (a website, a legacy ECH profile), which
\* is saved.
LoadRules ==
    /\ \/ /\ fstate["rules"] = "ok"
          /\ Goto("boot", "loadrules", "read") \/ Goto("boot", "loadrules", "ready")
          /\ mem' = [mem EXCEPT !["rules"] = content["rules"]]
          /\ kind' = [kind EXCEPT !["boot"] = "migrate"]
       \/ /\ fstate["rules"] = "missing"
          /\ Goto("boot", "loadrules", "read")
          /\ mem' = [mem EXCEPT !["rules"] = Old]
          /\ kind' = [kind EXCEPT !["boot"] = "default"]
    /\ tgt' = [tgt EXCEPT !["boot"] = "rules"]
    /\ UNCHANGED <<field, lock, match, snap, disk, crashes>>

RulesUnreadable ==
    /\ fstate["rules"] \in {"empty", "corrupt"}
    /\ Goto("boot", "loadrules", "off")
    /\ UNCHANGED <<kind, field, tgt, lock, match, mem, snap, disk, crashes>>

\* The process dies, in the middle of anything.
Crash ==
    /\ pc["boot"] # "off"
    /\ crashes < MaxCrashes
    /\ crashes' = crashes + 1
    /\ pc' = [a \in Actor |-> IF a = "boot" THEN "off"
                              ELSE IF pc[a] \in {"idle"} \cup Answers THEN pc[a]
                              ELSE "lost"]
    /\ wlock' = "none"
    /\ readers' = {}
    /\ match' = [c \in Conn |-> "idle"]
    /\ UNCHANGED <<kind, field, tgt, mem, snap, disk>>

-----------------------------------------------------------------------------
(* matchRule: a connection is routed *)

MatchRule(c) ==
    /\ Up
    /\ match[c] = "idle"
    /\ wlock = "none"
    /\ match' = [match EXCEPT ![c] = "matched"]
    /\ readers' = readers \cup {c}
    /\ UNCHANGED <<pc, kind, field, tgt, wlock, mem, snap, disk, crashes>>

\* Auto-routing of a host no rule matches: Decide resolves the host, and the
\* resolver takes the read lock again to read the DNS nodes (GetDNSNodes).
Decide(c) ==
    /\ match[c] = "matched"
    /\ wlock = "none"
    /\ match' = [match EXCEPT ![c] = "resolving"]
    /\ UNCHANGED <<pc, kind, field, tgt, lock, mem, snap, disk, crashes>>

\* The resolver refreshes the ECH configuration of a DNS node and stores it:
\* UpdateECHProfileConfig announces a writer, which waits for the readers, c
\* among them, which waits for the resolver.  There is no step that ends this.
RefreshNodeECH(c) ==
    /\ match[c] = "resolving"
    /\ wlock = "none"
    /\ wlock' = c
    /\ match' = [match EXCEPT ![c] = "storing"]
    /\ UNCHANGED <<pc, kind, field, tgt, readers, mem, snap, disk, crashes>>

\* emitRouteEvent takes the read lock again, and waits for an announced writer
\* as any reader does.
EmitRouteEvent(c) ==
    /\ match[c] \in {"matched", "resolving"}
    /\ wlock = "none"
    /\ match' = [match EXCEPT ![c] = "idle"]
    /\ readers' = readers \ {c}
    /\ UNCHANGED <<pc, kind, field, tgt, wlock, mem, snap, disk, crashes>>

-----------------------------------------------------------------------------
OpStep(o) ==
    \/ Announce(o)
    \/ Assign(o)
    \/ NotFound(o)
    \/ NoChange(o)
    \/ SaveConfig(o)

SaveStep(a) ==
    \/ BeginRead(a)
    \/ EndRead(a)
    \/ Truncate(a)
    \/ Saved(a)
    \/ SaveFailed(a)

BootStep == LoadSettings \/ LoadRules \/ RulesUnreadable

Next ==
    \/ \E o \in Op : OpStep(o) \/ (\E k \in Kinds : Request(o, k))
    \/ \E a \in Actor : SaveStep(a)
    \/ BootStep
    \/ Crash
    \/ \E c \in Conn : MatchRule(c) \/ Decide(c) \/ RefreshNodeECH(c) \/ EmitRouteEvent(c)

Spec == Init /\ [][Next]_vars

\* Handlers and connections that can go on do.  Nothing is assumed of the
\* dashboard's user, of new connections and of crashes.
FairSpec ==
    /\ Spec
    /\ \A o \in Op : WF_vars(OpStep(o) \/ SaveStep(o))
    /\ \A c \in Conn : WF_vars(EmitRouteEvent(c))

-----------------------------------------------------------------------------
(* Properties *)

TypeOK ==
    /\ pc \in [Actor -> {"idle", "lock", "drain", "rlock", "lost"} \cup Answers
                         \cup {"off", "loadrules", "ready"} \cup Saving]
    /\ pc["boot"] \in {"off", "loadrules", "ready"} \cup Saving
    /\ kind \in [Actor -> {"none", "setting", "config", "rules", "import", "default", "migrate"}]
    /\ field \in [Op -> Op]
    /\ tgt \in [Actor -> File]
    /\ wlock \in Op \cup Conn \cup {"none"}
    /\ readers \subseteq Op \cup Conn
    /\ match \in [Conn -> {"idle", "matched", "resolving", "storing"}]
    /\ mem \in [File -> Contents]
    /\ snap \in [Actor -> Contents]
    /\ fstate \in [File -> {"missing", "empty", "ok", "corrupt"}]
    /\ content \in [File -> Contents]
    /\ crashes \in 0..MaxCrashes

\* No request up to now was an import of a configuration, which saves without
\* the mutex.
NobodyImports == \A o \in Op : kind[o] # "import"

\* A save of field f failed, and the request that made it was told so.
SaveRefused(f) == \E w \in Op : kind[w] = "rules" /\ field[w] = f /\ pc[w] = "err"

\* A rules file that can be read holds every rule change the dashboard was told
\* had been made: whatever saves overlap, fail or are cut short by a crash, no
\* save puts back an older state.  A request that found its change in memory
\* already is told so without a save: its change is in the file too, unless the
\* save of the request that made it failed.  It holds as long as nobody imports
\* a configuration.
RulesFileKeepsAnswered ==
    NobodyImports /\ fstate["rules"] = "ok" =>
        \A o \in Op :
            /\ kind[o] = "rules"
            /\ pc[o] = "ok" \/ (pc[o] = "same" /\ ~SaveRefused(field[o]))
            => content["rules"][field[o]] = "new"

\* Under the same condition saves of the rules file never leave a mixture:
\* it is unreadable only between a truncation and its write, or after a write
\* that failed or was cut short.
RulesFileNeverMixed == NobodyImports => fstate["rules"] # "corrupt"

\* A request that takes rm.mu comes to its end, whatever fails; the one thing
\* that can stop it is a connection caught in matchRule.
CaughtInMatch == wlock # "none" /\ \E c \in Conn : match[c] # "idle"

EveryRequestAnswered ==
    \A o \in Op : pc[o] = "lock" ~> (pc[o] \in Answers \cup {"lost"} \/ CaughtInMatch)

\* proxy.go:1920: a connection that matches no rule goes direct; in any case
\* matchRule returns a rule.
MatchRuleReturns ==
    \A c \in Conn : match[c] = "matched" ~> match[c] = "idle"
=============================================================================
