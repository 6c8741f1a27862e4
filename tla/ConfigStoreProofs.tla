-------------------------- MODULE ConfigStoreProofs --------------------------
EXTENDS ConfigStore, TLAPS

InFlight == {"lock", "drain", "rlock"} \cup Saving

\* What a request holds of rm.mu while it is under way.
LockOf(o) ==
    /\ kind[o] \in {"none", "setting", "config", "rules"}
    /\ pc[o] \in InFlight => kind[o] # "none" /\ pc["boot"] = "ready"
    /\ pc[o] \in InFlight /\ (kind[o] # "config" \/ pc[o] \notin Saving) => tgt[o] = FileOf(kind[o])
    /\ wlock = o => pc[o] = "drain" \/ (pc[o] \in Saving /\ readers = {} /\ kind[o] = "rules")
    /\ pc[o] \in Saving /\ kind[o] = "rules" => wlock = o
    /\ pc[o] \in Saving /\ kind[o] = "config" => o \in readers
    /\ pc[o] = "rlock" => kind[o] = "config"

LockInv ==
    /\ \A o \in Op : LockOf(o)
    /\ kind["boot"] = "migrate" => tgt["boot"] = "rules"

\* A save of the rules file that is under way.
SavesRules(a) == pc[a] \in Saving /\ tgt[a] = "rules"

\* What it has read is what the memory holds, and what a save that overlaps it
\* may have written.
SnapOf(a) ==
    /\ pc[a] # "read" => snap[a] = mem["rules"]
    /\ pc[a] = "write" =>
           fstate["rules"] = "empty" \/ (fstate["rules"] = "ok" /\ content["rules"] = mem["rules"])

SnapInv == \A a \in Actor : SavesRules(a) => SnapOf(a)

\* The rules have been read from their file.
Loaded == pc["boot"] = "ready" \/ SavesRules("boot")

\* Field f is set in memory and in a readable file.
Durable(f) ==
    /\ Loaded => mem["rules"][f] = "new"
    /\ fstate["rules"] = "ok" => content["rules"][f] = "new"
    /\ fstate["rules"] # "missing"

\* A change that was answered is durable, unless it was found in memory and the
\* save that should have made it durable failed; one being saved is in memory.
DurableOf(o) ==
    /\ pc[o] = "ok" /\ kind[o] = "rules" => Durable(field[o])
    /\ pc[o] = "same" /\ kind[o] = "rules" => Durable(field[o]) \/ SaveRefused(field[o])
    /\ pc[o] \in Saving /\ kind[o] = "rules" => mem["rules"][field[o]] = "new"

\* Where a field set in memory comes from.
BeingSaved(f) == \E w \in Op : kind[w] = "rules" /\ field[w] = f /\ pc[w] \in Saving

SourceOf(f) ==
    Loaded /\ mem["rules"][f] = "new" => Durable(f) \/ SaveRefused(f) \/ BeingSaved(f)

\* The rules file is no mixture of two texts.
Unmixed == fstate["rules"] # "corrupt"

DurableInv == Unmixed /\ (\A o \in Op : DurableOf(o)) /\ (\A f \in Op : SourceOf(f))

\* A request has a kind from its first step on.
FreshInv == \A o \in Op : pc[o] = "idle" => kind[o] = "none"

ConfigInv == TypeOK /\ FreshInv /\ (NobodyImports => LockInv /\ SnapInv /\ DurableInv)

-----------------------------------------------------------------------------
\* The initial states have the right types.
LEMMA TypeInit == Init => TypeOK
BY ConfigConstants DEF Init, TypeOK, Contents, Old, Actor, Saving, Answers, File

\* Every step keeps the types.
LEMMA TypeStep ==
    ASSUME TypeOK, [Next]_vars
    PROVE  TypeOK'
<1> USE ConfigConstants DEF TypeOK, Actor, Saving, Answers, File
<1>1. ASSUME NEW o \in Op, NEW k \in Kinds, Request(o, k)
      PROVE  TypeOK'
  <2>1. Sets(o, k) \subseteq Op
    BY DEF Sets
  <2> QED
    BY <1>1, <2>1 DEF Request, Goto, FileOf, lock, disk
<1>2. ASSUME NEW o \in Op, Announce(o)
      PROVE  TypeOK'
  BY <1>2 DEF Announce, Goto, Up, lock, disk
<1>3. ASSUME NEW o \in Op, Assign(o)
      PROVE  TypeOK'
  <2>1. tgt[o] \in File /\ mem[tgt[o]] \in Contents
    OBVIOUS
  <2>2. [mem[tgt[o]] EXCEPT ![field[o]] = "new"] \in Contents
    BY <2>1 DEF Contents
  <2>3. mem' = [mem EXCEPT ![tgt[o]] = [mem[tgt[o]] EXCEPT ![field[o]] = "new"]]
    BY <1>3, <2>1 DEF Assign, Enter
  <2>4. mem' \in [File -> Contents]
    BY <2>1, <2>2, <2>3
  <2> QED
    BY <1>3, <2>4 DEF Assign, Enter, Goto, lock, disk
<1>4. ASSUME NEW o \in Op, NoChange(o)
      PROVE  TypeOK'
  BY <1>4 DEF NoChange, Returns, Goto, lock, disk
<1>4a. ASSUME NEW o \in Op, NotFound(o)
       PROVE  TypeOK'
  BY <1>4a DEF NotFound, Returns, Goto, lock, disk
<1>5. ASSUME NEW o \in Op, SaveConfig(o)
      PROVE  TypeOK'
  BY <1>5 DEF SaveConfig, SaveConfigLocks, Goto, Up, lock, disk
<1>6. ASSUME NEW a \in Actor, BeginRead(a)
      PROVE  TypeOK'
  BY <1>6 DEF BeginRead, Goto, lock, disk
<1>7. ASSUME NEW a \in Actor, EndRead(a)
      PROVE  TypeOK'
  BY <1>7 DEF EndRead, Goto, lock, disk
<1>8. ASSUME NEW a \in Actor, Truncate(a)
      PROVE  TypeOK'
  BY <1>8 DEF Truncate, Goto, lock, disk
<1>9. ASSUME NEW a \in Actor, Saved(a)
      PROVE  TypeOK'
  BY <1>9 DEF Saved, Written, Unlock, lock, disk
<1>10. ASSUME NEW a \in Actor, SaveFailed(a)
      PROVE  TypeOK'
  BY <1>10 DEF SaveFailed, Failed, BootFailed, RequestFailed, Unlock, lock, disk
<1> Old \in Contents
  BY DEF Old, Contents
<1>11. CASE LoadSettings
  BY <1>11 DEF LoadSettings, Goto, lock, disk
<1>12. CASE LoadRules
  BY <1>12 DEF LoadRules, Goto, lock, disk
<1>13. CASE RulesUnreadable
  BY <1>13 DEF RulesUnreadable, Goto, lock, disk
<1>14. CASE Crash
  BY <1>14 DEF Crash, lock, disk
<1>15. ASSUME NEW c \in Conn, MatchRule(c)
      PROVE  TypeOK'
  BY <1>15 DEF MatchRule, lock, disk
<1>15a. ASSUME NEW c \in Conn, Decide(c)
       PROVE  TypeOK'
  BY <1>15a DEF Decide, lock, disk
<1>15b. ASSUME NEW c \in Conn, RefreshNodeECH(c)
       PROVE  TypeOK'
  BY <1>15b DEF RefreshNodeECH, lock, disk
<1>16. ASSUME NEW c \in Conn, EmitRouteEvent(c)
      PROVE  TypeOK'
  BY <1>16 DEF EmitRouteEvent, lock, disk
<1>17. CASE UNCHANGED vars
  BY <1>17 DEF vars, lock, disk
<1>18. QED
  BY <1>1, <1>2, <1>3, <1>4, <1>4a, <1>5, <1>6, <1>7, <1>8, <1>9, <1>10, <1>11, <1>12, <1>13, <1>14, <1>15, <1>15a, <1>15b, <1>16, <1>17 DEF Next, OpStep, SaveStep, BootStep

-----------------------------------------------------------------------------
\* What a request holds of rm.mu, when nobody imports.
LEMMA LockInit == Init => LockInv
BY ConfigConstants DEF Init, LockInv, LockOf, Actor, Saving, InFlight

\* Only the rules are migrated.
LEMMA BootKindStep ==
    ASSUME TypeOK, kind["boot"] = "migrate" => tgt["boot"] = "rules", [Next]_vars
    PROVE  (kind["boot"] = "migrate" => tgt["boot"] = "rules")'
<1>1. \A o \in Op : o # "boot"
  BY ConfigConstants
<1> QED
  BY <1>1 DEF TypeOK, Next, OpStep, SaveStep, BootStep, Request, Announce, Assign, Enter, NoChange, NotFound, Returns,
       SaveConfig, SaveConfigLocks, BeginRead, EndRead, Truncate, Saved, SaveFailed, Failed,
       LoadSettings, LoadRules, RulesUnreadable, Crash, MatchRule, Decide, RefreshNodeECH, EmitRouteEvent, vars, Actor

\* Every step keeps what requests hold of rm.mu.
LEMMA LockStep ==
    ASSUME NobodyImports', TypeOK, LockInv, [Next]_vars
    PROVE  LockInv'
<1>b. (kind["boot"] = "migrate" => tgt["boot"] = "rules")'
  BY BootKindStep DEF LockInv
<1> SUFFICES ASSUME NEW p \in Op
             PROVE  LockOf(p)'
  BY <1>b DEF LockInv
<1>0. LockOf(p) /\ (\A o \in Op : LockOf(o)) /\ "boot" # p /\ "none" # p
  BY ConfigConstants DEF LockInv
<1> USE <1>0, ConfigConstants DEF TypeOK, Actor, Saving, Answers, File, LockOf, InFlight, FileOf
<1>1. ASSUME NEW o \in Op, NEW k \in Kinds, Request(o, k)
      PROVE  LockOf(p)'
  <2>1. k \in {"setting", "config", "rules"}
    <3>1. kind'[o] = k
      BY <1>1 DEF Request
    <3> QED
      BY <3>1, ConfigConstants DEF NobodyImports
  <2>2. pc["boot"] = "ready" /\ pc'["boot"] = "ready"
    BY <1>1 DEF Request, Goto, Up
  <2>3. CASE p = o
    BY <1>1, <2>1, <2>2, <2>3 DEF Request, Goto, lock
  <2>4. CASE p # o
    BY <1>1, <2>2, <2>4 DEF Request, Goto, lock
  <2> QED
    BY <2>3, <2>4
<1>2. ASSUME NEW o \in Op, Announce(o)
      PROVE  LockOf(p)'
  BY <1>2 DEF Announce, Goto, Up, lock, disk
<1>3. ASSUME NEW o \in Op, Assign(o)
      PROVE  LockOf(p)'
  BY <1>3 DEF Assign, Enter, Goto, lock, disk
<1>4. ASSUME NEW o \in Op, NoChange(o)
      PROVE  LockOf(p)'
  BY <1>4 DEF NoChange, Returns, Goto, lock, disk
<1>4a. ASSUME NEW o \in Op, NotFound(o)
       PROVE  LockOf(p)'
  BY <1>4a DEF NotFound, Returns, Goto, lock, disk
<1>5. ASSUME NEW o \in Op, SaveConfig(o)
      PROVE  LockOf(p)'
  <2>1. wlock = "none" /\ wlock' = "none" /\ pc'["boot"] = pc["boot"]
    BY <1>5 DEF SaveConfig, SaveConfigLocks, Goto
  <2>2. CASE p = o
    BY <1>5, <2>1, <2>2 DEF SaveConfig, SaveConfigLocks, Goto, lock
  <2>3. CASE p # o
    BY <1>5, <2>1, <2>3 DEF SaveConfig, SaveConfigLocks, Goto, lock
  <2> QED
    BY <2>2, <2>3
<1>6. ASSUME NEW a \in Actor, BeginRead(a)
      PROVE  LockOf(p)'
  BY <1>6 DEF BeginRead, Goto, lock, disk
<1>7. ASSUME NEW a \in Actor, EndRead(a)
      PROVE  LockOf(p)'
  BY <1>7 DEF EndRead, Goto, lock, disk
<1>8. ASSUME NEW a \in Actor, Truncate(a)
      PROVE  LockOf(p)'
  BY <1>8 DEF Truncate, Goto, lock, disk
<1>9. ASSUME NEW a \in Actor, Saved(a)
      PROVE  LockOf(p)'
  BY <1>9 DEF Saved, Written, Unlock, lock, disk
<1>10. ASSUME NEW a \in Actor, SaveFailed(a)
      PROVE  LockOf(p)'
  BY <1>10 DEF SaveFailed, Failed, BootFailed, RequestFailed, Unlock, lock, disk
<1>11. CASE LoadSettings
  BY <1>11 DEF LoadSettings, Goto, lock, disk
<1>12. CASE LoadRules
  BY <1>12 DEF LoadRules, Goto, lock, disk
<1>13. CASE RulesUnreadable
  BY <1>13 DEF RulesUnreadable, Goto, lock, disk
<1>14. CASE Crash
  BY <1>14 DEF Crash, lock, disk
<1>15. ASSUME NEW c \in Conn, MatchRule(c)
      PROVE  LockOf(p)'
  BY <1>15 DEF MatchRule, lock, disk
<1>15a. ASSUME NEW c \in Conn, Decide(c)
       PROVE  LockOf(p)'
  BY <1>15a DEF Decide, lock, disk
<1>15b. ASSUME NEW c \in Conn, RefreshNodeECH(c)
       PROVE  LockOf(p)'
  BY <1>15b DEF RefreshNodeECH, lock, disk
<1>16. ASSUME NEW c \in Conn, EmitRouteEvent(c)
      PROVE  LockOf(p)'
  BY <1>16 DEF EmitRouteEvent, lock, disk
<1>17. CASE UNCHANGED vars
  BY <1>17 DEF vars, lock, disk
<1>18. QED
  BY <1>1, <1>2, <1>3, <1>4, <1>4a, <1>5, <1>6, <1>7, <1>8, <1>9, <1>10, <1>11, <1>12, <1>13, <1>14, <1>15, <1>15a, <1>15b, <1>16, <1>17 DEF Next, OpStep, SaveStep, BootStep
-----------------------------------------------------------------------------
\* A save of the rules file under way keeps the rules in memory from changing.
LEMMA OneRulesWriter ==
    ASSUME TypeOK, LockInv, NEW o \in Op, wlock = o, readers = {}, NEW a \in Actor, SavesRules(a)
    PROVE  a = o /\ pc[o] # "drain"
<1>1. a # "boot"
  BY DEF TypeOK, LockInv, LockOf, SavesRules, InFlight, Saving
<1>2. LockOf(a) /\ LockOf(o) /\ a \in Op
  BY <1>1 DEF LockInv, Actor
<1>3. kind[a] = "rules"
  BY <1>2 DEF LockOf, SavesRules, InFlight, Saving, FileOf
<1> QED
  BY <1>2, <1>3 DEF LockOf, SavesRules, Saving

\* The saves of the rules file agree on what they write.
LEMMA SnapInit == Init => SnapInv
BY ConfigConstants DEF Init, SnapInv, SavesRules, Actor, Saving

\* Every step keeps the saves of the rules file in agreement.
LEMMA SnapStep ==
    ASSUME TypeOK, LockInv, SnapInv, [Next]_vars
    PROVE  SnapInv'
<1> SUFFICES ASSUME NEW b \in Actor, SavesRules(b)'
             PROVE  SnapOf(b)'
  BY DEF SnapInv
<1>0. SavesRules(b) => SnapOf(b)
  BY DEF SnapInv
<1> USE <1>0, ConfigConstants DEF TypeOK, Actor, Saving, Answers, File, SavesRules, SnapOf
<1>1. ASSUME NEW o \in Op, NEW k \in Kinds, Request(o, k)
      PROVE  SnapOf(b)'
  BY <1>1 DEF Request, Goto, lock, disk
<1>2. ASSUME NEW o \in Op, Announce(o)
      PROVE  SnapOf(b)'
  BY <1>2 DEF Announce, Goto, Up, lock, disk
<1>3. ASSUME NEW o \in Op, Assign(o)
      PROVE  SnapOf(b)'
  <2>1. wlock = o /\ readers = {} /\ pc[o] = "drain" /\ LockOf(o) /\ tgt[o] \in File
    BY <1>3 DEF Assign, Enter, Goto, LockInv
  <2>2. CASE b = o
    BY <1>3, <2>1, <2>2 DEF Assign, Enter, Goto
  <2>3. CASE b # o
    <3>1. pc[b] \in Saving /\ tgt[b] = "rules"
      BY <1>3, <2>3 DEF Assign, Enter, Goto
    <3> QED
      BY <3>1, <2>1, <2>3, OneRulesWriter
  <2> QED
    BY <2>2, <2>3
<1>4. ASSUME NEW o \in Op, NoChange(o)
      PROVE  SnapOf(b)'
  BY <1>4 DEF NoChange, Returns, Goto, lock, disk
<1>4a. ASSUME NEW o \in Op, NotFound(o)
       PROVE  SnapOf(b)'
  BY <1>4a DEF NotFound, Returns, Goto, lock, disk
<1>5. ASSUME NEW o \in Op, SaveConfig(o)
      PROVE  SnapOf(b)'
  BY <1>5 DEF SaveConfig, SaveConfigLocks, Goto, Up, lock, disk
<1>6. ASSUME NEW a \in Actor, BeginRead(a)
      PROVE  SnapOf(b)'
  BY <1>6 DEF BeginRead, Goto, lock, disk
<1>7. ASSUME NEW a \in Actor, EndRead(a)
      PROVE  SnapOf(b)'
  <2>1. PICK s \in Contents :
            /\ \A o \in Op : snap[a][o] = mem[tgt[a]][o] => s[o] = snap[a][o]
            /\ snap' = [snap EXCEPT ![a] = s]
    BY <1>7 DEF EndRead
  <2>2. CASE b = a
    <3>1. snap[a] = mem["rules"] /\ tgt[a] = "rules" /\ pc'[a] = "open"
      BY <1>7, <2>2 DEF EndRead, Goto
    <3>2. s = snap[a]
      BY <2>1, <3>1 DEF Contents
    <3> QED
      BY <1>7, <2>1, <2>2, <3>1, <3>2 DEF EndRead
  <2>3. CASE b # a
    BY <1>7, <2>1, <2>3 DEF EndRead, Goto, disk
  <2> QED
    BY <2>2, <2>3
<1>8. ASSUME NEW a \in Actor, Truncate(a)
      PROVE  SnapOf(b)'
  BY <1>8 DEF Truncate, Goto, lock, disk
<1>9. ASSUME NEW a \in Actor, Saved(a)
      PROVE  SnapOf(b)'
  <2>1. CASE b = a
    BY <1>9, <2>1 DEF Saved
  <2>2. CASE b # a
    <3>1. SavesRules(b) /\ pc'[b] = pc[b] /\ snap' = snap /\ mem' = mem
      BY <1>9, <2>2 DEF Saved
    <3>2. PICK s \in {"ok", "corrupt"} :
              /\ Alone(a) => s = "ok"
              /\ fstate' = [fstate EXCEPT ![tgt[a]] = s]
              /\ content' = [content EXCEPT ![tgt[a]] = snap[a]]
      BY <1>9 DEF Saved, Written
    <3>3. CASE tgt[a] = "rules" /\ pc[b] = "write"
      <4>1. snap[a] = mem["rules"]
        BY <1>9, <3>3 DEF Saved, SnapInv
      <4>2. Alone(a)
        BY <3>1, <3>3, <4>1 DEF Alone
      <4> QED
        BY <3>1, <3>2, <3>3, <4>1, <4>2
    <3>4. CASE tgt[a] # "rules" \/ pc[b] # "write"
      BY <3>1, <3>2, <3>4
    <3> QED
      BY <3>3, <3>4
  <2> QED
    BY <2>1, <2>2
<1>10. ASSUME NEW a \in Actor, SaveFailed(a)
      PROVE  SnapOf(b)'
  <2>1. CASE b = a
    BY <1>10, <2>1 DEF SaveFailed, Failed, BootFailed, RequestFailed
  <2>2. CASE b # a
    <3>1. SavesRules(b) /\ pc'[b] = pc[b] /\ snap' = snap /\ mem' = mem /\ content' = content
      BY <1>10, <2>2 DEF SaveFailed, Failed, BootFailed, RequestFailed
    <3>2. fstate' = IF pc[a] = "open" \/ Alone(a) THEN fstate
                    ELSE [fstate EXCEPT ![tgt[a]] = "corrupt"]
      BY <1>10 DEF SaveFailed, Failed
    <3>3. CASE tgt[a] = "rules" /\ pc[b] = "write" /\ pc[a] # "open"
      <4>1. snap[a] = mem["rules"]
        BY <1>10, <3>3 DEF SaveFailed, Failed, SnapInv
      <4>2. Alone(a)
        BY <3>1, <3>3, <4>1 DEF Alone
      <4> QED
        BY <3>1, <3>2, <4>2
    <3>4. CASE tgt[a] # "rules" \/ pc[b] # "write" \/ pc[a] = "open"
      BY <3>1, <3>2, <3>4
    <3> QED
      BY <3>3, <3>4
  <2> QED
    BY <2>1, <2>2
<1>11. CASE LoadSettings
  BY <1>11 DEF LoadSettings, Goto, lock, disk
<1>12. CASE LoadRules
  <2>1. pc["boot"] = "loadrules"
    BY <1>12 DEF LoadRules, Goto
  <2>2. b = "boot"
    BY <1>12, <2>1 DEF LoadRules, Goto, LockInv, LockOf, InFlight
  <2> QED
    BY <1>12, <2>2 DEF LoadRules, Goto
<1>13. CASE RulesUnreadable
  BY <1>13 DEF RulesUnreadable, Goto, lock, disk
<1>14. CASE Crash
  BY <1>14 DEF Crash, lock, disk
<1>15. ASSUME NEW c \in Conn, MatchRule(c)
      PROVE  SnapOf(b)'
  BY <1>15 DEF MatchRule, lock, disk
<1>15a. ASSUME NEW c \in Conn, Decide(c)
       PROVE  SnapOf(b)'
  BY <1>15a DEF Decide, lock, disk
<1>15b. ASSUME NEW c \in Conn, RefreshNodeECH(c)
       PROVE  SnapOf(b)'
  BY <1>15b DEF RefreshNodeECH, lock, disk
<1>16. ASSUME NEW c \in Conn, EmitRouteEvent(c)
      PROVE  SnapOf(b)'
  BY <1>16 DEF EmitRouteEvent, lock, disk
<1>17. CASE UNCHANGED vars
  BY <1>17 DEF vars, lock, disk
<1>18. QED
  BY <1>1, <1>2, <1>3, <1>4, <1>4a, <1>5, <1>6, <1>7, <1>8, <1>9, <1>10, <1>11, <1>12, <1>13, <1>14, <1>15, <1>15a, <1>15b, <1>16, <1>17 DEF Next, OpStep, SaveStep, BootStep
-----------------------------------------------------------------------------
\* A save that writes the rules file finds it truncated or holding what the
\* save writes itself.
LEMMA WritesAlone ==
    ASSUME SnapInv, NEW a \in Actor, pc[a] = "write", tgt[a] = "rules"
    PROVE  Alone(a)
BY DEF SnapInv, SnapOf, SavesRules, Saving, Alone

\* So no step leaves a mixture in the rules file.
LEMMA NeverMixedStep ==
    ASSUME TypeOK, SnapInv, Unmixed, [Next]_vars
    PROVE  Unmixed'
<1> USE DEF TypeOK, Unmixed, File
<1>1. ASSUME NEW o \in Op, NEW k \in Kinds, Request(o, k)
      PROVE  Unmixed'
  BY <1>1 DEF Request, Goto, lock, disk
<1>2. ASSUME NEW o \in Op, Announce(o)
      PROVE  Unmixed'
  BY <1>2 DEF Announce, Goto, Up, lock, disk
<1>3. ASSUME NEW o \in Op, Assign(o)
      PROVE  Unmixed'
  BY <1>3 DEF Assign, Enter, Goto, lock, disk
<1>4. ASSUME NEW o \in Op, NoChange(o)
      PROVE  Unmixed'
  BY <1>4 DEF NoChange, Returns, Goto, lock, disk
<1>4a. ASSUME NEW o \in Op, NotFound(o)
       PROVE  Unmixed'
  BY <1>4a DEF NotFound, Returns, Goto, lock, disk
<1>5. ASSUME NEW o \in Op, SaveConfig(o)
      PROVE  Unmixed'
  BY <1>5 DEF SaveConfig, SaveConfigLocks, Goto, Up, lock, disk
<1>6. ASSUME NEW a \in Actor, BeginRead(a)
      PROVE  Unmixed'
  BY <1>6 DEF BeginRead, Goto, lock, disk
<1>7. ASSUME NEW a \in Actor, EndRead(a)
      PROVE  Unmixed'
  BY <1>7 DEF EndRead, Goto, lock, disk
<1>8. ASSUME NEW a \in Actor, Truncate(a)
      PROVE  Unmixed'
  BY <1>8 DEF Truncate, Goto, lock, disk
<1>9. ASSUME NEW a \in Actor, Saved(a)
      PROVE  Unmixed'
  BY <1>9, WritesAlone DEF Saved, Written
<1>10. ASSUME NEW a \in Actor, SaveFailed(a)
      PROVE  Unmixed'
  BY <1>10, WritesAlone DEF SaveFailed, Failed
<1>11. CASE LoadSettings
  BY <1>11 DEF LoadSettings, Goto, lock, disk
<1>12. CASE LoadRules
  BY <1>12 DEF LoadRules, Goto, lock, disk
<1>13. CASE RulesUnreadable
  BY <1>13 DEF RulesUnreadable, Goto, lock, disk
<1>14. CASE Crash
  BY <1>14 DEF Crash, lock, disk
<1>15. ASSUME NEW c \in Conn, MatchRule(c)
      PROVE  Unmixed'
  BY <1>15 DEF MatchRule, lock, disk
<1>15a. ASSUME NEW c \in Conn, Decide(c)
       PROVE  Unmixed'
  BY <1>15a DEF Decide, lock, disk
<1>15b. ASSUME NEW c \in Conn, RefreshNodeECH(c)
       PROVE  Unmixed'
  BY <1>15b DEF RefreshNodeECH, lock, disk
<1>16. ASSUME NEW c \in Conn, EmitRouteEvent(c)
      PROVE  Unmixed'
  BY <1>16 DEF EmitRouteEvent, lock, disk
<1>17. CASE UNCHANGED vars
  BY <1>17 DEF vars, lock, disk
<1>18. QED
  BY <1>1, <1>2, <1>3, <1>4, <1>4a, <1>5, <1>6, <1>7, <1>8, <1>9, <1>10, <1>11, <1>12, <1>13, <1>14, <1>15, <1>15a, <1>15b, <1>16, <1>17 DEF Next, OpStep, SaveStep, BootStep

\* Nothing was answered yet.
LEMMA DurableInit == Init => DurableInv
BY ConfigConstants DEF Init, DurableInv, DurableOf, SourceOf, Loaded, SavesRules, Unmixed, Actor, Saving, File

\* What a save of the rules file leaves there is what the memory holds.
LEMMA SavedRules ==
    ASSUME TypeOK, LockInv, SnapInv, NEW a \in Actor, Saved(a), tgt[a] = "rules"
    PROVE  fstate'["rules"] = "ok" /\ content'["rules"] = mem["rules"] /\ Loaded
<1> USE DEF TypeOK, Actor, Saving, File
<1>1. snap[a] = mem["rules"] /\ Alone(a)
  BY WritesAlone DEF Saved, SnapInv, SnapOf, SavesRules
<1>2. a \in Op => pc["boot"] = "ready"
  BY DEF Saved, LockInv, LockOf, InFlight
<1> QED
  BY <1>1, <1>2 DEF Saved, Written, Loaded, SavesRules

\* A failed save leaves memory, contents and readable files as they were.
LEMMA FailedRules ==
    ASSUME TypeOK, LockInv, SnapInv, NEW a \in Actor, SaveFailed(a)
    PROVE  /\ mem' = mem /\ kind' = kind /\ field' = field /\ content' = content /\ tgt' = tgt
           /\ fstate'["rules"] = fstate["rules"]
           /\ Loaded' => Loaded
<1> USE DEF TypeOK, Actor, Saving, File
<1>1. mem' = mem /\ kind' = kind /\ field' = field /\ content' = content /\ tgt' = tgt
  BY DEF SaveFailed, Failed
<1>2. fstate'["rules"] = fstate["rules"]
  BY WritesAlone DEF SaveFailed, Failed
<1>3. Loaded' => Loaded
  BY <1>1, ConfigConstants DEF LockInv, SaveFailed, Failed, BootFailed, RequestFailed, Loaded, SavesRules
<1> QED
  BY <1>1, <1>2, <1>3

\* A durable change stays durable.
LEMMA DurableKept ==
    ASSUME NobodyImports', TypeOK, LockInv, SnapInv, Unmixed, [Next]_vars,
           NEW f \in Op, Durable(f)
    PROVE  Durable(f)'
<1>a. \A o \in Op : o # "boot" /\ o # "none"
  BY ConfigConstants
<1> USE <1>a DEF TypeOK, Actor, Saving, File, SavesRules, Loaded, Durable, Unmixed
<1>1. ASSUME NEW o \in Op, NEW k \in Kinds, Request(o, k)
     PROVE  Durable(f)'
  BY <1>1 DEF Request, Goto, lock, disk
<1>2. ASSUME NEW o \in Op, Announce(o)
     PROVE  Durable(f)'
  BY <1>2 DEF Announce, Goto, lock, disk
<1>3. ASSUME NEW o \in Op, Assign(o)
     PROVE  Durable(f)'
  <2>1. tgt[o] \in File /\ pc[o] = "drain" /\ LockOf(o) /\ field[o] \in Op
    BY <1>3 DEF Assign, Enter, Goto, LockInv
  <2>2. mem' = [mem EXCEPT ![tgt[o]] = [mem[tgt[o]] EXCEPT ![field[o]] = "new"]]
    BY <1>3, <2>1 DEF Assign, Enter
  <2>3. mem["rules"][f] = "new" => mem'["rules"][f] = "new"
    BY <2>1, <2>2 DEF Contents
  <2> QED
    BY <1>3, <2>3 DEF Assign, Enter, Goto, lock, disk
<1>4. ASSUME NEW o \in Op, NoChange(o)
     PROVE  Durable(f)'
  BY <1>4 DEF NoChange, Returns, Goto, lock, disk
<1>4a. ASSUME NEW o \in Op, NotFound(o)
      PROVE  Durable(f)'
  BY <1>4a DEF NotFound, Returns, Goto, lock, disk
<1>5. ASSUME NEW o \in Op, SaveConfig(o)
     PROVE  Durable(f)'
  BY <1>5 DEF SaveConfig, SaveConfigLocks, Goto, lock, disk
<1>6. ASSUME NEW a \in Actor, BeginRead(a)
     PROVE  Durable(f)'
  BY <1>6 DEF BeginRead, Goto, lock, disk
<1>7. ASSUME NEW a \in Actor, EndRead(a)
     PROVE  Durable(f)'
  BY <1>7 DEF EndRead, Goto, lock, disk
<1>8. ASSUME NEW a \in Actor, Truncate(a)
     PROVE  Durable(f)'
  BY <1>8 DEF Truncate, Goto, lock, disk
<1>9. ASSUME NEW a \in Actor, Saved(a)
     PROVE  Durable(f)'
  <2>1. CASE tgt[a] = "rules"
    BY <1>9, <2>1, SavedRules DEF Saved
  <2>2. CASE tgt[a] = "settings"
    BY <1>9, <2>2 DEF Saved, Written
  <2> QED
    BY <2>1, <2>2
<1>10. ASSUME NEW a \in Actor, SaveFailed(a)
      PROVE  Durable(f)'
  BY <1>10, FailedRules
<1>11. ASSUME LoadSettings
      PROVE  Durable(f)'
  BY <1>11 DEF LoadSettings, Goto, lock, disk
<1>12. ASSUME LoadRules
      PROVE  Durable(f)'
  BY <1>12 DEF LoadRules, Goto, disk
<1>13. ASSUME RulesUnreadable
      PROVE  Durable(f)'
  BY <1>13 DEF RulesUnreadable, Goto, lock, disk
<1>14. ASSUME Crash
      PROVE  Durable(f)'
  BY <1>14 DEF Crash, lock, disk
<1>15. ASSUME NEW c \in Conn, MatchRule(c)
      PROVE  Durable(f)'
  BY <1>15 DEF MatchRule, lock, disk
<1>15a. ASSUME NEW c \in Conn, Decide(c)
       PROVE  Durable(f)'
  BY <1>15a DEF Decide, lock, disk
<1>15b. ASSUME NEW c \in Conn, RefreshNodeECH(c)
       PROVE  Durable(f)'
  BY <1>15b DEF RefreshNodeECH, lock, disk
<1>16. ASSUME NEW c \in Conn, EmitRouteEvent(c)
      PROVE  Durable(f)'
  BY <1>16 DEF EmitRouteEvent, lock, disk
<1>17. ASSUME UNCHANGED vars
      PROVE  Durable(f)'
  BY <1>17 DEF vars, lock, disk
<1>18. QED
  BY <1>1, <1>2, <1>3, <1>4, <1>4a, <1>5, <1>6, <1>7, <1>8, <1>9, <1>10, <1>11, <1>12, <1>13, <1>14, <1>15, <1>15a, <1>15b, <1>16, <1>17 DEF Next, OpStep, SaveStep, BootStep

\* A save that was refused stays so.
LEMMA RefusedStays ==
    ASSUME TypeOK, [Next]_vars, NEW f \in Op, SaveRefused(f)
    PROVE  SaveRefused(f)'
<1>1. PICK w \in Op : kind[w] = "rules" /\ field[w] = f /\ pc[w] = "err"
  BY DEF SaveRefused
<1>2. kind'[w] = kind[w] /\ field'[w] = field[w] /\ pc'[w] = "err"
  <2> USE <1>1, ConfigConstants DEF TypeOK, Actor
  <2>1. ASSUME NEW q \in Op, NEW k \in Kinds, Request(q, k)
        PROVE  kind'[w] = kind[w] /\ field'[w] = field[w] /\ pc'[w] = "err"
    BY <2>1 DEF Request, Goto
  <2>2. ASSUME NEW q \in Op, OpStep(q)
        PROVE  kind'[w] = kind[w] /\ field'[w] = field[w] /\ pc'[w] = "err"
    BY <2>2 DEF OpStep, Announce, Assign, Enter, NoChange, NotFound, Returns, SaveConfig, SaveConfigLocks, Goto
  <2>3. ASSUME NEW a \in Actor, SaveStep(a)
        PROVE  kind'[w] = kind[w] /\ field'[w] = field[w] /\ pc'[w] = "err"
    BY <2>3 DEF SaveStep, BeginRead, EndRead, Truncate, Saved, SaveFailed, Failed, RequestFailed, BootFailed, Goto
  <2>4. ASSUME BootStep \/ Crash
        PROVE  kind'[w] = kind[w] /\ field'[w] = field[w] /\ pc'[w] = "err"
    BY <2>4 DEF BootStep, LoadSettings, LoadRules, RulesUnreadable, Crash, Goto, Answers
  <2>5. ASSUME UNCHANGED <<pc, kind, field>>
        PROVE  kind'[w] = kind[w] /\ field'[w] = field[w] /\ pc'[w] = "err"
    BY <2>5
  <2> QED
    BY <2>1, <2>2, <2>3, <2>4, <2>5 DEF Next, MatchRule, Decide, RefreshNodeECH, EmitRouteEvent, vars
<1> QED
  BY <1>1, <1>2 DEF SaveRefused

\* Every step keeps what was answered in memory and in the rules file.
LEMMA AnsweredStep ==
    ASSUME NobodyImports', TypeOK, LockInv, SnapInv, DurableInv, [Next]_vars, NEW p \in Op
    PROVE  DurableOf(p)'
<1>0. DurableOf(p) /\ LockOf(p) /\ Unmixed /\ field[p] \in Op
  BY DEF DurableInv, LockInv, TypeOK
<1>a. \A o \in Op : o # "boot" /\ o # "none"
  BY ConfigConstants
<1>b. \A f \in Op : (Durable(f) => Durable(f)') /\ (SaveRefused(f) => SaveRefused(f)')
  BY <1>0, DurableKept, RefusedStays
<1> USE <1>0, <1>a, <1>b DEF TypeOK, Actor, Saving, Answers, File, DurableOf
<1>1. ASSUME NEW o \in Op, NEW k \in Kinds, Request(o, k)
     PROVE  DurableOf(p)'
  BY <1>1 DEF Request, Goto, lock, disk
<1>2. ASSUME NEW o \in Op, Announce(o)
     PROVE  DurableOf(p)'
  BY <1>2 DEF Announce, Goto, lock, disk
<1>3. ASSUME NEW o \in Op, Assign(o)
     PROVE  DurableOf(p)'
  <2>1. tgt[o] \in File /\ pc[o] = "drain" /\ LockOf(o) /\ field[o] \in Op
    BY <1>3 DEF Assign, Enter, Goto, LockInv
  <2>2. mem' = [mem EXCEPT ![tgt[o]] = [mem[tgt[o]] EXCEPT ![field[o]] = "new"]]
    BY <1>3, <2>1 DEF Assign, Enter
  <2>3. \A f \in Op : mem["rules"][f] = "new" => mem'["rules"][f] = "new"
    BY <2>1, <2>2 DEF Contents
  <2>4. kind[o] = "rules" => mem'["rules"][field[o]] = "new"
    BY <2>1, <2>2 DEF Contents, LockOf, InFlight, FileOf
  <2> QED
    BY <1>3, <2>3, <2>4 DEF Assign, Enter, Goto, lock, disk
<1>4. ASSUME NEW o \in Op, NoChange(o)
     PROVE  DurableOf(p)'
  <2>1. wlock = o /\ pc[o] = "drain" /\ mem["rules"][field[o]] = "new" /\ field[o] \in Op /\ LockOf(o)
    BY <1>4 DEF NoChange, Returns, Goto, LockInv
  <2>2. ~BeingSaved(field[o])
    BY <2>1 DEF BeingSaved, LockInv, LockOf
  <2>3. Loaded
    BY <2>1 DEF LockOf, InFlight, Loaded
  <2>4. Durable(field[o]) \/ SaveRefused(field[o])
    BY <2>1, <2>2, <2>3 DEF DurableInv, SourceOf
  <2> QED
    BY <1>4, <2>4 DEF NoChange, Returns, Goto, disk
<1>4a. ASSUME NEW o \in Op, NotFound(o)
      PROVE  DurableOf(p)'
  BY <1>4a DEF NotFound, Returns, Goto, lock, disk
<1>5. ASSUME NEW o \in Op, SaveConfig(o)
     PROVE  DurableOf(p)'
  BY <1>5 DEF SaveConfig, SaveConfigLocks, Goto, lock, disk, LockOf
<1>6. ASSUME NEW a \in Actor, BeginRead(a)
     PROVE  DurableOf(p)'
  BY <1>6 DEF BeginRead, Goto, lock, disk
<1>7. ASSUME NEW a \in Actor, EndRead(a)
     PROVE  DurableOf(p)'
  BY <1>7 DEF EndRead, Goto, lock, disk
<1>8. ASSUME NEW a \in Actor, Truncate(a)
     PROVE  DurableOf(p)'
  BY <1>8 DEF Truncate, Goto, lock, disk
<1>9. ASSUME NEW a \in Actor, Saved(a)
     PROVE  DurableOf(p)'
  <2>1. mem' = mem /\ kind' = kind /\ field' = field
    BY <1>9 DEF Saved
  <2>2. p # a => pc'[p] = pc[p]
    BY <1>9 DEF Saved
  <2>3. CASE tgt[a] = "rules"
    <3>1. fstate'["rules"] = "ok" /\ content'["rules"] = mem["rules"]
      BY <1>9, <2>3, SavedRules
    <3>2. CASE p = a
      <4>1. kind[p] = "rules" => mem["rules"][field[p]] = "new"
        BY <1>9, <3>2 DEF Saved
      <4>2. kind[p] = "rules" => Durable(field[p])'
        BY <2>1, <3>1, <4>1 DEF Durable
      <4> QED
        BY <1>9, <2>1, <3>2, <4>1, <4>2 DEF Saved
    <3> QED
      BY <2>1, <2>2, <3>2
  <2>4. CASE tgt[a] = "settings"
    <3>1. kind[p] = "rules" => p # a
      BY <1>9, <2>4 DEF Saved, LockOf, InFlight, FileOf
    <3> QED
      BY <2>1, <2>2, <3>1
  <2> QED
    BY <2>3, <2>4
<1>10. ASSUME NEW a \in Actor, SaveFailed(a)
      PROVE  DurableOf(p)'
  <2>1. mem' = mem /\ kind' = kind /\ field' = field
    BY <1>10, FailedRules
  <2>2. pc'[p] \in {"ok", "same"} /\ kind[p] = "rules" => pc'[p] = pc[p]
    BY <1>10 DEF SaveFailed, Failed, BootFailed, RequestFailed
  <2>3. pc'[p] \in Saving => pc[p] \in Saving
    BY <1>10 DEF SaveFailed, Failed, BootFailed, RequestFailed
  <2> QED
    BY <2>1, <2>2, <2>3
<1>11. ASSUME LoadSettings
      PROVE  DurableOf(p)'
  BY <1>11 DEF LoadSettings, Goto, lock, disk
<1>12. ASSUME LoadRules
      PROVE  DurableOf(p)'
  <2>1. pc["boot"] = "loadrules" /\ pc'[p] = pc[p] /\ kind'[p] = kind[p] /\ field' = field
    BY <1>12 DEF LoadRules, Goto
  <2>2. pc[p] \notin Saving
    BY <2>1 DEF LockOf, InFlight
  <2> QED
    BY <2>1, <2>2
<1>13. ASSUME RulesUnreadable
      PROVE  DurableOf(p)'
  BY <1>13 DEF RulesUnreadable, Goto, lock, disk
<1>14. ASSUME Crash
      PROVE  DurableOf(p)'
  BY <1>14 DEF Crash, lock, disk
<1>15. ASSUME NEW c \in Conn, MatchRule(c)
      PROVE  DurableOf(p)'
  BY <1>15 DEF MatchRule, lock, disk
<1>15a. ASSUME NEW c \in Conn, Decide(c)
       PROVE  DurableOf(p)'
  BY <1>15a DEF Decide, lock, disk
<1>15b. ASSUME NEW c \in Conn, RefreshNodeECH(c)
       PROVE  DurableOf(p)'
  BY <1>15b DEF RefreshNodeECH, lock, disk
<1>16. ASSUME NEW c \in Conn, EmitRouteEvent(c)
      PROVE  DurableOf(p)'
  BY <1>16 DEF EmitRouteEvent, lock, disk
<1>17. ASSUME UNCHANGED vars
      PROVE  DurableOf(p)'
  BY <1>17 DEF vars, lock, disk
<1>18. QED
  BY <1>1, <1>2, <1>3, <1>4, <1>4a, <1>5, <1>6, <1>7, <1>8, <1>9, <1>10, <1>11, <1>12, <1>13, <1>14, <1>15, <1>15a, <1>15b, <1>16, <1>17 DEF Next, OpStep, SaveStep, BootStep

\* Every step keeps the account of where the fields set in memory come from.
LEMMA SourceStep ==
    ASSUME NobodyImports', TypeOK, LockInv, SnapInv, DurableInv, [Next]_vars, NEW f \in Op
    PROVE  SourceOf(f)'
<1>0. SourceOf(f) /\ Unmixed
  BY DEF DurableInv
<1>a. \A o \in Op : o # "boot" /\ o # "none"
  BY ConfigConstants
<1>b. (Durable(f) => Durable(f)') /\ (SaveRefused(f) => SaveRefused(f)')
  BY <1>0, DurableKept, RefusedStays
<1> USE <1>0, <1>a, <1>b DEF TypeOK, Actor, Saving, File, SavesRules, Loaded, SourceOf, BeingSaved
<1>1. ASSUME NEW o \in Op, NEW k \in Kinds, Request(o, k)
     PROVE  SourceOf(f)'
  BY <1>1 DEF Request, Goto, lock, disk
<1>2. ASSUME NEW o \in Op, Announce(o)
     PROVE  SourceOf(f)'
  BY <1>2 DEF Announce, Goto, lock, disk
<1>3. ASSUME NEW o \in Op, Assign(o)
     PROVE  SourceOf(f)'
  <2>1. tgt[o] \in File /\ pc[o] = "drain" /\ LockOf(o) /\ field[o] \in Op
    BY <1>3 DEF Assign, Enter, Goto, LockInv
  <2>2. mem' = [mem EXCEPT ![tgt[o]] = [mem[tgt[o]] EXCEPT ![field[o]] = "new"]]
    BY <1>3, <2>1 DEF Assign, Enter
  <2>3. CASE tgt[o] = "rules" /\ field[o] = f
    <3>1. kind[o] = "rules" /\ pc'[o] \in Saving /\ kind' = kind /\ field' = field
      BY <1>3, <2>1, <2>3 DEF Assign, Enter, Goto, LockOf, InFlight, FileOf
    <3> QED
      BY <2>3, <3>1
  <2>4. CASE ~(tgt[o] = "rules" /\ field[o] = f)
    <3>1. mem'["rules"][f] = mem["rules"][f]
      BY <2>1, <2>2, <2>4 DEF Contents
    <3> QED
      BY <1>3, <2>1, <3>1 DEF Assign, Enter, Goto, disk
  <2> QED
    BY <2>3, <2>4
<1>4. ASSUME NEW o \in Op, NoChange(o)
     PROVE  SourceOf(f)'
  BY <1>4 DEF NoChange, Returns, Goto, lock, disk
<1>4a. ASSUME NEW o \in Op, NotFound(o)
      PROVE  SourceOf(f)'
  BY <1>4a DEF NotFound, Returns, Goto, lock, disk
<1>5. ASSUME NEW o \in Op, SaveConfig(o)
     PROVE  SourceOf(f)'
  BY <1>5 DEF SaveConfig, SaveConfigLocks, Goto, lock, disk
<1>6. ASSUME NEW a \in Actor, BeginRead(a)
     PROVE  SourceOf(f)'
  BY <1>6 DEF BeginRead, Goto, lock, disk
<1>7. ASSUME NEW a \in Actor, EndRead(a)
     PROVE  SourceOf(f)'
  BY <1>7 DEF EndRead, Goto, lock, disk
<1>8. ASSUME NEW a \in Actor, Truncate(a)
     PROVE  SourceOf(f)'
  BY <1>8 DEF Truncate, Goto, lock, disk
<1>9. ASSUME NEW a \in Actor, Saved(a)
     PROVE  SourceOf(f)'
  <2>1. CASE tgt[a] = "rules"
    BY <1>9, <2>1, SavedRules DEF Saved, Durable
  <2>2. CASE tgt[a] = "settings"
    <3>1. mem' = mem /\ kind' = kind /\ field' = field /\ (Loaded' => Loaded)
      BY <1>9, <2>2 DEF Saved
    <3>2. \A w \in Op : kind[w] = "rules" /\ pc[w] \in Saving => pc'[w] = pc[w]
      BY <1>9, <2>2 DEF Saved, LockInv, LockOf, InFlight, FileOf
    <3> QED
      BY <3>1, <3>2
  <2> QED
    BY <2>1, <2>2
<1>10. ASSUME NEW a \in Actor, SaveFailed(a)
      PROVE  SourceOf(f)'
  <2>1. mem' = mem /\ kind' = kind /\ field' = field /\ (Loaded' => Loaded)
    BY <1>10, FailedRules
  <2>2. \A w \in Op : kind[w] = "rules" /\ pc[w] \in Saving => pc'[w] = pc[w] \/ pc'[w] = "err"
    BY <1>10 DEF SaveFailed, Failed, RequestFailed, BootFailed
  <2>3. BeingSaved(f) => BeingSaved(f)' \/ SaveRefused(f)'
    BY <2>1, <2>2 DEF SaveRefused
  <2> QED
    BY <2>1, <2>3
<1>11. ASSUME LoadSettings
      PROVE  SourceOf(f)'
  BY <1>11 DEF LoadSettings, Goto, lock, disk
<1>12. ASSUME LoadRules
      PROVE  SourceOf(f)'
  <2>1. CASE fstate["rules"] = "missing"
    BY <1>12, <2>1 DEF LoadRules, Old
  <2>2. CASE fstate["rules"] # "missing"
    <3>1. mem'["rules"] = content["rules"] /\ fstate' = fstate /\ content' = content
      BY <1>12, <2>2 DEF LoadRules, disk
    <3> QED
      BY <2>2, <3>1 DEF Durable
  <2> QED
    BY <2>1, <2>2
<1>13. ASSUME RulesUnreadable
      PROVE  SourceOf(f)'
  BY <1>13 DEF RulesUnreadable, Goto, lock, disk
<1>14. ASSUME Crash
      PROVE  SourceOf(f)'
  BY <1>14 DEF Crash, lock, disk
<1>15. ASSUME NEW c \in Conn, MatchRule(c)
      PROVE  SourceOf(f)'
  BY <1>15 DEF MatchRule, lock, disk
<1>15a. ASSUME NEW c \in Conn, Decide(c)
       PROVE  SourceOf(f)'
  BY <1>15a DEF Decide, lock, disk
<1>15b. ASSUME NEW c \in Conn, RefreshNodeECH(c)
       PROVE  SourceOf(f)'
  BY <1>15b DEF RefreshNodeECH, lock, disk
<1>16. ASSUME NEW c \in Conn, EmitRouteEvent(c)
      PROVE  SourceOf(f)'
  BY <1>16 DEF EmitRouteEvent, lock, disk
<1>17. ASSUME UNCHANGED vars
      PROVE  SourceOf(f)'
  BY <1>17 DEF vars, lock, disk
<1>18. QED
  BY <1>1, <1>2, <1>3, <1>4, <1>4a, <1>5, <1>6, <1>7, <1>8, <1>9, <1>10, <1>11, <1>12, <1>13, <1>14, <1>15, <1>15a, <1>15b, <1>16, <1>17 DEF Next, OpStep, SaveStep, BootStep

\* Together.
LEMMA DurableStep ==
    ASSUME NobodyImports', TypeOK, LockInv, SnapInv, DurableInv, [Next]_vars
    PROVE  DurableInv'
<1>1. Unmixed'
  BY NeverMixedStep DEF DurableInv
<1> QED
  BY <1>1, AnsweredStep, SourceStep DEF DurableInv
-----------------------------------------------------------------------------
\* Only a request that has not begun has no kind, so that kinds never change.
LEMMA FreshStep ==
    ASSUME TypeOK, FreshInv, [Next]_vars
    PROVE  FreshInv'
<1>1. \A o \in Op : o # "boot"
  BY ConfigConstants
<1> SUFFICES ASSUME NEW o \in Op, pc'[o] = "idle"
             PROVE  kind'[o] = "none"
  BY DEF FreshInv
<1>2. pc[o] = "idle"
  <2> USE <1>1 DEF TypeOK, Actor
  <2>1. ASSUME NEW q \in Op, OpStep(q)
        PROVE  pc[o] = "idle"
    BY <2>1 DEF OpStep, Announce, Assign, Enter, NoChange, NotFound, Returns, SaveConfig, SaveConfigLocks, Goto
  <2>2. ASSUME NEW a \in Actor, SaveStep(a)
        PROVE  pc[o] = "idle"
    BY <2>2 DEF SaveStep, BeginRead, EndRead, Truncate, Saved, SaveFailed, Failed, RequestFailed, BootFailed, Goto
  <2>3. ASSUME BootStep
        PROVE  pc[o] = "idle"
    BY <2>3 DEF BootStep, LoadSettings, LoadRules, RulesUnreadable, Goto
  <2>4. ASSUME Crash
        PROVE  pc[o] = "idle"
    BY <2>4 DEF Crash
  <2>6. ASSUME NEW q \in Op, NEW k \in Kinds, Request(q, k)
        PROVE  pc[o] = "idle"
    BY <2>6 DEF Request, Goto
  <2>5. ASSUME UNCHANGED pc
        PROVE  pc[o] = "idle"
    BY <2>5
  <2> QED
    BY <2>1, <2>2, <2>3, <2>4, <2>5, <2>6 DEF Next, MatchRule, Decide, RefreshNodeECH, EmitRouteEvent, vars
<1>3. kind[o] = "none"
  BY <1>2 DEF FreshInv
<1> QED
  BY <1>1, <1>2, <1>3 DEF TypeOK, Next, OpStep, SaveStep, BootStep, Request, Goto, Announce, Assign,
       Enter, NoChange, NotFound, Returns, SaveConfig, SaveConfigLocks, BeginRead, EndRead, Truncate, Saved, SaveFailed,
       Failed, LoadSettings, LoadRules, RulesUnreadable, Crash, MatchRule, Decide, RefreshNodeECH,
       EmitRouteEvent, vars, Actor

\* A request that was an import stays one.
LEMMA ImportsRemain ==
    ASSUME TypeOK, FreshInv, [Next]_vars, NobodyImports'
    PROVE  NobodyImports
<1>1. \A o \in Op : o # "boot"
  BY ConfigConstants
<1> SUFFICES ASSUME NEW o \in Op, kind[o] = "import"
             PROVE  kind'[o] = "import"
  BY DEF NobodyImports
<1>2. pc[o] # "idle"
  BY DEF FreshInv
<1> QED
  BY <1>1, <1>2 DEF TypeOK, Next, OpStep, SaveStep, BootStep, Request, Goto, Announce, Assign,
       Enter, NoChange, NotFound, Returns, SaveConfig, SaveConfigLocks, BeginRead, EndRead, Truncate, Saved, SaveFailed,
       Failed, LoadSettings, LoadRules, RulesUnreadable, Crash, MatchRule, Decide, RefreshNodeECH,
       EmitRouteEvent, vars, Actor

\* The inductive invariant: types always, the rest until somebody imports.
LEMMA ConfigInvariant ==
    Spec => []ConfigInv
<1>1. Init => ConfigInv
  <2>1. Init => FreshInv
    BY ConfigConstants DEF Init, FreshInv, Actor
  <2> QED
    BY <2>1, TypeInit, LockInit, SnapInit, DurableInit DEF ConfigInv
<1>2. ConfigInv /\ [Next]_vars => ConfigInv'
  <2> SUFFICES ASSUME TypeOK, FreshInv, NobodyImports => LockInv /\ SnapInv /\ DurableInv, [Next]_vars
               PROVE  TypeOK' /\ FreshInv' /\ (NobodyImports' => LockInv' /\ SnapInv' /\ DurableInv')
    BY DEF ConfigInv
  <2>1. NobodyImports' => NobodyImports
    BY ImportsRemain
  <2> QED
    BY <2>1, TypeStep, FreshStep, LockStep, SnapStep, DurableStep
<1> QED
  BY <1>1, <1>2, PTL DEF Spec

\* However many requests there are and whatever the locks, files and variables
\* go through, they keep their types.
THEOREM ConfigTypeCorrect == Spec => []TypeOK
BY TypeInit, TypeStep, PTL DEF Spec

\* For any number of requests, connections and crashes: as long as nobody
\* imports a configuration, a rules file that can be read holds every rule
\* change that was answered, because every save of it holds rm.mu; a change
\* answered because the memory had it already is there too, or the save that
\* should have put it there failed and its request was told so.
THEOREM AnsweredRulesSurvive ==
    Spec => []RulesFileKeepsAnswered
<1>1. ConfigInv => RulesFileKeepsAnswered
  BY DEF ConfigInv, DurableInv, DurableOf, Durable, RulesFileKeepsAnswered
<1> QED
  BY <1>1, ConfigInvariant, PTL

\* Under the same condition overlapping saves never mix two texts in it.
THEOREM RulesFileStaysParseable ==
    Spec => []RulesFileNeverMixed
<1>1. ConfigInv => RulesFileNeverMixed
  BY DEF ConfigInv, DurableInv, Unmixed, RulesFileNeverMixed
<1> QED
  BY <1>1, ConfigInvariant, PTL
=============================================================================
