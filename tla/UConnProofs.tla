----------------------------- MODULE UConnProofs -----------------------------
(***************************************************************************)
(* Proofs about UConn, for every set of identities, configurations, specs  *)
(* and caches and any number of calls.                                     *)
(*                                                                         *)
(* The three properties follow from one inductive invariant, which follows *)
(* the session through the objects that hold it: which of the extension    *)
(* objects may hold one (ObjectInv), what HandshakeState has taken over    *)
(* from them (HandshakeInv), whose identities are in the hello             *)
(* (IdentitiesInv), and what of them is in the marshalled bytes (RawInv),  *)
(* each as a function of the state of the session controller.              *)
(***************************************************************************)
EXTENDS UConn, TLAPS

TicketStates == {"TicketInit", "TicketAllSet"}
PskStates == {"PskInit", "PskAllSet"}

\* Which call may be where: the lock goes with the build status, and only a
\* locked session or HelloGolang reaches clientHandshake.
FlowInv ==
    /\ locked <=> status = "BuildByUtls"
    /\ id = "golang" => ~locked /\ pc \in {"idle", "handshake"}
    /\ id # "golang" => status # "BuildByGoTLS"
    /\ pc = "handshake" /\ id # "golang" => locked
    /\ pc = "preset" => ~locked
    /\ locked => state \notin {"TicketInit", "PskInit"}
    /\ vers # 0 => handshakes # 0

\* An extension object holds a session only if the controller's state says so,
\* and the controller then refers to an object of that kind; a fake may hold given
\* identities in any state.
ObjectInv ==
    /\ state \notin PskStates => \A o \in Owners : Common(o) = None
    /\ state \notin TicketStates => \A o \in Owners : ticketExt[o].session = None
    /\ state \in TicketStates => ctl.ticket # None
    /\ state \in PskStates => ctl.psk # None /\ pskExt[ctl.psk].session # None

\* What HandshakeState has taken over.  Only a handshake over TLS 1.2, or a failed
\* one, drops the early secret of a PSK, and the assertion of setPskToUConn keeps
\* such a state from the next handshake.
HandshakeInv ==
    id # "golang" =>
        /\ state \notin {"TicketAllSet", "PskAllSet"} => hs.session = None /\ hs.early = None
        /\ state = "TicketAllSet" => hs.session = ticketExt[ctl.ticket].session /\ hs.early = None
        /\ state = "PskAllSet" => /\ hs.session = Common(ctl.psk)
                                  /\ \/ hs.early = Common(ctl.psk)
                                     \/ hs.early = None /\ (vers = 12 \/ handshakeErr)
        /\ state = "PskAllSet" /\ pc = "handshake" =>
               hs.early = Common(ctl.psk) /\ hs.binderKey = Common(ctl.psk)

\* Hello.PskIdentities are those of the list's object, or of the controller's once
\* setPskToUConn has written them.
IdentitiesInv ==
    /\ id # "golang" => \/ hs.identities \in {None, list.psk}
                        \/ state = "PskAllSet" /\ hs.identities = ctl.psk
    /\ OnlyHandshakeAltersPsk

\* Before a preset is applied nothing is listed and nothing marshalled; between
\* the marshalling and the handshake the bytes carry what the listed objects hold.
RawInv ==
    id # "golang" =>
        /\ ~shares => /\ list.ticket = None /\ list.psk = None
                      /\ raw.ticket = None /\ raw.psk = None
        /\ pc \in {"patch", "handshake"} /\ ~EchUnusable =>
               /\ raw.ticket = Marshalled.ticket
               /\ raw.psk = Marshalled.psk
        /\ /\ pc = "handshake" /\ list.psk = ctl.psk /\ ctl.psk # None /\ state \in PskStates
           /\ ~pskExt[ctl.psk].fake
           => raw.binders = "good"

UConnInv == TypeOK /\ FlowInv /\ ObjectInv /\ HandshakeInv /\ IdentitiesInv /\ RawInv

-----------------------------------------------------------------------------
\* What a handshake, successful or not, does to the outcome.
LEMMA FinishTypes ==
    ASSUME TypeOK, NEW h, NEW session \in SessionOrNone, Finish(h, session)
    PROVE  /\ cache' \in SessionOrNone \cup {"nil"}
           /\ handshakes' \in Nat /\ vers' \in {0, 12, 13}
           /\ handshakeErr' \in BOOLEAN
           /\ panicked' \in {panicked, "nilCache", "nilSession"}
<1> USE DEF TypeOK, ConfigOK, CallOK, SessionOrNone, Sessions, Sessions12, Sessions13, None
<1>1. CASE /\ handshakes' = handshakes + 1
           /\ vers' \in IF handshakes = 0 THEN {12, 13} ELSE {vers}
           /\ cache' \in IF SessionsOff THEN {cache}
                         ELSE {cache, IF vers' = 12 THEN "cached12" ELSE "cached13"}
           /\ UNCHANGED <<handshakeErr, panicked>>
  <2>1. handshakes' \in Nat /\ vers' \in {0, 12, 13}
    BY <1>1
  <2>2. cache' \in SessionOrNone \cup {"nil"}
    BY <1>1
  <2> QED
    BY <1>1, <2>1, <2>2
<1>2. CASE /\ handshakeErr' = TRUE
           /\ cache' = IF session # None THEN None ELSE cache
           /\ UNCHANGED <<handshakes, vers, panicked>>
  BY <1>2
<1>3. CASE /\ panicked' \in {"nilCache", "nilSession"}
           /\ UNCHANGED <<handshakes, vers, handshakeErr, cache>>
  BY <1>3
<1> QED
  BY <1>1, <1>2, <1>3 DEF Finish

\* What it does to the handshake state: the session is that of the handshake or
\* unchanged, and only TLS 1.2 or a failure drops the early secret.
LEMMA FinishHello ==
    ASSUME TypeOK, NEW h \in HandshakeStates, NEW session, Finish(h, session)
    PROVE  /\ hs' \in HandshakeStates /\ keys' \in BOOLEAN
           /\ h = hs => /\ hs'.session = hs.session /\ hs'.identities = hs.identities
                        /\ \/ hs'.early = hs.early
                           \/ hs'.early = None /\ (vers' = 12 \/ handshakeErr')
           /\ panicked' # panicked => panicked' \in {"nilCache", "nilSession"}
<1> USE DEF TypeOK, HelloOK, CallOK, HandshakeStates, SessionOrNone
<1>1. Without13(h) \in HandshakeStates
  BY DEF Without13
<1>2. Without13(h).session = h.session /\ Without13(h).early = None
      /\ Without13(h).identities = h.identities
  BY DEF Without13
<1>3. h.ticket \in SessionOrNone /\ [hs EXCEPT !.ticket = h.ticket] \in HandshakeStates
  OBVIOUS
<1>4. CASE /\ handshakes' = handshakes + 1
           /\ vers' \in IF handshakes = 0 THEN {12, 13} ELSE {vers}
           /\ hs' = IF vers' = 12 THEN Without13(h) ELSE h
           /\ keys' = (keys /\ vers' = 13)
           /\ UNCHANGED <<handshakeErr, panicked>>
  BY <1>1, <1>2, <1>4
<1>5. CASE /\ handshakeErr' = TRUE
           /\ \/ hs' \in {h, [hs EXCEPT !.ticket = h.ticket]} /\ UNCHANGED keys
              \/ hs' = Without13(h) /\ keys' = FALSE
           /\ UNCHANGED <<handshakes, vers, panicked>>
  BY <1>1, <1>2, <1>3, <1>5
<1>6. CASE /\ panicked' \in {"nilCache", "nilSession"}
           /\ UNCHANGED <<handshakes, vers, handshakeErr, hs, keys>>
  BY <1>6
<1> QED
  BY <1>4, <1>5, <1>6 DEF Finish

\* A version goes with a completed handshake, and later ones keep it.
LEMMA FinishCounts ==
    ASSUME TypeOK, vers # 0 => handshakes # 0, NEW h, NEW session, Finish(h, session)
    PROVE  /\ vers' # 0 => handshakes' # 0
           /\ vers = 12 => vers' = 12
           /\ handshakeErr => handshakeErr'
BY DEF TypeOK, CallOK, Finish

\* A PSK object holds a session or, if it is a fake, given identities.
LEMMA PskObject ==
    ASSUME TypeOK, NEW o \in Owners
    PROVE  /\ pskExt[o].session \in SessionOrNone \cup {"given"} /\ pskExt[o].fake \in BOOLEAN
           /\ ~pskExt[o].fake => pskExt[o].session \in SessionOrNone
           /\ Common(o) \in SessionOrNone
           /\ Common(o) # None => ~pskExt[o].fake
<1>1. pskExt[o] \in UtlsPsk \cup FakePsk
  BY DEF TypeOK, ControllerOK
<1>2. CASE pskExt[o] \in UtlsPsk
  BY <1>2 DEF UtlsPsk, Common
<1>3. CASE pskExt[o] \in FakePsk
  BY <1>3 DEF FakePsk, Common, SessionOrNone
<1> QED
  BY <1>1, <1>2, <1>3

\* Once a session is loaded into it, it holds that session.
LEMMA LoadedPsk ==
    ASSUME TypeOK, NEW session \in SessionOrNone, LoadPanic(session) = None, LoadPsk(session)
    PROVE  /\ ctl.psk \in Owners /\ state = "NoSession" /\ session # None
           /\ pskExt' = [pskExt EXCEPT ![ctl.psk] = [fake |-> FALSE, session |-> session]]
<1>1. ctl.psk \in Owners /\ session \in Sessions13 /\ session \notin Sessions12
  BY DEF TypeOK, ControllerOK, LoadPsk, Sessions12, Sessions13
<1>2. state = "NoSession" /\ session # None
  BY <1>1 DEF LoadPanic, Sessions13, None
<1> QED
  BY <1>1, <1>2 DEF LoadPsk

\* The session clientHandshake loads itself comes from the cache.
LEMMA LoadedByGoTLS ==
    ASSUME TypeOK, NEW session \in IF SessionsOff \/ handshakes > 0 THEN {None} ELSE {None, cache}
    PROVE  session \in SessionOrNone
BY DEF TypeOK, ConfigOK, SessionsOff, SessionOrNone

-----------------------------------------------------------------------------
\* A call that builds the hello.
Building ==
    /\ Idle /\ calls < MaxCalls
    /\ \E c \in Calls \ {None} : buildHandshakeState(c)

\* The steps of a connection, the calls that build being taken together.
LEMMA NextCases ==
    ASSUME [Next]_vars
    PROVE  \/ SetSessionTicketExtension \/ SetSessionState \/ SetPskExtension \/ SetSessionCache
           \/ ApplyPresetCustom \/ Building \/ applyPresetByID \/ ApplyConfig
           \/ SkipLoad \/ SetTicket \/ SetPsk \/ uLoadSession
           \/ MarshalClientHello \/ ApplyPatch
           \/ ClientHandshakeLocked \/ ClientHandshakeGoTLS
           \/ UNCHANGED vars
BY DEF Next, Building, BuildHandshakeState, BuildHandshakeStateWithoutSession, Handshake,
       HandleRenegotiation, Over, Calls, None

\* The configuration stays, the cache holds a session or nothing.
LEMMA ConfigOKStep ==
    ASSUME TypeOK, [Next]_vars
    PROVE  ConfigOK'
<1> USE DEF TypeOK, ConfigOK, fixed, outcome
<1>1. CASE SetSessionTicketExtension
  BY <1>1 DEF SetSessionTicketExtension, Set, Panic, overrideSessionTicketExt
<1>2. CASE SetSessionState
  BY <1>2 DEF SetSessionState, Set, Panic, overrideSessionTicketExt
<1>3. CASE SetPskExtension
  BY <1>3 DEF SetPskExtension, Set, Panic, overridePskExt
<1>4. CASE SetSessionCache
  BY <1>4 DEF SetSessionCache, SessionOrNone, Sessions, Sessions12, Sessions13, None
<1>5. CASE ApplyPresetCustom
  BY <1>5 DEF ApplyPresetCustom, ApplyPreset, syncSessionExts
<1>6. CASE Building
  BY <1>6 DEF Building, buildHandshakeState
<1>7. CASE applyPresetByID
  BY <1>7 DEF applyPresetByID, ApplyPreset, syncSessionExts, Panic, Return, Continue
<1>8. CASE ApplyConfig
  BY <1>8 DEF ApplyConfig, Return, Continue
<1>9. CASE SkipLoad
  BY <1>9 DEF SkipLoad, Quiet, Continue
<1>10. CASE SetTicket
  BY <1>10 DEF SetTicket, Quiet, Continue, setSessionTicketToUConn
<1>11. CASE SetPsk
  BY <1>11 DEF SetPsk, Quiet, Continue, setPskToUConn
<1>12. CASE uLoadSession
  BY <1>12 DEF uLoadSession, LoadPanic, Panic, LoadTicket, LoadPsk, LoadNothing, setSessionTicketToUConn, Continue, Quiet
<1>13. CASE MarshalClientHello
  BY <1>13 DEF MarshalClientHello, Return, Continue
<1>14. CASE ApplyPatch
  BY <1>14 DEF ApplyPatch, Panic, updateBinders, setPskToUConn, Continue
<1>15. CASE ClientHandshakeLocked
  <2>1. PICK session \in SessionOrNone : Finish(hs, session)
    BY <1>15 DEF ClientHandshakeLocked, HelloOK, HandshakeStates
  <2> QED
    BY <1>15, <2>1, FinishTypes DEF ClientHandshakeLocked
<1>16. CASE ClientHandshakeGoTLS
  BY <1>16, FinishTypes, LoadedByGoTLS DEF ClientHandshakeGoTLS, Panic
<1>17. CASE UNCHANGED vars
  BY <1>17 DEF vars
<1> QED
  BY NextCases, <1>1, <1>2, <1>3, <1>4, <1>5, <1>6, <1>7, <1>8, <1>9,
     <1>10, <1>11, <1>12, <1>13, <1>14, <1>15, <1>16, <1>17

\* The controller and the extension objects keep their types.
LEMMA ControllerOKStep ==
    ASSUME TypeOK, ObjectInv, [Next]_vars
    PROVE  ControllerOK'
<1> USE DEF TypeOK, ConfigOK, ControllerOK, controller, fixed, outcome
<1>1. CASE SetSessionTicketExtension
  BY <1>1 DEF SetSessionTicketExtension, Set, Panic, overrideSessionTicketExt, States, Owners, SessionOrNone, Sessions, Sessions12, None
<1>2. CASE SetSessionState
  <2>1. PICK session \in {None, "user12"} : Set(overrideSessionTicketExt(session, TRUE))
    BY <1>2 DEF SetSessionState
  <2>2. session \in SessionOrNone /\ "TicketInit" \in States /\ "user" \in Owners
    BY DEF States, Owners, SessionOrNone, Sessions, Sessions12, None
  <2>3. CASE Panic("override")
    BY <2>3 DEF Panic
  <2>4. CASE overrideSessionTicketExt(session, TRUE) /\ UNCHANGED <<locked, tracker>>
    BY <2>2, <2>4 DEF overrideSessionTicketExt
  <2> QED
    BY <2>1, <2>3, <2>4 DEF Set
<1>3. CASE SetPskExtension
  <2>1. PICK ext \in [fake : {FALSE}, session : {None, "user13"}] \cup FakePsk :
            Set(overridePskExt(ext))
    BY <1>3 DEF SetPskExtension
  <2>2. ext \in UtlsPsk \cup FakePsk /\ "PskInit" \in States /\ "user" \in Owners
    BY DEF States, Owners, UtlsPsk, SessionOrNone, Sessions, Sessions13
  <2>3. CASE Panic("override")
    BY <2>3 DEF Panic
  <2>4. CASE overridePskExt(ext) /\ UNCHANGED <<locked, tracker>>
    BY <2>2, <2>4 DEF overridePskExt
  <2> QED
    BY <2>1, <2>3, <2>4 DEF Set
<1>4. CASE SetSessionCache
  BY <1>4 DEF SetSessionCache
<1>5. CASE ApplyPresetCustom
  BY <1>5 DEF ApplyPresetCustom, ApplyPreset, syncSessionExts, Taken, Owners, None
<1>6. CASE Building
  BY <1>6 DEF Building, buildHandshakeState
<1>7. CASE applyPresetByID
  BY <1>7 DEF applyPresetByID, ApplyPreset, syncSessionExts, Panic, Return, Continue, Taken, Owners, None
<1>8. CASE ApplyConfig
  BY <1>8 DEF ApplyConfig, Return, Continue
<1>9. CASE SkipLoad
  BY <1>9 DEF SkipLoad, Quiet, Continue
<1>10. CASE SetTicket
  BY <1>10 DEF SetTicket, Quiet, Continue, setSessionTicketToUConn, States
<1>11. CASE SetPsk
  BY <1>11 DEF SetPsk, Quiet, Continue, setPskToUConn, States
<1>12. CASE uLoadSession
  <2>0. PICK session \in {None, cache} :
            IF LoadPanic(session) # None THEN Panic(LoadPanic(session))
            ELSE /\ LoadTicket(session) \/ LoadPsk(session) \/ LoadNothing(session)
                 /\ tracker' = "CalledByULoadSession"
                 /\ Continue("marshal")
                 /\ Quiet /\ UNCHANGED ctl
    BY <1>12 DEF uLoadSession
  <2>1. CASE Panic(LoadPanic(session))
    BY <2>1 DEF Panic
  <2>2. CASE LoadPanic(session) = None /\ LoadTicket(session)
    <3>1. ctl.ticket \in Owners
      BY <2>2 DEF LoadPanic, LoadTicket, None
    <3> QED
      BY <2>0, <2>2, <3>1 DEF LoadTicket, setSessionTicketToUConn, Quiet, States, SessionOrNone, Sessions
  <2>3. CASE LoadPanic(session) = None /\ LoadPsk(session)
    <3>1. session \in SessionOrNone
      BY <2>3 DEF LoadPsk, SessionOrNone, Sessions
    <3>2. [fake |-> FALSE, session |-> session] \in UtlsPsk
      BY <3>1 DEF UtlsPsk
    <3>3. /\ ctl.psk \in Owners
          /\ pskExt' = [pskExt EXCEPT ![ctl.psk] = [fake |-> FALSE, session |-> session]]
      BY <2>3, <3>1, LoadedPsk
    <3> QED
      BY <2>0, <2>3, <3>2, <3>3 DEF LoadPsk, Quiet, States
  <2>4. CASE LoadPanic(session) = None /\ LoadNothing(session)
    BY <2>0, <2>4 DEF LoadNothing, Quiet
  <2> QED
    BY <2>0, <2>1, <2>2, <2>3, <2>4
<1>13. CASE MarshalClientHello
  BY <1>13 DEF MarshalClientHello, Return, Continue
<1>14. CASE ApplyPatch
  <2>1. CASE UNCHANGED <<state, locked, tracker, ticketExt, pskExt, ctl>>
    BY <2>1
  <2>2. CASE /\ shouldUpdateBinders /\ updateBinders /\ setPskToUConn
             /\ locked' = TRUE /\ UNCHANGED <<tracker, ticketExt, pskExt, ctl>>
    BY <2>2 DEF setPskToUConn, States
  <2>3. CASE locked' = TRUE /\ UNCHANGED <<state, tracker, ticketExt, pskExt, ctl>>
    BY <2>3
  <2> QED
    BY <1>14, <2>1, <2>2, <2>3 DEF ApplyPatch, Panic
<1>15. CASE ClientHandshakeLocked
  BY <1>15 DEF ClientHandshakeLocked
<1>16. CASE ClientHandshakeGoTLS
  BY <1>16 DEF ClientHandshakeGoTLS, Panic
<1>17. CASE UNCHANGED vars
  BY <1>17 DEF vars
<1> QED
  BY NextCases, <1>1, <1>2, <1>3, <1>4, <1>5, <1>6, <1>7, <1>8, <1>9,
     <1>10, <1>11, <1>12, <1>13, <1>14, <1>15, <1>16, <1>17

\* The calls, their steps and their outcome keep their types.
LEMMA CallOKStep ==
    ASSUME TypeOK, [Next]_vars
    PROVE  CallOK'
<1> USE MaxCallsAssumption DEF TypeOK, CallOK, fixed, outcome, Steps, Calls, None
<1>1. CASE SetSessionTicketExtension
  BY <1>1 DEF SetSessionTicketExtension, Set, Panic, overrideSessionTicketExt
<1>2. CASE SetSessionState
  BY <1>2 DEF SetSessionState, Set, Panic, overrideSessionTicketExt
<1>3. CASE SetPskExtension
  BY <1>3 DEF SetPskExtension, Set, Panic, overridePskExt
<1>4. CASE SetSessionCache
  BY <1>4 DEF SetSessionCache
<1>5. CASE ApplyPresetCustom
  BY <1>5 DEF ApplyPresetCustom, ApplyPreset, syncSessionExts
<1>6. CASE Building
  BY <1>6 DEF Building, buildHandshakeState
<1>7. CASE applyPresetByID
  BY <1>7 DEF applyPresetByID, ApplyPreset, syncSessionExts, Panic, Return, Continue
<1>8. CASE ApplyConfig
  BY <1>8 DEF ApplyConfig, Return, Continue
<1>9. CASE SkipLoad
  BY <1>9 DEF SkipLoad, Quiet, Continue
<1>10. CASE SetTicket
  BY <1>10 DEF SetTicket, Quiet, Continue, setSessionTicketToUConn
<1>11. CASE SetPsk
  BY <1>11 DEF SetPsk, Quiet, Continue, setPskToUConn
<1>12. CASE uLoadSession
  BY <1>12 DEF uLoadSession, LoadPanic, Panic, LoadTicket, LoadPsk, LoadNothing, setSessionTicketToUConn, Continue, Quiet
<1>13. CASE MarshalClientHello
  BY <1>13 DEF MarshalClientHello, Return, Continue
<1>14. CASE ApplyPatch
  BY <1>14 DEF ApplyPatch, Panic, updateBinders, setPskToUConn, Continue
<1>15. CASE ClientHandshakeLocked
  <2>1. PICK session \in SessionOrNone :
            Finish(hs, session) /\ pc' = "idle" /\ call' = None /\ UNCHANGED <<status, calls>>
    BY <1>15 DEF ClientHandshakeLocked, Return, HelloOK, HandshakeStates
  <2> QED
    BY <2>1, FinishTypes
<1>16. CASE ClientHandshakeGoTLS
  <2>1. CASE Panic("loadTwice")
    BY <2>1 DEF Panic
  <2>2. CASE ~Panic("loadTwice")
    <3>1. PICK session \in IF SessionsOff \/ handshakes > 0 THEN {None} ELSE {None, cache} :
              /\ Finish(Loaded(session), session)
              /\ pc' = "idle" /\ call' = None /\ UNCHANGED <<status, calls>>
      BY <1>16, <2>2 DEF ClientHandshakeGoTLS, Return
    <3>2. session \in SessionOrNone
      BY LoadedByGoTLS
    <3> QED
      BY <3>1, <3>2, FinishTypes
  <2> QED
    BY <2>1, <2>2
<1>17. CASE UNCHANGED vars
  BY <1>17 DEF vars
<1> QED
  BY NextCases, <1>1, <1>2, <1>3, <1>4, <1>5, <1>6, <1>7, <1>8, <1>9,
     <1>10, <1>11, <1>12, <1>13, <1>14, <1>15, <1>16, <1>17

\* ApplyPreset gives the hello its extensions, shares and keys.
LEMMA PresetTypes ==
    ASSUME TypeOK, ApplyPreset
    PROVE  HelloOK'
<1> USE DEF TypeOK, ControllerOK, HelloOK, HandshakeStates, RawHellos, ApplyPreset, syncSessionExts
<1>1. list' \in [ticket : Owners \cup {None}, psk : Owners \cup {None}]
  BY DEF Taken, Owners
<1>2. shares' \in BOOLEAN /\ keys' \in BOOLEAN
  OBVIOUS
<1>3. hs' \in HandshakeStates
  BY DEF SessionOrNone
<1>4. raw' \in RawHellos
  BY DEF NoRaw, SessionOrNone
<1> QED
  BY <1>1, <1>2, <1>3, <1>4

\* What is marshalled has the type of a hello.
LEMMA MarshalledType ==
    ASSUME TypeOK
    PROVE  Marshalled \in RawHellos
<1> DEFINE psk == IF list.psk = None THEN None ELSE pskExt[list.psk].session
<1>1. list.psk # None => list.psk \in Owners
  BY DEF TypeOK, HelloOK
<1>2. psk \in SessionOrNone \cup {"given"}
  BY <1>1, PskObject DEF SessionOrNone
<1>3. Marshalled.ticket \in SessionOrNone
  BY DEF TypeOK, ControllerOK, HelloOK, Marshalled, SessionOrNone
<1> QED
  BY <1>2, <1>3 DEF Marshalled, RawHellos

\* The hello and the handshake state keep their types.
LEMMA HelloOKStep ==
    ASSUME TypeOK, ObjectInv, [Next]_vars
    PROVE  HelloOK'
<1> USE DEF TypeOK, ControllerOK, HelloOK, fixed, outcome
<1>1. CASE SetSessionTicketExtension
  BY <1>1 DEF SetSessionTicketExtension, Set, Panic, overrideSessionTicketExt
<1>2. CASE SetSessionState
  BY <1>2 DEF SetSessionState, Set, Panic, overrideSessionTicketExt
<1>3. CASE SetPskExtension
  BY <1>3 DEF SetPskExtension, Set, Panic, overridePskExt
<1>4. CASE SetSessionCache
  BY <1>4 DEF SetSessionCache
<1>5. CASE ApplyPresetCustom
  BY <1>5, PresetTypes DEF ApplyPresetCustom
<1>6. CASE Building
  <2>1. (shares \in BOOLEAN /\ keys \in BOOLEAN)'
    BY <1>6 DEF Building, buildHandshakeState
  <2>2. UNCHANGED <<list, hs, raw>>
    BY <1>6 DEF Building, buildHandshakeState
  <2> QED
    BY <2>1, <2>2
<1>7. CASE applyPresetByID
  <2>1. CASE UNCHANGED <<list, shares, keys, hs, raw>>
    BY <2>1
  <2>2. CASE ApplyPreset
    BY <2>2, PresetTypes
  <2> QED
    BY <1>7, <2>1, <2>2 DEF applyPresetByID, Panic
<1>8. CASE ApplyConfig
  <2>1. WrittenIdentities \in Owners \cup {None}
    BY DEF WrittenIdentities, HandshakeStates
  <2>2. hs' \in HandshakeStates
    BY <1>8, <2>1 DEF ApplyConfig, HandshakeStates
  <2>3. raw' \in RawHellos
    BY <1>8, MarshalledType DEF ApplyConfig
  <2> QED
    BY <1>8, <2>2, <2>3 DEF ApplyConfig
<1>9. CASE SkipLoad
  BY <1>9 DEF SkipLoad, Quiet, Continue
<1>10. CASE SetTicket
  <2>1. ctl.ticket \in Owners
    BY <1>10 DEF SetTicket, ObjectInv, TicketStates
  <2>2. hs' \in HandshakeStates
    BY <1>10, <2>1 DEF SetTicket, setSessionTicketToUConn, HandshakeStates
  <2> QED
    BY <1>10, <2>2 DEF SetTicket, Quiet
<1>11. CASE SetPsk
  <2>1. ctl.psk \in Owners
    BY <1>11 DEF SetPsk, ObjectInv, PskStates
  <2>2. hs' \in HandshakeStates
    BY <1>11, <2>1, PskObject DEF SetPsk, setPskToUConn, HandshakeStates
  <2> QED
    BY <1>11, <2>2 DEF SetPsk, Quiet
<1>12. CASE uLoadSession
  <2>1. CASE UNCHANGED hs
    BY <1>12, <2>1 DEF uLoadSession, Panic, Quiet
  <2>2. CASE \E session \in Sessions12 : hs' = [hs EXCEPT !.session = session, !.ticket = session]
    <3>1. hs' \in HandshakeStates
      BY <2>2 DEF SessionOrNone, Sessions, HandshakeStates
    <3> QED
      BY <1>12, <3>1 DEF uLoadSession, Panic, Quiet
  <2> QED
    BY <1>12, <2>1, <2>2 DEF uLoadSession, Panic, LoadTicket, LoadPsk, LoadNothing, setSessionTicketToUConn
<1>13. CASE MarshalClientHello
  BY <1>13, MarshalledType DEF MarshalClientHello, Return
<1>14. CASE ApplyPatch
  <2>1. CASE UNCHANGED <<hs, raw>>
    BY <1>14, <2>1 DEF ApplyPatch, Panic
  <2>2. CASE /\ shouldUpdateBinders /\ updateBinders /\ setPskToUConn
             /\ UNCHANGED <<list, shares, keys>>
    <3>1. ctl.psk \in Owners
      BY <2>2 DEF shouldUpdateBinders
    <3>2. hs' \in HandshakeStates
      BY <2>2, <3>1, PskObject DEF setPskToUConn, HandshakeStates
    <3>3. raw' \in RawHellos
      BY <2>2 DEF updateBinders, RawHellos
    <3> QED
      BY <2>2, <3>2, <3>3
  <2> QED
    BY <1>14, <2>1, <2>2 DEF ApplyPatch, Panic
<1>15. CASE ClientHandshakeLocked
  <2>1. hs' \in HandshakeStates /\ keys' \in BOOLEAN
    BY <1>15, FinishHello DEF ClientHandshakeLocked
  <2> QED
    BY <1>15, <2>1 DEF ClientHandshakeLocked
<1>16. CASE ClientHandshakeGoTLS
  <2>1. CASE UNCHANGED <<list, shares, keys, hs, raw>>
    BY <2>1
  <2>2. CASE ~UNCHANGED <<list, shares, keys, hs, raw>>
    <3>1. PICK session \in IF SessionsOff \/ handshakes > 0 THEN {None} ELSE {None, cache} :
              Finish(Loaded(session), session) /\ UNCHANGED <<list, shares, raw>>
      BY <1>16, <2>2 DEF ClientHandshakeGoTLS, Panic
    <3>2. session \in SessionOrNone /\ None \in SessionOrNone
      BY LoadedByGoTLS DEF SessionOrNone
    <3>3. Loaded(session) \in HandshakeStates
      BY <3>2 DEF Loaded, HandshakeStates
    <3>4. hs' \in HandshakeStates /\ keys' \in BOOLEAN
      BY <3>1, <3>3, FinishHello
    <3> QED
      BY <3>1, <3>4
  <2> QED
    BY <2>1, <2>2
<1>17. CASE UNCHANGED vars
  BY <1>17 DEF vars
<1> QED
  BY NextCases, <1>1, <1>2, <1>3, <1>4, <1>5, <1>6, <1>7, <1>8, <1>9,
     <1>10, <1>11, <1>12, <1>13, <1>14, <1>15, <1>16, <1>17

\* A new connection has the right types.
LEMMA TypeInit == Init => TypeOK
<1> SUFFICES ASSUME Init
             PROVE  TypeOK
  OBVIOUS
<1> USE DEF Init, SessionOrNone, Sessions, Sessions12, Sessions13, None
<1>1. ConfigOK
  BY CachesAssumption DEF ConfigOK
<1>2. ControllerOK
  <2>1. NoPsk \in UtlsPsk
    BY DEF NoPsk, UtlsPsk
  <2>2. pskExt \in [Owners -> UtlsPsk \cup FakePsk]
    BY <2>1 DEF SpecPsk
  <2> QED
    BY <2>2 DEF ControllerOK, States, Owners
<1>3. HelloOK
  BY DEF HelloOK, NoRaw, NoHandshakeState, HandshakeStates, RawHellos
<1>4. CallOK
  <2>1. calls \in 0..MaxCalls /\ handshakes \in Nat
    BY MaxCallsAssumption
  <2> QED
    BY <2>1 DEF CallOK, Steps, Calls
<1> QED
  BY <1>1, <1>2, <1>3, <1>4 DEF TypeOK

\* Every step keeps the types.
LEMMA TypeStep ==
    ASSUME TypeOK, ObjectInv, [Next]_vars
    PROVE  TypeOK'
BY ConfigOKStep, ControllerOKStep, HelloOKStep, CallOKStep DEF TypeOK

-----------------------------------------------------------------------------

\* Every step keeps what is known of where a call is.
LEMMA FlowStep ==
    ASSUME TypeOK, FlowInv, [Next]_vars
    PROVE  FlowInv'
<1> USE DEF TypeOK, ControllerOK, CallOK, FlowInv, fixed, controller, outcome, Idle, At
<1>1. CASE SetSessionTicketExtension
  BY <1>1 DEF SetSessionTicketExtension, Set, Panic, overrideSessionTicketExt, OverridePanics
<1>2. CASE SetSessionState
  BY <1>2 DEF SetSessionState, Set, Panic, overrideSessionTicketExt, OverridePanics
<1>3. CASE SetPskExtension
  BY <1>3 DEF SetPskExtension, Set, Panic, overridePskExt, OverridePanics
<1>4. CASE SetSessionCache
  BY <1>4 DEF SetSessionCache
<1>5. CASE ApplyPresetCustom
  BY <1>5 DEF ApplyPresetCustom, ApplyPreset
<1>6. CASE Building
  BY <1>6 DEF Building, buildHandshakeState
<1>7. CASE applyPresetByID
  BY <1>7 DEF applyPresetByID, ApplyPreset, Panic, Return, Continue
<1>8. CASE ApplyConfig
  BY <1>8 DEF ApplyConfig, Return, Continue
<1>9. CASE SkipLoad
  BY <1>9 DEF SkipLoad, Quiet, Continue
<1>10. CASE SetTicket
  BY <1>10 DEF SetTicket, Quiet, Continue, setSessionTicketToUConn
<1>11. CASE SetPsk
  BY <1>11 DEF SetPsk, Quiet, Continue, setPskToUConn
<1>12. CASE uLoadSession
  <2>1. ~locked /\ id # "golang" /\ status = "NotBuilt"
    BY <1>12 DEF uLoadSession, shouldReturn
  <2>2. UNCHANGED <<locked, status, id>>
    BY <1>12 DEF uLoadSession, Panic, Quiet
  <2>3. pc' \in {"load", "marshal"}
    BY <1>12 DEF uLoadSession, Panic, Continue
  <2>4. UNCHANGED <<vers, handshakes>>
    BY <1>12 DEF uLoadSession, Panic, Quiet
  <2> QED
    BY <2>1, <2>2, <2>3, <2>4
<1>13. CASE MarshalClientHello
  BY <1>13 DEF MarshalClientHello, Return, Continue
<1>14. CASE ApplyPatch
  BY <1>14 DEF ApplyPatch, Panic, updateBinders, setPskToUConn, Continue
<1>15. CASE ClientHandshakeLocked
  <2>1. vers' # 0 => handshakes' # 0
    BY <1>15, FinishCounts DEF ClientHandshakeLocked
  <2> QED
    BY <1>15, <2>1 DEF ClientHandshakeLocked, Return
<1>16. CASE ClientHandshakeGoTLS
  <2>1. vers' # 0 => handshakes' # 0
    BY <1>16, FinishCounts DEF ClientHandshakeGoTLS, Panic
  <2> QED
    BY <1>16, <2>1 DEF ClientHandshakeGoTLS, Panic, Return
<1>17. CASE UNCHANGED vars
  BY <1>17 DEF vars
<1> QED
  BY NextCases, <1>1, <1>2, <1>3, <1>4, <1>5, <1>6, <1>7, <1>8, <1>9,
     <1>10, <1>11, <1>12, <1>13, <1>14, <1>15, <1>16, <1>17

\* The objects matter only to the actions that change them or the controller.
LEMMA ObjectFrame ==
    ASSUME ObjectInv, UNCHANGED <<state, ticketExt, pskExt, ctl>>
    PROVE  ObjectInv'
BY DEF ObjectInv, Common

\* The user's ticket extension is taken only when there is no session yet.
LEMMA ObjectTicketSet ==
    ASSUME TypeOK, ObjectInv, ~OverridePanics, NEW session, NEW init \in BOOLEAN,
           session # None => init,
           overrideSessionTicketExt(session, init)
    PROVE  ObjectInv'
BY DEF TypeOK, ControllerOK, ObjectInv, TicketStates, PskStates, overrideSessionTicketExt,
       OverridePanics, Common, Owners, None

\* ApplyPreset keeps the object whose session is to be used.
LEMMA ObjectPreset ==
    ASSUME TypeOK, ObjectInv, ~SyncPanics, ApplyPreset
    PROVE  ObjectInv'
BY DEF TypeOK, ControllerOK, ObjectInv, TicketStates, PskStates, ApplyPreset, syncSessionExts,
       SyncPanics, Taken, DropTicket, DropPsk, Common, None

\* Every step keeps what the extension objects may hold.
LEMMA ObjectStep ==
    ASSUME TypeOK, FlowInv, ObjectInv, [Next]_vars
    PROVE  ObjectInv'
<1> USE DEF TypeOK, ControllerOK, ObjectInv, TicketStates, PskStates, Common, fixed, controller, outcome
<1>1. CASE SetSessionTicketExtension
  <2>1. PICK init \in BOOLEAN :
            Set(overrideSessionTicketExt(IF init THEN "user12" ELSE None, init))
    BY <1>1 DEF SetSessionTicketExtension
  <2> QED
    BY <2>1, ObjectTicketSet, ObjectFrame DEF Set, Panic
<1>2. CASE SetSessionState
  <2>1. PICK session \in {None, "user12"} : Set(overrideSessionTicketExt(session, TRUE))
    BY <1>2 DEF SetSessionState
  <2> QED
    BY <2>1, ObjectTicketSet, ObjectFrame DEF Set, Panic
<1>3. CASE SetPskExtension
  <2>1. PICK ext \in [fake : {FALSE}, session : {None, "user13"}] \cup FakePsk :
            Set(overridePskExt(ext))
    BY <1>3 DEF SetPskExtension
  <2>2. CASE ~OverridePanics /\ overridePskExt(ext)
    <3>1. /\ state = "NoSession" /\ ctl'.psk = "user" /\ ctl'.ticket = ctl.ticket
          /\ ticketExt' = ticketExt
          /\ pskExt' = [pskExt EXCEPT !["user"] = ext]
          /\ state' = IF ext.session # None THEN "PskInit" ELSE state
      BY <2>2 DEF overridePskExt, OverridePanics
    <3>2. pskExt'["user"] = ext /\ pskExt'["spec"] = pskExt["spec"]
      BY <3>1 DEF Owners
    <3> QED
      BY <3>1, <3>2 DEF Owners, None
  <2> QED
    BY <2>1, <2>2, ObjectFrame DEF Set, Panic
<1>4. CASE SetSessionCache
  BY <1>4 DEF SetSessionCache
<1>5. CASE ApplyPresetCustom
  BY <1>5, ObjectPreset DEF ApplyPresetCustom
<1>6. CASE Building
  BY <1>6 DEF Building, buildHandshakeState
<1>7. CASE applyPresetByID
  BY <1>7, ObjectPreset, ObjectFrame DEF applyPresetByID, Panic
<1>8. CASE ApplyConfig
  BY <1>8 DEF ApplyConfig, Return, Continue
<1>9. CASE SkipLoad
  BY <1>9 DEF SkipLoad, Quiet, Continue
<1>10. CASE SetTicket
  BY <1>10 DEF SetTicket, setSessionTicketToUConn
<1>11. CASE SetPsk
  BY <1>11 DEF SetPsk, setPskToUConn
<1>12. CASE uLoadSession
  <2>0. PICK session \in {None, cache} :
            IF LoadPanic(session) # None THEN Panic(LoadPanic(session))
            ELSE /\ LoadTicket(session) \/ LoadPsk(session) \/ LoadNothing(session)
                 /\ Quiet /\ UNCHANGED ctl
    BY <1>12 DEF uLoadSession
  <2>1. CASE Panic(LoadPanic(session))
    BY <2>1 DEF Panic
  <2>2. CASE LoadPanic(session) = None /\ LoadTicket(session)
    <3>1. ctl.ticket # None /\ state = "NoSession"
      BY <2>2 DEF LoadPanic, LoadTicket, None
    <3> QED
      BY <2>0, <2>2, <3>1 DEF LoadTicket, setSessionTicketToUConn
  <2>3. CASE LoadPanic(session) = None /\ LoadPsk(session)
    <3>1. session \in SessionOrNone
      BY <2>3 DEF LoadPsk, SessionOrNone, Sessions
    <3>2. /\ ctl.psk \in Owners /\ state = "NoSession" /\ session # None
          /\ pskExt' = [pskExt EXCEPT ![ctl.psk] = [fake |-> FALSE, session |-> session]]
      BY <2>3, <3>1, LoadedPsk
    <3> QED
      BY <2>0, <2>3, <3>2 DEF LoadPsk
  <2>4. CASE LoadPanic(session) = None /\ LoadNothing(session)
    BY <2>0, <2>4 DEF LoadNothing
  <2> QED
    BY <2>0, <2>1, <2>2, <2>3, <2>4
<1>13. CASE MarshalClientHello
  BY <1>13 DEF MarshalClientHello, Return, Continue
<1>14. CASE ApplyPatch
  <2>1. CASE UNCHANGED <<state, ticketExt, pskExt, ctl>>
    BY <2>1, ObjectFrame
  <2>2. CASE shouldUpdateBinders /\ setPskToUConn /\ UNCHANGED <<ticketExt, pskExt, ctl>>
    <3>1. state \in PskStates /\ ctl.psk \in Owners /\ state' = "PskAllSet"
      BY <2>2 DEF shouldUpdateBinders, setPskToUConn
    <3> QED
      BY <2>2, <3>1
  <2> QED
    BY <1>14, <2>1, <2>2 DEF ApplyPatch, Panic
<1>15. CASE ClientHandshakeLocked
  BY <1>15 DEF ClientHandshakeLocked
<1>16. CASE ClientHandshakeGoTLS
  BY <1>16 DEF ClientHandshakeGoTLS, Panic
<1>17. CASE UNCHANGED vars
  BY <1>17 DEF vars
<1> QED
  BY NextCases, <1>1, <1>2, <1>3, <1>4, <1>5, <1>6, <1>7, <1>8, <1>9,
     <1>10, <1>11, <1>12, <1>13, <1>14, <1>15, <1>16, <1>17

\* What HandshakeState has taken over does not change with the other variables.
LEMMA HandshakeFrame ==
    ASSUME HandshakeInv, UNCHANGED <<id, state, ticketExt, pskExt, ctl>>,
           hs'.session = hs.session, hs'.early = hs.early, hs'.binderKey = hs.binderKey,
           UNCHANGED <<vers, handshakeErr>>,
           pc' = "handshake" => pc = "handshake" \/ id = "golang" \/ state # "PskAllSet"
    PROVE  HandshakeInv'
BY DEF HandshakeInv, Common

\* ApplyPreset comes before HandshakeState has taken over anything.
LEMMA HandshakePreset ==
    ASSUME TypeOK, HandshakeInv, ~SyncPanics, ApplyPreset
    PROVE  HandshakeInv'
BY DEF TypeOK, ControllerOK, HelloOK, HandshakeStates, HandshakeInv, ApplyPreset, syncSessionExts,
       SyncPanics, fixed

\* A state in which HandshakeState has taken over nothing.
LEMMA NothingTaken ==
    ASSUME HandshakeInv, state \notin {"TicketAllSet", "PskAllSet"},
           state' \notin {"TicketAllSet", "PskAllSet"}, UNCHANGED <<id, hs>>
    PROVE  HandshakeInv'
BY DEF HandshakeInv

\* Every step keeps what HandshakeState has taken over.
LEMMA HandshakeStep ==
    ASSUME TypeOK, FlowInv, ObjectInv, HandshakeInv, [Next]_vars
    PROVE  HandshakeInv'
<1> USE DEF fixed, controller, outcome
<1>1. CASE SetSessionTicketExtension \/ SetSessionState \/ SetPskExtension
  <2>1. CASE Panic("override")
    BY <2>1, HandshakeFrame DEF Panic
  <2>2. CASE ~Panic("override")
    <3>1. state \notin {"TicketAllSet", "PskAllSet"} /\ UNCHANGED <<id, hs>>
      BY <1>1, <2>2 DEF SetSessionTicketExtension, SetSessionState, SetPskExtension, Set,
           OverridePanics
    <3>2. state' \in {state, "TicketInit", "PskInit"}
      BY <1>1, <2>2 DEF SetSessionTicketExtension, SetSessionState, SetPskExtension, Set,
           overrideSessionTicketExt, overridePskExt
    <3> QED
      BY <3>1, <3>2, NothingTaken
  <2> QED
    BY <2>1, <2>2
<1>4. CASE SetSessionCache
  BY <1>4, HandshakeFrame DEF SetSessionCache
<1>5. CASE ApplyPresetCustom
  BY <1>5, HandshakePreset DEF ApplyPresetCustom
<1>6. CASE Building
  <2>1. pc' = "handshake" => id = "golang"
    BY <1>6 DEF Building, buildHandshakeState
  <2> QED
    BY <1>6, <2>1, HandshakeFrame DEF Building, buildHandshakeState
<1>7. CASE applyPresetByID
  <2>1. CASE id = "custom"
    BY <1>7, <2>1, HandshakeFrame DEF applyPresetByID, Continue
  <2>2. CASE id # "custom" /\ SyncPanics
    BY <1>7, <2>2, HandshakeFrame DEF applyPresetByID, Panic
  <2>3. CASE id # "custom" /\ ~SyncPanics
    BY <1>7, <2>3, HandshakePreset DEF applyPresetByID
  <2> QED
    BY <2>1, <2>2, <2>3
<1>8. CASE ApplyConfig
  <2>1. pc' # "handshake"
    BY <1>8 DEF ApplyConfig, Return, Continue
  <2>2. hs'.session = hs.session /\ hs'.early = hs.early /\ hs'.binderKey = hs.binderKey
    BY <1>8 DEF ApplyConfig, TypeOK, HelloOK, HandshakeStates
  <2> QED
    BY <1>8, <2>1, <2>2, HandshakeFrame DEF ApplyConfig
<1>9. CASE SkipLoad
  BY <1>9, HandshakeFrame DEF SkipLoad, Quiet, Continue
<1>10. CASE SetTicket
  <2>1. /\ state = "TicketInit" /\ state' = "TicketAllSet" /\ UNCHANGED <<id, ticketExt, ctl>>
        /\ hs' = [hs EXCEPT !.session = ticketExt[ctl.ticket].session,
                            !.ticket = ticketExt[ctl.ticket].session]
    BY <1>10 DEF SetTicket, setSessionTicketToUConn, Quiet
  <2> QED
    BY <2>1 DEF HandshakeInv, TypeOK, HelloOK, HandshakeStates
<1>11. CASE SetPsk
  <2>1. /\ state = "PskInit" /\ state' = "PskAllSet" /\ UNCHANGED <<id, pskExt, ctl>>
        /\ setPskToUConn
    BY <1>11 DEF SetPsk, setPskToUConn, Quiet
  <2>2. /\ hs'.session = Common(ctl.psk) /\ hs'.early = Common(ctl.psk)
        /\ hs'.binderKey = Common(ctl.psk)
    BY <2>1 DEF setPskToUConn, TypeOK, HelloOK, HandshakeStates
  <2>3. Common(ctl.psk)' = Common(ctl.psk)
    BY <2>1 DEF Common
  <2> QED
    BY <2>1, <2>2, <2>3 DEF HandshakeInv
<1>12. CASE uLoadSession
  <2>0. PICK session \in {None, cache} :
            IF LoadPanic(session) # None THEN Panic(LoadPanic(session))
            ELSE /\ LoadTicket(session) \/ LoadPsk(session) \/ LoadNothing(session)
                 /\ Continue("marshal") /\ Quiet /\ UNCHANGED ctl
    BY <1>12 DEF uLoadSession
  <2>1. CASE Panic(LoadPanic(session))
    BY <2>1, HandshakeFrame DEF Panic
  <2>2. CASE LoadPanic(session) = None /\ LoadTicket(session)
    <3>1. ctl.ticket \in Owners /\ state = "NoSession"
      BY <2>2 DEF LoadPanic, LoadTicket, None, TypeOK, ControllerOK
    <3>2. ticketExt'[ctl.ticket].session = session
      BY <2>2, <3>1 DEF LoadTicket, TypeOK, ControllerOK
    <3>3. hs'.session = session /\ hs'.early = hs.early /\ state' = "TicketAllSet"
      BY <2>2 DEF LoadTicket, setSessionTicketToUConn, TypeOK, HelloOK, HandshakeStates
    <3> QED
      BY <2>0, <2>2, <3>1, <3>2, <3>3 DEF HandshakeInv, Quiet
  <2>3. CASE LoadPanic(session) = None /\ LoadPsk(session)
    <3>1. state = "NoSession"
      BY <2>3 DEF LoadPanic, None
    <3> QED
      BY <2>0, <2>3, <3>1, NothingTaken DEF LoadPsk, Quiet
  <2>4. CASE LoadPanic(session) = None /\ LoadNothing(session)
    BY <2>0, <2>4, HandshakeFrame DEF LoadNothing, Quiet, Continue
  <2> QED
    BY <2>0, <2>1, <2>2, <2>3, <2>4
<1>13. CASE MarshalClientHello
  <2>1. pc' # "handshake"
    BY <1>13 DEF MarshalClientHello, Return, Continue
  <2> QED
    BY <1>13, <2>1, HandshakeFrame DEF MarshalClientHello
<1>14. CASE ApplyPatch
  <2>1. CASE Panic("finalCheck") \/ Panic("onlyBinders")
    BY <2>1, HandshakeFrame DEF Panic
  <2>2. CASE /\ ~shouldUpdateBinders
             /\ UNCHANGED <<id, state, ticketExt, pskExt, ctl, hs, vers, handshakeErr>>
    <3>1. state # "PskAllSet"
      BY <2>2 DEF shouldUpdateBinders, ObjectInv, PskStates
    <3> QED
      BY <2>2, <3>1, HandshakeFrame
  <2>3. CASE /\ shouldUpdateBinders /\ OnlyBinders /\ setPskToUConn
             /\ UNCHANGED <<id, ticketExt, pskExt, ctl>>
    <3>1. state \in PskStates /\ state' = "PskAllSet"
      BY <2>3 DEF shouldUpdateBinders, setPskToUConn, PskStates
    <3>2. CASE state = "PskInit"
      BY <2>3, <3>1, <3>2 DEF HandshakeInv, setPskToUConn, Common, TypeOK, HelloOK, HandshakeStates
    <3>3. CASE state = "PskAllSet"
      <4>1. hs.session = Common(ctl.psk) /\ hs.early = Common(ctl.psk)
        BY <2>3, <3>3 DEF OnlyBinders
      <4>2. /\ hs'.session = hs.session /\ hs'.early = hs.early
            /\ hs'.binderKey = Common(ctl.psk)
        BY <2>3, <3>3 DEF setPskToUConn, TypeOK, HelloOK, HandshakeStates
      <4>3. Common(ctl.psk)' = Common(ctl.psk)
        BY <2>3 DEF Common
      <4> QED
        BY <3>1, <4>1, <4>2, <4>3 DEF HandshakeInv
    <3> QED
      BY <3>1, <3>2, <3>3 DEF PskStates
  <2> QED
    BY <1>14, <2>1, <2>2, <2>3 DEF ApplyPatch
<1>15. CASE ClientHandshakeLocked
  <2>1. /\ Finish(hs, hs.session) /\ pc' # "handshake"
        /\ UNCHANGED <<id, state, ticketExt, pskExt, ctl>>
    BY <1>15 DEF ClientHandshakeLocked, Return
  <2>2. /\ hs'.session = hs.session
        /\ \/ hs'.early = hs.early
           \/ hs'.early = None /\ (vers' = 12 \/ handshakeErr')
    BY <2>1, FinishHello DEF TypeOK, HelloOK
  <2>3. (vers = 12 => vers' = 12) /\ (handshakeErr => handshakeErr')
    BY <2>1, FinishCounts DEF FlowInv
  <2>4. \A o : Common(o)' = Common(o)
    BY <2>1 DEF Common
  <2> QED
    BY <2>1, <2>2, <2>3, <2>4 DEF HandshakeInv
<1>16. CASE ClientHandshakeGoTLS
  <2>1. id = "golang" /\ id' = id
    BY <1>16 DEF ClientHandshakeGoTLS, Panic, FlowInv, At
  <2> QED
    BY <2>1 DEF HandshakeInv
<1>17. CASE UNCHANGED vars
  BY <1>17, HandshakeFrame DEF vars
<1> QED
  BY NextCases, <1>1, <1>4, <1>5, <1>6, <1>7, <1>8, <1>9,
     <1>10, <1>11, <1>12, <1>13, <1>14, <1>15, <1>16, <1>17

\* Every step keeps where the identities in the hello come from, and no step but
\* a handshake makes the assertion of setPskToUConn fail.
LEMMA IdentitiesStep ==
    ASSUME TypeOK, FlowInv, ObjectInv, HandshakeInv, IdentitiesInv, [Next]_vars
    PROVE  IdentitiesInv'
<1> USE DEF TypeOK, ControllerOK, HelloOK, HandshakeStates, IdentitiesInv, OnlyHandshakeAltersPsk,
        fixed, controller, outcome, At, None
<1>1. CASE SetSessionTicketExtension
  BY <1>1 DEF SetSessionTicketExtension, Set, Panic, overrideSessionTicketExt, OverridePanics
<1>2. CASE SetSessionState
  BY <1>2 DEF SetSessionState, Set, Panic, overrideSessionTicketExt, OverridePanics
<1>3. CASE SetPskExtension
  <2>1. CASE Panic("override")
    BY <2>1 DEF Panic
  <2>2. CASE ~Panic("override")
    <3>1. state = "NoSession" /\ UNCHANGED <<id, hs, list, panicked>> /\ panicked = None
      BY <1>3, <2>2 DEF SetPskExtension, Set, OverridePanics, Idle
    <3> QED
      BY <3>1
  <2> QED
    BY <2>1, <2>2
<1>4. CASE SetSessionCache
  BY <1>4 DEF SetSessionCache
<1>5. CASE ApplyPresetCustom
  BY <1>5 DEF ApplyPresetCustom, ApplyPreset, syncSessionExts, Idle
<1>6. CASE Building
  BY <1>6 DEF Building, buildHandshakeState
<1>7. CASE applyPresetByID
  <2>1. CASE ApplyPreset /\ UNCHANGED panicked
    BY <1>7, <2>1 DEF applyPresetByID, ApplyPreset, syncSessionExts
  <2>2. CASE ~(ApplyPreset /\ UNCHANGED panicked)
    BY <1>7, <2>2 DEF applyPresetByID, Panic
  <2> QED
    BY <2>1, <2>2
<1>8. CASE ApplyConfig
  BY <1>8 DEF ApplyConfig, WrittenIdentities
<1>9. CASE SkipLoad
  BY <1>9 DEF SkipLoad, Quiet
<1>10. CASE SetTicket
  BY <1>10 DEF SetTicket, Quiet, setSessionTicketToUConn
<1>11. CASE SetPsk
  BY <1>11 DEF SetPsk, Quiet, setPskToUConn
<1>12. CASE uLoadSession
  BY <1>12 DEF uLoadSession, LoadPanic, Panic, LoadTicket, LoadPsk, LoadNothing, setSessionTicketToUConn, Quiet
<1>13. CASE MarshalClientHello
  BY <1>13 DEF MarshalClientHello
<1>14. CASE ApplyPatch
  <2>1. id # "golang"
    BY <1>14 DEF ApplyPatch, FlowInv
  <2>2. CASE Panic("finalCheck")
    BY <2>2 DEF Panic
  <2>3. CASE shouldUpdateBinders /\ ~OnlyBinders /\ Panic("onlyBinders")
    <3>1. state = "PskAllSet" /\ hs.session = Common(ctl.psk)
      BY <2>1, <2>3 DEF OnlyBinders, HandshakeInv
    <3>2. hs.early # Common(ctl.psk) \/ hs.identities \notin {None, ctl.psk}
      BY <2>3, <3>1 DEF OnlyBinders
    <3>3. hs.early # Common(ctl.psk) => vers = 12 \/ handshakeErr
      BY <2>1, <3>1 DEF HandshakeInv
    <3>4. hs.identities \notin {None, ctl.psk} => list.psk # ctl.psk
      BY <2>1
    <3> QED
      BY <2>3, <3>2, <3>3, <3>4 DEF Panic
  <2>4. CASE UNCHANGED <<id, state, hs, list, ctl, panicked, vers, handshakeErr>>
    BY <2>4
  <2>5. CASE setPskToUConn /\ UNCHANGED <<id, list, ctl, panicked, vers, handshakeErr>>
    BY <2>5 DEF setPskToUConn
  <2> QED
    BY <1>14, <2>2, <2>3, <2>4, <2>5 DEF ApplyPatch
<1>15. CASE ClientHandshakeLocked
  <2>1. Finish(hs, hs.session) /\ UNCHANGED <<id, state, list, ctl>> /\ panicked = None
    BY <1>15 DEF ClientHandshakeLocked
  <2> QED
    BY <2>1, FinishHello
<1>16. CASE ClientHandshakeGoTLS
  <2>1. id = "golang" /\ panicked = None
    BY <1>16, IdsAssumption DEF ClientHandshakeGoTLS, FlowInv
  <2>2. CASE Panic("loadTwice")
    BY <2>1, <2>2 DEF Panic
  <2>3. CASE ~Panic("loadTwice")
    <3>1. PICK session \in IF SessionsOff \/ handshakes > 0 THEN {None} ELSE {None, cache} :
              Finish(Loaded(session), session)
      BY <1>16, <2>3 DEF ClientHandshakeGoTLS
    <3>2. panicked' # "onlyBinders"
      BY <2>1, <3>1, LoadedByGoTLS, FinishTypes
    <3> QED
      BY <1>16, <2>1, <2>3, <3>2 DEF ClientHandshakeGoTLS
  <2> QED
    BY <2>2, <2>3
<1>17. CASE UNCHANGED vars
  BY <1>17 DEF vars
<1> QED
  BY NextCases, <1>1, <1>2, <1>3, <1>4, <1>5, <1>6, <1>7, <1>8, <1>9,
     <1>10, <1>11, <1>12, <1>13, <1>14, <1>15, <1>16, <1>17

\* A step that leaves the hello and the objects alone leaves RawInv alone.
LEMMA RawFrame ==
    ASSUME RawInv,
           UNCHANGED <<id, cfg, spec, shares, list, raw, pc, ticketExt, pskExt, ctl, state>>
    PROVE  RawInv'
BY DEF RawInv, EchUnusable, MarshalFails, Marshalled

\* Every step keeps what the marshalled bytes carry.
LEMMA RawStep ==
    ASSUME TypeOK, FlowInv, ObjectInv, RawInv, [Next]_vars
    PROVE  RawInv'
<1> USE DEF TypeOK, ControllerOK, HelloOK, RawInv, fixed, controller, outcome, At, Idle
<1>1. CASE SetSessionTicketExtension
  BY <1>1, RawFrame DEF SetSessionTicketExtension, Set, Panic
<1>2. CASE SetSessionState
  BY <1>2, RawFrame DEF SetSessionState, Set, Panic
<1>3. CASE SetPskExtension
  BY <1>3, RawFrame DEF SetPskExtension, Set, Panic
<1>4. CASE SetSessionCache
  <2>1. pc' \notin {"patch", "handshake"} /\ UNCHANGED <<id, shares, list, raw>>
    BY <1>4 DEF SetSessionCache
  <2> QED
    BY <2>1
<1>5. CASE ApplyPresetCustom
  BY <1>5 DEF ApplyPresetCustom, ApplyPreset
<1>6. CASE Building
  BY <1>6 DEF Building, buildHandshakeState
<1>7. CASE applyPresetByID
  <2>1. CASE id = "custom"
    BY <1>7, <2>1 DEF applyPresetByID, Continue
  <2>2. CASE id # "custom" /\ SyncPanics
    BY <1>7, <2>2, RawFrame DEF applyPresetByID, Panic
  <2>3. CASE id # "custom" /\ ~SyncPanics
    <3>1. shares' /\ pc' \in {"idle", "config"}
      BY <1>7, <2>3 DEF applyPresetByID, ApplyPreset, Return, Continue
    <3> QED
      BY <3>1
  <2> QED
    BY <2>1, <2>2, <2>3
<1>8. CASE ApplyConfig
  <2>1. pc' \in {"idle", "load", "marshal"}
    BY <1>8 DEF ApplyConfig, Return, Continue
  <2>2. ~shares => raw' = raw
    BY <1>8 DEF ApplyConfig
  <2> QED
    BY <1>8, <2>1, <2>2 DEF ApplyConfig
<1>9. CASE SkipLoad
  <2>1. pc' \notin {"patch", "handshake"} /\ UNCHANGED <<id, shares, list, raw>>
    BY <1>9 DEF SkipLoad, Quiet, Continue
  <2> QED
    BY <2>1
<1>10. CASE SetTicket
  <2>1. pc' \notin {"patch", "handshake"} /\ UNCHANGED <<id, shares, list, raw>>
    BY <1>10 DEF SetTicket, Quiet, Continue
  <2> QED
    BY <2>1
<1>11. CASE SetPsk
  <2>1. pc' \notin {"patch", "handshake"} /\ UNCHANGED <<id, shares, list, raw>>
    BY <1>11 DEF SetPsk, Quiet, Continue
  <2> QED
    BY <2>1
<1>12. CASE uLoadSession
  <2>1. pc' \notin {"patch", "handshake"} /\ UNCHANGED <<id, shares, list, raw>>
    BY <1>12 DEF uLoadSession, Panic, Quiet, Continue
  <2> QED
    BY <2>1
<1>13. CASE MarshalClientHello
  <2>1. UNCHANGED <<id, cfg, spec, shares, list, ticketExt, pskExt, ctl, state>> /\ pc' # "handshake"
    BY <1>13 DEF MarshalClientHello, Return, Continue
  <2>2. Marshalled' = Marshalled /\ EchUnusable' = EchUnusable
    BY <2>1 DEF Marshalled, EchUnusable, MarshalFails
  <2>3. ~shares /\ id # "golang" => Marshalled.ticket = None /\ Marshalled.psk = None
    BY DEF Marshalled
  <2>4. CASE raw' = Marshalled
    BY <2>1, <2>2, <2>3, <2>4
  <2>5. CASE raw' = raw /\ (pc' = "idle" \/ (cfg.ech /\ (MarshalFails \/ ~spec.ech \/ ~shares)))
    BY <2>1, <2>2, <2>3, <2>5 DEF EchUnusable
  <2> QED
    BY <1>13, <2>4, <2>5 DEF MarshalClientHello, Return
<1>14. CASE ApplyPatch
  <2>1. CASE Panic("finalCheck") \/ Panic("onlyBinders")
    BY <2>1, RawFrame DEF Panic
  <2>2. CASE ~Panic("finalCheck") /\ ~Panic("onlyBinders")
    <3>1. UNCHANGED <<id, cfg, spec, shares, list, ctl, ticketExt>>
      BY <1>14, <2>2 DEF ApplyPatch
    <3>2. pskExt' = pskExt
      BY <1>14, <2>2 DEF ApplyPatch
    <3>3. raw'.ticket = raw.ticket /\ raw'.psk = raw.psk
      BY <1>14, <2>2 DEF ApplyPatch, updateBinders, RawHellos
    <3>4. Marshalled'.ticket = Marshalled.ticket /\ Marshalled'.psk = Marshalled.psk
      BY <3>1, <3>2 DEF Marshalled
    <3>5. EchUnusable' = EchUnusable
      BY <3>1, <3>2 DEF EchUnusable, MarshalFails
    <3>6. CASE ~shouldUpdateBinders
      <4>1. state' = state
        BY <1>14, <2>2, <3>6 DEF ApplyPatch
      <4>2. ~(state \in PskStates /\ ctl.psk # None)
        BY <3>6 DEF shouldUpdateBinders, PskStates
      <4> QED
        BY <1>14, <3>1, <3>3, <3>4, <3>5, <4>1, <4>2 DEF ApplyPatch
    <3>7. CASE shouldUpdateBinders
      <4>1. list.psk = ctl.psk /\ ~pskExt[ctl.psk].fake => raw'.binders = "good"
        BY <1>14, <2>2, <3>7 DEF ApplyPatch, updateBinders, RawHellos
      <4> QED
        BY <1>14, <3>1, <3>2, <3>3, <3>4, <3>5, <4>1 DEF ApplyPatch
    <3> QED
      BY <3>6, <3>7
  <2> QED
    BY <2>1, <2>2
<1>15. CASE ClientHandshakeLocked
  <2>1. pc' \notin {"patch", "handshake"} /\ UNCHANGED <<id, shares, list, raw>>
    BY <1>15 DEF ClientHandshakeLocked, Return
  <2> QED
    BY <2>1
<1>16. CASE ClientHandshakeGoTLS
  <2>1. CASE Panic("loadTwice")
    BY <2>1, RawFrame DEF Panic
  <2>2. CASE ~Panic("loadTwice")
    <3>1. pc' \notin {"patch", "handshake"} /\ UNCHANGED <<id, shares, list, raw>>
      BY <1>16, <2>2 DEF ClientHandshakeGoTLS, Return
    <3> QED
      BY <3>1
  <2> QED
    BY <2>1, <2>2
<1>17. CASE UNCHANGED vars
  BY <1>17, RawFrame DEF vars
<1> QED
  BY NextCases, <1>1, <1>2, <1>3, <1>4, <1>5, <1>6, <1>7, <1>8, <1>9,
     <1>10, <1>11, <1>12, <1>13, <1>14, <1>15, <1>16, <1>17

-----------------------------------------------------------------------------
\* The invariant holds of a new connection.
LEMMA UConnInit == Init => UConnInv
<1> SUFFICES ASSUME Init
             PROVE  UConnInv
  OBVIOUS
<1>1. FlowInv
  BY DEF Init, FlowInv
<1>2. ObjectInv
  <2>1. PICK ext \in SpecPsk : pskExt = [o \in Owners |-> IF o = "spec" THEN ext ELSE NoPsk]
    BY DEF Init
  <2>2. ext = NoPsk \/ ext \in FakePsk
    BY DEF SpecPsk
  <2>3. NoPsk.session = None /\ (~ext.fake => ext.session = None)
    <3>1. NoPsk.session = None
      BY DEF NoPsk
    <3>2. ext \in FakePsk => ext.fake = TRUE
      BY DEF FakePsk
    <3>3. ext \in FakePsk => ext.fake
      BY <3>2, Zenon
    <3> QED
      BY <2>2, <3>1, <3>3, Zenon
  <2>4. \A o \in Owners : Common(o) = None
    BY <2>1, <2>3 DEF Common
  <2> QED
    BY <2>4 DEF Init, ObjectInv, TicketStates, PskStates
<1>3. HandshakeInv /\ IdentitiesInv
  BY DEF Init, HandshakeInv, IdentitiesInv, NoHandshakeState, OnlyHandshakeAltersPsk, None
<1>4. RawInv
  BY DEF Init, RawInv, NoRaw
<1> QED
  BY <1>1, <1>2, <1>3, <1>4, TypeInit DEF UConnInv

\* Every step keeps it.
LEMMA UConnStep == UConnInv /\ [Next]_vars => UConnInv'
BY TypeStep, FlowStep, ObjectStep, HandshakeStep, IdentitiesStep, RawStep DEF UConnInv

\* So it always holds.
LEMMA UConnInvariant == Spec => []UConnInv
BY UConnInit, UConnStep, PTL DEF Spec

\* Whatever calls an application makes and whatever fails or panics on the way,
\* the connection, its controller and the extension objects keep their types.
THEOREM TypeCorrect == Spec => []TypeOK
<1>1. UConnInv => TypeOK
  BY DEF UConnInv
<1> QED
  BY <1>1, UConnInvariant, PTL

\* The assertion of setPskToUConn fails only after a handshake over TLS 1.2 or a
\* failed one, or when the list holds another PSK object than the controller.
THEOREM OnlyHandshakeAltersPskAlways == Spec => []OnlyHandshakeAltersPsk
<1>1. UConnInv => OnlyHandshakeAltersPsk
  BY DEF UConnInv, IdentitiesInv
<1> QED
  BY <1>1, UConnInvariant, PTL

\* The hello that goes out and the state the handshake computes with belong to
\* one session, for every order of calls: a ticket or identity that is sent is
\* the session's, with binders for these bytes.
THEOREM SentHelloConsistentAlways == Spec => []SentHelloConsistent
<1>1. UConnInv => SentHelloConsistent
  <2> SUFFICES ASSUME UConnInv, At("handshake"), locked, list = ctl, ~EchUnusable
               PROVE  /\ raw.psk \in Sessions => /\ raw.psk = hs.session
                                                 /\ hs.early = raw.psk /\ hs.binderKey = raw.psk
                                                 /\ raw.binders = "good"
                      /\ raw.ticket # None => raw.ticket = hs.session
                      /\ hs.session # None => hs.session \in {raw.psk, raw.ticket}
                      /\ hs.early # None => hs.early = hs.session /\ hs.binderKey = hs.session
    BY DEF SentHelloConsistent
  <2> USE DEF UConnInv, TypeOK, ControllerOK, HelloOK
  <2>1. pc = "handshake" /\ id # "golang" /\ state \in {"NoSession", "TicketAllSet", "PskAllSet"}
    BY DEF FlowInv, At, States
  <2>2. raw.ticket = Marshalled.ticket /\ raw.psk = Marshalled.psk
    BY <2>1 DEF RawInv
  <2>3. raw.psk = IF ctl.psk = None THEN None ELSE pskExt[ctl.psk].session
    BY <2>2 DEF Marshalled
  <2>4. raw.ticket = IF ctl.ticket = None THEN None ELSE ticketExt[ctl.ticket].session
    BY <2>2 DEF Marshalled
  <2>5. /\ raw.psk \in Sessions => ctl.psk \in Owners /\ ~pskExt[ctl.psk].fake
                                  /\ raw.psk = Common(ctl.psk) /\ raw.psk # None
        /\ ctl.psk \in Owners /\ Common(ctl.psk) # None => raw.psk = Common(ctl.psk)
    <3>1. "given" \notin Sessions /\ None \notin Sessions
      BY DEF Sessions, Sessions12, Sessions13, None
    <3>2. \A o \in Owners : pskExt[o].fake => pskExt[o].session \in {None, "given"}
      BY DEF UtlsPsk, FakePsk
    <3>3. ctl.psk # None <=> ctl.psk \in Owners
      BY DEF Owners, None
    <3>4. raw.psk \in Sessions => ctl.psk \in Owners /\ raw.psk = pskExt[ctl.psk].session
      BY <2>3, <3>1, <3>3
    <3>5. raw.psk \in Sessions => ~pskExt[ctl.psk].fake
      BY <3>1, <3>2, <3>4
    <3>6. ctl.psk \in Owners /\ Common(ctl.psk) # None => raw.psk = Common(ctl.psk)
      BY <2>3, <3>3 DEF Common
    <3> QED
      BY <3>1, <3>4, <3>5, <3>6 DEF Common
  <2>6. CASE state = "NoSession"
    BY <2>1, <2>4, <2>6, <2>5 DEF ObjectInv, HandshakeInv, TicketStates, PskStates
  <2>7. CASE state = "TicketAllSet"
    BY <2>1, <2>4, <2>7, <2>5 DEF ObjectInv, HandshakeInv, TicketStates, PskStates
  <2>8. CASE state = "PskAllSet"
    <3>1. ctl.psk \in Owners /\ ctl.psk # None /\ raw.ticket = None
      BY <2>4, <2>8 DEF ObjectInv, TicketStates, PskStates
    <3>2. ~pskExt[ctl.psk].fake => raw.binders = "good"
      <4>1. list.psk = ctl.psk /\ state \in PskStates
        BY <2>8 DEF PskStates
      <4> QED
        BY <2>1, <3>1, <4>1 DEF RawInv
    <3>3. /\ hs.session = Common(ctl.psk) /\ hs.early = Common(ctl.psk)
          /\ hs.binderKey = Common(ctl.psk)
      BY <2>1, <2>8 DEF HandshakeInv
    <3> QED
      BY <2>5, <3>1, <3>2, <3>3
  <2> QED
    BY <2>1, <2>6, <2>7, <2>8
<1> QED
  BY <1>1, UConnInvariant, PTL

\* After finalCheck no call, rebuild or new entry in the cache changes the
\* session the handshake uses, and nothing unlocks it; only a handshake over
\* TLS 1.2 or a failed one drops the early secret.
THEOREM LockedSessionStableAlways == Spec => LockedSessionStable
<1>1. UConnInv /\ [Next]_vars =>
          [locked =>
              /\ locked' /\ hs'.session = hs.session
              /\ hs'.early # hs.early =>
                     At("handshake") /\ hs'.early = None /\ (vers' = 12 \/ handshakeErr')]_vars
  <2> SUFFICES ASSUME UConnInv, [Next]_vars, locked
               PROVE  /\ locked' /\ hs'.session = hs.session
                      /\ hs'.early # hs.early =>
                             At("handshake") /\ hs'.early = None /\ (vers' = 12 \/ handshakeErr')
    OBVIOUS
  <2>1. /\ status = "BuildByUtls" /\ id # "golang" /\ pc # "preset"
        /\ state \notin {"TicketInit", "PskInit"}
    BY DEF UConnInv, FlowInv
  <2> USE <2>1 DEF UConnInv, TypeOK, HelloOK, fixed, controller, outcome, At
  <2>2. CASE SetSessionTicketExtension \/ SetSessionState \/ SetPskExtension
    BY <2>2 DEF SetSessionTicketExtension, SetSessionState, SetPskExtension, Set, OverridePanics, Panic
  <2>3. CASE SetSessionCache \/ ApplyPresetCustom \/ Building \/ applyPresetByID \/ ApplyConfig
    BY <2>3 DEF SetSessionCache, ApplyPresetCustom, Building, buildHandshakeState, applyPresetByID,
         ApplyConfig, HandshakeStates
  <2>4. CASE SkipLoad \/ SetTicket \/ SetPsk \/ uLoadSession
    BY <2>4 DEF SkipLoad, SetTicket, SetPsk, uLoadSession, shouldReturn, Quiet
  <2>5. CASE MarshalClientHello
    BY <2>5 DEF MarshalClientHello
  <2>6. CASE ApplyPatch
    BY <2>6 DEF ApplyPatch, Panic, setPskToUConn, HandshakeStates
  <2>7. CASE ClientHandshakeLocked \/ ClientHandshakeGoTLS \/ UNCHANGED vars
    <3>1. CASE ClientHandshakeLocked
      <4>1. Finish(hs, hs.session) /\ locked' /\ At("handshake")
        BY <3>1 DEF ClientHandshakeLocked
      <4> QED
        BY <4>1, FinishHello
    <3> QED
      BY <2>7, <3>1 DEF ClientHandshakeGoTLS, vars
  <2> QED
    BY NextCases, <2>2, <2>3, <2>4, <2>5, <2>6, <2>7
<1> QED
  BY <1>1, UConnInvariant, PTL DEF Spec, LockedSessionStable
=============================================================================
