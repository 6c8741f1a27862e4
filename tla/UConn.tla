-------------------------------- MODULE UConn --------------------------------
(***************************************************************************)
(* The client connection of utls (u_conn.go) and its session controller    *)
(* (u_session_controller.go): how repeated builds of the ClientHello, the  *)
(* session a user sets, the session a cache holds, a failed build and a    *)
(* renegotiation share one set of extension objects.                       *)
(*                                                                         *)
(* The two extensions that carry a session are objects with an owner: the  *)
(* spec's and the user's.  The controller refers to one of them, the list  *)
(* of extensions to one of them, and they need not be the same.  A session *)
(* stands for everything derived from it (ticket, identity, early secret,  *)
(* binder key).  A PSK object is a UtlsPreSharedKeyExtension, which has a  *)
(* session and computes its binders, or a FakePreSharedKeyExtension, whose *)
(* identities and binders are given.  One build is a sequence of actions,  *)
(* one per function; the connection is used by one goroutine, as its       *)
(* documentation asks.                                                     *)
(***************************************************************************)
EXTENDS Integers

CONSTANTS
    Ids,       \* ClientHelloIDs in use: "golang", "preset", "custom"
    Configs,   \* records [disabled, omit, prefer, ech, renego] of the Config
    Specs,     \* records [ticket, psk, ech]: the extensions of the spec
    Caches,    \* initial contents of the session cache
    MaxCalls   \* bound on the calls an application makes

None == "none"
Sessions12 == {"cached12", "user12"}
Sessions13 == {"cached13", "user13"}
Sessions == Sessions12 \cup Sessions13
SessionOrNone == Sessions \cup {None}
Owners == {"spec", "user"}

(* What a PSK object may hold: a session, or the identities given to a fake. *)
UtlsPsk == [fake : {FALSE}, session : SessionOrNone]
FakePsk == [fake : {TRUE}, session : {None, "given"}]
NoPsk == [fake |-> FALSE, session |-> None]

ASSUME IdsAssumption == Ids \subseteq {"golang", "preset", "custom"}
ASSUME ConfigsAssumption ==
    Configs \subseteq [disabled : BOOLEAN, omit : BOOLEAN, prefer : BOOLEAN, ech : BOOLEAN,
                       renego : {0, 1, 2}]
ASSUME SpecsAssumption == Specs \subseteq [ticket : BOOLEAN, psk : BOOLEAN, ech : BOOLEAN]
ASSUME CachesAssumption == Caches \subseteq {"nil", None, "cached12", "cached13"}
ASSUME MaxCallsAssumption == MaxCalls \in Nat

VARIABLES
    id, cfg, spec,
    cache,       \* ClientSessionCache: "nil", empty (None), or the session it holds
    status,      \* clientHelloBuildStatus
    state,       \* sessionController.state
    locked,      \* sessionController.locked
    tracker,     \* loadSessionTracker
    ticketExt,   \* per owner: the session in the object, and Initialized
    pskExt,      \* per owner: the session or the given identities in the object
    ctl,         \* the objects the controller refers to
    list,        \* the objects in uconn.Extensions; None when not there
    shares,      \* the spec's KeyShare objects hold public keys
    keys,        \* KeyShareKeys holds the private keys of these shares
    hs,          \* HandshakeState: session, ticket, early secret, binder key, and
                 \* the PSK object whose identities are in Hello.PskIdentities
    raw,         \* what Hello.Raw carries; NoRaw before the first marshal
    pc,          \* function of the build that comes next; "idle" outside a build
    call,        \* the API call in progress
    calls,       \* calls made so far
    handshakes,  \* completed handshakes
    vers,        \* version of the last handshake, 0 before
    handshakeErr,
    panicked     \* the assertion that failed, None if none did

fixed == <<id, cfg, spec>>
controller == <<state, locked, tracker, ticketExt, pskExt, ctl>>
vars == <<fixed, cache, status, controller, list, shares, keys, hs, raw, pc, call, calls,
          handshakes, vers, handshakeErr, panicked>>

NoRaw == [ticket |-> None, psk |-> None, binders |-> "absent"]
NoHandshakeState ==
    [session |-> None, ticket |-> None, early |-> None, binderKey |-> None, identities |-> None]

HandshakeStates ==
    [session : SessionOrNone, ticket : SessionOrNone, early : SessionOrNone,
     binderKey : SessionOrNone, identities : Owners \cup {None}]
RawHellos ==
    [ticket : SessionOrNone, psk : SessionOrNone \cup {"given"},
     binders : {"absent", "stale", "good", "misplaced", "given"}]

States == {"NoSession", "TicketInit", "TicketAllSet", "PskInit", "PskAllSet"}
Steps == {"idle", "preset", "config", "load", "marshal", "patch", "handshake"}
Calls == {None, "build", "inspect", "handshake", "renegotiate"}

ConfigOK ==
    /\ id \in Ids /\ cfg \in Configs /\ spec \in Specs
    /\ cache \in SessionOrNone \cup {"nil"}

ControllerOK ==
    /\ state \in States
    /\ locked \in BOOLEAN
    /\ tracker \in {"NeverCalled", "UtlsAboutToCall", "CalledByULoadSession", "CalledByGoTLS"}
    /\ ticketExt \in [Owners -> [session : SessionOrNone, init : BOOLEAN]]
    /\ pskExt \in [Owners -> UtlsPsk \cup FakePsk]
    /\ ctl \in [ticket : Owners \cup {None}, psk : Owners \cup {None}]

HelloOK ==
    /\ list \in [ticket : Owners \cup {None}, psk : Owners \cup {None}]
    /\ shares \in BOOLEAN /\ keys \in BOOLEAN
    /\ hs \in HandshakeStates
    /\ raw \in RawHellos

CallOK ==
    /\ status \in {"NotBuilt", "BuildByUtls", "BuildByGoTLS"}
    /\ pc \in Steps
    /\ call \in Calls
    /\ calls \in 0..MaxCalls
    /\ handshakes \in Nat /\ vers \in {0, 12, 13}
    /\ handshakeErr \in BOOLEAN
    /\ panicked \in {None, "sync", "aboutToLoad", "loadTwice", "canSkip", "override",
                     "fakeInit", "setTicket", "onlyBinders", "finalCheck", "nilCache",
                     "nilSession"}

TypeOK == ConfigOK /\ ControllerOK /\ HelloOK /\ CallOK

(* FromRaw and the JSON reader put a fake object into a spec, the parrots never. *)
SpecPsk == IF id = "custom" /\ spec.psk THEN {NoPsk} \cup FakePsk ELSE {NoPsk}

Init ==
    /\ id \in Ids /\ cfg \in Configs /\ spec \in Specs /\ cache \in Caches
    /\ status = "NotBuilt"
    /\ state = "NoSession" /\ locked = FALSE /\ tracker = "NeverCalled"
    /\ ticketExt = [o \in Owners |-> [session |-> None, init |-> FALSE]]
    /\ \E ext \in SpecPsk : pskExt = [o \in Owners |-> IF o = "spec" THEN ext ELSE NoPsk]
    /\ ctl = [ticket |-> None, psk |-> None]
    /\ list = [ticket |-> None, psk |-> None]
    /\ shares = FALSE /\ keys = FALSE
    /\ hs = NoHandshakeState
    /\ raw = NoRaw
    /\ pc = "idle" /\ call = None /\ calls = 0
    /\ handshakes = 0 /\ vers = 0 /\ handshakeErr = FALSE
    /\ panicked = None

-----------------------------------------------------------------------------
SessionsOff == cfg.disabled \/ cache = "nil"

(* skipResumptionOnNilExtension: set for every ID but HelloCustom. *)
CanSkip == cfg.prefer \/ id # "custom"

Idle == pc = "idle" /\ panicked = None
At(step) == pc = step /\ panicked = None

Panic(assertion) ==
    /\ panicked' = assertion
    /\ UNCHANGED <<fixed, cache, status, controller, list, shares, keys, hs, raw, pc, call,
                   calls, handshakes, vers, handshakeErr>>

(* Where a build continues: an inspection loads no session and checks none. *)
Continue(step) ==
    LET over == IF call \in {"handshake", "renegotiate"} THEN "handshake" ELSE "idle"
        next == IF step = "over" THEN over ELSE step
    IN pc' = next /\ call' = IF next = "idle" THEN None ELSE call

Return == pc' = "idle" /\ call' = None

outcome == <<handshakes, vers, handshakeErr>>

-----------------------------------------------------------------------------
(* The session a user sets.  The extension may be initialized with a session,
   initialized with none (SetSessionState(nil)), or left to the controller. *)
\* Variant: a locked session may be replaced.
OverrideIgnoresLock == state # "NoSession"

OverridePanics == locked \/ state # "NoSession"

Set(change) ==
    /\ Idle /\ calls < MaxCalls /\ ~SessionsOff
    /\ IF OverridePanics THEN Panic("override")
       ELSE /\ change
            /\ calls' = calls + 1
            /\ UNCHANGED <<fixed, cache, status, locked, tracker, list, shares, keys, hs, raw, pc,
                           call, outcome, panicked>>

overrideSessionTicketExt(session, init) ==
    /\ ctl' = [ctl EXCEPT !.ticket = "user"]
    /\ ticketExt' = [ticketExt EXCEPT !["user"] = [session |-> session, init |-> init]]
    /\ state' = IF init THEN "TicketInit" ELSE state
    /\ UNCHANGED pskExt

overridePskExt(ext) ==
    /\ ctl' = [ctl EXCEPT !.psk = "user"]
    /\ pskExt' = [pskExt EXCEPT !["user"] = ext]
    /\ state' = IF ext.session # None THEN "PskInit" ELSE state
    /\ UNCHANGED ticketExt

SetSessionTicketExtension ==
    \E init \in BOOLEAN : Set(overrideSessionTicketExt(IF init THEN "user12" ELSE None, init))

SetSessionState == \E session \in {None, "user12"} : Set(overrideSessionTicketExt(session, TRUE))

SetPskExtension ==
    \E ext \in [fake : {FALSE}, session : {None, "user13"}] \cup FakePsk : Set(overridePskExt(ext))

SetSessionCache ==
    /\ Idle /\ calls < MaxCalls
    /\ cache' \in {"nil", None, "cached12", "cached13"}
    /\ calls' = calls + 1
    /\ UNCHANGED <<fixed, status, controller, list, shares, keys, hs, raw, pc, call, outcome,
                   panicked>>

-----------------------------------------------------------------------------
(* syncSessionExts, the end of ApplyPreset. *)
SyncPanics == locked \/ state \notin {"NoSession", "TicketInit", "PskInit"}
SyncFails ==
    \/ ~spec.ticket /\ state = "TicketInit"
    \/ ~spec.psk /\ state = "PskInit"

DropTicket == ~spec.ticket /\ state # "TicketInit"
DropPsk == ~spec.psk /\ state # "PskInit" /\ (spec.ticket \/ state # "TicketInit")

Taken(there, mine) == IF there /\ mine = None THEN "spec" ELSE mine

syncSessionExts ==
    /\ ctl' = [ticket |-> IF DropTicket THEN None ELSE Taken(spec.ticket, ctl.ticket),
               psk    |-> IF DropPsk THEN None ELSE Taken(spec.psk, ctl.psk)]
    /\ list' = [ticket |-> IF spec.ticket THEN Taken(TRUE, ctl.ticket) ELSE None,
                psk    |-> IF spec.psk THEN Taken(TRUE, ctl.psk) ELSE None]
    /\ hs' = [session    |-> IF DropTicket \/ DropPsk THEN None ELSE hs.session,
              ticket     |-> None,
              early      |-> IF DropPsk THEN None ELSE hs.early,
              binderKey  |-> IF DropPsk THEN None ELSE hs.binderKey,
              identities |-> None]

(* A new Hello and an empty KeyShareKeys; keys are generated for the shares of
   the spec that hold none, so that a spec applied twice keeps its shares and
   loses their private keys. *)
ApplyPreset ==
    /\ keys' = ~shares
    /\ shares' = TRUE
    /\ raw' = NoRaw
    /\ syncSessionExts
    /\ UNCHANGED <<fixed, cache, status, state, locked, tracker, ticketExt, pskExt, outcome>>

(* What an application does with HelloCustom (GetUConn in proxy.go). *)
ApplyPresetCustom ==
    /\ Idle /\ calls < MaxCalls /\ id = "custom" /\ status = "NotBuilt" /\ ~shares
    /\ ~SyncPanics /\ ApplyPreset
    /\ calls' = calls + 1
    /\ UNCHANGED <<pc, call, panicked>>

-----------------------------------------------------------------------------
(* buildHandshakeState, on behalf of call c. *)
buildHandshakeState(c) ==
    /\ calls' = calls + 1
    /\ IF id = "golang"
       THEN /\ status' = "BuildByGoTLS"
            /\ keys' = (keys \/ status = "NotBuilt") /\ shares' = TRUE
            /\ pc' = IF c \in {"handshake", "renegotiate"} THEN "handshake" ELSE "idle"
            /\ call' = IF pc' = "idle" THEN None ELSE c
       ELSE /\ pc' = IF status = "NotBuilt" THEN "preset" ELSE "config"
            /\ call' = c
            /\ UNCHANGED <<status, keys, shares>>
    /\ UNCHANGED <<fixed, cache, controller, list, hs, raw, outcome, panicked>>

BuildHandshakeState == Idle /\ calls < MaxCalls /\ buildHandshakeState("build")
BuildHandshakeStateWithoutSession == Idle /\ calls < MaxCalls /\ buildHandshakeState("inspect")

(* Handshake: a failed build returns without setting handshakeErr, so that the
   next call builds again. *)
Handshake ==
    /\ Idle /\ calls < MaxCalls
    /\ handshakes = 0 /\ ~handshakeErr
    /\ buildHandshakeState("handshake")

(* handleRenegotiation: a HelloRequest of the server; cfg.renego is 0 for
   RenegotiateNever, 1 for RenegotiateOnceAsClient, 2 for Freely. *)
HandleRenegotiation ==
    /\ Idle /\ calls < MaxCalls
    /\ handshakes >= 1 /\ vers = 12 /\ ~handshakeErr
    /\ cfg.renego = 2 \/ (cfg.renego = 1 /\ handshakes <= 1)
    /\ buildHandshakeState("renegotiate")

applyPresetByID ==
    /\ At("preset")
    /\ IF id = "custom"
       THEN /\ Continue("config")
            /\ UNCHANGED <<fixed, cache, status, controller, list, shares, keys, hs, raw, calls,
                           outcome, panicked>>
       ELSE IF SyncPanics THEN Panic("sync")
       ELSE /\ ApplyPreset
            /\ IF SyncFails THEN Return ELSE Continue("config")
            /\ UNCHANGED <<calls, panicked>>

(* What MarshalClientHelloNoECH writes: the objects of the list, not those of
   the controller; an empty PSK is refused unless it may be left out. *)
MarshalFails == list.psk # None /\ pskExt[list.psk].session = None /\ ~cfg.omit

Marshalled ==
    LET psk == IF list.psk = None THEN None ELSE pskExt[list.psk].session
    IN [ticket  |-> IF list.ticket = None THEN None ELSE ticketExt[list.ticket].session,
        psk     |-> psk,
        binders |-> CASE psk = None -> "absent" [] psk = "given" -> "given" [] OTHER -> "stale"]

(* A fake PSK object writes its identities into the hello when the cache holds a
   session. *)
WrittenIdentities ==
    IF list.psk # None /\ pskExt[list.psk].fake /\ cache \in Sessions
    THEN IF pskExt[list.psk].session = None THEN None ELSE list.psk
    ELSE hs.identities

(* writeToUConn of the ECH extension already marshals the hello, before any
   session is loaded; the PSK extension is the last of the list. *)
ApplyConfig ==
    /\ At("config")
    /\ IF spec.ech /\ shares /\ MarshalFails THEN Return /\ UNCHANGED <<hs, raw>>
       ELSE /\ hs' = [hs EXCEPT !.identities = WrittenIdentities]
            /\ raw' = IF spec.ech /\ shares THEN Marshalled ELSE raw
            /\ Continue(IF call = "inspect" THEN "marshal" ELSE "load")
    /\ UNCHANGED <<fixed, cache, status, controller, list, shares, keys, calls, outcome,
                   panicked>>

-----------------------------------------------------------------------------
(* uLoadSession. *)
Quiet == UNCHANGED <<fixed, cache, status, locked, list, shares, keys, raw, calls, outcome,
                     panicked>>

shouldReturn ==
    \/ SessionsOff
    \/ ctl.ticket = None /\ ctl.psk = None
    \/ status # "NotBuilt"

setSessionTicketToUConn(session) ==
    /\ hs' = [hs EXCEPT !.session = session, !.ticket = session]
    /\ state' = "TicketAllSet"

(* GetPreSharedKeyCommon: a fake has neither session nor secrets. *)
Common(o) == IF pskExt[o].fake THEN None ELSE pskExt[o].session

(* The assertion of setPskToUConn, "only binders are allowed to change". *)
OnlyBinders ==
    state = "PskAllSet" =>
        /\ hs.session = Common(ctl.psk) /\ hs.early = Common(ctl.psk)
        /\ hs.identities \in {None, ctl.psk}

setPskToUConn ==
    LET session == Common(ctl.psk)
    IN /\ hs' = IF state = "PskInit"
                THEN [hs EXCEPT !.session = session, !.early = session, !.binderKey = session,
                                !.identities = ctl.psk]
                ELSE [hs EXCEPT !.binderKey = session]
       /\ state' = "PskAllSet"

SkipLoad ==
    /\ At("load") /\ shouldReturn
    /\ Continue("marshal")
    /\ Quiet /\ UNCHANGED <<state, tracker, ticketExt, pskExt, ctl, hs>>

SetTicket ==
    /\ At("load") /\ ~shouldReturn /\ state = "TicketInit"
    /\ setSessionTicketToUConn(ticketExt[ctl.ticket].session)
    /\ Continue("marshal")
    /\ Quiet /\ UNCHANGED <<tracker, ticketExt, pskExt, ctl>>

SetPsk ==
    /\ At("load") /\ ~shouldReturn /\ state = "PskInit"
    /\ setPskToUConn
    /\ Continue("marshal")
    /\ Quiet /\ UNCHANGED <<tracker, ticketExt, pskExt, ctl>>

(* The assertions of uLoadSession: the one that fails for this session. *)
LoadPanic(session) ==
    IF state # "NoSession" \/ locked THEN "aboutToLoad"
    ELSE IF session \in Sessions12 /\ ctl.ticket = None
         THEN IF CanSkip THEN "setTicket" ELSE "canSkip"
    ELSE IF session \in Sessions13 /\ ctl.psk = None /\ ~CanSkip THEN "canSkip"
    ELSE IF session \in Sessions13 /\ ctl.psk # None /\ pskExt[ctl.psk].fake THEN "fakeInit"
    ELSE None

LoadTicket(session) ==
    /\ session \in Sessions12
    /\ ticketExt' = [ticketExt EXCEPT ![ctl.ticket] = [session |-> session, init |-> TRUE]]
    /\ setSessionTicketToUConn(session)
    /\ UNCHANGED pskExt

\* Variant: the state is the one that setPskToUConn leaves, as for a ticket.
LoadPskAllSet(session) ==
    /\ session \in Sessions13 /\ ctl.psk # None
    /\ pskExt' = [pskExt EXCEPT ![ctl.psk] = [fake |-> FALSE, session |-> session]]
    /\ state' = "PskAllSet"
    /\ UNCHANGED <<ticketExt, hs>>

LoadPsk(session) ==
    /\ session \in Sessions13 /\ ctl.psk # None
    /\ pskExt' = [pskExt EXCEPT ![ctl.psk] = [fake |-> FALSE, session |-> session]]
    /\ state' = "PskInit"
    /\ UNCHANGED <<ticketExt, hs>>

LoadNothing(session) ==
    /\ session \in Sessions13 => ctl.psk = None
    /\ session \notin Sessions12
    /\ UNCHANGED <<state, ticketExt, pskExt, hs>>

(* loadSession: its checks may refuse the cached session; tracker is set to
   UtlsAboutToCall before it and to CalledByULoadSession on return. *)
uLoadSession ==
    /\ At("load") /\ ~shouldReturn /\ state \notin {"TicketInit", "PskInit"}
    /\ \E session \in {None, cache} :
        IF LoadPanic(session) # None THEN Panic(LoadPanic(session))
        ELSE /\ LoadTicket(session) \/ LoadPsk(session) \/ LoadNothing(session)
             /\ tracker' = "CalledByULoadSession"
             /\ Continue("marshal")
             /\ Quiet /\ UNCHANGED ctl

-----------------------------------------------------------------------------
(* MarshalClientHello.  With an ECH configuration the error of
   computeAndUpdateOuterECHExtension is dropped and Raw stays as it was. *)
MarshalClientHello ==
    /\ At("marshal")
    /\ CASE cfg.ech /\ (MarshalFails \/ ~spec.ech \/ ~shares) ->
               /\ UNCHANGED raw
               /\ Continue(IF call = "inspect" THEN "over" ELSE "patch")
         [] ~cfg.ech /\ MarshalFails -> Return /\ UNCHANGED raw
         [] OTHER ->
               /\ raw' = Marshalled
               /\ Continue(IF call = "inspect" THEN "over" ELSE "patch")
    /\ UNCHANGED <<fixed, cache, status, controller, list, shares, keys, hs, calls, outcome,
                   panicked>>

(* uApplyPatch writes the binders at the end of Raw, which is the end of the PSK
   extension only if the list holds the controller's object, and which a fake
   does not do; finalCheck locks the session. *)
\* Variant: the binders are computed only for the first hello.
shouldUpdateBindersOnce == ctl.psk # None /\ state = "PskInit"

shouldUpdateBinders == ctl.psk # None /\ state \in {"PskInit", "PskAllSet"}

updateBinders ==
    raw' = IF pskExt[ctl.psk].fake THEN raw
           ELSE [raw EXCEPT !.binders = IF list.psk = ctl.psk THEN "good" ELSE "misplaced"]

ApplyPatch ==
    /\ At("patch")
    /\ IF ~shouldUpdateBinders /\ state \in {"TicketInit", "PskInit"} THEN Panic("finalCheck")
       ELSE IF shouldUpdateBinders /\ ~OnlyBinders THEN Panic("onlyBinders")
       ELSE /\ IF shouldUpdateBinders THEN updateBinders /\ setPskToUConn
               ELSE UNCHANGED <<raw, state, hs>>
            /\ locked' = TRUE
            /\ status' = "BuildByUtls"
            /\ Continue("over")
            /\ UNCHANGED <<fixed, cache, tracker, ticketExt, pskExt, ctl, list, shares, keys,
                           calls, outcome, panicked>>

-----------------------------------------------------------------------------
(* toPublic12: HandshakeState is replaced after a TLS 1.2 handshake by one that
   has no State13. *)
Without13(h) == [h EXCEPT !.early = None, !.binderKey = None]

(* clientHandshake, with the session it resumes and the HandshakeState it works
   on: TLS 1.3 needs the private key of a share; a failure throws the session away
   and leaves a HandshakeState that depends on how far it had come.  A server that
   answers a renegotiation with TLS 1.3 makes it dereference the session. *)
Finish(h, session) ==
    \/ /\ handshakes' = handshakes + 1
       /\ vers' \in IF handshakes = 0 THEN {12, 13} ELSE {vers}
       /\ vers' = 13 => keys
       /\ hs' = IF vers' = 12 THEN Without13(h) ELSE h
       /\ keys' = (keys /\ vers' = 13)
       /\ cache' \in IF SessionsOff THEN {cache}
                     ELSE {cache, IF vers' = 12 THEN "cached12" ELSE "cached13"}
       /\ UNCHANGED <<handshakeErr, panicked>>
    \/ /\ ~(session # None /\ cache = "nil")
       /\ handshakeErr' = TRUE
       /\ cache' = IF session # None THEN None ELSE cache
       /\ \/ hs' \in {h, [hs EXCEPT !.ticket = h.ticket]} /\ UNCHANGED keys
          \/ hs' = Without13(h) /\ keys' = FALSE
       /\ UNCHANGED <<handshakes, vers, panicked>>
    \/ /\ \/ session # None /\ cache = "nil" /\ panicked' = "nilCache"
          \/ session = None /\ handshakes > 0 /\ panicked' = "nilSession"
       /\ UNCHANGED <<handshakes, vers, handshakeErr, cache, hs, keys>>

(* A locked session is taken from HandshakeState, else it is loaded. *)
ClientHandshakeLocked ==
    /\ At("handshake") /\ locked
    /\ Finish(hs, hs.session)
    /\ Return
    /\ UNCHANGED <<fixed, status, controller, list, shares, raw, calls>>

Loaded(session) ==
    [hs EXCEPT !.session = session,
               !.ticket = IF session \in Sessions12 THEN session ELSE None,
               !.early = IF session \in Sessions13 THEN session ELSE None,
               !.binderKey = IF session \in Sessions13 THEN session ELSE None]

ClientHandshakeGoTLS ==
    /\ At("handshake") /\ ~locked
    /\ IF tracker # "NeverCalled" THEN Panic("loadTwice")
       ELSE \E session \in IF SessionsOff \/ handshakes > 0 THEN {None} ELSE {None, cache} :
            /\ tracker' = "CalledByGoTLS"
            /\ Finish(Loaded(session), session)
            /\ Return
            /\ UNCHANGED <<fixed, status, state, locked, ticketExt, pskExt, ctl, list, shares,
                           raw, calls>>

(* The application makes no further call, or it has crashed. *)
Over == ((Idle /\ calls = MaxCalls) \/ panicked # None) /\ UNCHANGED vars

Next ==
    \/ SetSessionTicketExtension \/ SetSessionState \/ SetPskExtension \/ SetSessionCache
    \/ ApplyPresetCustom
    \/ BuildHandshakeState \/ BuildHandshakeStateWithoutSession \/ Handshake
    \/ HandleRenegotiation
    \/ applyPresetByID \/ ApplyConfig
    \/ SkipLoad \/ SetTicket \/ SetPsk \/ uLoadSession
    \/ MarshalClientHello \/ ApplyPatch
    \/ ClientHandshakeLocked \/ ClientHandshakeGoTLS
    \/ Over

Spec == Init /\ [][Next]_vars

-----------------------------------------------------------------------------
(* The hello that a handshake is about to send and the state it is about to use
   belong to one session: an identity of a session in the bytes is that of
   HandshakeState, which has its early secret and binder key, and its binders were
   computed for these bytes; so for a ticket; and an early secret comes with its
   session (clientHandshake dereferences it).  It needs the list and the
   controller to hold the same objects, which setting an extension after
   ApplyPreset on HelloCustom breaks, and an ECH extension when ECH is
   configured. *)
EchUnusable == cfg.ech /\ (~spec.ech \/ MarshalFails)

SentHelloConsistent ==
    At("handshake") /\ locked /\ list = ctl /\ ~EchUnusable =>
        /\ raw.psk \in Sessions => /\ raw.psk = hs.session
                                   /\ hs.early = raw.psk /\ hs.binderKey = raw.psk
                                   /\ raw.binders = "good"
        /\ raw.ticket # None => raw.ticket = hs.session
        /\ hs.session # None => hs.session \in {raw.psk, raw.ticket}
        /\ hs.early # None => hs.early = hs.session /\ hs.binderKey = hs.session

(* Once finalCheck has locked the session no call changes it, neither a rebuild
   nor a cache that has since received another session; only a handshake over
   TLS 1.2, or one that failed, drops its early secret (toPublic12). *)
LockedSessionStable ==
    [][locked =>
          /\ locked' /\ hs'.session = hs.session
          /\ hs'.early # hs.early =>
                 At("handshake") /\ hs'.early = None /\ (vers' = 12 \/ handshakeErr')]_vars

(* The assertion of setPskToUConn, "only binders are allowed to change on state
   `PskAllSet`", whatever was built, inspected, retried or loaded before: it fails
   only after a handshake over TLS 1.2, or a failed one, has dropped the early
   secret, or when the list holds another PSK object than the controller. *)
OnlyHandshakeAltersPsk ==
    panicked = "onlyBinders" => vers = 12 \/ handshakeErr \/ list.psk # ctl.psk

(* The assertion of onEnterLoadSessionCheck: "you must not call loadSession()
   twice". *)
SessionLoadedOnce == panicked # "loadTwice"
=============================================================================
