------------------------------- MODULE TLSConn -------------------------------
(***************************************************************************)
(* A client connection of utls shared by goroutines (conn.go, u_conn.go):  *)
(* Read, Write, Close, CloseWrite and HandshakeContext run concurrently on *)
(* three mutexes (handshakeMutex, in, out), the activeCall interlock, the  *)
(* isHandshakeComplete flag and the interrupter goroutine of a context.    *)
(*                                                                         *)
(* Every goroutine takes one step per mutex it waits for, with what it     *)
(* does up to its next wait, and one per call of the network.  Records are *)
(* reduced to their kind and to the key (epoch) and sequence number they   *)
(* are sealed with; the peer sends any record at any time.  The messages   *)
(* of the handshake itself are the subject of module TLSHandshake; here it *)
(* is the hello, the answers of the server, and the final flight.          *)
(***************************************************************************)
EXTENDS Integers, Sequences

CONSTANTS
    Procs,              \* goroutines that use the connection
    Uses,               \* per goroutine: the calls it makes
    Renegotiation,      \* settings of Config.Renegotiation: 0 never, 1 once, 2 freely
    Versions,           \* versions the server may select
    Batches,            \* the handshake messages a record of the peer may hold
    MaxCalls,           \* bound on the calls the goroutines make
    MaxRecords,         \* bound on the records of the peer, its answers in a handshake aside
    MaxUselessRecords   \* maxUselessRecords

None == "none"
Calls == {"read", "write", "handshake", "close", "closewrite"}
Messages == {"helloRequest", "ticket", "keyUpdate", "keyUpdateRequested", "other", "oversized"}

ASSUME ProcsAssumption == None \notin Procs
ASSUME UsesAssumption == Uses \in [Procs -> SUBSET Calls]
ASSUME RenegotiationAssumption == Renegotiation \subseteq {0, 1, 2}
ASSUME VersionsAssumption == Versions \subseteq {12, 13}
ASSUME BatchesAssumption == \A b \in Batches : b \in Seq(Messages)
ASSUME BoundsAssumption == {MaxCalls, MaxRecords, MaxUselessRecords} \subseteq Nat

VARIABLES
    renego,             \* Config.Renegotiation
    complete,           \* isHandshakeComplete
    handshakeErr, handshakes,
    vers,               \* 0 until it is negotiated
    handshakeMutex, inMutex, outMutex,      \* the holder, or None
    closing,            \* the low bit of activeCall
    writing,            \* the goroutines the other bits of activeCall count
    inErr, input,       \* in.err is set; application data is waiting in c.input
    hand,               \* handshake messages waiting in c.hand
    retryCount,
    out,                \* out: key in use and next sequence number
    outErr, buffering, sendBuf, closeNotifySent,
    expired,            \* the write deadline has passed for good
    connClosed,         \* the network connection was closed by this side
    wire,               \* records handed to the network, ok if it took them
    unlocked,           \* an alert was sent without holding out
    pc, call, job,      \* per goroutine: next step, call, kind of record to write
    rec,                \* per goroutine: the record it has sealed
    ctx, interrupter,   \* per goroutine: its context and the goroutine watching it
    failed,             \* per goroutine: its handshake has failed
    reneg,              \* the goroutine that renegotiates, or None
    returnedNil,        \* per goroutine: its last HandshakeContext returned nil
    calls, records

Kinds == {"app", "app2", "hello", "ccs", "finished", "keyupdate", "alert", "close_notify"}
Record == [kind : Kinds, epoch : Nat, seq : Nat, ok : BOOLEAN]
NoRecord == [kind |-> "app", epoch |-> 0, seq |-> 0, ok |-> FALSE]
Steps == {"idle", "fast", "handshakeMutex", "in", "build", "answer", "flight", "answer2", "flush", "flushed",
          "end", "wait", "out", "encrypt", "net", "readlock",
          "read", "post", "predict", "retry", "renego", "closeload", "close"}

locks == <<handshakeMutex, inMutex, outMutex>>
handshake == <<complete, handshakeErr, handshakes, vers, reneg, failed>>
inside == <<inErr, input, hand, retryCount>>
outside == <<out, outErr, buffering, sendBuf, closeNotifySent, expired, wire, unlocked>>
active == <<closing, writing>>
context == <<ctx, interrupter, returnedNil>>
vars == <<renego, handshake, locks, active, inside, outside, connClosed, pc, call, job, rec,
          context, calls, records>>

Init ==
    /\ renego \in Renegotiation
    /\ complete = FALSE /\ handshakeErr = FALSE /\ handshakes = 0 /\ vers = 0
    /\ handshakeMutex = None /\ inMutex = None /\ outMutex = None
    /\ closing = FALSE /\ writing = {}
    /\ inErr = FALSE /\ input = FALSE /\ hand = <<>> /\ retryCount = 0
    /\ out = [epoch |-> 0, seq |-> 0] /\ outErr = FALSE
    /\ buffering = FALSE /\ sendBuf = <<>>
    /\ closeNotifySent = FALSE /\ expired = FALSE /\ connClosed = FALSE
    /\ wire = <<>> /\ unlocked = FALSE
    /\ pc = [p \in Procs |-> "idle"]
    /\ call = [p \in Procs |-> None]
    /\ job = [p \in Procs |-> None]
    /\ rec = [p \in Procs |-> NoRecord]
    /\ ctx = [p \in Procs |-> "background"]
    /\ interrupter = [p \in Procs |-> "off"]
    /\ failed = [p \in Procs |-> FALSE]
    /\ returnedNil = [p \in Procs |-> FALSE]
    /\ reneg = None
    /\ calls = 0 /\ records = 0

Goto(p, step) == pc' = [pc EXCEPT ![p] = step]
Send(p, kind) == job' = [job EXCEPT ![p] = kind] /\ Goto(p, "out")
Free(mutex, p) == IF mutex = p THEN None ELSE mutex

(* The deferred unlocks and the decrement of activeCall. *)
Return(p) ==
    /\ Goto(p, "idle")
    /\ call' = [call EXCEPT ![p] = None]
    /\ handshakeMutex' = Free(handshakeMutex, p)
    /\ inMutex' = Free(inMutex, p) /\ outMutex' = Free(outMutex, p)
    /\ writing' = writing \ {p}
    /\ job' = [job EXCEPT ![p] = None]
    /\ UNCHANGED closing

-----------------------------------------------------------------------------
(* The calls. *)
Start(p, what, step) ==
    /\ pc[p] = "idle" /\ calls < MaxCalls /\ what \in Uses[p]
    /\ calls' = calls + 1
    /\ call' = [call EXCEPT ![p] = what]
    /\ failed' = [failed EXCEPT ![p] = FALSE]
    /\ ctx' = [ctx EXCEPT ![p] = IF what = "handshake" THEN "live" ELSE "background"]
    /\ interrupter' = [interrupter EXCEPT ![p] = "off"]
    /\ Goto(p, step)
    /\ UNCHANGED <<renego, complete, handshakeErr, handshakes, vers, reneg, locks, inside, outside,
                   connClosed, rec, records>>

Read(p) == Start(p, "read", "fast") /\ UNCHANGED <<active, job, returnedNil>>

Write(p) ==
    /\ ~closing
    /\ Start(p, "write", "fast")
    /\ writing' = writing \cup {p}
    /\ UNCHANGED <<closing, job, returnedNil>>

HandshakeContext(p) ==
    /\ Start(p, "handshake", "fast")
    /\ returnedNil' = [returnedNil EXCEPT ![p] = FALSE]
    /\ UNCHANGED <<active, job>>

\* Variant: Close does not look at the writers.
CloseIgnoresWriters(p) ==
    /\ ~closing
    /\ Start(p, "close", "closeload")
    /\ closing' = TRUE
    /\ UNCHANGED <<writing, job, returnedNil>>

(* Close marks the connection and looks at the writers in one step; with a
   writer in flight it closes the network connection at once. *)
Close(p) ==
    /\ ~closing
    /\ Start(p, "close", IF writing # {} THEN "close" ELSE "closeload")
    /\ closing' = TRUE
    /\ UNCHANGED <<writing, job, returnedNil>>

CloseWrite(p) ==
    /\ complete
    /\ Start(p, "closewrite", "out")
    /\ job' = [job EXCEPT ![p] = "close_notify"]
    /\ UNCHANGED <<active, returnedNil>>

CloseLoad(p) ==
    /\ pc[p] = "closeload"
    /\ IF complete THEN Send(p, "close_notify") ELSE Goto(p, "close") /\ UNCHANGED job
    /\ UNCHANGED <<renego, handshake, locks, active, inside, outside, connClosed, call, rec, context,
                   calls, records>>

CloseConn(p) ==
    /\ pc[p] = "close"
    /\ connClosed' = TRUE
    /\ Return(p)
    /\ UNCHANGED <<renego, handshake, inside, outside, rec, context, calls, records>>

-----------------------------------------------------------------------------
(* handshakeContext. *)
Resume(p) ==
    CASE call[p] = "read"  -> Goto(p, "readlock") /\ UNCHANGED <<job, call, locks, active, returnedNil>>
      [] call[p] = "write" -> /\ \E kind \in {"app", "app2"} : Send(p, kind)
                              /\ UNCHANGED <<call, locks, active, returnedNil>>
      [] OTHER             -> Return(p) /\ returnedNil' = [returnedNil EXCEPT ![p] = TRUE]

Fast(p) ==
    /\ pc[p] = "fast"
    /\ IF complete THEN Resume(p) /\ UNCHANGED interrupter
       ELSE /\ Goto(p, "handshakeMutex")
            /\ interrupter' = [interrupter EXCEPT
                                ![p] = IF ctx[p] = "background" THEN "off" ELSE "waiting"]
            /\ UNCHANGED <<call, job, locks, active, returnedNil>>
    /\ UNCHANGED <<renego, handshake, inside, outside, connClosed, rec, ctx, calls, records>>

LockHandshake(p) ==
    /\ pc[p] = "handshakeMutex" /\ handshakeMutex = None
    /\ IF handshakeErr \/ complete
       THEN /\ failed' = [failed EXCEPT ![p] = handshakeErr]
            /\ Goto(p, "wait")
            /\ UNCHANGED handshakeMutex
       ELSE /\ handshakeMutex' = p
            /\ Goto(p, "in")
            /\ UNCHANGED failed
    /\ UNCHANGED <<renego, complete, handshakeErr, handshakes, vers, reneg, inMutex, outMutex, active,
                   inside, outside, connClosed, call, job, rec, context, calls, records>>

LockIn(p) ==
    /\ pc[p] = "in" /\ inMutex = None
    /\ inMutex' = p
    /\ Goto(p, "build")
    /\ UNCHANGED <<renego, handshake, handshakeMutex, outMutex, active, inside, outside, connClosed,
                   call, job, rec, context, calls, records>>

(* A build that fails returns its error and leaves handshakeErr alone. *)
Build(p) ==
    /\ pc[p] = "build"
    /\ \/ Send(p, "hello") /\ UNCHANGED <<handshakeMutex, inMutex, failed>>
       \/ /\ handshakes = 0
          /\ failed' = [failed EXCEPT ![p] = TRUE]
          /\ handshakeMutex' = None /\ inMutex' = None
          /\ Goto(p, "wait")
          /\ UNCHANGED job
    /\ UNCHANGED <<renego, complete, handshakeErr, handshakes, vers, reneg, outMutex, active, inside,
                   outside, connClosed, call, rec, context, calls, records>>

(* What the handshake waits for: the ServerHello, the rest of the server's
   flight and, in TLS 1.2, its Finished.  From the ServerHello on what is sent is
   buffered; TLS 1.3 sends its ChangeCipherSpec at once. *)
Awaits(p) == pc[p] \in {"answer", "flight", "answer2"}
Fail(p) == failed' = [failed EXCEPT ![p] = TRUE]

(* External: a peer that missed a record, or was told of an error, does not go
   on with a handshake, and none answers a hello that was not sent. *)
PeerFollows(p) ==
    /\ \A i \in DOMAIN wire : wire[i].ok /\ wire[i].kind # "alert"
    /\ pc[p] = "answer" => sendBuf = <<>>

Answer(p) ==
    /\ Awaits(p) /\ ~connClosed /\ ~inErr /\ PeerFollows(p)
    /\ retryCount' = 0
    /\ vers' \in IF vers = 0 THEN Versions ELSE {vers}
    /\ buffering' = (buffering \/ pc[p] = "answer")
    /\ complete' = (pc[p] = "answer2")
    /\ CASE pc[p] = "answer" /\ vers' = 13 -> Send(p, "ccs")
         [] pc[p] = "answer" /\ vers' # 13 -> Goto(p, "flight") /\ UNCHANGED job
         [] pc[p] = "flight" -> Send(p, IF vers = 13 THEN "finished" ELSE "ccs")
         [] pc[p] = "answer2" -> Goto(p, "end") /\ UNCHANGED job
    /\ UNCHANGED <<renego, handshakeErr, handshakes, reneg, failed, locks, active, inErr, input, hand,
                   out, outErr, sendBuf, closeNotifySent, expired, wire, unlocked, connClosed, call,
                   rec, context, calls, records>>

(* A record that is ignored, and one that is refused with an alert. *)
AnswerIgnored(p) ==
    /\ Awaits(p) /\ ~connClosed /\ ~inErr
    /\ records < MaxRecords /\ records' = records + 1
    /\ retryCount' = retryCount + 1
    /\ IF retryCount' > MaxUselessRecords
       THEN inErr' = TRUE /\ Fail(p) /\ Send(p, "alert")
       ELSE UNCHANGED <<inErr, failed, pc, job>>
    /\ UNCHANGED <<renego, complete, handshakeErr, handshakes, vers, reneg, locks, active, input,
                   hand, outside, connClosed, call, rec, context, calls>>

AnswerRefused(p) ==
    /\ Awaits(p) /\ ~connClosed /\ ~inErr
    /\ Fail(p)
    /\ Send(p, "alert")
    /\ UNCHANGED <<renego, complete, handshakeErr, handshakes, vers, reneg, locks, active, inside,
                   outside, connClosed, call, rec, context, calls, records>>

(* The network fails under the handshake, a closed connection always; only a
   timeout leaves in.err alone. *)
AnswerFails(p) ==
    /\ Awaits(p) /\ Fail(p)
    /\ inErr' \in IF inErr \/ connClosed THEN {TRUE} ELSE BOOLEAN
    /\ Goto(p, "end")
    /\ UNCHANGED <<renego, complete, handshakeErr, handshakes, vers, reneg, locks, active, input,
                   hand, retryCount, outside, connClosed, call, job, rec, context, calls, records>>

Flush(p) ==
    /\ pc[p] = "flush"
    /\ \E ok \in BOOLEAN :
         /\ ok => ~connClosed /\ ~expired
         /\ wire' = wire \o [i \in DOMAIN sendBuf |-> [sendBuf[i] EXCEPT !.ok = ok]]
         /\ failed' = [failed EXCEPT ![p] = @ \/ ~ok]
    /\ Goto(p, "flushed")
    /\ UNCHANGED <<renego, complete, handshakeErr, handshakes, vers, reneg, locks, active, inside,
                   out, outErr, buffering, sendBuf, closeNotifySent, expired, unlocked, connClosed,
                   call, job, rec, context, calls, records>>

(* The rest of flush: what was buffered meanwhile is dropped with the rest.
   TLS 1.2 then waits for the server's Finished, unless it resumes a session. *)
Flushed(p) ==
    /\ pc[p] = "flushed"
    /\ sendBuf' = <<>> /\ buffering' = FALSE
    /\ complete' \in IF failed[p] THEN {FALSE} ELSE {TRUE, vers = 13}
    /\ Goto(p, IF failed[p] \/ complete' THEN "end" ELSE "answer2")
    /\ UNCHANGED <<renego, handshakeErr, handshakes, vers, reneg, failed, locks, active, inside, out,
                   outErr, closeNotifySent, expired, wire, unlocked, connClosed, call, job, rec,
                   context, calls, records>>

(* A failed handshake flushes the alert it has buffered; handleRenegotiation
   does not. *)
FlushAlert(p) ==
    /\ pc[p] = "end" /\ failed[p] /\ reneg # p /\ sendBuf # <<>>
    /\ Goto(p, "flush")
    /\ UNCHANGED <<renego, handshake, locks, active, inside, outside, connClosed, call, job, rec,
                   context, calls, records>>

End(p) ==
    /\ pc[p] = "end" /\ (failed[p] /\ reneg # p => sendBuf = <<>>)
    /\ handshakeErr' = failed[p]
    /\ handshakes' = IF failed[p] THEN handshakes ELSE handshakes + 1
    /\ reneg' = None
    /\ IF reneg = p /\ failed[p] THEN Return(p)
       ELSE /\ handshakeMutex' = None
            /\ inMutex' = IF reneg = p THEN inMutex ELSE None
            /\ Goto(p, IF reneg = p THEN "post" ELSE "wait")
            /\ UNCHANGED <<call, job, outMutex, active>>
    /\ UNCHANGED <<renego, complete, vers, failed, inside, outside, connClosed, rec, context, calls,
                   records>>

(* The deferred functions of a call with a context: close(done), then wait for
   the interrupter, whose error replaces the result. *)
Cancel(p) ==
    /\ ctx[p] = "live" /\ call[p] = "handshake"
    /\ ctx' = [ctx EXCEPT ![p] = "canceled"]
    /\ UNCHANGED <<renego, handshake, locks, active, inside, outside, connClosed, pc, call, job, rec,
                   interrupter, returnedNil, calls, records>>

Interrupted(p) ==
    /\ interrupter' = [interrupter EXCEPT ![p] = "closed"]
    /\ connClosed' = TRUE
    /\ UNCHANGED <<renego, handshake, locks, active, inside, outside, pc, call, job, rec, ctx,
                   returnedNil, calls, records>>

Interrupt(p) == interrupter[p] = "waiting" /\ ctx[p] = "canceled" /\ Interrupted(p)

StopInterrupter(p) ==
    /\ interrupter[p] = "waiting" /\ pc[p] = "wait"
    /\ interrupter' = [interrupter EXCEPT ![p] = "off"]
    /\ UNCHANGED <<renego, handshake, locks, active, inside, outside, connClosed, pc, call, job, rec,
                   ctx, returnedNil, calls, records>>

\* Variant: the call does not wait for its interrupter.
HandshakeReturnsAtOnce(p) ==
    /\ pc[p] = "wait"
    /\ IF failed[p] THEN Return(p) /\ UNCHANGED returnedNil ELSE Resume(p)
    /\ UNCHANGED <<renego, handshake, inside, outside, connClosed, rec, ctx, interrupter, calls,
                   records>>

HandshakeReturns(p) ==
    /\ pc[p] = "wait" /\ interrupter[p] # "waiting"
    /\ IF failed[p] \/ interrupter[p] = "closed"
       THEN Return(p) /\ UNCHANGED returnedNil
       ELSE Resume(p)
    /\ UNCHANGED <<renego, handshake, inside, outside, connClosed, rec, ctx, interrupter, calls,
                   records>>
-----------------------------------------------------------------------------
(* Writing one record: take out, check and seal; then hand it to the network or
   to sendBuf. *)
writerOnly == <<renego, handshake, inside, connClosed, context, calls, records>>

Seal(p) ==
    /\ rec' = [rec EXCEPT ![p] = [kind |-> job[p], epoch |-> out.epoch, seq |-> out.seq, ok |-> TRUE]]
    /\ out' = [out EXCEPT !.seq = @ + 1]
    /\ Goto(p, "net")
    /\ UNCHANGED <<writerOnly, outErr, buffering, sendBuf, closeNotifySent, expired, wire, unlocked,
                   call, job, handshakeMutex, inMutex, active>>

(* A Close or CloseWrite that finds the notification sent is done with it. *)
Notified(p) ==
    IF call[p] = "close"
    THEN Goto(p, "close") /\ outMutex' = Free(outMutex, p)
         /\ UNCHANGED <<call, job, handshakeMutex, inMutex, active>>
    ELSE Return(p)

Stay == UNCHANGED <<call, job, locks, active>>

\* Variant: Write relies on the check of Handshake alone.
MayNotWriteAfterFastPath == outErr \/ closeNotifySent

MayNotWrite == outErr \/ ~complete \/ closeNotifySent

Refused(p) ==
    \/ job[p] = "close_notify" /\ closeNotifySent
    \/ job[p] \in {"app", "app2"} /\ MayNotWrite

WriteRecord(p) ==
    /\ pc[p] = "out" /\ outMutex = None /\ ~Refused(p)
    /\ outMutex' = p
    /\ Seal(p)

WriteRefused(p) ==
    /\ pc[p] = "out" /\ outMutex = None /\ Refused(p)
    /\ Notified(p)
    /\ UNCHANGED <<writerOnly, outside, rec>>

(* The next record of a Write, which keeps out, and the alert of Oversized. *)
NextRecord(p) == pc[p] = "encrypt" /\ Seal(p) /\ UNCHANGED outMutex

(* The records after which the peer expects the next key. *)
Switches(kind) == kind = "ccs" \/ (vers = 13 /\ kind \in {"finished", "keyupdate"})

Deliver(p, ok) ==
    IF buffering
    THEN ok /\ sendBuf' = Append(sendBuf, rec[p]) /\ UNCHANGED wire
    ELSE /\ ok => ~connClosed /\ ~expired
         /\ wire' = Append(wire, [rec[p] EXCEPT !.ok = ok])
         /\ UNCHANGED sendBuf

Unlock(p, step) ==
    /\ Goto(p, step) /\ outMutex' = Free(outMutex, p)
    /\ UNCHANGED <<call, handshakeMutex, inMutex, active>>

(* What the caller of writeRecordLocked does with its result. *)
AfterHandshakeRecord(p, ok) ==
    /\ failed' = [failed EXCEPT ![p] = ~ok]
    /\ job' = [job EXCEPT ![p] = IF job[p] = "ccs" /\ vers = 12 THEN "finished" ELSE job[p]]
    /\ Unlock(p, IF ~ok THEN "end"
                 ELSE CASE job[p] = "hello" -> "answer"
                        [] job[p] = "ccs" /\ vers = 12 -> "out"
                        [] job[p] = "ccs" /\ vers # 12 -> "flight"
                        [] job[p] = "finished" -> "flush")
    /\ UNCHANGED <<outErr, closeNotifySent, expired>>

AfterData(p, ok) ==
    /\ outErr' = ~ok
    /\ IF job[p] = "app2" /\ ok
       THEN /\ job' = [job EXCEPT ![p] = "app"]
            /\ Goto(p, "encrypt")
            /\ UNCHANGED <<call, locks, active>>
       ELSE Return(p)
    /\ UNCHANGED <<failed, closeNotifySent, expired>>

AfterKeyUpdate(p, ok) ==
    /\ outErr' = (outErr \/ ~ok)
    /\ Unlock(p, "post")
    /\ UNCHANGED <<job, failed, closeNotifySent, expired>>

AfterAlert(p) ==
    /\ outErr' = TRUE
    /\ IF handshakeMutex = p THEN Unlock(p, "end") /\ UNCHANGED job ELSE Return(p)
    /\ UNCHANGED <<failed, closeNotifySent, expired>>

(* Close goes on to close the network connection, whatever became of the
   notification. *)
AfterCloseNotify(p, ok) ==
    /\ closeNotifySent' = TRUE /\ expired' = TRUE
    /\ Notified(p)
    /\ UNCHANGED <<outErr, failed>>

Net(p) ==
    /\ pc[p] = "net"
    /\ rec' = [rec EXCEPT ![p] = NoRecord]
    /\ \E ok \in BOOLEAN :
         /\ Deliver(p, ok)
         /\ out' = IF ok /\ Switches(job[p]) THEN [epoch |-> out.epoch + 1, seq |-> 0] ELSE out
         /\ CASE job[p] \in {"hello", "ccs", "finished"} -> AfterHandshakeRecord(p, ok)
              [] job[p] \in {"app", "app2"} -> AfterData(p, ok)
              [] job[p] = "keyupdate" -> AfterKeyUpdate(p, ok)
              [] job[p] = "alert" -> AfterAlert(p)
              [] job[p] = "close_notify" -> AfterCloseNotify(p, ok)
    /\ UNCHANGED <<renego, complete, handshakeErr, handshakes, vers, reneg, inside, buffering,
                   unlocked, connClosed, context, calls, records>>

-----------------------------------------------------------------------------
(* Reading.  A record is read at "read", at "predict" when an alert is waiting
   behind the data just delivered, and at "retry" after that alert was ignored. *)
readerOnly == <<renego, handshake, outside, connClosed, rec, context, calls>>

LockRead(p) ==
    /\ pc[p] = "readlock" /\ inMutex = None
    /\ inMutex' = p
    /\ Goto(p, "read")
    /\ UNCHANGED <<readerOnly, handshakeMutex, outMutex, active, inside, call, job, records>>

TakeInput(p) ==
    /\ pc[p] = "read" /\ input
    /\ \/ input' \in BOOLEAN /\ Return(p)
       \/ input' = FALSE /\ ~inErr /\ Goto(p, "predict") /\ Stay
    /\ UNCHANGED <<readerOnly, inErr, hand, retryCount, records>>

Reading(p) ==
    /\ pc[p] \in {"read", "predict", "retry"}
    /\ pc[p] = "read" => ~input

FromPeer(p) ==
    /\ Reading(p) /\ ~inErr /\ ~connClosed
    /\ records < MaxRecords /\ records' = records + 1
    /\ UNCHANGED readerOnly

(* A record that counts: Read then handles the messages in hand.  Application
   data is refused inside a handshake, and in TLS 1.3 any record but a handshake
   record is refused between two messages in hand. *)
Advance(p) == retryCount' = 0 /\ IF pc[p] = "read" THEN Goto(p, "post") /\ Stay ELSE Return(p)

Uninterleaved == vers = 13 => hand = <<>>

PeerData(p) ==
    /\ FromPeer(p) /\ pc[p] # "predict" /\ complete /\ Uninterleaved
    /\ input' = TRUE
    /\ Advance(p)
    /\ UNCHANGED <<inErr, hand>>

PeerHandshake(p) ==
    /\ FromPeer(p) /\ pc[p] # "predict"
    /\ \E batch \in Batches : hand' = hand \o batch
    /\ Advance(p)
    /\ UNCHANGED <<inErr, input>>

(* retryReadRecord: an empty record, or a warning before TLS 1.3. *)
PeerUseless(p) ==
    /\ FromPeer(p) /\ (pc[p] = "predict" => vers = 12) /\ Uninterleaved
    /\ retryCount' = retryCount + 1
    /\ IF retryCount' > MaxUselessRecords
       THEN inErr' = TRUE /\ Send(p, "alert") /\ UNCHANGED <<call, locks, active>>
       ELSE Goto(p, IF pc[p] = "read" THEN "read" ELSE "retry") /\ Stay /\ UNCHANGED inErr
    /\ UNCHANGED <<input, hand>>

(* A record this side refuses. *)
PeerRefused(p) ==
    /\ FromPeer(p)
    /\ inErr' = TRUE
    /\ Send(p, "alert")
    /\ UNCHANGED <<input, hand, retryCount, call, locks, active>>

(* close_notify, a fatal alert, or the end of the network connection; a closed
   connection and a permanent error stay. *)
ReadFails(p) ==
    /\ Reading(p)
    /\ inErr' = TRUE
    /\ Return(p)
    /\ UNCHANGED <<readerOnly, input, hand, retryCount, records>>

ReadTimesOut(p) ==
    /\ Reading(p) /\ ~inErr
    /\ Return(p)
    /\ UNCHANGED <<readerOnly, inside, records>>
-----------------------------------------------------------------------------
(* handlePostHandshakeMessage. *)
Message(p, m) ==
    /\ pc[p] = "post" /\ hand # <<>> /\ Head(hand) = m
    /\ hand' = Tail(hand)
    /\ UNCHANGED <<input, records>>

PostDone(p) ==
    /\ pc[p] = "post" /\ hand = <<>>
    /\ Goto(p, "read")
    /\ UNCHANGED <<readerOnly, inside, call, job, locks, active, records>>

(* readHandshake refuses the length of the message with sendAlertLocked, but it
   does not hold out. *)
Oversized(p) ==
    /\ Message(p, "oversized")
    /\ inErr' = TRUE
    /\ unlocked' = TRUE
    /\ job' = [job EXCEPT ![p] = "alert"]
    /\ Goto(p, "encrypt")
    /\ UNCHANGED <<renego, handshake, out, outErr, buffering, sendBuf, closeNotifySent, expired, wire,
                   connClosed, rec, context, calls, retryCount, call, locks, active>>

MayRenegotiate == renego = 2 \/ (renego = 1 /\ handshakes <= 1)

(* TLS 1.2: only a HelloRequest is expected. *)
Message12(p) ==
    /\ vers = 12
    /\ \E m \in Messages \ {"oversized"} :
         /\ Message(p, m)
         /\ IF m = "helloRequest" /\ MayRenegotiate THEN Goto(p, "renego") /\ UNCHANGED job
            ELSE Send(p, "alert")
    /\ UNCHANGED <<readerOnly, inErr, retryCount, call, locks, active>>

(* TLS 1.3: a ticket, or a KeyUpdate that may ask for ours. *)
Message13(p) ==
    /\ vers = 13
    /\ retryCount' = retryCount + 1
    /\ \E m \in Messages \ {"oversized"} :
         /\ Message(p, m)
         /\ inErr' = (inErr \/ retryCount' > MaxUselessRecords)
         /\ CASE retryCount' > MaxUselessRecords -> Send(p, "alert")
              [] retryCount' <= MaxUselessRecords /\ m \in {"ticket", "keyUpdate"} -> UNCHANGED <<pc, job>>
              [] retryCount' <= MaxUselessRecords /\ m = "keyUpdateRequested" -> Send(p, "keyupdate")
              [] OTHER -> Send(p, "alert")
    /\ UNCHANGED <<readerOnly, call, locks, active>>

\* Variant: the connection stays marked complete while it renegotiates.
LockRenegotiateComplete(p) ==
    /\ pc[p] = "renego" /\ handshakeMutex = None
    /\ handshakeMutex' = p
    /\ reneg' = p
    /\ failed' = [failed EXCEPT ![p] = FALSE]
    /\ Send(p, "hello")
    /\ UNCHANGED <<renego, complete, handshakeErr, handshakes, vers, inMutex, outMutex, active,
                   inside, outside, connClosed, call, rec, context, calls, records>>

(* handleRenegotiation, from the lock on: the build of a hello that was built
   before does not fail, it may only panic (module UConn). *)
LockRenegotiate(p) ==
    /\ pc[p] = "renego" /\ handshakeMutex = None
    /\ handshakeMutex' = p
    /\ complete' = FALSE
    /\ reneg' = p
    /\ failed' = [failed EXCEPT ![p] = FALSE]
    /\ Send(p, "hello")
    /\ UNCHANGED <<renego, handshakeErr, handshakes, vers, inMutex, outMutex, active, inside, outside,
                   connClosed, call, rec, context, calls, records>>

-----------------------------------------------------------------------------
(* What a goroutine does on its own, and what waits for the peer. *)
Local(p) ==
    \/ CloseLoad(p) \/ CloseConn(p)
    \/ Fast(p) \/ LockHandshake(p) \/ LockIn(p) \/ Build(p)
    \/ Flushed(p) \/ FlushAlert(p) \/ End(p)
    \/ Interrupt(p) \/ StopInterrupter(p) \/ HandshakeReturns(p)
    \/ WriteRecord(p) \/ WriteRefused(p) \/ NextRecord(p)
    \/ LockRead(p) \/ TakeInput(p)
    \/ PostDone(p) \/ Oversized(p) \/ Message12(p) \/ Message13(p) \/ LockRenegotiate(p)

Peer(p) ==
    \/ Answer(p) \/ AnswerIgnored(p) \/ AnswerRefused(p) \/ AnswerFails(p)
    \/ PeerData(p) \/ PeerHandshake(p) \/ PeerUseless(p) \/ PeerRefused(p)
    \/ ReadFails(p) \/ ReadTimesOut(p)

Call(p) == Read(p) \/ Write(p) \/ HandshakeContext(p) \/ Close(p) \/ CloseWrite(p) \/ Cancel(p)

Over == calls = MaxCalls /\ (\A p \in Procs : pc[p] = "idle") /\ UNCHANGED vars

Next == (\E p \in Procs : Local(p) \/ Net(p) \/ Flush(p) \/ Peer(p) \/ Call(p)) \/ Over

(* Scheduling: a goroutine that can run does.  A write on the network may last
   for ever, unless the connection was closed, its write deadline has passed or,
   for close_notify, has been set; what is buffered is not written.  A read on a
   connection that was closed, or has failed before, returns.  The peer owes
   nothing. *)
WriteEnds(p) ==
    \/ Net(p) /\ (connClosed \/ expired \/ buffering \/ job[p] = "close_notify")
    \/ Flush(p) /\ (connClosed \/ expired)

ReadEnds(p) == (connClosed \/ inErr) /\ (AnswerFails(p) \/ ReadFails(p))

Proceeds(p) == Local(p) \/ WriteEnds(p) \/ ReadEnds(p)

Spec == Init /\ [][Next]_vars /\ \A p \in Procs : WF_vars(Proceeds(p))

-----------------------------------------------------------------------------
(* The peer can read what is sent: two records the network took one after the
   other were sealed with consecutive sequence numbers of one key, or with the
   next key after a record that changes it, whatever readers that answer a
   KeyUpdate, writers, alerts, a renegotiation and Close do in between.  And
   application data is never sent after a record was lost, after an error alert
   or close_notify, or inside a handshake.  An oversized message breaks this,
   since its alert is sent without the lock. *)
Follows(r, s) ==
    IF Switches(r.kind) THEN s.epoch = r.epoch + 1 /\ s.seq = 0
    ELSE s.epoch = r.epoch /\ s.seq = r.seq + 1

Data(r) == r.ok /\ r.kind \in {"app", "app2"}

WireReadable ==
    ~unlocked =>
        \A j \in 2..Len(wire) :
            /\ wire[j - 1].ok /\ wire[j].ok => Follows(wire[j - 1], wire[j])
            /\ Data(wire[j]) =>
                 /\ wire[j - 1].kind \notin {"hello", "ccs"}
                 /\ \A i \in 1..j - 1 : wire[i].ok /\ wire[i].kind \notin {"alert", "close_notify"}

(* A HandshakeContext that returns nil has not closed the connection, although
   its interrupter may see the context and the end of the call at once. *)
NilMeansUsable == \A p \in Procs : returnedNil[p] => interrupter[p] # "closed"

(* "isHandshakeComplete is true implies handshakeErr == nil", where nobody is in
   the section of handshakeMutex, which protects both: two readers and a writer
   never see a connection that failed to renegotiate as complete. *)
CompleteMeansNoError == handshakeMutex = None /\ complete => ~handshakeErr

(* Close releases every goroutine: none stays on a mutex, on the peer, on its
   interrupter, or in a Write the network never takes, which Close breaks by
   closing the network connection (the activeCall interlock).  The one exception
   is a Close that itself waits for ever at c.out.Lock(), before it has set a
   deadline, behind a record that is not a Write's: the answer to a KeyUpdate, an
   alert, or the hello of a renegotiation. *)
CloseBlocked ==
    \E p, q \in Procs : /\ call[p] = "close" /\ pc[p] = "out"
                        /\ outMutex = q /\ pc[q] = "net" /\ writing = {}
                        /\ job[q] \notin {"app", "app2", "close_notify"}

CloseReleasesAll == <>[]CloseBlocked \/ (closing ~> (\A p \in Procs : pc[p] = "idle"))
=============================================================================
