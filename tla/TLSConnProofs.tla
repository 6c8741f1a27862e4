---------------------------- MODULE TLSConnProofs ----------------------------
(***************************************************************************)
(* Proofs about TLSConn, for any set of goroutines and uses, any batches   *)
(* of messages and any bounds.                                             *)
(*                                                                         *)
(* The invariant has two halves.  LockInv says which step of a goroutine   *)
(* holds which mutex, and that from its hello on a handshake meets no data *)
(* being written.  StreamInv says how the record being written, the buffer *)
(* and the wire fit together (Sealed, Link, BufferChain, Joint, WireChain) *)
(* and when application data may be sent (Open, InFlight, Progress).  All  *)
(* of StreamInv is conditional on no alert having been sent without out.   *)
(***************************************************************************)
EXTENDS TLSConn, SequenceTheorems, TLAPS

HandshakeJobs == {"hello", "ccs", "finished"}
Flight == {"ccs", "finished"}
Payload == {"app", "app2"}

\* The steps and jobs; who is about to write has something to write.
StepTypes ==
    /\ pc \in [Procs -> Steps]
    /\ job \in [Procs -> Kinds \cup {None}]
    /\ \A p \in Procs : pc[p] \in {"out", "encrypt", "net"} => job[p] \in Kinds
    /\ \A p \in Procs : pc[p] = "encrypt" => job[p] \in {"app", "alert"}

\* The flags of handshakes, and the version.
FlagTypes ==
    /\ complete \in BOOLEAN /\ handshakeErr \in BOOLEAN /\ failed \in [Procs -> BOOLEAN]
    /\ vers \in {0, 12, 13}

\* Contexts and their interrupters.
ContextTypes ==
    /\ returnedNil \in [Procs -> BOOLEAN]
    /\ ctx \in [Procs -> {"background", "live", "canceled"}]
    /\ interrupter \in [Procs -> {"off", "waiting", "closed"}]

\* The outgoing half of the connection.
StreamTypes ==
    /\ out \in [epoch : Nat, seq : Nat]
    /\ sendBuf \in Seq(Record) /\ wire \in Seq(Record)
    /\ rec \in [Procs -> Record]

\* Only a call with a context that has not returned nil has an interrupter.
Watch ==
    \A p \in Procs :
        /\ interrupter[p] # "off" => ~returnedNil[p]
        /\ interrupter[p] # "off" => ctx[p] # "background"
        /\ pc[p] = "fast" => interrupter[p] = "off" /\ (ctx[p] # "background" => ~returnedNil[p])

\* p is in the section of handshakeMutex; Refusing(p): it sends the alert that
\* ends its handshake.
InHandshake(p) ==
    \/ pc[p] \in {"in", "build", "answer", "flight", "answer2", "flush", "flushed", "end"}
    \/ pc[p] \in {"out", "net"} /\ job[p] \in HandshakeJobs
Refusing(p) == pc[p] \in {"out", "net"} /\ job[p] = "alert" /\ failed[p]

\* The section belongs to one goroutine; inside it the connection is not
\* complete, and a handshake that failed does not complete it.
HandshakeLock ==
    \A p \in Procs :
        /\ InHandshake(p) => handshakeMutex = p
        /\ handshakeMutex = p => InHandshake(p) \/ Refusing(p)
        /\ handshakeMutex = p /\ pc[p] # "end" => ~complete
        /\ pc[p] = "end" /\ failed[p] => ~complete
        /\ pc[p] = "answer2" => ~failed[p]

\* Who reads, or writes what reading or a handshake calls for, holds in.
HoldsIn(p) ==
    \/ pc[p] \in {"build", "answer", "flight", "answer2", "flush", "flushed", "end",
                  "read", "predict", "retry", "post", "renego"}
    \/ pc[p] \in {"out", "encrypt", "net"} /\ job[p] \in HandshakeJobs \cup {"keyupdate", "alert"}
InLock == \A p \in Procs : HoldsIn(p) => inMutex = p

\* Who has taken out keeps it to the end of its record, or of its Write.
HoldsOut(p) == pc[p] \in {"encrypt", "net"}
OutLock ==
    ~unlocked => \A p \in Procs :
        /\ HoldsOut(p) => outMutex = p
        /\ pc[p] = "encrypt" => job[p] = "app"

\* p has a handshake whose hello is sealed: out was free then, so that no Write
\* is under way, and none can start.
Past(p) ==
    \/ pc[p] \in {"answer", "flight", "answer2", "flush", "flushed", "end"}
    \/ pc[p] = "net" /\ job[p] = "hello"
    \/ pc[p] \in {"out", "net"} /\ job[p] \in Flight
    \/ pc[p] \in {"out", "net"} /\ job[p] = "alert" /\ handshakeMutex = p
NoDataInside ==
    ~unlocked /\ ~complete => \A p, q \in Procs : Past(p) /\ HoldsOut(q) => job[q] \notin Payload

\* Nothing that depends on the version is sent before it is known.
Versioned == {"ccs", "finished", "keyupdate"}
NegotiatedSteps ==
    vers = 0 => \A p \in Procs : pc[p] # "flight" /\ job[p] \notin Versioned
NegotiatedStreams ==
    ~unlocked /\ vers = 0 =>
        /\ \A i \in 1..Len(wire) : wire[i].kind \notin Versioned
        /\ \A i \in 1..Len(sendBuf) : sendBuf[i].kind \notin Versioned

\* The flight of a handshake is buffered until it is flushed.
Buffered(p) ==
    \/ pc[p] \in {"flight", "flush", "flushed"}
    \/ pc[p] \in {"out", "net"} /\ job[p] \in Flight
Buffer ==
    /\ ~buffering => sendBuf = <<>>
    /\ \A p \in Procs : Buffered(p) => buffering

\* The record under way carries the key and the number that out had.
Sealed ==
    ~unlocked => \A p \in Procs : pc[p] = "net" =>
        /\ rec[p].kind = job[p] /\ rec[p].ok
        /\ out.epoch = rec[p].epoch /\ out.seq = rec[p].seq + 1

\* What was sent or buffered last, and what follows it: out, or the record under
\* way.  A close_notify may be dropped by a flush; it expires the deadline.
Latest == IF sendBuf # <<>> THEN sendBuf[Len(sendBuf)] ELSE wire[Len(wire)]
Link ==
    ~unlocked /\ ~expired /\ (sendBuf # <<>> \/ wire # <<>>) /\ Latest.ok =>
        /\ (\A p \in Procs : pc[p] # "net") => Follows(Latest, out)
        /\ \A p \in Procs : pc[p] = "net" => Follows(Latest, rec[p])

\* The records in the buffer follow each other,
BufferChain ==
    ~unlocked =>
        /\ \A i \in 1..Len(sendBuf) : sendBuf[i].ok
        /\ ~expired => \A j \in 2..Len(sendBuf) : Follows(sendBuf[j - 1], sendBuf[j])

\* the first of them follows the last on the wire, until they are flushed,
Joint ==
    ~unlocked /\ ~expired /\ sendBuf # <<>> /\ wire # <<>> /\ wire[Len(wire)].ok =>
        /\ (\A p \in Procs : pc[p] # "flushed") => Follows(wire[Len(wire)], sendBuf[1])
        /\ (\E p \in Procs : pc[p] = "flushed") => wire[Len(wire)] = sendBuf[Len(sendBuf)]

\* and so do the records on the wire.
WireChain ==
    ~unlocked => \A j \in 2..Len(wire) :
        wire[j - 1].ok /\ wire[j].ok => Follows(wire[j - 1], wire[j])

\* No record was lost, and no alert sent.
Intact(s) == \A i \in 1..Len(s) : s[i].ok /\ s[i].kind # "alert"

\* A close_notify is remembered.
Notice ==
    ~unlocked /\ ~closeNotifySent =>
        /\ \A i \in 1..Len(wire) : wire[i].kind # "close_notify"
        /\ \A i \in 1..Len(sendBuf) : sendBuf[i].kind # "close_notify"

\* Application data may be sent: always on a complete connection that has seen no
\* error, and while data is under way.
Ready ==
    /\ ~buffering /\ ~closeNotifySent /\ ~outErr
    /\ Intact(wire)
    /\ wire # <<>> => wire[Len(wire)].kind \notin {"hello", "ccs"}
Open == ~unlocked /\ complete /\ ~closeNotifySent /\ ~outErr => Ready
InFlight == ~unlocked => \A p \in Procs : HoldsOut(p) /\ job[p] \in Payload => Ready

\* What a handshake that has not failed finds at its steps.
EndsFinished(s) == s # <<>> /\ s[Len(s)].kind = "finished"
Sending(p) == pc[p] = "flight" \/ (pc[p] \in {"out", "net"} /\ job[p] \in Flight)
Progress ==
    ~unlocked => \A p \in Procs :
        /\ Sending(p) => Intact(wire) /\ Intact(sendBuf)
        /\ pc[p] = "flush" /\ ~failed[p] =>
              Intact(wire) /\ Intact(sendBuf) /\ (~closeNotifySent => EndsFinished(sendBuf))
        /\ pc[p] = "flushed" /\ ~failed[p] =>
              Intact(wire) /\ (~closeNotifySent => EndsFinished(wire))
        /\ pc[p] = "answer2" => ~buffering /\ (~closeNotifySent => EndsFinished(wire))

\* Data on the wire comes after an intact prefix, and never right after the
\* messages of a handshake.
WireData ==
    ~unlocked =>
        /\ \A i \in 1..Len(sendBuf) : sendBuf[i].kind \notin Payload
        /\ \A j \in 1..Len(wire) : Data(wire[j]) =>
             /\ \A i \in 1..j - 1 : wire[i].ok /\ wire[i].kind \notin {"alert", "close_notify"}
             /\ j > 1 => wire[j - 1].kind \notin {"hello", "ccs"}

-----------------------------------------------------------------------------
\* The cases of Resume, one for each call.
Resumed(p) ==
    \/ /\ call[p] = "read" /\ Goto(p, "readlock")
       /\ UNCHANGED <<job, call, locks, active, returnedNil>>
    \/ /\ call[p] = "write"
       /\ \E kind \in Payload : Send(p, kind)
       /\ UNCHANGED <<call, locks, active, returnedNil>>
    \/ /\ call[p] \notin {"read", "write"}
       /\ Return(p) /\ returnedNil' = [returnedNil EXCEPT ![p] = TRUE]

\* A handshake that is done goes back to the call that needed it.
LEMMA ResumeCases ==
    ASSUME NEW p \in Procs, Resume(p)
    PROVE  Resumed(p)
<1>1. CASE call[p] = "read"
  BY <1>1 DEF Resume, Resumed
<1>2. CASE call[p] = "write"
  BY <1>2 DEF Resume, Resumed, Payload
<1>3. CASE call[p] \notin {"read", "write"}
  BY <1>3 DEF Resume, Resumed
<1> QED
  BY <1>1, <1>2, <1>3

\* The cases of Net.
Handed(p, ok) ==
    /\ pc[p] = "net"
    /\ rec' = [rec EXCEPT ![p] = NoRecord]
    /\ Deliver(p, ok)
    /\ out' = IF ok /\ Switches(job[p]) THEN [epoch |-> out.epoch + 1, seq |-> 0] ELSE out
    /\ UNCHANGED <<renego, complete, handshakeErr, handshakes, vers, reneg, inside, buffering,
                   unlocked, connClosed, context, calls, records>>

Concluded(p, ok) ==
    \/ job[p] \in HandshakeJobs /\ AfterHandshakeRecord(p, ok)
    \/ job[p] \in Payload /\ AfterData(p, ok)
    \/ job[p] = "keyupdate" /\ AfterKeyUpdate(p, ok)
    \/ job[p] = "alert" /\ AfterAlert(p)
    \/ job[p] = "close_notify" /\ AfterCloseNotify(p, ok)

\* Net goes on by the kind of the record.
LEMMA NetCases ==
    ASSUME NEW p \in Procs, Net(p), StepTypes
    PROVE  \E ok \in BOOLEAN : Handed(p, ok) /\ Concluded(p, ok)
<1>1. PICK ok \in BOOLEAN :
         /\ Deliver(p, ok)
         /\ out' = IF ok /\ Switches(job[p]) THEN [epoch |-> out.epoch + 1, seq |-> 0] ELSE out
         /\ CASE job[p] \in {"hello", "ccs", "finished"} -> AfterHandshakeRecord(p, ok)
              [] job[p] \in {"app", "app2"} -> AfterData(p, ok)
              [] job[p] = "keyupdate" -> AfterKeyUpdate(p, ok)
              [] job[p] = "alert" -> AfterAlert(p)
              [] job[p] = "close_notify" -> AfterCloseNotify(p, ok)
  BY DEF Net
<1>2. job[p] \in Kinds
  BY DEF Net, StepTypes
<1>3. Concluded(p, ok)
  <2>1. CASE job[p] \in HandshakeJobs
    BY <1>1, <2>1 DEF Concluded, HandshakeJobs
  <2>2. CASE job[p] \in Payload
    BY <1>1, <2>2 DEF Concluded, Payload
  <2>3. CASE job[p] = "keyupdate"
    BY <1>1, <2>3 DEF Concluded
  <2>4. CASE job[p] = "alert"
    BY <1>1, <2>4 DEF Concluded
  <2>5. CASE job[p] = "close_notify"
    BY <1>1, <2>5 DEF Concluded
  <2> QED
    BY <1>2, <2>1, <2>2, <2>3, <2>4, <2>5 DEF Kinds, HandshakeJobs, Payload
<1> QED
  BY <1>1, <1>3 DEF Net, Handed

\* The cases of Answer.
Answered(p) ==
    /\ Awaits(p) /\ PeerFollows(p)
    /\ vers' \in {12, 13} /\ (vers # 0 => vers' = vers)
    /\ buffering' = (buffering \/ pc[p] = "answer")
    /\ complete' = (pc[p] = "answer2")
    /\ \/ pc[p] = "answer" /\ vers' = 13 /\ Send(p, "ccs")
       \/ pc[p] = "answer" /\ vers' = 12 /\ Goto(p, "flight") /\ UNCHANGED job
       \/ pc[p] = "flight" /\ vers = 13 /\ Send(p, "finished")
       \/ pc[p] = "flight" /\ vers # 13 /\ Send(p, "ccs")
       \/ pc[p] = "answer2" /\ Goto(p, "end") /\ UNCHANGED job
    /\ UNCHANGED <<handshakeErr, reneg, failed, locks, active, out, outErr, sendBuf,
                   closeNotifySent, expired, wire, unlocked, rec, context>>

\* An answer goes on by the step that waited for it.
LEMMA AnswerCases ==
    ASSUME NEW p \in Procs, Answer(p), FlagTypes
    PROVE  Answered(p)
<1>1. vers' \in {12, 13} /\ (vers # 0 => vers' = vers)
  BY VersionsAssumption DEF Answer, FlagTypes
<1>2. CASE pc[p] = "answer" /\ vers' = 13
  BY <1>1, <1>2 DEF Answer, Answered
<1>3. CASE pc[p] = "answer" /\ vers' # 13
  BY <1>1, <1>3 DEF Answer, Answered
<1>4. CASE pc[p] = "flight" /\ vers = 13
  BY <1>1, <1>4 DEF Answer, Answered
<1>5. CASE pc[p] = "flight" /\ vers # 13
  BY <1>1, <1>5 DEF Answer, Answered
<1>6. CASE pc[p] = "answer2"
  BY <1>1, <1>6 DEF Answer, Answered
<1> QED
  BY <1>2, <1>3, <1>4, <1>5, <1>6 DEF Answer, Awaits

\* What all steps but those that seal, hand over or flush records leave alone.
Still ==
    /\ UNCHANGED <<wire, sendBuf, out, rec, closeNotifySent, expired, outErr>>
    /\ unlocked => unlocked'
    /\ vers # 0 => vers' = vers
    /\ \A q \in Procs : /\ pc[q] = "net" <=> pc'[q] = "net"
                        /\ pc[q] = "flushed" <=> pc'[q] = "flushed"
                        /\ pc[q] = "net" => job'[q] = job[q]
Stirs(p) == Net(p) \/ Flush(p) \/ Flushed(p) \/ WriteRecord(p) \/ NextRecord(p)

\* What all steps but those and Answer leave alone.
Calm ==
    /\ buffering' = buffering /\ (complete' => complete)
    /\ ~unlocked' => \A q \in Procs : HoldsOut(q)' => HoldsOut(q) /\ job'[q] = job[q]
    /\ \A q \in Procs :
         /\ Sending(q)' => Sending(q)
         /\ pc'[q] = "flush" /\ ~failed'[q] => pc[q] = "flush" /\ ~failed[q]
         /\ pc'[q] = "flushed" /\ ~failed'[q] => pc[q] = "flushed" /\ ~failed[q]
         /\ pc'[q] = "answer2" => pc[q] = "answer2"

\* The steps and jobs of the goroutines stay in their sets.
LEMMA StepTypesStep ==
    ASSUME FlagTypes, StepTypes, [Next]_vars
    PROVE  StepTypes'
<1> USE DEF locks, handshake, inside, outside, active, context, writerOnly, readerOnly, vars,
         StepTypes, Steps, Kinds, None
<1>1. CASE UNCHANGED vars \/ Over
  BY <1>1 DEF Over
<1>2. ASSUME NEW p \in Procs, Read(p) PROVE StepTypes'
  BY <1>2 DEF Read, Start, Goto
<1>3. ASSUME NEW p \in Procs, Write(p) PROVE StepTypes'
  BY <1>3 DEF Write, Start, Goto
<1>4. ASSUME NEW p \in Procs, HandshakeContext(p) PROVE StepTypes'
  BY <1>4 DEF HandshakeContext, Start, Goto
<1>5. ASSUME NEW p \in Procs, Close(p) PROVE StepTypes'
  BY <1>5 DEF Close, Start, Goto
<1>6. ASSUME NEW p \in Procs, CloseWrite(p) PROVE StepTypes'
  BY <1>6 DEF CloseWrite, Start, Goto
<1>7. ASSUME NEW p \in Procs, Cancel(p) PROVE StepTypes'
  BY <1>7 DEF Cancel
<1>8. ASSUME NEW p \in Procs, CloseLoad(p) PROVE StepTypes'
  BY <1>8 DEF CloseLoad, Send, Goto
<1>9. ASSUME NEW p \in Procs, CloseConn(p) PROVE StepTypes'
  BY <1>9 DEF CloseConn, Return, Goto, Free
<1>10. ASSUME NEW p \in Procs, Fast(p) PROVE StepTypes'
  <2>1. CASE complete
    BY <1>10, <2>1, ResumeCases DEF Fast, Resumed, Send, Goto, Return, Free, Payload
  <2>2. CASE ~complete
    BY <1>10, <2>2 DEF Fast, Goto
  <2> QED
    BY <2>1, <2>2
<1>11. ASSUME NEW p \in Procs, LockHandshake(p) PROVE StepTypes'
  BY <1>11 DEF LockHandshake, Goto
<1>12. ASSUME NEW p \in Procs, LockIn(p) PROVE StepTypes'
  BY <1>12 DEF LockIn, Goto
<1>13. ASSUME NEW p \in Procs, Build(p) PROVE StepTypes'
  BY <1>13 DEF Build, Send, Goto
<1>14. ASSUME NEW p \in Procs, Flush(p) PROVE StepTypes'
  BY <1>14 DEF Flush, Goto
<1>15. ASSUME NEW p \in Procs, Flushed(p) PROVE StepTypes'
  BY <1>15 DEF Flushed, Goto
<1>16. ASSUME NEW p \in Procs, FlushAlert(p) PROVE StepTypes'
  BY <1>16 DEF FlushAlert, Goto
<1>17. ASSUME NEW p \in Procs, End(p) PROVE StepTypes'
  BY <1>17 DEF End, Return, Goto, Free
<1>18. ASSUME NEW p \in Procs, Interrupt(p) PROVE StepTypes'
  BY <1>18 DEF Interrupt, Interrupted
<1>19. ASSUME NEW p \in Procs, StopInterrupter(p) PROVE StepTypes'
  BY <1>19 DEF StopInterrupter
<1>20. ASSUME NEW p \in Procs, HandshakeReturns(p) PROVE StepTypes'
  <2>1. CASE failed[p] \/ interrupter[p] = "closed"
    BY <1>20, <2>1 DEF HandshakeReturns, Return, Goto, Free
  <2>2. CASE ~(failed[p] \/ interrupter[p] = "closed")
    BY <1>20, <2>2, ResumeCases DEF HandshakeReturns, Resumed, Send, Goto, Return, Free, Payload
  <2> QED
    BY <2>1, <2>2
<1>21. ASSUME NEW p \in Procs, WriteRecord(p) PROVE StepTypes'
  BY <1>21 DEF WriteRecord, Refused, Seal, MayNotWrite, Goto
<1>22. ASSUME NEW p \in Procs, WriteRefused(p) PROVE StepTypes'
  BY <1>22 DEF WriteRefused, Refused, Notified, MayNotWrite, Goto, Free, Return
<1>23. ASSUME NEW p \in Procs, NextRecord(p) PROVE StepTypes'
  BY <1>23 DEF NextRecord, Seal, Goto
<1>24. ASSUME NEW p \in Procs, LockRead(p) PROVE StepTypes'
  BY <1>24 DEF LockRead, Goto
<1>25. ASSUME NEW p \in Procs, TakeInput(p) PROVE StepTypes'
  BY <1>25 DEF TakeInput, Return, Goto, Stay, Free
<1>26. ASSUME NEW p \in Procs, PostDone(p) PROVE StepTypes'
  BY <1>26 DEF PostDone, Goto
<1>27. ASSUME NEW p \in Procs, Oversized(p) PROVE StepTypes'
  BY <1>27 DEF Oversized, Message, Goto
<1>28. ASSUME NEW p \in Procs, Message12(p) PROVE StepTypes'
  BY <1>28 DEF Message12, Message, Goto, Send
<1>29. ASSUME NEW p \in Procs, Message13(p) PROVE StepTypes'
  BY <1>29 DEF Message13, Message, Send, Goto
<1>30. ASSUME NEW p \in Procs, LockRenegotiate(p) PROVE StepTypes'
  BY <1>30 DEF LockRenegotiate, Send, Goto
<1>31. ASSUME NEW p \in Procs, Net(p) PROVE StepTypes'
  <2> PICK ok \in BOOLEAN : Handed(p, ok) /\ Concluded(p, ok)
    BY <1>31, NetCases
  <2>1. CASE job[p] \in HandshakeJobs /\ AfterHandshakeRecord(p, ok)
    BY <2>1 DEF Handed, AfterHandshakeRecord, Unlock, Goto, Free, HandshakeJobs
  <2>2. CASE job[p] \in Payload /\ AfterData(p, ok)
    BY <2>2 DEF Handed, AfterData, Return, Goto, Free, Payload
  <2>3. CASE job[p] = "keyupdate" /\ AfterKeyUpdate(p, ok)
    BY <2>3 DEF Handed, AfterKeyUpdate, Unlock, Goto, Free
  <2>4. CASE job[p] = "alert" /\ AfterAlert(p)
    BY <2>4 DEF Handed, AfterAlert, Unlock, Return, Goto, Free
  <2>5. CASE job[p] = "close_notify" /\ AfterCloseNotify(p, ok)
    BY <2>5 DEF Handed, AfterCloseNotify, Notified, Return, Goto, Free
  <2> QED
    BY <2>1, <2>2, <2>3, <2>4, <2>5 DEF Concluded
<1>32. ASSUME NEW p \in Procs, Answer(p) PROVE StepTypes'
  BY <1>32, AnswerCases DEF Answered, Awaits, Send, Goto
<1>33. ASSUME NEW p \in Procs, AnswerIgnored(p) PROVE StepTypes'
  BY <1>33 DEF AnswerIgnored, Awaits, Fail, Send, Goto
<1>34. ASSUME NEW p \in Procs, AnswerRefused(p) PROVE StepTypes'
  BY <1>34 DEF AnswerRefused, Awaits, Fail, Send, Goto
<1>35. ASSUME NEW p \in Procs, AnswerFails(p) PROVE StepTypes'
  BY <1>35 DEF AnswerFails, Awaits, Fail, Goto
<1>36. ASSUME NEW p \in Procs, PeerData(p) PROVE StepTypes'
  BY <1>36 DEF PeerData, FromPeer, Advance, Reading, Goto, Stay, Return, Free
<1>37. ASSUME NEW p \in Procs, PeerHandshake(p) PROVE StepTypes'
  BY <1>37 DEF PeerHandshake, FromPeer, Advance, Reading, Goto, Stay, Return, Free
<1>38. ASSUME NEW p \in Procs, PeerUseless(p) PROVE StepTypes'
  BY <1>38 DEF PeerUseless, FromPeer, Send, Goto, Stay, Reading
<1>39. ASSUME NEW p \in Procs, PeerRefused(p) PROVE StepTypes'
  BY <1>39 DEF PeerRefused, FromPeer, Send, Reading, Goto
<1>40. ASSUME NEW p \in Procs, ReadFails(p) PROVE StepTypes'
  BY <1>40 DEF ReadFails, Reading, Return, Goto, Free
<1>41. ASSUME NEW p \in Procs, ReadTimesOut(p) PROVE StepTypes'
  BY <1>41 DEF ReadTimesOut, Reading, Return, Goto, Free
<1> QED
  BY <1>1, <1>2, <1>3, <1>4, <1>5, <1>6, <1>7, <1>8, <1>9, <1>10, <1>11, <1>12, <1>13,
         <1>14, <1>15, <1>16, <1>17, <1>18, <1>19, <1>20, <1>21, <1>22, <1>23, <1>24, <1>25,
         <1>26, <1>27, <1>28, <1>29, <1>30, <1>31, <1>32, <1>33, <1>34, <1>35, <1>36, <1>37,
         <1>38, <1>39, <1>40, <1>41
  DEF Next, Local, Peer, Call

\* The flags stay Boolean.
LEMMA FlagTypesStep ==
    ASSUME StepTypes, FlagTypes, [Next]_vars
    PROVE  FlagTypes'
<1> USE DEF locks, handshake, inside, outside, active, context, writerOnly, readerOnly, vars,
         FlagTypes
<1>1. CASE UNCHANGED vars \/ Over
  BY <1>1 DEF Over
<1>2. ASSUME NEW p \in Procs, Read(p) PROVE FlagTypes'
  BY <1>2 DEF Read, Start, Goto
<1>3. ASSUME NEW p \in Procs, Write(p) PROVE FlagTypes'
  BY <1>3 DEF Write, Start, Goto
<1>4. ASSUME NEW p \in Procs, HandshakeContext(p) PROVE FlagTypes'
  BY <1>4 DEF HandshakeContext, Start, Goto
<1>5. ASSUME NEW p \in Procs, Close(p) PROVE FlagTypes'
  BY <1>5 DEF Close, Start, Goto
<1>6. ASSUME NEW p \in Procs, CloseWrite(p) PROVE FlagTypes'
  BY <1>6 DEF CloseWrite, Start, Goto
<1>7. ASSUME NEW p \in Procs, Cancel(p) PROVE FlagTypes'
  BY <1>7 DEF Cancel
<1>8. ASSUME NEW p \in Procs, CloseLoad(p) PROVE FlagTypes'
  BY <1>8 DEF CloseLoad, Send, Goto
<1>9. ASSUME NEW p \in Procs, CloseConn(p) PROVE FlagTypes'
  BY <1>9 DEF CloseConn, Return, Goto, Free
<1>10. ASSUME NEW p \in Procs, Fast(p) PROVE FlagTypes'
  <2>1. CASE complete
    BY <1>10, <2>1, ResumeCases DEF Fast, Resumed, Send, Goto, Return, Free, Payload
  <2>2. CASE ~complete
    BY <1>10, <2>2 DEF Fast, Goto
  <2> QED
    BY <2>1, <2>2
<1>11. ASSUME NEW p \in Procs, LockHandshake(p) PROVE FlagTypes'
  BY <1>11 DEF LockHandshake, Goto
<1>12. ASSUME NEW p \in Procs, LockIn(p) PROVE FlagTypes'
  BY <1>12 DEF LockIn, Goto
<1>13. ASSUME NEW p \in Procs, Build(p) PROVE FlagTypes'
  BY <1>13 DEF Build, Send, Goto
<1>14. ASSUME NEW p \in Procs, Flush(p) PROVE FlagTypes'
  BY <1>14 DEF Flush, Goto
<1>15. ASSUME NEW p \in Procs, Flushed(p) PROVE FlagTypes'
  BY <1>15 DEF Flushed, Goto
<1>16. ASSUME NEW p \in Procs, FlushAlert(p) PROVE FlagTypes'
  BY <1>16 DEF FlushAlert, Goto
<1>17. ASSUME NEW p \in Procs, End(p) PROVE FlagTypes'
  BY <1>17 DEF End, Return, Goto, Free
<1>18. ASSUME NEW p \in Procs, Interrupt(p) PROVE FlagTypes'
  BY <1>18 DEF Interrupt, Interrupted
<1>19. ASSUME NEW p \in Procs, StopInterrupter(p) PROVE FlagTypes'
  BY <1>19 DEF StopInterrupter
<1>20. ASSUME NEW p \in Procs, HandshakeReturns(p) PROVE FlagTypes'
  <2>1. CASE failed[p] \/ interrupter[p] = "closed"
    BY <1>20, <2>1 DEF HandshakeReturns, Return, Goto, Free
  <2>2. CASE ~(failed[p] \/ interrupter[p] = "closed")
    BY <1>20, <2>2, ResumeCases DEF HandshakeReturns, Resumed, Send, Goto, Return, Free, Payload
  <2> QED
    BY <2>1, <2>2
<1>21. ASSUME NEW p \in Procs, WriteRecord(p) PROVE FlagTypes'
  BY <1>21 DEF WriteRecord, Refused, Seal, MayNotWrite, Goto
<1>22. ASSUME NEW p \in Procs, WriteRefused(p) PROVE FlagTypes'
  BY <1>22 DEF WriteRefused, Refused, Notified, MayNotWrite, Goto, Free, Return
<1>23. ASSUME NEW p \in Procs, NextRecord(p) PROVE FlagTypes'
  BY <1>23 DEF NextRecord, Seal, Goto
<1>24. ASSUME NEW p \in Procs, LockRead(p) PROVE FlagTypes'
  BY <1>24 DEF LockRead, Goto
<1>25. ASSUME NEW p \in Procs, TakeInput(p) PROVE FlagTypes'
  BY <1>25 DEF TakeInput, Return, Goto, Stay, Free
<1>26. ASSUME NEW p \in Procs, PostDone(p) PROVE FlagTypes'
  BY <1>26 DEF PostDone, Goto
<1>27. ASSUME NEW p \in Procs, Oversized(p) PROVE FlagTypes'
  BY <1>27 DEF Oversized, Message, Goto
<1>28. ASSUME NEW p \in Procs, Message12(p) PROVE FlagTypes'
  BY <1>28 DEF Message12, Message, Goto, Send
<1>29. ASSUME NEW p \in Procs, Message13(p) PROVE FlagTypes'
  BY <1>29 DEF Message13, Message, Send, Goto
<1>30. ASSUME NEW p \in Procs, LockRenegotiate(p) PROVE FlagTypes'
  BY <1>30 DEF LockRenegotiate, Send, Goto
<1>31. ASSUME NEW p \in Procs, Net(p) PROVE FlagTypes'
  <2> PICK ok \in BOOLEAN : Handed(p, ok) /\ Concluded(p, ok)
    BY <1>31, NetCases
  <2>1. CASE job[p] \in HandshakeJobs /\ AfterHandshakeRecord(p, ok)
    BY <2>1 DEF Handed, AfterHandshakeRecord, Unlock, Goto, Free, HandshakeJobs
  <2>2. CASE job[p] \in Payload /\ AfterData(p, ok)
    BY <2>2 DEF Handed, AfterData, Return, Goto, Free, Payload
  <2>3. CASE job[p] = "keyupdate" /\ AfterKeyUpdate(p, ok)
    BY <2>3 DEF Handed, AfterKeyUpdate, Unlock, Goto, Free
  <2>4. CASE job[p] = "alert" /\ AfterAlert(p)
    BY <2>4 DEF Handed, AfterAlert, Unlock, Return, Goto, Free
  <2>5. CASE job[p] = "close_notify" /\ AfterCloseNotify(p, ok)
    BY <2>5 DEF Handed, AfterCloseNotify, Notified, Return, Goto, Free
  <2> QED
    BY <2>1, <2>2, <2>3, <2>4, <2>5 DEF Concluded
<1>32. ASSUME NEW p \in Procs, Answer(p) PROVE FlagTypes'
  BY <1>32, AnswerCases DEF Answered, Awaits, Send, Goto
<1>33. ASSUME NEW p \in Procs, AnswerIgnored(p) PROVE FlagTypes'
  BY <1>33 DEF AnswerIgnored, Awaits, Fail, Send, Goto
<1>34. ASSUME NEW p \in Procs, AnswerRefused(p) PROVE FlagTypes'
  BY <1>34 DEF AnswerRefused, Awaits, Fail, Send, Goto
<1>35. ASSUME NEW p \in Procs, AnswerFails(p) PROVE FlagTypes'
  BY <1>35 DEF AnswerFails, Awaits, Fail, Goto
<1>36. ASSUME NEW p \in Procs, PeerData(p) PROVE FlagTypes'
  BY <1>36 DEF PeerData, FromPeer, Advance, Reading, Goto, Stay, Return, Free
<1>37. ASSUME NEW p \in Procs, PeerHandshake(p) PROVE FlagTypes'
  BY <1>37 DEF PeerHandshake, FromPeer, Advance, Reading, Goto, Stay, Return, Free
<1>38. ASSUME NEW p \in Procs, PeerUseless(p) PROVE FlagTypes'
  BY <1>38 DEF PeerUseless, FromPeer, Send, Goto, Stay, Reading
<1>39. ASSUME NEW p \in Procs, PeerRefused(p) PROVE FlagTypes'
  BY <1>39 DEF PeerRefused, FromPeer, Send, Reading, Goto
<1>40. ASSUME NEW p \in Procs, ReadFails(p) PROVE FlagTypes'
  BY <1>40 DEF ReadFails, Reading, Return, Goto, Free
<1>41. ASSUME NEW p \in Procs, ReadTimesOut(p) PROVE FlagTypes'
  BY <1>41 DEF ReadTimesOut, Reading, Return, Goto, Free
<1> QED
  BY <1>1, <1>2, <1>3, <1>4, <1>5, <1>6, <1>7, <1>8, <1>9, <1>10, <1>11, <1>12, <1>13,
         <1>14, <1>15, <1>16, <1>17, <1>18, <1>19, <1>20, <1>21, <1>22, <1>23, <1>24, <1>25,
         <1>26, <1>27, <1>28, <1>29, <1>30, <1>31, <1>32, <1>33, <1>34, <1>35, <1>36, <1>37,
         <1>38, <1>39, <1>40, <1>41
  DEF Next, Local, Peer, Call

\* Contexts and interrupters stay in their sets.
LEMMA ContextTypesStep ==
    ASSUME StepTypes, FlagTypes, ContextTypes, [Next]_vars
    PROVE  ContextTypes'
<1> USE DEF locks, handshake, inside, outside, active, context, writerOnly, readerOnly, vars,
         ContextTypes
<1>1. CASE UNCHANGED vars \/ Over
  BY <1>1 DEF Over
<1>2. ASSUME NEW p \in Procs, Read(p) PROVE ContextTypes'
  BY <1>2 DEF Read, Start, Goto
<1>3. ASSUME NEW p \in Procs, Write(p) PROVE ContextTypes'
  BY <1>3 DEF Write, Start, Goto
<1>4. ASSUME NEW p \in Procs, HandshakeContext(p) PROVE ContextTypes'
  BY <1>4 DEF HandshakeContext, Start, Goto
<1>5. ASSUME NEW p \in Procs, Close(p) PROVE ContextTypes'
  BY <1>5 DEF Close, Start, Goto
<1>6. ASSUME NEW p \in Procs, CloseWrite(p) PROVE ContextTypes'
  BY <1>6 DEF CloseWrite, Start, Goto
<1>7. ASSUME NEW p \in Procs, Cancel(p) PROVE ContextTypes'
  BY <1>7 DEF Cancel
<1>8. ASSUME NEW p \in Procs, CloseLoad(p) PROVE ContextTypes'
  BY <1>8 DEF CloseLoad, Send, Goto
<1>9. ASSUME NEW p \in Procs, CloseConn(p) PROVE ContextTypes'
  BY <1>9 DEF CloseConn, Return, Goto, Free
<1>10. ASSUME NEW p \in Procs, Fast(p) PROVE ContextTypes'
  <2>1. CASE complete
    BY <1>10, <2>1, ResumeCases DEF Fast, Resumed, Send, Goto, Return, Free, Payload
  <2>2. CASE ~complete
    BY <1>10, <2>2 DEF Fast, Goto
  <2> QED
    BY <2>1, <2>2
<1>11. ASSUME NEW p \in Procs, LockHandshake(p) PROVE ContextTypes'
  BY <1>11 DEF LockHandshake, Goto
<1>12. ASSUME NEW p \in Procs, LockIn(p) PROVE ContextTypes'
  BY <1>12 DEF LockIn, Goto
<1>13. ASSUME NEW p \in Procs, Build(p) PROVE ContextTypes'
  BY <1>13 DEF Build, Send, Goto
<1>14. ASSUME NEW p \in Procs, Flush(p) PROVE ContextTypes'
  BY <1>14 DEF Flush, Goto
<1>15. ASSUME NEW p \in Procs, Flushed(p) PROVE ContextTypes'
  BY <1>15 DEF Flushed, Goto
<1>16. ASSUME NEW p \in Procs, FlushAlert(p) PROVE ContextTypes'
  BY <1>16 DEF FlushAlert, Goto
<1>17. ASSUME NEW p \in Procs, End(p) PROVE ContextTypes'
  BY <1>17 DEF End, Return, Goto, Free
<1>18. ASSUME NEW p \in Procs, Interrupt(p) PROVE ContextTypes'
  BY <1>18 DEF Interrupt, Interrupted
<1>19. ASSUME NEW p \in Procs, StopInterrupter(p) PROVE ContextTypes'
  BY <1>19 DEF StopInterrupter
<1>20. ASSUME NEW p \in Procs, HandshakeReturns(p) PROVE ContextTypes'
  <2>1. CASE failed[p] \/ interrupter[p] = "closed"
    BY <1>20, <2>1 DEF HandshakeReturns, Return, Goto, Free
  <2>2. CASE ~(failed[p] \/ interrupter[p] = "closed")
    BY <1>20, <2>2, ResumeCases DEF HandshakeReturns, Resumed, Send, Goto, Return, Free, Payload
  <2> QED
    BY <2>1, <2>2
<1>21. ASSUME NEW p \in Procs, WriteRecord(p) PROVE ContextTypes'
  BY <1>21 DEF WriteRecord, Refused, Seal, MayNotWrite, Goto
<1>22. ASSUME NEW p \in Procs, WriteRefused(p) PROVE ContextTypes'
  BY <1>22 DEF WriteRefused, Refused, Notified, MayNotWrite, Goto, Free, Return
<1>23. ASSUME NEW p \in Procs, NextRecord(p) PROVE ContextTypes'
  BY <1>23 DEF NextRecord, Seal, Goto
<1>24. ASSUME NEW p \in Procs, LockRead(p) PROVE ContextTypes'
  BY <1>24 DEF LockRead, Goto
<1>25. ASSUME NEW p \in Procs, TakeInput(p) PROVE ContextTypes'
  BY <1>25 DEF TakeInput, Return, Goto, Stay, Free
<1>26. ASSUME NEW p \in Procs, PostDone(p) PROVE ContextTypes'
  BY <1>26 DEF PostDone, Goto
<1>27. ASSUME NEW p \in Procs, Oversized(p) PROVE ContextTypes'
  BY <1>27 DEF Oversized, Message, Goto
<1>28. ASSUME NEW p \in Procs, Message12(p) PROVE ContextTypes'
  BY <1>28 DEF Message12, Message, Goto, Send
<1>29. ASSUME NEW p \in Procs, Message13(p) PROVE ContextTypes'
  BY <1>29 DEF Message13, Message, Send, Goto
<1>30. ASSUME NEW p \in Procs, LockRenegotiate(p) PROVE ContextTypes'
  BY <1>30 DEF LockRenegotiate, Send, Goto
<1>31. ASSUME NEW p \in Procs, Net(p) PROVE ContextTypes'
  <2> PICK ok \in BOOLEAN : Handed(p, ok) /\ Concluded(p, ok)
    BY <1>31, NetCases
  <2>1. CASE job[p] \in HandshakeJobs /\ AfterHandshakeRecord(p, ok)
    BY <2>1 DEF Handed, AfterHandshakeRecord, Unlock, Goto, Free, HandshakeJobs
  <2>2. CASE job[p] \in Payload /\ AfterData(p, ok)
    BY <2>2 DEF Handed, AfterData, Return, Goto, Free, Payload
  <2>3. CASE job[p] = "keyupdate" /\ AfterKeyUpdate(p, ok)
    BY <2>3 DEF Handed, AfterKeyUpdate, Unlock, Goto, Free
  <2>4. CASE job[p] = "alert" /\ AfterAlert(p)
    BY <2>4 DEF Handed, AfterAlert, Unlock, Return, Goto, Free
  <2>5. CASE job[p] = "close_notify" /\ AfterCloseNotify(p, ok)
    BY <2>5 DEF Handed, AfterCloseNotify, Notified, Return, Goto, Free
  <2> QED
    BY <2>1, <2>2, <2>3, <2>4, <2>5 DEF Concluded
<1>32. ASSUME NEW p \in Procs, Answer(p) PROVE ContextTypes'
  BY <1>32, AnswerCases DEF Answered, Awaits, Send, Goto
<1>33. ASSUME NEW p \in Procs, AnswerIgnored(p) PROVE ContextTypes'
  BY <1>33 DEF AnswerIgnored, Awaits, Fail, Send, Goto
<1>34. ASSUME NEW p \in Procs, AnswerRefused(p) PROVE ContextTypes'
  BY <1>34 DEF AnswerRefused, Awaits, Fail, Send, Goto
<1>35. ASSUME NEW p \in Procs, AnswerFails(p) PROVE ContextTypes'
  BY <1>35 DEF AnswerFails, Awaits, Fail, Goto
<1>36. ASSUME NEW p \in Procs, PeerData(p) PROVE ContextTypes'
  BY <1>36 DEF PeerData, FromPeer, Advance, Reading, Goto, Stay, Return, Free
<1>37. ASSUME NEW p \in Procs, PeerHandshake(p) PROVE ContextTypes'
  BY <1>37 DEF PeerHandshake, FromPeer, Advance, Reading, Goto, Stay, Return, Free
<1>38. ASSUME NEW p \in Procs, PeerUseless(p) PROVE ContextTypes'
  BY <1>38 DEF PeerUseless, FromPeer, Send, Goto, Stay, Reading
<1>39. ASSUME NEW p \in Procs, PeerRefused(p) PROVE ContextTypes'
  BY <1>39 DEF PeerRefused, FromPeer, Send, Reading, Goto
<1>40. ASSUME NEW p \in Procs, ReadFails(p) PROVE ContextTypes'
  BY <1>40 DEF ReadFails, Reading, Return, Goto, Free
<1>41. ASSUME NEW p \in Procs, ReadTimesOut(p) PROVE ContextTypes'
  BY <1>41 DEF ReadTimesOut, Reading, Return, Goto, Free
<1> QED
  BY <1>1, <1>2, <1>3, <1>4, <1>5, <1>6, <1>7, <1>8, <1>9, <1>10, <1>11, <1>12, <1>13,
         <1>14, <1>15, <1>16, <1>17, <1>18, <1>19, <1>20, <1>21, <1>22, <1>23, <1>24, <1>25,
         <1>26, <1>27, <1>28, <1>29, <1>30, <1>31, <1>32, <1>33, <1>34, <1>35, <1>36, <1>37,
         <1>38, <1>39, <1>40, <1>41
  DEF Next, Local, Peer, Call

\* A call that has returned nil left no interrupter behind.
LEMMA WatchStep ==
    ASSUME StepTypes, FlagTypes, ContextTypes, Watch, [Next]_vars
    PROVE  Watch'
<1> USE DEF locks, handshake, inside, outside, active, context, writerOnly, readerOnly, vars,
         StepTypes, ContextTypes, Watch
<1>1. CASE UNCHANGED vars \/ Over
  BY <1>1 DEF Over
<1>2. ASSUME NEW p \in Procs, Read(p) PROVE Watch'
  BY <1>2 DEF Read, Start, Goto
<1>3. ASSUME NEW p \in Procs, Write(p) PROVE Watch'
  BY <1>3 DEF Write, Start, Goto
<1>4. ASSUME NEW p \in Procs, HandshakeContext(p) PROVE Watch'
  BY <1>4 DEF HandshakeContext, Start, Goto
<1>5. ASSUME NEW p \in Procs, Close(p) PROVE Watch'
  BY <1>5 DEF Close, Start, Goto
<1>6. ASSUME NEW p \in Procs, CloseWrite(p) PROVE Watch'
  BY <1>6 DEF CloseWrite, Start, Goto
<1>7. ASSUME NEW p \in Procs, Cancel(p) PROVE Watch'
  BY <1>7 DEF Cancel
<1>8. ASSUME NEW p \in Procs, CloseLoad(p) PROVE Watch'
  BY <1>8 DEF CloseLoad, Send, Goto
<1>9. ASSUME NEW p \in Procs, CloseConn(p) PROVE Watch'
  BY <1>9 DEF CloseConn, Return, Goto, Free
<1>10. ASSUME NEW p \in Procs, Fast(p) PROVE Watch'
  <2>1. CASE complete
    BY <1>10, <2>1, ResumeCases DEF Fast, Resumed, Send, Goto, Return, Free, Payload
  <2>2. CASE ~complete
    BY <1>10, <2>2 DEF Fast, Goto
  <2> QED
    BY <2>1, <2>2
<1>11. ASSUME NEW p \in Procs, LockHandshake(p) PROVE Watch'
  BY <1>11 DEF LockHandshake, Goto
<1>12. ASSUME NEW p \in Procs, LockIn(p) PROVE Watch'
  BY <1>12 DEF LockIn, Goto
<1>13. ASSUME NEW p \in Procs, Build(p) PROVE Watch'
  BY <1>13 DEF Build, Send, Goto
<1>14. ASSUME NEW p \in Procs, Flush(p) PROVE Watch'
  BY <1>14 DEF Flush, Goto
<1>15. ASSUME NEW p \in Procs, Flushed(p) PROVE Watch'
  BY <1>15 DEF Flushed, Goto
<1>16. ASSUME NEW p \in Procs, FlushAlert(p) PROVE Watch'
  BY <1>16 DEF FlushAlert, Goto
<1>17. ASSUME NEW p \in Procs, End(p) PROVE Watch'
  BY <1>17 DEF End, Return, Goto, Free
<1>18. ASSUME NEW p \in Procs, Interrupt(p) PROVE Watch'
  BY <1>18 DEF Interrupt, Interrupted
<1>19. ASSUME NEW p \in Procs, StopInterrupter(p) PROVE Watch'
  BY <1>19 DEF StopInterrupter
<1>20. ASSUME NEW p \in Procs, HandshakeReturns(p) PROVE Watch'
  <2>1. CASE failed[p] \/ interrupter[p] = "closed"
    BY <1>20, <2>1 DEF HandshakeReturns, Return, Goto, Free
  <2>2. CASE ~(failed[p] \/ interrupter[p] = "closed")
    BY <1>20, <2>2, ResumeCases DEF HandshakeReturns, Resumed, Send, Goto, Return, Free, Payload
  <2> QED
    BY <2>1, <2>2
<1>21. ASSUME NEW p \in Procs, WriteRecord(p) PROVE Watch'
  BY <1>21 DEF WriteRecord, Refused, Seal, MayNotWrite, Goto
<1>22. ASSUME NEW p \in Procs, WriteRefused(p) PROVE Watch'
  BY <1>22 DEF WriteRefused, Refused, Notified, MayNotWrite, Goto, Free, Return
<1>23. ASSUME NEW p \in Procs, NextRecord(p) PROVE Watch'
  BY <1>23 DEF NextRecord, Seal, Goto
<1>24. ASSUME NEW p \in Procs, LockRead(p) PROVE Watch'
  BY <1>24 DEF LockRead, Goto
<1>25. ASSUME NEW p \in Procs, TakeInput(p) PROVE Watch'
  BY <1>25 DEF TakeInput, Return, Goto, Stay, Free
<1>26. ASSUME NEW p \in Procs, PostDone(p) PROVE Watch'
  BY <1>26 DEF PostDone, Goto
<1>27. ASSUME NEW p \in Procs, Oversized(p) PROVE Watch'
  BY <1>27 DEF Oversized, Message, Goto
<1>28. ASSUME NEW p \in Procs, Message12(p) PROVE Watch'
  BY <1>28 DEF Message12, Message, Goto, Send
<1>29. ASSUME NEW p \in Procs, Message13(p) PROVE Watch'
  BY <1>29 DEF Message13, Message, Send, Goto
<1>30. ASSUME NEW p \in Procs, LockRenegotiate(p) PROVE Watch'
  BY <1>30 DEF LockRenegotiate, Send, Goto
<1>31. ASSUME NEW p \in Procs, Net(p) PROVE Watch'
  <2> PICK ok \in BOOLEAN : Handed(p, ok) /\ Concluded(p, ok)
    BY <1>31, NetCases
  <2>1. CASE job[p] \in HandshakeJobs /\ AfterHandshakeRecord(p, ok)
    BY <2>1 DEF Handed, AfterHandshakeRecord, Unlock, Goto, Free, HandshakeJobs
  <2>2. CASE job[p] \in Payload /\ AfterData(p, ok)
    BY <2>2 DEF Handed, AfterData, Return, Goto, Free, Payload
  <2>3. CASE job[p] = "keyupdate" /\ AfterKeyUpdate(p, ok)
    BY <2>3 DEF Handed, AfterKeyUpdate, Unlock, Goto, Free
  <2>4. CASE job[p] = "alert" /\ AfterAlert(p)
    BY <2>4 DEF Handed, AfterAlert, Unlock, Return, Goto, Free
  <2>5. CASE job[p] = "close_notify" /\ AfterCloseNotify(p, ok)
    BY <2>5 DEF Handed, AfterCloseNotify, Notified, Return, Goto, Free
  <2> QED
    BY <2>1, <2>2, <2>3, <2>4, <2>5 DEF Concluded
<1>32. ASSUME NEW p \in Procs, Answer(p) PROVE Watch'
  BY <1>32, AnswerCases DEF Answered, Awaits, Send, Goto
<1>33. ASSUME NEW p \in Procs, AnswerIgnored(p) PROVE Watch'
  BY <1>33 DEF AnswerIgnored, Awaits, Fail, Send, Goto
<1>34. ASSUME NEW p \in Procs, AnswerRefused(p) PROVE Watch'
  BY <1>34 DEF AnswerRefused, Awaits, Fail, Send, Goto
<1>35. ASSUME NEW p \in Procs, AnswerFails(p) PROVE Watch'
  BY <1>35 DEF AnswerFails, Awaits, Fail, Goto
<1>36. ASSUME NEW p \in Procs, PeerData(p) PROVE Watch'
  BY <1>36 DEF PeerData, FromPeer, Advance, Reading, Goto, Stay, Return, Free
<1>37. ASSUME NEW p \in Procs, PeerHandshake(p) PROVE Watch'
  BY <1>37 DEF PeerHandshake, FromPeer, Advance, Reading, Goto, Stay, Return, Free
<1>38. ASSUME NEW p \in Procs, PeerUseless(p) PROVE Watch'
  BY <1>38 DEF PeerUseless, FromPeer, Send, Goto, Stay, Reading
<1>39. ASSUME NEW p \in Procs, PeerRefused(p) PROVE Watch'
  BY <1>39 DEF PeerRefused, FromPeer, Send, Reading, Goto
<1>40. ASSUME NEW p \in Procs, ReadFails(p) PROVE Watch'
  BY <1>40 DEF ReadFails, Reading, Return, Goto, Free
<1>41. ASSUME NEW p \in Procs, ReadTimesOut(p) PROVE Watch'
  BY <1>41 DEF ReadTimesOut, Reading, Return, Goto, Free
<1> QED
  BY <1>1, <1>2, <1>3, <1>4, <1>5, <1>6, <1>7, <1>8, <1>9, <1>10, <1>11, <1>12, <1>13,
         <1>14, <1>15, <1>16, <1>17, <1>18, <1>19, <1>20, <1>21, <1>22, <1>23, <1>24, <1>25,
         <1>26, <1>27, <1>28, <1>29, <1>30, <1>31, <1>32, <1>33, <1>34, <1>35, <1>36, <1>37,
         <1>38, <1>39, <1>40, <1>41
  DEF Next, Local, Peer, Call

\* The section of handshakeMutex.
LEMMA HandshakeLockStep ==
    ASSUME StepTypes, FlagTypes, HandshakeLock, [Next]_vars
    PROVE  HandshakeLock'
<1> USE DEF locks, handshake, inside, outside, active, context, writerOnly, readerOnly, vars,
         FlagTypes, StepTypes, HandshakeLock, InHandshake, Refusing, HandshakeJobs, None
<1>1. CASE UNCHANGED vars \/ Over
  BY <1>1 DEF Over
<1>2. ASSUME NEW p \in Procs, Read(p) PROVE HandshakeLock'
  BY <1>2, ProcsAssumption DEF Read, Start, Goto
<1>3. ASSUME NEW p \in Procs, Write(p) PROVE HandshakeLock'
  BY <1>3, ProcsAssumption DEF Write, Start, Goto
<1>4. ASSUME NEW p \in Procs, HandshakeContext(p) PROVE HandshakeLock'
  BY <1>4, ProcsAssumption DEF HandshakeContext, Start, Goto
<1>5. ASSUME NEW p \in Procs, Close(p) PROVE HandshakeLock'
  BY <1>5, ProcsAssumption DEF Close, Start, Goto
<1>6. ASSUME NEW p \in Procs, CloseWrite(p) PROVE HandshakeLock'
  BY <1>6, ProcsAssumption DEF CloseWrite, Start, Goto
<1>7. ASSUME NEW p \in Procs, Cancel(p) PROVE HandshakeLock'
  BY <1>7, ProcsAssumption DEF Cancel
<1>8. ASSUME NEW p \in Procs, CloseLoad(p) PROVE HandshakeLock'
  BY <1>8, ProcsAssumption DEF CloseLoad, Send, Goto
<1>9. ASSUME NEW p \in Procs, CloseConn(p) PROVE HandshakeLock'
  BY <1>9, ProcsAssumption DEF CloseConn, Return, Goto, Free
<1>10. ASSUME NEW p \in Procs, Fast(p) PROVE HandshakeLock'
  <2>1. CASE complete
    BY <1>10, <2>1, ResumeCases DEF Fast, Resumed, Send, Goto, Return, Free, Payload
  <2>2. CASE ~complete
    BY <1>10, <2>2 DEF Fast, Goto
  <2> QED
    BY <2>1, <2>2
<1>11. ASSUME NEW p \in Procs, LockHandshake(p) PROVE HandshakeLock'
  BY <1>11, ProcsAssumption DEF LockHandshake, Goto
<1>12. ASSUME NEW p \in Procs, LockIn(p) PROVE HandshakeLock'
  BY <1>12, ProcsAssumption DEF LockIn, Goto
<1>13. ASSUME NEW p \in Procs, Build(p) PROVE HandshakeLock'
  BY <1>13, ProcsAssumption DEF Build, Send, Goto
<1>14. ASSUME NEW p \in Procs, Flush(p) PROVE HandshakeLock'
  BY <1>14, ProcsAssumption DEF Flush, Goto
<1>15. ASSUME NEW p \in Procs, Flushed(p) PROVE HandshakeLock'
  <2>1. handshakeMutex = p /\ handshakeMutex' = p /\ job' = job /\ failed' = failed
    BY <1>15 DEF Flushed
  <2>2. CASE failed[p]
    BY <1>15, <2>1, <2>2 DEF Flushed, Goto
  <2>3. CASE ~failed[p] /\ complete'
    BY <1>15, <2>1, <2>3 DEF Flushed, Goto
  <2>4. CASE ~failed[p] /\ ~complete'
    BY <1>15, <2>1, <2>4 DEF Flushed, Goto
  <2> QED
    BY <2>2, <2>3, <2>4
<1>16. ASSUME NEW p \in Procs, FlushAlert(p) PROVE HandshakeLock'
  BY <1>16, ProcsAssumption DEF FlushAlert, Goto
<1>17. ASSUME NEW p \in Procs, End(p) PROVE HandshakeLock'
  BY <1>17, ProcsAssumption DEF End, Return, Goto, Free
<1>18. ASSUME NEW p \in Procs, Interrupt(p) PROVE HandshakeLock'
  BY <1>18, ProcsAssumption DEF Interrupt, Interrupted
<1>19. ASSUME NEW p \in Procs, StopInterrupter(p) PROVE HandshakeLock'
  BY <1>19, ProcsAssumption DEF StopInterrupter
<1>20. ASSUME NEW p \in Procs, HandshakeReturns(p) PROVE HandshakeLock'
  <2>1. CASE failed[p] \/ interrupter[p] = "closed"
    BY <1>20, <2>1 DEF HandshakeReturns, Return, Goto, Free
  <2>2. CASE ~(failed[p] \/ interrupter[p] = "closed")
    BY <1>20, <2>2, ResumeCases DEF HandshakeReturns, Resumed, Send, Goto, Return, Free, Payload
  <2> QED
    BY <2>1, <2>2
<1>21. ASSUME NEW p \in Procs, WriteRecord(p) PROVE HandshakeLock'
  BY <1>21, ProcsAssumption DEF WriteRecord, Refused, Seal, MayNotWrite, Goto
<1>22. ASSUME NEW p \in Procs, WriteRefused(p) PROVE HandshakeLock'
  BY <1>22, ProcsAssumption DEF WriteRefused, Refused, Notified, MayNotWrite, Goto, Free, Return
<1>23. ASSUME NEW p \in Procs, NextRecord(p) PROVE HandshakeLock'
  BY <1>23, ProcsAssumption DEF NextRecord, Seal, Goto
<1>24. ASSUME NEW p \in Procs, LockRead(p) PROVE HandshakeLock'
  BY <1>24, ProcsAssumption DEF LockRead, Goto
<1>25. ASSUME NEW p \in Procs, TakeInput(p) PROVE HandshakeLock'
  BY <1>25, ProcsAssumption DEF TakeInput, Return, Goto, Stay, Free
<1>26. ASSUME NEW p \in Procs, PostDone(p) PROVE HandshakeLock'
  BY <1>26, ProcsAssumption DEF PostDone, Goto
<1>27. ASSUME NEW p \in Procs, Oversized(p) PROVE HandshakeLock'
  BY <1>27, ProcsAssumption DEF Oversized, Message, Goto
<1>28. ASSUME NEW p \in Procs, Message12(p) PROVE HandshakeLock'
  BY <1>28, ProcsAssumption DEF Message12, Message, Goto, Send
<1>29. ASSUME NEW p \in Procs, Message13(p) PROVE HandshakeLock'
  BY <1>29, ProcsAssumption DEF Message13, Message, Send, Goto
<1>30. ASSUME NEW p \in Procs, LockRenegotiate(p) PROVE HandshakeLock'
  BY <1>30, ProcsAssumption DEF LockRenegotiate, Send, Goto
<1>31. ASSUME NEW p \in Procs, Net(p) PROVE HandshakeLock'
  <2> PICK ok \in BOOLEAN : Handed(p, ok) /\ Concluded(p, ok)
    BY <1>31, NetCases
  <2>1. CASE job[p] \in HandshakeJobs /\ AfterHandshakeRecord(p, ok)
    BY <2>1 DEF Handed, AfterHandshakeRecord, Unlock, Goto, Free, HandshakeJobs
  <2>2. CASE job[p] \in Payload /\ AfterData(p, ok)
    BY <2>2 DEF Handed, AfterData, Return, Goto, Free, Payload
  <2>3. CASE job[p] = "keyupdate" /\ AfterKeyUpdate(p, ok)
    BY <2>3 DEF Handed, AfterKeyUpdate, Unlock, Goto, Free
  <2>4. CASE job[p] = "alert" /\ AfterAlert(p)
    BY <2>4 DEF Handed, AfterAlert, Unlock, Return, Goto, Free
  <2>5. CASE job[p] = "close_notify" /\ AfterCloseNotify(p, ok)
    BY <2>5 DEF Handed, AfterCloseNotify, Notified, Return, Goto, Free
  <2> QED
    BY <2>1, <2>2, <2>3, <2>4, <2>5 DEF Concluded
<1>32. ASSUME NEW p \in Procs, Answer(p) PROVE HandshakeLock'
  <2>0. Answered(p)
    BY <1>32, AnswerCases
  <2>1. CASE pc[p] = "answer" /\ vers' = 13 /\ Send(p, "ccs")
    BY <2>0, <2>1 DEF Answered, Send, Goto
  <2>2. CASE pc[p] = "answer" /\ vers' = 12 /\ Goto(p, "flight") /\ UNCHANGED job
    BY <2>0, <2>2 DEF Answered, Goto
  <2>3. CASE pc[p] = "flight" /\ vers = 13 /\ Send(p, "finished")
    BY <2>0, <2>3 DEF Answered, Send, Goto
  <2>4. CASE pc[p] = "flight" /\ vers # 13 /\ Send(p, "ccs")
    BY <2>0, <2>4 DEF Answered, Send, Goto
  <2>5. CASE pc[p] = "answer2" /\ Goto(p, "end") /\ UNCHANGED job
    BY <2>0, <2>5 DEF Answered, Goto
  <2> QED
    BY <2>0, <2>1, <2>2, <2>3, <2>4, <2>5 DEF Answered
<1>33. ASSUME NEW p \in Procs, AnswerIgnored(p) PROVE HandshakeLock'
  BY <1>33, ProcsAssumption DEF AnswerIgnored, Awaits, Fail, Send, Goto
<1>34. ASSUME NEW p \in Procs, AnswerRefused(p) PROVE HandshakeLock'
  BY <1>34, ProcsAssumption DEF AnswerRefused, Awaits, Fail, Send, Goto
<1>35. ASSUME NEW p \in Procs, AnswerFails(p) PROVE HandshakeLock'
  BY <1>35, ProcsAssumption DEF AnswerFails, Awaits, Fail, Goto
<1>36. ASSUME NEW p \in Procs, PeerData(p) PROVE HandshakeLock'
  BY <1>36, ProcsAssumption DEF PeerData, FromPeer, Advance, Reading, Goto, Stay, Return, Free
<1>37. ASSUME NEW p \in Procs, PeerHandshake(p) PROVE HandshakeLock'
  BY <1>37, ProcsAssumption DEF PeerHandshake, FromPeer, Advance, Reading, Goto, Stay, Return,
         Free
<1>38. ASSUME NEW p \in Procs, PeerUseless(p) PROVE HandshakeLock'
  BY <1>38, ProcsAssumption DEF PeerUseless, FromPeer, Send, Goto, Stay, Reading
<1>39. ASSUME NEW p \in Procs, PeerRefused(p) PROVE HandshakeLock'
  BY <1>39, ProcsAssumption DEF PeerRefused, FromPeer, Send, Reading, Goto
<1>40. ASSUME NEW p \in Procs, ReadFails(p) PROVE HandshakeLock'
  BY <1>40, ProcsAssumption DEF ReadFails, Reading, Return, Goto, Free
<1>41. ASSUME NEW p \in Procs, ReadTimesOut(p) PROVE HandshakeLock'
  BY <1>41, ProcsAssumption DEF ReadTimesOut, Reading, Return, Goto, Free
<1> QED
  BY <1>1, <1>2, <1>3, <1>4, <1>5, <1>6, <1>7, <1>8, <1>9, <1>10, <1>11, <1>12, <1>13,
         <1>14, <1>15, <1>16, <1>17, <1>18, <1>19, <1>20, <1>21, <1>22, <1>23, <1>24, <1>25,
         <1>26, <1>27, <1>28, <1>29, <1>30, <1>31, <1>32, <1>33, <1>34, <1>35, <1>36, <1>37,
         <1>38, <1>39, <1>40, <1>41
  DEF Next, Local, Peer, Call

\* Who reads holds in.
LEMMA InLockStep ==
    ASSUME StepTypes, FlagTypes, InLock, [Next]_vars
    PROVE  InLock'
<1> USE DEF locks, handshake, inside, outside, active, context, writerOnly, readerOnly, vars,
         StepTypes, InLock, HoldsIn, HandshakeJobs, None
<1>1. CASE UNCHANGED vars \/ Over
  BY <1>1 DEF Over
<1>2. ASSUME NEW p \in Procs, Read(p) PROVE InLock'
  BY <1>2, ProcsAssumption DEF Read, Start, Goto
<1>3. ASSUME NEW p \in Procs, Write(p) PROVE InLock'
  BY <1>3, ProcsAssumption DEF Write, Start, Goto
<1>4. ASSUME NEW p \in Procs, HandshakeContext(p) PROVE InLock'
  BY <1>4, ProcsAssumption DEF HandshakeContext, Start, Goto
<1>5. ASSUME NEW p \in Procs, Close(p) PROVE InLock'
  BY <1>5, ProcsAssumption DEF Close, Start, Goto
<1>6. ASSUME NEW p \in Procs, CloseWrite(p) PROVE InLock'
  BY <1>6, ProcsAssumption DEF CloseWrite, Start, Goto
<1>7. ASSUME NEW p \in Procs, Cancel(p) PROVE InLock'
  BY <1>7, ProcsAssumption DEF Cancel
<1>8. ASSUME NEW p \in Procs, CloseLoad(p) PROVE InLock'
  BY <1>8, ProcsAssumption DEF CloseLoad, Send, Goto
<1>9. ASSUME NEW p \in Procs, CloseConn(p) PROVE InLock'
  BY <1>9, ProcsAssumption DEF CloseConn, Return, Goto, Free
<1>10. ASSUME NEW p \in Procs, Fast(p) PROVE InLock'
  <2>1. CASE complete
    BY <1>10, <2>1, ResumeCases DEF Fast, Resumed, Send, Goto, Return, Free, Payload
  <2>2. CASE ~complete
    BY <1>10, <2>2 DEF Fast, Goto
  <2> QED
    BY <2>1, <2>2
<1>11. ASSUME NEW p \in Procs, LockHandshake(p) PROVE InLock'
  BY <1>11, ProcsAssumption DEF LockHandshake, Goto
<1>12. ASSUME NEW p \in Procs, LockIn(p) PROVE InLock'
  BY <1>12, ProcsAssumption DEF LockIn, Goto
<1>13. ASSUME NEW p \in Procs, Build(p) PROVE InLock'
  BY <1>13, ProcsAssumption DEF Build, Send, Goto
<1>14. ASSUME NEW p \in Procs, Flush(p) PROVE InLock'
  BY <1>14, ProcsAssumption DEF Flush, Goto
<1>15. ASSUME NEW p \in Procs, Flushed(p) PROVE InLock'
  BY <1>15, ProcsAssumption DEF Flushed, Goto
<1>16. ASSUME NEW p \in Procs, FlushAlert(p) PROVE InLock'
  BY <1>16, ProcsAssumption DEF FlushAlert, Goto
<1>17. ASSUME NEW p \in Procs, End(p) PROVE InLock'
  BY <1>17, ProcsAssumption DEF End, Return, Goto, Free
<1>18. ASSUME NEW p \in Procs, Interrupt(p) PROVE InLock'
  BY <1>18, ProcsAssumption DEF Interrupt, Interrupted
<1>19. ASSUME NEW p \in Procs, StopInterrupter(p) PROVE InLock'
  BY <1>19, ProcsAssumption DEF StopInterrupter
<1>20. ASSUME NEW p \in Procs, HandshakeReturns(p) PROVE InLock'
  <2>1. CASE failed[p] \/ interrupter[p] = "closed"
    BY <1>20, <2>1 DEF HandshakeReturns, Return, Goto, Free
  <2>2. CASE ~(failed[p] \/ interrupter[p] = "closed")
    BY <1>20, <2>2, ResumeCases DEF HandshakeReturns, Resumed, Send, Goto, Return, Free, Payload
  <2> QED
    BY <2>1, <2>2
<1>21. ASSUME NEW p \in Procs, WriteRecord(p) PROVE InLock'
  BY <1>21, ProcsAssumption DEF WriteRecord, Refused, Seal, MayNotWrite, Goto
<1>22. ASSUME NEW p \in Procs, WriteRefused(p) PROVE InLock'
  BY <1>22, ProcsAssumption DEF WriteRefused, Refused, Notified, MayNotWrite, Goto, Free, Return
<1>23. ASSUME NEW p \in Procs, NextRecord(p) PROVE InLock'
  BY <1>23, ProcsAssumption DEF NextRecord, Seal, Goto
<1>24. ASSUME NEW p \in Procs, LockRead(p) PROVE InLock'
  BY <1>24, ProcsAssumption DEF LockRead, Goto
<1>25. ASSUME NEW p \in Procs, TakeInput(p) PROVE InLock'
  BY <1>25, ProcsAssumption DEF TakeInput, Return, Goto, Stay, Free
<1>26. ASSUME NEW p \in Procs, PostDone(p) PROVE InLock'
  BY <1>26, ProcsAssumption DEF PostDone, Goto
<1>27. ASSUME NEW p \in Procs, Oversized(p) PROVE InLock'
  BY <1>27, ProcsAssumption DEF Oversized, Message, Goto
<1>28. ASSUME NEW p \in Procs, Message12(p) PROVE InLock'
  BY <1>28, ProcsAssumption DEF Message12, Message, Goto, Send
<1>29. ASSUME NEW p \in Procs, Message13(p) PROVE InLock'
  BY <1>29, ProcsAssumption DEF Message13, Message, Send, Goto
<1>30. ASSUME NEW p \in Procs, LockRenegotiate(p) PROVE InLock'
  BY <1>30, ProcsAssumption DEF LockRenegotiate, Send, Goto
<1>31. ASSUME NEW p \in Procs, Net(p) PROVE InLock'
  <2> PICK ok \in BOOLEAN : Handed(p, ok) /\ Concluded(p, ok)
    BY <1>31, NetCases
  <2>1. CASE job[p] \in HandshakeJobs /\ AfterHandshakeRecord(p, ok)
    BY <2>1 DEF Handed, AfterHandshakeRecord, Unlock, Goto, Free, HandshakeJobs
  <2>2. CASE job[p] \in Payload /\ AfterData(p, ok)
    BY <2>2 DEF Handed, AfterData, Return, Goto, Free, Payload
  <2>3. CASE job[p] = "keyupdate" /\ AfterKeyUpdate(p, ok)
    BY <2>3 DEF Handed, AfterKeyUpdate, Unlock, Goto, Free
  <2>4. CASE job[p] = "alert" /\ AfterAlert(p)
    BY <2>4 DEF Handed, AfterAlert, Unlock, Return, Goto, Free
  <2>5. CASE job[p] = "close_notify" /\ AfterCloseNotify(p, ok)
    BY <2>5 DEF Handed, AfterCloseNotify, Notified, Return, Goto, Free
  <2> QED
    BY <2>1, <2>2, <2>3, <2>4, <2>5 DEF Concluded
<1>32. ASSUME NEW p \in Procs, Answer(p) PROVE InLock'
  BY <1>32, AnswerCases DEF Answered, Awaits, Send, Goto
<1>33. ASSUME NEW p \in Procs, AnswerIgnored(p) PROVE InLock'
  BY <1>33, ProcsAssumption DEF AnswerIgnored, Awaits, Fail, Send, Goto
<1>34. ASSUME NEW p \in Procs, AnswerRefused(p) PROVE InLock'
  BY <1>34, ProcsAssumption DEF AnswerRefused, Awaits, Fail, Send, Goto
<1>35. ASSUME NEW p \in Procs, AnswerFails(p) PROVE InLock'
  BY <1>35, ProcsAssumption DEF AnswerFails, Awaits, Fail, Goto
<1>36. ASSUME NEW p \in Procs, PeerData(p) PROVE InLock'
  BY <1>36, ProcsAssumption DEF PeerData, FromPeer, Advance, Reading, Goto, Stay, Return, Free
<1>37. ASSUME NEW p \in Procs, PeerHandshake(p) PROVE InLock'
  BY <1>37, ProcsAssumption DEF PeerHandshake, FromPeer, Advance, Reading, Goto, Stay, Return,
         Free
<1>38. ASSUME NEW p \in Procs, PeerUseless(p) PROVE InLock'
  BY <1>38, ProcsAssumption DEF PeerUseless, FromPeer, Send, Goto, Stay, Reading
<1>39. ASSUME NEW p \in Procs, PeerRefused(p) PROVE InLock'
  BY <1>39, ProcsAssumption DEF PeerRefused, FromPeer, Send, Reading, Goto
<1>40. ASSUME NEW p \in Procs, ReadFails(p) PROVE InLock'
  BY <1>40, ProcsAssumption DEF ReadFails, Reading, Return, Goto, Free
<1>41. ASSUME NEW p \in Procs, ReadTimesOut(p) PROVE InLock'
  BY <1>41, ProcsAssumption DEF ReadTimesOut, Reading, Return, Goto, Free
<1> QED
  BY <1>1, <1>2, <1>3, <1>4, <1>5, <1>6, <1>7, <1>8, <1>9, <1>10, <1>11, <1>12, <1>13,
         <1>14, <1>15, <1>16, <1>17, <1>18, <1>19, <1>20, <1>21, <1>22, <1>23, <1>24, <1>25,
         <1>26, <1>27, <1>28, <1>29, <1>30, <1>31, <1>32, <1>33, <1>34, <1>35, <1>36, <1>37,
         <1>38, <1>39, <1>40, <1>41
  DEF Next, Local, Peer, Call

\* Who writes holds out.
LEMMA OutLockStep ==
    ASSUME StepTypes, FlagTypes, OutLock, [Next]_vars
    PROVE  OutLock'
<1> USE DEF locks, handshake, inside, outside, active, context, writerOnly, readerOnly, vars,
         StepTypes, OutLock, HoldsOut, None
<1>1. CASE UNCHANGED vars \/ Over
  BY <1>1 DEF Over
<1>2. ASSUME NEW p \in Procs, Read(p) PROVE OutLock'
  BY <1>2, ProcsAssumption DEF Read, Start, Goto
<1>3. ASSUME NEW p \in Procs, Write(p) PROVE OutLock'
  BY <1>3, ProcsAssumption DEF Write, Start, Goto
<1>4. ASSUME NEW p \in Procs, HandshakeContext(p) PROVE OutLock'
  BY <1>4, ProcsAssumption DEF HandshakeContext, Start, Goto
<1>5. ASSUME NEW p \in Procs, Close(p) PROVE OutLock'
  BY <1>5, ProcsAssumption DEF Close, Start, Goto
<1>6. ASSUME NEW p \in Procs, CloseWrite(p) PROVE OutLock'
  BY <1>6, ProcsAssumption DEF CloseWrite, Start, Goto
<1>7. ASSUME NEW p \in Procs, Cancel(p) PROVE OutLock'
  BY <1>7, ProcsAssumption DEF Cancel
<1>8. ASSUME NEW p \in Procs, CloseLoad(p) PROVE OutLock'
  BY <1>8, ProcsAssumption DEF CloseLoad, Send, Goto
<1>9. ASSUME NEW p \in Procs, CloseConn(p) PROVE OutLock'
  BY <1>9, ProcsAssumption DEF CloseConn, Return, Goto, Free
<1>10. ASSUME NEW p \in Procs, Fast(p) PROVE OutLock'
  <2>1. CASE complete
    BY <1>10, <2>1, ResumeCases DEF Fast, Resumed, Send, Goto, Return, Free, Payload
  <2>2. CASE ~complete
    BY <1>10, <2>2 DEF Fast, Goto
  <2> QED
    BY <2>1, <2>2
<1>11. ASSUME NEW p \in Procs, LockHandshake(p) PROVE OutLock'
  BY <1>11, ProcsAssumption DEF LockHandshake, Goto
<1>12. ASSUME NEW p \in Procs, LockIn(p) PROVE OutLock'
  BY <1>12, ProcsAssumption DEF LockIn, Goto
<1>13. ASSUME NEW p \in Procs, Build(p) PROVE OutLock'
  BY <1>13, ProcsAssumption DEF Build, Send, Goto
<1>14. ASSUME NEW p \in Procs, Flush(p) PROVE OutLock'
  BY <1>14, ProcsAssumption DEF Flush, Goto
<1>15. ASSUME NEW p \in Procs, Flushed(p) PROVE OutLock'
  BY <1>15, ProcsAssumption DEF Flushed, Goto
<1>16. ASSUME NEW p \in Procs, FlushAlert(p) PROVE OutLock'
  BY <1>16, ProcsAssumption DEF FlushAlert, Goto
<1>17. ASSUME NEW p \in Procs, End(p) PROVE OutLock'
  BY <1>17, ProcsAssumption DEF End, Return, Goto, Free
<1>18. ASSUME NEW p \in Procs, Interrupt(p) PROVE OutLock'
  BY <1>18, ProcsAssumption DEF Interrupt, Interrupted
<1>19. ASSUME NEW p \in Procs, StopInterrupter(p) PROVE OutLock'
  BY <1>19, ProcsAssumption DEF StopInterrupter
<1>20. ASSUME NEW p \in Procs, HandshakeReturns(p) PROVE OutLock'
  <2>1. CASE failed[p] \/ interrupter[p] = "closed"
    BY <1>20, <2>1 DEF HandshakeReturns, Return, Goto, Free
  <2>2. CASE ~(failed[p] \/ interrupter[p] = "closed")
    BY <1>20, <2>2, ResumeCases DEF HandshakeReturns, Resumed, Send, Goto, Return, Free, Payload
  <2> QED
    BY <2>1, <2>2
<1>21. ASSUME NEW p \in Procs, WriteRecord(p) PROVE OutLock'
  BY <1>21, ProcsAssumption DEF WriteRecord, Refused, Seal, MayNotWrite, Goto
<1>22. ASSUME NEW p \in Procs, WriteRefused(p) PROVE OutLock'
  BY <1>22, ProcsAssumption DEF WriteRefused, Refused, Notified, MayNotWrite, Goto, Free, Return
<1>23. ASSUME NEW p \in Procs, NextRecord(p) PROVE OutLock'
  BY <1>23, ProcsAssumption DEF NextRecord, Seal, Goto
<1>24. ASSUME NEW p \in Procs, LockRead(p) PROVE OutLock'
  BY <1>24, ProcsAssumption DEF LockRead, Goto
<1>25. ASSUME NEW p \in Procs, TakeInput(p) PROVE OutLock'
  BY <1>25, ProcsAssumption DEF TakeInput, Return, Goto, Stay, Free
<1>26. ASSUME NEW p \in Procs, PostDone(p) PROVE OutLock'
  BY <1>26, ProcsAssumption DEF PostDone, Goto
<1>27. ASSUME NEW p \in Procs, Oversized(p) PROVE OutLock'
  BY <1>27, ProcsAssumption DEF Oversized, Message, Goto
<1>28. ASSUME NEW p \in Procs, Message12(p) PROVE OutLock'
  BY <1>28, ProcsAssumption DEF Message12, Message, Goto, Send
<1>29. ASSUME NEW p \in Procs, Message13(p) PROVE OutLock'
  BY <1>29, ProcsAssumption DEF Message13, Message, Send, Goto
<1>30. ASSUME NEW p \in Procs, LockRenegotiate(p) PROVE OutLock'
  BY <1>30, ProcsAssumption DEF LockRenegotiate, Send, Goto
<1>31. ASSUME NEW p \in Procs, Net(p) PROVE OutLock'
  <2> PICK ok \in BOOLEAN : Handed(p, ok) /\ Concluded(p, ok)
    BY <1>31, NetCases
  <2>1. CASE job[p] \in HandshakeJobs /\ AfterHandshakeRecord(p, ok)
    BY <2>1 DEF Handed, AfterHandshakeRecord, Unlock, Goto, Free, HandshakeJobs
  <2>2. CASE job[p] \in Payload /\ AfterData(p, ok)
    BY <2>2 DEF Handed, AfterData, Return, Goto, Free, Payload
  <2>3. CASE job[p] = "keyupdate" /\ AfterKeyUpdate(p, ok)
    BY <2>3 DEF Handed, AfterKeyUpdate, Unlock, Goto, Free
  <2>4. CASE job[p] = "alert" /\ AfterAlert(p)
    BY <2>4 DEF Handed, AfterAlert, Unlock, Return, Goto, Free
  <2>5. CASE job[p] = "close_notify" /\ AfterCloseNotify(p, ok)
    BY <2>5 DEF Handed, AfterCloseNotify, Notified, Return, Goto, Free
  <2> QED
    BY <2>1, <2>2, <2>3, <2>4, <2>5 DEF Concluded
<1>32. ASSUME NEW p \in Procs, Answer(p) PROVE OutLock'
  BY <1>32, AnswerCases DEF Answered, Awaits, Send, Goto
<1>33. ASSUME NEW p \in Procs, AnswerIgnored(p) PROVE OutLock'
  BY <1>33, ProcsAssumption DEF AnswerIgnored, Awaits, Fail, Send, Goto
<1>34. ASSUME NEW p \in Procs, AnswerRefused(p) PROVE OutLock'
  BY <1>34, ProcsAssumption DEF AnswerRefused, Awaits, Fail, Send, Goto
<1>35. ASSUME NEW p \in Procs, AnswerFails(p) PROVE OutLock'
  BY <1>35, ProcsAssumption DEF AnswerFails, Awaits, Fail, Goto
<1>36. ASSUME NEW p \in Procs, PeerData(p) PROVE OutLock'
  BY <1>36, ProcsAssumption DEF PeerData, FromPeer, Advance, Reading, Goto, Stay, Return, Free
<1>37. ASSUME NEW p \in Procs, PeerHandshake(p) PROVE OutLock'
  BY <1>37, ProcsAssumption DEF PeerHandshake, FromPeer, Advance, Reading, Goto, Stay, Return,
         Free
<1>38. ASSUME NEW p \in Procs, PeerUseless(p) PROVE OutLock'
  BY <1>38, ProcsAssumption DEF PeerUseless, FromPeer, Send, Goto, Stay, Reading
<1>39. ASSUME NEW p \in Procs, PeerRefused(p) PROVE OutLock'
  BY <1>39, ProcsAssumption DEF PeerRefused, FromPeer, Send, Reading, Goto
<1>40. ASSUME NEW p \in Procs, ReadFails(p) PROVE OutLock'
  BY <1>40, ProcsAssumption DEF ReadFails, Reading, Return, Goto, Free
<1>41. ASSUME NEW p \in Procs, ReadTimesOut(p) PROVE OutLock'
  BY <1>41, ProcsAssumption DEF ReadTimesOut, Reading, Return, Goto, Free
<1> QED
  BY <1>1, <1>2, <1>3, <1>4, <1>5, <1>6, <1>7, <1>8, <1>9, <1>10, <1>11, <1>12, <1>13,
         <1>14, <1>15, <1>16, <1>17, <1>18, <1>19, <1>20, <1>21, <1>22, <1>23, <1>24, <1>25,
         <1>26, <1>27, <1>28, <1>29, <1>30, <1>31, <1>32, <1>33, <1>34, <1>35, <1>36, <1>37,
         <1>38, <1>39, <1>40, <1>41
  DEF Next, Local, Peer, Call

\* Nothing that depends on the version is sent before it is known.
LEMMA NegotiatedStepsStep ==
    ASSUME StepTypes, FlagTypes, NegotiatedSteps, [Next]_vars
    PROVE  NegotiatedSteps'
<1> USE DEF locks, handshake, inside, outside, active, context, writerOnly, readerOnly, vars,
         StepTypes, FlagTypes, NegotiatedSteps, Versioned, None
<1>1. CASE UNCHANGED vars \/ Over
  BY <1>1 DEF Over
<1>2. ASSUME NEW p \in Procs, Read(p) PROVE NegotiatedSteps'
  BY <1>2 DEF Read, Start, Goto
<1>3. ASSUME NEW p \in Procs, Write(p) PROVE NegotiatedSteps'
  BY <1>3 DEF Write, Start, Goto
<1>4. ASSUME NEW p \in Procs, HandshakeContext(p) PROVE NegotiatedSteps'
  BY <1>4 DEF HandshakeContext, Start, Goto
<1>5. ASSUME NEW p \in Procs, Close(p) PROVE NegotiatedSteps'
  BY <1>5 DEF Close, Start, Goto
<1>6. ASSUME NEW p \in Procs, CloseWrite(p) PROVE NegotiatedSteps'
  BY <1>6 DEF CloseWrite, Start, Goto
<1>7. ASSUME NEW p \in Procs, Cancel(p) PROVE NegotiatedSteps'
  BY <1>7 DEF Cancel
<1>8. ASSUME NEW p \in Procs, CloseLoad(p) PROVE NegotiatedSteps'
  BY <1>8 DEF CloseLoad, Send, Goto
<1>9. ASSUME NEW p \in Procs, CloseConn(p) PROVE NegotiatedSteps'
  BY <1>9 DEF CloseConn, Return, Goto, Free
<1>10. ASSUME NEW p \in Procs, Fast(p) PROVE NegotiatedSteps'
  <2>1. CASE complete
    BY <1>10, <2>1, ResumeCases DEF Fast, Resumed, Send, Goto, Return, Free, Payload
  <2>2. CASE ~complete
    BY <1>10, <2>2 DEF Fast, Goto
  <2> QED
    BY <2>1, <2>2
<1>11. ASSUME NEW p \in Procs, LockHandshake(p) PROVE NegotiatedSteps'
  BY <1>11 DEF LockHandshake, Goto
<1>12. ASSUME NEW p \in Procs, LockIn(p) PROVE NegotiatedSteps'
  BY <1>12 DEF LockIn, Goto
<1>13. ASSUME NEW p \in Procs, Build(p) PROVE NegotiatedSteps'
  BY <1>13 DEF Build, Send, Goto
<1>14. ASSUME NEW p \in Procs, Flush(p) PROVE NegotiatedSteps'
  BY <1>14 DEF Flush, Goto
<1>15. ASSUME NEW p \in Procs, Flushed(p) PROVE NegotiatedSteps'
  BY <1>15 DEF Flushed, Goto
<1>16. ASSUME NEW p \in Procs, FlushAlert(p) PROVE NegotiatedSteps'
  BY <1>16 DEF FlushAlert, Goto
<1>17. ASSUME NEW p \in Procs, End(p) PROVE NegotiatedSteps'
  BY <1>17 DEF End, Return, Goto, Free
<1>18. ASSUME NEW p \in Procs, Interrupt(p) PROVE NegotiatedSteps'
  BY <1>18 DEF Interrupt, Interrupted
<1>19. ASSUME NEW p \in Procs, StopInterrupter(p) PROVE NegotiatedSteps'
  BY <1>19 DEF StopInterrupter
<1>20. ASSUME NEW p \in Procs, HandshakeReturns(p) PROVE NegotiatedSteps'
  <2>1. CASE failed[p] \/ interrupter[p] = "closed"
    BY <1>20, <2>1 DEF HandshakeReturns, Return, Goto, Free
  <2>2. CASE ~(failed[p] \/ interrupter[p] = "closed")
    BY <1>20, <2>2, ResumeCases DEF HandshakeReturns, Resumed, Send, Goto, Return, Free, Payload
  <2> QED
    BY <2>1, <2>2
<1>21. ASSUME NEW p \in Procs, WriteRecord(p) PROVE NegotiatedSteps'
  BY <1>21 DEF WriteRecord, Refused, Seal, MayNotWrite, Goto
<1>22. ASSUME NEW p \in Procs, WriteRefused(p) PROVE NegotiatedSteps'
  BY <1>22 DEF WriteRefused, Refused, Notified, MayNotWrite, Goto, Free, Return
<1>23. ASSUME NEW p \in Procs, NextRecord(p) PROVE NegotiatedSteps'
  BY <1>23 DEF NextRecord, Seal, Goto
<1>24. ASSUME NEW p \in Procs, LockRead(p) PROVE NegotiatedSteps'
  BY <1>24 DEF LockRead, Goto
<1>25. ASSUME NEW p \in Procs, TakeInput(p) PROVE NegotiatedSteps'
  BY <1>25 DEF TakeInput, Return, Goto, Stay, Free
<1>26. ASSUME NEW p \in Procs, PostDone(p) PROVE NegotiatedSteps'
  BY <1>26 DEF PostDone, Goto
<1>27. ASSUME NEW p \in Procs, Oversized(p) PROVE NegotiatedSteps'
  BY <1>27 DEF Oversized, Message, Goto
<1>28. ASSUME NEW p \in Procs, Message12(p) PROVE NegotiatedSteps'
  BY <1>28 DEF Message12, Message, Goto, Send
<1>29. ASSUME NEW p \in Procs, Message13(p) PROVE NegotiatedSteps'
  BY <1>29 DEF Message13, Message, Send, Goto
<1>30. ASSUME NEW p \in Procs, LockRenegotiate(p) PROVE NegotiatedSteps'
  BY <1>30 DEF LockRenegotiate, Send, Goto
<1>31. ASSUME NEW p \in Procs, Net(p) PROVE NegotiatedSteps'
  <2> PICK ok \in BOOLEAN : Handed(p, ok) /\ Concluded(p, ok)
    BY <1>31, NetCases
  <2>1. CASE job[p] \in HandshakeJobs /\ AfterHandshakeRecord(p, ok)
    BY <2>1 DEF Handed, AfterHandshakeRecord, Unlock, Goto, Free, HandshakeJobs
  <2>2. CASE job[p] \in Payload /\ AfterData(p, ok)
    BY <2>2 DEF Handed, AfterData, Return, Goto, Free, Payload
  <2>3. CASE job[p] = "keyupdate" /\ AfterKeyUpdate(p, ok)
    BY <2>3 DEF Handed, AfterKeyUpdate, Unlock, Goto, Free
  <2>4. CASE job[p] = "alert" /\ AfterAlert(p)
    BY <2>4 DEF Handed, AfterAlert, Unlock, Return, Goto, Free
  <2>5. CASE job[p] = "close_notify" /\ AfterCloseNotify(p, ok)
    BY <2>5 DEF Handed, AfterCloseNotify, Notified, Return, Goto, Free
  <2> QED
    BY <2>1, <2>2, <2>3, <2>4, <2>5 DEF Concluded
<1>32. ASSUME NEW p \in Procs, Answer(p) PROVE NegotiatedSteps'
  <2>0. Answered(p)
    BY <1>32, AnswerCases
  <2>1. CASE pc[p] = "answer" /\ vers' = 13 /\ Send(p, "ccs")
    BY <2>0, <2>1 DEF Answered, Send, Goto
  <2>2. CASE pc[p] = "answer" /\ vers' = 12 /\ Goto(p, "flight") /\ UNCHANGED job
    BY <2>0, <2>2 DEF Answered, Goto
  <2>3. CASE pc[p] = "flight" /\ vers = 13 /\ Send(p, "finished")
    BY <2>0, <2>3 DEF Answered, Send, Goto
  <2>4. CASE pc[p] = "flight" /\ vers # 13 /\ Send(p, "ccs")
    BY <2>0, <2>4 DEF Answered, Send, Goto
  <2>5. CASE pc[p] = "answer2" /\ Goto(p, "end") /\ UNCHANGED job
    BY <2>0, <2>5 DEF Answered, Goto
  <2> QED
    BY <2>0, <2>1, <2>2, <2>3, <2>4, <2>5 DEF Answered
<1>33. ASSUME NEW p \in Procs, AnswerIgnored(p) PROVE NegotiatedSteps'
  BY <1>33 DEF AnswerIgnored, Awaits, Fail, Send, Goto
<1>34. ASSUME NEW p \in Procs, AnswerRefused(p) PROVE NegotiatedSteps'
  BY <1>34 DEF AnswerRefused, Awaits, Fail, Send, Goto
<1>35. ASSUME NEW p \in Procs, AnswerFails(p) PROVE NegotiatedSteps'
  BY <1>35 DEF AnswerFails, Awaits, Fail, Goto
<1>36. ASSUME NEW p \in Procs, PeerData(p) PROVE NegotiatedSteps'
  BY <1>36 DEF PeerData, FromPeer, Advance, Reading, Goto, Stay, Return, Free
<1>37. ASSUME NEW p \in Procs, PeerHandshake(p) PROVE NegotiatedSteps'
  BY <1>37 DEF PeerHandshake, FromPeer, Advance, Reading, Goto, Stay, Return, Free
<1>38. ASSUME NEW p \in Procs, PeerUseless(p) PROVE NegotiatedSteps'
  BY <1>38 DEF PeerUseless, FromPeer, Send, Goto, Stay, Reading
<1>39. ASSUME NEW p \in Procs, PeerRefused(p) PROVE NegotiatedSteps'
  BY <1>39 DEF PeerRefused, FromPeer, Send, Reading, Goto
<1>40. ASSUME NEW p \in Procs, ReadFails(p) PROVE NegotiatedSteps'
  BY <1>40 DEF ReadFails, Reading, Return, Goto, Free
<1>41. ASSUME NEW p \in Procs, ReadTimesOut(p) PROVE NegotiatedSteps'
  BY <1>41 DEF ReadTimesOut, Reading, Return, Goto, Free
<1> QED
  BY <1>1, <1>2, <1>3, <1>4, <1>5, <1>6, <1>7, <1>8, <1>9, <1>10, <1>11, <1>12, <1>13,
         <1>14, <1>15, <1>16, <1>17, <1>18, <1>19, <1>20, <1>21, <1>22, <1>23, <1>24, <1>25,
         <1>26, <1>27, <1>28, <1>29, <1>30, <1>31, <1>32, <1>33, <1>34, <1>35, <1>36, <1>37,
         <1>38, <1>39, <1>40, <1>41
  DEF Next, Local, Peer, Call

\* What is buffered.
LEMMA BufferStep ==
    ASSUME StepTypes, FlagTypes, HandshakeLock, Buffer, [Next]_vars
    PROVE  Buffer'
<1> USE DEF locks, handshake, inside, outside, active, context, writerOnly, readerOnly, vars,
         StepTypes, HandshakeLock, InHandshake, Buffer, Buffered, Flight, HandshakeJobs, None
<1>1. CASE UNCHANGED vars \/ Over
  BY <1>1 DEF Over
<1>2. ASSUME NEW p \in Procs, Read(p) PROVE Buffer'
  BY <1>2 DEF Read, Start, Goto
<1>3. ASSUME NEW p \in Procs, Write(p) PROVE Buffer'
  BY <1>3 DEF Write, Start, Goto
<1>4. ASSUME NEW p \in Procs, HandshakeContext(p) PROVE Buffer'
  BY <1>4 DEF HandshakeContext, Start, Goto
<1>5. ASSUME NEW p \in Procs, Close(p) PROVE Buffer'
  BY <1>5 DEF Close, Start, Goto
<1>6. ASSUME NEW p \in Procs, CloseWrite(p) PROVE Buffer'
  BY <1>6 DEF CloseWrite, Start, Goto
<1>7. ASSUME NEW p \in Procs, Cancel(p) PROVE Buffer'
  BY <1>7 DEF Cancel
<1>8. ASSUME NEW p \in Procs, CloseLoad(p) PROVE Buffer'
  BY <1>8 DEF CloseLoad, Send, Goto
<1>9. ASSUME NEW p \in Procs, CloseConn(p) PROVE Buffer'
  BY <1>9 DEF CloseConn, Return, Goto, Free
<1>10. ASSUME NEW p \in Procs, Fast(p) PROVE Buffer'
  <2>1. CASE complete
    BY <1>10, <2>1, ResumeCases DEF Fast, Resumed, Send, Goto, Return, Free, Payload
  <2>2. CASE ~complete
    BY <1>10, <2>2 DEF Fast, Goto
  <2> QED
    BY <2>1, <2>2
<1>11. ASSUME NEW p \in Procs, LockHandshake(p) PROVE Buffer'
  BY <1>11 DEF LockHandshake, Goto
<1>12. ASSUME NEW p \in Procs, LockIn(p) PROVE Buffer'
  BY <1>12 DEF LockIn, Goto
<1>13. ASSUME NEW p \in Procs, Build(p) PROVE Buffer'
  BY <1>13 DEF Build, Send, Goto
<1>14. ASSUME NEW p \in Procs, Flush(p) PROVE Buffer'
  BY <1>14 DEF Flush, Goto
<1>15. ASSUME NEW p \in Procs, Flushed(p) PROVE Buffer'
  BY <1>15 DEF Flushed, Goto
<1>16. ASSUME NEW p \in Procs, FlushAlert(p) PROVE Buffer'
  BY <1>16 DEF FlushAlert, Goto
<1>17. ASSUME NEW p \in Procs, End(p) PROVE Buffer'
  BY <1>17 DEF End, Return, Goto, Free
<1>18. ASSUME NEW p \in Procs, Interrupt(p) PROVE Buffer'
  BY <1>18 DEF Interrupt, Interrupted
<1>19. ASSUME NEW p \in Procs, StopInterrupter(p) PROVE Buffer'
  BY <1>19 DEF StopInterrupter
<1>20. ASSUME NEW p \in Procs, HandshakeReturns(p) PROVE Buffer'
  <2>1. CASE failed[p] \/ interrupter[p] = "closed"
    BY <1>20, <2>1 DEF HandshakeReturns, Return, Goto, Free
  <2>2. CASE ~(failed[p] \/ interrupter[p] = "closed")
    BY <1>20, <2>2, ResumeCases DEF HandshakeReturns, Resumed, Send, Goto, Return, Free, Payload
  <2> QED
    BY <2>1, <2>2
<1>21. ASSUME NEW p \in Procs, WriteRecord(p) PROVE Buffer'
  BY <1>21 DEF WriteRecord, Refused, Seal, MayNotWrite, Goto
<1>22. ASSUME NEW p \in Procs, WriteRefused(p) PROVE Buffer'
  BY <1>22 DEF WriteRefused, Refused, Notified, MayNotWrite, Goto, Free, Return
<1>23. ASSUME NEW p \in Procs, NextRecord(p) PROVE Buffer'
  BY <1>23 DEF NextRecord, Seal, Goto
<1>24. ASSUME NEW p \in Procs, LockRead(p) PROVE Buffer'
  BY <1>24 DEF LockRead, Goto
<1>25. ASSUME NEW p \in Procs, TakeInput(p) PROVE Buffer'
  BY <1>25 DEF TakeInput, Return, Goto, Stay, Free
<1>26. ASSUME NEW p \in Procs, PostDone(p) PROVE Buffer'
  BY <1>26 DEF PostDone, Goto
<1>27. ASSUME NEW p \in Procs, Oversized(p) PROVE Buffer'
  BY <1>27 DEF Oversized, Message, Goto
<1>28. ASSUME NEW p \in Procs, Message12(p) PROVE Buffer'
  BY <1>28 DEF Message12, Message, Goto, Send
<1>29. ASSUME NEW p \in Procs, Message13(p) PROVE Buffer'
  BY <1>29 DEF Message13, Message, Send, Goto
<1>30. ASSUME NEW p \in Procs, LockRenegotiate(p) PROVE Buffer'
  BY <1>30 DEF LockRenegotiate, Send, Goto
<1>31. ASSUME NEW p \in Procs, Net(p) PROVE Buffer'
  <2> PICK ok \in BOOLEAN : Handed(p, ok) /\ Concluded(p, ok)
    BY <1>31, NetCases
  <2>1. CASE job[p] \in HandshakeJobs /\ AfterHandshakeRecord(p, ok)
    BY <2>1 DEF Handed, Deliver, AfterHandshakeRecord, Unlock, Goto, Free, HandshakeJobs
  <2>2. CASE job[p] \in Payload /\ AfterData(p, ok)
    BY <2>2 DEF Handed, Deliver, AfterData, Return, Goto, Free, Payload
  <2>3. CASE job[p] = "keyupdate" /\ AfterKeyUpdate(p, ok)
    BY <2>3 DEF Handed, Deliver, AfterKeyUpdate, Unlock, Goto, Free
  <2>4. CASE job[p] = "alert" /\ AfterAlert(p)
    BY <2>4 DEF Handed, Deliver, AfterAlert, Unlock, Return, Goto, Free
  <2>5. CASE job[p] = "close_notify" /\ AfterCloseNotify(p, ok)
    BY <2>5 DEF Handed, Deliver, AfterCloseNotify, Notified, Return, Goto, Free
  <2> QED
    BY <2>1, <2>2, <2>3, <2>4, <2>5 DEF Concluded
<1>32. ASSUME NEW p \in Procs, Answer(p) PROVE Buffer'
  <2>0. Answered(p)
    BY <1>32, AnswerCases
  <2>1. CASE pc[p] = "answer" /\ vers' = 13 /\ Send(p, "ccs")
    BY <2>0, <2>1 DEF Answered, Send, Goto
  <2>2. CASE pc[p] = "answer" /\ vers' = 12 /\ Goto(p, "flight") /\ UNCHANGED job
    BY <2>0, <2>2 DEF Answered, Goto
  <2>3. CASE pc[p] = "flight" /\ vers = 13 /\ Send(p, "finished")
    BY <2>0, <2>3 DEF Answered, Send, Goto
  <2>4. CASE pc[p] = "flight" /\ vers # 13 /\ Send(p, "ccs")
    BY <2>0, <2>4 DEF Answered, Send, Goto
  <2>5. CASE pc[p] = "answer2" /\ Goto(p, "end") /\ UNCHANGED job
    BY <2>0, <2>5 DEF Answered, Goto
  <2> QED
    BY <2>0, <2>1, <2>2, <2>3, <2>4, <2>5 DEF Answered
<1>33. ASSUME NEW p \in Procs, AnswerIgnored(p) PROVE Buffer'
  BY <1>33 DEF AnswerIgnored, Awaits, Fail, Send, Goto
<1>34. ASSUME NEW p \in Procs, AnswerRefused(p) PROVE Buffer'
  BY <1>34 DEF AnswerRefused, Awaits, Fail, Send, Goto
<1>35. ASSUME NEW p \in Procs, AnswerFails(p) PROVE Buffer'
  BY <1>35 DEF AnswerFails, Awaits, Fail, Goto
<1>36. ASSUME NEW p \in Procs, PeerData(p) PROVE Buffer'
  BY <1>36 DEF PeerData, FromPeer, Advance, Reading, Goto, Stay, Return, Free
<1>37. ASSUME NEW p \in Procs, PeerHandshake(p) PROVE Buffer'
  BY <1>37 DEF PeerHandshake, FromPeer, Advance, Reading, Goto, Stay, Return, Free
<1>38. ASSUME NEW p \in Procs, PeerUseless(p) PROVE Buffer'
  BY <1>38 DEF PeerUseless, FromPeer, Send, Goto, Stay, Reading
<1>39. ASSUME NEW p \in Procs, PeerRefused(p) PROVE Buffer'
  BY <1>39 DEF PeerRefused, FromPeer, Send, Reading, Goto
<1>40. ASSUME NEW p \in Procs, ReadFails(p) PROVE Buffer'
  BY <1>40 DEF ReadFails, Reading, Return, Goto, Free
<1>41. ASSUME NEW p \in Procs, ReadTimesOut(p) PROVE Buffer'
  BY <1>41 DEF ReadTimesOut, Reading, Return, Goto, Free
<1> QED
  BY <1>1, <1>2, <1>3, <1>4, <1>5, <1>6, <1>7, <1>8, <1>9, <1>10, <1>11, <1>12, <1>13,
         <1>14, <1>15, <1>16, <1>17, <1>18, <1>19, <1>20, <1>21, <1>22, <1>23, <1>24, <1>25,
         <1>26, <1>27, <1>28, <1>29, <1>30, <1>31, <1>32, <1>33, <1>34, <1>35, <1>36, <1>37,
         <1>38, <1>39, <1>40, <1>41
  DEF Next, Local, Peer, Call

\* Every other step leaves the records alone.
LEMMA StillStep ==
    ASSUME StepTypes, FlagTypes, [Next]_vars
    PROVE  Still \/ \E q \in Procs : Stirs(q)
<1> USE DEF Still, locks, handshake, inside, outside, active, context, writerOnly, readerOnly, vars,
         StepTypes
<1>1. CASE UNCHANGED vars \/ Over
  BY <1>1 DEF Over
<1>2. ASSUME NEW p \in Procs, Read(p) PROVE Still \/ \E q \in Procs : Stirs(q)
  BY <1>2 DEF Read, Start, Goto
<1>3. ASSUME NEW p \in Procs, Write(p) PROVE Still \/ \E q \in Procs : Stirs(q)
  BY <1>3 DEF Write, Start, Goto
<1>4. ASSUME NEW p \in Procs, HandshakeContext(p) PROVE Still \/ \E q \in Procs : Stirs(q)
  BY <1>4 DEF HandshakeContext, Start, Goto
<1>5. ASSUME NEW p \in Procs, Close(p) PROVE Still \/ \E q \in Procs : Stirs(q)
  BY <1>5 DEF Close, Start, Goto
<1>6. ASSUME NEW p \in Procs, CloseWrite(p) PROVE Still \/ \E q \in Procs : Stirs(q)
  BY <1>6 DEF CloseWrite, Start, Goto
<1>7. ASSUME NEW p \in Procs, Cancel(p) PROVE Still \/ \E q \in Procs : Stirs(q)
  BY <1>7 DEF Cancel
<1>8. ASSUME NEW p \in Procs, CloseLoad(p) PROVE Still \/ \E q \in Procs : Stirs(q)
  BY <1>8 DEF CloseLoad, Send, Goto
<1>9. ASSUME NEW p \in Procs, CloseConn(p) PROVE Still \/ \E q \in Procs : Stirs(q)
  BY <1>9 DEF CloseConn, Return, Goto, Free
<1>10. ASSUME NEW p \in Procs, Fast(p) PROVE Still \/ \E q \in Procs : Stirs(q)
  <2>1. CASE complete
    BY <1>10, <2>1, ResumeCases DEF Fast, Resumed, Send, Goto, Return, Free, Payload
  <2>2. CASE ~complete
    BY <1>10, <2>2 DEF Fast, Goto
  <2> QED
    BY <2>1, <2>2
<1>11. ASSUME NEW p \in Procs, LockHandshake(p) PROVE Still \/ \E q \in Procs : Stirs(q)
  BY <1>11 DEF LockHandshake, Goto
<1>12. ASSUME NEW p \in Procs, LockIn(p) PROVE Still \/ \E q \in Procs : Stirs(q)
  BY <1>12 DEF LockIn, Goto
<1>13. ASSUME NEW p \in Procs, Build(p) PROVE Still \/ \E q \in Procs : Stirs(q)
  BY <1>13 DEF Build, Send, Goto
<1>14. ASSUME NEW p \in Procs, Flush(p) PROVE Still \/ \E q \in Procs : Stirs(q)
  BY <1>14 DEF Stirs
<1>15. ASSUME NEW p \in Procs, Flushed(p) PROVE Still \/ \E q \in Procs : Stirs(q)
  BY <1>15 DEF Stirs
<1>16. ASSUME NEW p \in Procs, FlushAlert(p) PROVE Still \/ \E q \in Procs : Stirs(q)
  BY <1>16 DEF FlushAlert, Goto
<1>17. ASSUME NEW p \in Procs, End(p) PROVE Still \/ \E q \in Procs : Stirs(q)
  BY <1>17 DEF End, Return, Goto, Free
<1>18. ASSUME NEW p \in Procs, Interrupt(p) PROVE Still \/ \E q \in Procs : Stirs(q)
  BY <1>18 DEF Interrupt, Interrupted
<1>19. ASSUME NEW p \in Procs, StopInterrupter(p) PROVE Still \/ \E q \in Procs : Stirs(q)
  BY <1>19 DEF StopInterrupter
<1>20. ASSUME NEW p \in Procs, HandshakeReturns(p) PROVE Still \/ \E q \in Procs : Stirs(q)
  <2>1. CASE failed[p] \/ interrupter[p] = "closed"
    BY <1>20, <2>1 DEF HandshakeReturns, Return, Goto, Free
  <2>2. CASE ~(failed[p] \/ interrupter[p] = "closed")
    BY <1>20, <2>2, ResumeCases DEF HandshakeReturns, Resumed, Send, Goto, Return, Free, Payload
  <2> QED
    BY <2>1, <2>2
<1>21. ASSUME NEW p \in Procs, WriteRecord(p) PROVE Still \/ \E q \in Procs : Stirs(q)
  BY <1>21 DEF Stirs
<1>22. ASSUME NEW p \in Procs, WriteRefused(p) PROVE Still \/ \E q \in Procs : Stirs(q)
  BY <1>22 DEF WriteRefused, Refused, Notified, MayNotWrite, Goto, Free, Return
<1>23. ASSUME NEW p \in Procs, NextRecord(p) PROVE Still \/ \E q \in Procs : Stirs(q)
  BY <1>23 DEF Stirs
<1>24. ASSUME NEW p \in Procs, LockRead(p) PROVE Still \/ \E q \in Procs : Stirs(q)
  BY <1>24 DEF LockRead, Goto
<1>25. ASSUME NEW p \in Procs, TakeInput(p) PROVE Still \/ \E q \in Procs : Stirs(q)
  BY <1>25 DEF TakeInput, Return, Goto, Stay, Free
<1>26. ASSUME NEW p \in Procs, PostDone(p) PROVE Still \/ \E q \in Procs : Stirs(q)
  BY <1>26 DEF PostDone, Goto
<1>27. ASSUME NEW p \in Procs, Oversized(p) PROVE Still \/ \E q \in Procs : Stirs(q)
  BY <1>27 DEF Oversized, Message, Goto
<1>28. ASSUME NEW p \in Procs, Message12(p) PROVE Still \/ \E q \in Procs : Stirs(q)
  BY <1>28 DEF Message12, Message, Goto, Send
<1>29. ASSUME NEW p \in Procs, Message13(p) PROVE Still \/ \E q \in Procs : Stirs(q)
  BY <1>29 DEF Message13, Message, Send, Goto
<1>30. ASSUME NEW p \in Procs, LockRenegotiate(p) PROVE Still \/ \E q \in Procs : Stirs(q)
  BY <1>30 DEF LockRenegotiate, Send, Goto
<1>31. ASSUME NEW p \in Procs, Net(p) PROVE Still \/ \E q \in Procs : Stirs(q)
  BY <1>31 DEF Stirs
<1>32. ASSUME NEW p \in Procs, Answer(p) PROVE Still \/ \E q \in Procs : Stirs(q)
  BY <1>32, AnswerCases DEF Answered, Awaits, Send, Goto
<1>33. ASSUME NEW p \in Procs, AnswerIgnored(p) PROVE Still \/ \E q \in Procs : Stirs(q)
  BY <1>33 DEF AnswerIgnored, Awaits, Fail, Send, Goto
<1>34. ASSUME NEW p \in Procs, AnswerRefused(p) PROVE Still \/ \E q \in Procs : Stirs(q)
  BY <1>34 DEF AnswerRefused, Awaits, Fail, Send, Goto
<1>35. ASSUME NEW p \in Procs, AnswerFails(p) PROVE Still \/ \E q \in Procs : Stirs(q)
  BY <1>35 DEF AnswerFails, Awaits, Fail, Goto
<1>36. ASSUME NEW p \in Procs, PeerData(p) PROVE Still \/ \E q \in Procs : Stirs(q)
  BY <1>36 DEF PeerData, FromPeer, Advance, Reading, Goto, Stay, Return, Free
<1>37. ASSUME NEW p \in Procs, PeerHandshake(p) PROVE Still \/ \E q \in Procs : Stirs(q)
  BY <1>37 DEF PeerHandshake, FromPeer, Advance, Reading, Goto, Stay, Return, Free
<1>38. ASSUME NEW p \in Procs, PeerUseless(p) PROVE Still \/ \E q \in Procs : Stirs(q)
  BY <1>38 DEF PeerUseless, FromPeer, Send, Goto, Stay, Reading
<1>39. ASSUME NEW p \in Procs, PeerRefused(p) PROVE Still \/ \E q \in Procs : Stirs(q)
  BY <1>39 DEF PeerRefused, FromPeer, Send, Reading, Goto
<1>40. ASSUME NEW p \in Procs, ReadFails(p) PROVE Still \/ \E q \in Procs : Stirs(q)
  BY <1>40 DEF ReadFails, Reading, Return, Goto, Free
<1>41. ASSUME NEW p \in Procs, ReadTimesOut(p) PROVE Still \/ \E q \in Procs : Stirs(q)
  BY <1>41 DEF ReadTimesOut, Reading, Return, Goto, Free
<1> QED
  BY <1>1, <1>2, <1>3, <1>4, <1>5, <1>6, <1>7, <1>8, <1>9, <1>10, <1>11, <1>12, <1>13,
         <1>14, <1>15, <1>16, <1>17, <1>18, <1>19, <1>20, <1>21, <1>22, <1>23, <1>24, <1>25,
         <1>26, <1>27, <1>28, <1>29, <1>30, <1>31, <1>32, <1>33, <1>34, <1>35, <1>36, <1>37,
         <1>38, <1>39, <1>40, <1>41
  DEF Next, Local, Peer, Call

\* What handing over a record, and flushing the buffer, does to the streams.
Appended(s, t, r) ==
    /\ t \in Seq(Record) /\ Len(t) = Len(s) + 1
    /\ \A i \in 1..Len(t) : t[i] = IF i <= Len(s) THEN s[i] ELSE r

\* The record as it is logged on the wire.
Marked(r, ok) == [r EXCEPT !.ok = ok]

\* Marking a record changes nothing else.
LEMMA MarkedFields ==
    ASSUME NEW r \in Record, NEW ok \in BOOLEAN
    PROVE  /\ Marked(r, ok) \in Record
           /\ Marked(r, ok).kind = r.kind
           /\ Marked(r, ok).epoch = r.epoch /\ Marked(r, ok).seq = r.seq
           /\ Marked(r, ok).ok = ok
           /\ r.ok /\ ok => Marked(r, ok) = r
<1>1. r = [kind |-> r.kind, epoch |-> r.epoch, seq |-> r.seq, ok |-> r.ok] /\ r.ok \in BOOLEAN
  BY DEF Record
<1> QED
  BY <1>1 DEF Marked, Record

\* Append does what Appended says.
LEMMA AppendedRecord ==
    ASSUME NEW s \in Seq(Record), NEW r \in Record
    PROVE  Appended(s, Append(s, r), r)
<1>1. Append(s, r) \in Seq(Record) /\ Len(Append(s, r)) = Len(s) + 1
  OBVIOUS
<1>2. \A i \in 1..Len(s) : Append(s, r)[i] = s[i]
  OBVIOUS
<1>3. Append(s, r)[Len(s) + 1] = r
  OBVIOUS
<1> QED
  BY <1>1, <1>2, <1>3 DEF Appended

\* A record goes to the buffer or to the network.
LEMMA DeliverEffect ==
    ASSUME NEW p \in Procs, NEW ok \in BOOLEAN, StreamTypes, Deliver(p, ok)
    PROVE  \/ buffering /\ ok /\ Appended(sendBuf, sendBuf', rec[p]) /\ wire' = wire
           \/ /\ ~buffering /\ sendBuf' = sendBuf /\ (ok => ~expired)
              /\ Appended(wire, wire', Marked(rec[p], ok))
<1>1. rec[p] \in Record /\ Marked(rec[p], ok) \in Record
  BY MarkedFields DEF StreamTypes
<1>2. CASE buffering
  BY <1>1, <1>2, AppendedRecord DEF Deliver, StreamTypes
<1>3. CASE ~buffering
  BY <1>1, <1>3, AppendedRecord DEF Deliver, StreamTypes, Marked
<1> QED
  BY <1>2, <1>3

\* The effect of Flush.
Flushing(p, ok) ==
    /\ ok \in BOOLEAN /\ (ok => ~expired)
    /\ wire' \in Seq(Record) /\ Len(wire') = Len(wire) + Len(sendBuf)
    /\ \A i \in 1..Len(wire') :
          wire'[i] = IF i <= Len(wire) THEN wire[i] ELSE Marked(sendBuf[i - Len(wire)], ok)
    /\ failed' = [failed EXCEPT ![p] = @ \/ ~ok]
    /\ pc[p] = "flush" /\ Goto(p, "flushed")
    /\ UNCHANGED <<complete, vers, out, outErr, buffering, sendBuf, closeNotifySent,
                   expired, unlocked, job, rec, locks>>

\* Flush puts the buffer behind the wire.
LEMMA FlushEffect ==
    ASSUME NEW p \in Procs, StreamTypes, Flush(p)
    PROVE  \E ok \in BOOLEAN : Flushing(p, ok)
<1>1. PICK ok \in BOOLEAN :
         /\ ok => ~connClosed /\ ~expired
         /\ wire' = wire \o [i \in DOMAIN sendBuf |-> [sendBuf[i] EXCEPT !.ok = ok]]
         /\ failed' = [failed EXCEPT ![p] = @ \/ ~ok]
  BY DEF Flush
<1> DEFINE taken == [i \in DOMAIN sendBuf |-> [sendBuf[i] EXCEPT !.ok = ok]]
<1>2. DOMAIN sendBuf = 1..Len(sendBuf) /\ Len(sendBuf) \in Nat
  BY DEF StreamTypes
<1>3. \A i \in 1..Len(sendBuf) : [sendBuf[i] EXCEPT !.ok = ok] \in Record
  <2>1. \A r \in Record : [r EXCEPT !.ok = ok] \in Record
    BY DEF Record
  <2>2. \A i \in 1..Len(sendBuf) : sendBuf[i] \in Record
    BY DEF StreamTypes
  <2> QED
    BY <2>1, <2>2
<1>4. taken \in Seq(Record) /\ Len(taken) = Len(sendBuf)
  BY <1>2, <1>3, SeqDef
<1>5. \A i \in 1..Len(sendBuf) : taken[i] = [sendBuf[i] EXCEPT !.ok = ok]
  BY <1>2
<1> HIDE DEF taken
<1>6. /\ wire \o taken \in Seq(Record) /\ Len(wire \o taken) = Len(wire) + Len(taken)
      /\ \A i \in 1..Len(wire) : (wire \o taken)[i] = wire[i]
      /\ \A i \in 1..Len(taken) : (wire \o taken)[Len(wire) + i] = taken[i]
  <2>1. wire \in Seq(Record)
    BY DEF StreamTypes
  <2>2. wire \o taken \in Seq(Record) /\ Len(wire \o taken) = Len(wire) + Len(taken)
    BY <1>4, <2>1
  <2>3. \A i \in 1..Len(wire) : (wire \o taken)[i] = wire[i]
    BY <1>4, <2>1
  <2>4. \A i \in 1..Len(taken) : (wire \o taken)[Len(wire) + i] = taken[i]
    BY <1>4, <2>1
  <2> QED
    BY <2>2, <2>3, <2>4
<1>7. wire' = wire \o taken
  BY <1>1 DEF taken
<1>8. Len(wire') = Len(wire) + Len(sendBuf) /\ wire' \in Seq(Record)
  BY <1>4, <1>6, <1>7
<1>9. ASSUME NEW i \in 1..Len(wire')
      PROVE  wire'[i] = IF i <= Len(wire) THEN wire[i] ELSE Marked(sendBuf[i - Len(wire)], ok)
  <2>1. Len(wire) \in Nat
    BY DEF StreamTypes
  <2>2. CASE i <= Len(wire)
    BY <1>6, <1>7, <2>1, <2>2
  <2>3. CASE ~(i <= Len(wire))
    <3>1. i - Len(wire) \in 1..Len(sendBuf) /\ Len(wire) + (i - Len(wire)) = i
      BY <1>2, <1>8, <2>1, <2>3
    <3>2. wire'[Len(wire) + (i - Len(wire))] = taken[i - Len(wire)]
      BY <1>4, <1>6, <1>7, <3>1
    <3> QED
      BY <1>5, <2>3, <3>1, <3>2 DEF Marked
  <2> QED
    BY <2>2, <2>3
<1>10. Flushing(p, ok)
  BY <1>1, <1>8, <1>9 DEF Flushing, Flush, locks
<1> QED
  BY <1>10

\* A record on the wire after a flush was there before or comes from the buffer.
LEMMA FlushedRecord ==
    ASSUME NEW p \in Procs, NEW ok \in BOOLEAN, StreamTypes, Flushing(p, ok),
           NEW j \in 1..Len(wire')
    PROVE  \/ j \in 1..Len(wire) /\ wire'[j] = wire[j]
           \/ \E k \in 1..Len(sendBuf) :
                 /\ j = Len(wire) + k
                 /\ wire'[j] = Marked(sendBuf[k], ok)
                 /\ wire'[j].kind = sendBuf[k].kind
                 /\ wire'[j].epoch = sendBuf[k].epoch /\ wire'[j].seq = sendBuf[k].seq
                 /\ wire'[j].ok = ok
<1>1. Len(wire) \in Nat /\ Len(sendBuf) \in Nat /\ Len(wire') = Len(wire) + Len(sendBuf)
  BY DEF StreamTypes, Flushing
<1>2. CASE j <= Len(wire)
  BY <1>1, <1>2 DEF Flushing
<1>3. CASE ~(j <= Len(wire))
  <2> DEFINE k == j - Len(wire)
  <2>1. k \in 1..Len(sendBuf) /\ j = Len(wire) + k
    BY <1>1, <1>3
  <2>2. wire'[j] = Marked(sendBuf[k], ok)
    BY <1>3 DEF Flushing
  <2>3. sendBuf[k] \in Record
    BY <2>1 DEF StreamTypes
  <2> HIDE DEF k
  <2> QED
    BY <2>1, <2>2, <2>3, MarkedFields
<1> QED
  BY <1>2, <1>3

\* What a step of Net leaves behind, whatever the kind of the record.
NetDone(p, ok) ==
    /\ Handed(p, ok)
    /\ job[p] = "close_notify" => closeNotifySent' /\ expired'
    /\ job[p] # "close_notify" => UNCHANGED <<closeNotifySent, expired>>
    /\ job[p] \in Payload => outErr' = ~ok
    /\ job[p] = "keyupdate" => outErr' = (outErr \/ ~ok)
    /\ job[p] = "alert" => outErr'
    /\ job[p] \notin Payload \cup {"keyupdate", "alert"} => outErr' = outErr
    /\ pc'[p] \notin {"net", "flushed", "answer2"}
    /\ pc'[p] = "encrypt" => job[p] \in Payload /\ ok
    /\ Sending(p)' => job[p] \in Flight /\ pc[p] = "net"
    /\ pc'[p] = "flush" => job[p] = "finished"
    /\ \A q \in Procs \ {p} : pc'[q] = pc[q] /\ job'[q] = job[q]

\* The effect of Net without its cases.
LEMMA NetEffect ==
    ASSUME NEW p \in Procs, StepTypes, Net(p)
    PROVE  \E ok \in BOOLEAN : NetDone(p, ok)
<1> PICK ok \in BOOLEAN : Handed(p, ok) /\ Concluded(p, ok)
  BY NetCases
<1> USE DEF StepTypes, NetDone, Sending, Flight, None
<1>1. CASE job[p] \in HandshakeJobs /\ AfterHandshakeRecord(p, ok)
  <2>1. pc[p] = "net"
    BY DEF Handed
  <2> USE <1>1, <2>1 DEF AfterHandshakeRecord, Unlock, Goto, Payload
  <2>2. CASE ~ok
    BY <2>2 DEF HandshakeJobs
  <2>3. CASE ok /\ job[p] = "hello"
    BY <2>3
  <2>4. CASE ok /\ job[p] = "ccs"
    BY <2>4
  <2>5. CASE ok /\ job[p] = "finished"
    BY <2>5
  <2> QED
    BY <2>2, <2>3, <2>4, <2>5 DEF HandshakeJobs
<1>2. CASE job[p] \in Payload /\ AfterData(p, ok)
  BY <1>2 DEF AfterData, Return, Goto, Payload
<1>3. CASE job[p] = "keyupdate" /\ AfterKeyUpdate(p, ok)
  BY <1>3 DEF AfterKeyUpdate, Unlock, Goto, Payload
<1>4. CASE job[p] = "alert" /\ AfterAlert(p)
  BY <1>4 DEF AfterAlert, Unlock, Return, Goto, Payload
<1>5. CASE job[p] = "close_notify" /\ AfterCloseNotify(p, ok)
  BY <1>5 DEF AfterCloseNotify, Notified, Return, Goto, Payload
<1> QED
  BY <1>1, <1>2, <1>3, <1>4, <1>5 DEF Concluded

\* Sealing, by WriteRecord or NextRecord.
Sealing(p) ==
    /\ pc[p] \in {"out", "encrypt"} /\ Seal(p)
    /\ pc[p] = "out" => outMutex = None /\ ~Refused(p)

\* The outgoing half keeps its type.
LEMMA StreamTypesStep ==
    ASSUME StepTypes, FlagTypes, StreamTypes, [Next]_vars
    PROVE  StreamTypes'
<1>1. CASE Still
  BY <1>1 DEF Still, StreamTypes
<1>2. ASSUME NEW p \in Procs, Net(p) PROVE StreamTypes'
  <2> PICK ok \in BOOLEAN : NetDone(p, ok)
    BY <1>2, NetEffect
  <2>1. sendBuf' \in Seq(Record) /\ wire' \in Seq(Record)
    BY DeliverEffect DEF StreamTypes, NetDone, Handed, Appended
  <2>2. out' \in [epoch : Nat, seq : Nat]
    BY DEF NetDone, Handed, StreamTypes
  <2>3. rec' \in [Procs -> Record]
    BY DEF NetDone, Handed, StreamTypes, NoRecord, Record, Kinds
  <2> QED
    BY <2>1, <2>2, <2>3 DEF StreamTypes
<1>3. ASSUME NEW p \in Procs, Flush(p) PROVE StreamTypes'
  BY <1>3, FlushEffect DEF Flushing, StreamTypes
<1>4. ASSUME NEW p \in Procs, Flushed(p) PROVE StreamTypes'
  BY <1>4 DEF Flushed, StreamTypes
<1>5. ASSUME NEW p \in Procs, Sealing(p) PROVE StreamTypes'
  <2>1. job[p] \in Kinds
    BY <1>5 DEF Sealing, StepTypes
  <2>2. out' \in [epoch : Nat, seq : Nat] /\ UNCHANGED <<wire, sendBuf>>
    BY <1>5 DEF Sealing, Seal, StreamTypes
  <2>3. [kind |-> job[p], epoch |-> out.epoch, seq |-> out.seq, ok |-> TRUE] \in Record
    BY <2>1 DEF StreamTypes, Record
  <2> QED
    BY <1>5, <2>2, <2>3 DEF Sealing, Seal, StreamTypes
<1> QED
  BY <1>1, <1>2, <1>3, <1>4, <1>5, StillStep
     DEF Stirs, Sealing, WriteRecord, NextRecord

\* From its hello on a handshake meets no data being written.
LEMMA NoDataInsideStep ==
    ASSUME StepTypes, FlagTypes, HandshakeLock, OutLock, NoDataInside, [Next]_vars
    PROVE  NoDataInside'
<1> USE DEF locks, handshake, inside, outside, active, context, writerOnly, readerOnly, vars,
         StepTypes, HandshakeLock, InHandshake, Refusing, OutLock, NoDataInside, HoldsOut, Past,
         Flight, HandshakeJobs, Payload, None
<1>1. CASE UNCHANGED vars \/ Over
  BY <1>1 DEF Over
<1>2. ASSUME NEW p \in Procs, Read(p) PROVE NoDataInside'
  BY <1>2, ProcsAssumption DEF Read, Start, Goto
<1>3. ASSUME NEW p \in Procs, Write(p) PROVE NoDataInside'
  BY <1>3, ProcsAssumption DEF Write, Start, Goto
<1>4. ASSUME NEW p \in Procs, HandshakeContext(p) PROVE NoDataInside'
  BY <1>4, ProcsAssumption DEF HandshakeContext, Start, Goto
<1>5. ASSUME NEW p \in Procs, Close(p) PROVE NoDataInside'
  BY <1>5, ProcsAssumption DEF Close, Start, Goto
<1>6. ASSUME NEW p \in Procs, CloseWrite(p) PROVE NoDataInside'
  BY <1>6, ProcsAssumption DEF CloseWrite, Start, Goto
<1>7. ASSUME NEW p \in Procs, Cancel(p) PROVE NoDataInside'
  BY <1>7, ProcsAssumption DEF Cancel
<1>8. ASSUME NEW p \in Procs, CloseLoad(p) PROVE NoDataInside'
  BY <1>8, ProcsAssumption DEF CloseLoad, Send, Goto
<1>9. ASSUME NEW p \in Procs, CloseConn(p) PROVE NoDataInside'
  BY <1>9, ProcsAssumption DEF CloseConn, Return, Goto, Free
<1>10. ASSUME NEW p \in Procs, Fast(p) PROVE NoDataInside'
  <2>1. CASE complete
    BY <1>10, <2>1, ResumeCases DEF Fast, Resumed, Send, Goto, Return, Free, Payload
  <2>2. CASE ~complete
    BY <1>10, <2>2 DEF Fast, Goto
  <2> QED
    BY <2>1, <2>2
<1>11. ASSUME NEW p \in Procs, LockHandshake(p) PROVE NoDataInside'
  BY <1>11, ProcsAssumption DEF LockHandshake, Goto
<1>12. ASSUME NEW p \in Procs, LockIn(p) PROVE NoDataInside'
  BY <1>12, ProcsAssumption DEF LockIn, Goto
<1>13. ASSUME NEW p \in Procs, Build(p) PROVE NoDataInside'
  BY <1>13, ProcsAssumption DEF Build, Send, Goto
<1>14. ASSUME NEW p \in Procs, Flush(p) PROVE NoDataInside'
  BY <1>14, ProcsAssumption DEF Flush, Goto
<1>15. ASSUME NEW p \in Procs, Flushed(p) PROVE NoDataInside'
  BY <1>15, ProcsAssumption DEF Flushed, Goto
<1>16. ASSUME NEW p \in Procs, FlushAlert(p) PROVE NoDataInside'
  BY <1>16, ProcsAssumption DEF FlushAlert, Goto
<1>17. ASSUME NEW p \in Procs, End(p) PROVE NoDataInside'
  BY <1>17, ProcsAssumption DEF End, Return, Goto, Free
<1>18. ASSUME NEW p \in Procs, Interrupt(p) PROVE NoDataInside'
  BY <1>18, ProcsAssumption DEF Interrupt, Interrupted
<1>19. ASSUME NEW p \in Procs, StopInterrupter(p) PROVE NoDataInside'
  BY <1>19, ProcsAssumption DEF StopInterrupter
<1>20. ASSUME NEW p \in Procs, HandshakeReturns(p) PROVE NoDataInside'
  <2>1. CASE failed[p] \/ interrupter[p] = "closed"
    BY <1>20, <2>1 DEF HandshakeReturns, Return, Goto, Free
  <2>2. CASE ~(failed[p] \/ interrupter[p] = "closed")
    BY <1>20, <2>2, ResumeCases DEF HandshakeReturns, Resumed, Send, Goto, Return, Free, Payload
  <2> QED
    BY <2>1, <2>2
<1>21. ASSUME NEW p \in Procs, WriteRecord(p) PROVE NoDataInside'
  BY <1>21, ProcsAssumption DEF WriteRecord, Refused, Seal, MayNotWrite, Goto
<1>22. ASSUME NEW p \in Procs, WriteRefused(p) PROVE NoDataInside'
  BY <1>22, ProcsAssumption DEF WriteRefused, Refused, Notified, MayNotWrite, Goto, Free, Return
<1>23. ASSUME NEW p \in Procs, NextRecord(p) PROVE NoDataInside'
  BY <1>23, ProcsAssumption DEF NextRecord, Seal, Goto
<1>24. ASSUME NEW p \in Procs, LockRead(p) PROVE NoDataInside'
  BY <1>24, ProcsAssumption DEF LockRead, Goto
<1>25. ASSUME NEW p \in Procs, TakeInput(p) PROVE NoDataInside'
  BY <1>25, ProcsAssumption DEF TakeInput, Return, Goto, Stay, Free
<1>26. ASSUME NEW p \in Procs, PostDone(p) PROVE NoDataInside'
  BY <1>26, ProcsAssumption DEF PostDone, Goto
<1>27. ASSUME NEW p \in Procs, Oversized(p) PROVE NoDataInside'
  BY <1>27, ProcsAssumption DEF Oversized, Message, Goto
<1>28. ASSUME NEW p \in Procs, Message12(p) PROVE NoDataInside'
  BY <1>28, ProcsAssumption DEF Message12, Message, Goto, Send
<1>29. ASSUME NEW p \in Procs, Message13(p) PROVE NoDataInside'
  BY <1>29, ProcsAssumption DEF Message13, Message, Send, Goto
<1>30. ASSUME NEW p \in Procs, LockRenegotiate(p) PROVE NoDataInside'
  BY <1>30, ProcsAssumption DEF LockRenegotiate, Send, Goto
<1>31. ASSUME NEW p \in Procs, Net(p) PROVE NoDataInside'
  <2> PICK ok \in BOOLEAN : Handed(p, ok) /\ Concluded(p, ok)
    BY <1>31, NetCases
  <2>1. CASE job[p] \in HandshakeJobs /\ AfterHandshakeRecord(p, ok)
    BY <2>1 DEF Handed, AfterHandshakeRecord, Unlock, Goto, Free, HandshakeJobs
  <2>2. CASE job[p] \in Payload /\ AfterData(p, ok)
    BY <2>2 DEF Handed, AfterData, Return, Goto, Free, Payload
  <2>3. CASE job[p] = "keyupdate" /\ AfterKeyUpdate(p, ok)
    BY <2>3 DEF Handed, AfterKeyUpdate, Unlock, Goto, Free
  <2>4. CASE job[p] = "alert" /\ AfterAlert(p)
    BY <2>4 DEF Handed, AfterAlert, Unlock, Return, Goto, Free
  <2>5. CASE job[p] = "close_notify" /\ AfterCloseNotify(p, ok)
    BY <2>5 DEF Handed, AfterCloseNotify, Notified, Return, Goto, Free
  <2> QED
    BY <2>1, <2>2, <2>3, <2>4, <2>5 DEF Concluded
<1>32. ASSUME NEW p \in Procs, Answer(p) PROVE NoDataInside'
  <2>0. Answered(p)
    BY <1>32, AnswerCases
  <2>1. CASE pc[p] = "answer" /\ vers' = 13 /\ Send(p, "ccs")
    BY <2>0, <2>1 DEF Answered, Send, Goto
  <2>2. CASE pc[p] = "answer" /\ vers' = 12 /\ Goto(p, "flight") /\ UNCHANGED job
    BY <2>0, <2>2 DEF Answered, Goto
  <2>3. CASE pc[p] = "flight" /\ vers = 13 /\ Send(p, "finished")
    BY <2>0, <2>3 DEF Answered, Send, Goto
  <2>4. CASE pc[p] = "flight" /\ vers # 13 /\ Send(p, "ccs")
    BY <2>0, <2>4 DEF Answered, Send, Goto
  <2>5. CASE pc[p] = "answer2" /\ Goto(p, "end") /\ UNCHANGED job
    BY <2>0, <2>5 DEF Answered, Goto
  <2> QED
    BY <2>0, <2>1, <2>2, <2>3, <2>4, <2>5 DEF Answered
<1>33. ASSUME NEW p \in Procs, AnswerIgnored(p) PROVE NoDataInside'
  BY <1>33, ProcsAssumption DEF AnswerIgnored, Awaits, Fail, Send, Goto
<1>34. ASSUME NEW p \in Procs, AnswerRefused(p) PROVE NoDataInside'
  BY <1>34, ProcsAssumption DEF AnswerRefused, Awaits, Fail, Send, Goto
<1>35. ASSUME NEW p \in Procs, AnswerFails(p) PROVE NoDataInside'
  BY <1>35, ProcsAssumption DEF AnswerFails, Awaits, Fail, Goto
<1>36. ASSUME NEW p \in Procs, PeerData(p) PROVE NoDataInside'
  BY <1>36, ProcsAssumption DEF PeerData, FromPeer, Advance, Reading, Goto, Stay, Return, Free
<1>37. ASSUME NEW p \in Procs, PeerHandshake(p) PROVE NoDataInside'
  BY <1>37, ProcsAssumption DEF PeerHandshake, FromPeer, Advance, Reading, Goto, Stay, Return,
         Free
<1>38. ASSUME NEW p \in Procs, PeerUseless(p) PROVE NoDataInside'
  BY <1>38, ProcsAssumption DEF PeerUseless, FromPeer, Send, Goto, Stay, Reading
<1>39. ASSUME NEW p \in Procs, PeerRefused(p) PROVE NoDataInside'
  BY <1>39, ProcsAssumption DEF PeerRefused, FromPeer, Send, Reading, Goto
<1>40. ASSUME NEW p \in Procs, ReadFails(p) PROVE NoDataInside'
  BY <1>40, ProcsAssumption DEF ReadFails, Reading, Return, Goto, Free
<1>41. ASSUME NEW p \in Procs, ReadTimesOut(p) PROVE NoDataInside'
  BY <1>41, ProcsAssumption DEF ReadTimesOut, Reading, Return, Goto, Free
<1> QED
  BY <1>1, <1>2, <1>3, <1>4, <1>5, <1>6, <1>7, <1>8, <1>9, <1>10, <1>11, <1>12, <1>13,
         <1>14, <1>15, <1>16, <1>17, <1>18, <1>19, <1>20, <1>21, <1>22, <1>23, <1>24, <1>25,
         <1>26, <1>27, <1>28, <1>29, <1>30, <1>31, <1>32, <1>33, <1>34, <1>35, <1>36, <1>37,
         <1>38, <1>39, <1>40, <1>41
  DEF Next, Local, Peer, Call

\* Beside a handshake past its hello only a close_notify can be under way.
LEMMA Alone ==
    ASSUME InLock, HandshakeLock, OutLock, NoDataInside, StepTypes, ~unlocked, ~complete,
           NEW p \in Procs, NEW q \in Procs, p # q, Past(q), HoldsIn(q), pc[p] = "net"
    PROVE  job[p] = "close_notify"
  BY DEF InLock, HoldsIn, NoDataInside, HoldsOut, StepTypes, Kinds, HandshakeJobs, Payload

\* Both ways to write a record seal it.
LEMMA SealingStep ==
    ASSUME NEW p \in Procs, WriteRecord(p) \/ NextRecord(p)
    PROVE  Sealing(p)
  BY DEF Sealing, WriteRecord, NextRecord

\* Only the holder of out seals, and only it hands over.
LEMMA SealedStep ==
    ASSUME StepTypes, FlagTypes, StreamTypes, OutLock, Sealed, [Next]_vars
    PROVE  Sealed'
<1>1. CASE Still
  BY <1>1 DEF Still, Sealed, StepTypes
<1>2. ASSUME NEW p \in Procs, Net(p) PROVE Sealed'
  <2> PICK ok \in BOOLEAN : NetDone(p, ok)
    BY <1>2, NetEffect
  <2>1. ~unlocked => \A q \in Procs : pc'[q] # "net"
    BY DEF NetDone, Handed, OutLock, HoldsOut
  <2> QED
    BY <2>1 DEF NetDone, Handed, Sealed
<1>3. ASSUME NEW p \in Procs, Flush(p) PROVE Sealed'
  BY <1>3 DEF Flush, Goto, Sealed, StepTypes
<1>4. ASSUME NEW p \in Procs, Flushed(p) PROVE Sealed'
  BY <1>4 DEF Flushed, Goto, Sealed, StepTypes
<1>5. ASSUME NEW p \in Procs, Sealing(p) PROVE Sealed'
  <2>1. ~unlocked => \A q \in Procs \ {p} : pc[q] # "net"
    BY <1>5, ProcsAssumption DEF Sealing, OutLock, HoldsOut, None
  <2> QED
    BY <1>5, <2>1 DEF Sealing, Seal, Goto, Sealed, StepTypes, StreamTypes
<1> QED
  BY <1>1, <1>2, <1>3, <1>4, <1>5, StillStep, SealingStep DEF Stirs

\* Nothing that depends on the version is on the wire before it is known.
LEMMA NegotiatedStreamsStep ==
    ASSUME StepTypes, FlagTypes, StreamTypes, Buffer, NegotiatedSteps, NegotiatedStreams, Sealed, [Next]_vars
    PROVE  NegotiatedStreams'
<1> USE DEF NegotiatedStreams
<1>1. CASE Still
  BY <1>1 DEF Still, FlagTypes
<1>2. ASSUME NEW p \in Procs, Net(p) PROVE NegotiatedStreams'
  <2> PICK ok \in BOOLEAN : NetDone(p, ok)
    BY <1>2, NetEffect
  <2> SUFFICES ASSUME ~unlocked, vers = 0
               PROVE  NegotiatedStreams'
    BY DEF NetDone, Handed
  <2>1. rec[p].kind \notin Versioned
    BY DEF NetDone, Handed, NegotiatedSteps, Sealed
  <2>2. rec[p] \in Record /\ Marked(rec[p], ok).kind = rec[p].kind
    BY MarkedFields DEF StreamTypes
  <2>3. CASE Appended(sendBuf, sendBuf', rec[p]) /\ wire' = wire
    <3>1. \A i \in 1..Len(sendBuf') :
            sendBuf'[i] = rec[p] \/ (i \in 1..Len(sendBuf) /\ sendBuf'[i] = sendBuf[i])
      BY <2>3 DEF Appended, StreamTypes
    <3>2. \A i \in 1..Len(sendBuf') : sendBuf'[i].kind \notin Versioned
      BY <2>1, <3>1
    <3> QED
      BY <2>3, <3>2
  <2>4. CASE Appended(wire, wire', Marked(rec[p], ok)) /\ sendBuf' = sendBuf
    <3>1. \A i \in 1..Len(wire') :
            wire'[i] = Marked(rec[p], ok) \/ (i \in 1..Len(wire) /\ wire'[i] = wire[i])
      BY <2>4 DEF Appended, StreamTypes
    <3>2. \A i \in 1..Len(wire') : wire'[i].kind \notin Versioned
      BY <2>1, <2>2, <3>1
    <3> QED
      BY <2>4, <3>2
  <2> QED
    BY <2>3, <2>4, DeliverEffect DEF NetDone, Handed
<1>3. ASSUME NEW p \in Procs, Flush(p) PROVE NegotiatedStreams'
  <2> PICK ok \in BOOLEAN : Flushing(p, ok)
    BY <1>3, FlushEffect
  <2>1. ASSUME ~unlocked, vers = 0, NEW i \in 1..Len(wire')
        PROVE  wire'[i].kind \notin Versioned
    <3>1. CASE i \in 1..Len(wire) /\ wire'[i] = wire[i]
      BY <2>1, <3>1
    <3>2. ASSUME NEW k \in 1..Len(sendBuf), wire'[i].kind = sendBuf[k].kind
          PROVE  wire'[i].kind \notin Versioned
      BY <2>1, <3>2
    <3> QED
      BY <3>1, <3>2, FlushedRecord
  <2> QED
    BY <2>1 DEF Flushing
<1>4. ASSUME NEW p \in Procs, Flushed(p) PROVE NegotiatedStreams'
  BY <1>4 DEF Flushed
<1>5. ASSUME NEW p \in Procs, Sealing(p) PROVE NegotiatedStreams'
  BY <1>5 DEF Sealing, Seal, writerOnly, handshake
<1> QED
  BY <1>1, <1>2, <1>3, <1>4, <1>5, StillStep, SealingStep DEF Stirs

\* The version is set once, so that what a record that was sent means stays.
LEMMA FollowsStable ==
    ASSUME StreamTypes, FlagTypes, NegotiatedStreams, ~unlocked, vers # 0 => vers' = vers,
           UNCHANGED <<wire, sendBuf, out, rec>>
    PROVE  /\ \A i \in 1..Len(wire), j \in 1..Len(wire) :
                 Follows(wire[i], wire[j]) => Follows(wire[i], wire[j])'
           /\ \A i \in 1..Len(sendBuf), j \in 1..Len(sendBuf) :
                 Follows(sendBuf[i], sendBuf[j]) => Follows(sendBuf[i], sendBuf[j])'
           /\ \A i \in 1..Len(wire), j \in 1..Len(sendBuf) :
                 Follows(wire[i], sendBuf[j]) => Follows(wire[i], sendBuf[j])'
           /\ (sendBuf # <<>> \/ wire # <<>>) =>
                 /\ Follows(Latest, out) => Follows(Latest, out)'
                 /\ \A p \in Procs : Follows(Latest, rec[p]) => Follows(Latest, rec[p])'
<1>1. \A i \in 1..Len(wire) : Switches(wire[i].kind)' <=> Switches(wire[i].kind)
  BY DEF Switches, Versioned, NegotiatedStreams, FlagTypes
<1>2. \A i \in 1..Len(sendBuf) : Switches(sendBuf[i].kind)' <=> Switches(sendBuf[i].kind)
  BY DEF Switches, Versioned, NegotiatedStreams, FlagTypes
<1>3. (sendBuf # <<>> \/ wire # <<>>) => (Switches(Latest.kind)' <=> Switches(Latest.kind))
  BY <1>1, <1>2 DEF Latest, StreamTypes
<1>4. Latest' = Latest
  BY DEF Latest
<1> QED
  BY <1>1, <1>2, <1>3, <1>4 DEF Follows

\* The record p has sealed is the only one under way, and follows the latest.
LEMMA OnlyWriter ==
    ASSUME OutLock, ~unlocked, NEW p \in Procs, pc[p] = "net"
    PROVE  \A q \in Procs \ {p} : pc[q] # "net"
  BY DEF OutLock, HoldsOut

\* Who seals finds no other record under way.
LEMMA SealedAlone ==
    ASSUME OutLock, ~unlocked, NEW p \in Procs, Sealing(p)
    PROVE  \A q \in Procs : pc[q] # "net"
  BY ProcsAssumption DEF Sealing, OutLock, HoldsOut, None

\* Sealing, handing over and flushing keep the latest record and out in step.
LEMMA LinkStep ==
    ASSUME StepTypes, FlagTypes, StreamTypes, OutLock, NegotiatedStreams, Buffer, Sealed, Joint, Link,
           [Next]_vars
    PROVE  Link'
<1> SUFFICES ASSUME ~unlocked', ~expired', (sendBuf # <<>> \/ wire # <<>>)', Latest.ok'
             PROVE  /\ (\A p \in Procs : pc'[p] # "net") => Follows(Latest, out)'
                    /\ \A p \in Procs : pc'[p] = "net" => Follows(Latest, rec[p])'
  BY DEF Link
<1>0. Len(wire) \in Nat /\ Len(sendBuf) \in Nat
  BY DEF StreamTypes
<1>1. CASE Still
  <2>1. ~unlocked /\ ~expired /\ (sendBuf # <<>> \/ wire # <<>>) /\ Latest.ok /\ Latest' = Latest
    BY <1>1 DEF Still, Latest
  <2> QED
    BY <1>1, <2>1, FollowsStable DEF Still, Link
<1>2. ASSUME NEW p \in Procs, Net(p)
      PROVE  /\ (\A q \in Procs : pc'[q] # "net") => Follows(Latest, out)'
             /\ \A q \in Procs : pc'[q] = "net" => Follows(Latest, rec[q])'
  <2> PICK ok \in BOOLEAN : NetDone(p, ok)
    BY <1>2, NetEffect
  <2>1. ~unlocked /\ vers' = vers /\ pc[p] = "net"
    BY DEF NetDone, Handed
  <2>2. \A q \in Procs : pc'[q] # "net"
    BY <2>1, OnlyWriter DEF NetDone
  <2>3. rec[p] \in Record /\ rec[p].kind = job[p]
    BY <2>1 DEF StreamTypes, Sealed
  <2>4. /\ Latest'.kind = rec[p].kind /\ Latest'.epoch = rec[p].epoch
        /\ Latest'.seq = rec[p].seq /\ ok
    <3>1. CASE ok /\ Appended(sendBuf, sendBuf', rec[p])
      <4>1. sendBuf' # <<>> /\ sendBuf'[Len(sendBuf')] = rec[p]
        BY <1>0, <3>1 DEF Appended
      <4> QED
        BY <3>1, <4>1 DEF Latest
    <3>2. CASE ~buffering /\ sendBuf' = sendBuf /\ Appended(wire, wire', Marked(rec[p], ok))
      <4>1. sendBuf' = <<>> /\ wire'[Len(wire')] = Marked(rec[p], ok)
        BY <1>0, <3>2 DEF Appended, Buffer
      <4>2. Latest' = Marked(rec[p], ok)
        BY <4>1 DEF Latest
      <4> QED
        BY <2>3, <4>2, MarkedFields
    <3> QED
      BY <3>1, <3>2, DeliverEffect DEF NetDone, Handed
  <2>5. out.epoch = rec[p].epoch /\ out.seq = rec[p].seq + 1
    BY <2>1 DEF Sealed
  <2>6. out' = IF Switches(job[p]) THEN [epoch |-> out.epoch + 1, seq |-> 0] ELSE out
    BY <2>4 DEF NetDone, Handed
  <2>7. Follows(Latest, out)'
    BY <2>1, <2>3, <2>4, <2>5, <2>6 DEF Follows, Switches
  <2> QED
    BY <2>2, <2>7
<1>3. ASSUME NEW p \in Procs, Flush(p)
      PROVE  /\ (\A q \in Procs : pc'[q] # "net") => Follows(Latest, out)'
             /\ \A q \in Procs : pc'[q] = "net" => Follows(Latest, rec[q])'
  <2> PICK ok \in BOOLEAN : Flushing(p, ok)
    BY <1>3, FlushEffect
  <2>1. Latest' = Latest /\ (sendBuf # <<>> \/ wire # <<>>)
    <3>1. CASE sendBuf # <<>>
      BY <3>1 DEF Latest, Flushing
    <3>2. CASE sendBuf = <<>>
      BY <1>0, <3>2 DEF Latest, Flushing
    <3> QED
      BY <3>1, <3>2
  <2>2. /\ (\A q \in Procs : pc[q] # "net") => Follows(Latest, out)
        /\ \A q \in Procs : pc[q] = "net" => Follows(Latest, rec[q])
    BY <2>1 DEF Link, Flushing
  <2>3. \A q \in Procs : pc'[q] = "net" <=> pc[q] = "net"
    BY DEF Flushing, Goto, StepTypes
  <2> QED
    BY <2>1, <2>2, <2>3 DEF Flushing, Follows, Switches
<1>4. ASSUME NEW p \in Procs, Flushed(p)
      PROVE  /\ (\A q \in Procs : pc'[q] # "net") => Follows(Latest, out)'
             /\ \A q \in Procs : pc'[q] = "net" => Follows(Latest, rec[q])'
  <2>1. Latest' = Latest /\ (sendBuf # <<>> \/ wire # <<>>)
    <3>1. wire # <<>> /\ Latest' = wire[Len(wire)] /\ wire[Len(wire)].ok
      BY <1>4 DEF Latest, Flushed
    <3>2. sendBuf # <<>> => wire[Len(wire)] = sendBuf[Len(sendBuf)]
      BY <1>4, <3>1 DEF Joint, Flushed
    <3> QED
      BY <3>1, <3>2 DEF Latest
  <2>2. /\ (\A q \in Procs : pc[q] # "net") => Follows(Latest, out)
        /\ \A q \in Procs : pc[q] = "net" => Follows(Latest, rec[q])
    BY <1>4, <2>1 DEF Link, Flushed
  <2>3. \A q \in Procs : pc'[q] = "net" <=> pc[q] = "net"
    BY <1>4 DEF Flushed, Goto, StepTypes
  <2> QED
    BY <1>4, <2>1, <2>2, <2>3 DEF Flushed, Follows, Switches
<1>5. ASSUME NEW p \in Procs, Sealing(p)
      PROVE  /\ (\A q \in Procs : pc'[q] # "net") => Follows(Latest, out)'
             /\ \A q \in Procs : pc'[q] = "net" => Follows(Latest, rec[q])'
  <2> USE DEF Sealing, Seal, writerOnly, handshake
  <2>1. ~unlocked /\ ~expired /\ Latest' = Latest /\ (sendBuf # <<>> \/ wire # <<>>)
    BY <1>5 DEF Latest
  <2>2. Follows(Latest, out)
    BY <2>1, <1>5, SealedAlone DEF Link
  <2>3. rec'[p].epoch = out.epoch /\ rec'[p].seq = out.seq
    BY <1>5 DEF StreamTypes
  <2>4. Follows(Latest, rec[p])'
    BY <1>5, <2>1, <2>2, <2>3 DEF Follows, Switches
  <2>5. \A q \in Procs : pc'[q] = "net" <=> q = p
    BY <1>5, <2>1, SealedAlone DEF Goto, StepTypes
  <2> QED
    BY <2>4, <2>5
<1> QED
  BY <1>1, <1>2, <1>3, <1>4, <1>5, StillStep, SealingStep DEF Stirs

\* What is buffered follows the end of the buffer.
LEMMA BufferChainStep ==
    ASSUME StepTypes, FlagTypes, StreamTypes, OutLock, NegotiatedStreams, Sealed, Link, BufferChain,
           [Next]_vars
    PROVE  BufferChain'
<1>0. Len(sendBuf) \in Nat
  BY DEF StreamTypes
<1>1. CASE Still
  BY <1>1, FollowsStable DEF Still, BufferChain
<1>2. ASSUME NEW p \in Procs, Net(p) PROVE BufferChain'
  <2> PICK ok \in BOOLEAN : NetDone(p, ok)
    BY <1>2, NetEffect
  <2> SUFFICES ASSUME ~unlocked
               PROVE  BufferChain'
    BY DEF NetDone, Handed, BufferChain
  <2>1. vers' = vers /\ unlocked' = unlocked /\ pc[p] = "net" /\ rec[p].ok
    BY DEF NetDone, Handed, Sealed
  <2>2. CASE sendBuf' = sendBuf
    BY <2>1, <2>2 DEF BufferChain, Follows, Switches, NetDone
  <2>3. CASE Appended(sendBuf, sendBuf', rec[p])
    <3>1. \A i \in 1..Len(sendBuf') : sendBuf'[i].ok
      BY <1>0, <2>1, <2>3 DEF Appended, BufferChain
    <3>2. ASSUME ~expired', NEW j \in 2..Len(sendBuf')
          PROVE  Follows(sendBuf'[j - 1], sendBuf'[j])
      <4>1. ~expired
        BY <3>2 DEF NetDone
      <4>2. CASE j <= Len(sendBuf)
        <5>1. /\ j \in 2..Len(sendBuf)
              /\ sendBuf'[j] = sendBuf[j] /\ sendBuf'[j - 1] = sendBuf[j - 1]
          BY <1>0, <2>3, <4>2 DEF Appended
        <5> QED
          BY <4>1, <5>1 DEF BufferChain
      <4>3. CASE ~(j <= Len(sendBuf))
        <5>1. /\ j = Len(sendBuf) + 1 /\ sendBuf # <<>>
              /\ sendBuf'[j] = rec[p] /\ sendBuf'[j - 1] = sendBuf[Len(sendBuf)]
          BY <1>0, <2>3, <4>3 DEF Appended
        <5>2. Latest = sendBuf[Len(sendBuf)] /\ Latest.ok
          BY <1>0, <5>1 DEF Latest, BufferChain
        <5> QED
          BY <2>1, <4>1, <5>1, <5>2 DEF Link
      <4> QED
        BY <4>2, <4>3
    <3> QED
      BY <2>1, <3>1, <3>2 DEF BufferChain, Follows, Switches
  <2> QED
    BY <2>2, <2>3, DeliverEffect DEF NetDone, Handed
<1>3. ASSUME NEW p \in Procs, Flush(p) PROVE BufferChain'
  BY <1>3 DEF Flush, BufferChain, Follows, Switches
<1>4. ASSUME NEW p \in Procs, Flushed(p) PROVE BufferChain'
  BY <1>4 DEF Flushed, BufferChain
<1>5. ASSUME NEW p \in Procs, Sealing(p) PROVE BufferChain'
  BY <1>5 DEF Sealing, Seal, writerOnly, handshake, BufferChain, Follows, Switches
<1> QED
  BY <1>1, <1>2, <1>3, <1>4, <1>5, StillStep, SealingStep DEF Stirs

\* Nothing but a close_notify is handed over while a handshake flushes.
LEMMA FlushingAlone ==
    ASSUME StepTypes, HandshakeLock, InLock, OutLock, NoDataInside, ~unlocked,
           NEW p \in Procs, NEW q \in Procs, pc[p] = "net", pc[q] = "flushed"
    PROVE  job[p] = "close_notify"
<1>1. p # q /\ Past(q) /\ HoldsIn(q) /\ InHandshake(q)
  BY DEF Past, HoldsIn, InHandshake
<1>2. ~complete
  BY <1>1 DEF HandshakeLock
<1> QED
  BY <1>1, <1>2, Alone

\* The buffer follows the wire, and is its end once flushed.
LEMMA JointStep ==
    ASSUME StepTypes, FlagTypes, StreamTypes, HandshakeLock, InLock, OutLock, NoDataInside,
           NegotiatedStreams, Buffer, Sealed, Link, BufferChain, Joint, [Next]_vars
    PROVE  Joint'
<1> SUFFICES ASSUME ~unlocked', ~expired', sendBuf' # <<>>, wire' # <<>>, wire'[Len(wire')].ok
             PROVE  /\ (\A p \in Procs : pc'[p] # "flushed") => Follows(wire[Len(wire)], sendBuf[1])'
                    /\ (\E p \in Procs : pc'[p] = "flushed") =>
                           wire'[Len(wire')] = sendBuf'[Len(sendBuf')]
  BY DEF Joint
<1> DEFINE Goal == /\ (\A p \in Procs : pc'[p] # "flushed") => Follows(wire[Len(wire)], sendBuf[1])'
                   /\ (\E p \in Procs : pc'[p] = "flushed") =>
                           wire'[Len(wire')] = sendBuf'[Len(sendBuf')]
<1>0. Len(wire) \in Nat /\ Len(sendBuf) \in Nat
  BY DEF StreamTypes
<1>1. CASE Still
  <2>1. (sendBuf # <<>> => 1 \in 1..Len(sendBuf)) /\ (wire # <<>> => Len(wire) \in 1..Len(wire))
    BY <1>0 DEF StreamTypes
  <2> QED
    BY <1>1, <2>1, FollowsStable DEF Still, Joint
<1>2. ASSUME NEW p \in Procs, Net(p) PROVE Goal
  <2> PICK ok \in BOOLEAN : NetDone(p, ok)
    BY <1>2, NetEffect
  <2>1. ~unlocked /\ ~expired /\ vers' = vers /\ pc[p] = "net" /\ job[p] # "close_notify"
    BY DEF NetDone, Handed
  <2>2. \A q \in Procs : pc[q] # "flushed" /\ pc'[q] # "flushed"
    BY <2>1, FlushingAlone DEF NetDone
  <2>3. Appended(sendBuf, sendBuf', rec[p]) /\ wire' = wire
    BY DeliverEffect DEF NetDone, Handed, Buffer
  <2>4. CASE sendBuf = <<>>
    <3>1. Latest = wire[Len(wire)] /\ sendBuf'[1] = rec[p]
      BY <1>0, <2>3, <2>4 DEF Latest, Appended
    <3>2. Follows(wire[Len(wire)], rec[p])
      BY <2>1, <2>3, <3>1 DEF Link
    <3> QED
      BY <2>1, <2>2, <2>3, <3>1, <3>2 DEF Follows, Switches
  <2>5. CASE sendBuf # <<>>
    <3>1. sendBuf'[1] = sendBuf[1]
      BY <1>0, <2>3, <2>5 DEF Appended, StreamTypes
    <3>2. Follows(wire[Len(wire)], sendBuf[1])
      BY <2>1, <2>2, <2>3, <2>5 DEF Joint
    <3> QED
      BY <2>1, <2>2, <2>3, <3>1, <3>2 DEF Follows, Switches
  <2> QED
    BY <2>4, <2>5
<1>3. ASSUME NEW p \in Procs, Flush(p) PROVE Goal
  <2> PICK ok \in BOOLEAN : Flushing(p, ok)
    BY <1>3, FlushEffect
  <2>1. pc'[p] = "flushed" /\ ~unlocked
    BY DEF Flushing, Goto, StepTypes
  <2>2. Len(wire') \in 1..Len(wire') /\ Len(wire') = Len(wire) + Len(sendBuf) /\ Len(sendBuf) > 0
    BY <1>0 DEF Flushing, StreamTypes
  <2>3. ok /\ wire'[Len(wire')] = Marked(sendBuf[Len(sendBuf)], ok)
    BY <1>0, <2>2, FlushedRecord
  <2>4. sendBuf[Len(sendBuf)] \in Record /\ sendBuf[Len(sendBuf)].ok
    BY <1>0, <2>1, <2>2 DEF StreamTypes, BufferChain
  <2> QED
    BY <2>1, <2>3, <2>4, MarkedFields DEF Flushing
<1>4. ASSUME NEW p \in Procs, Flushed(p) PROVE Goal
  BY <1>4 DEF Flushed
<1>5. ASSUME NEW p \in Procs, Sealing(p) PROVE Goal
  <2>1. \A q \in Procs : pc'[q] = "flushed" <=> pc[q] = "flushed"
    BY <1>5 DEF Sealing, Seal, Goto, StepTypes
  <2> QED
    BY <1>5, <2>1 DEF Sealing, Seal, writerOnly, handshake, Joint, Follows, Switches
<1> QED
  BY <1>1, <1>2, <1>3, <1>4, <1>5, StillStep, SealingStep DEF Stirs

\* What reaches the wire follows its end.
LEMMA WireChainStep ==
    ASSUME StepTypes, FlagTypes, StreamTypes, HandshakeLock, OutLock, NegotiatedStreams, Buffer,
           Sealed, Link, BufferChain, Joint, WireChain, [Next]_vars
    PROVE  WireChain'
<1>0. Len(wire) \in Nat /\ Len(sendBuf) \in Nat
  BY DEF StreamTypes
<1>1. CASE Still
  <2>1. \A j \in 2..Len(wire) : j \in 1..Len(wire) /\ j - 1 \in 1..Len(wire)
    BY <1>0
  <2> QED
    BY <1>1, <2>1, FollowsStable DEF Still, WireChain
<1>2. ASSUME NEW p \in Procs, Net(p) PROVE WireChain'
  <2> PICK ok \in BOOLEAN : NetDone(p, ok)
    BY <1>2, NetEffect
  <2> SUFFICES ASSUME ~unlocked
               PROVE  WireChain'
    BY DEF NetDone, Handed, WireChain
  <2>1. vers' = vers /\ unlocked' = unlocked /\ pc[p] = "net" /\ rec[p] \in Record
    BY DEF NetDone, Handed, StreamTypes
  <2>2. CASE wire' = wire
    BY <2>1, <2>2 DEF WireChain, Follows, Switches
  <2>3. CASE /\ ~buffering /\ (ok => ~expired)
             /\ Appended(wire, wire', Marked(rec[p], ok))
    <3>1. ASSUME NEW j \in 2..Len(wire'), wire'[j - 1].ok, wire'[j].ok
          PROVE  Follows(wire'[j - 1], wire'[j])
      <4>1. CASE j <= Len(wire)
        <5>1. j \in 2..Len(wire) /\ wire'[j] = wire[j] /\ wire'[j - 1] = wire[j - 1]
          BY <1>0, <2>3, <4>1 DEF Appended
        <5> QED
          BY <3>1, <5>1 DEF WireChain
      <4>2. CASE ~(j <= Len(wire))
        <5>1. /\ j = Len(wire) + 1 /\ wire # <<>>
              /\ wire'[j] = Marked(rec[p], ok) /\ wire'[j - 1] = wire[Len(wire)]
          BY <1>0, <2>3, <4>2 DEF Appended
        <5>2. ok /\ wire'[j].epoch = rec[p].epoch /\ wire'[j].seq = rec[p].seq
          BY <2>1, <3>1, <5>1, MarkedFields
        <5>3. Latest = wire[Len(wire)] /\ Latest.ok
          BY <2>3, <3>1, <5>1 DEF Latest, Buffer
        <5>4. Follows(wire[Len(wire)], rec[p])
          BY <2>1, <2>3, <5>1, <5>2, <5>3 DEF Link
        <5> QED
          BY <5>1, <5>2, <5>4 DEF Follows
      <4> QED
        BY <4>1, <4>2
    <3> QED
      BY <2>1, <3>1 DEF WireChain, Follows, Switches
  <2> QED
    BY <2>2, <2>3, DeliverEffect DEF NetDone, Handed
<1>3. ASSUME NEW p \in Procs, Flush(p) PROVE WireChain'
  <2> PICK ok \in BOOLEAN : Flushing(p, ok)
    BY <1>3, FlushEffect
  <2> SUFFICES ASSUME ~unlocked
               PROVE  WireChain'
    BY DEF Flushing, WireChain
  <2>1. \A q \in Procs : pc[q] # "flushed"
    BY DEF Flushing, HandshakeLock, InHandshake
  <2>2. ASSUME NEW j \in 2..Len(wire'), wire'[j - 1].ok, wire'[j].ok
        PROVE  Follows(wire'[j - 1], wire'[j])
    <3>1. j \in 1..Len(wire') /\ j - 1 \in 1..Len(wire')
      BY <1>0 DEF Flushing
    <3>2. CASE j \in 1..Len(wire) /\ wire'[j] = wire[j]
      <4>1. wire'[j - 1] = wire[j - 1] /\ j \in 2..Len(wire)
        BY <1>0, <3>1, <3>2, FlushedRecord
      <4> QED
        BY <2>2, <3>2, <4>1 DEF WireChain
    <3>3. ASSUME NEW k \in 1..Len(sendBuf), j = Len(wire) + k,
                 wire'[j].epoch = sendBuf[k].epoch, wire'[j].seq = sendBuf[k].seq, wire'[j].ok = ok
          PROVE  Follows(wire'[j - 1], wire'[j])
      <4>1. ok /\ ~expired
        BY <2>2, <3>3 DEF Flushing
      <4>2. CASE k = 1
        <5>1. wire'[j - 1] = wire[Len(wire)] /\ wire # <<>> /\ sendBuf # <<>>
          BY <1>0, <3>1, <3>3, <4>2, FlushedRecord
        <5>2. Follows(wire[Len(wire)], sendBuf[1])
          BY <2>1, <2>2, <4>1, <5>1 DEF Joint
        <5> QED
          BY <3>3, <4>2, <5>1, <5>2 DEF Follows
      <4>3. CASE k # 1
        <5>1. k \in 2..Len(sendBuf) /\ k - 1 \in 1..Len(sendBuf) /\ j - 1 = Len(wire) + (k - 1)
          BY <1>0, <3>3, <4>3
        <5>2. /\ wire'[j - 1].kind = sendBuf[k - 1].kind
              /\ wire'[j - 1].epoch = sendBuf[k - 1].epoch
              /\ wire'[j - 1].seq = sendBuf[k - 1].seq
          <6>1. PICK m \in 1..Len(sendBuf) :
                   /\ j - 1 = Len(wire) + m
                   /\ wire'[j - 1].kind = sendBuf[m].kind
                   /\ wire'[j - 1].epoch = sendBuf[m].epoch /\ wire'[j - 1].seq = sendBuf[m].seq
            <7>1. j - 1 \notin 1..Len(wire)
              BY <1>0, <5>1
            <7> QED
              BY <3>1, <7>1, FlushedRecord
          <6>2. m = k - 1
            BY <1>0, <5>1, <6>1
          <6> QED
            BY <6>1, <6>2
        <5>3. Follows(sendBuf[k - 1], sendBuf[k])
          BY <4>1, <5>1 DEF BufferChain
        <5> QED
          BY <3>3, <5>2, <5>3 DEF Follows
      <4> QED
        BY <4>2, <4>3
    <3> QED
      BY <3>1, <3>2, <3>3, FlushedRecord
  <2> QED
    BY <2>2 DEF Flushing, WireChain, Follows, Switches
<1>4. ASSUME NEW p \in Procs, Flushed(p) PROVE WireChain'
  BY <1>4 DEF Flushed, WireChain, Follows, Switches
<1>5. ASSUME NEW p \in Procs, Sealing(p) PROVE WireChain'
  BY <1>5 DEF Sealing, Seal, writerOnly, handshake, WireChain, Follows, Switches
<1> QED
  BY <1>1, <1>2, <1>3, <1>4, <1>5, StillStep, SealingStep DEF Stirs

\* Every close_notify is remembered.
LEMMA NoticeStep ==
    ASSUME StepTypes, FlagTypes, StreamTypes, Sealed, Notice, [Next]_vars
    PROVE  Notice'
<1> USE DEF Notice
<1>1. CASE Still
  BY <1>1 DEF Still
<1>2. ASSUME NEW p \in Procs, Net(p) PROVE Notice'
  <2> PICK ok \in BOOLEAN : NetDone(p, ok)
    BY <1>2, NetEffect
  <2> SUFFICES ASSUME ~unlocked, ~closeNotifySent, job[p] # "close_notify"
               PROVE  Notice'
    BY DEF NetDone, Handed
  <2>1. rec[p].kind # "close_notify"
    BY DEF NetDone, Handed, Sealed
  <2>2. rec[p] \in Record /\ Marked(rec[p], ok).kind = rec[p].kind
    BY MarkedFields DEF StreamTypes
  <2>3. CASE Appended(sendBuf, sendBuf', rec[p]) /\ wire' = wire
    <3>1. \A i \in 1..Len(sendBuf') :
            sendBuf'[i] = rec[p] \/ (i \in 1..Len(sendBuf) /\ sendBuf'[i] = sendBuf[i])
      BY <2>3 DEF Appended, StreamTypes
    <3>2. \A i \in 1..Len(sendBuf') : sendBuf'[i].kind # "close_notify"
      BY <2>1, <3>1
    <3> QED
      BY <2>3, <3>2
  <2>4. CASE Appended(wire, wire', Marked(rec[p], ok)) /\ sendBuf' = sendBuf
    <3>1. \A i \in 1..Len(wire') :
            wire'[i] = Marked(rec[p], ok) \/ (i \in 1..Len(wire) /\ wire'[i] = wire[i])
      BY <2>4 DEF Appended, StreamTypes
    <3>2. \A i \in 1..Len(wire') : wire'[i].kind # "close_notify"
      BY <2>1, <2>2, <3>1
    <3> QED
      BY <2>4, <3>2
  <2> QED
    BY <2>3, <2>4, DeliverEffect DEF NetDone, Handed
<1>3. ASSUME NEW p \in Procs, Flush(p) PROVE Notice'
  <2> PICK ok \in BOOLEAN : Flushing(p, ok)
    BY <1>3, FlushEffect
  <2>1. ASSUME ~unlocked, ~closeNotifySent, NEW i \in 1..Len(wire')
        PROVE  wire'[i].kind # "close_notify"
    <3>1. CASE i \in 1..Len(wire) /\ wire'[i] = wire[i]
      BY <2>1, <3>1
    <3>2. ASSUME NEW k \in 1..Len(sendBuf), wire'[i].kind = sendBuf[k].kind
          PROVE  wire'[i].kind # "close_notify"
      BY <2>1, <3>2
    <3> QED
      BY <3>1, <3>2, FlushedRecord
  <2> QED
    BY <2>1 DEF Flushing
<1>4. ASSUME NEW p \in Procs, Flushed(p) PROVE Notice'
  BY <1>4 DEF Flushed
<1>5. ASSUME NEW p \in Procs, Sealing(p) PROVE Notice'
  BY <1>5 DEF Sealing, Seal
<1> QED
  BY <1>1, <1>2, <1>3, <1>4, <1>5, StillStep, SealingStep DEF Stirs
\* What stays intact when a record is handed over, or the buffer flushed.
LEMMA IntactAppended ==
    ASSUME NEW s \in Seq(Record), NEW t, NEW r \in Record, Intact(s), Appended(s, t, r),
           r.ok, r.kind # "alert"
    PROVE  Intact(t)
  BY DEF Intact, Appended

\* The record appended is the last.
LEMMA LastAppended ==
    ASSUME NEW s \in Seq(Record), NEW t, NEW r, Appended(s, t, r)
    PROVE  t # <<>> /\ t[Len(t)] = r
  BY DEF Appended

\* A flush the network took keeps the wire intact.
LEMMA IntactFlushed ==
    ASSUME NEW p \in Procs, NEW ok \in BOOLEAN, StreamTypes, Flushing(p, ok), ok,
           Intact(wire), Intact(sendBuf)
    PROVE  Intact(wire')
<1>1. ASSUME NEW i \in 1..Len(wire')
      PROVE  wire'[i].ok /\ wire'[i].kind # "alert"
  <2>1. CASE i \in 1..Len(wire) /\ wire'[i] = wire[i]
    BY <2>1 DEF Intact
  <2>2. ASSUME NEW k \in 1..Len(sendBuf), wire'[i].kind = sendBuf[k].kind, wire'[i].ok = ok
        PROVE  wire'[i].ok /\ wire'[i].kind # "alert"
    BY <2>2 DEF Intact
  <2> QED
    BY <2>1, <2>2, FlushedRecord
<1> QED
  BY <1>1 DEF Intact

\* After a flush the wire ends like the buffer.
LEMMA LastFlushed ==
    ASSUME NEW p \in Procs, NEW ok \in BOOLEAN, StreamTypes, Flushing(p, ok), EndsFinished(sendBuf)
    PROVE  EndsFinished(wire')
<1>1. Len(wire) \in Nat /\ Len(sendBuf) \in Nat /\ Len(sendBuf) > 0
  BY DEF StreamTypes, EndsFinished
<1>2. Len(wire') \in 1..Len(wire') /\ Len(wire') \notin 1..Len(wire) /\ wire' # <<>>
  BY <1>1 DEF Flushing
<1>3. PICK k \in 1..Len(sendBuf) : Len(wire') = Len(wire) + k /\ wire'[Len(wire')].kind = sendBuf[k].kind
  BY <1>2, FlushedRecord
<1>4. k = Len(sendBuf)
  BY <1>1, <1>3 DEF Flushing
<1> QED
  BY <1>2, <1>3, <1>4 DEF EndsFinished

\* Every other step, answers aside, starts no data and no stage of a handshake.
LEMMA CalmStep ==
    ASSUME StepTypes, FlagTypes, [Next]_vars
    PROVE  Calm \/ \E q \in Procs : Stirs(q) \/ Answer(q)
<1> USE DEF locks, handshake, inside, outside, active, context, writerOnly, readerOnly, vars,
         StepTypes, FlagTypes, Calm, HoldsOut, Sending, Flight, None
<1>1. CASE UNCHANGED vars \/ Over
  BY <1>1 DEF Over
<1>2. ASSUME NEW p \in Procs, Read(p) PROVE Calm \/ \E q \in Procs : Stirs(q) \/ Answer(q)
  BY <1>2 DEF Read, Start, Goto
<1>3. ASSUME NEW p \in Procs, Write(p) PROVE Calm \/ \E q \in Procs : Stirs(q) \/ Answer(q)
  BY <1>3 DEF Write, Start, Goto
<1>4. ASSUME NEW p \in Procs, HandshakeContext(p) PROVE Calm \/ \E q \in Procs : Stirs(q) \/ Answer(q)
  BY <1>4 DEF HandshakeContext, Start, Goto
<1>5. ASSUME NEW p \in Procs, Close(p) PROVE Calm \/ \E q \in Procs : Stirs(q) \/ Answer(q)
  BY <1>5 DEF Close, Start, Goto
<1>6. ASSUME NEW p \in Procs, CloseWrite(p) PROVE Calm \/ \E q \in Procs : Stirs(q) \/ Answer(q)
  BY <1>6 DEF CloseWrite, Start, Goto
<1>7. ASSUME NEW p \in Procs, Cancel(p) PROVE Calm \/ \E q \in Procs : Stirs(q) \/ Answer(q)
  BY <1>7 DEF Cancel
<1>8. ASSUME NEW p \in Procs, CloseLoad(p) PROVE Calm \/ \E q \in Procs : Stirs(q) \/ Answer(q)
  BY <1>8 DEF CloseLoad, Send, Goto
<1>9. ASSUME NEW p \in Procs, CloseConn(p) PROVE Calm \/ \E q \in Procs : Stirs(q) \/ Answer(q)
  BY <1>9 DEF CloseConn, Return, Goto, Free
<1>10. ASSUME NEW p \in Procs, Fast(p) PROVE Calm \/ \E q \in Procs : Stirs(q) \/ Answer(q)
  <2>1. CASE complete
    BY <1>10, <2>1, ResumeCases DEF Fast, Resumed, Send, Goto, Return, Free, Payload
  <2>2. CASE ~complete
    BY <1>10, <2>2 DEF Fast, Goto
  <2> QED
    BY <2>1, <2>2
<1>11. ASSUME NEW p \in Procs, LockHandshake(p) PROVE Calm \/ \E q \in Procs : Stirs(q) \/ Answer(q)
  BY <1>11 DEF LockHandshake, Goto
<1>12. ASSUME NEW p \in Procs, LockIn(p) PROVE Calm \/ \E q \in Procs : Stirs(q) \/ Answer(q)
  BY <1>12 DEF LockIn, Goto
<1>13. ASSUME NEW p \in Procs, Build(p) PROVE Calm \/ \E q \in Procs : Stirs(q) \/ Answer(q)
  BY <1>13 DEF Build, Send, Goto
<1>14. ASSUME NEW p \in Procs, Flush(p) PROVE Calm \/ \E q \in Procs : Stirs(q) \/ Answer(q)
  BY <1>14 DEF Stirs
<1>15. ASSUME NEW p \in Procs, Flushed(p) PROVE Calm \/ \E q \in Procs : Stirs(q) \/ Answer(q)
  BY <1>15 DEF Stirs
<1>16. ASSUME NEW p \in Procs, FlushAlert(p) PROVE Calm \/ \E q \in Procs : Stirs(q) \/ Answer(q)
  BY <1>16 DEF FlushAlert, Goto
<1>17. ASSUME NEW p \in Procs, End(p) PROVE Calm \/ \E q \in Procs : Stirs(q) \/ Answer(q)
  BY <1>17 DEF End, Return, Goto, Free
<1>18. ASSUME NEW p \in Procs, Interrupt(p) PROVE Calm \/ \E q \in Procs : Stirs(q) \/ Answer(q)
  BY <1>18 DEF Interrupt, Interrupted
<1>19. ASSUME NEW p \in Procs, StopInterrupter(p) PROVE Calm \/ \E q \in Procs : Stirs(q) \/ Answer(q)
  BY <1>19 DEF StopInterrupter
<1>20. ASSUME NEW p \in Procs, HandshakeReturns(p) PROVE Calm \/ \E q \in Procs : Stirs(q) \/ Answer(q)
  <2>1. CASE failed[p] \/ interrupter[p] = "closed"
    BY <1>20, <2>1 DEF HandshakeReturns, Return, Goto, Free
  <2>2. CASE ~(failed[p] \/ interrupter[p] = "closed")
    BY <1>20, <2>2, ResumeCases DEF HandshakeReturns, Resumed, Send, Goto, Return, Free, Payload
  <2> QED
    BY <2>1, <2>2
<1>21. ASSUME NEW p \in Procs, WriteRecord(p) PROVE Calm \/ \E q \in Procs : Stirs(q) \/ Answer(q)
  BY <1>21 DEF Stirs
<1>22. ASSUME NEW p \in Procs, WriteRefused(p) PROVE Calm \/ \E q \in Procs : Stirs(q) \/ Answer(q)
  BY <1>22 DEF WriteRefused, Refused, Notified, MayNotWrite, Goto, Free, Return
<1>23. ASSUME NEW p \in Procs, NextRecord(p) PROVE Calm \/ \E q \in Procs : Stirs(q) \/ Answer(q)
  BY <1>23 DEF Stirs
<1>24. ASSUME NEW p \in Procs, LockRead(p) PROVE Calm \/ \E q \in Procs : Stirs(q) \/ Answer(q)
  BY <1>24 DEF LockRead, Goto
<1>25. ASSUME NEW p \in Procs, TakeInput(p) PROVE Calm \/ \E q \in Procs : Stirs(q) \/ Answer(q)
  BY <1>25 DEF TakeInput, Return, Goto, Stay, Free
<1>26. ASSUME NEW p \in Procs, PostDone(p) PROVE Calm \/ \E q \in Procs : Stirs(q) \/ Answer(q)
  BY <1>26 DEF PostDone, Goto
<1>27. ASSUME NEW p \in Procs, Oversized(p) PROVE Calm \/ \E q \in Procs : Stirs(q) \/ Answer(q)
  BY <1>27 DEF Oversized, Message, Goto
<1>28. ASSUME NEW p \in Procs, Message12(p) PROVE Calm \/ \E q \in Procs : Stirs(q) \/ Answer(q)
  BY <1>28 DEF Message12, Message, Goto, Send
<1>29. ASSUME NEW p \in Procs, Message13(p) PROVE Calm \/ \E q \in Procs : Stirs(q) \/ Answer(q)
  BY <1>29 DEF Message13, Message, Send, Goto
<1>30. ASSUME NEW p \in Procs, LockRenegotiate(p) PROVE Calm \/ \E q \in Procs : Stirs(q) \/ Answer(q)
  BY <1>30 DEF LockRenegotiate, Send, Goto
<1>31. ASSUME NEW p \in Procs, Net(p) PROVE Calm \/ \E q \in Procs : Stirs(q) \/ Answer(q)
  BY <1>31 DEF Stirs
<1>32. ASSUME NEW p \in Procs, Answer(p) PROVE Calm \/ \E q \in Procs : Stirs(q) \/ Answer(q)
  BY <1>32
<1>33. ASSUME NEW p \in Procs, AnswerIgnored(p) PROVE Calm \/ \E q \in Procs : Stirs(q) \/ Answer(q)
  BY <1>33 DEF AnswerIgnored, Awaits, Fail, Send, Goto
<1>34. ASSUME NEW p \in Procs, AnswerRefused(p) PROVE Calm \/ \E q \in Procs : Stirs(q) \/ Answer(q)
  BY <1>34 DEF AnswerRefused, Awaits, Fail, Send, Goto
<1>35. ASSUME NEW p \in Procs, AnswerFails(p) PROVE Calm \/ \E q \in Procs : Stirs(q) \/ Answer(q)
  BY <1>35 DEF AnswerFails, Awaits, Fail, Goto
<1>36. ASSUME NEW p \in Procs, PeerData(p) PROVE Calm \/ \E q \in Procs : Stirs(q) \/ Answer(q)
  BY <1>36 DEF PeerData, FromPeer, Advance, Reading, Goto, Stay, Return, Free
<1>37. ASSUME NEW p \in Procs, PeerHandshake(p) PROVE Calm \/ \E q \in Procs : Stirs(q) \/ Answer(q)
  BY <1>37 DEF PeerHandshake, FromPeer, Advance, Reading, Goto, Stay, Return, Free
<1>38. ASSUME NEW p \in Procs, PeerUseless(p) PROVE Calm \/ \E q \in Procs : Stirs(q) \/ Answer(q)
  BY <1>38 DEF PeerUseless, FromPeer, Send, Goto, Stay, Reading
<1>39. ASSUME NEW p \in Procs, PeerRefused(p) PROVE Calm \/ \E q \in Procs : Stirs(q) \/ Answer(q)
  BY <1>39 DEF PeerRefused, FromPeer, Send, Reading, Goto
<1>40. ASSUME NEW p \in Procs, ReadFails(p) PROVE Calm \/ \E q \in Procs : Stirs(q) \/ Answer(q)
  BY <1>40 DEF ReadFails, Reading, Return, Goto, Free
<1>41. ASSUME NEW p \in Procs, ReadTimesOut(p) PROVE Calm \/ \E q \in Procs : Stirs(q) \/ Answer(q)
  BY <1>41 DEF ReadTimesOut, Reading, Return, Goto, Free
<1> QED
  BY <1>1, <1>2, <1>3, <1>4, <1>5, <1>6, <1>7, <1>8, <1>9, <1>10, <1>11, <1>12, <1>13,
         <1>14, <1>15, <1>16, <1>17, <1>18, <1>19, <1>20, <1>21, <1>22, <1>23, <1>24, <1>25,
         <1>26, <1>27, <1>28, <1>29, <1>30, <1>31, <1>32, <1>33, <1>34, <1>35, <1>36, <1>37,
         <1>38, <1>39, <1>40, <1>41
  DEF Next, Local, Peer, Call

\* A handshake at one of these steps holds both locks, and is not complete.
LEMMA Inside ==
    ASSUME HandshakeLock, InLock, NEW q \in Procs,
           Sending(q) \/ pc[q] \in {"answer", "flush", "flushed", "answer2"}
    PROVE  Past(q) /\ HoldsIn(q) /\ InHandshake(q) /\ ~complete /\ handshakeMutex = q
<1>1. Past(q) /\ HoldsIn(q) /\ InHandshake(q) /\ pc[q] # "end"
  BY DEF Sending, Past, HoldsIn, InHandshake, Flight, HandshakeJobs
<1> QED
  BY <1>1 DEF HandshakeLock

\* Beside such a handshake there is only a close_notify, and no other handshake.
LEMMA NoneBeside ==
    ASSUME HandshakeLock, InLock, OutLock, NoDataInside, StepTypes, ~unlocked, NEW q \in Procs,
           Sending(q) \/ pc[q] \in {"answer", "flush", "flushed", "answer2"}
    PROVE  /\ \A p \in Procs \ {q} : pc[p] = "net" => job[p] = "close_notify"
           /\ \A p \in Procs : HoldsOut(p) => job[p] \notin Payload
           /\ \A p \in Procs \ {q} : ~Sending(p) /\ pc[p] \notin {"answer", "flush", "flushed", "answer2"}
<1>1. Past(q) /\ HoldsIn(q) /\ ~complete /\ handshakeMutex = q
  BY Inside
<1>2. \A p \in Procs \ {q} : pc[p] = "net" => job[p] = "close_notify"
  BY <1>1, Alone
<1>3. \A p \in Procs : HoldsOut(p) => job[p] \notin Payload
  BY <1>1 DEF NoDataInside
<1>4. \A p \in Procs \ {q} : ~Sending(p) /\ pc[p] \notin {"answer", "flush", "flushed", "answer2"}
  BY <1>1, Inside
<1> QED
  BY <1>2, <1>3, <1>4

\* Data and key updates that the network took leave the connection ready.
LEMMA ReadyNet ==
    ASSUME StreamTypes, Sealed, ~unlocked, NEW p \in Procs, NEW ok \in BOOLEAN, NetDone(p, ok),
           Ready, ok, job[p] \in Payload \cup {"keyupdate"}
    PROVE  Ready'
<1>1. /\ rec[p] \in Record /\ rec[p].kind = job[p] /\ rec[p].ok
      /\ Marked(rec[p], ok) = rec[p]
  BY MarkedFields DEF StreamTypes, Sealed, NetDone, Handed
<1>2. Appended(wire, wire', rec[p])
  BY <1>1, DeliverEffect DEF NetDone, Handed, Ready
<1>3. Intact(wire')
  BY <1>1, <1>2, IntactAppended DEF StreamTypes, Ready, Payload
<1>4. wire'[Len(wire')] = rec[p]
  BY <1>2, LastAppended DEF StreamTypes
<1> QED
  BY <1>1, <1>3, <1>4 DEF Ready, NetDone, Handed, Payload

\* A connection becomes complete only with an intact wire that ends in Finished.
LEMMA OpenStep ==
    ASSUME StepTypes, FlagTypes, StreamTypes, HandshakeLock, InLock, OutLock, Sealed, Notice,
           Open, InFlight, Progress, [Next]_vars
    PROVE  Open'
<1>1. CASE Still /\ Calm
  BY <1>1 DEF Still, Calm, Open, Ready, Intact
<1>2. ASSUME NEW p \in Procs, Net(p) PROVE Open'
  <2> PICK ok \in BOOLEAN : NetDone(p, ok)
    BY <1>2, NetEffect
  <2> SUFFICES ASSUME ~unlocked, complete, ~closeNotifySent', ~outErr'
               PROVE  Ready'
    BY DEF Open, NetDone, Handed
  <2>1. job[p] \in Kinds /\ pc[p] = "net"
    BY DEF NetDone, Handed, StepTypes
  <2>2. job[p] \notin HandshakeJobs
    BY <2>1 DEF HandshakeLock, InHandshake
  <2>3. CASE job[p] \in Payload
    BY <2>1, <2>3, ReadyNet DEF NetDone, InFlight, HoldsOut
  <2>4. CASE job[p] = "keyupdate"
    <3>1. ok /\ ~outErr /\ ~closeNotifySent
      <4>1. outErr' <=> outErr \/ ~ok
        BY <2>4 DEF NetDone
      <4>2. closeNotifySent' = closeNotifySent
        BY <2>4 DEF NetDone
      <4> QED
        BY <4>1, <4>2
    <3> QED
      BY <2>4, <3>1, ReadyNet DEF Open
  <2> QED
    BY <2>1, <2>2, <2>3, <2>4 DEF NetDone, Kinds, HandshakeJobs, Payload
<1>3. ASSUME NEW p \in Procs, Flush(p) PROVE Open'
  BY <1>3, Inside DEF Flush, Open
<1>4. ASSUME NEW p \in Procs, Flushed(p) PROVE Open'
  <2> SUFFICES ASSUME ~unlocked, complete', ~closeNotifySent, ~outErr
               PROVE  Ready'
    BY <1>4 DEF Flushed, Open
  <2>1. ~failed[p] /\ pc[p] = "flushed" /\ ~buffering'
    BY <1>4 DEF Flushed
  <2>2. Intact(wire) /\ EndsFinished(wire)
    BY <2>1 DEF Progress
  <2> QED
    BY <1>4, <2>1, <2>2 DEF Ready, EndsFinished, Flushed
<1>5. ASSUME NEW p \in Procs, Sealing(p) PROVE Open'
  BY <1>5 DEF Sealing, Seal, writerOnly, handshake, Open, Ready
<1>6. ASSUME NEW p \in Procs, Answer(p) PROVE Open'
  <2>1. Answered(p)
    BY <1>6, AnswerCases
  <2> SUFFICES ASSUME ~unlocked, complete', ~closeNotifySent, ~outErr
               PROVE  Ready'
    BY <2>1 DEF Answered, Open
  <2>2. pc[p] = "answer2"
    BY <2>1 DEF Answered
  <2>3. ~buffering /\ EndsFinished(wire)
    BY <2>2 DEF Progress
  <2>4. Intact(wire)
    BY <2>1 DEF Answered, PeerFollows, Intact, StreamTypes
  <2> QED
    BY <2>1, <2>2, <2>3, <2>4 DEF Answered, Ready, EndsFinished
<1> QED
  BY <1>1, <1>2, <1>3, <1>4, <1>5, <1>6, StillStep, CalmStep, SealingStep DEF Stirs

\* Data is sealed only when it may be sent, and nothing changes that meanwhile.
LEMMA InFlightStep ==
    ASSUME StepTypes, FlagTypes, StreamTypes, HandshakeLock, InLock, OutLock, NoDataInside, Sealed,
           Open, InFlight, [Next]_vars
    PROVE  InFlight'
<1>1. CASE Still /\ Calm
  <2> SUFFICES ASSUME ~unlocked', NEW q \in Procs, HoldsOut(q)', job'[q] \in Payload
               PROVE  Ready'
    BY DEF InFlight
  <2>1. ~unlocked /\ HoldsOut(q) /\ job[q] \in Payload
    BY <1>1 DEF Still, Calm
  <2>2. Ready
    BY <2>1 DEF InFlight
  <2> QED
    BY <1>1, <2>2 DEF Still, Calm, Ready
<1>2. ASSUME NEW p \in Procs, Net(p) PROVE InFlight'
  <2> PICK ok \in BOOLEAN : NetDone(p, ok)
    BY <1>2, NetEffect
  <2> SUFFICES ASSUME ~unlocked, NEW q \in Procs, HoldsOut(q)', job'[q] \in Payload
               PROVE  Ready'
    BY DEF InFlight, NetDone, Handed
  <2>1. pc[p] = "net"
    BY DEF NetDone, Handed
  <2>2. q = p
    BY <2>1 DEF OutLock, HoldsOut, NetDone
  <2>3. job[p] \in Payload /\ ok
    BY <2>2 DEF HoldsOut, NetDone
  <2> QED
    BY <2>1, <2>3, ReadyNet DEF InFlight, HoldsOut
<1>3. ASSUME NEW p \in Procs, Flush(p) PROVE InFlight'
  BY <1>3, NoneBeside DEF Flush, Goto, StepTypes, InFlight, HoldsOut
<1>4. ASSUME NEW p \in Procs, Flushed(p) PROVE InFlight'
  BY <1>4, NoneBeside DEF Flushed, Goto, StepTypes, InFlight, HoldsOut
<1>5. ASSUME NEW p \in Procs, Sealing(p) PROVE InFlight'
  <2> SUFFICES ASSUME ~unlocked, NEW q \in Procs, HoldsOut(q)', job'[q] \in Payload
               PROVE  Ready'
    BY <1>5 DEF Sealing, Seal, InFlight
  <2>1. job' = job /\ (q # p => HoldsOut(q))
    BY <1>5 DEF Sealing, Seal, Goto, HoldsOut, StepTypes
  <2>2. Ready
    <3>1. CASE HoldsOut(q)
      BY <2>1, <3>1 DEF InFlight
    <3>2. CASE ~HoldsOut(q)
      BY <1>5, <2>1, <3>2 DEF Sealing, HoldsOut, Refused, MayNotWrite, Open, Payload
    <3> QED
      BY <3>1, <3>2
  <2> QED
    BY <1>5, <2>2 DEF Sealing, Seal, Ready
<1>6. ASSUME NEW p \in Procs, Answer(p) PROVE InFlight'
  <2>1. Answered(p)
    BY <1>6, AnswerCases
  <2>2. Sending(p) \/ pc[p] \in {"answer", "flush", "flushed", "answer2"}
    BY <2>1 DEF Answered, Awaits, Sending
  <2> SUFFICES ASSUME ~unlocked, NEW q \in Procs, HoldsOut(q)', job'[q] \in Payload
               PROVE  FALSE
    BY <2>1 DEF InFlight, Answered
  <2>3. HoldsOut(q) /\ job[q] \in Payload
    BY <2>1 DEF Answered, HoldsOut, Send, Goto, StepTypes
  <2> QED
    BY <2>2, <2>3, NoneBeside
<1> QED
  BY <1>1, <1>2, <1>3, <1>4, <1>5, <1>6, StillStep, CalmStep, SealingStep DEF Stirs

\* A handshake that has not failed has lost nothing.
LEMMA ProgressStep ==
    ASSUME StepTypes, FlagTypes, StreamTypes, HandshakeLock, InLock, OutLock, NoDataInside, Buffer,
           Sealed, Progress, [Next]_vars
    PROVE  Progress'
<1>1. CASE Still /\ Calm
  <2>1. UNCHANGED <<wire, sendBuf, closeNotifySent, buffering>> /\ (unlocked => unlocked')
    BY <1>1 DEF Still, Calm
  <2>2. \A q \in Procs :
          /\ Sending(q)' => Sending(q)
          /\ pc'[q] = "flush" /\ ~failed'[q] => pc[q] = "flush" /\ ~failed[q]
          /\ pc'[q] = "flushed" /\ ~failed'[q] => pc[q] = "flushed" /\ ~failed[q]
          /\ pc'[q] = "answer2" => pc[q] = "answer2"
    BY <1>1 DEF Calm
  <2> QED
    BY <2>1, <2>2 DEF Progress
<1>2. ASSUME NEW p \in Procs, Net(p) PROVE Progress'
  <2> PICK ok \in BOOLEAN : NetDone(p, ok)
    BY <1>2, NetEffect
  <2> SUFFICES ASSUME ~unlocked
               PROVE  Progress'
    BY DEF NetDone, Handed, Progress
  <2>1. pc[p] = "net" /\ buffering' = buffering
    BY DEF NetDone, Handed
  <2>2. rec[p] \in Record /\ rec[p].ok /\ rec[p].kind = job[p]
    BY <2>1 DEF StreamTypes, Sealed
  <2>3. ASSUME NEW q \in Procs \ {p},
               Sending(q) \/ pc[q] \in {"flush", "flushed", "answer2"}
        PROVE  /\ closeNotifySent'
               /\ Sending(q) \/ pc[q] \in {"flush", "flushed"} =>
                     wire' = wire /\ (Intact(sendBuf) => Intact(sendBuf'))
    <3>1. job[p] = "close_notify"
      BY <2>1, <2>3, NoneBeside
    <3>2. ASSUME Sending(q) \/ pc[q] \in {"flush", "flushed"}
          PROVE  wire' = wire /\ (Intact(sendBuf) => Intact(sendBuf'))
      <4>1. buffering
        BY <3>2 DEF Sending, Buffer, Buffered
      <4>2. Appended(sendBuf, sendBuf', rec[p]) /\ wire' = wire
        BY <4>1, DeliverEffect DEF NetDone, Handed
      <4> QED
        BY <2>2, <3>1, <4>2, IntactAppended DEF StreamTypes
    <3> QED
      BY <3>1, <3>2 DEF NetDone
  <2>4. ASSUME NEW q \in Procs \ {p}
        PROVE  /\ Sending(q)' => Intact(wire') /\ Intact(sendBuf')
               /\ pc'[q] = "flush" /\ ~failed'[q] => Intact(wire') /\ Intact(sendBuf') /\ closeNotifySent'
               /\ pc'[q] = "flushed" /\ ~failed'[q] => Intact(wire') /\ closeNotifySent'
               /\ pc'[q] = "answer2" => ~buffering' /\ closeNotifySent'
    <3>1. pc'[q] = pc[q] /\ job'[q] = job[q] /\ (Sending(q)' <=> Sending(q))
      BY DEF NetDone, Sending
    <3>2. pc[q] \in {"flush", "flushed"} => failed'[q] = failed[q]
      <4>1. PICK ok2 \in BOOLEAN : Handed(p, ok2) /\ Concluded(p, ok2)
        BY <1>2, NetCases
      <4> QED
        BY <4>1 DEF Concluded, AfterHandshakeRecord, AfterData, AfterKeyUpdate, AfterAlert,
              AfterCloseNotify, FlagTypes
    <3> QED
      BY <2>1, <2>3, <3>1, <3>2 DEF Progress
  <2>5. /\ Sending(p)' => Intact(wire') /\ Intact(sendBuf')
        /\ pc'[p] = "flush" => Intact(wire') /\ Intact(sendBuf') /\ EndsFinished(sendBuf')
        /\ pc'[p] \notin {"flushed", "answer2"}
    <3>1. pc'[p] \notin {"flushed", "answer2"}
      BY DEF NetDone
    <3>2. ASSUME Sending(p)' \/ pc'[p] = "flush"
          PROVE  Intact(wire') /\ Intact(sendBuf') /\ (pc'[p] = "flush" => EndsFinished(sendBuf'))
      <4>1. job[p] \in Flight /\ (pc'[p] = "flush" => job[p] = "finished")
        BY <3>2 DEF NetDone, Flight
      <4>2. Sending(p) /\ buffering
        BY <2>1, <4>1 DEF Sending, Buffer, Buffered
      <4>3. Appended(sendBuf, sendBuf', rec[p]) /\ wire' = wire
        BY <4>2, DeliverEffect DEF NetDone, Handed
      <4>4. Intact(wire) /\ Intact(sendBuf)
        BY <4>2 DEF Progress
      <4>5. Intact(sendBuf')
        BY <2>2, <4>1, <4>3, <4>4, IntactAppended DEF StreamTypes, Flight
      <4>6. sendBuf' # <<>> /\ sendBuf'[Len(sendBuf')] = rec[p]
        BY <4>3, LastAppended DEF StreamTypes
      <4> QED
        BY <2>2, <4>1, <4>3, <4>4, <4>5, <4>6 DEF EndsFinished
    <3> QED
      BY <3>1, <3>2
  <2> QED
    BY <2>4, <2>5 DEF Progress
<1>3. ASSUME NEW p \in Procs, Flush(p) PROVE Progress'
  <2> PICK ok \in BOOLEAN : Flushing(p, ok)
    BY <1>3, FlushEffect
  <2> SUFFICES ASSUME ~unlocked
               PROVE  Progress'
    BY DEF Flushing, Progress
  <2>1. pc[p] = "flush" /\ pc' = [pc EXCEPT ![p] = "flushed"] /\ job' = job
    BY DEF Flushing, Goto
  <2>2. \A q \in Procs \ {p} : ~Sending(q)' /\ pc'[q] \notin {"flush", "flushed", "answer2"}
    BY <2>1, NoneBeside DEF Sending, StepTypes
  <2>3. pc'[p] = "flushed" /\ ~Sending(p)'
    BY <2>1 DEF Sending, StepTypes
  <2>4. ~failed'[p] => ~failed[p] /\ ok
    BY DEF Flushing, FlagTypes
  <2>5. ~failed'[p] => Intact(wire') /\ (~closeNotifySent => EndsFinished(wire'))
    BY <2>1, <2>4, IntactFlushed, LastFlushed DEF Progress
  <2> QED
    BY <2>2, <2>3, <2>5 DEF Progress, Flushing
<1>4. ASSUME NEW p \in Procs, Flushed(p) PROVE Progress'
  <2> SUFFICES ASSUME ~unlocked
               PROVE  Progress'
    BY <1>4 DEF Flushed, Progress
  <2>1. pc[p] = "flushed" /\ job' = job /\ ~buffering' /\ failed' = failed
    BY <1>4 DEF Flushed
  <2>2. \A q \in Procs \ {p} : ~Sending(q)' /\ pc'[q] \notin {"flush", "flushed", "answer2"}
    BY <1>4, <2>1, NoneBeside DEF Flushed, Goto, Sending, StepTypes
  <2>3. pc'[p] \in {"end", "answer2"} /\ ~Sending(p)' /\ (pc'[p] = "answer2" => ~failed[p])
    BY <1>4 DEF Flushed, Goto, Sending, StepTypes
  <2>4. ~failed[p] => (~closeNotifySent => EndsFinished(wire))
    BY <2>1 DEF Progress
  <2> QED
    BY <1>4, <2>1, <2>2, <2>3, <2>4 DEF Progress, Flushed, EndsFinished
<1>5. ASSUME NEW p \in Procs, Sealing(p) PROVE Progress'
  <2>1. UNCHANGED <<wire, sendBuf, closeNotifySent, buffering, unlocked, failed>>
    BY <1>5 DEF Sealing, Seal, writerOnly, handshake
  <2>2. \A q \in Procs :
          /\ Sending(q)' => Sending(q)
          /\ pc'[q] \in {"flush", "flushed", "answer2"} => pc'[q] = pc[q]
    BY <1>5 DEF Sealing, Seal, Goto, Sending, Flight, StepTypes
  <2> QED
    BY <2>1, <2>2 DEF Progress
<1>6. ASSUME NEW p \in Procs, Answer(p) PROVE Progress'
  <2>1. Answered(p)
    BY <1>6, AnswerCases
  <2> SUFFICES ASSUME ~unlocked
               PROVE  Progress'
    BY <2>1 DEF Answered, Progress
  <2>2. Sending(p) \/ pc[p] \in {"answer", "flush", "flushed", "answer2"}
    BY <2>1 DEF Answered, Awaits, Sending
  <2>3. \A q \in Procs \ {p} : ~Sending(q)' /\ pc'[q] \notin {"flush", "flushed", "answer2"}
    BY <2>1, <2>2, NoneBeside DEF Answered, Send, Goto, Sending, StepTypes
  <2>4. pc'[p] \notin {"flush", "flushed", "answer2"}
    BY <2>1 DEF Answered, Send, Goto, StepTypes
  <2>5. Sending(p)' => Intact(wire) /\ Intact(sendBuf)
    <3>1. CASE pc[p] = "answer"
      BY <2>1, <3>1 DEF Answered, PeerFollows, Intact, StreamTypes
    <3>2. CASE pc[p] = "flight"
      BY <3>2 DEF Progress, Sending
    <3>3. CASE pc[p] = "answer2"
      BY <2>1, <3>3 DEF Answered, Goto, Sending, StepTypes
    <3> QED
      BY <2>1, <3>1, <3>2, <3>3 DEF Answered, Awaits
  <2> QED
    BY <2>1, <2>3, <2>4, <2>5 DEF Progress, Answered
<1> QED
  BY <1>1, <1>2, <1>3, <1>4, <1>5, <1>6, StillStep, CalmStep, SealingStep DEF Stirs

\* Data reaches the wire only when the connection is ready.
LEMMA WireDataStep ==
    ASSUME StepTypes, FlagTypes, StreamTypes, Sealed, Notice, Buffer, InFlight, WireData, [Next]_vars
    PROVE  WireData'
<1>0. Len(wire) \in Nat /\ Len(sendBuf) \in Nat
  BY DEF StreamTypes
<1>1. CASE Still
  BY <1>1 DEF Still, WireData, Data
<1>2. ASSUME NEW p \in Procs, Net(p) PROVE WireData'
  <2> PICK ok \in BOOLEAN : NetDone(p, ok)
    BY <1>2, NetEffect
  <2> SUFFICES ASSUME ~unlocked
               PROVE  WireData'
    BY DEF NetDone, Handed, WireData
  <2>1. pc[p] = "net" /\ rec[p] \in Record /\ rec[p].kind = job[p]
    BY DEF NetDone, Handed, StreamTypes, Sealed
  <2>2. job[p] \in Payload => Ready
    BY <2>1 DEF InFlight, HoldsOut
  <2>3. CASE buffering /\ Appended(sendBuf, sendBuf', rec[p]) /\ wire' = wire
    <3>1. job[p] \notin Payload
      BY <2>2, <2>3 DEF Ready
    <3>2. \A i \in 1..Len(sendBuf') : sendBuf'[i].kind \notin Payload
      BY <1>0, <2>1, <2>3, <3>1 DEF Appended, WireData
    <3> QED
      BY <2>3, <3>2 DEF WireData, Data
  <2>4. CASE sendBuf' = sendBuf /\ Appended(wire, wire', Marked(rec[p], ok))
    <3>1. ASSUME NEW j \in 1..Len(wire'), Data(wire'[j])
          PROVE  /\ \A i \in 1..j - 1 : wire'[i].ok /\ wire'[i].kind \notin {"alert", "close_notify"}
                 /\ j > 1 => wire'[j - 1].kind \notin {"hello", "ccs"}
      <4>1. \A i \in 1..Len(wire) : wire'[i] = wire[i]
        BY <1>0, <2>4 DEF Appended
      <4>2. CASE j <= Len(wire)
        <5>1. /\ j \in 1..Len(wire) /\ wire'[j] = wire[j]
              /\ \A i \in 1..j - 1 : wire'[i] = wire[i]
              /\ j > 1 => wire'[j - 1] = wire[j - 1]
          BY <1>0, <4>1, <4>2
        <5> QED
          BY <3>1, <5>1 DEF WireData
      <4>3. CASE ~(j <= Len(wire))
        <5>1. j = Len(wire) + 1 /\ wire'[j] = Marked(rec[p], ok)
          BY <1>0, <2>4, <4>3 DEF Appended
        <5>2. job[p] \in Payload
          BY <2>1, <3>1, <5>1, MarkedFields DEF Data, Payload
        <5>3. Ready
          BY <2>2, <5>2
        <5>4. \A i \in 1..Len(wire) : wire[i].ok /\ wire[i].kind \notin {"alert", "close_notify"}
          BY <5>3 DEF Ready, Intact, Notice
        <5>5. j > 1 => wire[Len(wire)].kind \notin {"hello", "ccs"}
          BY <1>0, <5>1, <5>3 DEF Ready
        <5> QED
          BY <1>0, <4>1, <5>1, <5>4, <5>5
      <4> QED
        BY <4>2, <4>3
    <3> QED
      BY <2>4, <3>1 DEF WireData, Data
  <2> QED
    BY <2>3, <2>4, DeliverEffect DEF NetDone, Handed
<1>3. ASSUME NEW p \in Procs, Flush(p) PROVE WireData'
  <2> PICK ok \in BOOLEAN : Flushing(p, ok)
    BY <1>3, FlushEffect
  <2> SUFFICES ASSUME ~unlocked
               PROVE  WireData'
    BY DEF Flushing, WireData
  <2>1. ASSUME NEW j \in 1..Len(wire'), Data(wire'[j])
        PROVE  /\ \A i \in 1..j - 1 : wire'[i].ok /\ wire'[i].kind \notin {"alert", "close_notify"}
               /\ j > 1 => wire'[j - 1].kind \notin {"hello", "ccs"}
    <3>1. j \in 1..Len(wire) /\ wire'[j] = wire[j]
      BY <2>1, FlushedRecord DEF WireData, Data, Payload
    <3>2. \A i \in 1..Len(wire) : wire'[i] = wire[i]
      BY <1>0 DEF Flushing
    <3>3. /\ \A i \in 1..j - 1 : wire'[i] = wire[i]
          /\ j > 1 => wire'[j - 1] = wire[j - 1]
      BY <1>0, <3>1, <3>2
    <3> QED
      BY <2>1, <3>1, <3>3 DEF WireData
  <2> QED
    BY <2>1 DEF WireData, Data, Flushing
<1>4. ASSUME NEW p \in Procs, Flushed(p) PROVE WireData'
  BY <1>4 DEF Flushed, WireData, Data
<1>5. ASSUME NEW p \in Procs, Sealing(p) PROVE WireData'
  BY <1>5 DEF Sealing, Seal, WireData, Data
<1> QED
  BY <1>1, <1>2, <1>3, <1>4, <1>5, StillStep, SealingStep DEF Stirs

\* The end of a handshake sets both flags inside the section.
LEMMA CompleteMeansNoErrorStep ==
    ASSUME StepTypes, FlagTypes, HandshakeLock, CompleteMeansNoError, [Next]_vars
    PROVE  CompleteMeansNoError'
<1> USE DEF locks, handshake, inside, outside, active, context, writerOnly, readerOnly, vars,
         StepTypes, FlagTypes, HandshakeLock, InHandshake, Refusing, CompleteMeansNoError,
         HandshakeJobs, None
<1>1. CASE UNCHANGED vars \/ Over
  BY <1>1 DEF Over
<1>2. ASSUME NEW p \in Procs, Read(p) PROVE CompleteMeansNoError'
  BY <1>2, ProcsAssumption DEF Read, Start, Goto
<1>3. ASSUME NEW p \in Procs, Write(p) PROVE CompleteMeansNoError'
  BY <1>3, ProcsAssumption DEF Write, Start, Goto
<1>4. ASSUME NEW p \in Procs, HandshakeContext(p) PROVE CompleteMeansNoError'
  BY <1>4, ProcsAssumption DEF HandshakeContext, Start, Goto
<1>5. ASSUME NEW p \in Procs, Close(p) PROVE CompleteMeansNoError'
  BY <1>5, ProcsAssumption DEF Close, Start, Goto
<1>6. ASSUME NEW p \in Procs, CloseWrite(p) PROVE CompleteMeansNoError'
  BY <1>6, ProcsAssumption DEF CloseWrite, Start, Goto
<1>7. ASSUME NEW p \in Procs, Cancel(p) PROVE CompleteMeansNoError'
  BY <1>7, ProcsAssumption DEF Cancel
<1>8. ASSUME NEW p \in Procs, CloseLoad(p) PROVE CompleteMeansNoError'
  BY <1>8, ProcsAssumption DEF CloseLoad, Send, Goto
<1>9. ASSUME NEW p \in Procs, CloseConn(p) PROVE CompleteMeansNoError'
  BY <1>9, ProcsAssumption DEF CloseConn, Return, Goto, Free
<1>10. ASSUME NEW p \in Procs, Fast(p) PROVE CompleteMeansNoError'
  <2>1. CASE complete
    BY <1>10, <2>1, ResumeCases DEF Fast, Resumed, Send, Goto, Return, Free, Payload
  <2>2. CASE ~complete
    BY <1>10, <2>2 DEF Fast, Goto
  <2> QED
    BY <2>1, <2>2
<1>11. ASSUME NEW p \in Procs, LockHandshake(p) PROVE CompleteMeansNoError'
  BY <1>11, ProcsAssumption DEF LockHandshake, Goto
<1>12. ASSUME NEW p \in Procs, LockIn(p) PROVE CompleteMeansNoError'
  BY <1>12, ProcsAssumption DEF LockIn, Goto
<1>13. ASSUME NEW p \in Procs, Build(p) PROVE CompleteMeansNoError'
  BY <1>13, ProcsAssumption DEF Build, Send, Goto
<1>14. ASSUME NEW p \in Procs, Flush(p) PROVE CompleteMeansNoError'
  BY <1>14, ProcsAssumption DEF Flush, Goto
<1>15. ASSUME NEW p \in Procs, Flushed(p) PROVE CompleteMeansNoError'
  BY <1>15, ProcsAssumption DEF Flushed, Goto
<1>16. ASSUME NEW p \in Procs, FlushAlert(p) PROVE CompleteMeansNoError'
  BY <1>16, ProcsAssumption DEF FlushAlert, Goto
<1>17. ASSUME NEW p \in Procs, End(p) PROVE CompleteMeansNoError'
  BY <1>17, ProcsAssumption DEF End, Return, Goto, Free
<1>18. ASSUME NEW p \in Procs, Interrupt(p) PROVE CompleteMeansNoError'
  BY <1>18, ProcsAssumption DEF Interrupt, Interrupted
<1>19. ASSUME NEW p \in Procs, StopInterrupter(p) PROVE CompleteMeansNoError'
  BY <1>19, ProcsAssumption DEF StopInterrupter
<1>20. ASSUME NEW p \in Procs, HandshakeReturns(p) PROVE CompleteMeansNoError'
  <2>1. CASE failed[p] \/ interrupter[p] = "closed"
    BY <1>20, <2>1 DEF HandshakeReturns, Return, Goto, Free
  <2>2. CASE ~(failed[p] \/ interrupter[p] = "closed")
    BY <1>20, <2>2, ResumeCases DEF HandshakeReturns, Resumed, Send, Goto, Return, Free, Payload
  <2> QED
    BY <2>1, <2>2
<1>21. ASSUME NEW p \in Procs, WriteRecord(p) PROVE CompleteMeansNoError'
  BY <1>21, ProcsAssumption DEF WriteRecord, Refused, Seal, MayNotWrite, Goto
<1>22. ASSUME NEW p \in Procs, WriteRefused(p) PROVE CompleteMeansNoError'
  BY <1>22, ProcsAssumption DEF WriteRefused, Refused, Notified, MayNotWrite, Goto, Free, Return
<1>23. ASSUME NEW p \in Procs, NextRecord(p) PROVE CompleteMeansNoError'
  BY <1>23, ProcsAssumption DEF NextRecord, Seal, Goto
<1>24. ASSUME NEW p \in Procs, LockRead(p) PROVE CompleteMeansNoError'
  BY <1>24, ProcsAssumption DEF LockRead, Goto
<1>25. ASSUME NEW p \in Procs, TakeInput(p) PROVE CompleteMeansNoError'
  BY <1>25, ProcsAssumption DEF TakeInput, Return, Goto, Stay, Free
<1>26. ASSUME NEW p \in Procs, PostDone(p) PROVE CompleteMeansNoError'
  BY <1>26, ProcsAssumption DEF PostDone, Goto
<1>27. ASSUME NEW p \in Procs, Oversized(p) PROVE CompleteMeansNoError'
  BY <1>27, ProcsAssumption DEF Oversized, Message, Goto
<1>28. ASSUME NEW p \in Procs, Message12(p) PROVE CompleteMeansNoError'
  BY <1>28, ProcsAssumption DEF Message12, Message, Goto, Send
<1>29. ASSUME NEW p \in Procs, Message13(p) PROVE CompleteMeansNoError'
  BY <1>29, ProcsAssumption DEF Message13, Message, Send, Goto
<1>30. ASSUME NEW p \in Procs, LockRenegotiate(p) PROVE CompleteMeansNoError'
  BY <1>30, ProcsAssumption DEF LockRenegotiate, Send, Goto
<1>31. ASSUME NEW p \in Procs, Net(p) PROVE CompleteMeansNoError'
  <2> PICK ok \in BOOLEAN : Handed(p, ok) /\ Concluded(p, ok)
    BY <1>31, NetCases
  <2>1. CASE job[p] \in HandshakeJobs /\ AfterHandshakeRecord(p, ok)
    BY <2>1 DEF Handed, AfterHandshakeRecord, Unlock, Goto, Free, HandshakeJobs
  <2>2. CASE job[p] \in Payload /\ AfterData(p, ok)
    BY <2>2 DEF Handed, AfterData, Return, Goto, Free, Payload
  <2>3. CASE job[p] = "keyupdate" /\ AfterKeyUpdate(p, ok)
    BY <2>3 DEF Handed, AfterKeyUpdate, Unlock, Goto, Free
  <2>4. CASE job[p] = "alert" /\ AfterAlert(p)
    BY <2>4 DEF Handed, AfterAlert, Unlock, Return, Goto, Free
  <2>5. CASE job[p] = "close_notify" /\ AfterCloseNotify(p, ok)
    BY <2>5 DEF Handed, AfterCloseNotify, Notified, Return, Goto, Free
  <2> QED
    BY <2>1, <2>2, <2>3, <2>4, <2>5 DEF Concluded
<1>32. ASSUME NEW p \in Procs, Answer(p) PROVE CompleteMeansNoError'
  <2>0. Answered(p)
    BY <1>32, AnswerCases
  <2>1. CASE pc[p] = "answer" /\ vers' = 13 /\ Send(p, "ccs")
    BY <2>0, <2>1, ProcsAssumption DEF Answered, Send, Goto
  <2>2. CASE pc[p] = "answer" /\ vers' = 12 /\ Goto(p, "flight") /\ UNCHANGED job
    BY <2>0, <2>2, ProcsAssumption DEF Answered, Goto
  <2>3. CASE pc[p] = "flight" /\ vers = 13 /\ Send(p, "finished")
    BY <2>0, <2>3, ProcsAssumption DEF Answered, Send, Goto
  <2>4. CASE pc[p] = "flight" /\ vers # 13 /\ Send(p, "ccs")
    BY <2>0, <2>4, ProcsAssumption DEF Answered, Send, Goto
  <2>5. CASE pc[p] = "answer2" /\ Goto(p, "end") /\ UNCHANGED job
    BY <2>0, <2>5, ProcsAssumption DEF Answered, Goto
  <2> QED
    BY <2>0, <2>1, <2>2, <2>3, <2>4, <2>5 DEF Answered
<1>33. ASSUME NEW p \in Procs, AnswerIgnored(p) PROVE CompleteMeansNoError'
  BY <1>33, ProcsAssumption DEF AnswerIgnored, Awaits, Fail, Send, Goto
<1>34. ASSUME NEW p \in Procs, AnswerRefused(p) PROVE CompleteMeansNoError'
  BY <1>34, ProcsAssumption DEF AnswerRefused, Awaits, Fail, Send, Goto
<1>35. ASSUME NEW p \in Procs, AnswerFails(p) PROVE CompleteMeansNoError'
  BY <1>35, ProcsAssumption DEF AnswerFails, Awaits, Fail, Goto
<1>36. ASSUME NEW p \in Procs, PeerData(p) PROVE CompleteMeansNoError'
  BY <1>36, ProcsAssumption DEF PeerData, FromPeer, Advance, Reading, Goto, Stay, Return, Free
<1>37. ASSUME NEW p \in Procs, PeerHandshake(p) PROVE CompleteMeansNoError'
  BY <1>37, ProcsAssumption DEF PeerHandshake, FromPeer, Advance, Reading, Goto, Stay, Return,
         Free
<1>38. ASSUME NEW p \in Procs, PeerUseless(p) PROVE CompleteMeansNoError'
  BY <1>38, ProcsAssumption DEF PeerUseless, FromPeer, Send, Goto, Stay, Reading
<1>39. ASSUME NEW p \in Procs, PeerRefused(p) PROVE CompleteMeansNoError'
  BY <1>39, ProcsAssumption DEF PeerRefused, FromPeer, Send, Reading, Goto
<1>40. ASSUME NEW p \in Procs, ReadFails(p) PROVE CompleteMeansNoError'
  BY <1>40, ProcsAssumption DEF ReadFails, Reading, Return, Goto, Free
<1>41. ASSUME NEW p \in Procs, ReadTimesOut(p) PROVE CompleteMeansNoError'
  BY <1>41, ProcsAssumption DEF ReadTimesOut, Reading, Return, Goto, Free
<1> QED
  BY <1>1, <1>2, <1>3, <1>4, <1>5, <1>6, <1>7, <1>8, <1>9, <1>10, <1>11, <1>12, <1>13,
         <1>14, <1>15, <1>16, <1>17, <1>18, <1>19, <1>20, <1>21, <1>22, <1>23, <1>24, <1>25,
         <1>26, <1>27, <1>28, <1>29, <1>30, <1>31, <1>32, <1>33, <1>34, <1>35, <1>36, <1>37,
         <1>38, <1>39, <1>40, <1>41
  DEF Next, Local, Peer, Call

-----------------------------------------------------------------------------
LockInv ==
    /\ StepTypes /\ FlagTypes /\ ContextTypes
    /\ Watch /\ HandshakeLock /\ CompleteMeansNoError /\ InLock /\ OutLock /\ NoDataInside

StreamInv ==
    /\ StreamTypes /\ NegotiatedSteps /\ NegotiatedStreams /\ Buffer /\ Sealed
    /\ Link /\ BufferChain /\ Joint /\ WireChain
    /\ Notice /\ Open /\ InFlight /\ Progress /\ WireData

ConnInv == LockInv /\ StreamInv

\* The locks at the start.
LEMMA InitLocks == Init => LockInv
<1> SUFFICES ASSUME Init PROVE LockInv
  OBVIOUS
<1> USE DEF Init, None
<1>1. StepTypes /\ FlagTypes /\ ContextTypes
  BY DEF StepTypes, FlagTypes, ContextTypes, Steps, Kinds
<1>2. Watch /\ CompleteMeansNoError
  BY DEF Watch, CompleteMeansNoError
<1>3. HandshakeLock /\ InLock
  BY ProcsAssumption DEF HandshakeLock, InHandshake, InLock, HoldsIn
<1>4. OutLock /\ NoDataInside
  BY DEF OutLock, HoldsOut, NoDataInside
<1> QED
  BY <1>1, <1>2, <1>3, <1>4 DEF LockInv

\* The streams at the start.
LEMMA InitStreams == Init => StreamInv
<1> SUFFICES ASSUME Init PROVE StreamInv
  OBVIOUS
<1> USE DEF Init
<1>1. StreamTypes
  BY DEF StreamTypes, NoRecord, Record, Kinds
<1>2. wire = <<>> /\ sendBuf = <<>> /\ Len(wire) = 0 /\ Len(sendBuf) = 0
  OBVIOUS
<1>3. NegotiatedSteps /\ NegotiatedStreams /\ Buffer /\ Sealed
  BY <1>2 DEF NegotiatedSteps, NegotiatedStreams, Buffer, Buffered, Sealed, Versioned, None
<1>4. Link /\ BufferChain /\ Joint /\ WireChain
  BY <1>2 DEF Link, BufferChain, Joint, WireChain
<1>5. Notice /\ Open /\ InFlight
  BY <1>2 DEF Notice, Open, InFlight, HoldsOut
<1>6. Progress /\ WireData
  BY <1>2 DEF Progress, Sending, WireData
<1> QED
  BY <1>1, <1>3, <1>4, <1>5, <1>6 DEF StreamInv

\* Every step keeps the locks.
LEMMA LocksStep ==
    ASSUME LockInv, [Next]_vars
    PROVE  LockInv'
<1> USE DEF LockInv
<1>1. StepTypes' /\ FlagTypes' /\ ContextTypes'
  BY StepTypesStep, FlagTypesStep, ContextTypesStep
<1>2. Watch' /\ HandshakeLock' /\ CompleteMeansNoError'
  BY WatchStep, HandshakeLockStep, CompleteMeansNoErrorStep
<1>3. InLock' /\ OutLock' /\ NoDataInside'
  BY InLockStep, OutLockStep, NoDataInsideStep
<1> QED
  BY <1>1, <1>2, <1>3

\* Every step keeps the streams.
LEMMA StreamsStep ==
    ASSUME LockInv, StreamInv, [Next]_vars
    PROVE  StreamInv'
<1> USE DEF LockInv, StreamInv
<1>1. StreamTypes' /\ NegotiatedSteps' /\ NegotiatedStreams' /\ Buffer' /\ Sealed'
  BY StreamTypesStep, NegotiatedStepsStep, NegotiatedStreamsStep, BufferStep, SealedStep
<1>2. Link' /\ BufferChain' /\ Joint' /\ WireChain'
  BY LinkStep, BufferChainStep, JointStep, WireChainStep
<1>3. Notice' /\ Open' /\ InFlight' /\ Progress' /\ WireData'
  BY NoticeStep, OpenStep, InFlightStep, ProgressStep, WireDataStep
<1> QED
  BY <1>1, <1>2, <1>3

\* The locks, the streams and the stages of a handshake stay as ConnInv says,
\* whatever the goroutines, the network and the peer do.
THEOREM ConnInvariant == Spec => []ConnInv
<1>1. Init => ConnInv
  BY InitLocks, InitStreams DEF ConnInv
<1>2. ConnInv /\ [Next]_vars => ConnInv'
  BY LocksStep, StreamsStep DEF ConnInv
<1> QED
  BY <1>1, <1>2, PTL DEF Spec

\* What the network took can be read by the peer, and application data never
\* follows an error, an alert, a close_notify or the hello of a renegotiation.
THEOREM WireStaysReadable == Spec => []WireReadable
<1>1. ConnInv => WireReadable
  <2> SUFFICES ASSUME StreamTypes, WireChain, WireData, ~unlocked, NEW j \in 2..Len(wire)
               PROVE  /\ wire[j - 1].ok /\ wire[j].ok => Follows(wire[j - 1], wire[j])
                      /\ Data(wire[j]) =>
                           /\ wire[j - 1].kind \notin {"hello", "ccs"}
                           /\ \A i \in 1..j - 1 : wire[i].ok /\ wire[i].kind \notin {"alert", "close_notify"}
    BY DEF ConnInv, StreamInv, WireReadable
  <2>1. j \in 1..Len(wire) /\ j > 1
    BY DEF StreamTypes
  <2> QED
    BY <2>1 DEF WireChain, WireData
<1> QED
  BY <1>1, ConnInvariant, PTL

\* A HandshakeContext that returns nil has not closed the connection.
THEOREM NilIsUsable == Spec => []NilMeansUsable
<1>1. ConnInv => NilMeansUsable
  BY DEF ConnInv, LockInv, Watch, NilMeansUsable
<1> QED
  BY <1>1, ConnInvariant, PTL

\* Outside the section of handshakeMutex a complete connection has no handshakeErr.
THEOREM CompleteHasNoError == Spec => []CompleteMeansNoError
<1>1. ConnInv => CompleteMeansNoError
  BY DEF ConnInv, LockInv
<1> QED
  BY <1>1, ConnInvariant, PTL
=============================================================================
