---------------------------- MODULE QmiTransactions ----------------------------
(***************************************************************************)
(* Requests and responses of the QMI client (pkg/qmi/client.go): callers   *)
(* of SendRequest, the writer and the read loop that carry their frames,   *)
(* and Close.  The modem answers what it received in any order, late, or   *)
(* never.                                                                  *)
(*                                                                         *)
(* A request is known by its number in the order of registration.  It uses *)
(* the transaction id that the counter gives it, and the ids come round    *)
(* again: lastTxID & 0xFFFF, ctlTxID & 0xFF, zero left out.  Requests of   *)
(* different services have different keys, so the model is of one service, *)
(* the control service or another, and a key is an id.                     *)
(***************************************************************************)
EXTENDS Naturals, Sequences, SequencesExt

CONSTANTS Callers,       \* goroutines that send requests
          IdSpace,       \* number of transaction ids
          TxQueueSize,   \* capacity of writeCh
          MaxRecent,     \* maxRecentTransactions
          MaxRequests    \* bound on the requests sent in a behaviour

ASSUME TransactionAssumption ==
    /\ {IdSpace, TxQueueSize, MaxRecent} \subseteq Nat \ {0}
    /\ MaxRequests \in Nat

VARIABLES service,       \* the service: that of control messages, or one of the others
          sent,          \* requests registered so far
          transactions,  \* c.transactions: the request registered for an id, or 0
          recent,        \* c.recentTransactions, oldest first
          writeCh,       \* c.writeCh
          writing,       \* the request the writer is at, 0 for none
          writer,        \* is writerLoop running?
          reader,        \* where readLoop is
          found,         \* the entry that readLoop looked up
          reading,       \* the request its packet answers
          closing,       \* c.closeCh is closed
          closer,        \* where Close is
          pc,            \* where each caller is
          req,           \* each caller's request
          written,       \* each caller's writeReq.result
          respCh,        \* each caller's entry.ch: the request answered, or 0
          timedOut,      \* SendRequest's err is that of its context
          broken,        \* requests in flight whose entry.ch is closed
          atModem,       \* requests the modem has received and not answered
          evicted,       \* requests that fell out of recentTransactions, or grew too old
          surfaced       \* requests whose response became an unknown event

tableVars == <<transactions, recent, evicted>>
writerVars == <<writeCh, writing, writer>>
readerVars == <<reader, found, reading, surfaced>>
callerVars == <<pc, req, written, respCh, timedOut>>
closeVars == <<closing, closer, service>>   \* the service never changes
vars == <<sent, tableVars, writerVars, readerVars, callerVars, closeVars, broken, atModem>>

Ids == 1 .. IdSpace
IdOf(r) == ((r - 1) % IdSpace) + 1

Init ==
    /\ service \in {"control", "other"}
    /\ sent = 0
    /\ transactions = [i \in Ids |-> 0]
    /\ recent = <<>>
    /\ evicted = {}
    /\ writeCh = <<>>
    /\ writing = 0
    /\ writer = "running"
    /\ reader = "reading"
    /\ found = 0
    /\ reading = 0
    /\ surfaced = {}
    /\ pc = [p \in Callers |-> "idle"]
    /\ req = [p \in Callers |-> 0]
    /\ written = [p \in Callers |-> "none"]
    /\ respCh = [p \in Callers |-> 0]
    /\ timedOut = [p \in Callers |-> FALSE]
    /\ closing = FALSE
    /\ closer = "idle"
    /\ broken = {}
    /\ atModem = {}

Goto(p, label) == pc' = [pc EXCEPT ![p] = label]
InFlight == {p \in Callers : pc[p] # "idle"}

-----------------------------------------------------------------------------
\* Requests that wait to be written or answered, or whose answer is being read.
Outstanding == (atModem \cup ToSet(writeCh) \cup {writing, reading}) \ {0}

\* SendRequest.  The ids do not come round while one of them is in use: that
\* takes 65535 requests, or 255 of the control service, during a single one.
Register(p) ==
    /\ pc[p] = "idle"
    /\ sent < MaxRequests
    /\ \A q \in InFlight : IdOf(req[q]) # IdOf(sent + 1)
    /\ \A r \in Outstanding : IdOf(r) # IdOf(sent + 1)
    /\ sent' = sent + 1
    /\ req' = [req EXCEPT ![p] = sent + 1]
    /\ transactions' = [transactions EXCEPT ![IdOf(sent + 1)] = sent + 1]
    /\ Goto(p, "registered")
    /\ UNCHANGED <<recent, evicted, writerVars, readerVars, written, respCh, timedOut,
                   closeVars, broken, atModem>>

\* Mutant: the queue of the writer has no limit.
SubmitUnbounded(p) ==
    /\ pc[p] = "registered"
    /\ writeCh' = Append(writeCh, req[p])
    /\ Goto(p, "submitted")
    /\ UNCHANGED <<sent, tableVars, writing, writer, readerVars, req, written, respCh,
                   timedOut, closeVars, broken, atModem>>

Submit(p) ==
    /\ pc[p] = "registered"
    /\ Len(writeCh) < TxQueueSize
    /\ writeCh' = Append(writeCh, req[p])
    /\ Goto(p, "submitted")
    /\ UNCHANGED <<sent, tableVars, writing, writer, readerVars, req, written, respCh,
                   timedOut, closeVars, broken, atModem>>

WriteResult(p) ==
    /\ pc[p] = "submitted"
    /\ written[p] # "none"
    /\ Goto(p, IF written[p] = "ok" THEN "awaiting" ELSE "completing")
    /\ UNCHANGED <<sent, tableVars, writerVars, readerVars, req, written, respCh, timedOut,
                   closeVars, broken, atModem>>

\* A packet, or the channel was closed.
Response(p) ==
    /\ pc[p] = "awaiting"
    /\ respCh[p] # 0 \/ req[p] \in broken
    /\ Goto(p, "completing")
    /\ UNCHANGED <<sent, tableVars, writerVars, readerVars, req, written, respCh, timedOut,
                   closeVars, broken, atModem>>

\* Every wait also ends with the context, and with closeCh.
EndWait(p, expired) ==
    /\ pc[p] \in {"registered", "submitted", "awaiting"}
    /\ timedOut' = [timedOut EXCEPT ![p] = expired]
    /\ Goto(p, "completing")
    /\ UNCHANGED <<sent, tableVars, writerVars, readerVars, req, written, respCh, closeVars,
                   broken, atModem>>

GiveUp(p) == EndWait(p, TRUE)

\* Mutant: a caller that waits for room in writeCh does not look at closeCh.
SeesClosedLate(p) == closing /\ pc[p] # "registered" /\ EndWait(p, FALSE)

SeesClosed(p) == closing /\ EndWait(p, FALSE)

\* delete from recentTransactions by key.
Forget(seq, i) ==
    IF \E k \in DOMAIN seq : IdOf(seq[k]) = i
    THEN RemoveAt(seq, CHOOSE k \in DOMAIN seq : IdOf(seq[k]) = i)
    ELSE seq

\* completeTransaction, the deferred call: it deletes by key, and remembers
\* the request if its context ended it.
Remember(r) ==
    LET full == Len(recent) >= MaxRecent
        kept == IF full THEN Tail(recent) ELSE recent
    IN  /\ recent' = Append(Forget(kept, IdOf(r)), r)
        /\ evicted' = IF full THEN evicted \cup {Head(recent)} ELSE evicted

\* SendRequest returns, and what it made for the request is gone.
Return(p) ==
    /\ req' = [req EXCEPT ![p] = 0]
    /\ written' = [written EXCEPT ![p] = "none"]
    /\ timedOut' = [timedOut EXCEPT ![p] = FALSE]
    /\ broken' = broken \ {req[p]}
    /\ Goto(p, "idle")

\* Mutants: the entry stays in the table; a timeout is not remembered; a
\* caller uses one response channel for all of its requests.
CompleteKeeping(p) ==
    /\ pc[p] = "completing"
    /\ \/ timedOut[p] /\ Remember(req[p])
       \/ ~timedOut[p] /\ UNCHANGED <<recent, evicted>>
    /\ respCh' = [respCh EXCEPT ![p] = 0]
    /\ Return(p)
    /\ UNCHANGED <<sent, transactions, writerVars, readerVars, closeVars, atModem>>

CompleteForgetting(p) ==
    /\ pc[p] = "completing"
    /\ transactions' = [transactions EXCEPT ![IdOf(req[p])] = 0]
    /\ respCh' = [respCh EXCEPT ![p] = 0]
    /\ Return(p)
    /\ UNCHANGED <<sent, recent, evicted, writerVars, readerVars, closeVars, atModem>>

CompleteSharing(p) ==
    /\ pc[p] = "completing"
    /\ transactions' = [transactions EXCEPT ![IdOf(req[p])] = 0]
    /\ \/ timedOut[p] /\ Remember(req[p])
       \/ ~timedOut[p] /\ UNCHANGED <<recent, evicted>>
    /\ Return(p)
    /\ UNCHANGED <<sent, writerVars, readerVars, respCh, closeVars, atModem>>

Complete(p) ==
    /\ pc[p] = "completing"
    /\ transactions' = [transactions EXCEPT ![IdOf(req[p])] = 0]
    /\ \/ timedOut[p] /\ Remember(req[p])
       \/ ~timedOut[p] /\ UNCHANGED <<recent, evicted>>
    /\ respCh' = [respCh EXCEPT ![p] = 0]
    /\ Return(p)
    /\ UNCHANGED <<sent, writerVars, readerVars, closeVars, atModem>>

-----------------------------------------------------------------------------
\* writerLoop: it may take one more request after closeCh is closed.
TakeWrite ==
    /\ writer = "running" /\ writing = 0
    /\ writeCh # <<>>
    /\ writing' = Head(writeCh)
    /\ writeCh' = Tail(writeCh)
    /\ UNCHANGED <<sent, tableVars, writer, readerVars, callerVars, closeVars, broken, atModem>>

\* The result goes to the request's own channel, listened to or not.  A write
\* may succeed until conn.Close is through, although closeCh is closed before.
Write ==
    /\ writing # 0
    /\ \E outcome \in {"ok", "failed"} :
          /\ outcome = "ok" => closer \in {"idle", "closing"}
          /\ written' = [p \in Callers |->
                           IF p \in InFlight /\ req[p] = writing THEN outcome ELSE written[p]]
          /\ atModem' = IF outcome = "ok" THEN atModem \cup {writing} ELSE atModem
    /\ writing' = 0
    /\ UNCHANGED <<sent, tableVars, writeCh, writer, readerVars, pc, req, respCh, timedOut,
                   closeVars, broken>>

\* Mutant: closeCh is looked at only when there is a request to write.
WriterStopsLate ==
    /\ writer = "running" /\ writing = 0
    /\ closing /\ writeCh # <<>>
    /\ writer' = "done"
    /\ UNCHANGED <<sent, tableVars, writeCh, writing, readerVars, callerVars, closeVars,
                   broken, atModem>>

WriterStops ==
    /\ writer = "running" /\ writing = 0
    /\ closing
    /\ writer' = "done"
    /\ UNCHANGED <<sent, tableVars, writeCh, writing, readerVars, callerVars, closeVars,
                   broken, atModem>>

\* The modem never answers: seen only when the caller has given up.
Ignore(r) ==
    /\ r \in atModem
    /\ r \notin {req[p] : p \in InFlight}
    /\ atModem' = atModem \ {r}
    /\ UNCHANGED <<sent, tableVars, writerVars, readerVars, callerVars, closeVars, broken>>

-----------------------------------------------------------------------------
\* readLoop: a response arrives and its key is looked up.
Read(r) ==
    /\ reader = "reading"
    /\ r \in atModem
    /\ atModem' = atModem \ {r}
    /\ reading' = r
    /\ found' = transactions[IdOf(r)]
    /\ reader' = IF found' # 0 THEN "deliver" ELSE "unmatched"
    /\ UNCHANGED <<sent, tableVars, writerVars, surfaced, callerVars, closeVars, broken>>

\* Mutant: entry.ch has no buffer, so only a caller that waits gets a packet.
DeliverUnbuffered ==
    /\ reader = "deliver"
    /\ found \notin broken
    /\ respCh' = [p \in Callers |->
                    IF pc[p] = "awaiting" /\ req[p] = found /\ respCh[p] = 0
                    THEN reading ELSE respCh[p]]
    /\ reader' = "reading"
    /\ found' = 0
    /\ reading' = 0
    /\ UNCHANGED <<sent, tableVars, writerVars, surfaced, pc, req, written, timedOut,
                   closeVars, broken, atModem>>

\* entry.ch has room for one packet; a second one is dropped, and one for a
\* caller that left meanwhile reaches nobody.
Deliver ==
    /\ reader = "deliver"
    /\ found \notin broken
    /\ respCh' = [p \in Callers |->
                    IF p \in InFlight /\ req[p] = found /\ respCh[p] = 0
                    THEN reading ELSE respCh[p]]
    /\ reader' = "reading"
    /\ found' = 0
    /\ reading' = 0
    /\ UNCHANGED <<sent, tableVars, writerVars, surfaced, pc, req, written, timedOut,
                   closeVars, broken, atModem>>

\* takeRecentTransaction: what is under the id counts if it is of the same
\* message, which an older request's may be.  A response that nobody remembers
\* becomes an event, and so does every one of the control service, which is
\* not looked up.
Unmatched ==
    /\ reader = "unmatched"
    /\ \/ /\ service # "control"
          /\ \E r \in ToSet(recent) : IdOf(r) = IdOf(reading)
          /\ recent' = Forget(recent, IdOf(reading))
          /\ UNCHANGED surfaced
       \/ /\ service = "control" \/ reading \notin ToSet(recent)
          /\ surfaced' = surfaced \cup {reading}
          /\ UNCHANGED recent
    /\ reader' = "reading"
    /\ reading' = 0
    /\ UNCHANGED <<sent, transactions, evicted, writerVars, found, callerVars, closeVars,
                   broken, atModem>>

\* pruneRecentTransactionsLocked, and the check of takeRecentTransaction: an
\* entry has no effect once it is older than recentTransactionTTL, and the
\* oldest gets there first.
Expire ==
    /\ recent # <<>>
    /\ evicted' = evicted \cup {Head(recent)}
    /\ recent' = Tail(recent)
    /\ UNCHANGED <<sent, transactions, writerVars, readerVars, callerVars, closeVars, broken,
                   atModem>>

Registered == {transactions[i] : i \in Ids} \ {0}

\* failPendingTransactions: every waiter is woken by the closed channel.
FailPending ==
    /\ broken' = broken \cup Registered
    /\ transactions' = [i \in Ids |-> 0]

\* The transport failed; the client stays open, but nobody reads any more.
ReadFails ==
    /\ reader = "reading"
    /\ ~closing
    /\ FailPending
    /\ reader' = "done"
    /\ UNCHANGED <<sent, recent, evicted, writerVars, found, reading, surfaced, callerVars,
                   closeVars, atModem>>

ReaderStops ==
    /\ reader = "reading"
    /\ closing
    /\ reader' = "done"
    /\ UNCHANGED <<sent, tableVars, writerVars, found, reading, surfaced, callerVars,
                   closeVars, broken, atModem>>

-----------------------------------------------------------------------------
Close ==
    /\ closer = "idle"
    /\ closing' = TRUE
    /\ closer' = "closing"
    /\ UNCHANGED <<service, sent, tableVars, writerVars, readerVars, callerVars, broken,
                   atModem>>

\* conn.Close: no write succeeds any more, and a read that waits fails.
CloseConn ==
    /\ closer = "closing"
    /\ closer' = "waiting"
    /\ UNCHANGED <<service, sent, tableVars, writerVars, readerVars, callerVars, closing,
                   broken, atModem>>

\* Mutant: Close does not wait for the read loop.
CloseEndsEarly ==
    /\ closer = "waiting"
    /\ writer = "done"
    /\ FailPending
    /\ closer' = "done"
    /\ UNCHANGED <<service, sent, recent, evicted, writerVars, readerVars, callerVars, closing,
                   atModem>>

\* c.wg.Wait and what follows it.
CloseEnds ==
    /\ closer = "waiting"
    /\ reader = "done" /\ writer = "done"
    /\ FailPending
    /\ closer' = "done"
    /\ UNCHANGED <<service, sent, recent, evicted, writerVars, readerVars, callerVars, closing,
                   atModem>>

-----------------------------------------------------------------------------
CallerStep(p) == Submit(p) \/ WriteResult(p) \/ Response(p) \/ SeesClosed(p) \/ Complete(p)
WriterStep == TakeWrite \/ Write \/ WriterStops
ReaderStep == (\E r \in atModem : Read(r)) \/ Deliver \/ Unmatched \/ ReaderStops

Next ==
    \/ \E p \in Callers : Register(p) \/ CallerStep(p) \/ GiveUp(p)
    \/ WriterStep
    \/ \E r \in atModem : Ignore(r)
    \/ ReaderStep \/ ReadFails \/ Expire
    \/ Close \/ CloseConn \/ CloseEnds

Spec == Init /\ [][Next]_vars

\* Goroutines run, and a waiting caller sees closeCh closed.  The modem
\* goes on answering: there are finitely many requests, so each has its turn.
\* No context has to expire and nobody has to close.
Fairness ==
    /\ \A p \in Callers : WF_vars(CallerStep(p))
    /\ WF_vars(WriterStep)
    /\ WF_vars(ReaderStep)
    /\ WF_vars(CloseConn \/ CloseEnds)

FairSpec == Spec /\ Fairness

-----------------------------------------------------------------------------
Requests == 1 .. sent
TypeOK ==
    /\ service \in {"control", "other"}
    /\ sent \in 0 .. MaxRequests
    /\ transactions \in [Ids -> {0} \cup Requests]
    /\ recent \in Seq(Requests) /\ Len(recent) <= MaxRecent
    /\ writeCh \in Seq(Requests) /\ Len(writeCh) <= TxQueueSize
    /\ writing \in {0} \cup Requests
    /\ writer \in {"running", "done"}
    /\ reader \in {"reading", "deliver", "unmatched", "done"}
    /\ found \in {0} \cup Requests
    /\ reading \in {0} \cup Requests
    /\ closing \in BOOLEAN
    /\ closer \in {"idle", "closing", "waiting", "done"}
    /\ pc \in [Callers -> {"idle", "registered", "submitted", "awaiting", "completing"}]
    /\ req \in [Callers -> {0} \cup Requests]
    /\ written \in [Callers -> {"none", "ok", "failed"}]
    /\ respCh \in [Callers -> {0} \cup Requests]
    /\ timedOut \in [Callers -> BOOLEAN]
    /\ broken \subseteq Requests
    /\ atModem \subseteq Requests
    /\ evicted \subseteq Requests
    /\ surfaced \subseteq Requests

\* A caller is given the response to its own request and no other, although
\* responses are matched by a transaction id that is used again and again,
\* come in any order, and may come after their request was given up.
OwnResponse == \A p \in InFlight : respCh[p] \in {0, req[p]}

\* The table holds exactly the requests in flight: a response in time finds
\* its caller, or that caller was already woken by a closed channel, and
\* nothing is left behind for a later request with the same id to run into.
TableAccurate ==
    /\ \A p \in InFlight : transactions[IdOf(req[p])] = req[p] \/ req[p] \in broken
    /\ Registered \subseteq {req[p] : p \in InFlight}

\* readLoop never sends on a channel that failPendingTransactions closed,
\* which would panic, though it looks the entry up before it sends and does
\* not hold c.mu between the two.
NoSendOnClosed == reader = "deliver" => found \notin broken

\* A response that comes after its request timed out does not turn into an
\* event, unless so many requests timed out since, or so much time passed,
\* that it was forgotten, or Close has begun.  The control service is the
\* exception: its late responses are never recognised, and all become events.
LateResponseAbsorbed == closing \/ service = "control" \/ surfaced \subseteq evicted

\* Close comes to an end, and every caller leaves SendRequest, wherever in it
\* he was and even if he entered it after Close, without the help of anybody's
\* deadline.
CloseReleases ==
    \A p \in Callers : closing ~> closer = "done" /\ pc[p] = "idle"

\* As long as the read loop runs, a request that was sent gets its answer: no
\* entry is lost that its caller would then wait for in vain.
SentIsAnswered ==
    \A p \in Callers :
        [](reader # "done") => (pc[p] = "awaiting" ~> pc[p] # "awaiting")

\* The table of pending requests holds those in flight, nothing is sent on the channel of a
\* request that was failed, and an answer that comes after its request has timed out is
\* recognised, but for those of the control service (registerTransaction,
\* failPendingTransactions, readLoop).
TableSound == TableAccurate /\ NoSendOnClosed /\ LateResponseAbsorbed
=============================================================================
