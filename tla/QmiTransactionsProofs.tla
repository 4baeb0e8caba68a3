------------------------- MODULE QmiTransactionsProofs -------------------------
(***************************************************************************)
(* The safety of the request table for any number of callers, ids and      *)
(* requests and any sizes of the queue and of the memory of timed-out      *)
(* requests.  TransactionInv is inductive; it is proved in layers, each    *)
(* using the ones before it: types; ids that do not clash; the one place   *)
(* where each request is; what a caller knows of his request; the table    *)
(* and the closed channels; the read loop; and the requests that timed out.*)
(***************************************************************************)
EXTENDS QmiTransactions, QueueLemmas

USE TransactionAssumption

\* The requests of the callers that are in SendRequest.
Asked == {req[p] : p \in InFlight}

\* Requests in flight or on their way have different ids, so that a lookup by
\* id is a lookup of the request.
IdsApart ==
    /\ Asked \subseteq Requests
    /\ \A p, q \in InFlight : IdOf(req[p]) = IdOf(req[q]) => p = q
    /\ \A r \in Asked, s \in Outstanding : IdOf(r) = IdOf(s) => r = s
    /\ \A r, s \in Outstanding : IdOf(r) = IdOf(s) => r = s

\* A request is queued, with the writer, at the modem or being read, and not
\* two of these, and it is queued once.
OnePlace ==
    /\ \A i, j \in DOMAIN writeCh : writeCh[i] = writeCh[j] => i = j
    /\ ToSet(writeCh) \cap (atModem \cup {writing, reading}) = {}
    /\ {writing, reading} \cap atModem = {}
    /\ writing = reading => writing = 0

\* Nothing is left of a request when SendRequest has returned.
IdleInv == \A p \in Callers : pc[p] = "idle" => written[p] = "none" /\ respCh[p] = 0

\* What a caller's place, its write result and its channel say of the request.
CallersKnow ==
    \A p \in InFlight :
        /\ pc[p] = "registered" =>
              written[p] = "none" /\ respCh[p] = 0 /\ req[p] \notin Outstanding
        /\ written[p] # "none" => req[p] \notin ToSet(writeCh) \cup {writing}
        /\ written[p] = "failed" => req[p] \notin Outstanding
        /\ respCh[p] # 0 => respCh[p] = req[p] /\ req[p] \notin Outstanding

\* The table holds the requests in flight, and closed channels are left only
\* when nobody reads.
TableInv ==
    /\ TableAccurate
    /\ \A i \in Ids : transactions[i] # 0 => IdOf(transactions[i]) = i
    /\ broken # {} => reader = "done"

\* What readLoop looked up is what it read, until it is done with it.
ReaderInv ==
    /\ reader \in {"reading", "done"} => found = 0 /\ reading = 0
    /\ reader = "deliver" => found = reading /\ reading # 0
    /\ reader = "unmatched" => found = 0 /\ reading # 0 /\ reading \notin Asked

\* A caller that leaves with its request still on the way remembers it, and it
\* is remembered until the answer comes or it is forgotten.
LateInv ==
    closing \/ reader = "done" \/
        /\ \A p \in InFlight :
              pc[p] = "completing" /\ ~timedOut[p] => req[p] \notin Outstanding
        /\ Outstanding \subseteq Asked \cup ToSet(recent) \cup evicted

TransactionInv ==
    /\ TypeOK /\ IdsApart /\ OnePlace /\ IdleInv /\ CallersKnow /\ TableInv /\ ReaderInv
    /\ LateInv /\ LateResponseAbsorbed

-----------------------------------------------------------------------------
\* Every request has an id (allocateTransaction).
LEMMA IdFacts ==
    ASSUME NEW r \in Nat \ {0}
    PROVE  IdOf(r) \in Ids
  BY DEF TransactionAssumption, IdOf, Ids

\* Forget drops nothing of another id.
LEMMA ForgetFacts ==
    ASSUME NEW S, NEW s \in Seq(S), NEW id
    PROVE  /\ Forget(s, id) \in Seq(S)
           /\ Len(Forget(s, id)) <= Len(s)
           /\ \A x \in ToSet(s) : IdOf(x) # id => x \in ToSet(Forget(s, id))
  <1>1. Len(s) \in Nat /\ DOMAIN s = 1 .. Len(s) /\ \A i \in 1 .. Len(s) : s[i] \in S
    BY LenProperties, ElementOfSeq
  <1>2. CASE ~ \E k \in DOMAIN s : IdOf(s[k]) = id
    BY <1>1, <1>2 DEF Forget
  <1>3. CASE \E k \in DOMAIN s : IdOf(s[k]) = id
    <2> DEFINE k == CHOOSE i \in DOMAIN s : IdOf(s[i]) = id
               before == SubSeq(s, 1, k - 1)
               after == SubSeq(s, k + 1, Len(s))
    <2>1. k \in 1 .. Len(s) /\ IdOf(s[k]) = id
      BY <1>1, <1>3
    <2>2. Forget(s, id) = before \o after
      BY <1>3 DEF Forget, RemoveAt
    <2> HIDE DEF k
    <2>3. /\ before \in Seq(S) /\ Len(before) = k - 1
          /\ \A i \in 1 .. k - 1 : before[i] = s[i]
      <3>1. 1 \in Int /\ k - 1 \in Int /\ \A i \in 1 .. k - 1 : s[i] \in S
        BY <1>1, <2>1
      <3> QED
        BY <3>1, <2>1, SubSeqProperties
    <2>4. /\ after \in Seq(S) /\ Len(after) = Len(s) - k
          /\ \A i \in 1 .. Len(s) - k : after[i] = s[k + i]
      <3>1. k + 1 \in Int /\ Len(s) \in Int /\ \A i \in k + 1 .. Len(s) : s[i] \in S
        BY <1>1, <2>1
      <3>2. /\ after \in Seq(S)
            /\ Len(after) = IF k + 1 <= Len(s) THEN Len(s) - (k + 1) + 1 ELSE 0
            /\ \A i \in 1 .. Len(s) - (k + 1) + 1 : after[i] = s[(k + 1) + i - 1]
        BY <3>1, SubSeqProperties
      <3>3. /\ (IF k + 1 <= Len(s) THEN Len(s) - (k + 1) + 1 ELSE 0) = Len(s) - k
            /\ Len(s) - (k + 1) + 1 = Len(s) - k
            /\ \A i \in 1 .. Len(s) - k : (k + 1) + i - 1 = k + i
        <4>1. k \in Int /\ Len(s) \in Int /\ k <= Len(s)
          BY <1>1, <2>1
        <4> QED
          BY <4>1
      <3> HIDE DEF after
      <3> QED
        BY <3>2, <3>3
    <2> HIDE DEF before, after
    <2>5. /\ before \o after \in Seq(S) /\ Len(before \o after) = Len(s) - 1
          /\ \A i \in 1 .. Len(s) - 1 :
                (before \o after)[i] = IF i <= k - 1 THEN before[i] ELSE after[i - (k - 1)]
      <3>1. /\ before \o after \in Seq(S)
            /\ Len(before \o after) = Len(before) + Len(after)
            /\ \A i \in 1 .. Len(before) + Len(after) : (before \o after)[i] =
                  IF i <= Len(before) THEN before[i] ELSE after[i - Len(before)]
        BY <2>3, <2>4, ConcatProperties
      <3>2. Len(before) + Len(after) = Len(s) - 1
        BY <2>3, <2>4, <2>1, <1>1
      <3> QED
        BY <3>1, <3>2, <2>3
    <2>6. DOMAIN (before \o after) = 1 .. Len(s) - 1
      BY <2>5, LenProperties
    <2>7. ASSUME NEW x \in ToSet(s), IdOf(x) # id
          PROVE  x \in ToSet(before \o after)
      <3>1. PICK i \in 1 .. Len(s) : x = s[i]
        BY <1>1 DEF ToSet
      <3>2. i # k
        BY <2>1, <2>7, <3>1
      <3>3. CASE i < k
        <4>1. i \in 1 .. Len(s) - 1 /\ i \in 1 .. k - 1
          BY <3>3, <2>1, <1>1
        <4>2. (before \o after)[i] = s[i]
          BY <4>1, <2>5, <2>3
        <4> QED
          BY <4>1, <4>2, <2>6, <3>1 DEF ToSet
      <3>4. CASE i > k
        <4>1. /\ i - 1 \in 1 .. Len(s) - 1 /\ ~(i - 1 <= k - 1)
              /\ i - k \in 1 .. Len(s) - k /\ (i - 1) - (k - 1) = i - k /\ k + (i - k) = i
          BY <3>4, <2>1, <1>1
        <4>2. (before \o after)[i - 1] = s[i]
          BY <4>1, <2>5, <2>4
        <4> QED
          BY <4>1, <4>2, <2>6, <3>1 DEF ToSet
      <3> QED
        BY <3>2, <3>3, <3>4, <2>1
    <2> QED
      BY <2>2, <2>5, <2>7, <1>1
  <1> QED
    BY <1>2, <1>3

\* Remember keeps the size of its memory, and forgets nothing silently but an
\* older request of the same id.
LEMMA RememberTypes ==
    ASSUME TypeOK, NEW r \in Requests, Remember(r)
    PROVE  /\ recent' \in Seq(Requests) /\ Len(recent') <= MaxRecent
           /\ evicted' \subseteq Requests
           /\ r \in ToSet(recent')
           /\ \A x \in ToSet(recent) \cup evicted :
                 IdOf(x) # IdOf(r) => x \in ToSet(recent') \cup evicted'
  <1> DEFINE full == Len(recent) >= MaxRecent
             kept == IF full THEN Tail(recent) ELSE recent
  <1>1. recent \in Seq(Requests) /\ Len(recent) \in Nat /\ Len(recent) <= MaxRecent
    BY LenProperties DEF TypeOK
  <1>2. full => recent # <<>>
    BY <1>1, EmptySeq DEF TransactionAssumption
  <1>3. /\ full => Head(recent) \in Requests /\ Len(Tail(recent)) = Len(recent) - 1
        /\ full => ToSet(recent) = {Head(recent)} \cup ToSet(kept)
        /\ kept \in Seq(Requests)
    BY <1>1, <1>2, HeadTailProperties, HeadTailSet
  <1>4. Len(kept) \in Nat /\ Len(kept) + 1 <= MaxRecent
    BY <1>1, <1>3 DEF TransactionAssumption
  <1>5. /\ recent' = Append(Forget(kept, IdOf(r)), r)
        /\ evicted' = IF full THEN evicted \cup {Head(recent)} ELSE evicted
    BY DEF Remember
  <1>6. \A x \in ToSet(recent) : x \in ToSet(kept) \cup evicted'
    BY <1>3, <1>5
  <1>7. evicted \subseteq evicted' /\ evicted' \subseteq Requests
    BY <1>3, <1>5 DEF TypeOK
  <1> HIDE DEF kept
  <1>8. /\ Forget(kept, IdOf(r)) \in Seq(Requests)
        /\ Len(Forget(kept, IdOf(r))) <= Len(kept)
        /\ \A x \in ToSet(kept) : IdOf(x) # IdOf(r) => x \in ToSet(Forget(kept, IdOf(r)))
    BY <1>3, ForgetFacts
  <1>9. /\ recent' \in Seq(Requests) /\ Len(recent') = Len(Forget(kept, IdOf(r))) + 1
        /\ ToSet(recent') = ToSet(Forget(kept, IdOf(r))) \cup {r}
    BY <1>5, <1>8, AppendProperties, AppendSet
  <1>10. Len(Forget(kept, IdOf(r))) \in Nat
    BY <1>8, LenProperties
  <1>11. Len(recent') <= MaxRecent
    BY <1>4, <1>8, <1>9, <1>10 DEF TransactionAssumption
  <1> QED
    BY <1>6, <1>7, <1>8, <1>9, <1>11

-----------------------------------------------------------------------------
\* Requests are numbered from 1 and a new one is none of the old.
LEMMA RequestFacts ==
    ASSUME TypeOK
    PROVE  /\ Requests \subseteq Nat \ {0}
           /\ sent' = sent => Requests' = Requests
           /\ sent' = sent + 1 => Requests \subseteq Requests' /\ sent + 1 \in Requests'
           /\ sent + 1 \notin Requests /\ sent + 1 \in Nat \ {0}
  BY DEF TypeOK, Requests, TransactionAssumption

\* No step of the client takes a variable out of its type.
LEMMA TypeStep ==
    ASSUME TypeOK, IdsApart, ReaderInv
    PROVE  Next => TypeOK'
  <1>1. /\ Requests \subseteq Nat \ {0}
        /\ sent' = sent => Requests' = Requests
        /\ sent' = sent + 1 => Requests \subseteq Requests' /\ sent + 1 \in Requests'
        /\ sent + 1 \in Nat \ {0}
    BY RequestFacts
  <1>2. \A p \in InFlight : req[p] \in Requests
    BY DEF IdsApart, Asked
  <1>3. Len(writeCh) \in Nat /\ Len(recent) \in Nat
    BY LenProperties DEF TypeOK
  <1> USE DEF TypeOK
  <1>4. ASSUME NEW p \in Callers, Register(p)
        PROVE  TypeOK'
    <2>1. sent' \in 0 .. MaxRequests
      BY <1>4 DEF Register, TransactionAssumption
    <2>2. recent' \in Seq(Requests') /\ writeCh' \in Seq(Requests')
      <3>1. Requests \subseteq Requests' /\ recent' = recent /\ writeCh' = writeCh
        BY <1>4, <1>1 DEF Register, writerVars
      <3> QED
        BY <3>1, SeqMonotonic
    <2>3. transactions' \in [Ids -> {0} \cup Requests']
      BY <1>1, <1>4 DEF Register
    <2> QED
      BY <1>1, <1>4, <2>1, <2>2, <2>3 DEF Register, Goto, writerVars, readerVars, closeVars
  <1>5. ASSUME NEW p \in Callers, Submit(p)
        PROVE  TypeOK'
    <2>1. p \in InFlight
      BY <1>5 DEF Submit, InFlight
    <2>2. writeCh' \in Seq(Requests) /\ Len(writeCh') = Len(writeCh) + 1
      BY <1>5, <1>2, <2>1, AppendProperties DEF Submit
    <2> QED
      BY <1>1, <1>3, <1>5, <2>2 DEF Submit, Goto, tableVars, readerVars, closeVars,
         TransactionAssumption
  <1>6. ASSUME NEW p \in Callers, WriteResult(p) \/ Response(p)
        PROVE  TypeOK'
    BY <1>1, <1>6 DEF WriteResult, Response, Goto, tableVars, writerVars, readerVars, closeVars
  <1>7. ASSUME NEW p \in Callers, GiveUp(p) \/ SeesClosed(p)
        PROVE  TypeOK'
    BY <1>1, <1>7 DEF GiveUp, SeesClosed, EndWait, Goto, tableVars, writerVars, readerVars,
       closeVars
  <1>8. ASSUME NEW p \in Callers, Complete(p)
        PROVE  TypeOK'
    <2>1. p \in InFlight
      BY <1>8 DEF Complete, InFlight
    <2>2. /\ recent' \in Seq(Requests) /\ Len(recent') <= MaxRecent
          /\ evicted' \subseteq Requests
      BY <1>2, <1>8, <2>1, RememberTypes DEF Complete
    <2> QED
      BY <1>1, <1>8, <2>2 DEF Complete, Return, Goto, writerVars, readerVars, closeVars
  <1>9. ASSUME TakeWrite PROVE TypeOK'
    <2>1. /\ Head(writeCh) \in Requests /\ Tail(writeCh) \in Seq(Requests)
          /\ Len(Tail(writeCh)) = Len(writeCh) - 1
      BY <1>9, HeadTailProperties DEF TakeWrite
    <2> QED
      BY <1>1, <1>3, <1>9, <2>1, SMTT(30) DEF TakeWrite, tableVars, readerVars, callerVars,
         closeVars,
         TransactionAssumption
  <1>10. ASSUME Write PROVE TypeOK'
    BY <1>1, <1>10 DEF Write, tableVars, readerVars, closeVars
  <1>11. ASSUME WriterStops PROVE TypeOK'
    BY <1>1, <1>11 DEF WriterStops, tableVars, readerVars, callerVars, closeVars
  <1>12. ASSUME NEW r \in atModem, Ignore(r) \/ Read(r)
        PROVE  TypeOK'
    <2>1. IdOf(r) \in Ids
      BY <1>1, IdFacts
    <2> QED
      BY <1>1, <1>12, <2>1 DEF Ignore, Read, tableVars, writerVars, readerVars, callerVars,
         closeVars
  <1>13. ASSUME Deliver PROVE TypeOK'
    BY <1>1, <1>13 DEF Deliver, tableVars, writerVars, closeVars
  <1>14. ASSUME Unmatched PROVE TypeOK'
    <2>1. recent' \in Seq(Requests) /\ Len(recent') <= MaxRecent
      <3>1. recent' \in {recent, Forget(recent, IdOf(reading))}
        BY <1>14 DEF Unmatched
      <3>2. recent' \in Seq(Requests) /\ Len(recent') <= Len(recent)
        BY <3>1, <1>3, ForgetFacts
      <3>3. Len(recent') \in Nat
        BY <3>2, LenProperties
      <3> QED
        BY <3>2, <3>3, <1>3 DEF TransactionAssumption
    <2>2. surfaced' \subseteq Requests
      BY <1>14 DEF Unmatched, ReaderInv
    <2>3. /\ reader' = "reading" /\ reading' = 0 /\ found' = found
          /\ UNCHANGED <<sent, transactions, evicted, writerVars, callerVars, closeVars,
                         broken, atModem>>
      BY <1>14 DEF Unmatched
    <2>4. Requests' = Requests
      BY <1>1, <2>3
    <2>5. recent' \in Seq(Requests') /\ surfaced' \subseteq Requests'
      BY <2>1, <2>2, <2>4
    <2> QED
      BY <2>1, <2>3, <2>4, <2>5 DEF writerVars, callerVars, closeVars
  <1>15. ASSUME Expire PROVE TypeOK'
    <2>1. /\ Head(recent) \in Requests /\ Tail(recent) \in Seq(Requests)
          /\ Len(Tail(recent)) = Len(recent) - 1
      BY <1>15, HeadTailProperties DEF Expire
    <2>2. Requests' = Requests
      BY <1>1, <1>15 DEF Expire
    <2>3. recent' \in Seq(Requests') /\ Len(recent') <= MaxRecent /\ evicted' \subseteq Requests'
      BY <1>3, <1>15, <2>1, <2>2 DEF Expire, TransactionAssumption
    <2> QED
      BY <1>15, <2>2, <2>3 DEF Expire, writerVars, readerVars, callerVars, closeVars
  <1>16. ASSUME FailPending PROVE transactions' \in [Ids -> {0}] /\ broken' \subseteq Requests
    BY <1>1, <1>16 DEF FailPending, Registered
  <1>17. ASSUME ReadFails PROVE TypeOK'
    BY <1>1, <1>16, <1>17 DEF ReadFails, writerVars, callerVars, closeVars
  <1>18. ASSUME ReaderStops PROVE TypeOK'
    BY <1>1, <1>18 DEF ReaderStops, tableVars, writerVars, callerVars, closeVars
  <1>19. ASSUME Close PROVE TypeOK'
    BY <1>1, <1>19 DEF Close, tableVars, writerVars, readerVars, callerVars
  <1>21. ASSUME CloseConn PROVE TypeOK'
    BY <1>1, <1>21 DEF CloseConn, tableVars, writerVars, readerVars, callerVars
  <1>20. ASSUME CloseEnds PROVE TypeOK'
    BY <1>1, <1>16, <1>20 DEF CloseEnds, writerVars, readerVars, callerVars
  <1> QED
    BY <1>4, <1>5, <1>6, <1>7, <1>8, <1>9, <1>10, <1>11, <1>12, <1>13, <1>14, <1>15, <1>16, <1>17,
       <1>18, <1>19, <1>20, <1>21 DEF Next, CallerStep, WriterStep, ReaderStep

-----------------------------------------------------------------------------
\* What the steps do to the requests in flight and to those on their way.
LEMMA RegisterEffect ==
    ASSUME TypeOK, NEW p \in Callers, Register(p)
    PROVE  /\ p \notin InFlight /\ InFlight' = InFlight \cup {p}
           /\ Outstanding' = Outstanding /\ sent' = sent + 1
           /\ req'[p] = sent + 1 /\ \A q \in InFlight : req'[q] = req[q]
           /\ Asked' = Asked \cup {sent + 1}
  <1>1. p \notin InFlight
    BY DEF Register, InFlight
  <1>2. InFlight' = InFlight \cup {p}
    BY DEF Register, Goto, InFlight, TypeOK
  <1>3. Outstanding' = Outstanding
    BY DEF Register, Outstanding, writerVars, readerVars
  <1>4. sent' = sent + 1 /\ req'[p] = sent + 1
    BY DEF Register, TypeOK
  <1>5. \A q \in InFlight : req'[q] = req[q]
    BY <1>1 DEF Register, TypeOK, InFlight
  <1>6. Asked' = Asked \cup {sent + 1}
    BY <1>1, <1>2, <1>4, <1>5 DEF Asked
  <1> QED
    BY <1>1, <1>2, <1>3, <1>4, <1>5, <1>6

\* A frame that is submitted joins the queue and the requests on their way.
LEMMA SubmitEffect ==
    ASSUME TypeOK, IdsApart, NEW p \in Callers, Submit(p)
    PROVE  /\ p \in InFlight /\ InFlight' = InFlight /\ req' = req /\ sent' = sent
           /\ Asked' = Asked /\ req[p] \in Requests
           /\ ToSet(writeCh') = ToSet(writeCh) \cup {req[p]}
           /\ Outstanding' = Outstanding \cup {req[p]}
  <1>1. p \in InFlight /\ req' = req /\ sent' = sent
    BY DEF Submit, InFlight
  <1>2. InFlight' = InFlight
    BY DEF Submit, Goto, InFlight, TypeOK
  <1>3. req[p] \in Requests /\ req[p] # 0
    BY <1>1, RequestFacts DEF IdsApart, Asked
  <1>4. ToSet(writeCh') = ToSet(writeCh) \cup {req[p]}
    BY <1>3, AppendSet DEF Submit, TypeOK
  <1>5. Outstanding' = Outstanding \cup {req[p]}
    BY <1>3, <1>4 DEF Outstanding, Submit, readerVars
  <1> QED
    BY <1>1, <1>2, <1>3, <1>4, <1>5 DEF Asked

\* The steps after these two only take requests on.
Onward ==
    \/ \E p \in Callers : WriteResult(p) \/ Response(p) \/ Complete(p) \/ GiveUp(p) \/ SeesClosed(p)
    \/ WriterStep \/ ReaderStep \/ ReadFails \/ Expire \/ Close \/ CloseConn \/ CloseEnds
    \/ \E r \in atModem : Ignore(r)

\* writerLoop takes one request out of the queue.
LEMMA TakeWriteSet ==
    ASSUME TypeOK, TakeWrite
    PROVE  /\ ToSet(writeCh) = {writing'} \cup ToSet(writeCh') /\ writing = 0
           /\ writing' \in Requests
  BY HeadTailSet, HeadTailProperties DEF TakeWrite, TypeOK

\* Steps that take requests on bring none into flight or on its way.
LEMMA OnwardEffect ==
    ASSUME TypeOK, Onward
    PROVE  /\ sent' = sent /\ InFlight' \subseteq InFlight /\ Asked' \subseteq Asked
           /\ \A q \in InFlight' : req'[q] = req[q]
           /\ Outstanding' \subseteq Outstanding
  <1>1. ASSUME NEW p \in Callers, WriteResult(p) \/ Response(p) \/ Complete(p) \/ GiveUp(p)
                  \/ SeesClosed(p)
        PROVE  /\ sent' = sent /\ InFlight' \subseteq InFlight
               /\ \A q \in InFlight' : req'[q] = req[q]
               /\ Outstanding' = Outstanding
    <2>1. sent' = sent /\ UNCHANGED <<writerVars, readerVars, atModem>>
      BY <1>1 DEF WriteResult, Response, Complete, GiveUp, SeesClosed, EndWait
    <2>2. p \in InFlight /\ \E label : Goto(p, label)
      BY <1>1 DEF WriteResult, Response, Complete, Return, GiveUp, SeesClosed, EndWait,
         InFlight
    <2>3. InFlight' \subseteq InFlight
      BY <2>2 DEF InFlight, Goto, TypeOK
    <2>4. req' = req \/ (pc'[p] = "idle" /\ req' = [req EXCEPT ![p] = 0])
      BY <1>1 DEF WriteResult, Response, Complete, Return, GiveUp, SeesClosed, EndWait, Goto,
         TypeOK
    <2>5. \A q \in InFlight' : req'[q] = req[q]
      BY <2>3, <2>4 DEF InFlight, TypeOK
    <2> QED
      BY <2>1, <2>3, <2>5 DEF Outstanding, writerVars, readerVars
  <1>2. ASSUME TakeWrite \/ Write \/ WriterStops
        PROVE  /\ req' = req /\ sent' = sent /\ pc' = pc /\ Outstanding' \subseteq Outstanding
    <2>1. req' = req /\ sent' = sent /\ pc' = pc /\ reading' = reading
      BY <1>2 DEF TakeWrite, Write, WriterStops, readerVars, callerVars
    <2>2. CASE TakeWrite
      <3>1. ToSet(writeCh') \cup {writing'} = ToSet(writeCh) /\ atModem' = atModem
        BY <2>2, TakeWriteSet DEF TakeWrite
      <3> QED
        BY <2>1, <3>1 DEF Outstanding
    <2>3. CASE Write
      <3>1. writing' = 0 /\ writeCh' = writeCh /\ atModem' \subseteq atModem \cup {writing}
        BY <2>3 DEF Write
      <3> QED
        BY <2>1, <3>1 DEF Outstanding
    <2>4. CASE WriterStops
      BY <2>1, <2>4 DEF Outstanding, WriterStops
    <2> QED
      BY <1>2, <2>1, <2>2, <2>3, <2>4
  <1>3. ASSUME NEW r \in atModem, Ignore(r) \/ Read(r)
        PROVE  /\ req' = req /\ sent' = sent /\ pc' = pc /\ Outstanding' \subseteq Outstanding
    <2>1. req' = req /\ sent' = sent /\ pc' = pc /\ writeCh' = writeCh /\ writing' = writing
      BY <1>3 DEF Ignore, Read, callerVars, writerVars
    <2>2. atModem' \subseteq atModem /\ reading' \in {reading, r}
      BY <1>3 DEF Ignore, Read, readerVars
    <2> QED
      BY <2>1, <2>2 DEF Outstanding
  <1>4. ASSUME \/ Deliver \/ Unmatched \/ ReaderStops \/ ReadFails \/ Expire \/ Close
                  \/ CloseConn \/ CloseEnds
        PROVE  /\ req' = req /\ sent' = sent /\ pc' = pc /\ Outstanding' \subseteq Outstanding
    <2>1. /\ req' = req /\ sent' = sent /\ pc' = pc
          /\ writeCh' = writeCh /\ writing' = writing /\ atModem' = atModem
      BY <1>4 DEF Deliver, Unmatched, ReaderStops, ReadFails, Expire, Close, CloseConn, CloseEnds,
         callerVars, writerVars
    <2>2. reading' \in {reading, 0}
      BY <1>4 DEF Deliver, Unmatched, ReaderStops, ReadFails, Expire, Close, CloseConn, CloseEnds,
         readerVars
    <2> QED
      BY <2>1, <2>2 DEF Outstanding
  <1> QED
    BY <1>1, <1>2, <1>3, <1>4 DEF Onward, WriterStep, ReaderStep, InFlight, Asked

\* Only registering and submitting are not such steps.
LEMMA NextCases ==
    ASSUME Next
    PROVE  Onward \/ \E p \in Callers : Register(p) \/ Submit(p)
  BY DEF Next, Onward, CallerStep

-----------------------------------------------------------------------------
\* No step gives one id to two requests that are in flight or on their way.
LEMMA IdsStep ==
    ASSUME TypeOK, IdsApart, Next
    PROVE  IdsApart'
  <1>1. /\ sent' = sent => Requests' = Requests
        /\ sent' = sent + 1 => Requests \subseteq Requests' /\ sent + 1 \in Requests'
    BY RequestFacts
  <1>2. ASSUME NEW p \in Callers, Register(p)
        PROVE  IdsApart'
    <2>1. /\ \A q \in InFlight : IdOf(req[q]) # IdOf(sent + 1)
          /\ \A r \in Outstanding : IdOf(r) # IdOf(sent + 1)
      BY <1>2 DEF Register
    <2> QED
      BY <1>1, <1>2, <2>1, RegisterEffect DEF IdsApart, Asked
  <1>3. ASSUME NEW p \in Callers, Submit(p)
        PROVE  IdsApart'
    BY <1>1, <1>3, SubmitEffect DEF IdsApart, Asked
  <1>4. CASE Onward
    BY <1>1, <1>4, OnwardEffect DEF IdsApart
  <1> QED
    BY <1>2, <1>3, <1>4, NextCases

-----------------------------------------------------------------------------
\* What the queue, the memory and the modem hold are requests.
LEMMA QueueFacts ==
    ASSUME TypeOK
    PROVE  /\ Len(writeCh) \in Nat /\ DOMAIN writeCh = 1 .. Len(writeCh)
           /\ ToSet(writeCh) \subseteq Requests /\ 0 \notin ToSet(writeCh)
           /\ ToSet(recent) \subseteq Requests
           /\ atModem \subseteq Requests /\ 0 \notin Requests
  <1>1. /\ Len(writeCh) \in Nat /\ DOMAIN writeCh = 1 .. Len(writeCh)
        /\ \A i \in 1 .. Len(writeCh) : writeCh[i] \in Requests
    BY LenProperties, ElementOfSeq DEF TypeOK
  <1>2. DOMAIN recent = 1 .. Len(recent) /\ \A i \in 1 .. Len(recent) : recent[i] \in Requests
    BY LenProperties, ElementOfSeq DEF TypeOK
  <1>3. ToSet(writeCh) \subseteq Requests /\ ToSet(recent) \subseteq Requests
    BY <1>1, <1>2 DEF ToSet
  <1> QED
    BY <1>1, <1>3, RequestFacts DEF TypeOK

\* No step puts a request in two places.
LEMMA PlaceStep ==
    ASSUME TypeOK, IdsApart, OnePlace, CallersKnow, ReaderInv, Next
    PROVE  OnePlace'
  <1>1. /\ Len(writeCh) \in Nat /\ DOMAIN writeCh = 1 .. Len(writeCh)
        /\ ToSet(writeCh) \subseteq Requests /\ 0 \notin ToSet(writeCh)
        /\ atModem \subseteq Requests /\ 0 \notin Requests
    BY QueueFacts
  <1>2. ASSUME NEW p \in Callers, Register(p) \/ WriteResult(p) \/ Response(p) \/ Complete(p)
                                  \/ GiveUp(p) \/ SeesClosed(p)
        PROVE  OnePlace'
    <2>1. UNCHANGED <<writeCh, writing, reading, atModem>>
      BY <1>2 DEF Register, WriteResult, Response, Complete, GiveUp, SeesClosed, EndWait,
         writerVars, readerVars
    <2> QED
      BY <2>1 DEF OnePlace
  <1>3. ASSUME NEW p \in Callers, Submit(p)
        PROVE  OnePlace'
    <2>1. req[p] \notin Outstanding /\ req[p] \in Requests /\ req[p] # 0
      BY <1>1, <1>3, SubmitEffect DEF CallersKnow, Submit
    <2>2. /\ writeCh' = Append(writeCh, req[p]) /\ DOMAIN writeCh' = 1 .. Len(writeCh) + 1
          /\ \A i \in 1 .. Len(writeCh) : writeCh'[i] = writeCh[i]
          /\ writeCh'[Len(writeCh) + 1] = req[p]
      BY <1>3, <2>1, AppendProperties, LenProperties DEF Submit, TypeOK
    <2>3. req[p] \notin ToSet(writeCh) /\ req[p] \notin atModem \cup {writing, reading}
      BY <2>1 DEF Outstanding
    <2>4. \A i \in 1 .. Len(writeCh) : writeCh[i] # req[p]
      BY <1>1, <2>3 DEF ToSet
    <2>5. \A i, j \in DOMAIN writeCh' : writeCh'[i] = writeCh'[j] => i = j
      BY <1>1, <2>2, <2>4 DEF OnePlace
    <2>6. ToSet(writeCh') = ToSet(writeCh) \cup {req[p]}
      BY <1>3, SubmitEffect
    <2>7. UNCHANGED <<writing, reading, atModem>>
      BY <1>3 DEF Submit, readerVars
    <2> QED
      BY <2>3, <2>5, <2>6, <2>7 DEF OnePlace
  <1>4. ASSUME TakeWrite
        PROVE  OnePlace'
    <2>1. /\ ToSet(writeCh) = {writing'} \cup ToSet(writeCh') /\ writing = 0
          /\ writing' \in Requests /\ reading' = reading /\ atModem' = atModem
      BY <1>4, TakeWriteSet DEF TakeWrite, readerVars
    <2>2. /\ writing' = writeCh[1] /\ DOMAIN writeCh' = 1 .. Len(writeCh) - 1
          /\ \A i \in 1 .. Len(writeCh) - 1 : writeCh'[i] = writeCh[i + 1]
          /\ 1 \in DOMAIN writeCh
      <3>1. /\ writeCh \in Seq(Requests) /\ writeCh # <<>>
            /\ writing' = Head(writeCh) /\ writeCh' = Tail(writeCh)
        BY <1>1, <1>4 DEF TakeWrite, TypeOK
      <3>2. /\ Head(writeCh) = writeCh[1] /\ Len(writeCh') = Len(writeCh) - 1
            /\ \A i \in 1 .. Len(writeCh') : writeCh'[i] = writeCh[i + 1]
            /\ writeCh' \in Seq(Requests)
        BY <3>1, HeadTailProperties
      <3>3. /\ DOMAIN writeCh = 1 .. Len(writeCh) /\ DOMAIN writeCh' = 1 .. Len(writeCh')
            /\ Len(writeCh) \in Nat /\ Len(writeCh) # 0
        BY <3>1, <3>2, LenProperties, EmptySeq
      <3> QED
        BY <3>1, <3>2, <3>3
    <2>3. ASSUME NEW i \in DOMAIN writeCh', NEW j \in DOMAIN writeCh', writeCh'[i] = writeCh'[j]
          PROVE  i = j
      <3>1. /\ i + 1 \in DOMAIN writeCh /\ j + 1 \in DOMAIN writeCh
            /\ writeCh[i + 1] = writeCh[j + 1] /\ i \in Int /\ j \in Int
        BY <1>1, <2>2, <2>3
      <3>2. i + 1 = j + 1
        BY <1>1, <3>1 DEF OnePlace
      <3> QED
        BY <3>1, <3>2
    <2>4. writing' \notin ToSet(writeCh')
      <3>1. \A i \in DOMAIN writeCh' : writeCh'[i] = writeCh[i + 1] /\ i + 1 \in DOMAIN writeCh
                                       /\ i + 1 # 1
        BY <1>1, <2>2
      <3> QED
        BY <2>2, <3>1 DEF OnePlace, ToSet
    <2>5. writing' \in ToSet(writeCh) /\ writing' # 0
      BY <1>1, <2>1
    <2> QED
      BY <2>1, <2>3, <2>4, <2>5, SMTT(30) DEF OnePlace
  <1>5. ASSUME Write
        PROVE  OnePlace'
    <2>1. /\ writing' = 0 /\ writing # 0 /\ writeCh' = writeCh /\ reading' = reading
          /\ atModem' \in {atModem, atModem \cup {writing}}
      BY <1>5 DEF Write, readerVars
    <2> QED
      BY <1>1, <2>1 DEF OnePlace
  <1>6. ASSUME NEW r \in atModem, Ignore(r)
        PROVE  OnePlace'
    BY <1>6 DEF Ignore, OnePlace, writerVars, readerVars
  <1>7. ASSUME NEW r \in atModem, Read(r)
        PROVE  OnePlace'
    <2>1. /\ reading' = r /\ atModem' = atModem \ {r} /\ UNCHANGED <<writeCh, writing>>
      BY <1>7 DEF Read, writerVars
    <2> QED
      BY <1>1, <2>1 DEF OnePlace
  <1>8. ASSUME Deliver \/ Unmatched
        PROVE  OnePlace'
    <2>1. reading' = 0 /\ UNCHANGED <<writeCh, writing, atModem>>
      BY <1>8 DEF Deliver, Unmatched, writerVars
    <2> QED
      BY <1>1, <2>1 DEF OnePlace
  <1>9. ASSUME WriterStops \/ ReaderStops \/ ReadFails \/ Expire \/ Close \/ CloseConn \/ CloseEnds
        PROVE  OnePlace'
    <2>1. UNCHANGED <<writeCh, writing, reading, atModem>>
      BY <1>9 DEF WriterStops, ReaderStops, ReadFails, Expire, Close, CloseConn, CloseEnds,
         writerVars,
         readerVars
    <2> QED
      BY <2>1 DEF OnePlace
  <1> QED
    BY <1>2, <1>3, <1>4, <1>5, <1>6, <1>7, <1>8, <1>9
       DEF Next, CallerStep, WriterStep, ReaderStep

-----------------------------------------------------------------------------
\* CallersKnow of one caller.
Knows(p) ==
    /\ pc[p] = "registered" =>
          written[p] = "none" /\ respCh[p] = 0 /\ req[p] \notin Outstanding
    /\ written[p] # "none" => req[p] \notin ToSet(writeCh) \cup {writing}
    /\ written[p] = "failed" => req[p] \notin Outstanding
    /\ respCh[p] # 0 => respCh[p] = req[p] /\ req[p] \notin Outstanding

\* A caller keeps what it knows of its request while it stays where it is.
LEMMA KnowsKept ==
    ASSUME TypeOK, CallersKnow, Onward, NEW p \in InFlight', written'[p] = written[p],
           respCh'[p] = respCh[p],
           pc'[p] = "registered" => pc[p] = "registered",
           req[p] \in ToSet(writeCh') \cup {writing'} => req[p] \in ToSet(writeCh) \cup {writing}
    PROVE  Knows(p)'
  BY OnwardEffect DEF CallersKnow, Knows

\* Only requests in flight are written, answered or waited for.
LEMMA IdleStep ==
    ASSUME TypeOK, IdleInv, Next
    PROVE  IdleInv'
  <1>1. ASSUME NEW p \in Callers,
               \/ Register(p) \/ Submit(p) \/ WriteResult(p) \/ Response(p)
               \/ GiveUp(p) \/ SeesClosed(p)
        PROVE  IdleInv'
    <2>1. UNCHANGED <<written, respCh>> /\ \E label : label # "idle" /\ Goto(p, label)
      BY <1>1 DEF Register, Submit, WriteResult, Response, GiveUp, SeesClosed, EndWait
    <2> QED
      BY <2>1 DEF IdleInv, Goto, TypeOK
  <1>2. ASSUME NEW p \in Callers, Complete(p)
        PROVE  IdleInv'
    BY <1>2 DEF Complete, Return, Goto, IdleInv, TypeOK
  <1>3. ASSUME Write \/ Deliver
        PROVE  IdleInv'
    BY <1>3 DEF Write, Deliver, IdleInv, InFlight
  <1>4. ASSUME \/ TakeWrite \/ WriterStops \/ Unmatched \/ ReaderStops \/ ReadFails \/ Expire
               \/ Close \/ CloseConn \/ CloseEnds \/ \E r \in atModem : Read(r) \/ Ignore(r)
        PROVE  IdleInv'
    <2>1. UNCHANGED <<pc, written, respCh>>
      BY <1>4 DEF TakeWrite, WriterStops, Unmatched, ReaderStops, ReadFails, Expire, Close,
         CloseConn, CloseEnds, Read, Ignore, callerVars
    <2> QED
      BY <2>1 DEF IdleInv
  <1> QED
    BY <1>1, <1>2, <1>3, <1>4 DEF Next, CallerStep, WriterStep, ReaderStep

\* Each caller's place, write result and channel stay in agreement.
LEMMA CallersStep ==
    ASSUME TypeOK, IdsApart, OnePlace, IdleInv, CallersKnow, ReaderInv, Next
    PROVE  CallersKnow'
  <1>1. /\ ToSet(writeCh) \subseteq Requests /\ 0 \notin ToSet(writeCh)
        /\ atModem \subseteq Requests /\ 0 \notin Requests
        /\ Asked \subseteq Requests /\ Outstanding \subseteq Requests
    BY QueueFacts DEF IdsApart, Outstanding, TypeOK
  <1> SUFFICES ASSUME NEW p \in InFlight' PROVE Knows(p)'
    BY DEF CallersKnow, Knows
  <1>2. p \in Callers
    BY DEF InFlight
  <1>3. ASSUME NEW q \in Callers, Register(q)
        PROVE  Knows(p)'
    <2>1. UNCHANGED <<writeCh, writing>>
      BY <1>3 DEF Register, writerVars
    <2>2. CASE p = q
      <3>1. written'[p] = "none" /\ respCh'[p] = 0 /\ req'[p] = sent + 1
        BY <1>3, <1>2, <2>2 DEF Register, TypeOK, IdleInv
      <3> QED
        BY <1>1, <1>3, <3>1, RegisterEffect, RequestFacts DEF Knows
    <2>3. CASE p # q
      <3>1. p \in InFlight /\ req'[p] = req[p]
        BY <1>3, <2>3, RegisterEffect
      <3>2. written'[p] = written[p] /\ respCh'[p] = respCh[p] /\ pc'[p] = pc[p]
        BY <1>3, <1>2, <2>3 DEF Register, Goto, TypeOK
      <3> QED
        BY <1>3, <2>1, <3>1, <3>2, RegisterEffect DEF CallersKnow, Knows
    <2> QED
      BY <2>2, <2>3
  <1>4. ASSUME NEW q \in Callers, Submit(q)
        PROVE  Knows(p)'
    <2>1. /\ q \in InFlight /\ InFlight' = InFlight /\ req' = req
          /\ ToSet(writeCh') = ToSet(writeCh) \cup {req[q]}
          /\ Outstanding' = Outstanding \cup {req[q]}
      BY <1>4, SubmitEffect
    <2>2. /\ UNCHANGED <<writing, written, respCh>> /\ pc[q] = "registered"
          /\ pc' = [pc EXCEPT ![q] = "submitted"]
      BY <1>4 DEF Submit, Goto
    <2>3. CASE p = q
      <3>1. written'[p] = "none" /\ respCh'[p] = 0 /\ pc'[p] = "submitted"
        BY <1>2, <2>1, <2>2, <2>3 DEF CallersKnow, TypeOK
      <3> QED
        BY <3>1 DEF Knows
    <2>4. CASE p # q
      <3>1. req[p] # req[q]
        BY <2>1, <2>4 DEF IdsApart
      <3>2. pc'[p] = pc[p]
        BY <1>2, <2>2, <2>4 DEF TypeOK
      <3> QED
        BY <2>1, <2>2, <3>1, <3>2 DEF CallersKnow, Knows
    <2> QED
      BY <2>3, <2>4
  <1>5. ASSUME NEW q \in Callers, WriteResult(q) \/ Response(q) \/ Complete(q) \/ GiveUp(q)
                                  \/ SeesClosed(q)
        PROVE  Knows(p)'
    <2>1. /\ UNCHANGED <<writeCh, writing>> /\ written'[p] = written[p] /\ respCh'[p] = respCh[p]
          /\ \E label : label # "registered" /\ Goto(q, label)
      <3>1. CASE Complete(q)
        <4>1. p # q
          BY <3>1 DEF Complete, Return, Goto, InFlight, TypeOK
        <4> QED
          BY <1>2, <3>1, <4>1 DEF Complete, Return, writerVars, TypeOK
      <3> QED
        BY <1>5, <3>1 DEF WriteResult, Response, GiveUp, SeesClosed, EndWait, writerVars
    <2>2. pc'[p] = "registered" => pc[p] = "registered"
      BY <1>2, <2>1 DEF Goto, TypeOK
    <2> QED
      BY <1>5, <2>1, <2>2, KnowsKept DEF Onward
  <1>6. ASSUME TakeWrite
        PROVE  Knows(p)'
    <2>1. UNCHANGED <<pc, written, respCh>>
      BY <1>6 DEF TakeWrite, callerVars
    <2>2. Onward
      BY <1>6 DEF Onward, WriterStep
    <2> QED
      BY <1>6, <2>1, <2>2, TakeWriteSet, KnowsKept
  <1>7. ASSUME Write
        PROVE  Knows(p)'
    <2>1. PICK outcome \in {"ok", "failed"} :
             /\ written' = [q \in Callers |->
                              IF q \in InFlight /\ req[q] = writing THEN outcome ELSE written[q]]
             /\ atModem' = IF outcome = "ok" THEN atModem \cup {writing} ELSE atModem
      BY <1>7 DEF Write
    <2>2. /\ writing # 0 /\ writing' = 0 /\ writeCh' = writeCh /\ reading' = reading
          /\ UNCHANGED <<pc, req, respCh>>
      BY <1>7 DEF Write, readerVars
    <2>3. Outstanding' \subseteq Outstanding /\ p \in InFlight
      <3>1. Onward
        BY <1>7 DEF Onward, WriterStep
      <3> QED
        BY <3>1, OnwardEffect
    <2>4. req[p] # 0
      BY <1>1, <2>3 DEF Asked
    <2>5. CASE req[p] = writing
      <3>1. writing \in Outstanding
        BY <2>2 DEF Outstanding
      <3>2. pc[p] # "registered" /\ respCh[p] = 0 /\ written'[p] = outcome
        BY <1>2, <2>1, <2>3, <2>5, <3>1 DEF CallersKnow
      <3>3. req[p] \notin ToSet(writeCh') \cup {writing'}
        BY <2>2, <2>4, <2>5 DEF OnePlace
      <3>4. outcome = "failed" => req[p] \notin Outstanding'
        BY <2>1, <2>2, <2>5 DEF OnePlace, Outstanding
      <3> QED
        BY <2>2, <3>2, <3>3, <3>4, <2>1 DEF Knows
    <2>6. CASE req[p] # writing
      <3>1. written'[p] = written[p]
        BY <1>2, <2>1, <2>6
      <3> QED
        BY <2>2, <2>3, <2>4, <3>1 DEF CallersKnow, Knows
    <2> QED
      BY <2>5, <2>6
  <1>8. ASSUME Deliver
        PROVE  Knows(p)'
    <2>1. /\ respCh' = [q \in Callers |-> IF q \in InFlight /\ req[q] = found /\ respCh[q] = 0
                                          THEN reading ELSE respCh[q]]
          /\ reading' = 0 /\ reader = "deliver"
          /\ UNCHANGED <<pc, req, written, writeCh, writing, atModem>>
      BY <1>8 DEF Deliver, writerVars
    <2>2. p \in InFlight /\ found = reading /\ reading # 0
      BY <2>1 DEF InFlight, ReaderInv
    <2>3. reading \in Outstanding /\ Outstanding' \subseteq Outstanding
      BY <2>1, <2>2 DEF Outstanding
    <2>4. CASE req[p] = found /\ respCh[p] = 0
      <3>1. respCh'[p] = req[p] /\ pc[p] # "registered"
        BY <1>2, <2>1, <2>2, <2>3, <2>4 DEF CallersKnow
      <3>2. req[p] \notin Outstanding'
        BY <2>1, <2>2, <2>4 DEF Outstanding, OnePlace
      <3> QED
        BY <2>1, <2>2, <3>1, <3>2 DEF CallersKnow, Knows
    <2>5. CASE ~(req[p] = found /\ respCh[p] = 0)
      <3>1. respCh'[p] = respCh[p]
        BY <1>2, <2>1, <2>5
      <3> QED
        BY <2>1, <2>2, <2>3, <3>1 DEF CallersKnow, Knows
    <2> QED
      BY <2>4, <2>5
  <1>9. ASSUME \/ WriterStops \/ Unmatched \/ ReaderStops \/ ReadFails \/ Expire
               \/ Close \/ CloseConn \/ CloseEnds \/ \E r \in atModem : Read(r) \/ Ignore(r)
        PROVE  Knows(p)'
    <2>1. UNCHANGED <<pc, written, respCh, writeCh, writing>>
      BY <1>9 DEF WriterStops, Unmatched, ReaderStops, ReadFails, Expire, Close, CloseConn,
         CloseEnds, Read,
         Ignore, callerVars, writerVars
    <2>2. Onward
      BY <1>9 DEF Onward, WriterStep, ReaderStep
    <2> QED
      BY <2>1, <2>2, KnowsKept
  <1> QED
    BY <1>3, <1>4, <1>5, <1>6, <1>7, <1>8, <1>9
       DEF Next, CallerStep, WriterStep, ReaderStep

-----------------------------------------------------------------------------
\* Every step keeps the table to the requests in flight.
LEMMA TableStep ==
    ASSUME TypeOK, IdsApart, TableInv, Next
    PROVE  TableInv'
  <1>1. /\ \A p \in InFlight : req[p] \in Requests /\ req[p] # 0 /\ IdOf(req[p]) \in Ids
        /\ sent + 1 \notin broken /\ sent + 1 # 0 /\ IdOf(sent + 1) \in Ids
    BY RequestFacts, IdFacts DEF IdsApart, Asked, TypeOK
  <1>2. ASSUME NEW p \in Callers, Register(p)
        PROVE  TableInv'
    <2>1. /\ transactions' = [transactions EXCEPT ![IdOf(sent + 1)] = sent + 1]
          /\ UNCHANGED <<broken, reader>>
          /\ \A q \in InFlight : IdOf(req[q]) # IdOf(sent + 1)
      BY <1>2 DEF Register, readerVars
    <2>2. /\ \A i \in Ids : transactions'[i] = IF i = IdOf(sent + 1) THEN sent + 1
                                               ELSE transactions[i]
      BY <2>1 DEF TypeOK
    <2>3. TableAccurate'
      <3>1. \A q \in InFlight' : transactions'[IdOf(req'[q])] = req'[q] \/ req'[q] \in broken'
        BY <1>1, <1>2, <2>1, <2>2, RegisterEffect DEF TableInv, TableAccurate
      <3>2. Registered' \subseteq Registered \cup {sent + 1}
        BY <2>2 DEF Registered
      <3>3. Registered' \subseteq Asked'
        BY <1>2, <3>2, RegisterEffect DEF TableInv, TableAccurate, Asked
      <3> QED
        BY <3>1, <3>3 DEF TableAccurate, Asked
    <2> QED
      BY <2>1, <2>2, <2>3 DEF TableInv
  <1>3. ASSUME NEW p \in Callers, Submit(p)
        PROVE  TableInv'
    <2>1. UNCHANGED <<transactions, broken, reader>>
      BY <1>3 DEF Submit, tableVars, readerVars
    <2> QED
      BY <1>3, <2>1, SubmitEffect DEF TableInv, TableAccurate, Registered
  <1>4. ASSUME NEW p \in Callers, Complete(p)
        PROVE  TableInv'
    <2>1. /\ transactions' = [transactions EXCEPT ![IdOf(req[p])] = 0]
          /\ broken' = broken \ {req[p]} /\ reader' = reader
          /\ req' = [req EXCEPT ![p] = 0] /\ p \in InFlight
          /\ pc' = [pc EXCEPT ![p] = "idle"]
      BY <1>4 DEF Complete, Return, Goto, readerVars, InFlight
    <2>2. \A i \in Ids : transactions'[i] = IF i = IdOf(req[p]) THEN 0 ELSE transactions[i]
      BY <2>1 DEF TypeOK
    <2>3. InFlight' = InFlight \ {p}
      BY <2>1 DEF InFlight, TypeOK
    <2>6. \A q \in InFlight' : q \in InFlight /\ q # p /\ req'[q] = req[q]
      BY <2>1, <2>3 DEF InFlight, TypeOK
    <2>4. \A q \in InFlight' : transactions'[IdOf(req'[q])] = req'[q] \/ req'[q] \in broken'
      BY <1>1, <2>1, <2>2, <2>6 DEF IdsApart, TableInv, TableAccurate
    <2>5. Registered' \subseteq {req'[q] : q \in InFlight'}
      <3> SUFFICES ASSUME NEW i \in Ids, transactions'[i] # 0
                   PROVE  \E q \in InFlight' : transactions'[i] = req'[q]
        BY DEF Registered
      <3>1. transactions'[i] = transactions[i] /\ i # IdOf(req[p])
        BY <2>2
      <3>2. PICK q \in InFlight : transactions[i] = req[q]
        BY <3>1 DEF TableInv, TableAccurate, Registered
      <3>3. IdOf(req[q]) = i
        BY <3>1, <3>2 DEF TableInv
      <3> QED
        BY <2>3, <2>6, <3>1, <3>2, <3>3
    <2> QED
      BY <2>1, <2>2, <2>4, <2>5 DEF TableInv, TableAccurate
  <1>5. ASSUME FailPending, reader = "done" \/ reader' = "done", req' = req, InFlight' = InFlight,
               reader = "done" => reader' = "done"
        PROVE  TableInv'
    <2>1. /\ broken' = broken \cup Registered /\ transactions' = [i \in Ids |-> 0]
          /\ reader' = "done"
      BY <1>5 DEF FailPending
    <2>2. ASSUME NEW q \in InFlight
          PROVE  req[q] \in broken'
      BY <1>1, <2>1, <2>2 DEF TableInv, TableAccurate, Registered
    <2>3. Registered' = {}
      BY <2>1 DEF Registered
    <2> QED
      BY <1>5, <2>1, <2>2, <2>3 DEF TableInv, TableAccurate
  <1>6. ASSUME ReadFails \/ CloseEnds
        PROVE  TableInv'
    BY <1>5, <1>6 DEF ReadFails, CloseEnds, callerVars, readerVars, InFlight
  <1>7. ASSUME Onward, UNCHANGED <<transactions, broken, pc>>, reader = "done" => reader' = "done"
        PROVE  TableInv'
    BY <1>7, OnwardEffect DEF TableInv, TableAccurate, Registered, InFlight
  <1>8. ASSUME NEW p \in Callers, WriteResult(p) \/ Response(p) \/ GiveUp(p) \/ SeesClosed(p)
        PROVE  TableInv'
    <2>1. /\ UNCHANGED <<transactions, broken, reader, req>>
          /\ p \in InFlight /\ \E label : label # "idle" /\ Goto(p, label)
      BY <1>8 DEF WriteResult, Response, GiveUp, SeesClosed, EndWait, tableVars, readerVars,
         InFlight
    <2>2. InFlight' = InFlight
      BY <2>1 DEF InFlight, Goto, TypeOK
    <2> QED
      BY <2>1, <2>2 DEF TableInv, TableAccurate, Registered
  <1>9. ASSUME WriterStep \/ (\E r \in atModem : Read(r) \/ Ignore(r)) \/ Deliver \/ Unmatched
               \/ ReaderStops \/ Expire \/ Close \/ CloseConn
        PROVE  TableInv'
    <2>1. UNCHANGED <<transactions, broken, pc>> /\ (reader = "done" => reader' = "done")
      BY <1>9 DEF WriterStep, TakeWrite, Write, WriterStops, Read, Ignore, Deliver, Unmatched,
         ReaderStops, Expire, Close, CloseConn, tableVars, readerVars, callerVars
    <2>2. Onward
      BY <1>9 DEF Onward, ReaderStep
    <2> QED
      BY <1>7, <2>1, <2>2
  <1> QED
    BY <1>2, <1>3, <1>4, <1>6, <1>8, <1>9 DEF Next, CallerStep, ReaderStep

-----------------------------------------------------------------------------
\* What readLoop looked up stays what it read, the unlock in between included.
LEMMA ReaderInvStep ==
    ASSUME TypeOK, IdsApart, TableInv, ReaderInv, Next
    PROVE  ReaderInv'
  <1>1. Asked \subseteq Requests /\ atModem \subseteq Requests /\ 0 \notin Requests
        /\ Requests \subseteq Nat \ {0}
    BY QueueFacts, RequestFacts DEF IdsApart
  <1>2. ASSUME NEW p \in Callers, Register(p)
        PROVE  ReaderInv'
    <2>1. UNCHANGED readerVars /\ sent + 1 # reading
      BY <1>2, RequestFacts DEF Register, TypeOK
    <2> QED
      BY <1>2, <2>1, RegisterEffect DEF ReaderInv, readerVars
  <1>3. ASSUME NEW p \in Callers, Submit(p)
        PROVE  ReaderInv'
    BY <1>3, SubmitEffect DEF ReaderInv, Submit, readerVars
  <1>4. ASSUME Onward, UNCHANGED <<reader, found, reading>>
        PROVE  ReaderInv'
    BY <1>4, OnwardEffect DEF ReaderInv
  <1>5. ASSUME NEW r \in atModem, Read(r)
        PROVE  ReaderInv'
    <2>1. /\ reading' = r /\ found' = transactions[IdOf(r)] /\ reader = "reading"
          /\ reader' = IF found' # 0 THEN "deliver" ELSE "unmatched"
          /\ UNCHANGED <<pc, req>>
      BY <1>5 DEF Read, callerVars
    <2>2. r \in Outstanding /\ r # 0 /\ IdOf(r) \in Ids
      BY <1>1, IdFacts DEF Outstanding
    <2>3. broken = {}
      BY <2>1 DEF TableInv
    <2>4. ASSUME found' # 0
          PROVE  found' = r
      <3>1. found' \in Asked /\ IdOf(found') = IdOf(r)
        BY <2>1, <2>2, <2>4 DEF TableInv, TableAccurate, Registered, Asked
      <3> QED
        BY <2>2, <3>1 DEF IdsApart
    <2>5. ASSUME r \in Asked
          PROVE  found' # 0
      BY <2>1, <2>2, <2>3, <2>5 DEF TableInv, TableAccurate, Asked
    <2>6. Asked' = Asked
      BY <2>1 DEF Asked, InFlight
    <2> QED
      BY <2>1, <2>2, <2>4, <2>5, <2>6 DEF ReaderInv
  <1>6. ASSUME Deliver \/ Unmatched
        PROVE  ReaderInv'
    BY <1>6 DEF ReaderInv, Deliver, Unmatched
  <1>7. ASSUME ReadFails \/ ReaderStops
        PROVE  ReaderInv'
    BY <1>7 DEF ReaderInv, ReadFails, ReaderStops
  <1>8. ASSUME \/ \E p \in Callers : WriteResult(p) \/ Response(p) \/ Complete(p)
                  \/ GiveUp(p) \/ SeesClosed(p)
               \/ WriterStep \/ Expire \/ Close \/ CloseConn \/ CloseEnds
                     \/ \E r \in atModem : Ignore(r)
        PROVE  ReaderInv'
    <2>1. UNCHANGED <<reader, found, reading>>
      BY <1>8 DEF WriteResult, Response, Complete, GiveUp, SeesClosed, EndWait, WriterStep,
         TakeWrite, Write,
         WriterStops, Expire, Close, CloseConn, CloseEnds, Ignore, readerVars
    <2> QED
      BY <1>4, <1>8, <2>1 DEF Onward
  <1> QED
    BY <1>2, <1>3, <1>5, <1>6, <1>7, <1>8 DEF Next, CallerStep, ReaderStep

-----------------------------------------------------------------------------
\* A request given up while on its way stays remembered.
LEMMA LateStep ==
    ASSUME TypeOK, IdsApart, OnePlace, CallersKnow, TableInv, ReaderInv, LateInv, Next
    PROVE  LateInv'
  <1>1. /\ \A p \in InFlight : req[p] \in Requests
        /\ ToSet(recent) \subseteq Requests /\ Outstanding \subseteq Requests
    BY QueueFacts DEF IdsApart, Asked, Outstanding, TypeOK
  <1>2. closing => closing'
    BY DEF Next, Register, CallerStep, Submit, WriteResult, Response, Complete, GiveUp,
       SeesClosed, EndWait,
       WriterStep, TakeWrite, Write, WriterStops, Ignore, ReaderStep, Read, Deliver, Unmatched,
       ReaderStops, ReadFails, Expire, Close, CloseConn, CloseEnds, closeVars
  <1>3. reader = "done" => reader' = "done"
    BY DEF Next, Register, CallerStep, Submit, WriteResult, Response, Complete, GiveUp,
       SeesClosed, EndWait,
       WriterStep, TakeWrite, Write, WriterStops, Ignore, ReaderStep, Read, Deliver, Unmatched,
       ReaderStops, ReadFails, Expire, Close, CloseConn, CloseEnds, readerVars
  <1> SUFFICES ASSUME ~closing', reader' # "done"
               PROVE  /\ \A p \in InFlight' :
                            pc'[p] = "completing" /\ ~timedOut'[p] => req'[p] \notin Outstanding'
                      /\ Outstanding' \subseteq Asked' \cup ToSet(recent') \cup evicted'
    BY DEF LateInv
  <1>4. ~closing /\ reader # "done" /\ broken = {}
    BY <1>2, <1>3 DEF TableInv
  <1>5. /\ \A p \in InFlight :
              pc[p] = "completing" /\ ~timedOut[p] => req[p] \notin Outstanding
        /\ Outstanding \subseteq Asked \cup ToSet(recent) \cup evicted
    BY <1>4 DEF LateInv
  <1> DEFINE Goal == /\ \A p \in InFlight' : pc'[p] = "completing" /\ ~timedOut'[p]
                                                => req'[p] \notin Outstanding'
                     /\ Outstanding' \subseteq Asked' \cup ToSet(recent') \cup evicted'
  <1>6. ASSUME NEW p \in Callers, Register(p)
        PROVE  Goal
    <2>1. UNCHANGED <<recent, evicted, timedOut>> /\ pc' = [pc EXCEPT ![p] = "registered"]
      BY <1>6 DEF Register, Goto
    <2>2. \A q \in InFlight : q # p /\ pc'[q] = pc[q] /\ timedOut'[q] = timedOut[q]
      BY <1>6, <2>1, RegisterEffect DEF TypeOK, InFlight
    <2>3. pc'[p] = "registered"
      BY <2>1 DEF TypeOK
    <2> QED
      BY <1>6, <1>5, <2>1, <2>2, <2>3, RegisterEffect
  <1>7. ASSUME NEW p \in Callers, Submit(p)
        PROVE  Goal
    <2>1. UNCHANGED <<recent, evicted, timedOut>> /\ pc' = [pc EXCEPT ![p] = "submitted"]
      BY <1>7 DEF Submit, Goto, tableVars
    <2>2. \A q \in InFlight : q # p => pc'[q] = pc[q] /\ req[q] # req[p]
      BY <1>7, <2>1, SubmitEffect DEF TypeOK, InFlight, IdsApart
    <2>3. pc'[p] = "submitted" /\ req[p] \in Asked
      BY <1>7, <2>1, SubmitEffect DEF TypeOK, Asked
    <2> QED
      BY <1>7, <1>5, <2>1, <2>2, <2>3, SubmitEffect
  <1>8. ASSUME NEW p \in Callers, WriteResult(p) \/ Response(p) \/ GiveUp(p) \/ SeesClosed(p)
        PROVE  Goal
    <2>1. /\ p \in InFlight /\ UNCHANGED <<recent, evicted, req, Outstanding>>
          /\ \E label : label # "idle" /\ pc' = [pc EXCEPT ![p] = label]
      BY <1>8 DEF WriteResult, Response, GiveUp, SeesClosed, EndWait, Goto, Outstanding, InFlight,
         tableVars,
         writerVars, readerVars
    <2>2. InFlight' = InFlight /\ \A q \in InFlight : q # p => pc'[q] = pc[q]
      BY <2>1 DEF InFlight, TypeOK
    <2>3. \A q \in InFlight : q # p => timedOut'[q] = timedOut[q]
      BY <1>8 DEF WriteResult, Response, GiveUp, SeesClosed, EndWait, TypeOK, InFlight
    <2>4. pc'[p] = "completing" /\ ~timedOut'[p] => req[p] \notin Outstanding
      <3>1. CASE WriteResult(p)
        <4>1. written[p] = "failed" \/ pc'[p] = "awaiting"
          BY <3>1, <2>1 DEF WriteResult, Goto, TypeOK
        <4> QED
          BY <4>1, <2>1 DEF CallersKnow
      <3>2. CASE Response(p)
        BY <3>2, <2>1, <1>4 DEF Response, CallersKnow
      <3>3. CASE GiveUp(p) \/ SeesClosed(p)
        BY <3>3, <1>4 DEF GiveUp, SeesClosed, EndWait, TypeOK
      <3> QED
        BY <1>8, <3>1, <3>2, <3>3
    <2>5. Asked' = Asked
      BY <2>1, <2>2 DEF Asked
    <2> QED
      BY <1>5, <2>1, <2>2, <2>3, <2>4, <2>5
  <1>9. ASSUME NEW p \in Callers, Complete(p)
        PROVE  Goal
    <2>1. /\ p \in InFlight /\ pc[p] = "completing" /\ UNCHANGED Outstanding
          /\ pc' = [pc EXCEPT ![p] = "idle"] /\ req' = [req EXCEPT ![p] = 0]
          /\ timedOut' = [timedOut EXCEPT ![p] = FALSE]
      BY <1>9 DEF Complete, Return, Goto, Outstanding, InFlight, writerVars, readerVars
    <2>2. /\ InFlight' = InFlight \ {p}
          /\ \A q \in InFlight' :
                pc'[q] = pc[q] /\ req'[q] = req[q] /\ timedOut'[q] = timedOut[q]
      BY <2>1 DEF InFlight, TypeOK
    <2>3. Asked \subseteq Asked' \cup {req[p]}
      BY <2>1, <2>2 DEF Asked
    <2>4. ASSUME NEW x \in Outstanding, x # req[p]
          PROVE  x \in Asked' \cup ToSet(recent') \cup evicted'
      <3>1. IdOf(x) # IdOf(req[p])
        BY <2>1, <2>4 DEF IdsApart, Asked
      <3>2. x \in ToSet(recent) \cup evicted => x \in ToSet(recent') \cup evicted'
        BY <1>1, <1>9, <2>1, <3>1, RememberTypes DEF Complete
      <3> QED
        BY <1>5, <2>3, <2>4, <3>2
    <2>5. req[p] \in Outstanding => req[p] \in ToSet(recent')
      <3>1. CASE timedOut[p]
        BY <1>1, <1>9, <2>1, <3>1, RememberTypes DEF Complete
      <3>2. CASE ~timedOut[p]
        BY <1>5, <2>1, <3>2
      <3> QED
        BY <3>1, <3>2
    <2>6. \A q \in InFlight' :
             pc'[q] = "completing" /\ ~timedOut'[q] => req'[q] \notin Outstanding'
      BY <1>5, <2>1, <2>2
    <2> QED
      BY <2>1, <2>4, <2>5, <2>6
  <1>10. ASSUME Onward, UNCHANGED <<recent, evicted, pc, timedOut>>
        PROVE  Goal
    BY <1>10, <1>5, OnwardEffect DEF Asked, InFlight
  <1>11. ASSUME \/ WriterStep \/ (\E r \in atModem : Ignore(r) \/ Read(r)) \/ Deliver
               \/ ReaderStops \/ ReadFails \/ Close \/ CloseConn \/ CloseEnds
        PROVE  Goal
    <2>1. UNCHANGED <<recent, evicted, pc, timedOut>>
      BY <1>11 DEF WriterStep, TakeWrite, Write, WriterStops, Ignore, Read, Deliver, ReaderStops,
         ReadFails, Close, CloseConn, CloseEnds, tableVars, callerVars
    <2>2. Onward
      BY <1>11 DEF Onward, ReaderStep
    <2> QED
      BY <1>10, <2>1, <2>2
  <1>12. ASSUME Unmatched
        PROVE  Goal
    <2>1. /\ recent' \in {recent, Forget(recent, IdOf(reading))}
          /\ reading' = 0 /\ reader = "unmatched"
          /\ UNCHANGED <<writeCh, writing, atModem, pc, timedOut, req, evicted>>
      BY <1>12 DEF Unmatched, writerVars, callerVars
    <2>2. /\ Outstanding' \subseteq Outstanding /\ reading \notin Outstanding'
          /\ reading \in Outstanding
      BY <2>1 DEF Outstanding, OnePlace, ReaderInv
    <2>3. ASSUME NEW x \in Outstanding', x \in ToSet(recent)
          PROVE  x \in ToSet(recent')
      <3>1. IdOf(x) # IdOf(reading)
        BY <2>2, <2>3 DEF IdsApart
      <3> QED
        BY <2>1, <2>3, <3>1, ForgetFacts DEF TypeOK
    <2>4. Asked' = Asked /\ InFlight' = InFlight
      BY <2>1 DEF Asked, InFlight
    <2> QED
      BY <1>5, <2>1, <2>2, <2>3, <2>4
  <1>13. ASSUME Expire
        PROVE  Goal
    <2>1. /\ UNCHANGED <<Outstanding, pc, timedOut, req>> /\ recent' = Tail(recent)
          /\ evicted' = evicted \cup {Head(recent)} /\ recent # <<>>
      BY <1>13 DEF Expire, Outstanding, writerVars, readerVars, callerVars
    <2>2. ToSet(recent) \cup evicted = ToSet(recent') \cup evicted'
      BY <2>1, HeadTailSet DEF TypeOK
    <2>3. Asked' = Asked /\ InFlight' = InFlight
      BY <2>1 DEF Asked, InFlight
    <2> QED
      BY <1>5, <2>1, <2>2, <2>3
  <1> QED
    BY <1>6, <1>7, <1>8, <1>9, <1>11, <1>12, <1>13 DEF Next, CallerStep, ReaderStep

\* A late response is absorbed by the memory.
LEMMA AbsorbedStep ==
    ASSUME TypeOK, ReaderInv, LateInv, LateResponseAbsorbed, Next
    PROVE  LateResponseAbsorbed'
  <1>1. CASE Unmatched
    <2>1. /\ reader = "unmatched" /\ UNCHANGED <<closing, evicted, service>>
          /\ \/ surfaced' = surfaced
             \/ /\ surfaced' = surfaced \cup {reading}
                /\ service = "control" \/ reading \notin ToSet(recent)
      BY <1>1 DEF Unmatched, closeVars
    <2>2. reading \in Outstanding /\ reading \notin Asked
      BY <2>1 DEF ReaderInv, Outstanding
    <2>3. closing \/ reading \in ToSet(recent) \cup evicted
      BY <2>1, <2>2 DEF LateInv
    <2> QED
      BY <2>1, <2>3 DEF LateResponseAbsorbed
  <1>2. CASE Expire
    BY <1>2 DEF Expire, readerVars, closeVars, LateResponseAbsorbed
  <1>3. CASE \E p \in Callers : Complete(p)
    BY <1>3 DEF Complete, Remember, readerVars, closeVars, LateResponseAbsorbed
  <1>4. CASE ~Unmatched /\ ~Expire /\ ~ \E p \in Callers : Complete(p)
    <2>1. UNCHANGED <<surfaced, evicted, service>> /\ (closing => closing')
      BY <1>4 DEF Next, Register, CallerStep, Submit, WriteResult, Response, GiveUp, SeesClosed,
         EndWait,
         WriterStep, TakeWrite, Write, WriterStops, Ignore, ReaderStep, Read, Deliver,
         ReaderStops, ReadFails, Close, CloseConn, CloseEnds, tableVars, readerVars, closeVars
    <2> QED
      BY <2>1 DEF LateResponseAbsorbed
  <1> QED
    BY <1>1, <1>2, <1>3, <1>4

-----------------------------------------------------------------------------
\* NewClient establishes the invariant.
LEMMA TransactionInit ==
    ASSUME Init
    PROVE  TransactionInv
  <1>1. TypeOK
    <2>1. <<>> \in Seq(Requests) /\ Len(<<>>) = 0
      BY EmptySeq
    <2>2. 0 <= MaxRecent /\ 0 <= TxQueueSize /\ 0 \in 0 .. MaxRequests
      BY DEF TransactionAssumption
    <2>3. recent = <<>> /\ writeCh = <<>> /\ sent \in 0 .. MaxRequests
      BY <2>2 DEF Init
    <2>4. /\ recent \in Seq(Requests) /\ Len(recent) <= MaxRecent
          /\ writeCh \in Seq(Requests) /\ Len(writeCh) <= TxQueueSize
      BY <2>1, <2>2, <2>3
    <2> QED
      BY <2>3, <2>4 DEF Init, TypeOK
  <1>2. InFlight = {} /\ Asked = {} /\ Registered = {}
    BY DEF Init, InFlight, Asked, Registered
  <1>3. ToSet(writeCh) = {} /\ DOMAIN writeCh = {} /\ Outstanding = {}
    BY DEF Init, ToSet, Outstanding
  <1> QED
    BY <1>1, <1>2, <1>3 DEF Init, TransactionInv, IdsApart, OnePlace, IdleInv, CallersKnow,
       TableInv,
       TableAccurate, ReaderInv, LateInv, LateResponseAbsorbed

\* TransactionInv holds in every state of the client, whatever its callers,
\* the modem and the transport do.
THEOREM TransactionInvariant == Spec => []TransactionInv
  <1>1. TransactionInv /\ Next => TransactionInv'
    BY TypeStep, IdsStep, PlaceStep, IdleStep, CallersStep, TableStep, ReaderInvStep, LateStep,
       AbsorbedStep
       DEF TransactionInv
  <1>2. TransactionInv /\ UNCHANGED vars => TransactionInv'
    <2> SUFFICES ASSUME TransactionInv, UNCHANGED vars PROVE TransactionInv'
      OBVIOUS
    <2>1. /\ UNCHANGED <<service, sent, transactions, recent, evicted, writeCh, writing>>
          /\ UNCHANGED <<found, reading, surfaced, pc, req, written, respCh, timedOut, closing>>
          /\ UNCHANGED <<writer, reader, closer, broken, atModem>>
      BY DEF vars, tableVars, writerVars, readerVars, callerVars, closeVars
    <2>2. UNCHANGED <<Requests, InFlight, Asked, Outstanding, Registered>>
      BY <2>1 DEF Requests, InFlight, Asked, Outstanding, Registered
    <2>3. TypeOK'
      BY <2>1, <2>2 DEF TransactionInv, TypeOK
    <2>4. IdsApart' /\ OnePlace'
      BY <2>1, <2>2 DEF TransactionInv, IdsApart, OnePlace
    <2>5. IdleInv' /\ CallersKnow' /\ TableInv'
      BY <2>1, <2>2 DEF TransactionInv, IdleInv, CallersKnow, TableInv, TableAccurate
    <2>6. ReaderInv' /\ LateInv' /\ LateResponseAbsorbed'
      BY <2>1, <2>2 DEF TransactionInv, ReaderInv, LateInv, LateResponseAbsorbed
    <2> QED
      BY <2>3, <2>4, <2>5, <2>6 DEF TransactionInv
  <1> QED
    BY TransactionInit, <1>1, <1>2, PTL DEF Spec

\* The client's state is well formed: no entry, queue element or channel
\* holds anything but a request that was registered, and neither writeCh nor
\* recentTransactions outgrows its limit.
THEOREM TransactionTypes == Spec => []TypeOK
  BY TransactionInvariant, PTL DEF TransactionInv

\* SendRequest gives its caller the response to his own request and no other,
\* for any reuse of the ids, any order and any lateness of the responses.
THEOREM ResponsesAreOwn == Spec => []OwnResponse
  <1>1. TransactionInv => OwnResponse
    BY DEF TransactionInv, CallersKnow, OwnResponse
  <1> QED
    BY <1>1, TransactionInvariant, PTL

\* The table of pending requests is accurate, readLoop never sends on a
\* channel that failPendingTransactions closed, and a late response of any
\* service but the control service is recognised (registration, readLoop, completeTransaction).
THEOREM TransactionTable == Spec => []TableSound
  <1>1. TransactionInv => TableSound
    BY DEF TransactionInv, TableInv, ReaderInv, TableSound, NoSendOnClosed
  <1> QED
    BY <1>1, TransactionInvariant, PTL
=============================================================================
