------------------------- MODULE QmiIndicationsProofs --------------------------
(***************************************************************************)
(* The safety of the delivery of indications for any kinds, any number of  *)
(* indications and any size of the queues.  IndicationInv is inductive; it *)
(* is proved in layers: types and the places of the two loops; the store   *)
(* of coalesced events; the newest of each kind; and the order of edges.   *)
(***************************************************************************)
EXTENDS QmiIndications, QueueLemmas

USE IndicationAssumption

\* The read loop holds the indication received last, and stores only kinds
\* that coalesce.
ReaderInv ==
    /\ reader \in {"enqueue", "store"} => incoming = Len(kindOf) /\ incoming # 0
    /\ reader \notin {"enqueue", "store"} => incoming = 0
    /\ reader = "store" => kindOf[incoming] \in Kinds

\* indicationLoop holds something just while it delivers, or when Close found
\* it delivering.
LoopInv ==
    /\ loop \in {"pop", "select"} => outgoing = 0
    /\ loop = "deliver" => outgoing # 0

\* The store keeps an event under its own kind.
StoreInv ==
    /\ StoreSound
    /\ \A k \in Kinds : events[k] # 0 => kindOf[events[k]] = k

\* What NewestKept says, with the newest one named.
InTransit == ToSet(seen) \cup ToSet(eventCh) \cup ToSet(indicationInCh) \cup
             {outgoing, incoming} \cup {events[k] : k \in Kinds}
IsNewest(n, k) == n \in OfKind(k) /\ \A m \in OfKind(k) : m <= n
NewestInv == \A k \in Kinds : \A n \in Received : IsNewest(n, k) => n \in InTransit

\* Edges within one queue, and of one queue before those of the next.
EdgesOf(A) == {n \in A : n # 0 /\ kindOf[n] = Edge}
InOrder(s) ==
    \A i, j \in DOMAIN s : i < j /\ kindOf[s[i]] = Edge /\ kindOf[s[j]] = Edge => s[i] < s[j]
Precede(A, B) == \A m \in EdgesOf(A), n \in EdgesOf(B) : m < n

OrderInv ==
    /\ InOrder(seen) /\ InOrder(eventCh) /\ InOrder(indicationInCh)
    /\ Precede(ToSet(seen),
               ToSet(eventCh) \cup {outgoing} \cup ToSet(indicationInCh) \cup {incoming})
    /\ Precede(ToSet(eventCh), {outgoing} \cup ToSet(indicationInCh) \cup {incoming})
    /\ Precede({outgoing}, ToSet(indicationInCh) \cup {incoming})
    /\ Precede(ToSet(indicationInCh), {incoming})
    /\ EdgesOf(ToSet(seen) \cup ToSet(eventCh) \cup ToSet(indicationInCh) \cup {outgoing, incoming})
          = OfKind(Edge) \ dropped

IndicationInv == TypeOK /\ ReaderInv /\ LoopInv /\ StoreInv /\ NewestInv /\ OrderInv

-----------------------------------------------------------------------------
\* Indications are numbered from 1, and 0 is none.
LEMMA ReceivedFacts ==
    ASSUME TypeOK
    PROVE  /\ Len(kindOf) \in Nat /\ Received = 1 .. Len(kindOf)
           /\ Received \subseteq Nat \ {0} /\ 0 \notin Received
           /\ kindOf' = kindOf => Received' = Received
  <1>1. Len(kindOf) \in Nat /\ DOMAIN kindOf = 1 .. Len(kindOf)
    BY LenProperties DEF TypeOK
  <1> QED
    BY <1>1 DEF Received

\* An indication that arrives takes the next number and leaves the others alone.
LEMMA ReceiveFacts ==
    ASSUME TypeOK, NEW kind \in Kinds \cup {Edge}, Receive(kind)
    PROVE  /\ kindOf' \in Seq(Kinds \cup {Edge}) /\ Len(kindOf') = Len(kindOf) + 1
           /\ Received' = Received \cup {incoming'} /\ incoming' = Len(kindOf)'
           /\ incoming' \notin Received /\ incoming' \in Nat \ {0}
           /\ \A n \in Received : kindOf'[n] = kindOf[n] /\ n < incoming'
           /\ kindOf'[incoming'] = kind
  <1>1. /\ kindOf' \in Seq(Kinds \cup {Edge}) /\ Len(kindOf') = Len(kindOf) + 1
        /\ Len(kindOf) \in Nat /\ Received = 1 .. Len(kindOf)
        /\ Received' = 1 .. (Len(kindOf) + 1)
        /\ \A n \in Received : kindOf'[n] = kindOf[n]
        /\ kindOf'[Len(kindOf) + 1] = kind
    BY AppendPositions DEF Receive, TypeOK, Received
  <1>2. incoming' = Len(kindOf) + 1
    BY DEF Receive
  <1> QED
    BY <1>1, <1>2

\* No step takes a variable out of its type.
LEMMA TypeStep ==
    ASSUME TypeOK, ReaderInv, LoopInv, StoreInv
    PROVE  Next => TypeOK'
  <1>1. /\ kindOf' = kindOf => Received' = Received
        /\ Len(indicationInCh) \in Nat /\ Len(eventCh) \in Nat
    BY ReceivedFacts, LenProperties DEF TypeOK
  <1>2. \A k \in Kinds : k \in ToSet(order) => events[k] # 0
    BY DEF StoreInv, StoreSound, StoreConsistent
  <1> USE DEF TypeOK
  <1>3. ASSUME NEW kind \in Kinds \cup {Edge}, Receive(kind) PROVE TypeOK'
    <2>1. /\ UNCHANGED <<indicationInCh, order, events, signal, eventCh, loop, outgoing>>
          /\ UNCHANGED <<closing, closed, dropped, seen>> /\ reader' = "enqueue"
      BY <1>3 DEF Receive, storeVars, loopVars
    <2>2. /\ Received \subseteq Received' /\ incoming' \in Received'
          /\ kindOf' \in Seq(Kinds \cup {Edge})
      BY <1>3, ReceiveFacts
    <2>3. /\ indicationInCh' \in Seq(Received') /\ eventCh' \in Seq(Received')
          /\ seen' \in Seq(Received')
      BY <2>1, <2>2, SeqMonotonic
    <2>4. events' \in [Kinds -> {0} \cup Received']
      BY <2>1, <2>2
    <2> QED
      BY <2>1, <2>2, <2>3, <2>4
  <1>4. ASSUME Enqueue PROVE TypeOK'
    <2>1. incoming \in Received
      BY <1>4 DEF Enqueue, ReaderInv
    <2>2. indicationInCh' \in Seq(Received) /\ Len(indicationInCh') = Len(indicationInCh) + 1
      BY <1>4, <2>1, AppendProperties DEF Enqueue
    <2>3. Received' = Received /\ Len(indicationInCh') <= IndicationQueueSize
      BY <1>1, <1>4, <2>2 DEF Enqueue, IndicationAssumption
    <2> QED
      BY <1>4, <2>2, <2>3 DEF Enqueue, Dispatched, storeVars, loopVars
  <1>5. ASSUME FindFull \/ SendSignal PROVE TypeOK'
    BY <1>1, <1>5 DEF FindFull, SendSignal, storeVars, loopVars
  <1>6. ASSUME DropEdge PROVE TypeOK'
    BY <1>1, <1>6 DEF DropEdge, Dispatched, ReaderInv, storeVars, loopVars
  <1>7. ASSUME Store PROVE TypeOK'
    <2>1. kindOf[incoming] \in Kinds /\ incoming \in Received
      BY <1>7 DEF Store, ReaderInv
    <2>2. order' \in Seq(Kinds)
      BY <1>7, <2>1, AppendProperties DEF Store
    <2>3. events' \in [Kinds -> {0} \cup Received]
      BY <1>7, <2>1 DEF Store
    <2>4. Received' = Received /\ reader' = "signal" /\ incoming' = 0
      BY <1>1, <1>7 DEF Store
    <2>5. UNCHANGED <<kindOf, indicationInCh, signal, eventCh, loop, outgoing, closing, closed,
                      dropped, seen>>
      BY <1>7 DEF Store, loopVars
    <2> QED
      BY <2>2, <2>3, <2>4, <2>5
  <1>8. ASSUME ReaderStops PROVE TypeOK'
    BY <1>1, <1>8 DEF ReaderStops, storeVars, loopVars
  <1>9. ASSUME PopCoalesced PROVE TypeOK'
    <2>1. Received' = Received
          /\ UNCHANGED <<kindOf, indicationInCh, signal, eventCh, reader, incoming, closing,
                         closed, dropped, seen>>
      BY <1>1, <1>9 DEF PopCoalesced, readerVars
    <2>2. CASE order # <<>>
      <3>1. Head(order) \in Kinds /\ Tail(order) \in Seq(Kinds)
        BY <2>2, HeadTailProperties
      <3>2. /\ order' = Tail(order) /\ outgoing' = events[Head(order)]
            /\ events' = [events EXCEPT ![Head(order)] = 0] /\ loop' = "deliver"
        BY <1>9, <2>2 DEF PopCoalesced
      <3> QED
        BY <2>1, <3>1, <3>2
    <2>3. CASE order = <<>>
      BY <1>9, <2>1, <2>3 DEF PopCoalesced, storeVars
    <2> QED
      BY <2>2, <2>3
  <1>10. ASSUME TakeQueued PROVE TypeOK'
    <2>1. /\ Head(indicationInCh) \in Received /\ Tail(indicationInCh) \in Seq(Received)
          /\ Len(Tail(indicationInCh)) <= IndicationQueueSize
      BY <1>1, <1>10, TailPositions DEF TakeQueued, IndicationAssumption
    <2>2. Received' = Received
      BY <1>1, <1>10 DEF TakeQueued
    <2> QED
      BY <1>10, <2>1, <2>2 DEF TakeQueued, storeVars, readerVars
  <1>11. ASSUME TakeSignal PROVE TypeOK'
    BY <1>1, <1>11 DEF TakeSignal, storeVars, readerVars
  <1>12. ASSUME DeliverEvent PROVE TypeOK'
    <2>1. outgoing \in Received
      BY <1>12 DEF DeliverEvent, LoopInv
    <2>2. eventCh' \in Seq(Received) /\ Len(eventCh') = Len(eventCh) + 1
      BY <1>12, <2>1, AppendProperties DEF DeliverEvent
    <2>3. Received' = Received /\ Len(eventCh') <= IndicationQueueSize
      BY <1>1, <1>12, <2>2 DEF DeliverEvent, IndicationAssumption
    <2> QED
      BY <1>12, <2>2, <2>3 DEF DeliverEvent, storeVars, readerVars
  <1>13. ASSUME LoopStops PROVE TypeOK'
    BY <1>1, <1>13 DEF LoopStops, storeVars, readerVars
  <1>14. ASSUME Consume PROVE TypeOK'
    <2>1. /\ Head(eventCh) \in Received /\ Tail(eventCh) \in Seq(Received)
          /\ Len(Tail(eventCh)) <= IndicationQueueSize
      BY <1>1, <1>14, TailPositions DEF Consume, IndicationAssumption
    <2>2. Received' = Received /\ seen' \in Seq(Received)
      BY <1>1, <1>14, <2>1, AppendProperties DEF Consume
    <2> QED
      BY <1>14, <2>1, <2>2 DEF Consume, storeVars, readerVars, loopVars
  <1>15. ASSUME Close \/ CloseEnds PROVE TypeOK'
    BY <1>1, <1>15 DEF Close, CloseEnds, storeVars, readerVars, loopVars
  <1> QED
    BY <1>3, <1>4, <1>5, <1>6, <1>7, <1>8, <1>9, <1>10, <1>11, <1>12, <1>13, <1>14, <1>15
       DEF Next, DispatchStep, LoopStep

-----------------------------------------------------------------------------
\* The places of the two loops.
LEMMA LoopsStep ==
    ASSUME TypeOK, ReaderInv, LoopInv, StoreInv, Next
    PROVE  ReaderInv' /\ LoopInv'
  <1>1. ASSUME NEW kind \in Kinds \cup {Edge}, Receive(kind)
        PROVE  ReaderInv' /\ LoopInv'
    <2>1. reader' = "enqueue" /\ UNCHANGED loopVars
      BY <1>1 DEF Receive
    <2> QED
      BY <1>1, <2>1, ReceiveFacts DEF ReaderInv, LoopInv, loopVars
  <1>2. ASSUME Enqueue \/ FindFull \/ Store \/ SendSignal \/ DropEdge \/ ReaderStops
        PROVE  ReaderInv' /\ LoopInv'
    BY <1>2 DEF Enqueue, FindFull, Store, SendSignal, DropEdge, ReaderStops, Dispatched,
       ReaderInv, LoopInv, loopVars, TypeOK
  <1>3. ASSUME PopCoalesced
        PROVE  ReaderInv' /\ LoopInv'
    <2>1. order # <<>> => events[Head(order)] # 0
      <3>1. order # <<>> => Head(order) \in ToSet(order) /\ Head(order) \in Kinds
        BY HeadTailSet, HeadTailProperties DEF TypeOK
      <3> QED
        BY <3>1 DEF StoreInv, StoreSound, StoreConsistent
    <2> QED
      BY <1>3, <2>1 DEF PopCoalesced, ReaderInv, LoopInv, readerVars
  <1>4. ASSUME TakeQueued
        PROVE  ReaderInv' /\ LoopInv'
    <2>1. Head(indicationInCh) # 0
      BY <1>4, TailPositions, ReceivedFacts DEF TakeQueued, TypeOK
    <2> QED
      BY <1>4, <2>1 DEF TakeQueued, ReaderInv, LoopInv, readerVars
  <1>5. ASSUME TakeSignal \/ DeliverEvent \/ LoopStops \/ Consume \/ Close \/ CloseEnds
        PROVE  ReaderInv' /\ LoopInv'
    BY <1>5 DEF TakeSignal, DeliverEvent, LoopStops, Consume, Close, CloseEnds, ReaderInv,
       LoopInv, readerVars, loopVars
  <1> QED
    BY <1>1, <1>2, <1>3, <1>4, <1>5 DEF Next, DispatchStep, LoopStep

\* The store stays sound: its keys are kinds and its signal accounts for them.
LEMMA StoreStep ==
    ASSUME TypeOK, ReaderInv, LoopInv, StoreInv, Next
    PROVE  StoreInv'
  <1>1. /\ StoredIsSignalled /\ StoreConsistent
        /\ \A k \in Kinds : events[k] # 0 => kindOf[events[k]] = k
    BY DEF StoreInv, StoreSound
  <1>2. ASSUME NEW kind \in Kinds \cup {Edge}, Receive(kind)
        PROVE  StoreInv'
    <2>1. UNCHANGED <<order, events, loop, signal>> /\ reader = "reading"
      BY <1>2 DEF Receive, storeVars, loopVars
    <2>2. \A k \in Kinds : events[k] # 0 => kindOf'[events[k]] = kindOf[events[k]]
      BY <1>2, ReceiveFacts DEF TypeOK
    <2> QED
      BY <1>1, <2>1, <2>2 DEF StoreInv, StoreSound, StoredIsSignalled, StoreConsistent
  <1>3. ASSUME Store
        PROVE  StoreInv'
    <2> DEFINE kind == kindOf[incoming]
    <2>1. /\ kind \in Kinds /\ incoming # 0 /\ kindOf' = kindOf /\ reader' = "signal"
          /\ order' = IF events[kind] = 0 THEN Append(order, kind) ELSE order
          /\ events' = [events EXCEPT ![kind] = incoming]
      BY <1>3 DEF Store, ReaderInv
    <2> HIDE DEF kind
    <2>2. \A k \in Kinds : events'[k] = IF k = kind THEN incoming ELSE events[k]
      BY <2>1 DEF TypeOK
    <2>3. CASE events[kind] = 0
      <3>1. kind \notin ToSet(order)
        BY <1>1, <2>1, <2>3 DEF StoreConsistent
      <3>2. order' = Append(order, kind) /\ ToSet(order') = ToSet(order) \cup {kind}
        BY <2>1, <2>3, AppendSet DEF TypeOK
      <3>3. IsInjective(order')
        <4>1. /\ DOMAIN order = 1 .. Len(order) /\ DOMAIN order' = 1 .. (Len(order) + 1)
              /\ \A i \in DOMAIN order : order'[i] = order[i]
              /\ order'[Len(order) + 1] = kind /\ Len(order) \in Nat
          BY <2>1, <3>2, AppendPositions DEF TypeOK
        <4>2. \A i \in DOMAIN order : order[i] # kind
          BY <3>1 DEF ToSet
        <4> QED
          BY <1>1, <4>1, <4>2 DEF StoreConsistent, IsInjective
      <3> QED
        BY <1>1, <2>1, <2>2, <3>2, <3>3
           DEF StoreInv, StoreSound, StoredIsSignalled, StoreConsistent, kind
    <2>4. CASE events[kind] # 0
      <3>1. order' = order
        BY <2>1, <2>4
      <3> QED
        BY <1>1, <2>1, <2>2, <2>4, <3>1
           DEF StoreInv, StoreSound, StoredIsSignalled, StoreConsistent, kind
    <2> QED
      BY <2>3, <2>4
  <1>4. ASSUME PopCoalesced, order # <<>>
        PROVE  StoreInv'
    <2>1. /\ order' = Tail(order) /\ events' = [events EXCEPT ![Head(order)] = 0]
          /\ loop' = "deliver" /\ kindOf' = kindOf
      BY <1>4 DEF PopCoalesced
    <2>2. /\ Head(order) = order[1] /\ Head(order) \in Kinds /\ 1 \in DOMAIN order
          /\ \A i \in DOMAIN order' :
                order'[i] = order[i + 1] /\ i + 1 \in DOMAIN order /\ i \in Nat \ {0}
          /\ ToSet(order) = {Head(order)} \cup ToSet(order')
      BY <1>4, <2>1, TailPositions, HeadTailSet DEF TypeOK
    <2>3. \A k \in Kinds : events'[k] = IF k = Head(order) THEN 0 ELSE events[k]
      BY <2>1, <2>2 DEF TypeOK
    <2>4. Head(order) \notin ToSet(order')
      BY <1>1, <2>2 DEF StoreConsistent, IsInjective, ToSet
    <2>5. IsInjective(order')
      BY <1>1, <2>2 DEF StoreConsistent, IsInjective
    <2> QED
      BY <1>1, <2>1, <2>2, <2>3, <2>4, <2>5
         DEF StoreInv, StoreSound, StoredIsSignalled, StoreConsistent
  <1>5. ASSUME UNCHANGED <<kindOf, order, events>>, StoredIsSignalled'
        PROVE  StoreInv'
    BY <1>1, <1>5 DEF StoreInv, StoreSound, StoreConsistent
  <1>6. ASSUME \/ Enqueue \/ FindFull \/ SendSignal \/ DropEdge \/ ReaderStops
               \/ (PopCoalesced /\ order = <<>>) \/ TakeQueued \/ TakeSignal \/ DeliverEvent
               \/ LoopStops \/ Consume \/ Close \/ CloseEnds
        PROVE  StoreInv'
    <2>1. UNCHANGED <<kindOf, order, events>> /\ StoredIsSignalled'
      BY <1>1, <1>6 DEF Enqueue, FindFull, SendSignal, DropEdge, ReaderStops, Dispatched,
         PopCoalesced, TakeQueued, TakeSignal, DeliverEvent, LoopStops, Consume, Close, CloseEnds,
         StoredIsSignalled, storeVars, loopVars, readerVars
    <2> QED
      BY <1>5, <2>1
  <1> QED
    BY <1>2, <1>3, <1>4, <1>6 DEF Next, DispatchStep, LoopStep

-----------------------------------------------------------------------------
\* The newest of each kind stays on its way or has been seen.
LEMMA NewestStep ==
    ASSUME TypeOK, ReaderInv, LoopInv, StoreInv, NewestInv, Next
    PROVE  NewestInv'
  <1>1. Received \subseteq Nat \ {0} /\ Len(kindOf) \in Nat /\ Received = 1 .. Len(kindOf)
    BY ReceivedFacts
  <1>2. ASSUME NEW kind \in Kinds \cup {Edge}, Receive(kind)
        PROVE  NewestInv'
    <2> SUFFICES ASSUME NEW k \in Kinds, NEW n \in Received', IsNewest(n, k)'
                 PROVE  n \in InTransit'
      BY DEF NewestInv
    <2>1. /\ UNCHANGED <<indicationInCh, events, eventCh, outgoing, seen>> /\ incoming = 0
      BY <1>2 DEF Receive, storeVars, loopVars, ReaderInv
    <2>2. CASE n = incoming'
      BY <2>2 DEF InTransit
    <2>3. CASE n # incoming'
      <3>1. n \in Received /\ kindOf[n] = k /\ n < incoming' /\ n # 0 /\ incoming' \in Nat
        BY <1>2, <2>3, <1>1, ReceiveFacts DEF IsNewest, OfKind
      <3>2. \A m \in OfKind(k) : m <= n
        BY <1>2, <3>1, ReceiveFacts DEF IsNewest, OfKind
      <3>3. n \in InTransit
        BY <3>1, <3>2 DEF NewestInv, IsNewest, OfKind
      <3> QED
        BY <2>1, <3>1, <3>3 DEF InTransit
    <2> QED
      BY <2>2, <2>3
  <1>3. ASSUME kindOf' = kindOf,
               \A k \in Kinds : \A n \in InTransit : IsNewest(n, k) => n \in InTransit'
        PROVE  NewestInv'
    BY <1>3, ReceivedFacts DEF NewestInv, IsNewest, OfKind
  <1>4. ASSUME Store
        PROVE  NewestInv'
    <2>1. /\ kindOf[incoming] \in Kinds /\ incoming = Len(kindOf) /\ incoming # 0
          /\ UNCHANGED <<kindOf, indicationInCh, eventCh, outgoing, seen>>
          /\ events' = [events EXCEPT ![kindOf[incoming]] = incoming] /\ incoming' = 0
      BY <1>4 DEF Store, ReaderInv, loopVars
    <2>2. incoming \in Received /\ incoming \in OfKind(kindOf[incoming])
      BY <1>1, <2>1 DEF OfKind
    <2>3. \A k \in Kinds : events'[k] = IF k = kindOf[incoming] THEN incoming ELSE events[k]
      BY <2>1 DEF TypeOK
    <2>4. ASSUME NEW k \in Kinds, NEW n \in InTransit, IsNewest(n, k)
          PROVE  n \in InTransit'
      <3>1. n \in Received /\ n # 0 /\ kindOf[n] = k
        BY <1>1, <2>4 DEF IsNewest, OfKind
      <3>2. CASE k = kindOf[incoming]
        <4>1. n = incoming
          BY <1>1, <2>1, <2>2, <2>4, <3>1, <3>2 DEF IsNewest
        <4> QED
          BY <2>1, <2>3, <4>1 DEF InTransit
      <3>3. CASE k # kindOf[incoming]
        <4>1. n # incoming /\ \A j \in Kinds : n = events[j] => j = k
          BY <3>1, <3>3 DEF StoreInv
        <4> QED
          BY <2>1, <2>3, <2>4, <3>1, <3>3, <4>1 DEF InTransit
      <3> QED
        BY <3>2, <3>3
    <2> QED
      BY <1>3, <2>1, <2>4
  <1>5. ASSUME DropEdge
        PROVE  NewestInv'
    <2>1. /\ UNCHANGED <<kindOf, indicationInCh, events, eventCh, outgoing, seen>>
          /\ kindOf[incoming] = Edge
      BY <1>5 DEF DropEdge, storeVars, loopVars
    <2>2. \A k \in Kinds : ~IsNewest(incoming, k)
      BY <2>1 DEF IsNewest, OfKind, IndicationAssumption
    <2> QED
      BY <1>3, <2>1, <2>2 DEF InTransit
  <1>6. ASSUME kindOf' = kindOf, InTransit \subseteq InTransit' \cup {0}
        PROVE  NewestInv'
    BY <1>1, <1>3, <1>6 DEF IsNewest, OfKind
  <1>7. ASSUME Enqueue
        PROVE  NewestInv'
    <2>1. incoming \in Received
      BY <1>1, <1>7 DEF Enqueue, ReaderInv
    <2>2. ToSet(indicationInCh') = ToSet(indicationInCh) \cup {incoming}
      BY <1>7, <2>1, AppendSet DEF Enqueue, TypeOK
    <2>3. UNCHANGED <<kindOf, events, eventCh, outgoing, seen>>
      BY <1>7 DEF Enqueue, storeVars, loopVars
    <2> QED
      BY <1>6, <2>2, <2>3 DEF InTransit
  <1>8. ASSUME PopCoalesced, order # <<>>
        PROVE  NewestInv'
    <2>1. /\ Head(order) \in Kinds /\ outgoing = 0 /\ outgoing' = events[Head(order)]
          /\ events' = [events EXCEPT ![Head(order)] = 0]
          /\ UNCHANGED <<kindOf, indicationInCh, eventCh, incoming, seen>>
      BY <1>8, HeadTailProperties DEF PopCoalesced, readerVars, TypeOK, LoopInv
    <2>2. \A k \in Kinds : k # Head(order) => events'[k] = events[k]
      BY <2>1 DEF TypeOK
    <2> QED
      BY <1>6, <2>1, <2>2 DEF InTransit
  <1>9. ASSUME TakeQueued
        PROVE  NewestInv'
    <2>1. /\ ToSet(indicationInCh) = {outgoing'} \cup ToSet(indicationInCh') /\ outgoing = 0
          /\ UNCHANGED <<kindOf, events, eventCh, incoming, seen>>
      BY <1>9, HeadTailSet DEF TakeQueued, TypeOK, LoopInv, storeVars, readerVars
    <2> QED
      BY <1>6, <2>1 DEF InTransit
  <1>10. ASSUME DeliverEvent
        PROVE  NewestInv'
    <2>1. outgoing \in Received
      BY <1>10 DEF DeliverEvent, LoopInv, TypeOK
    <2>2. /\ ToSet(eventCh') = ToSet(eventCh) \cup {outgoing}
          /\ UNCHANGED <<kindOf, indicationInCh, events, incoming, seen>>
      BY <1>10, <2>1, AppendSet DEF DeliverEvent, TypeOK, storeVars, readerVars
    <2> QED
      BY <1>6, <2>2 DEF InTransit
  <1>11. ASSUME Consume
        PROVE  NewestInv'
    <2>1. /\ ToSet(eventCh) = {Head(eventCh)} \cup ToSet(eventCh')
          /\ ToSet(seen') = ToSet(seen) \cup {Head(eventCh)}
          /\ UNCHANGED <<kindOf, indicationInCh, events, incoming, outgoing>>
      BY <1>11, HeadTailSet, HeadTailProperties, AppendSet
         DEF Consume, TypeOK, storeVars, readerVars, loopVars
    <2> QED
      BY <1>6, <2>1 DEF InTransit
  <1>12. ASSUME \/ FindFull \/ SendSignal \/ ReaderStops \/ (PopCoalesced /\ order = <<>>)
                \/ TakeSignal \/ LoopStops \/ Close \/ CloseEnds
         PROVE  NewestInv'
    <2>1. UNCHANGED <<kindOf, indicationInCh, events, eventCh, outgoing, incoming, seen>>
      BY <1>12 DEF FindFull, SendSignal, ReaderStops, PopCoalesced, TakeSignal, LoopStops, Close,
         CloseEnds, storeVars, readerVars, loopVars
    <2> QED
      BY <1>6, <2>1 DEF InTransit
  <1> QED
    BY <1>2, <1>4, <1>5, <1>7, <1>8, <1>9, <1>10, <1>11, <1>12 DEF Next, DispatchStep, LoopStep

-----------------------------------------------------------------------------
\* An edge that comes after all of a queue may join its end.
LEMMA AppendInOrder ==
    ASSUME NEW s \in Seq(Received), NEW e \in Received, 0 \notin Received,
           InOrder(s), Precede(ToSet(s), {e})
    PROVE  InOrder(Append(s, e))
  <1>1. /\ DOMAIN s = 1 .. Len(s) /\ DOMAIN Append(s, e) = 1 .. (Len(s) + 1)
        /\ \A i \in DOMAIN s : Append(s, e)[i] = s[i] /\ s[i] \in Received
        /\ Append(s, e)[Len(s) + 1] = e /\ Len(s) \in Nat
    BY AppendPositions, SetOfSeq DEF ToSet
  <1>2. \A i \in DOMAIN s : kindOf[s[i]] = Edge /\ kindOf[e] = Edge => s[i] < e
    BY <1>1 DEF Precede, EdgesOf, ToSet
  <1> QED
    BY <1>1, <1>2 DEF InOrder

\* Taking the head of an ordered queue leaves it ordered, and the head before it.
LEMMA TailInOrder ==
    ASSUME NEW s \in Seq(Received), s # <<>>, InOrder(s)
    PROVE  InOrder(Tail(s)) /\ Precede({Head(s)}, ToSet(Tail(s)))
  <1>1. /\ Head(s) = s[1] /\ 1 \in DOMAIN s
        /\ \A i \in DOMAIN Tail(s) :
              i \in Nat \ {0} /\ Tail(s)[i] = s[i + 1] /\ i + 1 \in DOMAIN s
    BY TailPositions
  <1>2. InOrder(Tail(s))
    BY <1>1 DEF InOrder
  <1>3. Precede({Head(s)}, ToSet(Tail(s)))
    BY <1>1 DEF InOrder, Precede, EdgesOf, ToSet
  <1> QED
    BY <1>2, <1>3

\* Two ordered queues, one before the other, are one ordered queue.
LEMMA ConcatInOrder ==
    ASSUME NEW s \in Seq(Received), NEW t \in Seq(Received), 0 \notin Received,
           InOrder(s), InOrder(t), Precede(ToSet(s), ToSet(t))
    PROVE  /\ s \o t \in Seq(Received) /\ InOrder(s \o t)
           /\ ToSet(s \o t) = ToSet(s) \cup ToSet(t)
  <1>1. /\ s \o t \in Seq(Received) /\ Len(s) \in Nat /\ Len(t) \in Nat
        /\ DOMAIN s = 1 .. Len(s) /\ DOMAIN t = 1 .. Len(t)
        /\ DOMAIN (s \o t) = 1 .. (Len(s) + Len(t))
        /\ \A i \in DOMAIN (s \o t) :
              \/ i \in DOMAIN s /\ (s \o t)[i] = s[i]
              \/ i - Len(s) \in DOMAIN t /\ (s \o t)[i] = t[i - Len(s)] /\ i > Len(s)
        /\ ToSet(s \o t) = ToSet(s) \cup ToSet(t)
    BY ConcatPositions
  <1>2. \A i \in DOMAIN s, j \in DOMAIN t :
           kindOf[s[i]] = Edge /\ kindOf[t[j]] = Edge => s[i] < t[j]
    <2>1. \A i \in DOMAIN s : s[i] \in Received
      BY SetOfSeq, <1>1
    <2>2. \A j \in DOMAIN t : t[j] \in Received
      BY SetOfSeq, <1>1
    <2> QED
      BY <2>1, <2>2 DEF Precede, EdgesOf, ToSet
  <1>3. ASSUME NEW i \in DOMAIN (s \o t), NEW j \in DOMAIN (s \o t), i < j,
               kindOf[(s \o t)[i]] = Edge, kindOf[(s \o t)[j]] = Edge
        PROVE  (s \o t)[i] < (s \o t)[j]
    <2>1. CASE i \in DOMAIN s /\ (s \o t)[i] = s[i]
      <3>1. CASE j \in DOMAIN s /\ (s \o t)[j] = s[j]
        BY <1>3, <2>1, <3>1 DEF InOrder
      <3>2. CASE j - Len(s) \in DOMAIN t /\ (s \o t)[j] = t[j - Len(s)]
        BY <1>2, <1>3, <2>1, <3>2
      <3> QED
        BY <1>1, <3>1, <3>2
    <2>2. CASE i - Len(s) \in DOMAIN t /\ (s \o t)[i] = t[i - Len(s)] /\ i > Len(s)
      <3>1. j - Len(s) \in DOMAIN t /\ (s \o t)[j] = t[j - Len(s)]
        BY <1>1, <1>3, <2>2
      <3>2. i - Len(s) < j - Len(s)
        BY <1>1, <1>3
      <3> QED
        BY <1>3, <2>2, <3>1, <3>2 DEF InOrder
    <2> QED
      BY <1>1, <2>1, <2>2
  <1> QED
    BY <1>1, <1>3 DEF InOrder

-----------------------------------------------------------------------------
\* The parts of OrderInv about pairs of queues, and about all of them.
PairsInOrder ==
    /\ Precede(ToSet(seen),
               ToSet(eventCh) \cup {outgoing} \cup ToSet(indicationInCh) \cup {incoming})
    /\ Precede(ToSet(eventCh), {outgoing} \cup ToSet(indicationInCh) \cup {incoming})
    /\ Precede({outgoing}, ToSet(indicationInCh) \cup {incoming})
    /\ Precede(ToSet(indicationInCh), {incoming})
AllEdges ==
    EdgesOf(ToSet(seen) \cup ToSet(eventCh) \cup ToSet(indicationInCh) \cup {outgoing, incoming})
        = OfKind(Edge) \ dropped

\* OrderInv, part by part.
LEMMA OrderParts ==
    OrderInv <=> InOrder(seen) /\ InOrder(eventCh) /\ InOrder(indicationInCh)
                 /\ PairsInOrder /\ AllEdges
  BY DEF OrderInv, PairsInOrder, AllEdges

\* Every step keeps the edges in order along their way.
LEMMA OrderStep ==
    ASSUME TypeOK, ReaderInv, LoopInv, StoreInv, OrderInv, Next
    PROVE  OrderInv'
  <1>1. /\ Received \subseteq Nat \ {0} /\ 0 \notin Received
        /\ ToSet(seen) \subseteq Received /\ ToSet(eventCh) \subseteq Received
        /\ ToSet(indicationInCh) \subseteq Received
        /\ {outgoing, incoming} \subseteq Received \cup {0}
        /\ dropped \subseteq Received
        /\ kindOf' = kindOf => Received' = Received
    BY ReceivedFacts, SetOfSeq DEF TypeOK
  <1>2. /\ InOrder(seen) /\ InOrder(eventCh) /\ InOrder(indicationInCh)
        /\ PairsInOrder /\ AllEdges
    BY OrderParts
  <1>3. ASSUME NEW kind \in Kinds \cup {Edge}, Receive(kind)
        PROVE  OrderInv'
    <2>1. /\ UNCHANGED <<seen, eventCh, indicationInCh, outgoing, dropped>> /\ incoming = 0
      BY <1>3 DEF Receive, storeVars, loopVars, ReaderInv
    <2>2. /\ Received' = Received \cup {incoming'} /\ incoming' \notin Received
          /\ incoming' \in Nat \ {0}
          /\ \A n \in Received : kindOf'[n] = kindOf[n] /\ n < incoming'
          /\ kindOf'[incoming'] = kind
      BY <1>3, ReceiveFacts
    <2>3. /\ \A i \in DOMAIN seen : seen[i] \in Received
          /\ \A i \in DOMAIN eventCh : eventCh[i] \in Received
          /\ \A i \in DOMAIN indicationInCh : indicationInCh[i] \in Received
      BY <1>1 DEF ToSet
    <2>4. InOrder(seen)' /\ InOrder(eventCh)' /\ InOrder(indicationInCh)'
      BY <1>2, <2>1, <2>2, <2>3 DEF InOrder
    <2>5. PairsInOrder'
      <3>1. ASSUME NEW A, A \subseteq Received \cup {0}, NEW B, B \subseteq Received \cup {0},
                   Precede(A, B),
                   NEW m \in A, NEW n \in B \cup {incoming'},
                   m # 0, n # 0, kindOf'[m] = Edge, kindOf'[n] = Edge
            PROVE  m < n
        <4>1. m \in Received /\ kindOf[m] = Edge /\ m \in EdgesOf(A)
          BY <2>2, <3>1 DEF EdgesOf
        <4>2. CASE n = incoming'
          BY <2>2, <4>1, <4>2
        <4>3. CASE n # incoming'
          <5>1. n \in Received /\ kindOf[n] = Edge /\ n \in EdgesOf(B)
            BY <2>2, <3>1, <4>3 DEF EdgesOf
          <5> QED
            BY <3>1, <4>1, <5>1 DEF Precede
        <4> QED
          BY <4>2, <4>3
      <3>2. Precede(ToSet(seen), ToSet(eventCh) \cup {outgoing} \cup ToSet(indicationInCh))
        BY <1>2 DEF PairsInOrder, Precede, EdgesOf
      <3>3. Precede(ToSet(eventCh), {outgoing} \cup ToSet(indicationInCh))
        BY <1>2 DEF PairsInOrder, Precede, EdgesOf
      <3>4. Precede({outgoing}, ToSet(indicationInCh)) /\ Precede(ToSet(indicationInCh), {})
        BY <1>2 DEF PairsInOrder, Precede, EdgesOf
      <3>5. \A m \in ToSet(seen), n \in ToSet(eventCh) \cup {outgoing} \cup ToSet(indicationInCh)
                                          \cup {incoming'} :
               m # 0 /\ n # 0 /\ kindOf'[m] = Edge /\ kindOf'[n] = Edge => m < n
        BY <1>1, <3>1, <3>2
      <3>6. \A m \in ToSet(eventCh), n \in {outgoing} \cup ToSet(indicationInCh) \cup {incoming'} :
               m # 0 /\ n # 0 /\ kindOf'[m] = Edge /\ kindOf'[n] = Edge => m < n
        BY <1>1, <3>1, <3>3
      <3>7. \A m \in {outgoing}, n \in ToSet(indicationInCh) \cup {incoming'} :
               m # 0 /\ n # 0 /\ kindOf'[m] = Edge /\ kindOf'[n] = Edge => m < n
        BY <1>1, <3>1, <3>4
      <3>8. \A m \in ToSet(indicationInCh), n \in {incoming'} :
               m # 0 /\ n # 0 /\ kindOf'[m] = Edge /\ kindOf'[n] = Edge => m < n
        BY <1>1, <3>1, <3>4
      <3>9. /\ Precede(ToSet(seen), ToSet(eventCh) \cup {outgoing} \cup ToSet(indicationInCh)
                                                              \cup {incoming})'
            /\ Precede(ToSet(eventCh), {outgoing} \cup ToSet(indicationInCh) \cup {incoming})'
        BY <2>1, <3>5, <3>6 DEF Precede, EdgesOf
      <3>10. /\ Precede({outgoing}, ToSet(indicationInCh) \cup {incoming})'
             /\ Precede(ToSet(indicationInCh), {incoming})'
        BY <2>1, <3>7, <3>8 DEF Precede, EdgesOf
      <3> QED
        BY <2>1, <3>9, <3>10 DEF PairsInOrder
    <2>6. AllEdges'
      BY <1>1, <1>2, <2>1, <2>2, ZenonT(40) DEF AllEdges, EdgesOf, OfKind
    <2> QED
      BY <2>4, <2>5, <2>6 DEF OrderInv, PairsInOrder, AllEdges
  <1>4. ASSUME UNCHANGED <<kindOf, seen, eventCh, indicationInCh, dropped>>,
               UNCHANGED <<incoming, outgoing>>
        PROVE  OrderInv'
    BY <1>1, <1>4 DEF OrderInv, InOrder, Precede, EdgesOf, OfKind
  <1>5. ASSUME Enqueue
        PROVE  OrderInv'
    <2>1. /\ incoming \in Received /\ incoming' = 0
          /\ UNCHANGED <<kindOf, seen, eventCh, outgoing, dropped>>
          /\ indicationInCh' = Append(indicationInCh, incoming)
      BY <1>1, <1>5 DEF Enqueue, Dispatched, ReaderInv, TypeOK, loopVars
    <2>2. ToSet(indicationInCh') = ToSet(indicationInCh) \cup {incoming}
      BY <2>1, AppendSet DEF TypeOK
    <2>3. Precede(ToSet(indicationInCh), {incoming})
      BY <1>2 DEF PairsInOrder
    <2>4. InOrder(indicationInCh')
      BY <1>1, <1>2, <2>1, <2>3, AppendInOrder DEF TypeOK
    <2>5. InOrder(seen)' /\ InOrder(eventCh)' /\ InOrder(indicationInCh)'
      BY <1>2, <2>1, <2>4 DEF InOrder
    <2>6. PairsInOrder'
      BY <1>2, <2>1, <2>2 DEF PairsInOrder, Precede, EdgesOf
    <2>7. AllEdges'
      BY <1>1, <1>2, <2>1, <2>2 DEF AllEdges, EdgesOf, OfKind
    <2> QED
      BY <2>5, <2>6, <2>7 DEF OrderInv, PairsInOrder, AllEdges
  <1>6. ASSUME Store \/ DropEdge
        PROVE  OrderInv'
    <2>1. /\ incoming' = 0 /\ incoming # 0 /\ incoming \in Received
          /\ UNCHANGED <<kindOf, seen, eventCh, outgoing, indicationInCh>>
          /\ \/ kindOf[incoming] # Edge /\ dropped' = dropped
             \/ kindOf[incoming] = Edge /\ dropped' = dropped \cup {incoming}
      BY <1>1, <1>6 DEF Store, DropEdge, Dispatched, ReaderInv, TypeOK, loopVars,
         IndicationAssumption
    <2>2. InOrder(seen)' /\ InOrder(eventCh)' /\ InOrder(indicationInCh)'
      BY <1>2, <2>1 DEF InOrder
    <2>3. PairsInOrder'
      BY <1>2, <2>1 DEF PairsInOrder, Precede, EdgesOf
    <2>4. kindOf[incoming] = Edge =>
             incoming \notin ToSet(seen) \cup ToSet(eventCh) \cup ToSet(indicationInCh)
                 \cup {outgoing}
      <3> SUFFICES ASSUME kindOf[incoming] = Edge,
                          NEW A, incoming \in A, Precede(A, {incoming})
                   PROVE  FALSE
        BY <1>2 DEF PairsInOrder, Precede, EdgesOf
      <3>1. incoming \in EdgesOf(A) /\ incoming \in EdgesOf({incoming})
        BY <2>1 DEF EdgesOf
      <3>2. incoming < incoming
        BY <3>1 DEF Precede
      <3> QED
        BY <1>1, <2>1, <3>2
    <2>5. AllEdges'
      BY <1>1, <1>2, <2>1, <2>4 DEF AllEdges, EdgesOf, OfKind
    <2> QED
      BY <2>2, <2>3, <2>5 DEF OrderInv, PairsInOrder, AllEdges
  <1>7. ASSUME PopCoalesced, order # <<>>
        PROVE  OrderInv'
    <2>1. /\ Head(order) \in Kinds /\ Head(order) \in ToSet(order)
      BY <1>7, HeadTailProperties, HeadTailSet DEF TypeOK
    <2>2. /\ outgoing = 0 /\ outgoing' # 0 /\ kindOf[outgoing'] # Edge
          /\ UNCHANGED <<kindOf, seen, eventCh, incoming, indicationInCh, dropped>>
      BY <1>7, <2>1 DEF PopCoalesced, LoopInv, StoreInv, StoreSound, StoreConsistent, readerVars,
         IndicationAssumption
    <2>3. InOrder(seen)' /\ InOrder(eventCh)' /\ InOrder(indicationInCh)'
      BY <1>2, <2>2 DEF InOrder
    <2>4. PairsInOrder'
      BY <1>2, <2>2 DEF PairsInOrder, Precede, EdgesOf
    <2>5. AllEdges'
      BY <1>1, <1>2, <2>2 DEF AllEdges, EdgesOf, OfKind
    <2> QED
      BY <2>3, <2>4, <2>5 DEF OrderInv, PairsInOrder, AllEdges
  <1>8. ASSUME TakeQueued
        PROVE  OrderInv'
    <2>1. /\ indicationInCh # <<>> /\ indicationInCh' = Tail(indicationInCh)
          /\ outgoing' = Head(indicationInCh) /\ outgoing = 0
          /\ UNCHANGED <<kindOf, seen, eventCh, incoming, dropped>>
      BY <1>8 DEF TakeQueued, LoopInv, readerVars
    <2>2. ToSet(indicationInCh) = {outgoing'} \cup ToSet(indicationInCh')
      BY <2>1, HeadTailSet DEF TypeOK
    <2>3. InOrder(indicationInCh') /\ Precede({outgoing'}, ToSet(indicationInCh'))
      BY <1>2, <2>1, TailInOrder DEF TypeOK
    <2>4. InOrder(seen)' /\ InOrder(eventCh)' /\ InOrder(indicationInCh)'
      BY <1>2, <2>1, <2>3 DEF InOrder
    <2>5. PairsInOrder'
      BY <1>2, <2>1, <2>2, <2>3 DEF PairsInOrder, Precede, EdgesOf
    <2>6. AllEdges'
      BY <1>1, <1>2, <2>1, <2>2 DEF AllEdges, EdgesOf, OfKind
    <2> QED
      BY <2>4, <2>5, <2>6 DEF OrderInv, PairsInOrder, AllEdges
  <1>9. ASSUME DeliverEvent
        PROVE  OrderInv'
    <2>1. /\ outgoing \in Received /\ outgoing' = 0 /\ eventCh' = Append(eventCh, outgoing)
          /\ UNCHANGED <<kindOf, seen, incoming, indicationInCh, dropped>>
      BY <1>1, <1>9 DEF DeliverEvent, LoopInv, readerVars
    <2>2. ToSet(eventCh') = ToSet(eventCh) \cup {outgoing}
      BY <2>1, AppendSet DEF TypeOK
    <2>3. Precede(ToSet(eventCh), {outgoing})
      BY <1>2 DEF PairsInOrder, Precede, EdgesOf
    <2>4. InOrder(eventCh')
      BY <1>1, <1>2, <2>1, <2>3, AppendInOrder DEF TypeOK
    <2>5. InOrder(seen)' /\ InOrder(eventCh)' /\ InOrder(indicationInCh)'
      BY <1>2, <2>1, <2>4 DEF InOrder
    <2>6. PairsInOrder'
      BY <1>2, <2>1, <2>2 DEF PairsInOrder, Precede, EdgesOf
    <2>7. AllEdges'
      BY <1>1, <1>2, <2>1, <2>2 DEF AllEdges, EdgesOf, OfKind
    <2> QED
      BY <2>5, <2>6, <2>7 DEF OrderInv, PairsInOrder, AllEdges
  <1>10. ASSUME Consume
        PROVE  OrderInv'
    <2>1. /\ eventCh # <<>> /\ eventCh' = Tail(eventCh) /\ seen' = Append(seen, Head(eventCh))
          /\ UNCHANGED <<kindOf, incoming, outgoing, indicationInCh, dropped>>
      BY <1>10 DEF Consume, readerVars, loopVars
    <2>2. /\ ToSet(eventCh) = {Head(eventCh)} \cup ToSet(eventCh')
          /\ Head(eventCh) \in Received
      BY <2>1, HeadTailSet, HeadTailProperties DEF TypeOK
    <2>3. ToSet(seen') = ToSet(seen) \cup {Head(eventCh)}
      BY <2>1, <2>2, AppendSet DEF TypeOK
    <2>4. InOrder(eventCh') /\ Precede({Head(eventCh)}, ToSet(eventCh'))
      BY <1>2, <2>1, TailInOrder DEF TypeOK
    <2>5. Precede(ToSet(seen), {Head(eventCh)})
      BY <1>2, <2>2 DEF PairsInOrder, Precede, EdgesOf
    <2>6. InOrder(seen')
      BY <1>1, <1>2, <2>1, <2>2, <2>5, AppendInOrder DEF TypeOK
    <2>7. InOrder(seen)' /\ InOrder(eventCh)' /\ InOrder(indicationInCh)'
      BY <1>2, <2>1, <2>4, <2>6 DEF InOrder
    <2>8. PairsInOrder'
      BY <1>2, <2>1, <2>2, <2>3, <2>4 DEF PairsInOrder, Precede, EdgesOf
    <2>9. AllEdges'
      BY <1>1, <1>2, <2>1, <2>2, <2>3 DEF AllEdges, EdgesOf, OfKind
    <2> QED
      BY <2>7, <2>8, <2>9 DEF OrderInv, PairsInOrder, AllEdges
  <1>11. ASSUME \/ FindFull \/ SendSignal \/ ReaderStops \/ (PopCoalesced /\ order = <<>>)
               \/ TakeSignal \/ LoopStops \/ Close \/ CloseEnds
        PROVE  OrderInv'
    <2>1. UNCHANGED <<kindOf, seen, eventCh, indicationInCh, dropped, incoming, outgoing>>
      BY <1>11 DEF FindFull, SendSignal, ReaderStops, PopCoalesced, TakeSignal, LoopStops, Close,
         CloseEnds, storeVars, readerVars, loopVars
    <2> QED
      BY <1>4, <2>1
  <1> QED
    BY <1>3, <1>5, <1>6, <1>7, <1>8, <1>9, <1>10, <1>11 DEF Next, DispatchStep, LoopStep

-----------------------------------------------------------------------------
\* What a variable holds is a queue of at most one.
LEMMA EntryFacts ==
    ASSUME NEW n \in Received \cup {0}
    PROVE  /\ Entry(n) \in Seq(Received) /\ InOrder(Entry(n)) /\ ToSet(Entry(n)) = {n} \ {0}
  <1>1. CASE n = 0
    <2>1. Entry(n) = <<>> /\ <<>> \in Seq(Received) /\ DOMAIN <<>> = {}
      BY <1>1, EmptySeq DEF Entry
    <2> QED
      BY <1>1, <2>1 DEF InOrder, ToSet
  <1>2. CASE n # 0
    <2>1. Entry(n) = <<n>> /\ n \in Received
      BY <1>2 DEF Entry
    <2>2. <<n>> \in Seq(Received) /\ DOMAIN <<n>> = {1} /\ <<n>>[1] = n
      BY <2>1
    <2> QED
      BY <1>2, <2>1, <2>2 DEF InOrder, ToSet
  <1> QED
    BY <1>1, <1>2

\* The places an edge goes through are one ordered queue.
LEMMA WayInOrder ==
    ASSUME TypeOK, OrderInv
    PROVE  /\ Way \in Seq(Received) /\ InOrder(Way)
           /\ ToSet(Way) = (ToSet(seen) \cup ToSet(eventCh) \cup ToSet(indicationInCh)
                              \cup {outgoing, incoming}) \ {0}
  <1>1. /\ 0 \notin Received /\ InOrder(seen) /\ InOrder(eventCh) /\ InOrder(indicationInCh)
        /\ PairsInOrder
        /\ ToSet(seen) \cup ToSet(eventCh) \cup ToSet(indicationInCh) \subseteq Received
    BY ReceivedFacts, OrderParts, SetOfSeq DEF TypeOK
  <1> DEFINE w2 == seen \o eventCh
             w3 == w2 \o Entry(outgoing)
             w4 == w3 \o indicationInCh
             w5 == w4 \o Entry(incoming)
  <1>2. /\ Entry(outgoing) \in Seq(Received) /\ InOrder(Entry(outgoing))
        /\ ToSet(Entry(outgoing)) = {outgoing} \ {0}
        /\ Entry(incoming) \in Seq(Received) /\ InOrder(Entry(incoming))
        /\ ToSet(Entry(incoming)) = {incoming} \ {0}
    BY EntryFacts DEF TypeOK
  <1>3. w2 \in Seq(Received) /\ InOrder(w2) /\ ToSet(w2) = ToSet(seen) \cup ToSet(eventCh)
    <2>1. Precede(ToSet(seen), ToSet(eventCh))
      BY <1>1 DEF PairsInOrder, Precede, EdgesOf
    <2> QED
      BY <1>1, <2>1, ConcatInOrder DEF TypeOK
  <1> HIDE DEF w2
  <1>4. w3 \in Seq(Received) /\ InOrder(w3) /\ ToSet(w3) = ToSet(w2) \cup ({outgoing} \ {0})
    <2>1. Precede(ToSet(w2), ToSet(Entry(outgoing)))
      <3>1. ToSet(w2) = ToSet(seen) \cup ToSet(eventCh)
            /\ ToSet(Entry(outgoing)) \subseteq {outgoing}
        BY <1>2, <1>3
      <3> QED
        BY <1>1, <3>1 DEF PairsInOrder, Precede, EdgesOf
    <2>2. w3 \in Seq(Received) /\ InOrder(w3) /\ ToSet(w3) = ToSet(w2) \cup ToSet(Entry(outgoing))
      BY <1>1, <1>2, <1>3, <2>1, ConcatInOrder
    <2> QED
      BY <1>2, <2>2
  <1> HIDE DEF w3
  <1>5. w4 \in Seq(Received) /\ InOrder(w4) /\ ToSet(w4) = ToSet(w3) \cup ToSet(indicationInCh)
    <2>1. Precede(ToSet(w3), ToSet(indicationInCh))
      BY <1>1, <1>3, <1>4 DEF PairsInOrder, Precede, EdgesOf
    <2> QED
      BY <1>1, <1>4, <2>1, ConcatInOrder DEF TypeOK
  <1> HIDE DEF w4
  <1>6. w5 \in Seq(Received) /\ InOrder(w5) /\ ToSet(w5) = ToSet(w4) \cup ({incoming} \ {0})
    <2>1. Precede(ToSet(w4), ToSet(Entry(incoming)))
      <3>1. /\ ToSet(w4) \subseteq ToSet(seen) \cup ToSet(eventCh) \cup {outgoing}
                                     \cup ToSet(indicationInCh)
            /\ ToSet(Entry(incoming)) \subseteq {incoming}
        BY <1>2, <1>3, <1>4, <1>5
      <3> QED
        BY <1>1, <3>1 DEF PairsInOrder, Precede, EdgesOf
    <2>2. w5 \in Seq(Received) /\ InOrder(w5) /\ ToSet(w5) = ToSet(w4) \cup ToSet(Entry(incoming))
      BY <1>1, <1>2, <1>5, <2>1, ConcatInOrder
    <2> QED
      BY <1>2, <2>2
  <1>7. Way = w5
    BY DEF Way, w2, w3, w4
  <1>8. ToSet(w5) = (ToSet(seen) \cup ToSet(eventCh) \cup ToSet(indicationInCh)
                       \cup {outgoing, incoming}) \ {0}
    BY <1>1, <1>3, <1>4, <1>5, <1>6
  <1> HIDE DEF w5
  <1> QED
    BY <1>6, <1>7, <1>8

-----------------------------------------------------------------------------
\* NewClient establishes the invariant.
LEMMA IndicationInit ==
    ASSUME Init
    PROVE  IndicationInv
  <1>1. /\ kindOf = <<>> /\ indicationInCh = <<>> /\ order = <<>> /\ eventCh = <<>> /\ seen = <<>>
        /\ ToSet(<<>>) = {} /\ DOMAIN <<>> = {} /\ Len(<<>>) = 0 /\ \A S : <<>> \in Seq(S)
    BY EmptySeq DEF Init, ToSet
  <1>2. Received = {}
    BY <1>1 DEF Received
  <1>3. TypeOK
    <2>1. 0 <= IndicationQueueSize
      BY DEF IndicationAssumption
    <2> QED
      BY <1>1, <1>2, <2>1 DEF Init, TypeOK
  <1>4. ReaderInv /\ LoopInv /\ StoreInv
    BY <1>1 DEF Init, ReaderInv, LoopInv, StoreInv, StoreSound, StoredIsSignalled,
       StoreConsistent, IsInjective
  <1>5. NewestInv
    BY <1>2 DEF NewestInv
  <1>6. OrderInv
    BY <1>1, <1>2 DEF Init, OrderInv, InOrder, Precede, EdgesOf, OfKind
  <1> QED
    BY <1>3, <1>4, <1>5, <1>6 DEF IndicationInv

\* IndicationInv holds in every state of the client's read loop, its
\* indicationLoop and the user of Events().
THEOREM IndicationInvariant == Spec => []IndicationInv
  <1>1. IndicationInv /\ Next => IndicationInv'
    BY TypeStep, LoopsStep, StoreStep, NewestStep, OrderStep DEF IndicationInv
  <1>2. IndicationInv /\ UNCHANGED vars => IndicationInv'
    <2> SUFFICES ASSUME IndicationInv, UNCHANGED vars PROVE IndicationInv'
      OBVIOUS
    <2>1. /\ UNCHANGED <<kindOf, indicationInCh, order, events, signal, eventCh, reader, incoming>>
          /\ UNCHANGED <<loop, outgoing, closing, closed, dropped, seen>>
      BY DEF vars, storeVars, readerVars, loopVars
    <2>2. Received' = Received
      BY <2>1 DEF Received
    <2>3. TypeOK'
      BY <2>1, <2>2 DEF IndicationInv, TypeOK
    <2>4. ReaderInv' /\ LoopInv' /\ StoreInv'
      BY <2>1 DEF IndicationInv, ReaderInv, LoopInv, StoreInv, StoreSound, StoredIsSignalled,
         StoreConsistent
    <2>5. NewestInv'
      BY <2>1, <2>2 DEF IndicationInv, NewestInv, IsNewest, OfKind, InTransit
    <2>6. OrderInv'
      BY <2>1, <2>2 DEF IndicationInv, OrderInv, InOrder, Precede, EdgesOf, OfKind
    <2> QED
      BY <2>3, <2>4, <2>5, <2>6 DEF IndicationInv
  <1> QED
    BY IndicationInit, <1>1, <1>2, PTL DEF Spec

\* The queues hold received indications within their limits, and the store
\* only kinds that coalesce.
THEOREM IndicationTypes == Spec => []TypeOK
  BY IndicationInvariant, PTL DEF IndicationInv

\* The coalesced store is consistent, and indicationLoop never sleeps on an
\* event in it (storeCoalescedEvent, popCoalescedEvent).
THEOREM StoreIsSound == Spec => []StoreSound
  <1>1. IndicationInv => StoreSound
    BY DEF IndicationInv, StoreInv
  <1> QED
    BY <1>1, IndicationInvariant, PTL

\* Edges reach Events() in the order of their arrival, each once, and one is
\* missing only if enqueueIndication dropped it.
THEOREM EdgesStayInOrder == Spec => []EdgesInOrder
  <1>1. ASSUME IndicationInv PROVE EdgesInOrder
    <2>1. /\ Way \in Seq(Received) /\ InOrder(Way) /\ 0 \notin Received
          /\ ToSet(Way) = (ToSet(seen) \cup ToSet(eventCh) \cup ToSet(indicationInCh)
                              \cup {outgoing, incoming}) \ {0}
      BY <1>1, WayInOrder, ReceivedFacts DEF IndicationInv
    <2>2. {Way[i] : i \in {j \in DOMAIN Way : kindOf[Way[j]] = Edge}} = EdgesOf(ToSet(Way))
      BY <2>1 DEF EdgesOf, ToSet
    <2>3. EdgesOf(ToSet(Way)) = OfKind(Edge) \ dropped
      BY <1>1, <2>1 DEF IndicationInv, OrderInv, EdgesOf
    <2> QED
      BY <2>1, <2>2, <2>3 DEF EdgesInOrder, InOrder
  <1> QED
    BY <1>1, IndicationInvariant, PTL

\* Of every kind that coalesces the newest indication was delivered or is on
\* its way, however full the queues are.
THEOREM NewestIsKept == Spec => []NewestKept
  <1>1. ASSUME IndicationInv PROVE NewestKept
    <2> SUFFICES ASSUME NEW k \in Kinds, OfKind(k) # {} PROVE Newest(k) \in Held
      BY DEF NewestKept
    <2>1. OfKind(k) \subseteq 1 .. Len(kindOf) /\ Len(kindOf) \in Nat
          /\ 0 \notin Received /\ OfKind(k) \subseteq Received
      BY <1>1, ReceivedFacts DEF IndicationInv, OfKind
    <2>2. \E n \in OfKind(k) : \A m \in OfKind(k) : m <= n
      BY <2>1, GreatestExists
    <2>3. IsNewest(Newest(k), k)
      BY <2>2 DEF Newest, IsNewest
    <2>4. Newest(k) \in InTransit /\ Newest(k) # 0
      BY <1>1, <2>1, <2>3 DEF IndicationInv, NewestInv, IsNewest
    <2> QED
      BY <1>1, <2>4, WayInOrder DEF IndicationInv, InTransit, Held
  <1> QED
    BY <1>1, IndicationInvariant, PTL
=============================================================================
