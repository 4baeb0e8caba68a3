---------------------------- MODULE QmiIndications ----------------------------
(***************************************************************************)
(* How indications get from the read loop of the QMI client to whoever     *)
(* reads Events() (pkg/qmi/client.go): enqueueIndication, the store of     *)
(* coalesced events, indicationLoop and Close.                             *)
(*                                                                         *)
(* Indications of a kind that tells a state are coalesced when the queue   *)
(* is full: only the newest of a kind is kept.  All others are edges: the  *)
(* read loop waits for room, but not for long.  An indication is known by  *)
(* its number in the order of arrival.                                     *)
(***************************************************************************)
EXTENDS Naturals, Sequences, SequencesExt

CONSTANTS Kinds,                \* the kinds that coalesce: coalescingKey's keys
          Edge,                 \* all other kinds
          IndicationQueueSize,  \* capacity of indicationInCh and of eventCh
          MaxIndications        \* bound on the indications received

ASSUME IndicationAssumption ==
    /\ Edge \notin Kinds
    /\ IndicationQueueSize \in Nat \ {0}
    /\ MaxIndications \in Nat

VARIABLES kindOf,          \* the kind of each indication received, by number
          indicationInCh,  \* c.indicationInCh
          order,           \* c.coalesced.order: kinds
          events,          \* c.coalesced.events: the newest of a kind, or 0
          signal,          \* c.coalescedSignalCh is full
          eventCh,         \* c.eventCh
          reader,          \* where readLoop is
          incoming,        \* the indication it dispatches, or 0
          loop,            \* where indicationLoop is
          outgoing,        \* the indication it delivers, or 0
          closing,         \* c.closeCh is closed
          closed,          \* c.eventCh is closed
          dropped,         \* edges dropped: the queue stayed full, or Close came
          seen             \* indications the user of Events() took, in order

storeVars == <<order, events>>
readerVars == <<reader, incoming>>
loopVars == <<loop, outgoing>>
vars == <<kindOf, indicationInCh, storeVars, signal, eventCh, readerVars, loopVars, closing,
          closed, dropped, seen>>

Init ==
    /\ kindOf = <<>>
    /\ indicationInCh = <<>>
    /\ order = <<>>
    /\ events = [k \in Kinds |-> 0]
    /\ signal = FALSE
    /\ eventCh = <<>>
    /\ reader = "reading"
    /\ incoming = 0
    /\ loop = "pop"
    /\ outgoing = 0
    /\ closing = FALSE
    /\ closed = FALSE
    /\ dropped = {}
    /\ seen = <<>>

-----------------------------------------------------------------------------
\* readLoop and dispatchIndication.
Receive(kind) ==
    /\ reader = "reading"
    /\ Len(kindOf) < MaxIndications
    /\ kindOf' = Append(kindOf, kind)
    /\ incoming' = Len(kindOf) + 1
    /\ reader' = "enqueue"
    /\ UNCHANGED <<indicationInCh, storeVars, signal, eventCh, loopVars, closing, closed,
                   dropped, seen>>

Dispatched == reader' = "reading" /\ incoming' = 0

\* Mutant: no return after the indication was queued.
EnqueueFallingThrough ==
    /\ reader = "enqueue"
    /\ Len(indicationInCh) < IndicationQueueSize
    /\ indicationInCh' = Append(indicationInCh, incoming)
    /\ UNCHANGED <<kindOf, storeVars, signal, eventCh, readerVars, loopVars, closing, closed,
                   dropped, seen>>

Enqueue ==
    /\ reader = "enqueue"
    /\ Len(indicationInCh) < IndicationQueueSize
    /\ indicationInCh' = Append(indicationInCh, incoming)
    /\ Dispatched
    /\ UNCHANGED <<kindOf, storeVars, signal, eventCh, loopVars, closing, closed, dropped, seen>>

\* Mutant: no room, no indication.
FindFullDropping ==
    /\ reader = "enqueue"
    /\ kindOf[incoming] \in Kinds
    /\ Len(indicationInCh) = IndicationQueueSize
    /\ Dispatched
    /\ UNCHANGED <<kindOf, indicationInCh, storeVars, signal, eventCh, loopVars, closing,
                   closed, dropped, seen>>

\* No room: a coalescing indication takes the default of its select.
FindFull ==
    /\ reader = "enqueue"
    /\ kindOf[incoming] \in Kinds
    /\ Len(indicationInCh) = IndicationQueueSize
    /\ reader' = "store"
    /\ UNCHANGED <<kindOf, indicationInCh, storeVars, signal, eventCh, incoming, loopVars,
                   closing, closed, dropped, seen>>

\* Mutant: indicationLoop is not told of the stored event.
StoreSilent ==
    /\ reader = "store"
    /\ LET kind == kindOf[incoming]
       IN /\ order' = IF events[kind] = 0 THEN Append(order, kind) ELSE order
          /\ events' = [events EXCEPT ![kind] = incoming]
    /\ Dispatched
    /\ UNCHANGED <<kindOf, indicationInCh, signal, eventCh, loopVars, closing, closed,
                   dropped, seen>>

Store ==
    /\ reader = "store"
    /\ LET kind == kindOf[incoming]
       IN /\ order' = IF events[kind] = 0 THEN Append(order, kind) ELSE order
          /\ events' = [events EXCEPT ![kind] = incoming]
    /\ incoming' = 0
    /\ reader' = "signal"
    /\ UNCHANGED <<kindOf, indicationInCh, signal, eventCh, loopVars, closing, closed,
                   dropped, seen>>

SendSignal ==
    /\ reader = "signal"
    /\ signal' = TRUE
    /\ reader' = "reading"
    /\ UNCHANGED <<kindOf, indicationInCh, storeVars, eventCh, incoming, loopVars, closing,
                   closed, dropped, seen>>

\* Mutant: only Close ends the wait of an edge.
DropEdgeOnClose ==
    /\ reader = "enqueue"
    /\ kindOf[incoming] = Edge
    /\ closing
    /\ dropped' = dropped \cup {incoming}
    /\ Dispatched
    /\ UNCHANGED <<kindOf, indicationInCh, storeVars, signal, eventCh, loopVars, closing,
                   closed, seen>>

\* No room for an edge until the timer, or Close, ends the wait.
DropEdge ==
    /\ reader = "enqueue"
    /\ kindOf[incoming] = Edge
    /\ dropped' = dropped \cup {incoming}
    /\ Dispatched
    /\ UNCHANGED <<kindOf, indicationInCh, storeVars, signal, eventCh, loopVars, closing,
                   closed, seen>>

\* closeCh was closed, or the transport failed.
ReaderStops ==
    /\ reader = "reading"
    /\ reader' = "done"
    /\ UNCHANGED <<kindOf, indicationInCh, storeVars, signal, eventCh, incoming, loopVars,
                   closing, closed, dropped, seen>>

-----------------------------------------------------------------------------
\* Mutant: a popped event stays in the store.
PopCoalescedKeeping ==
    /\ loop = "pop"
    /\ \/ /\ order # <<>>
          /\ order' = Tail(order)
          /\ outgoing' = events[Head(order)]
          /\ loop' = "deliver"
       \/ /\ order = <<>>
          /\ loop' = "select"
          /\ UNCHANGED <<order, outgoing>>
    /\ UNCHANGED <<kindOf, indicationInCh, events, signal, eventCh, readerVars, closing, closed,
                   dropped, seen>>

\* indicationLoop: popCoalescedEvent comes before the queue.
PopCoalesced ==
    /\ loop = "pop"
    /\ \/ /\ order # <<>>
          /\ order' = Tail(order)
          /\ outgoing' = events[Head(order)]
          /\ events' = [events EXCEPT ![Head(order)] = 0]
          /\ loop' = "deliver"
       \/ /\ order = <<>>
          /\ loop' = "select"
          /\ UNCHANGED <<storeVars, outgoing>>
    /\ UNCHANGED <<kindOf, indicationInCh, signal, eventCh, readerVars, closing, closed,
                   dropped, seen>>

TakeQueued ==
    /\ loop = "select"
    /\ indicationInCh # <<>>
    /\ outgoing' = Head(indicationInCh)
    /\ indicationInCh' = Tail(indicationInCh)
    /\ loop' = "deliver"
    /\ UNCHANGED <<kindOf, storeVars, signal, eventCh, readerVars, closing, closed, dropped,
                   seen>>

TakeSignal ==
    /\ loop = "select"
    /\ signal
    /\ signal' = FALSE
    /\ loop' = "pop"
    /\ UNCHANGED <<kindOf, indicationInCh, storeVars, eventCh, readerVars, outgoing, closing,
                   closed, dropped, seen>>

\* Mutant: Events() has no limit.
DeliverEventUnbounded ==
    /\ loop = "deliver"
    /\ eventCh' = Append(eventCh, outgoing)
    /\ outgoing' = 0
    /\ loop' = "pop"
    /\ UNCHANGED <<kindOf, indicationInCh, storeVars, signal, readerVars, closing, closed,
                   dropped, seen>>

DeliverEvent ==
    /\ loop = "deliver"
    /\ Len(eventCh) < IndicationQueueSize
    /\ eventCh' = Append(eventCh, outgoing)
    /\ outgoing' = 0
    /\ loop' = "pop"
    /\ UNCHANGED <<kindOf, indicationInCh, storeVars, signal, readerVars, closing, closed,
                   dropped, seen>>

\* Mutant: deliverEvent does not look at closeCh.
LoopStopsIdle ==
    /\ loop = "select"
    /\ closing
    /\ loop' = "done"
    /\ UNCHANGED <<kindOf, indicationInCh, storeVars, signal, eventCh, readerVars, outgoing,
                   closing, closed, dropped, seen>>

LoopStops ==
    /\ loop \in {"select", "deliver"}
    /\ closing
    /\ loop' = "done"
    /\ UNCHANGED <<kindOf, indicationInCh, storeVars, signal, eventCh, readerVars, outgoing,
                   closing, closed, dropped, seen>>

-----------------------------------------------------------------------------
\* Whoever reads Events().
Consume ==
    /\ eventCh # <<>>
    /\ seen' = Append(seen, Head(eventCh))
    /\ eventCh' = Tail(eventCh)
    /\ UNCHANGED <<kindOf, indicationInCh, storeVars, signal, readerVars, loopVars, closing,
                   closed, dropped>>

Close ==
    /\ ~closing
    /\ closing' = TRUE
    /\ UNCHANGED <<kindOf, indicationInCh, storeVars, signal, eventCh, readerVars, loopVars,
                   closed, dropped, seen>>

\* c.wg.Wait and close(c.eventCh).
CloseEnds ==
    /\ closing /\ ~closed
    /\ reader = "done" /\ loop = "done"
    /\ closed' = TRUE
    /\ UNCHANGED <<kindOf, indicationInCh, storeVars, signal, eventCh, readerVars, loopVars,
                   closing, dropped, seen>>

-----------------------------------------------------------------------------
DispatchStep == Enqueue \/ FindFull \/ Store \/ SendSignal
LoopStep == PopCoalesced \/ TakeQueued \/ TakeSignal \/ DeliverEvent

Next ==
    \/ \E kind \in Kinds \cup {Edge} : Receive(kind)
    \/ DispatchStep \/ DropEdge \/ ReaderStops
    \/ LoopStep \/ LoopStops
    \/ Consume
    \/ Close \/ CloseEnds

Spec == Init /\ [][Next]_vars

\* The client's goroutines run, the timer of an edge fires, and a goroutine
\* that has nothing else to do sees that closeCh is closed.  Nobody has to
\* read Events().
Fairness ==
    /\ WF_vars(DispatchStep \/ DropEdge)
    /\ WF_vars(closing /\ ReaderStops)
    /\ WF_vars(LoopStep)
    /\ WF_vars(LoopStops)
    /\ WF_vars(CloseEnds)

FairSpec == Spec /\ Fairness

-----------------------------------------------------------------------------
Received == DOMAIN kindOf
TypeOK ==
    /\ kindOf \in Seq(Kinds \cup {Edge})
    /\ indicationInCh \in Seq(Received) /\ Len(indicationInCh) <= IndicationQueueSize
    /\ order \in Seq(Kinds)
    /\ events \in [Kinds -> {0} \cup Received]
    /\ {signal, closing, closed} \subseteq BOOLEAN
    /\ eventCh \in Seq(Received) /\ Len(eventCh) <= IndicationQueueSize
    /\ reader \in {"reading", "enqueue", "store", "signal", "done"}
    /\ loop \in {"pop", "select", "deliver", "done"}
    /\ {incoming, outgoing} \subseteq {0} \cup Received
    /\ dropped \subseteq Received
    /\ seen \in Seq(Received)

Entry(n) == IF n = 0 THEN <<>> ELSE <<n>>

\* The way of the indications that went through the queue or will do.
Way == seen \o eventCh \o Entry(outgoing) \o indicationInCh \o Entry(incoming)
Held == ToSet(Way) \cup {events[k] : k \in Kinds}
OfKind(k) == {n \in Received : kindOf[n] = k}
Newest(k) == CHOOSE n \in OfKind(k) : \A m \in OfKind(k) : m <= n

\* However full the queue is, the newest indication of a coalescing kind
\* is delivered or on its way (TestModemResetIndicationNotDroppedWhenQueueFull:
\* a modem reset is one of them), until Close discards what is left.
NewestKept ==
    \A k \in Kinds : OfKind(k) # {} => Newest(k) \in Held

\* Edges are delivered in the order they came, each once, and one is missing
\* only if it was dropped in DropEdge.
EdgesInOrder ==
    LET edges == {i \in DOMAIN Way : kindOf[Way[i]] = Edge}
    IN  /\ \A i, j \in edges : i < j => Way[i] < Way[j]
        /\ {Way[i] : i \in edges} = OfKind(Edge) \ dropped

\* indicationLoop does not sleep on a stored event: whenever there is one
\* while it waits, the signal is there or on its way.
StoredIsSignalled ==
    loop = "select" /\ order # <<>> => signal \/ reader = "signal"

\* A kind is in the order of the store just when it has an event there.
StoreConsistent ==
    /\ \A k \in Kinds : k \in ToSet(order) <=> events[k] # 0
    /\ IsInjective(order)

\* The read loop never waits for the user of Events(), who may never come.
ReaderNeverStuck == reader # "reading" ~> reader \in {"reading", "done"}

\* Close comes to an end, also when nobody reads Events().
CloseCompletes == closing ~> closed

\* A user who keeps emptying Events() is given every stored event.
StoredIsDelivered ==
    []<>(eventCh = <<>>) => (order # <<>> ~> order = <<>> \/ closing)

\* When nothing is on its way, the last indication of a kind that the user of
\* Events() took is the newest one (pkg/manager/snapshot.go keeps "the latest
\* state driven by QMI indications" from them).
NewestSeenLast ==
    \A k \in Kinds :
        LET own == SelectSeq(seen, LAMBDA n : kindOf[n] = k)
        IN  /\ own # <<>>
            /\ Len(Way) = Len(seen) /\ order = <<>> /\ ~closing
            => own[Len(own)] = Newest(k)

\* What is in the coalesced store is consistent and will be looked at.
StoreSound == StoredIsSignalled /\ StoreConsistent

\* Neither the reader nor Close waits for ever for room in a queue nobody drains.
NothingStuck == ReaderNeverStuck /\ CloseCompletes
=============================================================================
