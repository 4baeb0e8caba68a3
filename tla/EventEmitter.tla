------------------------------ MODULE EventEmitter ------------------------------
(***************************************************************************)
(* How events reach the callbacks of a library user                        *)
(* (pkg/manager/callbacks.go): Emit, loop, On, Clear, Close and cloneEvent.*)
(*                                                                         *)
(* An event is known by its number.  Its payload is a structure in memory  *)
(* that the emitting goroutine goes on using (the snapshot keeps parts of  *)
(* it), and that every handler gets a copy of.  A payload is described by  *)
(* the references inside it: what cloneEvent does not copy is shared.      *)
(***************************************************************************)
EXTENDS Naturals, Sequences, FiniteSets, Functions

CONSTANTS Emitters,    \* goroutines that call Emit
          Handlers,    \* handlers users register
          Interest,    \* for each handler, "all" (OnEvent) or the payload its On... is for
          Payloads,    \* kinds of payload in use, keys of References
          QueueSize,   \* capacity of e.queue
          MaxEvents    \* bound on the events emitted

(***************************************************************************)
(* The references inside the payloads that Event points to, and those of   *)
(* them that cloneEvent copies.  (The structure itself is always copied;   *)
(* payloads without inner references are one kind, "Flat".)                *)
(***************************************************************************)
References ==
    [Flat |-> {},
     Pdu |-> {"bytes"},
     Settings |-> {"IPv4", "IPv6", "IPv6DelegatedPrefix", "PCSCF", "ResponseTLVs"},
     VoiceCalls |-> {"Calls", "RemotePartyNumbers", "RawNumber"},
     VoiceUSSD |-> {"USSData", "Data", "USSDataUTF16"},
     VoiceSupplementaryRequest |-> {"USSData", "Alpha", "Data", "EncodedDataUTF16"},
     NASSignalInfo |-> {"LTE", "NR5G"},
     NASIncrementalNetwork |-> {"Results", "RATs"},
     UIMRefresh |-> {"ApplicationIdentifier", "Files", "Path"},
     UIMSlotStatus |-> {"Slots", "ICCIDRaw", "ATR", "EID"}]

EmitterAssumption ==
    /\ QueueSize \in Nat \ {0}
    /\ MaxEvents \in Nat
    /\ Payloads \subseteq DOMAIN References
    /\ Interest \in [Handlers -> Payloads \union {"all"}]

cloneRuntimeSettings == {"IPv4", "IPv6"}

cloneVoice ==
    [VoiceCalls |-> {"Calls", "RemotePartyNumbers", "RawNumber"},
     VoiceUSSD |-> {"USSData", "Data", "USSDataUTF16"},
     VoiceSupplementaryRequest |-> {"USSData", "Alpha", "Data", "EncodedDataUTF16"}]

\* Mutant: the results of a scan are copied with the slices they point to.
cloneNASShallow ==
    [NASSignalInfo |-> {},
     NASIncrementalNetwork |-> {"Results"}]

cloneNAS ==
    [NASSignalInfo |-> {},
     NASIncrementalNetwork |-> {"Results", "RATs"}]

cloneUIM ==
    [UIMRefresh |-> {"ApplicationIdentifier", "Files", "Path"},
     UIMSlotStatus |-> {"Slots", "ICCIDRaw", "ATR", "EID"}]

cloneEvent(kind) ==
    CASE kind = "Flat" -> {}
      [] kind = "Pdu" -> {"bytes"}
      [] kind = "Settings" -> cloneRuntimeSettings
      [] kind \in DOMAIN cloneVoice -> cloneVoice[kind]
      [] kind \in DOMAIN cloneNAS -> cloneNAS[kind]
      [] kind \in DOMAIN cloneUIM -> cloneUIM[kind]

\* The events a handler's callback is called for: OnEvent, OnConnect, ...
Wants(h, kind) == Interest[h] \in {"all", kind}

\* What a handler's copy has in common with the original.
Shared(kind) == References[kind] \ cloneEvent(kind)

VARIABLES handlers,   \* e.handlers
          queue,      \* e.queue: numbers of events
          done,       \* e.done is closed
          dropped,    \* e.dropped
          kindOf,     \* the payload of each event emitted, by number
          emit,       \* what each emitting goroutine is doing
          emitting,   \* the event it emits, or 0
          late,       \* events whose Emit began after Close
          accepted,   \* events for which Emit said true, in the order of the queue
          loop,       \* where loop is
          event,      \* the event it delivers, or 0
          calling,    \* its copy of the handlers, those already called removed
          delivered,  \* what each handler was called with, in order
          written     \* references in original payloads that a handler wrote to

emitVars == <<kindOf, emit, emitting, late, dropped, accepted>>
loopVars == <<loop, event, calling, delivered, written>>
vars == <<handlers, queue, done, emitVars, loopVars>>

Init ==
    /\ handlers = <<>>
    /\ queue = <<>>
    /\ done = FALSE
    /\ dropped = 0
    /\ kindOf = <<>>
    /\ emit = [t \in Emitters |-> "idle"]
    /\ emitting = [t \in Emitters |-> 0]
    /\ late = {}
    /\ accepted = <<>>
    /\ loop = "select"
    /\ event = 0
    /\ calling = <<>>
    /\ delivered = [h \in Handlers |-> <<>>]
    /\ written = {}

(***************************************************************************)
(* Emit: a look at e.done, then one select.                                *)
(***************************************************************************)
EmitBegin(t) ==
    /\ emit[t] = "idle"
    /\ Len(kindOf) < MaxEvents
    /\ \E kind \in Payloads : kindOf' = Append(kindOf, kind)
    /\ emitting' = [emitting EXCEPT ![t] = Len(kindOf) + 1]
    /\ late' = IF done THEN late \union {Len(kindOf) + 1} ELSE late
    /\ emit' = [emit EXCEPT ![t] = "check"]
    /\ UNCHANGED <<handlers, queue, done, dropped, accepted, loopVars>>

\* Emit says false.
Drop(t) ==
    /\ dropped' = dropped + 1
    /\ emit' = [emit EXCEPT ![t] = "idle"]
    /\ emitting' = [emitting EXCEPT ![t] = 0]
    /\ UNCHANGED <<handlers, queue, done, kindOf, late, accepted, loopVars>>

\* Mutant: Emit is the one select, which chooses among the ready cases at will.
NoCheck(t) ==
    /\ emit[t] = "check"
    /\ emit' = [emit EXCEPT ![t] = "send"]
    /\ UNCHANGED <<handlers, queue, done, kindOf, emitting, late, dropped, accepted, loopVars>>

EmitCheck(t) ==
    /\ emit[t] = "check"
    /\ IF done
       THEN Drop(t)
       ELSE /\ emit' = [emit EXCEPT ![t] = "send"]
            /\ UNCHANGED <<handlers, queue, done, kindOf, emitting, late, dropped, accepted,
                           loopVars>>

EmitQueues(t) ==
    /\ emit[t] = "send"
    /\ Len(queue) < QueueSize
    /\ queue' = Append(queue, emitting[t])
    /\ accepted' = Append(accepted, emitting[t])
    /\ emit' = [emit EXCEPT ![t] = "idle"]
    /\ emitting' = [emitting EXCEPT ![t] = 0]
    /\ UNCHANGED <<handlers, done, kindOf, late, dropped, loopVars>>

EmitDrops(t) ==
    /\ emit[t] = "send"
    /\ done \/ Len(queue) = QueueSize
    /\ Drop(t)

(***************************************************************************)
(* loop: take an event, copy the list of handlers, call each in turn.  A   *)
(* handler may panic, and may write to the copy it was given.              *)
(***************************************************************************)
\* Mutant: the newest event first.
TakeNewest ==
    /\ loop = "select"
    /\ queue # <<>>
    /\ event' = queue[Len(queue)]
    /\ queue' = SubSeq(queue, 1, Len(queue) - 1)
    /\ loop' = "copy"
    /\ UNCHANGED <<handlers, done, emitVars, calling, delivered, written>>

Take ==
    /\ loop = "select"
    /\ queue # <<>>
    /\ event' = Head(queue)
    /\ queue' = Tail(queue)
    /\ loop' = "copy"
    /\ UNCHANGED <<handlers, done, emitVars, calling, delivered, written>>

CopyHandlers ==
    /\ loop = "copy"
    /\ calling' = handlers
    /\ loop' = "call"
    /\ UNCHANGED <<handlers, queue, done, emitVars, event, delivered, written>>

CallHandler ==
    /\ loop = "call"
    /\ calling # <<>>
    /\ LET h == Head(calling) IN
         IF Wants(h, kindOf[event])
         THEN /\ delivered' = [delivered EXCEPT ![h] = Append(@, event)]
              /\ \/ written' = written \union {<<event, r>> : r \in Shared(kindOf[event])}
                 \/ written' = written
         ELSE UNCHANGED <<delivered, written>>
    /\ calling' = Tail(calling)
    /\ UNCHANGED <<handlers, queue, done, emitVars, loop, event>>

\* Mutant: nothing recovers from a panic, which then ends loop.
HandlerPanicsThrough ==
    /\ loop = "call"
    /\ calling # <<>>
    /\ Wants(Head(calling), kindOf[event])
    /\ delivered' = [delivered EXCEPT ![Head(calling)] = Append(@, event)]
    /\ calling' = <<>>
    /\ loop' = "stopped"
    /\ UNCHANGED <<handlers, queue, done, emitVars, event, written>>

HandlerPanics ==
    /\ loop = "call"
    /\ calling # <<>>
    /\ Wants(Head(calling), kindOf[event])
    /\ delivered' = [delivered EXCEPT ![Head(calling)] = Append(@, event)]
    /\ calling' = Tail(calling)
    /\ UNCHANGED <<handlers, queue, done, emitVars, loop, event, written>>

AllCalled ==
    /\ loop = "call"
    /\ calling = <<>>
    /\ event' = 0
    /\ loop' = "select"
    /\ UNCHANGED <<handlers, queue, done, emitVars, calling, delivered, written>>

\* Mutant: e.done is only looked at when an event has come.
LoopStopsAfterEvent ==
    /\ loop = "copy"
    /\ done
    /\ loop' = "stopped"
    /\ UNCHANGED <<handlers, queue, done, emitVars, event, calling, delivered, written>>

LoopStops ==
    /\ loop = "select"
    /\ done
    /\ loop' = "stopped"
    /\ UNCHANGED <<handlers, queue, done, emitVars, event, calling, delivered, written>>

(***************************************************************************)
(* The user.                                                               *)
(***************************************************************************)
On(h) ==
    /\ h \notin Range(handlers)
    /\ handlers' = Append(handlers, h)
    /\ UNCHANGED <<queue, done, emitVars, loopVars>>

Clear ==
    /\ handlers # <<>>
    /\ handlers' = <<>>
    /\ UNCHANGED <<queue, done, emitVars, loopVars>>

Close ==
    /\ ~done
    /\ done' = TRUE
    /\ UNCHANGED <<handlers, queue, emitVars, loopVars>>

EmitStep(t) == EmitCheck(t) \/ EmitQueues(t) \/ EmitDrops(t)

LoopStep == Take \/ CopyHandlers \/ CallHandler \/ HandlerPanics \/ AllCalled \/ LoopStops

Next ==
    \/ \E t \in Emitters : EmitBegin(t) \/ EmitStep(t)
    \/ LoopStep
    \/ \E h \in Handlers : On(h)
    \/ Clear
    \/ Close

Spec == Init /\ [][Next]_vars

(***************************************************************************)
(* Fairness: goroutines run, and handlers return.  Nobody has to emit,     *)
(* register or close.                                                      *)
(***************************************************************************)
EmitProgress == \E t \in Emitters : EmitStep(t)

FairSpec == Spec /\ WF_vars(LoopStep) /\ WF_vars(EmitProgress)

(***************************************************************************)
(* Properties.                                                             *)
(***************************************************************************)
EmitterTypeOK ==
    /\ handlers \in Seq(Handlers)
    /\ queue \in Seq(1 .. MaxEvents) /\ Len(queue) <= QueueSize
    /\ done \in BOOLEAN
    /\ dropped \in 0 .. MaxEvents
    /\ kindOf \in Seq(Payloads) /\ Len(kindOf) <= MaxEvents
    /\ emit \in [Emitters -> {"idle", "check", "send"}]
    /\ emitting \in [Emitters -> 0 .. MaxEvents]
    /\ late \subseteq 1 .. MaxEvents
    /\ accepted \in Seq(1 .. MaxEvents)
    /\ loop \in {"select", "copy", "call", "stopped"}
    /\ event \in 0 .. MaxEvents
    /\ calling \in Seq(Handlers)
    /\ delivered \in [Handlers -> Seq(1 .. MaxEvents)]
    /\ \A w \in written : w[1] \in 1 .. MaxEvents

\* Every handler is called in the order in which Emit accepted the events,
\* and once for each, whoever emitted them and however the list of handlers
\* changes meanwhile (loop; one queue for all emitters).
DeliveryInOrder ==
    \A h \in Handlers : \A i, j \in 1 .. Len(delivered[h]) :
        i < j => \E a, b \in 1 .. Len(accepted) :
                    a < b /\ accepted[a] = delivered[h][i] /\ accepted[b] = delivered[h][j]

\* An Emit that begins after Close has returned says false, even with room in
\* the queue (the first select of Emit).
ClosedRefuses == \A i \in 1 .. Len(accepted) : accepted[i] \notin late

\* What a handler writes to its copy of the payload is not seen by others, who
\* hold the original or other copies of it.  Excepted are the payloads cloneEvent
\* copies in part: runtime settings and signal info.
PayloadIsolated == \A w \in written : kindOf[w[1]] \in {"Settings", "NASSignalInfo"}

\* An event in the queue reaches every handler that is registered and not
\* cleared, also when handlers before it panic, unless the emitter is closed
\* (loop, recover).
QueuedReachesHandlers ==
    \A k \in 1 .. MaxEvents, h \in Handlers :
        (k \in Range(queue) /\ h \in Range(handlers) /\ Wants(h, kindOf[k]))
            ~> (k \in Range(delivered[h]) \/ h \notin Range(handlers) \/ done)

\* After Close the goroutine ends, whatever is left in the queue.
CloseEndsLoop == done ~> (loop = "stopped")

\* The emitter delivers what it accepted: in order, nothing after Close, each handler
\* its own copy.
EmitterDelivers == EmitterTypeOK /\ DeliveryInOrder /\ ClosedRefuses /\ PayloadIsolated
=============================================================================
