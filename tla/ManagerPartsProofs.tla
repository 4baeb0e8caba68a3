--------------------------- MODULE ManagerPartsProofs ---------------------------
(***************************************************************************)
(* What the manager's parts promise, for any values of their constants. A  *)
(* behaviour of Parts is a behaviour of each of its parts, so that the     *)
(* inductive invariant of a part is an invariant of the whole. The         *)
(* emitter's numbers what was accepted: the events still queued are its    *)
(* end, the one that is being delivered comes right before them, and what  *)
(* a handler was called with lies before that. That of the probes says for *)
(* every place a prober can be at what it holds there. That of the SIM     *)
(* says in whose hands the power is while it is off, and that of the pool  *)
(* where a manager is that was made and not stopped. Those of the snapshot *)
(* say of which card, registration or reset of the modem an answer is that *)
(* somebody has in hand. That of the sessions has their generations grow   *)
(* with the topology, and that of the mux interfaces has every modem that  *)
(* knows QMAP be its own master wherever one is remembered.                *)
(***************************************************************************)
EXTENDS Parts, QueueLemmas, FiniteSetTheorems

\* The parts count with the operator of FiniteSets.
LEMMA SameCardinality ==
    ASSUME NEW S
    PROVE  Probe!Cardinality(S) = Cardinality(S)
  BY DEF Cardinality, Probe!Cardinality

\* A step is one of this part, or leaves it alone.
LEMMA EmitterRuns == Spec => Emitter!Spec
  <1>1. Init => Emitter!Init
    BY DEF Init
  <1>2. ASSUME [Next]_vars
        PROVE  [Emitter!Next]_(Emitter!vars)
    <2>1. RunEmitter \/ UNCHANGED varsEmitter
      BY <1>2 DEF Next, vars, RunEmitter, RunRebind, RunTimeouts, RunIdentities, RunPdn, RunProbe,
         RunServing, RunData, RunClientIds, RunQrtr, RunDecoders, RunModemPool, RunWaits,
         RunProxy, RunSim, RunMuxes, RunSms
    <2>2. CASE RunEmitter
      BY <2>2 DEF RunEmitter
    <2>3. CASE UNCHANGED varsEmitter
      BY <2>3 DEF varsEmitter, Emitter!vars, Emitter!emitVars,
         Emitter!loopVars
    <2> QED
      BY <2>1, <2>2, <2>3
  <1> QED
    BY <1>1, <1>2, PTL DEF Spec, Emitter!Spec

\* Events that loop has taken from the queue.
EmitterTaken == Len(em_accepted) - Len(em_queue)
\* Those that h has been called for, or passed by.
PassedTo(h) ==
    IF em_loop = "copy" \/ (em_loop = "call" /\ \E i \in DOMAIN em_calling : em_calling[i] = h)
    THEN EmitterTaken - 1 ELSE EmitterTaken
EmitterBusy == {t \in em_Emitters : em_emit[t] # "idle"}
Distinct(s) == \A i, j \in DOMAIN s : s[i] = s[j] => i = j

\* An event is known by its number, and is being emitted, accepted or dropped.
EmitterNumbersInv ==
    /\ \A t \in em_Emitters : em_emit[t] = "idle" <=> em_emitting[t] = 0
    /\ \A t \in em_Emitters : em_emitting[t] \in 0 .. Len(em_kindOf)
    /\ \A t, u \in em_Emitters : em_emitting[t] = em_emitting[u] /\ em_emitting[t] # 0 => t = u
    /\ \A i \in DOMAIN em_accepted :
          em_accepted[i] \in 1 .. Len(em_kindOf)
              /\ \A t \in em_Emitters : em_accepted[i] # em_emitting[t]
    /\ Distinct(em_accepted)
EmitterCountInv ==
    /\ IsFiniteSet(EmitterBusy)
    /\ em_dropped + Len(em_accepted) + Cardinality(EmitterBusy) = Len(em_kindOf)

EmitterQueueInv ==
    /\ Len(em_queue) <= Len(em_accepted)
    /\ \A i \in DOMAIN em_queue : em_queue[i] = em_accepted[EmitterTaken + i]
    /\ em_loop \in {"copy", "call"} => EmitterTaken > 0 /\ em_event = em_accepted[EmitterTaken]
EmitterHandlersInv == Distinct(em_handlers) /\ Distinct(em_calling)
\* What s has, in its order, is among the first k elements of q.
Follows(s, q, k) ==
    /\ \A i \in DOMAIN s : \E a \in 1 .. k : q[a] = s[i]
    /\ \A i, j \in DOMAIN s : i < j => \E a, b \in 1 .. k : a < b /\ q[a] = s[i] /\ q[b] = s[j]
EmitterDeliveryInv == \A h \in em_Handlers : Follows(em_delivered[h], em_accepted, PassedTo(h))

EmitterLateInv ==
    /\ ~em_done => em_late = {}
    /\ em_late \subseteq 1 .. Len(em_kindOf)
    /\ \A t \in em_Emitters : em_emit[t] = "send" => em_emitting[t] \notin em_late
    /\ \A i \in DOMAIN em_accepted : em_accepted[i] \notin em_late
EmitterWrittenInv ==
    \A w \in em_written :
        w[1] \in 1 .. Len(em_kindOf) /\ em_kindOf[w[1]] \in {"Settings", "NASSignalInfo"}

EmitterInv ==
    /\ Emitter!EmitterTypeOK /\ EmitterNumbersInv /\ EmitterCountInv /\ EmitterQueueInv
       /\ EmitterHandlersInv /\ EmitterDeliveryInv
    /\ EmitterLateInv /\ EmitterWrittenInv

\* No handler is called twice for an event.
DeliveredOnce == \A h \in em_Handlers : Distinct(em_delivered[h])

EmitterTypes ==
    /\ em_handlers \in Seq(em_Handlers) /\ em_calling \in Seq(em_Handlers)
    /\ em_queue \in Seq(1 .. em_MaxEvents) /\ em_accepted \in Seq(1 .. em_MaxEvents)
    /\ em_kindOf \in Seq(em_Payloads)
    /\ em_emit \in [em_Emitters -> {"idle", "check", "send"}]
    /\ em_emitting \in [em_Emitters -> 0 .. em_MaxEvents]
    /\ em_delivered \in [em_Handlers -> Seq(1 .. em_MaxEvents)]

\* The sequences of the emitter have lengths, and positions up to them.
LEMMA EmitterPositions ==
    /\ Emitter!EmitterTypeOK =>
          /\ EmitterTypes
          /\ Len(em_queue) \in Nat /\ DOMAIN em_queue = 1 .. Len(em_queue)
          /\ Len(em_accepted) \in Nat /\ DOMAIN em_accepted = 1 .. Len(em_accepted)
          /\ Len(em_kindOf) \in Nat /\ DOMAIN em_kindOf = 1 .. Len(em_kindOf)
          /\ Len(em_handlers) \in Nat /\ DOMAIN em_handlers = 1 .. Len(em_handlers)
          /\ Len(em_calling) \in Nat /\ DOMAIN em_calling = 1 .. Len(em_calling)
          /\ \A h \in em_Handlers :
                Len(em_delivered[h]) \in Nat /\ DOMAIN em_delivered[h] = 1 .. Len(em_delivered[h])
  BY LenProperties DEF Emitter!EmitterTypeOK, EmitterTypes

\* Calls in the order of a queue stay so when the queue grows.
LEMMA FollowsMore ==
    ASSUME NEW s, NEW q, NEW k \in Int, Follows(s, q, k),
           NEW r, NEW m \in Int, k <= m, \A a \in 1 .. k : r[a] = q[a]
    PROVE  Follows(s, r, m)
  <1>1. \A a \in 1 .. k : a \in 1 .. m
    OBVIOUS
  <1> QED
    BY <1>1 DEF Follows

\* The next event of the queue continues a handler's calls in order.
LEMMA FollowsAppend ==
    ASSUME NEW S, NEW s \in Seq(S), NEW q, NEW k \in Nat \ {0}, q[k] \in S,
           Follows(s, q, k - 1)
    PROVE  Follows(Append(s, q[k]), q, k)
  <1> DEFINE n == Len(s)
             r == Append(s, q[k])
  <1>1. /\ n \in Nat /\ DOMAIN s = 1 .. n /\ DOMAIN r = 1 .. (n + 1)
        /\ \A i \in 1 .. n : r[i] = s[i]
        /\ r[n + 1] = q[k]
    BY AppendPositions
  <1> HIDE DEF n, r
  <1>2. k \in 1 .. k /\ \A a \in 1 .. (k - 1) : a \in 1 .. k /\ a < k
    OBVIOUS
  <1>3. ASSUME NEW i \in DOMAIN r
        PROVE  \E a \in 1 .. k : q[a] = r[i]
    <2>1. i \in 1 .. n \/ i = n + 1
      BY <1>1
    <2> QED
      BY <1>1, <1>2, <2>1 DEF Follows
  <1>4. ASSUME NEW i \in DOMAIN r, NEW j \in DOMAIN r, i < j
        PROVE  \E a, b \in 1 .. k : a < b /\ q[a] = r[i] /\ q[b] = r[j]
    <2>1. i \in 1 .. n /\ (j \in 1 .. n \/ j = n + 1)
      BY <1>1, <1>4
    <2>2. CASE j \in 1 .. n
      BY <1>1, <1>2, <1>4, <2>1, <2>2 DEF Follows
    <2>3. CASE j = n + 1
      <3>1. PICK a \in 1 .. (k - 1) : q[a] = r[i]
        BY <1>1, <2>1 DEF Follows
      <3> QED
        BY <1>1, <1>2, <2>3, <3>1
    <2> QED
      BY <2>1, <2>2, <2>3
  <1> QED
    BY <1>3, <1>4 DEF Follows, r

-----------------------------------------------------------------------------
\* A new event has a number of its own.
LEMMA EmitterEmitBeginKeeps ==
    ASSUME Emitter!EmitterAssumption, EmitterInv, NEW t \in em_Emitters, Emitter!EmitBegin(t)
    PROVE  EmitterInv'
  <1> DEFINE n == Len(em_kindOf) + 1
  <1>1. /\ Emitter!EmitterTypeOK /\ EmitterTypes /\ EmitterNumbersInv /\ EmitterCountInv
           /\ EmitterLateInv /\ EmitterWrittenInv
        /\ Len(em_kindOf) \in Nat /\ DOMAIN em_kindOf = 1 .. Len(em_kindOf)
    BY EmitterPositions DEF EmitterInv
  <1>2. /\ em_emit[t] = "idle" /\ Len(em_kindOf) < em_MaxEvents
        /\ em_emitting' = [em_emitting EXCEPT ![t] = n]
           /\ em_emit' = [em_emit EXCEPT ![t] = "check"]
        /\ em_late' = IF em_done THEN em_late \cup {n} ELSE em_late
        /\ UNCHANGED <<em_handlers, em_queue, em_done, em_dropped, em_accepted, Emitter!loopVars>>
    BY DEF Emitter!EmitBegin
  <1>3. PICK kind \in em_Payloads : em_kindOf' = Append(em_kindOf, kind)
    BY DEF Emitter!EmitBegin
  <1>4. /\ em_kindOf' \in Seq(em_Payloads) /\ Len(em_kindOf') = n /\ n \in 1 .. em_MaxEvents
        /\ DOMAIN em_kindOf' = 1 .. n /\ \A i \in 1 .. Len(em_kindOf) : em_kindOf'[i] = em_kindOf[i]
    BY <1>1, <1>2, <1>3, AppendPositions DEF EmitterTypes, Emitter!EmitterAssumption
  <1>5. Emitter!EmitterTypeOK'
    <2>1. em_emit' \in [em_Emitters -> {"idle", "check", "send"}]
          /\ em_emitting' \in [em_Emitters -> 0 .. em_MaxEvents]
      BY <1>1, <1>2, <1>4 DEF EmitterTypes
    <2>2. em_late' \subseteq 1 .. em_MaxEvents
      BY <1>1, <1>2, <1>4 DEF Emitter!EmitterTypeOK
    <2>3. Len(em_kindOf') <= em_MaxEvents
      BY <1>1, <1>2, <1>4 DEF Emitter!EmitterAssumption
    <2> QED
      BY <1>1, <1>2, <1>4, <2>1, <2>2, <2>3 DEF Emitter!EmitterTypeOK, Emitter!loopVars
  <1>6. EmitterNumbersInv'
    <2>1. /\ \A u \in em_Emitters : em_emitting'[u] = IF u = t THEN n ELSE em_emitting[u]
          /\ \A u \in em_Emitters : em_emit'[u] = IF u = t THEN "check" ELSE em_emit[u]
      BY <1>1, <1>2 DEF EmitterTypes
    <2>2. \A u \in em_Emitters : em_emitting[u] \in 0 .. Len(em_kindOf)
      BY <1>1 DEF EmitterNumbersInv
    <2> HIDE DEF n
    <2>3. n # 0 /\ (\A u \in em_Emitters : em_emitting[u] # n) /\ Len(em_kindOf) \in 0 .. n
          /\ \A i \in 0 .. Len(em_kindOf) : i \in 0 .. n /\ i # n
      BY <1>1, <2>2 DEF n
    <2>4. n \in 0 .. n /\ \A i \in 1 .. Len(em_kindOf) : i \in 1 .. n /\ i # n
      BY <1>1 DEF n
    <2> QED
      BY <1>1, <1>2, <1>4, <2>1, <2>2, <2>3, <2>4 DEF EmitterNumbersInv, Distinct
  <1>7. EmitterCountInv'
    <2>1. EmitterBusy' = EmitterBusy \cup {t} /\ t \notin EmitterBusy
      BY <1>1, <1>2 DEF EmitterBusy, EmitterTypes
    <2>2. IsFiniteSet(EmitterBusy') /\ Cardinality(EmitterBusy') = Cardinality(EmitterBusy) + 1
          /\ Cardinality(EmitterBusy) \in Nat
      BY <1>1, <2>1, FS_AddElement, FS_CardinalityType DEF EmitterCountInv
    <2>3. em_dropped \in Nat /\ Len(em_accepted) \in Nat
      BY <1>1, EmitterPositions DEF Emitter!EmitterTypeOK
    <2> QED
      <3>1. em_dropped' = em_dropped /\ em_accepted' = em_accepted
        BY <1>2
      <3>2. em_dropped + Len(em_accepted) + Cardinality(EmitterBusy) = Len(em_kindOf)
        BY <1>1 DEF EmitterCountInv
      <3>3. em_dropped + Len(em_accepted) + Cardinality(EmitterBusy') = Len(em_kindOf')
        BY <1>1, <1>4, <2>2, <2>3, <3>2
      <3> QED
        BY <2>2, <3>1, <3>3 DEF EmitterCountInv
  <1>8. EmitterQueueInv' /\ EmitterHandlersInv' /\ EmitterDeliveryInv'
    BY <1>2 DEF EmitterInv, EmitterQueueInv, EmitterHandlersInv, EmitterDeliveryInv,
       EmitterTaken, PassedTo, Distinct, Emitter!loopVars
  <1>9. EmitterLateInv'
    <2>1. \A u \in em_Emitters : em_emit'[u] = "send"
          => em_emitting'[u] = em_emitting[u] /\ em_emit[u] = "send"
      BY <1>1, <1>2 DEF EmitterTypes
    <2>2. /\ \A u \in em_Emitters : em_emitting[u] # n
          /\ \A i \in DOMAIN em_accepted : em_accepted[i] # n
      BY <1>1 DEF EmitterNumbersInv
    <2>3. em_late' \subseteq 1 .. n
      <3>1. em_late \subseteq 1 .. n /\ n \in 1 .. n
        BY <1>1 DEF EmitterLateInv
      <3> QED
        BY <1>2, <3>1
    <2> QED
      BY <1>1, <1>2, <1>4, <2>1, <2>2, <2>3 DEF EmitterLateInv
  <1>10. EmitterWrittenInv'
    BY <1>1, <1>2, <1>4 DEF EmitterWrittenInv, Emitter!loopVars
  <1> QED
    BY <1>5, <1>6, <1>7, <1>8, <1>9, <1>10 DEF EmitterInv

\* An event that is dropped is counted.
LEMMA EmitterDropKeeps ==
    ASSUME Emitter!EmitterAssumption, EmitterInv, NEW t \in em_Emitters, em_emit[t] # "idle",
           Emitter!Drop(t)
    PROVE  EmitterInv'
  <1>1. /\ Emitter!EmitterTypeOK /\ EmitterTypes /\ EmitterNumbersInv /\ EmitterCountInv
           /\ EmitterLateInv /\ EmitterWrittenInv
        /\ Len(em_kindOf) \in Nat /\ Len(em_accepted) \in Nat
    BY EmitterPositions DEF EmitterInv
  <1>2. /\ \A u \in em_Emitters : em_emit'[u] = IF u = t THEN "idle" ELSE em_emit[u]
        /\ \A u \in em_Emitters : em_emitting'[u] = IF u = t THEN 0 ELSE em_emitting[u]
        /\ UNCHANGED <<em_handlers, em_queue, em_done, em_kindOf, em_late, em_accepted,
           Emitter!loopVars>>
    BY <1>1 DEF Emitter!Drop, EmitterTypes
  <1>3. EmitterCountInv'
    <2>1. EmitterBusy' = EmitterBusy \ {t} /\ t \in EmitterBusy
      BY <1>2 DEF EmitterBusy
    <2>2. IsFiniteSet(EmitterBusy') /\ Cardinality(EmitterBusy') = Cardinality(EmitterBusy) - 1
          /\ Cardinality(EmitterBusy) \in Nat
      BY <1>1, <2>1, FS_RemoveElement, FS_CardinalityType DEF EmitterCountInv
    <2> QED
      BY <1>1, <1>2, <2>2 DEF EmitterCountInv, Emitter!Drop, Emitter!EmitterTypeOK
  <1>4. Emitter!EmitterTypeOK'
    <2>1. Cardinality(EmitterBusy') \in Nat
      BY <1>3, FS_CardinalityType DEF EmitterCountInv
    <2>2. em_dropped' \in 0 .. em_MaxEvents
      BY <1>1, <1>2, <1>3, <2>1 DEF EmitterCountInv, Emitter!EmitterTypeOK, Emitter!Drop,
         Emitter!EmitterAssumption
    <2>3. 0 \in 0 .. em_MaxEvents
      BY DEF Emitter!EmitterAssumption
    <2> QED
      BY <1>1, <1>2, <2>2, <2>3 DEF Emitter!EmitterTypeOK, Emitter!Drop, Emitter!loopVars
  <1>5. EmitterNumbersInv'
    <2>1. 0 \in 0 .. Len(em_kindOf) /\ \A i \in 1 .. Len(em_kindOf) : i # 0
      BY <1>1
    <2> QED
      BY <1>1, <1>2, <2>1 DEF EmitterNumbersInv, Distinct
  <1>6. EmitterQueueInv' /\ EmitterHandlersInv' /\ EmitterDeliveryInv'
    BY <1>2 DEF EmitterInv, EmitterQueueInv, EmitterHandlersInv, EmitterDeliveryInv,
       EmitterTaken, PassedTo, Distinct, Emitter!loopVars
  <1>7. EmitterLateInv' /\ EmitterWrittenInv'
    BY <1>1, <1>2 DEF EmitterLateInv, EmitterWrittenInv, Emitter!loopVars
  <1> QED
    BY <1>3, <1>4, <1>5, <1>6, <1>7 DEF EmitterInv

\* An Emit that goes on began before Close.
LEMMA EmitterEmitCheckKeeps ==
    ASSUME Emitter!EmitterAssumption, EmitterInv, NEW t \in em_Emitters, Emitter!EmitCheck(t)
    PROVE  EmitterInv'
  <1>1. CASE em_done
    BY <1>1, EmitterDropKeeps DEF Emitter!EmitCheck
  <1>2. CASE ~em_done
    <2>1. EmitterTypes /\ Emitter!EmitterTypeOK
      BY EmitterPositions DEF EmitterInv
    <2>2. /\ em_emit[t] = "check"
             /\ \A u \in em_Emitters : em_emit'[u] = IF u = t THEN "send" ELSE em_emit[u]
          /\ UNCHANGED <<em_handlers, em_queue, em_done, em_kindOf, em_emitting, em_late,
             em_dropped, em_accepted,
                          Emitter!loopVars>>
      BY <1>2, <2>1 DEF Emitter!EmitCheck, EmitterTypes
    <2>3. Emitter!EmitterTypeOK'
      BY <1>2, <2>1, <2>2 DEF Emitter!EmitterTypeOK, Emitter!EmitCheck, Emitter!loopVars
    <2>4. EmitterBusy' = EmitterBusy
      BY <2>2 DEF EmitterBusy
    <2>5. EmitterNumbersInv' /\ EmitterCountInv'
      BY <2>2, <2>4 DEF EmitterInv, EmitterNumbersInv, EmitterCountInv, Distinct
    <2>6. EmitterLateInv' /\ EmitterWrittenInv'
      BY <1>2, <2>2 DEF EmitterInv, EmitterLateInv, EmitterWrittenInv, Emitter!loopVars
    <2>7. EmitterQueueInv' /\ EmitterHandlersInv' /\ EmitterDeliveryInv'
      BY <2>2
         DEF EmitterInv, EmitterQueueInv, EmitterHandlersInv, EmitterDeliveryInv, EmitterTaken,
             PassedTo, Distinct, Emitter!loopVars
    <2> QED
      BY <2>3, <2>5, <2>6, <2>7 DEF EmitterInv
  <1> QED
    BY <1>1, <1>2

\* An accepted event goes to the end of the queue and of what was accepted.
LEMMA EmitterEmitQueuesKeeps ==
    ASSUME Emitter!EmitterAssumption, EmitterInv, NEW t \in em_Emitters, Emitter!EmitQueues(t)
    PROVE  EmitterInv'
  <1> DEFINE n == em_emitting[t]
  <1>1. /\ Emitter!EmitterTypeOK /\ EmitterTypes /\ EmitterNumbersInv /\ EmitterCountInv
           /\ EmitterQueueInv /\ EmitterLateInv /\ EmitterWrittenInv
        /\ Len(em_kindOf) \in Nat /\ Len(em_accepted) \in Nat /\ Len(em_queue) \in Nat
        /\ DOMAIN em_accepted = 1 .. Len(em_accepted) /\ DOMAIN em_queue = 1 .. Len(em_queue)
    BY EmitterPositions DEF EmitterInv
  <1>2. /\ em_emit[t] = "send" /\ Len(em_queue) < em_QueueSize
        /\ \A u \in em_Emitters : em_emit'[u] = IF u = t THEN "idle" ELSE em_emit[u]
        /\ \A u \in em_Emitters : em_emitting'[u] = IF u = t THEN 0 ELSE em_emitting[u]
        /\ em_queue' = Append(em_queue, n) /\ em_accepted' = Append(em_accepted, n)
        /\ UNCHANGED <<em_handlers, em_done, em_kindOf, em_late, em_dropped, Emitter!loopVars>>
    BY <1>1 DEF Emitter!EmitQueues, EmitterTypes
  <1>3. n \in 1 .. em_MaxEvents /\ n \in 1 .. Len(em_kindOf)
    <2>1. n \in 0 .. em_MaxEvents /\ n \in 0 .. Len(em_kindOf) /\ n # 0
      BY <1>1, <1>2 DEF EmitterNumbersInv, EmitterTypes
    <2> QED
      BY <1>1, <2>1 DEF Emitter!EmitterAssumption
  <1> HIDE DEF n
  <1>4. /\ em_queue' \in Seq(1 .. em_MaxEvents) /\ Len(em_queue') = Len(em_queue) + 1
        /\ DOMAIN em_queue' = 1 .. (Len(em_queue) + 1)
        /\ \A i \in 1 .. Len(em_queue) : em_queue'[i] = em_queue[i]
        /\ em_queue'[Len(em_queue) + 1] = n
    BY <1>1, <1>2, <1>3, AppendPositions DEF EmitterTypes
  <1>5. /\ em_accepted' \in Seq(1 .. em_MaxEvents) /\ Len(em_accepted') = Len(em_accepted) + 1
        /\ DOMAIN em_accepted' = 1 .. (Len(em_accepted) + 1)
        /\ \A i \in 1 .. Len(em_accepted) : em_accepted'[i] = em_accepted[i]
        /\ em_accepted'[Len(em_accepted) + 1] = n
    BY <1>1, <1>2, <1>3, AppendPositions DEF EmitterTypes
  <1>6. Emitter!EmitterTypeOK'
    <2>1. em_emit' \in [em_Emitters -> {"idle", "check", "send"}]
          /\ em_emitting' \in [em_Emitters -> 0 .. em_MaxEvents]
      BY <1>1 DEF Emitter!EmitQueues, EmitterTypes, Emitter!EmitterAssumption
    <2>2. Len(em_queue') <= em_QueueSize
      BY <1>1, <1>2, <1>4 DEF Emitter!EmitterAssumption
    <2> QED
      BY <1>1, <1>2, <1>4, <1>5, <2>1, <2>2 DEF Emitter!EmitterTypeOK, Emitter!loopVars
  <1>7. EmitterNumbersInv'
    <2>1. ASSUME NEW i \in DOMAIN em_accepted'
          PROVE  em_accepted'[i] \in 1 .. Len(em_kindOf)
                 /\ \A u \in em_Emitters : em_accepted'[i] # em_emitting'[u]
      <3>1. CASE i \in DOMAIN em_accepted
        BY <1>1, <1>2, <1>5, <3>1 DEF EmitterNumbersInv
      <3>2. CASE i = Len(em_accepted) + 1
        BY <1>1, <1>2, <1>3, <1>5, <3>2 DEF EmitterNumbersInv, n
      <3> QED
        BY <1>1, <1>5, <2>1, <3>1, <3>2
    <2>2. Distinct(em_accepted')
      <3>1. \A i \in DOMAIN em_accepted : em_accepted[i] # n
        BY <1>1 DEF EmitterNumbersInv, n
      <3> QED
        BY <1>1, <1>5, <3>1 DEF EmitterNumbersInv, Distinct
    <2>3. \A u \in em_Emitters : em_emitting'[u] \in 0 .. Len(em_kindOf)
      BY <1>1, <1>2 DEF EmitterNumbersInv
    <2> QED
      BY <1>1, <1>2, <2>1, <2>2, <2>3 DEF EmitterNumbersInv
  <1>8. EmitterCountInv'
    <2>1. EmitterBusy' = EmitterBusy \ {t} /\ t \in EmitterBusy
      BY <1>2 DEF EmitterBusy
    <2>2. IsFiniteSet(EmitterBusy') /\ Cardinality(EmitterBusy') = Cardinality(EmitterBusy) - 1
          /\ Cardinality(EmitterBusy) \in Nat
      BY <1>1, <2>1, FS_RemoveElement, FS_CardinalityType DEF EmitterCountInv
    <2> QED
      BY <1>1, <1>2, <1>5, <2>2, SMTT(30) DEF EmitterCountInv, Emitter!EmitterTypeOK
  <1>9. EmitterTaken' = EmitterTaken /\ EmitterTaken \in Nat /\ EmitterTaken <= Len(em_accepted)
    BY <1>1, <1>4, <1>5 DEF EmitterTaken, EmitterQueueInv
  <1>10. EmitterQueueInv'
    <2>1. ASSUME NEW i \in DOMAIN em_queue'
          PROVE  em_queue'[i] = em_accepted'[EmitterTaken + i]
      <3>1. CASE i \in 1 .. Len(em_queue)
        <4>1. EmitterTaken + i \in 1 .. Len(em_accepted)
          BY <1>1, <3>1 DEF EmitterTaken, EmitterQueueInv
        <4> QED
          BY <1>1, <1>4, <1>5, <3>1, <4>1 DEF EmitterQueueInv
      <3>2. CASE i = Len(em_queue) + 1
        <4>1. EmitterTaken + i = Len(em_accepted) + 1
          BY <1>1, <3>2 DEF EmitterTaken
        <4> QED
          BY <1>4, <1>5, <3>2, <4>1
      <3> QED
        BY <1>1, <1>4, <3>1, <3>2
    <2>2. EmitterTaken > 0 => em_accepted'[EmitterTaken] = em_accepted[EmitterTaken]
      BY <1>5, <1>9
    <2>3. Len(em_queue') <= Len(em_accepted')
      BY <1>1, <1>4, <1>5 DEF EmitterQueueInv
    <2> QED
      BY <1>1, <1>2, <1>9, <2>1, <2>2, <2>3 DEF EmitterQueueInv, Emitter!loopVars
  <1>11. EmitterDeliveryInv'
    <2>1. \A h \in em_Handlers : PassedTo(h)' = PassedTo(h) /\ PassedTo(h) <= Len(em_accepted)
                              /\ PassedTo(h) \in Int
      BY <1>1, <1>2, <1>9 DEF PassedTo, Emitter!loopVars
    <2>2. \A h \in em_Handlers : \A a \in 1 .. PassedTo(h) : em_accepted'[a] = em_accepted[a]
      BY <1>1, <1>5, <2>1
    <2>3. em_delivered' = em_delivered
      BY <1>2 DEF Emitter!loopVars
    <2>4. \A h \in em_Handlers : Follows(em_delivered[h], em_accepted', PassedTo(h))
      BY <2>1, <2>2, FollowsMore DEF EmitterInv, EmitterDeliveryInv
    <2> QED
      BY <2>1, <2>3, <2>4 DEF EmitterDeliveryInv
  <1>12. EmitterLateInv'
    <2>1. n \notin em_late
      BY <1>1, <1>2 DEF EmitterLateInv, n
    <2> QED
      BY <1>1, <1>2, <1>5, <2>1 DEF EmitterLateInv
  <1>13. EmitterHandlersInv' /\ EmitterWrittenInv'
    BY <1>1, <1>2 DEF EmitterInv, EmitterHandlersInv, EmitterWrittenInv, Distinct, Emitter!loopVars
  <1> QED
    BY <1>6, <1>7, <1>8, <1>10, <1>11, <1>12, <1>13 DEF EmitterInv

-----------------------------------------------------------------------------
\* The event that loop takes comes right before those that stay in the queue.
LEMMA EmitterTakeKeeps ==
    ASSUME Emitter!EmitterAssumption, EmitterInv, Emitter!Take
    PROVE  EmitterInv'
  <1>1. /\ Emitter!EmitterTypeOK /\ EmitterTypes /\ EmitterQueueInv /\ EmitterDeliveryInv
        /\ Len(em_accepted) \in Nat /\ Len(em_queue) \in Nat
        /\ DOMAIN em_accepted = 1 .. Len(em_accepted) /\ DOMAIN em_queue = 1 .. Len(em_queue)
    BY EmitterPositions DEF EmitterInv
  <1>2. /\ em_loop = "select" /\ em_queue # <<>> /\ em_loop' = "copy"
        /\ em_event' = Head(em_queue) /\ em_queue' = Tail(em_queue)
        /\ UNCHANGED <<em_handlers, em_done, Emitter!emitVars, em_calling, em_delivered,
           em_written>>
    BY DEF Emitter!Take
  <1>3. /\ em_queue' \in Seq(1 .. em_MaxEvents) /\ Len(em_queue') = Len(em_queue) - 1
           /\ Len(em_queue) > 0
        /\ DOMAIN em_queue' = 1 .. (Len(em_queue) - 1) /\ em_event' = em_queue[1]
        /\ em_event' \in 1 .. em_MaxEvents
        /\ \A i \in DOMAIN em_queue' : em_queue'[i] = em_queue[i + 1] /\ i + 1 \in DOMAIN em_queue
    <2>1. em_queue \in Seq(1 .. em_MaxEvents)
      BY <1>1 DEF EmitterTypes
    <2>2. /\ Head(em_queue) = em_queue[1] /\ Head(em_queue) \in 1 .. em_MaxEvents
          /\ Tail(em_queue) \in Seq(1 .. em_MaxEvents) /\ Len(em_queue) \in Nat \ {0}
          /\ DOMAIN Tail(em_queue) = 1 .. (Len(em_queue) - 1)
             /\ Len(Tail(em_queue)) = Len(em_queue) - 1
          /\ \A i \in DOMAIN Tail(em_queue) : Tail(em_queue)[i] = em_queue[i + 1]
             /\ i + 1 \in DOMAIN em_queue
      BY <1>2, <2>1, TailPositions
    <2> QED
      BY <1>2, <2>2
  <1>4. EmitterTaken' = EmitterTaken + 1 /\ EmitterTaken \in Nat
    BY <1>1, <1>2, <1>3 DEF EmitterTaken, EmitterQueueInv, Emitter!emitVars
  <1>5. Emitter!EmitterTypeOK'
    <2>1. Len(em_queue') <= em_QueueSize
      BY <1>1, <1>3 DEF Emitter!EmitterTypeOK, Emitter!EmitterAssumption
    <2> QED
      BY <1>1, <1>2, <1>3, <2>1 DEF Emitter!EmitterTypeOK, Emitter!emitVars
  <1>6. EmitterNumbersInv' /\ EmitterCountInv' /\ EmitterLateInv' /\ EmitterWrittenInv'
        /\ EmitterHandlersInv'
    BY <1>2
       DEF EmitterInv, EmitterNumbersInv, EmitterCountInv, EmitterLateInv, EmitterWrittenInv,
           EmitterHandlersInv, Distinct, EmitterBusy,
           Emitter!emitVars
  <1>7. EmitterQueueInv'
    <2>1. ASSUME NEW i \in DOMAIN em_queue'
          PROVE  em_queue'[i] = em_accepted'[EmitterTaken' + i]
      <3>1. em_queue[i + 1] = em_accepted[EmitterTaken + (i + 1)]
        BY <1>1, <1>3, <2>1 DEF EmitterQueueInv
      <3>2. EmitterTaken + (i + 1) = EmitterTaken' + i
        BY <1>3, <1>4, <2>1
      <3> QED
        BY <1>2, <1>3, <2>1, <3>1, <3>2 DEF Emitter!emitVars
    <2>2. em_event' = em_accepted'[EmitterTaken']
      <3>1. 1 \in DOMAIN em_queue /\ em_queue[1] = em_accepted[EmitterTaken + 1]
        BY <1>1, <1>3 DEF EmitterQueueInv
      <3> QED
        BY <1>2, <1>3, <1>4, <3>1 DEF Emitter!emitVars
    <2>3. Len(em_queue') <= Len(em_accepted') /\ EmitterTaken' > 0
      BY <1>1, <1>2, <1>3, <1>4 DEF EmitterQueueInv, Emitter!emitVars
    <2> QED
      BY <2>1, <2>2, <2>3 DEF EmitterQueueInv
  <1>8. EmitterDeliveryInv'
    <2>1. \A h \in em_Handlers : PassedTo(h)' = PassedTo(h)
      BY <1>2, <1>4 DEF PassedTo
    <2>2. UNCHANGED <<em_accepted, em_delivered>>
      BY <1>2 DEF Emitter!emitVars
    <2> QED
      BY <1>1, <2>1, <2>2 DEF EmitterDeliveryInv
  <1> QED
    BY <1>5, <1>6, <1>7, <1>8 DEF EmitterInv

\* The copy names every handler once.
LEMMA EmitterCopyHandlersKeeps ==
    ASSUME Emitter!EmitterAssumption, EmitterInv, Emitter!CopyHandlers
    PROVE  EmitterInv'
  <1>1. Emitter!EmitterTypeOK /\ EmitterQueueInv /\ EmitterHandlersInv /\ EmitterDeliveryInv
        /\ EmitterTaken \in Int
    BY EmitterPositions DEF EmitterInv, EmitterTaken
  <1>2. /\ em_loop = "copy" /\ em_loop' = "call" /\ em_calling' = em_handlers
        /\ UNCHANGED <<em_handlers, em_queue, em_done, Emitter!emitVars, em_event, em_delivered,
           em_written>>
    BY DEF Emitter!CopyHandlers
  <1>3. Emitter!EmitterTypeOK'
    BY <1>1, <1>2 DEF Emitter!EmitterTypeOK, Emitter!emitVars
  <1>4. EmitterNumbersInv' /\ EmitterCountInv' /\ EmitterLateInv' /\ EmitterWrittenInv'
    BY <1>2 DEF EmitterInv, EmitterNumbersInv, EmitterCountInv, EmitterLateInv,
       EmitterWrittenInv, Distinct, EmitterBusy, Emitter!emitVars
  <1>5. EmitterQueueInv' /\ EmitterHandlersInv'
    BY <1>1, <1>2 DEF EmitterQueueInv, EmitterHandlersInv, Distinct, EmitterTaken, Emitter!emitVars
  <1>6. EmitterDeliveryInv'
    <2>1. UNCHANGED <<em_accepted, em_delivered>> /\ EmitterTaken' = EmitterTaken
      BY <1>2 DEF EmitterTaken, Emitter!emitVars
    <2>2. \A h \in em_Handlers :
             PassedTo(h) <= PassedTo(h)' /\ PassedTo(h) \in Int /\ PassedTo(h)' \in Int
      BY <1>1, <1>2, <2>1 DEF PassedTo
    <2>3. \A h \in em_Handlers : Follows(em_delivered[h], em_accepted, PassedTo(h)')
      BY <1>1, <2>2, FollowsMore DEF EmitterDeliveryInv
    <2> QED
      BY <2>1, <2>3 DEF EmitterDeliveryInv
  <1> QED
    BY <1>3, <1>4, <1>5, <1>6 DEF EmitterInv

\* Only these two kinds of payload share anything with the copies of it.
LEMMA SharedKinds ==
    \A kind \in DOMAIN Emitter!References :
        Emitter!Shared(kind) # {} => kind \in {"Settings", "NASSignalInfo"}
  <1> SUFFICES ASSUME NEW kind \in DOMAIN Emitter!References,
                      kind \notin {"Settings", "NASSignalInfo"}
               PROVE  Emitter!References[kind] \subseteq Emitter!cloneEvent(kind)
    BY DEF Emitter!Shared
  <1>1. /\ DOMAIN Emitter!cloneVoice = {"VoiceCalls", "VoiceUSSD", "VoiceSupplementaryRequest"}
        /\ DOMAIN Emitter!cloneNAS = {"NASSignalInfo", "NASIncrementalNetwork"}
        /\ DOMAIN Emitter!cloneUIM = {"UIMRefresh", "UIMSlotStatus"}
    BY DEF Emitter!cloneVoice, Emitter!cloneNAS, Emitter!cloneUIM
  <1>2. CASE kind = "Flat"
    BY <1>2 DEF Emitter!References
  <1>3. CASE kind = "Pdu"
    BY <1>1, <1>3 DEF Emitter!References, Emitter!cloneEvent
  <1>4. ASSUME kind \in {"VoiceCalls", "VoiceUSSD", "VoiceSupplementaryRequest"}
        PROVE  Emitter!References[kind] \subseteq Emitter!cloneEvent(kind)
    <2>1. Emitter!cloneEvent(kind) = Emitter!cloneVoice[kind]
      BY <1>1, <1>4 DEF Emitter!cloneEvent
    <2> QED
      BY <1>4, <2>1 DEF Emitter!References, Emitter!cloneVoice
  <1>5. CASE kind = "NASIncrementalNetwork"
    <2>1. Emitter!cloneEvent(kind) = Emitter!cloneNAS[kind]
      BY <1>1, <1>5 DEF Emitter!cloneEvent
    <2> QED
      BY <1>5, <2>1 DEF Emitter!References, Emitter!cloneNAS
  <1>6. ASSUME kind \in {"UIMRefresh", "UIMSlotStatus"}
        PROVE  Emitter!References[kind] \subseteq Emitter!cloneEvent(kind)
    <2>1. Emitter!cloneEvent(kind) = Emitter!cloneUIM[kind]
      BY <1>1, <1>6 DEF Emitter!cloneEvent
    <2> QED
      BY <1>6, <2>1 DEF Emitter!References, Emitter!cloneUIM
  <1> QED
    BY <1>2, <1>3, <1>4, <1>5, <1>6 DEF Emitter!References

\* A handler that is called gets the newest event that was taken, and is not
\* called for it again.
LEMMA EmitterCallKeeps ==
    ASSUME Emitter!EmitterAssumption, EmitterInv, Emitter!CallHandler \/ Emitter!HandlerPanics
    PROVE  EmitterInv'
  <1>1. /\ Emitter!EmitterTypeOK /\ EmitterTypes /\ EmitterNumbersInv /\ EmitterQueueInv
           /\ EmitterHandlersInv /\ EmitterDeliveryInv
        /\ EmitterWrittenInv
        /\ Len(em_accepted) \in Nat /\ Len(em_queue) \in Nat /\ Len(em_kindOf) \in Nat
        /\ DOMAIN em_accepted = 1 .. Len(em_accepted) /\ DOMAIN em_kindOf = 1 .. Len(em_kindOf)
        /\ \A h \in em_Handlers :
              Len(em_delivered[h]) \in Nat /\ DOMAIN em_delivered[h] = 1 .. Len(em_delivered[h])
    BY EmitterPositions DEF EmitterInv
  <1> PICK g : g = Head(em_calling)
    OBVIOUS
  <1>2. /\ em_loop = "call" /\ em_calling # <<>> /\ em_calling' = Tail(em_calling)
        /\ UNCHANGED <<em_handlers, em_queue, em_done, Emitter!emitVars, em_loop, em_event>>
        /\ em_delivered' = em_delivered \/ em_delivered' = [em_delivered EXCEPT ![g] = Append(@,
           em_event)]
        /\ \/ em_written' = em_written
           \/ em_written' = em_written \cup {<<em_event,
               r>> : r \in Emitter!Shared(em_kindOf[em_event])}
    BY DEF Emitter!CallHandler, Emitter!HandlerPanics
  <1>3. /\ g \in em_Handlers /\ g = em_calling[1] /\ Tail(em_calling) \in Seq(em_Handlers)
        /\ DOMAIN em_calling = 1 .. Len(em_calling) /\ Len(em_calling) \in Nat \ {0}
        /\ DOMAIN Tail(em_calling) = 1 .. (Len(em_calling) - 1)
        /\ \A i \in DOMAIN Tail(em_calling) :
              Tail(em_calling)[i] = em_calling[i + 1] /\ i + 1 \in DOMAIN em_calling
    BY <1>1, <1>2, TailPositions DEF EmitterTypes
  <1>4. /\ EmitterTaken \in 1 .. Len(em_accepted) /\ em_event = em_accepted[EmitterTaken]
        /\ em_event \in 1 .. em_MaxEvents /\ em_event \in 1 .. Len(em_kindOf)
    <2>1. EmitterTaken \in 1 .. Len(em_accepted) /\ em_event = em_accepted[EmitterTaken]
      BY <1>1, <1>2 DEF EmitterQueueInv, EmitterTaken
    <2>2. em_event \in 1 .. Len(em_kindOf)
      BY <1>1, <2>1 DEF EmitterNumbersInv
    <2>3. em_event \in 1 .. em_MaxEvents
      BY <1>1, <2>1, ElementOfSeq DEF EmitterTypes
    <2> QED
      BY <2>1, <2>2, <2>3
  <1>5. /\ \A h \in em_Handlers : h # g => em_delivered'[h] = em_delivered[h]
        /\ em_delivered'[g] = em_delivered[g] \/ em_delivered'[g] = Append(em_delivered[g],
           em_event)
        /\ em_delivered' \in [em_Handlers -> Seq(1 .. em_MaxEvents)]
    <2>1. Append(em_delivered[g], em_event) \in Seq(1 .. em_MaxEvents)
      BY <1>1, <1>3, <1>4, AppendPositions DEF EmitterTypes
    <2> QED
      BY <1>1, <1>2, <1>3, <2>1 DEF EmitterTypes
  <1>6. EmitterWrittenInv'
    <2>1. em_kindOf[em_event] \in DOMAIN Emitter!References
      <3>1. em_kindOf[em_event] \in em_Payloads
        BY <1>1, <1>4, ElementOfSeq DEF EmitterTypes
      <3> QED
        BY <3>1 DEF Emitter!EmitterAssumption
    <2>2. \A w \in em_written' :
             w \in em_written \/ (w[1] = em_event /\ Emitter!Shared(em_kindOf[em_event]) # {})
      BY <1>2
    <2>3. UNCHANGED em_kindOf
      BY <1>2 DEF Emitter!emitVars
    <2> QED
      BY <1>1, <1>4, <2>1, <2>2, <2>3, SharedKinds DEF EmitterWrittenInv
  <1>7. Emitter!EmitterTypeOK'
    <2>1. \A w \in em_written' : w[1] \in 1 .. em_MaxEvents
      BY <1>1, <1>2, <1>4 DEF Emitter!EmitterTypeOK
    <2> QED
      BY <1>1, <1>2, <1>3, <1>5, <2>1 DEF Emitter!EmitterTypeOK, Emitter!emitVars
  <1>8. EmitterNumbersInv' /\ EmitterCountInv' /\ EmitterLateInv'
    BY <1>2 DEF EmitterInv, EmitterNumbersInv, EmitterCountInv, EmitterLateInv, Distinct,
       EmitterBusy, Emitter!emitVars
  <1>9. EmitterQueueInv'
    BY <1>1, <1>2 DEF EmitterQueueInv, EmitterTaken, Emitter!emitVars
  <1>10. EmitterHandlersInv' /\ \A i \in DOMAIN em_calling' : em_calling'[i] # g
    <2>1. \A i \in DOMAIN em_calling' : i + 1 \in DOMAIN em_calling
          /\ em_calling'[i] = em_calling[i + 1]
                                     /\ i + 1 # 1
      BY <1>2, <1>3
    <2>2. \A i, j \in DOMAIN em_calling' : i + 1 = j + 1 => i = j
      BY <1>2, <1>3
    <2>3. 1 \in DOMAIN em_calling
      BY <1>3
    <2>4. Distinct(em_calling')
      BY <1>1, <2>1, <2>2 DEF EmitterHandlersInv, Distinct
    <2>5. \A i \in DOMAIN em_calling' : em_calling'[i] # g
      BY <1>1, <1>3, <2>1, <2>3 DEF EmitterHandlersInv, Distinct
    <2> QED
      BY <1>1, <1>2, <2>4, <2>5 DEF EmitterHandlersInv
  <1>11. EmitterDeliveryInv'
    <2>1. EmitterTaken' = EmitterTaken /\ UNCHANGED <<em_accepted, em_loop>>
      BY <1>2 DEF EmitterTaken, Emitter!emitVars
    <2>2. PassedTo(g) = EmitterTaken - 1 /\ PassedTo(g)' = EmitterTaken
      <3>1. 1 \in DOMAIN em_calling /\ em_calling[1] = g
        BY <1>3
      <3> QED
        BY <1>2, <1>10, <2>1, <3>1 DEF PassedTo
    <2>3. ASSUME NEW h \in em_Handlers, h # g
          PROVE  PassedTo(h)' = PassedTo(h)
      <3>1. (\E i \in DOMAIN em_calling' : em_calling'[i] = h)
            <=> \E i \in DOMAIN em_calling : em_calling[i] = h
        <4>1. ASSUME NEW i \in DOMAIN em_calling, em_calling[i] = h
              PROVE  \E k \in DOMAIN em_calling' : em_calling'[k] = h
          <5>1. i # 1 /\ i - 1 \in DOMAIN em_calling' /\ (i - 1) + 1 = i
            BY <1>2, <1>3, <2>3, <4>1
          <5> QED
            BY <1>2, <1>3, <4>1, <5>1
        <4> QED
          BY <1>2, <1>3, <4>1
      <3> QED
        BY <1>2, <2>1, <3>1 DEF PassedTo
    <2>4. \A h \in em_Handlers : h # g => Follows(em_delivered'[h], em_accepted', PassedTo(h)')
      BY <1>1, <1>5, <2>1, <2>3 DEF EmitterDeliveryInv
    <2>5. Follows(em_delivered[g], em_accepted', EmitterTaken - 1)
      BY <1>1, <1>3, <2>1, <2>2 DEF EmitterDeliveryInv
    <2>6. EmitterTaken \in Nat \ {0} /\ em_accepted'[EmitterTaken] = em_event
          /\ EmitterTaken - 1 \in Int
      BY <1>4, <2>1
    <2>7. Follows(em_delivered[g], em_accepted', EmitterTaken)
      BY <2>5, <2>6, FollowsMore
    <2>8. Follows(Append(em_delivered[g], em_event), em_accepted', EmitterTaken)
      BY <1>1, <1>3, <1>4, <2>5, <2>6, FollowsAppend DEF EmitterTypes
    <2> QED
      BY <1>5, <2>2, <2>4, <2>7, <2>8 DEF EmitterDeliveryInv
  <1> QED
    BY <1>6, <1>7, <1>8, <1>9, <1>10, <1>11 DEF EmitterInv

\* The invariant survives the end of a round of calls, and that of loop.
LEMMA EmitterLoopEndsKeep ==
    ASSUME Emitter!EmitterAssumption, EmitterInv, Emitter!AllCalled \/ Emitter!LoopStops
    PROVE  EmitterInv'
  <1>1. Emitter!EmitterTypeOK /\ EmitterDeliveryInv
        /\ (em_loop = "call" => DOMAIN em_calling = {} \/ Emitter!LoopStops)
    <2>1. Emitter!AllCalled => DOMAIN em_calling = {}
      BY DEF Emitter!AllCalled
    <2> QED
      BY <2>1 DEF EmitterInv
  <1>2. /\ em_loop \in {"select", "call"} /\ em_loop' \in {"select", "stopped"}
        /\ em_event' \in {0, em_event} /\ (em_loop = "call" => DOMAIN em_calling = {})
        /\ UNCHANGED <<em_handlers, em_queue, em_done, Emitter!emitVars, em_calling,
           em_delivered, em_written>>
    BY <1>1 DEF Emitter!AllCalled, Emitter!LoopStops
  <1>3. Emitter!EmitterTypeOK'
    <2>1. em_event' \in 0 .. em_MaxEvents
      BY <1>1, <1>2 DEF Emitter!EmitterTypeOK, Emitter!EmitterAssumption
    <2> QED
      BY <1>1, <1>2, <2>1 DEF Emitter!EmitterTypeOK, Emitter!emitVars
  <1>4. EmitterNumbersInv' /\ EmitterCountInv' /\ EmitterLateInv' /\ EmitterWrittenInv'
        /\ EmitterHandlersInv' /\ EmitterQueueInv'
    BY <1>2
       DEF EmitterInv, EmitterNumbersInv, EmitterCountInv, EmitterLateInv, EmitterWrittenInv,
           EmitterHandlersInv, EmitterQueueInv, EmitterTaken,
           Distinct, EmitterBusy, Emitter!emitVars
  <1>5. EmitterDeliveryInv'
    <2>1. UNCHANGED <<em_accepted, em_delivered>>
          /\ \A h \in em_Handlers : PassedTo(h)' = PassedTo(h)
      BY <1>2 DEF PassedTo, EmitterTaken, Emitter!emitVars
    <2> QED
      BY <1>1, <2>1 DEF EmitterDeliveryInv
  <1> QED
    BY <1>3, <1>4, <1>5 DEF EmitterInv

-----------------------------------------------------------------------------
\* The invariant survives On, Clear and Close.
LEMMA EmitterUserKeeps ==
    ASSUME Emitter!EmitterAssumption, EmitterInv,
           (\E h \in em_Handlers : Emitter!On(h)) \/ Emitter!Clear \/ Emitter!Close
               \/ UNCHANGED Emitter!vars
    PROVE  EmitterInv'
  <1>1. Emitter!EmitterTypeOK /\ EmitterTypes /\ EmitterHandlersInv
        /\ DOMAIN em_handlers = 1 .. Len(em_handlers)
        /\ Len(em_handlers) \in Nat
    BY EmitterPositions DEF EmitterInv
  <1>2. UNCHANGED <<em_queue, Emitter!emitVars, Emitter!loopVars>> /\ em_done' \in BOOLEAN
        /\ (em_done => em_done')
    BY <1>1 DEF Emitter!On, Emitter!Clear, Emitter!Close, Emitter!vars, Emitter!EmitterTypeOK
  <1>3. em_handlers' \in Seq(em_Handlers) /\ Distinct(em_handlers')
    <2>1. CASE em_handlers' = <<>>
      BY <2>1, EmptySeq DEF Distinct
    <2>2. ASSUME NEW h \in em_Handlers, Emitter!On(h)
          PROVE  em_handlers' \in Seq(em_Handlers) /\ Distinct(em_handlers')
      <3>1. /\ em_handlers' \in Seq(em_Handlers)
               /\ DOMAIN em_handlers' = 1 .. (Len(em_handlers) + 1)
            /\ \A i \in 1 .. Len(em_handlers) : em_handlers'[i] = em_handlers[i]
            /\ em_handlers'[Len(em_handlers) + 1] = h
        BY <1>1, <2>2, AppendPositions DEF Emitter!On, EmitterTypes
      <3>2. \A i \in DOMAIN em_handlers : em_handlers[i] # h
        BY <2>2 DEF Emitter!On, Emitter!Range
      <3> QED
        BY <1>1, <3>1, <3>2 DEF EmitterHandlersInv, Distinct
    <2>3. CASE UNCHANGED em_handlers
      BY <1>1, <2>3 DEF EmitterTypes, EmitterHandlersInv, Distinct
    <2> QED
      BY <2>1, <2>2, <2>3 DEF Emitter!Clear, Emitter!Close, Emitter!vars
  <1>4. Emitter!EmitterTypeOK'
    BY <1>1, <1>2, <1>3 DEF Emitter!EmitterTypeOK, Emitter!emitVars, Emitter!loopVars
  <1>5. EmitterNumbersInv' /\ EmitterCountInv' /\ EmitterWrittenInv' /\ EmitterQueueInv'
        /\ EmitterDeliveryInv'
    BY <1>2
       DEF EmitterInv, EmitterNumbersInv, EmitterCountInv, EmitterWrittenInv, EmitterQueueInv,
           EmitterDeliveryInv, EmitterTaken, PassedTo,
           Distinct, EmitterBusy, Emitter!emitVars, Emitter!loopVars
  <1>6. EmitterHandlersInv'
    BY <1>1, <1>2, <1>3 DEF EmitterHandlersInv, Distinct, Emitter!loopVars
  <1>7. EmitterLateInv'
    BY <1>2 DEF EmitterInv, EmitterLateInv, Emitter!emitVars
  <1> QED
    BY <1>4, <1>5, <1>6, <1>7 DEF EmitterInv

\* Where every accepted event is, and what the handlers have been called with.
THEOREM EmitterInvariant == Spec => []EmitterInv
  <1>0. Emitter!EmitterAssumption
    BY PartsAssumption
  <1>1. ASSUME Emitter!Init
        PROVE  EmitterInv
    <2>1. Emitter!EmitterTypeOK
      <3>1. /\ <<>> \in Seq(em_Handlers) /\ <<>> \in Seq(1 .. em_MaxEvents)
               /\ <<>> \in Seq(em_Payloads)
            /\ Len(<<>>) = 0
        BY EmptySeq
      <3>2. 0 \in 0 .. em_MaxEvents /\ 0 <= em_QueueSize /\ 0 <= em_MaxEvents
        BY <1>0 DEF Emitter!EmitterAssumption
      <3> QED
        BY <1>1, <3>1, <3>2 DEF Emitter!Init, Emitter!EmitterTypeOK
    <2>2. \A h \in em_Handlers : DOMAIN em_delivered[h] = {}
      BY <1>1 DEF Emitter!Init
    <2>3. Len(em_accepted) = 0 /\ Len(em_queue) = 0 /\ Len(em_kindOf) = 0
          /\ DOMAIN em_accepted = {} /\ DOMAIN em_queue = {}
      BY <1>1, EmptySeq DEF Emitter!Init
    <2>4. EmitterBusy = {} /\ IsFiniteSet(EmitterBusy) /\ Cardinality(EmitterBusy) = 0
      BY <1>1, FS_EmptySet DEF Emitter!Init, EmitterBusy
    <2>5. EmitterNumbersInv /\ EmitterLateInv /\ EmitterWrittenInv /\ EmitterHandlersInv
      BY <1>1, <2>3 DEF Emitter!Init, EmitterNumbersInv, EmitterLateInv, EmitterWrittenInv,
         EmitterHandlersInv, Distinct
    <2>6. EmitterCountInv /\ EmitterQueueInv
      BY <1>1, <2>3, <2>4 DEF Emitter!Init, EmitterCountInv, EmitterQueueInv
    <2>7. EmitterDeliveryInv
      BY <2>2 DEF EmitterDeliveryInv, Follows
    <2> QED
      BY <2>1, <2>5, <2>6, <2>7 DEF EmitterInv
  <1>2. EmitterInv /\ [Emitter!Next]_(Emitter!vars) => EmitterInv'
    <2> SUFFICES ASSUME EmitterInv, [Emitter!Next]_(Emitter!vars) PROVE EmitterInv'
      OBVIOUS
    <2>1. \A t \in em_Emitters : Emitter!EmitDrops(t) => em_emit[t] # "idle" /\ Emitter!Drop(t)
      BY DEF Emitter!EmitDrops
    <2> QED
      BY <1>0, <2>1, EmitterEmitBeginKeeps, EmitterEmitCheckKeeps, EmitterEmitQueuesKeeps,
         EmitterDropKeeps, EmitterTakeKeeps,
         EmitterCopyHandlersKeeps, EmitterCallKeeps, EmitterLoopEndsKeep,
             EmitterUserKeeps DEF Emitter!Next, Emitter!EmitStep, Emitter!LoopStep
  <1> QED
    BY <1>1, <1>2, EmitterRuns, PTL DEF Emitter!Spec

\* Every handler is called in the order in which Emit accepted the events, an
\* Emit that begins after Close says false, and what a handler writes reaches
\* nobody but for the two kinds of payload that are copied in part.
THEOREM EmitterIsSound == Spec => []EmitterDelivers
  <1>1. ASSUME EmitterInv
        PROVE  EmitterDelivers
    <2>1. /\ Len(em_accepted) \in Nat /\ DOMAIN em_accepted = 1 .. Len(em_accepted)
             /\ Len(em_queue) \in Nat
          /\ \A h \in em_Handlers : DOMAIN em_delivered[h] = 1 .. Len(em_delivered[h])
      BY <1>1, EmitterPositions DEF EmitterInv
    <2>2. \A h \in em_Handlers : PassedTo(h) <= Len(em_accepted) /\ PassedTo(h) \in Int
      BY <2>1 DEF PassedTo, EmitterTaken
    <2>3. \A h \in em_Handlers : \A a \in 1 .. PassedTo(h) : a \in 1 .. Len(em_accepted)
      BY <2>1, <2>2
    <2>4. ASSUME NEW h \in em_Handlers, NEW i \in 1 .. Len(em_delivered[h]),
                 NEW j \in 1 .. Len(em_delivered[h]), i < j
          PROVE  \E a, b \in 1 .. Len(em_accepted) :
                    a < b /\ em_accepted[a] = em_delivered[h][i]
                        /\ em_accepted[b] = em_delivered[h][j]
      <3>0. /\ Follows(em_delivered[h], em_accepted, PassedTo(h))
            /\ i \in DOMAIN em_delivered[h] /\ j \in DOMAIN em_delivered[h] /\ i < j
        BY <1>1, <2>1, <2>4 DEF EmitterInv, EmitterDeliveryInv
      <3>1. PICK a \in 1 .. PassedTo(h), b \in 1 .. PassedTo(h) :
               a < b /\ em_accepted[a] = em_delivered[h][i] /\ em_accepted[b] = em_delivered[h][j]
        BY <3>0 DEF Follows
      <3> QED
        BY <2>3, <3>1
    <2>5. Emitter!ClosedRefuses
      BY <1>1, <2>1 DEF EmitterInv, EmitterLateInv, Emitter!ClosedRefuses
    <2>6. Emitter!PayloadIsolated
      BY <1>1 DEF EmitterInv, EmitterWrittenInv, Emitter!PayloadIsolated
    <2> QED
      BY <1>1, <2>4, <2>5, <2>6 DEF EmitterInv, Emitter!DeliveryInOrder, Emitter!EmitterDelivers,
         EmitterDelivers
  <1> QED
    BY <1>1, EmitterInvariant, PTL

\* No handler is called twice for an event, however often the list of handlers
\* changes (the copy of the list in loop, the check in On).
THEOREM EventsAreDeliveredOnce == Spec => []DeliveredOnce
  <1>1. ASSUME EmitterInv
        PROVE  DeliveredOnce
    <2>1. /\ Len(em_accepted) \in Nat /\ DOMAIN em_accepted = 1 .. Len(em_accepted)
             /\ Len(em_queue) \in Nat
          /\ \A h \in em_Handlers :
                Len(em_delivered[h]) \in Nat /\ DOMAIN em_delivered[h] = 1 .. Len(em_delivered[h])
      BY <1>1, EmitterPositions DEF EmitterInv
    <2>2. \A h \in em_Handlers : \A a \in 1 .. PassedTo(h) : a \in DOMAIN em_accepted
      BY <2>1 DEF PassedTo, EmitterTaken
    <2>3. ASSUME NEW h \in em_Handlers, NEW i \in DOMAIN em_delivered[h],
                 NEW j \in DOMAIN em_delivered[h],
                 i < j
          PROVE  em_delivered[h][i] # em_delivered[h][j]
      <3>1. PICK a \in 1 .. PassedTo(h), b \in 1 .. PassedTo(h) :
               a < b /\ em_accepted[a] = em_delivered[h][i] /\ em_accepted[b] = em_delivered[h][j]
        BY <1>1, <2>3 DEF EmitterInv, EmitterDeliveryInv, Follows
      <3>2. a # b /\ a \in DOMAIN em_accepted /\ b \in DOMAIN em_accepted
        BY <2>1, <2>2, <3>1
      <3> QED
        BY <1>1, <3>1, <3>2 DEF EmitterInv, EmitterNumbersInv, Distinct
    <2>4. \A h \in em_Handlers : \A i, j \in DOMAIN em_delivered[h] : i = j \/ i < j \/ j < i
      BY <2>1
    <2> QED
      BY <2>3, <2>4 DEF DeliveredOnce, Distinct
  <1> QED
    BY <1>1, EmitterInvariant, PTL

-----------------------------------------------------------------------------
\* A step is one of this part, or leaves it alone.
LEMMA ProbeRuns == Spec => Probe!Spec
  <1>1. Init => Probe!Init
    BY DEF Init
  <1>2. ASSUME [Next]_vars
        PROVE  [Probe!Next]_(Probe!vars)
    <2>1. RunProbe \/ UNCHANGED varsProbe
      BY <1>2 DEF Next, vars, RunEmitter, RunRebind, RunTimeouts, RunIdentities, RunPdn, RunProbe,
         RunServing, RunData, RunClientIds, RunQrtr, RunDecoders, RunModemPool, RunWaits,
         RunProxy, RunSim, RunMuxes, RunSms
    <2>2. CASE RunProbe
      BY <2>2 DEF RunProbe
    <2>3. CASE UNCHANGED varsProbe
      BY <2>3 DEF varsProbe, Probe!vars
    <2> QED
      BY <2>1, <2>2, <2>3
  <1> QED
    BY <1>1, <1>2, PTL DEF Spec, Probe!Spec

\* Where a prober is counted in the wait group, where cleanup can cancel it, and
\* where it has the quiet window.
ProbeCounted == Probe!Places \ {"idle", "queue", "return"}
ProbeCancellable == ProbeCounted \ {"done"}
ProbeQuieting == {"start", "settings", "stop", "calm"}
\* It has the slot.
ProbeHolds(p) == ip_pc[p] \notin {"idle", "queue"}

ProbeSlotInv ==
    /\ ip_slot => \A p \in ip_Probers : ~ProbeHolds(p)
    /\ ~ip_slot => \E p \in ip_Probers : ProbeHolds(p)
    /\ \A p, q \in ip_Probers : ProbeHolds(p) /\ ProbeHolds(q) => p = q
ProbeCountedInv == \A p \in ip_Probers : p \in ip_running <=> ip_pc[p] \in ProbeCounted
ProbeCancelInv == \A p \in ip_Probers : ip_imsProbeCancel = p <=> ip_pc[p] \in ProbeCancellable
ProbeClientInv ==
    /\ \A p \in ip_Probers : ip_uses[p] # Probe!NoClient
       => ip_pc[p] \in ProbeCancellable /\ ip_uses[p] = ip_client
    /\ ip_client = Probe!NoClient => ip_running = {}
ProbeQuietInv ==
    /\ \A p \in ip_Probers : ip_quiet = p <=> ip_pc[p] \in ProbeQuieting
    /\ \A p \in ip_calls : ip_pc[p] \in {"settings", "stop"}
ProbeCleanupInv ==
    ip_cleanup = "waiting" =>
        /\ ip_blocked /\ ip_client # Probe!NoClient
        /\ \A p \in ip_Probers : ip_pc[p] \in ProbeCancellable => p \in ip_cancelled

ProbeInv ==
    Probe!ProbeTypeOK /\ ProbeSlotInv /\ ProbeCountedInv /\ ProbeCancelInv /\ ProbeClientInv
        /\ ProbeQuietInv /\ ProbeCleanupInv

\* The invariant survives a probe that asks for the slot.
LEMMA ProbeBeginKeeps ==
    ASSUME Probe!ProbeAssumption, ProbeInv, NEW p \in ip_Probers, Probe!Begin(p)
    PROVE  ProbeInv'
  <1> USE DEF ProbeInv
  <1>1. Probe!ProbeTypeOK'
    BY DEF Probe!Begin, Probe!ProbeTypeOK, Probe!Goto, Probe!manager, Probe!Places,
       Probe!ProbeAssumption
  <1>2. ProbeSlotInv'
    BY DEF Probe!Begin, Probe!ProbeTypeOK, ProbeSlotInv, ProbeHolds, Probe!Goto
  <1>3. ProbeCountedInv'
    BY DEF Probe!Begin, Probe!ProbeTypeOK, ProbeCountedInv, Probe!Goto, ProbeCounted, Probe!Places
  <1>4. ProbeCancelInv'
    BY DEF Probe!Begin, Probe!ProbeTypeOK, ProbeCancelInv, Probe!Goto, ProbeCounted,
       ProbeCancellable, Probe!Places, Probe!ProbeAssumption
  <1>5. ProbeClientInv'
    BY DEF Probe!Begin, Probe!ProbeTypeOK, ProbeCountedInv, ProbeClientInv, Probe!Goto,
       ProbeCounted, ProbeCancellable, Probe!Places, Probe!manager
  <1>6. ProbeQuietInv'
    BY DEF Probe!Begin, Probe!ProbeTypeOK, ProbeQuietInv, Probe!Goto, ProbeQuieting,
       Probe!ProbeAssumption
  <1>7. ProbeCleanupInv'
    BY DEF Probe!Begin, Probe!ProbeTypeOK, ProbeCleanupInv, Probe!Goto, ProbeCounted,
       ProbeCancellable, Probe!Places, Probe!manager
  <1> QED
    BY <1>1, <1>2, <1>3, <1>4, <1>5, <1>6, <1>7

\* The invariant survives the end of a probe's context.
LEMMA ProbeCancelledKeeps ==
    ASSUME Probe!ProbeAssumption, ProbeInv, NEW p \in ip_Probers, Probe!Cancelled(p)
    PROVE  ProbeInv'
  <1> USE DEF ProbeInv
  <1>1. Probe!ProbeTypeOK'
    BY DEF Probe!Cancelled, Probe!ProbeTypeOK, Probe!Goto, Probe!manager, Probe!Places,
       Probe!ProbeAssumption
  <1>2. ProbeSlotInv'
    BY DEF Probe!Cancelled, Probe!ProbeTypeOK, ProbeSlotInv, ProbeHolds, Probe!Goto
  <1>3. ProbeCountedInv'
    BY DEF Probe!Cancelled, Probe!ProbeTypeOK, ProbeCountedInv, Probe!Goto, ProbeCounted,
       Probe!Places
  <1>4. ProbeCancelInv'
    BY DEF Probe!Cancelled, Probe!ProbeTypeOK, ProbeCancelInv, Probe!Goto, ProbeCounted,
       ProbeCancellable, Probe!Places, Probe!ProbeAssumption
  <1>5. ProbeClientInv'
    BY DEF Probe!Cancelled, Probe!ProbeTypeOK, ProbeCountedInv, ProbeClientInv, Probe!Goto,
       ProbeCounted, ProbeCancellable, Probe!Places,
       Probe!manager
  <1>6. ProbeQuietInv'
    BY DEF Probe!Cancelled, Probe!ProbeTypeOK, ProbeQuietInv, Probe!Goto, ProbeQuieting,
       Probe!ProbeAssumption
  <1>7. ProbeCleanupInv'
    BY DEF Probe!Cancelled, Probe!ProbeTypeOK, ProbeCleanupInv, Probe!Goto, ProbeCounted,
       ProbeCancellable, Probe!Places, Probe!manager
  <1> QED
    BY <1>1, <1>2, <1>3, <1>4, <1>5, <1>6, <1>7

\* The invariant survives a probe that gives up waiting for the slot.
LEMMA ProbeLeavesQueueKeeps ==
    ASSUME Probe!ProbeAssumption, ProbeInv, NEW p \in ip_Probers, Probe!LeavesQueue(p)
    PROVE  ProbeInv'
  <1> USE DEF ProbeInv
  <1>1. Probe!ProbeTypeOK'
    BY DEF Probe!LeavesQueue, Probe!ProbeTypeOK, Probe!Goto, Probe!manager, Probe!Places,
       Probe!ProbeAssumption
  <1>2. ProbeSlotInv'
    BY DEF Probe!LeavesQueue, Probe!ProbeTypeOK, ProbeSlotInv, ProbeHolds, Probe!Goto
  <1>3. ProbeCountedInv'
    BY DEF Probe!LeavesQueue, Probe!ProbeTypeOK, ProbeCountedInv, Probe!Goto, ProbeCounted,
       Probe!Places
  <1>4. ProbeCancelInv'
    BY DEF Probe!LeavesQueue, Probe!ProbeTypeOK, ProbeCancelInv, Probe!Goto, ProbeCounted,
       ProbeCancellable, Probe!Places, Probe!ProbeAssumption
  <1>5. ProbeClientInv'
    BY DEF Probe!LeavesQueue, Probe!ProbeTypeOK, ProbeCountedInv, ProbeClientInv, Probe!Goto,
       ProbeCounted, ProbeCancellable, Probe!Places,
       Probe!manager
  <1>6. ProbeQuietInv'
    BY DEF Probe!LeavesQueue, Probe!ProbeTypeOK, ProbeQuietInv, Probe!Goto, ProbeQuieting,
       Probe!ProbeAssumption
  <1>7. ProbeCleanupInv'
    BY DEF Probe!LeavesQueue, Probe!ProbeTypeOK, ProbeCleanupInv, Probe!Goto, ProbeCounted,
       ProbeCancellable, Probe!Places, Probe!manager
  <1> QED
    BY <1>1, <1>2, <1>3, <1>4, <1>5, <1>6, <1>7

\* The invariant survives the slot being taken, or given back to a probe that may not run.
LEMMA ProbeTakeSlotKeeps ==
    ASSUME Probe!ProbeAssumption, ProbeInv, NEW p \in ip_Probers, Probe!TakeSlot(p)
    PROVE  ProbeInv'
  <1> USE DEF ProbeInv
  <1>1. Probe!ProbeTypeOK'
    BY ZenonT(30) DEF Probe!TakeSlot, Probe!MayRun, Probe!ProbeTypeOK, Probe!Goto, Probe!manager,
       Probe!Places, Probe!ProbeAssumption
  <1>2. ProbeSlotInv'
    BY DEF Probe!TakeSlot, Probe!MayRun, Probe!ProbeTypeOK, ProbeSlotInv, ProbeHolds, Probe!Goto
  <1>3. ASSUME Probe!MayRun PROVE ProbeCountedInv' /\ ProbeCancelInv'
    <2>1. /\ ip_running' = ip_running \cup {p} /\ ip_imsProbeCancel' = p
          /\ \A q \in ip_Probers : ip_pc'[q] = IF q = p THEN "lease" ELSE ip_pc[q]
      BY <1>3 DEF Probe!TakeSlot, Probe!ProbeTypeOK, Probe!Goto
    <2>2. ProbeCountedInv'
      BY <2>1 DEF ProbeCountedInv, ProbeCounted, Probe!Places
    <2>3. ProbeCancelInv'
      BY <2>1 DEF Probe!TakeSlot, ProbeSlotInv, ProbeHolds, ProbeCancelInv, ProbeCancellable,
         ProbeCounted, Probe!Places
    <2> QED
      BY <2>2, <2>3
  <1>4. ASSUME ~Probe!MayRun PROVE ProbeCountedInv' /\ ProbeCancelInv'
    <2>1. /\ UNCHANGED <<ip_running, ip_imsProbeCancel>>
          /\ \A q \in ip_Probers : ip_pc'[q] = IF q = p THEN "idle" ELSE ip_pc[q]
      BY <1>4 DEF Probe!TakeSlot, Probe!ProbeTypeOK, Probe!Goto
    <2>2. ProbeCountedInv'
      BY <2>1 DEF Probe!TakeSlot, ProbeCountedInv, ProbeCounted, Probe!Places
    <2>3. ProbeCancelInv'
      BY <2>1 DEF Probe!TakeSlot, ProbeCancelInv, ProbeCancellable, ProbeCounted, Probe!Places
    <2> QED
      BY <2>2, <2>3
  <1>5. ProbeClientInv'
    BY DEF Probe!TakeSlot, Probe!MayRun, Probe!ProbeTypeOK, ProbeCountedInv, ProbeClientInv,
       Probe!Goto, ProbeCounted, ProbeCancellable,
       Probe!Places, Probe!manager
  <1>6. ProbeQuietInv'
    BY DEF Probe!TakeSlot, Probe!MayRun, Probe!ProbeTypeOK, ProbeQuietInv, Probe!Goto,
       ProbeQuieting, Probe!ProbeAssumption
  <1>7. ProbeCleanupInv'
    BY DEF Probe!TakeSlot, Probe!MayRun, Probe!ProbeTypeOK, ProbeCleanupInv, Probe!Goto,
       ProbeCounted, ProbeCancellable, Probe!Places, Probe!manager
  <1> QED
    BY <1>1, <1>2, <1>3, <1>4, <1>5, <1>6, <1>7

\* The invariant survives the probe's requests, with and without a client.
LEMMA ProbeRequestKeeps ==
    ASSUME Probe!ProbeAssumption, ProbeInv, NEW p \in ip_Probers,
           Probe!LeaseWDS(p) \/ Probe!DiscoverProfile(p) \/ Probe!Settings(p)
    PROVE  ProbeInv'
  <1> USE DEF ProbeInv
  <1>1. Probe!ProbeTypeOK'
    BY DEF Probe!LeaseWDS, Probe!DiscoverProfile, Probe!Settings, Probe!Request,
       Probe!ProbeTypeOK, Probe!Goto, Probe!manager, Probe!Places,
       Probe!ProbeAssumption
  <1>2. ProbeSlotInv'
    BY DEF Probe!LeaseWDS, Probe!DiscoverProfile, Probe!Settings, Probe!Request,
       Probe!ProbeTypeOK, ProbeSlotInv, ProbeHolds, Probe!Goto
  <1>3. ProbeCountedInv'
    BY DEF Probe!LeaseWDS, Probe!DiscoverProfile, Probe!Settings, Probe!Request,
       Probe!ProbeTypeOK, ProbeCountedInv, Probe!Goto, ProbeCounted,
       Probe!Places
  <1>4. ProbeCancelInv'
    BY DEF Probe!LeaseWDS, Probe!DiscoverProfile, Probe!Settings, Probe!Request,
       Probe!ProbeTypeOK, ProbeCancelInv, Probe!Goto, ProbeCounted,
       ProbeCancellable, Probe!Places, Probe!ProbeAssumption
  <1>5. ProbeClientInv'
    BY DEF Probe!LeaseWDS, Probe!DiscoverProfile, Probe!Settings, Probe!Request,
       Probe!ProbeTypeOK, ProbeCountedInv, ProbeClientInv,
       Probe!Goto, ProbeCounted, ProbeCancellable, Probe!Places, Probe!manager
  <1>6. ProbeQuietInv'
    BY DEF Probe!LeaseWDS, Probe!DiscoverProfile, Probe!Settings, Probe!Request,
       Probe!ProbeTypeOK, ProbeQuietInv, Probe!Goto, ProbeQuieting,
       Probe!ProbeAssumption
  <1>7. ProbeCleanupInv'
    BY DEF Probe!LeaseWDS, Probe!DiscoverProfile, Probe!Settings, Probe!Request,
       Probe!ProbeTypeOK, ProbeCleanupInv, Probe!Goto, ProbeCounted,
       ProbeCancellable, Probe!Places, Probe!manager
  <1> QED
    BY <1>1, <1>2, <1>3, <1>4, <1>5, <1>6, <1>7

\* The invariant survives the start of the quiet window.
LEMMA ProbeBeginQuietKeeps ==
    ASSUME Probe!ProbeAssumption, ProbeInv, NEW p \in ip_Probers, Probe!BeginQuiet(p)
    PROVE  ProbeInv'
  <1> USE DEF ProbeInv
  <1>1. Probe!ProbeTypeOK'
    BY DEF Probe!BeginQuiet, Probe!ProbeTypeOK, Probe!Goto, Probe!manager, Probe!Places,
       Probe!ProbeAssumption
  <1>2. ProbeSlotInv'
    BY DEF Probe!BeginQuiet, Probe!ProbeTypeOK, ProbeSlotInv, ProbeHolds, Probe!Goto
  <1>3. ProbeCountedInv'
    BY DEF Probe!BeginQuiet, Probe!ProbeTypeOK, ProbeCountedInv, Probe!Goto, ProbeCounted,
       Probe!Places
  <1>4. ProbeCancelInv'
    BY DEF Probe!BeginQuiet, Probe!ProbeTypeOK, ProbeCancelInv, Probe!Goto, ProbeCounted,
       ProbeCancellable, Probe!Places, Probe!ProbeAssumption
  <1>5. ProbeClientInv'
    BY DEF Probe!BeginQuiet, Probe!ProbeTypeOK, ProbeCountedInv, ProbeClientInv, Probe!Goto,
       ProbeCounted, ProbeCancellable, Probe!Places,
       Probe!manager
  <1>6. ProbeQuietInv'
    BY DEF Probe!BeginQuiet, Probe!ProbeTypeOK, ProbeQuietInv, Probe!Goto, ProbeQuieting,
       Probe!ProbeAssumption
  <1>7. ProbeCleanupInv'
    BY DEF Probe!BeginQuiet, Probe!ProbeTypeOK, ProbeCleanupInv, Probe!Goto, ProbeCounted,
       ProbeCancellable, Probe!Places, Probe!manager
  <1> QED
    BY <1>1, <1>2, <1>3, <1>4, <1>5, <1>6, <1>7

\* The invariant survives the start of a call, answered or not.
LEMMA ProbeStartCallKeeps ==
    ASSUME Probe!ProbeAssumption, ProbeInv, NEW p \in ip_Probers, Probe!StartCall(p)
    PROVE  ProbeInv'
  <1> USE DEF ProbeInv
  <1>1. Probe!ProbeTypeOK'
    BY DEF Probe!StartCall, Probe!ProbeTypeOK, Probe!Goto, Probe!manager, Probe!Places,
       Probe!ProbeAssumption
  <1>2. ProbeSlotInv'
    BY DEF Probe!StartCall, Probe!ProbeTypeOK, ProbeSlotInv, ProbeHolds, Probe!Goto
  <1>3. ProbeCountedInv'
    BY DEF Probe!StartCall, Probe!ProbeTypeOK, ProbeCountedInv, Probe!Goto, ProbeCounted,
       Probe!Places
  <1>4. ProbeCancelInv'
    BY DEF Probe!StartCall, Probe!ProbeTypeOK, ProbeCancelInv, Probe!Goto, ProbeCounted,
       ProbeCancellable, Probe!Places, Probe!ProbeAssumption
  <1>5. ProbeClientInv'
    BY DEF Probe!StartCall, Probe!ProbeTypeOK, ProbeCountedInv, ProbeClientInv, Probe!Goto,
       ProbeCounted, ProbeCancellable, Probe!Places,
       Probe!manager
  <1>6. ProbeQuietInv'
    BY DEF Probe!StartCall, Probe!ProbeTypeOK, ProbeQuietInv, Probe!Goto, ProbeQuieting,
       Probe!ProbeAssumption
  <1>7. ProbeCleanupInv'
    BY DEF Probe!StartCall, Probe!ProbeTypeOK, ProbeCleanupInv, Probe!Goto, ProbeCounted,
       ProbeCancellable, Probe!Places, Probe!manager
  <1> QED
    BY <1>1, <1>2, <1>3, <1>4, <1>5, <1>6, <1>7

\* The invariant survives the stop of the call and the end of the quiet window.
LEMMA ProbeStopThenCalmKeeps ==
    ASSUME Probe!ProbeAssumption, ProbeInv, NEW p \in ip_Probers, Probe!StopThenCalm(p)
    PROVE  ProbeInv'
  <1> USE DEF ProbeInv
  <1>1. Probe!ProbeTypeOK'
    BY DEF Probe!StopThenCalm, Probe!ProbeTypeOK, Probe!Goto, Probe!manager, Probe!Places,
       Probe!ProbeAssumption
  <1>2. ProbeSlotInv'
    BY DEF Probe!StopThenCalm, Probe!ProbeTypeOK, ProbeSlotInv, ProbeHolds, Probe!Goto
  <1>3. ProbeCountedInv'
    BY DEF Probe!StopThenCalm, Probe!ProbeTypeOK, ProbeCountedInv, Probe!Goto, ProbeCounted,
       Probe!Places
  <1>4. ProbeCancelInv'
    BY DEF Probe!StopThenCalm, Probe!ProbeTypeOK, ProbeCancelInv, Probe!Goto, ProbeCounted,
       ProbeCancellable, Probe!Places, Probe!ProbeAssumption
  <1>5. ProbeClientInv'
    BY DEF Probe!StopThenCalm, Probe!ProbeTypeOK, ProbeCountedInv, ProbeClientInv, Probe!Goto,
       ProbeCounted, ProbeCancellable, Probe!Places,
       Probe!manager
  <1>6. ProbeQuietInv'
    BY DEF Probe!StopThenCalm, Probe!ProbeTypeOK, ProbeQuietInv, Probe!Goto, ProbeQuieting,
       Probe!ProbeAssumption
  <1>7. ProbeCleanupInv'
    BY DEF Probe!StopThenCalm, Probe!ProbeTypeOK, ProbeCleanupInv, Probe!Goto, ProbeCounted,
       ProbeCancellable, Probe!Places, Probe!manager
  <1> QED
    BY <1>1, <1>2, <1>3, <1>4, <1>5, <1>6, <1>7

\* The invariant survives the release of the probe's WDS client.
LEMMA ProbeReleaseWDSKeeps ==
    ASSUME Probe!ProbeAssumption, ProbeInv, NEW p \in ip_Probers, Probe!ReleaseWDS(p)
    PROVE  ProbeInv'
  <1> USE DEF ProbeInv
  <1>1. Probe!ProbeTypeOK'
    BY DEF Probe!ReleaseWDS, Probe!ProbeTypeOK, Probe!Goto, Probe!manager, Probe!Places,
       Probe!NoClient, Probe!ProbeAssumption
  <1>2. ProbeSlotInv'
    BY DEF Probe!ReleaseWDS, Probe!ProbeTypeOK, ProbeSlotInv, ProbeHolds, Probe!Goto
  <1>3. ProbeCountedInv'
    BY DEF Probe!ReleaseWDS, Probe!ProbeTypeOK, ProbeCountedInv, Probe!Goto, ProbeCounted,
       Probe!Places
  <1>4. ProbeCancelInv'
    BY DEF Probe!ReleaseWDS, Probe!ProbeTypeOK, ProbeCancelInv, Probe!Goto, ProbeCounted,
       ProbeCancellable, Probe!Places, Probe!ProbeAssumption
  <1>5. ProbeClientInv'
    BY DEF Probe!ReleaseWDS, Probe!ProbeTypeOK, ProbeCountedInv, ProbeClientInv, Probe!Goto,
       ProbeCounted, ProbeCancellable, Probe!Places,
       Probe!manager
  <1>6. ProbeQuietInv'
    BY DEF Probe!ReleaseWDS, Probe!ProbeTypeOK, ProbeQuietInv, Probe!Goto, ProbeQuieting,
       Probe!ProbeAssumption
  <1>7. ProbeCleanupInv'
    BY DEF Probe!ReleaseWDS, Probe!ProbeTypeOK, ProbeCleanupInv, Probe!Goto, ProbeCounted,
       ProbeCancellable, Probe!Places, Probe!manager
  <1> QED
    BY <1>1, <1>2, <1>3, <1>4, <1>5, <1>6, <1>7

\* The invariant survives the end of imsProbeCancel, of the count, and the return of the slot.
LEMMA ProbeUncancelThenSlotKeeps ==
    ASSUME Probe!ProbeAssumption, ProbeInv, NEW p \in ip_Probers, Probe!UncancelThenSlot(p)
    PROVE  ProbeInv'
  <1> USE DEF ProbeInv
  <1>1. Probe!ProbeTypeOK'
    <2>1. PICK l \in {"done", "return", "idle"} : Probe!Goto(p, l)
      BY DEF Probe!UncancelThenSlot
    <2>2. ip_pc' \in [ip_Probers -> Probe!Places]
      BY <2>1 DEF Probe!ProbeTypeOK, Probe!Goto, Probe!Places
    <2>3. ip_uses' \in [ip_Probers -> 0 .. ip_MaxLives]
      BY DEF Probe!UncancelThenSlot, Probe!ProbeTypeOK, Probe!NoClient, Probe!ProbeAssumption
    <2>4. ip_cancelled' \subseteq ip_Probers /\ ip_running' \subseteq ip_Probers
      BY DEF Probe!UncancelThenSlot, Probe!ProbeTypeOK
    <2> QED
      BY <2>2, <2>3, <2>4 DEF Probe!UncancelThenSlot, Probe!ProbeTypeOK, Probe!manager
  <1>2. ProbeSlotInv'
    BY DEF Probe!UncancelThenSlot, Probe!ProbeTypeOK, ProbeSlotInv, ProbeHolds, Probe!Goto
  <1>3. ProbeCountedInv'
    BY DEF Probe!UncancelThenSlot, Probe!ProbeTypeOK, ProbeCountedInv, Probe!Goto, ProbeCounted,
       Probe!Places
  <1>4. ProbeCancelInv'
    BY DEF Probe!UncancelThenSlot, Probe!ProbeTypeOK, ProbeCancelInv, Probe!Goto, ProbeCounted,
       ProbeCancellable, Probe!Places,
       Probe!ProbeAssumption
  <1>5. ProbeClientInv'
    BY DEF Probe!UncancelThenSlot, Probe!ProbeTypeOK, ProbeCountedInv, ProbeClientInv,
       Probe!Goto, ProbeCounted, ProbeCancellable,
       Probe!Places, Probe!manager
  <1>6. ProbeQuietInv'
    BY DEF Probe!UncancelThenSlot, Probe!ProbeTypeOK, ProbeQuietInv, Probe!Goto, ProbeQuieting,
       Probe!ProbeAssumption
  <1>7. ProbeCleanupInv'
    BY DEF Probe!UncancelThenSlot, Probe!ProbeTypeOK, ProbeCleanupInv, Probe!Goto, ProbeCounted,
       ProbeCancellable, Probe!Places, Probe!manager
  <1> QED
    BY <1>1, <1>2, <1>3, <1>4, <1>5, <1>6, <1>7

\* The invariant survives cleanup and the opening of the next core.
LEMMA ProbeOthersKeep ==
    ASSUME Probe!ProbeAssumption, ProbeInv,
           Probe!DataCall \/ Probe!OtherQuiet \/ Probe!Stop \/ Probe!BlockIMSProbes
               \/ Probe!CleanupClears \/ Probe!CoreReady
              \/ UNCHANGED Probe!vars
    PROVE  ProbeInv'
  <1> USE DEF ProbeInv, Probe!DataCall, Probe!OtherQuiet, Probe!Stop, Probe!BlockIMSProbes,
          Probe!CleanupClears, Probe!CoreReady,
              Probe!vars, Probe!manager
  <1>1. Probe!ProbeTypeOK'
    <2>1. ip_client' \in 0 .. ip_MaxLives /\ ip_lives' \in 0 .. ip_MaxLives
      <3>1. ip_client \in 0 .. ip_MaxLives /\ ip_lives \in 0 .. ip_MaxLives /\ ip_MaxLives \in Nat
        BY DEF Probe!ProbeTypeOK, Probe!ProbeAssumption
      <3> QED
        BY <3>1 DEF Probe!NoClient
    <2>2. ip_cancelled' \subseteq ip_Probers /\ ip_cleanup' \in {"idle", "waiting"}
      BY DEF Probe!ProbeTypeOK
    <2>3. ip_ready' \in BOOLEAN /\ ip_stopping' \in BOOLEAN /\ ip_blocked' \in BOOLEAN
          /\ ip_activePDN' \in BOOLEAN /\ ip_quiet' \in ip_Probers \union {"nobody", "other"}
      BY DEF Probe!ProbeTypeOK
    <2>4. UNCHANGED <<ip_pc, ip_uses, ip_slot, ip_running, ip_calls, ip_imsProbeCancel, ip_probes>>
      OBVIOUS
    <2> QED
      BY <2>1, <2>2, <2>3, <2>4 DEF Probe!ProbeTypeOK
  <1>2. ProbeSlotInv'
    BY DEF ProbeSlotInv, ProbeHolds
  <1>3. ProbeCountedInv'
    BY DEF ProbeCountedInv
  <1>4. ProbeCancelInv'
    BY DEF ProbeCancelInv
  <1>5. ProbeClientInv'
    BY DEF Probe!ProbeTypeOK, ProbeClientInv, ProbeCountedInv, ProbeCancellable, Probe!NoClient
  <1>6. ProbeQuietInv'
    BY DEF ProbeQuietInv, Probe!ProbeAssumption
  <1>7. ProbeCleanupInv'
    BY DEF ProbeCleanupInv, ProbeCancelInv, Probe!ProbeAssumption, Probe!NoClient
  <1> QED
    BY <1>1, <1>2, <1>3, <1>4, <1>5, <1>6, <1>7

\* What holds of the probers wherever they are.
THEOREM ProbeInvariant == Spec => []ProbeInv
  <1>0. Probe!ProbeAssumption
    BY PartsAssumption
  <1>1. ASSUME Probe!Init
        PROVE  ProbeInv
    <2>1. Probe!ProbeTypeOK
      <3>1. {0, 1} \subseteq 0 .. ip_MaxLives /\ 0 \in 0 .. ip_MaxProbes
        BY <1>0 DEF Probe!ProbeAssumption
      <3> QED
        BY <1>1, <3>1 DEF Probe!Init, Probe!ProbeTypeOK, Probe!Places, Probe!NoClient
    <2>2. \A p \in ip_Probers : ip_pc[p] = "idle"
      BY <1>1 DEF Probe!Init
    <2>3. ProbeSlotInv /\ ProbeCountedInv /\ ProbeCancelInv /\ ProbeQuietInv
      BY <1>0, <1>1, <2>2
         DEF Probe!Init, ProbeSlotInv, ProbeHolds, ProbeCountedInv, ProbeCancelInv,
             ProbeQuietInv, ProbeCounted, ProbeCancellable,
             ProbeQuieting, Probe!ProbeAssumption
    <2>4. ProbeClientInv /\ ProbeCleanupInv
      BY <1>1 DEF Probe!Init, ProbeClientInv, ProbeCleanupInv, Probe!NoClient
    <2> QED
      BY <2>1, <2>3, <2>4 DEF ProbeInv
  <1>2. ProbeInv /\ [Probe!Next]_(Probe!vars) => ProbeInv'
    BY <1>0, ProbeBeginKeeps, ProbeCancelledKeeps, ProbeLeavesQueueKeeps, ProbeTakeSlotKeeps,
       ProbeRequestKeeps,
       ProbeBeginQuietKeeps, ProbeStartCallKeeps, ProbeStopThenCalmKeeps, ProbeReleaseWDSKeeps,
       ProbeUncancelThenSlotKeeps, ProbeOthersKeep DEF Probe!Next, Probe!ProbeStep
  <1> QED
    BY <1>1, <1>2, ProbeRuns, PTL DEF Probe!Spec

\* A probe runs alone and in its quiet window, makes no request of a client that
\* cleanup has given up, and has been cancelled when cleanup waits for it.
THEOREM ProbesAreContained == Spec => []ProbesContained
  <1>1. ASSUME ProbeInv
        PROVE  ProbesContained
    <2>1. Probe!NoProbeOnClosedClient
      BY <1>1 DEF ProbeInv, ProbeClientInv, Probe!NoProbeOnClosedClient
    <2>2. Probe!OneProbe
      <3> DEFINE H == {p \in ip_Probers : ip_pc[p] \notin {"idle", "queue"}}
      <3>1. CASE ip_slot
        <4>1. H = {} /\ Probe!Cardinality({}) = 0
          BY <1>1, <3>1, FS_EmptySet, SameCardinality DEF ProbeInv, ProbeSlotInv, ProbeHolds
        <4> QED
          BY <3>1, <4>1 DEF Probe!OneProbe
      <3>2. CASE ~ip_slot
        <4>1. PICK p \in ip_Probers : ProbeHolds(p)
          BY <1>1, <3>2 DEF ProbeInv, ProbeSlotInv
        <4>2. H = {p}
          BY <1>1, <4>1 DEF ProbeInv, ProbeSlotInv, ProbeHolds
        <4>3. Probe!Cardinality(H) = 1
          BY <4>2, FS_Singleton, SameCardinality
        <4> QED
          BY <3>2, <4>3 DEF Probe!OneProbe
      <3> QED
        BY <3>1, <3>2
    <2>3. Probe!CleanupCancelsProbe
      BY <1>1 DEF ProbeInv, Probe!ProbeTypeOK, ProbeCleanupInv, ProbeCountedInv,
         ProbeCancellable, Probe!CleanupCancelsProbe
    <2>4. Probe!CallInQuietWindow
      BY <1>1 DEF ProbeInv, Probe!ProbeTypeOK, ProbeQuietInv, ProbeQuieting, Probe!CallInQuietWindow
    <2> QED
      BY <1>1, <2>1, <2>2, <2>3, <2>4 DEF ProbeInv, Probe!ProbesContained, ProbesContained
  <1> QED
    BY <1>1, ProbeInvariant, PTL

-----------------------------------------------------------------------------
\* A step is one of this part, or leaves it alone.
LEMMA SimRuns == Spec => Sim!Spec
  <1>1. Init => Sim!Init
    BY DEF Init
  <1>2. ASSUME [Next]_vars
        PROVE  [Sim!Next]_(Sim!vars)
    <2>1. RunSim \/ UNCHANGED varsSim
      BY <1>2 DEF Next, vars, RunEmitter, RunRebind, RunTimeouts, RunIdentities, RunPdn, RunProbe,
         RunServing, RunData, RunClientIds, RunQrtr, RunDecoders, RunModemPool, RunWaits,
         RunProxy, RunSim, RunMuxes, RunSms
    <2>2. CASE RunSim
      BY <2>2 DEF RunSim
    <2>3. CASE UNCHANGED varsSim
      BY <2>3 DEF varsSim, Sim!vars
    <2> QED
      BY <2>1, <2>2, <2>3
  <1> QED
    BY <1>1, <1>2, PTL DEF Spec, Sim!Spec

\* Who is at the power cycle came to reload the SIM; the power that is off is in the hands
\* of a caller who cycles it, or was left off by one who has returned.
Cycling == {"power off", "power wait", "power on"}
PowerHeld ==
    /\ \A c \in si_Callers : si_at[c] \in Cycling => c \in si_Reloaders
    /\ ~si_power => \E r \in si_Reloaders : si_at[r] \in {"power wait", "power on"}
       \/ (r \in si_cut /\ si_at[r] = "return")
SessionHeld == Sim!SessionRestored /\ (si_session => si_takenDown = "nobody")
\* An activation is counted before its rebind, an unknown reading at most once an attempt.
Counted ==
    \A c \in si_Callers :
        /\ si_rebinds[c] <= si_activations[c]
        /\ si_at[c] = "deactivate" => si_rebinds[c] < si_activations[c]
        /\ si_at[c] = "aid" => si_activations[c] < si_MaxActivations
        /\ si_unknownStreak[c] <= si_attempt[c]
        /\ si_at[c] \in {"idle", "read"} \cup Cycling => si_unknownStreak[c] < si_attempt[c]

SimInv == Sim!SimTypeOK /\ PowerHeld /\ SessionHeld /\ Counted

\* A caller goes to one place, and the others stay where they are.
LEMMA SimGoto ==
    ASSUME Sim!SimTypeOK, NEW c \in si_Callers, NEW place \in Sim!Places, Sim!Goto(c, place)
    PROVE  /\ si_at' \in [si_Callers -> Sim!Places] /\ si_at'[c] = place
           /\ \A d \in si_Callers : d # c => si_at'[d] = si_at[d]
  BY DEF Sim!Goto, Sim!SimTypeOK

\* The card comes, goes and settles without the callers.
LEMMA SimCardKeeps ==
    ASSUME Sim!SimAssumption, SimInv, Sim!CardComes \/ Sim!CardGoes \/ Sim!CardSettles
    PROVE  SimInv'
  <1> USE DEF SimInv
  <1>1. /\ UNCHANGED <<si_power, si_at, si_last, si_cut, si_attempt, si_unknownStreak,
           si_activations, si_rebinds>>
        /\ si_card' \in Sim!Cards /\ si_cards' \in 0 .. si_MaxCards
        /\ \/ UNCHANGED <<si_session, si_takenDown>>
           \/ si_session' \in BOOLEAN /\ si_takenDown' = "nobody"
    <2>1. CASE Sim!CardComes
      BY <2>1 DEF Sim!CardComes, Sim!Cards, Sim!counters, Sim!SimTypeOK, Sim!SimAssumption
    <2>2. CASE Sim!CardGoes
      BY <2>2 DEF Sim!CardGoes, Sim!Cards, Sim!counters, Sim!NoSession, Sim!SimTypeOK
    <2>3. CASE Sim!CardSettles
      BY <2>3 DEF Sim!CardSettles, Sim!Cards, Sim!counters, Sim!SessionUp, Sim!SimTypeOK
    <2> QED
      BY <2>1, <2>2, <2>3
  <1>2. Sim!SimTypeOK'
    BY <1>1 DEF Sim!SimTypeOK
  <1>3. PowerHeld' /\ Counted'
    BY <1>1 DEF PowerHeld, Counted
  <1>4. SessionHeld'
    BY <1>1 DEF SessionHeld, Sim!SessionRestored
  <1> QED
    BY <1>2, <1>3, <1>4

\* A power cycle that ends half way is noted with its caller, who returns.
LEMMA SimPowerKeeps ==
    ASSUME Sim!SimAssumption, SimInv, NEW c \in si_Callers,
           Sim!Begin(c) \/ Sim!UIMPowerOffSIM(c) \/ Sim!PowerWait(c) \/ Sim!UIMPowerOnSIM(c)
    PROVE  SimInv'
  <1> USE DEF SimInv
  <1>1. UNCHANGED <<si_last, si_attempt, si_unknownStreak, si_activations, si_rebinds, si_cards>>
    BY DEF Sim!Begin, Sim!UIMPowerOffSIM, Sim!PowerWait, Sim!UIMPowerOnSIM, Sim!modem, Sim!counters
  <1>2. /\ si_at[c] \in {"idle"} \cup Cycling
        /\ si_at' \in [si_Callers -> Sim!Places] /\ \A d \in si_Callers : d # c
           => si_at'[d] = si_at[d]
        /\ si_at'[c] \in {"read", "return"} \cup Cycling
        /\ si_at'[c] \in Cycling => c \in si_Reloaders
        /\ si_cut' \in {si_cut, si_cut \cup {c}}
    <2> USE SimGoto DEF Sim!Places, Cycling
    <2>1. CASE Sim!Begin(c)
      BY <2>1 DEF Sim!Begin
    <2>2. CASE Sim!UIMPowerOffSIM(c)
      BY <2>2 DEF Sim!UIMPowerOffSIM, PowerHeld
    <2>3. CASE Sim!PowerWait(c)
      BY <2>3 DEF Sim!PowerWait, PowerHeld
    <2>4. CASE Sim!UIMPowerOnSIM(c)
      BY <2>4 DEF Sim!UIMPowerOnSIM, PowerHeld
    <2> QED
      BY <2>1, <2>2, <2>3, <2>4
  <1>3. /\ si_card' \in Sim!Cards /\ si_power' \in BOOLEAN
        /\ \/ UNCHANGED <<si_session, si_takenDown>>
           \/ si_session' = FALSE /\ si_takenDown' = "nobody"
    BY DEF Sim!Begin, Sim!UIMPowerOffSIM, Sim!PowerWait, Sim!UIMPowerOnSIM, Sim!modem,
       Sim!NoSession, Sim!Cards, Sim!SimTypeOK
  <1>4. Sim!SimTypeOK'
    BY <1>1, <1>2, <1>3 DEF Sim!SimTypeOK
  <1>5. PowerHeld'
    <2>1. SUFFICES ASSUME ~si_power'
                   PROVE  \E r \in si_Reloaders : \/ si_at'[r] \in {"power wait", "power on"}
                                                  \/ r \in si_cut' /\ si_at'[r] = "return"
      BY <1>2 DEF PowerHeld, Cycling
    <2>2. CASE Sim!Begin(c)
      BY <1>2, <2>1, <2>2 DEF Sim!Begin, Sim!modem, PowerHeld, Sim!SimAssumption
    <2>3. CASE Sim!UIMPowerOffSIM(c)
      <3>1. \/ Sim!Goto(c, "power wait")
            \/ Sim!Goto(c, "return") /\ si_cut' = si_cut \cup {c}
        BY <2>3 DEF Sim!UIMPowerOffSIM
      <3>2. c \in si_Reloaders
        BY <2>3 DEF Sim!UIMPowerOffSIM, PowerHeld, Cycling
      <3> QED
        BY <3>1, <3>2, SimGoto DEF Sim!Places
    <2>4. CASE Sim!PowerWait(c)
      <3>1. \/ Sim!Goto(c, "power on")
            \/ Sim!Goto(c, "return") /\ si_cut' = si_cut \cup {c}
        BY <2>4 DEF Sim!PowerWait
      <3>2. c \in si_Reloaders
        BY <2>4 DEF Sim!PowerWait, PowerHeld, Cycling
      <3> QED
        BY <3>1, <3>2, SimGoto DEF Sim!Places
    <2>5. CASE Sim!UIMPowerOnSIM(c)
      <3>1. Sim!Goto(c, "return") /\ si_cut' = si_cut \cup {c}
        BY <2>1, <2>5 DEF Sim!UIMPowerOnSIM
      <3>2. c \in si_Reloaders
        BY <2>5 DEF Sim!UIMPowerOnSIM, PowerHeld, Cycling
      <3> QED
        BY <3>1, <3>2, SimGoto DEF Sim!Places
    <2> QED
      BY <2>2, <2>3, <2>4, <2>5
  <1>6. SessionHeld'
    <2>1. \A d \in si_Callers : si_at[d] \in {"wait", "activate"} \/ d \in si_cut
                             => si_at'[d] \in {"wait", "activate"} \/ d \in si_cut'
      BY <1>2 DEF Cycling
    <2> QED
      BY <1>3, <2>1 DEF SessionHeld, Sim!SessionRestored, Sim!SimTypeOK
  <1>7. Counted'
    BY <1>1, <1>2 DEF Counted, Cycling
  <1> QED
    BY <1>4, <1>5, <1>6, <1>7

\* A reading, the AID and the wait between attempts leave the modem alone.
LEMMA SimPollingKeeps ==
    ASSUME Sim!SimAssumption, SimInv, NEW c \in si_Callers,
           Sim!Readiness(c) \/ Sim!ReadAID(c) \/ Sim!Sleep(c)
    PROVE  SimInv'
  <1> USE DEF SimInv
  <1>1. UNCHANGED <<si_card, si_cards, si_session, si_power, si_takenDown, si_rebinds, si_cut>>
    BY DEF Sim!Readiness, Sim!ReadAID, Sim!Sleep, Sim!modem
  <1>2. /\ si_at[c] \in {"read", "aid", "sleep"}
        /\ si_at' \in [si_Callers -> Sim!Places] /\ \A d \in si_Callers : d # c
           => si_at'[d] = si_at[d]
        /\ si_at'[c] \in {"return", "aid", "sleep", "deactivate", "read"}
        /\ si_at'[c] = "read" => si_at[c] = "sleep" /\ si_attempt'[c] = si_attempt[c] + 1
        /\ si_at'[c] = "aid" => si_activations[c] < si_MaxActivations
        /\ si_at'[c] = "deactivate" => si_at[c] = "aid"
           /\ si_activations'[c] = si_activations[c] + 1
    <2> USE SimGoto DEF Sim!Places
    <2>1. CASE Sim!Readiness(c)
      BY <2>1 DEF Sim!Readiness
    <2>2. CASE Sim!ReadAID(c)
      BY <2>2 DEF Sim!ReadAID, Sim!SimTypeOK
    <2>3. CASE Sim!Sleep(c)
      BY <2>3 DEF Sim!Sleep, Sim!SimTypeOK
    <2> QED
      BY <2>1, <2>2, <2>3
  <1>3. /\ si_last' \in [si_Callers -> Sim!Cards]
        /\ si_attempt' \in [si_Callers -> 1 .. si_MaxAttempts]
        /\ \A d \in si_Callers : d # c => si_attempt'[d] = si_attempt[d]
        /\ si_attempt'[c] >= si_attempt[c]
    BY DEF Sim!Readiness, Sim!ReadAID, Sim!Sleep, Sim!SimTypeOK, Sim!SimAssumption
  <1>4. /\ si_activations' \in [si_Callers -> 0 .. si_MaxActivations]
        /\ \A d \in si_Callers : d # c => si_activations'[d] = si_activations[d]
        /\ si_activations'[c] >= si_activations[c]
    <2>1. si_at[c] = "aid" => si_activations[c] + 1 \in 0 .. si_MaxActivations
      BY DEF Counted, Sim!SimTypeOK, Sim!SimAssumption
    <2> QED
      BY <2>1 DEF Sim!Readiness, Sim!ReadAID, Sim!Sleep, Sim!SimTypeOK
  <1>5. /\ si_unknownStreak' \in [si_Callers -> 0 .. si_MaxAttempts]
        /\ \A d \in si_Callers : d # c => si_unknownStreak'[d] = si_unknownStreak[d]
        /\ si_unknownStreak'[c] <= si_attempt[c]
    <2>1. CASE Sim!Readiness(c)
      <3>1. si_unknownStreak[c] < si_attempt[c] /\ si_attempt[c] <= si_MaxAttempts
        BY <2>1 DEF Sim!Readiness, Counted, Sim!SimTypeOK
      <3>2. Sim!Streak(c) \in 0 .. si_MaxAttempts /\ Sim!Streak(c) <= si_attempt[c]
        BY <3>1 DEF Sim!Streak, Sim!SimTypeOK, Sim!SimAssumption
      <3>3. si_unknownStreak' \in {si_unknownStreak, [si_unknownStreak EXCEPT ![c] = Sim!Streak(c)]}
        BY <2>1 DEF Sim!Readiness
      <3> QED
        BY <3>1, <3>2, <3>3 DEF Sim!SimTypeOK
    <2>2. CASE Sim!ReadAID(c) \/ Sim!Sleep(c)
      BY <2>2 DEF Sim!ReadAID, Sim!Sleep, Sim!SimTypeOK, Counted
    <2> QED
      BY <2>1, <2>2
  <1>6. Sim!SimTypeOK'
    BY <1>1, <1>2, <1>3, <1>4, <1>5 DEF Sim!SimTypeOK
  <1>7. PowerHeld'
    <2>1. \A d \in si_Callers : si_at'[d] \in Cycling => si_at'[d] = si_at[d]
      BY <1>2 DEF Cycling
    <2>2. \A d \in si_Callers : si_at[d] \in Cycling \cup {"return"} => si_at'[d] = si_at[d]
      BY <1>2 DEF Cycling
    <2> QED
      BY <1>1, <2>1, <2>2 DEF PowerHeld, Sim!SimAssumption, Cycling
  <1>8. SessionHeld'
    BY <1>1, <1>2 DEF SessionHeld, Sim!SessionRestored, Sim!SimTypeOK
  <1>9. Counted'
    <2>1. ASSUME NEW d \in si_Callers
          PROVE  /\ si_rebinds'[d] <= si_activations'[d]
                 /\ si_at'[d] = "deactivate" => si_rebinds'[d] < si_activations'[d]
      BY <1>1, <1>2, <1>4 DEF Counted, Sim!SimTypeOK
    <2>2. ASSUME NEW d \in si_Callers
          PROVE  si_at'[d] = "aid" => si_activations'[d] < si_MaxActivations
      <3>1. CASE d = c /\ Sim!Readiness(c)
        BY <1>2, <3>1 DEF Sim!Readiness
      <3>2. CASE d = c /\ ~Sim!Readiness(c)
        BY <3>2, SimGoto DEF Sim!ReadAID, Sim!Sleep, Sim!Places
      <3>3. CASE d # c
        BY <1>2, <1>4, <3>3 DEF Counted
      <3> QED
        BY <3>1, <3>2, <3>3
    <2>3. ASSUME NEW d \in si_Callers
          PROVE  /\ si_unknownStreak'[d] <= si_attempt'[d]
                 /\ si_at'[d] \in {"idle", "read"} \cup Cycling
                    => si_unknownStreak'[d] < si_attempt'[d]
      <3>1. CASE d = c
        <4>1. si_unknownStreak'[c] \in Nat /\ si_attempt[c] \in Nat /\ si_attempt'[c] \in Nat
          BY <1>3, <1>5 DEF Sim!SimTypeOK, Sim!SimAssumption
        <4>2. si_at'[c] \notin {"idle"} \cup Cycling
          BY <1>2 DEF Cycling
        <4> QED
          BY <1>2, <1>3, <1>5, <3>1, <4>1, <4>2
      <3>2. CASE d # c
        BY <1>2, <1>3, <1>5, <3>2 DEF Counted
      <3> QED
        BY <3>1, <3>2
    <2> QED
      BY <2>1, <2>2, <2>3 DEF Counted
  <1> QED
    BY <1>6, <1>7, <1>8, <1>9

\* A rebind that ends half way is noted with its caller, and each was counted before.
LEMMA SimRebindKeeps ==
    ASSUME Sim!SimAssumption, SimInv, NEW c \in si_Callers,
           Sim!Deactivate(c) \/ Sim!RebindWait(c) \/ Sim!Activate(c)
    PROVE  SimInv'
  <1> USE DEF SimInv
  <1>1. UNCHANGED <<si_cards, si_power, si_last, si_attempt, si_activations>>
    BY DEF Sim!Deactivate, Sim!RebindWait, Sim!Activate, Sim!modem, Sim!counters
  <1>2. /\ si_at[c] \in {"deactivate", "wait", "activate"}
        /\ si_at' \in [si_Callers -> Sim!Places] /\ \A d \in si_Callers : d # c
           => si_at'[d] = si_at[d]
        /\ si_at'[c] \in {"wait", "activate", "sleep", "return"}
        /\ si_cut' \subseteq si_Callers
        /\ \A d \in si_Callers : d # c => (d \in si_cut' <=> d \in si_cut)
    <2> USE SimGoto DEF Sim!Places
    <2>1. CASE Sim!Deactivate(c)
      BY <2>1 DEF Sim!Deactivate, Sim!SimTypeOK
    <2>2. CASE Sim!RebindWait(c)
      BY <2>2 DEF Sim!RebindWait, Sim!SimTypeOK
    <2>3. CASE Sim!Activate(c)
      BY <2>3 DEF Sim!Activate, Sim!SimTypeOK
    <2> QED
      BY <2>1, <2>2, <2>3
  <1>3. /\ si_card' \in Sim!Cards /\ si_session' \in BOOLEAN /\ si_takenDown' \in si_Callers
           \cup {"nobody"}
        /\ si_rebinds' \in [si_Callers -> Nat]
           /\ si_unknownStreak' \in [si_Callers -> 0 .. si_MaxAttempts]
    <2>1. CASE Sim!Deactivate(c)
      <3>1. si_card' \in Sim!Cards /\ si_session' \in BOOLEAN
        BY <2>1 DEF Sim!Deactivate, Sim!Cards, Sim!SimTypeOK
      <3>2. si_takenDown' \in si_Callers \cup {"nobody"} /\ si_unknownStreak' = si_unknownStreak
        BY <2>1 DEF Sim!Deactivate, Sim!SimTypeOK
      <3>3. si_rebinds' \in [si_Callers -> Nat]
        BY <2>1 DEF Sim!Deactivate, Sim!SimTypeOK
      <3> QED
        BY <3>1, <3>2, <3>3 DEF Sim!SimTypeOK
    <2>2. CASE Sim!RebindWait(c)
      BY <2>2 DEF Sim!RebindWait, Sim!modem, Sim!counters, Sim!SimTypeOK
    <2>3. CASE Sim!Activate(c)
      <3>1. /\ si_card' \in Sim!Cards /\ si_session' \in BOOLEAN
            /\ si_takenDown' \in si_Callers \cup {"nobody"} /\ si_rebinds' \in [si_Callers -> Nat]
        BY <2>3 DEF Sim!Activate, Sim!SessionUp, Sim!SimTypeOK
      <3>2. 0 \in 0 .. si_MaxAttempts
        BY DEF Sim!SimAssumption
      <3>3. si_unknownStreak' \in {si_unknownStreak, [si_unknownStreak EXCEPT ![c] = 0]}
        BY <2>3 DEF Sim!Activate
      <3> QED
        BY <3>1, <3>2, <3>3 DEF Sim!SimTypeOK
    <2> QED
      BY <2>1, <2>2, <2>3
  <1>4. Sim!SimTypeOK'
    BY <1>1, <1>2, <1>3 DEF Sim!SimTypeOK
  <1>5. PowerHeld'
    BY <1>1, <1>2 DEF PowerHeld, Sim!SimAssumption, Cycling
  <1>6. SessionHeld'
    <2>1. CASE Sim!Deactivate(c)
      <3>1. \/ si_at'[c] = "wait"
            \/ c \in si_cut'
        BY <2>1, SimGoto DEF Sim!Deactivate, Sim!Places
      <3>2. \/ si_session' = FALSE /\ si_takenDown' = c
            \/ UNCHANGED <<si_session, si_takenDown>>
        BY <2>1 DEF Sim!Deactivate
      <3>3. CASE si_takenDown' = c
        BY <3>1, <3>2, <3>3 DEF SessionHeld, Sim!SessionRestored
      <3>4. CASE si_takenDown' # c
        BY <1>2, <3>2, <3>4 DEF SessionHeld, Sim!SessionRestored, Sim!SimTypeOK
      <3> QED
        BY <3>3, <3>4
    <2>2. CASE Sim!RebindWait(c)
      <3>1. \/ si_at'[c] = "activate"
            \/ c \in si_cut'
        BY <2>2, SimGoto DEF Sim!RebindWait, Sim!Places
      <3> QED
        BY <1>2, <2>2, <3>1 DEF Sim!RebindWait, Sim!modem, SessionHeld, Sim!SessionRestored,
           Sim!SimTypeOK
    <2>3. CASE Sim!Activate(c)
      <3>1. \/ si_session' = TRUE /\ si_takenDown' = "nobody"
            \/ UNCHANGED <<si_session, si_takenDown>>
        BY <2>3 DEF Sim!Activate, Sim!SessionUp
      <3>2. si_session' \/ c \in si_cut'
        BY <2>3 DEF Sim!Activate
      <3> QED
        BY <1>2, <3>1, <3>2 DEF SessionHeld, Sim!SessionRestored, Sim!SimTypeOK
    <2> QED
      BY <2>1, <2>2, <2>3
  <1>7. Counted'
    <2>1. /\ \A d \in si_Callers : d # c => si_rebinds'[d] = si_rebinds[d]
          /\ \/ si_rebinds'[c] = si_rebinds[c]
             \/ si_at[c] = "deactivate" /\ si_rebinds'[c] = si_rebinds[c] + 1
      BY DEF Sim!Deactivate, Sim!RebindWait, Sim!Activate, Sim!counters, Sim!SimTypeOK
    <2>2. /\ \A d \in si_Callers : d # c => si_unknownStreak'[d] = si_unknownStreak[d]
          /\ si_unknownStreak'[c] \in {0, si_unknownStreak[c]}
      BY DEF Sim!Deactivate, Sim!RebindWait, Sim!Activate, Sim!counters, Sim!SimTypeOK
    <2>3. SUFFICES ASSUME NEW d \in si_Callers
                   PROVE  /\ si_rebinds'[d] <= si_activations'[d]
                          /\ si_at'[d] = "deactivate" => si_rebinds'[d] < si_activations'[d]
                          /\ si_at'[d] = "aid" => si_activations'[d] < si_MaxActivations
                          /\ si_unknownStreak'[d] <= si_attempt'[d]
                          /\ si_at'[d] \in {"idle", "read"} \cup Cycling
                               => si_unknownStreak'[d] < si_attempt'[d]
      BY DEF Counted
    <2>4. CASE d = c
      <3>1. /\ si_rebinds[c] \in Nat /\ si_activations[c] \in Nat /\ si_unknownStreak[c] \in Nat
            /\ si_attempt[c] \in Nat
        BY DEF Sim!SimTypeOK
      <3> QED
        <4>1. si_rebinds'[c] <= si_activations'[c]
          BY <1>1, <2>1, <3>1 DEF Counted
        <4>2. si_unknownStreak'[c] <= si_attempt'[c]
          BY <1>1, <2>2, <3>1 DEF Counted
        <4>3. si_at'[c] \notin {"idle", "read", "deactivate", "aid"} \cup Cycling
          BY <1>2 DEF Cycling
        <4> QED
          BY <2>4, <4>1, <4>2, <4>3
    <2>5. CASE d # c
      BY <1>1, <1>2, <2>1, <2>2, <2>5 DEF Counted
    <2> QED
      BY <2>4, <2>5
  <1> QED
    BY <1>4, <1>5, <1>6, <1>7

\* What was switched off or taken down has somebody to put it back, or who could not.
THEOREM SimInvariant == Spec => []SimInv
  <1>0. Sim!SimAssumption
    BY PartsAssumption
  <1>1. ASSUME Sim!Init
        PROVE  SimInv
    <2>1. /\ 0 \in 0 .. si_MaxCards /\ 0 \in 0 .. si_MaxAttempts /\ 1 \in 1 .. si_MaxAttempts
          /\ 0 \in 0 .. si_MaxActivations
      BY <1>0 DEF Sim!SimAssumption
    <2>2. Sim!SimTypeOK
      BY <1>1, <2>1 DEF Sim!Init, Sim!SimTypeOK, Sim!Cards, Sim!Places
    <2>3. PowerHeld /\ SessionHeld
      BY <1>1 DEF Sim!Init, PowerHeld, SessionHeld, Sim!SessionRestored, Cycling
    <2>4. Counted
      <3>1. \A c \in si_Callers : /\ si_at[c] = "idle" /\ si_rebinds[c] = 0 /\ si_activations[c] = 0
                                  /\ si_unknownStreak[c] = 0 /\ si_attempt[c] = 1
        BY <1>1 DEF Sim!Init
      <3>2. 0 <= 0 /\ 0 <= 1 /\ 0 < 1
        OBVIOUS
      <3> QED
        BY <3>1, <3>2, Zenon DEF Counted
    <2> QED
      BY <2>2, <2>3, <2>4 DEF SimInv
  <1>2. ASSUME SimInv, [Sim!Next]_(Sim!vars)
        PROVE  SimInv'
    <2>1. CASE UNCHANGED Sim!vars
      BY <1>2, <2>1 DEF Sim!vars, SimInv, Sim!SimTypeOK, PowerHeld, SessionHeld,
         Sim!SessionRestored, Counted
    <2> QED
      BY <1>0, <1>2, <2>1, SimCardKeeps, SimPowerKeeps, SimPollingKeeps, SimRebindKeeps
         DEF Sim!Next, Sim!CallerStep
  <1> QED
    BY <1>1, <1>2, SimRuns, PTL DEF Sim!Spec

\* The invariant keeps the SIM usable.
LEMMA SimInvKeepsUsable ==
    ASSUME Sim!SimAssumption, SimInv
    PROVE  Sim!SimKeptUsable
  <1>1. Sim!PowerRestored
    BY DEF SimInv, PowerHeld, Sim!PowerRestored
  <1>2. Sim!RebindsBounded
    <2>1. ASSUME NEW c \in si_Callers
          PROVE  si_rebinds[c] <= si_MaxActivations
      <3>1. /\ si_rebinds[c] \in Nat /\ si_activations[c] \in 0 .. si_MaxActivations
            /\ si_rebinds[c] <= si_activations[c] /\ si_MaxActivations \in Nat
        BY DEF SimInv, Sim!SimTypeOK, Counted, Sim!SimAssumption
      <3> QED
        BY <3>1
    <2> QED
      BY <2>1 DEF Sim!RebindsBounded
  <1> QED
    BY <1>1, <1>2 DEF SimInv, SessionHeld, Sim!SimKeptUsable

\* A session, or the power of the SIM, is down only in the hands of the caller who took it
\* down, or because his last step was cut short by his context, a refusal or a lost answer;
\* and no caller takes the session down more than MaxActivations times.
THEOREM SimIsKeptUsable == Spec => []SimKeptUsable
  <1>1. Sim!SimAssumption
    BY PartsAssumption
  <1>2. SimInv => SimKeptUsable
    BY <1>1, SimInvKeepsUsable DEF SimKeptUsable
  <1> QED
    BY <1>2, SimInvariant, PTL

-----------------------------------------------------------------------------
\* A step is one of this part, or leaves it alone.
LEMMA ModemPoolRuns == Spec => ModemPool!Spec
  <1>1. Init => ModemPool!Init
    BY DEF Init
  <1>2. ASSUME [Next]_vars
        PROVE  [ModemPool!Next]_(ModemPool!vars)
    <2>1. RunModemPool \/ UNCHANGED varsModemPool
      BY <1>2 DEF Next, vars, RunEmitter, RunRebind, RunTimeouts, RunIdentities, RunPdn, RunProbe,
         RunServing, RunData, RunClientIds, RunQrtr, RunDecoders, RunModemPool, RunWaits,
         RunProxy, RunSim, RunMuxes, RunSms
    <2>2. CASE RunModemPool
      BY <2>2 DEF RunModemPool
    <2>3. CASE UNCHANGED varsModemPool
      BY <2>3 DEF varsModemPool, ModemPool!vars
    <2> QED
      BY <2>1, <2>2, <2>3
  <1> QED
    BY <1>1, <1>2, PTL DEF Spec, ModemPool!Spec

\* Sets of modems that are there are finite, and counted with the operator of FiniteSets.
LEMMA PoolCount ==
    ASSUME NEW S, IsFiniteSet(S)
    PROVE  ModemPool!Cardinality(S) \in Nat
  BY FS_CardinalityType DEF Cardinality, ModemPool!Cardinality

\* Whatever was made and not stopped is in the pool, or was stopped before its Start was
\* through; what a check has still to ask was in the pool, or has left it meanwhile.
MadeInPool == \A m \in ModemPool!Managers : po_mgr[m] \in {"new", "launched", "runs"}
    => m \in ModemPool!Pooled \cup po_overtaken
AskedOfPool ==
    /\ \A l \in ModemPool!Loops : po_loop[l] = "checks" => l[1] = "health"
    /\ \A l \in ModemPool!Loops : po_loop[l] = "checks"
       => \A n \in po_seen[l] : po_modems[n] # ModemPool!None \/ n \in po_left
SeenIsFinite ==
    /\ IsFiniteSet(po_plugged)
    /\ \A l \in ModemPool!Loops : po_loop[l] = "scans" => IsFiniteSet(po_seen[l])

WatchTypes == po_ctx \in [ModemPool!Kinds -> Nat] /\ po_started \in [ModemPool!Kinds -> Nat]
    /\ po_waits \in [ModemPool!Loops -> Nat]

PoolInv == ModemPool!PoolTypeOK /\ WatchTypes /\ MadeInPool /\ ModemPool!StatusOfPool
    /\ AskedOfPool /\ SeenIsFinite

\* Modems are plugged in and out one at a time.
LEMMA PoolPlugKeeps ==
    ASSUME PoolInv, NEW n \in po_Names, ModemPool!PlugChanges(n)
    PROVE  PoolInv'
  <1> USE DEF PoolInv, ModemPool!PlugChanges
  <1>1. ModemPool!PoolTypeOK'
    BY DEF ModemPool!PoolTypeOK
  <1>2. MadeInPool' /\ ModemPool!StatusOfPool' /\ AskedOfPool' /\ WatchTypes'
    BY DEF MadeInPool, ModemPool!StatusOfPool, AskedOfPool, ModemPool!Pooled, WatchTypes
  <1>3. IsFiniteSet(po_plugged')
    BY FS_AddElement, FS_RemoveElement DEF SeenIsFinite
  <1> QED
    BY <1>1, <1>2, <1>3 DEF SeenIsFinite

\* A manager that is stopped does not run, unless its Start was not through.
LEMMA AfterStopGives ==
    ASSUME ModemPool!PoolTypeOK, NEW ms \in SUBSET ModemPool!Managers, ModemPool!AfterStop(ms)
    PROVE  /\ po_mgr' \in [ModemPool!Managers -> {"none", "new", "launched", "runs", "stopped"}]
           /\ po_overtaken' \subseteq ModemPool!Managers /\ po_overtaken \subseteq po_overtaken'
           /\ \A m \in ModemPool!Managers : po_mgr'[m] \in {"new", "launched", "runs"}
                                    => po_mgr[m] = po_mgr'[m] /\ (m \in ms => m \in po_overtaken')
  BY DEF ModemPool!AfterStop, ModemPool!Stopped, ModemPool!Overtaken, ModemPool!PoolTypeOK

\* The invariant survives what is called of the pool.
LEMMA PoolCallsKeep ==
    ASSUME ModemPool!PoolAssumption, PoolInv, ModemPool!StopAll \/ ModemPool!StartAll
           \/ \E n \in po_Names : ModemPool!Add(n) \/ ModemPool!Remove(n)
    PROVE  PoolInv'
  <1> USE DEF PoolInv
  <1>1. ASSUME NEW n \in po_Names, ModemPool!Add(n)
        PROVE  PoolInv'
    <2>1. po_made + 1 \in ModemPool!Managers /\ po_made' = po_made + 1
          /\ po_made' \in 0 .. po_MaxManagers
      BY <1>1 DEF ModemPool!Add, ModemPool!PoolTypeOK, ModemPool!PoolAssumption, ModemPool!Managers
    <2>2. /\ \A k \in po_Names : po_modems'[k] = IF k = n THEN po_made + 1 ELSE po_modems[k]
          /\ po_modems' \in [po_Names -> ModemPool!Managers \cup {ModemPool!None}]
             /\ po_modems[n] = ModemPool!None
      BY <1>1, <2>1 DEF ModemPool!Add, ModemPool!PoolTypeOK
    <2>3. /\ \A m \in ModemPool!Managers : po_mgr'[m] = IF m = po_made + 1 THEN "new" ELSE po_mgr[m]
          /\ po_mgr' \in [ModemPool!Managers -> {"none", "new", "launched", "runs", "stopped"}]
      BY <1>1, <2>1 DEF ModemPool!Add, ModemPool!PoolTypeOK
    <2>4. UNCHANGED <<po_plugged, po_overtaken, po_ctx, po_started, po_loop, po_waits, po_seen,
          po_health, po_left, po_crashed>>
      BY <1>1 DEF ModemPool!Add
    <2>5. ModemPool!PoolTypeOK'
      BY <2>1, <2>2, <2>3, <2>4 DEF ModemPool!PoolTypeOK
    <2>6. MadeInPool'
      <3>1. po_made + 1 # ModemPool!None /\ po_made + 1 \in ModemPool!Pooled'
        BY <2>1, <2>2 DEF ModemPool!Pooled, ModemPool!Managers, ModemPool!None
      <3>2. ModemPool!Pooled \subseteq ModemPool!Pooled'
        BY <2>2 DEF ModemPool!Pooled
      <3> QED
        BY <2>3, <2>4, <3>1, <3>2 DEF MadeInPool
    <2>7. po_made + 1 # ModemPool!None
      BY <2>1 DEF ModemPool!Managers, ModemPool!None
    <2>8. ModemPool!StatusOfPool' /\ AskedOfPool' /\ SeenIsFinite' /\ WatchTypes'
      BY <2>2, <2>4, <2>7 DEF ModemPool!StatusOfPool, AskedOfPool, SeenIsFinite,
         ModemPool!PoolTypeOK, WatchTypes
    <2> QED
      BY <2>5, <2>6, <2>8
  <1>2. ASSUME NEW n \in po_Names, ModemPool!Remove(n)
        PROVE  PoolInv'
    <2>1. {po_modems[n]} \in SUBSET ModemPool!Managers /\ ModemPool!AfterStop({po_modems[n]})
      BY <1>2 DEF ModemPool!Remove, ModemPool!PoolTypeOK
    <2>2. /\ \A k \in po_Names : po_modems'[k] = IF k = n THEN ModemPool!None ELSE po_modems[k]
          /\ po_modems' \in [po_Names -> ModemPool!Managers \cup {ModemPool!None}]
          /\ po_left' = po_left \cup {n}
          /\ UNCHANGED <<po_plugged, po_made, po_ctx, po_started, po_loop, po_waits, po_seen,
             po_health, po_crashed>>
      BY <1>2 DEF ModemPool!Remove, ModemPool!PoolTypeOK
    <2>3. ModemPool!PoolTypeOK'
      BY <2>1, <2>2, AfterStopGives DEF ModemPool!PoolTypeOK
    <2>4. MadeInPool'
      <3>1. \A m \in ModemPool!Pooled : m # po_modems[n] => m \in ModemPool!Pooled'
        BY <2>2 DEF ModemPool!Pooled
      <3> QED
        BY <2>1, <3>1, AfterStopGives DEF MadeInPool
    <2>5. ModemPool!StatusOfPool' /\ AskedOfPool' /\ SeenIsFinite' /\ WatchTypes'
      BY <2>2 DEF ModemPool!StatusOfPool, AskedOfPool, SeenIsFinite, ModemPool!PoolTypeOK,
         WatchTypes
    <2> QED
      BY <2>3, <2>4, <2>5
  <1>3. CASE ModemPool!StartAll
    <2>1. /\ po_mgr' \in [ModemPool!Managers -> {"none", "new", "launched", "runs", "stopped"}]
          /\ \A m \in ModemPool!Managers : po_mgr'[m] = po_mgr[m] \/ m \in ModemPool!Pooled
          /\ UNCHANGED <<po_plugged, po_modems, po_made, po_overtaken, po_ctx, po_started,
             po_loop, po_waits, po_seen,
                         po_health, po_left, po_crashed>>
      BY <1>3 DEF ModemPool!StartAll, ModemPool!PoolTypeOK
    <2>2. ModemPool!PoolTypeOK'
      BY <2>1 DEF ModemPool!PoolTypeOK
    <2> QED
      BY <2>1, <2>2 DEF MadeInPool, ModemPool!Pooled, ModemPool!StatusOfPool, AskedOfPool,
         SeenIsFinite, WatchTypes
  <1>4. CASE ModemPool!StopAll
    <2>1. ModemPool!Pooled \in SUBSET ModemPool!Managers /\ ModemPool!AfterStop(ModemPool!Pooled)
      BY <1>4 DEF ModemPool!StopAll, ModemPool!PoolTypeOK, ModemPool!Pooled
    <2>2. UNCHANGED <<po_plugged, po_modems, po_made, po_ctx, po_started, po_loop, po_waits,
          po_seen, po_health, po_left,
                      po_crashed>>
      BY <1>4 DEF ModemPool!StopAll
    <2>3. ModemPool!PoolTypeOK'
      BY <2>1, <2>2, AfterStopGives DEF ModemPool!PoolTypeOK
    <2>4. MadeInPool'
      BY <2>1, <2>2, AfterStopGives DEF MadeInPool, ModemPool!Pooled
    <2> QED
      BY <2>2, <2>3, <2>4 DEF ModemPool!StatusOfPool, AskedOfPool, SeenIsFinite, WatchTypes
  <1> QED
    BY <1>1, <1>2, <1>3, <1>4

\* The invariant survives the end of a Start.
LEMMA PoolStartKeeps ==
    ASSUME PoolInv, NEW m \in ModemPool!Managers, ModemPool!StartEnds(m)
    PROVE  PoolInv'
  <1> USE DEF PoolInv
  <1>1. /\ po_mgr[m] = "launched" /\ \A k \in ModemPool!Managers : k # m => po_mgr'[k] = po_mgr[k]
        /\ po_mgr' \in [ModemPool!Managers -> {"none", "new", "launched", "runs", "stopped"}]
        /\ UNCHANGED <<po_plugged, po_modems, po_made, po_overtaken, po_ctx, po_started, po_loop,
           po_waits, po_seen,
                       po_health, po_left, po_crashed>>
    BY DEF ModemPool!StartEnds, ModemPool!PoolTypeOK
  <1>2. ModemPool!PoolTypeOK'
    BY <1>1 DEF ModemPool!PoolTypeOK
  <1> QED
    BY <1>1, <1>2 DEF MadeInPool, ModemPool!Pooled, ModemPool!StatusOfPool, AskedOfPool,
       SeenIsFinite, WatchTypes

\* A loop belongs to a watcher or to a monitor.
LEMMA LoopsHaveKinds ==
    ASSUME ModemPool!PoolAssumption, NEW l \in ModemPool!Loops
    PROVE  l[1] \in ModemPool!Kinds /\ po_MaxStarts[l[1]] \in Nat
  BY DEF ModemPool!Loops, ModemPool!PoolAssumption

\* The invariant survives the loops' starts, turns and ends.
LEMMA PoolLoopsKeep ==
    ASSUME ModemPool!PoolAssumption, PoolInv,
           \/ \E k \in ModemPool!Kinds : ModemPool!Watch(k) \/ ModemPool!StopWatch(k)
           \/ \E l \in ModemPool!Loops : ModemPool!Turns(l) \/ ModemPool!Ends(l)
              \/ ModemPool!Ticks(l) \/ ModemPool!scanFails(l)
    PROVE  PoolInv'
  <1> USE DEF PoolInv
  <1>0. UNCHANGED <<po_plugged, po_modems, po_made, po_mgr, po_overtaken, po_health, po_left>>
    BY DEF ModemPool!Watch, ModemPool!StopWatch, ModemPool!Turns, ModemPool!Ends,
       ModemPool!Ticks, ModemPool!scanFails
  <1>1. MadeInPool' /\ ModemPool!StatusOfPool'
    BY <1>0 DEF MadeInPool, ModemPool!Pooled, ModemPool!StatusOfPool
  <1>2. ASSUME NEW k \in ModemPool!Kinds, ModemPool!Watch(k) \/ ModemPool!StopWatch(k)
        PROVE  PoolInv'
    <2>1. UNCHANGED <<po_waits, po_seen, po_crashed>>
      BY <1>2 DEF ModemPool!Watch, ModemPool!StopWatch
    <2>2. /\ po_loop' \in [ModemPool!Loops -> {"none", "turns", "waits", "scans", "checks",
             "ended"}]
          /\ \A l \in ModemPool!Loops : po_loop'[l] = po_loop[l] \/ po_loop'[l] = "turns"
      BY <1>2 DEF ModemPool!Watch, ModemPool!StopWatch, ModemPool!PoolTypeOK
    <2>3. \A j \in ModemPool!Kinds : po_ctx'[j] \in 0 .. po_started'[j]
          /\ po_started'[j] \in 0 .. po_MaxStarts[j]
      <3>1. /\ po_MaxStarts[k] \in Nat /\ po_started[k] \in 0 .. po_MaxStarts[k]
        BY DEF ModemPool!PoolAssumption, ModemPool!PoolTypeOK
      <3>2. \A j \in ModemPool!Kinds : j # k => po_ctx'[j] = po_ctx[j]
            /\ po_started'[j] = po_started[j]
        BY <1>2 DEF ModemPool!Watch, ModemPool!StopWatch, WatchTypes
      <3>3. po_ctx'[k] \in 0 .. po_started'[k] /\ po_started'[k] \in 0 .. po_MaxStarts[k]
        BY <1>2, <3>1 DEF ModemPool!Watch, ModemPool!StopWatch, WatchTypes, ModemPool!None
      <3> QED
        BY <3>2, <3>3 DEF ModemPool!PoolTypeOK
    <2>5. WatchTypes'
      BY <1>2 DEF ModemPool!Watch, ModemPool!StopWatch, WatchTypes, ModemPool!None
    <2>4. ModemPool!PoolTypeOK'
      BY <1>0, <2>1, <2>2, <2>3 DEF ModemPool!PoolTypeOK
    <2> QED
      BY <1>0, <1>1, <2>1, <2>2, <2>4, <2>5 DEF AskedOfPool, SeenIsFinite
  <1>3. ASSUME NEW l \in ModemPool!Loops, ModemPool!Turns(l) \/ ModemPool!Ends(l)
               \/ ModemPool!Ticks(l) \/ ModemPool!scanFails(l)
        PROVE  PoolInv'
    <2>1. UNCHANGED <<po_ctx, po_started>> /\ po_crashed' \in BOOLEAN
      BY <1>3 DEF ModemPool!Turns, ModemPool!Ends, ModemPool!Ticks, ModemPool!scanFails,
         ModemPool!PoolTypeOK
    <2>2. /\ po_loop' \in [ModemPool!Loops -> {"none", "turns", "waits", "scans", "checks",
             "ended"}]
          /\ \A j \in ModemPool!Loops : j # l => po_loop'[j] = po_loop[j]
             /\ po_seen'[j] = po_seen[j]
          /\ po_loop'[l] \in {"turns", "waits", "ended", "scans", "checks"}
          /\ po_seen' \in [ModemPool!Loops -> SUBSET po_Names]
          /\ po_loop'[l] = "scans" => po_seen'[l] = po_plugged
          /\ po_loop'[l] = "checks" => l[1] = "health"
             /\ \A n \in po_seen'[l] : po_modems[n] # ModemPool!None
      <3>1. CASE ModemPool!Turns(l)
        BY <3>1 DEF ModemPool!Turns, ModemPool!PoolTypeOK
      <3>2. CASE ModemPool!Ends(l)
        BY <3>2 DEF ModemPool!Ends, ModemPool!PoolTypeOK
      <3>3. CASE ModemPool!Ticks(l)
        BY <3>3 DEF ModemPool!Ticks, ModemPool!PoolTypeOK
      <3>4. CASE ModemPool!scanFails(l)
        BY <3>4 DEF ModemPool!scanFails, ModemPool!PoolTypeOK
      <3> QED
        BY <1>3, <3>1, <3>2, <3>3, <3>4
    <2>3. \A j \in ModemPool!Loops : po_waits'[j] \in 0 .. po_MaxStarts[j[1]]
      <3>1. po_ctx[l[1]] \in 0 .. po_MaxStarts[l[1]] /\ 0 \in 0 .. po_MaxStarts[l[1]]
        BY LoopsHaveKinds DEF ModemPool!PoolTypeOK
      <3>2. po_waits' \in {po_waits, [po_waits EXCEPT ![l] = po_ctx[l[1]]],
            [po_waits EXCEPT ![l] = ModemPool!None]}
        BY <1>3 DEF ModemPool!Turns, ModemPool!Ends, ModemPool!Ticks, ModemPool!scanFails
      <3>3. /\ po_waits'[l] \in {po_waits[l], po_ctx[l[1]], ModemPool!None}
            /\ \A j \in ModemPool!Loops : j # l => po_waits'[j] = po_waits[j]
        BY <3>2 DEF WatchTypes
      <3> QED
        BY <3>1, <3>3 DEF ModemPool!PoolTypeOK, ModemPool!None
    <2>6. WatchTypes'
      BY <1>3, <2>1, LoopsHaveKinds DEF ModemPool!Turns, ModemPool!Ends, ModemPool!Ticks,
         ModemPool!scanFails, WatchTypes, ModemPool!None
    <2>4. ModemPool!PoolTypeOK'
      BY <1>0, <2>1, <2>2, <2>3 DEF ModemPool!PoolTypeOK
    <2>5. AskedOfPool' /\ SeenIsFinite'
      BY <1>0, <2>2 DEF AskedOfPool, SeenIsFinite
    <2> QED
      BY <1>1, <2>4, <2>5, <2>6
  <1> QED
    BY <1>2, <1>3

\* A scan takes what is gone out of the pool, with its status, and stops it; it puts a
\* manager there for what is new.
LEMMA PoolScanKeeps ==
    ASSUME ModemPool!PoolAssumption, PoolInv, NEW l \in ModemPool!Loops, ModemPool!scanForChanges(l)
    PROVE  PoolInv'
  <1> USE DEF PoolInv
  <1> DEFINE gone == {n \in po_Names : po_modems[n] # ModemPool!None /\ n \notin po_seen[l]}
             new == {n \in po_seen[l] : po_modems[n] = ModemPool!None}
             numbers == po_made + 1 .. po_made + ModemPool!Cardinality(new)
  <1>1. ModemPool!Cardinality(new) \in Nat
    <2>1. new \subseteq po_seen[l] /\ IsFiniteSet(po_seen[l])
      BY DEF ModemPool!scanForChanges, SeenIsFinite
    <2> QED
      BY <2>1, FS_Subset, PoolCount
  <1>2. /\ po_made' = po_made + ModemPool!Cardinality(new) /\ po_made' \in 0 .. po_MaxManagers
        /\ numbers \subseteq ModemPool!Managers /\ ModemPool!None \notin numbers
    <2>1. po_made' = po_made + ModemPool!Cardinality(new)
          /\ po_made + ModemPool!Cardinality(new) <= po_MaxManagers
      BY DEF ModemPool!scanForChanges
    <2>2. po_made \in Nat /\ po_MaxManagers \in Nat
      BY DEF ModemPool!PoolTypeOK, ModemPool!PoolAssumption
    <2> HIDE DEF new
    <2> QED
      BY <1>1, <2>1, <2>2 DEF ModemPool!Managers, ModemPool!None
  <1>3. PICK for \in ModemPool!Bijection(new, numbers) :
             po_modems' = [n \in po_Names |-> IF n \in gone THEN ModemPool!None
                                        ELSE IF n \in new THEN for[n] ELSE po_modems[n]]
    BY DEF ModemPool!scanForChanges
  <1>4. /\ \A n \in new : for[n] \in numbers
        /\ \A m \in numbers : \E n \in new : for[n] = m
    BY DEF ModemPool!Bijection, ModemPool!Injection, ModemPool!Surjection
  <1>5. /\ po_seen[l] \subseteq po_Names /\ po_loop[l] = "scans"
           /\ po_modems' \in [po_Names -> ModemPool!Managers \cup {ModemPool!None}]
        /\ \A n \in po_Names : /\ n \in gone => po_modems'[n] = ModemPool!None
                               /\ n \in new => po_modems'[n] = for[n]
                                  /\ po_modems'[n] # ModemPool!None
                               /\ n \notin gone /\ po_modems[n] # ModemPool!None
                                  => po_modems'[n] = po_modems[n]
    <2>1. po_seen[l] \subseteq po_Names /\ po_loop[l] = "scans"
      BY DEF ModemPool!scanForChanges, ModemPool!PoolTypeOK
    <2>2. new \subseteq po_Names /\ \A n \in new : for[n] \in ModemPool!Managers
          /\ for[n] # ModemPool!None /\ po_modems[n] = ModemPool!None
      BY <1>2, <1>4, <2>1
    <2>3. \A n \in gone : n \in po_Names /\ po_modems[n] # ModemPool!None
      OBVIOUS
    <2> HIDE DEF gone, new, numbers
    <2>4. po_modems' \in [po_Names -> ModemPool!Managers \cup {ModemPool!None}]
      BY <1>3, <2>2 DEF ModemPool!PoolTypeOK
    <2> QED
      BY <1>3, <2>1, <2>2, <2>3, <2>4
  <1>6. /\ po_mgr' = [m \in ModemPool!Managers |-> IF m \in numbers THEN "launched"
                                      ELSE ModemPool!Stopped(ModemPool!StoppedByScan(gone), m)]
        /\ po_overtaken' = po_overtaken \cup ModemPool!Overtaken(ModemPool!StoppedByScan(gone))
        /\ po_health' = po_health \ gone
        /\ po_left' = IF ModemPool!Checking = {} THEN po_left ELSE po_left \cup gone
        /\ po_loop' = [po_loop EXCEPT ![l] = "turns"] /\ po_seen' = [po_seen EXCEPT ![l] = {}]
        /\ UNCHANGED <<po_plugged, po_ctx, po_started, po_waits, po_crashed>>
    BY DEF ModemPool!scanForChanges, ModemPool!WithoutStatus
  <1> HIDE DEF gone, new, numbers
  <1>7. gone \subseteq po_Names /\ ModemPool!StoppedByScan(gone) = {po_modems[n] : n \in gone}
        /\ new \subseteq po_Names
    BY <1>5 DEF gone, new, ModemPool!StoppedByScan
  <1>8. ModemPool!PoolTypeOK'
    <2>1. po_mgr' \in [ModemPool!Managers -> {"none", "new", "launched", "runs", "stopped"}]
      BY <1>6 DEF ModemPool!Stopped, ModemPool!PoolTypeOK
    <2>2. po_overtaken' \subseteq ModemPool!Managers
      BY <1>6 DEF ModemPool!Overtaken, ModemPool!PoolTypeOK, gone, ModemPool!StoppedByScan
    <2>3. /\ po_loop' \in [ModemPool!Loops -> {"none", "turns", "waits", "scans", "checks",
             "ended"}]
          /\ po_seen' \in [ModemPool!Loops -> SUBSET po_Names]
      BY <1>6 DEF ModemPool!PoolTypeOK
    <2>4. po_health' \subseteq po_Names /\ po_left' \subseteq po_Names
      BY <1>6, <1>7 DEF ModemPool!PoolTypeOK
    <2> QED
      BY <1>2, <1>5, <1>6, <2>1, <2>2, <2>3, <2>4 DEF ModemPool!PoolTypeOK
  <1>9. MadeInPool'
    <2>1. SUFFICES ASSUME NEW m \in ModemPool!Managers, po_mgr'[m] \in {"new", "launched", "runs"}
                   PROVE  m \in ModemPool!Pooled' \cup po_overtaken'
      BY DEF MadeInPool
    <2>2. CASE m \in numbers
      <3>1. PICK n \in new : for[n] = m
        BY <1>4, <2>2
      <3>2. po_modems'[n] = m /\ m # ModemPool!None /\ n \in po_Names
        BY <1>2, <1>5, <1>7, <2>2, <3>1
      <3> QED
        BY <3>2 DEF ModemPool!Pooled
    <2>3. CASE m \notin numbers
      <3>1. po_mgr'[m] = ModemPool!Stopped(ModemPool!StoppedByScan(gone), m)
        BY <1>6, <2>3
      <3>2. CASE m \in ModemPool!StoppedByScan(gone)
        <4>1. po_mgr[m] = "launched"
          BY <2>1, <3>1, <3>2 DEF ModemPool!Stopped, ModemPool!PoolTypeOK
        <4> QED
          BY <1>6, <3>2, <4>1 DEF ModemPool!Overtaken
      <3>3. CASE m \notin ModemPool!StoppedByScan(gone)
        <4>1. po_mgr'[m] = po_mgr[m]
          BY <3>1, <3>3 DEF ModemPool!Stopped
        <4>2. CASE m \in ModemPool!Pooled
          <5>1. PICK n \in po_Names : po_modems[n] = m /\ m # ModemPool!None
            BY <4>2 DEF ModemPool!Pooled
          <5>2. n \notin gone
            BY <1>7, <3>3, <5>1
          <5> QED
            BY <1>5, <5>1, <5>2 DEF ModemPool!Pooled
        <4> QED
          BY <1>6, <2>1, <4>1, <4>2 DEF MadeInPool
      <3> QED
        BY <3>2, <3>3
    <2> QED
      BY <2>2, <2>3
  <1>10. ModemPool!StatusOfPool'
    BY <1>5, <1>6 DEF ModemPool!StatusOfPool, ModemPool!PoolTypeOK
  <1>11. AskedOfPool'
    <2>1. SUFFICES ASSUME NEW j \in ModemPool!Loops, po_loop'[j] = "checks"
                   PROVE  j[1] = "health"
                          /\ \A n \in po_seen'[j] : po_modems'[n] # ModemPool!None \/ n \in po_left'
      BY DEF AskedOfPool
    <2>2. j # l /\ po_loop[j] = "checks" /\ po_seen'[j] = po_seen[j] /\ j[1] = "health"
          /\ j \in ModemPool!Checking
      BY <1>6, <2>1 DEF ModemPool!PoolTypeOK, AskedOfPool, ModemPool!Checking
    <2>3. po_left' = po_left \cup gone
      BY <1>6, <2>2
    <2>4. \A n \in po_seen[j] : po_modems[n] # ModemPool!None \/ n \in po_left
      BY <2>2 DEF AskedOfPool
    <2> QED
      BY <1>5, <2>2, <2>3, <2>4 DEF ModemPool!PoolTypeOK
  <1>12. SeenIsFinite'
    BY <1>6 DEF SeenIsFinite, ModemPool!PoolTypeOK
  <1>13. WatchTypes'
    BY <1>6 DEF WatchTypes
  <1> QED
    BY <1>8, <1>9, <1>10, <1>11, <1>12, <1>13

\* A check notes the status of what was in the pool when it began.
LEMMA PoolCheckKeeps ==
    ASSUME PoolInv, NEW l \in ModemPool!Loops, ModemPool!checkHealth(l)
    PROVE  PoolInv'
  <1> USE DEF PoolInv
  <1>1. /\ UNCHANGED <<po_plugged, po_modems, po_made, po_mgr, po_overtaken, po_ctx, po_started,
           po_waits, po_left, po_crashed>>
        /\ po_loop[l] = "checks"
        /\ \A j \in ModemPool!Loops : po_loop'[j] = po_loop[j] \/ po_loop'[j] = "turns"
        /\ po_loop' \in [ModemPool!Loops -> {"none", "turns", "waits", "scans", "checks", "ended"}]
    BY DEF ModemPool!checkHealth, ModemPool!PoolTypeOK
  <1>2. /\ \A j \in ModemPool!Loops : po_seen'[j] \subseteq po_seen[j]
           /\ (j # l => po_seen'[j] = po_seen[j])
        /\ po_seen' \in [ModemPool!Loops -> SUBSET po_Names]
        /\ po_health' \subseteq po_health \cup po_seen[l] /\ po_health' \subseteq po_Names
    BY DEF ModemPool!checkHealth, ModemPool!PoolTypeOK
  <1>3. ModemPool!PoolTypeOK'
    BY <1>1, <1>2 DEF ModemPool!PoolTypeOK
  <1>4. ModemPool!StatusOfPool'
    BY <1>1, <1>2 DEF ModemPool!StatusOfPool, AskedOfPool
  <1>5. AskedOfPool' /\ SeenIsFinite'
    BY <1>1, <1>2 DEF AskedOfPool, SeenIsFinite
  <1>6. MadeInPool' /\ WatchTypes'
    BY <1>1 DEF MadeInPool, ModemPool!Pooled, WatchTypes
  <1> QED
    BY <1>3, <1>4, <1>5, <1>6

\* The pool has what runs, whatever is plugged in and out while managers start and stop.
THEOREM PoolInvariant == Spec => []PoolInv
  <1>0. ModemPool!PoolAssumption
    BY PartsAssumption
  <1>1. ASSUME ModemPool!Init
        PROVE  PoolInv
    <2>1. \A l \in ModemPool!Loops : 0 \in 0 .. po_MaxStarts[l[1]]
      BY <1>0, LoopsHaveKinds
    <2>2. \A k \in ModemPool!Kinds : po_ctx[k] \in 0 .. po_started[k]
          /\ po_started[k] \in 0 .. po_MaxStarts[k]
      BY <1>0, <1>1 DEF ModemPool!Init, ModemPool!None, ModemPool!PoolAssumption
    <2>3. ModemPool!PoolTypeOK
      <3>1. \A l \in ModemPool!Loops : po_waits[l] \in 0 .. po_MaxStarts[l[1]]
        BY <1>1, <2>1 DEF ModemPool!Init, ModemPool!None
      <3>2. /\ po_modems \in [po_Names -> ModemPool!Managers \cup {ModemPool!None}]
               /\ po_made \in 0 .. po_MaxManagers
            /\ po_mgr \in [ModemPool!Managers -> {"none", "new", "launched", "runs", "stopped"}]
        BY <1>0, <1>1 DEF ModemPool!Init, ModemPool!PoolAssumption
      <3>3. /\ po_loop \in [ModemPool!Loops -> {"none", "turns", "waits", "scans", "checks",
               "ended"}]
            /\ po_seen \in [ModemPool!Loops -> SUBSET po_Names]
        BY <1>1 DEF ModemPool!Init
      <3> QED
        BY <1>1, <2>2, <3>1, <3>2, <3>3 DEF ModemPool!Init, ModemPool!PoolTypeOK
    <2>5. WatchTypes
      BY <1>1 DEF ModemPool!Init, WatchTypes, ModemPool!None
    <2>4. MadeInPool /\ ModemPool!StatusOfPool /\ AskedOfPool
      BY <1>1 DEF ModemPool!Init, MadeInPool, ModemPool!StatusOfPool, AskedOfPool
    <2> QED
      BY <1>1, <2>3, <2>4, <2>5, FS_EmptySet DEF ModemPool!Init, PoolInv, SeenIsFinite
  <1>2. ASSUME PoolInv, [ModemPool!Next]_(ModemPool!vars)
        PROVE  PoolInv'
    <2>1. CASE UNCHANGED ModemPool!vars
      BY <1>2, <2>1 DEF ModemPool!vars, PoolInv, ModemPool!PoolTypeOK, MadeInPool,
         ModemPool!Pooled, ModemPool!StatusOfPool, AskedOfPool,
         SeenIsFinite, WatchTypes
    <2> QED
      BY <1>0, <1>2, <2>1, PoolPlugKeeps, PoolCallsKeep, PoolStartKeeps, PoolLoopsKeep,
         PoolScanKeeps, PoolCheckKeeps DEF ModemPool!Next
  <1> QED
    BY <1>1, <1>2, ModemPoolRuns, PTL DEF ModemPool!Spec

\* The invariant keeps what runs in the pool.
LEMMA PoolInvKeepsModems ==
    ASSUME PoolInv
    PROVE  ModemPool!PoolKeepsModems
  BY DEF PoolInv, MadeInPool, ModemPool!RunsInPool, ModemPool!PoolKeepsModems

\* A modem whose manager runs is in the pool, and so is its status.
THEOREM PoolIsKept == Spec => []PoolKeepsModems
  <1>1. PoolInv => PoolKeepsModems
    BY PoolInvKeepsModems DEF PoolKeepsModems
  <1> QED
    BY <1>1, PoolInvariant, PTL

-----------------------------------------------------------------------------
\* A step is one of this part, or leaves it alone.
LEMMA IdentitiesRuns == Spec => Identities!Spec
  <1>1. Init => Identities!Init
    BY DEF Init
  <1>2. ASSUME [Next]_vars
        PROVE  [Identities!Next]_(Identities!vars)
    <2>1. RunIdentities \/ UNCHANGED varsIdentities
      BY <1>2 DEF Next, vars, RunEmitter, RunRebind, RunTimeouts, RunIdentities, RunPdn, RunProbe,
         RunServing, RunData, RunClientIds, RunQrtr, RunDecoders, RunModemPool, RunWaits,
         RunProxy, RunSim, RunMuxes, RunSms
    <2>2. CASE RunIdentities
      BY <2>2 DEF RunIdentities
    <2>3. CASE UNCHANGED varsIdentities
      BY <2>3 DEF varsIdentities, Identities!vars
    <2> QED
      BY <2>1, <2>2, <2>3
  <1> QED
    BY <1>1, <1>2, PTL DEF Spec, Identities!Spec

\* A reading that may still be written, of the card whose change was reported last.
IdentitiesReading ==
    \A w \in id_Warmers :
        /\ id_gen[w] <= id_generation
        /\ id_warm[w] = "idle" => id_ids[w] = Identities!Empty
        /\ ~id_unreported /\ id_gen[w] = id_generation
           => \A f \in Identities!Fields : id_ids[w][f] \in {0, id_card}

IdentitiesInv == Identities!IdentitiesTypeOK /\ Identities!OfPresentCard /\ IdentitiesReading

\* What is read is of the card that is in, or failed.
LEMMA IdentitiesReadKeeps ==
    ASSUME Identities!IdentitiesAssumption, IdentitiesInv, NEW w \in id_Warmers, Identities!Read(w)
    PROVE  IdentitiesInv'
  <1> USE DEF IdentitiesInv
  <1>1. PICK answer \in {id_card, 0} : id_ids' = [id_ids EXCEPT ![w][id_warm[w]] = answer]
    BY DEF Identities!Read
  <1>2. /\ id_warm[w] \in Identities!Fields
           /\ id_warm' = [id_warm EXCEPT ![w] = Identities!After[@]]
        /\ UNCHANGED <<id_card, id_unreported, id_identities, id_simReady, id_generation,
           id_handler, id_gen>>
    BY DEF Identities!Read
  <1>3. Identities!After[id_warm[w]] \in Identities!Fields \union {"write"}
        /\ Identities!After[id_warm[w]] # "idle"
    BY <1>2 DEF Identities!After, Identities!Fields
  <1>4. Identities!IdentitiesTypeOK'
    <2>1. answer \in 0 .. id_MaxCards
      BY <1>1 DEF Identities!IdentitiesTypeOK, Identities!IdentitiesAssumption
    <2>2. id_warm' \in [id_Warmers -> Identities!Fields \union {"idle", "write"}]
      BY <1>2, <1>3 DEF Identities!IdentitiesTypeOK
    <2>3. id_ids' \in [id_Warmers -> [Identities!Fields -> 0 .. id_MaxCards]]
      BY <1>1, <1>2, <2>1 DEF Identities!IdentitiesTypeOK
    <2> QED
      BY <1>2, <2>2, <2>3 DEF Identities!IdentitiesTypeOK
  <1>5. Identities!OfPresentCard'
    BY <1>2 DEF Identities!OfPresentCard
  <1>6. IdentitiesReading'
    <2> SUFFICES ASSUME NEW v \in id_Warmers
                 PROVE  /\ id_gen'[v] <= id_generation'
                        /\ id_warm'[v] = "idle" => id_ids'[v] = Identities!Empty
                        /\ ~id_unreported' /\ id_gen'[v] = id_generation'
                             => \A f \in Identities!Fields : id_ids'[v][f] \in {0, id_card'}
      BY DEF IdentitiesReading
    <2>1. CASE v = w
      BY <1>1, <1>2, <1>3, <2>1 DEF IdentitiesReading, Identities!IdentitiesTypeOK
    <2>2. CASE v # w
      BY <1>1, <1>2, <2>2 DEF IdentitiesReading, Identities!IdentitiesTypeOK
    <2> QED
      BY <2>1, <2>2
  <1> QED
    BY <1>4, <1>5, <1>6

\* What is written was read in this generation.
LEMMA IdentitiesWriteKeeps ==
    ASSUME Identities!IdentitiesAssumption, IdentitiesInv, NEW w \in id_Warmers, Identities!Write(w)
    PROVE  IdentitiesInv'
  <1> USE DEF IdentitiesInv
  <1>1. /\ id_warm' = [id_warm EXCEPT ![w] = "idle"]
           /\ id_ids' = [id_ids EXCEPT ![w] = Identities!Empty]
        /\ id_gen' = [id_gen EXCEPT ![w] = 0] /\ UNCHANGED <<id_card, id_unreported,
           id_generation, id_handler>>
        /\ id_simReady' \in BOOLEAN
        /\ \/ id_identities' = Identities!Merged(id_ids[w]) /\ id_gen[w] = id_generation
           \/ UNCHANGED id_identities
    BY DEF Identities!Write, Identities!IdentitiesTypeOK
  <1>2. Identities!Empty \in [Identities!Fields -> 0 .. id_MaxCards]
        /\ \A f \in Identities!Fields : Identities!Empty[f] = 0
    BY DEF Identities!Empty, Identities!IdentitiesAssumption
  <1>3. id_identities' \in [Identities!Fields -> 0 .. id_MaxCards]
    BY <1>1 DEF Identities!Merged, Identities!IdentitiesTypeOK
  <1>4. Identities!IdentitiesTypeOK'
    BY <1>1, <1>2, <1>3 DEF Identities!IdentitiesTypeOK
  <1>5. Identities!OfPresentCard'
    BY <1>1 DEF Identities!OfPresentCard, IdentitiesReading, Identities!Merged,
       Identities!IdentitiesTypeOK
  <1>6. IdentitiesReading'
    BY <1>1, <1>2 DEF IdentitiesReading, Identities!IdentitiesTypeOK
  <1> QED
    BY <1>4, <1>5, <1>6

\* A card is changed, and a change handled; a reset starts a generation.
LEMMA IdentitiesChangesKeep ==
    ASSUME Identities!IdentitiesAssumption, IdentitiesInv,
           Identities!ChangeCard \/ Identities!HandleSimStatus \/ Identities!Reset
    PROVE  IdentitiesInv'
  <1> USE DEF IdentitiesInv
  <1>1. /\ UNCHANGED <<id_warm, id_gen, id_ids>> /\ id_card' \in 1 .. id_MaxCards
           /\ id_handler' \in {"idle", "prewarm"}
        /\ \/ id_unreported' = TRUE /\ UNCHANGED <<id_identities, id_simReady, id_generation>>
           \/ /\ UNCHANGED id_card /\ id_identities' = Identities!Empty /\ id_simReady' = FALSE
              /\ id_generation' = id_generation + 1 /\ id_unreported' \in BOOLEAN
    <2>1. CASE Identities!ChangeCard
      BY <2>1 DEF Identities!ChangeCard, Identities!IdentitiesTypeOK,
         Identities!IdentitiesAssumption
    <2>2. CASE Identities!HandleSimStatus
      BY <2>2 DEF Identities!HandleSimStatus, Identities!ResetIdentities,
         Identities!IdentitiesTypeOK
    <2>3. CASE Identities!Reset
      BY <2>3 DEF Identities!Reset, Identities!IdentitiesTypeOK
    <2> QED
      BY <2>1, <2>2, <2>3
  <1>2. Identities!Empty \in [Identities!Fields -> 0 .. id_MaxCards]
        /\ \A f \in Identities!Fields : Identities!Empty[f] = 0
    BY DEF Identities!Empty, Identities!IdentitiesAssumption
  <1>3. Identities!IdentitiesTypeOK'
    <2>1. id_unreported' \in BOOLEAN /\ id_simReady' \in BOOLEAN
      BY <1>1 DEF Identities!IdentitiesTypeOK
    <2>2. id_identities' \in [Identities!Fields -> 0 .. id_MaxCards] /\ id_generation' \in Nat
      BY <1>1, <1>2 DEF Identities!IdentitiesTypeOK
    <2> QED
      BY <1>1, <2>1, <2>2 DEF Identities!IdentitiesTypeOK
  <1>4. Identities!OfPresentCard'
    BY <1>1, <1>2 DEF Identities!OfPresentCard
  <1>5. IdentitiesReading'
    BY <1>1 DEF IdentitiesReading, Identities!IdentitiesTypeOK
  <1> QED
    BY <1>3, <1>4, <1>5

\* A reading begins in the generation of the one who starts it.
LEMMA IdentitiesStartKeeps ==
    ASSUME Identities!IdentitiesAssumption, IdentitiesInv,
           Identities!PreWarmIdentities \/ Identities!PreWarmAtStart
    PROVE  IdentitiesInv'
  <1> USE DEF IdentitiesInv
  <1>1. PICK w \in id_Warmers : Identities!Start(w)
    BY DEF Identities!PreWarmIdentities, Identities!PreWarmAtStart
  <1>2. id_handler' \in {"idle", "prewarm"}
    BY DEF Identities!PreWarmIdentities, Identities!PreWarmAtStart, Identities!IdentitiesTypeOK
  <1>3. \A f \in Identities!Fields : Identities!Empty[f] = 0
    BY DEF Identities!Empty
  <1>4. Identities!IdentitiesTypeOK'
    BY <1>1, <1>2 DEF Identities!Start, Identities!IdentitiesTypeOK, Identities!Fields
  <1>5. Identities!OfPresentCard'
    BY <1>1 DEF Identities!Start, Identities!OfPresentCard
  <1>6. IdentitiesReading'
    BY <1>1, <1>3 DEF Identities!Start, IdentitiesReading, Identities!IdentitiesTypeOK
  <1> QED
    BY <1>4, <1>5, <1>6

\* What is cached, and what may still be written, is of the card that is in.
THEOREM IdentitiesInvariant == Spec => []IdentitiesInv
  <1>0. Identities!IdentitiesAssumption
    BY PartsAssumption
  <1>1. ASSUME Identities!Init
        PROVE  IdentitiesInv
    <2>1. Identities!Empty \in [Identities!Fields -> 0 .. id_MaxCards]
          /\ \A f \in Identities!Fields : Identities!Empty[f] = 0
      BY <1>0 DEF Identities!Empty, Identities!IdentitiesAssumption
    <2>2. 1 \in 1 .. id_MaxCards
      BY <1>0 DEF Identities!IdentitiesAssumption
    <2>3. Identities!IdentitiesTypeOK
      BY <1>1, <2>1, <2>2 DEF Identities!Init, Identities!IdentitiesTypeOK
    <2> QED
      BY <1>1, <2>1, <2>3 DEF Identities!Init, IdentitiesInv, Identities!OfPresentCard,
         IdentitiesReading
  <1>2. ASSUME IdentitiesInv, [Identities!Next]_(Identities!vars)
        PROVE  IdentitiesInv'
    <2>1. CASE UNCHANGED Identities!vars
      BY <1>2, <2>1 DEF Identities!vars, IdentitiesInv, Identities!IdentitiesTypeOK,
         Identities!OfPresentCard, IdentitiesReading
    <2> QED
      BY <1>0, <1>2, <2>1, IdentitiesReadKeeps, IdentitiesWriteKeeps, IdentitiesChangesKeep,
         IdentitiesStartKeeps DEF Identities!Next
  <1> QED
    BY <1>1, <1>2, IdentitiesRuns, PTL DEF Identities!Spec

\* A reading that fails leaves what an earlier one found.
LEMMA IdentitiesStepKeepsKnown ==
    ASSUME IdentitiesInv, [Identities!Next]_(Identities!vars)
    PROVE  [Identities!KeepsKnown]_(Identities!vars)
  <1>1. CASE UNCHANGED <<id_identities, id_generation>>
    BY <1>1 DEF Identities!KeepsKnown
  <1>2. ASSUME NEW w \in id_Warmers, Identities!Write(w)
        PROVE  Identities!KeepsKnown
    BY <1>2 DEF Identities!Write, Identities!Merged, Identities!KeepsKnown
  <1>3. ASSUME id_generation' = id_generation + 1
        PROVE  Identities!KeepsKnown
    BY <1>3 DEF Identities!KeepsKnown, IdentitiesInv, Identities!IdentitiesTypeOK
  <1> QED
    BY <1>1, <1>2, <1>3 DEF Identities!Next, Identities!vars, Identities!ChangeCard,
       Identities!HandleSimStatus, Identities!ResetIdentities, Identities!Reset, Identities!Read,
       Identities!PreWarmIdentities, Identities!PreWarmAtStart, Identities!Start

-----------------------------------------------------------------------------
\* A step is one of this part, or leaves it alone.
LEMMA ServingRuns == Spec => Serving!Spec
  <1>1. Init => Serving!Init
    BY DEF Init
  <1>2. ASSUME [Next]_vars
        PROVE  [Serving!Next]_(Serving!vars)
    <2>1. RunServing \/ UNCHANGED varsServing
      BY <1>2 DEF Next, vars, RunEmitter, RunRebind, RunTimeouts, RunIdentities, RunPdn, RunProbe,
         RunServing, RunData, RunClientIds, RunQrtr, RunDecoders, RunModemPool, RunWaits,
         RunProxy, RunSim, RunMuxes, RunSms
    <2>2. CASE RunServing
      BY <2>2 DEF RunServing
    <2>3. CASE UNCHANGED varsServing
      BY <2>3 DEF varsServing, Serving!vars
    <2> QED
      BY <2>1, <2>2, <2>3
  <1> QED
    BY <1>1, <1>2, PTL DEF Spec, Serving!Spec

\* What is queued, and what the modem answered, names a registration and its network.
Indications == [has : SUBSET {"serving", "plmn"}, reg : Serving!Registrations,
    plmn : ss_Networks \union {Serving!None}]
ServingAnswers == [reg : Serving!Registrations \union {"unset"},
    plmn : ss_Networks \union {Serving!None}]
ServingInv ==
    /\ Serving!ServingTypeOK
    /\ ss_queue \in Seq(Indications)
    /\ ss_answer \in [Serving!Queries -> ServingAnswers]

\* The network changes, and the indication is queued or lost.
LEMMA ServingNetworkKeeps ==
    ASSUME Serving!ServingAssumption, ServingInv, NEW reg \in Serving!Registrations,
           NEW plmn \in ss_Networks \union {Serving!None}, Serving!NetworkChanges(reg, plmn)
    PROVE  ServingInv'
  <1> USE DEF ServingInv
  <1>1. /\ UNCHANGED <<ss_handling, ss_snapshot, ss_answer, ss_scheduled, ss_timer, ss_owed,
           ss_cleanups, ss_resetting, ss_polls>>
        /\ ss_network' = [reg |-> reg, plmn |-> plmn]
        /\ ss_changes < ss_MaxChanges /\ ss_changes' = ss_changes + 1
    BY DEF Serving!NetworkChanges
  <1>2. ss_changes' \in 0 .. ss_MaxChanges
    BY <1>1 DEF Serving!ServingTypeOK, Serving!ServingAssumption
  <1>3. ss_queue' \in Seq(Indications) /\ Len(ss_queue') <= ss_MaxQueued
    <2>1. CASE UNCHANGED ss_queue
      BY <2>1 DEF Serving!ServingTypeOK
    <2>2. ASSUME NEW has \in {{"serving"}, {"plmn"}, {"serving", "plmn"}},
                 Len(ss_queue) < ss_MaxQueued,
                 ss_queue' = Append(ss_queue, [has |-> has, reg |-> reg, plmn |-> plmn])
          PROVE  ss_queue' \in Seq(Indications) /\ Len(ss_queue') <= ss_MaxQueued
      <3>1. [has |-> has, reg |-> reg, plmn |-> plmn] \in Indications
        BY DEF Indications
      <3>2. Len(ss_queue) \in Nat /\ ss_MaxQueued \in Nat /\ Len(ss_queue') = Len(ss_queue) + 1
        BY <2>2, <3>1 DEF Serving!ServingAssumption
      <3> QED
        BY <2>2, <3>1, <3>2
    <2> QED
      BY <2>1, <2>2 DEF Serving!NetworkChanges
  <1> QED
    BY <1>1, <1>2, <1>3 DEF Serving!ServingTypeOK

\* The handler merges an indication with what is known, and writes what it carried.
LEMMA ServingHandlerKeeps ==
    ASSUME Serving!ServingAssumption, ServingInv, Serving!HandlerStep
    PROVE  ServingInv'
  <1> USE DEF ServingInv
  <1>1. Serving!Nothing \in [has : SUBSET {"serving", "plmn"},
        reg : Serving!Registrations \union {"unset"},
                     plmn : ss_Networks \union {Serving!None}]
    BY DEF Serving!Nothing
  <1>2. CASE Serving!Handle
    <2>1. ss_queue # <<>> /\ ss_queue' = Tail(ss_queue)
      BY <1>2 DEF Serving!Handle
    <2>2. Head(ss_queue) \in Indications /\ ss_queue' \in Seq(Indications)
          /\ Len(ss_queue') <= ss_MaxQueued
      <3>1. Len(ss_queue) \in Nat /\ ss_MaxQueued \in Nat /\ Len(ss_queue') = Len(ss_queue) - 1
        BY <2>1 DEF Serving!ServingAssumption
      <3> QED
        BY <2>1, <3>1 DEF Serving!ServingTypeOK
    <2>3. PICK reg \in Serving!Registrations \union {"unset"} :
                ss_handling' = [Head(ss_queue) EXCEPT !.reg = reg]
      <3>1. Head(ss_queue).reg \in Serving!Registrations /\ "unknown" \in Serving!Registrations
        BY <2>2 DEF Indications, Serving!Registrations
      <3>2. ss_snapshot.reg \in Serving!Registrations \union {"unset"}
        BY DEF Serving!ServingTypeOK
      <3> QED
        BY <1>2, <3>1, <3>2 DEF Serving!Handle
    <2>4. ss_handling' \in [has : SUBSET {"serving", "plmn"},
          reg : Serving!Registrations \union {"unset"},
                         plmn : ss_Networks \union {Serving!None}]
      BY <2>2, <2>3 DEF Indications
    <2>5. ss_scheduled' \in BOOLEAN /\ ss_timer' \in BOOLEAN
      BY <1>2 DEF Serving!Handle, Serving!Schedules, Serving!ServingTypeOK
    <2>6. ss_owed' \in BOOLEAN
      BY <1>2 DEF Serving!Handle, Serving!ServingTypeOK
    <2>7. UNCHANGED <<ss_network, ss_changes, ss_snapshot, ss_answer, ss_cleanups, ss_resetting,
          ss_polls>>
      BY <1>2 DEF Serving!Handle
    <2> QED
      BY <2>2, <2>4, <2>5, <2>6, <2>7 DEF Serving!ServingTypeOK
  <1>3. CASE Serving!updateServingRegistration
    <2>1. ss_handling' \in [has : SUBSET {"serving", "plmn"},
          reg : Serving!Registrations \union {"unset"},
                         plmn : ss_Networks \union {Serving!None}]
      BY <1>1, <1>3 DEF Serving!updateServingRegistration, Serving!ServingTypeOK
    <2>2. ss_snapshot' \in [reg : Serving!Registrations \union {"unset"},
          plmn : ss_Networks \union {Serving!None}]
      BY <1>3 DEF Serving!updateServingRegistration, Serving!ServingTypeOK
    <2> QED
      BY <1>3, <2>1, <2>2 DEF Serving!updateServingRegistration, Serving!ServingTypeOK
  <1>4. CASE Serving!updateServingPLMN
    <2>1. ss_snapshot' \in [reg : Serving!Registrations \union {"unset"},
          plmn : ss_Networks \union {Serving!None}]
      BY <1>4 DEF Serving!updateServingPLMN, Serving!ServingTypeOK, Serving!Registrations
    <2> QED
      BY <1>1, <1>4, <2>1 DEF Serving!updateServingPLMN, Serving!ServingTypeOK
  <1> QED
    BY <1>2, <1>3, <1>4 DEF Serving!HandlerStep

\* Queries are asked and answered, and a recovery clears what they would have written to.
LEMMA ServingQueriesKeep ==
    ASSUME Serving!ServingAssumption, ServingInv,
           Serving!PollsChange \/ Serving!AskPoll \/ Serving!AskRefresh \/ Serving!Cleanup
               \/ Serving!Reset
               \/ \E q \in Serving!Queries : Serving!Answered(q) \/ Serving!QueryFails(q)
    PROVE  ServingInv'
  <1> USE DEF ServingInv
  <1>1. Serving!Unset \in ServingAnswers /\ ss_network \in ServingAnswers
    BY DEF Serving!Unset, ServingAnswers, Serving!ServingTypeOK
  <1>2. CASE Serving!AskPoll
    BY <1>1, <1>2 DEF Serving!AskPoll, Serving!ServingTypeOK, Serving!Queries
  <1>3. CASE Serving!AskRefresh
    BY <1>1, <1>3 DEF Serving!AskRefresh, Serving!ServingTypeOK, Serving!Queries
  <1>4. CASE Serving!Cleanup
    <2>1. ss_cleanups' \in 0 .. ss_MaxCleanups
      BY <1>4 DEF Serving!Cleanup, Serving!ServingTypeOK, Serving!ServingAssumption
    <2> QED
      BY <1>4, <2>1 DEF Serving!Cleanup, Serving!ServingTypeOK
  <1>5. CASE Serving!Reset
    BY <1>1, <1>5 DEF Serving!Reset, Serving!ServingTypeOK, ServingAnswers
  <1>6. ASSUME NEW q \in Serving!Queries, Serving!Answered(q)
        PROVE  ServingInv'
    <2>1. ss_answer[q] \in ServingAnswers /\ ss_answer' \in [Serving!Queries -> ServingAnswers]
      BY <1>1, <1>6 DEF Serving!Answered
    <2>2. ss_snapshot' \in [reg : Serving!Registrations \union {"unset"},
          plmn : ss_Networks \union {Serving!None}]
      BY <1>6, <2>1 DEF Serving!Answered, Serving!updateServingFromQuery, Serving!ServingTypeOK,
         ServingAnswers
    <2> QED
      BY <1>6, <2>1, <2>2 DEF Serving!Answered, Serving!ServingTypeOK
  <1>7. ASSUME NEW q \in Serving!Queries, Serving!QueryFails(q)
        PROVE  ServingInv'
    BY <1>1, <1>7 DEF Serving!QueryFails, Serving!ServingTypeOK
  <1>8. CASE Serving!PollsChange
    BY <1>8 DEF Serving!PollsChange, Serving!ServingTypeOK
  <1> QED
    BY <1>2, <1>3, <1>4, <1>5, <1>6, <1>7, <1>8

\* What the handler and the queries hold are registrations and networks.
THEOREM ServingInvariant == Spec => []ServingInv
  <1>0. Serving!ServingAssumption
    BY PartsAssumption
  <1>1. ASSUME Serving!Init
        PROVE  ServingInv
    <2>1. 0 \in 0 .. ss_MaxChanges /\ 0 \in 0 .. ss_MaxCleanups /\ 0 <= ss_MaxQueued
      BY <1>0 DEF Serving!ServingAssumption
    <2>2. ss_queue \in Seq(Indications) /\ Len(ss_queue) = 0
      BY <1>1 DEF Serving!Init
    <2> QED
      BY <1>1, <2>1, <2>2 DEF Serving!Init, ServingInv, Serving!ServingTypeOK, ServingAnswers,
         Serving!Registrations, Serving!Unset,
         Serving!Nothing
  <1>2. ASSUME ServingInv, [Serving!Next]_(Serving!vars)
        PROVE  ServingInv'
    <2>1. CASE UNCHANGED Serving!vars
      BY <1>2, <2>1 DEF Serving!vars, ServingInv, Serving!ServingTypeOK
    <2> QED
      BY <1>0, <1>2, <2>1, ServingNetworkKeeps, ServingHandlerKeeps,
         ServingQueriesKeep DEF Serving!Next
  <1> QED
    BY <1>1, <1>2, ServingRuns, PTL DEF Serving!Spec

\* A network that is known is replaced by another one, or reset.
LEMMA ServingStepKeepsPlmn ==
    ASSUME ServingInv, [Serving!Next]_(Serving!vars)
    PROVE  [Serving!KeepsPlmn]_(Serving!vars)
  <1>1. CASE UNCHANGED ss_snapshot
    BY <1>1 DEF Serving!KeepsPlmn
  <1>2. CASE Serving!updateServingRegistration
    BY <1>2 DEF Serving!updateServingRegistration, Serving!KeepsPlmn, ServingInv,
       Serving!ServingTypeOK
  <1>3. CASE Serving!updateServingPLMN
    BY <1>3 DEF Serving!updateServingPLMN, Serving!KeepsPlmn
  <1>4. ASSUME NEW q \in Serving!Queries, Serving!Answered(q)
        PROVE  Serving!KeepsPlmn
    BY <1>4 DEF Serving!Answered, Serving!updateServingFromQuery, Serving!KeepsPlmn
  <1>5. CASE Serving!Reset
    BY <1>5 DEF Serving!Reset, Serving!KeepsPlmn
  <1> QED
    BY <1>1, <1>2, <1>3, <1>4, <1>5 DEF Serving!Next, Serving!vars, Serving!NetworkChanges,
       Serving!HandlerStep, Serving!Handle, Serving!PollsChange,
       Serving!AskPoll, Serving!AskRefresh, Serving!QueryFails, Serving!Cleanup

\* An indication of the network alone leaves the registration.
LEMMA ServingStepKeepsRegistration ==
    ASSUME ServingInv, [Serving!Next]_(Serving!vars)
    PROVE  [Serving!KeepsRegistration]_(Serving!vars)
  <1>1. CASE UNCHANGED ss_handling
    BY <1>1 DEF Serving!KeepsRegistration
  <1>2. CASE Serving!Handle
    BY <1>2 DEF Serving!Handle, Serving!KeepsRegistration
  <1>3. CASE Serving!updateServingRegistration
    BY <1>3 DEF Serving!updateServingRegistration, Serving!KeepsRegistration
  <1>4. CASE Serving!updateServingPLMN
    BY <1>4 DEF Serving!updateServingPLMN, Serving!KeepsRegistration
  <1> QED
    BY <1>1, <1>2, <1>3, <1>4 DEF Serving!Next, Serving!vars, Serving!NetworkChanges,
       Serving!HandlerStep, Serving!PollsChange, Serving!AskPoll,
       Serving!AskRefresh, Serving!QueryFails, Serving!Cleanup, Serving!Reset, Serving!Answered

-----------------------------------------------------------------------------
\* A step is one of this part, or leaves it alone.
LEMMA SmsRuns == Spec => Sms!Spec
  <1>1. Init => Sms!Init
    BY DEF Init
  <1>2. ASSUME [Next]_vars
        PROVE  [Sms!Next]_(Sms!vars)
    <2>1. RunSms \/ UNCHANGED varsSms
      BY <1>2 DEF Next, vars, RunEmitter, RunRebind, RunTimeouts, RunIdentities, RunPdn, RunProbe,
         RunServing, RunData, RunClientIds, RunQrtr, RunDecoders, RunModemPool, RunWaits,
         RunProxy, RunSim, RunMuxes, RunSms
    <2>2. CASE RunSms
      BY <2>2 DEF RunSms
    <2>3. CASE UNCHANGED varsSms
      BY <2>3 DEF varsSms, Sms!vars, Sms!modem, Sms!counters, Sms!known, Sms!address
    <2> QED
      BY <2>1, <2>2, <2>3
  <1> QED
    BY <1>1, <1>2, PTL DEF Spec, Sms!Spec

\* Where a refresher is, and what it has: modem resets it has seen are counted.
SmsPlaces ==
    {"idle", "ask routes", "cache", "unknown", "replay", "set", "is set", "not set", "routes done",
     "ask smsc", "keep", "end smsc"}
SmsTypes ==
    /\ sr_routes \in sr_Routes \cup {Sms!None} /\ sr_lastKnownGood \in sr_Routes \cup {Sms!None}
    /\ sr_resets \in 0 .. sr_MaxResets /\ sr_cleanups \in 0 .. sr_MaxCleanups
       /\ sr_sets \in 0 .. sr_MaxSets
    /\ sr_refreshes \in 0 .. sr_MaxRefreshes /\ sr_since \in 0 .. sr_resets
    /\ sr_wms \in BOOLEAN /\ sr_routesKnown \in BOOLEAN
    /\ sr_smscPending \in BOOLEAN /\ sr_readinessPending \in BOOLEAN
    /\ sr_smsc \in [value : sr_Addresses \cup {Sms!None}, stale : BOOLEAN]
    /\ sr_at \in [sr_Refreshers -> SmsPlaces] /\ sr_kind \in [sr_Refreshers -> Sms!Kinds]
    /\ sr_got \in [sr_Refreshers -> sr_Routes \cup sr_Addresses \cup {Sms!None}]
    /\ sr_of \in [sr_Refreshers -> Nat] /\ sr_began \in [sr_Refreshers -> Nat]
    /\ \A r \in sr_Refreshers : sr_of[r] <= sr_resets /\ sr_began[r] <= sr_resets
    /\ sr_failed \subseteq sr_Refreshers /\ sr_raced \subseteq sr_Refreshers
    /\ sr_overtaken \subseteq sr_Refreshers /\ sr_crossed \subseteq sr_Refreshers

\* Routes that were seen, or set, are there as long as the modem is not reset.
RoutesSeen ==
    \A r \in sr_Refreshers :
        /\ sr_at[r] \in {"cache", "set"} => sr_got[r] \in sr_Routes
        /\ sr_at[r] \in {"cache", "is set"} => /\ sr_began[r] <= sr_of[r]
                                               /\ sr_of[r] = sr_resets => sr_routes # Sms!None
        /\ sr_at[r] = "not set" => r \in sr_failed
        /\ sr_at[r] \in {"unknown", "replay", "set"}
           => sr_routes = Sms!None \/ r \in sr_failed \cup sr_raced

\* One refresh at a time has the flag, unless it was reset for another.
AddressAlone ==
    /\ \A r \in Sms!ReadingAddress : sr_kind[r] # "readiness"
       /\ (r \in sr_crossed \/ sr_smscPending)
    /\ \A q, r \in Sms!ReadingAddress \ sr_crossed : q = r
    /\ \A r \in sr_Refreshers :
          sr_at[r] = "keep" => /\ sr_got[r] \in sr_Addresses \cup {Sms!None}
                               /\ sr_got[r] = Sms!None /\ sr_smsc.value # Sms!None
                                  => r \in sr_overtaken \cup sr_crossed

SmsInv ==
    /\ SmsTypes /\ Sms!PendingIsOwned /\ Sms!RoutesKnownTruly
    /\ RoutesSeen /\ AddressAlone

\* One of them goes to a place, and the others stay where they are.
LEMMA SmsGoto ==
    ASSUME SmsTypes, NEW r \in sr_Refreshers, NEW place \in SmsPlaces, Sms!Goto(r, place)
    PROVE  /\ sr_at' \in [sr_Refreshers -> SmsPlaces] /\ sr_at'[r] = place
           /\ \A q \in sr_Refreshers : q # r => sr_at'[q] = sr_at[q]
  BY DEF Sms!Goto, SmsTypes

\* What is counted, and its bounds, are numbers.
SmsNumbers ==
    /\ sr_MaxRefreshes \in Nat /\ sr_MaxResets \in Nat /\ sr_MaxCleanups \in Nat
       /\ sr_MaxSets \in Nat
    /\ sr_resets \in Nat /\ sr_refreshes \in Nat /\ sr_cleanups \in Nat /\ sr_sets \in Nat
       /\ sr_since \in Nat
    /\ Sms!None \notin sr_Routes
LEMMA SmsCounts ==
    ASSUME Sms!ReadinessAssumption, SmsTypes
    PROVE  SmsNumbers
  <1>1. sr_MaxRefreshes \in Nat /\ sr_MaxResets \in Nat /\ sr_MaxCleanups \in Nat
        /\ sr_MaxSets \in Nat
    BY DEF Sms!ReadinessAssumption
  <1>2. sr_resets \in Nat /\ sr_refreshes \in Nat /\ sr_cleanups \in Nat /\ sr_sets \in Nat
    BY <1>1 DEF SmsTypes
  <1> QED
    BY <1>1, <1>2 DEF Sms!ReadinessAssumption, SmsTypes, SmsNumbers

\* A count that is noted, or forgotten, is not ahead of the count.
LEMMA SmsNoted ==
    ASSUME NEW n \in Nat, NEW f \in [sr_Refreshers -> Nat], NEW g, NEW r \in sr_Refreshers,
           \A q \in sr_Refreshers : f[q] <= n,
           g = [f EXCEPT ![r] = n] \/ g = [f EXCEPT ![r] = 0] \/ g = f
    PROVE  g \in [sr_Refreshers -> Nat] /\ \A q \in sr_Refreshers : g[q] <= n
  <1>1. CASE g = [f EXCEPT ![r] = n]
    BY <1>1
  <1>2. CASE g = [f EXCEPT ![r] = 0]
    BY <1>2
  <1> QED
    BY <1>1, <1>2
LEMMA SmsBetween ==
    ASSUME NEW n \in Nat, NEW m, NEW k \in Nat, k <= n, NEW l \in 0 .. n, m \in {k, l}
    PROVE  m \in 0 .. n
  OBVIOUS
LEMMA SmsNewest ==
    ASSUME NEW n \in Nat, NEW m \in Nat, m <= n, n <= m
    PROVE  m = n
  OBVIOUS

\* The modem is reset, and others set its routes.
LEMMA SmsModemKeeps ==
    ASSUME Sms!ReadinessAssumption, SmsInv, Sms!ModemResets \/ Sms!WMSSetRoutes
    PROVE  SmsInv'
  <1> USE DEF SmsInv
  <1>0. SmsNumbers
    BY SmsCounts
  <1>1. /\ UNCHANGED <<Sms!counters, sr_wms, Sms!known, Sms!address, sr_readinessPending, sr_at,
           sr_kind, sr_got, sr_of, sr_began,
                       sr_failed>>
        /\ \/ sr_resets < sr_MaxResets /\ sr_resets' = sr_resets + 1 /\ sr_routes' = Sms!None
              /\ UNCHANGED <<sr_sets, sr_raced>>
           \/ /\ sr_sets < sr_MaxSets /\ sr_sets' = sr_sets + 1 /\ sr_routes' \in sr_Routes
                 /\ UNCHANGED sr_resets
              /\ sr_raced' = sr_raced \cup Sms!RoutesMissing
    BY DEF Sms!ModemResets, Sms!WMSSetRoutes
  <1>2. sr_resets' \in 0 .. sr_MaxResets /\ sr_sets' \in 0 .. sr_MaxSets /\ sr_resets <= sr_resets'
    BY <1>1 DEF SmsTypes, Sms!ReadinessAssumption
  <1>3. SmsTypes'
    <2>1. sr_since' \in 0 .. sr_resets'
      BY <1>1, <1>2 DEF SmsTypes, Sms!known
    <2>2. \A r \in sr_Refreshers : sr_of'[r] <= sr_resets' /\ sr_began'[r] <= sr_resets'
      BY <1>1, <1>2 DEF SmsTypes
    <2> QED
      BY <1>1, <1>2, <2>1, <2>2 DEF SmsTypes, Sms!counters, Sms!known, Sms!address,
         Sms!RoutesMissing
  <1>4. Sms!PendingIsOwned' /\ AddressAlone'
    BY <1>1 DEF Sms!PendingIsOwned, AddressAlone, Sms!ReadingAddress, Sms!address
  <1>5. Sms!RoutesKnownTruly'
    BY <1>1 DEF Sms!RoutesKnownTruly, SmsTypes, Sms!ReadinessAssumption, Sms!known
  <1>6. RoutesSeen'
    <2>1. CASE sr_resets' = sr_resets + 1 /\ sr_routes' = Sms!None
      <3>1. \A r \in sr_Refreshers : sr_of[r] \in Nat /\ sr_of[r] <= sr_resets
        BY DEF SmsTypes
      <3>2. \A r \in sr_Refreshers : sr_of[r] # sr_resets'
        BY <1>0, <2>1, <3>1 DEF SmsNumbers
      <3> QED
        BY <1>1, <2>1, <3>2 DEF RoutesSeen
    <2>2. CASE sr_routes' \in sr_Routes /\ UNCHANGED sr_resets /\ sr_raced' = sr_raced
          \cup Sms!RoutesMissing
      BY <1>1, <2>2, <1>0 DEF RoutesSeen, Sms!RoutesMissing, SmsNumbers
    <2> QED
      BY <1>1, <2>1, <2>2
  <1> QED
    BY <1>3, <1>4, <1>5, <1>6

\* The address is reported, or stale, or taken away with the service.
LEMMA SmsReportsKeep ==
    ASSUME Sms!ReadinessAssumption, SmsInv, Sms!AddressReported \/ Sms!markWMSReadinessStale
           \/ Sms!Cleanup
    PROVE  SmsInv'
  <1> USE DEF SmsInv
  <1>0. SmsNumbers
    BY SmsCounts
  <1>1. /\ UNCHANGED <<Sms!modem, sr_refreshes, sr_lastKnownGood, sr_since, sr_at, sr_kind,
           sr_got, sr_of, sr_began, sr_failed, sr_raced>>
        /\ sr_wms' \in BOOLEAN /\ sr_cleanups' \in 0 .. sr_MaxCleanups
        /\ sr_routesKnown' \in BOOLEAN /\ (sr_routesKnown' => sr_routesKnown)
        /\ sr_smscPending' \in BOOLEAN /\ (sr_smscPending' => sr_smscPending)
        /\ sr_readinessPending' \in BOOLEAN /\ (sr_readinessPending' => sr_readinessPending)
    <2>1. CASE UNCHANGED <<Sms!modem, Sms!counters, sr_wms, Sms!known, sr_smscPending,
          sr_readinessPending, sr_at, sr_kind, sr_got,
                           sr_of, sr_began, sr_failed, sr_raced>>
      BY <2>1 DEF SmsTypes, Sms!known, Sms!counters
    <2>2. CASE Sms!Cleanup
      <3>1. sr_cleanups' \in 0 .. sr_MaxCleanups
        BY <2>2, <1>0 DEF Sms!Cleanup, SmsNumbers
      <3> QED
        BY <2>2, <3>1 DEF Sms!Cleanup
    <2> QED
      BY <2>1, <2>2 DEF Sms!AddressReported, Sms!markWMSReadinessStale
  <1>2. \/ /\ sr_overtaken' = sr_overtaken \cup {r \in sr_Refreshers : sr_at[r] = "keep"}
           /\ \E a \in sr_Addresses \cup {Sms!None} : sr_smsc' = [value |-> a, stale |-> FALSE]
           /\ UNCHANGED <<sr_smscPending, sr_crossed>>
        \/ /\ sr_smsc' = [sr_smsc EXCEPT !.stale = @ \/ sr_smsc.value # Sms!None]
           /\ UNCHANGED <<sr_smscPending, sr_crossed, sr_overtaken>>
        \/ /\ sr_smsc' = Sms!NoAddress /\ sr_crossed' = sr_crossed \cup Sms!ReadingAddress
              /\ UNCHANGED sr_overtaken
    BY DEF Sms!AddressReported, Sms!markWMSReadinessStale, Sms!Cleanup
  <1>3. sr_smsc' \in [value : sr_Addresses \cup {Sms!None}, stale : BOOLEAN]
    <2>1. (sr_smsc.stale \/ sr_smsc.value # Sms!None) \in BOOLEAN
      OBVIOUS
    <2>2. PICK stale \in BOOLEAN : stale = (sr_smsc.stale \/ sr_smsc.value # Sms!None)
      BY <2>1, Zenon
    <2>3. CASE sr_smsc' = [sr_smsc EXCEPT !.stale = @ \/ sr_smsc.value # Sms!None]
      <3>1. sr_smsc' = [sr_smsc EXCEPT !.stale = stale]
        BY <2>2, <2>3, Zenon
      <3> QED
        BY <3>1 DEF SmsTypes
    <2>4. ASSUME NEW a \in sr_Addresses \cup {Sms!None}, sr_smsc' = [value |-> a, stale |-> FALSE]
          PROVE  sr_smsc' \in [value : sr_Addresses \cup {Sms!None}, stale : BOOLEAN]
      BY <2>4
    <2> QED
      BY <1>2, <2>3, <2>4 DEF Sms!NoAddress
  <1>4. SmsTypes'
    BY <1>1, <1>2, <1>3 DEF SmsTypes, Sms!modem, Sms!ReadingAddress
  <1>5. Sms!PendingIsOwned' /\ Sms!RoutesKnownTruly'
    BY <1>1 DEF Sms!PendingIsOwned, Sms!RoutesKnownTruly, Sms!ReadingAddress, Sms!modem
  <1>6. RoutesSeen'
    BY <1>1 DEF RoutesSeen, Sms!modem
  <1>7. AddressAlone'
    BY <1>1, <1>2 DEF AddressAlone, Sms!ReadingAddress, Sms!NoAddress, SmsTypes
  <1> QED
    BY <1>4, <1>5, <1>6, <1>7

\* A refresh begins; none of what it has is looked at before it is set.
LEMMA SmsBeginKeeps ==
    ASSUME Sms!ReadinessAssumption, SmsInv, NEW r \in sr_Refreshers,
           \/ Sms!recoverWMSState(r) \/ Sms!maybeReplayWMSStateAfterRebind(r)
              \/ Sms!maybeRefreshWMSReadiness(r)
    PROVE  SmsInv'
  <1> USE DEF SmsInv
  <1>0. SmsNumbers
    BY SmsCounts
  <1>1. PICK k \in Sms!Kinds : Sms!Begin(r, k) /\ (sr_readinessPending'
        => sr_readinessPending \/ k = "readiness")
    BY DEF Sms!recoverWMSState, Sms!maybeReplayWMSStateAfterRebind, Sms!maybeRefreshWMSReadiness,
       Sms!Kinds
  <1>2. sr_wms' \in BOOLEAN /\ sr_readinessPending' \in BOOLEAN
    BY DEF Sms!recoverWMSState, Sms!maybeReplayWMSStateAfterRebind, Sms!maybeRefreshWMSReadiness,
       SmsTypes
  <1>3. /\ sr_at[r] = "idle" /\ sr_refreshes < sr_MaxRefreshes /\ sr_refreshes' = sr_refreshes + 1
        /\ sr_kind' = [sr_kind EXCEPT ![r] = k]
        /\ sr_began' = [sr_began EXCEPT ![r] = sr_resets]
        /\ UNCHANGED <<Sms!modem, sr_cleanups, Sms!known, Sms!address, sr_got, sr_of, sr_failed,
           sr_raced>>
    BY <1>1 DEF Sms!Begin
  <1>4. /\ sr_at' \in [sr_Refreshers -> SmsPlaces] /\ sr_at'[r] = "ask routes"
        /\ \A q \in sr_Refreshers : q # r => sr_at'[q] = sr_at[q]
    BY <1>1, SmsGoto DEF Sms!Begin, SmsPlaces
  <1>5. SmsTypes'
    <2>1. sr_refreshes' \in 0 .. sr_MaxRefreshes
      BY <1>3, <1>0 DEF SmsNumbers
    <2>2. /\ sr_began' \in [sr_Refreshers -> Nat] /\ sr_kind' \in [sr_Refreshers -> Sms!Kinds]
          /\ \A q \in sr_Refreshers : sr_began'[q] <= sr_resets
      BY <1>1, <1>3, <1>0 DEF SmsTypes, SmsNumbers
    <2> QED
      BY <1>2, <1>3, <1>4, <2>1, <2>2 DEF SmsTypes, Sms!modem, Sms!known, Sms!address
  <1>6. Sms!PendingIsOwned'
    <2>1. Sms!ReadingAddress' = Sms!ReadingAddress
      BY <1>3, <1>4 DEF Sms!ReadingAddress
    <2>2. sr_readinessPending' => \E q \in sr_Refreshers : sr_kind'[q] = "readiness"
          /\ sr_at'[q] # "idle"
      BY <1>1, <1>3, <1>4 DEF Sms!PendingIsOwned, SmsTypes
    <2> QED
      BY <1>3, <2>1, <2>2 DEF Sms!PendingIsOwned, Sms!address
  <1>7. Sms!RoutesKnownTruly'
    BY <1>3 DEF Sms!RoutesKnownTruly, Sms!modem, Sms!known
  <1>8. RoutesSeen'
    BY <1>3, <1>4 DEF RoutesSeen, Sms!modem, SmsTypes
  <1>9. AddressAlone'
    BY <1>3, <1>4 DEF AddressAlone, Sms!ReadingAddress, Sms!address, SmsTypes
  <1> QED
    BY <1>5, <1>6, <1>7, <1>8, <1>9

\* What a refresh is answered of the routes, and whether it failed.
LEMMA SmsAsksKeep ==
    ASSUME Sms!ReadinessAssumption, SmsInv, NEW r \in sr_Refreshers,
           Sms!RoutesAnswered(r) \/ Sms!RoutesFail(r) \/ Sms!cachedWMSRoutes(r)
    PROVE  SmsInv'
  <1> USE DEF SmsInv
  <1>0. SmsNumbers
    BY SmsCounts
  <1>1. PICK place \in {"cache", "unknown", "routes done", "replay", "set", "not set"} :
             /\ sr_at' = [sr_at EXCEPT ![r] = place]
             /\ \/ /\ sr_at[r] = "ask routes" /\ sr_got' = [sr_got EXCEPT ![r] = sr_routes]
                   /\ sr_of' = [sr_of EXCEPT ![r] = sr_resets]
                      /\ UNCHANGED <<sr_failed, sr_routesKnown>>
                   /\ IF sr_routes # Sms!None THEN place = "cache" ELSE place = "unknown"
                \/ /\ sr_at[r] = "ask routes" /\ sr_failed' = sr_failed \cup {r}
                      /\ sr_routesKnown' = FALSE
                   /\ place \in {"routes done", "replay"} /\ UNCHANGED <<sr_got, sr_of>>
                \/ /\ sr_at[r] = "replay" /\ sr_got' = [sr_got EXCEPT ![r] = sr_lastKnownGood]
                   /\ UNCHANGED <<sr_of, sr_routesKnown>>
                   /\ IF sr_lastKnownGood = Sms!None THEN place = "not set"
                      /\ sr_failed' = sr_failed \cup {r}
                      ELSE place = "set" /\ UNCHANGED sr_failed
    BY DEF Sms!RoutesAnswered, Sms!RoutesFail, Sms!cachedWMSRoutes, Sms!ReplaysOrNot, Sms!Goto,
       Sms!known
  <1>2. /\ UNCHANGED <<Sms!modem, sr_lastKnownGood, sr_since, sr_raced, Sms!counters, sr_wms,
           Sms!address, sr_readinessPending,
                       sr_kind, sr_began>>
    BY DEF Sms!RoutesAnswered, Sms!RoutesFail, Sms!cachedWMSRoutes, Sms!known, Sms!rest
  <1>3. /\ sr_at' \in [sr_Refreshers -> SmsPlaces] /\ sr_at'[r] = place
        /\ \A q \in sr_Refreshers : q # r => sr_at'[q] = sr_at[q]
    BY <1>1, SmsGoto DEF Sms!Goto, SmsPlaces
  <1>4. SmsTypes'
    <2>1. sr_of' \in [sr_Refreshers -> Nat] /\ \A q \in sr_Refreshers : sr_of'[q] <= sr_resets
      <3>1. sr_of \in [sr_Refreshers -> Nat] /\ \A q \in sr_Refreshers : sr_of[q] <= sr_resets
        BY DEF SmsTypes
      <3>2. \/ sr_of' = [sr_of EXCEPT ![r] = sr_resets]
            \/ UNCHANGED sr_of
        BY <1>1
      <3> QED
        BY <1>0, <3>1, <3>2, SmsNoted DEF SmsNumbers
    <2>2. sr_got' \in [sr_Refreshers -> sr_Routes \cup sr_Addresses \cup {Sms!None}]
      BY <1>1 DEF SmsTypes
    <2>3. sr_routesKnown' \in BOOLEAN
      BY <1>1 DEF SmsTypes
    <2>4. sr_failed' \subseteq sr_Refreshers
      <3>1. sr_failed' \in {sr_failed, sr_failed \cup {r}}
        BY <1>1
      <3> QED
        BY <3>1 DEF SmsTypes
    <2> QED
      BY <1>2, <1>3, <2>1, <2>2, <2>3, <2>4 DEF SmsTypes, Sms!modem, Sms!counters, Sms!address
  <1>5. Sms!PendingIsOwned' /\ Sms!RoutesKnownTruly'
    <2>1. Sms!PendingIsOwned'
      BY <1>1, <1>2, <1>3 DEF Sms!PendingIsOwned, Sms!ReadingAddress, Sms!address
    <2>2. sr_routesKnown' => sr_routesKnown
      BY <1>1
    <2> QED
      BY <1>2, <2>1, <2>2 DEF Sms!RoutesKnownTruly, Sms!modem
  <1>6. RoutesSeen'
    <2> SUFFICES ASSUME NEW q \in sr_Refreshers
                 PROVE  /\ sr_at'[q] \in {"cache", "set"} => sr_got'[q] \in sr_Routes
                        /\ sr_at'[q] \in {"cache", "is set"} => /\ sr_began'[q] <= sr_of'[q]
                                                                /\ sr_of'[q] = sr_resets'
                                                                   => sr_routes' # Sms!None
                        /\ sr_at'[q] = "not set" => q \in sr_failed'
                        /\ sr_at'[q] \in {"unknown", "replay", "set"} =>
                             sr_routes' = Sms!None \/ q \in sr_failed' \cup sr_raced'
      BY DEF RoutesSeen
    <2>1. CASE q # r
      BY <1>1, <1>2, <1>3, <2>1 DEF RoutesSeen, SmsTypes, Sms!modem
    <2>2. CASE q = r
      BY <1>1, <1>2, <1>3, <2>2 DEF RoutesSeen, SmsTypes, Sms!modem
    <2> QED
      BY <2>1, <2>2
  <1>7. AddressAlone'
    <2>1. Sms!ReadingAddress' = Sms!ReadingAddress
          /\ sr_at[r] \notin {"ask smsc", "keep", "end smsc"}
      BY <1>1, <1>3 DEF Sms!ReadingAddress
    <2>2. \A q \in sr_Refreshers : sr_at'[q] = "keep" => sr_at[q] = "keep" /\ sr_got'[q] = sr_got[q]
      BY <1>1, <1>3, <2>1 DEF SmsTypes
    <2> QED
      BY <1>2, <2>1, <2>2 DEF AddressAlone, Sms!address
  <1> QED
    BY <1>4, <1>5, <1>6, <1>7

\* What a refresh knows of the routes is so unless the modem was reset since.
LEMMA SmsKnowsKeep ==
    ASSUME Sms!ReadinessAssumption, SmsInv, NEW r \in sr_Refreshers,
           Sms!cacheWMSRoutes(r) \/ Sms!RoutesUnknown(r) \/ Sms!setWMSRoutesKnown(r)
    PROVE  SmsInv'
  <1> USE DEF SmsInv
  <1>0. SmsNumbers
    BY SmsCounts
  <1>1. PICK place \in {"routes done", "replay"} :
             /\ sr_at' = [sr_at EXCEPT ![r] = place]
             /\ \/ /\ sr_at[r] = "cache" /\ sr_lastKnownGood' = sr_got[r] /\ sr_routesKnown' = TRUE
                   /\ sr_since' = sr_of[r] /\ place = "routes done"
                \/ /\ sr_at[r] = "is set" /\ UNCHANGED sr_lastKnownGood /\ sr_routesKnown' = TRUE
                   /\ sr_since' = sr_of[r] /\ place = "routes done"
                \/ /\ sr_at[r] = "unknown" /\ UNCHANGED sr_lastKnownGood /\ sr_routesKnown' = FALSE
                   /\ UNCHANGED sr_since
                \/ /\ sr_at[r] = "not set" /\ UNCHANGED sr_lastKnownGood /\ sr_routesKnown' = FALSE
                   /\ UNCHANGED sr_since /\ place = "routes done"
    BY DEF Sms!cacheWMSRoutes, Sms!RoutesUnknown, Sms!setWMSRoutesKnown, Sms!ReplaysOrNot, Sms!Goto
  <1>2. UNCHANGED <<Sms!modem, sr_got, sr_of, sr_failed, sr_raced, Sms!counters, sr_wms,
        Sms!address, sr_readinessPending, sr_kind, sr_began>>
    BY DEF Sms!cacheWMSRoutes, Sms!RoutesUnknown, Sms!setWMSRoutesKnown, Sms!rest
  <1>3. /\ sr_at' \in [sr_Refreshers -> SmsPlaces] /\ sr_at'[r] = place
        /\ \A q \in sr_Refreshers : q # r => sr_at'[q] = sr_at[q]
    BY <1>1, SmsGoto DEF Sms!Goto, SmsPlaces
  <1>4. SmsTypes'
    <2>1. sr_lastKnownGood' \in sr_Routes \cup {Sms!None}
      BY <1>1 DEF RoutesSeen, SmsTypes
    <2>2. sr_since' \in 0 .. sr_resets
      <3>1. sr_of[r] \in Nat /\ sr_of[r] <= sr_resets /\ sr_since \in 0 .. sr_resets
        BY DEF SmsTypes
      <3>2. sr_since' \in {sr_of[r], sr_since}
        BY <1>1
      <3> QED
        BY <1>0, <3>1, <3>2, SmsBetween DEF SmsNumbers
    <2>3. sr_routesKnown' \in BOOLEAN
      BY <1>1
    <2> QED
      BY <1>2, <1>3, <2>1, <2>2, <2>3 DEF SmsTypes, Sms!modem, Sms!counters, Sms!address
  <1>5. Sms!PendingIsOwned'
    BY <1>1, <1>2, <1>3 DEF Sms!PendingIsOwned, Sms!ReadingAddress, Sms!address
  <1>6. Sms!RoutesKnownTruly'
    BY <1>1, <1>2 DEF Sms!RoutesKnownTruly, RoutesSeen, Sms!modem
  <1>7. RoutesSeen'
    BY <1>1, <1>2, <1>3 DEF RoutesSeen, Sms!modem
  <1>8. AddressAlone'
    <2>1. Sms!ReadingAddress' = Sms!ReadingAddress /\ \A q \in sr_Refreshers : sr_at'[q] = "keep"
          => sr_at[q] = "keep"
      BY <1>1, <1>3 DEF Sms!ReadingAddress
    <2> QED
      BY <1>2, <2>1 DEF AddressAlone, Sms!address
  <1> QED
    BY <1>4, <1>5, <1>6, <1>7, <1>8

\* Routes are written back, or the request fails.
LEMMA SmsSetKeeps ==
    ASSUME Sms!ReadinessAssumption, SmsInv, NEW r \in sr_Refreshers, Sms!setWMSRoutes(r)
    PROVE  SmsInv'
  <1> USE DEF SmsInv
  <1>0. SmsNumbers
    BY SmsCounts
  <1>1. sr_at[r] = "set" /\ sr_got[r] \in sr_Routes /\ sr_got[r] # Sms!None
    BY <1>0 DEF Sms!setWMSRoutes, RoutesSeen, SmsNumbers
  <1>2. PICK place \in {"is set", "not set"} :
             /\ sr_at' = [sr_at EXCEPT ![r] = place]
             /\ IF place = "is set" THEN sr_routes' = sr_got[r] /\ sr_of'[r] = sr_resets
                /\ UNCHANGED sr_failed
                ELSE sr_failed' = sr_failed \cup {r}
    BY DEF Sms!setWMSRoutes, Sms!Goto
  <1>3. /\ \/ sr_routes' = sr_got[r] /\ sr_of' = [sr_of EXCEPT ![r] = sr_resets]
           \/ UNCHANGED <<sr_routes, sr_of>>
        /\ sr_raced' = IF sr_routes' = sr_routes THEN sr_raced ELSE sr_raced
           \cup (Sms!RoutesMissing \ {r})
        /\ UNCHANGED <<sr_resets, sr_sets, Sms!known, sr_got, Sms!counters, sr_wms, Sms!address,
           sr_readinessPending, sr_kind, sr_began>>
    BY DEF Sms!setWMSRoutes, Sms!rest
  <1>4. /\ sr_at' \in [sr_Refreshers -> SmsPlaces] /\ sr_at'[r] = place
        /\ \A q \in sr_Refreshers : q # r => sr_at'[q] = sr_at[q]
    BY <1>2, SmsGoto DEF Sms!Goto, SmsPlaces
  <1>5. SmsTypes'
    <2>1. sr_of' \in [sr_Refreshers -> Nat] /\ \A q \in sr_Refreshers : sr_of'[q] <= sr_resets
      <3>1. sr_of \in [sr_Refreshers -> Nat] /\ \A q \in sr_Refreshers : sr_of[q] <= sr_resets
        BY DEF SmsTypes
      <3>2. \/ sr_of' = [sr_of EXCEPT ![r] = sr_resets]
            \/ UNCHANGED sr_of
        BY <1>3
      <3> QED
        BY <1>0, <3>1, <3>2, SmsNoted DEF SmsNumbers
    <2>2. sr_routes' \in sr_Routes \cup {Sms!None} /\ sr_raced' \subseteq sr_Refreshers
          /\ sr_failed' \subseteq sr_Refreshers
      BY <1>1, <1>2, <1>3, <1>0 DEF SmsTypes, Sms!RoutesMissing, SmsNumbers
    <2> QED
      BY <1>3, <1>4, <2>1, <2>2 DEF SmsTypes, Sms!known, Sms!counters, Sms!address
  <1>6. Sms!PendingIsOwned'
    BY <1>1, <1>3, <1>4 DEF Sms!PendingIsOwned, Sms!ReadingAddress, Sms!address
  <1>7. Sms!RoutesKnownTruly'
    BY <1>1, <1>3 DEF Sms!RoutesKnownTruly, Sms!known
  <1>8. RoutesSeen'
    <2> SUFFICES ASSUME NEW q \in sr_Refreshers
                 PROVE  /\ sr_at'[q] \in {"cache", "set"} => sr_got'[q] \in sr_Routes
                        /\ sr_at'[q] \in {"cache", "is set"} => /\ sr_began'[q] <= sr_of'[q]
                                                                /\ sr_of'[q] = sr_resets'
                                                                   => sr_routes' # Sms!None
                        /\ sr_at'[q] = "not set" => q \in sr_failed'
                        /\ sr_at'[q] \in {"unknown", "replay", "set"} =>
                             sr_routes' = Sms!None \/ q \in sr_failed' \cup sr_raced'
      BY DEF RoutesSeen
    <2>1. CASE q # r
      <3>1. sr_at'[q] = sr_at[q] /\ sr_got'[q] = sr_got[q] /\ sr_of'[q] = sr_of[q]
            /\ sr_began'[q] = sr_began[q]
            /\ (q \in sr_failed => q \in sr_failed')
        BY <1>2, <1>3, <1>4, <2>1 DEF SmsTypes
      <3>2. \/ UNCHANGED <<sr_routes, sr_raced>>
            \/ sr_routes' # Sms!None /\ (sr_at[q] \in {"unknown", "replay", "set"}
               => q \in sr_raced')
        BY <1>1, <1>3, <2>1 DEF Sms!RoutesMissing
      <3> QED
        BY <1>3, <3>1, <3>2 DEF RoutesSeen
    <2>2. CASE q = r
      BY <1>1, <1>2, <1>3, <1>4, <2>2 DEF SmsTypes
    <2> QED
      BY <2>1, <2>2
  <1>9. AddressAlone'
    <2>1. Sms!ReadingAddress' = Sms!ReadingAddress /\ \A q \in sr_Refreshers : sr_at'[q] = "keep"
          => sr_at[q] = "keep"
      BY <1>1, <1>2, <1>4 DEF Sms!ReadingAddress
    <2> QED
      BY <1>3, <2>1 DEF AddressAlone, Sms!address
  <1> QED
    BY <1>5, <1>6, <1>7, <1>8, <1>9

\* One refresh at a time asks for the address, and what it writes takes none away.
LEMMA SmsAddressKeeps ==
    ASSUME Sms!ReadinessAssumption, SmsInv, NEW r \in sr_Refreshers,
           Sms!AddressAnswered(r) \/ Sms!Look(r) \/ Sms!KeepsAddress(r)
    PROVE  SmsInv'
  <1> USE DEF SmsInv
  <1>1. PICK place \in {"keep", "end smsc"} :
             /\ sr_at' = [sr_at EXCEPT ![r] = place]
             /\ \/ /\ sr_at[r] = "ask smsc" /\ place = "keep"
                      /\ sr_got' = [sr_got EXCEPT ![r] = sr_smsc.value]
                   /\ UNCHANGED <<sr_smsc, sr_overtaken>>
                \/ /\ sr_at[r] \in {"ask smsc", "keep"} /\ place = "end smsc" /\ UNCHANGED sr_got
                   /\ sr_overtaken' = sr_overtaken
                      \cup {q \in sr_Refreshers : sr_at[q] = "keep" /\ r \in sr_crossed}
    BY DEF Sms!AddressAnswered, Sms!Look, Sms!KeepsAddress, Sms!WritesAddress, Sms!Goto, Sms!address
  <1>2. UNCHANGED <<Sms!modem, Sms!counters, sr_wms, Sms!known, sr_kind, sr_of, sr_began,
        sr_failed, sr_raced, sr_smscPending, sr_crossed,
                    sr_readinessPending>>
    BY DEF Sms!AddressAnswered, Sms!Look, Sms!KeepsAddress, Sms!WritesAddress, Sms!others,
       Sms!address
  <1>3. sr_smsc' \in [value : sr_Addresses \cup {Sms!None}, stale : BOOLEAN]
    <2>1. CASE UNCHANGED sr_smsc
      BY <2>1 DEF SmsTypes
    <2>2. CASE Sms!AddressAnswered(r)
      <3>1. PICK a \in sr_Addresses \cup {Sms!None} : sr_smsc' = [value |-> a, stale |-> FALSE]
        BY <2>2 DEF Sms!AddressAnswered, Sms!WritesAddress
      <3> QED
        BY <3>1
    <2>3. CASE Sms!KeepsAddress(r)
      <3>1. PICK stale \in BOOLEAN : stale = (sr_got[r] # Sms!None)
        OBVIOUS
      <3>2. sr_smsc' = [value |-> sr_got[r], stale |-> stale] /\ sr_at[r] = "keep"
        BY <2>3, <3>1 DEF Sms!KeepsAddress, Sms!WritesAddress
      <3> QED
        BY <3>2 DEF AddressAlone
    <2> QED
      BY <2>1, <2>2, <2>3 DEF Sms!Look, Sms!address
  <1>4. /\ sr_at' \in [sr_Refreshers -> SmsPlaces] /\ sr_at'[r] = place
        /\ \A q \in sr_Refreshers : q # r => sr_at'[q] = sr_at[q]
    BY <1>1, SmsGoto DEF Sms!Goto, SmsPlaces
  <1>5. Sms!ReadingAddress' = Sms!ReadingAddress /\ r \in Sms!ReadingAddress
    BY <1>1, <1>4 DEF Sms!ReadingAddress
  <1>6. SmsTypes'
    <2>1. sr_got' \in [sr_Refreshers -> sr_Routes \cup sr_Addresses \cup {Sms!None}]
          /\ sr_overtaken' \subseteq sr_Refreshers
      BY <1>1 DEF SmsTypes
    <2> QED
      BY <1>2, <1>3, <1>4, <2>1 DEF SmsTypes, Sms!modem, Sms!counters, Sms!known
  <1>7. Sms!PendingIsOwned' /\ Sms!RoutesKnownTruly'
    BY <1>1, <1>2, <1>4, <1>5 DEF Sms!PendingIsOwned, Sms!RoutesKnownTruly, Sms!modem, Sms!known
  <1>8. RoutesSeen'
    <2>1. \A q \in sr_Refreshers : sr_at'[q] \in {"cache", "set", "is set", "not set", "unknown",
          "replay"} =>
              sr_at'[q] = sr_at[q] /\ sr_got'[q] = sr_got[q]
      BY <1>1, <1>4 DEF SmsTypes
    <2> QED
      BY <1>2, <2>1 DEF RoutesSeen, Sms!modem
  <1>9. AddressAlone'
    <2>1. \A q \in sr_Refreshers : q # r /\ sr_at'[q] = "keep"
          => sr_at[q] = "keep" /\ sr_got'[q] = sr_got[q]
      BY <1>1, <1>4 DEF SmsTypes
    <2>2. place = "keep" => sr_got'[r] = sr_smsc'.value /\ sr_got'[r] \in sr_Addresses
          \cup {Sms!None}
      BY <1>1, <1>3 DEF SmsTypes
    <2>3. \A q \in sr_Refreshers :
            q # r /\ sr_at[q] = "keep" =>
              \/ sr_smsc' = sr_smsc /\ sr_overtaken' = sr_overtaken
              \/ q \in sr_overtaken' \cup sr_crossed
      BY <1>1, <1>5 DEF AddressAlone, Sms!ReadingAddress
    <2>4. \A q \in sr_Refreshers :
            sr_at'[q] = "keep" => /\ sr_got'[q] \in sr_Addresses \cup {Sms!None}
                                  /\ sr_got'[q] = Sms!None /\ sr_smsc'.value # Sms!None
                                     => q \in sr_overtaken' \cup sr_crossed'
      BY <1>1, <1>2, <1>4, <2>1, <2>2, <2>3 DEF AddressAlone
    <2> QED
      BY <1>2, <1>5, <2>4 DEF AddressAlone
  <1> QED
    BY <1>6, <1>7, <1>8, <1>9

\* A refresh of the address begins unless one is under way.
LEMMA SmsBeginsAddressKeeps ==
    ASSUME Sms!ReadinessAssumption, SmsInv, NEW r \in sr_Refreshers, Sms!beginWMSSMSCRefresh(r),
           ~sr_smscPending
    PROVE  SmsInv'
  <1> USE DEF SmsInv
  <1>1. /\ sr_at[r] = "routes done" /\ sr_kind[r] # "readiness" /\ sr_smscPending' = TRUE
        /\ UNCHANGED <<sr_got, Sms!modem, Sms!counters, sr_wms, Sms!known, sr_kind, sr_of,
           sr_began, sr_failed, sr_raced, sr_smsc,
                       sr_overtaken, sr_crossed, sr_readinessPending>>
    BY DEF Sms!beginWMSSMSCRefresh, Sms!others
  <1>2. /\ sr_at' \in [sr_Refreshers -> SmsPlaces] /\ sr_at'[r] = "ask smsc"
        /\ \A q \in sr_Refreshers : q # r => sr_at'[q] = sr_at[q]
    BY SmsGoto DEF Sms!beginWMSSMSCRefresh, SmsPlaces
  <1>3. Sms!ReadingAddress' = Sms!ReadingAddress \cup {r} /\ r \notin Sms!ReadingAddress
    BY <1>1, <1>2 DEF Sms!ReadingAddress
  <1>4. SmsTypes'
    BY <1>1, <1>2 DEF SmsTypes, Sms!modem, Sms!counters, Sms!known
  <1>5. Sms!PendingIsOwned' /\ Sms!RoutesKnownTruly'
    BY <1>1, <1>2, <1>3 DEF Sms!PendingIsOwned, Sms!RoutesKnownTruly, Sms!modem, Sms!known
  <1>6. RoutesSeen'
    BY <1>1, <1>2 DEF RoutesSeen, Sms!modem
  <1>7. AddressAlone'
    BY <1>1, <1>2, <1>3 DEF AddressAlone
  <1> QED
    BY <1>4, <1>5, <1>6, <1>7

\* A refresh ends.  The flag it has is reset with it.
LEMMA SmsEndsKeep ==
    ASSUME Sms!ReadinessAssumption, SmsInv, NEW r \in sr_Refreshers,
           \/ Sms!beginWMSSMSCRefresh(r) /\ sr_smscPending
           \/ Sms!endWMSSMSCRefresh(r) \/ Sms!EndsReadiness(r)
    PROVE  SmsInv'
  <1> USE DEF SmsInv
  <1>0. SmsNumbers
    BY SmsCounts
  <1>1. Sms!Ends(r)
    BY DEF Sms!beginWMSSMSCRefresh, Sms!endWMSSMSCRefresh, Sms!EndsReadiness
  <1>2. /\ sr_at' = [sr_at EXCEPT ![r] = "idle"] /\ sr_kind' = [sr_kind EXCEPT ![r] = "recover"]
        /\ sr_got' = [sr_got EXCEPT ![r] = Sms!None]
        /\ sr_of' = [sr_of EXCEPT ![r] = 0] /\ sr_began' = [sr_began EXCEPT ![r] = 0]
        /\ sr_failed' = sr_failed \ {r} /\ sr_raced' = sr_raced \ {r}
        /\ UNCHANGED <<Sms!modem, Sms!counters, sr_wms, Sms!known>>
    BY <1>1 DEF Sms!Ends, Sms!Goto
  <1>3. /\ UNCHANGED sr_smsc
        /\ \/ /\ sr_at[r] = "routes done" /\ sr_kind[r] # "readiness"
              /\ UNCHANGED <<sr_readinessPending, sr_smscPending, sr_overtaken, sr_crossed>>
           \/ /\ sr_at[r] = "routes done" /\ sr_readinessPending' = FALSE
              /\ UNCHANGED <<sr_smscPending, sr_overtaken, sr_crossed>>
           \/ /\ sr_at[r] = "end smsc" /\ sr_smscPending' = FALSE
                 /\ sr_overtaken' = sr_overtaken \ {r}
              /\ sr_crossed' = (IF r \in sr_crossed THEN sr_crossed
                 \cup Sms!ReadingAddress ELSE sr_crossed) \ {r}
              /\ UNCHANGED sr_readinessPending
    BY DEF Sms!beginWMSSMSCRefresh, Sms!endWMSSMSCRefresh, Sms!EndsReadiness, Sms!address
  <1>4. /\ sr_at' \in [sr_Refreshers -> SmsPlaces] /\ sr_at'[r] = "idle"
        /\ \A q \in sr_Refreshers : q # r => sr_at'[q] = sr_at[q]
    BY <1>2 DEF SmsTypes, SmsPlaces
  <1>5. Sms!ReadingAddress' = Sms!ReadingAddress \ {r}
        /\ (sr_at[r] = "end smsc" <=> r \in Sms!ReadingAddress)
    BY <1>3, <1>4 DEF Sms!ReadingAddress
  <1>6. SmsTypes'
    <2>1. /\ sr_of \in [sr_Refreshers -> Nat] /\ \A q \in sr_Refreshers : sr_of[q] <= sr_resets
          /\ sr_began \in [sr_Refreshers -> Nat]
             /\ \A q \in sr_Refreshers : sr_began[q] <= sr_resets
      BY DEF SmsTypes
    <2>2. /\ sr_of' \in [sr_Refreshers -> Nat] /\ \A q \in sr_Refreshers : sr_of'[q] <= sr_resets
          /\ sr_began' \in [sr_Refreshers -> Nat]
             /\ \A q \in sr_Refreshers : sr_began'[q] <= sr_resets
      BY <1>0, <1>2, <2>1 DEF SmsNumbers
    <2>3. /\ sr_kind' \in [sr_Refreshers -> Sms!Kinds]
          /\ sr_got' \in [sr_Refreshers -> sr_Routes \cup sr_Addresses \cup {Sms!None}]
      BY <1>2 DEF SmsTypes, Sms!Kinds
    <2>4. sr_overtaken' \subseteq sr_Refreshers /\ sr_crossed' \subseteq sr_Refreshers
      BY <1>3 DEF SmsTypes, Sms!ReadingAddress
    <2>5. sr_smscPending' \in BOOLEAN /\ sr_readinessPending' \in BOOLEAN
      BY <1>3 DEF SmsTypes
    <2> QED
      BY <1>2, <1>3, <1>4, <2>2, <2>3, <2>4, <2>5 DEF SmsTypes, Sms!modem, Sms!counters, Sms!known
  <1>7. Sms!PendingIsOwned'
    <2>1. sr_readinessPending' => \E q \in sr_Refreshers : sr_kind'[q] = "readiness"
          /\ sr_at'[q] # "idle"
      <3>1. SUFFICES ASSUME sr_readinessPending'
                     PROVE  \E q \in sr_Refreshers : sr_kind'[q] = "readiness" /\ sr_at'[q] # "idle"
        OBVIOUS
      <3>2. sr_kind[r] # "readiness" /\ sr_readinessPending
        BY <1>3, <1>5, <3>1 DEF AddressAlone
      <3>3. PICK q \in sr_Refreshers : sr_kind[q] = "readiness" /\ sr_at[q] # "idle"
        BY <3>2 DEF Sms!PendingIsOwned
      <3> QED
        BY <1>2, <1>4, <3>2, <3>3 DEF SmsTypes
    <2>2. sr_smscPending' => Sms!ReadingAddress' # {}
      BY <1>3, <1>5 DEF Sms!PendingIsOwned
    <2> QED
      BY <2>1, <2>2 DEF Sms!PendingIsOwned
  <1>8. Sms!RoutesKnownTruly'
    BY <1>2 DEF Sms!RoutesKnownTruly, Sms!modem, Sms!known
  <1>9. RoutesSeen'
    <2>1. \A q \in sr_Refreshers : sr_at'[q] # "idle" =>
              /\ q # r /\ sr_at'[q] = sr_at[q] /\ sr_got'[q] = sr_got[q] /\ sr_of'[q] = sr_of[q]
                 /\ sr_began'[q] = sr_began[q]
              /\ q \in sr_failed' <=> q \in sr_failed
              /\ q \in sr_raced' <=> q \in sr_raced
      BY <1>2, <1>4 DEF SmsTypes
    <2> QED
      BY <1>2, <2>1 DEF RoutesSeen, Sms!modem
  <1>10. AddressAlone'
    <2>1. CASE UNCHANGED <<sr_smscPending, sr_overtaken, sr_crossed>> /\ sr_at[r] = "routes done"
      <3>1. \A q \in sr_Refreshers : sr_at'[q] # "idle" =>
              /\ q # r /\ sr_at'[q] = sr_at[q] /\ sr_got'[q] = sr_got[q] /\ sr_kind'[q] = sr_kind[q]
        BY <1>2, <1>4 DEF SmsTypes
      <3>2. /\ Sms!ReadingAddress' = Sms!ReadingAddress
            /\ \A q \in Sms!ReadingAddress : q \in sr_Refreshers /\ sr_at'[q] # "idle"
        BY <1>4, <1>5, <2>1 DEF Sms!ReadingAddress
      <3>3. /\ \A q \in Sms!ReadingAddress' : sr_kind'[q] # "readiness"
               /\ (q \in sr_crossed' \/ sr_smscPending')
            /\ \A q, t \in Sms!ReadingAddress' \ sr_crossed' : q = t
        BY <2>1, <3>1, <3>2 DEF AddressAlone
      <3>4. \A q \in sr_Refreshers :
              sr_at'[q] = "keep" => /\ sr_got'[q] \in sr_Addresses \cup {Sms!None}
                                    /\ sr_got'[q] = Sms!None /\ sr_smsc'.value # Sms!None
                                       => q \in sr_overtaken' \cup sr_crossed'
        BY <1>3, <2>1, <3>1 DEF AddressAlone
      <3> QED
        BY <3>3, <3>4 DEF AddressAlone
    <2>2. CASE /\ sr_at[r] = "end smsc" /\ sr_smscPending' = FALSE
          /\ sr_overtaken' = sr_overtaken \ {r}
               /\ sr_crossed' = (IF r \in sr_crossed THEN sr_crossed
                  \cup Sms!ReadingAddress ELSE sr_crossed) \ {r}
      <3>1. \A q \in sr_Refreshers : sr_at'[q] # "idle" =>
              /\ q # r /\ sr_at'[q] = sr_at[q] /\ sr_got'[q] = sr_got[q] /\ sr_kind'[q] = sr_kind[q]
        BY <1>2, <1>4 DEF SmsTypes
      <3>2. \A q \in Sms!ReadingAddress' : q \in sr_crossed' /\ q \in Sms!ReadingAddress
            /\ sr_at'[q] # "idle"
        BY <1>4, <1>5, <2>2 DEF AddressAlone, Sms!ReadingAddress
      <3> QED
        BY <1>3, <2>2, <3>1, <3>2 DEF AddressAlone, Sms!ReadingAddress
    <2> QED
      BY <1>3, <2>1, <2>2
  <1> QED
    BY <1>6, <1>7, <1>8, <1>9, <1>10

\* What the refreshes know, whose the flags are, and what may still be written.
THEOREM SmsInvariant == Spec => []SmsInv
  <1>0. Sms!ReadinessAssumption
    BY PartsAssumption
  <1>1. ASSUME Sms!Init
        PROVE  SmsInv
    <2>1. 0 \in 0 .. sr_MaxResets /\ 0 \in 0 .. sr_MaxCleanups /\ 0 \in 0 .. sr_MaxSets
          /\ 0 \in 0 .. sr_MaxRefreshes
      BY <1>0 DEF Sms!ReadinessAssumption
    <2>2. /\ sr_since \in 0 .. sr_resets /\ sr_resets \in Nat
          /\ \A r \in sr_Refreshers : sr_of[r] <= sr_resets /\ sr_began[r] <= sr_resets
          /\ sr_of \in [sr_Refreshers -> Nat] /\ sr_began \in [sr_Refreshers -> Nat]
      BY <1>1 DEF Sms!Init
    <2>3. /\ sr_at \in [sr_Refreshers -> SmsPlaces] /\ sr_kind \in [sr_Refreshers -> Sms!Kinds]
          /\ sr_got \in [sr_Refreshers -> sr_Routes \cup sr_Addresses \cup {Sms!None}]
      BY <1>1 DEF Sms!Init, SmsPlaces, Sms!Kinds
    <2>4. /\ sr_smsc \in [value : sr_Addresses \cup {Sms!None}, stale : BOOLEAN]
          /\ sr_failed = {} /\ sr_raced = {} /\ sr_overtaken = {} /\ sr_crossed = {}
      BY <1>1 DEF Sms!Init, Sms!NoAddress
    <2>5. /\ sr_routes \in sr_Routes \cup {Sms!None} /\ sr_lastKnownGood \in sr_Routes
             \cup {Sms!None}
          /\ sr_resets \in 0 .. sr_MaxResets /\ sr_cleanups \in 0 .. sr_MaxCleanups
             /\ sr_sets \in 0 .. sr_MaxSets
          /\ sr_refreshes \in 0 .. sr_MaxRefreshes
          /\ sr_wms \in BOOLEAN /\ sr_routesKnown \in BOOLEAN
          /\ sr_smscPending \in BOOLEAN /\ sr_readinessPending \in BOOLEAN
      BY <1>1, <2>1 DEF Sms!Init
    <2>6. SmsTypes
      BY <2>2, <2>3, <2>4, <2>5 DEF SmsTypes
    <2> QED
      BY <1>1, <2>6 DEF Sms!Init, SmsInv, Sms!PendingIsOwned, Sms!RoutesKnownTruly, RoutesSeen,
         AddressAlone,
         Sms!ReadingAddress
  <1>2. ASSUME SmsInv, [Sms!Next]_(Sms!vars)
        PROVE  SmsInv'
    <2>1. CASE UNCHANGED Sms!vars
      BY <1>2, <2>1 DEF Sms!vars, Sms!modem, Sms!counters, Sms!known, Sms!address, SmsInv,
         SmsTypes, Sms!PendingIsOwned,
         Sms!RoutesKnownTruly, RoutesSeen, AddressAlone, Sms!ReadingAddress
    <2>2. ASSUME NEW r \in sr_Refreshers, Sms!RefreshStep(r)
          PROVE  SmsInv'
      BY <1>0, <1>2, <2>2, SmsAsksKeep, SmsKnowsKeep, SmsSetKeeps, SmsAddressKeeps,
         SmsBeginsAddressKeeps, SmsEndsKeep DEF Sms!RefreshStep
    <2> QED
      BY <1>0, <1>2, <2>1, <2>2, SmsModemKeeps, SmsReportsKeep, SmsBeginKeeps DEF Sms!Next
  <1> QED
    BY <1>1, <1>2, SmsRuns, PTL DEF Sms!Spec

\* The single facts are the type invariant.
LEMMA SmsTypesAreOK ==
    ASSUME SmsTypes
    PROVE  Sms!ReadinessTypeOK
  BY DEF SmsTypes, Sms!ReadinessTypeOK

\* Routes are written back over others only after a failure, or when they were set meanwhile.
LEMMA SmsStepReverts ==
    ASSUME SmsInv, [Sms!Next]_(Sms!vars)
    PROVE  [Sms!RevertsNone]_(Sms!vars)
  <1> SUFFICES ASSUME NEW r \in sr_Refreshers, sr_at[r] = "set", sr_at'[r] # "set",
                      sr_routes # Sms!None
               PROVE  r \in sr_failed \cup sr_raced
    BY DEF Sms!RevertsNone
  <1> QED
    BY DEF SmsInv, RoutesSeen

\* A step moves one refresh at most; its routes are done, and its address is kept, by these.
LEMMA SmsMoves ==
    ASSUME SmsTypes, Sms!Next, NEW r \in sr_Refreshers, sr_at'[r] # sr_at[r]
    PROVE  /\ sr_at'[r] = "routes done" =>
                 Sms!cacheWMSRoutes(r) \/ Sms!setWMSRoutesKnown(r) \/ sr_kind[r] = "readiness"
           /\ sr_at[r] = "keep" => Sms!KeepsAddress(r)
  <1>1. CASE Sms!ModemResets \/ Sms!WMSSetRoutes \/ Sms!AddressReported
        \/ Sms!markWMSReadinessStale \/ Sms!Cleanup
    BY <1>1 DEF Sms!ModemResets, Sms!WMSSetRoutes, Sms!AddressReported,
       Sms!markWMSReadinessStale, Sms!Cleanup
  <1>2. ASSUME NEW q \in sr_Refreshers,
               \/ Sms!recoverWMSState(q) \/ Sms!maybeReplayWMSStateAfterRebind(q)
                  \/ Sms!maybeRefreshWMSReadiness(q)
        PROVE  q = r /\ sr_at'[r] = "ask routes" /\ sr_at[r] = "idle"
    <2>1. Sms!Goto(q, "ask routes") /\ sr_at[q] = "idle"
      BY <1>2 DEF Sms!recoverWMSState, Sms!maybeReplayWMSStateAfterRebind,
         Sms!maybeRefreshWMSReadiness, Sms!Begin
    <2> QED
      BY <2>1, SmsGoto DEF SmsPlaces
  <1>3. ASSUME NEW q \in sr_Refreshers, Sms!RefreshStep(q)
        PROVE  /\ sr_at'[r] = "routes done" =>
                     Sms!cacheWMSRoutes(r) \/ Sms!setWMSRoutesKnown(r) \/ sr_kind[r] = "readiness"
               /\ sr_at[r] = "keep" => Sms!KeepsAddress(r)
    <2>1. PICK place \in SmsPlaces :
            /\ Sms!Goto(q, place)
            /\ place = "routes done" =>
                 Sms!cacheWMSRoutes(q) \/ Sms!setWMSRoutesKnown(q) \/ sr_kind[q] = "readiness"
      BY <1>3 DEF Sms!RefreshStep, Sms!RoutesAnswered, Sms!RoutesFail, Sms!cacheWMSRoutes,
         Sms!RoutesUnknown, Sms!cachedWMSRoutes,
         Sms!setWMSRoutes, Sms!setWMSRoutesKnown, Sms!beginWMSSMSCRefresh, Sms!AddressAnswered,
             Sms!Look, Sms!KeepsAddress,
         Sms!endWMSSMSCRefresh, Sms!EndsReadiness, Sms!ReplaysOrNot, Sms!WritesAddress, Sms!Ends,
             SmsPlaces
    <2>2. q = r /\ sr_at'[r] = place
      BY <2>1, SmsGoto
    <2>3. sr_at[q] = "keep" => Sms!KeepsAddress(q)
      BY <1>3 DEF Sms!RefreshStep, Sms!RoutesAnswered, Sms!RoutesFail, Sms!cacheWMSRoutes,
         Sms!RoutesUnknown, Sms!cachedWMSRoutes,
         Sms!setWMSRoutes, Sms!setWMSRoutesKnown, Sms!beginWMSSMSCRefresh, Sms!AddressAnswered,
             Sms!Look,
         Sms!endWMSSMSCRefresh, Sms!EndsReadiness
    <2> QED
      BY <2>1, <2>2, <2>3
  <1> QED
    BY <1>1, <1>2, <1>3 DEF Sms!Next

\* Routes that are done without a failure are there, and known.
LEMMA SmsStepRestores ==
    ASSUME Sms!ReadinessAssumption, SmsInv, [Sms!Next]_(Sms!vars)
    PROVE  [Sms!RestoresRoutes]_(Sms!vars)
  <1> USE DEF SmsInv
  <1>1. CASE Sms!Next
    <2> SUFFICES ASSUME NEW r \in sr_Refreshers, sr_kind[r] # "readiness",
                        sr_at'[r] = "routes done",
                        sr_at[r] # "routes done", r \notin sr_failed, sr_began[r] = sr_resets
                 PROVE  sr_routes # Sms!None /\ sr_routesKnown'
      BY DEF Sms!RestoresRoutes
    <2>1. Sms!cacheWMSRoutes(r) \/ Sms!setWMSRoutesKnown(r)
      BY <1>1, SmsMoves
    <2>2. sr_at[r] \in {"cache", "is set", "not set"} /\ (sr_at[r] # "not set" => sr_routesKnown')
      BY <2>1 DEF Sms!cacheWMSRoutes, Sms!setWMSRoutesKnown
    <2>3. sr_at[r] # "not set"
      BY DEF RoutesSeen
    <2>4. sr_began[r] <= sr_of[r] /\ (sr_of[r] = sr_resets => sr_routes # Sms!None)
      BY <2>2, <2>3 DEF RoutesSeen
    <2>5. sr_of[r] \in Nat /\ sr_of[r] <= sr_resets /\ sr_resets \in Nat
      BY SmsCounts DEF SmsTypes, SmsNumbers
    <2>6. sr_of[r] = sr_resets
      BY <2>4, <2>5, SmsNewest
    <2> QED
      BY <2>2, <2>3, <2>4, <2>6
  <1> QED
    BY <1>1

\* A refresh that fails writes no address back only when there was none, or it was overtaken.
LEMMA SmsStepKeepsAddress ==
    ASSUME SmsInv, [Sms!Next]_(Sms!vars)
    PROVE  [Sms!KeepsKnownAddress]_(Sms!vars)
  <1> USE DEF SmsInv
  <1>1. CASE Sms!Next
    <2> SUFFICES ASSUME NEW r \in sr_Refreshers, sr_at[r] = "keep", sr_at'[r] # "keep",
                        sr_smsc.value # Sms!None,
                        sr_smsc'.value = Sms!None
                 PROVE  r \in sr_overtaken \cup sr_crossed
      BY DEF Sms!KeepsKnownAddress
    <2>1. Sms!KeepsAddress(r)
      BY <1>1, SmsMoves
    <2>2. PICK stale : sr_smsc' = [value |-> sr_got[r], stale |-> stale]
      BY <2>1 DEF Sms!KeepsAddress, Sms!WritesAddress
    <2>3. sr_got[r] = Sms!None
      BY <2>2
    <2> QED
      BY <2>3 DEF AddressAlone
  <1> QED
    BY <1>1

\* The identities, the serving system and what is known of the SMS service follow what
\* the modem and the card reported, and a failure to read takes nothing away.
THEOREM SnapshotIsTruthful == Spec => SnapshotTruthful
  <1>1. /\ IdentitiesInv => Identities!IdentitiesTypeOK /\ Identities!OfPresentCard
        /\ ServingInv => Serving!ServingTypeOK
    BY DEF IdentitiesInv, ServingInv
  <1>2. SmsInv => Sms!ReadinessTypeOK /\ Sms!PendingIsOwned /\ Sms!RoutesKnownTruly
    BY SmsTypesAreOK DEF SmsInv
  <1>3. ASSUME IdentitiesInv, [Identities!Next]_(Identities!vars)
        PROVE  [Identities!KeepsKnown]_(Identities!vars)
    BY <1>3, IdentitiesStepKeepsKnown
  <1>4. ASSUME ServingInv, [Serving!Next]_(Serving!vars)
        PROVE  [Serving!KeepsPlmn]_(Serving!vars) /\ [Serving!KeepsRegistration]_(Serving!vars)
    BY <1>4, ServingStepKeepsPlmn, ServingStepKeepsRegistration
  <1>5. ASSUME SmsInv, [Sms!Next]_(Sms!vars)
        PROVE  /\ [Sms!RevertsNone]_(Sms!vars) /\ [Sms!RestoresRoutes]_(Sms!vars)
               /\ [Sms!KeepsKnownAddress]_(Sms!vars)
    <2>1. Sms!ReadinessAssumption
      BY PartsAssumption
    <2> QED
      BY <1>5, <2>1, SmsStepReverts, SmsStepRestores, SmsStepKeepsAddress
  <1>6. Spec => Identities!IdentitiesTruthful
    BY <1>1, <1>3, IdentitiesInvariant, IdentitiesRuns, PTL
       DEF Identities!IdentitiesTruthful, Identities!KnownIsKept, Identities!Spec
  <1>7. Spec => Serving!ServingTruthful
    BY <1>1, <1>4, ServingInvariant, ServingRuns, PTL
       DEF Serving!ServingTruthful, Serving!PlmnNotForgotten, Serving!RegistrationFromReport,
           Serving!Spec
  <1>8. Spec => Sms!ReadinessKept
    BY <1>2, <1>5, SmsInvariant, SmsRuns, PTL
       DEF Sms!ReadinessKept, Sms!RoutesNotReverted, Sms!RoutesRestored, Sms!AddressNotForgotten,
           Sms!Spec
  <1> QED
    BY <1>6, <1>7, <1>8, PTL DEF SnapshotTruthful

-----------------------------------------------------------------------------
\* A step is one of this part, or leaves it alone.
LEMMA PdnRuns == Spec => Pdn!Spec
  <1>1. Init => Pdn!Init
    BY DEF Init
  <1>2. ASSUME [Next]_vars
        PROVE  [Pdn!Next]_(Pdn!vars)
    <2>1. RunPdn \/ UNCHANGED varsPdn
      BY <1>2 DEF Next, vars, RunEmitter, RunRebind, RunTimeouts, RunIdentities, RunPdn, RunProbe,
         RunServing, RunData, RunClientIds, RunQrtr, RunDecoders, RunModemPool, RunWaits,
         RunProxy, RunSim, RunMuxes, RunSms
    <2>2. CASE RunPdn
      BY <2>2 DEF RunPdn
    <2>3. CASE UNCHANGED varsPdn
      BY <2>3 DEF varsPdn, Pdn!vars
    <2> QED
      BY <2>1, <2>2, <2>3
  <1> QED
    BY <1>1, <1>2, PTL DEF Spec, Pdn!Spec

\* The ids of the modem are those of the sessions, of the one that is opened, and those
\* that could not be released.
Holding == {"bind", "start", "up", "undo"}
PdnOwned ==
    /\ \A s \in pd_leased \ pd_unreleased : s \in pd_sessions
       \/ (pd_opening.step \in Holding /\ s = pd_opening.id)
    /\ pd_calls \subseteq pd_leased
    /\ pd_opening.step \in {"bind", "start", "up"} => pd_opening.id \in pd_leased \ pd_unreleased
    /\ pd_unreleased \intersect pd_sessions = {}
    /\ pd_opening.step \in {"add", "lease"} => pd_opening.id \notin pd_unreleased
    /\ pd_unreleased \subseteq 1 .. pd_nextSessionID

\* Sessions are numbered as they come; the one that is opened is of the topology in use.
PdnNumbered ==
    /\ pd_lives >= 1 /\ (pd_opening.step = "idle" => pd_opening = Pdn!Idle)
    /\ pd_sessions \union pd_superseded \subseteq 1 .. pd_nextSessionID
    /\ \A s \in Pdn!Ids : /\ pd_stops[s] <= 1
                          /\ s \in pd_sessions \/ s > pd_nextSessionID => pd_stops[s] = 0
                          /\ s <= pd_nextSessionID => pd_info[s].mux \in pd_Muxes
    /\ pd_opening.step # "idle" =>
          /\ pd_opening.id \in 1 .. pd_nextSessionID
             /\ pd_opening.id \notin pd_sessions \union pd_superseded
          /\ pd_stops[pd_opening.id] = 0
          /\ pd_info[pd_opening.id].generation = pd_snapshot.generation
          /\ pd_info[pd_opening.id].client # Pdn!NoClient

\* What cleanup has yet to close is of the topology in use.
PdnClosing ==
    \A s \in pd_sessions \ (pd_superseded \union pd_late) :
        /\ pd_client # Pdn!NoClient /\ pd_cleanup # "forgot"
        /\ pd_info[s].generation = pd_snapshot.generation
        /\ pd_cleanup = "closing" => s \in pd_todo

\* In the life of a client the generations grow.
PdnGrows ==
    \A s \in pd_sessions \ pd_orphans :
        /\ pd_info[s].generation <= pd_snapshot.generation
        /\ s \in pd_superseded => pd_info[s].generation < pd_snapshot.generation
PdnInv == Pdn!PdnTypeOK /\ PdnOwned /\ PdnNumbered /\ PdnClosing /\ PdnGrows

LEMMA PdnConvergeKeeps ==
    ASSUME Pdn!PdnAssumption, PdnInv, NEW mux \in pd_Muxes \union {Pdn!NoMux}, Pdn!Converge(mux)
    PROVE  PdnInv'
  <1> USE DEF PdnInv
  <1>1. /\ UNCHANGED <<pd_sessions, pd_opening, pd_nextSessionID, pd_info, pd_client, pd_lives,
           pd_cleanup, pd_todo, pd_leased,
                       pd_unreleased, pd_calls, pd_stops, pd_stuck, pd_late, pd_orphans>>
        /\ pd_opening = Pdn!Idle /\ pd_superseded' = pd_superseded \union pd_sessions
        /\ pd_master' \in BOOLEAN /\ pd_devices' \subseteq pd_Muxes
        /\ \E mode \in {"native", "qmap"}, m \in pd_Muxes \union {Pdn!NoMux} : Pdn!Publish(mode, m)
        /\ pd_snapshot.generation + pd_lives <= pd_MaxGeneration
    BY DEF Pdn!Converge, Pdn!Unlocked, Pdn!PdnTypeOK, Pdn!NoMux
  <1>2. pd_opening.step = "idle"
    BY <1>1 DEF Pdn!Idle
  <1>3. /\ pd_snapshot.generation \in Nat /\ pd_snapshot'.generation = pd_snapshot.generation + 1
        /\ pd_snapshot' \in [generation : 0 .. pd_MaxGeneration, mode : {"none", "native", "qmap"},
                          mux : pd_Muxes \union {Pdn!NoMux}]
    BY <1>1 DEF Pdn!Publish, Pdn!PdnTypeOK, PdnNumbered, Pdn!PdnAssumption
  <1>4. Pdn!PdnTypeOK'
    BY <1>1, <1>3 DEF Pdn!PdnTypeOK
  <1>5. PdnOwned'
    BY <1>1 DEF PdnOwned
  <1>6. PdnNumbered'
    BY <1>1, <1>2 DEF PdnNumbered
  <1>7. PdnClosing'
    BY <1>1 DEF PdnClosing
  <1>8. PdnGrows'
    <2>1. ASSUME NEW s \in pd_sessions \ pd_orphans
          PROVE  pd_info[s].generation <= pd_snapshot'.generation
                 /\ pd_info[s].generation < pd_snapshot'.generation
      <3>1. pd_info[s].generation \in Nat /\ pd_info[s].generation <= pd_snapshot.generation
        BY DEF PdnGrows, Pdn!PdnTypeOK
      <3> QED
        BY <1>3, <3>1
    <2> QED
      BY <1>1, <2>1 DEF PdnGrows
  <1> QED
    BY <1>4, <1>5, <1>6, <1>7, <1>8
LEMMA PdnBeginsKeeps ==
    ASSUME Pdn!PdnAssumption, PdnInv, NEW mux \in pd_Muxes, Pdn!OpenPDN(mux)
    PROVE  PdnInv'
  <1> USE DEF PdnInv
  <1> DEFINE id == pd_nextSessionID + 1
  <1>1. /\ UNCHANGED <<pd_snapshot, pd_master, pd_sessions, pd_client, pd_lives, pd_cleanup,
           pd_todo, pd_devices, pd_leased,
                       pd_unreleased, pd_calls, pd_stops, pd_stuck, pd_superseded, pd_late,
                           pd_orphans>>
        /\ pd_opening = Pdn!Idle /\ pd_nextSessionID < pd_MaxSessions /\ pd_client # Pdn!NoClient
        /\ pd_nextSessionID' = id /\ pd_opening'.step = "add" /\ pd_opening'.id = id
        /\ pd_opening' = [step |-> "add", id |-> id]
        /\ pd_info' = [pd_info EXCEPT ![id] =
                      [mux |-> mux, generation |-> pd_snapshot.generation, client |-> pd_client]]
    BY DEF Pdn!OpenPDN, Pdn!Unlocked
  <1>2. pd_nextSessionID \in Nat /\ pd_MaxSessions \in Nat /\ id \in Pdn!Ids
        /\ id \in 1 .. pd_nextSessionID'
    BY <1>1 DEF Pdn!PdnTypeOK, Pdn!PdnAssumption, Pdn!Ids
  <1>3. /\ pd_info'[id].mux = mux /\ pd_info'[id].generation = pd_snapshot.generation
           /\ pd_info'[id].client = pd_client
        /\ \A s \in Pdn!Ids \ {id} : pd_info'[s] = pd_info[s]
    BY <1>1, <1>2 DEF Pdn!PdnTypeOK
  <1>4. Pdn!PdnTypeOK'
    <2>1. pd_opening' \in [step : Pdn!Steps, id : 0 .. pd_MaxSessions]
          /\ pd_nextSessionID' \in 0 .. pd_MaxSessions
      BY <1>1, <1>2 DEF Pdn!Steps
    <2>2. pd_info' \in [Pdn!Ids -> [mux : pd_Muxes \union {Pdn!NoMux},
          generation : 0 .. pd_MaxGeneration,
                             client : 0 .. pd_MaxLives]]
      <3>1. [mux |-> mux, generation |-> pd_snapshot.generation, client |-> pd_client] \in
              [mux : pd_Muxes \union {Pdn!NoMux}, generation : 0 .. pd_MaxGeneration,
                  client : 0 .. pd_MaxLives]
        BY DEF Pdn!PdnTypeOK
      <3> QED
        BY <1>1, <1>2, <3>1 DEF Pdn!PdnTypeOK
    <2> QED
      BY <1>1, <2>1, <2>2 DEF Pdn!PdnTypeOK
  <1>5. PdnOwned'
    <2>1. id \notin pd_unreleased /\ pd_unreleased \subseteq 1 .. pd_nextSessionID'
      BY <1>1, <1>2 DEF PdnOwned
    <2> QED
      BY <1>1, <2>1 DEF PdnOwned, Pdn!Idle, Holding
  <1>6. id \notin pd_sessions /\ id \notin pd_superseded /\ pd_stops[id] = 0
    BY <1>2 DEF PdnNumbered
  <1>7. PdnNumbered'
    <2>1. pd_sessions \union pd_superseded \subseteq 1 .. pd_nextSessionID'
      BY <1>1, <1>2 DEF PdnNumbered
    <2>2. ASSUME NEW s \in Pdn!Ids
          PROVE  /\ pd_stops[s] <= 1
                 /\ s \in pd_sessions \/ s > pd_nextSessionID' => pd_stops[s] = 0
                 /\ s <= pd_nextSessionID' => pd_info'[s].mux \in pd_Muxes
      BY <1>1, <1>2, <1>3 DEF PdnNumbered, Pdn!Ids
    <2> QED
      BY <1>1, <1>2, <1>3, <1>6, <2>1, <2>2 DEF PdnNumbered
  <1>8. \A s \in pd_sessions : s \in Pdn!Ids /\ pd_info'[s] = pd_info[s]
    BY <1>3, <1>6 DEF Pdn!PdnTypeOK
  <1>9. PdnClosing'
    BY <1>1, <1>8 DEF PdnClosing
  <1>10. PdnGrows'
    BY <1>1, <1>8 DEF PdnGrows
  <1> QED
    BY <1>4, <1>5, <1>7, <1>9, <1>10

\* A step of OpenPDN that publishes nothing and gives nothing back.
LEMMA PdnOpensKeeps ==
    ASSUME Pdn!PdnAssumption, PdnInv, Pdn!AddMux \/ Pdn!LeaseWDS \/ Pdn!Bind \/ Pdn!Start
    PROVE  PdnInv'
  <1> USE DEF PdnInv
  <1>1. /\ UNCHANGED <<pd_snapshot, pd_master, pd_sessions, pd_nextSessionID, pd_info, pd_client,
           pd_lives, pd_cleanup, pd_todo,
                       pd_stops, pd_stuck, pd_superseded, pd_late, pd_orphans>>
        /\ pd_opening.step \in {"add", "lease", "bind", "start"}
    BY DEF Pdn!AddMux, Pdn!LeaseWDS, Pdn!Bind, Pdn!Start, Pdn!At
  <1>2. pd_opening.id \in Pdn!Ids /\ pd_info[pd_opening.id].mux \in pd_Muxes
        /\ pd_opening.id \in 1 .. pd_nextSessionID
    BY <1>1 DEF PdnNumbered, Pdn!PdnTypeOK, Pdn!Ids
  <1>3. pd_opening' = Pdn!Idle
        \/ \E step \in Holding \union {"lease"} : pd_opening' = [pd_opening EXCEPT !.step = step]
    BY DEF Pdn!AddMux, Pdn!LeaseWDS, Pdn!Bind, Pdn!Start, Pdn!GoTo, Holding
  <1>4. /\ pd_opening' \in [step : Pdn!Steps, id : 0 .. pd_MaxSessions]
        /\ pd_opening' = Pdn!Idle \/ (pd_opening'.step \in Holding \union {"lease"}
           /\ pd_opening'.id = pd_opening.id)
    BY <1>3 DEF Pdn!PdnTypeOK, Pdn!Idle, Pdn!Steps, Holding, Pdn!PdnAssumption
  <1>5. /\ pd_devices' \subseteq pd_Muxes /\ pd_leased' \subseteq Pdn!Ids
           /\ pd_calls' \subseteq Pdn!Ids
        /\ pd_unreleased' \subseteq Pdn!Ids
    BY <1>2 DEF Pdn!AddMux, Pdn!LeaseWDS, Pdn!Bind, Pdn!Start, Pdn!PdnTypeOK
  <1>6. Pdn!PdnTypeOK'
    BY <1>1, <1>4, <1>5 DEF Pdn!PdnTypeOK
  <1>7. PdnOwned'
    <2>1. CASE Pdn!AddMux
      BY <2>1 DEF Pdn!AddMux, Pdn!At, Pdn!GoTo, PdnOwned, Pdn!PdnTypeOK, Holding, Pdn!Idle
    <2>2. CASE Pdn!LeaseWDS
      <3>1. /\ pd_opening.step = "lease" /\ pd_opening'.id = pd_opening.id
            /\ pd_leased' \subseteq pd_leased \union {pd_opening.id}
               /\ pd_leased \subseteq pd_leased'
            /\ UNCHANGED <<pd_sessions, pd_calls, pd_nextSessionID>>
            /\ \/ pd_opening'.step = "bind" /\ pd_unreleased' = pd_unreleased
                  /\ pd_opening.id \in pd_leased'
               \/ pd_opening'.step = "undo"
                  /\ pd_unreleased' \subseteq pd_unreleased \union {pd_opening.id}
                     /\ pd_unreleased \subseteq pd_unreleased'
        BY <2>2 DEF Pdn!LeaseWDS, Pdn!At, Pdn!GoTo, Pdn!PdnTypeOK
      <3>2. pd_opening.id \notin pd_unreleased /\ pd_opening.id \notin pd_sessions
        BY <3>1 DEF PdnOwned, PdnNumbered
      <3>3. pd_opening.step \notin Holding
        BY <3>1 DEF Holding
      <3> QED
        BY <1>2, <3>1, <3>2, <3>3 DEF PdnOwned, Holding
    <2>3. CASE Pdn!Bind
      BY <2>3 DEF Pdn!Bind, Pdn!At, Pdn!GoTo, PdnOwned, Pdn!PdnTypeOK, Holding, Pdn!Idle
    <2>4. CASE Pdn!Start
      BY <2>4 DEF Pdn!Start, Pdn!At, Pdn!GoTo, PdnOwned, Pdn!PdnTypeOK, Holding, Pdn!Idle
    <2> QED
      BY <2>1, <2>2, <2>3, <2>4
  <1>8. PdnNumbered'
    <2>1. CASE pd_opening' = Pdn!Idle
      BY <1>1, <2>1 DEF PdnNumbered, Pdn!Idle
    <2>2. CASE pd_opening'.step \in Holding \union {"lease"} /\ pd_opening'.id = pd_opening.id
      BY <1>1, <2>2 DEF PdnNumbered, Holding
    <2> QED
      BY <1>4, <2>1, <2>2
  <1>9. PdnClosing' /\ PdnGrows'
    BY <1>1 DEF PdnClosing, PdnGrows
  <1> QED
    BY <1>6, <1>7, <1>8, <1>9
LEMMA PdnUpKeeps ==
    ASSUME Pdn!PdnAssumption, PdnInv, Pdn!Up
    PROVE  PdnInv'
  <1> USE DEF PdnInv
  <1>1. /\ UNCHANGED <<pd_snapshot, pd_master, pd_nextSessionID, pd_info, pd_client, pd_lives,
           pd_cleanup, pd_todo, pd_devices,
                       pd_leased, pd_unreleased, pd_calls, pd_stops, pd_stuck, pd_superseded,
                           pd_orphans>>
        /\ pd_opening.step = "up"
        /\ \/ /\ pd_sessions' = pd_sessions \union {pd_opening.id} /\ pd_opening' = Pdn!Idle
              /\ pd_late' = IF pd_cleanup = "idle"
                 /\ pd_client = pd_info[pd_opening.id].client THEN pd_late
                         ELSE pd_late \union {pd_opening.id}
           \/ pd_opening' = [pd_opening EXCEPT !.step = "undo"]
              /\ UNCHANGED <<pd_sessions, pd_late>>
    BY DEF Pdn!Up, Pdn!At, Pdn!GoTo
  <1>2. pd_opening.id \in Pdn!Ids /\ pd_opening.id \in 1 .. pd_nextSessionID
    BY <1>1 DEF PdnNumbered, Pdn!PdnTypeOK, Pdn!Ids
  <1>3. CASE pd_opening' = [pd_opening EXCEPT !.step = "undo"] /\ UNCHANGED <<pd_sessions, pd_late>>
    <2>1. pd_opening' \in [step : Pdn!Steps, id : 0 .. pd_MaxSessions]
          /\ pd_opening'.step = "undo" /\ pd_opening'.id = pd_opening.id
      BY <1>3 DEF Pdn!PdnTypeOK, Pdn!Steps
    <2>2. Pdn!PdnTypeOK'
      BY <1>1, <1>3, <2>1 DEF Pdn!PdnTypeOK
    <2>3. PdnOwned' /\ PdnNumbered'
      BY <1>1, <1>3, <2>1 DEF PdnOwned, PdnNumbered, Holding
    <2>4. PdnClosing' /\ PdnGrows'
      BY <1>1, <1>3 DEF PdnClosing, PdnGrows
    <2> QED
      BY <2>2, <2>3, <2>4
  <1>4. CASE /\ pd_sessions' = pd_sessions \union {pd_opening.id} /\ pd_opening' = Pdn!Idle
             /\ pd_late' = IF pd_cleanup = "idle"
                /\ pd_client = pd_info[pd_opening.id].client THEN pd_late
                        ELSE pd_late \union {pd_opening.id}
    <2>1. /\ pd_late' \subseteq Pdn!Ids /\ pd_late \subseteq pd_late'
             /\ pd_sessions' \subseteq Pdn!Ids
          /\ pd_opening' \in [step : Pdn!Steps, id : 0 .. pd_MaxSessions]
             /\ pd_opening'.step = "idle"
      BY <1>2, <1>4 DEF Pdn!PdnTypeOK, Pdn!Idle, Pdn!Steps, Pdn!PdnAssumption
    <2>2. Pdn!PdnTypeOK'
      BY <1>1, <2>1 DEF Pdn!PdnTypeOK
    <2>3. PdnOwned'
      BY <1>1, <1>4, <2>1 DEF PdnOwned, Holding
    <2>4. PdnNumbered'
      BY <1>1, <1>2, <1>4, <2>1 DEF PdnNumbered
    <2>5. PdnClosing'
      BY <1>1, <1>4, <2>1 DEF PdnClosing, PdnNumbered
    <2>6. PdnGrows'
      <3>1. /\ pd_info[pd_opening.id].generation <= pd_snapshot.generation
            /\ pd_opening.id \notin pd_superseded
        BY <1>1, <1>2 DEF PdnNumbered, Pdn!PdnTypeOK
      <3> QED
        BY <1>1, <1>4, <3>1 DEF PdnGrows
    <2> QED
      BY <2>2, <2>3, <2>4, <2>5, <2>6
  <1> QED
    BY <1>1, <1>3, <1>4

\* After its release, tried once, an id is gone from the modem or never tried again.
LEMMA PdnReleases ==
    ASSUME PdnInv, NEW s \in Pdn!Ids, Pdn!Releases(s)
    PROVE  /\ pd_leased' \subseteq pd_leased /\ pd_calls' \subseteq pd_calls
              /\ pd_calls' \subseteq pd_leased'
           /\ pd_unreleased \subseteq pd_unreleased'
              /\ pd_unreleased' \subseteq pd_unreleased \union {s}
           /\ pd_unreleased' \subseteq Pdn!Ids /\ s \notin pd_leased' \ pd_unreleased'
           /\ pd_leased' \ pd_unreleased' \subseteq pd_leased \ pd_unreleased
           /\ (pd_leased \ pd_unreleased) \ {s} \subseteq pd_leased' \ pd_unreleased'
  BY DEF Pdn!Releases, PdnInv, PdnOwned, Pdn!PdnTypeOK
LEMMA PdnUndoKeeps ==
    ASSUME Pdn!PdnAssumption, PdnInv, Pdn!Undo
    PROVE  PdnInv'
  <1> USE DEF PdnInv
  <1>1. /\ UNCHANGED <<pd_snapshot, pd_master, pd_sessions, pd_nextSessionID, pd_info, pd_client,
           pd_lives, pd_cleanup, pd_todo,
                       pd_stops, pd_superseded, pd_late, pd_orphans>>
        /\ pd_opening.step = "undo" /\ pd_opening' = Pdn!Idle
           /\ Pdn!Delete(pd_info[pd_opening.id].mux)
        /\ Pdn!Releases(pd_opening.id)
    BY DEF Pdn!Undo, Pdn!At
  <1>2. /\ pd_opening' \in [step : Pdn!Steps, id : 0 .. pd_MaxSessions] /\ pd_opening'.step = "idle"
        /\ pd_info[pd_opening.id].mux \in pd_Muxes
        /\ pd_opening.id \in Pdn!Ids /\ pd_opening.id \notin pd_sessions
           /\ pd_opening.id \in 1 .. pd_nextSessionID
    BY <1>1 DEF Pdn!Idle, Pdn!Steps, Pdn!PdnAssumption, PdnNumbered, Pdn!PdnTypeOK, Pdn!Ids
  <1>3. pd_devices' \subseteq pd_Muxes /\ pd_stuck' \subseteq pd_Muxes
    BY <1>1, <1>2 DEF Pdn!Delete, Pdn!PdnTypeOK
  <1>4. Pdn!PdnTypeOK'
    BY <1>1, <1>2, <1>3, PdnReleases DEF Pdn!PdnTypeOK
  <1>5. PdnOwned' /\ PdnNumbered'
    <2>1. PdnOwned'
      <3>1. /\ pd_calls' \subseteq pd_leased'
               /\ pd_unreleased' \subseteq pd_unreleased \union {pd_opening.id}
            /\ pd_leased' \ pd_unreleased' \subseteq (pd_leased \ pd_unreleased) \ {pd_opening.id}
        BY <1>1, <1>2, PdnReleases
      <3>2. pd_leased' \ pd_unreleased' \subseteq pd_sessions
        BY <3>1 DEF PdnOwned
      <3>3. pd_unreleased' \intersect pd_sessions = {}
            /\ pd_unreleased' \subseteq 1 .. pd_nextSessionID
        BY <1>2, <3>1 DEF PdnOwned
      <3> QED
        BY <1>1, <1>2, <3>1, <3>2, <3>3 DEF PdnOwned
    <2> QED
      BY <1>1, <1>2, <2>1 DEF PdnNumbered
  <1>6. PdnClosing' /\ PdnGrows'
    BY <1>1 DEF PdnClosing, PdnGrows
  <1> QED
    BY <1>4, <1>5, <1>6

\* A session is closed; only cleanup's list may change besides.
LEMMA PdnTakesDownKeeps ==
    ASSUME Pdn!PdnAssumption, PdnInv, NEW s \in Pdn!Ids, Pdn!Unlocked, Pdn!Current(s),
           Pdn!TakesDown(s),
           UNCHANGED <<pd_snapshot, pd_master, pd_opening, pd_nextSessionID, pd_info, pd_client,
               pd_lives, pd_cleanup,
                       pd_superseded, pd_late, pd_orphans>>,
           pd_todo' = pd_todo \/ pd_todo' = pd_todo \ {s}
    PROVE  PdnInv'
  <1> USE DEF PdnInv
  <1>1. /\ s \in pd_sessions /\ pd_sessions' = pd_sessions \ {s}
           /\ pd_stops' = [pd_stops EXCEPT ![s] = @ + 1]
        /\ Pdn!Releases(s) /\ Pdn!Delete(pd_info[s].mux)
        /\ pd_opening = Pdn!Idle /\ pd_opening.step = "idle"
    BY DEF Pdn!Current, Pdn!TakesDown, Pdn!Unlocked, Pdn!Idle
  <1>2. pd_stops[s] = 0 /\ pd_info[s].mux \in pd_Muxes /\ s \in 1 .. pd_nextSessionID
        /\ s <= pd_nextSessionID
    BY <1>1 DEF PdnNumbered, Pdn!PdnTypeOK
  <1>3. /\ pd_devices' \subseteq pd_Muxes /\ pd_stuck' \subseteq pd_Muxes
           /\ pd_stops' \in [Pdn!Ids -> 0 .. 2]
        /\ pd_stops'[s] = 1 /\ \A r \in Pdn!Ids \ {s} : pd_stops'[r] = pd_stops[r]
    BY <1>1, <1>2 DEF Pdn!Delete, Pdn!PdnTypeOK
  <1>4. Pdn!PdnTypeOK'
    BY <1>1, <1>3, PdnReleases DEF Pdn!PdnTypeOK
  <1>5. PdnOwned'
    <2>1. /\ pd_calls' \subseteq pd_leased' /\ pd_unreleased' \subseteq pd_unreleased \union {s}
          /\ pd_leased' \ pd_unreleased' \subseteq (pd_leased \ pd_unreleased) \ {s}
      BY <1>1, PdnReleases
    <2>2. pd_leased' \ pd_unreleased' \subseteq pd_sessions'
      BY <1>1, <2>1 DEF PdnOwned, Holding
    <2>3. pd_unreleased' \intersect pd_sessions' = {}
          /\ pd_unreleased' \subseteq 1 .. pd_nextSessionID
      BY <1>1, <1>2, <2>1 DEF PdnOwned
    <2> QED
      BY <1>1, <2>1, <2>2, <2>3 DEF PdnOwned
  <1>6. PdnNumbered'
    <2>1. ASSUME NEW r \in Pdn!Ids
          PROVE  /\ pd_stops'[r] <= 1
                 /\ r \in pd_sessions' \/ r > pd_nextSessionID => pd_stops'[r] = 0
                 /\ r <= pd_nextSessionID => pd_info[r].mux \in pd_Muxes
      <3>1. r # s => pd_stops'[r] <= 1
        BY <1>3 DEF PdnNumbered
      <3>2. ~(s > pd_nextSessionID)
        BY <1>2 DEF Pdn!PdnTypeOK
      <3> QED
        BY <1>1, <1>3, <3>1, <3>2 DEF PdnNumbered
    <2> QED
      BY <1>1, <2>1 DEF PdnNumbered
  <1>7. PdnClosing' /\ PdnGrows'
    BY <1>1 DEF PdnClosing, PdnGrows
  <1> QED
    BY <1>4, <1>5, <1>6, <1>7
LEMMA PdnClosesKeep ==
    ASSUME Pdn!PdnAssumption, PdnInv, NEW s \in Pdn!Ids, Pdn!Close(s) \/ Pdn!CleanupClosesSession(s)
    PROVE  PdnInv'
  <1> USE DEF PdnInv
  <1>1. CASE Pdn!Close(s)
    BY <1>1, PdnTakesDownKeeps DEF Pdn!Close
  <1>2. CASE Pdn!CleanupClosesSession(s) /\ Pdn!Current(s)
    BY <1>2, PdnTakesDownKeeps DEF Pdn!CleanupClosesSession
  <1>3. CASE Pdn!CleanupClosesSession(s) /\ ~Pdn!Current(s)
    <2>1. /\ UNCHANGED <<pd_sessions, pd_stops, pd_leased, pd_unreleased, pd_calls, pd_devices,
             pd_stuck, pd_snapshot, pd_master,
                         pd_opening, pd_nextSessionID, pd_info, pd_client, pd_lives, pd_cleanup,
                             pd_superseded, pd_late, pd_orphans>>
          /\ pd_todo' = pd_todo \ {s}
      BY <1>3 DEF Pdn!CleanupClosesSession
    <2>2. Pdn!PdnTypeOK' /\ PdnOwned'
      BY <2>1 DEF Pdn!PdnTypeOK, PdnOwned
    <2>3. PdnNumbered' /\ PdnGrows'
      BY <2>1 DEF PdnNumbered, PdnGrows
    <2>4. PdnClosing'
      <3>1. s \in pd_sessions => pd_stops[s] = 0
        BY DEF PdnNumbered
      <3>2. s \notin pd_sessions \ (pd_superseded \union pd_late)
        BY <1>3, <3>1 DEF PdnClosing, Pdn!Current
      <3> QED
        BY <2>1, <3>2 DEF PdnClosing
    <2> QED
      BY <2>2, <2>3, <2>4
  <1> QED
    BY <1>1, <1>2, <1>3
LEMMA PdnCleanupKeeps ==
    ASSUME Pdn!PdnAssumption, PdnInv,
           Pdn!CleanupLists \/ Pdn!CleanupForgetsTopology \/ Pdn!CleanupClearsClient
               \/ Pdn!OpenClient
    PROVE  PdnInv'
  <1> USE DEF PdnInv
  <1>1. /\ UNCHANGED <<pd_sessions, pd_opening, pd_nextSessionID, pd_info, pd_devices, pd_leased,
           pd_unreleased, pd_calls,
                       pd_stops, pd_stuck, pd_superseded, pd_late>>
        /\ (pd_master' = pd_master \/ pd_master' = FALSE)
           /\ (pd_snapshot' = pd_snapshot \/ pd_snapshot' = Pdn!NoTopology)
        /\ (pd_orphans' = pd_orphans \/ pd_orphans' = pd_orphans \union pd_sessions)
        /\ pd_cleanup' \in {"idle", "closing", "forgot"}
           /\ (pd_todo' = pd_todo \/ pd_todo' = pd_sessions)
        /\ pd_lives' \in 1 .. pd_MaxLives /\ pd_client' \in 0 .. pd_MaxLives
        /\ pd_snapshot' # pd_snapshot => pd_opening = Pdn!Idle
    BY DEF Pdn!CleanupLists, Pdn!CleanupForgetsTopology, Pdn!CleanupClearsClient, Pdn!OpenClient,
       Pdn!PdnTypeOK, PdnNumbered,
       Pdn!Unlocked, Pdn!NoClient, Pdn!PdnAssumption
  <1>2. Pdn!PdnTypeOK'
    <2>1. Pdn!NoTopology \in [generation : 0 .. pd_MaxGeneration, mode : {"none", "native", "qmap"},
                          mux : pd_Muxes \union {Pdn!NoMux}]
      BY DEF Pdn!NoTopology, Pdn!PdnAssumption
    <2>2. pd_lives' \in 0 .. pd_MaxLives
      BY <1>1 DEF Pdn!PdnAssumption
    <2>3. pd_snapshot' \in [generation : 0 .. pd_MaxGeneration, mode : {"none", "native", "qmap"},
                         mux : pd_Muxes \union {Pdn!NoMux}]
      BY <1>1, <2>1 DEF Pdn!PdnTypeOK
    <2>4. pd_todo' \subseteq Pdn!Ids /\ pd_orphans' \subseteq Pdn!Ids /\ pd_master' \in BOOLEAN
      BY <1>1 DEF Pdn!PdnTypeOK
    <2> QED
      BY <1>1, <2>2, <2>3, <2>4 DEF Pdn!PdnTypeOK
  <1>3. PdnOwned'
    BY <1>1 DEF PdnOwned
  <1>4. PdnNumbered'
    BY <1>1 DEF PdnNumbered, Pdn!Idle
  <1>5. PdnClosing'
    <2>1. CASE Pdn!CleanupLists
      BY <1>1, <2>1 DEF Pdn!CleanupLists, PdnClosing
    <2>2. CASE Pdn!CleanupForgetsTopology
      BY <1>1, <2>2 DEF Pdn!CleanupForgetsTopology, PdnClosing
    <2>3. CASE Pdn!CleanupClearsClient
      BY <1>1, <2>3 DEF Pdn!CleanupClearsClient, PdnClosing
    <2>4. CASE Pdn!OpenClient
      BY <1>1, <2>4 DEF Pdn!OpenClient, PdnClosing
    <2> QED
      BY <2>1, <2>2, <2>3, <2>4
  <1>6. PdnGrows'
    <2>1. CASE Pdn!CleanupForgetsTopology
      BY <1>1, <2>1 DEF Pdn!CleanupForgetsTopology, PdnGrows
    <2>2. CASE ~Pdn!CleanupForgetsTopology
      BY <1>1, <2>2 DEF Pdn!CleanupLists, Pdn!CleanupClearsClient, Pdn!OpenClient, PdnGrows
    <2> QED
      BY <2>1, <2>2
  <1> QED
    BY <1>2, <1>3, <1>4, <1>5, <1>6
LEMMA PdnInit ==
    ASSUME Pdn!PdnAssumption, Pdn!Init
    PROVE  PdnInv
  <1>1. Pdn!PdnTypeOK
    <2>1. 0 \in 0 .. pd_MaxGeneration /\ 0 \in 0 .. pd_MaxSessions /\ 0 \in 0 .. pd_MaxLives
          /\ 1 \in 0 .. pd_MaxLives
      BY DEF Pdn!PdnAssumption
    <2>2. /\ pd_snapshot \in [generation : 0 .. pd_MaxGeneration, mode : {"none", "native", "qmap"},
                          mux : pd_Muxes \union {Pdn!NoMux}]
          /\ pd_opening \in [step : Pdn!Steps, id : 0 .. pd_MaxSessions]
             /\ pd_nextSessionID \in 0 .. pd_MaxSessions
      BY <2>1 DEF Pdn!Init, Pdn!NoTopology, Pdn!Idle, Pdn!Steps
    <2>3. /\ pd_info \in [Pdn!Ids -> [mux : pd_Muxes \union {Pdn!NoMux},
             generation : 0 .. pd_MaxGeneration,
                               client : 0 .. pd_MaxLives]]
          /\ pd_client \in 0 .. pd_MaxLives /\ pd_lives \in 0 .. pd_MaxLives
          /\ pd_stops \in [Pdn!Ids -> 0 .. 2]
      BY <2>1 DEF Pdn!Init, Pdn!NoInfo, Pdn!NoClient
    <2>4. /\ pd_master \in BOOLEAN /\ pd_cleanup \in {"idle", "closing", "forgot"}
          /\ pd_sessions \subseteq Pdn!Ids /\ pd_todo \subseteq Pdn!Ids
             /\ pd_devices \subseteq pd_Muxes
          /\ pd_stuck \subseteq pd_Muxes /\ pd_leased \subseteq Pdn!Ids
             /\ pd_unreleased \subseteq Pdn!Ids
          /\ pd_calls \subseteq Pdn!Ids
          /\ pd_superseded \subseteq Pdn!Ids /\ pd_late \subseteq Pdn!Ids
             /\ pd_orphans \subseteq Pdn!Ids
      BY DEF Pdn!Init
    <2> QED
      BY <2>2, <2>3, <2>4 DEF Pdn!PdnTypeOK
  <1>2. pd_opening.step = "idle" /\ pd_opening = Pdn!Idle /\ pd_sessions = {} /\ pd_leased = {}
        /\ pd_unreleased = {} /\ pd_calls = {}
    BY DEF Pdn!Init, Pdn!Idle
  <1>3. PdnOwned /\ PdnClosing /\ PdnGrows
    BY <1>2 DEF PdnOwned, PdnClosing, PdnGrows, Holding
  <1>4. PdnNumbered
    BY <1>2 DEF Pdn!Init, PdnNumbered, Pdn!Ids
  <1> QED
    BY <1>1, <1>3, <1>4 DEF PdnInv
LEMMA PdnStepKeeps ==
    ASSUME Pdn!PdnAssumption, PdnInv, [Pdn!Next]_(Pdn!vars)
    PROVE  PdnInv'
  <1>1. CASE UNCHANGED Pdn!vars
    BY <1>1 DEF Pdn!vars, PdnInv, Pdn!PdnTypeOK, PdnOwned, PdnNumbered, PdnClosing, PdnGrows
  <1> QED
    BY <1>1, PdnConvergeKeeps, PdnBeginsKeeps, PdnOpensKeeps, PdnUpKeeps, PdnUndoKeeps,
       PdnClosesKeep,
       PdnCleanupKeeps DEF Pdn!Next

\* Sessions, ids and calls belong together, but for the ids whose release failed or whose
\* answer came late, and the generations of a client grow.
THEOREM PdnInvariant == Spec => []PdnInv
  <1>0. Pdn!PdnAssumption
    BY PartsAssumption
  <1>1. Pdn!Init => PdnInv
    BY <1>0, PdnInit
  <1>2. PdnInv /\ [Pdn!Next]_(Pdn!vars) => PdnInv'
    BY <1>0, PdnStepKeeps
  <1> QED
    BY <1>1, <1>2, PdnRuns, PTL DEF Pdn!Spec
LEMMA PdnInvOwns ==
    ASSUME PdnInv
    PROVE  Pdn!PdnTypeOK /\ Pdn!NothingWithoutSession /\ Pdn!StoppedOnce
           /\ Pdn!CleanupClosesSessions
  BY DEF PdnInv, Pdn!NothingWithoutSession, Pdn!StoppedOnce, Pdn!CleanupClosesSessions, PdnOwned,
     PdnNumbered,
     PdnClosing, Pdn!Unlocked, Pdn!Idle, Holding

\* Only a session of the topology in use is closed with its mux.
LEMMA PdnStepKeepsMux ==
    ASSUME PdnInv, [Pdn!Next]_(Pdn!vars)
    PROVE  [Pdn!StaleTakesNoMux]_(Pdn!vars)
  <1>1. SUFFICES ASSUME NEW s \in pd_superseded, s \in pd_sessions \ pd_sessions'
                 PROVE  s \in pd_orphans
    BY DEF Pdn!StaleTakesNoMux
  <1>2. PICK r \in Pdn!Ids : Pdn!Close(r) \/ Pdn!CleanupClosesSession(r)
    BY <1>1 DEF Pdn!Next, Pdn!vars, Pdn!Converge, Pdn!OpenPDN, Pdn!AddMux, Pdn!LeaseWDS,
       Pdn!Bind, Pdn!Start, Pdn!Up, Pdn!Undo, Pdn!CleanupLists,
       Pdn!CleanupForgetsTopology, Pdn!CleanupClearsClient, Pdn!OpenClient
  <1>3. r = s /\ Pdn!Current(s)
    BY <1>1, <1>2 DEF Pdn!Close, Pdn!CleanupClosesSession, Pdn!TakesDown
  <1> QED
    BY <1>1, <1>3 DEF Pdn!Current, PdnInv, PdnGrows, Pdn!PdnTypeOK

-----------------------------------------------------------------------------
\* A step is one of this part, or leaves it alone.
LEMMA MuxesRuns == Spec => Muxes!Spec
  <1>1. Init => Muxes!Init
    BY DEF Init
  <1>2. ASSUME [Next]_vars
        PROVE  [Muxes!Next]_(Muxes!vars)
    <2>1. RunMuxes \/ UNCHANGED varsMuxes
      BY <1>2 DEF Next, vars, RunEmitter, RunRebind, RunTimeouts, RunIdentities, RunPdn, RunProbe,
         RunServing, RunData, RunClientIds, RunQrtr, RunDecoders, RunModemPool, RunWaits,
         RunProxy, RunSim, RunMuxes, RunSms
    <2>2. CASE RunMuxes
      BY <2>2 DEF RunMuxes
    <2>3. CASE UNCHANGED varsMuxes
      BY <2>3 DEF varsMuxes, Muxes!vars
    <2> QED
      BY <2>1, <2>2, <2>3
  <1> QED
    BY <1>1, <1>2, PTL DEF Spec, Muxes!Spec

\* The ids a modem uses, and the places of an interface.
MuxIds(m) == {mx_DefaultMux[m]} \cup mx_SessionMux[m]
MuxKinds == {Muxes!NoLink} \cup [master : mx_Qmap, mux : 1 .. 127]
MuxPlaces ==
    [step : {"idle", "add", "find", "native"}, master : mx_Modems \cup {Muxes!None}, mux : 0 .. 127]
MuxTypes ==
    /\ Muxes!MuxesTypeOK
    /\ mx_sessions \in [mx_Modems -> SUBSET (1 .. 127)]
    /\ mx_opening \in [mx_Modems -> MuxPlaces]

\* A modem that knows QMAP is its own master.
SelfAt(m) ==
    /\ mx_opening[m].step \in {"add", "find"} =>
          mx_opening[m].master \in mx_Modems /\ mx_opening[m].mux \in MuxIds(m)
    /\ mx_snapshot[m].mode = "qmap" => mx_masterInterface[m] \in mx_Modems
       /\ mx_snapshot[m].iface \in Muxes!Slots
    /\ mx_cleanup[m] = "tasks" => mx_reconciled[m] \in mx_Modems
    /\ m \in mx_Qmap =>
          /\ mx_opening[m].step \in {"add", "find"} => mx_opening[m].master = m
          /\ {mx_masterInterface[m], mx_masterIface[m], mx_reconciled[m]} \subseteq {Muxes!None, m}
MasterIsSelf == \A m \in mx_Modems : SelfAt(m)

\* Where no id is used for two modems, an interface tells by its id whose it is.
LinksTell == Muxes!IdsApart => \A n \in Muxes!There : mx_links[n].mux \in MuxIds(mx_links[n].master)

\* What is published while cleanup runs is late.
LateAt(m) == mx_cleanup[m] \in {"forgot", "tasks"} => mx_snapshot[m].mode # "qmap" \/ m \in mx_late
LateKnown == \A m \in mx_Modems : LateAt(m)
MuxInv == MuxTypes /\ MasterIsSelf /\ LinksTell /\ LateKnown /\ Muxes!DefaultMuxIsOwn

\* What an interface is, and what the kernel and sysfs answer.
LEMMA MuxLinks ==
    ASSUME Muxes!MuxesAssumption, MuxTypes, NEW n \in Muxes!Slots
    PROVE  /\ mx_links[n] \in MuxKinds /\ Muxes!None \notin mx_Qmap
           /\ n \in Muxes!There => mx_links[n].master \in mx_Qmap /\ mx_links[n].mux \in 1 .. 127
           /\ n \notin Muxes!There => mx_links[n].master = Muxes!None
           /\ n \in Muxes!Of(Muxes!None) => FALSE
  BY DEF Muxes!MuxesAssumption, MuxTypes, Muxes!MuxesTypeOK, MuxKinds, Muxes!There, Muxes!Of,
     Muxes!NoLink, Muxes!None
LEMMA MuxLookup ==
    ASSUME Muxes!MuxesAssumption, MuxTypes, NEW id \in 1 .. 127, NEW n \in Muxes!GetQMAPMuxIface(id)
    PROVE  /\ n \in Muxes!There /\ n \in Muxes!Slots
           /\ Muxes!Lookalikes(id) # {} => mx_links[n].mux = id
  <1>1. CASE Muxes!Lookalikes(id) = {}
    BY <1>1 DEF Muxes!GetQMAPMuxIface, Muxes!There
  <1>2. CASE Muxes!Lookalikes(id) # {}
    <2>1. Muxes!Lookalikes(id) \subseteq Muxes!There /\ Muxes!There \subseteq Muxes!Slots
          /\ Muxes!Slots \subseteq Nat
      BY DEF Muxes!Lookalikes, Muxes!There, Muxes!Slots, Muxes!MuxesAssumption
    <2>2. \E k \in Muxes!Lookalikes(id) : \A j \in Muxes!Lookalikes(id) : k <= j
      BY <1>2, <2>1, SmallestExists
    <2>3. Muxes!Min(Muxes!Lookalikes(id)) \in Muxes!Lookalikes(id)
      BY <2>2 DEF Muxes!Min
    <2> QED
      BY <1>2, <2>1, <2>3 DEF Muxes!GetQMAPMuxIface, Muxes!Lookalikes
  <1> QED
    BY <1>1, <1>2
LEMMA MuxMasters ==
    ASSUME Muxes!MuxesAssumption, NEW m \in mx_Modems, NEW x \in Muxes!DiscoverQMAPTopology(m)
    PROVE  x \in mx_Modems /\ (m \in mx_Qmap => x = m)
  <1>1. CASE m \in mx_Qmap \/ mx_Qmap \ {m} = {}
    BY <1>1 DEF Muxes!DiscoverQMAPTopology
  <1>2. CASE ~(m \in mx_Qmap \/ mx_Qmap \ {m} = {})
    BY <1>2 DEF Muxes!DiscoverQMAPTopology, Muxes!MuxesAssumption
  <1> QED
    BY <1>1, <1>2

\* The step of one modem that leaves the interfaces alone.
LEMMA MuxTellsKept ==
    ASSUME Muxes!MuxesAssumption, LinksTell, mx_links' = mx_links
    PROVE  LinksTell'
  BY DEF LinksTell, Muxes!There, Muxes!Slots

\* A default interface is published.
LEMMA MuxPublishKeeps ==
    ASSUME Muxes!MuxesAssumption, MuxInv, NEW m \in mx_Modems, NEW x \in mx_Modems,
           NEW n \in Muxes!Slots,
           Muxes!Publish(m, x, n), m \in mx_Qmap => x = m,
           \/ /\ mx_guessed' = mx_guessed \ {m}
              /\ Muxes!IdsApart => mx_links[n] = [master |-> m, mux |-> mx_DefaultMux[m]]
           \/ mx_guessed' = mx_guessed \cup {m}
    PROVE  MuxInv'
  <1> USE DEF MuxInv
  <1>1. /\ UNCHANGED <<mx_links, mx_sessions, mx_client, mx_cleanup, mx_reconciled, mx_upsets>>
        /\ mx_snapshot' = [mx_snapshot EXCEPT ![m] = [mode |-> "qmap", iface |-> n]]
        /\ mx_masterInterface' = [mx_masterInterface EXCEPT ![m] = x]
        /\ mx_masterIface' = [mx_masterIface EXCEPT ![m] = x]
        /\ mx_late' = IF mx_cleanup[m] \in {"idle", "closing"} THEN mx_late \ {m} ELSE mx_late
           \cup {m}
        /\ mx_lost' = mx_lost \ {m} /\ mx_opening' = [mx_opening EXCEPT ![m] = Muxes!Idle]
    BY DEF Muxes!Publish, Muxes!Leave
  <1>2. /\ mx_snapshot \in [mx_Modems -> [mode : {Muxes!None, "native", "qmap"},
           iface : Muxes!Slots \cup {-1}]]
        /\ mx_masterInterface \in [mx_Modems -> mx_Modems \cup {Muxes!None}]
        /\ mx_masterIface \in [mx_Modems -> mx_Modems \cup {Muxes!None}]
        /\ mx_late \subseteq mx_Modems /\ mx_lost \subseteq mx_Modems
           /\ mx_guessed \subseteq mx_Modems
    BY DEF MuxTypes, Muxes!MuxesTypeOK
  <1>3. /\ mx_snapshot' \in [mx_Modems -> [mode : {Muxes!None, "native", "qmap"},
           iface : Muxes!Slots \cup {-1}]]
        /\ mx_snapshot'[m].mode = "qmap" /\ mx_snapshot'[m].iface = n
        /\ \A o \in mx_Modems \ {m} : mx_snapshot'[o] = mx_snapshot[o]
    BY <1>1, <1>2
  <1>4. /\ mx_masterInterface' \in [mx_Modems -> mx_Modems \cup {Muxes!None}]
           /\ mx_masterInterface'[m] = x
        /\ \A o \in mx_Modems \ {m} : mx_masterInterface'[o] = mx_masterInterface[o]
        /\ mx_masterIface' \in [mx_Modems -> mx_Modems \cup {Muxes!None}] /\ mx_masterIface'[m] = x
        /\ \A o \in mx_Modems \ {m} : mx_masterIface'[o] = mx_masterIface[o]
    BY <1>1, <1>2
  <1>5. Muxes!Idle \in MuxPlaces
    BY DEF Muxes!Idle, MuxPlaces
  <1>6. /\ mx_opening' \in [mx_Modems -> MuxPlaces]
        /\ mx_opening'[m].step = "idle" /\ \A o \in mx_Modems \ {m} : mx_opening'[o] = mx_opening[o]
    BY <1>1, <1>5 DEF MuxTypes, Muxes!Idle
  <1>7. /\ mx_late' \subseteq mx_Modems /\ mx_lost' \subseteq mx_Modems
           /\ mx_guessed' \subseteq mx_Modems
        /\ \A o \in mx_Modems \ {m} : /\ o \in mx_late' <=> o \in mx_late
                                      /\ o \in mx_lost' <=> o \in mx_lost
                                      /\ o \in mx_guessed' <=> o \in mx_guessed
    BY <1>1, <1>2
  <1>8. MuxTypes'
    <2>1. \A o \in mx_Modems : mx_opening'[o].step \in {"idle", "add", "find", "native"}
      BY <1>6 DEF MuxPlaces
    <2> QED
      BY <1>1, <1>3, <1>4, <1>6, <1>7, <2>1 DEF MuxTypes, Muxes!MuxesTypeOK, Muxes!Slots
  <1>9. MasterIsSelf'
    BY <1>1, <1>3, <1>4, <1>6 DEF MasterIsSelf, SelfAt, Muxes!Slots, MuxIds
  <1>10. LinksTell'
    BY <1>1, MuxTellsKept
  <1>11. LateKnown'
    BY <1>1, <1>3, <1>7 DEF LateKnown, LateAt
  <1>12. Muxes!DefaultMuxIsOwn'
    <2>1. ASSUME Muxes!IdsApart, NEW o \in mx_Modems \ (mx_guessed' \cup mx_late' \cup mx_lost'),
                 mx_snapshot'[o].mode = "qmap"
          PROVE  mx_links[mx_snapshot'[o].iface] = [master |-> o, mux |-> mx_DefaultMux[o]]
      <3>1. CASE o = m
        BY <1>3, <2>1, <3>1
      <3>2. CASE o # m
        BY <1>3, <1>7, <2>1, <3>2 DEF Muxes!DefaultMuxIsOwn
      <3> QED
        BY <3>1, <3>2
    <2> QED
      BY <1>1, <2>1 DEF Muxes!DefaultMuxIsOwn
  <1> QED
    BY <1>8, <1>9, <1>10, <1>11, <1>12

\* Whoever adds or deletes interfaces leaves the default ones alone.
LinksKeepDefaults ==
    /\ mx_links' \in [Muxes!Slots -> MuxKinds]
    /\ Muxes!IdsApart =>
          \A n \in Muxes!Slots :
             /\ mx_links'[n] # Muxes!NoLink => mx_links'[n].mux \in MuxIds(mx_links'[n].master)
             /\ \A o \in mx_Modems \ (mx_lost' \cup mx_late') :
                   mx_links[n] = [master |-> o, mux |-> mx_DefaultMux[o]]
                       /\ mx_snapshot'[o].mode = "qmap"
                      => mx_links'[n] = mx_links[n]

\* A modem goes on with its interface as it is, or without; the others stay as they are.
OthersStay(m) ==
    \A o \in mx_Modems \ {m} :
        /\ mx_opening'[o] = mx_opening[o] /\ mx_snapshot'[o] = mx_snapshot[o]
        /\ mx_masterInterface'[o] = mx_masterInterface[o] /\ mx_masterIface'[o] = mx_masterIface[o]
        /\ mx_reconciled'[o] = mx_reconciled[o] /\ mx_cleanup'[o] = mx_cleanup[o]
        /\ o \in mx_late' <=> o \in mx_late
        /\ o \in mx_lost' <=> o \in mx_lost
        /\ o \in mx_guessed' <=> o \in mx_guessed
DefaultStays(m) ==
    mx_snapshot'[m].mode = "qmap" =>
        /\ mx_snapshot'[m] = mx_snapshot[m]
        /\ m \in mx_guessed \cup mx_late \cup mx_lost
           => m \in mx_guessed' \cup mx_late' \cup mx_lost'
LEMMA MuxGoesOnKeeps ==
    ASSUME Muxes!MuxesAssumption, MuxInv, NEW m \in mx_Modems, MuxTypes', LinksKeepDefaults,
           OthersStay(m), DefaultStays(m), SelfAt(m)', LateAt(m)'
    PROVE  MuxInv'
  <1>1. MasterIsSelf'
    <2>1. ASSUME NEW o \in mx_Modems, o # m PROVE SelfAt(o)'
      BY <2>1 DEF MuxInv, MasterIsSelf, OthersStay, SelfAt, MuxIds, Muxes!Slots
    <2>2. ASSUME NEW o \in mx_Modems, o = m PROVE SelfAt(o)'
      BY <2>2
    <2> QED
      BY <2>1, <2>2 DEF MasterIsSelf
  <1>2. LateKnown'
    <2>1. ASSUME NEW o \in mx_Modems, o # m PROVE LateAt(o)'
      BY <2>1 DEF MuxInv, LateKnown, OthersStay, LateAt
    <2>2. ASSUME NEW o \in mx_Modems, o = m PROVE LateAt(o)'
      BY <2>2
    <2> QED
      BY <2>1, <2>2 DEF LateKnown
  <1>3. LinksTell'
    BY DEF LinksKeepDefaults, LinksTell, Muxes!There, Muxes!Slots, MuxIds
  <1>4. Muxes!DefaultMuxIsOwn'
    <2>1. ASSUME Muxes!IdsApart, NEW o \in mx_Modems \ (mx_guessed' \cup mx_late' \cup mx_lost'),
                 mx_snapshot'[o].mode = "qmap"
          PROVE  mx_links'[mx_snapshot'[o].iface] = [master |-> o, mux |-> mx_DefaultMux[o]]
      <3>1. mx_snapshot'[o] = mx_snapshot[o] /\ o \in mx_Modems \ (mx_guessed \cup mx_late
            \cup mx_lost)
        BY <2>1 DEF OthersStay, DefaultStays
      <3>2. /\ mx_snapshot[o].iface \in Muxes!Slots
            /\ mx_links[mx_snapshot[o].iface] = [master |-> o, mux |-> mx_DefaultMux[o]]
        BY <2>1, <3>1 DEF MuxInv, Muxes!DefaultMuxIsOwn, MasterIsSelf, SelfAt
      <3> QED
        BY <2>1, <3>1, <3>2 DEF LinksKeepDefaults
    <2> QED
      BY <2>1 DEF Muxes!DefaultMuxIsOwn
  <1> QED
    BY <1>1, <1>2, <1>3, <1>4 DEF MuxInv

\* What becomes of the interfaces.
LEMMA MuxAlone ==
    ASSUME Muxes!MuxesAssumption, MuxInv, mx_links' = mx_links
    PROVE  LinksKeepDefaults
  BY DEF LinksKeepDefaults, MuxInv, MuxTypes, Muxes!MuxesTypeOK, MuxKinds, LinksTell, Muxes!There
LEMMA MuxAdded ==
    ASSUME Muxes!MuxesAssumption, MuxInv, NEW x \in mx_Qmap, NEW id \in 1 .. 127,
           Muxes!IdsApart => id \in MuxIds(x), mx_links' \in Muxes!Added(x, id)
    PROVE  LinksKeepDefaults
  <1>1. CASE mx_links' = mx_links
    BY <1>1, MuxAlone
  <1>2. CASE mx_links' # mx_links
    <2> DEFINE n == Muxes!Min(Muxes!Slots \ Muxes!There)
    <2>1. Muxes!There # Muxes!Slots /\ mx_links' = [mx_links EXCEPT ![n] = [master |-> x,
          mux |-> id]]
      BY <1>2 DEF Muxes!Added
    <2>2. Muxes!There \subseteq Muxes!Slots /\ Muxes!Slots \subseteq Nat
      BY DEF Muxes!There, Muxes!Slots, Muxes!MuxesAssumption
    <2>3. \E k \in Muxes!Slots \ Muxes!There : \A j \in Muxes!Slots \ Muxes!There : k <= j
      BY <2>1, <2>2, SmallestExists
    <2>4. n \in Muxes!Slots \ Muxes!There
      BY <2>3 DEF Muxes!Min
    <2> HIDE DEF n
    <2>5. mx_links \in [Muxes!Slots -> MuxKinds] /\ mx_links[n] = Muxes!NoLink
      BY <2>4 DEF MuxInv, MuxTypes, Muxes!MuxesTypeOK, MuxKinds, Muxes!There
    <2>6. [master |-> x, mux |-> id] \in MuxKinds
      BY DEF MuxKinds
    <2>7. /\ mx_links' \in [Muxes!Slots -> MuxKinds] /\ mx_links'[n] = [master |-> x, mux |-> id]
          /\ \A k \in Muxes!Slots \ {n} : mx_links'[k] = mx_links[k]
      BY <2>1, <2>4, <2>5, <2>6
    <2>8. \A o \in mx_Modems : mx_links[n] # [master |-> o, mux |-> mx_DefaultMux[o]]
      BY <2>5 DEF Muxes!NoLink, Muxes!MuxesAssumption, Muxes!None
    <2> QED
      BY <2>7, <2>8 DEF LinksKeepDefaults, MuxInv, LinksTell, Muxes!There
  <1> QED
    BY <1>1, <1>2
LEMMA MuxTaken ==
    ASSUME Muxes!MuxesAssumption, MuxInv, NEW gone, mx_links' = Muxes!Without(gone),
           Muxes!IdsApart => \A n \in gone \cap Muxes!Slots : \A o \in mx_Modems \ (mx_lost'
               \cup mx_late') :
                          mx_links[n] = [master |-> o, mux |-> mx_DefaultMux[o]] =>
                             mx_snapshot'[o].mode # "qmap"
    PROVE  LinksKeepDefaults
  <1>1. /\ mx_links' \in [Muxes!Slots -> MuxKinds]
        /\ \A n \in Muxes!Slots : mx_links'[n] = IF n \in gone THEN Muxes!NoLink ELSE mx_links[n]
    BY DEF Muxes!Without, MuxInv, MuxTypes, Muxes!MuxesTypeOK, MuxKinds
  <1> QED
    BY <1>1 DEF LinksKeepDefaults, MuxInv, LinksTell, Muxes!There
LEMMA MuxDeleted ==
    ASSUME Muxes!MuxesAssumption, MuxInv, NEW m \in mx_Modems, NEW id \in mx_SessionMux[m], NEW x,
           mx_links' \in Muxes!Deleted(x, id)
    PROVE  LinksKeepDefaults
  <1>1. CASE mx_links' = mx_links
    BY <1>1, MuxAlone
  <1>2. CASE mx_links' = Muxes!Without(Muxes!WithId(x, id))
    <2>1. ASSUME Muxes!IdsApart, NEW n \in Muxes!WithId(x, id) \cap Muxes!Slots,
                 NEW o \in mx_Modems,
                 mx_links[n] = [master |-> o, mux |-> mx_DefaultMux[o]]
          PROVE  FALSE
      <3>1. mx_DefaultMux[o] = id
        BY <2>1 DEF Muxes!WithId
      <3> QED
        BY <2>1, <3>1 DEF Muxes!IdsApart, Muxes!MuxesAssumption
    <2> QED
      BY <1>2, <2>1, MuxTaken
  <1> QED
    BY <1>1, <1>2 DEF Muxes!Deleted

\* Where the holder of the lock goes.
LEMMA MuxGoto ==
    ASSUME MuxTypes, NEW m \in mx_Modems, NEW step \in {"idle", "add", "find", "native"},
           NEW x \in mx_Modems \cup {Muxes!None}, NEW id \in 0 .. 127, Muxes!Goto(m, step, x, id)
    PROVE  /\ mx_opening' \in [mx_Modems -> MuxPlaces]
           /\ \A o \in mx_Modems : mx_opening'[o].step \in {"idle", "add", "find", "native"}
           /\ mx_opening'[m] = [step |-> step, master |-> x, mux |-> id]
           /\ \A o \in mx_Modems \ {m} : mx_opening'[o] = mx_opening[o]
  <1>1. [step |-> step, master |-> x, mux |-> id] \in MuxPlaces
    BY DEF MuxPlaces
  <1>2. /\ mx_opening' \in [mx_Modems -> MuxPlaces]
        /\ mx_opening'[m] = [step |-> step, master |-> x, mux |-> id]
        /\ \A o \in mx_Modems \ {m} : mx_opening'[o] = mx_opening[o]
    BY <1>1 DEF MuxTypes, Muxes!Goto
  <1> QED
    BY <1>2 DEF MuxPlaces
LEMMA MuxLeaves ==
    ASSUME MuxTypes, NEW m \in mx_Modems, Muxes!Leave(m)
    PROVE  /\ mx_opening' \in [mx_Modems -> MuxPlaces]
           /\ \A o \in mx_Modems : mx_opening'[o].step \in {"idle", "add", "find", "native"}
           /\ mx_opening'[m] = Muxes!Idle
           /\ \A o \in mx_Modems \ {m} : mx_opening'[o] = mx_opening[o]
  <1>1. Muxes!Goto(m, "idle", Muxes!None, 0) /\ 0 \in 0 .. 127
    BY DEF Muxes!Leave, Muxes!Goto, Muxes!Idle
  <1> QED
    BY <1>1, MuxGoto DEF Muxes!Idle

\* The opener moves and nothing else but the interfaces.
LEMMA MuxMoveKeeps ==
    ASSUME Muxes!MuxesAssumption, MuxInv, NEW m \in mx_Modems, LinksKeepDefaults,
           NEW step \in {"idle", "add", "find", "native"}, NEW x \in mx_Modems \cup {Muxes!None},
           NEW id \in 0 .. 127, Muxes!Goto(m, step, x, id),
           step \in {"add", "find"} =>
               x \in mx_Modems /\ id \in MuxIds(m) /\ (m \in mx_Qmap => x = m),
           mx_sessions' \in [mx_Modems -> SUBSET (1 .. 127)],
           \A o \in mx_Modems : mx_sessions'[o] \subseteq mx_SessionMux[o],
           UNCHANGED <<mx_snapshot, mx_masterInterface, mx_masterIface, mx_client, mx_cleanup,
               mx_reconciled,
                       mx_upsets, mx_guessed, mx_late, mx_lost>>
    PROVE  MuxInv'
  <1>1. /\ mx_opening' \in [mx_Modems -> MuxPlaces]
        /\ \A o \in mx_Modems : mx_opening'[o].step \in {"idle", "add", "find", "native"}
        /\ mx_opening'[m] = [step |-> step, master |-> x, mux |-> id]
        /\ \A o \in mx_Modems \ {m} : mx_opening'[o] = mx_opening[o]
    BY MuxGoto DEF MuxInv
  <1>2. MuxTypes'
    <2>1. mx_links' \in [Muxes!Slots -> {Muxes!NoLink} \cup [master : mx_Qmap, mux : 1 .. 127]]
      BY DEF LinksKeepDefaults, MuxKinds
    <2> QED
      BY <1>1, <2>1 DEF MuxInv, MuxTypes, Muxes!MuxesTypeOK, Muxes!Slots, MuxPlaces
  <1>3. SelfAt(m)'
    BY <1>1 DEF MuxInv, MasterIsSelf, SelfAt, MuxIds, Muxes!Slots
  <1>4. LateAt(m)'
    BY DEF MuxInv, LateKnown, LateAt
  <1>5. OthersStay(m) /\ DefaultStays(m)
    BY <1>1 DEF OthersStay, DefaultStays
  <1> QED
    BY <1>2, <1>3, <1>4, <1>5, MuxGoesOnKeeps

\* The default data plane.
LEMMA MuxIdsTyped ==
    ASSUME Muxes!MuxesAssumption, NEW m \in mx_Modems
    PROVE  /\ MuxIds(m) \subseteq 1 .. 127 /\ mx_DefaultMux[m] \in MuxIds(m)
           /\ mx_SessionMux[m] \subseteq MuxIds(m)
  BY DEF Muxes!MuxesAssumption, MuxIds
LEMMA MuxSessionsTyped ==
    ASSUME MuxInv
    PROVE  /\ mx_sessions \in [mx_Modems -> SUBSET (1 .. 127)]
           /\ \A o \in mx_Modems : mx_sessions[o] \subseteq mx_SessionMux[o]
  BY DEF MuxInv, MuxTypes, Muxes!MuxesTypeOK
LEMMA MuxConvergeDataPlane ==
    ASSUME Muxes!MuxesAssumption, MuxInv, NEW m \in mx_Modems, Muxes!ConvergeDataPlane(m)
    PROVE  MuxInv'
  <1>1. CASE /\ Muxes!Goto(m, "native", m, 0)
             /\ UNCHANGED <<mx_links, mx_snapshot, mx_masterInterface, mx_masterIface,
                mx_sessions, mx_client,
                            mx_cleanup, mx_reconciled, mx_upsets, mx_guessed, mx_late, mx_lost>>
    <2>1. LinksKeepDefaults /\ 0 \in 0 .. 127
      BY <1>1, MuxAlone
    <2> QED
      BY <1>1, <2>1, MuxSessionsTyped, MuxMoveKeeps
  <1>2. ASSUME NEW x \in Muxes!DiscoverQMAPTopology(m), NEW n \in Muxes!WithId(x, mx_DefaultMux[m]),
               mx_guessed' = mx_guessed \ {m}, Muxes!Publish(m, x, n)
        PROVE  MuxInv'
    <2>1. x \in mx_Modems /\ (m \in mx_Qmap => x = m)
      BY MuxMasters
    <2>2. n \in Muxes!Slots /\ mx_links[n].master = x /\ mx_links[n].mux = mx_DefaultMux[m]
          /\ mx_links[n] # Muxes!NoLink
      BY DEF Muxes!WithId, Muxes!Of, Muxes!There
    <2>3. Muxes!IdsApart => mx_links[n] = [master |-> m, mux |-> mx_DefaultMux[m]]
      <3>1. mx_links[n] \in [master : mx_Qmap, mux : 1 .. 127]
        BY <2>2 DEF MuxInv, MuxTypes, Muxes!MuxesTypeOK
      <3> QED
        BY <2>1, <2>2, <3>1 DEF Muxes!IdsApart
    <2> QED
      BY <1>2, <2>1, <2>2, <2>3, MuxPublishKeeps
  <1>3. ASSUME NEW x \in Muxes!DiscoverQMAPTopology(m), Muxes!Goto(m, "add", x, mx_DefaultMux[m]),
               UNCHANGED <<mx_links, mx_snapshot, mx_masterInterface, mx_masterIface,
                   mx_sessions, mx_client,
                           mx_cleanup, mx_reconciled, mx_upsets, mx_guessed, mx_late, mx_lost>>
        PROVE  MuxInv'
    <2>1. LinksKeepDefaults /\ mx_DefaultMux[m] \in 0 .. 127 /\ mx_DefaultMux[m] \in MuxIds(m)
      BY <1>3, MuxAlone, MuxIdsTyped DEF Muxes!MuxesAssumption
    <2>2. x \in mx_Modems /\ (m \in mx_Qmap => x = m)
      BY MuxMasters
    <2> QED
      BY <1>3, <2>1, <2>2, MuxSessionsTyped, MuxMoveKeeps
  <1> QED
    BY <1>1, <1>2, <1>3 DEF Muxes!ConvergeDataPlane
LEMMA MuxAddQMAPMux ==
    ASSUME Muxes!MuxesAssumption, MuxInv, NEW m \in mx_Modems, Muxes!AddQMAPMux(m)
    PROVE  MuxInv'
  <1> DEFINE x == mx_opening[m].master
             id == mx_opening[m].mux
  <1>1. /\ x \in mx_Modems /\ id \in MuxIds(m) /\ (m \in mx_Qmap => x = m)
        /\ id \in 1 .. 127 /\ id \in 0 .. 127
    <2>1. x \in mx_Modems /\ id \in MuxIds(m) /\ (m \in mx_Qmap => x = m)
      BY DEF Muxes!AddQMAPMux, MuxInv, MasterIsSelf, SelfAt
    <2> QED
      BY <2>1, MuxIdsTyped
  <1>2. CASE x \in mx_Qmap /\ mx_links' \in Muxes!Added(x, id) /\ Muxes!Goto(m, "find", x, id)
    <2>1. Muxes!IdsApart => id \in MuxIds(x)
      BY <1>1 DEF Muxes!IdsApart
    <2>2. LinksKeepDefaults
      BY <1>1, <1>2, <2>1, MuxAdded
    <2> QED
      BY <1>1, <1>2, <2>2, MuxSessionsTyped, MuxMoveKeeps DEF Muxes!AddQMAPMux
  <1>3. CASE x \notin mx_Qmap /\ UNCHANGED mx_links /\ Muxes!Goto(m, "native", x, id)
    BY <1>1, <1>3, MuxAlone, MuxSessionsTyped, MuxMoveKeeps DEF Muxes!AddQMAPMux
  <1> QED
    BY <1>2, <1>3 DEF Muxes!AddQMAPMux
LEMMA MuxFindDefault ==
    ASSUME Muxes!MuxesAssumption, MuxInv, NEW m \in mx_Modems, Muxes!FindDefault(m)
    PROVE  MuxInv'
  <1> DEFINE id == mx_opening[m].mux
  <1>1. /\ mx_opening[m].step = "find" /\ id = mx_DefaultMux[m] /\ id \in 1 .. 127
        /\ mx_opening[m].master \in mx_Modems /\ (m \in mx_Qmap => mx_opening[m].master = m)
    BY DEF Muxes!FindDefault, MuxInv, MasterIsSelf, SelfAt, Muxes!MuxesAssumption
  <1>2. ASSUME NEW n \in Muxes!GetQMAPMuxIface(id), Muxes!Publish(m, mx_opening[m].master, n),
               mx_guessed' = IF Muxes!Lookalikes(id) # {} THEN mx_guessed \ {m} ELSE mx_guessed
                   \cup {m}
        PROVE  MuxInv'
    <2>1. n \in Muxes!There /\ n \in Muxes!Slots /\ (Muxes!Lookalikes(id) # {}
          => mx_links[n].mux = id)
      BY <1>1, MuxLookup DEF MuxInv
    <2>2. CASE Muxes!Lookalikes(id) = {}
      BY <1>1, <1>2, <2>1, <2>2, MuxPublishKeeps
    <2>3. CASE Muxes!Lookalikes(id) # {}
      <3>1. Muxes!IdsApart => mx_links[n] = [master |-> m, mux |-> mx_DefaultMux[m]]
        <4>1. mx_links[n] \in [master : mx_Qmap, mux : 1 .. 127]
          BY <2>1 DEF Muxes!There, MuxInv, MuxTypes, Muxes!MuxesTypeOK
        <4>2. Muxes!IdsApart => mx_DefaultMux[m] \in MuxIds(mx_links[n].master)
              /\ mx_links[n].master \in mx_Modems
          BY <1>1, <2>1, <2>3, <4>1 DEF MuxInv, LinksTell, Muxes!IdsApart
        <4>3. Muxes!IdsApart => mx_links[n].master = m
          BY <4>2 DEF Muxes!IdsApart, MuxIds
        <4> QED
          BY <1>1, <2>1, <2>3, <4>1, <4>3
      <3> QED
        BY <1>1, <1>2, <2>1, <2>3, <3>1, MuxPublishKeeps
    <2> QED
      BY <2>2, <2>3
  <1>3. CASE /\ Muxes!Goto(m, "native", m, 0)
             /\ UNCHANGED <<mx_links, mx_snapshot, mx_masterInterface, mx_masterIface,
                mx_sessions, mx_client,
                            mx_cleanup, mx_reconciled, mx_upsets, mx_guessed, mx_late, mx_lost>>
    <2>1. LinksKeepDefaults /\ 0 \in 0 .. 127
      BY <1>3, MuxAlone
    <2> QED
      BY <1>3, <2>1, MuxSessionsTyped, MuxMoveKeeps
  <1> QED
    BY <1>2, <1>3 DEF Muxes!FindDefault
LEMMA MuxConvergeNative ==
    ASSUME Muxes!MuxesAssumption, MuxInv, NEW m \in mx_Modems, Muxes!ConvergeNative(m)
    PROVE  MuxInv'
  <1> USE DEF Muxes!ConvergeNative
  <1>1. /\ mx_opening' \in [mx_Modems -> MuxPlaces]
        /\ \A o \in mx_Modems : mx_opening'[o].step \in {"idle", "add", "find", "native"}
        /\ mx_opening'[m] = Muxes!Idle
        /\ \A o \in mx_Modems \ {m} : mx_opening'[o] = mx_opening[o]
    BY MuxLeaves DEF MuxInv
  <1>2. /\ mx_snapshot' \in [mx_Modems -> [mode : {Muxes!None, "native", "qmap"},
           iface : Muxes!Slots \cup {-1}]]
        /\ \A o \in mx_Modems \ {m} : mx_snapshot'[o] = mx_snapshot[o]
        /\ mx_snapshot'[m] = mx_snapshot[m] \/ mx_snapshot'[m].mode = "native"
    <2>1. mx_snapshot \in [mx_Modems -> [mode : {Muxes!None, "native", "qmap"},
          iface : Muxes!Slots \cup {-1}]]
      BY DEF MuxInv, MuxTypes, Muxes!MuxesTypeOK
    <2>2. CASE mx_snapshot' = mx_snapshot
      BY <2>1, <2>2
    <2>3. CASE mx_snapshot' = [mx_snapshot EXCEPT ![m] = [mode |-> "native", iface |-> -1]]
      BY <2>1, <2>3
    <2> QED
      BY <2>2, <2>3
  <1>3. /\ mx_masterIface' \in [mx_Modems -> mx_Modems \cup {Muxes!None}]
        /\ \A o \in mx_Modems \ {m} : mx_masterIface'[o] = mx_masterIface[o]
        /\ mx_masterIface'[m] \in {mx_masterIface[m], m}
    BY DEF MuxInv, MuxTypes, Muxes!MuxesTypeOK
  <1>4. MuxTypes'
    BY <1>1, <1>2, <1>3 DEF MuxInv, MuxTypes, Muxes!MuxesTypeOK, Muxes!Slots
  <1>5. SelfAt(m)'
    BY <1>1, <1>2, <1>3 DEF MuxInv, MasterIsSelf, SelfAt, MuxIds, Muxes!Slots, Muxes!Idle
  <1>6. LateAt(m)' /\ OthersStay(m) /\ DefaultStays(m)
    BY <1>1, <1>2, <1>3 DEF MuxInv, LateKnown, LateAt, OthersStay, DefaultStays
  <1> QED
    BY <1>4, <1>5, <1>6, MuxAlone, MuxGoesOnKeeps

\* PDN sessions.
LEMMA MuxOpenPDN ==
    ASSUME Muxes!MuxesAssumption, MuxInv, NEW m \in mx_Modems, Muxes!OpenPDN(m)
    PROVE  MuxInv'
  <1>1. PICK id \in mx_SessionMux[m] \ mx_sessions[m] : Muxes!Goto(m, "add",
        mx_masterInterface[m], id)
    BY DEF Muxes!OpenPDN
  <1>2. mx_masterInterface[m] \in mx_Modems /\ (m \in mx_Qmap => mx_masterInterface[m] = m)
    BY DEF Muxes!OpenPDN, MuxInv, MasterIsSelf, SelfAt, Muxes!MuxesAssumption, Muxes!None
  <1>3. id \in MuxIds(m) /\ id \in 0 .. 127
    BY MuxIdsTyped
  <1> QED
    BY <1>1, <1>2, <1>3, MuxAlone, MuxSessionsTyped, MuxMoveKeeps DEF Muxes!OpenPDN
LEMMA MuxFinishPDN ==
    ASSUME Muxes!MuxesAssumption, MuxInv, NEW m \in mx_Modems, Muxes!FinishPDN(m)
    PROVE  MuxInv'
  <1> DEFINE id == mx_opening[m].mux
  <1>1. id \in mx_SessionMux[m] /\ id \in 1 .. 127
    <2>1. id \in MuxIds(m) /\ id # mx_DefaultMux[m]
      BY DEF Muxes!FinishPDN, MuxInv, MasterIsSelf, SelfAt
    <2> QED
      BY <2>1, MuxIdsTyped DEF MuxIds
  <1>2. LinksKeepDefaults
    BY <1>1, MuxAlone, MuxDeleted DEF Muxes!FinishPDN
  <1>3. /\ mx_sessions' \in [mx_Modems -> SUBSET (1 .. 127)]
        /\ \A o \in mx_Modems : mx_sessions'[o] \subseteq mx_SessionMux[o]
    <2>1. CASE mx_sessions' = mx_sessions
      BY <2>1, MuxSessionsTyped
    <2>2. CASE mx_sessions' = [mx_sessions EXCEPT ![m] = @ \cup {id}]
      BY <1>1, <2>2, MuxSessionsTyped
    <2> QED
      BY <2>1, <2>2 DEF Muxes!FinishPDN
  <1>4. Muxes!Goto(m, "idle", Muxes!None, 0) /\ 0 \in 0 .. 127
    BY DEF Muxes!FinishPDN, Muxes!Leave, Muxes!Goto, Muxes!Idle
  <1> QED
    BY <1>2, <1>3, <1>4, MuxMoveKeeps DEF Muxes!FinishPDN
LEMMA MuxClosePDN ==
    ASSUME Muxes!MuxesAssumption, MuxInv, NEW m \in mx_Modems, Muxes!ClosePDN(m)
    PROVE  MuxInv'
  <1>1. PICK id \in mx_sessions[m] : /\ mx_sessions' = [mx_sessions EXCEPT ![m] = @ \ {id}]
                                     /\ mx_links' \in Muxes!Deleted(mx_masterInterface[m], id)
    BY DEF Muxes!ClosePDN
  <1>2. id \in mx_SessionMux[m]
    BY MuxSessionsTyped
  <1>3. LinksKeepDefaults
    BY <1>1, <1>2, MuxDeleted
  <1>4. /\ mx_sessions' \in [mx_Modems -> SUBSET (1 .. 127)]
        /\ \A o \in mx_Modems : mx_sessions'[o] \subseteq mx_SessionMux[o]
    BY <1>1, MuxSessionsTyped
  <1>5. MuxTypes'
    <2>1. mx_links' \in [Muxes!Slots -> {Muxes!NoLink} \cup [master : mx_Qmap, mux : 1 .. 127]]
      BY <1>3 DEF LinksKeepDefaults, MuxKinds
    <2> QED
      BY <1>4, <2>1 DEF Muxes!ClosePDN, MuxInv, MuxTypes, Muxes!MuxesTypeOK, Muxes!Slots
  <1>6. SelfAt(m)' /\ LateAt(m)' /\ OthersStay(m) /\ DefaultStays(m)
    BY DEF Muxes!ClosePDN, MuxInv, MasterIsSelf, SelfAt, MuxIds, Muxes!Slots, LateKnown, LateAt,
       OthersStay,
           DefaultStays
  <1> QED
    BY <1>3, <1>5, <1>6, MuxGoesOnKeeps

\* cleanup.
LEMMA MuxBeginCleanup ==
    ASSUME Muxes!MuxesAssumption, MuxInv, NEW m \in mx_Modems, Muxes!BeginCleanup(m)
    PROVE  MuxInv'
  <1> USE DEF Muxes!BeginCleanup
  <1>1. /\ mx_cleanup' \in [mx_Modems -> {"idle", "closing", "forgot", "tasks", "clean", "unclean"}]
        /\ mx_cleanup'[m] = "closing" /\ \A o \in mx_Modems \ {m} : mx_cleanup'[o] = mx_cleanup[o]
        /\ mx_upsets' \in 0 .. mx_MaxUpsets
    BY DEF MuxInv, MuxTypes, Muxes!MuxesTypeOK, Muxes!MuxesAssumption
  <1>2. MuxTypes'
    BY <1>1 DEF MuxInv, MuxTypes, Muxes!MuxesTypeOK, Muxes!Slots
  <1>3. SelfAt(m)' /\ LateAt(m)' /\ OthersStay(m) /\ DefaultStays(m)
    BY <1>1 DEF MuxInv, MasterIsSelf, SelfAt, MuxIds, Muxes!Slots, LateAt, OthersStay, DefaultStays
  <1> QED
    BY <1>2, <1>3, MuxAlone, MuxGoesOnKeeps
LEMMA MuxForgetTopology ==
    ASSUME Muxes!MuxesAssumption, MuxInv, NEW m \in mx_Modems, Muxes!ForgetTopology(m)
    PROVE  MuxInv'
  <1> USE DEF Muxes!ForgetTopology
  <1>1. /\ mx_cleanup' \in [mx_Modems -> {"idle", "closing", "forgot", "tasks", "clean", "unclean"}]
        /\ mx_cleanup'[m] = "forgot" /\ \A o \in mx_Modems \ {m} : mx_cleanup'[o] = mx_cleanup[o]
    BY DEF MuxInv, MuxTypes, Muxes!MuxesTypeOK
  <1>2. /\ mx_snapshot' \in [mx_Modems -> [mode : {Muxes!None, "native", "qmap"},
           iface : Muxes!Slots \cup {-1}]]
        /\ \A o \in mx_Modems \ {m} : mx_snapshot'[o] = mx_snapshot[o]
        /\ mx_snapshot'[m].mode # "qmap"
    BY DEF MuxInv, MuxTypes, Muxes!MuxesTypeOK, Muxes!NoTopology, Muxes!None
  <1>3. /\ mx_masterInterface' \in [mx_Modems -> mx_Modems \cup {Muxes!None}]
           /\ mx_masterInterface'[m] = Muxes!None
        /\ \A o \in mx_Modems \ {m} : mx_masterInterface'[o] = mx_masterInterface[o]
    BY DEF MuxInv, MuxTypes, Muxes!MuxesTypeOK
  <1>4. /\ mx_sessions' \in [mx_Modems -> SUBSET (1 .. 127)]
        /\ \A o \in mx_Modems : mx_sessions'[o] \subseteq mx_SessionMux[o]
    BY MuxSessionsTyped
  <1>5. MuxTypes'
    BY <1>1, <1>2, <1>3, <1>4 DEF MuxInv, MuxTypes, Muxes!MuxesTypeOK, Muxes!Slots
  <1>6. SelfAt(m)'
    BY <1>1, <1>2, <1>3 DEF MuxInv, MasterIsSelf, SelfAt, MuxIds, Muxes!Slots, Muxes!Idle
  <1>7. LateAt(m)' /\ OthersStay(m) /\ DefaultStays(m)
    BY <1>1, <1>2, <1>3 DEF LateAt, OthersStay, DefaultStays
  <1> QED
    BY <1>5, <1>6, <1>7, MuxAlone, MuxGoesOnKeeps
LEMMA MuxClearClient ==
    ASSUME Muxes!MuxesAssumption, MuxInv, NEW m \in mx_Modems, Muxes!ClearClient(m)
    PROVE  MuxInv'
  <1> USE DEF Muxes!ClearClient
  <1>1. /\ mx_cleanup' \in [mx_Modems -> {"idle", "closing", "forgot", "tasks", "clean", "unclean"}]
        /\ mx_cleanup'[m] = "tasks" /\ \A o \in mx_Modems \ {m} : mx_cleanup'[o] = mx_cleanup[o]
        /\ mx_client' \in [mx_Modems -> BOOLEAN]
    BY DEF MuxInv, MuxTypes, Muxes!MuxesTypeOK
  <1>2. /\ Muxes!ToReconcile(m) \in mx_Modems /\ (m \in mx_Qmap => Muxes!ToReconcile(m) = m)
    BY DEF Muxes!ToReconcile, MuxInv, MuxTypes, Muxes!MuxesTypeOK, MasterIsSelf, SelfAt
  <1>3. /\ mx_reconciled' \in [mx_Modems -> mx_Modems \cup {Muxes!None}]
           /\ mx_reconciled'[m] = Muxes!ToReconcile(m)
        /\ \A o \in mx_Modems \ {m} : mx_reconciled'[o] = mx_reconciled[o]
        /\ mx_masterIface' \in [mx_Modems -> mx_Modems \cup {Muxes!None}]
           /\ mx_masterIface'[m] = Muxes!None
        /\ \A o \in mx_Modems \ {m} : mx_masterIface'[o] = mx_masterIface[o]
    BY <1>2 DEF MuxInv, MuxTypes, Muxes!MuxesTypeOK
  <1>4. MuxTypes'
    BY <1>1, <1>3 DEF MuxInv, MuxTypes, Muxes!MuxesTypeOK, Muxes!Slots
  <1>5. SelfAt(m)'
    BY <1>1, <1>2, <1>3 DEF MuxInv, MasterIsSelf, SelfAt, MuxIds, Muxes!Slots
  <1>6. LateAt(m)' /\ OthersStay(m) /\ DefaultStays(m)
    BY <1>1, <1>3 DEF MuxInv, LateKnown, LateAt, OthersStay, DefaultStays
  <1> QED
    BY <1>4, <1>5, <1>6, MuxAlone, MuxGoesOnKeeps
LEMMA MuxReconcile ==
    ASSUME Muxes!MuxesAssumption, MuxInv, NEW m \in mx_Modems, Muxes!ReconcileResidualMux(m)
    PROVE  MuxInv'
  <1> DEFINE x == mx_reconciled[m]
  <1>1. mx_cleanup[m] = "tasks" /\ x \in mx_Modems /\ (m \in mx_Qmap => x = m)
    BY DEF Muxes!ReconcileResidualMux, MuxInv, MasterIsSelf, SelfAt, Muxes!MuxesAssumption,
       Muxes!None
  <1>2. PICK done \in SUBSET Muxes!Slots :
             mx_links' = Muxes!Without(UNION {Muxes!WithId(x, mx_links[n].mux) : n \in done})
    <2>1. PICK refused : \E done \in SUBSET Muxes!Slots :
                 mx_links' = Muxes!Without(UNION {Muxes!WithId(x, mx_links[n].mux) : n \in done})
      <3>1. Muxes!InScope(x) \subseteq Muxes!Slots
        BY DEF Muxes!InScope, Muxes!Of, Muxes!There
      <3> QED
        BY <3>1 DEF Muxes!ReconcileResidualMux
    <2> QED
      BY <2>1
  <1>3. LinksKeepDefaults
    <2> DEFINE gone == UNION {Muxes!WithId(x, mx_links[n].mux) : n \in done}
    <2>1. \A n \in gone : mx_links[n].master = x
      BY DEF Muxes!WithId, Muxes!Of
    <2>2. ASSUME Muxes!IdsApart, NEW n \in gone \cap Muxes!Slots,
                 NEW o \in mx_Modems \ (mx_lost' \cup mx_late'),
                 mx_links[n] = [master |-> o, mux |-> mx_DefaultMux[o]]
          PROVE  mx_snapshot'[o].mode # "qmap"
      <3>1. o = m
        BY <1>1, <2>1, <2>2 DEF Muxes!IdsApart
      <3> QED
        BY <1>1, <2>2, <3>1 DEF Muxes!ReconcileResidualMux, MuxInv, LateKnown, LateAt
    <2> HIDE DEF gone
    <2>3. mx_links' = Muxes!Without(gone)
      BY <1>2 DEF gone
    <2> QED
      BY <2>2, <2>3, MuxTaken
  <1>4. /\ mx_cleanup' \in [mx_Modems -> {"idle", "closing", "forgot", "tasks", "clean", "unclean"}]
        /\ mx_cleanup'[m] \in {"clean", "unclean"}
           /\ \A o \in mx_Modems \ {m} : mx_cleanup'[o] = mx_cleanup[o]
    BY DEF Muxes!ReconcileResidualMux, MuxInv, MuxTypes, Muxes!MuxesTypeOK
  <1>5. UNCHANGED <<mx_snapshot, mx_masterInterface, mx_masterIface, mx_sessions, mx_opening,
        mx_client, mx_reconciled,
                    mx_upsets, mx_guessed, mx_late, mx_lost>>
    BY DEF Muxes!ReconcileResidualMux
  <1>6. MuxTypes'
    <2>1. mx_links' \in [Muxes!Slots -> {Muxes!NoLink} \cup [master : mx_Qmap, mux : 1 .. 127]]
      BY <1>3 DEF LinksKeepDefaults, MuxKinds
    <2> QED
      BY <1>4, <1>5, <2>1 DEF MuxInv, MuxTypes, Muxes!MuxesTypeOK, Muxes!Slots
  <1>7. SelfAt(m)' /\ LateAt(m)' /\ OthersStay(m) /\ DefaultStays(m)
    BY <1>4, <1>5 DEF MuxInv, MasterIsSelf, SelfAt, MuxIds, Muxes!Slots, LateAt, OthersStay,
                      DefaultStays
  <1> QED
    BY <1>3, <1>6, <1>7, MuxGoesOnKeeps
LEMMA MuxReopen ==
    ASSUME Muxes!MuxesAssumption, MuxInv, NEW m \in mx_Modems, Muxes!Reopen(m)
    PROVE  MuxInv'
  <1> USE DEF Muxes!Reopen
  <1>1. /\ mx_cleanup' \in [mx_Modems -> {"idle", "closing", "forgot", "tasks", "clean", "unclean"}]
        /\ mx_cleanup'[m] = "idle" /\ \A o \in mx_Modems \ {m} : mx_cleanup'[o] = mx_cleanup[o]
        /\ mx_client' \in [mx_Modems -> BOOLEAN]
        /\ mx_reconciled' \in [mx_Modems -> mx_Modems \cup {Muxes!None}]
           /\ mx_reconciled'[m] = Muxes!None
        /\ \A o \in mx_Modems \ {m} : mx_reconciled'[o] = mx_reconciled[o]
    BY DEF MuxInv, MuxTypes, Muxes!MuxesTypeOK
  <1>2. MuxTypes'
    BY <1>1 DEF MuxInv, MuxTypes, Muxes!MuxesTypeOK, Muxes!Slots
  <1>3. SelfAt(m)' /\ LateAt(m)' /\ OthersStay(m) /\ DefaultStays(m)
    BY <1>1 DEF MuxInv, MasterIsSelf, SelfAt, MuxIds, Muxes!Slots, LateAt, OthersStay, DefaultStays
  <1> QED
    BY <1>2, <1>3, MuxAlone, MuxGoesOnKeeps

\* Accidents.
LEMMA MuxCrash ==
    ASSUME Muxes!MuxesAssumption, MuxInv, NEW m \in mx_Modems, Muxes!Crash(m)
    PROVE  MuxInv'
  <1> USE DEF Muxes!Crash
  <1>1. /\ mx_opening' \in [mx_Modems -> MuxPlaces]
        /\ \A o \in mx_Modems : mx_opening'[o].step \in {"idle", "add", "find", "native"}
        /\ mx_opening'[m] = Muxes!Idle /\ \A o \in mx_Modems \ {m} : mx_opening'[o] = mx_opening[o]
    BY MuxLeaves DEF MuxInv, Muxes!Leave
  <1>2. /\ mx_cleanup' \in [mx_Modems -> {"idle", "closing", "forgot", "tasks", "clean", "unclean"}]
        /\ mx_cleanup'[m] = "idle" /\ \A o \in mx_Modems \ {m} : mx_cleanup'[o] = mx_cleanup[o]
        /\ mx_client' \in [mx_Modems -> BOOLEAN]
        /\ mx_reconciled' \in [mx_Modems -> mx_Modems \cup {Muxes!None}]
           /\ mx_reconciled'[m] = Muxes!None
        /\ \A o \in mx_Modems \ {m} : mx_reconciled'[o] = mx_reconciled[o]
    BY DEF MuxInv, MuxTypes, Muxes!MuxesTypeOK
  <1>3. /\ mx_snapshot' \in [mx_Modems -> [mode : {Muxes!None, "native", "qmap"},
           iface : Muxes!Slots \cup {-1}]]
        /\ \A o \in mx_Modems \ {m} : mx_snapshot'[o] = mx_snapshot[o]
        /\ mx_snapshot'[m].mode # "qmap"
    BY DEF MuxInv, MuxTypes, Muxes!MuxesTypeOK, Muxes!NoTopology, Muxes!None
  <1>4. /\ mx_masterInterface' \in [mx_Modems -> mx_Modems \cup {Muxes!None}]
           /\ mx_masterInterface'[m] = Muxes!None
        /\ \A o \in mx_Modems \ {m} : mx_masterInterface'[o] = mx_masterInterface[o]
        /\ mx_masterIface' \in [mx_Modems -> mx_Modems \cup {Muxes!None}]
           /\ mx_masterIface'[m] = Muxes!None
        /\ \A o \in mx_Modems \ {m} : mx_masterIface'[o] = mx_masterIface[o]
    BY DEF MuxInv, MuxTypes, Muxes!MuxesTypeOK
  <1>5. /\ mx_sessions' \in [mx_Modems -> SUBSET (1 .. 127)]
        /\ \A o \in mx_Modems : mx_sessions'[o] \subseteq mx_SessionMux[o]
    BY MuxSessionsTyped
  <1>6. mx_upsets' \in 0 .. mx_MaxUpsets /\ mx_guessed' \subseteq mx_Modems
        /\ mx_late' \subseteq mx_Modems
        /\ mx_lost' \subseteq mx_Modems
    BY DEF MuxInv, MuxTypes, Muxes!MuxesTypeOK, Muxes!MuxesAssumption
  <1>7. MuxTypes'
    BY <1>1, <1>2, <1>3, <1>4, <1>5, <1>6 DEF MuxInv, MuxTypes, Muxes!MuxesTypeOK, Muxes!Slots
  <1>8. SelfAt(m)'
    BY <1>1, <1>2, <1>3, <1>4 DEF SelfAt, MuxIds, Muxes!Slots, Muxes!Idle
  <1>9. LateAt(m)' /\ OthersStay(m) /\ DefaultStays(m)
    BY <1>1, <1>2, <1>3, <1>4 DEF LateAt, OthersStay, DefaultStays
  <1> QED
    BY <1>7, <1>8, <1>9, MuxAlone, MuxGoesOnKeeps
LEMMA MuxReplug ==
    ASSUME Muxes!MuxesAssumption, MuxInv, NEW m \in mx_Modems, Muxes!Replug(m)
    PROVE  MuxInv'
  <1> USE DEF Muxes!Replug
  <1>1. LinksKeepDefaults
    <2>1. ASSUME NEW n \in Muxes!Of(m) \cap Muxes!Slots,
                 NEW o \in mx_Modems \ (mx_lost' \cup mx_late'),
                 mx_links[n] = [master |-> o, mux |-> mx_DefaultMux[o]]
          PROVE  FALSE
      BY <2>1 DEF Muxes!Of
    <2> QED
      BY <2>1, MuxTaken
  <1>2. mx_upsets' \in 0 .. mx_MaxUpsets /\ mx_lost' \subseteq mx_Modems
    BY DEF MuxInv, MuxTypes, Muxes!MuxesTypeOK, Muxes!MuxesAssumption
  <1>3. MuxTypes'
    <2>1. mx_links' \in [Muxes!Slots -> {Muxes!NoLink} \cup [master : mx_Qmap, mux : 1 .. 127]]
      BY <1>1 DEF LinksKeepDefaults, MuxKinds
    <2> QED
      BY <1>2, <2>1 DEF MuxInv, MuxTypes, Muxes!MuxesTypeOK, Muxes!Slots
  <1>4. SelfAt(m)' /\ LateAt(m)' /\ OthersStay(m) /\ DefaultStays(m)
    BY DEF MuxInv, MasterIsSelf, SelfAt, MuxIds, Muxes!Slots, LateKnown, LateAt, OthersStay,
           DefaultStays
  <1> QED
    BY <1>1, <1>3, <1>4, MuxGoesOnKeeps

\* Every step keeps the invariant.
LEMMA MuxInit ==
    ASSUME Muxes!MuxesAssumption, Muxes!Init
    PROVE  MuxInv
  <1> USE DEF Muxes!Init
  <1>1. Muxes!Idle \in MuxPlaces /\ Muxes!NoTopology \in [mode : {Muxes!None, "native", "qmap"},
        iface : Muxes!Slots \cup {-1}]
    BY DEF Muxes!Idle, MuxPlaces, Muxes!NoTopology
  <1>2. MuxTypes
    BY <1>1 DEF MuxTypes, Muxes!MuxesTypeOK, Muxes!MuxesAssumption, Muxes!Idle
  <1> QED
    BY <1>2 DEF MuxInv, MasterIsSelf, SelfAt, LinksTell, Muxes!There, LateKnown, LateAt,
       Muxes!DefaultMuxIsOwn,
                Muxes!Idle, Muxes!NoTopology, Muxes!None
LEMMA MuxStepKeeps ==
    ASSUME Muxes!MuxesAssumption, MuxInv, [Muxes!Next]_(Muxes!vars)
    PROVE  MuxInv'
  <1>1. CASE UNCHANGED Muxes!vars
    BY <1>1 DEF Muxes!vars, MuxInv, MuxTypes, Muxes!MuxesTypeOK, MasterIsSelf, SelfAt, MuxIds,
       Muxes!Slots, LinksTell,
                Muxes!There, LateKnown, LateAt, Muxes!DefaultMuxIsOwn
  <1>2. CASE Muxes!Next
    BY <1>2, MuxConvergeDataPlane, MuxAddQMAPMux, MuxFindDefault, MuxConvergeNative, MuxOpenPDN,
       MuxFinishPDN, MuxClosePDN, MuxBeginCleanup, MuxForgetTopology, MuxClearClient, MuxReconcile,
       MuxReopen, MuxCrash, MuxReplug DEF Muxes!Next
  <1> QED
    BY <1>1, <1>2

\* A cleanup that ends clean has taken all there is of its master.
LEMMA MuxStepTakes ==
    ASSUME Muxes!MuxesAssumption, MuxInv, [Muxes!Next]_(Muxes!vars)
    PROVE  [Muxes!CleanupTakesMuxes]_(Muxes!vars)
  <1>1. ASSUME NEW m \in mx_Modems, mx_cleanup[m] = "tasks", mx_cleanup'[m] = "clean",
               NEW n \in Muxes!Slots, mx_links'[n].master = m
        PROVE  FALSE
    <2>1. Muxes!ReconcileResidualMux(m)
      <3>1. PICK o \in mx_Modems :
               \/ Muxes!ConvergeDataPlane(o) \/ Muxes!AddQMAPMux(o) \/ Muxes!FindDefault(o)
                  \/ Muxes!ConvergeNative(o)
               \/ Muxes!OpenPDN(o) \/ Muxes!FinishPDN(o) \/ Muxes!ClosePDN(o)
               \/ Muxes!BeginCleanup(o) \/ Muxes!ForgetTopology(o) \/ Muxes!ClearClient(o)
                  \/ Muxes!ReconcileResidualMux(o)
               \/ Muxes!Reopen(o) \/ Muxes!Crash(o) \/ Muxes!Replug(o)
        BY <1>1 DEF Muxes!Next, Muxes!vars
      <3>2. mx_cleanup \in [mx_Modems -> {"idle", "closing", "forgot", "tasks", "clean", "unclean"}]
        BY DEF MuxInv, MuxTypes, Muxes!MuxesTypeOK
      <3>3. mx_cleanup' # mx_cleanup
        BY <1>1
      <3>4. \/ Muxes!BeginCleanup(o) \/ Muxes!ForgetTopology(o) \/ Muxes!ClearClient(o)
               \/ Muxes!ReconcileResidualMux(o)
            \/ Muxes!Reopen(o) \/ Muxes!Crash(o)
        BY <3>1, <3>3 DEF Muxes!ConvergeDataPlane, Muxes!AddQMAPMux, Muxes!FindDefault,
           Muxes!ConvergeNative, Muxes!OpenPDN,
                                Muxes!FinishPDN, Muxes!ClosePDN, Muxes!Replug, Muxes!Publish
      <3>5. \E k : mx_cleanup' = [mx_cleanup EXCEPT ![o] = k]
        BY <3>4 DEF Muxes!BeginCleanup, Muxes!ForgetTopology, Muxes!ClearClient,
           Muxes!ReconcileResidualMux, Muxes!Reopen, Muxes!Crash
      <3>6. o = m
        BY <1>1, <3>2, <3>5
      <3>7. ~(Muxes!BeginCleanup(m) \/ Muxes!ForgetTopology(m) \/ Muxes!ClearClient(m)
            \/ Muxes!Reopen(m) \/ Muxes!Crash(m))
        BY <1>1, <3>2 DEF Muxes!BeginCleanup, Muxes!ForgetTopology, Muxes!ClearClient,
           Muxes!Reopen, Muxes!Crash
      <3> QED
        BY <3>4, <3>6, <3>7
    <2> DEFINE x == mx_reconciled[m]
               failing == {k \in Muxes!InScope(x) : k \in {}
                   \/ Muxes!WithId(x, mx_links[k].mux) = {}}
               done == {k \in Muxes!InScope(x) : \A f \in failing : k < f}
    <2>2. mx_links' = Muxes!Without(UNION {Muxes!WithId(x, mx_links[k].mux) : k \in done})
      <3>1. mx_cleanup \in [mx_Modems -> {"idle", "closing", "forgot", "tasks", "clean", "unclean"}]
        BY DEF MuxInv, MuxTypes, Muxes!MuxesTypeOK
      <3>2. PICK refused :
               /\ mx_links' = Muxes!Without(UNION {Muxes!WithId(x, mx_links[k].mux) :
                    k \in {j \in Muxes!InScope(x) :
                            \A f \in {i \in Muxes!InScope(x) : i \in refused
                                \/ Muxes!WithId(x, mx_links[i].mux) = {}} :
                               j < f}})
               /\ mx_cleanup' = [mx_cleanup EXCEPT
                                 ![m] = IF refused = {} THEN "clean" ELSE "unclean"]
        BY <2>1 DEF Muxes!ReconcileResidualMux
      <3>3. refused = {}
        BY <1>1, <3>1, <3>2
      <3> QED
        BY <3>2, <3>3
    <2>3. done = Muxes!Of(x)
      <3>1. \A k \in Muxes!InScope(x) : k \in Muxes!WithId(x, mx_links[k].mux)
        BY DEF Muxes!InScope, Muxes!WithId
      <3>2. failing = {}
        BY <3>1
      <3> QED
        BY <3>2 DEF Muxes!InScope
    <2> HIDE DEF done
    <2>4. mx_links'[n] # Muxes!NoLink /\ mx_links'[n] = mx_links[n]
      <3>1. m # Muxes!None
        BY DEF Muxes!MuxesAssumption, Muxes!None
      <3>2. mx_links'[n] # Muxes!NoLink
        BY <1>1, <3>1 DEF Muxes!NoLink
      <3> QED
        BY <2>2, <3>2 DEF Muxes!Without
    <2>5. n \in Muxes!There /\ mx_links[n].master = m /\ m \in mx_Qmap
      <3>1. n \in Muxes!There /\ mx_links[n].master = m
        BY <1>1, <2>4 DEF Muxes!There
      <3> QED
        BY <3>1, MuxLinks DEF MuxInv
    <2>6. x = m
      BY <1>1, <2>5 DEF MuxInv, MasterIsSelf, SelfAt, Muxes!MuxesAssumption, Muxes!None
    <2>7. n \in Muxes!WithId(x, mx_links[n].mux) /\ n \in done
      BY <2>3, <2>5, <2>6 DEF Muxes!Of, Muxes!WithId
    <2>8. n \in UNION {Muxes!WithId(x, mx_links[k].mux) : k \in done}
      BY <2>7
    <2>9. mx_links'[n] = Muxes!NoLink
      BY <2>2, <2>8 DEF Muxes!Without
    <2> QED
      BY <2>4, <2>9
  <1> QED
    BY <1>1 DEF Muxes!CleanupTakesMuxes

\* The invariant of the mux interfaces: a modem that knows QMAP is its own master wherever one
\* is remembered, and the interface its default connection was published on is its own.
THEOREM MuxInvariant == Spec => []MuxInv
  <1>0. Muxes!MuxesAssumption
    BY PartsAssumption
  <1>1. Muxes!Init => MuxInv
    BY <1>0, MuxInit
  <1>2. MuxInv /\ [Muxes!Next]_(Muxes!vars) => MuxInv'
    BY <1>0, MuxStepKeeps
  <1> QED
    BY <1>1, <1>2, MuxesRuns, PTL DEF Muxes!Spec

\* Sessions own their calls, ids and muxes but for ids whose release fails, and a modem
\* owns the interface its default
\* connection is configured on, whatever the managers of other modems do.
THEOREM SessionsOwnTheirs == Spec => SessionsOwnCalls
  <1>1. PdnInv => /\ Pdn!PdnTypeOK /\ Pdn!NothingWithoutSession /\ Pdn!StoppedOnce
                  /\ Pdn!CleanupClosesSessions
    BY PdnInvOwns
  <1>2. ASSUME PdnInv, [Pdn!Next]_(Pdn!vars)
        PROVE  [Pdn!StaleTakesNoMux]_(Pdn!vars)
    BY <1>2, PdnStepKeepsMux
  <1>3. MuxInv => Muxes!MuxesTypeOK /\ Muxes!DefaultMuxIsOwn
    BY DEF MuxInv, MuxTypes
  <1>4. ASSUME MuxInv, [Muxes!Next]_(Muxes!vars)
        PROVE  [Muxes!CleanupTakesMuxes]_(Muxes!vars)
    <2>1. Muxes!MuxesAssumption
      BY PartsAssumption
    <2> QED
      BY <1>4, <2>1, MuxStepTakes
  <1>5. Spec => Pdn!SessionsOwnCalls
    BY <1>1, <1>2, PdnInvariant, PdnRuns, PTL
       DEF Pdn!SessionsOwnCalls, Pdn!StaleKeepsMuxInLife, Pdn!Spec
  <1>6. Spec => Muxes!MuxesOwned
    BY <1>3, <1>4, MuxInvariant, MuxesRuns, PTL
       DEF Muxes!MuxesOwned, Muxes!CleanupLeavesNoMux, Muxes!Spec
  <1> QED
    BY <1>5, <1>6, PTL DEF SessionsOwnCalls
=============================================================================
