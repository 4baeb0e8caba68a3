------------------------- MODULE CardAccessGateProofs -------------------------
(***************************************************************************)
(* The safety of the card-access gate for any number of callers.  GateInv  *)
(* is proved inductive in four layers, each using the ones before it:      *)
(* types; the counter and the flag against the callers' places; the ticket *)
(* ledger; and the absence of lost wake-ups.                               *)
(***************************************************************************)
EXTENDS CardAccessGate, FiniteSetTheorems, TLAPS

USE GateAssumption

Exclusion == ActiveCounts /\ BarrierOwned /\ MutualExclusion
Wakeups == ParkedBlocked /\ NoLostWakeup

-----------------------------------------------------------------------------
\* Where an attempt moves its caller.
LEMMA InsideFacts ==
    /\ IsFiniteSet(Inside)
    /\ Cardinality(Inside) \in Nat
    /\ Cardinality(Inside) = 0 <=> Inside = {}
  <1>1. IsFiniteSet(Inside)
    BY FS_Subset DEF Inside
  <1> QED
    BY <1>1, FS_CardinalityType, FS_EmptySet

\* The first live ticket is at or before every ticket that is not cancelled.
LEMMA FirstLiveBound ==
    ASSUME servingTicket \in Nat, NEW c, NEW next \in Nat, NEW t \in FirstLive(c, next)
    PROVE  /\ t \in Nat /\ servingTicket <= t /\ t <= next
           /\ t \notin c
           /\ \A u \in Nat : servingTicket <= u /\ u \notin c => t <= u
  BY DEF FirstLive

-----------------------------------------------------------------------------
\* A caller that moves to a place of its own function keeps Places.
LEMMA PlaceStep ==
    ASSUME Places, NEW q, NEW label, Goto(q, label),
           \/ q \in Ops /\ label \in {"idle", "acquiring", "inside"}
           \/ q \in Openers /\ label \in {"idle", "beginning", "holding", "released"}
           \/ q \in Watchers /\ label \in {"idle", "watching"}
    PROVE  Places'
  <1>1. pc' = [pc EXCEPT ![q] = label]
    BY DEF Goto
  <1>2. pc' \in [Procs -> {"idle", "acquiring", "inside", "beginning", "holding",
                         "released", "watching"}]
    BY <1>1 DEF Places, Procs
  <1>3. \A p \in Ops : pc'[p] \in {"idle", "acquiring", "inside"}
    BY <1>1 DEF Places, Procs
  <1>4. \A b \in Openers : pc'[b] \in {"idle", "beginning", "holding", "released"}
    BY <1>1 DEF Places, Procs
  <1>5. \A w \in Watchers : pc'[w] \in {"idle", "watching"}
    BY <1>1 DEF Places, Procs
  <1> QED
    BY <1>2, <1>3, <1>4, <1>5 DEF Places

\* What one turn of a loop does, with the choice of the live ticket resolved.
AcquireEffect(p, t) ==
    /\ servingTicket' = t
    /\ canceled' = canceled \ Passed(t)
    /\ UNCHANGED <<barrier, nextTicket, ticket>>
    /\ \/ /\ barrier = FALSE /\ nextTicket = t /\ active' = active + 1
          /\ Goto(p, "inside") /\ UNCHANGED parked
       \/ /\ barrier = TRUE \/ nextTicket # t
          /\ Goto(p, "acquiring") /\ Park(p) /\ UNCHANGED active

BeginEffect(b, mine, next, t) ==
    /\ canceled' = canceled \ Passed(t)
    /\ active' = active
    /\ nextTicket' = next
    /\ ticket' = [ticket EXCEPT ![b] = mine]
    /\ \/ /\ barrier = FALSE /\ active = 0 /\ mine = t
          /\ servingTicket' = t + 1 /\ barrier' = TRUE
          /\ Goto(b, "holding") /\ UNCHANGED parked
       \/ /\ barrier = TRUE \/ active # 0 \/ mine # t
          /\ servingTicket' = t /\ UNCHANGED barrier
          /\ Goto(b, "beginning") /\ Park(b)

\* The ticket of a request, and nextTicket when its turn is over.
BeginTicket(b, mine, next) ==
    \/ pc[b] = "idle" /\ mine = nextTicket /\ next = nextTicket + 1
    \/ /\ pc[b] = "beginning" /\ b \notin parked
       /\ mine = ticket[b] /\ next = nextTicket

\* A turn of acquire's loop is AcquireEffect for the first live ticket.
LEMMA AcquireCases ==
    ASSUME TypeOK, NEW p \in Ops, AcquireAttempt(p)
    PROVE  \E t \in FirstLive(canceled, nextTicket) : AcquireEffect(p, t)
  BY DEF AcquireAttempt, AcquireEffect, TypeOK

\* A turn of begin's loop is BeginEffect for the first live ticket.
LEMMA BeginCases ==
    ASSUME TypeOK, NEW b \in Openers, BeginStart(b) \/ BeginRetry(b)
    PROVE  \E mine, next \in Nat : \E t \in FirstLive(canceled, next) :
              BeginTicket(b, mine, next) /\ BeginEffect(b, mine, next, t)
  <1>1. CASE BeginStart(b)
    <2>1. PICK t \in FirstLive(canceled, nextTicket + 1) :
             BeginEffect(b, nextTicket, nextTicket + 1, t)
      BY <1>1 DEF BeginStart, BeginAttempt, BeginEffect, TypeOK
    <2>2. BeginTicket(b, nextTicket, nextTicket + 1)
      BY <1>1 DEF BeginStart, BeginTicket
    <2>3. nextTicket \in Nat /\ nextTicket + 1 \in Nat
      BY DEF TypeOK
    <2> QED
      BY <2>1, <2>2, <2>3
  <1>2. CASE BeginRetry(b)
    <2>1. ticket = [ticket EXCEPT ![b] = ticket[b]]
      BY DEF TypeOK
    <2>2. PICK t \in FirstLive(canceled, nextTicket) :
             BeginEffect(b, ticket[b], nextTicket, t)
      BY <1>2, <2>1 DEF BeginRetry, BeginAttempt, BeginEffect, TypeOK
    <2>3. BeginTicket(b, ticket[b], nextTicket)
      BY <1>2 DEF BeginRetry, Woken, BeginTicket
    <2>4. ticket[b] \in Nat /\ nextTicket \in Nat
      BY DEF TypeOK
    <2> QED
      BY <2>2, <2>3, <2>4
  <1> QED
    BY <1>1, <1>2

-----------------------------------------------------------------------------
\* No step of the gate takes a field out of its type.
LEMMA TypeStep ==
    ASSUME TypeOK, Next
    PROVE  TypeOK'
  <1> USE DEF TypeOK
  <1>1. ASSUME NEW p \in Ops, AcquireStart(p) \/ AcquireRetry(p)
        PROVE  TypeOK'
    <2>1. PICK t \in FirstLive(canceled, nextTicket) : AcquireEffect(p, t)
      BY <1>1, AcquireCases DEF AcquireStart, AcquireRetry
    <2>2. t \in Nat
      BY DEF FirstLive
    <2>3. Places'
      BY <2>1, PlaceStep DEF AcquireEffect
    <2>4. active' \in Nat /\ parked' \subseteq Procs
      BY <2>1 DEF AcquireEffect, Park, Procs
    <2> QED
      BY <2>1, <2>2, <2>3, <2>4 DEF AcquireEffect
  <1>2. ASSUME NEW p \in Ops, AcquireTimeout(p)
        PROVE  TypeOK'
    <2>1. Places'
      BY <1>2, PlaceStep DEF AcquireTimeout
    <2> QED
      BY <1>2, <2>1 DEF AcquireTimeout, gateVars
  <1>3. ASSUME NEW p \in Ops, Release(p)
        PROVE  TypeOK'
    <2>1. Places'
      BY <1>3, PlaceStep DEF Release
    <2> QED
      BY <1>3, <2>1 DEF Release, Signal
  <1>4. ASSUME NEW b \in Openers, BeginStart(b) \/ BeginRetry(b)
        PROVE  TypeOK'
    <2>1. PICK mine \in Nat, next \in Nat : \E t \in FirstLive(canceled, next) :
             BeginTicket(b, mine, next) /\ BeginEffect(b, mine, next, t)
      BY <1>4, BeginCases
    <2>2. PICK t \in FirstLive(canceled, next) : BeginEffect(b, mine, next, t)
      BY <2>1
    <2>3. t \in Nat
      BY DEF FirstLive
    <2>4. Places'
      BY <2>2, PlaceStep DEF BeginEffect
    <2>5. barrier' \in BOOLEAN
      BY <2>2 DEF BeginEffect
    <2>6. servingTicket' \in Nat
      BY <2>2, <2>3 DEF BeginEffect
    <2>7. parked' \subseteq Procs
      BY <2>2 DEF BeginEffect, Park, Procs
    <2> QED
      BY <2>2, <2>4, <2>5, <2>6, <2>7 DEF BeginEffect
  <1>5. ASSUME NEW b \in Openers, BeginTimeout(b)
        PROVE  TypeOK'
    <2>1. Places'
      BY <1>5, PlaceStep DEF BeginTimeout
    <2>2. servingTicket' \in Nat
      BY <1>5 DEF BeginTimeout, FirstLive
    <2>3. canceled' \subseteq Nat
      BY <1>5 DEF BeginTimeout
    <2> QED
      BY <1>5, <2>1, <2>2, <2>3 DEF BeginTimeout, Signal
  <1>6. ASSUME NEW b \in Openers, EndWindow(b) \/ EndWindowAgain(b)
        PROVE  TypeOK'
    <2>1. Places'
      BY <1>6, PlaceStep DEF EndWindow, EndWindowAgain
    <2> QED
      BY <1>6, <2>1 DEF EndWindow, EndWindowAgain, Signal, gateVars
  <1>7. ASSUME NEW w \in Watchers, WatchStart(w) \/ WatchRetry(w) \/ WatchTimeout(w)
        PROVE  TypeOK'
    <2>1. Places'
      BY <1>7, PlaceStep DEF WatchStart, WatchRetry, WatchAttempt, WatchTimeout
    <2> QED
      BY <1>7, <2>1 DEF WatchStart, WatchRetry, WatchAttempt, WatchTimeout, Park, Procs,
                        gateVars
  <1> QED
    BY <1>1, <1>2, <1>3, <1>4, <1>5, <1>6, <1>7 DEF Next

-----------------------------------------------------------------------------
\* How the sets the invariants speak of follow a caller that moves.
LEMMA MoveSets ==
    ASSUME TypeOK, NEW q \in Procs, NEW label, Goto(q, label)
    PROVE  /\ Inside' = IF q \in Ops /\ label = "inside"
                        THEN Inside \cup {q} ELSE Inside \ {q}
           /\ Holders' = IF q \in Openers /\ label = "holding"
                         THEN Holders \cup {q} ELSE Holders \ {q}
           /\ Requesting' = IF q \in Openers /\ label = "beginning"
                            THEN Requesting \cup {q} ELSE Requesting \ {q}
  <1>1. \A p \in Procs : pc'[p] = IF p = q THEN label ELSE pc[p]
    BY DEF Goto, TypeOK, Places
  <1>2. Inside' = IF q \in Ops /\ label = "inside"
                  THEN Inside \cup {q} ELSE Inside \ {q}
    BY <1>1 DEF Inside, Procs
  <1>3. Holders' = IF q \in Openers /\ label = "holding"
                   THEN Holders \cup {q} ELSE Holders \ {q}
    BY <1>1 DEF Holders, Procs
  <1>4. Requesting' = IF q \in Openers /\ label = "beginning"
                      THEN Requesting \cup {q} ELSE Requesting \ {q}
    BY <1>1 DEF Requesting, Procs
  <1> QED
    BY <1>2, <1>3, <1>4

\* A step that changes none of what Exclusion speaks of keeps it.
LEMMA ExclusionFrame ==
    ASSUME Exclusion, UNCHANGED <<active, barrier>>, Inside' = Inside, Holders' = Holders
    PROVE  Exclusion'
  BY DEF Exclusion, ActiveCounts, BarrierOwned, MutualExclusion

\* The layer of exclusion survives every step: active counts, barrier is owned.
LEMMA ExclusionStep ==
    ASSUME TypeOK, Exclusion, Next
    PROVE  Exclusion'
  <1> USE DEF Exclusion
  <1>1. ASSUME NEW p \in Ops, AcquireStart(p) \/ AcquireRetry(p)
        PROVE  Exclusion'
    <2>1. PICK t \in FirstLive(canceled, nextTicket) : AcquireEffect(p, t)
      BY <1>1, AcquireCases DEF AcquireStart, AcquireRetry
    <2>2. p \notin Inside /\ p \notin Holders /\ p \in Procs
      BY <1>1 DEF AcquireStart, AcquireRetry, Woken, Inside, Holders, Procs
    <2>3. CASE barrier = FALSE /\ active' = active + 1 /\ Goto(p, "inside")
      <3>1. Inside' = Inside \cup {p} /\ Holders' = Holders
        BY <2>2, <2>3, MoveSets
      <3>2. Holders = {} /\ barrier' = FALSE
        BY <2>1, <2>3 DEF BarrierOwned, AcquireEffect
      <3>3. Cardinality(Inside') = Cardinality(Inside) + 1
        BY <2>2, <3>1, InsideFacts, FS_AddElement
      <3> QED
        BY <2>3, <3>1, <3>2, <3>3 DEF ActiveCounts, BarrierOwned, MutualExclusion
    <2>4. CASE UNCHANGED active /\ Goto(p, "acquiring")
      <3>1. Inside' = Inside /\ Holders' = Holders
        BY <2>2, <2>4, MoveSets
      <3> QED
        BY <2>1, <2>4, <3>1, ExclusionFrame DEF AcquireEffect
    <2> QED
      BY <2>1, <2>3, <2>4 DEF AcquireEffect
  <1>2. ASSUME NEW p \in Ops, AcquireTimeout(p)
        PROVE  Exclusion'
    <2>1. Inside' = Inside /\ Holders' = Holders
      BY <1>2, MoveSets DEF AcquireTimeout, Procs, Inside, Holders
    <2> QED
      BY <1>2, <2>1, ExclusionFrame DEF AcquireTimeout, gateVars
  <1>3. ASSUME NEW p \in Ops, Release(p)
        PROVE  Exclusion'
    <2>1. p \in Inside /\ p \notin Holders /\ p \in Procs
      BY <1>3 DEF Release, Inside, Holders, Procs
    <2>2. Inside' = Inside \ {p} /\ Holders' = Holders
      BY <1>3, <2>1, MoveSets DEF Release
    <2>3. Cardinality(Inside) # 0 /\ Cardinality(Inside') = Cardinality(Inside) - 1
      BY <2>1, <2>2, InsideFacts, FS_RemoveElement
    <2>4. active' = active - 1
      BY <1>3, <2>3, InsideFacts DEF Release, ActiveCounts
    <2>5. ActiveCounts'
      BY <2>3, <2>4 DEF ActiveCounts
    <2> QED
      BY <1>3, <2>2, <2>5 DEF Release, BarrierOwned, MutualExclusion
  <1>4. ASSUME NEW b \in Openers, BeginStart(b) \/ BeginRetry(b)
        PROVE  Exclusion'
    <2>1. PICK mine \in Nat, next \in Nat : \E t \in FirstLive(canceled, next) :
             BeginTicket(b, mine, next) /\ BeginEffect(b, mine, next, t)
      BY <1>4, BeginCases
    <2>2. PICK t \in FirstLive(canceled, next) : BeginEffect(b, mine, next, t)
      BY <2>1
    <2>3. b \notin Inside /\ b \notin Holders /\ b \in Procs
      BY <2>1 DEF BeginTicket, Inside, Holders, Procs
    <2>4. CASE barrier = FALSE /\ active = 0 /\ barrier' = TRUE /\ Goto(b, "holding")
      <3>1. Holders = {} /\ Inside = {}
        BY <2>4, InsideFacts DEF BarrierOwned, ActiveCounts
      <3>2. Holders' = {b} /\ Inside' = Inside
        BY <2>3, <2>4, <3>1, MoveSets
      <3> QED
        BY <2>2, <2>4, <3>1, <3>2
           DEF BeginEffect, ActiveCounts, BarrierOwned, MutualExclusion
    <2>5. CASE UNCHANGED barrier /\ Goto(b, "beginning")
      <3>1. Inside' = Inside /\ Holders' = Holders
        BY <2>3, <2>5, MoveSets
      <3> QED
        BY <2>2, <2>5, <3>1, ExclusionFrame DEF BeginEffect
    <2> QED
      BY <2>2, <2>4, <2>5 DEF BeginEffect
  <1>5. ASSUME NEW b \in Openers, BeginTimeout(b)
        PROVE  Exclusion'
    <2>1. Inside' = Inside /\ Holders' = Holders
      BY <1>5, MoveSets DEF BeginTimeout, Procs, Inside, Holders
    <2> QED
      BY <1>5, <2>1, ExclusionFrame DEF BeginTimeout
  <1>6. ASSUME NEW b \in Openers, EndWindow(b)
        PROVE  Exclusion'
    <2>1. b \in Holders /\ b \notin Inside /\ b \in Procs
      BY <1>6 DEF EndWindow, Holders, Inside, Procs
    <2>2. Holders' = {} /\ Inside' = Inside
      BY <1>6, <2>1, MoveSets DEF EndWindow, MutualExclusion
    <2> QED
      BY <1>6, <2>2 DEF EndWindow, ActiveCounts, BarrierOwned, MutualExclusion
  <1>7. ASSUME NEW b \in Openers, EndWindowAgain(b)
        PROVE  Exclusion'
    <2>1. Inside' = Inside /\ Holders' = Holders
      BY <1>7, MoveSets DEF EndWindowAgain, Procs, Inside, Holders
    <2> QED
      BY <1>7, <2>1, ExclusionFrame DEF EndWindowAgain, gateVars
  <1>8. ASSUME NEW w \in Watchers, WatchStart(w) \/ WatchRetry(w) \/ WatchTimeout(w)
        PROVE  Exclusion'
    <2>1. PICK label \in {"idle", "watching"} : Goto(w, label)
      BY <1>8 DEF WatchStart, WatchRetry, WatchAttempt, WatchTimeout
    <2>2. w \in Procs /\ w \notin Inside /\ w \notin Holders
      BY DEF Procs, Inside, Holders
    <2>3. Inside' = Inside /\ Holders' = Holders
      BY <2>1, <2>2, MoveSets
    <2> QED
      BY <1>8, <2>3, ExclusionFrame
         DEF WatchStart, WatchRetry, WatchAttempt, WatchTimeout, gateVars
  <1> QED
    BY <1>1, <1>2, <1>3, <1>4, <1>5, <1>6, <1>7, <1>8 DEF Next

-----------------------------------------------------------------------------
\* The ledger as a relation: tickets s up to n are accounted for by the
\* cancelled ones, c, and by those f assigns to the requests of R.
Ledger(s, n, c, R, f) ==
    /\ s <= n
    /\ c \subseteq s .. (n - 1)
    /\ \A b \in R : f[b] \in (s .. (n - 1)) \ c
    /\ \A b, d \in R : f[b] = f[d] => b = d
    /\ \A t \in s .. (n - 1) : t \in c \/ \E b \in R : f[b] = t

\* TicketLedger is the relation Ledger between the gate's fields.
LEMMA LedgerIsTicketLedger ==
    TicketLedger <=> Ledger(servingTicket, nextTicket, canceled, Requesting, ticket)
  BY DEF TicketLedger, Ledger

\* A new request takes ticket n.
LEMMA LedgerAdd ==
    ASSUME NEW s \in Nat, NEW n \in Nat, NEW c, NEW R \in SUBSET Openers,
           NEW f \in [Openers -> Nat], NEW b \in Openers, b \notin R,
           Ledger(s, n, c, R, f)
    PROVE  Ledger(s, n + 1, c, R \cup {b}, [f EXCEPT ![b] = n])
  <1> DEFINE g == [f EXCEPT ![b] = n]
  <1>1. g[b] = n /\ \A d \in R : g[d] = f[d]
    OBVIOUS
  <1>2. s <= n + 1 /\ c \subseteq s .. ((n + 1) - 1) /\ n \notin c
    BY DEF Ledger
  <1>3. \A d \in R : g[d] \in (s .. (n - 1)) \ c
    BY <1>1 DEF Ledger
  <1>4. \A d \in R \cup {b} : g[d] \in (s .. ((n + 1) - 1)) \ c
    BY <1>1, <1>2, <1>3 DEF Ledger
  <1>5. \A d, e \in R \cup {b} : g[d] = g[e] => d = e
    BY <1>1, <1>3 DEF Ledger
  <1>6. \A t \in s .. ((n + 1) - 1) : t \in c \/ \E d \in R \cup {b} : g[d] = t
    BY <1>1 DEF Ledger
  <1> QED
    BY <1>2, <1>4, <1>5, <1>6 DEF Ledger

\* Passing over the cancelled tickets below a live one.
LEMMA LedgerSkip ==
    ASSUME servingTicket \in Nat, NEW n \in Nat, NEW c, NEW R \in SUBSET Openers,
           NEW f \in [Openers -> Nat], NEW t \in FirstLive(c, n),
           Ledger(servingTicket, n, c, R, f)
    PROVE  Ledger(t, n, c \ Passed(t), R, f)
  BY DEF Ledger, FirstLive, Passed

\* The request that is served leaves the ledger.
LEMMA LedgerServe ==
    ASSUME NEW n \in Nat, NEW c, NEW R \in SUBSET Openers,
           NEW f \in [Openers -> Nat], NEW b \in R,
           f[b] \notin c, Ledger(f[b], n, c, R, f)
    PROVE  Ledger(f[b] + 1, n, c, R \ {b}, f)
  <1>1. f[b] \in Nat
    OBVIOUS
  <1> QED
    BY <1>1 DEF Ledger

\* A request that gives up moves its ticket to the cancelled ones.
LEMMA LedgerCancel ==
    ASSUME NEW s \in Nat, NEW n \in Nat, NEW c, NEW R \in SUBSET Openers,
           NEW f \in [Openers -> Nat], NEW b \in R,
           Ledger(s, n, c, R, f)
    PROVE  Ledger(s, n, c \cup {f[b]}, R \ {b}, f)
  BY DEF Ledger

\* No step loses a ticket or gives one twice.
LEMMA LedgerStep ==
    ASSUME TypeOK, TicketLedger, Next
    PROVE  TicketLedger'
  <1> DEFINE now == Ledger(servingTicket, nextTicket, canceled, Requesting, ticket)
  <1> DEFINE then == Ledger(servingTicket', nextTicket', canceled', Requesting', ticket')
  <1>1. now
    BY LedgerIsTicketLedger
  <1>2. Requesting \in SUBSET Openers
    BY DEF Requesting
  <1>3. SUFFICES then
    BY DEF TicketLedger, Ledger
  <1> USE DEF TypeOK
  <1>4. ASSUME NEW p \in Ops, AcquireStart(p) \/ AcquireRetry(p)
        PROVE  then
    <2>1. PICK t \in FirstLive(canceled, nextTicket) : AcquireEffect(p, t)
      BY <1>4, AcquireCases DEF AcquireStart, AcquireRetry
    <2>2. Requesting' = Requesting
      BY <2>1, MoveSets DEF AcquireEffect, Procs, Requesting
    <2>3. Ledger(t, nextTicket, canceled \ Passed(t), Requesting, ticket)
      BY <1>1, <1>2, LedgerSkip
    <2> QED
      BY <2>1, <2>2, <2>3 DEF AcquireEffect
  <1>5. ASSUME NEW p \in Ops, AcquireTimeout(p) \/ Release(p)
        PROVE  then
    <2>1. Goto(p, "idle") /\ p \in Procs
      BY <1>5 DEF AcquireTimeout, Release, Procs
    <2>2. Requesting' = Requesting
      BY <2>1, MoveSets DEF Requesting
    <2> QED
      BY <1>5, <1>1, <2>2 DEF AcquireTimeout, Release, gateVars
  <1>6. ASSUME NEW b \in Openers, BeginStart(b) \/ BeginRetry(b)
        PROVE  then
    <2>1. PICK mine \in Nat, next \in Nat : \E t \in FirstLive(canceled, next) :
             BeginTicket(b, mine, next) /\ BeginEffect(b, mine, next, t)
      BY <1>6, BeginCases
    <2>2. PICK t \in FirstLive(canceled, next) : BeginEffect(b, mine, next, t)
      BY <2>1
    <2>3. BeginTicket(b, mine, next)
      BY <2>1
    <2> DEFINE R == Requesting \cup {b}
               g == [ticket EXCEPT ![b] = mine]
    <2>4. b \in Procs /\ R \in SUBSET Openers /\ g \in [Openers -> Nat] /\ g[b] = mine
      BY <1>2 DEF Procs
    <2>5. Ledger(servingTicket, next, canceled, R, g)
      <3>1. CASE pc[b] = "idle"
        <4>1. b \notin Requesting
          BY <3>1 DEF Requesting
        <4>2. mine = nextTicket /\ next = nextTicket + 1
          BY <2>3, <3>1 DEF BeginTicket
        <4> QED
          BY <1>1, <1>2, <4>1, <4>2, LedgerAdd
      <3>2. CASE pc[b] = "beginning"
        <4>1. R = Requesting
          BY <3>2 DEF Requesting
        <4>2. mine = ticket[b] /\ next = nextTicket
          BY <2>3, <3>2 DEF BeginTicket
        <4>3. g = ticket
          BY <4>2
        <4> QED
          BY <1>1, <4>1, <4>2, <4>3
      <3> QED
        BY <2>3, <3>1, <3>2 DEF BeginTicket
    <2>6. Ledger(t, next, canceled \ Passed(t), R, g)
      BY <2>4, <2>5, LedgerSkip
    <2>7. CASE mine = t /\ servingTicket' = t + 1 /\ Goto(b, "holding")
      <3>1. Requesting' = R \ {b}
        BY <2>4, <2>7, MoveSets
      <3>2. g[b] = t /\ t \notin canceled \ Passed(t)
        BY <2>4, <2>7 DEF FirstLive
      <3>3. Ledger(t + 1, next, canceled \ Passed(t), R \ {b}, g)
        BY <2>4, <2>6, <3>2, LedgerServe
      <3> QED
        BY <2>2, <2>7, <3>1, <3>3 DEF BeginEffect
    <2>8. CASE servingTicket' = t /\ Goto(b, "beginning")
      <3>1. Requesting' = R
        BY <2>4, <2>8, MoveSets
      <3> QED
        BY <2>2, <2>6, <2>8, <3>1 DEF BeginEffect
    <2> QED
      BY <2>2, <2>7, <2>8 DEF BeginEffect
  <1>7. ASSUME NEW b \in Openers, BeginTimeout(b)
        PROVE  then
    <2> DEFINE c == canceled \cup {ticket[b]}
    <2>1. PICK t \in FirstLive(c, nextTicket) :
             servingTicket' = t /\ canceled' = c \ Passed(t)
      BY <1>7 DEF BeginTimeout
    <2>2. b \in Requesting /\ b \in Procs
      BY <1>7 DEF BeginTimeout, Requesting, Procs
    <2>3. Requesting' = Requesting \ {b}
      BY <1>7, <2>2, MoveSets DEF BeginTimeout
    <2>4. Ledger(servingTicket, nextTicket, c, Requesting \ {b}, ticket)
      BY <1>1, <1>2, <2>2, LedgerCancel
    <2>5. Ledger(t, nextTicket, c \ Passed(t), Requesting \ {b}, ticket)
      BY <1>2, <2>4, LedgerSkip
    <2> QED
      BY <1>7, <2>1, <2>3, <2>5 DEF BeginTimeout
  <1>8. ASSUME NEW b \in Openers, EndWindow(b) \/ EndWindowAgain(b)
        PROVE  then
    <2>1. Requesting' = Requesting
      BY <1>8, MoveSets DEF EndWindow, EndWindowAgain, Procs, Requesting
    <2> QED
      BY <1>8, <1>1, <2>1 DEF EndWindow, EndWindowAgain, gateVars
  <1>9. ASSUME NEW w \in Watchers, WatchStart(w) \/ WatchRetry(w) \/ WatchTimeout(w)
        PROVE  then
    <2>1. PICK label \in {"idle", "watching"} : Goto(w, label)
      BY <1>9 DEF WatchStart, WatchRetry, WatchAttempt, WatchTimeout
    <2>2. Requesting' = Requesting
      BY <2>1, MoveSets DEF Procs, Requesting
    <2> QED
      BY <1>9, <1>1, <2>2 DEF WatchStart, WatchRetry, WatchAttempt, WatchTimeout, gateVars
  <1> QED
    BY <1>4, <1>5, <1>6, <1>7, <1>8, <1>9 DEF Next

-----------------------------------------------------------------------------
\* A signal wakes everybody, so it establishes Wakeups by itself.
LEMMA SignalWakes ==
    ASSUME Signal
    PROVE  Wakeups'
  BY DEF Signal, Wakeups, ParkedBlocked, NoLostWakeup

\* A caller that leaves its select, while the gate stays as it is.
LEMMA UnparkStep ==
    ASSUME TypeOK, Wakeups, NEW q \in Procs \ Openers, Goto(q, "idle"),
           parked' = parked \ {q}, UNCHANGED <<gateVars, ticket>>
    PROVE  Wakeups'
  <1>1. \A p \in Procs : p # q => pc'[p] = pc[p]
    BY DEF Goto, TypeOK, Places
  <1>2. Requesting' = Requesting
    BY MoveSets DEF Requesting
  <1>3. Ahead' = Ahead
    BY <1>2 DEF Ahead
  <1>4. ParkedBlocked'
    BY <1>1 DEF Wakeups, ParkedBlocked, TypeOK
  <1>5. NoLostWakeup'
    BY <1>2, <1>3 DEF Wakeups, NoLostWakeup, gateVars
  <1> QED
    BY <1>4, <1>5 DEF Wakeups

\* The layer of wake-ups survives every step: who stays parked still has to wait.
LEMMA WakeupStep ==
    ASSUME TypeOK, Exclusion, TicketLedger, Wakeups, Next
    PROVE  Wakeups'
  <1> USE DEF TypeOK
  <1>1. ASSUME NEW p \in Ops, AcquireStart(p) \/ AcquireRetry(p)
        PROVE  Wakeups'
    <2>1. PICK t \in FirstLive(canceled, nextTicket) : AcquireEffect(p, t)
      BY <1>1, AcquireCases DEF AcquireStart, AcquireRetry
    <2>2. p \in Procs /\ p \notin parked /\ p \notin Openers /\ p \notin Watchers
      BY <1>1 DEF AcquireStart, AcquireRetry, Woken, Procs, Wakeups, ParkedBlocked
    <2>3. \A q \in Procs : q # p => pc'[q] = pc[q]
      BY <2>1 DEF AcquireEffect, Goto, Places
    <2>4. Requesting' = Requesting
      BY <2>1, <2>2, MoveSets DEF AcquireEffect, Requesting
    <2>5. Ahead' = Ahead
      BY <2>1, <2>4 DEF Ahead, AcquireEffect
    <2>6. CASE active' = active + 1 /\ UNCHANGED parked
      <3>1. ParkedBlocked'
        BY <2>2, <2>3, <2>6 DEF Wakeups, ParkedBlocked
      <3>2. NoLostWakeup'
        BY <2>1, <2>4, <2>5, <2>6 DEF Wakeups, NoLostWakeup, AcquireEffect
      <3> QED
        BY <3>1, <3>2 DEF Wakeups
    <2>7. CASE /\ barrier = TRUE \/ nextTicket # t
               /\ Goto(p, "acquiring") /\ Park(p) /\ UNCHANGED active
      <3>1. barrier \/ Requesting # {}
        <4>1. CASE nextTicket # t
          <5>1. t \in servingTicket .. (nextTicket - 1) /\ t \notin canceled
            BY <4>1 DEF FirstLive
          <5> QED
            BY <5>1 DEF TicketLedger
        <4> QED
          BY <2>7, <4>1
      <3>2. pc'[p] = "acquiring"
        BY <2>2, <2>7 DEF Goto, Places
      <3>3. ParkedBlocked'
        BY <2>3, <2>7, <3>2 DEF Wakeups, ParkedBlocked, Park
      <3>4. NoLostWakeup'
        BY <2>1, <2>2, <2>4, <2>5, <2>7, <3>1 DEF Wakeups, NoLostWakeup, AcquireEffect, Park
      <3> QED
        BY <3>3, <3>4 DEF Wakeups
    <2> QED
      BY <2>1, <2>6, <2>7 DEF AcquireEffect
  <1>2. ASSUME NEW p \in Ops, AcquireTimeout(p)
        PROVE  Wakeups'
    <2>1. p \in Procs \ Openers
      BY DEF Procs
    <2> QED
      BY <1>2, <2>1, UnparkStep DEF AcquireTimeout
  <1>3. ASSUME NEW p \in Ops, Release(p)
        PROVE  Wakeups'
    <2>1. CASE active' = 0
      BY <1>3, <2>1, SignalWakes DEF Release
    <2>2. CASE active' # 0
      <3>1. p \in Procs /\ p \notin parked /\ p \notin Openers
        BY <1>3 DEF Release, Procs, Wakeups, ParkedBlocked
      <3>2. \A q \in Procs : q # p => pc'[q] = pc[q]
        BY <1>3 DEF Release, Goto, Places
      <3>3. Requesting' = Requesting
        BY <1>3, <3>1, MoveSets DEF Release, Requesting
      <3>4. Ahead' = Ahead
        BY <1>3, <3>3 DEF Ahead, Release
      <3>5. ParkedBlocked'
        BY <1>3, <2>2, <3>1, <3>2 DEF Wakeups, ParkedBlocked, Release
      <3>6. NoLostWakeup'
        BY <1>3, <2>2, <3>3, <3>4 DEF Wakeups, NoLostWakeup, Release
      <3> QED
        BY <3>5, <3>6 DEF Wakeups
    <2> QED
      BY <2>1, <2>2
  <1>4. ASSUME NEW b \in Openers, BeginStart(b) \/ BeginRetry(b)
        PROVE  Wakeups'
    <2>1. PICK mine \in Nat, next \in Nat : \E t \in FirstLive(canceled, next) :
             BeginTicket(b, mine, next) /\ BeginEffect(b, mine, next, t)
      BY <1>4, BeginCases
    <2>2. PICK t \in FirstLive(canceled, next) : BeginEffect(b, mine, next, t)
      BY <2>1
    <2>3. BeginTicket(b, mine, next)
      BY <2>1
    <2>4. b \in Procs /\ b \notin parked /\ b \notin Ops /\ b \notin Watchers
      BY <2>3 DEF Procs, BeginTicket, Wakeups, ParkedBlocked
    <2>5. \A q \in Procs : q # b => pc'[q] = pc[q]
      BY <2>2 DEF BeginEffect, Goto, Places
    <2>6. CASE barrier' = TRUE /\ UNCHANGED parked
      BY <2>4, <2>5, <2>6 DEF Wakeups, ParkedBlocked, NoLostWakeup
    <2>7. CASE /\ barrier = TRUE \/ active # 0 \/ mine # t
               /\ UNCHANGED barrier /\ Goto(b, "beginning") /\ Park(b)
      <3>1. pc'[b] = "beginning" /\ ticket'[b] = mine
        BY <2>2, <2>4, <2>7 DEF Goto, Places, BeginEffect
      <3>2. ParkedBlocked'
        BY <2>5, <2>7, <3>1 DEF Wakeups, ParkedBlocked, Park
      <3>3. Requesting' = Requesting \cup {b}
        BY <2>4, <2>7, MoveSets
      <3>4. \A d \in Openers : d # b => ticket'[d] = ticket[d]
        BY <2>2 DEF BeginEffect
      <3>5. \A d \in Requesting : Ahead[d] \subseteq Ahead'[d]
        <4> SUFFICES ASSUME NEW d \in Requesting, NEW e \in Ahead[d]
                     PROVE  e \in Ahead'[d]
          OBVIOUS
        <4>1. d \in Openers /\ e \in Requesting /\ ticket[e] < ticket[d]
          BY DEF Ahead, Requesting
        <4>2. ticket'[e] = ticket[e] /\ ticket'[d] = ticket[d]
          <5>1. CASE pc[b] = "idle"
            BY <3>4, <4>1, <5>1 DEF Requesting
          <5>2. CASE mine = ticket[b]
            BY <3>1, <3>4, <4>1, <5>2 DEF Requesting
          <5> QED
            BY <2>3, <5>1, <5>2 DEF BeginTicket
        <4> QED
          BY <3>3, <4>1, <4>2 DEF Ahead
      <3>6. barrier \/ active # 0 \/ Ahead'[b] # {}
        <4>1. CASE mine # t
          <5>1. /\ mine \notin canceled /\ servingTicket <= mine
                /\ mine <= nextTicket
            BY <2>3 DEF BeginTicket, TicketLedger, Requesting
          <5>2. t \in Nat /\ t < mine /\ t \notin canceled /\ servingTicket <= t
            BY <4>1, <5>1, FirstLiveBound
          <5>3. t \in servingTicket .. (nextTicket - 1)
            BY <5>1, <5>2
          <5>4. PICK d \in Requesting : ticket[d] = t
            BY <5>2, <5>3 DEF TicketLedger
          <5>5. d # b
            BY <2>3, <4>1, <5>4 DEF BeginTicket, Requesting
          <5>6. d \in Openers /\ ticket'[d] = t
            BY <3>4, <5>4, <5>5 DEF Requesting
          <5> QED
            BY <3>1, <3>3, <5>2, <5>4, <5>6 DEF Ahead
        <4> QED
          BY <2>7, <4>1
      <3>7. \A p \in Ops \cap parked' : barrier' \/ Requesting' # {}
        BY <3>3
      <3>8. \A d \in Openers \cap parked' : barrier' \/ active' # 0 \/ Ahead'[d] # {}
        <4> SUFFICES ASSUME NEW d \in Openers \cap parked'
                     PROVE  barrier' \/ active' # 0 \/ Ahead'[d] # {}
          OBVIOUS
        <4>1. CASE d = b
          BY <2>2, <2>7, <3>6, <4>1 DEF BeginEffect
        <4>2. CASE d # b
          <5>1. d \in parked /\ d \in Requesting
            BY <2>7, <4>2 DEF Park, Wakeups, ParkedBlocked, Places, Requesting
          <5> QED
            BY <2>2, <2>7, <3>5, <5>1 DEF BeginEffect, Wakeups, NoLostWakeup
        <4> QED
          BY <4>1, <4>2
      <3>9. \A w \in Watchers \cap parked' : barrier'
        BY <2>4, <2>7 DEF Park, Wakeups, NoLostWakeup
      <3> QED
        BY <3>2, <3>7, <3>8, <3>9 DEF Wakeups, NoLostWakeup
    <2> QED
      BY <2>2, <2>6, <2>7 DEF BeginEffect
  <1>5. ASSUME NEW b \in Openers, BeginTimeout(b) \/ EndWindow(b)
        PROVE  Wakeups'
    BY <1>5, SignalWakes DEF BeginTimeout, EndWindow
  <1>6. ASSUME NEW b \in Openers, EndWindowAgain(b)
        PROVE  Wakeups'
    <2>1. b \in Procs /\ b \notin parked
      BY <1>6 DEF EndWindowAgain, Procs, Wakeups, ParkedBlocked
    <2>2. \A q \in Procs : q # b => pc'[q] = pc[q]
      BY <1>6 DEF EndWindowAgain, Goto, Places
    <2>3. Requesting' = Requesting
      BY <1>6, <2>1, MoveSets DEF EndWindowAgain, Requesting
    <2>4. Ahead' = Ahead
      BY <1>6, <2>3 DEF Ahead, EndWindowAgain
    <2>5. ParkedBlocked'
      BY <1>6, <2>1, <2>2 DEF Wakeups, ParkedBlocked, EndWindowAgain
    <2>6. NoLostWakeup'
      BY <1>6, <2>3, <2>4 DEF Wakeups, NoLostWakeup, EndWindowAgain, gateVars
    <2> QED
      BY <2>5, <2>6 DEF Wakeups
  <1>7. ASSUME NEW w \in Watchers, WatchStart(w) \/ WatchRetry(w)
        PROVE  Wakeups'
    <2>1. WatchAttempt(w) /\ w \in Procs /\ w \notin parked /\ w \notin Openers /\ w \notin Ops
      BY <1>7 DEF WatchStart, WatchRetry, Woken, Procs, Wakeups, ParkedBlocked
    <2>2. CASE ~barrier /\ Goto(w, "idle") /\ UNCHANGED parked
      BY <2>1, <2>2, UnparkStep DEF WatchAttempt
    <2>3. CASE barrier /\ Goto(w, "watching") /\ Park(w)
      <3>1. \A q \in Procs : q # w => pc'[q] = pc[q]
        BY <2>3 DEF Goto, Places
      <3>2. pc'[w] = "watching" /\ barrier'
        BY <2>1, <2>3 DEF WatchAttempt, Goto, Places, gateVars
      <3> QED
        BY <2>1, <2>3, <3>1, <3>2 DEF Wakeups, ParkedBlocked, NoLostWakeup, Park
    <2> QED
      BY <2>1, <2>2, <2>3 DEF WatchAttempt
  <1>8. ASSUME NEW w \in Watchers, WatchTimeout(w)
        PROVE  Wakeups'
    <2>1. w \in Procs \ Openers
      BY DEF Procs
    <2> QED
      BY <1>8, <2>1, UnparkStep DEF WatchTimeout
  <1> QED
    BY <1>1, <1>2, <1>3, <1>4, <1>5, <1>6, <1>7, <1>8 DEF Next

-----------------------------------------------------------------------------
\* newCardAccessGate establishes the invariant.
LEMMA InitGateInv ==
    ASSUME Init
    PROVE  GateInv
  <1> USE DEF Init
  <1>1. Inside = {} /\ Holders = {} /\ Requesting = {}
    BY DEF Inside, Holders, Requesting, Procs
  <1>2. TypeOK
    BY DEF TypeOK, Places, Procs
  <1>3. ActiveCounts
    BY <1>1, FS_EmptySet DEF ActiveCounts
  <1>4. BarrierOwned /\ MutualExclusion /\ TicketLedger
    BY <1>1 DEF BarrierOwned, MutualExclusion, TicketLedger
  <1>5. ParkedBlocked /\ NoLostWakeup
    BY DEF ParkedBlocked, NoLostWakeup
  <1> QED
    BY <1>2, <1>3, <1>4, <1>5 DEF GateInv

\* The four layers together are inductive.
LEMMA GateInvStep ==
    ASSUME GateInv, [Next]_vars
    PROVE  GateInv'
  <1>1. CASE Next
    BY <1>1, TypeStep, ExclusionStep, LedgerStep, WakeupStep
       DEF GateInv, Exclusion, Wakeups
  <1>2. CASE UNCHANGED vars
    BY <1>2 DEF vars, GateInv, TypeOK, Places, ActiveCounts, BarrierOwned, MutualExclusion,
                TicketLedger, ParkedBlocked, NoLostWakeup, Inside, Holders, Requesting, Ahead
  <1> QED
    BY <1>1, <1>2

\* The strengthened invariant of the gate, for any number of callers, windows
\* and cancellations.
THEOREM GateInvariant == Spec => []GateInv
  BY InitGateInv, GateInvStep, PTL DEF Spec

\* acquire, release, begin and its release function keep the gate's fields in
\* their types and each caller in its own function.
THEOREM GateTypes == Spec => []TypeOK
  <1>1. GateInv => TypeOK
    BY DEF GateInv
  <1> QED
    BY <1>1, GateInvariant, PTL

\* A quiet window excludes every card operation and every other window,
\* however many callers race for the gate.
THEOREM GateExcludes == Spec => []MutualExclusion
  <1>1. GateInv => MutualExclusion
    BY DEF GateInv
  <1> QED
    BY <1>1, GateInvariant, PTL

\* No ticket is lost or owed twice, whichever requests are cancelled and
\* whoever skips their tickets.
THEOREM GateLedger == Spec => []TicketLedger
  <1>1. GateInv => TicketLedger
    BY DEF GateInv
  <1> QED
    BY <1>1, GateInvariant, PTL

\* Nobody blocked on g.notifyCh has missed the signal that lets him through.
THEOREM GateWakes == Spec => []NoLostWakeup
  <1>1. GateInv => NoLostWakeup
    BY DEF GateInv
  <1> QED
    BY <1>1, GateInvariant, PTL

-----------------------------------------------------------------------------
\* The refinement: what each step of the gate is to its callers.
Stutter == UNCHANGED <<Inside, Holders, Requesting, Ahead>>

\* A live ticket that has reached nextTicket leaves no request outstanding.
LEMMA NobodyAhead ==
    ASSUME TypeOK, TicketLedger, NEW t \in FirstLive(canceled, nextTicket + 1),
           t = nextTicket
    PROVE  Requesting = {}
  BY FirstLiveBound DEF TypeOK, TicketLedger, Requesting

\* Ahead is a function of who requests and of the requesters' tickets.
LEMMA AheadFrame ==
    ASSUME Requesting' = Requesting, \A b \in Requesting : ticket'[b] = ticket[b]
    PROVE  Ahead' = Ahead
  <1>1. \A b \in Openers : Ahead'[b] = Ahead[b]
    BY DEF Ahead
  <1> QED
    BY <1>1 DEF Ahead

\* A request that is settled is removed from what the others wait for.
LEMMA AheadSettle ==
    ASSUME NEW b \in Requesting, Requesting' = Requesting \ {b},
           \A c \in Requesting : ticket'[c] = ticket[c]
    PROVE  Ahead' = [c \in Openers |-> IF c = b THEN {} ELSE Ahead[c] \ {b}]
  <1>1. \A c \in Openers : Ahead'[c] = IF c = b THEN {} ELSE Ahead[c] \ {b}
    BY DEF Ahead, Requesting
  <1> QED
    BY <1>1 DEF Ahead

\* An attempt to acquire enters, as the abstract gate allows, or changes nothing.
LEMMA AcquireRefines ==
    ASSUME GateInv, NEW p \in Ops, AcquireStart(p) \/ AcquireRetry(p)
    PROVE  Abstract!Enter(p) \/ Stutter
  <1> USE DEF GateInv
  <1>1. PICK t \in FirstLive(canceled, nextTicket) : AcquireEffect(p, t)
    BY AcquireCases DEF AcquireStart, AcquireRetry
  <1>2. p \in Procs /\ p \notin Inside /\ p \notin Holders /\ p \notin Requesting
    BY DEF AcquireStart, AcquireRetry, Woken, Procs, Inside, Holders, Requesting
  <1>3. CASE barrier = FALSE /\ nextTicket = t /\ Goto(p, "inside")
    <2>1. Inside' = Inside \cup {p} /\ Holders' = Holders /\ Requesting' = Requesting
      BY <1>2, <1>3, MoveSets
    <2>2. Holders = {}
      BY <1>3 DEF BarrierOwned
    <2>3. Requesting = {}
      BY <1>3, FirstLiveBound DEF TypeOK, TicketLedger, Requesting
    <2>4. Ahead' = Ahead
      BY <1>1, <2>1, AheadFrame DEF AcquireEffect
    <2> QED
      BY <1>2, <2>1, <2>2, <2>3, <2>4 DEF Abstract!Enter
  <1>4. CASE Goto(p, "acquiring")
    <2>1. Inside' = Inside /\ Holders' = Holders /\ Requesting' = Requesting
      BY <1>2, <1>4, MoveSets
    <2>2. Ahead' = Ahead
      BY <1>1, <2>1, AheadFrame DEF AcquireEffect
    <2> QED
      BY <2>1, <2>2 DEF Stutter
  <1> QED
    BY <1>1, <1>3, <1>4 DEF AcquireEffect

\* begin registers a request, or has its window at once.
LEMMA BeginStartRefines ==
    ASSUME GateInv, NEW b \in Openers, BeginStart(b)
    PROVE  Abstract!Request(b) \/ Abstract!Seize(b)
  <1> USE DEF GateInv
  <1>1. PICK t \in FirstLive(canceled, nextTicket + 1) :
           BeginEffect(b, nextTicket, nextTicket + 1, t)
    BY DEF BeginStart, BeginAttempt, BeginEffect, TypeOK
  <1>2. /\ b \in Procs /\ b \notin Inside /\ b \notin Holders /\ b \notin Requesting
    BY DEF BeginStart, Procs, Inside, Holders, Requesting
  <1>3. \A c \in Requesting : ticket'[c] = ticket[c]
    BY <1>1, <1>2 DEF BeginEffect, TypeOK, Requesting
  <1>4. CASE barrier = FALSE /\ active = 0 /\ nextTicket = t /\ Goto(b, "holding")
    <2>1. Holders = {} /\ Inside = {}
      BY <1>4, InsideFacts DEF BarrierOwned, ActiveCounts
    <2>2. Requesting = {}
      BY <1>4, NobodyAhead
    <2>3. Holders' = {b} /\ Inside' = Inside /\ Requesting' = Requesting
      BY <1>2, <1>4, <2>1, MoveSets
    <2>4. Ahead' = Ahead
      BY <1>3, <2>3, AheadFrame
    <2> QED
      BY <2>1, <2>2, <2>3, <2>4 DEF Abstract!Seize
  <1>5. CASE Goto(b, "beginning")
    <2>1. /\ Holders' = Holders /\ Inside' = Inside
          /\ Requesting' = Requesting \cup {b}
      BY <1>2, <1>5, MoveSets
    <2>2. ticket'[b] = nextTicket /\ \A c \in Requesting : ticket[c] < nextTicket
      BY <1>1 DEF BeginEffect, TypeOK, TicketLedger, Requesting
    <2>3. Ahead'[b] = Requesting
      BY <1>2, <1>3, <2>1, <2>2 DEF Ahead, TypeOK
    <2>4. ASSUME NEW c \in Openers, c # b
          PROVE  Ahead'[c] = Ahead[c]
      <3>1. CASE c \in Requesting
        <4>1. Ahead[c] = {d \in Requesting : ticket[d] < ticket[c]}
          BY <3>1 DEF Ahead
        <4>2. Ahead'[c] = {d \in Requesting' : ticket'[d] < ticket'[c]}
          BY <2>1, <3>1 DEF Ahead
        <4>3. ticket[c] \in Nat /\ nextTicket \in Nat /\ ticket[c] < nextTicket
          BY <2>2, <3>1 DEF TypeOK
        <4> QED
          BY <1>2, <1>3, <2>1, <2>2, <3>1, <4>1, <4>2, <4>3
      <3>2. CASE c \notin Requesting
        BY <2>1, <2>4, <3>2 DEF Ahead
      <3> QED
        BY <3>1, <3>2
    <2>5. Ahead' = [Ahead EXCEPT ![b] = Requesting]
      <3>1. \A c \in Openers : Ahead'[c] = [Ahead EXCEPT ![b] = Requesting][c]
        BY <2>3, <2>4 DEF Ahead
      <3> QED
        BY <3>1 DEF Ahead
    <2> QED
      BY <1>2, <2>1, <2>5 DEF Abstract!Request
  <1> QED
    BY <1>1, <1>4, <1>5 DEF BeginEffect

\* A woken begin is granted its window, or changes nothing.
LEMMA BeginRetryRefines ==
    ASSUME GateInv, NEW b \in Openers, BeginRetry(b)
    PROVE  Abstract!Grant(b) \/ Stutter
  <1> USE DEF GateInv
  <1>1. ticket' = ticket
    BY DEF BeginRetry
  <1>2. PICK t \in FirstLive(canceled, nextTicket) :
           \/ barrier = FALSE /\ active = 0 /\ ticket[b] = t /\ Goto(b, "holding")
           \/ Goto(b, "beginning")
    BY DEF BeginRetry, BeginAttempt, TypeOK
  <1>3. b \in Procs /\ b \notin Inside /\ b \notin Holders /\ b \in Requesting
    BY DEF BeginRetry, Woken, Procs, Inside, Holders, Requesting
  <1>4. CASE barrier = FALSE /\ active = 0 /\ ticket[b] = t /\ Goto(b, "holding")
    <2>1. Holders = {} /\ Inside = {}
      BY <1>4, InsideFacts DEF BarrierOwned, ActiveCounts
    <2>2. Holders' = {b} /\ Inside' = Inside /\ Requesting' = Requesting \ {b}
      BY <1>3, <1>4, <2>1, MoveSets
    <2>3. Ahead[b] = {}
      <3>1. \A c \in Requesting : ticket[c] \in Nat /\ ticket[b] <= ticket[c]
        BY <1>4, FirstLiveBound DEF TypeOK, TicketLedger, Requesting
      <3> QED
        BY <1>3, <3>1 DEF Ahead, TypeOK
    <2>4. Ahead' = [c \in Openers |-> IF c = b THEN {} ELSE Ahead[c] \ {b}]
      BY <1>1, <1>3, <2>2, AheadSettle
    <2> QED
      BY <1>3, <2>1, <2>2, <2>3, <2>4 DEF Abstract!Grant, Abstract!Settle
  <1>5. CASE Goto(b, "beginning")
    <2>1. Holders' = Holders /\ Inside' = Inside /\ Requesting' = Requesting
      BY <1>3, <1>5, MoveSets
    <2>2. Ahead' = Ahead
      BY <1>1, <2>1, AheadFrame
    <2> QED
      BY <2>1, <2>2 DEF Stutter
  <1> QED
    BY <1>2, <1>4, <1>5

\* A begin that times out abandons its request.
LEMMA BeginTimeoutRefines ==
    ASSUME GateInv, NEW b \in Openers, BeginTimeout(b)
    PROVE  Abstract!Abandon(b)
  <1> USE DEF GateInv
  <1>1. Goto(b, "idle") /\ ticket' = ticket
    BY DEF BeginTimeout
  <1>2. b \in Procs /\ b \notin Inside /\ b \notin Holders /\ b \in Requesting
    BY DEF BeginTimeout, Procs, Inside, Holders, Requesting
  <1>3. Holders' = Holders /\ Inside' = Inside /\ Requesting' = Requesting \ {b}
    BY <1>1, <1>2, MoveSets
  <1>4. Ahead' = [c \in Openers |-> IF c = b THEN {} ELSE Ahead[c] \ {b}]
    BY <1>1, <1>2, <1>3, AheadSettle
  <1> QED
    BY <1>2, <1>3, <1>4 DEF Abstract!Abandon, Abstract!Settle

\* The steps that move a caller without touching a request.
LEMMA OtherRefines ==
    ASSUME GateInv, NEW q \in Procs, NEW label, Goto(q, label), ticket' = ticket,
           q \notin Requesting, label \notin {"inside", "holding", "beginning"}
    PROVE  /\ Inside' = Inside \ {q}
           /\ Holders' = Holders \ {q}
           /\ Requesting' = Requesting
           /\ Ahead' = Ahead
  <1>1. /\ Inside' = Inside \ {q} /\ Holders' = Holders \ {q}
        /\ Requesting' = Requesting
    BY MoveSets DEF GateInv
  <1>2. Ahead' = Ahead
    BY <1>1, AheadFrame
  <1> QED
    BY <1>1, <1>2

\* Every step of the gate is one of QuietWindow or a stutter.
LEMMA RefineStep ==
    ASSUME GateInv, Next
    PROVE  Abstract!Next \/ Stutter
  <1>1. ASSUME NEW p \in Ops, AcquireStart(p) \/ AcquireRetry(p)
        PROVE  Abstract!Next \/ Stutter
    BY <1>1, AcquireRefines DEF Abstract!Next
  <1>2. ASSUME NEW p \in Ops, AcquireTimeout(p)
        PROVE  Stutter
    <2>1. p \in Procs /\ p \notin Requesting /\ p \notin Inside /\ p \notin Holders
      BY <1>2 DEF AcquireTimeout, Procs, Requesting, Inside, Holders
    <2> QED
      BY <1>2, <2>1, OtherRefines DEF AcquireTimeout, Stutter
  <1>3. ASSUME NEW p \in Ops, Release(p)
        PROVE  Abstract!Leave(p)
    <2>1. p \in Procs /\ p \notin Requesting /\ p \in Inside /\ p \notin Holders
      BY <1>3 DEF Release, Procs, Requesting, Inside, Holders
    <2> QED
      BY <1>3, <2>1, OtherRefines DEF Release, Abstract!Leave
  <1>4. ASSUME NEW b \in Openers, BeginStart(b) \/ BeginRetry(b) \/ BeginTimeout(b)
        PROVE  Abstract!Next \/ Stutter
    BY <1>4, BeginStartRefines, BeginRetryRefines, BeginTimeoutRefines DEF Abstract!Next
  <1>5. ASSUME NEW b \in Openers, EndWindow(b)
        PROVE  Abstract!End(b)
    <2>1. b \in Procs /\ b \notin Requesting /\ b \notin Inside /\ b \in Holders
      BY <1>5 DEF EndWindow, Procs, Requesting, Inside, Holders
    <2> QED
      BY <1>5, <2>1, OtherRefines DEF EndWindow, Abstract!End
  <1>6. ASSUME NEW b \in Openers, EndWindowAgain(b)
        PROVE  Stutter
    <2>1. b \in Procs /\ b \notin Requesting /\ b \notin Inside /\ b \notin Holders
      BY <1>6 DEF EndWindowAgain, Procs, Requesting, Inside, Holders
    <2> QED
      BY <1>6, <2>1, OtherRefines DEF EndWindowAgain, Stutter
  <1>7. ASSUME NEW w \in Watchers, WatchStart(w) \/ WatchRetry(w) \/ WatchTimeout(w)
        PROVE  Stutter
    <2>1. PICK label \in {"idle", "watching"} : Goto(w, label) /\ ticket' = ticket
      BY <1>7 DEF WatchStart, WatchRetry, WatchAttempt, WatchTimeout
    <2>2. w \in Procs /\ w \notin Requesting /\ w \notin Inside /\ w \notin Holders
      BY DEF Procs, Requesting, Inside, Holders
    <2> QED
      BY <2>1, <2>2, OtherRefines DEF Stutter
  <1> QED
    BY <1>1, <1>2, <1>3, <1>4, <1>5, <1>6, <1>7 DEF Next, Abstract!Next

\* begin and acquire keep the promise of QuietWindow: windows in the order of
\* their requests, and no card operation past an outstanding request.
THEOREM GateRefines == Spec => RefinesQuietWindow
  <1>1. Init => Abstract!Init
    <2> SUFFICES ASSUME Init PROVE Abstract!Init
      OBVIOUS
    <2>1. Inside = {} /\ Holders = {} /\ Requesting = {}
      BY DEF Init, Inside, Holders, Requesting, Procs
    <2>2. Ahead = [b \in Openers |-> {}]
      BY <2>1 DEF Ahead
    <2> QED
      BY <2>1, <2>2 DEF Abstract!Init
  <1>2. GateInv /\ [Next]_vars => [Abstract!Next]_(Abstract!windowVars)
    <2>1. GateInv /\ Next => Abstract!Next \/ Stutter
      BY RefineStep
    <2>2. UNCHANGED vars => Stutter
      BY DEF vars, Stutter, Inside, Holders, Requesting, Ahead
    <2> QED
      BY <2>1, <2>2 DEF Stutter, Abstract!windowVars
  <1> QED
    BY <1>1, <1>2, GateInvariant, PTL DEF Spec, RefinesQuietWindow, Abstract!Spec
=============================================================================
