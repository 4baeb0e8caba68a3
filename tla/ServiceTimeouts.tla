----------------------------- MODULE ServiceTimeouts -----------------------------
(***************************************************************************)
(* When timeouts of an operation count as a failure of its service, and    *)
(* timeouts of several services as a failure of the modem                  *)
(* (pkg/manager/service_recovery.go recordServiceTimeoutFailure,           *)
(* noteServiceOperationSuccess; service_recovery_storm.go).                *)
(*                                                                         *)
(* Time is counted in ticks.  `log' remembers what happened to each        *)
(* operation; the code only keeps the first timeout of a window and a      *)
(* count.                                                                  *)
(***************************************************************************)
EXTENDS Integers, Sequences, FiniteSets

CONSTANTS Operations,      \* operations, the keys of serviceTimeoutFailures
          ServiceOf,       \* the service of each
          Threshold,       \* ServiceTimeoutThreshold
          Window,          \* ServiceTimeoutWindow
          StormWindow,     \* stormWindow
          StormCooldown,   \* stormCooldown
          MaxTime,         \* bound on the clock
          MaxOutcomes      \* bound on the outcomes of operations in one tick

TimeoutAssumption ==
    /\ Operations # {}
    /\ Threshold \in Nat \ {0} /\ Window \in Nat
    /\ StormWindow \in Nat /\ StormCooldown \in Nat /\ MaxTime \in Nat /\ MaxOutcomes \in Nat

Never == -1
stormMinSvcs == 2

VARIABLES clock,
          outcomes,     \* outcomes in this tick
          first,        \* state.first of each operation, Never when it has no entry
          count,        \* state.count
          services,     \* globalTimeoutServices: when each service last timed out, or Never
          stormAt,      \* globalTimeoutStormAt
          log,          \* per operation, the times of the timeouts since its last success
          reached,      \* the last outcome, of this tick, is a timeout to recover from
          last          \* the operation of the last outcome

vars == <<clock, outcomes, first, count, services, stormAt, log, reached, last>>

Names == {ServiceOf[o] : o \in Operations}

Init ==
    /\ clock = 0 /\ outcomes = 0
    /\ first = [o \in Operations |-> Never]
    /\ count = [o \in Operations |-> 0]
    /\ services = [s \in Names |-> Never]
    /\ stormAt = Never
    /\ log = [o \in Operations |-> <<>>]
    /\ reached = FALSE
    /\ last = CHOOSE o \in Operations : TRUE

Tick ==
    /\ clock < MaxTime
    /\ clock' = clock + 1
    /\ outcomes' = 0
    /\ reached' = FALSE
    /\ UNCHANGED <<first, count, services, stormAt, log, last>>

(***************************************************************************)
(* recordServiceTimeoutFailure counts, and says whether to recover.        *)
(***************************************************************************)
\* Mutant: the window never begins anew.
CountForever(o) ==
    /\ first' = [first EXCEPT ![o] = IF @ = Never THEN clock ELSE @]
    /\ count' = [count EXCEPT ![o] = @ + 1]

Count(o) ==
    IF first[o] = Never \/ clock - first[o] > Window
    THEN /\ first' = [first EXCEPT ![o] = clock]
         /\ count' = [count EXCEPT ![o] = 1]
    ELSE /\ count' = [count EXCEPT ![o] = @ + 1]
         /\ UNCHANGED first

(***************************************************************************)
(* detectTimeoutStorm forgets old timeouts, adds this one, and asks for a  *)
(* core recovery.                                                          *)
(***************************************************************************)
\* Mutant: timeouts are never too old.
TimedOutKept(s) == [services EXCEPT ![s] = clock]

TimedOut(s) ==
    [n \in Names |-> CASE n = s -> clock
                       [] n # s /\ services[n] # Never /\ clock - services[n] > StormWindow -> Never
                       [] OTHER -> services[n]]

\* Mutant: every timeout of the storm asks again.
StormAgain(recent) ==
    Cardinality({n \in Names : recent[n] # Never}) >= stormMinSvcs

Storm(recent) ==
    /\ Cardinality({n \in Names : recent[n] # Never}) >= stormMinSvcs
    /\ stormAt = Never \/ clock - stormAt > StormCooldown

detectTimeoutStorm(s) ==
    IF Storm(TimedOut(s))
    THEN /\ services' = [n \in Names |-> Never]
         /\ stormAt' = clock
    ELSE /\ services' = TimedOut(s)
         /\ UNCHANGED stormAt

Timeout(o) ==
    /\ outcomes < MaxOutcomes
    /\ outcomes' = outcomes + 1
    /\ Count(o)
    /\ reached' = (count'[o] >= Threshold)
    /\ detectTimeoutStorm(ServiceOf[o])
    /\ log' = [log EXCEPT ![o] = Append(@, clock)]
    /\ last' = o
    /\ UNCHANGED clock

\* Mutant: a success leaves the count alone.
SuccessUnnoted(o) ==
    /\ outcomes < MaxOutcomes
    /\ outcomes' = outcomes + 1
    /\ log' = [log EXCEPT ![o] = <<>>]
    /\ reached' = FALSE
    /\ last' = o
    /\ UNCHANGED <<clock, first, count, services, stormAt>>

\* noteServiceOperationSuccess
Success(o) ==
    /\ outcomes < MaxOutcomes
    /\ outcomes' = outcomes + 1
    /\ first' = [first EXCEPT ![o] = Never]
    /\ count' = [count EXCEPT ![o] = 0]
    /\ log' = [log EXCEPT ![o] = <<>>]
    /\ reached' = FALSE
    /\ last' = o
    /\ UNCHANGED <<clock, services, stormAt>>

Next == Tick \/ \E o \in Operations : Timeout(o) \/ Success(o)

Spec == Init /\ [][Next]_vars

(***************************************************************************)
(* Properties.                                                             *)
(***************************************************************************)
TimeoutsTypeOK ==
    /\ clock \in 0 .. MaxTime /\ outcomes \in 0 .. MaxOutcomes
    /\ first \in [Operations -> {Never} \union 0 .. MaxTime]
    /\ count \in [Operations -> Nat]
    /\ services \in [Names -> {Never} \union 0 .. MaxTime]
    /\ stormAt \in {Never} \union 0 .. MaxTime
    /\ reached \in BOOLEAN /\ last \in Operations

\* Timeouts of o since its last success, in the window that ends now.
Recent(o) == {i \in 1 .. Len(log[o]) : clock - log[o][i] <= Window}

\* A service is rebound, and the operation run a second time, only after
\* Threshold timeouts of this operation within a window and with no success in
\* between: what an operation that must not run twice (sending a message) relies on.
RetriedForReason == reached => Cardinality(Recent(last)) >= Threshold

\* Nor are timeouts overlooked: as long as a success or the end of a window does
\* not interrupt them, the last Threshold timeouts in a window lead to a recovery.
\* (A window is counted from its first timeout and does not slide, so timeouts on
\* both sides of its end do not add up.)
TimeoutsAddUp ==
    \A o \in Operations :
        first[o] # Never => count[o] = Cardinality({i \in 1 .. Len(log[o]) : log[o][i] >= first[o]})

\* The storm asks for a core recovery only when two services have timed out within
\* the storm window, counted after the last storm, and not within its cooldown.
StormHasReason ==
    stormAt' # stormAt =>
        /\ stormAt = Never \/ clock - stormAt > StormCooldown
        /\ \E o, p \in Operations :
             /\ ServiceOf[o] # ServiceOf[p]
             /\ \A q \in {o, p} : services'[ServiceOf[q]] = Never
             /\ last' = o
             /\ services[ServiceOf[p]] # Never /\ clock - services[ServiceOf[p]] <= StormWindow

StormForReason == [][StormHasReason]_vars

\* Timeouts lead to a rebind or to a core recovery exactly when they add up to one
\* (recordServiceTimeoutFailure, detectTimeoutStorm).
RecoveryForReason ==
    /\ [](TimeoutsTypeOK /\ RetriedForReason /\ TimeoutsAddUp)
    /\ StormForReason
=============================================================================
