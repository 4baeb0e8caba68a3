---------------------------- MODULE CardAccessGate ----------------------------
(***************************************************************************)
(* pkg/manager/card_access_gate.go.  Card operations (withCardAccessValue) *)
(* and quiet windows (BeginCardIOQuietWindow) meet at one gate: a mutex    *)
(* guards two counters, a flag and a ticket lock; whoever cannot proceed   *)
(* waits on a channel that a signal closes and replaces.                   *)
(*                                                                         *)
(* One action is one critical section of g.mu.  A waiter captures          *)
(* g.notifyCh before it unlocks, so all that matters of the channel is     *)
(* whether a signal came since: parked is the set of callers whose         *)
(* captured channel is still the open one.                                 *)
(***************************************************************************)
EXTENDS Naturals, FiniteSets

CONSTANTS Ops,         \* callers of withCardAccessValue
          Openers,     \* callers of BeginCardIOQuietWindow
          Watchers,    \* callers of WaitForIMSCardAccessBarrier
          MaxTickets   \* bound on the windows requested in a behaviour

ASSUME GateAssumption ==
    /\ IsFiniteSet(Ops)
    /\ Ops \cap Openers = {}
    /\ Ops \cap Watchers = {}
    /\ Openers \cap Watchers = {}
    /\ MaxTickets \in Nat

VARIABLES active,         \* g.active
          barrier,        \* g.barrier
          nextTicket,     \* g.nextTicket
          servingTicket,  \* g.servingTicket
          canceled,       \* g.canceled
          parked,         \* callers blocked on the current g.notifyCh
          pc,             \* where each caller is
          ticket          \* begin's local variable

gateVars == <<active, barrier, nextTicket, servingTicket, canceled>>
vars == <<active, barrier, nextTicket, servingTicket, canceled, parked, pc, ticket>>

Procs == Ops \cup Openers \cup Watchers

Init ==
    /\ active = 0
    /\ barrier = FALSE
    /\ nextTicket = 1
    /\ servingTicket = 1
    /\ canceled = {}
    /\ parked = {}
    /\ pc = [p \in Procs |-> "idle"]
    /\ ticket = [b \in Openers |-> 0]

Goto(p, label) == pc' = [pc EXCEPT ![p] = label]
Signal == parked' = {}
Park(p) == parked' = parked \cup {p}

\* In the select with its captured channel closed by a signal.
Woken(p, label) == pc[p] = label /\ p \notin parked

\* skipCanceledLocked walks servingTicket over the canceled tickets c to the
\* first one that is not canceled, and forgets those it passed.
FirstLive(c, next) ==
    {t \in servingTicket .. next : t \notin c /\ servingTicket .. (t - 1) \subseteq c}
Passed(t) == servingTicket .. (t - 1)

-----------------------------------------------------------------------------
\* Mutant: operations overtake the windows requested before them.
AcquireAttemptOvertaking(p) ==
    \E t \in FirstLive(canceled, nextTicket) :
        /\ servingTicket' = t
        /\ canceled' = canceled \ Passed(t)
        /\ \/ /\ ~barrier
              /\ active' = active + 1
              /\ Goto(p, "inside")
              /\ UNCHANGED parked
           \/ /\ barrier
              /\ Goto(p, "acquiring")
              /\ Park(p)
              /\ UNCHANGED active
        /\ UNCHANGED <<barrier, nextTicket, ticket>>

\* acquire: one turn of its loop.
AcquireAttempt(p) ==
    \E t \in FirstLive(canceled, nextTicket) :
        /\ servingTicket' = t
        /\ canceled' = canceled \ Passed(t)
        /\ \/ /\ ~barrier /\ nextTicket = t
              /\ active' = active + 1
              /\ Goto(p, "inside")
              /\ UNCHANGED parked
           \/ /\ barrier \/ nextTicket # t
              /\ Goto(p, "acquiring")
              /\ Park(p)
              /\ UNCHANGED active
        /\ UNCHANGED <<barrier, nextTicket, ticket>>

AcquireStart(p) == pc[p] = "idle" /\ AcquireAttempt(p)
AcquireRetry(p) == Woken(p, "acquiring") /\ AcquireAttempt(p)

\* Mutant: the release is deferred before the error of acquire is looked at.
AcquireTimeoutReleasing(p) ==
    /\ pc[p] = "acquiring"
    /\ active' = active - 1
    /\ Goto(p, "idle")
    /\ parked' = parked \ {p}
    /\ UNCHANGED <<barrier, nextTicket, servingTicket, canceled, ticket>>

\* The select may take ctx.Done whether or not the channel was closed.
AcquireTimeout(p) ==
    /\ pc[p] = "acquiring"
    /\ Goto(p, "idle")
    /\ parked' = parked \ {p}
    /\ UNCHANGED <<gateVars, ticket>>

\* Mutant: the last operation does not signal.
ReleaseSilent(p) ==
    /\ pc[p] = "inside"
    /\ active' = IF active > 0 THEN active - 1 ELSE active
    /\ Goto(p, "idle")
    /\ UNCHANGED <<barrier, nextTicket, servingTicket, canceled, parked, ticket>>

Release(p) ==
    /\ pc[p] = "inside"
    /\ active' = IF active > 0 THEN active - 1 ELSE active
    /\ IF active' = 0 THEN Signal ELSE UNCHANGED parked
    /\ Goto(p, "idle")
    /\ UNCHANGED <<barrier, nextTicket, servingTicket, canceled, ticket>>

-----------------------------------------------------------------------------
\* begin: one turn of its loop, for the ticket mine, when nextTicket is next.
BeginAttempt(b, mine, next) ==
    \E t \in FirstLive(canceled, next) :
        /\ canceled' = canceled \ Passed(t)
        /\ \/ /\ ~barrier /\ active = 0 /\ mine = t
              /\ servingTicket' = t + 1
              /\ barrier' = TRUE
              /\ Goto(b, "holding")
              /\ UNCHANGED parked
           \/ /\ barrier \/ active # 0 \/ mine # t
              /\ servingTicket' = t
              /\ Goto(b, "beginning")
              /\ Park(b)
              /\ UNCHANGED barrier
        /\ UNCHANGED active

BeginStart(b) ==
    /\ pc[b] = "idle"
    /\ nextTicket <= MaxTickets
    /\ ticket' = [ticket EXCEPT ![b] = nextTicket]
    /\ nextTicket' = nextTicket + 1
    /\ BeginAttempt(b, nextTicket, nextTicket + 1)

BeginRetry(b) ==
    /\ Woken(b, "beginning")
    /\ BeginAttempt(b, ticket[b], nextTicket)
    /\ UNCHANGED <<nextTicket, ticket>>

\* Mutants: the cancelled ticket is not recorded; nobody is told.
BeginTimeoutForgetful(b) ==
    /\ pc[b] = "beginning"
    /\ Signal
    /\ Goto(b, "idle")
    /\ UNCHANGED <<gateVars, ticket>>

BeginTimeoutSilent(b) ==
    /\ pc[b] = "beginning"
    /\ LET c == canceled \cup {ticket[b]}
       IN \E t \in FirstLive(c, nextTicket) :
             /\ servingTicket' = t
             /\ canceled' = c \ Passed(t)
    /\ Goto(b, "idle")
    /\ parked' = parked \ {b}
    /\ UNCHANGED <<active, barrier, nextTicket, ticket>>

BeginTimeout(b) ==
    /\ pc[b] = "beginning"
    /\ LET c == canceled \cup {ticket[b]}
       IN \E t \in FirstLive(c, nextTicket) :
             /\ servingTicket' = t
             /\ canceled' = c \ Passed(t)
    /\ Signal
    /\ Goto(b, "idle")
    /\ UNCHANGED <<active, barrier, nextTicket, ticket>>

\* Mutants: the end of a window does not signal; a second call ends it again.
EndWindowSilent(b) ==
    /\ pc[b] = "holding"
    /\ barrier' = FALSE
    /\ Goto(b, "released")
    /\ UNCHANGED <<active, nextTicket, servingTicket, canceled, parked, ticket>>

EndWindowTwice(b) ==
    /\ pc[b] = "released"
    /\ barrier' = FALSE
    /\ Signal
    /\ Goto(b, "idle")
    /\ UNCHANGED <<active, nextTicket, servingTicket, canceled, ticket>>

\* The release function of a granted window; once.Do makes a second call do
\* nothing, also when another opener owns the window by then.
EndWindow(b) ==
    /\ pc[b] = "holding"
    /\ barrier' = FALSE
    /\ Signal
    /\ Goto(b, "released")
    /\ UNCHANGED <<active, nextTicket, servingTicket, canceled, ticket>>

EndWindowAgain(b) ==
    /\ pc[b] = "released"
    /\ Goto(b, "idle")
    /\ UNCHANGED <<gateVars, parked, ticket>>

-----------------------------------------------------------------------------
\* waitBarrierIdle: one turn of its loop.
WatchAttempt(w) ==
    /\ \/ /\ ~barrier
          /\ Goto(w, "idle")
          /\ UNCHANGED parked
       \/ /\ barrier
          /\ Goto(w, "watching")
          /\ Park(w)
    /\ UNCHANGED <<gateVars, ticket>>

WatchStart(w) == pc[w] = "idle" /\ WatchAttempt(w)
WatchRetry(w) == Woken(w, "watching") /\ WatchAttempt(w)

WatchTimeout(w) ==
    /\ pc[w] = "watching"
    /\ Goto(w, "idle")
    /\ parked' = parked \ {w}
    /\ UNCHANGED <<gateVars, ticket>>

-----------------------------------------------------------------------------
Next ==
    \/ \E p \in Ops :
          AcquireStart(p) \/ AcquireRetry(p) \/ AcquireTimeout(p) \/ Release(p)
    \/ \E b \in Openers :
          \/ BeginStart(b) \/ BeginRetry(b) \/ BeginTimeout(b)
          \/ EndWindow(b) \/ EndWindowAgain(b)
    \/ \E w \in Watchers : WatchStart(w) \/ WatchRetry(w) \/ WatchTimeout(w)

Spec == Init /\ [][Next]_vars

\* A woken caller is scheduled, and whoever got through leaves: the releases
\* are deferred calls.  No caller has to start, and no context has to expire.
Fairness ==
    /\ \A p \in Ops : WF_vars(AcquireRetry(p)) /\ WF_vars(Release(p))
    /\ \A b \in Openers : WF_vars(BeginRetry(b)) /\ WF_vars(EndWindow(b))
    /\ \A w \in Watchers : WF_vars(WatchRetry(w))

FairSpec == Spec /\ Fairness

-----------------------------------------------------------------------------
Inside == {p \in Ops : pc[p] = "inside"}
Holders == {b \in Openers : pc[b] = "holding"}
Requesting == {b \in Openers : pc[b] = "beginning"}
Ahead == [b \in Openers |->
            IF b \in Requesting
            THEN {c \in Requesting : ticket[c] < ticket[b]} ELSE {}]

Places ==
    /\ pc \in [Procs -> {"idle", "acquiring", "inside", "beginning", "holding",
                         "released", "watching"}]
    /\ \A p \in Ops : pc[p] \in {"idle", "acquiring", "inside"}
    /\ \A b \in Openers : pc[b] \in {"idle", "beginning", "holding", "released"}
    /\ \A w \in Watchers : pc[w] \in {"idle", "watching"}

\* Types, and each kind of caller only where its function can be.
TypeOK ==
    /\ active \in Nat
    /\ barrier \in BOOLEAN
    /\ nextTicket \in Nat
    /\ servingTicket \in Nat
    /\ canceled \subseteq Nat
    /\ parked \subseteq Procs
    /\ Places
    /\ ticket \in [Openers -> Nat]

\* While a quiet window is open no card operation is using the card and no
\* other window is open (TestCardIOQuietWindowBlocksBackgroundCardAccess, for
\* every interleaving, with cancelled requests and late second releases).
MutualExclusion ==
    /\ Holders # {} => Inside = {}
    /\ \A b, c \in Holders : b = c

\* The tickets from servingTicket up to nextTicket are exactly those of the
\* requests still waiting and of the requests that were cancelled: none is
\* lost, which would close the gate for good, and none is owed twice.
TicketLedger ==
    /\ servingTicket <= nextTicket
    /\ canceled \subseteq servingTicket .. (nextTicket - 1)
    /\ \A b \in Requesting : ticket[b] \in (servingTicket .. (nextTicket - 1)) \ canceled
    /\ \A b, c \in Requesting : ticket[b] = ticket[c] => b = c
    /\ \A t \in servingTicket .. (nextTicket - 1) :
          t \in canceled \/ \E b \in Requesting : ticket[b] = t

\* Nobody sleeps through the signal he waits for: a caller blocked on the open
\* channel is one the gate still has to keep out, so that closing and
\* replacing g.notifyCh at each of the three signals is enough.
NoLostWakeup ==
    /\ \A p \in Ops \cap parked : barrier \/ Requesting # {}
    /\ \A b \in Openers \cap parked : barrier \/ active # 0 \/ Ahead[b] # {}
    /\ \A w \in Watchers \cap parked : barrier

\* The counter and the flag agree with where the callers are.
ActiveCounts == active = Cardinality(Inside)
BarrierOwned == barrier <=> Holders # {}
ParkedBlocked == \A p \in parked : pc[p] \in {"acquiring", "beginning", "watching"}

\* The inductive strengthening of the safety invariants above.
GateInv ==
    /\ TypeOK
    /\ ActiveCounts /\ BarrierOwned /\ MutualExclusion
    /\ TicketLedger
    /\ ParkedBlocked /\ NoLostWakeup

Abstract == INSTANCE QuietWindow
    WITH inside <- Inside, holders <- Holders, waiting <- Requesting, ahead <- Ahead

\* The gate implements the quiet window: windows are granted in the order of
\* their requests, and no card operation overtakes a request.
RefinesQuietWindow == Abstract!Spec

\* A request for a window is granted or given up, whatever the others do.
WindowRequestSettles ==
    \A b \in Openers : pc[b] = "beginning" ~> pc[b] # "beginning"

\* Once no more windows are requested, a blocked card operation gets through
\* (or gives up).  Without the premise it may starve: windows go first.
CardOperationResumes ==
    \A p \in Ops :
        <>[](Requesting = {}) => (pc[p] = "acquiring" ~> pc[p] # "acquiring")

\* A watcher returns, unless windows follow one another for ever.
WatcherResumes ==
    \A w \in Watchers : <>[]~barrier => (pc[w] = "watching" ~> pc[w] # "watching")

\* Whoever waits at the gate gets through, gives up or, a card operation or a watcher,
\* is held up only by windows that follow one another for ever.
WaitersResume == WindowRequestSettles /\ CardOperationResumes /\ WatcherResumes
=============================================================================
