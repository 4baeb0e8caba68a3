-------------------------- MODULE ModemResetRecovery --------------------------
(***************************************************************************)
(* How the manager turns reports of a modem reset into recoveries:         *)
(* enqueueModemResetEvent (pkg/manager/uim_recovery.go), the event loop's  *)
(* handleModemResetEvent and doRecoverFromModemReset, and the retry policy *)
(* (pkg/manager/manager.go).                                               *)
(*                                                                         *)
(* Reports come from many goroutines, the event loop alone recovers.  One  *)
(* action is one critical section of modemResetMu, one attempt to send on  *)
(* eventCh, or one phase of a recovery.  Time is counted in ticks; a timer *)
(* or a phase may always end later than its delay, never earlier.          *)
(***************************************************************************)
EXTENDS Integers, Sequences, SequencesExt

CONSTANTS Reporters,           \* goroutines that report a reset
          Timers,              \* room for timers that are running at once
          QueueCap,            \* capacity of eventCh
          DedupWindow,         \* modemResetDedupWindow
          QuietWindow,         \* modemResetQuietWindow
          DeferDelay,          \* first deferral of an event that found no room
          DeferAgainDelay,     \* second deferral
          BackoffBase,         \* recoverBackoffBase
          BackoffMax,          \* recoverBackoffMax
          BackoffJitter,       \* recoverBackoffJitterRatio, in percent
          BackoffFloor,        \* least delay of a retry, whatever the jitter
          OpenTime,            \* least duration of teardown and reopening
          MaxRecoverAttempts,  \* RecoveryPolicy, 0 for no limit
          MaxReports,          \* bound on the resets reported
          MaxOthers            \* bound on the other events posted

ASSUME RecoveryAssumption ==
    /\ QueueCap \in Nat \ {0}
    /\ {DedupWindow, QuietWindow, DeferDelay, DeferAgainDelay, BackoffBase, BackoffMax,
        BackoffFloor, OpenTime, MaxRecoverAttempts, MaxReports, MaxOthers} \subseteq Nat
    /\ BackoffJitter \in 0 .. 100
    /\ QuietWindow >= DedupWindow
    /\ "loop" \notin Reporters \cup Timers
    /\ Reporters \cap Timers = {}

VARIABLES queue,         \* m.eventCh
          recovering,    \* m.modemResetRecovering
          pending,       \* m.modemResetPending
          deferred,      \* m.modemResetDeferred
          dedupLeft,     \* ticks until modemResetEnqueuedAt is out of the window
          recoverCount,  \* m.recoverCount
          coreReady,     \* m.coreReady
          phaseLeft,     \* ticks the loop's phase must still last
          timer,         \* m.scheduledTimers: the kind and delay of each
          pc,            \* where each goroutine is
          dirty,         \* the modem was reset and not reopened since
          exhausted,     \* the last recovery ended in EventRecoveryExhausted
          reports,       \* resets reported
          others         \* other events posted

resetVars == <<recovering, pending, deferred, dedupLeft>>
countVars == <<reports, others>>
vars == <<queue, recovering, pending, deferred, dedupLeft, recoverCount, coreReady,
          phaseLeft, timer, pc, dirty, exhausted, reports, others>>

Loop == "loop"
Procs == Reporters \cup Timers \cup {Loop}
NoTimer == [kind |-> "none", left |-> 0]

Init ==
    /\ queue = <<>>
    /\ recovering = FALSE
    /\ pending = FALSE
    /\ deferred = FALSE
    /\ dedupLeft = 0
    /\ recoverCount = 0
    /\ coreReady = TRUE
    /\ phaseLeft = 0
    /\ timer = [t \in Timers |-> NoTimer]
    /\ pc = [p \in Procs |-> "idle"]
    /\ dirty = FALSE
    /\ exhausted = FALSE
    /\ reports = 0
    /\ others = 0

Goto(p, label) == pc' = [pc EXCEPT ![p] = label]
Room == Len(queue) < QueueCap

\* scheduleAfter: any free slot will do.
FreeTimers == {t \in Timers : pc[t] = "idle"}
ArmAs(t, kind, delay) == timer' = [timer EXCEPT ![t] = [kind |-> kind, left |-> delay]]

-----------------------------------------------------------------------------
\* enqueueModemResetEvent, run by reporters, by timers and by the loop itself.
Report(p) ==
    /\ pc[p] = "idle"
    /\ reports < MaxReports
    /\ reports' = reports + 1
    /\ dirty' = TRUE
    /\ Goto(p, "check")
    /\ UNCHANGED <<queue, resetVars, recoverCount, coreReady, phaseLeft, timer, exhausted,
                   others>>

Check(p) ==
    /\ pc[p] = "check"
    /\ \/ /\ recovering
          /\ pending' = TRUE
          /\ Goto(p, "idle")
          /\ UNCHANGED dedupLeft
       \/ /\ ~recovering /\ dedupLeft > 0
          /\ Goto(p, "idle")
          /\ UNCHANGED <<pending, dedupLeft>>
       \/ /\ ~recovering /\ dedupLeft = 0
          /\ dedupLeft' = DedupWindow
          /\ Goto(p, "send")
          /\ UNCHANGED pending
    /\ UNCHANGED <<queue, recovering, deferred, recoverCount, coreReady, phaseLeft, timer,
                   dirty, exhausted, countVars>>

\* Mutant: the send does not look whether there is room.
TrySendAnyway(p, label) ==
    /\ queue' = Append(queue, "reset")
    /\ Goto(p, "idle")
    /\ UNCHANGED <<resetVars, recoverCount, coreReady, phaseLeft, timer, dirty, exhausted,
                   countVars>>

\* The select with a default: it never blocks.
TrySend(p, label) ==
    /\ \/ Room /\ queue' = Append(queue, "reset") /\ Goto(p, "idle")
       \/ ~Room /\ Goto(p, label) /\ UNCHANGED queue
    /\ UNCHANGED <<resetVars, recoverCount, coreReady, phaseLeft, timer, dirty, exhausted,
                   countVars>>

Send(p) == pc[p] = "send" /\ TrySend(p, "full")

Full(p) ==
    /\ pc[p] = "full"
    /\ \/ /\ deferred
          /\ pending' = TRUE
          /\ Goto(p, "idle")
          /\ UNCHANGED deferred
       \/ /\ ~deferred
          /\ deferred' = TRUE
          /\ Goto(p, "arm")
          /\ UNCHANGED pending
    /\ UNCHANGED <<queue, recovering, dedupLeft, recoverCount, coreReady, phaseLeft, timer,
                   dirty, exhausted, countVars>>

\* scheduleAfter(200ms); a timer's own goroutine ends as it arms the next one.
Arm(p) ==
    /\ pc[p] = "arm"
    /\ \E t \in FreeTimers \cup ({p} \cap Timers) :
          /\ ArmAs(t, "deferred", DeferDelay)
          /\ pc' = [pc EXCEPT ![p] = "idle", ![t] = "armed"]
    /\ UNCHANGED <<queue, resetVars, recoverCount, coreReady, phaseLeft, dirty, exhausted,
                   countVars>>

-----------------------------------------------------------------------------
\* Timers: the runtime starts the callback, which then runs like any goroutine.
Fire(t) ==
    /\ pc[t] = "armed"
    /\ timer[t].left = 0
    /\ Goto(t, IF timer[t].kind = "retry" THEN "check" ELSE timer[t].kind)
    /\ timer' = [timer EXCEPT ![t] = NoTimer]
    /\ UNCHANGED <<queue, resetVars, recoverCount, coreReady, phaseLeft, dirty, exhausted,
                   countVars>>

DeferredWake(t) ==
    /\ pc[t] = "deferred"
    /\ deferred' = FALSE
    /\ \/ /\ recovering
          /\ pending' = TRUE
          /\ Goto(t, "idle")
          /\ UNCHANGED dedupLeft
       \/ /\ ~recovering
          /\ dedupLeft' = DedupWindow
          /\ Goto(t, "resend")
          /\ UNCHANGED pending
    /\ UNCHANGED <<queue, recovering, recoverCount, coreReady, phaseLeft, timer, dirty,
                   exhausted, countVars>>

Resend(t) == pc[t] = "resend" /\ TrySend(t, "stillFull")

StillFull(t) ==
    /\ pc[t] = "stillFull"
    /\ deferred' = TRUE
    /\ pending' = TRUE
    /\ ArmAs(t, "again", DeferAgainDelay)
    /\ Goto(t, "armed")
    /\ UNCHANGED <<queue, recovering, dedupLeft, recoverCount, coreReady, phaseLeft, dirty,
                   exhausted, countVars>>

AgainWake(t) ==
    /\ pc[t] = "again"
    /\ deferred' = FALSE
    /\ dedupLeft' = 0
    /\ Goto(t, "check")
    /\ UNCHANGED <<queue, recovering, pending, recoverCount, coreReady, phaseLeft, timer,
                   dirty, exhausted, countVars>>

-----------------------------------------------------------------------------
\* The event loop.
PostOther ==
    /\ Room
    /\ others < MaxOthers
    /\ others' = others + 1
    /\ queue' = Append(queue, "other")
    /\ UNCHANGED <<resetVars, recoverCount, coreReady, phaseLeft, timer, pc, dirty,
                   exhausted, reports>>

TakeOther ==
    /\ pc[Loop] = "idle"
    /\ queue # <<>> /\ Head(queue) = "other"
    /\ queue' = Tail(queue)
    /\ UNCHANGED <<resetVars, recoverCount, coreReady, phaseLeft, timer, pc, dirty,
                   exhausted, countVars>>

\* handleModemResetEvent; only the loop sets recovering, so it is FALSE here.
TakeReset ==
    /\ pc[Loop] = "idle"
    /\ queue # <<>> /\ Head(queue) = "reset"
    /\ queue' = Tail(queue)
    /\ recovering' = TRUE
    /\ pending' = FALSE
    /\ Goto(Loop, "teardown")
    /\ UNCHANGED <<deferred, dedupLeft, recoverCount, coreReady, phaseLeft, timer, dirty,
                   exhausted, countVars>>

\* Mutant: cleanup leaves the timers alone.
TeardownKeepingTimers ==
    /\ pc[Loop] = "teardown"
    /\ coreReady' = FALSE
    /\ dirty' = FALSE
    /\ exhausted' = FALSE
    /\ phaseLeft' = OpenTime
    /\ Goto(Loop, "open")
    /\ UNCHANGED <<queue, resetVars, recoverCount, timer, countVars>>

\* doDisconnect and cleanup, which stops every timer that has not fired yet:
\* retries, but deferred reset events as well.
Teardown ==
    /\ pc[Loop] = "teardown"
    /\ coreReady' = FALSE
    /\ dirty' = FALSE
    /\ exhausted' = FALSE
    /\ phaseLeft' = OpenTime
    /\ timer' = [t \in Timers |-> NoTimer]
    /\ pc' = [p \in Procs |-> CASE p = Loop -> "open"
                                [] pc[p] = "armed" -> "idle"
                                [] OTHER -> pc[p]]
    /\ UNCHANGED <<queue, resetVars, recoverCount, countVars>>

\* getRecoverDelay: the base doubled for each failure, up to the maximum, plus or
\* minus a share of it, and never less than the floor.
Backoff(count) ==
    LET delay[n \in 1 .. count] ==
            IF n = 1 THEN BackoffBase
            ELSE IF 2 * delay[n - 1] > BackoffMax THEN BackoffMax ELSE 2 * delay[n - 1]
    IN  delay[count]

JitterRange(delay) == (delay * BackoffJitter) \div 100
RecoverDelays(count) ==
    LET delay == Backoff(count)
        range == JitterRange(delay)
    IN  {IF d < BackoffFloor THEN BackoffFloor ELSE d : d \in (delay - range) .. (delay + range)}

RecoveryExhausted(count) == MaxRecoverAttempts > 0 /\ count > MaxRecoverAttempts

\* Mutant: giving up is not announced.
ScheduleRecoverRetrySilent ==
    \/ /\ RecoveryExhausted(recoverCount + 1)
       /\ recoverCount' = 0
       /\ Goto(Loop, "finish")
       /\ UNCHANGED <<timer, exhausted>>
    \/ /\ ~RecoveryExhausted(recoverCount + 1)
       /\ recoverCount' = recoverCount + 1
       /\ \E t \in FreeTimers, delay \in RecoverDelays(recoverCount + 1) :
             /\ ArmAs(t, "retry", delay)
             /\ pc' = [pc EXCEPT ![Loop] = "finish", ![t] = "armed"]
       /\ UNCHANGED exhausted

ScheduleRecoverRetry ==
    \/ /\ RecoveryExhausted(recoverCount + 1)
       /\ recoverCount' = 0
       /\ exhausted' = TRUE
       /\ Goto(Loop, "finish")
       /\ UNCHANGED timer
    \/ /\ ~RecoveryExhausted(recoverCount + 1)
       /\ recoverCount' = recoverCount + 1
       /\ \E t \in FreeTimers, delay \in RecoverDelays(recoverCount + 1) :
             /\ ArmAs(t, "retry", delay)
             /\ pc' = [pc EXCEPT ![Loop] = "finish", ![t] = "armed"]
       /\ UNCHANGED exhausted

OpenSucceeds ==
    /\ pc[Loop] = "open" /\ phaseLeft = 0
    /\ phaseLeft' = QuietWindow
    /\ Goto(Loop, "quiet")
    /\ UNCHANGED <<queue, resetVars, recoverCount, coreReady, timer, dirty, exhausted,
                   countVars>>

OpenFails ==
    /\ pc[Loop] = "open" /\ phaseLeft = 0
    /\ ScheduleRecoverRetry
    /\ UNCHANGED <<queue, resetVars, coreReady, phaseLeft, dirty, countVars>>

\* The control device node is gone: a terminal event and no retry.
DeviceGone ==
    /\ pc[Loop] = "open" /\ phaseLeft = 0
    /\ recoverCount' = 0
    /\ exhausted' = TRUE
    /\ Goto(Loop, "finish")
    /\ UNCHANGED <<queue, resetVars, coreReady, phaseLeft, timer, dirty, countVars>>

\* waitResetQuietWindow polls: it gives up as soon as it sees a new reset.
QuietBroken ==
    /\ pc[Loop] = "quiet"
    /\ pending
    /\ phaseLeft' = 0
    /\ Goto(Loop, "finish")
    /\ UNCHANGED <<queue, resetVars, recoverCount, coreReady, timer, dirty, exhausted,
                   countVars>>

\* The poll came so late that its context had expired.
QuietOverrun ==
    /\ pc[Loop] = "quiet" /\ phaseLeft = 0
    /\ ~pending
    /\ ScheduleRecoverRetry
    /\ UNCHANGED <<queue, resetVars, coreReady, phaseLeft, dirty, countVars>>

QuietHeld ==
    /\ pc[Loop] = "quiet" /\ phaseLeft = 0
    /\ ~pending
    /\ Goto(Loop, "identity")
    /\ UNCHANGED <<queue, resetVars, recoverCount, coreReady, phaseLeft, timer, dirty,
                   exhausted, countVars>>

\* The identity gate does not fail the recovery; it only takes time.
Converge ==
    /\ pc[Loop] = "identity"
    /\ recoverCount' = 0
    /\ coreReady' = TRUE
    /\ Goto(Loop, "finish")
    /\ UNCHANGED <<queue, resetVars, phaseLeft, timer, dirty, exhausted, countVars>>

\* Mutant: a reset noted during the recovery is not enqueued after it.
FinishForgetful ==
    /\ pc[Loop] = "finish"
    /\ recovering' = FALSE
    /\ pending' = FALSE
    /\ Goto(Loop, "idle")
    /\ UNCHANGED <<queue, deferred, dedupLeft, recoverCount, coreReady, phaseLeft, timer,
                   dirty, exhausted, countVars>>

Finish ==
    /\ pc[Loop] = "finish"
    /\ recovering' = FALSE
    /\ pending' = FALSE
    /\ Goto(Loop, IF pending THEN "check" ELSE "idle")
    /\ UNCHANGED <<queue, deferred, dedupLeft, recoverCount, coreReady, phaseLeft, timer,
                   dirty, exhausted, countVars>>

-----------------------------------------------------------------------------
Less(n) == IF n > 0 THEN n - 1 ELSE 0

Tick ==
    /\ \/ dedupLeft > 0
       \/ phaseLeft > 0
       \/ \E t \in Timers : timer[t].left > 0
    /\ dedupLeft' = Less(dedupLeft)
    /\ phaseLeft' = Less(phaseLeft)
    /\ timer' = [t \in Timers |-> [timer[t] EXCEPT !.left = Less(@)]]
    /\ UNCHANGED <<queue, recovering, pending, deferred, recoverCount, coreReady, pc, dirty,
                   exhausted, countVars>>

Enqueue(p) == Check(p) \/ Send(p) \/ Full(p) \/ Arm(p)
TimerStep(t) == Fire(t) \/ DeferredWake(t) \/ Resend(t) \/ StillFull(t) \/ AgainWake(t)
OpenEnds == OpenSucceeds \/ OpenFails \/ DeviceGone
QuietEnds == QuietBroken \/ QuietHeld \/ QuietOverrun
LoopStep == TakeOther \/ TakeReset \/ Teardown \/ OpenEnds \/ QuietEnds \/ Converge \/ Finish

Next ==
    \/ \E p \in Reporters : Report(p)
    \/ \E p \in Procs : Enqueue(p)
    \/ \E t \in Timers : TimerStep(t)
    \/ LoopStep
    \/ PostOther
    \/ Tick

Spec == Init /\ [][Next]_vars

\* The scheduler runs every goroutine and the clock.  No reset has to happen,
\* and which way an opening or a quiet window ends is left open.
Fairness ==
    /\ WF_vars(Tick)
    /\ WF_vars(LoopStep)
    /\ \A p \in Procs : WF_vars(Enqueue(p))
    /\ \A t \in Timers : WF_vars(TimerStep(t))

FairSpec == Spec /\ Fairness

-----------------------------------------------------------------------------
TypeOK ==
    /\ queue \in Seq({"reset", "other"}) /\ Len(queue) <= QueueCap
    /\ {recovering, pending, deferred, coreReady, dirty, exhausted} \subseteq BOOLEAN
    /\ dedupLeft \in 0 .. DedupWindow
    /\ {recoverCount, phaseLeft, reports, others} \subseteq Nat
    /\ timer \in [Timers -> [kind : {"none", "deferred", "again", "retry"}, left : Nat]]
    /\ pc \in [Procs -> {"idle", "check", "send", "full", "arm",
                         "armed", "deferred", "again", "resend", "stillFull",
                         "teardown", "open", "quiet", "identity", "finish"}]

InQueue(event) == event \in ToSet(queue)
Enqueuing(p) == pc[p] \in {"check", "send", "full", "arm"}

\* Something that runs or is due will start a recovery or decide about one.
Tracked ==
    \/ InQueue("reset")
    \/ \E p \in Procs : Enqueuing(p)
    \/ \E t \in Timers : pc[t] # "idle"
    \/ pc[Loop] = "teardown"
    \/ recovering /\ pending

\* The flag says that a deferred event is under way, but a recovery's cleanup
\* stopped its timer: from then on an event that finds no room is forgotten.
Deferring(p) ==
    \/ pc[p] = "arm"
    \/ p \in Timers /\ (timer[p].kind \in {"deferred", "again"} \/ pc[p] \in {"deferred", "again"})
Stranded == deferred /\ ~\E p \in Procs : Deferring(p)

\* No report of a reset is forgotten: while the modem has been reset under the
\* manager's services, a recovery is on its way, whatever deduplication,
\* coalescing and deferral did with the report.
NoResetForgotten == dirty => Tracked

\* Reopening may fail before the window that the report opened is over: what is
\* reported between that failure and its retry is dropped, and so is the retry.
FailedFast == OpenTime < DedupWindow /\ ~coreReady /\ ~recovering

\* The same, once the two ways out of it that the code does have are granted; a
\* report dropped by the second one leaves a core that is not ready.
NoResetForgottenUnlessStranded == dirty => Tracked \/ Stranded \/ FailedFast

Retrying == {t \in Timers : pc[t] = "armed" /\ timer[t].kind = "retry"}

\* Retries do not pile up: at most one is scheduled, and none once the core is
\* ready again or the terminal event was emitted, also when reports started
\* recoveries of their own while a retry was due.
OneRetry ==
    /\ \A t, u \in Retrying : t = u
    /\ coreReady \/ exhausted => Retrying = {}

\* Every recovery comes to a verdict: the core is ready again, or the terminal
\* event told the caller that it will not be.
RecoveryConcludes == ~coreReady ~> coreReady \/ exhausted

\* The same as long as no report finds the queue full.
QueueHasRoom == \A p \in Procs : pc[p] # "full"
RecoveryConcludesWithRoom == []QueueHasRoom => RecoveryConcludes
=============================================================================
