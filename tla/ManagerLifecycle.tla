--------------------------- MODULE ManagerLifecycle ---------------------------
(***************************************************************************)
(* The data connection of the manager (pkg/manager/manager.go): Start and  *)
(* Stop, the event loop with its bounded queue, dialling and its retries,  *)
(* status checks, recovery from a modem reset, and users who call Connect  *)
(* and Disconnect from goroutines of their own.                            *)
(*                                                                         *)
(* One action is one critical section of m.mu, one exchange with the modem *)
(* or one operation on eventCh.  What a modem reset report goes through    *)
(* before it is in eventCh is the subject of ModemResetRecovery.           *)
(***************************************************************************)
EXTENDS Naturals, Sequences, SequencesExt

CONSTANTS Users,           \* goroutines that call Connect and Disconnect
          QueueCap,        \* capacity of eventCh
          MaxStarts,       \* bound on the calls of Start
          MaxCalls,        \* bound on the calls of Connect and Disconnect
          MaxStimuli       \* bound on these calls, the indications, the ticks of
                           \* the check ticker and the modem resets, together

ASSUME LifecycleAssumption ==
    /\ QueueCap \in Nat \ {0}
    /\ {MaxStarts, MaxCalls, MaxStimuli} \subseteq Nat
    /\ Users \cap {"loop", "handler", "owner"} = {}

VARIABLES state,      \* m.state
          desired,    \* m.desiredConnection
          coreReady,  \* m.coreReady
          client,     \* m.client is open
          handle,     \* m.handleV4 is set
          call,       \* the modem has a data call
          adopted,    \* the connection reported last was found, not dialled
          eventCh,    \* m.eventCh
          ctx,        \* m.ctx
          armed,      \* reconnect timers scheduled
          sending,    \* reconnect timers that fired and have not sent yet
          checkDue,   \* a targeted check is scheduled
          retryDue,   \* a retry of a recovery is scheduled
          pc,         \* where each goroutine is
          after,      \* where the loop goes on when a disconnect is done
          want,       \* the loop's copy of desiredConnection
          count       \* what the bounds bound

connVars == <<state, desired, coreReady, client, handle, call, adopted>>
timerVars == <<armed, sending, checkDue, retryDue>>
procVars == <<pc, after, want>>
vars == <<connVars, eventCh, ctx, timerVars, procVars, count>>

Loop == "loop"
Handler == "handler"
Owner == "owner"
Procs == Users \cup {Loop, Handler, Owner}

\* The modem may have a call of an earlier process or one of its own.
Init ==
    /\ state = "Disconnected"
    /\ desired = FALSE
    /\ coreReady = FALSE
    /\ client = FALSE
    /\ handle = FALSE
    /\ call \in BOOLEAN
    /\ adopted = FALSE
    /\ eventCh = <<>>
    /\ ctx = "none"
    /\ armed = 0 /\ sending = 0 /\ checkDue = FALSE /\ retryDue = FALSE
    /\ pc = [p \in Procs |-> IF p \in {Loop, Handler} THEN "off" ELSE "idle"]
    /\ after = "idle"
    /\ want = FALSE
    /\ count = [starts |-> 0, calls |-> 0, stimuli |-> 0]

At(p, label) == pc[p] = label
Goto(p, label) == pc' = [pc EXCEPT ![p] = label]
Return(p) == Goto(p, IF p = Loop THEN after ELSE "idle")
Stimulus == count.stimuli < MaxStimuli /\ count' = [count EXCEPT !.stimuli = @ + 1]
UserCall ==
    /\ count.calls < MaxCalls /\ count.stimuli < MaxStimuli
    /\ count' = [count EXCEPT !.calls = @ + 1, !.stimuli = @ + 1]

Room == Len(eventCh) < QueueCap
Post(event) == Room /\ eventCh' = Append(eventCh, event)
\* Mutant: the bound is gone.
PostUnbounded(event) == eventCh' = Append(eventCh, event)

PostOrDrop(event) == IF Room THEN eventCh' = Append(eventCh, event) ELSE UNCHANGED eventCh

StopTimers == armed' = 0 /\ checkDue' = FALSE /\ retryDue' = FALSE /\ UNCHANGED sending

-----------------------------------------------------------------------------
\* doConnect, by the event loop or by a user.
DialRefused ==
    \/ ~desired
    \/ state \in {"Connected", "Stopping"}
    \/ state = "Connecting" /\ handle

DialBegin(p) ==
    /\ At(p, "connect")
    /\ \/ DialRefused /\ Return(p) /\ UNCHANGED state
       \/ ~DialRefused /\ state' = "Connecting" /\ Goto(p, "dialing")
    /\ UNCHANGED <<desired, coreReady, client, handle, call, adopted, eventCh, ctx, timerVars,
                   after, want, count>>

\* The topology, StopAnyNetworkInterface, which may fail, and the IPv4 call,
\* which the modem may have set up although no answer came.
Dial(p) ==
    /\ At(p, "dialing")
    /\ \/ Goto(p, "dialFailed") /\ call' \in BOOLEAN
       \/ client /\ Goto(p, "answered") /\ call' = TRUE
    /\ UNCHANGED <<state, desired, coreReady, client, handle, adopted, eventCh, ctx, timerVars,
                   after, want, count>>

\* The assignment to handleV4, outside the lock.
Answered(p) ==
    /\ At(p, "answered")
    /\ handle' = TRUE
    /\ Goto(p, "configuring")
    /\ UNCHANGED <<state, desired, coreReady, client, call, adopted, eventCh, ctx, timerVars,
                   after, want, count>>

\* An IPv6 call, which may fail without consequence and is left out, and
\* configureNetwork.
Configure(p) ==
    /\ At(p, "configuring")
    /\ Goto(p, "dialed") \/ Goto(p, "dialFailed")
    /\ UNCHANGED <<connVars, eventCh, ctx, timerVars, after, want, count>>

DialSucceeds(p) ==
    /\ At(p, "dialed")
    /\ state' = "Connected"
    /\ adopted' = FALSE
    /\ Return(p)
    /\ UNCHANGED <<desired, coreReady, client, handle, call, eventCh, ctx, timerVars, after,
                   want, count>>

\* handleDialFailure: setState, then a look at desiredConnection.
DialFails(p) ==
    /\ At(p, "dialFailed")
    /\ state' = "Disconnected"
    /\ Goto(p, "retry")
    /\ UNCHANGED <<desired, coreReady, client, handle, call, adopted, eventCh, ctx, timerVars,
                   after, want, count>>

ScheduleReconnect(p) ==
    /\ At(p, "retry")
    /\ armed' = IF desired THEN armed + 1 ELSE armed
    /\ Return(p)
    /\ UNCHANGED <<connVars, eventCh, ctx, sending, checkDue, retryDue, after, want, count>>

\* doDisconnect; what StopNetworkInterface answers is ignored.
HangUp(p) ==
    /\ At(p, "hangup")
    /\ call' \in IF handle /\ client THEN {call, FALSE} ELSE {call}
    /\ handle' = (handle /\ ~client)
    /\ Goto(p, "hungup")
    /\ UNCHANGED <<state, desired, adopted, coreReady, client, eventCh, ctx, timerVars, after,
                   want, count>>

\* Mutant: a call hung up by the manager itself leaves the state.
HungUpSilently(p) ==
    /\ At(p, "hungup")
    /\ Return(p)
    /\ UNCHANGED <<connVars, eventCh, ctx, timerVars, after, want, count>>

HungUp(p) ==
    /\ At(p, "hungup")
    /\ state' = "Disconnected"
    /\ Return(p)
    /\ UNCHANGED <<desired, coreReady, client, handle, call, adopted, eventCh, ctx, timerVars,
                   after, want, count>>

DialStep(p) ==
    \/ DialBegin(p) \/ Dial(p) \/ Answered(p) \/ Configure(p)
    \/ DialSucceeds(p) \/ DialFails(p) \/ ScheduleReconnect(p)
HangUpStep(p) == HangUp(p) \/ HungUp(p)

-----------------------------------------------------------------------------
\* Users.  A call that is refused changes nothing and is left out.
Connect(u) ==
    /\ At(u, "idle")
    /\ coreReady /\ state # "Stopping"
    /\ UserCall
    /\ desired' = TRUE
    /\ IF state = "Connected" \/ (state = "Connecting" /\ handle)
       THEN UNCHANGED pc
       ELSE Goto(u, "connect")
    /\ UNCHANGED <<state, coreReady, client, handle, call, adopted, eventCh, ctx, timerVars,
                   after, want>>

Disconnect(u) ==
    /\ At(u, "idle")
    /\ coreReady /\ state # "Stopping"
    /\ UserCall
    /\ desired' = FALSE
    /\ IF handle \/ state \in {"Connected", "Connecting"}
       THEN Goto(u, "hangup")
       ELSE UNCHANGED pc
    /\ UNCHANGED <<state, coreReady, client, handle, call, adopted, eventCh, ctx, timerVars,
                   after, want>>

-----------------------------------------------------------------------------
\* cleanup: the timers, the services and the client with all they hold.
Cleanup ==
    /\ StopTimers
    /\ handle' = FALSE
    /\ call' = FALSE
    /\ coreReady' = FALSE
    /\ client' = FALSE

\* Start: StartCoreContext, and the request for a connection unless NoDial.
\* The owner calls it once New or Stop has returned, or a Start has failed.
StartBegin ==
    /\ At(Owner, "idle") /\ At(Loop, "off")
    /\ ~coreReady /\ state = "Disconnected"
    /\ count.starts < MaxStarts /\ count' = [count EXCEPT !.starts = @ + 1]
    /\ state' = "Connecting"
    /\ desired' = FALSE
    /\ Goto(Owner, "opening")
    /\ UNCHANGED <<coreReady, client, handle, call, adopted, eventCh, ctx, timerVars, after,
                   want>>

StartOpens ==
    /\ At(Owner, "opening")
    /\ client' = TRUE
    /\ Goto(Owner, "launching")
    /\ UNCHANGED <<state, desired, coreReady, handle, call, adopted, eventCh, ctx, timerVars,
                   after, want, count>>

StartFails ==
    /\ At(Owner, "opening")
    /\ Cleanup
    /\ Goto(Owner, "stopped")
    /\ UNCHANGED <<state, desired, adopted, eventCh, ctx, after, want, count>>

StartLaunches ==
    /\ At(Owner, "launching")
    /\ ctx' = "live"
    /\ StopTimers
    /\ pc' = [pc EXCEPT ![Owner] = "launched", ![Loop] = "idle", ![Handler] = "idle"]
    /\ UNCHANGED <<connVars, eventCh, after, want, count>>

StartReady ==
    /\ At(Owner, "launched")
    /\ coreReady' = TRUE
    /\ Goto(Owner, "ready")
    /\ UNCHANGED <<state, desired, client, handle, call, adopted, eventCh, ctx, timerVars,
                   after, want, count>>

StartEnds ==
    /\ At(Owner, "ready")
    /\ state' = "Disconnected"
    /\ Goto(Owner, "idle") \/ Goto(Owner, "dial")
    /\ UNCHANGED <<desired, coreReady, client, handle, call, adopted, eventCh, ctx, timerVars,
                   after, want, count>>

StartDials ==
    /\ At(Owner, "dial")
    /\ desired' = TRUE
    /\ Goto(Owner, "postStart")
    /\ UNCHANGED <<state, coreReady, client, handle, call, adopted, eventCh, ctx, timerVars,
                   after, want, count>>

PostStart(p) ==
    /\ At(p, "postStart")
    /\ Post("start")
    /\ Goto(p, "idle")
    /\ UNCHANGED <<connVars, ctx, timerVars, after, want, count>>

\* Stop.
StopBegin ==
    /\ At(Owner, "idle")
    /\ ctx = "live"
    /\ desired' = FALSE
    /\ state' = "Stopping"
    /\ Goto(Owner, IF ~coreReady /\ state = "Disconnected" THEN "cancelQuietly" ELSE "cancel")
    /\ UNCHANGED <<coreReady, client, handle, call, adopted, eventCh, ctx, timerVars, after,
                   want, count>>

\* Mutant: a manager that looks inactive is not canceled.
StopCancelsUnlessInactive ==
    /\ At(Owner, "cancel") \/ At(Owner, "cancelQuietly")
    /\ StopTimers
    /\ ctx' = IF At(Owner, "cancel") THEN "canceled" ELSE ctx
    /\ Goto(Owner, IF At(Owner, "cancel") THEN "postStop" ELSE "waiting")
    /\ UNCHANGED <<connVars, eventCh, after, want, count>>

StopCancels ==
    /\ At(Owner, "cancel") \/ At(Owner, "cancelQuietly")
    /\ StopTimers
    /\ ctx' = "canceled"
    /\ Goto(Owner, IF At(Owner, "cancel") THEN "postStop" ELSE "waiting")
    /\ UNCHANGED <<connVars, eventCh, after, want, count>>

StopPosts ==
    /\ At(Owner, "postStop")
    /\ PostOrDrop("stop")
    /\ Goto(Owner, "waiting")
    /\ UNCHANGED <<connVars, ctx, timerVars, after, want, count>>

\* Mutant: it does not wait for the loops.
StopCleansAtOnce ==
    /\ At(Owner, "waiting")
    /\ Cleanup
    /\ Goto(Owner, "stopped")
    /\ UNCHANGED <<state, desired, adopted, eventCh, ctx, after, want, count>>

StopCleans ==
    /\ At(Owner, "waiting")
    /\ At(Loop, "off") /\ At(Handler, "off")
    /\ Cleanup
    /\ Goto(Owner, "stopped")
    /\ UNCHANGED <<state, desired, adopted, eventCh, ctx, after, want, count>>

Stopped ==
    /\ At(Owner, "stopped")
    /\ state' = "Disconnected"
    /\ Goto(Owner, "idle")
    /\ UNCHANGED <<desired, coreReady, client, handle, call, adopted, eventCh, ctx, timerVars,
                   after, want, count>>

-----------------------------------------------------------------------------
\* The event loop.  With ctx canceled and an event there, select takes either.
LoopExits(p) ==
    /\ p \in {Loop, Handler}
    /\ At(p, "idle")
    /\ ctx = "canceled"
    /\ Goto(p, "off")
    /\ UNCHANGED <<connVars, eventCh, ctx, timerVars, after, want, count>>

HandlerOf(event) ==
    CASE event = "start" -> "connect"
      [] event = "stop"  -> "hangup"
      [] event = "check" -> "check"
      [] event = "reset" -> "reset"
      [] event = "indication" -> "idle"

TakeEvent ==
    /\ At(Loop, "idle")
    /\ eventCh # <<>>
    /\ eventCh' = Tail(eventCh)
    /\ Goto(Loop, HandlerOf(Head(eventCh)))
    /\ checkDue' = (checkDue \/ Head(eventCh) = "indication")
    /\ UNCHANGED <<connVars, ctx, armed, sending, retryDue, after, want, count>>

Tick ==
    /\ At(Loop, "idle")
    /\ Stimulus
    /\ Goto(Loop, "tick")
    /\ UNCHANGED <<connVars, eventCh, ctx, timerVars, after, want>>

\* The loop sends to itself, and blocks when its queue is full.
PostCheck ==
    /\ At(Loop, "tick")
    /\ Post("check")
    /\ Goto(Loop, "idle")
    /\ UNCHANGED <<connVars, ctx, timerVars, after, want, count>>

Done == Goto(Loop, "idle") /\ want' = FALSE

\* doStatusCheck.
CheckBegin ==
    /\ At(Loop, "check")
    /\ IF state \in {"Stopping", "Disconnected"} \/ ~client
       THEN Done
       ELSE /\ want' = desired
            /\ Goto(Loop, IF state = "Connected" THEN "verify" ELSE "query")
    /\ UNCHANGED <<connVars, eventCh, ctx, timerVars, after, count>>

\* The answer to the packet status query; the query may fail.
CheckQueries ==
    /\ At(Loop, "query") \/ At(Loop, "verify")
    /\ \/ Done
       \/ At(Loop, "query") /\ call /\ Goto(Loop, "restored") /\ UNCHANGED want
       \/ At(Loop, "verify") /\ call /\ Goto(Loop, "mismatch") /\ UNCHANGED want
       \/ At(Loop, "verify") /\ ~call /\ Goto(Loop, "lost") /\ UNCHANGED want
    /\ UNCHANGED <<connVars, eventCh, ctx, timerVars, after, count>>

CheckRestores ==
    /\ At(Loop, "restored")
    /\ state' = "Connected"
    /\ adopted' = TRUE
    /\ Done
    /\ UNCHANGED <<desired, coreReady, client, handle, call, eventCh, ctx, timerVars, after,
                   count>>

\* verifyIPConsistency: the address may have changed.
CheckRedials ==
    /\ At(Loop, "mismatch")
    /\ \/ Done /\ UNCHANGED after
       \/ Goto(Loop, "hangup") /\ after' = "recheck" /\ UNCHANGED want
    /\ UNCHANGED <<connVars, eventCh, ctx, timerVars, count>>

CheckLoses ==
    /\ At(Loop, "lost")
    /\ handle' = FALSE
    /\ state' = "Disconnected"
    /\ Goto(Loop, "recheck")
    /\ UNCHANGED <<desired, coreReady, client, call, adopted, eventCh, ctx, timerVars, after,
                   want, count>>

CheckReconnects ==
    /\ At(Loop, "recheck")
    /\ Goto(Loop, IF want /\ state # "Stopping" THEN "postStart" ELSE "idle")
    /\ want' = FALSE /\ after' = "idle"
    /\ UNCHANGED <<connVars, eventCh, ctx, timerVars, count>>

\* doRecoverFromModemReset.
RecoverBegin ==
    /\ At(Loop, "reset")
    /\ IF state = "Stopping"
       THEN Done /\ UNCHANGED after
       ELSE Goto(Loop, "hangup") /\ after' = "cleanup" /\ want' = desired
    /\ UNCHANGED <<connVars, eventCh, ctx, timerVars, count>>

RecoverCleans ==
    /\ At(Loop, "cleanup")
    /\ Cleanup
    /\ Goto(Loop, "reopening") /\ after' = "idle"
    /\ UNCHANGED <<state, desired, adopted, eventCh, ctx, want, count>>

RecoverOpens ==
    /\ At(Loop, "reopening")
    /\ client' = TRUE
    /\ Goto(Loop, "reopened")
    /\ UNCHANGED <<state, desired, coreReady, handle, call, adopted, eventCh, ctx, timerVars,
                   after, want, count>>

\* A retry, or none when the policy gives up.
RecoverFails ==
    /\ At(Loop, "reopening")
    /\ state' = "Disconnected"
    /\ retryDue' \in BOOLEAN
    /\ Done
    /\ UNCHANGED <<desired, coreReady, client, handle, call, adopted, eventCh, ctx, armed,
                   sending, checkDue, after, count>>

\* The quiet window was broken: the client stays open, the core not ready.
RecoverUnquiet ==
    /\ At(Loop, "reopened")
    /\ retryDue' \in BOOLEAN
    /\ Done
    /\ UNCHANGED <<connVars, eventCh, ctx, armed, sending, checkDue, after, count>>

RecoverReady ==
    /\ At(Loop, "reopened")
    /\ coreReady' = TRUE
    /\ Goto(Loop, "recovered")
    /\ UNCHANGED <<state, desired, client, handle, call, adopted, eventCh, ctx, timerVars,
                   after, want, count>>

\* Mutant: it counts on the timers that cleanup has stopped.
RecoverEndsPassively ==
    /\ At(Loop, "recovered")
    /\ state' = "Disconnected"
    /\ Done
    /\ UNCHANGED <<desired, coreReady, client, handle, call, adopted, eventCh, ctx, timerVars,
                   after, count>>

RecoverEnds ==
    /\ At(Loop, "recovered")
    /\ state' = "Disconnected"
    /\ armed' = IF want THEN armed + 1 ELSE armed
    /\ Done
    /\ UNCHANGED <<desired, coreReady, client, handle, call, adopted, eventCh, ctx, sending,
                   checkDue, retryDue, after, count>>

CheckStep ==
    \/ CheckBegin \/ CheckQueries \/ CheckRestores \/ CheckRedials \/ CheckLoses
    \/ CheckReconnects
RecoverStep ==
    \/ RecoverBegin \/ RecoverCleans \/ RecoverOpens \/ RecoverFails
    \/ RecoverUnquiet \/ RecoverReady \/ RecoverEnds

-----------------------------------------------------------------------------
\* Timers.  A callback looks at m.ctx first; a reconnect then waits for room.
ReconnectFires ==
    /\ armed > 0
    /\ armed' = armed - 1
    /\ sending' = IF ctx = "live" THEN sending + 1 ELSE sending
    /\ UNCHANGED <<connVars, eventCh, ctx, checkDue, retryDue, procVars, count>>

\* Mutant: the event is dropped when the queue is full.
ReconnectSendsOrDrops ==
    /\ sending > 0
    /\ PostOrDrop("start")
    /\ sending' = sending - 1
    /\ UNCHANGED <<connVars, ctx, armed, checkDue, retryDue, procVars, count>>

ReconnectSends ==
    /\ sending > 0
    /\ Post("start")
    /\ sending' = sending - 1
    /\ UNCHANGED <<connVars, ctx, armed, checkDue, retryDue, procVars, count>>

CheckFires ==
    /\ checkDue
    /\ checkDue' = FALSE
    /\ IF ctx = "live" THEN PostOrDrop("check") ELSE UNCHANGED eventCh
    /\ UNCHANGED <<connVars, ctx, armed, sending, retryDue, procVars, count>>

RetryFires ==
    /\ retryDue
    /\ retryDue' = FALSE
    /\ IF ctx = "live" THEN PostOrDrop("reset") ELSE UNCHANGED eventCh
    /\ UNCHANGED <<connVars, ctx, armed, sending, checkDue, procVars, count>>

\* indicationHandler.
Indication ==
    /\ At(Handler, "idle")
    /\ client
    /\ Stimulus
    /\ Goto(Handler, "post")
    /\ UNCHANGED <<connVars, eventCh, ctx, timerVars, after, want>>

PostIndication ==
    /\ At(Handler, "post")
    /\ Post("indication")
    /\ Goto(Handler, "idle")
    /\ UNCHANGED <<connVars, ctx, timerVars, after, want, count>>

ResetReported ==
    /\ client
    /\ Stimulus
    /\ Post("reset")
    /\ UNCHANGED <<connVars, ctx, timerVars, procVars>>

\* The network ends a call, or the modem, left to connect by itself or asked by
\* another client, sets one up.
CallChanges ==
    /\ call' = ~call
    /\ UNCHANGED <<state, desired, coreReady, client, handle, adopted, eventCh, ctx, timerVars,
                   procVars, count>>

-----------------------------------------------------------------------------
LoopStep ==
    \/ TakeEvent \/ PostCheck \/ PostStart(Loop) \/ LoopExits(Loop)
    \/ DialStep(Loop) \/ HangUpStep(Loop) \/ CheckStep \/ RecoverStep
HandlerStep == PostIndication \/ LoopExits(Handler)
StartStep ==
    \/ StartOpens \/ StartFails \/ StartLaunches \/ StartReady \/ StartEnds \/ StartDials
    \/ PostStart(Owner)
StopStep == StopCancels \/ StopPosts \/ StopCleans \/ Stopped
TimerStep == ReconnectFires \/ ReconnectSends \/ CheckFires \/ RetryFires

Next ==
    \/ StartBegin \/ StartStep
    \/ StopBegin \/ StopStep
    \/ LoopStep \/ Tick
    \/ Indication \/ HandlerStep
    \/ TimerStep
    \/ ResetReported \/ CallChanges
    \/ \E u \in Users : Connect(u) \/ Disconnect(u) \/ DialStep(u) \/ HangUpStep(u)

Spec == Init /\ [][Next]_vars

\* Goroutines run and reconnect timers fire.  Nobody has to call anything, no
\* network has to fail and no dial has to succeed.  No property rests on the
\* other timers.
Fairness ==
    /\ WF_vars(LoopStep) /\ WF_vars(HandlerStep) /\ WF_vars(StartStep \/ StopStep)
    /\ WF_vars(ReconnectFires) /\ WF_vars(ReconnectSends)
    /\ \A u \in Users : WF_vars(DialStep(u) \/ HangUpStep(u))

FairSpec == Spec /\ Fairness

-----------------------------------------------------------------------------
Labels ==
    {"off", "idle", "connect", "dialing", "answered", "configuring", "dialed", "dialFailed",
     "retry", "hangup", "hungup", "opening", "launching", "launched", "ready", "dial",
     "postStart", "cancel", "cancelQuietly", "postStop", "waiting", "stopped", "tick", "check",
     "query", "verify", "restored", "mismatch", "lost", "recheck", "reset", "cleanup",
     "reopening", "reopened", "recovered",
     "post"}

TypeOK ==
    /\ state \in {"Disconnected", "Connecting", "Connected", "Stopping"}
    /\ {desired, coreReady, client, handle, call, adopted, checkDue, retryDue, want}
          \subseteq BOOLEAN
    /\ eventCh \in Seq({"start", "stop", "check", "reset", "indication"})
    /\ Len(eventCh) <= QueueCap
    /\ ctx \in {"none", "live", "canceled"}
    /\ armed \in Nat /\ sending \in Nat
    /\ pc \in [Procs -> Labels]
    /\ after \in {"idle", "recheck", "cleanup"}

Queued(event) == event \in ToSet(eventCh)
OnTheAir(p) == pc[p] \in {"dialing", "answered", "configuring", "dialed"}
Dialing(p) == OnTheAir(p) \/ pc[p] \in {"connect", "dialFailed", "retry"}
HangingUp(p) == pc[p] \in {"hangup", "hungup"}
Recovering ==
    \/ pc[Loop] \in {"reset", "cleanup", "reopening", "reopened", "recovered"}
    \/ HangingUp(Loop) /\ after = "cleanup"

\* Something is on its way that will dial, or decide not to.
Pursued ==
    \/ Queued("start") \/ armed > 0 \/ sending > 0
    \/ \E p \in Procs : Dialing(p) \/ At(p, "postStart")
    \/ want /\ (At(Loop, "recheck") \/ Recovering \/ (HangingUp(Loop) /\ after = "recheck"))

\* Up to the first call of Connect or Disconnect the loop is the only one to
\* dial and hang up.  OneDial shows what becomes of that afterwards.
Undisturbed == count.calls = 0

\* A connection that is desired is not forgotten: as long as the core is ready
\* and the manager is not connected, a dial is on its way, whatever became of
\* the dials, checks and recoveries before.
DesiredIsPursued ==
    Undisturbed /\ desired /\ coreReady /\ ctx = "live" /\ state = "Disconnected" => Pursued

\* Once Stop has returned, nothing is left of the connection, no timer is left
\* to make a new one, and the loops have ended, with calls of users or without.
StopLeavesNothing ==
    ctx = "canceled" /\ At(Owner, "idle") =>
        /\ ~coreReady /\ ~client /\ At(Loop, "off") /\ At(Handler, "off")
        /\ Undisturbed => state = "Disconnected" /\ ~handle /\ armed = 0

\* The manager does not report a desired connection that it has no handle to end
\* by, but in the moment between the end of the call and setState, and but for a
\* call it did not dial: a status check that began before Start was done takes a
\* call it finds for a connection restored.
ConnectedHasHandle ==
    Undisturbed /\ state = "Connected" /\ desired => handle \/ HangingUp(Loop) \/ adopted

\* No two goroutines dial at the same time.
OneDial == \A p, q \in Procs : OnTheAir(p) /\ OnTheAir(q) => p = q

\* Stop comes to an end, whatever was on its way when it began.
StopReturns == At(Owner, "waiting") ~> At(Owner, "idle")

\* It does as long as the loop and the indication handler find room in eventCh.
QueueHasRoom ==
    At(Loop, "tick") \/ At(Loop, "postStart") \/ At(Handler, "post") => Room
StopReturnsWithRoom == []QueueHasRoom => StopReturns

\* A desired connection is dialled until it is there, unless the core is lost
\* or the desire ends: no dial that fails is the last one.
KeepsDialing ==
    [](Undisturbed /\ QueueHasRoom) =>
        (desired ~> state = "Connected" \/ OnTheAir(Loop) \/ ~desired \/ ~coreReady)
=============================================================================
