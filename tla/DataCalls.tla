-------------------------------- MODULE DataCalls --------------------------------
(***************************************************************************)
(* The default IPv4 data call, and the goroutines that dial and tear it    *)
(* down (pkg/manager/manager.go doConnect, doDisconnect, doStatusCheck,    *)
(* handleDialFailure, RotateIP; data_config.go ReconfigureDataConfig).     *)
(*                                                                         *)
(* The event loop, callers of Connect, Disconnect and RotateIP, and        *)
(* ReconfigureDataConfig share the state, the handle and the configuration *)
(* and run concurrently: only ReconfigureDataConfig takes dataOpMu.        *)
(***************************************************************************)
EXTENDS Integers

CONSTANTS Apns,         \* data configurations
          MaxDials,     \* bound on the calls started
          MaxRequests   \* bound on the requests of the callers

DataAssumption == Apns # {} /\ MaxDials \in Nat /\ MaxRequests \in Nat

Goroutines == {"loop", "caller", "config"}
NoCall == 0
Calls == 1 .. MaxDials

VARIABLES state,         \* "disconnected", "connecting" or "connected"
          desired,       \* desiredConnection
          handle,        \* handleV4
          apn,           \* cfg.APN and the families
          starts,        \* eventStart waits in the event channel
          pc,            \* where each goroutine is
          then,          \* where it goes on after doConnect or doDisconnect
          got,           \* the handle its StartNetworkInterface returned
          saved,         \* ReconfigureDataConfig: the old configuration and desired connection
          wanted,        \* its new configuration
          result,        \* what it returned last
          up,            \* the call the modem has
          dials,         \* calls started so far
          apnOf,         \* the configuration each was started with
          orphans,       \* calls of which the manager has no handle: residual ones, and those
                         \* whose start was answered too late or whose stop failed
          overlapped,    \* two goroutines have been at work at once
          requests,
          seen           \* the status check: the state and desired connection it read, and
                         \* whether a call was up

vars == <<state, desired, handle, apn, starts, pc, then, got, saved, wanted, result, up, dials,
          apnOf, orphans, overlapped, requests, seen>>

Rotating == {"rotate", "rotated", "reset", "restart", "renewed"}
Places == {"idle", "check", "dial", "set", "configure", "failed", "stop", "zero", "down",
           "apply", "redialed", "restore", "restored", "status"} \union Rotating

NothingSeen == [state |-> "disconnected", desired |-> FALSE, up |-> FALSE]

Init ==
    /\ state = "disconnected" /\ desired = FALSE /\ handle = NoCall
    /\ apn = (CHOOSE a \in Apns : TRUE) /\ starts = FALSE
    /\ pc = [g \in Goroutines |-> "idle"] /\ then = [g \in Goroutines |-> "idle"]
    /\ got = [g \in Goroutines |-> NoCall]
    /\ saved = [apn |-> apn, desired |-> FALSE, active |-> FALSE]
    /\ wanted = apn /\ result = "none"
    /\ up = NoCall /\ dials = 0 /\ apnOf = [c \in Calls |-> apn] /\ orphans = {}
    /\ overlapped = FALSE /\ requests = 0
    /\ seen = NothingSeen

Idle(g) == pc[g] = "idle"
AllIdle == \A g \in Goroutines : Idle(g)
Goto(g, place) == pc' = [pc EXCEPT ![g] = place]
Call(g, place, return) == Goto(g, place) /\ then' = [then EXCEPT ![g] = return]

\* g begins an operation.
Begins(g) == Idle(g) /\ overlapped' = (overlapped \/ \E h \in Goroutines : ~Idle(h))

(***************************************************************************)
(* doConnect.                                                              *)
(***************************************************************************)
\* Ends with an error: ReconfigureDataConfig cleans up after it.
FailsTo(g) == IF then[g] = "redialed" THEN "restore" ELSE "idle"

Check(g) ==
    /\ pc[g] = "check"
    /\ IF ~desired \/ state = "connected"
       THEN Goto(g, then[g]) /\ UNCHANGED state
       ELSE IF state = "connecting" /\ handle # NoCall
            THEN Goto(g, FailsTo(g)) /\ UNCHANGED state
            ELSE Goto(g, "dial") /\ state' = "connecting"
    /\ UNCHANGED <<desired, handle, apn, starts, then, got, saved, wanted, result, up, dials,
                   apnOf, orphans, overlapped, requests, seen>>

\* StartNetworkInterface: the modem starts a call, and answers in time or too late.
Starts(g, answered, failed) ==
    /\ dials < MaxDials
    /\ up' = dials + 1 /\ dials' = dials + 1
    /\ apnOf' = [apnOf EXCEPT ![dials + 1] = apn]
    /\ \/ /\ got' = [got EXCEPT ![g] = dials + 1]
          /\ Goto(g, answered)
          /\ UNCHANGED orphans
       \/ /\ orphans' = orphans \union {dials + 1}
          /\ Goto(g, failed)
          /\ UNCHANGED got

\* StopNetworkInterface, whose error is ignored: the call ends, or stays up.
Stops(call) ==
    \/ /\ up' = IF up = call THEN NoCall ELSE up
       /\ UNCHANGED orphans
    \/ /\ up = call /\ call # NoCall
       /\ orphans' = orphans \union {call}
       /\ UNCHANGED up

\* Calls that are up are stopped and one is started. Or that cannot be done: the topology or
\* the stop fails, or the modem refuses the start, as it does while a call is up.
Dial(g) ==
    /\ pc[g] = "dial"
    /\ \/ Starts(g, "set", "failed")
       \/ /\ up' \in {NoCall, up}
          /\ Goto(g, "failed")
          /\ UNCHANGED <<got, dials, apnOf, orphans>>
    /\ UNCHANGED <<state, desired, handle, apn, starts, then, saved, wanted, result, overlapped,
                   requests, seen>>

SetHandle(g) ==
    /\ pc[g] = "set"
    /\ handle' = got[g]
    /\ got' = [got EXCEPT ![g] = NoCall]
    /\ Goto(g, "configure")
    /\ UNCHANGED <<state, desired, apn, starts, then, saved, wanted, result, up, dials, apnOf,
                   orphans, overlapped, requests, seen>>

Configure(g) ==
    /\ pc[g] = "configure"
    /\ \/ /\ state' = "connected"
          /\ Goto(g, then[g])
       \/ /\ Goto(g, "failed")
          /\ UNCHANGED state
    /\ UNCHANGED <<desired, handle, apn, starts, then, got, saved, wanted, result, up, dials,
                   apnOf, orphans, overlapped, requests, seen>>

\* handleDialFailure: the timer it starts puts eventStart into the channel.
DialFails(g) ==
    /\ pc[g] = "failed"
    /\ state' = "disconnected"
    /\ starts' = (starts \/ desired)
    /\ Goto(g, FailsTo(g))
    /\ UNCHANGED <<desired, handle, apn, then, got, saved, wanted, result, up, dials, apnOf,
                   orphans, overlapped, requests, seen>>

(***************************************************************************)
(* doDisconnect: the request to stop, then the handle, then the state.     *)
(***************************************************************************)
\* Mutant: the handle is given up and the call is not stopped.
KeepsCall(g) ==
    /\ pc[g] = "stop"
    /\ Goto(g, IF handle = NoCall THEN "down" ELSE "zero")
    /\ UNCHANGED <<state, desired, handle, apn, starts, then, got, saved, wanted, result, up,
                   dials, apnOf, orphans, overlapped, requests, seen>>

StopHandle(g) ==
    /\ pc[g] = "stop"
    /\ Stops(handle)
    /\ Goto(g, IF handle = NoCall THEN "down" ELSE "zero")
    /\ UNCHANGED <<state, desired, handle, apn, starts, then, got, saved, wanted, result, dials,
                   apnOf, overlapped, requests, seen>>

ZeroHandle(g) ==
    /\ pc[g] = "zero"
    /\ handle' = NoCall
    /\ Goto(g, "down")
    /\ UNCHANGED <<state, desired, apn, starts, then, got, saved, wanted, result, up, dials,
                   apnOf, orphans, overlapped, requests, seen>>

Down(g) ==
    /\ pc[g] = "down"
    /\ state' = "disconnected"
    /\ Goto(g, then[g])
    /\ UNCHANGED <<desired, handle, apn, starts, then, got, saved, wanted, result, up, dials,
                   apnOf, orphans, overlapped, requests, seen>>

(***************************************************************************)
(* The callers.                                                            *)
(***************************************************************************)
Asks == requests < MaxRequests /\ requests' = requests + 1

Connect ==
    /\ Asks /\ Begins("caller")
    /\ desired' = TRUE
    /\ IF state = "connected" \/ (state = "connecting" /\ handle # NoCall)
       THEN UNCHANGED <<pc, then>> ELSE Call("caller", "check", "idle")
    /\ UNCHANGED <<state, handle, apn, starts, got, saved, wanted, result, up, dials, apnOf,
                   orphans, seen>>

Disconnect ==
    /\ Asks /\ Begins("caller")
    /\ desired' = FALSE
    /\ IF handle = NoCall /\ state = "disconnected"
       THEN UNCHANGED <<pc, then>> ELSE Call("caller", "stop", "idle")
    /\ UNCHANGED <<state, handle, apn, starts, got, saved, wanted, result, up, dials, apnOf,
                   orphans, seen>>

\* The handle is stopped and given up at once, then a call is started anew.
RotateIP ==
    /\ Asks /\ Begins("caller")
    /\ state = "connected"
    /\ Stops(handle)
    /\ handle' = NoCall
    /\ Goto("caller", "rotate")
    /\ UNCHANGED <<state, desired, apn, starts, then, got, saved, wanted, result, dials, apnOf,
                   seen>>

\* The start is refused while a call is up. A first one that fails is tried again after a
\* radio reset, a second one ends the rotation.
RotateDials ==
    /\ \E first \in BOOLEAN :
          LET failed == IF first THEN "reset" ELSE "idle"
          IN  /\ pc["caller"] = IF first THEN "rotate" ELSE "restart"
              /\ \/ /\ up = NoCall
                    /\ Starts("caller", IF first THEN "rotated" ELSE "renewed", failed)
                 \/ Goto("caller", failed) /\ UNCHANGED <<up, dials, apnOf, got, orphans>>
    /\ UNCHANGED <<state, desired, handle, apn, starts, then, saved, wanted, result, overlapped,
                   requests, seen>>

\* The first start gave the old address: its call is stopped, the radio is reset.
SameAddress ==
    /\ pc["caller"] = "rotated"
    /\ Stops(got["caller"])
    /\ got' = [got EXCEPT !["caller"] = NoCall]
    /\ Goto("caller", "reset")
    /\ UNCHANGED <<state, desired, handle, apn, starts, then, saved, wanted, result, dials, apnOf,
                   overlapped, requests, seen>>

\* A network that cannot be configured leaves the handle, and the state as it was. If only
\* the settings read then show the old address, the radio is reset after a first start.
Rotated ==
    /\ pc["caller"] \in {"rotated", "renewed"}
    /\ handle' = got["caller"]
    /\ got' = [got EXCEPT !["caller"] = NoCall]
    /\ \/ Goto("caller", "idle") /\ state' \in {state, "connected"}
       \/ pc["caller"] = "rotated" /\ Goto("caller", "reset") /\ state' = "connected"
    /\ UNCHANGED <<desired, apn, starts, then, saved, wanted, result, up, dials, apnOf, orphans,
                   overlapped, requests, seen>>

\* rotateViaRadioReset; waiting for the registration, its context may end.
ResetRadio ==
    /\ pc["caller"] = "reset"
    /\ Stops(handle)
    /\ handle' = NoCall
    /\ Goto("caller", "restart") \/ Goto("caller", "idle")
    /\ UNCHANGED <<state, desired, apn, starts, then, got, saved, wanted, result, dials, apnOf,
                   overlapped, requests, seen>>

(***************************************************************************)
(* ReconfigureDataConfig.                                                  *)
(***************************************************************************)
Active == state \in {"connected", "connecting"} \/ handle # NoCall

\* Mutant: a connected manager is not disconnected first.
ReconfigureConnected(new) ==
    /\ Asks /\ Begins("config")
    /\ new # apn
    /\ saved' = [apn |-> apn, desired |-> desired, active |-> Active]
    /\ wanted' = new /\ result' = "none"
    /\ Goto("config", "apply")
    /\ UNCHANGED <<state, desired, handle, apn, starts, then, got, up, dials, apnOf, orphans,
                   seen>>

Reconfigure(new) ==
    /\ Asks /\ Begins("config")
    /\ new # apn
    /\ saved' = [apn |-> apn, desired |-> desired, active |-> Active]
    /\ wanted' = new /\ result' = "none"
    /\ IF Active
       THEN desired' = FALSE /\ Call("config", "stop", "apply")
       ELSE Goto("config", "apply") /\ UNCHANGED <<desired, then>>
    /\ UNCHANGED <<state, handle, apn, starts, got, up, dials, apnOf, orphans, seen>>

\* The new configuration is dialled if the old one was; the context may have ended.
Apply ==
    /\ pc["config"] = "apply"
    /\ \/ /\ apn' = wanted
          /\ IF saved.active /\ saved.desired
             THEN desired' = TRUE /\ Call("config", "check", "redialed") /\ UNCHANGED result
             ELSE Goto("config", "idle") /\ result' = "ok" /\ UNCHANGED <<desired, then>>
       \/ /\ desired' = saved.desired
          /\ Goto("config", "idle") /\ result' = "failed"
          /\ UNCHANGED <<apn, then>>
    /\ UNCHANGED <<state, handle, starts, got, saved, wanted, up, dials, apnOf, orphans,
                   overlapped, requests, seen>>

Redialed ==
    /\ pc["config"] = "redialed"
    /\ \/ Goto("config", "idle") /\ result' = "ok" /\ UNCHANGED then
       \/ Call("config", "stop", "restored") /\ UNCHANGED result
    /\ UNCHANGED <<state, desired, handle, apn, starts, got, saved, wanted, up, dials, apnOf,
                   orphans, overlapped, requests, seen>>

\* cleanupAfterFailedRedial disconnects and restores.
Restore ==
    /\ pc["config"] = "restore"
    /\ Call("config", "stop", "restored")
    /\ UNCHANGED <<state, desired, handle, apn, starts, got, saved, wanted, result, up, dials,
                   apnOf, orphans, overlapped, requests, seen>>

\* Mutant: only the connection intent is restored.
RestoresIntent ==
    /\ pc["config"] = "restored"
    /\ desired' = saved.desired
    /\ Goto("config", "idle") /\ result' = "failed"
    /\ UNCHANGED <<state, handle, apn, starts, then, got, saved, wanted, up, dials, apnOf,
                   orphans, overlapped, requests, seen>>

Restored ==
    /\ pc["config"] = "restored"
    /\ apn' = saved.apn
    /\ desired' = saved.desired
    /\ Goto("config", "idle") /\ result' = "failed"
    /\ UNCHANGED <<state, handle, starts, then, got, saved, wanted, up, dials, apnOf, orphans,
                   overlapped, requests, seen>>

(***************************************************************************)
(* The event loop: eventStart, and the status checks.                      *)
(***************************************************************************)
EventStart ==
    /\ starts /\ Begins("loop")
    /\ starts' = FALSE
    /\ Call("loop", "check", "idle")
    /\ UNCHANGED <<state, desired, handle, apn, got, saved, wanted, result, up, dials, apnOf,
                   orphans, requests, seen>>

\* doStatusCheck reads the state and asks the modem, and acts on what it learnt.
AskStatus ==
    /\ Begins("loop") /\ state # "disconnected" /\ pc["caller"] \notin Rotating
    /\ seen' = [state |-> state, desired |-> desired, up |-> up # NoCall]
    /\ Goto("loop", "status")
    /\ UNCHANGED <<state, desired, handle, apn, starts, then, got, saved, wanted, result, up,
                   dials, apnOf, orphans, requests>>

\* As expected, or the query failed; a call is up that was not connected; one is gone; or
\* its address differs from the one recorded, and the loop disconnects. The eventStart that
\* follows waits until the loop is done.
ActOnStatus ==
    /\ pc["loop"] = "status"
    /\ seen' = NothingSeen
    /\ \/ Goto("loop", "idle") /\ UNCHANGED <<state, handle, starts, then>>
       \/ /\ seen.up /\ seen.state # "connected"
          /\ state' = "connected"
          /\ Goto("loop", "idle")
          /\ UNCHANGED <<handle, starts, then>>
       \/ /\ ~seen.up /\ seen.state = "connected"
          /\ handle' = NoCall /\ state' = "disconnected"
          /\ starts' = (starts \/ seen.desired)
          /\ Goto("loop", "idle")
          /\ UNCHANGED then
       \/ /\ seen.up /\ seen.state = "connected"
          /\ starts' = (starts \/ seen.desired)
          /\ Call("loop", "stop", "idle")
          /\ UNCHANGED <<state, handle>>
    /\ UNCHANGED <<desired, apn, got, saved, wanted, result, up, dials, apnOf, orphans,
                   overlapped, requests>>

\* Before the first dial, which turns auto-connect off, the modem connects by itself, or a
\* call is found that was left over from before.
AutoConnects(a) ==
    /\ up = NoCall /\ dials = 0 /\ dials < MaxDials
    /\ up' = 1 /\ dials' = 1 /\ orphans' = {1}
    /\ apnOf' = [apnOf EXCEPT ![1] = a]
    /\ UNCHANGED <<state, desired, handle, apn, starts, pc, then, got, saved, wanted, result,
                   overlapped, requests, seen>>

\* The network ends the call.
Lost ==
    /\ up # NoCall
    /\ up' = NoCall
    /\ UNCHANGED <<state, desired, handle, apn, starts, pc, then, got, saved, wanted, result,
                   dials, apnOf, orphans, overlapped, requests, seen>>

Next ==
    \/ \E g \in Goroutines :
         \/ Check(g) \/ Dial(g) \/ SetHandle(g) \/ Configure(g) \/ DialFails(g)
         \/ StopHandle(g) \/ ZeroHandle(g) \/ Down(g)
    \/ Connect \/ Disconnect
    \/ RotateIP \/ RotateDials \/ SameAddress \/ Rotated \/ ResetRadio
    \/ \E a \in Apns : Reconfigure(a) \/ AutoConnects(a)
    \/ Apply \/ Redialed \/ Restore \/ Restored
    \/ EventStart \/ AskStatus \/ ActOnStatus \/ Lost

Spec == Init /\ [][Next]_vars

(***************************************************************************)
(* Properties.                                                             *)
(***************************************************************************)
DataTypeOK ==
    /\ state \in {"disconnected", "connecting", "connected"}
    /\ desired \in BOOLEAN /\ starts \in BOOLEAN /\ overlapped \in BOOLEAN
    /\ apn \in Apns /\ wanted \in Apns /\ result \in {"none", "ok", "failed"}
    /\ handle \in Calls \union {NoCall} /\ up \in Calls \union {NoCall}
    /\ pc \in [Goroutines -> Places]
    /\ got \in [Goroutines -> Calls \union {NoCall}]
    /\ dials \in 0 .. MaxDials /\ orphans \subseteq Calls /\ requests \in 0 .. MaxRequests

\* A call that is up can be stopped: the manager has its handle, unless it was up before the
\* manager dialled, the answer to its start was lost, the stop that gave its handle up failed,
\* or two goroutines have been at work on the call at the same time.
CallHasHandle ==
    AllIdle /\ ~overlapped /\ up # NoCall => up = handle \/ up \in orphans

\* As long as ReconfigureDataConfig was alone, the call in use was started with the
\* configuration in force.
FreshDataConfigAlone ==
    AllIdle /\ ~overlapped /\ state = "connected" /\ up # NoCall => apnOf[up] = apn

\* The call in use was started with the configuration in force.
FreshDataConfig == AllIdle /\ state = "connected" /\ up # NoCall => apnOf[up] = apn

\* A change takes effect as a whole or not at all: the configuration in force is the new
\* one after a success and the old one after a failure, whichever step failed.
ConfigAllOrNothing ==
    Idle("config") => /\ result = "ok" => apn = wanted
                      /\ result = "failed" => apn = saved.apn

\* As long as goroutines do not overlap on it, the call that is up can be stopped, unless
\* its handle was never had or given up in a stop that failed, and a connected one has the
\* configuration in force. Whatever overlaps, that changes as a whole.
CallsAccounted == DataTypeOK /\ CallHasHandle /\ FreshDataConfigAlone /\ ConfigAllOrNothing
=============================================================================
