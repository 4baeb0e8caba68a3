# Verification of quectel-qmi-go

TLA+ models of the Go library in this repository that talks to cellular modems
over QMI: what its goroutines do to each other, what the modem may do to them,
and what stays true nevertheless. Small instances are checked with TLC; the
results that matter most are proved with TLAPS for every instance.

Contents: 1 the system; 2 the modules; 3 runs, bounds, fairness; 4 findings and
observations; 5 proofs; 6 what is not modelled; 7 plan.

## 1. The system

The library has two layers. `pkg/qmi` owns the connection to one modem: a client
with a read loop, a writer and an indication loop, and one thin type per QMI
service. `pkg/manager` owns the modem: it opens a client, allocates the
services, watches the SIM and the registration, dials, configures the network,
and recovers when the modem resets. `pkg/netcfg` and `pkg/device` talk to the
kernel.

| Component | State | Operations | Hard about it | Correct when |
|---|---|---|---|---|
| Card access gate (`manager/card_access_gate.go`) | counter of active operations, barrier, ticket lock with cancelled tickets, notify channel | `withCardAccessValue`, `BeginCardIOQuietWindow` and its release, `WaitForIMSCardAccessBarrier` | any interleaving with cancellation; a channel that is closed and replaced; release called twice | windows exclude operations and each other, come in order of request; no ticket and no wakeup is lost |
| Modem reset recovery (`manager/uim_recovery.go`, `manager.go`) | flags recovering, pending, deferred; debounce time; retry count; timers; `eventCh` | `enqueueModemResetEvent`, `handleModemResetEvent`, `doRecoverFromModemReset`, `scheduleRecoverRetry` | reports from many goroutines, a bounded queue, timers that `cleanup` stops | no report is forgotten; retries do not pile up; each recovery ends with a ready core or the terminal event |
| QMI transactions (`qmi/client.go`) | table of pending transactions, id counters, memory of timed-out ones, write queue | `SendRequest`, `writerLoop`, `readLoop`, `Close` | ids come round; late, lost and reordered answers; Close and failures at every point | nobody gets another's answer; no send on a closed channel; Close frees everybody |
| QMI indications (`qmi/client.go`, `pdc.go`, `loc.go`) | indication queue, coalesced store and its signal, `eventCh`; waiters by token | `enqueueIndication`, `indicationLoop`, `Close`; `waitForIndication` | bounded queues between three goroutines, a reader who may never come; an indication right behind the answer | newest state kept, edges in order, no loop stuck; nobody gets another's indication |
| Client ids (`qmi/client.go`, `ctl.go`) | ids per service | allocate, release, revocation by the modem | an answer that comes after its attempt; revocation against allocation | no id leaks but by a loss the code cannot see |
| Manager lifecycle (`manager.go`) | state, desired connection, services, handles, event loop | `Start`, `Stop`, `Connect`, `Disconnect`, status check, reconnect | events left from a former life, the loop sending to itself, Stop against blocked senders | Stop ends; after it nothing is connected; the desired connection is reached |
| Service recovery (`service_recovery*.go`, `uim_recovery.go`) | services, a lock each, time-out counts in a window | `with...Recovery`, `ensure...Service`, `rebind...Service`, `recordServiceTimeoutFailure` | concurrent rebinds, a core recovery that replaces the client | services installed belong to the client in use; one recovery per storm |
| PDN sessions (`pdn_session.go`, `data_plane.go`) | sessions, mux ids, generation of the topology | `OpenPDN`, `Close`, `ConvergeDataPlane`, `closeManagedPDNSessions` | failure halfway, close after cleanup | a call and a client id belong to a session; a stale session takes nothing away |
| QMAP mux interfaces (`netcfg/linux.go`, `qmap_topology_linux.go`) | the kernel's interfaces, named as they come | `AddQMAPMux`, `GetQMAPMuxIface`, discovery, `ReconcileResidualMux` | several modems, interfaces a crashed process left | each modem configures an interface of its own |
| Data plane (`data_config.go`, parts of `manager.go`) | handle, state, configuration | dial, disconnect, reconfigure, rotate | the loop and callers run next to each other | a call that is up can be ended and has the configuration in force |
| IMS probe slot (`ims_probe.go`) | slot, block flag, quiet window | `beginIMSProbe`, `blockIMSProbes` | probe against cleanup | no probe uses a client that was given up |
| Snapshot (`snapshot.go`, `device_query.go`) | identities with a generation, serving system | update, reset, queries, refresh timer | card change during a read, old answers, lost indications | no identity of a former SIM; the serving system ends up right |
| Callbacks (`callbacks.go`) | handlers, queue, `dropped` | `On...`, `Emit`, `Close`, `Clear` | emit against close, full queue, handlers that panic or write to the payload | accepted events reach handlers once, in order, each with a copy of its own |
| Pool (`pool.go`) | managers by name, health status, two monitor loops | add, remove, scan, health check, start and stop of the loops | loop lifetimes, a modem that goes while its manager starts | what runs is in the pool; no status without a modem |
| Transports (`qmi/qrtr_transport_linux.go`, `proxy_transport_linux.go`) | QRTR port table, sockets and readers; the attempt to start qmi-proxy | open, read, write, close, lookup | Close against an allocation; many openers | no socket and no reader outlives Close; one start per need |
| Frame codec and services (`qmi/frame.go`, `nas.go`, `uim.go`, ...) | none | requests, decoders | lengths and counts in messages | no read past a TLV; a refusal is reported |
| SIM provisioning (`uim_readiness.go`, `uim_provisioning.go`, `device_query.go`) | none; the modem's session and power | `EnsureSIMProvisioned`, rebind, power cycle | two requests with a wait between; callers next to each other | what was taken down is put up again; a bounded number of rebinds |
| SMS centre (`smsc.go`, `sms_trim.go`) | none | reading with fallbacks | records of the card | see decoders |
| Readiness of the SMS service (`manager.go`, 1316 to 1900) | cached routes and SMS centre, two pending flags | recover, replay, refresh | refreshes that outlive cleanup; a modem that lost its routes | routes come back and are not replaced; flags have owners |
| Other network configuration (`netcfg`), discovery (`device`), lease services, tools (`cmd`) | the kernel's | system calls, sysfs | - | - |

Interactions. Every service call is a transaction of the client. Indications
leave the client through `Events()`; the manager's `indicationHandler` turns
them into events for its event loop, into snapshot updates and into callbacks.
Timers (`scheduleAfter`) and service failures also send events to the loop. The
loop connects, disconnects and recovers; users do so next to it. Card operations
of all of them, and of library users, pass the card gate. `cleanup` is where the
parts meet: it blocks probes, closes sessions, forgets the topology, closes the
services and the client, and stops the timers. Where a component's own module
does not contain another's state, it contains this step of it: a client that is
given up and another that is opened.

## 2. Modules

| Module | Models | Checked in |
|---|---|---|
| `QuietWindow` | what the gate promises: abstract specification | `gate` |
| `CardAccessGate`, `CardAccessGateProofs` | `card_access_gate.go`, whole | `gate`, proofs |
| `QmiTransactions`, `QmiTransactionsProofs` | requests and responses of `client.go` | `transactions`, proofs |
| `QmiIndications`, `QmiIndicationsProofs` | indications of `client.go` | `indications`, proofs |
| `ModemResetRecovery`, `ModemResetRecoveryProofs` | reset reports, recoveries and retries | `reset`, proofs |
| `ManagerLifecycle`, `ManagerLifecycleProofs` | `Start`, `Stop`, `Connect`, `Disconnect`, event loop, dialling, status checks | `lifecycle`, proofs |
| `EventEmitter` | `callbacks.go` | `parts`, `parts_fair`, proofs |
| `ServiceRebind` | getting, rebinding and losing a service | `parts`, `parts_fair`, proofs |
| `ServiceTimeouts` | counting of timeouts, storms | `parts`, proofs |
| `DeviceIdentities` | cached identities of the SIM | `parts`, proofs |
| `PdnSessions` | sessions, topology, `cleanup` | `parts`, proofs |
| `QmapMuxes` | the kernel's mux interfaces and several modems | `parts`, proofs |
| `ImsProbe` | probes against `cleanup` | `parts`, `parts_fair`, proofs |
| `ServingSnapshot` | what is remembered of the network | `parts`, `parts_fair`, proofs |
| `DataCalls` | dialling, reconfiguration, rotation, status check | `parts`, proofs |
| `QmiClientIds` | allocation, release, revocation | `parts`, proofs |
| `IndicationWaits` | PDC and LOC operations answered by an indication | `parts`, proofs |
| `QrtrTransport` | QRTR sockets, lookups, Close | `parts`, `parts_fair`, proofs |
| `ProxyStart` | the start of qmi-proxy by many openers | `parts`, `parts_fair`, proofs |
| `SimProvisioning` | bringing a SIM into service | `parts`, proofs |
| `SmsReadiness` | what is cached of the SMS service and put back | `parts`, proofs |
| `Pool` | the pool, its watcher and its health monitor | `parts`, proofs |
| `QmiDecoding` with `QmiSteps` | what a decoder does with a message of any length | `parts` |
| `NasMessages`, `WdsMessages`, `DmsMessages`, `UimMessages`, `WmsMessages`, `VoiceMessages`, `OtherMessages`, `FrameMessages`, `SmscMessages` | the operations and decoders of the services, as programs of `QmiSteps` | `parts` |
| `Parts` | the components from `EventEmitter` to `QmiDecoding` side by side, and what each promises | `parts`, proofs |
| `ManagerPartsProofs`, `ClientPartsProofs` | theorems about `Parts` | proofs |
| `QueueLemmas` | lemmas on sequences and numbers, for the proofs | proofs |
| `MCModemResetRecovery`, `MCParts`, `MCFairParts` | instances for TLC: symmetry, the values of `Parts` with four of its parts once more, and the parts under fairness; the other modules get their instance from their cfg alone | `reset`, `parts`, `parts_fair` |

Each module has the mutated operators beside the operators they alter (comments
"Mutant: ..."); they are not part of the specifications. They are the bugs used
to see that the properties can fail.

A module that folds several promises into one property names them: the last
definition of the module is their conjunction, and each conjunct is stated
above it with its own comment.

### CardAccessGate

One action is one critical section of `g.mu`. `acquire` and `begin` are loops; an
attempt (`AcquireAttempt`, `BeginAttempt`) is one turn: skip the cancelled
tickets, look, go in or wait. A waiter captures `notifyCh` before it unlocks, and
a signal closes and replaces the channel, so all that matters of channels is the
set `parked` of callers whose captured channel is still the current one. A retry
is only possible for a caller outside `parked`; a cancellation (`...Timeout`) is
possible at any time and, as in the select, also for a caller that was woken.
`EndWindow` is the first call of a window's release function and `EndWindowAgain`
any later one, also after the next opener was granted its window.

`QuietWindow` says the same without tickets, signals and retries: operations
enter when no window is open or requested, windows are granted in the order of
requests once nobody is inside. `RefinesQuietWindow` maps the places of the
callers to its four sets.

### QmiTransactions

A behaviour is of one service, the control service or another (`service`), for the key
of the table has the service in it. A request is its number; `IdOf` gives the
transaction id, which comes round after `IdSpace` requests. `Register`, `Submit`,
`WriteResult`, `Response` and `Complete` are the stages of `SendRequest` and its
deferred `completeTransaction`; every wait of it also ends with the context (`GiveUp`)
and with `closeCh` (`SeesClosed`). `TakeWrite`, `Write` and `WriterStops` are
`writerLoop`; `Read` looks the answer's id up under `c.mu`, and `Deliver` sends to the
entry found, after the unlock. `Unmatched` is the search in the recent transactions,
which `client.go:635` makes for every service but the control service: a late response
of that one always becomes an unknown event, and `LateResponseAbsorbed` says so.
`ReadFails` and `ReaderStops` end the read loop; `FailPending` closes all channels.
`Close`, `CloseConn` and `CloseEnds` are `Close`: `closeCh`, then the connection, up to
which a write may still succeed, then `wg.Wait` and the rest. `CloseReleases` asks that
no caller is left in `SendRequest`, at whichever of its waits `Close` met him. The modem
is external: it receives what is written and answers in any order (`Read(r)`), or not at
all (`Ignore`). The answer to a request comes at most once.

One assumption: an id is not used again while the modem still has the request it
was used for before, or that request is still in the client's hands (a guard of
`Register`). With 16 bits of ids this asks that of 65535 consecutive requests the
first has been answered or dropped; with the 8 bits of the control service, 255.
The code does not check it. The recent memory is also keyed by id: an entry is
replaced by a newer one of its id (`Forget`), makes room when the memory is full
(`Remember`), and grows too old (`Expire`), the oldest first.

### QmiIndications and IndicationWaits

Indications are numbered. `Receive` is `dispatchIndication`, then `Enqueue` puts
it into the queue or finds it full (`FindFull`): an event of a kind in `Kinds`
goes to the store (`Store`, `SendSignal`), any other waits for room for 25 ms and
is then dropped (`DropEdge`). `PopCoalesced`, `TakeQueued`, `TakeSignal`,
`DeliverEvent`, `LoopStops` are `indicationLoop`. The user of `Events()` is
external (`Consume`).

`IndicationWaits` is the other way an indication goes: a handler registered at
the client (`client_indication_handler.go`), which hands it to the waiter with
its token. The operations of PDC and LOC register their waiter after the answer
to their request has arrived.

### ModemResetRecovery

Every goroutine that runs `enqueueModemResetEvent` goes through `Check` (the
critical section), `Send` (the select with a default), `Full` and `Arm`: reporters,
timer callbacks and the loop itself. `Fire` starts a timer's goroutine;
`DeferredWake`, `Resend`, `StillFull` and `AgainWake` are the two nested callbacks.
The loop takes an event, tears down (`Teardown`: `doDisconnect` and `cleanup`, which
stops the timers that have not fired), opens, waits for the quiet window, waits
for the identities, and finishes by enqueueing a pending reset. Time is in
ticks; nothing ends before its delay, anything may end later. `TakeOther` and
`PostOther` stand for all other events in `eventCh`, reconnect timers included.
Not in the module: `Stop` during a recovery, the reconnect after it, and
`MaxRecoverElapsed`.

`Timers` is the room for running timers, a bound of the model; a goroutine that
arms one when there is none waits. `recoverCount` is kept below
`MaxRecoverAttempts` by the code itself where that is positive.

### ManagerLifecycle

Four kinds of goroutines: the event loop, the indication handler, the owner, who
calls `Start` and `Stop`, and users, who call `Connect` and `Disconnect`. `pc` says
where each one is; the same dialling actions (`DialBegin`, `Dial`, `Answered`,
`Configure`, `DialSucceeds`, `DialFails`, `ScheduleReconnect`: `doConnect` and
`handleDialFailure`) and the same hanging up (`HangUp`, `HungUp`: `doDisconnect`) are
taken by the loop or by a user, for the code runs them on the goroutine of the
caller. One action is one critical section of `m.mu`, one exchange with the modem,
or one operation on `eventCh`; the handle is stored outside the lock and so has an
action of its own (`Answered`). `Check...` are the steps of `doStatusCheck`,
`Recover...` those of `doRecoverFromModemReset`, with the copy of
`desiredConnection` that both make at their start (`want`). `PostCheck` and
`PostStart(Loop)` are the sends of the loop to its own queue, which block;
`PostOrDrop` is the select with a default. A timer that fired is past
`stopScheduledTimers`: `sending` counts the reconnects that wait for room.

What a reset report goes through before it is in the queue, and what the quiet
window waits for, is `ModemResetRecovery`'s; here a report is in the queue at
once (`ResetReported`), and opening succeeds or fails as it likes. `call` is the
modem's side: a dial without an answer may have set one up, what
`StopNetworkInterface` answers is ignored by the code and open in the model,
closing the client ends the call (its client id is released), and the network
may end it, or the modem set one up by itself, at any time (`CallChanges`); a call of
an earlier process may be up at the start. A status check that began while `Start`
was still connecting takes such a call for a connection restored, and the manager then
reports Connected without a handle: `adopted` marks this, the exception in
`ConnectedHasHandle`. `AutoReconnect` is on.

The owner calls `Start` only after `New`, `Stop` or a failed
`Start`: the code does not insist on it. During a recovery the core is not ready
and the state is Disconnected, so `StartCoreContext` would accept the call and
launch a second loop.

`Undisturbed` (no user has called yet) is a premise of the properties about the
connection, because `Connect` and `Disconnect` run next to the loop without
exclusion and break all of them: a `Disconnect` during the loop's dial finds no
handle and ends nothing, and the dial then sets Connected; a `Disconnect` during
`StartCoreContext` does the same to its state; the loop's `doDisconnect` overwrites
Stopping with Disconnected, so that a `Connect` during `Stop` is accepted. `OneDial`
is the part of this that the tests of the repository speak of.

### EventEmitter

Emitters, the loop and users who register, clear and close. A payload is known
by the references inside it; `cloneEvent` copies some of them, and what it does
not copy a handler shares with everybody. `ClosedRefuses`, `DeliveryInOrder`,
`PayloadIsolated`; under fairness `QueuedReachesHandlers`, also past handlers that
panic, and `CloseEndsLoop`.

### ServiceRebind and ServiceTimeouts

In `ServiceRebind` an operation ensures its service, runs, may time out or find
its id invalid, rebinds under the lock of the service, and runs again; the core
recovery closes the client, opens the next and allocates anew. An id is a number
of its allocation. The seven services' functions are written alike and are one
set of actions; they differ in when they ask for a core recovery (`Escalates`).
`InstalledOfClient`, `ClosedNotInstalled` and `NoIdForgotten` say what is installed
and what is not lost. `NoSelfWait` is stated and does not hold: the replay after a
rebind of WMS runs an operation of WMS under the lock of WMS, and a timeout in it
waits for that lock. `OperationReturns` has it as its exception.

`ServiceTimeouts` keeps a log of what happened beside the code's count and first
time, and compares: a retry has its `Threshold` timeouts (`RetriedForReason`),
none is overlooked in a window (`TimeoutsAddUp`), a storm is two services within
the storm window and outside the cooldown (`StormForReason`).

### DeviceIdentities and ServingSnapshot

Identities are read one request after the other by goroutines that were started
in some generation; cards change meanwhile, and their change is reported later.
`OfPresentCard` and `KnownIsKept` say that the generation does its work. The
serving system is written from indications, in two steps, from two queries and
by `Reset`; indications may be lost, queries may fail, and the refresh is scheduled on a
registration. A status check asks only while it is a full one of a manager that is
connected or connecting and not rotating (`polls`, which changes at will).
`RegisteredIsRefreshed` (under fairness) says that the refresh runs, and
`SnapshotConverges` that the serving system ends up right if full checks get an answer
again and again, which is its premise: nothing makes the code check. `PlmnNotForgotten`
and `RegistrationFromReport` say what no write may do on the way.

### PdnSessions and QmapMuxes

`PdnSessions` has one modem: `OpenPDN` under `dataPlane.mu` step by step with a
failure after each, `Close` by its holder and by `cleanup`, and the generations. The
stop of the call and the release of the WDS id may fail as well, on every way back;
nobody tries them again (`unreleased`), and `NothingWithoutSession` excepts those ids.
`NothingWithoutSession`, `StoppedOnce`, `CleanupClosesSessions` and
`StaleKeepsMuxInLife` hold; `StaleKeepsMux`, without the exception for a session
that outlived its client, is stated and does not (generations start at 1 again).

`QmapMuxes` has several modems and one kernel, which names interfaces as they
come. The code finds them again by id (`GetQMAPMuxIface`) or by master
(discovery). Managers crash and start anew beside interfaces they left, modems are
replugged, `del_mux` may be refused. `DefaultMuxIsOwn` and `CleanupLeavesNoMux` hold
with the exceptions they name, which are what section 4 says of this file.

### DataCalls

The event loop, a caller and `ReconfigureDataConfig` on one call and one
configuration. `Starts` and `Stops` are the two requests: a start may be answered too
late, and a stop whose error is ignored may leave the call up. `RotateIP` goes through
`RotateDials`, `SameAddress`, `Rotated` and `ResetRadio`, the second attempt after a
radio reset included; before the first dial the modem may connect by itself or have a
call left over (`AutoConnects`). `orphans` are the calls of which the manager has no
handle by one of these ways; any other call that is up has its handle
(`CallHasHandle`), and a connected one the configuration in force
(`FreshDataConfigAlone`), as long as goroutines did not overlap on it;
`ConfigAllOrNothing` holds whatever overlaps. `FreshDataConfig`, without the premise,
is stated and does not hold. What a `Disconnect` during a dial leaves behind is
reachable in the model, and outside of every property.

### ImsProbe

A prober takes the slot, its client, the quiet window and a call, and gives all
of them back whatever fails or is cancelled; `cleanup` blocks further ones,
cancels the one that runs and waits. The IMS probe's waiting for registration and
its settings are single steps.

### QmiClientIds, QrtrTransport, ProxyStart

`QmiClientIds`: the modem allocates an id for each request it gets, late answers
included; `IdsAccounted` names the only two ways an id is left behind, a late answer
and a release that failed. A release that was carried out and not answered leaves the
dead id cached (`unanswered`), as a revocation that is handled late does: these are the
exceptions in `CachedIsLive`.
`QrtrTransport`: the writer's lookup and allocation, a reader per socket and
`Close`; the table of services changes while a lookup waits. `ProxyStart`: openers
with a context each, one attempt in a table, and processes that bind, serve and
end; `Others` are proxies that something else starts.

### SimProvisioning

Callers read the card, decide, and rebind or power-cycle, in two requests each;
a request that fails may have been carried out. `SessionRestored` and
`PowerRestored` say that what is down is in the hands of the caller who took it down,
unless his last step was cut short by his context, a refusal or a lost answer;
`RebindsBounded` that a call takes the session down a bounded number of times.

### SmsReadiness

Refreshers are the goroutines of `recoverWMSState`, of a rebind's replay and of
`maybeRefreshWMSReadiness`; the modem resets and loses its routes, users set
others, and `cleanup` takes away what a refresh writes to but does not stop it.
`PendingIsOwned` says that a pending flag belongs to a refresh that will reset it,
`RoutesRestored` that routes come back, `RoutesNotReverted` that routes the modem has
are not replaced by the cache, `RoutesKnownTruly` that what is said to be known is
so, `AddressNotForgotten` that a failing refresh takes no address away. The marks
`failed`, `raced`, `overtaken` and `crossed` are the exceptions; they are history and
change nothing in the behaviour. A reset of the modem counts (`resets`), so that an
answer from before it can be told from one after. An answer of the modem is chosen
where it is written, as nothing relates the address to the rest.

### Pool

A scan, `Add` and `Remove` hold the pool's lock and are one step; discovery,
`Start` and a health check run outside it. The loops look their context up at every
turn: a loop of an earlier start may go on under the context of a later one, or
meet none at all, which ends the process (`crashed`; the rest of the pool is
looked at as it was).

### QmiSteps, QmiDecoding and the message modules

An operation or a decoder of a service is a program: it asks, looks at the
result, finds a TLV or not, compares a length, reads, repeats. A message module
writes down the programs of its service, in a line or a few each, with what the
code compares and reads; values are left out, counts and lengths are kept.
`QmiDecoding` runs any of them on any message: the length of the TLV is not chosen
in advance, `avail` is what the comparisons so far have shown, and a read beyond it
is an overrun, which in Go is a panic that nothing recovers. `ReadsInside` and
`RefusalsReported` are the two promises; the former has the two places where a
length wraps before it is compared as its exception.

## 3. Runs

| Run | Instance | Shows |
|---|---|---|
| `gate` | 2 operations, 3 openers, 1 watcher, 4 tickets | `TypeOK`, `MutualExclusion`, `TicketLedger`, `NoLostWakeup`, `RefinesQuietWindow`; liveness `WaitersResume`; no deadlock |
| `transactions` | 2 callers of the control service or another, ids come round after 2, write queue 1, memory 1, 3 requests | `TypeOK`, `OwnResponse`, `TableSound`; liveness `CloseReleases`, `SentIsAnswered` |
| `indications` | 2 kinds and edges, queues of 1, 4 indications | `TypeOK`, `NewestKept`, `EdgesInOrder`, `StoreSound`; liveness `NothingStuck`, `StoredIsDelivered` |
| `indications_latest` | as above, 5 indications | violation: `NewestSeenLast` |
| `reset` | 2 reporters, 2 timers, queue of 1, 2 reports, 1 other event | `TypeOK`, `NoResetForgottenUnlessStranded`, `OneRetry`; liveness `RecoveryConcludesWithRoom` |
| `reset_lost` | as `reset` | violation: `NoResetForgotten` |
| `reset_retry` | 1 reporter, reopening takes no time | violation: `RecoveryConcludes` |
| `lifecycle` | 1 life, 1 user, 1 call, queue of 2, any 2 of the call, indications, ticks and resets | `TypeOK`, `DesiredIsPursued`, `ConnectedHasHandle`, `StopLeavesNothing`; liveness `StopReturnsWithRoom`, `KeepsDialing` |
| `dial_twice` | as above | violation: `OneDial` |
| `stop_hang` | no user, queue of 1 | violation: `StopReturns` |
| `parts` | the instances below | `EmitterDelivers`, `ServicesTracked`, `RecoveryForReason`, `SnapshotTruthful`, `SessionsOwnCalls`, `ProbesContained`, `CallsAccounted`, `ClientsTracked`, `DecodersSound`, `PoolKeepsModems`, `SimKeptUsable`, `OthersHoldToo` |
| `parts_fair` | smaller instances of six parts | liveness `PartsGetOn` |

Properties made of several:

| Property | Is |
|---|---|
| `WaitersResume` | `WindowRequestSettles`, `CardOperationResumes`, `WatcherResumes` |
| `TableSound` | `TableAccurate`, `NoSendOnClosed`, `LateResponseAbsorbed` |
| `StoreSound`, `NothingStuck` | `StoredIsSignalled`, `StoreConsistent`; `ReaderNeverStuck`, `CloseCompletes` |
| `EmitterDelivers` | `DeliveryInOrder`, `ClosedRefuses`, `PayloadIsolated` |
| `ServicesTracked` | `InstalledOfClient`, `ClosedNotInstalled`, `NoIdForgotten` |
| `RecoveryForReason` | `RetriedForReason`, `TimeoutsAddUp`, `StormForReason` |
| `SnapshotTruthful` | `OfPresentCard`, `KnownIsKept`; `PlmnNotForgotten`, `RegistrationFromReport`; `PendingIsOwned`, `RoutesKnownTruly`, `RoutesNotReverted`, `RoutesRestored`, `AddressNotForgotten` |
| `SessionsOwnCalls` | `NothingWithoutSession`, `StoppedOnce`, `CleanupClosesSessions`, `StaleKeepsMuxInLife`; `DefaultMuxIsOwn`, `CleanupLeavesNoMux` |
| `ProbesContained` | `NoProbeOnClosedClient`, `OneProbe`, `CleanupCancelsProbe`, `CallInQuietWindow` |
| `CallsAccounted` | `CallHasHandle`, `FreshDataConfigAlone`, `ConfigAllOrNothing` |
| `ClientsTracked` | `IdsAccounted`, `CachedIsLive`; `ClosedForGood`, `SocketsAreClients`, `LookupWakes`; `OwnIndication`, `InVainIfMissed`; `OneOwner`, `NoForkBesides`, `WaiterFailsWithReason` |
| `DecodersSound` | `ReadsInside`, `RefusalsReported` |
| `PoolKeepsModems` | `RunsInPool`, `StatusOfPool` |
| `SimKeptUsable` | `SessionRestored`, `PowerRestored`, `RebindsBounded` |
| `OthersHoldToo` | the promises of `ServiceRebind`, `Pool`, `QmapMuxes` and `SmsReadiness` on four more instances: rebind WMS, pool watched twice, muxes of one, sms address |
| `PartsGetOn` | `NewsArrives`, `WaitsEnd` |
| `NewsArrives` | `QueuedReachesHandlers`, `RegisteredIsRefreshed`, `SnapshotConverges` |
| `WaitsEnd` | `CloseEndsLoop`, `OperationReturns`, `CleanupGetsPastProbes`, `CloseEnds`, `WaitersReturn` |

### Bounds

*gate*: three openers and four tickets give a waiting line in which the middle ticket is
cancelled, and one opener comes twice; the proofs cover all larger instances for the
safety properties. *transactions*: two callers and two ids make the third request use
the id of the first, which may have been answered, timed out, or be remembered; a queue
of one is full while the writer holds another frame. Ad hoc runs with four requests, and
with three ids and five requests (6.9 million states), found nothing else.
*indications*: with queues of one, four indications fill both queues, the loop's hand
and the store, and a newer event replaces a stored one; six indications were checked
once for the safety properties. *reset*: a queue of one filled by another event makes a
report find it full twice in a row while another goroutine reports; two timers allow a
retry and a deferral at once. A tick is half a second: the debounce and quiet windows of
1 s are 2, the backoff of 500 ms is 1, the first deferral of 200 ms is 0. The jitter of
the backoff is 20 percent in the code, which is less than a tick; the runs take 100
percent, 0 to 2 ticks, for more than it. Three reports were checked once for the safety
properties (623369 states), and `RecoveryConcludes` with three reports, two attempts and
a queue of four (9964 states). *lifecycle*: a queue of two is filled by two stimuli or
by one and the events they cause, so the loop waits for room in its own queue; dials may
fail and calls may come and go any number of times. For the safety properties one call,
one indication, one tick and one reset together were checked once (23.5 million states),
and so were two lives, whose second begins with the queue and the fired timers of the
first.

*parts*. The instances share no variable; a behaviour chooses one part at the
start, and the state space is the sum of theirs. A constraint (`OneReleaseFails`) stops
the search, in pdn and in ids, where a second release of a client id has failed or gone
unanswered: such an id stays as it is for ever, and the proofs hold for any number. Without
the constraint the run passes as well (1298667 states).

| Part | Instance | So that |
|---|---|---|
| emitter | 2 emitters, 2 handlers, queue 2, 2 events of 2 payloads | two emits cross each other and Close, with a handler for one payload and one for all |
| rebind UIM, rebind WMS | 2 callers, 2 clients, 3 ids (UIM) or 2 (WMS) | both callers rebind, and a core recovery comes between |
| timeouts | 2 services, threshold 2, window 2, storm window 1, cooldown 2, time 4, 2 outcomes in a tick | windows begin anew, a second storm falls into or behind the cooldown |
| identities | 2 readers, 2 cards | a reader of the old card beside one of the new |
| pdn | mux ids 1 and 2, 2 sessions, 2 clients, generation 2 | two sessions share a mux; one outlives its topology and its client |
| muxes | modems a and b, default ids 1 and 2, session 3 on a, 3 interfaces, 1 upset | creations cross, and one crash, cleanup or replug comes anywhere |
| muxes of one | 1 modem, sessions 2 and 3, 2 upsets | a crash before a cleanup, a cleanup before a cleanup |
| probe | 2 probers, 2 clients, 2 probes each | a prober waits for the slot across a cleanup |
| serving | 2 networks, 2 changes, 2 indications queued, 1 cleanup | a query answered before the change is written after it |
| data | 2 APNs, 2 dials, 2 requests | a reconfiguration redials while the loop dials |
| ids | 2 callers, 3 ids, 2 attempts | an attempt is answered late and the other caller is revoked |
| qrtr | 2 services, 3 clients, queue 1, 2 changes | a second client of a service, a full queue at Close |
| waits | 2 callers, 3 tokens | a caller comes again after its timeout |
| proxy | 2 openers, 1 other proxy | an owner that gives up under a waiter, another proxy that wins |
| sim | 2 callers, one from a reload, 2 attempts, 1 activation, 1 more card | rebinds and a power cycle next to each other |
| sms routes | 2 refreshers, 2 routes, 2 refreshes, 1 reset, routes set twice | a replay crosses a refresh, a reset and a user |
| sms address | 2 refreshers, 1 address, 3 refreshes, 1 cleanup | a refresh of the former core crosses those of the next |
| pool, pool watched twice | 1 name, 2 managers, 1 start of each loop, or 2 of the watcher | the modem comes back while its first manager starts; an old loop under a new context |
| decoders | all programs, counts up to 2 | an entry that is there and one that is not |

Larger instances were checked once: three openers of qmi-proxy (63109 states),
two modems with a session, two upsets and three interfaces (122507), one
accident with any number of cleanups (1.4 million), and the SMS routes with a cleanup
as well (616210). In
*parts_fair* the emitter has a queue of one, UIM two ids, each prober one probe, the
handler of the serving system one indication queued, QRTR two clients and one
change; what the properties wait for happens in them as well.

Ids, events, clients, generations, time, cards and attempts are bounded; at the
bound of clients or ids an allocation fails, otherwise the action is not taken.
`CHECK_DEADLOCK FALSE` is used where the system may stop: after `Close` or `Stop`,
when nothing more is reported, or at a bound.

### Fairness

Weak fairness for what the Go scheduler runs: each goroutine's own steps, the
clock, deferred releases, reconnect timers. No context has to expire, nobody has to call `Close`,
to request a window, to report a reset or to read `Events()`. Weak fairness is
enough for the channel selects because a ready case stays ready until it is
taken, except for selects with several ready cases, where the actions are one
disjunction under one fairness condition (and `closeCh` is only asked to be seen
by a goroutine that has no other way on). `StoredIsDelivered` and
`CardOperationResumes` state their premises in the formula: a user who keeps
emptying the queue, windows that cease.

In *parts_fair*: the emitter's loop and one emit under way; the handler of
indications, the refresh's timer, and that a query ends, answered or not (that full
status checks are made, and get an answer, is the premise of `SnapshotConverges` and
not fairness); each prober's steps, whose requests have time-outs, and
`cleanup`; the QRTR writer, readers and `Close`; each opener of qmi-proxy and the
binding of each process. The callers of `ServiceRebind` have strong fairness: a
step of theirs is disabled while another holds a mutex, and Go's mutexes do not
starve a waiter.

## 4. Findings and observations

Disagreements with what the repository itself says, each shown by a run:

1. `reset_lost`: a report that finds `eventCh` full while `modemResetDeferred` is
   set relies on a deferred timer, but the `cleanup` of a recovery stops that
   timer and leaves the flag (`Stranded`). The report is forgotten. With this one
   case excluded, and that of the next finding, `reset` shows that no report is.
2. `reset_retry`: a retry goes through the debounce window of 1 s that the failed
   recovery's own event opened. If reopening fails sooner than the first backoff
   of 500 ms and the window allow, the retry is dropped as a duplicate, and with it
   what was reported since (`FailedFast`): no retry, no terminal event, and the core
   stays not ready. `RecoveryConcludesWithRoom`, in `reset`, shows that recovery
   concludes when teardown and reopening take at least as long as the window and
   no sender finds the queue full.
3. `indications_latest`: stored events are popped before queued ones, so a newer
   state event can be delivered before an older one of its kind. The user is left
   with the older state.
4. `dial_twice`: `Connect` and `doConnect` take a dial for being in progress only
   when its handle is stored, which is after the modem has answered. Until then a
   `Connect` dials next to the event loop. Two tests of
   `connect_idempotence_test.go` demand the opposite.
5. `stop_hang`: with a full queue the loop, answering a tick or redialling, waits
   for room in the queue that it alone drains, and the indication handler waits
   too; neither looks at the context, and `Stop` waits for both.
   `StopReturnsWithRoom`, in `lifecycle`, shows that `Stop` returns otherwise.

What was met on the way, and is an exception in a property, a premise, or left
open. The models have the code as it is.

*Recovery.* An event that finds no room twice is booked twice, as
`modemResetPending` and by its second timer; while the queue stays full one
recovery can break the quiet window of the next, so `RecoveryConcludesWithRoom`
asks for room. `triggerCoreRecovery` takes `uimRecoveryMu` for every service. After
a core recovery nobody calls `PreWarmIdentities`, which `Start` does
(`manager.go:622`).

*Services.* WMS or VOICE allocated by an operation during an attempt to open that
fails stays installed when the next attempt cannot allocate it. An operation that
allocates while the client is set up loses its id to `allocateServices`, which
stores its own over it. A rebind may close a service that another caller has just
rebound. The replay of WMS can wait for the lock it is run under
(`NoSelfWait`); `wmsReplayInProgress` is read where it cannot be set. The window of
timeouts is counted from its first one and does not slide.

*Data.* `dataOpMu` is taken by `ReconfigureDataConfig` alone although `manager.go:184`
says it serializes with the event loop, and `reconfiguringData` is never read. A dial
whose answer was lost, a stop that failed (the handle is given up all the same) and a
dial that overlapped with a hang-up leave a call without a handle; a call the modem had
before is taken over by a status check without one, and Connected is reported
(`adopted`); `RotateIP` that fails to dial leaves Connected. The loss of the IPv6 call
alone is never noticed (`manager.go:3774`). Status check and rotation flush
`cfg.Device.NetInterface`, under QMAP too. The call of an IMS probe whose start went
unanswered, or whose stop failed, outlives the quiet window: it ends with the release of
the WDS client, after it.

*PDN sessions.* A WDS id whose release fails while a session is opened or closed stays
in the modem, with its call if the stop failed as well: the error is dropped, or
returned with the session already forgotten. Two sessions may share a mux, and a second
open that fails deletes the mux of the first; the reservation of a mux never sees a live
session. A session that outlives its client by a failed close keeps
`hasActiveManagedPDN` true. A session of an earlier client whose generation number is in
use again deletes the mux of the present topology (`StaleKeepsMux`).

*Mux interfaces.* `GetQMAPMuxIface` does not look at `masterIface`, though the
comment in it says so: where two modems use one id, or `add_mux` was refused, it
finds another's interface; and when no id matches it guesses by name. It compares
the kernel's text with `0x%x`, so a kernel that writes `0x01` (`Padded`) is always
guessed. `ReconcileResidualMux` is for bootstrap by its comment and is called by
`cleanup`. A topology published while `cleanup` runs loses its mux. Discovery for a
modem whose driver does not know QMAP takes the only other modem's topology.

*Snapshot.* Registration and PLMN of one indication are written one after the
other, with a reader or a query between; the answer of a query overwrites a newer
indication, until the next one; an answer under way is applied after `Reset`.

*Callbacks.* `cloneSignalInfo` copies no LTE and NR5G part, `cloneRuntimeSettings`
not all slices: handlers share them (the exception in `PayloadIsolated`). `Stop`
closes the emitter, and a later `Start` has no other.

*Ids and transports.* A late response of the control service is not looked up among
the recent transactions and becomes an unknown event. Releasing any id of a service
forgets the cached one; a release whose answer is lost leaves it cached, so that
`GetClientID`, by its comment 0 if none is allocated, returns an id the modem no longer
has. On QRTR
a service has one client: allocating a second closes the first one's socket, and a
release goes by service whatever the id. A lookup holds up the writer, and with
it all requests, for as long as it takes. An indication right behind the answer
of a PDC or LOC request is dropped, since the waiter registers after the answer
(`InVainIfMissed`; `pdc.go:278` speaks of blocking until it arrives). An owner
whose context has ended still launches a proxy, and waiters fail with its error.

*SIM.* A rebind or a power cycle whose context ends between its halves leaves the
session down or the SIM off. A caller with an older reading takes down a session
that another has just made ready. Only the first slot of a card status is read.

*SMS.* `cleanup` resets the pending flags under a refresh, whose end then resets the
flag of the next one, and an answer under way is written after `cleanup` as fresh. A
refresh of the address that fails writes back the one it saw, over one reported
meanwhile. A replay after a question that failed sets the cached routes over those the
modem may have. A change of SIM leaves the cached SMS centre. `smsReadyWithContext`
and `currentSMSNotReadyError` are called by tests alone, so that the state serves
`CachedSMSC`, the replay and the log.

*Pool.* A loop at its turn after `StopHealthMonitor` or `StopHotPlug` reads a nil
context and panics. A modem that was removed before its `Start` ran leaves a manager that
runs outside the pool. `Remove` keeps the health status.

*Decoders.* Two lengths wrap before they are compared
(`ReadTransparentWithSession`, `uim.go:1274`, in 16 bits;
`parseLinearFixedMetaFromFCP`, whose length is added up from any number of
bytes). Many one-byte lengths of requests are sent truncated (`wrapped` "sent").
Some decoders return success without the TLV they read (`GetSignalStrength`, the
serving system, the list of messages), and lists are cut short silently.

*Tests.* Several test files are ahead of the code in this commit and do not build
or hold with it (`get_qmap_mux_iface_test.go`, `linux_set_ip_test.go`,
`linux_flush_test.go`, `wms_smsc_readiness_test.go`, parts of
`pdn_session_test.go`). The models follow the code.

## 5. Proofs

Every theorem holds for all values of the constants that the module's assumption
allows (any number of callers, users, timers or handlers, any capacities and
delays); the bounds of the runs (`MaxReports`, `MaxEvents` and their like) are
among these constants, so no theorem depends on how large they are.

| Module | Theorem | Establishes |
|---|---|---|
| `CardAccessGateProofs` | `GateInvariant` | `[]GateInv`, the inductive invariant |
| | `GateTypes`, `GateExcludes`, `GateLedger`, `GateWakes` | `TypeOK`, `MutualExclusion`, `TicketLedger`, `NoLostWakeup` |
| | `GateRefines` | `Spec => RefinesQuietWindow` |
| `QmiTransactionsProofs` | `TransactionInvariant` | `[]TransactionInv`, the inductive invariant |
| | `TransactionTypes`, `ResponsesAreOwn`, `TransactionTable` | `TypeOK`, `OwnResponse`, `TableSound` |
| `QmiIndicationsProofs` | `IndicationInvariant` | `[]IndicationInv`, the inductive invariant |
| | `IndicationTypes`, `StoreIsSound`, `EdgesStayInOrder`, `NewestIsKept` | `TypeOK`, `StoreSound`, `EdgesInOrder`, `NewestKept` |
| `ModemResetRecoveryProofs` | `RecoverDelayBounded` | the backoff with its jitter, for every number of failures |
| | `RecoveryInvariant` | `[]RecoveryInv`, the inductive invariant |
| | `RecoveryTypes`, `RetriesDoNotPileUp` | `TypeOK`, `OneRetry` |
| | `ReportsAreNotForgotten` | `NoResetForgottenUnlessStranded` |
| `ManagerLifecycleProofs` | `CalmInvariant`, `ConnectionInvariant` | the inductive invariants, in two and in three layers |
| | `ManagerTypes`, `StopIsClean` | `TypeOK`, `StopLeavesNothing` |
| | `ConnectedIsHeld`, `WishIsPursued` | `ConnectedHasHandle`, `DesiredIsPursued` |
| `ManagerPartsProofs` | `EmitterInvariant`, `EmitterIsSound`, `EventsAreDeliveredOnce` | `[]EmitterInv`, `[]EmitterDelivers`, `[]DeliveredOnce` |
| | `ProbeInvariant`, `ProbesAreContained` | `[]ProbeInv`, `[]ProbesContained` |
| | `SimInvariant`, `SimIsKeptUsable` | `[]SimInv`, `[]SimKeptUsable` |
| | `PoolInvariant`, `PoolIsKept` | `[]PoolInv`, `[]PoolKeepsModems` |
| | `IdentitiesInvariant`, `ServingInvariant`, `SmsInvariant` | the inductive invariants of the snapshot |
| | `SnapshotIsTruthful` | `SnapshotTruthful`, with its six action properties |
| | `PdnInvariant`, `MuxInvariant` | `[]PdnInv`, `[]MuxInv` |
| | `SessionsOwnTheirs` | `SessionsOwnCalls`, with its two action properties |
| `ClientPartsProofs` | `IdInvariant`, `QrtrInvariant`, `WaitInvariant`, `ProxyInvariant` | the inductive invariants of ids, sockets, waiters and the proxy |
| | `ClientsAreTracked` | `[]ClientsTracked` |
| | `TimeoutInvariant`, `RecoveriesHaveReason` | `[]TimeoutInv`, `RecoveryForReason` |
| | `DataInvariant`, `CallsAreAccounted` | `[]DataInv`, `[]CallsAccounted` |
| | `RebindInvariant`, `ServicesAreTracked` | `[]RebindInv`, `[]ServicesTracked` |

Every safety property that a passing run checks is the property of one of these
theorems, but for `DecodersSound` and `OthersHoldToo`; the latter says of four more
instances what the theorems say of all. `ManagerPartsProofs` and
`ClientPartsProofs` are about `Parts`: a behaviour of `Parts` is a behaviour of each
of its parts, with steps of the others in between (lemmas `...Runs`), so the
invariant of a part is one of the whole, under the part's own assumption, which
`PartsAssumption` lists and TLC evaluates.

`QueueLemmas` has what these proofs need of sequences: what `Append`, `Tail` and
concatenation do to the elements and positions of a Go channel. All inductive
invariants have been checked by TLC on the instances of the runs or on smaller
ones as well.

**The gate.** `MutualExclusion` is not inductive alone: that a window is not granted
while an operation is inside follows from `active = 0`, so `active` must count the
operations inside (`ActiveCounts`), and that no second window is granted follows from
`~barrier`, so the flag must be set exactly while somebody holds (`BarrierOwned`).
`TicketLedger` is what makes the order of grants that of requests: the serving
ticket belongs to the first live request. `NoLostWakeup` needs that only blocked
callers are parked (`ParkedBlocked`), and the ledger: `nextTicket = servingTicket`
after skipping means that nobody requests. The proof goes in these four layers,
one lemma per layer (`TypeStep`, `ExclusionStep`, `LedgerStep`, `WakeupStep`), each
with one step per action. The refinement uses the invariant: a grant in the
code is to the caller whose ticket is served, hence one with nobody ahead
(`NobodyAhead`), and an operation that enters saw no live ticket. The set of
operations is assumed finite because `active` is a number.

**Requests.** `OwnResponse` compares numbers of requests, the code compares ids, and ids
come round. The invariant therefore begins with `IdsApart`: requests in flight or on
their way have different ids. It is kept by the guard of `Register`, the one
assumption about the modem (section 2). A request is in one place
(`OnePlace`), so its answer is read once; `CallersKnow` relates what a caller has been
told to where its request is; `ReaderInv` says that what `readLoop` looked up before
the unlock is what it has in hand after it; `TableInv` that the entry of an id
belongs to that id; `IdleInv` that a call that returned leaves nothing for the next one
of its caller. `LateInv` is for the memory of given-up requests: every request
on its way is in flight, remembered, or was forgotten for the size of the memory,
its age or an id used again (`evicted`).

**Indications.** Edges pass through five places (the reader's hand, the queue, the loop's
hand, `Events()`, the user). `OrderInv` says that each place is in order and comes
before the next, pair by pair, which a step can be checked against;
`WayInOrder` puts the places together to the sequence of `EdgesInOrder`. `NewestInv`
needs that the reader holds the last indication (`ReaderInv`) and that the store
keeps an event under its own kind (`StoreInv`), or else a replaced event could be
the newest of another kind.

**Recovery.** `RecoveryInv` knows where a goroutine can be and that a timer is armed just
while it has a kind (`PlacesInv`), and that a recovery that reopens has no retry
and no verdict left (`ReopeningInv`), from which `OneRetry` follows.
`ReportsAreNotForgotten` is about the debounce: a report may be dropped inside the window
because the event of the report that opened it is still carried by something
(`Carried`), and what the recovery of that event clears it clears before the window
opens again (`WindowInv`). Nothing in the code makes teardown and reopening last for the
1 s of the window. A recovery that succeeds is longer than that all the same, for it
waits for the quiet window of 1 s (`RecoveryAssumption` asks `QuietWindow >= DedupWindow`); one that
fails in reopening may not be, and what is reported between its failure and its retry is
dropped. `FailedFast` names that state, with a core that is not ready, and only instances
with `OpenTime < DedupWindow` have it. The backoff is a recursive function; that the jitter,
a share of a delay, keeps to its order is `JitterBounded`.

**The manager.** Three layers. `LifecycleInv` says where each goroutine can be for
every context (`PlacesInv`, `PhasesInv`), with users calling as they like;
`StopLeavesNothing` follows but for its part on state, handle and timers. `Calm` is
what holds as long as no user has called: the state is Connecting just while the
loop or `Start` is at it (`WhoConnects`), a manager that is stopped has no handle and no
timer (`NothingLeft`), one that is not yet started no handle and no connection but an
`adopted` one (`NothingYet`), and the loop knows of a handle where it needs one
(`LoopKnows`). `Wish` is about a desired connection: it is
remembered by a hang-up that will redial (`WishKept`), a stop that an earlier life
left in the queue comes before the start of this one (`StopFirst`), and, with both,
something is about to dial (`WishPursued`). The layers `Calm` and `Wish` are stated
under `Undisturbed`, as the properties are: section 2 says how `Connect` and `Disconnect`
break them. Each group of actions has a lemma per layer.

**Probes and events.** `ProbeInv` says for each place of a prober what it holds there:
the slot, its share of the wait group, the cancel function, the client, the window. That
`cleanup` waits for nobody it has not cancelled rests on `blocked`, which keeps
further probes out, and on `imsProbeCancel` being that of the one that counts.
`EmitterInv` numbers what was accepted: the queue is
its end, the event being delivered comes right before, and the calls of a handler
lie before that in their order (`Follows`), so that `On`, `Clear` and a panic
in the middle of a delivery change nothing of the past. `CountInv` bounds the numbers.

**The SIM and the pool.** `SessionRestored` and `PowerRestored` let the callers who are at it
be responsible for what is down. `SimInv` adds that a caller at the power cycle came to
reload the SIM (`PowerHeld`), and that nobody is named for a session that is up; for
`RebindsBounded` it counts an activation before its rebind (`Counted`). `PoolInv` says
of a manager that was made and not stopped that it is in the pool, unless it was stopped
before its `Start` was through (`MadeInPool`), and of a status a check has still to
ask for that its modem is there, or has left meanwhile (`AskedOfPool`).

**The snapshot.** An answer is written later than it was given. `IdentitiesInv` adds to
`OfPresentCard` that what a reader of the generation in use has in hand is of the card
that is in, as long as its change has been reported (`IdentitiesReading`). `SmsInv` has
the same for routes: those a refresher saw, or set, are in the modem as long as no
reset came between (`RoutesSeen`), and for the address, that one refresh at a time has
the flag, unless `cleanup` reset it for another (`AddressAlone`). `ServingInv` is types:
what is queued or in hand is a registration or a network, and the action properties
follow from it step by step.

**Sessions and mux interfaces.** `PdnInv` has ids and calls belong to a session or to
the one being opened, or that the id is one whose release failed (`PdnOwned`), and, for
`StaleKeepsMuxInLife`, that the generation of a superseded session that has not outlived
its client is less than that in use (`PdnGrows`), so that `Close` does not take it for
current. That `cleanup` closes what it should needs to know which sessions are still on
its list (`PdnClosing`). In `MuxInv` a modem whose driver knows QMAP is its own master
wherever a master is remembered (`MasterIsSelf`): in the topology, with the opener, and
with the cleanup. Where no id is used for two modems, an interface then tells by its id
whose it is (`LinksTell`), so that one found by id alone is the modem's own, and
creating, deleting and reconciling leave the default interfaces of the others alone
(`LinksKeepDefaults`). That of the modem itself is safe from its own cleanup because
what is published meanwhile is `late` (`LateKnown`). `MuxesAssumption` asks that no
modem is called `"none"`, the model's name for no master.

**Services.** `InstalledOfClient` alone says nothing of a caller who was overtaken by a
recovery between the allocation and the installation. `RebindInv` therefore says that
he has the lock of his service (`LocksHeld`) and in his hands an open id of the client
he saw, which nobody else has (`OwnIds`), and that an id of the client is installed or
in such hands (`IdsKept`). A service that is replaced before the core has set it up is
the exception in `NoIdForgotten` (`early`), and `EarlyKnown` is what makes it the only
one. `RebindAssumption` asks for a service, as the manager has, and that no caller is
called `"free"`. `TimeoutInv` compares the code's count and first time with the log of
timeouts, from the last success or the beginning of the window on (`LogsInWindow`).

**Client ids, sockets, waiters, the proxy.** `IdInv` numbers the ids as the modem allocates
them and has each in one place (`IdOwners`): in an answer under way, or with one caller;
what is cached is then live but for the named losses.
`QrtrInv` counts the clients and says that after `Close` no service has one and no reader
is left (`CloseState`). `WaitInv` has the tokens be distinct, and what a
caller waits for be on its way, with it, or missed (`ComesOrMissed`). `ProxyInv` says
what an opener has at each place (`OpenerHas`, `WaiterHas`), that who is about to launch,
and had the time to look, has found no process that its opener is connected to
(`LaunchesAlone`), and that a reason to fail stays one (`ReasonsStay`).

**The data call.** `CallHasHandle` and `FreshDataConfigAlone` are premised on goroutines that
have not overlapped. `DataInv` has, for each place of the one goroutine that is at it,
where the call is there (`Held`: its handle is stored, or in hand to be stored, or it is
one of `orphans`) and whether it is of the configuration in force (`StateInv`); what
holds without the premise is which configuration that is (`ConfigInv`).

Only model-checked: all liveness, which the prover does not handle, and
`DecodersSound`. What a decoder does depends on its program, a piece of data of several hundred
entries (`MCParts` gives them); `ReadsInside` is a statement about these programs and
would have to be proved one by one, which TLC does in seconds.

## 6. Not modelled

- The choice between transports, the sync request and the query of service
  versions of `client.go`: one request each, on a path `QmiTransactions` has.
- In `manager.go`: the IPv6 call, whose failure has no consequence in `doConnect`
  and whose loss is not noticed; `RadioReset`; `ResetExistingDataConnection`; and
  the redial after a change of topology. `smsReadyWithContext`, which only tests
  call, the transport registration of WMS and its warnings: stored as they come.
- The selectors and getters of the pool and of the manager: reads under a lock.
- Netlink addresses, routes and links, DNS and sysfs files outside of QMAP:
  single calls of the kernel that keep no state in the program.
- The text of SMS messages, addresses and names: conversions of data. The values
  inside QMI messages: the programs of section 2 keep lengths and counts only.
- `pkg/device` (reads sysfs), the lease services (accessors), `cmd` (examples).
- A crash of the process, but in `QmapMuxes`: nothing else outlives it on the
  host, and the modem's side of a lost client is that of a failed open.

## 7. Plan

The theorems planned are proved. What would still be worth having:

1. `ManagerLifecycle` composed with `ModemResetRecovery`, whose product is too large for
   TLC today; the two invariants of section 5 are where a proof about it would begin.
2. `ServiceRebind` and `QmiClientIds` composed: the ids that a rebind leaves behind and
   those the client forgets are counted apart.
3. A refinement of `DataCalls` by the dialling actions of `ManagerLifecycle`.
