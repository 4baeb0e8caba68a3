------------------------------ MODULE ServiceRebind ------------------------------
(***************************************************************************)
(* How an operation gets the QMI service it needs                          *)
(* (pkg/manager/service_recovery.go, service_recovery_storm.go,            *)
(* uim_recovery.go): with...Recovery, ensure...Service, rebind...Service,  *)
(* against cleanup and openClientAndAllocateServices of manager.go, which  *)
(* replace the client under it during a core recovery.                     *)
(*                                                                         *)
(* The seven services are handled by functions written alike; they differ  *)
(* in when they ask for a core recovery, and WMS replays its state after a *)
(* rebind.  A service is an id (a QMI client id) of a client: `owner' and  *)
(* `kind' of the number of its allocation.  Locks are m.mu (one action is  *)
(* one critical section) and the ...RecoveryMu of each service.            *)
(***************************************************************************)
EXTENDS Naturals, Sequences, FiniteSets

CONSTANTS Services,    \* services in use, out of the names of Escalates
          Callers,     \* goroutines that call operations
          MaxClients,  \* bound on the clients opened
          MaxIds       \* bound on the ids allocated

RebindAssumption ==
    /\ Services # {} /\ "free" \notin Callers
    /\ Services \subseteq {"DMS", "NAS", "UIM", "WMS", "VOICE", "IMS", "IMSA"}
    /\ MaxClients \in Nat \ {0} /\ MaxIds \in Nat

(***************************************************************************)
(* The phases of an operation whose failure asks for a core recovery.      *)
(***************************************************************************)
withDMSRecoveryValue == {"retry"}

withNASRecoveryValue == {"initial", "rebind", "retry"}

withUIMRecoveryValue == {"initial", "rebind", "retry"}

withWMSRecoveryValue == {}

withVOICERecoveryValue == {}

withIMSRecoveryValue == {}

withIMSARecoveryValue == {}

Escalates(s) ==
    CASE s = "DMS" -> withDMSRecoveryValue
      [] s = "NAS" -> withNASRecoveryValue
      [] s = "UIM" -> withUIMRecoveryValue
      [] s = "WMS" -> withWMSRecoveryValue
      [] s = "VOICE" -> withVOICERecoveryValue
      [] s = "IMS" -> withIMSRecoveryValue
      [] s = "IMSA" -> withIMSARecoveryValue

\* allocateServices fails when one of these does, ignores the failure of the
\* others, and leaves the rest to the first operation.
CoreServices == Services \intersect {"NAS", "DMS", "UIM"}
AuxServices  == Services \intersect {"WMS", "VOICE"}
LazyServices == Services \intersect {"IMS", "IMSA"}

VARIABLES client,   \* m.client, 0 for nil
          opened,   \* clients opened so far
          up,       \* clients not closed
          kind,     \* of each id allocated, its service
          owner,    \* and its client
          closed,   \* ids released
          svc,      \* m.dms, m.nas, ...: an id, or 0
          core,     \* what recovery does: "ready", "closing", "closed", "alloc", "failed"
          taken,    \* what cleanup took and has yet to close
          todo,     \* services allocateServices has yet to allocate
          early,    \* services an operation set out to allocate while the client was set up
          asked,    \* a core recovery was asked for
          lock,     \* holder of each ...RecoveryMu, or "free"
          pc,       \* where each operation is
          job,      \* its service
          using,    \* the id it holds
          seen,     \* the m.client it read
          outer     \* in a replay of WMS: the id of the operation that rebound, or 0

coreVars == <<client, opened, up, kind, owner, closed, svc, core, taken, todo, early, asked>>
callVars == <<lock, pc, job, using, seen, outer>>
vars == <<coreVars, callVars>>

Init ==
    /\ client = 1 /\ opened = 1 /\ up = {1}
    /\ kind = <<>> /\ owner = <<>> /\ closed = {}
    /\ svc = [s \in Services |-> 0]
    /\ core = "alloc"
    /\ taken = {}
    /\ todo = CoreServices \union AuxServices
    /\ early = {}
    /\ asked = FALSE
    /\ lock = [s \in Services \union {"UIM"} |-> "free"]
    /\ pc = [c \in Callers |-> "idle"]
    /\ job = [c \in Callers |-> CHOOSE s \in Services : TRUE]
    /\ using = [c \in Callers |-> 0]
    /\ seen = [c \in Callers |-> 0]
    /\ outer = [c \in Callers |-> 0]

\* An operation found nothing installed, or took it off, while the client was set up.
Early(s) == IF core = "ready" THEN early ELSE early \union {s}

\* The number of the id allocated next.
Fresh == Len(kind) + 1

\* New...Service(cl): a client id of cl.
Allocate(s, cl) ==
    /\ Len(kind) < MaxIds
    /\ cl \in up
    /\ kind' = Append(kind, s)
    /\ owner' = Append(owner, cl)

(***************************************************************************)
(* An operation begins, and finds or allocates its service.                *)
(***************************************************************************)
Go(c, where) == pc' = [pc EXCEPT ![c] = where]

Call(c, s) ==
    /\ pc[c] = "idle"
    /\ job' = [job EXCEPT ![c] = s]
    /\ Go(c, "ensure")
    /\ UNCHANGED <<coreVars, lock, using, seen, outer>>

\* The operation returns, to the replay that called it or to its user.
Returns(c) ==
    IF outer[c] # 0
    THEN /\ lock' = [lock EXCEPT ![job[c]] = "free"]
         /\ using' = [using EXCEPT ![c] = outer[c]]
         /\ outer' = [outer EXCEPT ![c] = 0]
         /\ Go(c, "retry")
    ELSE /\ using' = [using EXCEPT ![c] = 0]
         /\ Go(c, "idle")
         /\ UNCHANGED <<lock, outer>>

\* An error ends the operation, after a request for a core recovery if the
\* service escalates this phase.
Fails(c, phase) ==
    IF phase \in Escalates(job[c])
    THEN Go(c, "trigger") /\ UNCHANGED <<lock, using, outer>>
    ELSE Returns(c)

EnsureFound(c) ==
    /\ pc[c] = "ensure"
    /\ svc[job[c]] # 0
    /\ using' = [using EXCEPT ![c] = svc[job[c]]]
    /\ Go(c, "op")
    /\ UNCHANGED <<coreVars, lock, job, seen, outer>>

\* Without a client: ErrServiceNotReady, which is a recoverable error.
EnsureNoClient(c) ==
    /\ pc[c] = "ensure"
    /\ svc[job[c]] = 0
    /\ client = 0
    /\ Fails(c, "initial")
    /\ UNCHANGED <<coreVars, job, seen>>

EnsureWaits(c) ==
    /\ pc[c] = "ensure"
    /\ svc[job[c]] = 0
    /\ client # 0
    /\ Go(c, "ensureLock")
    /\ UNCHANGED <<coreVars, lock, job, using, seen, outer>>

\* Mutant: no second look under the lock.
EnsureLockedBlind(c) ==
    LET s == job[c] IN
    /\ pc[c] = "ensureLock"
    /\ lock[s] = "free"
    /\ lock' = [lock EXCEPT ![s] = c]
    /\ seen' = [seen EXCEPT ![c] = client]
    /\ Go(c, "ensureAlloc")
    /\ UNCHANGED <<coreVars, job, using, outer>>

EnsureLocked(c) ==
    LET s == job[c] IN
    /\ pc[c] = "ensureLock"
    /\ lock[s] = "free"
    /\ IF svc[s] # 0
       THEN /\ using' = [using EXCEPT ![c] = svc[s]]
            /\ Go(c, "op")
            /\ UNCHANGED <<lock, seen, outer>>
       ELSE IF client = 0
       THEN Fails(c, "initial") /\ UNCHANGED seen
       ELSE /\ lock' = [lock EXCEPT ![s] = c]
            /\ seen' = [seen EXCEPT ![c] = client]
            /\ Go(c, "ensureAlloc")
            /\ UNCHANGED <<using, outer>>
    /\ early' = IF pc'[c] = "ensureAlloc" THEN Early(s) ELSE early
    /\ UNCHANGED <<client, opened, up, kind, owner, closed, svc, core, taken, todo, asked, job>>

\* The id is allocated by a request to the modem, with no lock but the service's.
AllocateForCall(c) ==
    /\ Allocate(job[c], seen[c])
    /\ using' = [using EXCEPT ![c] = Fresh]
    /\ UNCHANGED <<client, opened, up, closed, svc, core, taken, todo, early, asked, lock, job, seen, outer>>

EnsureAllocates(c) ==
    /\ pc[c] = "ensureAlloc"
    /\ AllocateForCall(c)
    /\ Go(c, "ensureInstall")

\* The lock of the service is released first, then the error is looked at.
FailsUnlocked(c, phase) ==
    /\ lock' = [lock EXCEPT ![job[c]] = "free"]
    /\ IF phase \in Escalates(job[c])
       THEN Go(c, "trigger") /\ UNCHANGED <<using, outer>>
       ELSE IF outer[c] # 0
       THEN /\ using' = [using EXCEPT ![c] = outer[c]]
            /\ outer' = [outer EXCEPT ![c] = 0]
            /\ Go(c, "retry")
       ELSE /\ using' = [using EXCEPT ![c] = 0]
            /\ Go(c, "idle")
            /\ UNCHANGED outer

EnsureAllocFails(c) ==
    /\ pc[c] = "ensureAlloc"
    /\ FailsUnlocked(c, "initial")
    /\ seen' = [seen EXCEPT ![c] = 0]
    /\ UNCHANGED <<coreVars, job>>

\* if m.client != client { allocated.Close(); return ErrServiceNotReady }
EnsureInstalls(c) ==
    LET s == job[c] IN
    /\ pc[c] = "ensureInstall"
    /\ IF client = seen[c]
       THEN /\ svc' = [svc EXCEPT ![s] = using[c]]
            /\ lock' = [lock EXCEPT ![s] = "free"]
            /\ Go(c, "op")
            /\ UNCHANGED <<closed, using, outer>>
       ELSE /\ closed' = closed \union {using[c]}
            /\ FailsUnlocked(c, "initial")
            /\ UNCHANGED svc
    /\ seen' = [seen EXCEPT ![c] = 0]
    /\ UNCHANGED <<client, opened, up, kind, owner, core, taken, todo, early, asked, job>>

(***************************************************************************)
(* The operation itself.  On an id that was released, or of a closed       *)
(* client, it cannot succeed.                                              *)
(***************************************************************************)
Usable(id) == id \notin closed /\ owner[id] \in up

OperationEnds(c) ==
    /\ \/ pc[c] \in {"op", "retry"} /\ Usable(using[c])      \* success
       \/ pc[c] \in {"op", "retry"}                          \* an error not to recover from
    /\ Returns(c)
    /\ UNCHANGED <<coreVars, job, seen>>

OperationFails(c) ==
    /\ pc[c] = "op"
    /\ Go(c, "rebind")
    /\ UNCHANGED <<coreVars, lock, job, using, seen, outer>>

RetryFails(c) ==
    /\ pc[c] = "retry"
    /\ Fails(c, "retry")
    /\ UNCHANGED <<coreVars, job, seen>>

(***************************************************************************)
(* rebind...Service, under the lock of the service.                        *)
(***************************************************************************)
\* Mutant: the old service stays installed until there is a new one.
RebindKeeps(c) ==
    LET s == job[c] IN
    /\ pc[c] = "rebind"
    /\ lock[s] = "free"
    /\ lock' = [lock EXCEPT ![s] = c]
    /\ using' = [using EXCEPT ![c] = svc[s]]
    /\ seen' = [seen EXCEPT ![c] = client]
    /\ Go(c, "rebindClose")
    /\ UNCHANGED <<coreVars, job, outer>>

RebindTakes(c) ==
    LET s == job[c] IN
    /\ pc[c] = "rebind"
    /\ lock[s] = "free"
    /\ lock' = [lock EXCEPT ![s] = c]
    /\ using' = [using EXCEPT ![c] = svc[s]]
    /\ seen' = [seen EXCEPT ![c] = client]
    /\ svc' = [svc EXCEPT ![s] = 0]
    /\ early' = Early(s)
    /\ Go(c, "rebindClose")
    /\ UNCHANGED <<client, opened, up, kind, owner, closed, core, taken, todo, asked, job, outer>>

\* prev.Close(); without a client the rebind fails here.
RebindCloses(c) ==
    /\ pc[c] = "rebindClose"
    /\ closed' = closed \union ({using[c]} \ {0})
    /\ IF seen[c] = 0
       THEN FailsUnlocked(c, "rebind")
       ELSE Go(c, "rebindAlloc") /\ UNCHANGED <<lock, using, outer>>
    /\ UNCHANGED <<client, opened, up, kind, owner, svc, core, taken, todo, early, asked, job, seen>>

RebindAllocates(c) ==
    /\ pc[c] = "rebindAlloc"
    /\ AllocateForCall(c)
    /\ Go(c, "rebindInstall")

\* Mutant: a rebind that fails leaves with the lock.
RebindAllocFailsLocked(c) ==
    /\ pc[c] = "rebindAlloc"
    /\ Fails(c, "rebind")
    /\ UNCHANGED <<coreVars, job, seen>>

RebindAllocFails(c) ==
    /\ pc[c] = "rebindAlloc"
    /\ FailsUnlocked(c, "rebind")
    /\ seen' = [seen EXCEPT ![c] = 0]
    /\ UNCHANGED <<coreVars, job>>

\* Mutant: the new service is installed whatever m.client is now.
RebindInstallsAnyway(c) ==
    LET s == job[c] IN
    /\ pc[c] = "rebindInstall"
    /\ svc' = [svc EXCEPT ![s] = using[c]]
    /\ lock' = [lock EXCEPT ![s] = "free"]
    /\ Go(c, "retry")
    /\ seen' = [seen EXCEPT ![c] = 0]
    /\ UNCHANGED <<client, opened, up, kind, owner, closed, core, taken, todo, early, asked,
                   job, using, outer>>

\* rebindWMSService goes on to maybeReplayWMSStateAfterRebind with the lock held;
\* rebindUIMService registers its indications, and no error of that counts.
RebindInstalls(c) ==
    LET s == job[c] IN
    /\ pc[c] = "rebindInstall"
    /\ IF client # seen[c]
       THEN /\ closed' = closed \union {using[c]}
            /\ FailsUnlocked(c, "rebind")
            /\ UNCHANGED svc
       ELSE /\ svc' = [svc EXCEPT ![s] = using[c]]
            /\ IF s = "WMS"
               THEN Go(c, "replay") /\ UNCHANGED lock
               ELSE Go(c, "retry") /\ lock' = [lock EXCEPT ![s] = "free"]
            /\ UNCHANGED <<closed, using, outer>>
    /\ seen' = [seen EXCEPT ![c] = 0]
    /\ UNCHANGED <<client, opened, up, kind, owner, core, taken, todo, early, asked, job>>

(***************************************************************************)
(* maybeReplayWMSStateAfterRebind, whose recoverWMSState calls operations  *)
(* of WMS like any other: one stands for all.  (wmsReplayInProgress is     *)
(* never found set: whoever replays holds the lock.)                       *)
(***************************************************************************)
Replay(c) ==
    /\ pc[c] = "replay"
    /\ outer' = [outer EXCEPT ![c] = using[c]]
    /\ Go(c, "ensure")
    /\ UNCHANGED <<coreVars, lock, job, using, seen>>

(***************************************************************************)
(* triggerCoreRecoveryFromService: under uimRecoveryMu for the cooldown,   *)
(* whichever the service.                                                  *)
(***************************************************************************)
Trigger(c) ==
    /\ pc[c] = "trigger"
    /\ core = "ready" => lock["UIM"] = "free"
    /\ asked' \in IF core = "ready" THEN {TRUE, asked} ELSE {asked}   \* the cooldown may hold it back
    /\ Returns(c)
    /\ UNCHANGED <<client, opened, up, kind, owner, closed, svc, core, taken, todo, early, job, seen>>

(***************************************************************************)
(* Core recovery: cleanup, openClientAndAllocateServices.                  *)
(***************************************************************************)
ModemReset ==
    /\ core = "ready"
    /\ ~asked
    /\ asked' = TRUE
    /\ UNCHANGED <<client, opened, up, kind, owner, closed, svc, core, taken, todo, early, callVars>>

Cleanup ==
    /\ core = "ready"
    /\ asked
    /\ opened < MaxClients
    /\ asked' = FALSE
    /\ taken' = {svc[s] : s \in Services} \ {0}
    /\ svc' = [s \in Services |-> 0]
    /\ client' = 0
    /\ core' = "closing"
    /\ UNCHANGED <<opened, up, kind, owner, closed, todo, early, callVars>>

CleanupCloses ==
    /\ core = "closing"
    /\ closed' = closed \union taken
    /\ taken' = {}
    /\ up' = {}
    /\ core' = "closed"
    /\ UNCHANGED <<client, opened, kind, owner, svc, todo, early, asked, callVars>>

Open ==
    /\ core = "closed"
    /\ opened < MaxClients
    /\ opened' = opened + 1
    /\ client' = opened + 1
    /\ up' = {opened + 1}
    /\ todo' = CoreServices \union AuxServices
    /\ early' = {}
    /\ core' = "alloc"
    /\ UNCHANGED <<kind, owner, closed, svc, taken, asked, callVars>>

\* Core services first.  The service is stored without its ...RecoveryMu.
AllocateService(s) ==
    /\ core = "alloc"
    /\ s \in todo
    /\ s \in AuxServices => todo \intersect CoreServices = {}
    /\ \/ /\ Allocate(s, client)
          /\ svc' = [svc EXCEPT ![s] = Fresh]
       \/ s \in AuxServices /\ UNCHANGED <<kind, owner, svc>>
    /\ todo' = todo \ {s}
    /\ UNCHANGED <<client, opened, up, closed, core, taken, early, asked, callVars>>

AllocateFails ==
    /\ core = "alloc"
    /\ todo \intersect CoreServices # {}
    /\ up' = {}
    /\ core' = "failed"
    /\ UNCHANGED <<client, opened, kind, owner, closed, svc, taken, todo, early, asked, callVars>>

ForgetClient ==
    /\ core = "failed"
    /\ client' = 0
    /\ core' = "closed"
    /\ UNCHANGED <<opened, up, kind, owner, closed, svc, taken, todo, early, asked, callVars>>

CoreReady ==
    /\ core = "alloc"
    /\ todo = {}
    /\ svc' = [s \in Services |-> IF s \in LazyServices THEN 0 ELSE svc[s]]
    /\ core' = "ready"
    /\ UNCHANGED <<client, opened, up, kind, owner, closed, taken, todo, early, asked, callVars>>

CallStep(c) ==
    \/ EnsureFound(c) \/ EnsureNoClient(c) \/ EnsureWaits(c) \/ EnsureLocked(c)
    \/ EnsureAllocates(c) \/ EnsureAllocFails(c) \/ EnsureInstalls(c)
    \/ OperationEnds(c) \/ OperationFails(c) \/ RetryFails(c)
    \/ RebindTakes(c) \/ RebindCloses(c) \/ RebindAllocates(c) \/ RebindAllocFails(c)
    \/ RebindInstalls(c) \/ Replay(c) \/ Trigger(c)

CoreStep ==
    \/ Cleanup \/ CleanupCloses \/ Open \/ AllocateFails \/ ForgetClient \/ CoreReady
    \/ \E s \in Services : AllocateService(s)

Next ==
    \/ \E c \in Callers, s \in Services : Call(c, s)
    \/ \E c \in Callers : CallStep(c)
    \/ ModemReset
    \/ CoreStep

Spec == Init /\ [][Next]_vars

\* Goroutines run, requests to the modem are answered or time out, and a mutex
\* is in the end given to whoever waits for it.
FairSpec == Spec /\ \A c \in Callers : SF_vars(CallStep(c))

(***************************************************************************)
(* Properties.                                                             *)
(***************************************************************************)
RebindTypeOK ==
    /\ client \in 0 .. MaxClients /\ opened \in 1 .. MaxClients
    /\ up \subseteq 1 .. MaxClients
    /\ kind \in Seq(Services) /\ Len(kind) <= MaxIds
    /\ owner \in Seq(1 .. MaxClients) /\ Len(owner) = Len(kind)
    /\ closed \subseteq 1 .. Len(kind) /\ taken \subseteq 1 .. Len(kind)
    /\ svc \in [Services -> 0 .. Len(kind)]
    /\ core \in {"ready", "closing", "closed", "alloc", "failed"}
    /\ todo \subseteq Services /\ early \subseteq Services
    /\ asked \in BOOLEAN
    /\ lock \in [Services \union {"UIM"} -> Callers \union {"free"}]
    /\ job \in [Callers -> Services]
    /\ using \in [Callers -> 0 .. Len(kind)]
    /\ seen \in [Callers -> 0 .. MaxClients]
    /\ outer \in [Callers -> 0 .. Len(kind)]

\* Once the core is ready, a service installed belongs to the client in use, also
\* when a lazy allocation or a rebind began under an earlier client (the
\* comparison of m.client with client in ensure... and rebind...).  WMS and VOICE
\* are excepted: allocated by an operation during an attempt to open that then
\* failed, they stay if the next attempt cannot allocate them, which it ignores.
InstalledOfClient ==
    core = "ready" => \A s \in Services \ AuxServices :
        svc[s] # 0 => owner[svc[s]] = client /\ kind[svc[s]] = s

\* A service that was closed is not handed to the next operation, however a
\* rebind or a cleanup ends (m.dms = nil before prev.Close).
ClosedNotInstalled == \A s \in Services : svc[s] \notin closed

\* Whoever installs, no id of the client in use is forgotten: it is installed, or
\* an operation is about to install or close it.  Excepted is a service that an
\* operation set out to allocate while the client was being set up: allocateServices stores
\* its own over it without taking the lock.
NoIdForgotten ==
    core = "ready" =>
        \A i \in 1 .. Len(kind) :
            owner[i] = client /\ i \notin closed /\ kind[i] \notin early
                => \/ svc[kind[i]] = i
                   \/ \E c \in Callers :
                        using[c] = i /\ pc[c] \in {"ensureInstall", "rebindClose", "rebindInstall"}

WaitsFor(c, s) ==
    \/ pc[c] \in {"ensureLock", "rebind"} /\ job[c] = s
    \/ pc[c] = "trigger" /\ core = "ready" /\ s = "UIM"

\* The replay of the WMS state after a rebind does not hold up the operation
\* that caused it: nobody waits for a lock it holds itself.
NoSelfWait ==
    \A c \in Callers, s \in Services \union {"UIM"} : ~(lock[s] = c /\ WaitsFor(c, s))

\* Every operation returns, whatever fails and whoever rebinds meanwhile, as long
\* as no replay has hung on the lock of WMS.  (At the bounds of the model an
\* allocation fails rather than wait.)
OperationReturns ==
    \A c \in Callers :
        (pc[c] # "idle") ~> (pc[c] = "idle" \/ ~NoSelfWait)

\* The services installed are open and of the client in use, and no other id is left
\* behind in the modem (ensure...Service, rebind...Service).
ServicesTracked == RebindTypeOK /\ InstalledOfClient /\ ClosedNotInstalled /\ NoIdForgotten
=============================================================================
