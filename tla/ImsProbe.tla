-------------------------------- MODULE ImsProbe --------------------------------
(***************************************************************************)
(* IMS probes (pkg/manager/ims_probe.go): a temporary data call in the     *)
(* modem, one at a time, that cleanup must see the end of before it gives  *)
(* up the client the probe uses (cleanup of manager.go).                   *)
(***************************************************************************)
EXTENDS Integers, FiniteSets

CONSTANTS Probers,         \* goroutines in ProbeIMSPDNSettings
          MaxLives,        \* bound on the clients opened
          MaxProbes        \* bound on the probes each goroutine begins

ProbeAssumption ==
    /\ MaxLives \in Nat \ {0} /\ MaxProbes \in Nat
    /\ "nobody" \notin Probers /\ "other" \notin Probers

NoClient == 0

VARIABLES client,         \* m.client: its number, or NoClient
          ready,          \* coreReady
          stopping,       \* the state is StateStopping
          blocked,        \* imsProbeBlocked
          activePDN,      \* the default call, or a PDN session, is up
          cleanup,        \* where cleanup is
          lives,          \* clients opened so far
          pc,             \* where each prober is
          uses,           \* the client each prober took
          cancelled,      \* probers whose context has been cancelled
          slot,           \* imsProbeSlot holds its token
          running,        \* probers counted in imsProbeWG
          imsProbeCancel, \* the prober it cancels, or "nobody"
          quiet,          \* who holds the card quiet window
          calls,          \* probers whose start was answered and whose stop has not returned
          probes          \* probes begun by each

vars == <<client, ready, stopping, blocked, activePDN, cleanup, lives, pc, uses, cancelled,
          slot, running, imsProbeCancel, quiet, calls, probes>>
manager == <<client, ready, stopping, blocked, cleanup, lives>>

Places == {"idle", "queue", "lease", "discover", "quiet", "start", "settings", "stop", "calm",
           "release", "uncancel", "done", "return"}

Init ==
    /\ client = 1 /\ ready = TRUE /\ stopping = FALSE /\ blocked = FALSE /\ activePDN = FALSE
    /\ cleanup = "idle" /\ lives = 1
    /\ pc = [p \in Probers |-> "idle"] /\ uses = [p \in Probers |-> NoClient]
    /\ cancelled = {} /\ slot = TRUE /\ running = {} /\ imsProbeCancel = "nobody"
    /\ quiet = "nobody" /\ calls = {} /\ probes = [p \in Probers |-> 0]

Goto(p, place) == pc' = [pc EXCEPT ![p] = place]

(***************************************************************************)
(* beginIMSProbe.                                                          *)
(***************************************************************************)
Begin(p) ==
    /\ pc[p] = "idle" /\ probes[p] < MaxProbes
    /\ ~blocked /\ ~stopping /\ ready /\ client # NoClient
    /\ Goto(p, "queue")
    /\ probes' = [probes EXCEPT ![p] = @ + 1]
    /\ cancelled' = cancelled \ {p}
    /\ UNCHANGED <<manager, activePDN, uses, slot, running, imsProbeCancel, quiet, calls>>

\* The caller gives up, or the timeout of the probe expires.
Cancelled(p) ==
    /\ pc[p] \notin {"idle", "return"} /\ p \notin cancelled
    /\ cancelled' = cancelled \union {p}
    /\ UNCHANGED <<manager, activePDN, pc, uses, slot, running, imsProbeCancel, quiet,
                   calls, probes>>

LeavesQueue(p) ==
    /\ pc[p] = "queue" /\ p \in cancelled
    /\ Goto(p, "idle")
    /\ UNCHANGED <<manager, activePDN, uses, cancelled, slot, running, imsProbeCancel,
                   quiet, calls, probes>>

MayRun == ~blocked /\ ~stopping /\ ready /\ client # NoClient /\ ~activePDN

\* Mutant: a probe that is turned away keeps the slot.
TakeSlotForGood(p) ==
    /\ pc[p] = "queue" /\ slot
    /\ slot' = FALSE
    /\ IF MayRun
       THEN /\ running' = running \union {p}
            /\ imsProbeCancel' = p
            /\ uses' = [uses EXCEPT ![p] = client]
            /\ Goto(p, "lease")
       ELSE /\ Goto(p, "idle")
            /\ UNCHANGED <<running, imsProbeCancel, uses>>
    /\ UNCHANGED <<manager, activePDN, cancelled, quiet, calls, probes>>

\* The slot is taken, and everything that allowed the probe is checked again.
TakeSlot(p) ==
    /\ pc[p] = "queue" /\ slot
    /\ IF MayRun
       THEN /\ slot' = FALSE
            /\ running' = running \union {p}
            /\ imsProbeCancel' = p
            /\ uses' = [uses EXCEPT ![p] = client]
            /\ Goto(p, "lease")
       ELSE /\ Goto(p, "idle")
            /\ UNCHANGED <<slot, running, imsProbeCancel, uses>>
    /\ UNCHANGED <<manager, activePDN, cancelled, quiet, calls, probes>>

(***************************************************************************)
(* ProbeIMSPDNSettings.  Each request may fail; what follows is then the   *)
(* deferred part, in its order: stop, quiet window, WDS, release.          *)
(***************************************************************************)
Request(p, from, to, else) ==
    /\ pc[p] = from
    /\ Goto(p, to) \/ Goto(p, else)
    /\ UNCHANGED <<manager, activePDN, uses, cancelled, slot, running, imsProbeCancel,
                   quiet, calls, probes>>

LeaseWDS(p) == Request(p, "lease", "discover", "uncancel")
DiscoverProfile(p) == Request(p, "discover", "quiet", "release")
Settings(p) == Request(p, "settings", "stop", "stop")

\* Mutant: the wait for the window does not end with the context.
BeginQuietUncancelled(p) ==
    /\ pc[p] = "quiet"
    /\ quiet = "nobody"
    /\ quiet' = p
    /\ Goto(p, "start")
    /\ UNCHANGED <<manager, activePDN, uses, cancelled, slot, running, imsProbeCancel, calls, probes>>

\* BeginCardIOQuietWindow waits until the window is free or the context cancelled.
BeginQuiet(p) ==
    /\ pc[p] = "quiet"
    /\ \/ /\ quiet = "nobody"
          /\ quiet' = p
          /\ Goto(p, "start")
       \/ /\ p \in cancelled
          /\ Goto(p, "release")
          /\ UNCHANGED quiet
    /\ UNCHANGED <<manager, activePDN, uses, cancelled, slot, running, imsProbeCancel,
                   calls, probes>>

StartCall(p) ==
    /\ pc[p] = "start"
    /\ \/ /\ calls' = calls \union {p}
          /\ Goto(p, "settings")
       \/ /\ Goto(p, "stop")
          /\ UNCHANGED calls
    /\ UNCHANGED <<manager, activePDN, uses, cancelled, slot, running, imsProbeCancel, quiet, probes>>

\* Mutant: the quiet window is given back before the call is stopped.
CalmThenStop(p) ==
    \/ /\ pc[p] = "stop"
       /\ quiet' = IF quiet = p THEN "nobody" ELSE quiet
       /\ Goto(p, "calm")
       /\ UNCHANGED <<manager, activePDN, uses, cancelled, slot, running, imsProbeCancel,
                      calls, probes>>
    \/ /\ pc[p] = "calm"
       /\ calls' = calls \ {p}
       /\ Goto(p, "release")
       /\ UNCHANGED <<manager, activePDN, uses, cancelled, slot, running, imsProbeCancel, quiet, probes>>

\* The stop has a context of its own and returns in its own time.  A call that it did
\* not end, and one whose start went unanswered, end with the release of the client.
StopThenCalm(p) ==
    \/ /\ pc[p] = "stop"
       /\ calls' = calls \ {p}
       /\ Goto(p, "calm")
       /\ UNCHANGED <<manager, activePDN, uses, cancelled, slot, running, imsProbeCancel, quiet, probes>>
    \/ /\ pc[p] = "calm"
       /\ quiet' = "nobody"
       /\ Goto(p, "release")
       /\ UNCHANGED <<manager, activePDN, uses, cancelled, slot, running, imsProbeCancel,
                      calls, probes>>

ReleaseWDS(p) ==
    /\ pc[p] = "release"
    /\ Goto(p, "uncancel")
    /\ uses' = [uses EXCEPT ![p] = NoClient]
    /\ UNCHANGED <<manager, activePDN, cancelled, slot, running, imsProbeCancel, quiet,
                   calls, probes>>

\* release, once: imsProbeCancel, the wait group, the slot.
\* Mutant: the slot is given back first.
SlotThenUncancel(p) ==
    \/ /\ pc[p] = "uncancel"
       /\ slot' = TRUE
       /\ Goto(p, "done")
       /\ UNCHANGED <<manager, activePDN, uses, cancelled, running, imsProbeCancel, quiet,
                      calls, probes>>
    \/ /\ pc[p] = "done"
       /\ imsProbeCancel' = "nobody"
       /\ Goto(p, "return")
       /\ UNCHANGED <<manager, activePDN, uses, cancelled, slot, running, quiet, calls, probes>>
    \/ /\ pc[p] = "return"
       /\ running' = running \ {p}
       /\ Goto(p, "idle")
       /\ UNCHANGED <<manager, activePDN, uses, cancelled, slot, imsProbeCancel, quiet,
                      calls, probes>>

UncancelThenSlot(p) ==
    \/ /\ pc[p] = "uncancel"
       /\ imsProbeCancel' = "nobody"
       /\ uses' = [uses EXCEPT ![p] = NoClient]
       /\ Goto(p, "done")
       /\ UNCHANGED <<manager, activePDN, cancelled, slot, running, quiet, calls, probes>>
    \/ /\ pc[p] = "done"
       /\ cancelled' = cancelled \union {p}
       /\ running' = running \ {p}
       /\ Goto(p, "return")
       /\ UNCHANGED <<manager, activePDN, uses, slot, imsProbeCancel, quiet, calls, probes>>
    \/ /\ pc[p] = "return"
       /\ slot' = TRUE
       /\ Goto(p, "idle")
       /\ UNCHANGED <<manager, activePDN, uses, cancelled, running, imsProbeCancel, quiet,
                      calls, probes>>

(***************************************************************************)
(* The others: data calls, other users of the quiet window, recovery, Stop.*)
(***************************************************************************)
DataCall ==
    /\ client # NoClient
    /\ activePDN' = ~activePDN
    /\ UNCHANGED <<manager, pc, uses, cancelled, slot, running, imsProbeCancel, quiet,
                   calls, probes>>

OtherQuiet ==
    /\ \/ quiet = "nobody" /\ quiet' = "other"
       \/ quiet = "other" /\ quiet' = "nobody"
    /\ UNCHANGED <<manager, activePDN, pc, uses, cancelled, slot, running, imsProbeCancel,
                   calls, probes>>

\* Stop cancels the context every probe descends from, then cleans up.
Stop ==
    /\ cleanup = "idle" /\ ready /\ ~stopping
    /\ stopping' = TRUE
    /\ cancelled' = Probers
    /\ UNCHANGED <<client, ready, blocked, cleanup, lives, activePDN, pc, uses, slot, running,
                   imsProbeCancel, quiet, calls, probes>>

\* blockIMSProbes: the barrier goes up and the running probe is cancelled; cleanup waits.
BlockIMSProbes ==
    /\ cleanup = "idle" /\ client # NoClient
    /\ cleanup' = "waiting"
    /\ blocked' = TRUE
    /\ cancelled' = cancelled \union ({imsProbeCancel} \ {"nobody"})
    /\ UNCHANGED <<client, ready, stopping, lives, activePDN, pc, uses, slot, running,
                   imsProbeCancel, quiet, calls, probes>>

\* Mutant: cleanup does not wait.
ClearsAtOnce ==
    /\ cleanup = "waiting"
    /\ cleanup' = "idle"
    /\ client' = NoClient /\ ready' = FALSE /\ activePDN' = FALSE
    /\ UNCHANGED <<stopping, blocked, lives, pc, uses, cancelled, slot, running,
                   imsProbeCancel, quiet, calls, probes>>

CleanupClears ==
    /\ cleanup = "waiting" /\ running = {}
    /\ cleanup' = "idle"
    /\ client' = NoClient /\ ready' = FALSE /\ activePDN' = FALSE
    /\ UNCHANGED <<stopping, blocked, lives, pc, uses, cancelled, slot, running,
                   imsProbeCancel, quiet, calls, probes>>

\* A recovery that converges, or a new start, takes the barrier down.
CoreReady ==
    /\ client = NoClient /\ cleanup = "idle" /\ lives < MaxLives
    /\ lives' = lives + 1
    /\ client' = lives + 1
    /\ ready' = TRUE /\ blocked' = FALSE /\ stopping' = FALSE
    /\ UNCHANGED <<cleanup, activePDN, pc, uses, cancelled, slot, running, imsProbeCancel,
                   quiet, calls, probes>>

ProbeStep(p) ==
    \/ LeaseWDS(p) \/ DiscoverProfile(p) \/ BeginQuiet(p) \/ StartCall(p) \/ Settings(p)
    \/ StopThenCalm(p) \/ ReleaseWDS(p) \/ UncancelThenSlot(p)

Next ==
    \/ \E p \in Probers :
         Begin(p) \/ Cancelled(p) \/ LeavesQueue(p) \/ TakeSlot(p) \/ ProbeStep(p)
    \/ DataCall \/ OtherQuiet \/ Stop \/ BlockIMSProbes \/ CleanupClears \/ CoreReady

Spec == Init /\ [][Next]_vars

\* A probe's requests end, by answer or timeout; cleanup runs as soon as it may.
FairSpec == Spec /\ (\A p \in Probers : WF_vars(ProbeStep(p))) /\ WF_vars(CleanupClears)

(***************************************************************************)
(* Properties.                                                             *)
(***************************************************************************)
ProbeTypeOK ==
    /\ client \in 0 .. MaxLives /\ lives \in 0 .. MaxLives
    /\ ready \in BOOLEAN /\ stopping \in BOOLEAN /\ blocked \in BOOLEAN /\ activePDN \in BOOLEAN
    /\ cleanup \in {"idle", "waiting"}
    /\ pc \in [Probers -> Places] /\ uses \in [Probers -> 0 .. MaxLives]
    /\ slot \in BOOLEAN
    /\ cancelled \subseteq Probers /\ running \subseteq Probers /\ calls \subseteq Probers
    /\ imsProbeCancel \in Probers \union {"nobody"}
    /\ quiet \in Probers \union {"nobody", "other"}
    /\ probes \in [Probers -> 0 .. MaxProbes]

\* No probe makes a request of a client that cleanup has given up.
NoProbeOnClosedClient == \A p \in Probers : uses[p] # NoClient => uses[p] = client

\* The slot is never lost and never had twice.
OneProbe ==
    Cardinality({p \in Probers : pc[p] \notin {"idle", "queue"}}) + (IF slot THEN 1 ELSE 0) = 1

\* Cleanup never waits for a probe it has not cancelled, which could take all the time
\* of a data call that is being set up.
CleanupCancelsProbe == cleanup = "waiting" => running \subseteq cancelled \union
                           {p \in Probers : pc[p] \in {"done", "return"}}

\* Card operations are held off for as long as a probe has a call, from the answer to
\* its start until its stop has returned.
CallInQuietWindow == \A p \in calls : quiet = p

\* Cleanup always gets past the probes, even when somebody else holds the quiet window.
CleanupGetsPastProbes == cleanup = "waiting" ~> cleanup = "idle"

\* A probe runs alone, in its quiet window, on a client that is in use, and cleanup
\* cancels the one it waits for (beginIMSProbe, blockIMSProbes).
ProbesContained ==
    /\ ProbeTypeOK /\ NoProbeOnClosedClient /\ OneProbe
    /\ CleanupCancelsProbe /\ CallInQuietWindow
=============================================================================
