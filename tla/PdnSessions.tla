------------------------------- MODULE PdnSessions -------------------------------
(***************************************************************************)
(* Secondary PDN sessions on the QMAP data plane                           *)
(* (pkg/manager/pdn_session.go, data_plane.go, and cleanup of manager.go). *)
(*                                                                         *)
(* A session owns a mux device of the kernel, a WDS client id and a call   *)
(* in the modem.  It is bound to the generation of the topology it was     *)
(* opened on; cleanup closes the sessions, forgets the topology and then   *)
(* the client, in three separately locked steps.                           *)
(***************************************************************************)
EXTENDS Integers, FiniteSets

CONSTANTS Muxes,           \* mux ids
          MaxSessions,     \* bound on the sessions opened
          MaxLives,        \* bound on the clients opened
          MaxGeneration    \* bound on the generation of a topology, one less for the next client

PdnAssumption ==
    /\ Muxes \subseteq Nat \ {0} /\ MaxSessions \in Nat /\ MaxLives \in Nat \ {0}
    /\ MaxGeneration \in Nat

Ids == 1 .. MaxSessions
NoClient == 0
NoMux == 0
NoTopology == [generation |-> 0, mode |-> "none", mux |-> NoMux]

VARIABLES snapshot,       \* dataPlane.snapshot: generation, mode and default mux
          master,         \* dataPlane.masterInterface is known
          sessions,       \* dataPlane.sessions: the ids in it
          opening,        \* the session OpenPDN is at, which holds dataPlane.mu, or idle
          nextSessionID,
          info,           \* per session: its mux, generation and client
          client,         \* m.client: its number, or NoClient
          lives,          \* clients opened so far
          cleanup,        \* where cleanup is
          todo,           \* sessions closeManagedPDNSessions listed and has not closed
          devices,        \* mux devices of the kernel
          leased,         \* sessions with a WDS client id in the modem
          unreleased,     \* those among them whose id nobody will release any more
          calls,          \* sessions with a call in the modem
          stops,          \* how often the call of each session was stopped
          stuck,          \* muxes whose deletion failed
          superseded,     \* sessions that lived when another topology was published
          late,           \* sessions published while cleanup ran
          orphans         \* sessions that lived when cleanup forgot the topology

vars == <<snapshot, master, sessions, opening, nextSessionID, info, client, lives, cleanup, todo,
          devices, leased, unreleased, calls, stops, stuck, superseded, late, orphans>>

Idle == [step |-> "idle", id |-> 0]
NoInfo == [mux |-> NoMux, generation |-> 0, client |-> NoClient]
Steps == {"idle", "add", "lease", "bind", "start", "up", "undo"}

Init ==
    /\ snapshot = NoTopology /\ master = FALSE
    /\ sessions = {} /\ opening = Idle /\ nextSessionID = 0
    /\ info = [s \in Ids |-> NoInfo]
    /\ client = 1 /\ lives = 1 /\ cleanup = "idle" /\ todo = {}
    /\ devices = {} /\ leased = {} /\ unreleased = {} /\ calls = {} /\ stuck = {}
    /\ stops = [s \in Ids |-> 0]
    /\ superseded = {} /\ late = {} /\ orphans = {}

\* dataPlane.mu is free: the operations below hold it from beginning to end.
Unlocked == opening = Idle

(***************************************************************************)
(* ConvergeDataPlane: the topology asked for, or the native one when QMAP  *)
(* cannot be had; each that differs is a new generation.                   *)
(***************************************************************************)
\* Mutant: the new topology is published under the generation of the old one.
PublishSame(mode, mux) ==
    snapshot' = [generation |-> IF snapshot.generation = 0 THEN 1 ELSE snapshot.generation,
                 mode |-> mode, mux |-> mux]

Publish(mode, mux) ==
    snapshot' = [generation |-> snapshot.generation + 1, mode |-> mode, mux |-> mux]

Converge(mux) ==
    /\ Unlocked /\ client # NoClient
    /\ snapshot.generation + lives <= MaxGeneration
    /\ <<snapshot.mode, snapshot.mux>> # <<IF mux = NoMux THEN "native" ELSE "qmap", mux>>
    /\ \/ /\ mux # NoMux
          /\ devices' = devices \union {mux}
          /\ master' = TRUE
          /\ Publish("qmap", mux)
       \/ /\ Publish("native", NoMux)
          /\ UNCHANGED <<devices, master>>
    /\ superseded' = superseded \union sessions
    /\ UNCHANGED <<sessions, opening, nextSessionID, info, client, lives, cleanup, todo, leased,
                   unreleased, calls, stops, stuck, late, orphans>>

(***************************************************************************)
(* OpenPDN.  Every step may fail; what was made is then undone.            *)
(***************************************************************************)
At(step) == opening.step = step
GoTo(step) == opening' = [opening EXCEPT !.step = step]

OpenPDN(mux) ==
    /\ Unlocked /\ nextSessionID < MaxSessions
    /\ snapshot.mode = "qmap" /\ mux # snapshot.mux /\ client # NoClient /\ master
    /\ nextSessionID' = nextSessionID + 1
    /\ opening' = [step |-> "add", id |-> nextSessionID + 1]
    /\ info' = [info EXCEPT ![nextSessionID + 1] =
                  [mux |-> mux, generation |-> snapshot.generation, client |-> client]]
    /\ UNCHANGED <<snapshot, master, sessions, client, lives, cleanup, todo, devices, leased,
                   unreleased, calls, stops, stuck, superseded, late, orphans>>

\* netcfg.AddQMAPMux also succeeds for a mux that is already there.
AddMux ==
    /\ At("add")
    /\ \/ /\ devices' = devices \union {info[opening.id].mux}
          /\ GoTo("lease")
       \/ /\ opening' = Idle
          /\ UNCHANGED devices
    /\ UNCHANGED <<snapshot, master, sessions, nextSessionID, info, client, lives, cleanup, todo,
                   leased, unreleased, calls, stops, stuck, superseded, late, orphans>>

\* The client may be gone: cleanup clears it without dataPlane.mu.  And the modem may
\* have given an id although no answer came.
LeaseWDS ==
    /\ At("lease")
    /\ \/ /\ client = info[opening.id].client
          /\ leased' = leased \union {opening.id}
          /\ \/ GoTo("bind") /\ UNCHANGED unreleased
             \/ GoTo("undo") /\ unreleased' = unreleased \union {opening.id}
       \/ /\ GoTo("undo")
          /\ UNCHANGED <<leased, unreleased>>
    /\ UNCHANGED <<snapshot, master, sessions, nextSessionID, info, client, lives, cleanup, todo,
                   devices, calls, stops, stuck, superseded, late, orphans>>

Bind ==
    /\ At("bind")
    /\ GoTo("start") \/ GoTo("undo")
    /\ UNCHANGED <<snapshot, master, sessions, nextSessionID, info, client, lives, cleanup, todo,
                   devices, leased, unreleased, calls, stops, stuck, superseded, late, orphans>>

\* A start that fails may have set the call up: its answer came too late.
Start ==
    /\ At("start")
    /\ \/ /\ calls' = calls \union {opening.id}
          /\ GoTo("up") \/ GoTo("undo")
       \/ /\ GoTo("undo")
          /\ UNCHANGED calls
    /\ UNCHANGED <<snapshot, master, sessions, nextSessionID, info, client, lives, cleanup, todo,
                   devices, leased, unreleased, stops, stuck, superseded, late, orphans>>

\* Settings, isolation and bringing the interface up; then the session is published.
Up ==
    /\ At("up")
    /\ \/ /\ sessions' = sessions \union {opening.id}
          /\ late' = IF cleanup = "idle" /\ client = info[opening.id].client THEN late
                   ELSE late \union {opening.id}
          /\ opening' = Idle
       \/ /\ GoTo("undo")
          /\ UNCHANGED <<sessions, late>>
    /\ UNCHANGED <<snapshot, master, nextSessionID, info, client, lives, cleanup, todo, devices,
                   leased, unreleased, calls, stops, stuck, superseded, orphans>>

\* Deleting a mux may fail.
Delete(mux) ==
    \/ /\ devices' = devices \ {mux}
       /\ UNCHANGED stuck
    \/ /\ stuck' = stuck \union {mux}
       /\ UNCHANGED devices

\* The call is stopped and the WDS client id, which ends its call in the modem, released.
\* Either may fail, the release always does when its client is gone, and neither is tried
\* again.
Releases(s) ==
    IF s \in leased \ unreleased
    THEN \/ /\ client = info[s].client
            /\ leased' = leased \ {s}
            /\ calls' = calls \ {s}
            /\ UNCHANGED unreleased
         \/ /\ unreleased' = unreleased \union {s}
            /\ calls' \in {calls, calls \ {s}}
            /\ UNCHANGED leased
    ELSE UNCHANGED <<leased, unreleased, calls>>

\* Mutant: a call whose start failed is taken for one that holds nothing.
UndoMuxOnly ==
    /\ At("undo")
    /\ Delete(info[opening.id].mux)
    /\ opening' = Idle
    /\ UNCHANGED <<snapshot, master, sessions, nextSessionID, info, client, lives, cleanup, todo,
                   leased, unreleased, calls, stops, superseded, late, orphans>>

Undo ==
    /\ At("undo")
    /\ Delete(info[opening.id].mux)
    /\ Releases(opening.id)
    /\ opening' = Idle
    /\ UNCHANGED <<snapshot, master, sessions, nextSessionID, info, client, lives, cleanup, todo,
                   stops, superseded, late, orphans>>

(***************************************************************************)
(* managedPDNSession.Close: a stale session is left alone, one that is no  *)
(* longer registered was closed before.  The failure of one step does not  *)
(* keep the others from being taken.                                       *)
(***************************************************************************)
\* Mutant: the session stays registered.
TakesDownKeeps(s) ==
    /\ stops' = [stops EXCEPT ![s] = @ + 1]
    /\ Releases(s)
    /\ Delete(info[s].mux)
    /\ UNCHANGED sessions

TakesDown(s) ==
    /\ sessions' = sessions \ {s}
    /\ stops' = [stops EXCEPT ![s] = @ + 1]
    /\ Releases(s)
    /\ Delete(info[s].mux)

\* Mutant: a stale session is closed like any other.
CurrentOrStale(s) == s \in sessions /\ stops[s] < 2

Current(s) == s \in sessions /\ info[s].generation = snapshot.generation /\ stops[s] < 2

Close(s) ==
    /\ Unlocked /\ Current(s)
    /\ TakesDown(s)
    /\ UNCHANGED <<snapshot, master, opening, nextSessionID, info, client, lives, cleanup, todo,
                   superseded, late, orphans>>

(***************************************************************************)
(* cleanup, and the next open of the client.                               *)
(***************************************************************************)
\* Mutant: the topology is forgotten before the sessions are closed.
CleanupForgetsFirst ==
    /\ Unlocked /\ cleanup = "idle" /\ client # NoClient
    /\ cleanup' = "closing"
    /\ todo' = sessions
    /\ snapshot' = NoTopology
    /\ UNCHANGED <<master, sessions, opening, nextSessionID, info, client, lives, devices, leased,
                   unreleased, calls, stops, stuck, superseded, late, orphans>>

CleanupLists ==
    /\ Unlocked /\ cleanup = "idle" /\ client # NoClient
    /\ cleanup' = "closing"
    /\ todo' = sessions
    /\ UNCHANGED <<snapshot, master, sessions, opening, nextSessionID, info, client, lives,
                   devices, leased, unreleased, calls, stops, stuck, superseded, late, orphans>>

CleanupClosesSession(s) ==
    /\ Unlocked /\ cleanup = "closing" /\ s \in todo
    /\ todo' = todo \ {s}
    /\ IF Current(s)
       THEN TakesDown(s)
       ELSE UNCHANGED <<sessions, stops, leased, unreleased, calls, devices, stuck>>
    /\ UNCHANGED <<snapshot, master, opening, nextSessionID, info, client, lives, cleanup,
                   superseded, late, orphans>>

CleanupForgetsTopology ==
    /\ Unlocked /\ cleanup = "closing" /\ todo = {}
    /\ cleanup' = "forgot"
    /\ snapshot' = NoTopology
    /\ master' = FALSE
    /\ orphans' = orphans \union sessions
    /\ UNCHANGED <<sessions, opening, nextSessionID, info, client, lives, todo, devices, leased,
                   unreleased, calls, stops, stuck, superseded, late>>

CleanupClearsClient ==
    /\ cleanup = "forgot"
    /\ cleanup' = "idle"
    /\ client' = NoClient
    /\ UNCHANGED <<snapshot, master, sessions, opening, nextSessionID, info, lives, todo, devices,
                   leased, unreleased, calls, stops, stuck, superseded, late, orphans>>

OpenClient ==
    /\ client = NoClient /\ cleanup = "idle" /\ lives < MaxLives
    /\ lives' = lives + 1
    /\ client' = lives + 1
    /\ UNCHANGED <<snapshot, master, sessions, opening, nextSessionID, info, cleanup, todo,
                   devices, leased, unreleased, calls, stops, stuck, superseded, late, orphans>>

Next ==
    \/ \E mux \in Muxes \union {NoMux} : Converge(mux)
    \/ \E mux \in Muxes : OpenPDN(mux)
    \/ AddMux \/ LeaseWDS \/ Bind \/ Start \/ Up \/ Undo
    \/ \E s \in Ids : Close(s) \/ CleanupClosesSession(s)
    \/ CleanupLists \/ CleanupForgetsTopology \/ CleanupClearsClient \/ OpenClient

Spec == Init /\ [][Next]_vars

(***************************************************************************)
(* Properties.                                                             *)
(***************************************************************************)
PdnTypeOK ==
    /\ snapshot \in [generation : 0 .. MaxGeneration, mode : {"none", "native", "qmap"},
                     mux : Muxes \union {NoMux}]
    /\ master \in BOOLEAN /\ sessions \subseteq Ids
    /\ opening \in [step : Steps, id : 0 .. MaxSessions]
    /\ nextSessionID \in 0 .. MaxSessions
    /\ info \in [Ids -> [mux : Muxes \union {NoMux}, generation : 0 .. MaxGeneration,
                         client : 0 .. MaxLives]]
    /\ client \in 0 .. MaxLives /\ lives \in 0 .. MaxLives
    /\ cleanup \in {"idle", "closing", "forgot"} /\ todo \subseteq Ids
    /\ devices \subseteq Muxes /\ stuck \subseteq Muxes
    /\ leased \subseteq Ids /\ unreleased \subseteq Ids /\ calls \subseteq Ids
    /\ superseded \subseteq Ids /\ late \subseteq Ids /\ orphans \subseteq Ids
    /\ stops \in [Ids -> 0 .. 2]

\* Whatever step of opening or closing a session fails, every WDS client id in the modem,
\* and so every call, is that of a registered session, but for the ids whose release
\* failed and those whose allocation was answered too late: nobody tries these again.
NothingWithoutSession ==
    /\ Unlocked => leased \ unreleased \subseteq sessions
    /\ calls \subseteq leased /\ unreleased \intersect sessions = {}

\* The call of a session is stopped at most once, however its holder's Close and
\* cleanup meet.
StoppedOnce == \A s \in Ids : stops[s] =< 1

\* When cleanup gives up the client, only sessions of a superseded topology, or
\* opened while it ran, have not been closed.
CleanupClosesSessions ==
    client = NoClient => \A s \in sessions : s \in superseded \union late

\* A step that closes a session of a superseded topology takes no mux with it.
StaleTakesNoMux ==
    \A s \in superseded : s \in sessions \ sessions' /\ devices' # devices => s \in orphans

\* A session of a topology that has been superseded never takes a mux away: the mux
\* belongs to the topology in use now.  (Except a session that outlived cleanup: the
\* generations are numbered from 1 again then, see StaleKeepsMux.)
StaleKeepsMuxInLife == [][StaleTakesNoMux]_vars

\* Closing a stale session does not delete its mux after a new generation was published.
StaleKeepsMux ==
    [][\A s \in superseded : s \in sessions \ sessions' => devices' = devices]_vars

\* Sessions own their calls, ids and muxes, whatever step of opening, closing or
\* cleaning up fails, but for the ids whose release fails (OpenPDN, Close,
\* closeManagedPDNSessions).
SessionsOwnCalls ==
    /\ [](PdnTypeOK /\ NothingWithoutSession /\ StoppedOnce /\ CleanupClosesSessions)
    /\ StaleKeepsMuxInLife
=============================================================================
