-------------------------------- MODULE QmapMuxes --------------------------------
(***************************************************************************)
(* The mux interfaces of several modems in one kernel (pkg/netcfg/linux.go *)
(* and qmap_topology_linux.go, and who calls them: data_plane.go,          *)
(* pdn_session.go, and cleanup of manager.go).                             *)
(*                                                                         *)
(* The kernel names mux interfaces qmimux0, qmimux1, ... as they come, for *)
(* all modems alike; the code finds them again in sysfs.  Each modem has a *)
(* manager, which may crash and start anew beside interfaces it left.      *)
(* Sessions and generations are those of PdnSessions; here a session is no *)
(* more than its mux.                                                      *)
(***************************************************************************)
EXTENDS Integers, FiniteSets, FiniteSetsExt

CONSTANTS Modems,         \* a modem is also the name of its physical interface
          Qmap,           \* modems whose driver has add_mux, del_mux and raw_ip
          DefaultMux,     \* per modem the mux id of its default connection
          SessionMux,     \* per modem the mux ids of its PDN sessions
          MaxLinks,       \* bound on the mux interfaces of the kernel
          Padded,         \* the kernel writes mux_id with two digits, as in "0x01"
          MaxUpsets       \* bound on cleanups, crashes of managers and modems replugged

MuxesAssumption ==
    /\ IsFiniteSet(Modems) /\ Qmap \subseteq Modems /\ "none" \notin Modems
    /\ DefaultMux \in [Modems -> 1 .. 127] /\ SessionMux \in [Modems -> SUBSET (1 .. 127)]
    /\ \A m \in Modems : DefaultMux[m] \notin SessionMux[m]
    /\ MaxLinks \in Nat /\ Padded \in BOOLEAN /\ MaxUpsets \in Nat

None == "none"
Slots == 0 .. MaxLinks - 1
NoLink == [master |-> None, mux |-> 0]
NoTopology == [mode |-> None, iface |-> -1]
Idle == [step |-> "idle", master |-> None, mux |-> 0]

VARIABLES links,             \* links[n]: the mux interface qmimux<n>
          snapshot,          \* dataPlane.snapshot: its mode and default interface
          masterInterface,   \* dataPlane.masterInterface
          masterIface,       \* m.masterIface
          sessions,          \* mux ids of dataPlane.sessions
          opening,           \* where the holder of dataPlane.mu is, or Idle
          client,            \* m.client is there
          cleanup,           \* where cleanup is
          reconciled,        \* the master whose muxes cleanup removes
          upsets,         \* cleanups, crashes and replugs so far
          guessed,          \* modems whose default mux was found among several, or guessed
          late,              \* modems that published a topology cleanup had just forgotten
          lost               \* modems replugged since their topology was published

vars == <<links, snapshot, masterInterface, masterIface, sessions, opening, client, cleanup,
          reconciled, upsets, guessed, late, lost>>

Init ==
    /\ links = [n \in Slots |-> NoLink]
    /\ snapshot = [m \in Modems |-> NoTopology]
    /\ masterInterface = [m \in Modems |-> None] /\ masterIface = [m \in Modems |-> None]
    /\ sessions = [m \in Modems |-> {}] /\ opening = [m \in Modems |-> Idle]
    /\ client = [m \in Modems |-> TRUE] /\ cleanup = [m \in Modems |-> "idle"]
    /\ reconciled = [m \in Modems |-> None] /\ upsets = 0
    /\ guessed = {} /\ late = {} /\ lost = {}

-----------------------------------------------------------------------------
(* The kernel.  External.                                                  *)

There == {n \in Slots : links[n] # NoLink}
Of(x) == {n \in There : links[n].master = x}
WithId(x, id) == {n \in Of(x) : links[n].mux = id}

\* A write to add_mux: the kernel refuses an id the master has, and takes the first
\* free number otherwise, unless the driver has a reason to refuse.
Added(x, id) ==
    IF WithId(x, id) = {} /\ There # Slots
    THEN {links, [links EXCEPT ![Min(Slots \ There)] = [master |-> x, mux |-> id]]}
    ELSE {links}

Without(gone) == [n \in Slots |-> IF n \in gone THEN NoLink ELSE links[n]]

\* A write to del_mux, which may fail.
Deleted(x, id) == {links, Without(WithId(x, id))}

-----------------------------------------------------------------------------
(* sysfs as the code reads it.                                             *)

\* GetQMAPMuxIface compares the text of mux_id with the id in decimal and in hexadecimal
\* digits without a leading zero.
Recognised(id) == Padded => id >= 16

\* The interfaces GetQMAPMuxIface takes for the mux: of whatever master.
Lookalikes(id) == {n \in There : links[n].mux = id /\ Recognised(id)}

\* Mutant: a lookup that takes the name the id suggests if there is such an interface.
GetQMAPMuxIfaceByName(id) == IF id - 1 \in There THEN {id - 1} ELSE Lookalikes(id)

\* GetQMAPMuxIface: the first such interface by name, or else the one the id suggests.
GetQMAPMuxIface(id) ==
    IF Lookalikes(id) # {} THEN {Min(Lookalikes(id))} ELSE {id - 1} \cap There

\* discoverQMAPTopology: the master, for which the only one with the sysfs files stands in
\* when the configured one has none; nothing if there are several.
DiscoverQMAPTopology(m) ==
    LET others == Qmap \ {m}
    IN  IF m \in Qmap \/ others = {} THEN {m} ELSE IF Cardinality(others) = 1 THEN others ELSE {}

\* Mutant: ReconcileResidualMux takes all mux interfaces.
InScopeOfAny(x) == There

\* ReconcileResidualMux scans the interfaces by name and takes those of the master.
InScope(x) == Of(x)

-----------------------------------------------------------------------------
(* The default data plane.                                                 *)

Goto(m, step, x, id) == opening' = [opening EXCEPT ![m] = [step |-> step, master |-> x, mux |-> id]]
Leave(m) == opening' = [opening EXCEPT ![m] = Idle]

\* convergeQMAPLocked publishes the interface.
Publish(m, x, n) ==
    /\ snapshot' = [snapshot EXCEPT ![m] = [mode |-> "qmap", iface |-> n]]
    /\ masterInterface' = [masterInterface EXCEPT ![m] = x]
    /\ masterIface' = [masterIface EXCEPT ![m] = x]
    /\ late' = IF cleanup[m] \in {"idle", "closing"} THEN late \ {m} ELSE late \cup {m}
    /\ lost' = lost \ {m}
    /\ Leave(m)
    /\ UNCHANGED <<links, sessions, client, cleanup, reconciled, upsets>>

\* ConvergeDataPlane for QMAP: the modem may refuse the data format; an interface that is
\* there is adopted, otherwise it is created.
ConvergeDataPlane(m) ==
    /\ opening[m] = Idle /\ client[m] /\ snapshot[m].mode # "qmap"
    /\ \/ /\ Goto(m, "native", m, 0)
          /\ UNCHANGED <<links, snapshot, masterInterface, masterIface, sessions, client, cleanup,
                         reconciled, upsets, guessed, late, lost>>
       \/ \E x \in DiscoverQMAPTopology(m) :
             \/ \E n \in WithId(x, DefaultMux[m]) : guessed' = guessed \ {m} /\ Publish(m, x, n)
             \/ /\ WithId(x, DefaultMux[m]) = {}
                /\ Goto(m, "add", x, DefaultMux[m])
                /\ UNCHANGED <<links, snapshot, masterInterface, masterIface, sessions, client,
                               cleanup, reconciled, upsets, guessed, late, lost>>

\* AddQMAPMux writes to add_mux if the file is there, whatever the kernel answers.
AddQMAPMux(m) ==
    /\ opening[m].step = "add"
    /\ LET x == opening[m].master
           id == opening[m].mux
       IN  \/ x \in Qmap /\ links' \in Added(x, id) /\ Goto(m, "find", x, id)
           \/ x \notin Qmap /\ UNCHANGED links /\ Goto(m, "native", x, id)
    /\ UNCHANGED <<snapshot, masterInterface, masterIface, sessions, client, cleanup, reconciled,
                   upsets, guessed, late, lost>>

\* AddQMAPMux looks for the interface: the default one is published, a session goes on.
FindDefault(m) ==
    /\ opening[m].step = "find" /\ opening[m].mux = DefaultMux[m]
    /\ \/ \E n \in GetQMAPMuxIface(opening[m].mux) :
             /\ guessed' = IF Lookalikes(opening[m].mux) # {}
                           THEN guessed \ {m} ELSE guessed \cup {m}
             /\ Publish(m, opening[m].master, n)
       \/ /\ GetQMAPMuxIface(opening[m].mux) = {}
          /\ Goto(m, "native", m, 0)
          /\ UNCHANGED <<links, snapshot, masterInterface, masterIface, sessions, client, cleanup,
                         reconciled, upsets, guessed, late, lost>>

\* convergeNativeLocked, after QMAP failed; the modem may refuse its data format, too.
ConvergeNative(m) ==
    /\ opening[m].step = "native"
    /\ \/ /\ snapshot' = [snapshot EXCEPT ![m] = [mode |-> "native", iface |-> -1]]
          /\ masterIface' = [masterIface EXCEPT ![m] = m]
       \/ UNCHANGED <<snapshot, masterIface>>
    /\ Leave(m)
    /\ UNCHANGED <<links, masterInterface, sessions, client, cleanup, reconciled, upsets,
                   guessed, late, lost>>

-----------------------------------------------------------------------------
(* PDN sessions.                                                           *)

OpenPDN(m) ==
    /\ opening[m] = Idle /\ client[m] /\ snapshot[m].mode = "qmap"
    /\ \E id \in SessionMux[m] \ sessions[m] : Goto(m, "add", masterInterface[m], id)
    /\ UNCHANGED <<links, snapshot, masterInterface, masterIface, sessions, client, cleanup,
                   reconciled, upsets, guessed, late, lost>>

\* The mux of the session is found or not; the rest of OpenPDN succeeds, or deletes it.
FinishPDN(m) ==
    LET id == opening[m].mux
    IN  /\ opening[m].step = "find" /\ id # DefaultMux[m]
        /\ \/ GetQMAPMuxIface(id) = {} /\ UNCHANGED <<links, sessions>>
           \/ /\ GetQMAPMuxIface(id) # {}
              /\ sessions' = [sessions EXCEPT ![m] = @ \cup {id}] /\ UNCHANGED links
           \/ /\ GetQMAPMuxIface(id) # {}
              /\ links' \in Deleted(opening[m].master, id) /\ UNCHANGED sessions
        /\ Leave(m)
        /\ UNCHANGED <<snapshot, masterInterface, masterIface, client, cleanup, reconciled,
                       upsets, guessed, late, lost>>

\* Close of a session, by its user or by cleanup.
ClosePDN(m) ==
    /\ opening[m] = Idle
    /\ \E id \in sessions[m] :
          /\ sessions' = [sessions EXCEPT ![m] = @ \ {id}]
          /\ links' \in Deleted(masterInterface[m], id)
    /\ UNCHANGED <<snapshot, masterInterface, masterIface, opening, client, cleanup, reconciled,
                   upsets, guessed, late, lost>>

-----------------------------------------------------------------------------
(* cleanup: the sessions, the topology, the client, and then the muxes.     *)

BeginCleanup(m) ==
    /\ cleanup[m] = "idle" /\ client[m]
    /\ upsets < MaxUpsets /\ upsets' = upsets + 1
    /\ cleanup' = [cleanup EXCEPT ![m] = "closing"]
    /\ UNCHANGED <<links, snapshot, masterInterface, masterIface, sessions, opening, client,
                   reconciled, guessed, late, lost>>

\* Sessions that are still there are opened since and stale from now on.
ForgetTopology(m) ==
    /\ cleanup[m] = "closing" /\ opening[m] = Idle
    /\ cleanup' = [cleanup EXCEPT ![m] = "forgot"]
    /\ snapshot' = [snapshot EXCEPT ![m] = NoTopology]
    /\ masterInterface' = [masterInterface EXCEPT ![m] = None]
    /\ sessions' = [sessions EXCEPT ![m] = {}]
    /\ late' = late \ {m}
    /\ UNCHANGED <<links, masterIface, opening, client, reconciled, upsets, guessed, lost>>

\* Mutant: a process that has built no topology reconciles nothing.
ToReconcileIfBuilt(m) == masterIface[m]

\* Without a master it is the configured interface.
ToReconcile(m) == IF masterIface[m] = None THEN m ELSE masterIface[m]

\* The fields of m.mu are taken.
ClearClient(m) ==
    /\ cleanup[m] = "forgot"
    /\ cleanup' = [cleanup EXCEPT ![m] = "tasks"]
    /\ reconciled' = [reconciled EXCEPT ![m] = ToReconcile(m)]
    /\ masterIface' = [masterIface EXCEPT ![m] = None]
    /\ client' = [client EXCEPT ![m] = FALSE]
    /\ UNCHANGED <<links, snapshot, masterInterface, sessions, opening, upsets, guessed, late,
                   lost>>

\* ReconcileResidualMux: every id in scope is written to del_mux of the master, up to the
\* first that fails, which is one the master has not or one the kernel refuses.
ReconcileResidualMux(m) ==
    /\ cleanup[m] = "tasks"
    /\ \E refused \in {{}} \cup {{n} : n \in Of(reconciled[m])} :
          LET x == reconciled[m]
              failing == {n \in InScope(x) : n \in refused \/ WithId(x, links[n].mux) = {}}
              done == {n \in InScope(x) : \A f \in failing : n < f}
          IN  /\ links' = Without(UNION {WithId(x, links[n].mux) : n \in done})
              /\ cleanup' = [cleanup EXCEPT ![m] = IF refused = {} THEN "clean" ELSE "unclean"]
    /\ UNCHANGED <<snapshot, masterInterface, masterIface, sessions, opening, client, reconciled,
                   upsets, guessed, late, lost>>

\* The next core opens a client.
Reopen(m) ==
    /\ cleanup[m] \in {"clean", "unclean"}
    /\ cleanup' = [cleanup EXCEPT ![m] = "idle"]
    /\ client' = [client EXCEPT ![m] = TRUE]
    /\ reconciled' = [reconciled EXCEPT ![m] = None]
    /\ UNCHANGED <<links, snapshot, masterInterface, masterIface, sessions, opening, upsets,
                   guessed, late, lost>>

-----------------------------------------------------------------------------
(* Accidents.  External.                                                   *)

\* The process of a manager dies and a new one starts.
Crash(m) ==
    /\ upsets < MaxUpsets /\ upsets' = upsets + 1
    /\ snapshot' = [snapshot EXCEPT ![m] = NoTopology]
    /\ masterInterface' = [masterInterface EXCEPT ![m] = None]
    /\ masterIface' = [masterIface EXCEPT ![m] = None]
    /\ sessions' = [sessions EXCEPT ![m] = {}] /\ opening' = [opening EXCEPT ![m] = Idle]
    /\ client' = [client EXCEPT ![m] = TRUE] /\ cleanup' = [cleanup EXCEPT ![m] = "idle"]
    /\ reconciled' = [reconciled EXCEPT ![m] = None]
    /\ guessed' = guessed \ {m} /\ late' = late \ {m} /\ lost' = lost \ {m}
    /\ UNCHANGED links

\* A modem goes, with all interfaces on it, and is back before its manager knows.
Replug(m) ==
    /\ upsets < MaxUpsets /\ upsets' = upsets + 1
    /\ links' = Without(Of(m)) /\ lost' = lost \cup {m}
    /\ UNCHANGED <<snapshot, masterInterface, masterIface, sessions, opening, client, cleanup,
                   reconciled, guessed, late>>

Next ==
    \E m \in Modems :
        \/ ConvergeDataPlane(m) \/ AddQMAPMux(m) \/ FindDefault(m) \/ ConvergeNative(m)
        \/ OpenPDN(m) \/ FinishPDN(m) \/ ClosePDN(m)
        \/ BeginCleanup(m) \/ ForgetTopology(m) \/ ClearClient(m) \/ ReconcileResidualMux(m)
        \/ Reopen(m) \/ Crash(m) \/ Replug(m)

Spec == Init /\ [][Next]_vars

-----------------------------------------------------------------------------

MuxesTypeOK ==
    /\ links \in [Slots -> {NoLink} \cup [master : Qmap, mux : 1 .. 127]]
    /\ snapshot \in [Modems -> [mode : {None, "native", "qmap"}, iface : Slots \cup {-1}]]
    /\ masterInterface \in [Modems -> Modems \cup {None}]
    /\ masterIface \in [Modems -> Modems \cup {None}]
    /\ \A m \in Modems : sessions[m] \subseteq SessionMux[m]
    /\ \A m \in Modems : opening[m].step \in {"idle", "add", "find", "native"}
    /\ client \in [Modems -> BOOLEAN]
    /\ cleanup \in [Modems -> {"idle", "closing", "forgot", "tasks", "clean", "unclean"}]
    /\ reconciled \in [Modems -> Modems \cup {None}]
    /\ upsets \in 0 .. MaxUpsets
    /\ guessed \subseteq Modems /\ late \subseteq Modems /\ lost \subseteq Modems

\* No mux id is used for two modems, and every driver knows QMAP.
IdsApart ==
    LET Ids(m) == {DefaultMux[m]} \cup SessionMux[m]
    IN  Qmap = Modems /\ \A m, o \in Modems : m # o => Ids(m) \cap Ids(o) = {}

\* Where no id is used for two modems, the default connection of each is configured on a
\* mux interface of its own, through crashes and whatever the managers of other modems
\* create and remove (AddQMAPMux, discoverQMAPTopology, ReconcileResidualMux), unless it
\* was guessed, published inside a cleanup, or the modem was replugged since.
DefaultMuxIsOwn ==
    IdsApart =>
        \A m \in Modems \ (guessed \cup late \cup lost) :
            snapshot[m].mode = "qmap" =>
                links[snapshot[m].iface] = [master |-> m, mux |-> DefaultMux[m]]

\* The cleanup that ends now has taken every mux interface of its modem.
CleanupTakesMuxes ==
    \A m \in Modems :
        cleanup[m] = "tasks" /\ cleanup'[m] = "clean" /\ opening[m] = Idle /\ m \notin late =>
            \A n \in Slots : links'[n].master # m

\* A cleanup whose writes to del_mux are obeyed leaves no mux interface of its modem, those
\* of an earlier process included (ReconcileResidualMux), unless a topology is built
\* meanwhile.
CleanupLeavesNoMux == [][CleanupTakesMuxes]_vars

\* The mux interfaces are those of their modems.
MuxesOwned == [](MuxesTypeOK /\ DefaultMuxIsOwn) /\ CleanupLeavesNoMux
=============================================================================
