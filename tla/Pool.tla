---------------------------------- MODULE Pool ----------------------------------
(***************************************************************************)
(* The pool of modems (pkg/manager/pool.go): adding, removing, starting    *)
(* and stopping managers, the watcher of modems that are plugged in and    *)
(* out, and the health monitor.                                            *)
(*                                                                         *)
(* The pool's lock is held through Add, Remove and a whole scan, so each   *)
(* is one step; discovering modems, starting a manager and a health check  *)
(* run outside it.                                                         *)
(***************************************************************************)
EXTENDS Naturals, FiniteSets, Functions

CONSTANTS Names,         \* network interfaces of modems
          MaxManagers,   \* bound on the managers made
          MaxStarts      \* for the watcher and the monitor, bound on its starts


None == 0
Kinds == {"hotplug", "health"}

PoolAssumption == MaxManagers \in Nat /\ MaxStarts \in [Kinds -> Nat]

Managers == 1 .. MaxManagers
Loops == UNION {{k} \X (1 .. MaxStarts[k]) : k \in Kinds}

VARIABLES plugged,     \* modems that are there
          modems,      \* name -> manager, or None
          made,        \* managers made so far
          mgr,         \* what each manager does
          overtaken,   \* managers that were stopped before their Start was through
          ctx,         \* hotplugCtx and healthCtx: the number of the start, or None
          started,     \* starts so far
          loop,        \* where each loop is
          waits,       \* the context it waits for
          seen,        \* modems a scan has discovered, or a check has still to ask
          health,      \* healthStatus: names with a status
          left,        \* names whose modem was removed during a check, or by Remove
          crashed      \* a loop met a nil context

vars == <<plugged, modems, made, mgr, overtaken, ctx, started, loop, waits, seen, health, left, crashed>>

Init ==
    /\ plugged = {}
    /\ modems = [n \in Names |-> None] /\ made = 0
    /\ mgr = [m \in Managers |-> "none"] /\ overtaken = {}
    /\ ctx = [k \in Kinds |-> None] /\ started = [k \in Kinds |-> 0]
    /\ loop = [l \in Loops |-> "none"] /\ waits = [l \in Loops |-> None] /\ seen = [l \in Loops |-> {}]
    /\ health = {} /\ left = {}
    /\ crashed = FALSE

Pooled == {modems[n] : n \in Names} \ {None}

PlugChanges(n) ==
    /\ plugged' = IF n \in plugged THEN plugged \ {n} ELSE plugged \cup {n}
    /\ UNCHANGED <<modems, made, mgr, overtaken, ctx, started, loop, waits, seen, health, left, crashed>>

(***************************************************************************)
(* Managers.  Start is accepted after Stop; Stop does not wait for a Start *)
(* that is on its way, which goes on behind it.                            *)
(***************************************************************************)
Stopped(ms, m) == IF m \in ms /\ mgr[m] \in {"new", "runs"} THEN "stopped" ELSE mgr[m]
Overtaken(ms)  == {m \in ms : mgr[m] = "launched"}

AfterStop(ms) ==
    /\ mgr' = [m \in Managers |-> Stopped(ms, m)]
    /\ overtaken' = overtaken \cup Overtaken(ms)

StartEnds(m) ==
    /\ mgr[m] = "launched"
    /\ \E how \in {"runs", "stopped"} : mgr' = [mgr EXCEPT ![m] = how]
    /\ UNCHANGED <<plugged, modems, made, overtaken, ctx, started, loop, waits, seen, health, left, crashed>>

Checking == {l \in Loops : l[1] = "health" /\ loop[l] = "checks"}

Add(n) ==
    /\ modems[n] = None /\ made < MaxManagers
    /\ made' = made + 1
    /\ modems' = [modems EXCEPT ![n] = made + 1]
    /\ mgr' = [mgr EXCEPT ![made + 1] = "new"]
    /\ UNCHANGED <<plugged, overtaken, ctx, started, loop, waits, seen, health, left, crashed>>

\* Remove stops the manager and keeps the status.
Remove(n) ==
    /\ modems[n] # None
    /\ AfterStop({modems[n]})
    /\ modems' = [modems EXCEPT ![n] = None]
    /\ left' = left \cup {n}
    /\ UNCHANGED <<plugged, made, ctx, started, loop, waits, seen, health, crashed>>

\* Managers that run already refuse.
StartAll ==
    /\ mgr' = [m \in Managers |-> IF m \in Pooled /\ mgr[m] \in {"new", "stopped"} THEN "launched" ELSE mgr[m]]
    /\ mgr' # mgr
    /\ UNCHANGED <<plugged, modems, made, overtaken, ctx, started, loop, waits, seen, health, left, crashed>>

StopAll ==
    /\ Pooled # {}
    /\ AfterStop(Pooled)
    /\ UNCHANGED <<plugged, modems, made, ctx, started, loop, waits, seen, health, left, crashed>>

(***************************************************************************)
(* WatchHotPlug and StartHealthMonitor, StopHotPlug and StopHealthMonitor. *)
(***************************************************************************)
Watch(k) ==
    /\ ctx[k] = None /\ started[k] < MaxStarts[k]
    /\ started' = [started EXCEPT ![k] = @ + 1]
    /\ ctx' = [ctx EXCEPT ![k] = started[k] + 1]
    /\ loop' = [loop EXCEPT ![<<k, started[k] + 1>>] = "turns"]
    /\ UNCHANGED <<plugged, modems, made, mgr, overtaken, waits, seen, health, left, crashed>>

StopWatch(k) ==
    /\ ctx[k] # None
    /\ ctx' = [ctx EXCEPT ![k] = None]
    /\ UNCHANGED <<plugged, modems, made, mgr, overtaken, started, loop, waits, seen, health, left, crashed>>

\* A loop looks its context up afresh at every turn.  It may be that of a later start; and
\* a loop that meets none brings the process down.
Turns(l) ==
    /\ loop[l] = "turns"
    /\ IF ctx[l[1]] = None THEN crashed' = TRUE /\ UNCHANGED <<loop, waits>>
       ELSE /\ loop' = [loop EXCEPT ![l] = "waits"]
            /\ waits' = [waits EXCEPT ![l] = ctx[l[1]]]
            /\ UNCHANGED crashed
    /\ UNCHANGED <<plugged, modems, made, mgr, overtaken, ctx, started, seen, health, left>>

Ends(l) ==
    /\ loop[l] = "waits" /\ waits[l] # ctx[l[1]]
    /\ loop' = [loop EXCEPT ![l] = "ended"] /\ waits' = [waits EXCEPT ![l] = None]
    /\ UNCHANGED <<plugged, modems, made, mgr, overtaken, ctx, started, seen, health, left, crashed>>

\* The ticker ticks; it may win against a context that has ended.  A scan discovers
\* modems, or fails; a check lists the managers.
Ticks(l) ==
    /\ loop[l] = "waits" /\ waits' = [waits EXCEPT ![l] = None]
    /\ \/ /\ l[1] = "hotplug"
          /\ loop' = [loop EXCEPT ![l] = "scans"]
          /\ seen' = [seen EXCEPT ![l] = plugged]
       \/ /\ l[1] = "health"
          /\ loop' = [loop EXCEPT ![l] = "checks"]
          /\ seen' = [seen EXCEPT ![l] = {n \in Names : modems[n] # None}]
    /\ UNCHANGED <<plugged, modems, made, mgr, overtaken, ctx, started, health, left, crashed>>

\* Mutant: modems that are gone are only taken from the pool.
StoppedByScanNone(gone) == {}
StoppedByScan(gone)     == {modems[n] : n \in gone}

\* Mutant: the status of a modem that is gone is kept.
WithoutStatusKept(gone) == health
WithoutStatus(gone)     == health \ gone

\* What was discovered may be old by now.  Modems that are gone are stopped and removed
\* with their status; a manager is made for each new one, and started behind the scan.
scanForChanges(l) ==
    LET gone    == {n \in Names : modems[n] # None /\ n \notin seen[l]}
        new     == {n \in seen[l] : modems[n] = None}
        numbers == made + 1 .. made + Cardinality(new) IN
    /\ loop[l] = "scans"
    /\ made + Cardinality(new) <= MaxManagers
    /\ made' = made + Cardinality(new)
    /\ \E for \in Bijection(new, numbers) :
           modems' = [n \in Names |-> IF n \in gone THEN None ELSE IF n \in new THEN for[n] ELSE modems[n]]
    /\ mgr' = [m \in Managers |-> IF m \in numbers THEN "launched" ELSE Stopped(StoppedByScan(gone), m)]
    /\ overtaken' = overtaken \cup Overtaken(StoppedByScan(gone))
    /\ health' = WithoutStatus(gone)
    /\ left' = IF Checking = {} THEN left ELSE left \cup gone
    /\ loop' = [loop EXCEPT ![l] = "turns"] /\ seen' = [seen EXCEPT ![l] = {}]
    /\ UNCHANGED <<plugged, ctx, started, waits, crashed>>

scanFails(l) ==
    /\ loop[l] = "scans"
    /\ loop' = [loop EXCEPT ![l] = "turns"] /\ seen' = [seen EXCEPT ![l] = {}]
    /\ UNCHANGED <<plugged, modems, made, mgr, overtaken, ctx, started, waits, health, left, crashed>>

\* One manager of the list is asked, and its status noted, in the pool or not.
checkHealth(l) ==
    /\ loop[l] = "checks"
    /\ \/ \E n \in seen[l] : health' = health \cup {n} /\ seen' = [seen EXCEPT ![l] = @ \ {n}] /\ UNCHANGED loop
       \/ seen[l] = {} /\ loop' = [loop EXCEPT ![l] = "turns"] /\ UNCHANGED <<health, seen>>
    /\ UNCHANGED <<plugged, modems, made, mgr, overtaken, ctx, started, waits, left, crashed>>

Next ==
    /\ ~crashed
    /\ \/ \E n \in Names : PlugChanges(n) \/ Add(n) \/ Remove(n)
       \/ StartAll \/ StopAll
       \/ \E m \in Managers : StartEnds(m)
       \/ \E k \in Kinds : Watch(k) \/ StopWatch(k)
       \/ \E l \in Loops : Turns(l) \/ Ends(l) \/ Ticks(l) \/ scanForChanges(l) \/ scanFails(l) \/ checkHealth(l)

Spec == Init /\ [][Next]_vars

(***************************************************************************)
(* Properties.                                                             *)
(***************************************************************************)
PoolTypeOK ==
    /\ plugged \subseteq Names
    /\ modems \in [Names -> Managers \cup {None}] /\ made \in 0 .. MaxManagers
    /\ mgr \in [Managers -> {"none", "new", "launched", "runs", "stopped"}]
    /\ overtaken \subseteq Managers
    /\ \A k \in Kinds : ctx[k] \in 0 .. started[k] /\ started[k] \in 0 .. MaxStarts[k]
    /\ loop \in [Loops -> {"none", "turns", "waits", "scans", "checks", "ended"}]
    /\ \A l \in Loops : waits[l] \in 0 .. MaxStarts[l[1]]
    /\ seen \in [Loops -> SUBSET Names]
    /\ health \subseteq Names /\ left \subseteq Names
    /\ crashed \in BOOLEAN

\* What runs is in the pool, so that no two managers drive one modem: a manager that was
\* taken from the pool does not run, except one that was stopped before its Start was
\* through (the goroutine of scanForChanges, pool.go:458).
RunsInPool == \A m \in Managers : mgr[m] = "runs" => m \in Pooled \cup overtaken

\* A status is that of a modem in the pool, but for those that were removed by Remove or
\* during a check.
StatusOfPool == \A n \in health : modems[n] # None \/ n \in left

\* The pool has the modems that run, and their status.
PoolKeepsModems == PoolTypeOK /\ RunsInPool /\ StatusOfPool
=================================================================================
