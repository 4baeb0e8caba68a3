------------------------------ MODULE SmsReadiness ------------------------------
(***************************************************************************)
(* What the manager knows of the SMS service, and what it restores of it   *)
(* (pkg/manager/manager.go: recoverWMSState, maybeRefreshWMSReadiness,     *)
(* refreshWMSState and what they call; cleanup, allocateServices).         *)
(*                                                                         *)
(* Refreshes run on goroutines of their own: one when WMS is allocated,    *)
(* one when it was rebound, one when the network came back.  The first two *)
(* put the routes back that the modem has lost.  Cleanup takes away what   *)
(* they write to, but does not stop them.                                  *)
(*                                                                         *)
(* Left out: the requests for indications, which a refresh begins with and *)
(* whose failure it ignores, and the transport registration, which is      *)
(* stored as it is answered or reported.                                   *)
(***************************************************************************)
EXTENDS Naturals

CONSTANTS Refreshers,    \* goroutines
          Routes,        \* route tables that are not empty
          Addresses,     \* SMS centres
          MaxRefreshes,  \* bounds on the refreshes, the resets of the modem, the cleanups and
          MaxResets,     \* the routes that users set
          MaxCleanups,
          MaxSets

None == "none"

ReadinessAssumption ==
    /\ None \notin Routes \cup Addresses
    /\ {MaxRefreshes, MaxResets, MaxCleanups, MaxSets} \subseteq Nat

Kinds == {"recover", "replay", "readiness"}
NoAddress == [value |-> None, stale |-> FALSE]

VARIABLES routes,            \* the routes of the modem, or None
          resets, cleanups, sets, refreshes,
          wms,               \* m.wms is there
          lastKnownGood,     \* lastKnownGoodRoutes
          routesKnown,       \* wmsRoutesKnown
          since,             \* resets of the modem when it said what routesKnown is TRUE for
          smsc,              \* wmsSMSCValue, known when there is one, and wmsSMSCStale
          smscPending,       \* wmsSMSCRefreshPending
          readinessPending,  \* wmsReadinessRefreshPending
          at,                \* where each refresher is
          kind,              \* what it refreshes for
          got,               \* routes or address it was answered, or will write back
          of,                \* resets of the modem at this answer
          began,             \* resets of the modem when it began
          failed,            \* refreshers that met a failure, or had nothing to replay
          raced,             \* refreshers that found no routes before somebody set some
          overtaken,         \* refreshers that looked at the address before something else wrote it
          crossed            \* refreshers whose flag a cleanup, or one of these, has reset

modem == <<routes, resets, sets>>
counters == <<cleanups, refreshes>>
known == <<lastKnownGood, routesKnown, since>>
address == <<smsc, smscPending, overtaken, crossed>>
vars == <<modem, counters, wms, known, address, readinessPending, at, kind, got, of, began,
          failed, raced>>

Init ==
    /\ routes = None /\ resets = 0 /\ sets = 0 /\ cleanups = 0 /\ refreshes = 0
    /\ wms = FALSE /\ lastKnownGood = None /\ routesKnown = FALSE /\ since = 0
    /\ smsc = NoAddress /\ smscPending = FALSE /\ readinessPending = FALSE
    /\ at = [r \in Refreshers |-> "idle"] /\ kind = [r \in Refreshers |-> "recover"]
    /\ got = [r \in Refreshers |-> None] /\ of = [r \in Refreshers |-> 0]
    /\ began = [r \in Refreshers |-> 0]
    /\ failed = {} /\ raced = {} /\ overtaken = {} /\ crossed = {}

ReadingAddress == {r \in Refreshers : at[r] \in {"ask smsc", "keep", "end smsc"}}
RoutesMissing == {r \in Refreshers : at[r] \in {"unknown", "replay", "set"}}

Goto(r, place) == at' = [at EXCEPT ![r] = place]

\* The goroutine ends: nothing of it is left.
Ends(r) ==
    /\ Goto(r, "idle") /\ kind' = [kind EXCEPT ![r] = "recover"]
    /\ got' = [got EXCEPT ![r] = None]
    /\ of' = [of EXCEPT ![r] = 0] /\ began' = [began EXCEPT ![r] = 0]
    /\ failed' = failed \ {r} /\ raced' = raced \ {r}
    /\ UNCHANGED <<modem, counters, wms, known>>

(***************************************************************************)
(* The modem, users, and the core.                                         *)
(***************************************************************************)
ModemResets ==
    /\ resets < MaxResets
    /\ resets' = resets + 1 /\ routes' = None
    /\ UNCHANGED <<sets, counters, wms, known, address, readinessPending, at, kind, got, of, began,
                   failed, raced>>

\* By a user of this manager, or by another client of the modem.
WMSSetRoutes ==
    /\ sets < MaxSets
    /\ sets' = sets + 1 /\ routes' \in Routes
    /\ raced' = raced \cup RoutesMissing
    /\ UNCHANGED <<resets, counters, wms, known, address, readinessPending, at, kind, got, of, began,
                   failed>>

\* EventWMSSMSCAddress, and GetSMSC: an address, or none.
AddressReported ==
    /\ \E a \in Addresses \cup {None} : smsc' = [value |-> a, stale |-> FALSE]
    /\ overtaken' = overtaken \cup {r \in Refreshers : at[r] = "keep"}
    /\ UNCHANGED <<modem, counters, wms, known, smscPending, crossed, readinessPending, at, kind, got,
                   of, began, failed, raced>>

\* EventUIMSessionClosed.
markWMSReadinessStale ==
    /\ smsc' = [smsc EXCEPT !.stale = @ \/ smsc.value # None]
    /\ UNCHANGED <<modem, counters, wms, known, smscPending, overtaken, crossed, readinessPending, at,
                   kind, got, of, began, failed, raced>>

Cleanup ==
    /\ wms /\ cleanups < MaxCleanups
    /\ cleanups' = cleanups + 1 /\ wms' = FALSE
    /\ routesKnown' = FALSE /\ smsc' = NoAddress
    /\ smscPending' = FALSE /\ readinessPending' = FALSE
    /\ crossed' = crossed \cup ReadingAddress
    /\ UNCHANGED <<modem, refreshes, lastKnownGood, since, overtaken, at, kind, got, of, began,
                   failed, raced>>

(***************************************************************************)
(* A refresh begins.                                                       *)
(***************************************************************************)
Begin(r, k) ==
    /\ at[r] = "idle" /\ refreshes < MaxRefreshes
    /\ refreshes' = refreshes + 1
    /\ Goto(r, "ask routes") /\ kind' = [kind EXCEPT ![r] = k]
    /\ began' = [began EXCEPT ![r] = resets]
    /\ UNCHANGED <<modem, cleanups, known, address, got, of, failed, raced>>

recoverWMSState(r) ==
    /\ ~wms /\ wms' = TRUE
    /\ Begin(r, "recover")
    /\ UNCHANGED readinessPending

\* wmsReplayInProgress
maybeReplayWMSStateAfterRebind(r) ==
    /\ wms /\ ~\E q \in Refreshers : kind[q] = "replay" /\ at[q] # "idle"
    /\ Begin(r, "replay")
    /\ UNCHANGED <<wms, readinessPending>>

maybeRefreshWMSReadiness(r) ==
    /\ wms /\ ~readinessPending
    /\ readinessPending' = TRUE
    /\ Begin(r, "readiness")
    /\ UNCHANGED wms

(***************************************************************************)
(* Its routes: refreshWMSRouteState, replayCachedWMSRoutes.                *)
(***************************************************************************)
rest == <<counters, wms, address, readinessPending, kind, began>>

\* allowRouteReplay
ReplaysOrNot(r) == Goto(r, IF kind[r] = "readiness" THEN "routes done" ELSE "replay")

RoutesAnswered(r) ==
    /\ at[r] = "ask routes" /\ wms
    /\ got' = [got EXCEPT ![r] = routes] /\ of' = [of EXCEPT ![r] = resets]
    /\ Goto(r, IF routes # None THEN "cache" ELSE "unknown")
    /\ UNCHANGED <<modem, known, failed, raced, rest>>

RoutesFail(r) ==
    /\ at[r] = "ask routes"
    /\ failed' = failed \cup {r} /\ routesKnown' = FALSE
    /\ ReplaysOrNot(r)
    /\ UNCHANGED <<modem, lastKnownGood, since, got, of, raced, rest>>

\* Mutant: routes are put back although the modem has some.
cacheWMSRoutesAndReplay(r) ==
    /\ at[r] = "cache"
    /\ lastKnownGood' = IF lastKnownGood = None THEN got[r] ELSE lastKnownGood
    /\ routesKnown' = TRUE /\ since' = of[r]
    /\ ReplaysOrNot(r)
    /\ UNCHANGED <<modem, got, of, failed, raced, rest>>

cacheWMSRoutes(r) ==
    /\ at[r] = "cache"
    /\ lastKnownGood' = got[r] /\ routesKnown' = TRUE /\ since' = of[r]
    /\ Goto(r, "routes done")
    /\ UNCHANGED <<modem, got, of, failed, raced, rest>>

RoutesUnknown(r) ==
    /\ at[r] = "unknown"
    /\ routesKnown' = FALSE
    /\ ReplaysOrNot(r)
    /\ UNCHANGED <<modem, lastKnownGood, since, got, of, failed, raced, rest>>

cachedWMSRoutes(r) ==
    /\ at[r] = "replay"
    /\ got' = [got EXCEPT ![r] = lastKnownGood]
    /\ IF lastKnownGood = None
       THEN Goto(r, "not set") /\ failed' = failed \cup {r}
       ELSE Goto(r, "set") /\ UNCHANGED failed
    /\ UNCHANGED <<modem, known, of, raced, rest>>

\* A request that fails may have been carried out.
setWMSRoutes(r) ==
    /\ at[r] = "set"
    /\ \/ wms /\ routes' = got[r] /\ of' = [of EXCEPT ![r] = resets]
       \/ UNCHANGED <<routes, of>>
    /\ \/ wms /\ routes' = got[r] /\ of'[r] = resets /\ Goto(r, "is set") /\ UNCHANGED failed
       \/ Goto(r, "not set") /\ failed' = failed \cup {r}
    /\ raced' = IF routes' = routes THEN raced ELSE raced \cup (RoutesMissing \ {r})
    /\ UNCHANGED <<resets, sets, known, got, rest>>

setWMSRoutesKnown(r) ==
    /\ at[r] \in {"is set", "not set"}
    /\ IF at[r] = "is set"
       THEN routesKnown' = TRUE /\ since' = of[r]
       ELSE routesKnown' = FALSE /\ UNCHANGED since
    /\ Goto(r, "routes done")
    /\ UNCHANGED <<modem, lastKnownGood, got, of, failed, raced, rest>>

(***************************************************************************)
(* Its address: refreshWMSSMSCState.                                       *)
(***************************************************************************)
others == <<modem, counters, wms, known, kind, of, began, failed, raced>>

\* Mutant: two refreshes of the address run at once.
BeginsUnseen(r) ==
    /\ at[r] = "routes done" /\ kind[r] # "readiness"
    /\ smscPending' = TRUE /\ Goto(r, "ask smsc")
    /\ UNCHANGED <<smsc, overtaken, crossed, readinessPending, got, others>>

beginWMSSMSCRefresh(r) ==
    /\ at[r] = "routes done" /\ kind[r] # "readiness"
    /\ IF smscPending
       THEN Ends(r) /\ UNCHANGED smscPending
       ELSE smscPending' = TRUE /\ Goto(r, "ask smsc") /\ UNCHANGED <<got, others>>
    /\ UNCHANGED <<smsc, overtaken, crossed, readinessPending>>

\* setWMSSMSCState
WritesAddress(r, a) ==
    /\ smsc' = a
    /\ overtaken' = overtaken \cup {q \in Refreshers : at[q] = "keep" /\ r \in crossed}
    /\ Goto(r, "end smsc")
    /\ UNCHANGED <<smscPending, crossed, readinessPending, got, others>>

\* An answer: an address, or none.
AddressAnswered(r) ==
    /\ at[r] = "ask smsc"
    /\ \E a \in Addresses \cup {None} : WritesAddress(r, [value |-> a, stale |-> FALSE])

\* Mutant: a failure writes what an answer without an address would.
LookAway(r) ==
    /\ at[r] = "ask smsc"
    /\ got' = [got EXCEPT ![r] = None]
    /\ Goto(r, "keep")
    /\ UNCHANGED <<address, readinessPending, others>>

\* A failure: wmsSMSCSnapshot.
Look(r) ==
    /\ at[r] = "ask smsc"
    /\ got' = [got EXCEPT ![r] = smsc.value]
    /\ Goto(r, "keep")
    /\ UNCHANGED <<address, readinessPending, others>>

KeepsAddress(r) ==
    /\ at[r] = "keep"
    /\ WritesAddress(r, [value |-> got[r], stale |-> got[r] # None])

endWMSSMSCRefresh(r) ==
    /\ at[r] = "end smsc"
    /\ smscPending' = FALSE
    /\ crossed' = (IF r \in crossed THEN crossed \cup ReadingAddress ELSE crossed) \ {r}
    /\ overtaken' = overtaken \ {r}
    /\ Ends(r)
    /\ UNCHANGED <<smsc, readinessPending>>

\* Mutant: the flag is only reset when the refresh has found routes.
EndsReadinessIfKnown(r) ==
    /\ at[r] = "routes done" /\ kind[r] = "readiness"
    /\ readinessPending' = (readinessPending /\ ~routesKnown)
    /\ Ends(r)
    /\ UNCHANGED address

\* The deferred end of the goroutine of maybeRefreshWMSReadiness.
EndsReadiness(r) ==
    /\ at[r] = "routes done" /\ kind[r] = "readiness"
    /\ readinessPending' = FALSE
    /\ Ends(r)
    /\ UNCHANGED address

RefreshStep(r) ==
    \/ RoutesAnswered(r) \/ RoutesFail(r) \/ cacheWMSRoutes(r) \/ RoutesUnknown(r)
    \/ cachedWMSRoutes(r) \/ setWMSRoutes(r) \/ setWMSRoutesKnown(r)
    \/ beginWMSSMSCRefresh(r) \/ AddressAnswered(r) \/ Look(r)
    \/ KeepsAddress(r) \/ endWMSSMSCRefresh(r) \/ EndsReadiness(r)

Next ==
    \/ ModemResets \/ WMSSetRoutes \/ AddressReported \/ markWMSReadinessStale \/ Cleanup
    \/ \E r \in Refreshers :
          \/ recoverWMSState(r) \/ maybeReplayWMSStateAfterRebind(r) \/ maybeRefreshWMSReadiness(r)
          \/ RefreshStep(r)

Spec == Init /\ [][Next]_vars

(***************************************************************************)
(* Properties.                                                             *)
(***************************************************************************)
ReadinessTypeOK ==
    /\ {routes, lastKnownGood} \subseteq Routes \cup {None}
    /\ resets \in 0 .. MaxResets /\ cleanups \in 0 .. MaxCleanups /\ sets \in 0 .. MaxSets
    /\ refreshes \in 0 .. MaxRefreshes /\ since \in 0 .. resets
    /\ {wms, routesKnown, smscPending, readinessPending} \subseteq BOOLEAN
    /\ smsc \in [value : Addresses \cup {None}, stale : BOOLEAN]
    /\ kind \in [Refreshers -> Kinds] /\ got \in [Refreshers -> Routes \cup Addresses \cup {None}]
    /\ {failed, raced, overtaken, crossed} \subseteq SUBSET Refreshers

\* A flag that keeps others from refreshing is that of a refresh under way, which resets it,
\* also when cleanup has reset it for another (wmsReadinessRefreshPending,
\* wmsSMSCRefreshPending).
PendingIsOwned ==
    /\ readinessPending => \E r \in Refreshers : kind[r] = "readiness" /\ at[r] # "idle"
    /\ smscPending => ReadingAddress # {}

\* Routes are put back where there are none; routes the modem has are replaced only by a
\* refresh whose question failed, or which saw that there were none before others set some.
RevertsNone ==
    \A r \in Refreshers :
        at[r] = "set" /\ at'[r] # "set" /\ routes # None /\ routes' # routes
            => r \in failed \cup raced

RoutesNotReverted == [][RevertsNone]_vars

\* When the routes of a recovery, or of a replay, are done without a failure and no reset
\* of the modem came in between, the modem has routes, and the manager knows it then.
RestoresRoutes ==
    \A r \in Refreshers :
        /\ kind[r] # "readiness" /\ at'[r] = "routes done" /\ at[r] # "routes done"
        /\ r \notin failed /\ began[r] = resets
        => routes # None /\ routesKnown'

RoutesRestored == [][RestoresRoutes]_vars

\* What is said to be known of the routes is so, unless the modem was reset since.
RoutesKnownTruly == routesKnown /\ since = resets => routes # None

\* A refresh of the address that fails takes no address away, unless one was reported
\* between its look and its write, or a cleanup reset its flag.
KeepsKnownAddress ==
    \A r \in Refreshers :
        at[r] = "keep" /\ at'[r] # "keep" /\ smsc.value # None /\ smsc'.value = None
            => r \in overtaken \cup crossed

AddressNotForgotten == [][KeepsKnownAddress]_vars

\* Refreshes of the SMS service restore what was lost, and take nothing else away.
ReadinessKept ==
    /\ [](ReadinessTypeOK /\ PendingIsOwned /\ RoutesKnownTruly)
    /\ RoutesNotReverted /\ RoutesRestored /\ AddressNotForgotten
==================================================================================
