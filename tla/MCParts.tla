------------------------------- MODULE MCParts -------------------------------
(***************************************************************************)
(* Values for the parts of Parts, each a small instance, and four of the   *)
(* parts once more, with other values and with variables of their own.     *)
(***************************************************************************)
EXTENDS Parts, TLC

Nas   == INSTANCE NasMessages
Wds   == INSTANCE WdsMessages
Uim   == INSTANCE UimMessages
Dms   == INSTANCE DmsMessages WITH GetCardStatus <- Uim!GetCardStatus
Wms   == INSTANCE WmsMessages
Voice == INSTANCE VoiceMessages
Other == INSTANCE OtherMessages
Frame == INSTANCE FrameMessages
Smsc  == INSTANCE SmscMessages

\* The operations and decoders of all services, each under the name of its service.
Named(service, programs) == [x \in {service} \X DOMAIN programs |-> programs[x[2]]]

QmiPrograms ==
    Named("NAS", Nas!Operations) @@ Named("NAS indication", Nas!Indications)
    @@ Named("WDS", Wds!Operations) @@ Named("WDS indication", Wds!Indications)
    @@ Named("UIM", Uim!Operations) @@ Named("UIM indication", Uim!Indications)
    @@ Named("DMS", Dms!Operations) @@ Named("DMS indication", Dms!Indications)
    @@ Named("WMS", Wms!Operations) @@ Named("WMS indication", Wms!Indications)
    @@ Named("VOICE", Voice!Operations) @@ Named("VOICE indication", Voice!Indications)
    @@ Named("other", Other!Operations) @@ Named("other indication", Other!Indications)
    @@ Named("frame", Frame!Operations) @@ Named("received frame", Frame!Indications)
    @@ Named("SMSC", Smsc!Readers)

MCInterest == [h1 |-> "all", h2 |-> "NASIncrementalNetwork"]
MCServiceOf == [o1 |-> "NAS", o2 |-> "DMS"]
MCMaxStarts == [hotplug |-> 1, health |-> 1]
MCDefaultMux == [a |-> 1, b |-> 2]
MCSessionMux == [a |-> {3}, b |-> {}]

\* Others again: WMS replays its state after a rebind; a watcher is started twice; a
\* modem has sessions beside its default connection; an address, but no routes.
VARIABLES
    rw_client, rw_opened, rw_up, rw_kind, rw_owner, rw_closed, rw_svc, rw_core, rw_taken, rw_todo,
    rw_early, rw_asked, rw_lock, rw_pc, rw_job, rw_using, rw_seen, rw_outer

RebindWMS ==
    INSTANCE ServiceRebind WITH
        Services <- {"WMS"}, Callers <- {"c1", "c2"}, MaxClients <- 2, MaxIds <- 2,
        client <- rw_client, opened <- rw_opened, up <- rw_up, kind <- rw_kind, owner <- rw_owner,
        closed <- rw_closed, svc <- rw_svc, core <- rw_core, taken <- rw_taken, todo <- rw_todo,
        early <- rw_early, asked <- rw_asked, lock <- rw_lock, pc <- rw_pc, job <- rw_job,
        using <- rw_using, seen <- rw_seen, outer <- rw_outer

varsRebindWMS ==
    <<rw_client, rw_opened, rw_up, rw_kind, rw_owner, rw_closed, rw_svc, rw_core, rw_taken, rw_todo,
      rw_early, rw_asked, rw_lock, rw_pc, rw_job, rw_using, rw_seen, rw_outer>>

VARIABLES
    pt_plugged, pt_modems, pt_made, pt_mgr, pt_overtaken, pt_ctx, pt_started, pt_loop, pt_waits,
    pt_seen, pt_health, pt_left, pt_crashed

PoolTwice ==
    INSTANCE Pool WITH
        Names <- {"wwan0"}, MaxManagers <- 2, MaxStarts <- [hotplug |-> 2, health |-> 0],
        plugged <- pt_plugged, modems <- pt_modems, made <- pt_made, mgr <- pt_mgr,
        overtaken <- pt_overtaken, ctx <- pt_ctx, started <- pt_started, loop <- pt_loop,
        waits <- pt_waits, seen <- pt_seen, health <- pt_health, left <- pt_left,
        crashed <- pt_crashed

varsPoolTwice ==
    <<pt_plugged, pt_modems, pt_made, pt_mgr, pt_overtaken, pt_ctx, pt_started, pt_loop, pt_waits,
      pt_seen, pt_health, pt_left, pt_crashed>>

VARIABLES
    mo_links, mo_snapshot, mo_masterInterface, mo_masterIface, mo_sessions, mo_opening, mo_client,
    mo_cleanup, mo_reconciled, mo_upsets, mo_guessed, mo_late, mo_lost

MuxesOfOne ==
    INSTANCE QmapMuxes WITH
        Modems <- {"a"}, Qmap <- {"a"}, DefaultMux <- [a |-> 1], SessionMux <- [a |-> {2, 3}],
        MaxLinks <- 3, Padded <- FALSE, MaxUpsets <- 2, links <- mo_links, snapshot <- mo_snapshot,
        masterInterface <- mo_masterInterface, masterIface <- mo_masterIface,
        sessions <- mo_sessions, opening <- mo_opening, client <- mo_client, cleanup <- mo_cleanup,
        reconciled <- mo_reconciled, upsets <- mo_upsets, guessed <- mo_guessed, late <- mo_late,
        lost <- mo_lost

varsMuxesOfOne ==
    <<mo_links, mo_snapshot, mo_masterInterface, mo_masterIface, mo_sessions, mo_opening, mo_client,
      mo_cleanup, mo_reconciled, mo_upsets, mo_guessed, mo_late, mo_lost>>

VARIABLES
    sa_routes, sa_resets, sa_cleanups, sa_sets, sa_refreshes, sa_wms, sa_lastKnownGood,
    sa_routesKnown, sa_since, sa_smsc, sa_smscPending, sa_readinessPending, sa_at, sa_kind, sa_got,
    sa_of, sa_began, sa_failed, sa_raced, sa_overtaken, sa_crossed

SmsAddress ==
    INSTANCE SmsReadiness WITH
        Refreshers <- {"r1", "r2"}, Routes <- {}, Addresses <- {"a"}, MaxRefreshes <- 3,
        MaxResets <- 0, MaxCleanups <- 1, MaxSets <- 0, routes <- sa_routes, resets <- sa_resets,
        cleanups <- sa_cleanups, sets <- sa_sets, refreshes <- sa_refreshes, wms <- sa_wms,
        lastKnownGood <- sa_lastKnownGood, routesKnown <- sa_routesKnown, since <- sa_since,
        smsc <- sa_smsc, smscPending <- sa_smscPending, readinessPending <- sa_readinessPending,
        at <- sa_at, kind <- sa_kind, got <- sa_got, of <- sa_of, began <- sa_began,
        failed <- sa_failed, raced <- sa_raced, overtaken <- sa_overtaken, crossed <- sa_crossed

varsSmsAddress ==
    <<sa_routes, sa_resets, sa_cleanups, sa_sets, sa_refreshes, sa_wms, sa_lastKnownGood,
      sa_routesKnown, sa_since, sa_smsc, sa_smscPending, sa_readinessPending, sa_at, sa_kind,
      sa_got, sa_of, sa_began, sa_failed, sa_raced, sa_overtaken, sa_crossed>>

PartsInit ==
    /\ Init
    /\ RebindWMS!Init /\ PoolTwice!Init /\ MuxesOfOne!Init /\ SmsAddress!Init

RunRebindWMS ==
    /\ part = "rebind WMS"
    /\ UNCHANGED <<vars, varsPoolTwice, varsMuxesOfOne, varsSmsAddress>>
    /\ RebindWMS!Next

RunPoolTwice ==
    /\ part = "pool watched twice"
    /\ UNCHANGED <<vars, varsRebindWMS, varsMuxesOfOne, varsSmsAddress>>
    /\ PoolTwice!Next

RunMuxesOfOne ==
    /\ part = "muxes of one"
    /\ UNCHANGED <<vars, varsRebindWMS, varsPoolTwice, varsSmsAddress>>
    /\ MuxesOfOne!Next

RunSmsAddress ==
    /\ part = "sms address"
    /\ UNCHANGED <<vars, varsRebindWMS, varsPoolTwice, varsMuxesOfOne>>
    /\ SmsAddress!Next

PartsNext ==
    \/ Next /\ UNCHANGED <<varsRebindWMS, varsPoolTwice, varsMuxesOfOne, varsSmsAddress>>
    \/ RunRebindWMS \/ RunPoolTwice \/ RunMuxesOfOne \/ RunSmsAddress

PartsSpec ==
    /\ PartsInit
    /\ [][PartsNext]_<<vars, varsRebindWMS, varsPoolTwice, varsMuxesOfOne, varsSmsAddress>>

\* Bound: no more than one release of a client id fails or goes unanswered. Those ids stay
\* as they are from then on, and each would double the states.
AtMostOne(ids) == \A i, j \in ids : i = j
OneReleaseFails ==
    /\ part = "pdn" => AtMostOne(pd_unreleased)
    /\ part = "ids" => AtMostOne(ci_unreleased \union ci_unanswered)

\* What each part assumes of its constants, also with these.
ASSUME OthersAssumption ==
    /\ RebindWMS!RebindAssumption /\ PoolTwice!PoolAssumption
    /\ MuxesOfOne!MuxesAssumption /\ SmsAddress!ReadinessAssumption

\* ServicesTracked, PoolKeepsModems, SnapshotTruthful and SessionsOwnCalls of Parts, with
\* these values: services belong to the client in use while WMS replays its state, the
\* pool keeps its modems while a second watcher starts, one modem's sessions and default
\* connection each own their mux, and the SMS centre is not forgotten.
OthersHoldToo ==
    /\ [](part = "rebind WMS" => RebindWMS!ServicesTracked)
    /\ [](part = "pool watched twice" => PoolTwice!PoolKeepsModems)
    /\ [](part = "muxes of one" => MuxesOfOne!MuxesTypeOK /\ MuxesOfOne!DefaultMuxIsOwn)
    /\ [][part = "muxes of one" => MuxesOfOne!CleanupTakesMuxes]_varsMuxesOfOne
    /\ [](part = "sms address" => SmsAddress!ReadinessTypeOK /\ SmsAddress!PendingIsOwned)
    /\ [][part = "sms address" => SmsAddress!KeepsKnownAddress]_varsSmsAddress
==============================================================================
