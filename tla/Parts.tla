------------------------------- MODULE Parts -------------------------------
(***************************************************************************)
(* The parts of the program that do not share state in the models: a       *)
(* behaviour of this module is a behaviour of the part chosen at the       *)
(* start, while the others stay in their initial state.  The constants and *)
(* variables of a part carry its prefix.                                   *)
(***************************************************************************)
EXTENDS Integers, Sequences, FiniteSets

CONSTANT Chosen   \* the parts that run

VARIABLE part     \* the one of them that does

CONSTANTS
    em_Emitters, em_Handlers, em_Interest, em_Payloads, em_QueueSize, em_MaxEvents

VARIABLES
    em_handlers, em_queue, em_done, em_dropped, em_kindOf, em_emit, em_emitting, em_late,
    em_accepted, em_loop, em_event, em_calling, em_delivered, em_written

Emitter ==
    INSTANCE EventEmitter WITH
        Emitters <- em_Emitters, Handlers <- em_Handlers, Interest <- em_Interest,
        Payloads <- em_Payloads, QueueSize <- em_QueueSize, MaxEvents <- em_MaxEvents,
        handlers <- em_handlers, queue <- em_queue, done <- em_done, dropped <- em_dropped,
        kindOf <- em_kindOf, emit <- em_emit, emitting <- em_emitting, late <- em_late,
        accepted <- em_accepted, loop <- em_loop, event <- em_event, calling <- em_calling,
        delivered <- em_delivered, written <- em_written

varsEmitter ==
    <<em_handlers, em_queue, em_done, em_dropped, em_kindOf, em_emit, em_emitting, em_late,
      em_accepted, em_loop, em_event, em_calling, em_delivered, em_written>>

CONSTANTS
    rb_Services, rb_Callers, rb_MaxClients, rb_MaxIds

VARIABLES
    rb_client, rb_opened, rb_up, rb_kind, rb_owner, rb_closed, rb_svc, rb_core, rb_taken, rb_todo,
    rb_early, rb_asked, rb_lock, rb_pc, rb_job, rb_using, rb_seen, rb_outer

Rebind ==
    INSTANCE ServiceRebind WITH
        Services <- rb_Services, Callers <- rb_Callers, MaxClients <- rb_MaxClients,
        MaxIds <- rb_MaxIds, client <- rb_client, opened <- rb_opened, up <- rb_up, kind <- rb_kind,
        owner <- rb_owner, closed <- rb_closed, svc <- rb_svc, core <- rb_core, taken <- rb_taken,
        todo <- rb_todo, early <- rb_early, asked <- rb_asked, lock <- rb_lock, pc <- rb_pc,
        job <- rb_job, using <- rb_using, seen <- rb_seen, outer <- rb_outer

varsRebind ==
    <<rb_client, rb_opened, rb_up, rb_kind, rb_owner, rb_closed, rb_svc, rb_core, rb_taken, rb_todo,
      rb_early, rb_asked, rb_lock, rb_pc, rb_job, rb_using, rb_seen, rb_outer>>

CONSTANTS
    st_Operations, st_ServiceOf, st_Threshold, st_Window, st_StormWindow, st_StormCooldown,
    st_MaxTime, st_MaxOutcomes

VARIABLES
    st_clock, st_outcomes, st_first, st_count, st_services, st_stormAt, st_log, st_reached, st_last

Timeouts ==
    INSTANCE ServiceTimeouts WITH
        Operations <- st_Operations, ServiceOf <- st_ServiceOf, Threshold <- st_Threshold,
        Window <- st_Window, StormWindow <- st_StormWindow, StormCooldown <- st_StormCooldown,
        MaxTime <- st_MaxTime, MaxOutcomes <- st_MaxOutcomes, clock <- st_clock,
        outcomes <- st_outcomes, first <- st_first, count <- st_count, services <- st_services,
        stormAt <- st_stormAt, log <- st_log, reached <- st_reached, last <- st_last

varsTimeouts ==
    <<st_clock, st_outcomes, st_first, st_count, st_services, st_stormAt, st_log, st_reached,
      st_last>>

CONSTANTS
    id_Warmers, id_MaxCards

VARIABLES
    id_card, id_unreported, id_identities, id_simReady, id_generation, id_handler, id_warm, id_gen,
    id_ids

Identities ==
    INSTANCE DeviceIdentities WITH
        Warmers <- id_Warmers, MaxCards <- id_MaxCards, card <- id_card,
        unreported <- id_unreported, identities <- id_identities, simReady <- id_simReady,
        generation <- id_generation, handler <- id_handler, warm <- id_warm, gen <- id_gen,
        ids <- id_ids

varsIdentities ==
    <<id_card, id_unreported, id_identities, id_simReady, id_generation, id_handler, id_warm,
      id_gen, id_ids>>

CONSTANTS
    pd_Muxes, pd_MaxSessions, pd_MaxLives, pd_MaxGeneration

VARIABLES
    pd_snapshot, pd_master, pd_sessions, pd_opening, pd_nextSessionID, pd_info, pd_client, pd_lives,
    pd_cleanup, pd_todo, pd_devices, pd_leased, pd_unreleased, pd_calls, pd_stops, pd_stuck,
    pd_superseded, pd_late, pd_orphans

Pdn ==
    INSTANCE PdnSessions WITH
        Muxes <- pd_Muxes, MaxSessions <- pd_MaxSessions, MaxLives <- pd_MaxLives,
        MaxGeneration <- pd_MaxGeneration, snapshot <- pd_snapshot, master <- pd_master,
        sessions <- pd_sessions, opening <- pd_opening, nextSessionID <- pd_nextSessionID,
        info <- pd_info, client <- pd_client, lives <- pd_lives, cleanup <- pd_cleanup,
        todo <- pd_todo, devices <- pd_devices, leased <- pd_leased,
        unreleased <- pd_unreleased, calls <- pd_calls, stops <- pd_stops, stuck <- pd_stuck,
        superseded <- pd_superseded, late <- pd_late, orphans <- pd_orphans

varsPdn ==
    <<pd_snapshot, pd_master, pd_sessions, pd_opening, pd_nextSessionID, pd_info, pd_client,
      pd_lives, pd_cleanup, pd_todo, pd_devices, pd_leased, pd_unreleased, pd_calls, pd_stops,
      pd_stuck, pd_superseded, pd_late, pd_orphans>>

CONSTANTS
    ip_Probers, ip_MaxLives, ip_MaxProbes

VARIABLES
    ip_client, ip_ready, ip_stopping, ip_blocked, ip_activePDN, ip_cleanup, ip_lives, ip_pc,
    ip_uses, ip_cancelled, ip_slot, ip_running, ip_imsProbeCancel, ip_quiet, ip_calls, ip_probes

Probe ==
    INSTANCE ImsProbe WITH
        Probers <- ip_Probers, MaxLives <- ip_MaxLives, MaxProbes <- ip_MaxProbes,
        client <- ip_client, ready <- ip_ready, stopping <- ip_stopping, blocked <- ip_blocked,
        activePDN <- ip_activePDN, cleanup <- ip_cleanup, lives <- ip_lives, pc <- ip_pc,
        uses <- ip_uses, cancelled <- ip_cancelled, slot <- ip_slot, running <- ip_running,
        imsProbeCancel <- ip_imsProbeCancel, quiet <- ip_quiet, calls <- ip_calls,
        probes <- ip_probes

varsProbe ==
    <<ip_client, ip_ready, ip_stopping, ip_blocked, ip_activePDN, ip_cleanup, ip_lives, ip_pc,
      ip_uses, ip_cancelled, ip_slot, ip_running, ip_imsProbeCancel, ip_quiet, ip_calls, ip_probes>>

CONSTANTS
    ss_Networks, ss_MaxChanges, ss_MaxQueued, ss_MaxCleanups

VARIABLES
    ss_network, ss_changes, ss_queue, ss_handling, ss_snapshot, ss_answer, ss_scheduled, ss_timer,
    ss_owed, ss_cleanups, ss_resetting, ss_polls

Serving ==
    INSTANCE ServingSnapshot WITH
        Networks <- ss_Networks, MaxChanges <- ss_MaxChanges, MaxQueued <- ss_MaxQueued,
        MaxCleanups <- ss_MaxCleanups, network <- ss_network, changes <- ss_changes,
        queue <- ss_queue, handling <- ss_handling, snapshot <- ss_snapshot, answer <- ss_answer,
        scheduled <- ss_scheduled, timer <- ss_timer, owed <- ss_owed, cleanups <- ss_cleanups,
        resetting <- ss_resetting, polls <- ss_polls

varsServing ==
    <<ss_network, ss_changes, ss_queue, ss_handling, ss_snapshot, ss_answer, ss_scheduled, ss_timer,
      ss_owed, ss_cleanups, ss_resetting, ss_polls>>

CONSTANTS
    dc_Apns, dc_MaxDials, dc_MaxRequests

VARIABLES
    dc_state, dc_desired, dc_handle, dc_apn, dc_starts, dc_pc, dc_then, dc_got, dc_saved, dc_wanted,
    dc_result, dc_up, dc_dials, dc_apnOf, dc_orphans, dc_overlapped, dc_requests, dc_seen

Data ==
    INSTANCE DataCalls WITH
        Apns <- dc_Apns, MaxDials <- dc_MaxDials, MaxRequests <- dc_MaxRequests, state <- dc_state,
        desired <- dc_desired, handle <- dc_handle, apn <- dc_apn, starts <- dc_starts, pc <- dc_pc,
        then <- dc_then, got <- dc_got, saved <- dc_saved, wanted <- dc_wanted, result <- dc_result,
        up <- dc_up, dials <- dc_dials, apnOf <- dc_apnOf, orphans <- dc_orphans,
        overlapped <- dc_overlapped, requests <- dc_requests, seen <- dc_seen

varsData ==
    <<dc_state, dc_desired, dc_handle, dc_apn, dc_starts, dc_pc, dc_then, dc_got, dc_saved,
      dc_wanted, dc_result, dc_up, dc_dials, dc_apnOf, dc_orphans, dc_overlapped, dc_requests,
      dc_seen>>

CONSTANTS
    ci_Callers, ci_MaxIds, ci_MaxRetries

VARIABLES
    ci_allocated, ci_lastId, ci_pc, ci_retry, ci_answer, ci_holds, ci_cached, ci_revocations,
    ci_late, ci_unreleased, ci_unanswered, ci_raced

ClientIds ==
    INSTANCE QmiClientIds WITH
        Callers <- ci_Callers, MaxIds <- ci_MaxIds, MaxRetries <- ci_MaxRetries,
        allocated <- ci_allocated, lastId <- ci_lastId, pc <- ci_pc, retry <- ci_retry,
        answer <- ci_answer, holds <- ci_holds, cached <- ci_cached, revocations <- ci_revocations,
        late <- ci_late, unreleased <- ci_unreleased, unanswered <- ci_unanswered,
        raced <- ci_raced

varsClientIds ==
    <<ci_allocated, ci_lastId, ci_pc, ci_retry, ci_answer, ci_holds, ci_cached, ci_revocations,
      ci_late, ci_unreleased, ci_unanswered, ci_raced>>

CONSTANTS
    qt_Services, qt_MaxClients, qt_QueueSize, qt_MaxChanges

VARIABLES
    qt_services, qt_announced, qt_notifications, qt_changes, qt_clients, qt_nextCID, qt_open,
    qt_reader, qt_queued, qt_closeCh, qt_closed, qt_closing, qt_pc, qt_asking, qt_waitsFor

Qrtr ==
    INSTANCE QrtrTransport WITH
        Services <- qt_Services, MaxClients <- qt_MaxClients, QueueSize <- qt_QueueSize,
        MaxChanges <- qt_MaxChanges, services <- qt_services, announced <- qt_announced,
        notifications <- qt_notifications, changes <- qt_changes, clients <- qt_clients,
        nextCID <- qt_nextCID, open <- qt_open, reader <- qt_reader, queued <- qt_queued,
        closeCh <- qt_closeCh, closed <- qt_closed, closing <- qt_closing, pc <- qt_pc,
        asking <- qt_asking, waitsFor <- qt_waitsFor

varsQrtr ==
    <<qt_services, qt_announced, qt_notifications, qt_changes, qt_clients, qt_nextCID, qt_open,
      qt_reader, qt_queued, qt_closeCh, qt_closed, qt_closing, qt_pc, qt_asking, qt_waitsFor>>

CONSTANTS
    qd_Programs, qd_MaxCount

VARIABLES
    qd_program, qd_todo, qd_avail, qd_count, qd_answer, qd_found, qd_wrapped, qd_outcome

Decoders ==
    INSTANCE QmiDecoding WITH
        Programs <- qd_Programs, MaxCount <- qd_MaxCount, program <- qd_program, todo <- qd_todo,
        avail <- qd_avail, count <- qd_count, answer <- qd_answer, found <- qd_found,
        wrapped <- qd_wrapped, outcome <- qd_outcome

varsDecoders ==
    <<qd_program, qd_todo, qd_avail, qd_count, qd_answer, qd_found, qd_wrapped, qd_outcome>>

CONSTANTS
    po_Names, po_MaxManagers, po_MaxStarts

VARIABLES
    po_plugged, po_modems, po_made, po_mgr, po_overtaken, po_ctx, po_started, po_loop, po_waits,
    po_seen, po_health, po_left, po_crashed

ModemPool ==
    INSTANCE Pool WITH
        Names <- po_Names, MaxManagers <- po_MaxManagers, MaxStarts <- po_MaxStarts,
        plugged <- po_plugged, modems <- po_modems, made <- po_made, mgr <- po_mgr,
        overtaken <- po_overtaken, ctx <- po_ctx, started <- po_started, loop <- po_loop,
        waits <- po_waits, seen <- po_seen, health <- po_health, left <- po_left,
        crashed <- po_crashed

varsModemPool ==
    <<po_plugged, po_modems, po_made, po_mgr, po_overtaken, po_ctx, po_started, po_loop, po_waits,
      po_seen, po_health, po_left, po_crashed>>

CONSTANTS
    iw_Callers, iw_MaxTokens

VARIABLES
    iw_handler, iw_tokens, iw_pc, iw_token, iw_waiters, iw_channel, iw_owed, iw_missed

Waits ==
    INSTANCE IndicationWaits WITH
        Callers <- iw_Callers, MaxTokens <- iw_MaxTokens, handler <- iw_handler,
        tokens <- iw_tokens, pc <- iw_pc, token <- iw_token, waiters <- iw_waiters,
        channel <- iw_channel, owed <- iw_owed, missed <- iw_missed

varsWaits ==
    <<iw_handler, iw_tokens, iw_pc, iw_token, iw_waiters, iw_channel, iw_owed, iw_missed>>

CONSTANTS
    px_Openers, px_Others

VARIABLES
    px_at, px_expired, px_starting, px_waitsFor, px_conn, px_hurried, px_process

Proxy ==
    INSTANCE ProxyStart WITH
        Openers <- px_Openers, Others <- px_Others, at <- px_at, expired <- px_expired,
        starting <- px_starting, waitsFor <- px_waitsFor, conn <- px_conn, hurried <- px_hurried,
        process <- px_process

varsProxy ==
    <<px_at, px_expired, px_starting, px_waitsFor, px_conn, px_hurried, px_process>>

CONSTANTS
    si_Callers, si_Reloaders, si_MaxAttempts, si_UnknownAppStateBackstop, si_MaxActivations,
    si_MaxCards

VARIABLES
    si_card, si_cards, si_session, si_power, si_at, si_last, si_attempt, si_unknownStreak,
    si_activations, si_rebinds, si_cut, si_takenDown

Sim ==
    INSTANCE SimProvisioning WITH
        Callers <- si_Callers, Reloaders <- si_Reloaders, MaxAttempts <- si_MaxAttempts,
        UnknownAppStateBackstop <- si_UnknownAppStateBackstop, MaxActivations <- si_MaxActivations,
        MaxCards <- si_MaxCards, card <- si_card, cards <- si_cards, session <- si_session,
        power <- si_power, at <- si_at, last <- si_last, attempt <- si_attempt,
        unknownStreak <- si_unknownStreak, activations <- si_activations, rebinds <- si_rebinds,
        cut <- si_cut, takenDown <- si_takenDown

varsSim ==
    <<si_card, si_cards, si_session, si_power, si_at, si_last, si_attempt, si_unknownStreak,
      si_activations, si_rebinds, si_cut, si_takenDown>>

CONSTANTS
    mx_Modems, mx_Qmap, mx_DefaultMux, mx_SessionMux, mx_MaxLinks, mx_Padded, mx_MaxUpsets

VARIABLES
    mx_links, mx_snapshot, mx_masterInterface, mx_masterIface, mx_sessions, mx_opening, mx_client,
    mx_cleanup, mx_reconciled, mx_upsets, mx_guessed, mx_late, mx_lost

Muxes ==
    INSTANCE QmapMuxes WITH
        Modems <- mx_Modems, Qmap <- mx_Qmap, DefaultMux <- mx_DefaultMux,
        SessionMux <- mx_SessionMux, MaxLinks <- mx_MaxLinks, Padded <- mx_Padded,
        MaxUpsets <- mx_MaxUpsets, links <- mx_links, snapshot <- mx_snapshot,
        masterInterface <- mx_masterInterface, masterIface <- mx_masterIface,
        sessions <- mx_sessions, opening <- mx_opening, client <- mx_client, cleanup <- mx_cleanup,
        reconciled <- mx_reconciled, upsets <- mx_upsets, guessed <- mx_guessed, late <- mx_late,
        lost <- mx_lost

varsMuxes ==
    <<mx_links, mx_snapshot, mx_masterInterface, mx_masterIface, mx_sessions, mx_opening, mx_client,
      mx_cleanup, mx_reconciled, mx_upsets, mx_guessed, mx_late, mx_lost>>

CONSTANTS
    sr_Refreshers, sr_Routes, sr_Addresses, sr_MaxRefreshes, sr_MaxResets, sr_MaxCleanups,
    sr_MaxSets

VARIABLES
    sr_routes, sr_resets, sr_cleanups, sr_sets, sr_refreshes, sr_wms, sr_lastKnownGood,
    sr_routesKnown, sr_since, sr_smsc, sr_smscPending, sr_readinessPending, sr_at, sr_kind, sr_got,
    sr_of, sr_began, sr_failed, sr_raced, sr_overtaken, sr_crossed

Sms ==
    INSTANCE SmsReadiness WITH
        Refreshers <- sr_Refreshers, Routes <- sr_Routes, Addresses <- sr_Addresses,
        MaxRefreshes <- sr_MaxRefreshes, MaxResets <- sr_MaxResets, MaxCleanups <- sr_MaxCleanups,
        MaxSets <- sr_MaxSets, routes <- sr_routes, resets <- sr_resets, cleanups <- sr_cleanups,
        sets <- sr_sets, refreshes <- sr_refreshes, wms <- sr_wms,
        lastKnownGood <- sr_lastKnownGood, routesKnown <- sr_routesKnown, since <- sr_since,
        smsc <- sr_smsc, smscPending <- sr_smscPending, readinessPending <- sr_readinessPending,
        at <- sr_at, kind <- sr_kind, got <- sr_got, of <- sr_of, began <- sr_began,
        failed <- sr_failed, raced <- sr_raced, overtaken <- sr_overtaken, crossed <- sr_crossed

varsSms ==
    <<sr_routes, sr_resets, sr_cleanups, sr_sets, sr_refreshes, sr_wms, sr_lastKnownGood,
      sr_routesKnown, sr_since, sr_smsc, sr_smscPending, sr_readinessPending, sr_at, sr_kind,
      sr_got, sr_of, sr_began, sr_failed, sr_raced, sr_overtaken, sr_crossed>>

vars ==
    <<part, varsEmitter, varsRebind, varsTimeouts, varsIdentities, varsPdn, varsProbe, varsServing,
      varsData, varsClientIds, varsQrtr, varsDecoders, varsModemPool, varsWaits, varsProxy, varsSim,
      varsMuxes, varsSms>>

\* What each part assumes of its constants.
ASSUME PartsAssumption ==
    /\ Emitter!EmitterAssumption
    /\ Rebind!RebindAssumption
    /\ Timeouts!TimeoutAssumption
    /\ Identities!IdentitiesAssumption
    /\ Pdn!PdnAssumption
    /\ Probe!ProbeAssumption
    /\ Serving!ServingAssumption
    /\ Data!DataAssumption
    /\ ClientIds!IdAssumption
    /\ Qrtr!QrtrAssumption
    /\ Decoders!DecodingAssumption
    /\ ModemPool!PoolAssumption
    /\ Waits!WaitsAssumption
    /\ Proxy!ProxyAssumption
    /\ Sim!SimAssumption
    /\ Muxes!MuxesAssumption
    /\ Sms!ReadinessAssumption

Init ==
    /\ part \in Chosen
    /\ Emitter!Init
    /\ Rebind!Init
    /\ Timeouts!Init
    /\ Identities!Init
    /\ Pdn!Init
    /\ Probe!Init
    /\ Serving!Init
    /\ Data!Init
    /\ ClientIds!Init
    /\ Qrtr!Init
    /\ Decoders!Init
    /\ ModemPool!Init
    /\ Waits!Init
    /\ Proxy!Init
    /\ Sim!Init
    /\ Muxes!Init
    /\ Sms!Init

RunEmitter ==
    /\ part = "emitter"
    /\ UNCHANGED <<part, varsRebind, varsTimeouts, varsIdentities, varsPdn, varsProbe, varsServing,
                   varsData, varsClientIds, varsQrtr, varsDecoders, varsModemPool, varsWaits,
                   varsProxy, varsSim, varsMuxes, varsSms>>
    /\ Emitter!Next

RunRebind ==
    /\ part = "rebind"
    /\ UNCHANGED <<part, varsEmitter, varsTimeouts, varsIdentities, varsPdn, varsProbe, varsServing,
                   varsData, varsClientIds, varsQrtr, varsDecoders, varsModemPool, varsWaits,
                   varsProxy, varsSim, varsMuxes, varsSms>>
    /\ Rebind!Next

RunTimeouts ==
    /\ part = "timeouts"
    /\ UNCHANGED <<part, varsEmitter, varsRebind, varsIdentities, varsPdn, varsProbe, varsServing,
                   varsData, varsClientIds, varsQrtr, varsDecoders, varsModemPool, varsWaits,
                   varsProxy, varsSim, varsMuxes, varsSms>>
    /\ Timeouts!Next

RunIdentities ==
    /\ part = "identities"
    /\ UNCHANGED <<part, varsEmitter, varsRebind, varsTimeouts, varsPdn, varsProbe, varsServing,
                   varsData, varsClientIds, varsQrtr, varsDecoders, varsModemPool, varsWaits,
                   varsProxy, varsSim, varsMuxes, varsSms>>
    /\ Identities!Next

RunPdn ==
    /\ part = "pdn"
    /\ UNCHANGED <<part, varsEmitter, varsRebind, varsTimeouts, varsIdentities, varsProbe,
                   varsServing, varsData, varsClientIds, varsQrtr, varsDecoders, varsModemPool,
                   varsWaits, varsProxy, varsSim, varsMuxes, varsSms>>
    /\ Pdn!Next

RunProbe ==
    /\ part = "probe"
    /\ UNCHANGED <<part, varsEmitter, varsRebind, varsTimeouts, varsIdentities, varsPdn,
                   varsServing, varsData, varsClientIds, varsQrtr, varsDecoders, varsModemPool,
                   varsWaits, varsProxy, varsSim, varsMuxes, varsSms>>
    /\ Probe!Next

RunServing ==
    /\ part = "serving"
    /\ UNCHANGED <<part, varsEmitter, varsRebind, varsTimeouts, varsIdentities, varsPdn, varsProbe,
                   varsData, varsClientIds, varsQrtr, varsDecoders, varsModemPool, varsWaits,
                   varsProxy, varsSim, varsMuxes, varsSms>>
    /\ Serving!Next

RunData ==
    /\ part = "data"
    /\ UNCHANGED <<part, varsEmitter, varsRebind, varsTimeouts, varsIdentities, varsPdn, varsProbe,
                   varsServing, varsClientIds, varsQrtr, varsDecoders, varsModemPool, varsWaits,
                   varsProxy, varsSim, varsMuxes, varsSms>>
    /\ Data!Next

RunClientIds ==
    /\ part = "ids"
    /\ UNCHANGED <<part, varsEmitter, varsRebind, varsTimeouts, varsIdentities, varsPdn, varsProbe,
                   varsServing, varsData, varsQrtr, varsDecoders, varsModemPool, varsWaits,
                   varsProxy, varsSim, varsMuxes, varsSms>>
    /\ ClientIds!Next

RunQrtr ==
    /\ part = "qrtr"
    /\ UNCHANGED <<part, varsEmitter, varsRebind, varsTimeouts, varsIdentities, varsPdn, varsProbe,
                   varsServing, varsData, varsClientIds, varsDecoders, varsModemPool, varsWaits,
                   varsProxy, varsSim, varsMuxes, varsSms>>
    /\ Qrtr!Next

RunDecoders ==
    /\ part = "decoders"
    /\ UNCHANGED <<part, varsEmitter, varsRebind, varsTimeouts, varsIdentities, varsPdn, varsProbe,
                   varsServing, varsData, varsClientIds, varsQrtr, varsModemPool, varsWaits,
                   varsProxy, varsSim, varsMuxes, varsSms>>
    /\ Decoders!Next

RunModemPool ==
    /\ part = "pool"
    /\ UNCHANGED <<part, varsEmitter, varsRebind, varsTimeouts, varsIdentities, varsPdn, varsProbe,
                   varsServing, varsData, varsClientIds, varsQrtr, varsDecoders, varsWaits,
                   varsProxy, varsSim, varsMuxes, varsSms>>
    /\ ModemPool!Next

RunWaits ==
    /\ part = "waits"
    /\ UNCHANGED <<part, varsEmitter, varsRebind, varsTimeouts, varsIdentities, varsPdn, varsProbe,
                   varsServing, varsData, varsClientIds, varsQrtr, varsDecoders, varsModemPool,
                   varsProxy, varsSim, varsMuxes, varsSms>>
    /\ Waits!Next

RunProxy ==
    /\ part = "proxy"
    /\ UNCHANGED <<part, varsEmitter, varsRebind, varsTimeouts, varsIdentities, varsPdn, varsProbe,
                   varsServing, varsData, varsClientIds, varsQrtr, varsDecoders, varsModemPool,
                   varsWaits, varsSim, varsMuxes, varsSms>>
    /\ Proxy!Next

RunSim ==
    /\ part = "sim"
    /\ UNCHANGED <<part, varsEmitter, varsRebind, varsTimeouts, varsIdentities, varsPdn, varsProbe,
                   varsServing, varsData, varsClientIds, varsQrtr, varsDecoders, varsModemPool,
                   varsWaits, varsProxy, varsMuxes, varsSms>>
    /\ Sim!Next

RunMuxes ==
    /\ part = "muxes"
    /\ UNCHANGED <<part, varsEmitter, varsRebind, varsTimeouts, varsIdentities, varsPdn, varsProbe,
                   varsServing, varsData, varsClientIds, varsQrtr, varsDecoders, varsModemPool,
                   varsWaits, varsProxy, varsSim, varsSms>>
    /\ Muxes!Next

RunSms ==
    /\ part = "sms"
    /\ UNCHANGED <<part, varsEmitter, varsRebind, varsTimeouts, varsIdentities, varsPdn, varsProbe,
                   varsServing, varsData, varsClientIds, varsQrtr, varsDecoders, varsModemPool,
                   varsWaits, varsProxy, varsSim, varsMuxes>>
    /\ Sms!Next

Next ==
    \/ RunEmitter \/ RunRebind \/ RunTimeouts \/ RunIdentities \/ RunPdn \/ RunProbe
    \/ RunServing \/ RunData \/ RunClientIds \/ RunQrtr \/ RunDecoders \/ RunModemPool
    \/ RunWaits \/ RunProxy \/ RunSim \/ RunMuxes \/ RunSms

Spec == Init /\ [][Next]_vars

\* The emitter delivers what it accepted: in order, nothing after Close, each handler
\* its own copy.
EmitterDelivers == part = "emitter" => Emitter!EmitterDelivers

\* The services installed are open and of the client in use, and no other id is left
\* behind in the modem (ensure...Service, rebind...Service).
ServicesTracked == part = "rebind" => Rebind!ServicesTracked

\* Timeouts lead to a rebind or to a core recovery exactly when they add up to one
\* (recordServiceTimeoutFailure, detectTimeoutStorm).
RecoveryForReason == Timeouts!RecoveryForReason

\* A probe runs alone, in its quiet window, on a client that is in use, and cleanup
\* cancels the one it waits for (beginIMSProbe, blockIMSProbes).
ProbesContained == part = "probe" => Probe!ProbesContained

\* As long as goroutines do not overlap on it, the call that is up can be stopped, unless
\* the manager never had its handle or gave it up in a stop that failed, and a connected
\* one has the configuration in force. Whatever overlaps, ReconfigureDataConfig changes
\* the configuration as a whole or not at all (doConnect, doDisconnect, RotateIP).
CallsAccounted == part = "data" => Data!CallsAccounted

\* What the decoders of all services promise.
DecodersSound == part = "decoders" => Decoders!DecodersSound

\* The pool has the modems that run, and their status.
PoolKeepsModems == part = "pool" => ModemPool!PoolKeepsModems

\* A session of the SIM, or its power, that was taken down is up again or in the hands of
\* the caller who took it down, unless his last step was cut short by his context, a refusal
\* or a lost answer; nobody takes the session down more than MaxActivations times
\* (ensureSIMProvisioned, UIMPowerCycleSIM, UIMPostSwitchReload).
SimKeptUsable == part = "sim" => Sim!SimKeptUsable

\* What the clients account for: the ids of the modem and those the client knows are the
\* same, but for answers that came late or never and releases that failed
\* (AllocateClientID, ReleaseClientID); sockets and readers are those of the clients, none outlives Close,
\* and a lookup is woken by the server it looks for (qrtr_transport_linux.go); nobody
\* gets the indication of another's request (waitForIndication); and those who open at
\* once start one proxy (openProxyTransport).
ClientsTracked ==
    /\ part = "ids" => ClientIds!IdsTracked
    /\ part = "qrtr" => Qrtr!SocketsTracked
    /\ part = "waits" => Waits!IndicationsMatched
    /\ part = "proxy" => Proxy!ProxyStartedOnce

\* The cached identities are of the card that is in and are not forgotten for a reading
\* that failed; a network once known is forgotten by a recovery only, and an indication
\* changes no part of the serving system but those it carries (snapshot.go); what is
\* cached of the SMS service, and put back into the modem, is what the modem said,
\* whatever refreshes, resets and cleanups overlap (manager.go).
SnapshotTruthful ==
    /\ Identities!IdentitiesTruthful
    /\ Serving!ServingTruthful
    /\ Sms!ReadinessKept

\* Sessions own their calls, ids and muxes, whatever step of opening, closing or
\* cleaning up fails, but for the ids whose release fails (OpenPDN, Close,
\* closeManagedPDNSessions), and a modem owns the interface its default connection is
\* configured on (AddQMAPMux, discoverQMAPTopology, ReconcileResidualMux).
SessionsOwnCalls == Pdn!SessionsOwnCalls /\ Muxes!MuxesOwned
==============================================================================
