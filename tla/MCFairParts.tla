------------------------------- MODULE MCFairParts -------------------------------
(***************************************************************************)
(* What the parts of MCParts do in the end, each under the fairness of its *)
(* own module, on instances small enough for the liveness check.           *)
(***************************************************************************)
EXTENDS Integers, Sequences, FiniteSets, TLC

VARIABLE part   \* the part that runs

VARIABLES
    em_handlers, em_queue, em_done, em_dropped, em_kindOf, em_emit, em_emitting, em_late,
    em_accepted, em_loop, em_event, em_calling, em_delivered, em_written

Emitter ==
    INSTANCE EventEmitter WITH
        Emitters <- {"t1", "t2"}, Handlers <- {"h1", "h2"},
        Interest <- [h1 |-> "all", h2 |-> "NASIncrementalNetwork"],
        Payloads <- {"NASSignalInfo", "NASIncrementalNetwork"}, QueueSize <- 1, MaxEvents <- 2,
        handlers <- em_handlers, queue <- em_queue, done <- em_done, dropped <- em_dropped,
        kindOf <- em_kindOf, emit <- em_emit, emitting <- em_emitting, late <- em_late,
        accepted <- em_accepted, loop <- em_loop, event <- em_event, calling <- em_calling,
        delivered <- em_delivered, written <- em_written

varsEmitter ==
    <<em_handlers, em_queue, em_done, em_dropped, em_kindOf, em_emit, em_emitting, em_late,
      em_accepted, em_loop, em_event, em_calling, em_delivered, em_written>>

VARIABLES
    ru_client, ru_opened, ru_up, ru_kind, ru_owner, ru_closed, ru_svc, ru_core, ru_taken, ru_todo,
    ru_early, ru_asked, ru_lock, ru_pc, ru_job, ru_using, ru_seen, ru_outer

RebindUIM ==
    INSTANCE ServiceRebind WITH
        Services <- {"UIM"}, Callers <- {"c1", "c2"}, MaxClients <- 2, MaxIds <- 2,
        client <- ru_client, opened <- ru_opened, up <- ru_up, kind <- ru_kind, owner <- ru_owner,
        closed <- ru_closed, svc <- ru_svc, core <- ru_core, taken <- ru_taken, todo <- ru_todo,
        early <- ru_early, asked <- ru_asked, lock <- ru_lock, pc <- ru_pc, job <- ru_job,
        using <- ru_using, seen <- ru_seen, outer <- ru_outer

varsRebindUIM ==
    <<ru_client, ru_opened, ru_up, ru_kind, ru_owner, ru_closed, ru_svc, ru_core, ru_taken, ru_todo,
      ru_early, ru_asked, ru_lock, ru_pc, ru_job, ru_using, ru_seen, ru_outer>>

VARIABLES
    ip_client, ip_ready, ip_stopping, ip_blocked, ip_activePDN, ip_cleanup, ip_lives, ip_pc,
    ip_uses, ip_cancelled, ip_slot, ip_running, ip_imsProbeCancel, ip_quiet, ip_calls, ip_probes

Probe ==
    INSTANCE ImsProbe WITH
        Probers <- {"p1", "p2"}, MaxLives <- 2, MaxProbes <- 1, client <- ip_client,
        ready <- ip_ready, stopping <- ip_stopping, blocked <- ip_blocked,
        activePDN <- ip_activePDN, cleanup <- ip_cleanup, lives <- ip_lives, pc <- ip_pc,
        uses <- ip_uses, cancelled <- ip_cancelled, slot <- ip_slot, running <- ip_running,
        imsProbeCancel <- ip_imsProbeCancel, quiet <- ip_quiet, calls <- ip_calls,
        probes <- ip_probes

varsProbe ==
    <<ip_client, ip_ready, ip_stopping, ip_blocked, ip_activePDN, ip_cleanup, ip_lives, ip_pc,
      ip_uses, ip_cancelled, ip_slot, ip_running, ip_imsProbeCancel, ip_quiet, ip_calls, ip_probes>>

VARIABLES
    ss_network, ss_changes, ss_queue, ss_handling, ss_snapshot, ss_answer, ss_scheduled, ss_timer,
    ss_owed, ss_cleanups, ss_resetting, ss_polls

Serving ==
    INSTANCE ServingSnapshot WITH
        Networks <- {"A", "B"}, MaxChanges <- 2, MaxQueued <- 1, MaxCleanups <- 1,
        network <- ss_network, changes <- ss_changes, queue <- ss_queue, handling <- ss_handling,
        snapshot <- ss_snapshot, answer <- ss_answer, scheduled <- ss_scheduled, timer <- ss_timer,
        owed <- ss_owed, cleanups <- ss_cleanups, resetting <- ss_resetting,
        polls <- ss_polls

varsServing ==
    <<ss_network, ss_changes, ss_queue, ss_handling, ss_snapshot, ss_answer, ss_scheduled, ss_timer,
      ss_owed, ss_cleanups, ss_resetting, ss_polls>>

VARIABLES
    qt_services, qt_announced, qt_notifications, qt_changes, qt_clients, qt_nextCID, qt_open,
    qt_reader, qt_queued, qt_closeCh, qt_closed, qt_closing, qt_pc, qt_asking, qt_waitsFor

Qrtr ==
    INSTANCE QrtrTransport WITH
        Services <- {"WDS", "NAS"}, MaxClients <- 2, QueueSize <- 1, MaxChanges <- 1,
        services <- qt_services, announced <- qt_announced, notifications <- qt_notifications,
        changes <- qt_changes, clients <- qt_clients, nextCID <- qt_nextCID, open <- qt_open,
        reader <- qt_reader, queued <- qt_queued, closeCh <- qt_closeCh, closed <- qt_closed,
        closing <- qt_closing, pc <- qt_pc, asking <- qt_asking, waitsFor <- qt_waitsFor

varsQrtr ==
    <<qt_services, qt_announced, qt_notifications, qt_changes, qt_clients, qt_nextCID, qt_open,
      qt_reader, qt_queued, qt_closeCh, qt_closed, qt_closing, qt_pc, qt_asking, qt_waitsFor>>

VARIABLES
    px_at, px_expired, px_starting, px_waitsFor, px_conn, px_hurried, px_process

Proxy ==
    INSTANCE ProxyStart WITH
        Openers <- {"o1", "o2"}, Others <- {"system"}, at <- px_at, expired <- px_expired,
        starting <- px_starting, waitsFor <- px_waitsFor, conn <- px_conn, hurried <- px_hurried,
        process <- px_process

varsProxy ==
    <<px_at, px_expired, px_starting, px_waitsFor, px_conn, px_hurried, px_process>>

vars ==
    <<part, varsEmitter, varsRebindUIM, varsProbe, varsServing, varsQrtr, varsProxy>>

Parts ==
    {"emitter", "rebind UIM", "probe", "serving", "qrtr", "proxy"}

Init ==
    /\ part \in Parts
    /\ Emitter!Init
    /\ RebindUIM!Init
    /\ Probe!Init
    /\ Serving!Init
    /\ Qrtr!Init
    /\ Proxy!Init

RunEmitter ==
    /\ part = "emitter"
    /\ UNCHANGED <<part, varsRebindUIM, varsProbe, varsServing, varsQrtr, varsProxy>>
    /\ Emitter!Next

RunRebindUIM ==
    /\ part = "rebind UIM"
    /\ UNCHANGED <<part, varsEmitter, varsProbe, varsServing, varsQrtr, varsProxy>>
    /\ RebindUIM!Next

RunProbe ==
    /\ part = "probe"
    /\ UNCHANGED <<part, varsEmitter, varsRebindUIM, varsServing, varsQrtr, varsProxy>>
    /\ Probe!Next

RunServing ==
    /\ part = "serving"
    /\ UNCHANGED <<part, varsEmitter, varsRebindUIM, varsProbe, varsQrtr, varsProxy>>
    /\ Serving!Next

RunQrtr ==
    /\ part = "qrtr"
    /\ UNCHANGED <<part, varsEmitter, varsRebindUIM, varsProbe, varsServing, varsProxy>>
    /\ Qrtr!Next

RunProxy ==
    /\ part = "proxy"
    /\ UNCHANGED <<part, varsEmitter, varsRebindUIM, varsProbe, varsServing, varsQrtr>>
    /\ Proxy!Next

Next ==
    \/ RunEmitter \/ RunRebindUIM \/ RunProbe \/ RunServing \/ RunQrtr \/ RunProxy

Spec == Init /\ [][Next]_vars

\* Each part under the fairness of its own module.
FairSpec ==
    /\ Spec
    /\ WF_varsEmitter(part = "emitter" /\ Emitter!LoopStep)
    /\ WF_varsEmitter(part = "emitter" /\ Emitter!EmitProgress)
    /\ \A c \in {"c1", "c2"} : SF_varsRebindUIM(part = "rebind UIM" /\ RebindUIM!CallStep(c))
    /\ \A p \in {"p1", "p2"} : WF_varsProbe(part = "probe" /\ Probe!ProbeStep(p))
    /\ WF_varsProbe(part = "probe" /\ Probe!CleanupClears)
    /\ WF_varsServing(part = "serving" /\ Serving!HandlerStep)
    /\ WF_varsServing(part = "serving" /\ Serving!AskRefresh)
    /\ \A q \in {"poll", "refresh"} :
          WF_varsServing(part = "serving" /\ (Serving!Answered(q) \/ Serving!QueryFails(q)))
    /\ WF_varsQrtr(part = "qrtr" /\ Qrtr!WriterStep)
    /\ \A c \in 1 .. 2 : WF_varsQrtr(part = "qrtr" /\ Qrtr!ReaderStep(c))
    /\ WF_varsQrtr(part = "qrtr" /\ Qrtr!CloseSockets)
    /\ WF_varsQrtr(part = "qrtr" /\ Qrtr!CloseReturns)
    /\ \A o \in {"o1", "o2"} : WF_varsProxy(part = "proxy" /\ Proxy!OpenStep(o))
    /\ \A p \in {"o1", "o2", "system"} : WF_varsProxy(part = "proxy" /\ Proxy!Bind(p))

\* Whoever waits gets to an end: the emitter's goroutine after Close, an operation
\* that rebinds its service, a cleanup behind a probe, Close of the QRTR
\* transport, and an opener behind the start of a proxy.
WaitsEnd ==
    /\ Emitter!CloseEndsLoop
    /\ RebindUIM!OperationReturns
    /\ Probe!CleanupGetsPastProbes
    /\ Qrtr!CloseEnds
    /\ Proxy!WaitersReturn

\* News arrives: an event in the queue reaches the handlers, a registration is followed
\* by a refresh, and with status checks that get an answer the serving system of the
\* snapshot becomes that of the network.
NewsArrives ==
    /\ Emitter!QueuedReachesHandlers
    /\ Serving!RegisteredIsRefreshed
    /\ part = "serving" => Serving!SnapshotConverges

\* Both, for every part.
PartsGetOn == WaitsEnd /\ NewsArrives
==============================================================================
