SPECIFICATION PartsSpec
CONSTANTS
    Chosen = {"emitter", "rebind", "timeouts", "identities", "pdn", "probe", "serving", "data", "ids", "qrtr", "decoders", "pool", "waits", "proxy", "sim", "muxes", "sms", "rebind WMS", "pool watched twice", "muxes of one", "sms address"}
    em_Emitters = {"t1", "t2"}
    em_Handlers = {"h1", "h2"}
    em_Interest <- MCInterest
    em_Payloads = {"NASSignalInfo", "NASIncrementalNetwork"}
    em_QueueSize = 2
    em_MaxEvents = 2
    rb_Services = {"UIM"}
    rb_Callers = {"c1", "c2"}
    rb_MaxClients = 2
    rb_MaxIds = 3
    st_Operations = {"o1", "o2"}
    st_ServiceOf <- MCServiceOf
    st_Threshold = 2
    st_Window = 2
    st_StormWindow = 1
    st_StormCooldown = 2
    st_MaxTime = 4
    st_MaxOutcomes = 2
    id_Warmers = {"w1", "w2"}
    id_MaxCards = 2
    pd_Muxes = {1, 2}
    pd_MaxSessions = 2
    pd_MaxLives = 2
    pd_MaxGeneration = 2
    ip_Probers = {"p1", "p2"}
    ip_MaxLives = 2
    ip_MaxProbes = 2
    ss_Networks = {"A", "B"}
    ss_MaxChanges = 2
    ss_MaxQueued = 2
    ss_MaxCleanups = 1
    dc_Apns = {"a", "b"}
    dc_MaxDials = 2
    dc_MaxRequests = 2
    ci_Callers = {"c1", "c2"}
    ci_MaxIds = 3
    ci_MaxRetries = 2
    qt_Services = {"WDS", "NAS"}
    qt_MaxClients = 3
    qt_QueueSize = 1
    qt_MaxChanges = 2
    qd_Programs <- QmiPrograms
    qd_MaxCount = 2
    po_Names = {"wwan0"}
    po_MaxManagers = 2
    po_MaxStarts <- MCMaxStarts
    iw_Callers = {"c1", "c2"}
    iw_MaxTokens = 3
    px_Openers = {"o1", "o2"}
    px_Others = {"system"}
    si_Callers = {"c1", "c2"}
    si_Reloaders = {"c2"}
    si_MaxAttempts = 2
    si_UnknownAppStateBackstop = 2
    si_MaxActivations = 1
    si_MaxCards = 1
    mx_Modems = {"a", "b"}
    mx_Qmap = {"a", "b"}
    mx_DefaultMux <- MCDefaultMux
    mx_SessionMux <- MCSessionMux
    mx_MaxLinks = 3
    mx_Padded = FALSE
    mx_MaxUpsets = 1
    sr_Refreshers = {"r1", "r2"}
    sr_Routes = {"x", "y"}
    sr_Addresses = {}
    sr_MaxRefreshes = 2
    sr_MaxResets = 1
    sr_MaxCleanups = 0
    sr_MaxSets = 2
CONSTRAINT
    OneReleaseFails
INVARIANTS
    EmitterDelivers ServicesTracked ProbesContained CallsAccounted DecodersSound
    PoolKeepsModems SimKeptUsable ClientsTracked
PROPERTIES
    RecoveryForReason SnapshotTruthful SessionsOwnCalls OthersHoldToo
\* The bounds of a part are reached, and its work is done.
CHECK_DEADLOCK FALSE
