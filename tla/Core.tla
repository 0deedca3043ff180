-------------------------------- MODULE Core --------------------------------
(***************************************************************************)
(* The server's resources and their life cycle across configuration        *)
(* reloads (Core in src/internal/core/core.go).                            *)
(*                                                                         *)
(* Core.run is one goroutine.  A reload (a changed file or an API request) *)
(* runs closeResources, which first decides from the old and the new       *)
(* configuration which resources to close, then closes them one after the  *)
(* other; then createResources makes, one after the other, every resource  *)
(* that is enabled and missing.  Every other resource keeps running its    *)
(* own goroutines meanwhile, with the pointers it was created with, so     *)
(* each close and each creation is a step of its own here.  A resource is *)
(* an instance number (0 for nil); what it captured at creation is the     *)
(* instance number of each resource passed to its constructor.            *)
(*                                                                         *)
(* A configuration is a function from field names to small values.  The    *)
(* fields that only one resource reads are grouped under one name (for     *)
(* example HLSSettings for the HLS* fields); the fields that several       *)
(* resources read keep their own.                                          *)
(***************************************************************************)
EXTENDS Naturals, Sequences, FiniteSets, SequencesExt

CONSTANTS
    Confs,       \* the configurations the server may load
    MaxReloads,  \* bound: reloads in one behaviour
    NoConf       \* the nil configuration: closeResources(nil, ...) shuts down

\* createResources, in its order
CreateOrder ==
    <<"logger", "externalCmdPool", "metrics", "pprof", "recordCleaner",
      "pathManager", "rtspServer", "rtspsServer", "rtmpServer", "rtmpsServer",
      "hlsManager", "webRTCManager", "srtServer", "api", "confWatcher">>

\* mutant: the path manager is closed before the servers that use it
CloseOrderPathManagerFirst ==
    <<"confWatcher", "api", "pathManager", "srtServer", "webRTCManager", "hlsManager",
      "rtmpsServer", "rtmpServer", "rtspsServer", "rtspServer",
      "recordCleaner", "pprof", "metrics", "externalCmdPool", "logger">>

\* closeResources, in its order
CloseOrder ==
    <<"confWatcher", "api", "srtServer", "webRTCManager", "hlsManager",
      "rtmpsServer", "rtmpServer", "rtspsServer", "rtspServer", "pathManager",
      "recordCleaner", "pprof", "metrics", "externalCmdPool", "logger">>

Resources == Range(CreateOrder)

\* the resources passed to each constructor in createResources.  newSRTServer
\* is also given p.metrics, but metrics has no setter for an SRT server
\* (metrics.go), so nothing in this tree lets the SRT server use it.
Captured ==
    [r \in Resources |->
        CASE r \in {"pathManager"} -> {"externalCmdPool", "metrics"}
          [] r \in {"rtspServer", "rtspsServer", "rtmpServer", "rtmpsServer",
                    "webRTCManager"} -> {"externalCmdPool", "metrics", "pathManager"}
          [] r = "hlsManager" -> {"pathManager", "metrics"}
          [] r = "srtServer" -> {"externalCmdPool", "pathManager"}
          [] r = "api" -> {"pathManager", "rtspServer", "rtspsServer", "rtmpServer",
                           "rtmpsServer", "hlsManager", "webRTCManager", "srtServer"}
          [] OTHER -> {}]

\* resources that log through p.Log, that is through the current p.logger
LogsThroughCore == Resources \ {"logger", "externalCmdPool", "confWatcher"}

\* closeResources: the fields whose change closes each resource
CloseFields ==
    [r \in Resources |->
        CASE r = "logger" -> {"Log"}
          [] r = "metrics" -> {"Metrics", "MetricsAddress", "ReadTimeout"}
          [] r = "pprof" -> {"PPROF", "PPROFAddress", "ReadTimeout"}
          [] r = "pathManager" ->
                {"ExternalAuthenticationURL", "RTSPAddress", "AuthMethods", "ReadTimeout",
                 "WriteTimeout", "WriteQueueSize", "UDPMaxPayloadSize"}
          [] r = "rtspServer" ->
                {"RTSP", "Encryption", "RTSPAddress", "AuthMethods", "ReadTimeout",
                 "WriteTimeout", "WriteQueueSize", "Protocols", "RTSPSettings", "RunOnConnect"}
          [] r = "rtspsServer" ->
                {"RTSP", "Encryption", "RTSPSSettings", "AuthMethods", "ReadTimeout",
                 "WriteTimeout", "WriteQueueSize", "RTSPAddress", "Protocols", "RunOnConnect"}
          [] r = "rtmpServer" ->
                {"RTMP", "RTMPEncryption", "RTMPAddress", "ReadTimeout", "WriteTimeout",
                 "WriteQueueSize", "RTSPAddress", "RunOnConnect"}
          [] r = "rtmpsServer" ->
                {"RTMP", "RTMPEncryption", "RTMPSSettings", "ReadTimeout", "WriteTimeout",
                 "WriteQueueSize", "RTSPAddress", "RunOnConnect"}
          [] r = "hlsManager" ->
                {"HLS", "HLSSettings", "ExternalAuthenticationURL", "ReadTimeout", "WriteQueueSize"}
          [] r = "webRTCManager" ->
                {"WebRTC", "WebRTCSettings", "ReadTimeout", "WriteQueueSize"}
          [] r = "srtServer" ->
                {"SRT", "SRTAddress", "RTSPAddress", "ReadTimeout", "WriteTimeout",
                 "WriteQueueSize", "UDPMaxPayloadSize", "RunOnConnect"}
          [] r = "api" -> {"API", "APIAddress", "ReadTimeout"}
          [] OTHER -> {}]

\* closeResources: the other close flags each close flag includes
CloseAlso ==
    [r \in Resources |->
        CASE r \in {"metrics", "pprof", "recordCleaner"} -> {"logger"}
          [] r = "pathManager" -> {"metrics", "logger"}
          [] r \in {"rtspServer", "rtspsServer", "rtmpServer", "rtmpsServer",
                    "hlsManager", "webRTCManager"} -> {"metrics", "pathManager", "logger"}
          [] r = "srtServer" -> {"pathManager", "logger"}
          \* closeAPI has no closeRTMPSServer term, though newAPI is given
          \* p.rtmpsServer
          [] r = "api" -> {"pathManager", "rtspServer", "rtspsServer", "rtmpServer",
                           "hlsManager", "webRTCManager", "srtServer", "logger"}
          [] OTHER -> {}]

-----------------------------------------------------------------------------
(* gatherCleanerEntries: the distinct (RecordPath, RecordFormat,            *)
(* RecordDeleteAfter) of the recording paths, read out of a Go map (in any  *)
(* order) and sorted with sort.Slice by RecordPath, then RecordDeleteAfter. *)
(* Entries that differ in RecordFormat only are equal to the comparator, so *)
(* the result is any sequence of the entries the comparator accepts.        *)

CleanerEntrySet(paths) ==
    {[recordPath |-> paths[n].recordPath, recordFormat |-> paths[n].recordFormat,
      recordDeleteAfter |-> paths[n].recordDeleteAfter] : n \in {n \in DOMAIN paths : paths[n].record}}

CleanerLess(a, b) ==
    \/ a.recordPath < b.recordPath
    \/ a.recordPath = b.recordPath /\ a.recordDeleteAfter < b.recordDeleteAfter

gatherCleanerEntries(paths) ==
    {s \in SetToSeqs(CleanerEntrySet(paths)) : IsSorted(s, LAMBDA a, b : ~CleanerLess(b, a))}

-----------------------------------------------------------------------------

VARIABLES
    phase,      \* "creating" (createResources), "running" (at run's select),
                \* "closing" (closeResources), "exited", "panicked" (os.Exit(1)
                \* from the panic handler of an HTTP server)
    initial,    \* the createResources in progress is the first one (from New)
    conf,       \* p.conf
    newConf,    \* the newConf of the closeResources in progress, NoConf for nil
    calledByAPI,
    closing,    \* the resources whose close flag is set
    todo,       \* the resources createResources / closeResources has still to visit
    live,       \* per resource: its instance, 0 when nil
    made,       \* instances created so far
    ref,        \* per resource: the instance of each resource its constructor got
    pmPaths,    \* the pathManager's path configurations
    apiConf,    \* the configuration the api serves
    metricsPM,  \* the path manager registered in the live metrics (pathManagerSet)
    reloads,    \* reloads so far
    nilLoggerUse \* history: a method of p.logger was called while it was nil

vars == <<phase, initial, conf, newConf, calledByAPI, closing, todo, live, made,
          ref, pmPaths, apiConf, metricsPM, reloads, nilLoggerUse>>

Instances == 0..(Len(CreateOrder) * (MaxReloads + 1))

Init ==
    /\ phase = "creating" /\ initial = TRUE
    /\ conf \in Confs
    /\ newConf = NoConf /\ calledByAPI = FALSE
    /\ closing = {}
    /\ todo = CreateOrder
    /\ live = [r \in Resources |-> 0]
    /\ made = 0
    /\ ref = [r \in Resources |-> [d \in Captured[r] |-> 0]]
    /\ pmPaths = NoConf /\ apiConf = NoConf /\ metricsPM = 0
    /\ reloads = 0
    /\ nilLoggerUse = FALSE

-----------------------------------------------------------------------------
(* createResources                                                          *)

\* the condition under which createResources makes r (besides r being nil);
\* the server was started with a configuration file, so confPath is set
ShouldCreate(r) ==
    CASE r = "metrics" -> conf["Metrics"]
      [] r = "pprof" -> conf["PPROF"]
      [] r = "recordCleaner" -> CleanerEntrySet(conf["Paths"]) # {}
      [] r = "rtspServer" -> conf["RTSP"] /\ conf["Encryption"] \in {"no", "optional"}
      [] r = "rtspsServer" -> conf["RTSP"] /\ conf["Encryption"] \in {"strict", "optional"}
      [] r = "rtmpServer" -> conf["RTMP"] /\ conf["RTMPEncryption"] \in {"no", "optional"}
      [] r = "rtmpsServer" -> conf["RTMP"] /\ conf["RTMPEncryption"] \in {"strict", "optional"}
      [] r = "hlsManager" -> conf["HLS"]
      [] r = "webRTCManager" -> conf["WebRTC"]
      [] r = "srtServer" -> conf["SRT"]
      [] r = "api" -> conf["API"]
      [] r \in {"externalCmdPool", "confWatcher"} -> initial
      [] OTHER -> TRUE

\* constructors that return an error (a listener that cannot bind, a
\* logger that cannot open its file, a watcher that cannot watch)
MayFail == Resources \ {"externalCmdPool", "recordCleaner", "pathManager"}

\* the constructor of r returns: r is the next instance and holds the
\* instances of what it was given; newPathManager registers itself in
\* metrics and the api starts from p.conf
Make(r) ==
    /\ live' = [live EXCEPT ![r] = made + 1]
    /\ made' = made + 1
    /\ ref' = [ref EXCEPT ![r] = [d \in Captured[r] |-> live[d]]]
    /\ pmPaths' = IF r = "pathManager" THEN conf["Paths"] ELSE pmPaths
    /\ metricsPM' = CASE r = "pathManager" /\ live["metrics"] # 0 -> made + 1
                       [] r = "metrics" -> 0
                       [] OTHER -> metricsPM
    /\ apiConf' = IF r = "api" THEN conf ELSE apiConf

\* the end of createResources: run's select loop waits for an event
Created ==
    IF Tail(todo) = <<>> THEN phase' = "running" /\ initial' = FALSE
                         ELSE UNCHANGED <<phase, initial>>

\* createResources, one resource: skipped, made, or its constructor fails
CreateStep ==
    LET r == Head(todo) IN
    /\ phase = "creating" /\ todo # <<>>
    /\ todo' = Tail(todo)
    /\ \/ live[r] # 0 \/ ~ShouldCreate(r)
    /\ Created
    /\ UNCHANGED <<conf, newConf, calledByAPI, closing, live, made, ref, pmPaths,
                   apiConf, metricsPM, reloads, nilLoggerUse>>

\* createResources, one resource: its constructor returns it
CreateMake ==
    LET r == Head(todo) IN
    /\ phase = "creating" /\ todo # <<>>
    /\ live[r] = 0 /\ ShouldCreate(r)
    /\ todo' = Tail(todo)
    /\ Make(r)
    /\ Created
    /\ UNCHANGED <<conf, newConf, calledByAPI, closing, reloads, nilLoggerUse>>

\* a constructor returns an error: New logs it through p.logger when there is
\* one, run logs it through p.Log whatever p.logger is; both then call
\* closeResources(nil, false)
CreateFail ==
    LET r == Head(todo) IN
    /\ phase = "creating" /\ todo # <<>>
    /\ live[r] = 0 /\ ShouldCreate(r) /\ r \in MayFail
    /\ nilLoggerUse' = (nilLoggerUse \/ (~initial /\ live["logger"] = 0))
    /\ phase' = "closing" /\ newConf' = NoConf /\ calledByAPI' = FALSE
    /\ closing' = Resources /\ todo' = CloseOrder
    /\ UNCHANGED <<initial, conf, live, made, ref, pmPaths, apiConf, metricsPM, reloads>>

-----------------------------------------------------------------------------
(* closeResources                                                           *)

\* mutant: closeMetrics leaves out closeLogger
RECURSIVE CloseFlagMetricsNoLogger(_, _, _)
CloseFlagMetricsNoLogger(r, c, cleanerDiffers) ==
    \/ \E f \in CloseFields[r] : c[f] # conf[f]
    \/ r = "recordCleaner" /\ cleanerDiffers
    \/ \E d \in CloseAlso[r] \ (IF r = "metrics" THEN {"logger"} ELSE {}) :
          CloseFlagMetricsNoLogger(d, c, cleanerDiffers)

\* mutant: closePathManager leaves out closeMetrics
RECURSIVE CloseFlagPathManagerNoMetrics(_, _, _)
CloseFlagPathManagerNoMetrics(r, c, cleanerDiffers) ==
    \/ \E f \in CloseFields[r] : c[f] # conf[f]
    \/ r = "recordCleaner" /\ cleanerDiffers
    \/ \E d \in CloseAlso[r] \ (IF r = "pathManager" THEN {"metrics"} ELSE {}) :
          CloseFlagPathManagerNoMetrics(d, c, cleanerDiffers)

\* the close flags: a watched field differs, or a flag the flag includes is
\* set; cleanerDiffers is the DeepEqual of the two gathered cleaner entries
RECURSIVE CloseFlag(_, _, _)
CloseFlag(r, c, cleanerDiffers) ==
    \/ \E f \in CloseFields[r] : c[f] # conf[f]
    \/ r = "recordCleaner" /\ cleanerDiffers
    \/ \E d \in CloseAlso[r] : CloseFlag(d, c, cleanerDiffers)

\* mutant: the path manager is not given confReload
ReloadNoPathsReload(c, byAPI) ==
    /\ phase = "running" /\ reloads < MaxReloads
    /\ IF byAPI THEN live["api"] # 0 ELSE live["confWatcher"] # 0
    /\ \E oldE \in gatherCleanerEntries(conf["Paths"]), newE \in gatherCleanerEntries(c["Paths"]) :
         LET flags == {r \in Resources \ {"externalCmdPool", "confWatcher"} :
                          CloseFlag(r, c, oldE # newE)}
             api == IF byAPI THEN c ELSE apiConf
         IN
         /\ closing' = flags
         /\ pmPaths' = pmPaths
         /\ apiConf' = IF live["api"] # 0 /\ "api" \notin flags /\ ~byAPI THEN c ELSE api
    /\ phase' = "closing" /\ todo' = CloseOrder
    /\ newConf' = c /\ calledByAPI' = byAPI
    /\ reloads' = reloads + 1
    /\ UNCHANGED <<initial, conf, live, made, ref, metricsPM, nilLoggerUse>>

\* mutant: the api is given confReload only for its own requests
ReloadAPIOnlyByAPI(c, byAPI) ==
    /\ phase = "running" /\ reloads < MaxReloads
    /\ IF byAPI THEN live["api"] # 0 ELSE live["confWatcher"] # 0
    /\ \E oldE \in gatherCleanerEntries(conf["Paths"]), newE \in gatherCleanerEntries(c["Paths"]) :
         LET flags == {r \in Resources \ {"externalCmdPool", "confWatcher"} :
                          CloseFlag(r, c, oldE # newE)}
             api == IF byAPI THEN c ELSE apiConf
         IN
         /\ closing' = flags
         /\ pmPaths' = IF "pathManager" \notin flags /\ c["Paths"] # conf["Paths"]
                          THEN c["Paths"] ELSE pmPaths
         /\ apiConf' = IF live["api"] # 0 /\ "api" \notin flags /\ byAPI THEN c ELSE api
    /\ phase' = "closing" /\ todo' = CloseOrder
    /\ newConf' = c /\ calledByAPI' = byAPI
    /\ reloads' = reloads + 1
    /\ UNCHANGED <<initial, conf, live, made, ref, metricsPM, nilLoggerUse>>

\* run's select: a changed file loaded without error (from the conf watcher)
\* or a configuration set through the API, bounded by MaxReloads.
\* closeResources computes every flag, then calls the path manager's and
\* the api's confReload, and closes the flagged resources in CloseOrder.
\* A request through the API comes from an api that already serves c.
Reload(c, byAPI) ==
    /\ phase = "running" /\ reloads < MaxReloads
    /\ IF byAPI THEN live["api"] # 0 ELSE live["confWatcher"] # 0
    /\ \E oldE \in gatherCleanerEntries(conf["Paths"]), newE \in gatherCleanerEntries(c["Paths"]) :
         LET flags == {r \in Resources \ {"externalCmdPool", "confWatcher"} :
                          CloseFlag(r, c, oldE # newE)}
             api == IF byAPI THEN c ELSE apiConf
         IN
         /\ closing' = flags
         /\ pmPaths' = IF "pathManager" \notin flags /\ c["Paths"] # conf["Paths"]
                          THEN c["Paths"] ELSE pmPaths
         /\ apiConf' = IF live["api"] # 0 /\ "api" \notin flags /\ ~byAPI THEN c ELSE api
    /\ phase' = "closing" /\ todo' = CloseOrder
    /\ newConf' = c /\ calledByAPI' = byAPI
    /\ reloads' = reloads + 1
    /\ UNCHANGED <<initial, conf, live, made, ref, metricsPM, nilLoggerUse>>

\* mutant: closeLogger is computed from the fields alone, without nil
ShutdownNoLoggerFlag ==
    /\ phase = "running"
    /\ phase' = "closing" /\ todo' = CloseOrder
    /\ newConf' = NoConf /\ calledByAPI' = FALSE
    /\ closing' = Resources \ {"logger"}
    /\ UNCHANGED <<initial, conf, live, made, ref, pmPaths, apiConf, metricsPM,
                   reloads, nilLoggerUse>>

\* run's select: an interrupt, Close (ctx), or a changed file that does not
\* load: closeResources(nil, false), where every flag is set
Shutdown ==
    /\ phase = "running"
    /\ phase' = "closing" /\ todo' = CloseOrder
    /\ newConf' = NoConf /\ calledByAPI' = FALSE
    /\ closing' = Resources
    /\ UNCHANGED <<initial, conf, live, made, ref, pmPaths, apiConf, metricsPM,
                   reloads, nilLoggerUse>>

\* mutant: after closeResources(nil) p.conf is set to nil and createResources runs
CloseStepNoNilCheck ==
    LET r == Head(todo)
        closes == r \in closing /\ (r = "logger" \/ live[r] # 0)
    IN
    /\ phase = "closing" /\ todo # <<>>
    /\ live' = IF closes THEN [live EXCEPT ![r] = 0] ELSE live
    /\ metricsPM' =
         CASE closes /\ r = "metrics" -> 0
           [] closes /\ r = "pathManager" /\ ref[r]["metrics"] = live["metrics"] -> 0
           [] OTHER -> metricsPM
    /\ nilLoggerUse' = (nilLoggerUse \/ (closes /\ r \in {"logger", "externalCmdPool"}
                                                /\ live["logger"] = 0))
    /\ IF Tail(todo) # <<>> THEN todo' = Tail(todo) /\ UNCHANGED <<phase, conf>>
       ELSE phase' = "creating" /\ conf' = newConf /\ todo' = CreateOrder
    /\ UNCHANGED <<initial, newConf, calledByAPI, closing, made, ref, pmPaths,
                   apiConf, reloads>>

\* closing one resource; the path manager takes itself out of the metrics
\* it was given; the logger is closed without a nil check, and with nil the
\* pool is drained after a p.Log
CloseStep ==
    LET r == Head(todo)
        closes == r \in closing /\ (r = "logger" \/ live[r] # 0)
    IN
    /\ phase = "closing" /\ todo # <<>>
    /\ live' = IF closes THEN [live EXCEPT ![r] = 0] ELSE live
    /\ metricsPM' =
         CASE closes /\ r = "metrics" -> 0
           [] closes /\ r = "pathManager" /\ ref[r]["metrics"] = live["metrics"] -> 0
           [] OTHER -> metricsPM
    /\ nilLoggerUse' = (nilLoggerUse \/ (closes /\ r \in {"logger", "externalCmdPool"}
                                                /\ live["logger"] = 0))
    /\ IF Tail(todo) # <<>> THEN todo' = Tail(todo) /\ UNCHANGED <<phase, conf>>
       ELSE IF newConf = NoConf THEN phase' = "exited" /\ todo' = <<>> /\ UNCHANGED conf
       ELSE phase' = "creating" /\ conf' = newConf /\ todo' = CreateOrder
    /\ UNCHANGED <<initial, newConf, calledByAPI, closing, made, ref, pmPaths,
                   apiConf, reloads>>

-----------------------------------------------------------------------------
(* The metrics HTTP server, from newMetrics until metrics.close, serves    *)
(* GET /metrics on its own goroutine, whatever step Core.run is at.         *)

\* onMetrics: m.pathManager.apiPathsList() is called with no nil check (the
\* other resources are tested with interfaceIsEmpty), and m.pathManager is
\* read without m.mutex.  With a path manager registered the handler only
\* reads, a step that changes nothing; with none the call panics, and
\* exitOnPanicHandler ends the process with os.Exit(1).
OnMetrics ==
    /\ phase \in {"creating", "running", "closing"}
    /\ live["metrics"] # 0
    /\ metricsPM = 0
    /\ phase' = "panicked"
    /\ UNCHANGED <<initial, conf, newConf, calledByAPI, closing, todo, live, made,
                   ref, pmPaths, apiConf, metricsPM, reloads, nilLoggerUse>>

Next ==
    \/ CreateStep \/ CreateMake \/ CreateFail
    \/ OnMetrics
    \/ \E c \in Confs, byAPI \in BOOLEAN : Reload(c, byAPI)
    \/ Shutdown \/ CloseStep

\* the program ends once closeResources(nil) is done
Spec == Init /\ [][Next]_vars

-----------------------------------------------------------------------------
(* Properties                                                               *)

TypeOK ==
    /\ phase \in {"creating", "running", "closing", "exited", "panicked"}
    /\ initial \in BOOLEAN /\ calledByAPI \in BOOLEAN /\ nilLoggerUse \in BOOLEAN
    /\ conf \in Confs /\ newConf \in Confs \cup {NoConf}
    /\ closing \subseteq Resources
    /\ todo \in Seq(Resources)
    /\ live \in [Resources -> Instances] /\ made \in Instances
    /\ \A r \in Resources : ref[r] \in [Captured[r] -> Instances]
    /\ metricsPM \in Instances
    /\ reloads \in 0..MaxReloads

\* Every running resource holds the current instance of each resource it was
\* given at creation, at every step of createResources and closeResources:
\* the close flags include the flags of what a resource depends on, and
\* closeResources closes a resource before what it was given.
NoStaleReference ==
    \A r \in Resources : live[r] # 0 => \A d \in Captured[r] : ref[r][d] = live[d]

\* Every running resource that logs through Core.Log finds a logger: no
\* resource outlives the logger in closeResources, nor is made before it.
LoggerOutlivesUsers ==
    \A r \in LogsThroughCore : live[r] # 0 => live["logger"] # 0

\* Between reloads the path manager runs with the paths of p.conf, whether it
\* was recreated or only given confReload.
PathManagerConfCurrent ==
    phase = "running" /\ live["pathManager"] # 0 => pmPaths = conf["Paths"]

\* Between reloads the api serves p.conf: recreated, given confReload after a
\* file change, or holding what it was asked to set.
ApiConfCurrent ==
    phase = "running" /\ live["api"] # 0 => apiConf = conf

\* Between reloads the running metrics lists the running path manager.
MetricsKnowsPathManager ==
    phase = "running" /\ live["metrics"] # 0 => metricsPM = live["pathManager"]

\* Once the program has exited no resource is left running.
AllClosedOnExit ==
    phase = "exited" => \A r \in Resources : live[r] = 0

\* No method of p.logger is called while p.logger is nil (New checks it
\* before logging a creation error; run and closeResources do not).
NoNilLoggerUse == ~nilLoggerUse

\* No method of a resource is called through a nil interface: not p.logger
\* by run and closeResources, nor the path manager by the metrics handler,
\* which is served from newMetrics on while the path manager is made later
\* and takes itself out when it closes.
NoNilResourceCall == NoNilLoggerUse /\ phase # "panicked"

=============================================================================
