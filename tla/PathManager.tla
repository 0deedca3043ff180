----------------------------- MODULE PathManager -----------------------------
(***************************************************************************)
(* The path manager (pathManager in src/unnamed/part_002) composed with    *)
(* the life cycle of the paths it creates and the connections that use     *)
(* them.                                                                   *)
(*                                                                         *)
(* A connection first asks the manager (describe / readerAdd /             *)
(* publisherAdd): the manager resolves the name, creates the path if       *)
(* needed and replies with it.  The connection then sends its request to   *)
(* the path, in a second step: between the two the path may have closed    *)
(* itself.  A path's loop is reduced here to what the manager sees of it:  *)
(* its source, stream and readers (as in Path.tla, without on-demand), its *)
(* shouldClose check, and the end of path.run: onPathClose, which blocks   *)
(* until the manager takes it or a context is cancelled, then the          *)
(* teardown that closes the connections still bound to it.                 *)
(***************************************************************************)
EXTENDS Naturals, FiniteSets, SequencesExt

CONSTANTS
    Names,      \* path names that connections ask for
    Readers,    \* reading connections (RTSP/RTMP/SRT readers)
    Publishers, \* publishing connections
    ConfSets,   \* the pathConfs maps the manager may be given
    MaxPaths    \* bound: path instances created in one behaviour

\* a path configuration, reduced to what decides the manager's control flow:
\* a regexp entry and the names it matches, the fields that force a
\* recreation (params) and the RPICamera fields that can be updated (rpi)
ConfRecords == [regexp: BOOLEAN, matches: SUBSET Names, params: 1..2, rpi: 1..2]
ConfNames == UNION {DOMAIN pc : pc \in ConfSets}

ASSUME /\ MaxPaths \in Nat \ {0}
       /\ \A pc \in ConfSets : \A cn \in DOMAIN pc : pc[cn] \in ConfRecords

Clients == Readers \cup Publishers
Ids == 1..MaxPaths
NoPath == 0
None == "none"

VARIABLES
    pmState,       \* "new", "running" (at its select), "waiting" (in confReload), "exited"
    pmCtxDone,     \* pm.ctx cancelled (pm.close)
    pathConfs,     \* pm.pathConfs
    pendingConfs,  \* the new confs of a confReload in progress
    toClose,       \* paths the confReload in progress has still to close
    waitingOn,     \* the path whose pa.wait() the manager is in
    paths,         \* pm.paths: name -> path id (NoPath when absent)
    pathsByConf,   \* pm.pathsByConf
    nextId,        \* paths created so far
    pname, pconf, pregexp,  \* per path: pa.name, pa.confName, conf.Regexp != nil
    pstatus,       \* per path: "unused", "running", "exiting" (in onPathClose), "done"
    pclosed,       \* per path: its context was cancelled by pa.close or pm.ctx
    psource,       \* per path: pa.source (a publishing client or None)
    pstream,       \* per path: pa.stream != nil
    preaders,      \* per path: pa.readers
    cstate,        \* per client: "idle", "routed" (has a path, not yet added), "bound"
    cpath,         \* per client: the path the manager gave it
    cclosed,       \* per client: closed by its path
    cres           \* per client: the last reply it received

pmVars == <<pmState, pmCtxDone, pathConfs, pendingConfs, toClose, waitingOn>>
regVars == <<paths, pathsByConf, nextId, pname, pconf, pregexp>>
pathVars == <<pstatus, pclosed, psource, pstream, preaders>>
clientVars == <<cstate, cpath, cclosed, cres>>
vars == <<pmVars, regVars, pathVars, clientVars>>

-----------------------------------------------------------------------------
(* Configuration helpers                                                    *)

\* getPathConfInternal: a literal entry named like the path, else every
\* regexp entry that matches (Go's map order makes the first one arbitrary)
ResolveConf(pc, n) ==
    IF n \in DOMAIN pc THEN {n}
    ELSE {cn \in DOMAIN pc : pc[cn].regexp /\ n \in pc[cn].matches}

\* pathConfCanBeUpdated: equal once the RPICamera fields are copied over
PathConfCanBeUpdated(old, new) == [old EXCEPT !.rpi = new.rpi] = new

\* the entries without a regexp, whose path is created eagerly
StaticNames(pc) == {n \in Names \cap DOMAIN pc : ~pc[n].regexp}

-----------------------------------------------------------------------------
(* createPath, for a set S of names with conf names cf in the map pc.       *)

NewIds(S, base) ==
    LET seq == SetToSeq(S)
    IN [n \in S |-> base + CHOOSE j \in 1..Len(seq) : seq[j] = n]

CreatePaths(S, cf, pc) ==
    LET id == NewIds(S, nextId)
        owner(i) == CHOOSE n \in S : id[n] = i
    IN
    /\ nextId + Cardinality(S) <= MaxPaths
    /\ nextId' = nextId + Cardinality(S)
    /\ paths' = [n \in Names |-> IF n \in S THEN id[n] ELSE paths[n]]
    /\ pathsByConf' = [cn \in ConfNames |->
                          pathsByConf[cn] \cup {id[n] : n \in {m \in S : cf[m] = cn}}]
    /\ pname' = [i \in Ids |-> IF i \in Range(id) THEN owner(i) ELSE pname[i]]
    /\ pconf' = [i \in Ids |-> IF i \in Range(id) THEN cf[owner(i)] ELSE pconf[i]]
    /\ pregexp' = [i \in Ids |-> IF i \in Range(id) THEN pc[cf[owner(i)]].regexp
                                                   ELSE pregexp[i]]
    /\ pstatus' = [i \in Ids |-> IF i \in Range(id) THEN "running" ELSE pstatus[i]]
    \* a path's context derives from pm.ctx
    /\ pclosed' = [i \in Ids |-> IF i \in Range(id) THEN pmCtxDone ELSE pclosed[i]]

\* mutant: removePath forgets the pathsByConf entry
RemovePathKeepConf(i) ==
    /\ paths' = [paths EXCEPT ![pname[i]] = NoPath]
    /\ UNCHANGED pathsByConf

\* removePath
RemovePath(i) ==
    /\ pathsByConf' = [pathsByConf EXCEPT ![pconf[i]] = @ \ {i}]
    /\ paths' = [paths EXCEPT ![pname[i]] = NoPath]

\* the path answers a request through pm.pathSourceReady / NotReady: the
\* manager is at its select, or one of the two contexts is done
ManagerReachable(i) == pmState = "running" \/ pmCtxDone \/ pclosed[i]

\* sourceSetNotReady of path i: readers removed and closed, stream closed
DropStream(i) ==
    /\ cclosed' = [c \in Clients |-> cclosed[c] \/ c \in preaders[i]]
    /\ preaders' = [preaders EXCEPT ![i] = {}]
    /\ pstream' = [pstream EXCEPT ![i] = FALSE]

\* the teardown after onPathClose: pa.ctxCancel, sourceSetNotReady (its
\* notification returns through pa.ctx.Done) and the source closed
Teardown(i) ==
    /\ pstatus' = [pstatus EXCEPT ![i] = "done"]
    /\ cclosed' = [c \in Clients |-> cclosed[c] \/ c \in preaders[i] \/ c = psource[i]]
    /\ preaders' = [preaders EXCEPT ![i] = {}]
    /\ pstream' = [pstream EXCEPT ![i] = FALSE]
    /\ psource' = [psource EXCEPT ![i] = None]

-----------------------------------------------------------------------------

Init ==
    /\ pmState = "new"
    /\ pmCtxDone = FALSE
    /\ pathConfs \in ConfSets
    /\ pendingConfs = pathConfs
    /\ toClose = {}
    /\ waitingOn = NoPath
    /\ paths = [n \in Names |-> NoPath]
    /\ pathsByConf = [cn \in ConfNames |-> {}]
    /\ nextId = 0
    /\ pname = [i \in Ids |-> None]
    /\ pconf = [i \in Ids |-> None]
    /\ pregexp = [i \in Ids |-> FALSE]
    /\ pstatus = [i \in Ids |-> "unused"]
    /\ pclosed = [i \in Ids |-> FALSE]
    /\ psource = [i \in Ids |-> None]
    /\ pstream = [i \in Ids |-> FALSE]
    /\ preaders = [i \in Ids |-> {}]
    /\ cstate = [c \in Clients |-> "idle"]
    /\ cpath = [c \in Clients |-> NoPath]
    /\ cclosed = [c \in Clients |-> FALSE]
    /\ cres = [c \in Clients |-> "none"]

\* newPathManager: a path for every entry without a regexp, then pm.run
NewPathManager ==
    LET S == StaticNames(pathConfs)
    IN
    /\ pmState = "new"
    /\ CreatePaths(S, [n \in S |-> n], pathConfs)
    /\ pmState' = "running"
    /\ UNCHANGED <<pmCtxDone, pathConfs, pendingConfs, toClose, waitingOn,
                   psource, pstream, preaders, clientVars>>

-----------------------------------------------------------------------------
(* The manager's loop (pathManager.run) and pm.close.                       *)

\* mutant: the chPathClose case lets the path go without removePath
PMPathCloseNoRemove(i) ==
    /\ pmState = "running" /\ pstatus[i] = "exiting"
    /\ Teardown(i)
    /\ UNCHANGED <<pmVars, regVars, pclosed, cstate, cpath, cres>>

\* case pa := <-pm.chPathClose: the path is unregistered unless the name now
\* belongs to another path; onPathClose returns and the path tears down
PMPathClose(i) ==
    /\ pmState = "running" /\ pstatus[i] = "exiting"
    /\ IF paths[pname[i]] = i THEN RemovePath(i) ELSE UNCHANGED <<paths, pathsByConf>>
    /\ Teardown(i)
    /\ UNCHANGED <<pmVars, nextId, pname, pconf, pregexp, pclosed,
                   cstate, cpath, cres>>

\* case newPathConfs := <-pm.chConfReload: the paths of deleted entries, and
\* of changed entries that pathConfCanBeUpdated refuses, are to be closed
\* one by one (a changed entry that can be updated only gets reloadConf)
PMConfReload ==
    /\ pmState = "running"
    /\ \E new \in ConfSets \ {pathConfs} :
        \* bound: the paths the reload may create fit in MaxPaths
        /\ nextId + Cardinality(StaticNames(new)) <= MaxPaths
        /\ LET gone == {cn \in DOMAIN pathConfs :
                        \/ cn \notin DOMAIN new
                        \/ new[cn] # pathConfs[cn]
                           /\ ~PathConfCanBeUpdated(pathConfs[cn], new[cn])}
           IN
           /\ pendingConfs' = new
           /\ toClose' = UNION {pathsByConf[cn] : cn \in gone}
    /\ pmState' = "waiting"
    /\ waitingOn' = NoPath
    /\ UNCHANGED <<pmCtxDone, pathConfs, regVars, pathVars, clientVars>>

\* the pa.wait() the manager is in has returned
WaitReturned == IF waitingOn = NoPath THEN TRUE ELSE pstatus[waitingOn] = "done"

\* mutant: confReload closes the paths without pa.wait()
PMReloadClosePathNoWait ==
    /\ pmState = "waiting"
    /\ \E i \in toClose :
        /\ RemovePath(i)
        /\ pclosed' = [pclosed EXCEPT ![i] = TRUE]
        /\ toClose' = toClose \ {i}
        /\ waitingOn' = NoPath
    /\ UNCHANGED <<pmState, pmCtxDone, pathConfs, pendingConfs, nextId, pname,
                   pconf, pregexp, pstatus, psource, pstream, preaders, clientVars>>

\* removePath, pa.close(), pa.wait(): the next path is closed once the
\* previous one has returned from pa.run
PMReloadClosePath ==
    /\ pmState = "waiting"
    /\ WaitReturned
    /\ \E i \in toClose :
        /\ RemovePath(i)
        /\ pclosed' = [pclosed EXCEPT ![i] = TRUE]
        /\ toClose' = toClose \ {i}
        /\ waitingOn' = i
    /\ UNCHANGED <<pmState, pmCtxDone, pathConfs, pendingConfs, nextId, pname,
                   pconf, pregexp, pstatus, psource, pstream, preaders, clientVars>>

\* pm.pathConfs = newPathConfs, then a path for each new entry without a
\* regexp and without a path
PMReloadFinish ==
    LET S == {n \in StaticNames(pendingConfs) : paths[n] = NoPath}
    IN
    /\ pmState = "waiting" /\ toClose = {}
    /\ WaitReturned
    /\ pathConfs' = pendingConfs
    /\ CreatePaths(S, [n \in S |-> n], pendingConfs)
    /\ pmState' = "running"
    /\ waitingOn' = NoPath
    /\ UNCHANGED <<pmCtxDone, pendingConfs, toClose, psource, pstream, preaders,
                   clientVars>>

\* pm.close() by the core: pm.ctx, and so every path's context, is cancelled
PMClose ==
    /\ pmState # "new" /\ ~pmCtxDone
    /\ pmCtxDone' = TRUE
    /\ pclosed' = [i \in Ids |-> pclosed[i] \/ pstatus[i] # "unused"]
    /\ UNCHANGED <<pmState, pathConfs, pendingConfs, toClose, waitingOn, regVars,
                   pstatus, psource, pstream, preaders, clientVars>>

\* case <-pm.ctx.Done(): the loop ends
PMExit ==
    /\ pmState = "running" /\ pmCtxDone
    /\ pmState' = "exited"
    /\ UNCHANGED <<pmCtxDone, pathConfs, pendingConfs, toClose, waitingOn, regVars,
                   pathVars, clientVars>>

-----------------------------------------------------------------------------
(* The end of path.run.                                                     *)

\* <-pa.ctx.Done(): the loop returns and the path calls onPathClose
PathLoopCancelled(i) ==
    /\ pstatus[i] = "running" /\ pclosed[i]
    /\ pstatus' = [pstatus EXCEPT ![i] = "exiting"]
    /\ UNCHANGED <<pmVars, regVars, pclosed, psource, pstream, preaders, clientVars>>

\* mutant: onPathClose without the pa.ctx.Done case
PathCloseAbandonedPmOnly(i) ==
    /\ pstatus[i] = "exiting" /\ pmCtxDone
    /\ Teardown(i)
    /\ UNCHANGED <<pmVars, regVars, pclosed, cstate, cpath, cres>>

\* onPathClose returns through pm.ctx.Done or pa.ctx.Done
PathCloseAbandoned(i) ==
    /\ pstatus[i] = "exiting" /\ (pmCtxDone \/ pclosed[i])
    /\ Teardown(i)
    /\ UNCHANGED <<pmVars, regVars, pclosed, cstate, cpath, cres>>

-----------------------------------------------------------------------------
(* Connections: the two halves of pathManager.describe / readerAdd /        *)
(* publisherAdd, then the path's handlers for the connection's requests.    *)

\* the request reaches the manager's loop; the name resolves to no entry
ClientAskNotConfigured(c) ==
    /\ cstate[c] = "idle" /\ pmState = "running" /\ ~pmCtxDone
    /\ \E n \in Names : ResolveConf(pathConfs, n) = {}
    /\ cres' = [cres EXCEPT ![c] = "notConfigured"]
    /\ UNCHANGED <<pmVars, regVars, pathVars, cstate, cpath, cclosed>>

\* mutant: the reply names the path after the one created
ClientAskCreateOffByOne(c) ==
    /\ cstate[c] = "idle" /\ pmState = "running" /\ ~pmCtxDone
    /\ \E n \in Names :
        /\ paths[n] = NoPath
        /\ \E cn \in ResolveConf(pathConfs, n) : CreatePaths({n}, n :> cn, pathConfs)
        /\ cpath' = [cpath EXCEPT ![c] = nextId + 2]
    /\ cstate' = [cstate EXCEPT ![c] = "routed"]
    /\ UNCHANGED <<pmVars, psource, pstream, preaders, cclosed, cres>>

\* the name resolves and has no path: createPath, reply with it
ClientAskCreate(c) ==
    /\ cstate[c] = "idle" /\ pmState = "running" /\ ~pmCtxDone
    /\ \E n \in Names :
        /\ paths[n] = NoPath
        /\ \E cn \in ResolveConf(pathConfs, n) : CreatePaths({n}, n :> cn, pathConfs)
        /\ cpath' = [cpath EXCEPT ![c] = nextId + 1]
    /\ cstate' = [cstate EXCEPT ![c] = "routed"]
    /\ UNCHANGED <<pmVars, psource, pstream, preaders, cclosed, cres>>

\* the name resolves and has a path: reply with it
ClientAskExisting(c) ==
    /\ cstate[c] = "idle" /\ pmState = "running" /\ ~pmCtxDone
    /\ \E n \in Names :
        /\ ResolveConf(pathConfs, n) # {} /\ paths[n] # NoPath
        /\ cpath' = [cpath EXCEPT ![c] = paths[n]]
    /\ cstate' = [cstate EXCEPT ![c] = "routed"]
    /\ UNCHANGED <<pmVars, regVars, pathVars, cclosed, cres>>

\* <-pm.ctx.Done() in the client wrapper
ClientAskTerminated(c) ==
    /\ cstate[c] = "idle" /\ pmCtxDone /\ cres[c] # "terminated"
    /\ cres' = [cres EXCEPT ![c] = "terminated"]
    /\ cpath' = [cpath EXCEPT ![c] = NoPath]
    /\ UNCHANGED <<pmVars, regVars, pathVars, cstate, cclosed>>

PathLive(i) == pstatus[i] = "running" /\ ~pclosed[i]

\* "if pa.shouldClose() { return }" after a handler, on the state it leaves
ExitIfUnused(i) ==
    pstatus' = IF pregexp[i] /\ psource'[i] = None /\ preaders'[i] = {}
                  THEN [pstatus EXCEPT ![i] = "exiting"] ELSE pstatus

\* pa.readerAdd with a stream: handleReaderAddPost
PathReaderAdd(c) ==
    LET i == cpath[c] IN
    /\ cstate[c] = "routed" /\ c \in Readers /\ PathLive(i)
    /\ pstream[i]
    /\ preaders' = [preaders EXCEPT ![i] = @ \cup {c}]
    /\ cstate' = [cstate EXCEPT ![c] = "bound"]
    /\ cres' = [cres EXCEPT ![c] = "ok"]
    /\ UNCHANGED <<pmVars, regVars, pstatus, pclosed, psource, pstream,
                   cpath, cclosed>>

\* pa.readerAdd without a stream: no one is publishing, then shouldClose
PathReaderAddNoOnePublishing(c) ==
    LET i == cpath[c] IN
    /\ cstate[c] = "routed" /\ c \in Readers /\ PathLive(i)
    /\ ~pstream[i]
    /\ cstate' = [cstate EXCEPT ![c] = "idle"]
    /\ cres' = [cres EXCEPT ![c] = "noOnePublishing"]
    /\ UNCHANGED <<pmVars, regVars, pclosed, psource, pstream, preaders,
                   cpath, cclosed>>
    /\ ExitIfUnused(i)

\* pa.publisherAdd: a present publisher is closed and its stream dropped
PathPublisherAdd(c) ==
    LET i == cpath[c]
        old == psource[i]
    IN
    /\ cstate[c] = "routed" /\ c \in Publishers /\ PathLive(i)
    /\ IF pstream[i]
          THEN /\ ManagerReachable(i)
               /\ preaders' = [preaders EXCEPT ![i] = {}]
               /\ pstream' = [pstream EXCEPT ![i] = FALSE]
          ELSE UNCHANGED <<preaders, pstream>>
    /\ cclosed' = [x \in Clients |->
                      cclosed[x] \/ x = old \/ (pstream[i] /\ x \in preaders[i])]
    /\ psource' = [psource EXCEPT ![i] = c]
    /\ cstate' = [cstate EXCEPT ![c] = "bound"]
    /\ cres' = [cres EXCEPT ![c] = "ok"]
    /\ UNCHANGED <<pmVars, regVars, pstatus, pclosed, cpath>>

\* pa.publisherStart: sourceSetReady notifies the manager (pathSourceReady)
PathPublisherStart(c) ==
    LET i == cpath[c] IN
    /\ cstate[c] = "bound" /\ c \in Publishers /\ PathLive(i)
    /\ psource[i] = c /\ ~pstream[i]
    /\ ManagerReachable(i)
    /\ pstream' = [pstream EXCEPT ![i] = TRUE]
    /\ UNCHANGED <<pmVars, regVars, pstatus, pclosed, psource, preaders, clientVars>>

\* pa.readerRemove; the loop does not check shouldClose after it
PathReaderRemove(c) ==
    LET i == cpath[c] IN
    /\ cstate[c] = "bound" /\ c \in Readers /\ PathLive(i)
    /\ preaders' = [preaders EXCEPT ![i] = @ \ {c}]
    /\ cstate' = [cstate EXCEPT ![c] = "idle"]
    /\ cclosed' = [cclosed EXCEPT ![c] = FALSE]
    /\ UNCHANGED <<pmVars, regVars, pstatus, pclosed, psource, pstream,
                   cpath, cres>>

\* pa.publisherRemove: doPublisherRemove if still the source, then shouldClose
PathPublisherRemove(c) ==
    LET i == cpath[c] IN
    /\ cstate[c] = "bound" /\ c \in Publishers /\ PathLive(i)
    /\ IF psource[i] = c
          THEN /\ psource' = [psource EXCEPT ![i] = None]
               /\ IF pstream[i]
                     THEN /\ ManagerReachable(i)
                          /\ preaders' = [preaders EXCEPT ![i] = {}]
                          /\ pstream' = [pstream EXCEPT ![i] = FALSE]
                          /\ cclosed' = [x \in Clients |->
                                           IF x = c THEN FALSE
                                           ELSE cclosed[x] \/ x \in preaders[i]]
                     ELSE /\ UNCHANGED <<preaders, pstream>>
                          /\ cclosed' = [cclosed EXCEPT ![c] = FALSE]
          ELSE /\ UNCHANGED <<psource, preaders, pstream>>
               /\ cclosed' = [cclosed EXCEPT ![c] = FALSE]
    /\ cstate' = [cstate EXCEPT ![c] = "idle"]
    /\ UNCHANGED <<pmVars, regVars, pclosed, cpath, cres>>
    /\ ExitIfUnused(i)

\* mutant: the teardown does not cancel pa.ctx, so only pa.close() ends requests
PathRequestTerminatedCtxOnly(c) ==
    LET i == cpath[c] IN
    /\ cstate[c] = "routed" /\ pclosed[i]
    /\ cstate' = [cstate EXCEPT ![c] = "idle"]
    /\ cres' = [cres EXCEPT ![c] = "terminated"]
    /\ UNCHANGED <<pmVars, regVars, pathVars, cpath, cclosed>>

\* a request to a path whose context is done: <-pa.ctx.Done()
PathRequestTerminated(c) ==
    LET i == cpath[c] IN
    /\ cstate[c] = "routed" /\ (pclosed[i] \/ pstatus[i] = "done")
    /\ cstate' = [cstate EXCEPT ![c] = "idle"]
    /\ cres' = [cres EXCEPT ![c] = "terminated"]
    /\ UNCHANGED <<pmVars, regVars, pathVars, cpath, cclosed>>

PathRemoveTerminated(c) ==
    LET i == cpath[c] IN
    /\ cstate[c] = "bound" /\ (pclosed[i] \/ pstatus[i] = "done")
    /\ cstate' = [cstate EXCEPT ![c] = "idle"]
    /\ cclosed' = [cclosed EXCEPT ![c] = FALSE]
    /\ UNCHANGED <<pmVars, regVars, pathVars, cpath, cres>>

ClientPathRequest(c) ==
    \/ PathReaderAdd(c) \/ PathReaderAddNoOnePublishing(c)
    \/ PathPublisherAdd(c) \/ PathRequestTerminated(c)

ClientRemove(c) ==
    PathReaderRemove(c) \/ PathPublisherRemove(c) \/ PathRemoveTerminated(c)

\* the server has shut down: the manager's loop ended, every path returned
\* from run and every connection has ended
ShutDown ==
    /\ pmState = "exited"
    /\ \A i \in Ids : pstatus[i] \in {"unused", "done"}
    /\ \A c \in Clients : cstate[c] = "idle"
    /\ UNCHANGED vars

-----------------------------------------------------------------------------

Next ==
    \/ NewPathManager
    \/ \E i \in Ids : PMPathClose(i) \/ PathLoopCancelled(i) \/ PathCloseAbandoned(i)
    \/ PMConfReload \/ PMReloadClosePath \/ PMReloadFinish
    \/ PMClose \/ PMExit \/ ShutDown
    \/ \E c \in Clients :
        \/ ClientAskNotConfigured(c) \/ ClientAskCreate(c) \/ ClientAskExisting(c)
        \/ ClientAskTerminated(c)
        \/ ClientPathRequest(c) \/ PathPublisherStart(c) \/ ClientRemove(c)

(***************************************************************************)
(* Fairness.  The manager finishes a confReload it has started (weak), and *)
(* a goroutine blocked in a select whose case keeps becoming ready is      *)
(* eventually served: Go picks uniformly among ready cases, so the         *)
(* manager's and a path's selects are strongly fair to them.  A path       *)
(* whose context is cancelled leaves its loop and returns from onPathClose *)
(* (weak).  A connection that got a path sends its request to it, and a    *)
(* closed connection removes itself.  Reloads, pm.close, new requests and  *)
(* voluntary departures come from outside and are not fair.               *)
(***************************************************************************)
Fairness ==
    /\ WF_vars(NewPathManager)
    /\ WF_vars(PMReloadClosePath) /\ WF_vars(PMReloadFinish)
    /\ SF_vars(PMExit)
    /\ \A i \in Ids : /\ SF_vars(PMPathClose(i))
                      /\ WF_vars(PathLoopCancelled(i))
                      /\ WF_vars(PathCloseAbandoned(i))
    /\ \A c \in Clients : /\ SF_vars(ClientPathRequest(c))
                          /\ SF_vars(cclosed[c] /\ ClientRemove(c))

Spec == Init /\ [][Next]_vars /\ Fairness

-----------------------------------------------------------------------------
(* Properties                                                               *)

TypeOK ==
    /\ pmState \in {"new", "running", "waiting", "exited"}
    /\ pmCtxDone \in BOOLEAN
    /\ pathConfs \in ConfSets /\ pendingConfs \in ConfSets
    /\ toClose \subseteq Ids /\ waitingOn \in Ids \cup {NoPath}
    /\ paths \in [Names -> Ids \cup {NoPath}]
    /\ pathsByConf \in [ConfNames -> SUBSET Ids]
    /\ nextId \in 0..MaxPaths
    /\ pname \in [Ids -> Names \cup {None}]
    /\ pconf \in [Ids -> ConfNames \cup {None}]
    /\ pregexp \in [Ids -> BOOLEAN]
    /\ pstatus \in [Ids -> {"unused", "running", "exiting", "done"}]
    /\ pclosed \in [Ids -> BOOLEAN]
    /\ psource \in [Ids -> Clients \cup {None}]
    /\ pstream \in [Ids -> BOOLEAN]
    /\ preaders \in [Ids -> SUBSET Clients]
    /\ cstate \in [Clients -> {"idle", "routed", "bound"}]
    /\ cpath \in [Clients -> Ids \cup {NoPath}]
    /\ cclosed \in [Clients -> BOOLEAN]
    /\ cres \in [Clients -> {"none", "ok", "notConfigured", "noOnePublishing",
                             "terminated"}]

\* pm.paths and pm.pathsByConf describe the same paths: createPath, the
\* chPathClose case and the confReload removals keep both maps in step.
RegistryConsistent ==
    /\ \A n \in Names : paths[n] # NoPath =>
           /\ pname[paths[n]] = n
           /\ paths[n] \in pathsByConf[pconf[paths[n]]]
    /\ \A cn \in ConfNames : \A i \in pathsByConf[cn] :
           pconf[i] = cn /\ paths[pname[i]] = i

\* While the manager runs, it never hands out a path whose context it has
\* cancelled or that has finished: a closed path is unregistered before
\* anyone can be routed to it.
RoutesToLivePath ==
    \A n \in Names :
        paths[n] # NoPath /\ ~pmCtxDone =>
            ~pclosed[paths[n]] /\ pstatus[paths[n]] \in {"running", "exiting"}

\* Two paths with the same name never run at once ("avoid conflicts
\* between sources"): a recreated path starts only after pa.wait() on the
\* old one returned, and a self-closed path keeps its name registered until
\* the manager has taken its onPathClose.
OneLivePathPerName ==
    \A i, j \in Ids :
        /\ i # j
        /\ pstatus[i] \in {"running", "exiting"}
        /\ pstatus[j] \in {"running", "exiting"}
        => pname[i] # pname[j]

\* A connection that got a path from the manager is eventually answered by
\* it: a path that closed itself is still reachable through onPathClose.
ClientRequestAnswered ==
    \A c \in Clients : cstate[c] = "routed" ~> cstate[c] # "routed"

\* A confReload the manager started eventually finishes: pa.wait() on each
\* closed path returns although the manager is not at its select.
ReloadCompletes ==
    pmState = "waiting" ~> pmState = "running"

\* A connection is refused with "terminated" only when the manager is
\* closing or the manager closed its path (reload): a configured path
\* never turns a connection away just because it closed itself.
TerminatedOnlyWhenClosed ==
    \A c \in Clients :
        cres[c] = "terminated" =>
            pmCtxDone \/ (cpath[c] # NoPath /\ pclosed[cpath[c]])

====
