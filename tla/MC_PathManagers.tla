-------------------------- MODULE MC_PathManagers --------------------------
(***************************************************************************)
(* The two configurations of the path manager that the runs explore, in   *)
(* one run.  A behaviour picks its setup in the first state and keeps it:  *)
(* "routing" starts from the initial configuration with a reader and a    *)
(* publisher; "reload" has one reader and reloads through all four        *)
(* configurations.  Both are PathManager over the same variables, with    *)
(* different constants.                                                    *)
(***************************************************************************)
EXTENDS MC_PathManager

VARIABLE setup

Setups == {"routing", "reload"}

Routing == INSTANCE PathManager
             WITH Readers <- {r1}, Publishers <- {p1}, ConfSets <- StartConfs
Reload  == INSTANCE PathManager
             WITH Readers <- {r1}, Publishers <- {}, ConfSets <- ReloadConfs

setupVars == <<setup, vars>>

SetupsInit ==
    /\ setup \in Setups
    /\ setup = "routing" => Routing!Init
    /\ setup = "reload" => Reload!Init

\* a step of one setup; the setup never changes
RoutingStep(A) == setup = "routing" /\ A /\ UNCHANGED setup
ReloadStep(A) == setup = "reload" /\ A /\ UNCHANGED setup

SetupsNext == RoutingStep(Routing!Next) \/ ReloadStep(Reload!Next)

\* PathManager's Fairness: in a behaviour only one setup steps, so the
\* fairness of "its step or the other setup's" is the fairness of its own
Either(A, B) == RoutingStep(A) \/ ReloadStep(B)

SetupsFairness ==
    /\ WF_setupVars(Either(Routing!NewPathManager, Reload!NewPathManager))
    /\ WF_setupVars(Either(Routing!PMReloadClosePath, Reload!PMReloadClosePath))
    /\ WF_setupVars(Either(Routing!PMReloadFinish, Reload!PMReloadFinish))
    /\ SF_setupVars(Either(Routing!PMExit, Reload!PMExit))
    /\ \A i \in Ids :
         /\ SF_setupVars(Either(Routing!PMPathClose(i), Reload!PMPathClose(i)))
         /\ WF_setupVars(Either(Routing!PathLoopCancelled(i), Reload!PathLoopCancelled(i)))
         /\ WF_setupVars(Either(Routing!PathCloseAbandoned(i), Reload!PathCloseAbandoned(i)))
    /\ SF_setupVars(Either(Routing!ClientPathRequest(r1), Reload!ClientPathRequest(r1)))
    /\ SF_setupVars(Either(cclosed[r1] /\ Routing!ClientRemove(r1),
                           cclosed[r1] /\ Reload!ClientRemove(r1)))
    /\ SF_setupVars(RoutingStep(Routing!ClientPathRequest(p1)))
    /\ SF_setupVars(RoutingStep(cclosed[p1] /\ Routing!ClientRemove(p1)))

SetupsSpec ==
    SetupsInit /\ [][SetupsNext]_setupVars /\ SetupsFairness

-----------------------------------------------------------------------------
PMTypeOK ==
    /\ setup \in Setups
    /\ setup = "routing" => Routing!TypeOK
    /\ setup = "reload" => Reload!TypeOK

\* pm.paths, pm.pathsByConf and the paths' own names and confs agree, at
\* every step of routing, self-closing paths, overrides and reloads.
PMRegistryConsistent ==
    IF setup = "routing" THEN Routing!RegistryConsistent ELSE Reload!RegistryConsistent

\* a connection is only ever routed to a path whose context is live.
PMRoutesToLivePath ==
    IF setup = "routing" THEN Routing!RoutesToLivePath ELSE Reload!RoutesToLivePath

\* no two live paths serve one name.
PMOneLivePathPerName ==
    IF setup = "routing" THEN Routing!OneLivePathPerName ELSE Reload!OneLivePathPerName

\* every request the manager routed to a path is eventually answered
\* (ClientRequestAnswered of either setup; p1 exists in "routing" only).
PMClientRequestAnswered ==
    \A c \in {r1, p1} :
        (c \in DOMAIN cstate /\ cstate[c] = "routed")
            ~> (c \in DOMAIN cstate /\ cstate[c] # "routed")

\* every confReload the manager starts finishes.
PMReloadCompletes == ReloadCompletes

=============================================================================
