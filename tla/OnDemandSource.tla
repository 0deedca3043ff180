---------------------------- MODULE OnDemandSource ----------------------------
(***************************************************************************)
(* What a path promises about a source started on demand (spec 4.4, the   *)
(* on-demand sub-state machine), stated without the event loop, timers or  *)
(* connections: requests made while no stream is up are parked and start  *)
(* the source; readiness answers all of them at once; the source is closed *)
(* only once nobody reads it; a ready timeout fails what is parked.        *)
(*                                                                         *)
(* Path, with an on-demand static source, implements this module: MC_Path *)
(* instantiates it with a refinement mapping and checks its Spec as a      *)
(* property of Path's Spec.                                                *)
(***************************************************************************)
EXTENDS FiniteSets

CONSTANTS Readers

Initial      == "initial"
WaitingReady == "waitingReady"
Ready        == "ready"
Closing      == "closing"

VARIABLES
    state,      \* the on-demand state of the diagram
    describing, \* readers whose describe is parked
    adding,     \* readers whose add-reader is parked
    live,       \* a stream is up
    attached,   \* readers attached to the stream
    open        \* the path still serves requests

vars == <<state, describing, adding, live, attached, open>>

Idle(r) == r \notin describing \cup adding \cup attached

Init ==
    /\ state = Initial
    /\ describing = {} /\ adding = {}
    /\ live = FALSE
    /\ attached = {}
    /\ open = TRUE

\* describe or add-reader with no stream: park, starting the source from Initial
Park(r) ==
    /\ open /\ ~live /\ Idle(r)
    /\ \/ describing' = describing \cup {r} /\ UNCHANGED adding
       \/ adding' = adding \cup {r} /\ UNCHANGED describing
    /\ state' = IF state = Initial THEN WaitingReady ELSE state
    /\ UNCHANGED <<live, attached, open>>

\* add-reader with a stream: attach; the first reader while Closing reopens
Attach(r) ==
    /\ open /\ live /\ Idle(r)
    /\ attached' = attached \cup {r}
    /\ state' = IF state = Closing THEN Ready ELSE state
    /\ UNCHANGED <<describing, adding, live, open>>

\* the source is ready: every parked request is answered, the adds attach,
\* and with nobody attached the close is scheduled at once
BecomeReady ==
    /\ open /\ ~live /\ state = WaitingReady
    /\ live' = TRUE
    /\ attached' = attached \cup adding
    /\ describing' = {} /\ adding' = {}
    /\ state' = IF adding # {} THEN Ready ELSE Closing
    /\ UNCHANGED open

\* the ready timer: parked requests fail and the source is stopped
ReadyTimeout ==
    /\ open /\ ~live /\ state = WaitingReady
    /\ describing' = {} /\ adding' = {}
    /\ state' = Initial
    /\ UNCHANGED <<live, attached, open>>

\* a reader leaves; the last one leaving a Ready source schedules the close
Leave(r) ==
    /\ r \in attached
    /\ attached' = attached \ {r}
    /\ state' = IF attached' = {} /\ state = Ready THEN Closing ELSE state
    /\ UNCHANGED <<describing, adding, live, open>>

\* the close timer: the stream goes away with nobody attached
CloseTimeout ==
    /\ open /\ live /\ state = Closing /\ attached = {}
    /\ live' = FALSE
    /\ state' = Initial
    /\ UNCHANGED <<describing, adding, attached, open>>

\* the source stops on its own: readers are evicted and the source stopped
SourceLost ==
    /\ open /\ live
    /\ live' = FALSE
    /\ attached' = {}
    /\ state' = Initial
    /\ UNCHANGED <<describing, adding, open>>

\* the path is closed: parked requests fail, the stream and readers go
Close ==
    /\ open
    /\ open' = FALSE
    /\ describing' = {} /\ adding' = {}
    /\ live' = FALSE
    /\ attached' = {}
    /\ UNCHANGED state

Next ==
    \/ \E r \in Readers : Park(r) \/ Attach(r) \/ Leave(r)
    \/ BecomeReady \/ ReadyTimeout \/ CloseTimeout \/ SourceLost \/ Close

\* The two timers fire: a source that stays unready has its requests
\* failed, and a source nobody reads is closed.
Spec ==
    /\ Init /\ [][Next]_vars
    /\ WF_vars(ReadyTimeout)
    /\ WF_vars(CloseTimeout)

=============================================================================
