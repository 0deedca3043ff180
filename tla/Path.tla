-------------------------------- MODULE Path --------------------------------
(***************************************************************************)
(* The per-stream coordinator of internal/core/path.go.                    *)
(*                                                                         *)
(* One path runs one event loop (path.run) that receives, one at a time,   *)
(* requests from reader connections, publisher connections, its static     *)
(* source and four on-demand timers.  A request is a send on an unbuffered *)
(* channel followed by a wait for the reply, so the client's send and the  *)
(* path's handler are one step here; a request the path parks             *)
(* (describeRequestsOnHold, readerAddRequestsOnHold) leaves its client     *)
(* blocked until a later step answers it.                                  *)
(*                                                                         *)
(* Data is abstracted away: a stream is an identifier (the pointer that    *)
(* path.stream holds), media descriptions, URLs and credentials are left   *)
(* out, and the path configuration is a record of the flags that steer     *)
(* the control flow.                                                       *)
(***************************************************************************)
EXTENDS Naturals, FiniteSets

CONSTANTS
    Readers,     \* reader connections (sessions that describe and read)
    Publishers,  \* publisher connections
    Confs,       \* the path configurations a path may be created with
    MaxStreams   \* bound: number of streams created in one behaviour

ConfFields ==
    [source: {"publisher", "static", "redirect"},  \* conf.Source kind
     onDemand: BOOLEAN,        \* SourceOnDemand / RunOnDemand != ""
     regexp: BOOLEAN,          \* conf.Regexp != nil
     fallback: BOOLEAN,        \* conf.Fallback != ""
     disablePublisherOverride: BOOLEAN]

ASSUME /\ Readers # {} /\ Publishers # {}
       /\ Confs # {} /\ Confs \subseteq ConfFields
       /\ MaxStreams \in Nat \ {0}

None      == "none"       \* pa.source == nil
StaticSrc == "static"     \* pa.source is a *sourceStatic
Redirect  == "redirect"   \* pa.source is a *sourceRedirect
NoStream  == 0            \* pa.stream == nil

\* pathOnDemandState
Initial      == "initial"
WaitingReady == "waitingReady"
Ready        == "ready"
Closing      == "closing"
OnDemandStates == {Initial, WaitingReady, Ready, Closing}

TimerNames == {"staticReady", "staticClose", "publisherReady", "publisherClose"}
NoTimers == [t \in TimerNames |-> FALSE]

VARIABLES
    conf,              \* pa.conf (swapped only for RPICamera fields, not modelled)
    running,           \* the event loop of pa.run has not returned
    source,            \* pa.source
    stream,            \* pa.stream, as an identifier
    streamCount,       \* streams created so far (names the next one)
    readers,           \* keys of pa.readers
    describeHeld,      \* authors of pa.describeRequestsOnHold
    readerAddHeld,     \* authors of pa.readerAddRequestsOnHold
    onDemandStaticSourceState,
    onDemandPublisherState,
    timer,             \* the four on-demand timers: TRUE while armed
    onDemandCmd,       \* pa.onDemandCmd != nil
    staticState,       \* the static source: "stopped", "running", "ready",
                       \* "notReadySent" (its setNotReady awaits the reply),
                       \* "exiting" (stopped by the path, ending)
    stopping,          \* pa.run is inside sourceStatic.stop(), waiting for
                       \* the source's goroutine to end
    rstate,            \* per reader: "idle", "describeHeld", "addHeld", "reading"
    rstream,           \* per reader: the stream its readerAdd returned
    rclosed,           \* per reader: r.close() was called by the path
    rres,              \* per reader: the last reply it received
    pstate,            \* per publisher: "idle", "added", "publishing"
    pclosed,           \* per publisher: close() was called by the path
    pres               \* per publisher: the last reply it received

pathVars == <<conf, running, source, stream, streamCount, readers, describeHeld,
              readerAddHeld, onDemandStaticSourceState, onDemandPublisherState,
              timer, onDemandCmd>>
readerVars == <<rstate, rstream, rclosed, rres>>
pubVars == <<pstate, pclosed, pres>>
staticVars == <<staticState, stopping>>
vars == <<pathVars, staticVars, readerVars, pubVars>>

HasStaticSource == conf.source = "static"
HasOnDemandStaticSource == HasStaticSource /\ conf.onDemand
HasOnDemandPublisher == conf.source = "publisher" /\ conf.onDemand

\* pa.run is at its select: it has not returned and is not inside
\* sourceStatic.stop() waiting for the static source's goroutine to end
Serving == running /\ ~stopping

\* f with every argument in S mapped to v
Assign(f, S, v) == [x \in DOMAIN f |-> IF x \in S THEN v ELSE f[x]]

-----------------------------------------------------------------------------
(* Init: newPath and the start of pa.run.                                   *)

Init ==
    /\ conf \in Confs
    /\ running = TRUE
    /\ source = CASE conf.source = "redirect" -> Redirect
                  [] conf.source = "static"   -> StaticSrc
                  [] OTHER                    -> None
    \* a static source that is not on demand is started at once
    /\ staticState = IF HasStaticSource /\ ~conf.onDemand THEN "running" ELSE "stopped"
    /\ stopping = FALSE
    /\ stream = NoStream
    /\ streamCount = 0
    /\ readers = {}
    /\ describeHeld = {}
    /\ readerAddHeld = {}
    /\ onDemandStaticSourceState = Initial
    /\ onDemandPublisherState = Initial
    /\ timer = NoTimers
    /\ onDemandCmd = FALSE
    /\ rstate = [r \in Readers |-> "idle"]
    /\ rstream = [r \in Readers |-> NoStream]
    /\ rclosed = [r \in Readers |-> FALSE]
    /\ rres = [r \in Readers |-> "none"]
    /\ pstate = [p \in Publishers |-> "idle"]
    /\ pclosed = [p \in Publishers |-> FALSE]
    /\ pres = [p \in Publishers |-> "none"]

-----------------------------------------------------------------------------
(* Helpers: the methods of path that the handlers call.                     *)

ShouldClose ==
    /\ conf.regexp
    /\ source = None
    /\ readers = {}
    /\ describeHeld = {}
    /\ readerAddHeld = {}

\* The "if pa.shouldClose() { return }" that follows a handler, with the
\* part of the teardown after the loop that still has something to do:
\* stopping the timers and the on-demand command.  tm and cmd are the
\* timers and command as the handler leaves them.
LeaveIfUnused(tm, cmd) ==
    /\ running' = ~ShouldClose'
    /\ timer' = IF ShouldClose' THEN NoTimers ELSE tm
    /\ onDemandCmd' = (cmd /\ ~ShouldClose')

\* sourceSetReady: a new stream
\* mutant: the stream handed out is not a fresh one
NewStreamUncounted ==
    /\ stream' = streamCount + 1
    /\ UNCHANGED streamCount

NewStream ==
    /\ stream' = streamCount + 1
    /\ streamCount' = streamCount + 1

\* sourceSetNotReady: every reader is removed and closed, the stream closed
\* mutant: the readers are dropped from pa.readers but not closed
SourceSetNotReadyKeepReaders ==
    /\ readers' = {}
    /\ stream' = NoStream
    /\ UNCHANGED rclosed

SourceSetNotReady ==
    /\ rclosed' = [r \in Readers |-> rclosed[r] \/ r \in readers]
    /\ readers' = {}
    /\ stream' = NoStream

DropStreamIfReady ==
    IF stream # NoStream THEN SourceSetNotReady
                         ELSE UNCHANGED <<rclosed, readers, stream>>

\* doPublisherRemove
DoPublisherRemove ==
    /\ DropStreamIfReady
    /\ source' = None

\* The held requests answered once the source is ready: describes get the
\* stream, reader adds go through handleReaderAddPost.
FlushHeld(s) ==
    /\ readers' = readers \cup readerAddHeld
    /\ rstate' = [r \in Readers |-> CASE r \in describeHeld  -> "idle"
                                      [] r \in readerAddHeld -> "reading"
                                      [] OTHER               -> rstate[r]]
    /\ rstream' = Assign(rstream, readerAddHeld, s)
    /\ rres' = Assign(rres, describeHeld \cup readerAddHeld, "stream")
    /\ describeHeld' = {}
    /\ readerAddHeld' = {}

\* The held requests answered with an error (timeout or termination).
FailHeld(err) ==
    /\ rstate' = Assign(rstate, describeHeld \cup readerAddHeld, "idle")
    /\ rres' = Assign(rres, describeHeld \cup readerAddHeld, err)
    /\ describeHeld' = {}
    /\ readerAddHeld' = {}

\* onDemandPublisherStop, without its timer and command effects
OnDemandPublisherStop ==
    /\ IF source # None
          THEN /\ pclosed' = [pclosed EXCEPT ![source] = TRUE]
               /\ DoPublisherRemove
          ELSE UNCHANGED <<pclosed, source, readers, rclosed, stream>>
    /\ onDemandPublisherState' = Initial

\* timers after onDemandStaticSourceStop / onDemandPublisherStop
StaticStopTimers(tm) ==
    [tm EXCEPT !["staticClose"] = @ /\ onDemandStaticSourceState # Closing]
PublisherStopTimers(tm) ==
    [tm EXCEPT !["publisherClose"] = @ /\ onDemandPublisherState # Closing]


-----------------------------------------------------------------------------
(* The timer cases of the select in pa.run.  In every action the shouldClose *)
(* check (LeaveIfUnused) comes last: it reads the state the handler leaves. *)

\* <-pa.onDemandStaticSourceReadyTimer.C: held requests time out and the
\* static source is stopped (onDemandStaticSourceStop).
\* mutant: the ready timer stops the source but leaves the requests parked
OnDemandStaticSourceReadyTimerNoFail ==
    /\ Serving /\ timer["staticReady"]
    /\ onDemandStaticSourceState' = Initial
    /\ staticState' = "stopped" /\ UNCHANGED stopping
    /\ UNCHANGED <<conf, source, stream, streamCount, readers, onDemandPublisherState,
                   describeHeld, readerAddHeld, readerVars, pubVars>>
    /\ LeaveIfUnused(StaticStopTimers([timer EXCEPT !["staticReady"] = FALSE]),
                     onDemandCmd)

OnDemandStaticSourceReadyTimer ==
    /\ Serving /\ timer["staticReady"]
    /\ FailHeld("timeout")
    /\ onDemandStaticSourceState' = Initial
    /\ staticState' = "stopped" /\ UNCHANGED stopping
    /\ UNCHANGED <<conf, source, stream, streamCount, readers, onDemandPublisherState,
                   rstream, rclosed, pubVars>>
    /\ LeaveIfUnused(StaticStopTimers([timer EXCEPT !["staticReady"] = FALSE]),
                     onDemandCmd)

\* <-pa.onDemandStaticSourceCloseTimer.C: sourceSetNotReady, then
\* onDemandStaticSourceStop.
OnDemandStaticSourceCloseTimer ==
    /\ Serving /\ timer["staticClose"]
    /\ SourceSetNotReady
    /\ onDemandStaticSourceState' = Initial
    /\ staticState' = "stopped" /\ UNCHANGED stopping
    /\ UNCHANGED <<conf, source, streamCount, describeHeld, readerAddHeld,
                   onDemandPublisherState, rstate, rstream, rres, pubVars>>
    /\ LeaveIfUnused(StaticStopTimers([timer EXCEPT !["staticClose"] = FALSE]),
                     onDemandCmd)

\* <-pa.onDemandPublisherReadyTimer.C: held requests time out, then
\* onDemandPublisherStop closes the publisher if any and the command.
OnDemandPublisherReadyTimer ==
    /\ Serving /\ timer["publisherReady"]
    /\ FailHeld("timeout")
    /\ OnDemandPublisherStop
    /\ UNCHANGED <<conf, streamCount, onDemandStaticSourceState, staticVars,
                   rstream, pstate, pres>>
    /\ LeaveIfUnused(PublisherStopTimers([timer EXCEPT !["publisherReady"] = FALSE]),
                     FALSE)

\* <-pa.onDemandPublisherCloseTimer.C: onDemandPublisherStop.
OnDemandPublisherCloseTimer ==
    /\ Serving /\ timer["publisherClose"]
    /\ OnDemandPublisherStop
    /\ UNCHANGED <<conf, streamCount, describeHeld, readerAddHeld,
                   onDemandStaticSourceState, staticVars, rstate, rstream, rres,
                   pstate, pres>>
    /\ LeaveIfUnused(PublisherStopTimers([timer EXCEPT !["publisherClose"] = FALSE]),
                     FALSE)

-----------------------------------------------------------------------------
(* The static source.  Its wrapper sourceStatic (not in this source tree)   *)
(* restarts the inner source after each failure; the inner source          *)
(* (rtspSource.run) calls setReady once it has described the remote stream  *)
(* and, deferred, setNotReady when it stops reading.  A request sent while  *)
(* the source is being stopped is dropped (the select on sourceStaticCtx),  *)
(* so it is a step only while the source runs.                              *)

\* case req := <-pa.chSourceStaticSetReady
\* mutant: setReady creates the stream without flushing the held requests
SourceStaticSetReadyNoFlush ==
    /\ Serving /\ staticState = "running"
    /\ streamCount < MaxStreams
    /\ staticState' = "ready" /\ UNCHANGED stopping
    /\ NewStream
    /\ onDemandStaticSourceState' =
           IF HasOnDemandStaticSource THEN Closing ELSE onDemandStaticSourceState
    /\ timer' = IF HasOnDemandStaticSource
                   THEN [timer EXCEPT !["staticReady"] = FALSE, !["staticClose"] = TRUE]
                   ELSE timer
    /\ UNCHANGED <<conf, running, source, onDemandPublisherState, onDemandCmd,
                   readers, describeHeld, readerAddHeld, readerVars, pubVars>>

SourceStaticSetReady ==
    /\ Serving /\ staticState = "running"
    /\ streamCount < MaxStreams
    /\ staticState' = "ready" /\ UNCHANGED stopping
    /\ NewStream
    /\ IF HasOnDemandStaticSource
          THEN \* stop the ready timer, onDemandStaticSourceScheduleClose, then
               \* flush; the first held reader moves Closing back to Ready
               /\ FlushHeld(streamCount + 1)
               /\ onDemandStaticSourceState' =
                      IF readerAddHeld # {} THEN Ready ELSE Closing
               /\ timer' = [timer EXCEPT !["staticReady"] = FALSE,
                                         !["staticClose"] = readerAddHeld = {}]
          ELSE UNCHANGED <<readers, describeHeld, readerAddHeld, rstate, rstream,
                           rres, onDemandStaticSourceState, timer>>
    /\ UNCHANGED <<conf, running, source, onDemandPublisherState, onDemandCmd,
                   rclosed, pubVars>>

\* The inner source stops reading: its deferred setNotReady reaches
\* sourceStaticSetNotReady, whose send on pa.chSourceStaticSetNotReady
\* completes only when pa.run takes it; the source then waits for the reply.
SourceStaticNotReadySent ==
    /\ running /\ staticState = "ready"
    /\ staticState' = "notReadySent" /\ UNCHANGED stopping
    /\ UNCHANGED <<pathVars, readerVars, pubVars>>

\* case req := <-pa.chSourceStaticSetNotReady: sourceSetNotReady, then the
\* reply (close(req.res)), then onDemandStaticSourceStop unless the
\* on-demand state is Initial.  onDemandStaticSourceStop cancels the source
\* and waits in sourceStatic.stop() for its goroutine to end ("exiting"):
\* pa.run takes nothing else until SourceStaticExit.  A source that is not
\* stopped retries on its own.
\* mutant: the path stops the source before replying: stop() waits for a
\* goroutine that waits for the reply
SourceStaticSetNotReadyStopFirst ==
    LET stop == HasOnDemandStaticSource /\ onDemandStaticSourceState # Initial
    IN
    /\ Serving /\ staticState = "notReadySent"
    /\ SourceSetNotReady
    /\ onDemandStaticSourceState' = IF stop THEN Initial ELSE onDemandStaticSourceState
    /\ staticState' = IF stop THEN "notReadySent" ELSE "running"
    /\ stopping' = stop
    /\ UNCHANGED <<conf, source, streamCount, describeHeld, readerAddHeld,
                   onDemandPublisherState, rstate, rstream, rres, pubVars>>
    /\ IF stop THEN /\ timer' = StaticStopTimers(timer)
                    /\ UNCHANGED <<running, onDemandCmd>>
               ELSE LeaveIfUnused(timer, onDemandCmd)

\* mutant: setNotReady changes the source state but keeps the stream
SourceStaticSetNotReadyKeepStream ==
    LET stop == HasOnDemandStaticSource /\ onDemandStaticSourceState # Initial
    IN
    /\ Serving /\ staticState = "notReadySent"
    /\ onDemandStaticSourceState' = IF stop THEN Initial ELSE onDemandStaticSourceState
    /\ staticState' = IF stop THEN "exiting" ELSE "running"
    /\ stopping' = stop
    /\ UNCHANGED <<conf, source, stream, streamCount, readers, describeHeld,
                   readerAddHeld, onDemandPublisherState, readerVars, pubVars>>
    /\ IF stop THEN /\ timer' = StaticStopTimers(timer)
                    /\ UNCHANGED <<running, onDemandCmd>>
               ELSE LeaveIfUnused(timer, onDemandCmd)

SourceStaticSetNotReady ==
    LET stop == HasOnDemandStaticSource /\ onDemandStaticSourceState # Initial
    IN
    /\ Serving /\ staticState = "notReadySent"
    /\ SourceSetNotReady
    /\ onDemandStaticSourceState' = IF stop THEN Initial ELSE onDemandStaticSourceState
    /\ staticState' = IF stop THEN "exiting" ELSE "running"
    /\ stopping' = stop
    /\ UNCHANGED <<conf, source, streamCount, describeHeld, readerAddHeld,
                   onDemandPublisherState, rstate, rstream, rres, pubVars>>
    /\ IF stop THEN /\ timer' = StaticStopTimers(timer)
                    /\ UNCHANGED <<running, onDemandCmd>>
               ELSE LeaveIfUnused(timer, onDemandCmd)

\* The stopped source's goroutine, free once it has its reply, sees its
\* context cancelled and ends; stop() returns and the handler ends with
\* the shouldClose check.
SourceStaticExit ==
    /\ running /\ stopping /\ staticState = "exiting"
    /\ staticState' = "stopped"
    /\ stopping' = FALSE
    /\ UNCHANGED <<conf, source, stream, streamCount, readers, describeHeld,
                   readerAddHeld, onDemandStaticSourceState, onDemandPublisherState,
                   readerVars, pubVars>>
    /\ LeaveIfUnused(timer, onDemandCmd)

-----------------------------------------------------------------------------
(* Reader requests: describe, readerAdd, readerRemove.                      *)

\* Parking the request of reader r in held; an on-demand source in Initial
\* is started (onDemandStaticSourceStart / onDemandPublisherStart), which
\* arms its ready timer and, for a publisher, starts the command.
HoldOnDemandStatic(r, held, heldState) ==
    /\ held' = held \cup {r}
    /\ rstate' = [rstate EXCEPT ![r] = heldState]
    /\ IF onDemandStaticSourceState = Initial
          THEN /\ staticState' = "running" /\ UNCHANGED stopping
               /\ onDemandStaticSourceState' = WaitingReady
          ELSE UNCHANGED <<staticVars, onDemandStaticSourceState>>
    /\ UNCHANGED onDemandPublisherState

StaticStartTimers ==
    IF onDemandStaticSourceState = Initial
       THEN [timer EXCEPT !["staticReady"] = TRUE] ELSE timer

HoldOnDemandPublisher(r, held, heldState) ==
    /\ held' = held \cup {r}
    /\ rstate' = [rstate EXCEPT ![r] = heldState]
    /\ IF onDemandPublisherState = Initial
          THEN onDemandPublisherState' = WaitingReady
          ELSE UNCHANGED onDemandPublisherState
    /\ UNCHANGED <<staticVars, onDemandStaticSourceState>>

PublisherStartTimers ==
    IF onDemandPublisherState = Initial
       THEN [timer EXCEPT !["publisherReady"] = TRUE] ELSE timer

PublisherStartCmd == onDemandCmd \/ onDemandPublisherState = Initial

\* A request of reader r answered at once with reply res.
Reply(r, res) ==
    /\ rres' = [rres EXCEPT ![r] = res]
    /\ UNCHANGED <<conf, source, stream, streamCount, readers, describeHeld,
                   readerAddHeld, onDemandStaticSourceState, onDemandPublisherState,
                   staticVars, rstate, rstream, rclosed, pubVars>>
    /\ LeaveIfUnused(timer, onDemandCmd)

RequestGuard(r) == Serving /\ rstate[r] = "idle"

\* handleDescribe, in its order: redirect, ready stream, on-demand static
\* source, on-demand publisher, fallback, error.
HandleDescribeRedirect(r) ==
    /\ RequestGuard(r) /\ source = Redirect
    /\ Reply(r, "redirect")

HandleDescribeStream(r) ==
    /\ RequestGuard(r) /\ source # Redirect /\ stream # NoStream
    /\ Reply(r, "stream")

HandleDescribeOnDemandStatic(r) ==
    /\ RequestGuard(r) /\ source # Redirect /\ stream = NoStream
    /\ HasOnDemandStaticSource
    /\ HoldOnDemandStatic(r, describeHeld, "describeHeld")
    /\ UNCHANGED <<conf, source, stream, streamCount, readers, readerAddHeld,
                   rstream, rclosed, rres, pubVars>>
    /\ LeaveIfUnused(StaticStartTimers, onDemandCmd)

HandleDescribeOnDemandPublisher(r) ==
    /\ RequestGuard(r) /\ source # Redirect /\ stream = NoStream
    /\ ~HasOnDemandStaticSource /\ HasOnDemandPublisher
    /\ HoldOnDemandPublisher(r, describeHeld, "describeHeld")
    /\ UNCHANGED <<conf, source, stream, streamCount, readers, readerAddHeld,
                   rstream, rclosed, rres, pubVars>>
    /\ LeaveIfUnused(PublisherStartTimers, PublisherStartCmd)

HandleDescribeFallback(r) ==
    /\ RequestGuard(r) /\ source # Redirect /\ stream = NoStream
    /\ ~HasOnDemandStaticSource /\ ~HasOnDemandPublisher
    /\ conf.fallback
    /\ Reply(r, "fallback")

HandleDescribeNoOnePublishing(r) ==
    /\ RequestGuard(r) /\ source # Redirect /\ stream = NoStream
    /\ ~HasOnDemandStaticSource /\ ~HasOnDemandPublisher
    /\ ~conf.fallback
    /\ Reply(r, "noOnePublishing")

\* handleReaderAdd with a ready stream: handleReaderAddPost.  A reader that
\* arrives while the on-demand source is Closing cancels the close timer.
\* mutant: a reader joining a Closing source does not cancel the close
HandleReaderAddPostNoReopen(r) ==
    /\ RequestGuard(r) /\ stream # NoStream
    /\ readers' = readers \cup {r}
    /\ rstate' = [rstate EXCEPT ![r] = "reading"]
    /\ rstream' = [rstream EXCEPT ![r] = stream]
    /\ rres' = [rres EXCEPT ![r] = "stream"]
    /\ UNCHANGED <<conf, source, stream, streamCount, describeHeld, readerAddHeld,
                   onDemandStaticSourceState, onDemandPublisherState,
                   staticVars, rclosed, pubVars>>
    /\ LeaveIfUnused(timer, onDemandCmd)

HandleReaderAddPost(r) ==
    LET staticReopen == HasOnDemandStaticSource /\ onDemandStaticSourceState = Closing
        pubReopen    == ~HasOnDemandStaticSource /\ HasOnDemandPublisher
                        /\ onDemandPublisherState = Closing
    IN
    /\ RequestGuard(r) /\ stream # NoStream
    /\ readers' = readers \cup {r}
    /\ rstate' = [rstate EXCEPT ![r] = "reading"]
    /\ rstream' = [rstream EXCEPT ![r] = stream]
    /\ rres' = [rres EXCEPT ![r] = "stream"]
    /\ onDemandStaticSourceState' =
           IF staticReopen THEN Ready ELSE onDemandStaticSourceState
    /\ onDemandPublisherState' = IF pubReopen THEN Ready ELSE onDemandPublisherState
    /\ UNCHANGED <<conf, source, stream, streamCount, describeHeld, readerAddHeld,
                   staticVars, rclosed, pubVars>>
    /\ LeaveIfUnused([timer EXCEPT !["staticClose"] = @ /\ ~staticReopen,
                                   !["publisherClose"] = @ /\ ~pubReopen],
                     onDemandCmd)

HandleReaderAddOnDemandStatic(r) ==
    /\ RequestGuard(r) /\ stream = NoStream
    /\ HasOnDemandStaticSource
    /\ HoldOnDemandStatic(r, readerAddHeld, "addHeld")
    /\ UNCHANGED <<conf, source, stream, streamCount, readers, describeHeld,
                   rstream, rclosed, rres, pubVars>>
    /\ LeaveIfUnused(StaticStartTimers, onDemandCmd)

HandleReaderAddOnDemandPublisher(r) ==
    /\ RequestGuard(r) /\ stream = NoStream
    /\ ~HasOnDemandStaticSource /\ HasOnDemandPublisher
    /\ HoldOnDemandPublisher(r, readerAddHeld, "addHeld")
    /\ UNCHANGED <<conf, source, stream, streamCount, readers, describeHeld,
                   rstream, rclosed, rres, pubVars>>
    /\ LeaveIfUnused(PublisherStartTimers, PublisherStartCmd)

HandleReaderAddNoOnePublishing(r) ==
    /\ RequestGuard(r) /\ stream = NoStream
    /\ ~HasOnDemandStaticSource /\ ~HasOnDemandPublisher
    /\ Reply(r, "noOnePublishing")

\* handleReaderRemove, sent by a reading connection when it ends (also when
\* the path closed it).  When the last reader leaves a Ready on-demand
\* source, its close is scheduled.  The loop does not check shouldClose.
\* mutant: the last reader leaving does not schedule the on-demand close
HandleReaderRemoveNoClose(r) ==
    /\ Serving /\ rstate[r] = "reading"
    /\ readers' = readers \ {r}
    /\ rstate' = [rstate EXCEPT ![r] = "idle"]
    /\ rclosed' = [rclosed EXCEPT ![r] = FALSE]
    /\ UNCHANGED <<conf, running, source, stream, streamCount, describeHeld,
                   readerAddHeld, onDemandStaticSourceState, onDemandPublisherState,
                   timer, onDemandCmd, staticVars, rstream, rres, pubVars>>

HandleReaderRemove(r) ==
    LET last == readers \ {r} = {}
        staticClose == last /\ HasOnDemandStaticSource
                       /\ onDemandStaticSourceState = Ready
        pubClose    == last /\ ~HasOnDemandStaticSource /\ HasOnDemandPublisher
                       /\ onDemandPublisherState = Ready
    IN
    /\ Serving /\ rstate[r] = "reading"
    /\ readers' = readers \ {r}
    /\ rstate' = [rstate EXCEPT ![r] = "idle"]
    /\ rclosed' = [rclosed EXCEPT ![r] = FALSE]
    /\ onDemandStaticSourceState' =
           IF staticClose THEN Closing ELSE onDemandStaticSourceState
    /\ onDemandPublisherState' = IF pubClose THEN Closing ELSE onDemandPublisherState
    /\ timer' = [timer EXCEPT !["staticClose"] = @ \/ staticClose,
                              !["publisherClose"] = @ \/ pubClose]
    /\ UNCHANGED <<conf, running, source, stream, streamCount, describeHeld,
                   readerAddHeld, onDemandCmd, staticVars, rstream, rres, pubVars>>

-----------------------------------------------------------------------------
(* Publisher requests: publisherAdd, publisherStart, publisherStop,         *)
(* publisherRemove.  pa.run checks shouldClose after stop and remove only.  *)

PublisherGuard(p, st) == Serving /\ pstate[p] \in st

\* handlePublisherAdd on a path whose source is not "publisher"
HandlePublisherAddNotPublisher(p) ==
    /\ PublisherGuard(p, {"idle"})
    /\ conf.source # "publisher"
    /\ pres' = [pres EXCEPT ![p] = "notPublisherPath"]
    /\ UNCHANGED <<pathVars, staticVars, readerVars, pstate, pclosed>>

\* handlePublisherAdd with a publisher present and override disabled
HandlePublisherAddRefused(p) ==
    /\ PublisherGuard(p, {"idle"})
    /\ conf.source = "publisher" /\ source # None
    /\ conf.disablePublisherOverride
    /\ pres' = [pres EXCEPT ![p] = "alreadyPublishing"]
    /\ UNCHANGED <<pathVars, staticVars, readerVars, pstate, pclosed>>

\* handlePublisherAdd: a present publisher is closed and removed
\* (doPublisherRemove), then p becomes the source.
\* mutant: the overridden publisher is closed but its stream is kept
HandlePublisherAddNoDrop(p) ==
    /\ PublisherGuard(p, {"idle"})
    /\ conf.source = "publisher"
    /\ source = None \/ ~conf.disablePublisherOverride
    /\ pclosed' = IF source # None THEN [pclosed EXCEPT ![source] = TRUE] ELSE pclosed
    /\ source' = p
    /\ pstate' = [pstate EXCEPT ![p] = "added"]
    /\ pres' = [pres EXCEPT ![p] = "ok"]
    /\ UNCHANGED <<conf, running, stream, streamCount, readers, describeHeld,
                   readerAddHeld, onDemandStaticSourceState, onDemandPublisherState,
                   timer, onDemandCmd, staticVars, readerVars>>

HandlePublisherAdd(p) ==
    /\ PublisherGuard(p, {"idle"})
    /\ conf.source = "publisher"
    /\ source = None \/ ~conf.disablePublisherOverride
    /\ IF source # None
          THEN /\ pclosed' = [pclosed EXCEPT ![source] = TRUE]
               /\ DropStreamIfReady
          ELSE UNCHANGED <<pclosed, readers, rclosed, stream>>
    /\ source' = p
    /\ pstate' = [pstate EXCEPT ![p] = "added"]
    /\ pres' = [pres EXCEPT ![p] = "ok"]
    /\ UNCHANGED <<conf, running, streamCount, describeHeld, readerAddHeld,
                   onDemandStaticSourceState, onDemandPublisherState, timer,
                   onDemandCmd, staticVars, rstate, rstream, rres>>

\* handlePublisherStart by a publisher that is no longer the source
HandlePublisherStartNotAssigned(p) ==
    /\ PublisherGuard(p, {"added"})
    /\ source # p
    /\ pres' = [pres EXCEPT ![p] = "notAssigned"]
    /\ UNCHANGED <<pathVars, staticVars, readerVars, pstate, pclosed>>

\* handlePublisherStart: sourceSetReady; on an on-demand path the ready
\* timer is stopped, the close scheduled and the held requests flushed.
\* mutant: publisherStart readies the stream without flushing the held requests
HandlePublisherStartNoFlush(p) ==
    /\ PublisherGuard(p, {"added"})
    /\ source = p
    /\ streamCount < MaxStreams
    /\ NewStream
    /\ pstate' = [pstate EXCEPT ![p] = "publishing"]
    /\ pres' = [pres EXCEPT ![p] = "ok"]
    /\ onDemandPublisherState' =
           IF HasOnDemandPublisher THEN Closing ELSE onDemandPublisherState
    /\ timer' = IF HasOnDemandPublisher
                   THEN [timer EXCEPT !["publisherReady"] = FALSE, !["publisherClose"] = TRUE]
                   ELSE timer
    /\ UNCHANGED <<conf, running, source, onDemandStaticSourceState, onDemandCmd,
                   staticVars, readers, describeHeld, readerAddHeld, readerVars, pclosed>>

HandlePublisherStart(p) ==
    /\ PublisherGuard(p, {"added"})
    /\ source = p
    /\ streamCount < MaxStreams
    /\ NewStream
    /\ pstate' = [pstate EXCEPT ![p] = "publishing"]
    /\ pres' = [pres EXCEPT ![p] = "ok"]
    /\ IF HasOnDemandPublisher
          THEN /\ FlushHeld(streamCount + 1)
               /\ onDemandPublisherState' =
                      IF readerAddHeld # {} THEN Ready ELSE Closing
               /\ timer' = [timer EXCEPT !["publisherReady"] = FALSE,
                                         !["publisherClose"] = readerAddHeld = {}]
          ELSE UNCHANGED <<readers, describeHeld, readerAddHeld, rstate, rstream,
                           rres, onDemandPublisherState, timer>>
    /\ UNCHANGED <<conf, running, source, onDemandStaticSourceState, onDemandCmd,
                   staticVars, rclosed, pclosed>>

\* handlePublisherStop: the stream is torn down if p is the source.
\* mutant: publisherStop leaves the stream of the stopped publisher up
HandlePublisherStopKeepStream(p) ==
    /\ PublisherGuard(p, {"publishing"})
    /\ pstate' = [pstate EXCEPT ![p] = "added"]
    /\ UNCHANGED <<conf, source, stream, streamCount, readers, describeHeld,
                   readerAddHeld, onDemandStaticSourceState, onDemandPublisherState,
                   staticVars, readerVars, pclosed, pres>>
    /\ LeaveIfUnused(timer, onDemandCmd)

HandlePublisherStop(p) ==
    /\ PublisherGuard(p, {"publishing"})
    /\ IF source = p /\ stream # NoStream
          THEN SourceSetNotReady
          ELSE UNCHANGED <<readers, rclosed, stream>>
    /\ pstate' = [pstate EXCEPT ![p] = "added"]
    /\ UNCHANGED <<conf, source, streamCount, describeHeld, readerAddHeld,
                   onDemandStaticSourceState, onDemandPublisherState, staticVars,
                   rstate, rstream, rres, pclosed, pres>>
    /\ LeaveIfUnused(timer, onDemandCmd)

\* handlePublisherRemove, sent by a publishing connection when it ends
HandlePublisherRemove(p) ==
    /\ PublisherGuard(p, {"added", "publishing"})
    /\ IF source = p
          THEN DoPublisherRemove
          ELSE UNCHANGED <<source, readers, rclosed, stream>>
    /\ pstate' = [pstate EXCEPT ![p] = "idle"]
    /\ pclosed' = [pclosed EXCEPT ![p] = FALSE]
    /\ UNCHANGED <<conf, streamCount, describeHeld, readerAddHeld,
                   onDemandStaticSourceState, onDemandPublisherState, staticVars,
                   rstate, rstream, rres, pres>>
    /\ LeaveIfUnused(timer, onDemandCmd)

-----------------------------------------------------------------------------
(* Termination: <-pa.ctx.Done() (pa.close() by the path manager) and the    *)
(* teardown after the loop; then the requests that find the path gone.      *)

Terminate ==
    /\ Serving
    /\ running' = FALSE
    /\ timer' = NoTimers
    /\ FailHeld("terminated")
    /\ DropStreamIfReady
    /\ pclosed' = IF source \in Publishers
                     THEN [pclosed EXCEPT ![source] = TRUE] ELSE pclosed
    /\ staticState' = IF source = StaticSrc THEN "stopped" ELSE staticState
    /\ UNCHANGED stopping
    /\ onDemandCmd' = FALSE
    /\ UNCHANGED <<conf, source, streamCount, onDemandStaticSourceState,
                   onDemandPublisherState, rstream, pstate, pres>>

\* describe / readerAdd on a terminated path: the select on pa.ctx.Done()
ReaderRequestTerminated(r) ==
    /\ ~running /\ rstate[r] = "idle"
    /\ rres' = [rres EXCEPT ![r] = "terminated"]
    /\ UNCHANGED <<pathVars, staticVars, rstate, rstream, rclosed, pubVars>>

ReaderRemoveTerminated(r) ==
    /\ ~running /\ rstate[r] = "reading"
    /\ rstate' = [rstate EXCEPT ![r] = "idle"]
    /\ rclosed' = [rclosed EXCEPT ![r] = FALSE]
    /\ UNCHANGED <<pathVars, staticVars, rstream, rres, pubVars>>

\* publisherAdd / publisherStart on a terminated path
PublisherRequestTerminated(p) ==
    /\ ~running /\ pstate[p] \in {"idle", "added"}
    /\ pres' = [pres EXCEPT ![p] = "terminated"]
    /\ UNCHANGED <<pathVars, staticVars, readerVars, pstate, pclosed>>

PublisherRemoveTerminated(p) ==
    /\ ~running /\ pstate[p] # "idle"
    /\ pstate' = [pstate EXCEPT ![p] = "idle"]
    /\ pclosed' = [pclosed EXCEPT ![p] = FALSE]
    /\ UNCHANGED <<pathVars, staticVars, readerVars, pres>>

ReaderRemove(r) == HandleReaderRemove(r) \/ ReaderRemoveTerminated(r)
PublisherRemove(p) == HandlePublisherRemove(p) \/ PublisherRemoveTerminated(p)

-----------------------------------------------------------------------------

ReaderNext(r) ==
    \/ HandleDescribeRedirect(r)
    \/ HandleDescribeStream(r)
    \/ HandleDescribeOnDemandStatic(r)
    \/ HandleDescribeOnDemandPublisher(r)
    \/ HandleDescribeFallback(r)
    \/ HandleDescribeNoOnePublishing(r)
    \/ HandleReaderAddPost(r)
    \/ HandleReaderAddOnDemandStatic(r)
    \/ HandleReaderAddOnDemandPublisher(r)
    \/ HandleReaderAddNoOnePublishing(r)
    \/ ReaderRemove(r)
    \/ ReaderRequestTerminated(r)

PublisherNext(p) ==
    \/ HandlePublisherAddNotPublisher(p)
    \/ HandlePublisherAddRefused(p)
    \/ HandlePublisherAdd(p)
    \/ HandlePublisherStartNotAssigned(p)
    \/ HandlePublisherStart(p)
    \/ HandlePublisherStop(p)
    \/ PublisherRemove(p)
    \/ PublisherRequestTerminated(p)

Next ==
    \/ OnDemandStaticSourceReadyTimer
    \/ OnDemandStaticSourceCloseTimer
    \/ OnDemandPublisherReadyTimer
    \/ OnDemandPublisherCloseTimer
    \/ SourceStaticSetReady
    \/ SourceStaticNotReadySent
    \/ SourceStaticSetNotReady
    \/ SourceStaticExit
    \/ \E r \in Readers : ReaderNext(r)
    \/ \E p \in Publishers : PublisherNext(p)
    \/ Terminate

(***************************************************************************)
(* Fairness.  An armed timer fires and pa.run, which selects over all its   *)
(* channels, eventually takes it, as it takes the static source's pending *)
(* setNotReady.  A connection the path closed has its                      *)
(* context cancelled and its deferred readerRemove / publisherRemove runs. *)
(* Clients, the static source's remote end and the path manager are not    *)
(* fair: a reader may never read, a remote may never answer.               *)
(***************************************************************************)
Fairness ==
    /\ WF_vars(OnDemandStaticSourceReadyTimer)
    /\ WF_vars(OnDemandStaticSourceCloseTimer)
    /\ WF_vars(OnDemandPublisherReadyTimer)
    /\ WF_vars(OnDemandPublisherCloseTimer)
    /\ WF_vars(SourceStaticSetNotReady)
    /\ WF_vars(SourceStaticExit)
    /\ \A r \in Readers : WF_vars(rclosed[r] /\ ReaderRemove(r))
    /\ \A p \in Publishers : WF_vars(pclosed[p] /\ PublisherRemove(p))

Spec == Init /\ [][Next]_vars /\ Fairness


-----------------------------------------------------------------------------
(* Properties                                                               *)

TypeOK ==
    /\ conf \in ConfFields
    /\ running \in BOOLEAN
    /\ source \in Publishers \cup {None, StaticSrc, Redirect}
    /\ streamCount \in 0..MaxStreams
    /\ stream \in 0..streamCount  \* a stream id is one already created
    /\ readers \subseteq Readers
    /\ describeHeld \subseteq Readers /\ readerAddHeld \subseteq Readers
    /\ onDemandStaticSourceState \in OnDemandStates
    /\ onDemandPublisherState \in OnDemandStates
    /\ timer \in [TimerNames -> BOOLEAN]
    /\ onDemandCmd \in BOOLEAN
    /\ staticState \in {"stopped", "running", "ready", "notReadySent", "exiting"}
    /\ stopping \in BOOLEAN
    /\ rstate \in [Readers -> {"idle", "describeHeld", "addHeld", "reading"}]
    /\ rstream \in [Readers -> 0..streamCount]
    /\ rclosed \in [Readers -> BOOLEAN]
    /\ rres \in [Readers -> {"none", "stream", "redirect", "fallback",
                             "noOnePublishing", "timeout", "terminated"}]
    /\ pstate \in [Publishers -> {"idle", "added", "publishing"}]
    /\ pclosed \in [Publishers -> BOOLEAN]
    /\ pres \in [Publishers -> {"none", "ok", "notPublisherPath",
                                "alreadyPublishing", "notAssigned", "terminated"}]

\* A reader connection that the path has not closed reads the path's
\* current stream and is registered in pa.readers: tearing a stream down
\* (sourceSetNotReady, on a publisher leaving, being overridden, an on-demand
\* close or termination) never leaves a reader attached to a dead stream
\* without closing it.
ReaderOnLiveStream ==
    \A r \in Readers :
        rstate[r] = "reading" /\ ~rclosed[r] =>
            /\ r \in readers
            /\ rstream[r] = stream

\* A stream exists only while its source is live: the static source is
\* connected, or pa.source is a publisher connection that has started
\* publishing and that the path has not closed.
StreamHasLiveSource ==
    stream # NoStream =>
        \/ HasStaticSource /\ staticState \in {"ready", "notReadySent"}
        \/ /\ source \in Publishers
           /\ pstate[source] = "publishing"
           /\ ~pclosed[source]

\* An armed on-demand close timer never has readers to evict: a reader that
\* joins while the source is Closing cancels the close (handleReaderAddPost),
\* and the close is only scheduled once the last reader has gone.
CloseTimerSparesReaders ==
    timer["staticClose"] \/ timer["publisherClose"] => readers = {}

\* No request waits for a source that is already ready: every path that
\* creates a stream on an on-demand path flushes the held requests.
NoHeldWhileReady ==
    describeHeld \cup readerAddHeld # {} => stream = NoStream

\* The path never swaps one stream for another in a single step: a new
\* stream (a new publisher, a reconnected source) only follows a teardown
\* that closed the readers of the old one.
StreamNotReplaced ==
    [][stream # NoStream /\ stream' # NoStream => stream' = stream]_vars

\* Every parked describe or readerAdd request is eventually answered (with
\* the stream, a timeout or termination): a client blocked in
\* pa.describe / pa.readerAdd does not wait forever.
HeldRequestAnswered ==
    \A r \in Readers :
        r \in describeHeld \cup readerAddHeld
            ~> r \notin describeHeld \cup readerAddHeld

\* A static source whose reading has ended is never left waiting for the
\* path, and the path never for it: its setNotReady is answered (or dropped
\* when the path closes or stops the source), the stream it fed is torn
\* down, and pa.run comes back out of sourceStatic.stop() to its select.
\* Stopping the source before replying would leave the path in stop()
\* waiting for a goroutine that waits for the reply.
SourceNotReadyAnswered ==
    staticState = "notReadySent"
        ~> /\ staticState \in {"running", "stopped"}
           /\ ~stopping
           /\ stream = NoStream

\* An on-demand source that nobody reads is eventually stopped: once the
\* stream has no reader, either a reader joins or the stream goes away.
OnDemandIdleStops ==
    conf.onDemand /\ stream # NoStream /\ readers = {}
        ~> stream = NoStream \/ readers # {}

=============================================================================
