-------------------------------- MODULE Conn --------------------------------
(***************************************************************************)
(* One RTMP or SRT connection (rtmp_conn.go, srtConn in core.go), from the *)
(* run goroutine that newRTMPConn / newSRTConn start to parent.closeConn.  *)
(*                                                                         *)
(* RTMP: run waits in runInner for either the runReader goroutine or the   *)
(* context; runReader does the handshake, then runRead or runPublish, and  *)
(* their defers release what the path manager and the stream gave it.      *)
(* SRT: run itself takes the listener's request (chNew), answers it on     *)
(* req.res (exchangeRequestWithConn, or nil from runInner), waits for the  *)
(* socket (chSetConn), and a publisher runs runPublishReader in a goroutine *)
(* of its own.  The listener's side is srtConn.new and srtConn.setConn.    *)
(*                                                                         *)
(* The path is abstract: its answers to addReader, addPublisher and        *)
(* startPublisher are free choices, and it may drop the connection at any  *)
(* time (path.sourceSetNotReady closing its readers, handlePublisherAdd    *)
(* closing an overridden publisher).  Data is left out: a unit is not a    *)
(* value here, only whether the writer or the reader fails.               *)
(***************************************************************************)
CONSTANT Protos     \* a subset of {"RTMP", "SRT"}

ASSUME Protos \subseteq {"RTMP", "SRT"}

VARIABLES
    proto,        \* the protocol of this connection
    ctxDone,      \* c.ctx is cancelled (c.close(), or run's own ctxCancel)
    nconnClosed,  \* c.nconn (RTMP) or sconn (SRT) is closed
    main,         \* where the run goroutine is
    rd,           \* where the reader goroutine is (RTMP runReader, SRT runPublishReader)
    lst,          \* SRT: where the listener is in srtConn.new / setConn
    reg,          \* what the path holds of the connection: "none", "reader", "publisher"
    subscribed,   \* the stream holds the connection's AddReader callbacks
    publishing    \* the path's stream comes from this connection's startPublisher

vars == <<proto, ctxDone, nconnClosed, main, rd, lst, reg, subscribed, publishing>>

\* the answers of pathManager.addReader / addPublisher
AddResults == {"ok", "authErr", "err"}

Init ==
    /\ proto \in Protos
    /\ ctxDone = FALSE
    /\ nconnClosed = FALSE
    /\ main = IF proto = "RTMP" THEN "select" ELSE "waitNew"
    /\ rd = IF proto = "RTMP" THEN "handshake" ELSE "idle"
    /\ lst = IF proto = "SRT" THEN "offer" ELSE "none"
    /\ reg = "none"
    /\ subscribed = FALSE
    /\ publishing = FALSE

-----------------------------------------------------------------------------
(* Steps every connection shares.                                          *)

\* c.close(): the server shutting down, or the path kicking the connection
Close ==
    /\ ~ctxDone
    /\ ctxDone' = TRUE
    /\ UNCHANGED <<proto, nconnClosed, main, rd, lst, reg, subscribed, publishing>>

\* the path drops a reader (sourceSetNotReady: doReaderRemove, r.close(),
\* stream.close()) or an overridden publisher (handlePublisherAdd:
\* close(), doPublisherRemove)
PathDrop ==
    /\ reg # "none"
    /\ reg' = "none"
    /\ ctxDone' = TRUE
    /\ subscribed' = FALSE
    /\ publishing' = FALSE
    /\ UNCHANGED <<proto, nconnClosed, main, rd, lst>>

\* the tail of run: ctxCancel, then parent.closeConn
Exit ==
    /\ main = "exit"
    /\ main' = "closed"
    /\ ctxDone' = TRUE
    /\ UNCHANGED <<proto, nconnClosed, rd, lst, reg, subscribed, publishing>>

\* the role addReader / addPublisher gives
Role(at) == IF at = "addReader" THEN "reader" ELSE "publisher"

\* addReader / addPublisher at pc; an error ends the session with nothing
\* to undo
AddClient(pc, okPc, authPc, errPc) ==
    /\ pc \in {"addReader", "addPublisher"}
    /\ \E res \in AddResults :
         /\ reg' = IF res = "ok" THEN Role(pc) ELSE reg
         /\ pc' = CASE res = "ok"      -> okPc
                    [] res = "authErr" -> authPc
                    [] OTHER           -> errPc

\* rtmp.NewReader / mpegts.NewReader and the track switch: fails on a closed
\* socket, on a bad header or on a codec the protocol does not carry
NewReader ==
    /\ rd = "newReader"
    /\ rd' \in IF nconnClosed THEN {"return"} ELSE {"return", "startPublisher"}
    /\ UNCHANGED <<proto, ctxDone, nconnClosed, main, lst, reg, subscribed, publishing>>

\* path.startPublisher: refused once the path has handed the source to
\* someone else (handlePublisherStart), or when sourceSetReady fails
StartPublisher ==
    /\ rd = "startPublisher"
    /\ \E ok \in BOOLEAN :
         /\ ok => reg = "publisher"
         /\ publishing' = ok
         /\ rd' = IF ok THEN "reading" ELSE "return"
    /\ UNCHANGED <<proto, ctxDone, nconnClosed, main, lst, reg, subscribed>>

\* r.Read() returns an error: the publisher went away, or bad data
ReadError ==
    /\ rd = "reading"
    /\ rd' = "return"
    /\ UNCHANGED <<proto, ctxDone, nconnClosed, main, lst, reg, subscribed, publishing>>

\* r.Read() on a socket that run has closed
ReadClosed ==
    /\ rd = "reading" /\ nconnClosed
    /\ rd' = "return"
    /\ UNCHANGED <<proto, ctxDone, nconnClosed, main, lst, reg, subscribed, publishing>>

\* runRead's final select: RTMP runs it in runReader, SRT in run
Writing == main = "writing" \/ rd = "writing"

\* runRead returns: the RTMP reader goroutine to its defers, SRT run to its
WriterReturns ==
    \/ proto = "RTMP" /\ rd' = "return" /\ UNCHANGED main
    \/ proto = "SRT" /\ main' = "release" /\ UNCHANGED rd

\* writer.error() fires in runRead's final select
WriteError ==
    /\ Writing
    /\ WriterReturns
    /\ UNCHANGED <<proto, ctxDone, nconnClosed, lst, reg, subscribed, publishing>>

\* ctx.Done in runRead's final select: writer.stop(), "terminated"
WriteTerminated ==
    /\ Writing /\ ctxDone
    /\ WriterReturns
    /\ UNCHANGED <<proto, ctxDone, nconnClosed, lst, reg, subscribed, publishing>>

\* the select on readerErr and ctx.Done that RTMP runInner and SRT
\* runPublish make around their reader goroutine: the reader's error closes
\* the socket and goes on; ctx.Done closes the socket, then waits for the
\* reader's error
JoinReader(at, drainAt, next) ==
    \/ /\ main = at /\ rd = "send"
       /\ rd' = "done" /\ nconnClosed' = TRUE /\ main' = next
    \/ /\ main = at /\ ctxDone
       /\ nconnClosed' = TRUE /\ main' = drainAt /\ UNCHANGED rd
    \/ /\ main = drainAt /\ rd = "send"
       /\ rd' = "done" /\ main' = next /\ UNCHANGED nconnClosed

-----------------------------------------------------------------------------
(* RTMP: runReader and the run goroutine's runInner.                      *)

\* rtmp.NewServerConn: fails on a closed socket or a bad handshake, else
\* the client asked to play (runRead) or to publish (runPublish)
RTMPHandshake ==
    /\ rd = "handshake"
    /\ rd' \in IF nconnClosed THEN {"send"} ELSE {"send", "addReader", "addPublisher"}
    /\ UNCHANGED <<proto, ctxDone, nconnClosed, main, lst, reg, subscribed, publishing>>

RTMPAdd ==
    /\ AddClient(rd, IF rd = "addReader" THEN "setupRead" ELSE "newReader", "authPause", "send")
    /\ UNCHANGED <<proto, ctxDone, nconnClosed, main, lst, subscribed, publishing>>

\* <-time.After(rtmpPauseAfterAuthError): not cut short by ctx
RTMPAuthPause ==
    /\ rd = "authPause"
    /\ rd' = "send"
    /\ UNCHANGED <<proto, ctxDone, nconnClosed, main, lst, reg, subscribed, publishing>>

\* setupVideo / setupAudio call stream.AddReader for the supported tracks
\* (on a stream the path has closed meanwhile, the callbacks go nowhere);
\* no supported track, or rtmp.NewWriter failing, returns at once
RTMPSetupRead ==
    /\ rd = "setupRead"
    /\ \E tracks \in BOOLEAN :
         /\ subscribed' = (tracks /\ reg = "reader")
         /\ rd' \in IF tracks /\ ~nconnClosed THEN {"return", "writing"} ELSE {"return"}
    /\ UNCHANGED <<proto, ctxDone, nconnClosed, main, lst, reg, publishing>>

\* runRead's and runPublish's defers: stream.RemoveReader, then
\* path.removeReader / path.removePublisher; then readerErr <- err
RTMPReturn ==
    /\ rd = "return"
    /\ rd' = "send"
    /\ reg' = "none" /\ subscribed' = FALSE /\ publishing' = FALSE
    /\ UNCHANGED <<proto, ctxDone, nconnClosed, main, lst>>

\* mutant: runInner returns on ctx.Done without waiting for readerErr
RTMPRunInnerNoDrain ==
    /\ \/ JoinReader("select", "drain", "exit")
       \/ main = "select" /\ ctxDone /\ nconnClosed' = TRUE /\ main' = "exit" /\ UNCHANGED rd
    /\ UNCHANGED <<proto, ctxDone, lst, reg, subscribed, publishing>>

RTMPRunInner ==
    /\ JoinReader("select", "drain", "exit")
    /\ UNCHANGED <<proto, ctxDone, lst, reg, subscribed, publishing>>

RTMPStep ==
    /\ proto = "RTMP"
    /\ \/ RTMPHandshake \/ RTMPAdd \/ RTMPAuthPause \/ RTMPSetupRead
       \/ RTMPReturn \/ RTMPRunInner

-----------------------------------------------------------------------------
(* SRT: the run goroutine, its publish reader, and the listener.          *)

\* runInner takes the request the listener offers in new (c.chNew <- req)
SRTNew ==
    /\ main = "waitNew" /\ lst = "offer"
    /\ main' = "dispatch" /\ lst' = "waitRes"
    /\ UNCHANGED <<proto, ctxDone, nconnClosed, rd, reg, subscribed, publishing>>

\* runInner's ctx.Done: "terminated" before any request, nothing to answer
SRTNewTerminated ==
    /\ main = "waitNew" /\ ctxDone
    /\ main' = "exit"
    /\ UNCHANGED <<proto, ctxDone, nconnClosed, rd, lst, reg, subscribed, publishing>>

\* the listener's selects in new and setConn give up on ctx.Done; its
\* <-req.res in new does not
SRTListenerGone ==
    /\ lst \in {"offer", "setConn"} /\ ctxDone
    /\ lst' = "gone"
    /\ UNCHANGED <<proto, ctxDone, nconnClosed, main, rd, reg, subscribed, publishing>>

\* runInner2: a streamid that is neither read:... nor publish:... is an
\* error before any answer
SRTDispatch ==
    /\ main = "dispatch"
    /\ main' \in {"answerNil", "addReader", "addPublisher"}
    /\ UNCHANGED <<proto, ctxDone, nconnClosed, rd, lst, reg, subscribed, publishing>>

\* runPublish / runRead: addPublisher / addReader; an error, the
\* authentication one included (its pause is commented out), returns
\* answerSent = false
SRTAdd ==
    /\ AddClient(main, IF main = "addReader" THEN "exchangeRead" ELSE "exchangePublish",
                 "answerNil", "answerNil")
    /\ UNCHANGED <<proto, ctxDone, nconnClosed, rd, lst, subscribed, publishing>>

\* exchangeRequestWithConn: req.res <- c, then wait for the socket on
\* chSetConn or for ctx.Done
SRTExchange ==
    /\ main \in {"exchangeRead", "exchangePublish"} /\ lst = "waitRes"
    /\ lst' = "setConn"
    /\ main' = IF main = "exchangeRead" THEN "waitConnRead" ELSE "waitConnPublish"
    /\ UNCHANGED <<proto, ctxDone, nconnClosed, rd, reg, subscribed, publishing>>

\* setConn hands over the socket (c.chSetConn <- sconn)
SRTSetConn ==
    /\ main \in {"waitConnRead", "waitConnPublish"} /\ lst = "setConn"
    /\ lst' = "done"
    /\ main' = IF main = "waitConnRead" THEN "setupRead" ELSE "publish"
    /\ UNCHANGED <<proto, ctxDone, nconnClosed, rd, reg, subscribed, publishing>>

\* exchangeRequestWithConn's ctx.Done: returns answerSent = true
SRTWaitConnTerminated ==
    /\ main \in {"waitConnRead", "waitConnPublish"} /\ ctxDone
    /\ main' = "release"
    /\ UNCHANGED <<proto, ctxDone, nconnClosed, rd, lst, reg, subscribed, publishing>>

\* runRead: stream.AddReader for each H.265, H.264, MPEG-4 Audio, Opus or
\* MPEG-1 Audio track; none is an error
SRTSetupRead ==
    /\ main = "setupRead"
    /\ \E tracks \in BOOLEAN :
         /\ subscribed' = (tracks /\ reg = "reader")
         /\ main' = IF tracks THEN "writing" ELSE "release"
    /\ UNCHANGED <<proto, ctxDone, nconnClosed, rd, lst, reg, publishing>>

\* runPublish starts the runPublishReader goroutine
SRTPublish ==
    /\ main = "publish"
    /\ main' = "pubSelect" /\ rd' = "newReader"
    /\ UNCHANGED <<proto, ctxDone, nconnClosed, lst, reg, subscribed, publishing>>

\* runPublishReader returns: readerErr <- err, no defers of its own
SRTReaderReturn ==
    /\ rd = "return"
    /\ rd' = "send"
    /\ UNCHANGED <<proto, ctxDone, nconnClosed, main, lst, reg, subscribed, publishing>>

SRTRunPublish ==
    /\ JoinReader("pubSelect", "pubDrain", "release")
    /\ UNCHANGED <<proto, ctxDone, lst, reg, subscribed, publishing>>

\* runRead's and runPublish's defers on an answered request: sconn.Close,
\* then path.removeReader / path.removePublisher.  runRead has no
\* stream.RemoveReader.
\* mutant: runPublish / runRead report answerSent = false after answering
SRTReleaseUnanswered ==
    /\ main = "release"
    /\ main' = "answerNil"
    /\ nconnClosed' = TRUE
    /\ reg' = "none" /\ publishing' = FALSE
    /\ UNCHANGED <<proto, ctxDone, rd, lst, subscribed>>

SRTRelease ==
    /\ main = "release"
    /\ main' = "exit"
    /\ nconnClosed' = TRUE
    /\ reg' = "none" /\ publishing' = FALSE
    /\ UNCHANGED <<proto, ctxDone, rd, lst, subscribed>>

\* runInner: answerSent is false, so req.res <- nil
SRTAnswerNil ==
    /\ main = "answerNil" /\ lst = "waitRes"
    /\ main' = "exit" /\ lst' = "rejected"
    /\ UNCHANGED <<proto, ctxDone, nconnClosed, rd, reg, subscribed, publishing>>

SRTStep ==
    /\ proto = "SRT"
    /\ \/ SRTNew \/ SRTNewTerminated \/ SRTListenerGone \/ SRTDispatch \/ SRTAdd
       \/ SRTExchange \/ SRTSetConn \/ SRTWaitConnTerminated \/ SRTSetupRead
       \/ SRTPublish \/ SRTReaderReturn \/ SRTRunPublish \/ SRTRelease
       \/ SRTAnswerNil

-----------------------------------------------------------------------------
\* the peer, the path and the server: no step of theirs is owed
Environment == Close \/ PathDrop \/ ReadError \/ WriteError

\* the steps both protocols take
SharedStep == NewReader \/ StartPublisher \/ ReadClosed \/ WriteTerminated \/ Exit

ConnStep == RTMPStep \/ SRTStep \/ SharedStep

Next == ConnStep \/ Environment

\* the connection's goroutines and the SRT listener are always scheduled
\* again: none of their steps waits on anything but the others, the path
\* manager (which answers, PathManager.tla) and finite timers
Spec == Init /\ [][Next]_vars /\ WF_vars(ConnStep)

-----------------------------------------------------------------------------
TypeOK ==
    /\ proto \in Protos
    /\ ctxDone \in BOOLEAN /\ nconnClosed \in BOOLEAN
    /\ main \in {"select", "drain", "waitNew", "dispatch", "addReader", "addPublisher",
                 "exchangeRead", "exchangePublish", "waitConnRead", "waitConnPublish",
                 "setupRead", "writing", "publish", "pubSelect", "pubDrain",
                 "release", "answerNil", "exit", "closed"}
    /\ rd \in {"idle", "handshake", "addReader", "addPublisher", "authPause", "setupRead",
               "writing", "newReader", "startPublisher", "reading", "return", "send", "done"}
    /\ lst \in {"none", "offer", "waitRes", "setConn", "done", "rejected", "gone"}
    /\ reg \in {"none", "reader", "publisher"}
    /\ subscribed \in BOOLEAN /\ publishing \in BOOLEAN

\* When run has called closeConn, the reader goroutine has ended and the
\* path holds nothing of the connection: runInner waits for readerErr
\* after ctx.Done, and the defers of runRead / runPublish (removeReader,
\* removePublisher, stream.RemoveReader for RTMP) ran before it.
ReleasedOnClose ==
    main = "closed" =>
        /\ rd \in {"idle", "done"}
        /\ reg = "none" /\ ~publishing
        /\ proto = "RTMP" => ~subscribed

\* When run has called closeConn, the stream holds none of the
\* connection's callbacks: a reader that ends undoes its stream.AddReader
\* (spec 4.2, RemoveReader; RTMP's runRead defers it), or the path closed
\* the stream.
StreamReleasedOnClose ==
    main = "closed" => ~subscribed

\* Once the connection is cancelled, run reaches closeConn, and an SRT
\* listener waiting in new on req.res gets its one answer: the reader
\* goroutine's blocking reads end when run closes the socket, and runInner
\* answers nil exactly when exchangeRequestWithConn did not.
WindsDown ==
    /\ ctxDone ~> main = "closed"
    /\ lst = "waitRes" ~> lst # "waitRes"

=============================================================================
