--------------------------- MODULE MC_StreamClients ---------------------------
(***************************************************************************)
(* A path's stream, side by side in one run: the format processors that   *)
(* units pass through on their way in (MC_FormatProcessors.tla) and the    *)
(* long-lived clients that read it: a record agent (Recorder.tla), an RTMP *)
(* or SRT connection (Conn.tla) and the stream callbacks of an RTMP reader *)
(* (RTMPReader.tla).  Each keeps its own variables and its own goroutines; *)
(* they share no state, so a behaviour fixes the part in its first state,  *)
(* the others sit in one initial state, and a step is a step of that part.*)
(***************************************************************************)
CONSTANTS
    Clients,                                    \* a subset of {"recorder", "conn",
                                                \* "rtmpReader", "processors"}
    Codecs, Hdrs, MaxRestarts, NoHdr, VP9Sizes, \* of Recorder
    Protos                                      \* of Conn

VARIABLES
    client,
    codec, loop, terminate, restarts, inst, codecP, firstReceived, lastPTS, seg, carried,
    proto, ctxDone, nconnClosed, main, rd, lst, reg, subscribed, publishing,
    audioFormat, extractor, failed, written, audioWritten, fed,
    trackCodec,
    g264, params264, encoder264, decoder264, out264, seen264,
    g265, params265, encoder265, decoder265, out265, seen265,
    gMP4, configMP4, decoderMP4, fragsMP4, outMP4, carriedMP4,
    gPT, decoderPT, fragsPT, outPT, routedPT

recVars == <<codec, loop, terminate, restarts, inst, codecP, firstReceived, lastPTS, seg, carried>>
connVars == <<proto, ctxDone, nconnClosed, main, rd, lst, reg, subscribed, publishing>>
readerVars == <<audioFormat, extractor, failed, written, audioWritten, fed>>
FP == INSTANCE MC_FormatProcessors WITH codec <- trackCodec
procVars == <<trackCodec, g264, params264, encoder264, decoder264, out264, seen264,
             g265, params265, encoder265, decoder265, out265, seen265,
             gMP4, configMP4, decoderMP4, fragsMP4, outMP4, carriedMP4,
             gPT, decoderPT, fragsPT, outPT, routedPT>>
vars == <<client, recVars, connVars, readerVars, procVars>>

R == INSTANCE Recorder
C == INSTANCE Conn

\* bound: three video units, enough for a picture before the first IDR,
\* the IDR and a picture after it
RR == INSTANCE RTMPReader WITH MaxUnits <- 3

\* the codecs the recorder writes to fMP4 (VP8, G722 and G711 are left
\* out by the code)
MCCodecs == {"AV1", "VP9", "H265", "H264", "MPEG4Video", "MPEG1Video", "MJPEG",
             "Opus", "MPEG4Audio", "MPEG1Audio", "AC3", "LPCM"}

\* VP9 streams whose frames are as wide as they are high, the ones the
\* VP9 callback records correctly
SquareSizes == {<<h, h>> : h \in {1, 2}}

\* VP9 streams of any size
AllSizes == {1, 2} \X {1, 2}

\* the parts that are not in the run sit in one initial state
Init ==
    /\ client \in Clients
    /\ R!Init
    /\ C!Init
    /\ RR!Init
    /\ FP!Init
    /\ client # "recorder" => codec = CHOOSE c \in Codecs : TRUE
    /\ client # "conn" => proto = CHOOSE p \in Protos : TRUE
    /\ client # "rtmpReader" => audioFormat = "none"
    /\ client # "processors" => trackCodec = "VP9" /\ ~gPT

RecStep(A) == client = "recorder" /\ A /\ UNCHANGED <<client, connVars, readerVars, procVars>>
ConnStep(A) == client = "conn" /\ A /\ UNCHANGED <<client, recVars, readerVars, procVars>>
ReaderStep(A) == client = "rtmpReader" /\ A /\ UNCHANGED <<client, recVars, connVars, procVars>>
ProcStep(A) == client = "processors" /\ A /\ UNCHANGED <<client, recVars, connVars, readerVars>>

Next == RecStep(R!Next) \/ ConnStep(C!Next) \/ ReaderStep(RR!Next) \/ ProcStep(FP!Next)

\* each client's own fairness (Recorder's run goroutine, Conn's goroutines
\* and listener)
Spec == Init /\ [][Next]_vars
             /\ WF_vars(RecStep(R!RunLoop))
             /\ WF_vars(ConnStep(C!ConnStep))

-----------------------------------------------------------------------------
TypeOK == client \in Clients /\ R!TypeOK /\ C!TypeOK /\ RR!TypeOK /\ FP!TypeOK

\* Recorder: a written segment holds only samples of the codec parameters
\* its init part was written with: updateCodecs closes it when they change.
SamplesSinceInitMatch == R!SamplesSinceInitMatch

\* Recorder: when Agent.run returns, the instance is closed and no segment
\* is open.
ClosedOnReturn == R!ClosedOnReturn

\* Recorder: after Close closes terminate, Agent.run returns.
CloseReturns == R!CloseReturns

\* Connection: when run calls closeConn, its reader goroutine has ended and
\* neither the path nor (for RTMP) the stream holds the connection.
ConnReleasedOnClose == C!ReleasedOnClose

\* Connection, either protocol: after closeConn the stream holds none of
\* the connection's callbacks.
ConnStreamReleasedOnClose == C!StreamReleasedOnClose

\* RTMP reader: from the first IDR on, every H.264 access unit with a
\* picture is written in stream order, and nothing before it.
ReaderWritesFromFirstIDR == RR!WritesFromFirstIDR

\* Connection: a cancelled connection reaches closeConn, and an SRT
\* listener waiting on req.res gets its answer.
ConnWindsDown == C!WindsDown


\* H.264: the two-pass remuxAccessUnit of formatProcessorH264 yields the
\* AU of spec 4.1: no SPS, PPS or AUD, and SPS then PPS in front of an IDR
\* when both are stored.
H264RemuxMatchesReference == FP!H264RemuxMatchesReference

\* H.264: once an RTP source's packet was too large and the encoder exists,
\* every unit leaves re-encoded, and a decoder runs (spec 4.1).
H264ReencodeOnceStarted == FP!H264ReencodeOnceStarted

\* H.264: once the stream has carried an SPS and a PPS, every remuxed
\* key-frame AU starts with the SPS and the PPS the stream carried last,
\* however packets and AUs are mixed (spec 8 (2)).
H264KeyFrameCarriesParams == FP!H264KeyFrameCarriesParams

\* H.265: the two-pass remuxAccessUnit of formatProcessorH265 yields the
\* canonical AU: no parameter set or AUD, and the stored VPS, SPS, PPS in
\* front of a key frame exactly when all three are stored.
H265RemuxMatchesReference == FP!H265RemuxMatchesReference

\* H.265: once a packet has been too large and the encoder exists, no unit
\* leaves as the publisher's own RTP packets.
H265ReencodeOnceStarted == FP!H265ReencodeOnceStarted

\* H.265: updateTrackParametersFromRTPPacket and updateTrackParametersFromAU
\* never clear a stored VPS, SPS or PPS.
H265ParamsMonotone == FP!H265ParamsMonotone

\* MPEG-4 Video: every frame sent on that contains a GOV starts with the
\* config the stream carried last, whether that config came in the same
\* frame or in an earlier one (spec 4.1).
MPEG4ConfigBeforeGOV == FP!MPEG4ConfigBeforeGOV

\* VP9, MPEG-1 Video, MPEG-1 Audio: a frame decoded for non-RTSP readers
\* is made of exactly the packets routed as is to RTSP readers since the
\* frame began, however non-RTSP readers come and go and packets are
\* refused (the decoder, once made, is fed every packet).
PassthroughFrameMatchesRouted == FP!PassthroughFrameMatchesRouted

=============================================================================
