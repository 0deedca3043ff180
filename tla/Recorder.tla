------------------------------ MODULE Recorder ------------------------------
(***************************************************************************)
(* The record agent (src/internal/record/agent.go) and the fMP4 format's   *)
(* reader callbacks (rec_format_fmp4.go), for one recorded track.          *)
(*                                                                         *)
(* The agent runs one agentInstance at a time; an instance ends when a     *)
(* reader callback returns an error (spec 7: the error terminates that     *)
(* reader), and the agent's run loop closes it, pauses and starts another. *)
(* Each instance owns a recFormatFMP4: the track's codec parameters, the   *)
(* gating of the first sample on a random access, and the current segment. *)
(*                                                                         *)
(* A codec parameter set (an SPS, a sequence header, a config, a frame     *)
(* size) is a small number; NoHdr is a unit that carries none.  VP9 frame  *)
(* headers are <<width, height>> pairs.  The segment and part code is not  *)
(* in the repository: it is modelled from spec 4.7 and the comment of      *)
(* updateCodecs, a segment having no file (fi = nil) until its first part  *)
(* is written, at which point the init with the track's codec is written.  *)
(***************************************************************************)
EXTENDS Naturals, FiniteSets

CONSTANTS
    Codecs,         \* the codecs of the track, one per behaviour
    Hdrs,           \* the parameter sets a stream may carry
    MaxRestarts,    \* bound: instances the agent starts after the first
    VP9Sizes,       \* the <<width, height>> of the VP9 key frames streams carry
    NoHdr           \* a unit that carries no parameters

\* the callbacks' families, by the shape of their code
InBand    == {"AV1", "H265", "H264", "MPEG4Video", "MPEG1Video"}
ParsedOnce == {"MJPEG", "MPEG1Audio", "AC3"}
Plain     == {"Opus", "MPEG4Audio", "LPCM"}

VP9Hdrs == Hdrs \X Hdrs
\* the parameters of a codec c
ParamsOf(c) == {NoHdr} \cup (IF c = "VP9" THEN VP9Hdrs ELSE Hdrs)

\* the VP9 codec's default size, 1280x720: a width other than its height
VP9Default == CHOOSE p \in VP9Hdrs : p[1] # p[2]

ASSUME /\ Codecs \subseteq InBand \cup ParsedOnce \cup Plain \cup {"VP9"}
       /\ NoHdr \notin Hdrs
       /\ MaxRestarts \in Nat
       /\ Cardinality(Hdrs) >= 2
       /\ VP9Sizes \subseteq Hdrs \X Hdrs

\* bound: two presentation times, enough for a B-frame to go backwards
PTSs == 1..2

\* a unit of the stream: the parameters it carries, whether it is a random
\* access point, its PTS and whether the callback fails to parse it
UnitsOf(c) ==
    CASE c \in {"H265", "H264"} ->
             [hdr : {NoHdr} \cup Hdrs, key : BOOLEAN, pts : {1}, bad : BOOLEAN]
      [] c = "AV1" ->
             \* a temporal unit is a random access when it has a sequence header
             {u \in [hdr : {NoHdr} \cup Hdrs, key : BOOLEAN, pts : {1}, bad : BOOLEAN] :
                  u.key <=> u.hdr # NoHdr}
      [] c = "MPEG4Video" ->
             \* a config comes in front of a GOV, in the same frame
             {u \in [hdr : {NoHdr} \cup Hdrs, key : BOOLEAN, pts : PTSs, bad : {FALSE}] :
                  u.hdr # NoHdr => u.key}
      [] c = "MPEG1Video" ->
             \* encoders repeat the sequence header in front of every GOP
             {u \in [hdr : {NoHdr} \cup Hdrs, key : BOOLEAN, pts : PTSs, bad : {FALSE}] :
                  u.key <=> u.hdr # NoHdr}
      [] c = "VP9" ->
             {[hdr |-> h, key |-> TRUE, pts |-> 1, bad |-> b] : h \in VP9Sizes, b \in BOOLEAN}
             \cup {[hdr |-> NoHdr, key |-> FALSE, pts |-> 1, bad |-> b] : b \in BOOLEAN}
      [] c \in ParsedOnce ->
             \* every frame has a header; the stream keeps one format
             [hdr : {CHOOSE h \in Hdrs : TRUE}, key : {TRUE}, pts : {1}, bad : BOOLEAN]
      [] OTHER ->
             [hdr : {NoHdr}, key : {TRUE}, pts : {1}, bad : {FALSE}]

NoSeg == [state |-> "none", init |-> NoHdr, after |-> {}]

VARIABLES
    codec,          \* the track's format
    loop,           \* where Agent.run is: "select", "pause" or "returned"
    terminate,      \* Agent.terminate is closed
    restarts,       \* instances started by run
    inst,           \* the current agentInstance: "live", "failed" or "closed"
    codecP,         \* the fmp4 codec's parameters
    firstReceived,  \* firstReceived, or dtsExtractor != nil, or parsed
    lastPTS,        \* lastPTS of the MPEG video callbacks
    seg,            \* currentSegment: none, buffering ("buffer", fi = nil) or "written",
                    \* the init it wrote and the parameters of the samples after it
    carried         \* history: the parameters the stream carried last

vars == <<codec, loop, terminate, restarts, inst, codecP, firstReceived, lastPTS, seg, carried>>

\* the codec an instance starts with: H.264, H.265 and MPEG-4 Video take the
\* format's parameters (forma.SafeParams), the others a fixed default
InitialCodec(c, fmt) ==
    CASE c \in {"H265", "H264", "MPEG4Video"} -> fmt
      [] c = "VP9"                            -> VP9Default
      [] OTHER                                -> NoHdr

\* recFormatFMP4.initialize, inside agentInstance.initialize
StartInstance ==
    /\ inst' = "live"
    /\ codecP' = InitialCodec(codec, carried)
    /\ firstReceived' = FALSE
    /\ lastPTS' = 0
    /\ seg' = NoSeg

\* Agent.Initialize: the first instance, then run
Init ==
    /\ codec \in Codecs
    /\ carried \in IF codec \in {"H265", "H264", "MPEG4Video"} THEN {NoHdr} \cup Hdrs ELSE {NoHdr}
    /\ loop = "select"
    /\ terminate = FALSE
    /\ restarts = 0
    /\ inst = "live"
    /\ codecP = InitialCodec(codec, carried)
    /\ firstReceived = FALSE
    /\ lastPTS = 0
    /\ seg = NoSeg

-----------------------------------------------------------------------------
(* Helpers of the callbacks.                                               *)

\* mutant: the test of fi inverted, closing the segment that has no file
updateCodecsInverted(s) == IF s.state = "buffer" THEN NoSeg ELSE s

\* updateCodecs: a segment that has written its init is closed, one still
\* without a file is kept and will write the new parameters
updateCodecs(s) == IF s.state = "written" THEN NoSeg ELSE s

\* the segment after a parameter change from codecP to c
AfterUpdate(c) == IF c # codecP THEN updateCodecs(seg) ELSE seg

\* the first part of a segment is written with the track's codec
WrittenInit(s, c) == [s EXCEPT !.state = "written", !.init = c]

\* track.record of a sample with parameters p into segment s, codec c: a
\* segment is opened, or rotated at a sync sample once its duration is
\* reached, then the part may reach its duration and be written
RecordSample(s, p, sync, c) ==
    \E rotate, flush \in BOOLEAN :
        LET s1 == IF s.state = "none" \/ (rotate /\ sync)
                     THEN [state |-> "buffer", init |-> NoHdr, after |-> {}] ELSE s
            s2 == IF s1.state = "written" THEN [s1 EXCEPT !.after = @ \cup {p}] ELSE s1
        IN seg' = IF flush /\ s2.state = "buffer" THEN WrittenInit(s2, c) ELSE s2

\* a callback returned an error: the reader, and so the instance, ends
Fail == inst' = "failed"

-----------------------------------------------------------------------------
(* The reader callbacks of recFormatFMP4.initialize.                       *)

\* AV1: an OBU that does not parse fails; a sequence header is both the
\* codec's parameters and a random access
OnAV1(u) ==
    IF u.bad THEN Fail /\ UNCHANGED <<codecP, firstReceived, lastPTS, seg>>
    ELSE LET ra == u.hdr # NoHdr
             c  == IF ra THEN u.hdr ELSE codecP
         IN /\ codecP' = c
            /\ UNCHANGED <<inst, lastPTS>>
            /\ IF ~firstReceived /\ ~ra
                  THEN seg' = AfterUpdate(c) /\ UNCHANGED firstReceived
                  ELSE firstReceived' = TRUE /\ RecordSample(AfterUpdate(c), carried', ra, c)

\* VP9: a header that does not parse fails; a key frame sets the codec's
\* width, height and colour fields, each compared with the stored one
VP9Update(h) == <<h[1], h[1]>>

OnVP9(u) ==
    IF u.bad THEN Fail /\ UNCHANGED <<codecP, firstReceived, lastPTS, seg>>
    ELSE LET ra == u.key
             c  == IF ra THEN VP9Update(u.hdr) ELSE codecP
         IN /\ codecP' = c
            /\ UNCHANGED <<inst, lastPTS>>
            /\ IF ~firstReceived /\ ~ra
                  THEN seg' = AfterUpdate(c) /\ UNCHANGED firstReceived
                  ELSE firstReceived' = TRUE /\ RecordSample(AfterUpdate(c), carried', ra, c)

\* H.265 and H.264: each parameter NAL unit that differs from the codec's
\* replaces it; an IDR (or CRA) is a random access; the DTS extractor is
\* created at the first random access and its Extract may fail
OnH26x(u) ==
    LET c == IF u.hdr # NoHdr THEN u.hdr ELSE codecP
    IN /\ codecP' = c
       /\ UNCHANGED lastPTS
       /\ IF ~firstReceived /\ ~u.key
             THEN seg' = AfterUpdate(c) /\ UNCHANGED <<inst, firstReceived>>
          ELSE /\ firstReceived' = TRUE
               /\ IF u.bad THEN Fail /\ seg' = AfterUpdate(c)
                  ELSE RecordSample(AfterUpdate(c), carried', u.key, c) /\ UNCHANGED inst

OnH265(u) == OnH26x(u)

OnH264(u) == OnH26x(u)

\* MPEG-4 and MPEG-1 Video: a GOV (GOP) is a random access, a config prefix
\* in front of it replaces the codec's; after the first random access a
\* PTS that goes backwards is a B-frame, which is refused
OnMPEGVideo(u) ==
    LET c == IF u.hdr # NoHdr /\ u.key THEN u.hdr ELSE codecP
    IN /\ codecP' = c
       /\ IF ~firstReceived /\ ~u.key
             THEN seg' = AfterUpdate(c) /\ UNCHANGED <<inst, firstReceived, lastPTS>>
          ELSE IF firstReceived /\ u.pts < lastPTS
             THEN Fail /\ seg' = AfterUpdate(c) /\ UNCHANGED <<firstReceived, lastPTS>>
          ELSE /\ firstReceived' = TRUE
               /\ lastPTS' = u.pts
               /\ RecordSample(AfterUpdate(c), carried', u.key, c)
               /\ UNCHANGED inst

OnMPEG4Video(u) == OnMPEGVideo(u)

OnMPEG1Video(u) == OnMPEGVideo(u)

\* MJPEG: the first frame's size is parsed once (parsed is set before the
\* parse, which may fail)
OnMJPEG(u) ==
    /\ UNCHANGED lastPTS
    /\ IF firstReceived
          THEN RecordSample(seg, carried', TRUE, codecP) /\ UNCHANGED <<inst, codecP, firstReceived>>
       ELSE /\ firstReceived' = TRUE
            /\ IF u.bad THEN Fail /\ UNCHANGED <<codecP, seg>>
               ELSE /\ codecP' = u.hdr
                    /\ RecordSample(updateCodecs(seg), carried', TRUE, u.hdr)
                    /\ UNCHANGED inst

\* MPEG-1 Audio and AC-3: every frame's header is parsed and may fail; the
\* first one sets the codec's sample rate and channels
OnParsedAudio(u) ==
    /\ UNCHANGED lastPTS
    /\ IF u.bad THEN Fail /\ UNCHANGED <<codecP, firstReceived, seg>>
       ELSE /\ firstReceived' = TRUE
            /\ codecP' = IF firstReceived THEN codecP ELSE u.hdr
            /\ RecordSample(IF firstReceived THEN seg ELSE updateCodecs(seg), carried', TRUE, codecP')
            /\ UNCHANGED inst

OnMPEG1Audio(u) == OnParsedAudio(u)

OnAC3(u) == OnParsedAudio(u)

\* Opus, MPEG-4 Audio and LPCM: every packet is a sample; the codec comes
\* from the format
OnPlainAudio(u) ==
    /\ RecordSample(seg, carried', TRUE, codecP)
    /\ UNCHANGED <<inst, codecP, firstReceived, lastPTS>>

OnOpus(u) == OnPlainAudio(u)

OnMPEG4Audio(u) == OnPlainAudio(u)

OnLPCM(u) == OnPlainAudio(u)

\* the callback of the track's codec
Callback(u) ==
    CASE codec = "AV1"        -> OnAV1(u)
      [] codec = "VP9"        -> OnVP9(u)
      [] codec = "H265"       -> OnH265(u)
      [] codec = "H264"       -> OnH264(u)
      [] codec = "MPEG4Video" -> OnMPEG4Video(u)
      [] codec = "MPEG1Video" -> OnMPEG1Video(u)
      [] codec = "MJPEG"      -> OnMJPEG(u)
      [] codec = "MPEG1Audio" -> OnMPEG1Audio(u)
      [] codec = "AC3"        -> OnAC3(u)
      [] codec = "Opus"       -> OnOpus(u)
      [] codec = "MPEG4Audio" -> OnMPEG4Audio(u)
      [] codec = "LPCM"       -> OnLPCM(u)

\* the stream delivers a unit: to the live instance's reader if there is
\* one; the format's parameters follow the stream either way
StreamUnit ==
    \E u \in UnitsOf(codec) :
        /\ carried' = IF u.hdr # NoHdr /\ (codec # "VP9" \/ u.key) THEN u.hdr ELSE carried
        /\ IF inst = "live" THEN Callback(u)
           ELSE UNCHANGED <<inst, codecP, firstReceived, lastPTS, seg>>
        /\ UNCHANGED <<codec, loop, terminate, restarts>>

-----------------------------------------------------------------------------
(* Agent.run and Agent.Close.                                              *)

\* first select: the instance is done (its reader failed); run closes it
\* and goes on to the pause
RunInstanceDone ==
    /\ loop = "select"
    /\ inst = "failed"
    /\ inst' = "closed"
    /\ seg' = NoSeg
    /\ loop' = "pause"
    /\ UNCHANGED <<codec, terminate, restarts, codecP, firstReceived, lastPTS, carried>>

\* mutant: the terminate case returns without closing the instance
RunTerminateNoClose ==
    /\ loop = "select"
    /\ terminate
    /\ loop' = "returned"
    /\ UNCHANGED <<codec, terminate, restarts, inst, codecP, firstReceived, lastPTS, seg, carried>>

\* mutant: the first select waits on the instance alone, seeing terminate
\* only once the instance is done
RunTerminateAfterDone ==
    /\ loop = "select"
    /\ terminate
    /\ inst = "failed"
    /\ inst' = "closed"
    /\ seg' = NoSeg
    /\ loop' = "returned"
    /\ UNCHANGED <<codec, terminate, restarts, codecP, firstReceived, lastPTS, carried>>

\* first select: terminate is closed; run closes the instance (and its
\* current segment, recFormatFMP4.close) and returns, closing done
RunTerminate ==
    /\ loop = "select"
    /\ terminate
    /\ inst' = "closed"
    /\ seg' = NoSeg
    /\ loop' = "returned"
    /\ UNCHANGED <<codec, terminate, restarts, codecP, firstReceived, lastPTS, carried>>

\* second select: restartPause elapses; a new instance starts and run
\* goes back to the first select.  Both cases of a select may be ready at
\* once, so the timer may win even after terminate is closed.
RunRestart ==
    /\ loop = "pause"
    /\ restarts < MaxRestarts
    /\ restarts' = restarts + 1
    /\ StartInstance
    /\ loop' = "select"
    /\ UNCHANGED <<codec, terminate, carried>>

\* second select: terminate is closed; run returns
RunPauseTerminate ==
    /\ loop = "pause"
    /\ terminate
    /\ loop' = "returned"
    /\ UNCHANGED <<codec, terminate, restarts, inst, codecP, firstReceived, lastPTS, seg, carried>>

\* Agent.Close: closes terminate, then waits on done (loop = "returned")
Close ==
    /\ ~terminate
    /\ terminate' = TRUE
    /\ UNCHANGED <<codec, loop, restarts, inst, codecP, firstReceived, lastPTS, seg, carried>>

RunLoop == RunInstanceDone \/ RunTerminate \/ RunRestart \/ RunPauseTerminate

Next == StreamUnit \/ RunLoop \/ Close

\* The run goroutine is always scheduled again; the stream and the caller
\* of Close are not obliged to act.
Spec == Init /\ [][Next]_vars /\ WF_vars(RunLoop)

-----------------------------------------------------------------------------
TypeOK ==
    /\ codec \in Codecs
    /\ loop \in {"select", "pause", "returned"}
    /\ terminate \in BOOLEAN
    /\ restarts \in 0..MaxRestarts
    /\ inst \in {"live", "failed", "closed"}
    /\ codecP \in ParamsOf(codec)
    /\ firstReceived \in BOOLEAN
    /\ lastPTS \in {0} \cup PTSs
    /\ seg \in [state : {"none", "buffer", "written"}, init : ParamsOf(codec),
                  after : SUBSET ParamsOf(codec)]
    /\ carried \in ParamsOf(codec)

\* Spec 4.7: on a codec-parameter change the current segment closes.  Every
\* sample recorded into a segment after it wrote its init carries the
\* parameters of that init: updateCodecs closes a written segment whenever
\* a callback changes the codec, and a callback's change follows the stream.
SamplesSinceInitMatch ==
    seg.state = "written" => seg.after \subseteq {seg.init}

\* When Agent.run has returned (and Close, waiting on done, returns) the
\* last instance has been closed with its segment, whichever select case
\* saw terminate and whether the instance had failed before.
ClosedOnReturn ==
    loop = "returned" => inst = "closed" /\ seg = NoSeg

\* Close returns: once terminate is closed, run eventually returns, even
\* when its pause timer and terminate race.
CloseReturns ==
    terminate ~> loop = "returned"

=============================================================================
