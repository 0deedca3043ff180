------------------------- MODULE MC_FormatProcessors -------------------------
(***************************************************************************)
(* The format processors of one stream, composed for one run.  A    *)
(* path's stream holds one processor per track (stream.go); the track's    *)
(* codec picks which one (formatprocessor.New).  Each processor keeps its  *)
(* own variables, renamed here, and a step of the stream is a step of the  *)
(* processor of its codec, the others unchanged.  Since the processors do  *)
(* not share state, a behaviour fixes the codec in its first state and the *)
(* run explores the processors side by side rather than their product.   *)
(* VP9, MPEG-1 Video and MPEG-1 Audio run the same code on their own      *)
(* types, so their three instances share one set of variables.            *)
(***************************************************************************)
EXTENDS Naturals

Codecs == {"H264", "H265", "MPEG4Video", "VP9", "MPEG1Video", "MPEG1Audio"}
PassthroughCodecs == {"VP9", "MPEG1Video", "MPEG1Audio"}

VARIABLES
    codec,                                                  \* the track's codec
    g264, params264, encoder264, decoder264, out264, seen264,
    g265, params265, encoder265, decoder265, out265, seen265,
    gMP4, configMP4, decoderMP4, fragsMP4, outMP4, carriedMP4,
    gPT, decoderPT, fragsPT, outPT, routedPT

vars264 == <<g264, params264, encoder264, decoder264, out264, seen264>>
vars265 == <<g265, params265, encoder265, decoder265, out265, seen265>>
varsMP4 == <<gMP4, configMP4, decoderMP4, fragsMP4, outMP4, carriedMP4>>
varsPT == <<gPT, decoderPT, fragsPT, outPT, routedPT>>
vars == <<codec, vars264, vars265, varsMP4, varsPT>>

S264 == INSTANCE H264Streams
S265 == INSTANCE H265Streams
SMP4 == INSTANCE MPEG4Streams

H264 == INSTANCE H264Processor
          WITH Nalus <- S264!MCNalus, Units <- S264!AllUnits,
               GenerateRTPPacketsValues <- BOOLEAN,
               generateRTPPackets <- g264, params <- params264, encoder <- encoder264,
               decoder <- decoder264, out <- out264, seen <- seen264

H265 == INSTANCE H265Processor
          WITH Nalus <- S265!MCNalus, Units <- S265!AllUnits,
               GenerateRTPPacketsValues <- BOOLEAN,
               generateRTPPackets <- g265, params <- params265, encoder <- encoder265,
               decoder <- decoder265, out <- out265, seen <- seen265

\* bound: frames of at most four chunks, a whole frame per packet
MPEG4 == INSTANCE MPEG4VideoProcessor
          WITH Chunks <- SMP4!MCChunks, Units <- SMP4!WholeFrameUnits,
               InitialConfig <- SMP4!SDPConfig, GenerateRTPPacketsValues <- BOOLEAN,
               MaxFrame <- 4,
               generateRTPPackets <- gMP4, config <- configMP4, decoder <- decoderMP4,
               frags <- fragsMP4, out <- outMP4, carried <- carriedMP4

\* the pieces passthrough frames are made of; a packet is a piece with its
\* start and marker flags, its size and the caller's hasNonRTSPReaders
PTParts == {"a", "b"}
PTUnits ==
    [kind : {"frame"}, frame : {<<"a">>}] \cup
    [kind : {"rtp"}, start : BOOLEAN, marker : BOOLEAN, part : PTParts,
     oversize : BOOLEAN, hasNonRTSPReaders : BOOLEAN]

\* bound: frames of at most two pieces, so a third is a decoder error
VP9 == INSTANCE PassthroughProcessor
          WITH Parts <- PTParts, Units <- PTUnits, GenerateRTPPacketsValues <- BOOLEAN,
               MaxFrame <- 2, generateRTPPackets <- gPT, decoder <- decoderPT,
               frags <- fragsPT, out <- outPT, routed <- routedPT
MPEG1Video == INSTANCE PassthroughProcessor
          WITH Parts <- PTParts, Units <- PTUnits, GenerateRTPPacketsValues <- BOOLEAN,
               MaxFrame <- 2, generateRTPPackets <- gPT, decoder <- decoderPT,
               frags <- fragsPT, out <- outPT, routed <- routedPT
MPEG1Audio == INSTANCE PassthroughProcessor
          WITH Parts <- PTParts, Units <- PTUnits, GenerateRTPPacketsValues <- BOOLEAN,
               MaxFrame <- 2, generateRTPPackets <- gPT, decoder <- decoderPT,
               frags <- fragsPT, out <- outPT, routed <- routedPT

\* newMPEG1Video, ProcessUnit and ProcessRTPPacket of formatProcessorMPEG1Video
MPEG1VideoInit == MPEG1Video!Init
MPEG1VideoProcessUnit(u) == MPEG1Video!ProcessUnit(u)
MPEG1VideoProcessRTPPacket(u) == MPEG1Video!ProcessRTPPacket(u)

\* newMPEG1Audio, ProcessUnit and ProcessRTPPacket of formatProcessorMPEG1Audio
MPEG1AudioInit == MPEG1Audio!Init
MPEG1AudioProcessUnit(u) == MPEG1Audio!ProcessUnit(u)
MPEG1AudioProcessRTPPacket(u) == MPEG1Audio!ProcessRTPPacket(u)

Init ==
    /\ codec \in Codecs
    /\ H264!Init
    /\ H265!Init
    /\ MPEG4!Init
    \* the processors of the other codecs are never created: one value of
    \* their inputs is enough
    /\ codec # "H264" => ~g264
    /\ codec # "H265" => ~g265
    /\ codec # "MPEG4Video" => ~gMP4
    /\ codec = "VP9" => VP9!Init
    /\ codec = "MPEG1Video" => MPEG1VideoInit
    /\ codec = "MPEG1Audio" => MPEG1AudioInit
    /\ codec \notin PassthroughCodecs => VP9!Init /\ ~gPT

Step264 == codec = "H264" /\ H264!Next /\ UNCHANGED <<codec, vars265, varsMP4, varsPT>>
Step265 == codec = "H265" /\ H265!Next /\ UNCHANGED <<codec, vars264, varsMP4, varsPT>>
StepMP4 == codec = "MPEG4Video" /\ MPEG4!Next /\ UNCHANGED <<codec, vars264, vars265, varsPT>>
StepVP9 == codec = "VP9" /\ VP9!Next
StepMPEG1Video ==
    /\ codec = "MPEG1Video"
    /\ \E u \in PTUnits : MPEG1VideoProcessUnit(u) \/ MPEG1VideoProcessRTPPacket(u)
StepMPEG1Audio ==
    /\ codec = "MPEG1Audio"
    /\ \E u \in PTUnits : MPEG1AudioProcessUnit(u) \/ MPEG1AudioProcessRTPPacket(u)
StepPT ==
    /\ StepVP9 \/ StepMPEG1Video \/ StepMPEG1Audio
    /\ UNCHANGED <<codec, vars264, vars265, varsMP4>>

Next == Step264 \/ Step265 \/ StepMP4 \/ StepPT

Spec == Init /\ [][Next]_vars

-----------------------------------------------------------------------------
\* Every processor's variables keep their types.
TypeOK ==
    /\ codec \in Codecs
    /\ H264!TypeOK
    /\ H265!TypeOK
    /\ MPEG4!TypeOK
    /\ VP9!TypeOK

\* H.264: the two-pass remuxAccessUnit of formatProcessorH264 yields the
\* AU of spec 4.1: no SPS, PPS or AUD, and SPS then PPS in front of an IDR
\* when both are stored.
H264RemuxMatchesReference == H264!RemuxMatchesReference

\* H.264: once an RTP source's packet was too large and the encoder exists,
\* every unit leaves re-encoded, and a decoder runs (spec 4.1).
H264ReencodeOnceStarted == H264!ReencodeOnceStarted

\* H.264: once the stream has carried an SPS and a PPS, every remuxed
\* key-frame AU starts with the SPS and the PPS the stream carried last,
\* however packets and AUs are mixed (spec 8 (2)).
H264KeyFrameCarriesParams == H264!KeyFrameCarriesParams

\* H.265: the two-pass remuxAccessUnit of formatProcessorH265 yields the
\* canonical AU: no parameter set or AUD, and the stored VPS, SPS, PPS in
\* front of a key frame exactly when all three are stored.
H265RemuxMatchesReference == H265!RemuxMatchesReference

\* H.265: once a packet has been too large and the encoder exists, no unit
\* leaves as the publisher's own RTP packets.
H265ReencodeOnceStarted == H265!ReencodeOnceStarted

\* H.265: updateTrackParametersFromRTPPacket and updateTrackParametersFromAU
\* never clear a stored VPS, SPS or PPS.
H265ParamsMonotone == H265!ParamsMonotone

\* MPEG-4 Video: every frame sent on that contains a GOV starts with the
\* config the stream carried last, whether that config came in the same
\* frame or in an earlier one (spec 4.1).
MPEG4ConfigBeforeGOV == MPEG4!ConfigBeforeGOV

\* VP9, MPEG-1 Video, MPEG-1 Audio: a frame decoded for non-RTSP readers
\* is made of exactly the packets routed as is to RTSP readers since the
\* frame began, however non-RTSP readers come and go and packets are
\* refused (the decoder, once made, is fed every packet).
PassthroughFrameMatchesRouted == VP9!FrameMatchesRouted

=============================================================================
