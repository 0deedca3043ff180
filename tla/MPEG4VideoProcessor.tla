------------------------- MODULE MPEG4VideoProcessor -------------------------
(***************************************************************************)
(* formatProcessorMPEG4Video (src/internal/formatprocessor/mpeg4_video.go) *)
(* the stored Config of a track, taken from a frame or packet that begins  *)
(* with a Visual Object Sequence start code and runs up to the first Group *)
(* of VOP start code, and remuxFrame, which cuts that config off and puts  *)
(* the stored one in front of any frame with a GOV.                        *)
(*                                                                         *)
(* A frame or a payload is a sequence of start-code chunks, records of a   *)
(* chunk type ("VOS", "VO", "GOV", "VOP") and a small value standing for   *)
(* its bytes; bytes.HasPrefix, bytes.Index and bytes.Contains become       *)
(* tests on the chunks.  The gortsplib decoder joins the payloads of the   *)
(* packets of a frame up to the one with the marker bit and refuses a      *)
(* frame longer than MaxFrame chunks.                                      *)
(***************************************************************************)
EXTENDS Naturals, Sequences, SequencesExt

CONSTANTS
    Chunks,             \* the start-code chunks streams are made of
    Units,              \* the units a source may hand to the processor
    InitialConfig,      \* format.Config from the SDP, possibly empty
    GenerateRTPPacketsValues, \* the values of newMPEG4Video's generateRTPPackets to explore
    MaxFrame            \* bound: the decoder's largest frame, in chunks

ASSUME /\ GenerateRTPPacketsValues \subseteq BOOLEAN
       /\ MaxFrame \in Nat \ {0}

VARIABLES
    generateRTPPackets, \* true for the sources that hand over decoded units, false for RTP ones
    config,   \* t.format.Config
    decoder,  \* t.decoder != nil
    frags,    \* the decoder's payloads of the frame in progress
    out,      \* the last call: its result, the frame decoded or handed in, the frame sent on
    carried   \* history: the last config the stream carried, in a packet or a frame

vars == <<generateRTPPackets, config, decoder, frags, out, carried>>

-----------------------------------------------------------------------------
\* bytes.HasPrefix(frame, VOS start code)
StartsWithVOS(f) == f # <<>> /\ f[1].t = "VOS"

\* end+4 for end = bytes.Index(frame[4:], GOV start code): the position of
\* the first GOV after the leading VOS, or 0 when there is none
ConfigEnd(f) ==
    LET at == {i \in 2..Len(f) : f[i].t = "GOV"}
    IN IF at = {} THEN 0 ELSE Min(at)

ContainsGOV(f) == \E i \in 1..Len(f) : f[i].t = "GOV"

\* the config a chunk sequence carries: frame[:end+4]
CarriedConfig(f) ==
    IF StartsWithVOS(f) /\ ConfigEnd(f) > 0 THEN SubSeq(f, 1, ConfigEnd(f) - 1) ELSE <<>>

\* mutant: the config is cut four bytes short, frame[:end]
updateTrackParametersShort(f) ==
    IF StartsWithVOS(f) /\ ConfigEnd(f) > 0 THEN SubSeq(f, 1, ConfigEnd(f) - 2) ELSE config

\* mutant: the config is cut one chunk long and keeps the GOV
updateTrackParametersLong(f) ==
    IF StartsWithVOS(f) /\ ConfigEnd(f) > 0 THEN SubSeq(f, 1, ConfigEnd(f)) ELSE config

\* updateTrackParameters: a frame that begins with a VOS and has a GOV
\* replaces the stored Config by its leading config; otherwise nothing
updateTrackParameters(f) ==
    IF StartsWithVOS(f) /\ ConfigEnd(f) > 0 THEN CarriedConfig(f) ELSE config

\* mutant: the stored Config is not put in front of a GOV
remuxFrameNoPrepend(f, cfg) ==
    IF StartsWithVOS(f) /\ ConfigEnd(f) > 0 THEN SubSeq(f, ConfigEnd(f), Len(f)) ELSE f

\* remuxFrame: cut the frame's own config, then prepend the stored one to
\* a frame that contains a GOV
remuxFrame(f, cfg) ==
    LET body == IF StartsWithVOS(f) /\ ConfigEnd(f) > 0 THEN SubSeq(f, ConfigEnd(f), Len(f)) ELSE f
    IN IF ContainsGOV(body) THEN cfg \o body ELSE body

-----------------------------------------------------------------------------

\* newMPEG4Video: the format's Config comes from the SDP
Init ==
    /\ generateRTPPackets \in GenerateRTPPacketsValues
    /\ config = InitialConfig
    /\ decoder = FALSE
    /\ frags = <<>>
    /\ out = [src |-> "none", rtp |-> "none", in |-> <<>>, frame |-> <<>>]
    /\ carried = InitialConfig

\* the last config carried, h, after one more chunk sequence was seen
Carry(h, f) == IF CarriedConfig(f) = <<>> THEN h ELSE CarriedConfig(f)

\* ProcessUnit: parameters, remux, encode when something is left
ProcessUnit(u) ==
    LET cfg == updateTrackParameters(u.frame)
        f == remuxFrame(u.frame, cfg)
    IN
    /\ u.kind = "frame" /\ generateRTPPackets
    /\ config' = cfg
    /\ out' = [src |-> "frame", in |-> u.frame, frame |-> f,
               rtp |-> IF f # <<>> THEN "encoded" ELSE "none"]
    /\ carried' = Carry(carried, u.frame)
    /\ UNCHANGED <<generateRTPPackets, decoder, frags>>

\* decoder.Decode: the frame is complete at the marker bit, too long past
\* MaxFrame chunks (the decoder starts over), else more packets are needed
DecodeResult(u) ==
    LET joined == frags \o u.payload
    IN CASE Len(joined) > MaxFrame -> [err |-> "error", frame |-> <<>>, rest |-> <<>>]
         [] u.marker               -> [err |-> "none", frame |-> joined, rest |-> <<>>]
         [] OTHER                  -> [err |-> "more", frame |-> <<>>, rest |-> joined]

\* mutant: the decoded frame is remuxed with the Config stored before the
\* packet's own update
ProcessRTPPacketStaleConfig(u) ==
    LET cfg == updateTrackParameters(u.payload)
        decoding == ~u.oversize /\ (u.hasNonRTSPReaders \/ decoder)
        d == DecodeResult(u)
        frame == IF decoding /\ d.err = "none" THEN d.frame ELSE <<>>
    IN
    /\ u.kind = "rtp" /\ ~generateRTPPackets
    /\ UNCHANGED generateRTPPackets
    /\ config' = cfg
    /\ decoder' = (decoder \/ decoding)
    /\ frags' = IF decoding THEN d.rest ELSE frags
    /\ out' = [src |-> "rtp", in |-> frame, frame |-> IF frame # <<>> THEN remuxFrame(frame, config) ELSE <<>>,
               rtp |-> IF u.oversize \/ (decoding /\ d.err = "error") THEN "error" ELSE "asis"]
    /\ carried' = Carry(Carry(carried, u.payload), frame)

\* ProcessRTPPacket: parameters from the packet's payload, a too large
\* packet refused, then, with non-RTSP readers or a decoder already made,
\* decode and remux; the packet itself is always routed as is
ProcessRTPPacket(u) ==
    LET cfg == updateTrackParameters(u.payload)
        decoding == ~u.oversize /\ (u.hasNonRTSPReaders \/ decoder)
        d == DecodeResult(u)
        frame == IF decoding /\ d.err = "none" THEN d.frame ELSE <<>>
    IN
    /\ u.kind = "rtp" /\ ~generateRTPPackets
    /\ UNCHANGED generateRTPPackets
    /\ config' = cfg
    /\ decoder' = (decoder \/ decoding)
    /\ frags' = IF decoding THEN d.rest ELSE frags
    /\ out' = [src |-> "rtp", in |-> frame, frame |-> IF frame # <<>> THEN remuxFrame(frame, cfg) ELSE <<>>,
               rtp |-> IF u.oversize \/ (decoding /\ d.err = "error") THEN "error" ELSE "asis"]
    /\ carried' = Carry(Carry(carried, u.payload), frame)

Next == \E u \in Units : ProcessUnit(u) \/ ProcessRTPPacket(u)

Spec == Init /\ [][Next]_vars

-----------------------------------------------------------------------------
(* Properties                                                               *)

\* a Config: empty, or a VOS with the headers that follow it and no GOV
IsConfig(c) == c = <<>> \/ (StartsWithVOS(c) /\ ~ContainsGOV(c))

TypeOK ==
    /\ generateRTPPackets \in BOOLEAN
    /\ config \in Seq(Chunks) /\ IsConfig(config)
    /\ decoder \in BOOLEAN
    /\ frags \in Seq(Chunks) /\ Len(frags) <= MaxFrame
    /\ out.src \in {"none", "frame", "rtp"}
    /\ out.rtp \in {"none", "asis", "encoded", "error"}
    /\ out.in \in Seq(Chunks) /\ out.frame \in Seq(Chunks)
    /\ carried \in Seq(Chunks) /\ IsConfig(carried)

\* Spec 4.1 (MPEG-4 Video frame): every frame sent on that contains a GOV
\* starts with the config the stream carried last, whether that config came
\* in the same frame or in an earlier one.
ConfigBeforeGOV ==
    ContainsGOV(out.frame) /\ carried # <<>> =>
        SubSeq(out.frame, 1, Len(carried)) = carried

=============================================================================
