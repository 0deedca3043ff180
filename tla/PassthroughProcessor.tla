------------------------- MODULE PassthroughProcessor -------------------------
(***************************************************************************)
(* formatProcessorVP9 (src/internal/formatprocessor/vp9.go), which         *)
(* formatProcessorMPEG1Video and formatProcessorMPEG1Audio repeat line for  *)
(* line: no parameters and no remux.  What steers control is the decoder,  *)
(* made on the first packet that finds non-RTSP readers and fed every      *)
(* packet from then on, and the size check that refuses a packet before   *)
(* it is decoded or routed.                                                *)
(*                                                                         *)
(* A packet is a record: whether it starts a frame, whether it carries the *)
(* marker bit, the piece of the frame it carries (a value of Parts), and   *)
(* the two inputs that are not in the packet: whether it is larger than    *)
(* udpMaxPayloadSize and the caller's hasNonRTSPReaders.  The gortsplib    *)
(* decoder, not in this tree, joins the pieces from a starting packet up   *)
(* to the marker and refuses a frame longer than MaxFrame pieces.          *)
(***************************************************************************)
EXTENDS Naturals, Sequences

CONSTANTS
    Parts,              \* the pieces frames are made of
    Units,              \* the units a source may hand to the processor
    GenerateRTPPacketsValues, \* the values of generateRTPPackets to explore
    MaxFrame            \* bound: the decoder's largest frame, in pieces

ASSUME /\ GenerateRTPPacketsValues \subseteq BOOLEAN
       /\ MaxFrame \in Nat \ {0}

VARIABLES
    generateRTPPackets, \* true for sources that hand over decoded units
    decoder,            \* t.decoder != nil
    frags,              \* the decoder's pieces of the frame in progress
    out,                \* the last call: what its unit carries
    routed              \* history: pieces routed as is since the last start

vars == <<generateRTPPackets, decoder, frags, out, routed>>

-----------------------------------------------------------------------------

\* newVP9: the encoder exists only for sources that generate RTP packets
Init ==
    /\ generateRTPPackets \in GenerateRTPPacketsValues
    /\ decoder = FALSE
    /\ frags = <<>>
    /\ out = [src |-> "none", rtp |-> "none", frame |-> <<>>]
    /\ routed = <<>>

\* ProcessUnit: the frame is encoded into RTP packets
ProcessUnit(u) ==
    /\ u.kind = "frame" /\ generateRTPPackets
    /\ out' = [src |-> "frame", rtp |-> "encoded", frame |-> u.frame]
    /\ UNCHANGED <<generateRTPPackets, decoder, frags, routed>>

\* decoder.Decode: a starting packet begins a frame; a packet that does not
\* start one and has no frame before it is ErrNonStartingPacketAndNoPrevious;
\* a frame past MaxFrame pieces is an error that drops it; the marker
\* completes the frame; otherwise ErrMorePacketsNeeded
DecodeResult(u) ==
    LET joined == IF u.start THEN <<u.part>> ELSE frags \o <<u.part>>
    IN CASE ~u.start /\ frags = <<>> -> [err |-> "noPrevious", frame |-> <<>>, rest |-> <<>>]
         [] Len(joined) > MaxFrame  -> [err |-> "error", frame |-> <<>>, rest |-> <<>>]
         [] u.marker                -> [err |-> "none", frame |-> joined, rest |-> <<>>]
         [] OTHER                   -> [err |-> "more", frame |-> <<>>, rest |-> joined]

\* the pieces routed since the last start after one more routed packet;
\* a run longer than any frame is kept at MaxFrame + 1 pieces
Route(u) ==
    LET r == IF u.start THEN <<u.part>> ELSE routed \o <<u.part>>
    IN IF Len(r) > MaxFrame + 1 THEN routed ELSE r

\* mutant: the decoder is fed only while non-RTSP readers are present
ProcessRTPPacketReadersOnly(u) ==
    LET decoding == ~u.oversize /\ u.hasNonRTSPReaders
        d == DecodeResult(u)
        failed == u.oversize \/ (decoding /\ d.err = "error")
    IN
    /\ u.kind = "rtp" /\ ~generateRTPPackets
    /\ decoder' = (decoder \/ decoding)
    /\ frags' = IF decoding THEN d.rest ELSE frags
    /\ out' = [src |-> "rtp", rtp |-> IF failed THEN "error" ELSE "asis",
               frame |-> IF decoding /\ d.err = "none" THEN d.frame ELSE <<>>]
    /\ routed' = IF failed THEN routed ELSE Route(u)
    /\ UNCHANGED generateRTPPackets

\* ProcessRTPPacket: padding removed, a packet larger than udpMaxPayloadSize
\* refused; with non-RTSP readers, or once the decoder exists, the packet is
\* decoded: the two decoder errors that only mean "no frame yet" keep the
\* unit, any other drops it; the packet is routed as is
ProcessRTPPacket(u) ==
    LET decoding == ~u.oversize /\ (u.hasNonRTSPReaders \/ decoder)
        d == DecodeResult(u)
        failed == u.oversize \/ (decoding /\ d.err = "error")
    IN
    /\ u.kind = "rtp" /\ ~generateRTPPackets
    /\ decoder' = (decoder \/ decoding)
    /\ frags' = IF decoding THEN d.rest ELSE frags
    /\ out' = [src |-> "rtp", rtp |-> IF failed THEN "error" ELSE "asis",
               frame |-> IF decoding /\ d.err = "none" THEN d.frame ELSE <<>>]
    /\ routed' = IF failed THEN routed ELSE Route(u)
    /\ UNCHANGED generateRTPPackets

Next == \E u \in Units : ProcessUnit(u) \/ ProcessRTPPacket(u)

Spec == Init /\ [][Next]_vars

-----------------------------------------------------------------------------
(* Properties                                                               *)

TypeOK ==
    /\ generateRTPPackets \in BOOLEAN
    /\ decoder \in BOOLEAN
    /\ frags \in Seq(Parts) /\ Len(frags) <= MaxFrame
    /\ out.src \in {"none", "frame", "rtp"}
    /\ out.rtp \in {"none", "asis", "encoded", "error"}
    /\ out.frame \in Seq(Parts)
    /\ routed \in Seq(Parts) /\ Len(routed) <= MaxFrame + 1

\* A frame that ProcessRTPPacket decodes for the non-RTSP readers is made of
\* exactly the packets the RTSP readers were routed since the frame's first
\* packet: once the decoder exists it sees every routed packet, whether or
\* not non-RTSP readers are still there, and a refused packet reaches
\* neither kind of reader.
FrameMatchesRouted ==
    out.src = "rtp" /\ out.frame # <<>> => out.frame = routed

=============================================================================
