--------------------------- MODULE MPEG4Streams ---------------------------
(* Streams for MPEG4VideoProcessor: one VOS header, four versions of the  *)
(* visual object header (four configs), two GOVs (time codes differ) and   *)
(* three VOPs.                                                             *)
EXTENDS Sequences, SequencesExt

VOS1 == [t |-> "VOS", v |-> 1]
VOs == {[t |-> "VO", v |-> i] : i \in 1..4}
GOVs == {[t |-> "GOV", v |-> i] : i \in 1..2}
VOPs == {[t |-> "VOP", v |-> i] : i \in 1..3}

MCChunks == {VOS1} \cup VOs \cup GOVs \cup VOPs

\* the frames an encoder produces: an optional config (VOS and VO header),
\* an optional GOV, then the picture
FrameShapes ==
    {<<VOS1, vo, g, p>> : vo \in VOs, g \in GOVs, p \in VOPs}
    \cup {<<VOS1, vo, p>> : vo \in VOs, p \in VOPs}
    \cup {<<g, p>> : g \in GOVs, p \in VOPs}
    \cup {<<p>> : p \in VOPs}

FrameUnits == {[kind |-> "frame", frame |-> f] : f \in FrameShapes}

\* every run of one or two chunks of a frame, as an encoder that splits a
\* frame at any chunk boundary may packetize it
Runs(f) == {SubSeq(f, i, j) : i \in 1..Len(f), j \in 1..Len(f)}

Pieces == {p \in UNION {Runs(f) : f \in FrameShapes} : Len(p) \in 1..2}

RTPUnitsOf(payloads, markers) ==
    {[kind |-> "rtp", payload |-> p, marker |-> m, oversize |-> o, hasNonRTSPReaders |-> r] :
         p \in payloads, m \in markers, o \in BOOLEAN, r \in BOOLEAN}

\* packets that carry a whole frame each, as a publisher whose frames fit
\* in one packet sends them
WholeFramePackets == RTPUnitsOf(FrameShapes, {TRUE})

\* packets that carry pieces of frames, the marker on any of them
PiecePackets == RTPUnitsOf(Pieces, BOOLEAN)

\* the config sent in the SDP
SDPConfig == <<VOS1, [t |-> "VO", v |-> 1]>>

\* sources of whole frames and RTP sources that send a frame per packet
WholeFrameUnits == FrameUnits \cup WholeFramePackets

=============================================================================
