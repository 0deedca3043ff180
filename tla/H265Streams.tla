---------------------------- MODULE H265Streams ----------------------------
(* Streams for H265Processor: two VPS values, one SPS and one PPS, an AUD, *)
(* one key-frame type (the three share a branch) and a trailing slice.     *)
EXTENDS Sequences, SequencesExt

VPS1 == [t |-> "VPS", v |-> 1]
VPS2 == [t |-> "VPS", v |-> 2]
SPS1 == [t |-> "SPS", v |-> 1]
PPS1 == [t |-> "PPS", v |-> 1]
AUD1 == [t |-> "AUD", v |-> 1]
IDR1 == [t |-> "IDR_W_RADL", v |-> 1]
TRAIL1 == [t |-> "TRAIL_R", v |-> 1]

MCNalus == {VPS1, VPS2, SPS1, PPS1, AUD1, IDR1, TRAIL1}

\* bound: AP entries are parameter sets and a key frame, at most two
APNalus == {VPS1, VPS2, SPS1, PPS1, IDR1}

Packets ==
    {[kind |-> "short"]}
    \cup {[kind |-> "single", nalu |-> n] : n \in MCNalus}
    \cup {[kind |-> "fu", nalu |-> n] : n \in {VPS1, IDR1}}
    \cup {[kind |-> "ap", units |-> s, tail |-> tl] :
              s \in BoundedSeq(APNalus, 2) \ {<<>>}, tl \in {"end", "overrun"}}

\* a malformed payload fails to decode; any other packet may complete an
\* AU or leave the decoder waiting for more
Decodes(p) ==
    IF p.kind = "short" \/ (p.kind = "ap" /\ p.tail = "overrun")
       THEN {"error"} ELSE {"ok", "more"}

RTPUnits ==
    UNION {{[kind |-> "rtp", pkt |-> p, oversize |-> o, hasNonRTSPReaders |-> r,
             decode |-> d] : d \in Decodes(p)} :
           p \in Packets, o \in BOOLEAN, r \in BOOLEAN}

\* bound: access units of at most three NAL units
AUUnits == {[kind |-> "au", au |-> a] : a \in BoundedSeq(MCNalus, 3) \ {<<>>}}

\* RTP sources and sources of access units, one kind per behaviour
AllUnits == RTPUnits \cup AUUnits

=============================================================================
