---------------------------- MODULE H264Streams ----------------------------
(* Streams for H264Processor: two SPS values, one PPS, an AUD, an IDR      *)
(* slice and a non-IDR slice.                                              *)
EXTENDS Sequences, SequencesExt

SPS1 == [t |-> "SPS", v |-> 1]
SPS2 == [t |-> "SPS", v |-> 2]
PPS1 == [t |-> "PPS", v |-> 1]
AUD1 == [t |-> "AUD", v |-> 1]
IDR1 == [t |-> "IDR", v |-> 1]
NON1 == [t |-> "NonIDR", v |-> 1]

MCNalus == {SPS1, SPS2, PPS1, AUD1, IDR1, NON1}

\* bound: STAP-A entries are parameter sets and an IDR, at most two
STAPNalus == {SPS1, SPS2, PPS1, IDR1}

Packets ==
    {[kind |-> "empty"]}
    \cup {[kind |-> "single", nalu |-> n] : n \in MCNalus}
    \cup {[kind |-> "fua", nalu |-> n] : n \in {SPS1, IDR1}}
    \cup {[kind |-> "stapa", units |-> s, tail |-> tl] :
              s \in BoundedSeq(STAPNalus, 2) \ {<<>>}, tl \in {"end", "short", "zero", "overrun"}}

\* an empty payload or an overrunning STAP-A fails to decode; a truncated
\* one may fail or yield its entries
Decodes(p) ==
    CASE p.kind = "empty" \/ (p.kind = "stapa" /\ p.tail = "overrun") -> {"error"}
      [] p.kind = "stapa" /\ p.tail \in {"short", "zero"}            -> {"ok", "error"}
      [] OTHER                                                     -> {"ok", "more"}

RTPUnits ==
    UNION {{[kind |-> "rtp", pkt |-> p, oversize |-> o, hasNonRTSPReaders |-> r,
             decode |-> d] : d \in Decodes(p)} :
           p \in Packets, o \in BOOLEAN, r \in BOOLEAN}

\* bound: access units of at most three NAL units
AUUnits == {[kind |-> "au", au |-> a] : a \in BoundedSeq(MCNalus, 3) \ {<<>>}}

\* RTP sources and sources of access units, one kind per behaviour
AllUnits == RTPUnits \cup AUUnits

=============================================================================
