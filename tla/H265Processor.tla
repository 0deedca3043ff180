---------------------------- MODULE H265Processor ----------------------------
(***************************************************************************)
(* formatProcessorH265 (src/internal/formatprocessor/h265.go): the stored *)
(* VPS / SPS / PPS of a track, updated from each unit, the remux of access *)
(* units (parameter sets and AUDs stripped, the stored parameters put in   *)
(* front of a key frame) and the switch to re-encoding once a packet is    *)
(* too large.                                                              *)
(*                                                                         *)
(* A NAL unit is a record of its type and a small value standing for its   *)
(* bytes: bytes.Equal is record equality.  An RTP packet is a single NAL   *)
(* unit packet, an aggregation packet (AP) of NAL units ending cleanly or  *)
(* with a size that overruns the payload, a fragmentation unit (FU) or a   *)
(* payload shorter than two bytes.                                         *)
(***************************************************************************)
EXTENDS Naturals, Sequences, SequencesExt

CONSTANTS
    Nalus,              \* the NAL units streams are made of
    Units,              \* the units a publisher may hand to Process
    GenerateRTPPacketsValues \* the values of newH265's generateRTPPackets to explore

ParamTypes == {"VPS", "SPS", "PPS"}
KeyTypes == {"IDR_W_RADL", "IDR_N_LP", "CRA_NUT"}
\* the NAL types remuxAccessUnit drops
Stripped == ParamTypes \cup {"AUD"}
Nil == [t |-> "nil", v |-> 0]
\* the index-out-of-range panic of a fill past the counted length
Panic == <<[t |-> "panic", v |-> 0]>>

ASSUME /\ GenerateRTPPacketsValues \subseteq BOOLEAN
       /\ Nil \notin Nalus

VARIABLES
    generateRTPPackets, \* true for the sources that hand over decoded units, false for RTP ones
    params,   \* t.format.VPS / SPS / PPS
    encoder,  \* t.encoder != nil
    decoder,  \* t.decoder != nil
    out,      \* the last Process: what went out as RTP, the AU it remuxed and the result
    seen      \* history: the parameter types the stream has carried in the forms
              \* spec 4.1 says are inspected (single NAL units, AP entries, AUs)

vars == <<generateRTPPackets, params, encoder, decoder, out, seen>>

NoParams == [t \in ParamTypes |-> Nil]

-----------------------------------------------------------------------------
(* rtpH265ExtractVPSSPSPPS                                                  *)

\* (pkt.Payload[0] >> 1) & 0b111111: the type in the packet's first header
HeaderType(pkt) ==
    CASE pkt.kind = "single" -> pkt.nalu.t
      [] pkt.kind = "ap"     -> "AggregationUnit"
      [] pkt.kind = "fu"     -> "FragmentationUnit"

\* the loop over an AP's entries: the type switched on is read again from
\* pkt.Payload[0], the AP header, and not from the entry
APEntries(pkt) ==
    FoldLeft(LAMBDA acc, nalu :
                 LET typ == HeaderType(pkt)
                 IN IF typ \in ParamTypes THEN [acc EXCEPT ![typ] = nalu] ELSE acc,
             NoParams, pkt.units)

rtpH265ExtractVPSSPSPPS(pkt) ==
    IF pkt.kind = "short" THEN NoParams
    ELSE LET typ == HeaderType(pkt) IN
         IF typ \in ParamTypes THEN [NoParams EXCEPT ![typ] = pkt.nalu]
         ELSE IF typ = "AggregationUnit"
              THEN IF pkt.tail = "overrun" THEN NoParams ELSE APEntries(pkt)
              ELSE NoParams

\* the extraction spec 4.1 / 9 prescribes: each AP entry by its own type
SpecExtract(pkt) ==
    IF pkt.kind = "single" /\ pkt.nalu.t \in ParamTypes
        THEN [NoParams EXCEPT ![pkt.nalu.t] = pkt.nalu]
    ELSE IF pkt.kind = "ap" /\ pkt.tail = "end"
        THEN FoldLeft(LAMBDA acc, nalu :
                          IF nalu.t \in ParamTypes THEN [acc EXCEPT ![nalu.t] = nalu] ELSE acc,
                      NoParams, pkt.units)
    ELSE NoParams

-----------------------------------------------------------------------------
(* The stored parameters                                                    *)

\* mutant: the sets the packet lacks are not taken from the stored values
UpdateFromRTPPacketNoFallback(pkt) ==
    LET ex == rtpH265ExtractVPSSPSPPS(pkt)
    IN IF \E t \in ParamTypes : ex[t] # Nil /\ ex[t] # params[t] THEN ex ELSE params

\* updateTrackParametersFromRTPPacket: if one extracted set differs, all
\* three are set, the missing ones from the stored values
UpdateFromRTPPacket(pkt) ==
    LET ex == rtpH265ExtractVPSSPSPPS(pkt)
        update == \E t \in ParamTypes : ex[t] # Nil /\ ex[t] # params[t]
    IN IF update THEN [t \in ParamTypes |-> IF ex[t] = Nil THEN params[t] ELSE ex[t]]
                 ELSE params

\* mutant: vps, sps, pps start from nil instead of t.format's values
UpdateFromAUFresh(au) ==
    LET r == FoldLeft(LAMBDA acc, nalu :
                          IF nalu.t \in ParamTypes /\ nalu # params[nalu.t]
                             THEN [acc EXCEPT ![nalu.t] = nalu] ELSE acc,
                      NoParams, au)
    IN IF r # NoParams THEN r ELSE params

\* updateTrackParametersFromAU: each NAL unit is compared with the value
\* stored before the call, not with one taken earlier in the same AU
UpdateFromAU(au) ==
    FoldLeft(LAMBDA acc, nalu :
                 IF nalu.t \in ParamTypes /\ nalu # params[nalu.t]
                    THEN [acc EXCEPT ![nalu.t] = nalu] ELSE acc,
             params, au)

-----------------------------------------------------------------------------
(* remuxAccessUnit: a first pass counts the output, a second fills an      *)
(* array of that length.  A fill past the end is Go's index-out-of-range   *)
(* panic; slots left unfilled stay nil.                                    *)

AllParams(ps) == \A t \in ParamTypes : ps[t] # Nil

\* mutant: the first pass counts the parameters for every key-frame NAL unit
RemuxCountEveryKey(au, ps) ==
    FoldLeft(LAMBDA acc, nalu :
                 IF nalu.t \in Stripped THEN acc
                 ELSE LET key == nalu.t \in KeyTypes
                      IN [key |-> acc.key \/ key,
                          n |-> acc.n + 1 + (IF key /\ AllParams(ps) THEN 3 ELSE 0)],
             [key |-> FALSE, n |-> 0], au)

RemuxCount(au, ps) ==
    FoldLeft(LAMBDA acc, nalu :
                 IF nalu.t \in Stripped THEN acc
                 ELSE LET first == nalu.t \in KeyTypes /\ ~acc.key
                      IN [key |-> acc.key \/ first,
                          n |-> acc.n + 1 + (IF first /\ AllParams(ps) THEN 3 ELSE 0)],
             [key |-> FALSE, n |-> 0], au)

\* mutant: the second pass checks SPS and PPS only, as the H.264 code does
remuxAccessUnitH264Check(au, ps) ==
    LET c == RemuxCount(au, ps)
        prefix == IF c.key /\ ps["SPS"] # Nil /\ ps["PPS"] # Nil
                     THEN <<ps["VPS"], ps["SPS"], ps["PPS"]>> ELSE <<>>
        fill == prefix \o SelectSeq(au, LAMBDA nalu : nalu.t \notin Stripped)
    IN IF c.n = 0 THEN <<>>
       ELSE IF Len(fill) > c.n THEN Panic
       ELSE [i \in 1..c.n |-> IF i <= Len(fill) THEN fill[i] ELSE Nil]

\* mutant: the parameters are written after the NAL units instead of before
remuxAccessUnitAppendParams(au, ps) ==
    LET c == RemuxCount(au, ps)
        prefix == IF c.key /\ AllParams(ps)
                     THEN <<ps["VPS"], ps["SPS"], ps["PPS"]>> ELSE <<>>
        fill == SelectSeq(au, LAMBDA nalu : nalu.t \notin Stripped) \o prefix
    IN IF c.n = 0 THEN <<>>
       ELSE IF Len(fill) > c.n THEN Panic
       ELSE [i \in 1..c.n |-> IF i <= Len(fill) THEN fill[i] ELSE Nil]

remuxAccessUnit(au, ps) ==
    LET c == RemuxCount(au, ps)
        prefix == IF c.key /\ AllParams(ps)
                     THEN <<ps["VPS"], ps["SPS"], ps["PPS"]>> ELSE <<>>
        fill == prefix \o SelectSeq(au, LAMBDA nalu : nalu.t \notin Stripped)
    IN IF c.n = 0 THEN <<>>
       ELSE IF Len(fill) > c.n THEN Panic
       ELSE [i \in 1..c.n |-> IF i <= Len(fill) THEN fill[i] ELSE Nil]

\* the canonical remux rule of spec 4.1
RemuxRef(au, ps) ==
    LET body == SelectSeq(au, LAMBDA nalu : nalu.t \notin Stripped)
        key == \E i \in 1..Len(au) : au[i].t \in KeyTypes
    IN IF key /\ AllParams(ps) /\ body # <<>>
          THEN <<ps["VPS"], ps["SPS"], ps["PPS"]>> \o body ELSE body

-----------------------------------------------------------------------------

\* newH265: the encoder is created up front for sources that hand over AUs
Init ==
    /\ generateRTPPackets \in GenerateRTPPacketsValues
    /\ params = NoParams
    /\ encoder = generateRTPPackets
    /\ decoder = FALSE
    /\ out = [src |-> "none", rtp |-> "none", in |-> <<>>, au |-> <<>>]
    /\ seen = [t \in ParamTypes |-> FALSE]

\* the AU the decoder returns once a packet completes one
DecodedAU(pkt) == IF pkt.kind = "ap" THEN pkt.units ELSE <<pkt.nalu>>

\* mutant: a decode that needs more packets keeps the packet while re-encoding
ProcessRTPMoreKeepsPackets(u) ==
    LET pkt == u.pkt
        ps == UpdateFromRTPPacket(pkt)
        enc == encoder \/ u.oversize
        decoding == u.hasNonRTSPReaders \/ decoder \/ enc
        au == IF decoding /\ u.decode = "ok" THEN remuxAccessUnit(DecodedAU(pkt), ps) ELSE <<>>
    IN
    /\ u.kind = "rtp" /\ ~generateRTPPackets
    /\ UNCHANGED generateRTPPackets
    /\ params' = ps
    /\ encoder' = enc
    /\ decoder' = decoding
    /\ out' = [src |-> "rtp",
               in |-> IF decoding /\ u.decode = "ok" THEN DecodedAU(pkt) ELSE <<>>,
               au |-> au,
               rtp |-> CASE ~decoding            -> "asis"
                         [] u.decode = "error"   -> "error"
                         [] u.decode = "more"    -> "asis"
                         [] ~enc                 -> "asis"
                         [] OTHER                -> IF au # <<>> THEN "encoded" ELSE "none"]
    /\ seen' = [t \in ParamTypes |-> seen[t] \/ SpecExtract(pkt)[t] # Nil]

\* Process for a unit with RTP packets: parameters from the packet, the
\* encoder when the packet is too large, decode, remux, and either the
\* packet as is or the re-encoded AU.  A decode that needs more packets
\* drops the packet once re-encoding; another decode error is returned.
ProcessRTP(u) ==
    LET pkt == u.pkt
        ps == UpdateFromRTPPacket(pkt)
        enc == encoder \/ u.oversize
        decoding == u.hasNonRTSPReaders \/ decoder \/ enc
        au == IF decoding /\ u.decode = "ok" THEN remuxAccessUnit(DecodedAU(pkt), ps) ELSE <<>>
    IN
    /\ u.kind = "rtp" /\ ~generateRTPPackets
    /\ UNCHANGED generateRTPPackets
    /\ params' = ps
    /\ encoder' = enc
    /\ decoder' = decoding
    /\ out' = [src |-> "rtp",
               in |-> IF decoding /\ u.decode = "ok" THEN DecodedAU(pkt) ELSE <<>>,
               au |-> au,
               rtp |-> CASE ~decoding            -> "asis"
                         [] u.decode = "error"   -> "error"
                         [] u.decode = "more"    -> IF enc THEN "none" ELSE "asis"
                         [] ~enc                 -> "asis"
                         [] OTHER                -> IF au # <<>> THEN "encoded" ELSE "none"]
    /\ seen' = [t \in ParamTypes |-> seen[t] \/ SpecExtract(pkt)[t] # Nil]

\* Process for a unit carrying an AU: parameters, remux, encode
ProcessAU(u) ==
    LET ps == UpdateFromAU(u.au)
        au == remuxAccessUnit(u.au, ps)
    IN
    /\ u.kind = "au" /\ generateRTPPackets
    /\ params' = ps
    /\ out' = [src |-> "au", in |-> u.au, au |-> au, rtp |-> IF au # <<>> THEN "encoded" ELSE "none"]
    /\ seen' = [t \in ParamTypes |-> seen[t] \/ \E i \in 1..Len(u.au) : u.au[i].t = t]
    /\ UNCHANGED <<generateRTPPackets, encoder, decoder>>

Next == \E u \in Units : ProcessRTP(u) \/ ProcessAU(u)

Spec == Init /\ [][Next]_vars

-----------------------------------------------------------------------------
(* Properties                                                               *)

TypeOK ==
    /\ generateRTPPackets \in BOOLEAN
    /\ params \in [ParamTypes -> Nalus \cup {Nil}]
    /\ encoder \in BOOLEAN /\ decoder \in BOOLEAN
    /\ out.src \in {"none", "rtp", "au"}
    /\ out.rtp \in {"none", "asis", "encoded", "error"}
    /\ out.in \in Seq(Nalus) /\ out.au \in Seq(Nalus)
    /\ seen \in [ParamTypes -> BOOLEAN]

\* Spec 8 (5): a stored VPS, SPS or PPS is never cleared back to nil, however
\* the packets and AUs that update it are mixed.
ParamsMonotone ==
    [][\A t \in ParamTypes : params[t] # Nil => params'[t] # Nil]_vars

\* The two-pass remuxAccessUnit yields the canonical AU of spec 4.1: no
\* parameter set or AUD, and the stored VPS, SPS, PPS in front of a key
\* frame exactly when all three are stored, for the parameters in force
\* after the unit's own update.
RemuxMatchesReference ==
    out.au = RemuxRef(out.in, params)

\* Spec 4.1 (oversize handling): once a packet has been too large and the
\* encoder exists, no unit leaves as the publisher's own RTP packets.
ReencodeOnceStarted ==
    encoder => out.rtp # "asis"

IsKeyAU(a) == \E i \in 1..Len(a) : a[i] \in Nalus /\ a[i].t \in KeyTypes

\* Spec 8 (2): once the stream has carried a VPS, an SPS and a PPS, every
\* remuxed key-frame AU starts with VPS, SPS, PPS.
KeyFrameCarriesParams ==
    (\A t \in ParamTypes : seen[t]) /\ IsKeyAU(out.au) =>
        /\ Len(out.au) >= 3
        /\ <<out.au[1].t, out.au[2].t, out.au[3].t>> = <<"VPS", "SPS", "PPS">>

=============================================================================
