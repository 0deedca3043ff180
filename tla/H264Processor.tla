---------------------------- MODULE H264Processor ----------------------------
(***************************************************************************)
(* formatProcessorH264 (src/internal/formatprocessor/h264.go): the stored *)
(* SPS / PPS of a track, updated from each unit, the two-pass remux of     *)
(* access units and the switch to re-encoding once a packet is too large.  *)
(*                                                                         *)
(* A NAL unit is a record of its type and a small value standing for its   *)
(* bytes.  An RTP packet is a single NAL unit packet, a STAP-A whose       *)
(* entries end with the payload ("end"), a one-byte tail ("short"), a zero *)
(* size ("zero") or a size past the payload ("overrun"), an FU-A, or an    *)
(* empty payload.                                                          *)
(***************************************************************************)
EXTENDS Naturals, Sequences, SequencesExt

CONSTANTS
    Nalus,              \* the NAL units streams are made of
    Units,              \* the units a publisher may hand to Process
    GenerateRTPPacketsValues \* the values of newH264's generateRTPPackets to explore

ParamTypes == {"SPS", "PPS"}
Stripped == ParamTypes \cup {"AUD"}
Nil == [t |-> "nil", v |-> 0]
Panic == <<[t |-> "panic", v |-> 0]>>

ASSUME /\ GenerateRTPPacketsValues \subseteq BOOLEAN
       /\ Nil \notin Nalus

VARIABLES
    generateRTPPackets, \* true for the sources that hand over decoded units, false for RTP ones
    params,   \* t.format.SPS / PPS
    encoder,  \* t.encoder != nil
    decoder,  \* t.decoder != nil
    out,      \* the last Process: RTP outcome, the AU decoded or handed in, the remuxed AU
    seen      \* history: the last SPS / PPS the stream carried in an inspected form

vars == <<generateRTPPackets, params, encoder, decoder, out, seen>>

NoParams == [t \in ParamTypes |-> Nil]

\* a fold that keeps, per parameter type, the last NAL unit of that type
LastOfType(start, nalus) ==
    FoldLeft(LAMBDA acc, nalu :
                 IF nalu.t \in ParamTypes THEN [acc EXCEPT ![nalu.t] = nalu] ELSE acc,
             start, nalus)

-----------------------------------------------------------------------------
\* rtpH264ExtractSPSPPS: a STAP-A loop stops at a short tail or a zero size
\* and keeps what it found; a size past the payload drops everything
rtpH264ExtractSPSPPS(pkt) ==
    CASE pkt.kind = "empty"                                -> NoParams
      [] pkt.kind = "single" /\ pkt.nalu.t \in ParamTypes  -> [NoParams EXCEPT ![pkt.nalu.t] = pkt.nalu]
      [] pkt.kind = "stapa" /\ pkt.tail # "overrun"        -> LastOfType(NoParams, pkt.units)
      [] OTHER                                             -> NoParams

\* the extraction of spec 4.1: single NAL units and each aggregated entry
\* by its own type, a malformed aggregation ignored
SpecExtract(pkt) ==
    IF pkt.kind = "single" \/ (pkt.kind = "stapa" /\ pkt.tail # "overrun")
       THEN LastOfType(NoParams, IF pkt.kind = "single" THEN <<pkt.nalu>> ELSE pkt.units)
       ELSE NoParams

\* mutant: the sets the packet lacks are not taken from the stored values
UpdateFromRTPPacketNoFallback(pkt) ==
    LET ex == rtpH264ExtractSPSPPS(pkt)
    IN IF \E t \in ParamTypes : ex[t] # Nil /\ ex[t] # params[t] THEN ex ELSE params

\* updateTrackParametersFromRTPPacket
UpdateFromRTPPacket(pkt) ==
    LET ex == rtpH264ExtractSPSPPS(pkt)
        update == \E t \in ParamTypes : ex[t] # Nil /\ ex[t] # params[t]
    IN IF update THEN [t \in ParamTypes |-> IF ex[t] = Nil THEN params[t] ELSE ex[t]]
                 ELSE params

\* mutant: each NAL unit compared with the value stored before the call,
\* as the H.265 code does
UpdateFromAUStored(au) ==
    FoldLeft(LAMBDA acc, nalu :
                 IF nalu.t \in ParamTypes /\ nalu # params[nalu.t]
                    THEN [acc EXCEPT ![nalu.t] = nalu] ELSE acc,
             params, au)

\* updateTrackParametersFromAU: sps and pps start from the stored values and
\* each NAL unit is compared with the one taken so far
UpdateFromAU(au) ==
    FoldLeft(LAMBDA acc, nalu :
                 IF nalu.t \in ParamTypes /\ nalu # acc[nalu.t]
                    THEN [acc EXCEPT ![nalu.t] = nalu] ELSE acc,
             params, au)

-----------------------------------------------------------------------------
(* remuxAccessUnit: the first pass counts, the second fills an array of   *)
(* that length (a fill past the end panics, unfilled slots stay nil).     *)

BothParams(ps) == ps["SPS"] # Nil /\ ps["PPS"] # Nil

\* mutant: the parameters are counted for every IDR, not the first only
RemuxCountEveryIDR(au, ps) ==
    FoldLeft(LAMBDA acc, nalu :
                 IF nalu.t \in Stripped THEN acc
                 ELSE LET key == nalu.t = "IDR"
                      IN [key |-> acc.key \/ key,
                          n |-> acc.n + 1 + (IF key /\ BothParams(ps) THEN 2 ELSE 0)],
             [key |-> FALSE, n |-> 0], au)

RemuxCount(au, ps) ==
    FoldLeft(LAMBDA acc, nalu :
                 IF nalu.t \in Stripped THEN acc
                 ELSE LET first == nalu.t = "IDR" /\ ~acc.key
                      IN [key |-> acc.key \/ first,
                          n |-> acc.n + 1 + (IF first /\ BothParams(ps) THEN 2 ELSE 0)],
             [key |-> FALSE, n |-> 0], au)

\* mutant: the parameters are put in front when the SPS alone is stored
remuxAccessUnitSPSOnly(au, ps) ==
    LET c == RemuxCount(au, ps)
        prefix == IF c.key /\ ps["SPS"] # Nil THEN <<ps["SPS"], ps["PPS"]>> ELSE <<>>
        fill == prefix \o SelectSeq(au, LAMBDA nalu : nalu.t \notin Stripped)
    IN IF c.n = 0 THEN <<>>
       ELSE IF Len(fill) > c.n THEN Panic
       ELSE [i \in 1..c.n |-> IF i <= Len(fill) THEN fill[i] ELSE Nil]

remuxAccessUnit(au, ps) ==
    LET c == RemuxCount(au, ps)
        prefix == IF c.key /\ BothParams(ps) THEN <<ps["SPS"], ps["PPS"]>> ELSE <<>>
        fill == prefix \o SelectSeq(au, LAMBDA nalu : nalu.t \notin Stripped)
    IN IF c.n = 0 THEN <<>>
       ELSE IF Len(fill) > c.n THEN Panic
       ELSE [i \in 1..c.n |-> IF i <= Len(fill) THEN fill[i] ELSE Nil]

\* the remux rule of spec 4.1 for H.264
RemuxRef(au, ps) ==
    LET body == SelectSeq(au, LAMBDA nalu : nalu.t \notin Stripped)
        key == \E i \in 1..Len(au) : au[i].t = "IDR"
    IN IF key /\ BothParams(ps) /\ body # <<>> THEN <<ps["SPS"], ps["PPS"]>> \o body ELSE body

-----------------------------------------------------------------------------

\* newH264
Init ==
    /\ generateRTPPackets \in GenerateRTPPacketsValues
    /\ params = NoParams
    /\ encoder = generateRTPPackets
    /\ decoder = FALSE
    /\ out = [src |-> "none", rtp |-> "none", in |-> <<>>, au |-> <<>>]
    /\ seen = NoParams

\* the AU the decoder returns once a packet completes one
DecodedAU(pkt) == IF pkt.kind = "stapa" THEN pkt.units ELSE <<pkt.nalu>>

\* mutant: the decoder is only used when there are non-RTSP readers
ProcessRTPReadersOnly(u) ==
    LET pkt == u.pkt
        ps == UpdateFromRTPPacket(pkt)
        enc == encoder \/ u.oversize
        decoding == u.hasNonRTSPReaders
        ok == decoding /\ u.decode = "ok"
        au == IF ok THEN remuxAccessUnit(DecodedAU(pkt), ps) ELSE <<>>
    IN
    /\ u.kind = "rtp" /\ ~generateRTPPackets
    /\ UNCHANGED generateRTPPackets
    /\ params' = ps /\ encoder' = enc /\ decoder' = decoding
    /\ out' = [src |-> "rtp", in |-> IF ok THEN DecodedAU(pkt) ELSE <<>>, au |-> au,
               rtp |-> CASE ~decoding          -> "asis"
                         [] u.decode = "error" -> "error"
                         [] u.decode = "more"  -> IF enc THEN "none" ELSE "asis"
                         [] ~enc               -> "asis"
                         [] OTHER              -> IF au # <<>> THEN "encoded" ELSE "none"]
    /\ seen' = [t \in ParamTypes |-> IF SpecExtract(pkt)[t] # Nil THEN SpecExtract(pkt)[t] ELSE seen[t]]

\* Process for a unit with RTP packets (h264.go 226-273): parameters from
\* the packet, the encoder once a packet is too large, decode and remux,
\* then the packet as is or, once re-encoding, the re-encoded AU; a decode
\* that needs more packets drops the packet when re-encoding.
ProcessRTP(u) ==
    LET pkt == u.pkt
        ps == UpdateFromRTPPacket(pkt)
        enc == encoder \/ u.oversize
        decoding == u.hasNonRTSPReaders \/ decoder \/ enc
        ok == decoding /\ u.decode = "ok"
        au == IF ok THEN remuxAccessUnit(DecodedAU(pkt), ps) ELSE <<>>
    IN
    /\ u.kind = "rtp" /\ ~generateRTPPackets
    /\ UNCHANGED generateRTPPackets
    /\ params' = ps /\ encoder' = enc /\ decoder' = decoding
    /\ out' = [src |-> "rtp", in |-> IF ok THEN DecodedAU(pkt) ELSE <<>>, au |-> au,
               rtp |-> CASE ~decoding          -> "asis"
                         [] u.decode = "error" -> "error"
                         [] u.decode = "more"  -> IF enc THEN "none" ELSE "asis"
                         [] ~enc               -> "asis"
                         [] OTHER              -> IF au # <<>> THEN "encoded" ELSE "none"]
    /\ seen' = [t \in ParamTypes |-> IF SpecExtract(pkt)[t] # Nil THEN SpecExtract(pkt)[t] ELSE seen[t]]

\* Process for a unit carrying an AU (h264.go 274-291)
ProcessAU(u) ==
    LET ps == UpdateFromAU(u.au)
        au == remuxAccessUnit(u.au, ps)
    IN
    /\ u.kind = "au" /\ generateRTPPackets
    /\ params' = ps
    /\ out' = [src |-> "au", in |-> u.au, au |-> au, rtp |-> IF au # <<>> THEN "encoded" ELSE "none"]
    /\ seen' = LastOfType(seen, u.au)
    /\ UNCHANGED <<generateRTPPackets, encoder, decoder>>

Next == \E u \in Units : ProcessRTP(u) \/ ProcessAU(u)

Spec == Init /\ [][Next]_vars

-----------------------------------------------------------------------------
(* Properties                                                               *)

TypeOK ==
    /\ generateRTPPackets \in BOOLEAN
    /\ params \in [ParamTypes -> Nalus \cup {Nil}]
    /\ encoder \in BOOLEAN /\ decoder \in BOOLEAN
    /\ out.src \in {"none", "rtp", "au"}
    /\ out.rtp \in {"none", "asis", "encoded", "error"}
    /\ out.in \in Seq(Nalus) /\ out.au \in Seq(Nalus)
    /\ seen \in [ParamTypes -> Nalus \cup {Nil}]

\* The two-pass remuxAccessUnit yields the AU of spec 4.1: no SPS, PPS or
\* AUD, and SPS then PPS in front of an IDR when both are stored.
RemuxMatchesReference ==
    out.au = RemuxRef(out.in, params)

\* Spec 4.1 (oversize handling): once an RTP source's packet was too large
\* and the encoder exists, every unit leaves re-encoded, and a decoder runs.
ReencodeOnceStarted ==
    ~generateRTPPackets /\ encoder => out.rtp # "asis" /\ decoder

IsKeyAU(a) == \E i \in 1..Len(a) : a[i] \in Nalus /\ a[i].t = "IDR"

\* Spec 8 (2), with the parameters' values: once the stream has carried an
\* SPS and a PPS, every remuxed key-frame AU starts with the SPS and the
\* PPS the stream carried last, however packets and AUs are mixed.
KeyFrameCarriesParams ==
    BothParams(seen) /\ IsKeyAU(out.au) =>
        Len(out.au) >= 2 /\ out.au[1] = seen["SPS"] /\ out.au[2] = seen["PPS"]

=============================================================================
