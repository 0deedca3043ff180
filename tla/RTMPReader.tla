----------------------------- MODULE RTMPReader -----------------------------
(***************************************************************************)
(* The stream callbacks of an RTMP reader (rtmpConn.setupVideo and        *)
(* setupAudio in src/internal/core/rtmp_conn.go): what each unit the       *)
(* stream hands over becomes on the RTMP writer.  A callback runs on the   *)
(* connection's asyncWriter, one unit at a time and in stream order, so a *)
(* step is one unit.  An error from a callback ends the writer, which      *)
(* closes the connection (Conn.tla's WriteError); no unit follows it.      *)
(*                                                                         *)
(* An H.264 access unit is reduced to what the callback tests: nil, only  *)
(* parameter sets, an IDR or a non-IDR picture, and whether the gortsplib  *)
(* DTS extractor rejects it.  An MPEG-1 audio frame is a valid layer 3    *)
(* frame, a frame of another layer, or one whose header does not parse.    *)
(***************************************************************************)
EXTENDS Naturals, Sequences, SequencesExt, FiniteSetsExt

CONSTANT MaxUnits   \* bound: video units handed to one reader

ASSUME MaxUnits \in Nat \ {0}

AUKinds == {"nil", "params", "idr", "nonidr"}
VideoUnits == [au : AUKinds, bad : BOOLEAN]

\* the audio track setupAudio picks: MPEG-4 generic, else LATM with one
\* program of one layer, else MPEG-1 audio, else none
AudioFormats == {"generic", "latm", "mpeg1", "none"}
MPEG1Frames == {"layer3", "otherLayer", "bad"}
AudioUnits ==
    [format : {"generic"}, aus : 0..2] \cup
    [format : {"latm"}, aus : 0..1] \cup
    [format : {"mpeg1"}, frames : UNION {[1..n -> MPEG1Frames] : n \in 0..2}]

VARIABLES
    audioFormat,   \* the audio media setupAudio attached to, or "none"
    extractor,     \* videoDTSExtractor != nil
    failed,        \* a callback returned an error: the writer has stopped
    written,       \* the H.264 access units written, as their kinds
    audioWritten,  \* audio frames written by the last audio callback
    fed            \* history: the video units handed to the reader

vars == <<audioFormat, extractor, failed, written, audioWritten, fed>>

Init ==
    /\ audioFormat \in AudioFormats
    /\ extractor = FALSE
    /\ failed = FALSE
    /\ written = <<>>
    /\ audioWritten = 0
    /\ fed = <<>>

HasPicture(k) == k \in {"idr", "nonidr"}

\* the callback has written unit u: WriteH264 after a DTS was extracted
WriteOrFail(u) ==
    IF u.bad THEN failed' = TRUE /\ UNCHANGED written
             ELSE written' = Append(written, u.au) /\ UNCHANGED failed

\* mutant: the DTS extractor is made on the first AU with a picture,
\* without waiting for an IDR
OnVideoNoWait(u) ==
    /\ ~failed /\ Len(fed) < MaxUnits
    /\ fed' = Append(fed, u)
    /\ IF ~HasPicture(u.au) THEN UNCHANGED <<extractor, failed, written>>
       ELSE extractor' = TRUE /\ WriteOrFail(u)
    /\ UNCHANGED <<audioFormat, audioWritten>>

\* setupVideo's callback: a nil AU is skipped; until the extractor exists,
\* an AU without an IDR is skipped and the first IDR creates it; after
\* that an AU with neither IDR nor non-IDR is skipped; a DTS the extractor
\* rejects is the callback's error
OnVideo(u) ==
    /\ ~failed /\ Len(fed) < MaxUnits
    /\ fed' = Append(fed, u)
    /\ \/ /\ u.au = "nil" \/ (~extractor /\ u.au # "idr") \/ ~HasPicture(u.au)
          /\ UNCHANGED <<extractor, failed, written>>
       \/ /\ u.au = "idr" /\ ~extractor
          /\ extractor' = TRUE
          /\ WriteOrFail(u)
       \/ /\ HasPicture(u.au) /\ extractor
          /\ WriteOrFail(u)
          /\ UNCHANGED extractor
    /\ UNCHANGED <<audioFormat, audioWritten>>

\* the frames of an MPEG-1 audio unit written before the first one that
\* does not parse or is not layer 3
MPEG1Written(fs) ==
    LET stop == {i \in DOMAIN fs : fs[i] # "layer3"}
    IN IF stop = {} THEN Len(fs) ELSE Min(stop) - 1

\* setupAudio's callback for the attached format: MPEG-4 generic writes
\* each AU (nil AUs: nothing), LATM its one AU, MPEG-1 each frame after
\* checking its header, and returns at the first frame that fails
OnAudio(u) ==
    /\ ~failed /\ audioFormat # "none" /\ u.format = audioFormat
    /\ IF u.format = "mpeg1"
          THEN /\ audioWritten' = MPEG1Written(u.frames)
               /\ failed' = (MPEG1Written(u.frames) < Len(u.frames))
          ELSE /\ audioWritten' = u.aus
               /\ UNCHANGED failed
    /\ UNCHANGED <<audioFormat, extractor, written, fed>>

Next ==
    \/ \E u \in VideoUnits : OnVideo(u)
    \/ \E u \in AudioUnits : OnAudio(u)

Spec == Init /\ [][Next]_vars

-----------------------------------------------------------------------------
(* Properties                                                               *)

TypeOK ==
    /\ audioFormat \in AudioFormats
    /\ extractor \in BOOLEAN /\ failed \in BOOLEAN
    /\ written \in Seq(AUKinds) /\ Len(written) <= MaxUnits
    /\ audioWritten \in 0..2
    /\ fed \in Seq(VideoUnits) /\ Len(fed) <= MaxUnits

\* the reference: from the first IDR the stream handed over, every AU that
\* carries a picture, in order; nothing before it
FromFirstIDR(us) ==
    LET idr == {i \in DOMAIN us : us[i].au = "idr"}
        kinds == [i \in DOMAIN us |-> us[i].au]
    IN IF idr = {} THEN <<>>
       ELSE SelectSeq(SubSeq(kinds, Min(idr), Len(kinds)), HasPicture)

\* An RTMP reader that joins a stream at any unit writes nothing until an
\* IDR, and from that IDR on every access unit that carries a picture, in
\* stream order, while its writer runs: the extractor made on the first IDR
\* is kept for the rest of the session.
WritesFromFirstIDR ==
    ~failed => written = FromFirstIDR(fed)

=============================================================================
