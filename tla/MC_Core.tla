-------------------------------- MODULE MC_Core --------------------------------
(* Instances of Core for TLC.  A configuration gives every field Core      *)
(* compares a small value; the variants change one group of fields each.   *)
EXTENDS Core

Fields ==
    {"Log", "Metrics", "MetricsAddress", "ReadTimeout", "PPROF", "PPROFAddress",
     "ExternalAuthenticationURL", "RTSPAddress", "AuthMethods", "WriteTimeout",
     "WriteQueueSize", "UDPMaxPayloadSize", "RTSP", "Encryption", "RTSPSettings",
     "RTSPSSettings", "Protocols", "RunOnConnect", "RTMP", "RTMPEncryption",
     "RTMPAddress", "RTMPSSettings", "HLS", "HLSSettings", "WebRTC",
     "WebRTCSettings", "SRT", "SRTAddress", "API", "APIAddress", "Paths"}

\* a path entry; two entries that record to the same place and differ only
\* in format give the cleaner two entries its comparator cannot order
Rec(fmt) == [record |-> TRUE, recordPath |-> 1, recordFormat |-> fmt, recordDeleteAfter |-> 1]
NoRec    == [record |-> FALSE, recordPath |-> 1, recordFormat |-> "fmp4", recordDeleteAfter |-> 1]

Paths1 == [n \in {"cam1", "cam2"} |-> IF n = "cam1" THEN Rec("fmp4") ELSE Rec("mpegts")]
Paths2 == [n \in {"cam1", "cam2"} |-> IF n = "cam1" THEN Rec("fmp4") ELSE NoRec]

Base ==
    [f \in Fields |->
        CASE f \in {"Metrics", "RTSP", "HLS", "SRT", "API"} -> TRUE
          [] f \in {"PPROF", "RTMP", "WebRTC"} -> FALSE
          [] f \in {"Encryption", "RTMPEncryption"} -> "no"
          [] f = "Paths" -> Paths1
          [] OTHER -> 1]

LogMoved       == [Base EXCEPT !["Log"] = 2]
MetricsMoved   == [Base EXCEPT !["MetricsAddress"] = 2]
PathsChanged   == [Base EXCEPT !["Paths"] = Paths2]
RTSPSAdded     == [Base EXCEPT !["Encryption"] = "optional"]
\* RTMP with both the plain and the TLS listener, then the TLS one moved
RTMPSOn        == [Base EXCEPT !["RTMP"] = TRUE, !["RTMPEncryption"] = "optional"]
RTMPSMoved     == [RTMPSOn EXCEPT !["RTMPSSettings"] = 2]

MCConfs == {Base, LogMoved, MetricsMoved, PathsChanged, RTSPSAdded, RTMPSOn, RTMPSMoved}
=============================================================================
