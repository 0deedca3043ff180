------------------------------- MODULE MC_Path -------------------------------
(* Instances of Path for TLC: the path configurations each run explores.    *)
EXTENDS Path

PathConf(src, od, re, fb, dpo) ==
    [source |-> src, onDemand |-> od, regexp |-> re, fallback |-> fb,
     disablePublisherOverride |-> dpo]

\* a static source (e.g. an rtsp:// URL) started on demand
OnDemandStaticConfs == {PathConf("static", TRUE, FALSE, FALSE, FALSE)}

\* a static source started when the path is created
AlwaysOnStaticConfs == {PathConf("static", FALSE, FALSE, FALSE, FALSE)}

\* source: publisher with runOnDemand
OnDemandPublisherConfs ==
    {PathConf("publisher", TRUE, FALSE, FALSE, FALSE)}

\* regexp-named publisher paths (with a fallback and override disabled, or
\* neither) and a redirect path
PublisherConfs ==
    {PathConf("publisher", FALSE, TRUE, TRUE, TRUE),
     PathConf("publisher", FALSE, TRUE, FALSE, FALSE),
     PathConf("redirect", FALSE, FALSE, FALSE, FALSE)}

\* every configuration, one per behaviour
AllConfs == OnDemandStaticConfs \cup AlwaysOnStaticConfs
                \cup OnDemandPublisherConfs \cup PublisherConfs

\* The refinement mapping from Path, with an on-demand static source, to the
\* promise of spec 4.4: the diagram's state is onDemandStaticSourceState,
\* the parked requests are the held ones, the stream is up when pa.stream is
\* set and the attached readers are pa.readers.  A path with any other
\* source has no on-demand static source: it maps to the idle machine,
\* which only sees the path close.
OnlyOnDemandStatic(x, idle) == IF HasOnDemandStaticSource THEN x ELSE idle

OnDemand == INSTANCE OnDemandSource WITH
    state      <- onDemandStaticSourceState,
    describing <- OnlyOnDemandStatic(describeHeld, {}),
    adding     <- OnlyOnDemandStatic(readerAddHeld, {}),
    live       <- OnlyOnDemandStatic(stream # NoStream, FALSE),
    attached   <- OnlyOnDemandStatic(readers, {}),
    open       <- running

\* Path implements the on-demand state machine of spec 4.4, its two timers
\* included: every step of pa.run's handlers, timers and teardown is a step
\* of OnDemandSource or leaves its state alone.
OnDemandRefinement == OnDemand!Spec
==============================================================================
