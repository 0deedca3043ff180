--------------------------- MODULE MC_PathManager ---------------------------
(* Instances of PathManager for TLC.  n1 and n2 are path names; the entry   *)
(* named n1 is literal, the entry re a regexp.                              *)
EXTENDS PathManager

CONSTANTS n1, n2, re, r1, r2, p1, p2

Literal(params, rpi) ==
    [regexp |-> FALSE, matches |-> {n1}, params |-> params, rpi |-> rpi]
Regexp(ms) == [regexp |-> TRUE, matches |-> ms, params |-> 1, rpi |-> 1]

\* the configuration the server starts with; n1 changed so that its path is
\* recreated and the regexp narrowed so that n2 is no longer configured; only
\* n1's RPICamera fields changed; and
\* with n1's literal entry deleted and the regexp widened to cover it
Initial   == (n1 :> Literal(1, 1)) @@ (re :> Regexp({n2}))
Recreated == (n1 :> Literal(2, 1)) @@ (re :> Regexp({}))
Updated   == (n1 :> Literal(1, 2)) @@ (re :> Regexp({n2}))
Widened   == re :> Regexp({n1, n2})

MCNames == {n1, n2}

ReloadConfs == {Initial, Recreated, Updated, Widened}
StartConfs  == {Initial}
=============================================================================
