---------------------------- MODULE MC_LibumfInit ----------------------------
(* Three threads calling libumfInit twice each, in either build.          *)
EXTENDS LibumfInit

CONSTANTS t1, t2, t3

MCThreads == {t1, t2, t3}
MCBuilds == {TRUE, FALSE}

=============================================================================
