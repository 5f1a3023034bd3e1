---------------------------- MODULE MC_ZeProvider ----------------------------
(* Model-checking instance of ZeProvider: two threads, so that a free and  *)
(* an alloc can overlap, two addresses, so that the driver can reuse one  *)
(* while another is held, and two devices.                                 *)
EXTENDS ZeProvider, TLC

CONSTANTS t1, t2, d1, d2

MCThreads == {t1, t2}
MCAddrs == {1, 2}
MCDevices == {d1, d2}

\* Threads and devices are interchangeable; addresses are ordered keys.
Symmetry == Permutations(MCThreads) \cup Permutations(MCDevices)
=============================================================================
