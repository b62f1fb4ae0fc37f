------------------------------- MODULE MCE2EE -------------------------------
(* Model-checking instance of E2EE: one sending thread, one correspondent, *)
(* two keys, two points of time.                                           *)
EXTENDS E2EE

CONSTANTS t1, m1, b1, k1, k2

MCThreads == {t1}
MCAddrs == {b1}
MCKeys == {k1, k2}
MCRecipientSets == {{b1}}

\* Messages may lack a From: header.
MCSendersAny == MCAddrs \cup {NoFrom}

=============================================================================
