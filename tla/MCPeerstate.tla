----------------------------- MODULE MCPeerstate -----------------------------
(* Model-checking instance of Peerstate: two correspondents, two keys,    *)
(* three points of time.                                                   *)
EXTENDS Peerstate

CONSTANTS a1, a2, k1, k2

MCAddrs == {a1, a2}
MCKeys == {k1, k2}

\* Every message carries a From: address.
SendersWithFrom == MCAddrs

=============================================================================
