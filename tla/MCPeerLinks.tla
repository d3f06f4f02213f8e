----------------------------- MODULE MCPeerLinks ----------------------------
(* Two threads, lists of up to three items: heads, middles, tails. *)
EXTENDS PeerLinks
CONSTANTS k1, k2, k3, i1, i2, i3, t1, t2
=============================================================================
