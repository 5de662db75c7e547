----------------------------- MODULE MCPeerFile -----------------------------
(* Instance of PeerFile for TLC.                                            *)
EXTENDS PeerFile, TLC

CONSTANTS d1, d2, k1, k2, k3

\* One address; half of a network of 8, with an address beyond it.
Networks == {{{2}}, {{4, 5, 6, 7}, {9}}}

\* k3 is the key of the peer written by hand.
Interchangeable == Permutations({d1, d2}) \cup Permutations({k1, k2})
=============================================================================
