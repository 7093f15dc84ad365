--------------------------- MODULE MCSocks5Tunnel ---------------------------
(* A tunnel with a few peers.                                               *)
EXTENDS Socks5Tunnel, TLC

Symmetry == Permutations(Peers)
=============================================================================
