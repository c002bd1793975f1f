------------------------------- MODULE MCCliRows -------------------------------
(* Two sessions on an interface with one address, which is the gateway.    *)
EXTENDS CliRows, TLC

CONSTANTS s1, s2, g1, a1

OnePrefix == {<<a1, g1>>}

Symmetry == Permutations(Session) \cup Permutations(Server) \cup Permutations(UdpPort)
=============================================================================
