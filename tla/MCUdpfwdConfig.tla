--------------------------- MODULE MCUdpfwdConfig ---------------------------
(***************************************************************************)
(* Instances of UdpfwdConfig for TLC.  The configurations give Port,       *)
(* HelperIp, ... their members as model values; NamePrefix needs a value   *)
(* built from them.                                                        *)
(***************************************************************************)
EXTENDS UdpfwdConfig, TLC

CONSTANTS p1, p2

OneName == {<<p1, p1>>}

\* No port name is a prefix of another.
DistinctNames == {<<p1, p1>>, <<p2, p2>>}

\* Ports with distinct names and helper addresses are interchangeable.
Symmetry == Permutations(Port) \cup Permutations(HelperIp)
=============================================================================
