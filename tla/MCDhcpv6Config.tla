---------------------------- MODULE MCDhcpv6Config ----------------------------
(***************************************************************************)
(* Instances of Dhcpv6Config for TLC, with the addresses as numbers.       *)
(***************************************************************************)
EXTENDS Dhcpv6Config

CONSTANTS p1, p2

\* The ports 1 and 11, say, and the addresses 2001::1, 2001::10 and 2001::2.
Names == {<<p1, p1>>, <<p2, p2>>, <<p1, p2>>}
Texts == {<<1, 1>>, <<2, 2>>, <<3, 3>>, <<1, 2>>}

\* No text is a prefix of another.
DistinctNames == {<<p, p>> : p \in Port}
DistinctTexts == {<<a, a>> : a \in Addr}
=============================================================================
