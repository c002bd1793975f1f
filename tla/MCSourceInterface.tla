---------------------------- MODULE MCSourceInterface ----------------------------
(* Two sessions; names and addresses of which one is a prefix of the other.  *)
EXTENDS SourceInterface, TLC

CONSTANTS a1, a11, p1, p11, s1, s2

\* Addresses like 10.0.0.1 and 10.0.0.11, interfaces 1 and 11.
Prefixes == {<<x, x>> : x \in {a1, a11, p1, p11}} \cup {<<a1, a11>>, <<p1, p11>>}

\* No address, one, and a secondary one only.
Addressings == {[ip4_address |-> NoSource, secondary |-> {}],
                [ip4_address |-> a1,       secondary |-> {}],
                [ip4_address |-> NoSource, secondary |-> {a11}]}

\* The sessions are interchangeable.
Symmetry == Permutations(Session)
=============================================================================
