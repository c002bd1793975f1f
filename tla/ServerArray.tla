----------------------------- MODULE ServerArray -----------------------------
(***************************************************************************)
(* The server array of an interface, as the sequence of the references in  *)
(* its slots 0 .. addrCount-1 (udpfwd_config.c).                           *)
(***************************************************************************)
EXTENDS Naturals, Sequences

\* Dropping slot i: the last reference is moved into the hole.
DropSlot(q, i) ==
  [k \in 1 .. Len(q) - 1 |-> IF k = i THEN q[Len(q)] ELSE q[k]]

\* The first slot of q that holds s.
SlotOf(q, s) ==
  CHOOSE i \in DOMAIN q : q[i] = s /\ \A k \in 1 .. i - 1 : q[k] # s
=============================================================================
