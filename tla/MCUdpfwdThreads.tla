--------------------------- MODULE MCUdpfwdThreads ---------------------------
(***************************************************************************)
(* Instances of UdpfwdThreads for TLC; the configurations give every       *)
(* constant model values.                                                  *)
(***************************************************************************)
EXTENDS UdpfwdThreads
=============================================================================
