---------------------------- MODULE MCRelayStats ----------------------------
(* Two ports with two counters each, so that a value can get from one row  *)
(* to the next and a counter that rests can be lost beside one that does   *)
(* not.                                                                    *)
EXTENDS RelayStats
=============================================================================
