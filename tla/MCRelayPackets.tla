---------------------------- MODULE MCRelayPackets ----------------------------
(* A relay with two interfaces and one with one, each other's helpers.     *)
(* The second address is the gateway of the first interface but may be an  *)
(* address of the second.                                                  *)
EXTENDS RelayPackets, TLC

CONSTANTS r1, r2, i1, i2, i3

RelayOfInterface == (i1 :> r1) @@ (i2 :> r1) @@ (i3 :> r2)
HomeOfAddress == 1 :> i1 @@ 2 :> i2 @@ 3 :> i3
PlacesOfAddress == 1 :> {i1} @@ 2 :> {i1, i2} @@ 3 :> {i3}

SomeNodes ==
  (i1 :> {[servers |-> {Server, 3}, bootp_gw |-> gw] : gw \in {0, 2}}) @@
  (i2 :> {[servers |-> {Server}, bootp_gw |-> 0]}) @@
  (i3 :> {[servers |-> {Server, 1}, bootp_gw |-> 0]})

Started ==
  [relay |-> TRUE, hops |-> TRUE, option82 |-> FALSE, validate |-> FALSE,
   policy |-> "REPLACE", remoteId |-> "MAC"]

Option82With(policy, remoteId) ==
  [Started EXCEPT !.option82 = TRUE, !.policy = policy, !.remoteId = remoteId]

\* The first relay may leave hops alone and validate; the second replaces options.
SomeFeatures ==
  r1 :> {Started, [Option82With("KEEP", "IP") EXCEPT !.validate = TRUE, !.hops = FALSE]} @@
  r2 :> {Started, Option82With("REPLACE", "MAC")}
=============================================================================
