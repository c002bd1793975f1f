----------------------------- MODULE RelayTable -----------------------------
(***************************************************************************)
(* What the configuration side of ops-relay promises the packet receiver:  *)
(* a table giving each interface the set of servers its packets go to,     *)
(* which only ever moves towards the configuration.  A server still        *)
(* configured is never withdrawn, not even for a moment while other        *)
(* servers of the interface change, and a server that is not configured is *)
(* never installed.  UdpfwdConfig implements this module.                  *)
(***************************************************************************)
CONSTANTS Port,    \* the interfaces
          Server   \* the relay destinations: an address and a UDP port

VARIABLES config,  \* config[p]: the servers OVSDB gives to p
          table    \* table[p]: the servers packets received on p go to

vars == <<config, table>>

Empty == [p \in Port |-> {}]

TypeOK == /\ config \in [Port -> SUBSET Server]
          /\ table \in [Port -> SUBSET Server]

Init == /\ config \in [Port -> SUBSET Server]
        /\ table = Empty

\* An operator rewrites the configuration.
Configure == /\ config' \in [Port -> SUBSET Server]
             /\ UNCHANGED table

\* The daemon starts using a configured server.
Install(p, s) == /\ s \in config[p] \ table[p]
                 /\ table' = [table EXCEPT ![p] = @ \cup {s}]
                 /\ UNCHANGED config

\* The daemon stops using a server that is no longer configured.
Withdraw(p, s) == /\ s \in table[p] \ config[p]
                  /\ table' = [table EXCEPT ![p] = @ \ {s}]
                  /\ UNCHANGED config

\* The daemon restarts: its table was only in memory.
Reset == /\ table' = Empty
         /\ UNCHANGED config

Next == \/ Configure
        \/ Reset
        \/ \E p \in Port, s \in Server : Install(p, s) \/ Withdraw(p, s)

Spec == Init /\ [][Next]_vars

=============================================================================
