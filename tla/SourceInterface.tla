---------------------------- MODULE SourceInterface ----------------------------
(***************************************************************************)
(* The source of the packets of TFTP, TACACS and RADIUS clients: CLI       *)
(* sessions give a protocol, or all protocols, an address or an interface  *)
(* of the switch.  Both are maps in the VRF row, keyed by protocol.  A     *)
(* command reads the replica of its session and writes whole columns back. *)
(***************************************************************************)
CONSTANTS
  Protocol,      \* the keys of both maps
  AllProtocol,   \* the key whose source protocols without one of their own use
  Address,       \* addresses that ip source-interface takes
  Port,          \* interfaces
  NoSource,      \* a key that is not there
  NamePrefix,    \* <<x, y>>: the text of x is a prefix of the text of y
  Addressing,    \* what addresses a port may have
  Session        \* CLI sessions

SourceMap(S) == [Protocol -> S \cup {NoSource}]
Row == [source_ip : SourceMap(Address), source_interface : SourceMap(Port)]
Column == {"source_ip", "source_interface"}

ASSUME SourceAssumption ==
  /\ AllProtocol \in Protocol
  /\ NoSource \notin Address /\ NoSource \notin Port /\ Address \cap Port = {}
  /\ Addressing \subseteq [ip4_address : Address \cup {NoSource},
                           secondary   : SUBSET Address]

VARIABLES
  row,     \* the VRF row
  ports,   \* ports[p]: the addresses of p
  txn      \* txn[s]: the transaction session s has under way

vars == <<row, ports, txn>>

Unset == [source_ip        |-> [t \in Protocol |-> NoSource],
          source_interface |-> [t \in Protocol |-> NoSource]]

-----------------------------------------------------------------------------
(* What the row says.                                                      *)

\* A variant that looks at the interfaces first.
ConfiguredInterface(r, t) ==
  IF r.source_interface[t] # NoSource THEN r.source_interface[t] ELSE r.source_ip[t]

\* get_configured_protocol_source_local: the address has priority.
Configured(r, t) ==
  IF r.source_ip[t] # NoSource THEN r.source_ip[t] ELSE r.source_interface[t]

\* get_protocol_source_local, for the clients of protocol t.
Used(r, t) ==
  IF Configured(r, t) = NoSource /\ t # AllProtocol
  THEN Configured(r, AllProtocol) ELSE Configured(r, t)

\* show ip source-interface: one line per protocol, none for AllProtocol.
Shown(r) ==
  [t \in Protocol \ {AllProtocol} |->
     IF Configured(r, t) # NoSource THEN Configured(r, t)
     ELSE Configured(r, AllProtocol)]

-----------------------------------------------------------------------------
(* What the ports say.  Texts are compared up to the end of one of them.   *)

\* isIpConfigured: secondary addresses count on ports without a primary one.
IsIpConfigured(source) ==
  \E p \in Port :
    LET primary == ports[p].ip4_address IN
    IF primary # NoSource THEN <<primary, source>> \in NamePrefix
    ELSE \E a \in ports[p].secondary : <<a, source>> \in NamePrefix

\* The ports whose names begin with ifName.
Named(ifName) == {p \in Port : <<ifName, p>> \in NamePrefix}

\* getPort: the ports it may find first.
GetPort(ifName) ==
  {p \in Named(ifName) : \/ ports[p].ip4_address # NoSource
                         \/ ports[p].secondary # {}}

-----------------------------------------------------------------------------
(* What the commands make of the columns.                                  *)

\* update_protocol_source_ip.
UpdatedIp(map, t, source, add) ==
  [map EXCEPT ![t] = IF add THEN source ELSE NoSource]

\* The two arrays behind a map column, entry by entry.
Entries(map) == {<<t, map[t]>> : t \in {u \in Protocol : map[u] # NoSource}}

\* A variant that forgets to copy the entries that are there.
AddedAlone(list, t, p) == {<<t, p>>}

\* update_protocol_source_interface with add: the key may be there already.
Added(list, t, p) == list \cup {<<t, p>>}

\* ... and without: a single entry is taken for the one to be removed.
Removed(list, t) ==
  IF \E e \in list : list = {e} THEN {} ELSE {e \in list : e[1] # t}

\* The library makes a map of the arrays; of two entries with one key it keeps
\* one.
MapsOf(list) ==
  {map \in SourceMap(Port) :
     \A t \in Protocol :
       IF \E p \in Port : <<t, p>> \in list THEN <<t, map[t]>> \in list
       ELSE map[t] = NoSource}

\* The transaction of a command that names a source, or none.
Txn(t, source, writes, new) ==
  [type |-> t, source |-> source, writes |-> writes, new |-> new, raced |-> FALSE]

NoTxn == Txn(AllProtocol, NoSource, {}, Unset)

Init == /\ row = Unset
        /\ ports \in [Port -> Addressing]
        /\ txn = [s \in Session |-> NoTxn]

\* The columns a command has set are sent, each as a whole, if one of them
\* differs from the replica.
Send(s, t, source, writes, new) ==
  /\ new # row
  /\ txn' = [txn EXCEPT ![s] = Txn(t, source, writes, new)]
  /\ UNCHANGED <<row, ports>>

\* A variant that leaves the interface: the address has priority anyway.
SetSourceIpOver(s) ==
  \E t \in Protocol, source \in Address :
    /\ txn[s] = NoTxn /\ IsIpConfigured(source)
    /\ Send(s, t, source, {"source_ip"},
            [row EXCEPT !.source_ip = UpdatedIp(@, t, source, TRUE)])

\* set_source_ip, which removes the interface if there is one.
SetSourceIp(s) ==
  \E t \in Protocol, source \in Address :
    /\ txn[s] = NoTxn /\ IsIpConfigured(source)
    /\ LET ip == UpdatedIp(row.source_ip, t, source, TRUE) IN
       IF row.source_interface[t] # NoSource
       THEN \E map \in MapsOf(Removed(Entries(row.source_interface), t)) :
              Send(s, t, source, Column, [source_ip |-> ip, source_interface |-> map])
       ELSE Send(s, t, source, {"source_ip"}, [row EXCEPT !.source_ip = ip])

\* set_source_interface, which removes the address if there is one. The port
\* that is set need not be the one the command names.
SetSourceInterface(s) ==
  \E t \in Protocol, ifName \in Port :
    /\ txn[s] = NoTxn
    /\ \E p \in GetPort(ifName) :
         \E map \in MapsOf(Added(Entries(row.source_interface), t, p)) :
           IF row.source_ip[t] # NoSource
           THEN Send(s, t, ifName, Column,
                     [source_ip        |-> UpdatedIp(row.source_ip, t, ifName, FALSE),
                      source_interface |-> map])
           ELSE Send(s, t, ifName, {"source_interface"},
                     [row EXCEPT !.source_interface = map])

\* reset_source_interface: both are removed, each if it is there.
ResetSourceInterface(s) ==
  \E t \in Protocol :
    LET isIp == row.source_ip[t] # NoSource
        isInterface == row.source_interface[t] # NoSource
        list == Entries(row.source_interface)
    IN /\ txn[s] = NoTxn
       /\ \E map \in MapsOf(IF isInterface THEN Removed(list, t) ELSE list) :
            Send(s, t, NoSource,
                 (IF isIp THEN {"source_ip"} ELSE {})
                   \cup (IF isInterface THEN {"source_interface"} ELSE {}),
                 [source_ip        |-> UpdatedIp(row.source_ip, t, NoSource, FALSE),
                  source_interface |-> map])

\* cli_do_config_finish. The transactions of other sessions now rest on what
\* has changed.
Commit(s) ==
  /\ txn[s] # NoTxn
  /\ row' = [source_ip        |-> IF "source_ip" \in txn[s].writes
                                  THEN txn[s].new.source_ip ELSE row.source_ip,
             source_interface |-> IF "source_interface" \in txn[s].writes
                                  THEN txn[s].new.source_interface
                                  ELSE row.source_interface]
  /\ txn' = [u \in Session |->
               IF u = s \/ txn[u] = NoTxn THEN NoTxn
               ELSE [txn[u] EXCEPT !.raced = TRUE]]
  /\ UNCHANGED ports

\* Others give ports addresses and take them away.
AddressPort(p) ==
  /\ \E a \in Addressing : ports' = [ports EXCEPT ![p] = a]
  /\ UNCHANGED <<row, txn>>

Next ==
  \/ \E s \in Session : \/ SetSourceIp(s) \/ SetSourceInterface(s)
                        \/ ResetSourceInterface(s) \/ Commit(s)
  \/ \E p \in Port : AddressPort(p)

Spec == Init /\ [][Next]_vars

-----------------------------------------------------------------------------
(* Properties.                                                             *)

TypeOK ==
  /\ row \in Row
  /\ ports \in [Port -> Addressing]
  /\ txn \in [Session -> [type : Protocol, source : Address \cup Port \cup {NoSource},
                          writes : SUBSET Column, new : Row, raced : BOOLEAN]]

\* The transaction of s is committed, and no other was since its command read
\* the row.
Alone(s) == Commit(s) /\ ~txn[s].raced

\* After a command alone the protocol uses the source that the command named,
\* and after "no" that of all protocols; show says the same. An address wins
\* even in a race, because it has priority over an interface that a racing
\* command left. An interface is surely the one named only if no other port's
\* name begins with its name and the protocol had no other interface before.
Obeyed ==
  [][\A s \in Session :
       LET t == txn[s].type
           source == txn[s].source
           before == row.source_interface[t]
       IN Alone(s) \/ (Commit(s) /\ source \in Address) =>
            /\ source = NoSource =>
                 Used(row', t) = IF t = AllProtocol THEN NoSource
                                 ELSE Used(row', AllProtocol)
            /\ source \in Address => Used(row', t) = source
            /\ source \in Port =>
                 /\ Used(row', t) \in Named(source) \cup ({before} \ {NoSource})
                 /\ Named(source) \subseteq {source} /\ before \in {source, NoSource}
                      => Used(row', t) = source
            /\ t # AllProtocol => Shown(row')[t] = Used(row', t)]_vars

\* A race may leave a protocol both an address and an interface; the next
\* command alone leaves it one of them, and "no" leaves it none.
OneSourceAgain ==
  [][\A s \in Session :
       LET t == txn[s].type IN
       Alone(s) =>
         /\ row'.source_ip[t] = NoSource \/ row'.source_interface[t] = NoSource
         /\ txn[s].source = NoSource =>
              row'.source_ip[t] = NoSource /\ row'.source_interface[t] = NoSource]_vars

\* A command alone changes no other protocol's source, although it writes the
\* sources of all of them.
OthersKept ==
  [][\A s \in Session : Alone(s) =>
       \A t \in Protocol \ {txn[s].type} :
         /\ row'.source_ip[t] = row.source_ip[t]
         /\ row'.source_interface[t] = row.source_interface[t]]_vars
=============================================================================
