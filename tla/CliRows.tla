-------------------------------- MODULE CliRows --------------------------------
(***************************************************************************)
(* The rows behind an interface's helper addresses, bootp gateway and UDP  *)
(* forward-protocol servers, as CLI sessions change them.  A command reads *)
(* the replica of its session, checks the limit and what is there, and     *)
(* inserts the row, deletes it or writes a column of it as a whole.  The   *)
(* rows of an interface are nobody else's, so one interface is enough.     *)
(***************************************************************************)
EXTENDS Naturals, FiniteSets

CONSTANTS
  Session,       \* CLI sessions
  DHCPS_PORT,    \* the key of the DHCP_Relay row
  UdpPort,       \* the keys of the UDP_Bcast_Forwarder_Server rows
  Server,        \* server addresses that decode_server_param accepts
  Gateway,       \* texts of bootp gateways, told apart from servers
  NoGateway,     \* no bootp_gateway in other_config
  Address,       \* texts of addresses the interface may have
  NamePrefix,    \* <<x, y>>: the text of x is a prefix of the text of y
  MaxHelpers,    \* MAX_HELPER_ADDRESSES_PER_INTERFACE
  MaxForwards    \* MAX_UDPFWD_SERVER_ADDRESSES_PER_INTERFACE

Key == {DHCPS_PORT} \cup UdpPort

ASSUME RowsAssumption ==
  /\ DHCPS_PORT \notin UdpPort
  /\ IsFiniteSet(UdpPort) /\ IsFiniteSet(Server)
  /\ NoGateway \notin Gateway \cup Server
  /\ Server \cap Gateway = {}
  /\ MaxHelpers \in Nat \ {0} /\ MaxForwards \in Nat \ {0}

VARIABLES
  rows,       \* rows[k]: the row for UDP port k
  addresses,  \* the addresses of the interface, primary and secondary
  txn         \* txn[s]: the transaction session s has under way

vars == <<rows, addresses, txn>>

Row == [exists : BOOLEAN, servers : SUBSET Server, gateway : Gateway \cup {NoGateway}]

Content(servers, gateway) ==
  [exists |-> TRUE, servers |-> servers, gateway |-> gateway]

NoRow == [exists |-> FALSE, servers |-> {}, gateway |-> NoGateway]

\* A transaction: the item its command sets or unsets; what it does to the
\* row, with the columns it writes; whether another one was committed since
\* the command read the replica, and whether one deleted the row.
Asks == [verb : {"set", "unset"}, key : Key, item : Server \cup Gateway \cup {NoGateway}]

Set(k, i) == [verb |-> "set", key |-> k, item |-> i]
Unset(k, i) == [verb |-> "unset", key |-> k, item |-> i]

Txn(asks, op, content) ==
  [asks |-> asks, op |-> op, content |-> content, raced |-> FALSE, gone |-> FALSE]

NoTxn == Txn(Unset(DHCPS_PORT, NoGateway), "none", NoRow)

Init ==
  /\ rows = [k \in Key |-> NoRow]
  /\ addresses = {}
  /\ txn = [s \in Session |-> NoTxn]

-----------------------------------------------------------------------------
(* What the commands look at.                                              *)

\* The rows that are counted together.
Counted(k) == IF k = DHCPS_PORT THEN {DHCPS_PORT} ELSE UdpPort

Limit(k) == IF k = DHCPS_PORT THEN MaxHelpers ELSE MaxForwards

Entries(r, k) == {e \in Counted(k) \X Server : e[2] \in r[e[1]].servers}

\* A variant that allows one entry more.
MaxCountExceeded(k) == Cardinality(Entries(rows, k)) > Limit(k)

\* A variant that counts the row of the command only.
MaxCountOfRow(k) == Cardinality(rows[k].servers) >= Limit(k)

\* server_address_maxcount_reached.
MaxCountReached(k) == Cardinality(Entries(rows, k)) >= Limit(k)

\* The text of an address of the interface is compared as far as it goes.
AddressMatches(g) == \E a \in addresses : <<a, g>> \in NamePrefix

\* A session runs one command at a time.
Send(s, asks, op, content) ==
  /\ txn[s] = NoTxn
  /\ txn' = [txn EXCEPT ![s] = Txn(asks, op, content)]
  /\ UNCHANGED <<rows, addresses>>

-----------------------------------------------------------------------------
(* The commands.  One that is refused changes nothing.                     *)

\* [ip helper-address | ip forward-protocol udp]: the limit comes first.
SetServer(s, k, i) ==
  /\ ~MaxCountReached(k)
  /\ i \notin rows[k].servers
  /\ Send(s, Set(k, i), IF rows[k].exists THEN "servers" ELSE "insert",
          Content(rows[k].servers \cup {i}, NoGateway))

\* A variant that looks at the servers only.
UnsetServerDelete(s, k, i) ==
  /\ i \in rows[k].servers
  /\ Send(s, Unset(k, i), IF rows[k].servers = {i} THEN "delete" ELSE "servers",
          Content(rows[k].servers \ {i}, NoGateway))

\* A variant that leaves the last server to a row with a gateway.
UnsetServerLast(s, k, i) ==
  /\ i \in rows[k].servers
  /\ Send(s, Unset(k, i),
          IF rows[k].servers = {i} /\ rows[k].gateway = NoGateway
          THEN "delete" ELSE "servers",
          Content(IF rows[k].servers = {i} THEN {i} ELSE rows[k].servers \ {i}, NoGateway))

\* With its last server the row goes too, unless it has a gateway, which a
\* forwarder row never has.
UnsetServer(s, k, i) ==
  /\ i \in rows[k].servers
  /\ Send(s, Unset(k, i),
          IF rows[k].servers = {i} /\ rows[k].gateway = NoGateway
          THEN "delete" ELSE "servers",
          Content(rows[k].servers \ {i}, NoGateway))

\* ip bootp-gateway. A gateway that is there already is not written again.
SetGateway(s, g) ==
  /\ AddressMatches(g)
  /\ rows[DHCPS_PORT].gateway # g
  /\ Send(s, Set(DHCPS_PORT, g),
          IF rows[DHCPS_PORT].exists THEN "gateway" ELSE "insert", Content({}, g))

\* A variant that leaves the row.
UnsetGatewayKeepRow(s, g) ==
  /\ rows[DHCPS_PORT].gateway = g
  /\ Send(s, Unset(DHCPS_PORT, g), "gateway", Content({}, NoGateway))

\* no ip bootp-gateway: without a server the row goes.
UnsetGateway(s, g) ==
  /\ rows[DHCPS_PORT].gateway = g
  /\ Send(s, Unset(DHCPS_PORT, g),
          IF rows[DHCPS_PORT].servers = {} THEN "delete" ELSE "gateway",
          Content({}, NoGateway))

-----------------------------------------------------------------------------
(* The OVSDB server.                                                       *)

\* What a transaction makes of its row. A row that another one has deleted is
\* not written, and a row for a key that another one has inserted since is not
\* inserted again.
Written(row, t) ==
  CASE t.op = "insert" /\ ~row.exists -> t.content
    [] t.op = "servers" /\ ~t.gone    -> [row EXCEPT !.servers = t.content.servers]
    [] t.op = "gateway" /\ ~t.gone    -> [row EXCEPT !.gateway = t.content.gateway]
    [] t.op = "delete" /\ ~t.gone     -> NoRow
    [] OTHER                          -> row

\* cli_do_config_finish. The other transactions now rest on a stale replica.
Commit(s) ==
  LET k == txn[s].asks.key IN
  /\ txn[s].op # "none"
  /\ rows' = [rows EXCEPT ![k] = Written(@, txn[s])]
  /\ txn' = [u \in Session |->
       IF u = s \/ txn[u].op = "none" THEN NoTxn
       ELSE [txn[u] EXCEPT
               !.raced = TRUE,
               !.gone  = @ \/ (/\ txn[u].asks.key = k
                               /\ txn[s].op = "delete" /\ ~txn[s].gone)]]
  /\ UNCHANGED addresses

\* Other commands give the interface addresses and take them away.
AddressInterface ==
  /\ \E A \in SUBSET Address : addresses' = A
  /\ UNCHANGED <<rows, txn>>

Command(s) ==
  \/ \E k \in Key, i \in Server : SetServer(s, k, i) \/ UnsetServer(s, k, i)
  \/ \E g \in Gateway : SetGateway(s, g) \/ UnsetGateway(s, g)

Next ==
  \/ \E s \in Session : Command(s) \/ Commit(s)
  \/ AddressInterface

Spec == Init /\ [][Next]_vars

-----------------------------------------------------------------------------
(* Properties.                                                             *)

TypeOK ==
  /\ rows \in [Key -> Row]
  /\ \A k \in Key : ~rows[k].exists => rows[k] = NoRow
  /\ \A k \in UdpPort : rows[k].gateway = NoGateway
  /\ addresses \subseteq Address
  /\ txn \in [Session -> [asks : Asks, content : Row, raced : BOOLEAN, gone : BOOLEAN,
                          op : {"none", "insert", "servers", "gateway", "delete"}]]

\* No other transaction was committed since the command of s read the rows.
Alone(s) == Commit(s) /\ ~txn[s].raced

Has(row, i) == i \in row.servers \/ (i \in Gateway /\ row.gateway = i)

\* A command alone is obeyed. So is one in a race, as columns are written as
\* a whole, unless its row was deleted, or inserted by another, meanwhile.
Obeyed ==
  [][\A s \in Session :
       LET asks == txn[s].asks IN
       Commit(s) /\ (txn[s].raced => ~txn[s].gone /\ txn[s].op # "insert") =>
         (Has(rows'[asks.key], asks.item) <=> asks.verb = "set")]_vars

\* A command alone changes no other server and no other row, and the gateway
\* only when it is about the gateway, even where it deletes the row.
OthersKept ==
  [][\A s \in Session :
       LET asks == txn[s].asks IN
       Alone(s) =>
         /\ \A k \in Key, i \in Server :
              k # asks.key \/ i # asks.item =>
                (i \in rows'[k].servers <=> i \in rows[k].servers)
         /\ asks.item \notin Gateway =>
              \A k \in Key : rows'[k].gateway = rows[k].gateway]_vars

\* Two sessions can take the last server and the gateway of a row away and
\* leave it with neither; a command alone leaves no such row behind.
NoRowLeftEmpty ==
  [][\A s \in Session :
       LET k == txn[s].asks.key IN
       Alone(s) /\ rows'[k].exists => rows'[k].servers # {} \/ rows'[k].gateway # NoGateway]_vars

\* No row ever has more servers than an interface may have, however commands
\* race: each column was written from a replica that was below the limit.
RowLimit == \A k \in Key : Cardinality(rows[k].servers) <= Limit(k)

\* Races on different rows can take an interface over the limit. A command
\* alone that adds a server leaves it within the limit.
WithinLimit ==
  [][\A s \in Session :
       LET asks == txn[s].asks IN
       Alone(s) /\ asks.verb = "set" /\ asks.item \in Server =>
         Cardinality(Entries(rows', asks.key)) <= Limit(asks.key)]_vars
=============================================================================
