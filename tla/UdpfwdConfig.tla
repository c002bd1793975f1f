---------------------------- MODULE UdpfwdConfig ----------------------------
(***************************************************************************)
(* The configuration side of the UDP forwarder and DHCP relay              *)
(* (relay/udpfwd/src/udpfwd_config.c and udpfwd.c): the main thread of     *)
(* ops-relay reads the DHCP_Relay and UDP_Bcast_Forwarder_Server rows of   *)
(* OVSDB through its IDL and brings its local tables up to date:           *)
(*   - the interface table (intfHashTable): per interface an array of      *)
(*     server references and the bootp gateway;                            *)
(*   - the server table (serverHashMap): per (address, UDP port) one entry *)
(*     with a count of the references to it.                               *)
(* One action is one locked operation of the code (udpfwd_store_address,   *)
(* udpfwd_remove_address) or one lock-free stretch between two of them, so *)
(* the states are those the packet receiver, which takes the same          *)
(* semaphore, can see.                                                     *)
(***************************************************************************)
EXTENDS Naturals, Sequences, FiniteSets, Functions, ServerArray

CONSTANTS
  Port,         \* interfaces (the OVSDB Port rows)
  HelperIp,     \* addresses used as DHCP helper addresses
  ForwardIp,    \* addresses used as UDP broadcast forwarding servers
  GatewayIp,    \* addresses used as bootp gateways
  NoIp,         \* the value 0 of an IP_ADDRESS: none
  BadIp,        \* a bootp gateway text inet_aton refuses
  DHCPS_PORT,   \* UDP port 67
  UdpPort,      \* the other forwarded UDP destination ports
  NamePrefix,   \* <<p, q>>: the name of p is a prefix of the name of q
  MaxServers,   \* MAX_UDP_BCAST_SERVER_PER_INTERFACE
  MaxHelpers,   \* helper addresses the CLI accepts on an interface
  MaxForwards,  \* forwarding servers the CLI accepts on an interface
  MaxLeak       \* bound: leaked references after which OVSDB is left alone

Ip == HelperIp \cup ForwardIp
Server == [ip : Ip, udp_port : {DHCPS_PORT} \cup UdpPort]

ASSUME ConfigAssumption ==
  /\ IsFiniteSet(Port) /\ IsFiniteSet(Ip) /\ IsFiniteSet(UdpPort)
  /\ DHCPS_PORT \notin UdpPort
  /\ NoIp \notin GatewayIp /\ BadIp \notin GatewayIp /\ NoIp # BadIp
  /\ NamePrefix \subseteq Port \X Port
  /\ \A p \in Port : <<p, p>> \in NamePrefix
  /\ MaxServers \in Nat /\ MaxHelpers \in Nat /\ MaxForwards \in Nat
  /\ MaxLeak \in Nat

VARIABLES
  dhcp,      \* dhcp[p]: the DHCP_Relay row of p, as the IDL replica holds it
  udp,       \* udp[p][d]: the servers of the UDP_Bcast_Forwarder_Server row
             \*   of port p and UDP port d; {} when there is no such row
  idl,       \* what the IDL flags as changed since idl_seqno
  nodes,     \* the keys of intfHashTable
  arr,       \* arr[p]: serverArray[0 .. addrCount-1] of p's node
  gw,        \* gw[p]: bootp_gw of p's node
  refs,      \* refs[s]: ref_count of s's entry in serverHashMap; 0: no entry
  leaked,    \* leaked[s]: references held by arrays of freed nodes
  stray,     \* stray[p]: servers last stored through a freed node of p
  pc,        \* the table udpfwd_reconfigure is working on
  nodeWalk,  \* interfaces the row-delete walk has still to visit
  rowWalk,   \* changed rows <<port, UDP port>> still to be handled
  job        \* the handler under way

dbVars    == <<dhcp, udp>>
tableVars == <<nodes, arr, gw, refs, leaked, stray>>
walkVars  == <<pc, nodeWalk, rowWalk>>
vars == <<dbVars, idl, tableVars, walkVars, job>>

-----------------------------------------------------------------------------
(* The rows.  The CLI keeps a DHCP_Relay row exactly while it holds a      *)
(* helper address or a gateway, and a forwarder row exactly while it holds *)
(* a server.                                                               *)

DhcpRow == [servers : SUBSET HelperIp, gw : GatewayIp \cup {NoIp, BadIp}]

NoRow == [servers |-> {}, gw |-> NoIp]

HasDhcpRow(p) == dhcp[p] # NoRow
HasUdpRow(p)  == \E d \in UdpPort : udp[p][d] # {}

\* The addresses the row of interface p for UDP port d lists.
RowIps(p, d) == IF d = DHCPS_PORT THEN dhcp[p].servers ELSE udp[p][d]

\* What the rows ask for on p, as entries of its server array.
Configured(p) ==
  {s \in Server : s.ip \in RowIps(p, s.udp_port)}

\* The flags of the IDL: rows deleted, inserted or modified, and the columns
\* of DHCP_Relay that changed (a flag of the column, for all rows at once).
NoChange == [dhcpDeleted |-> FALSE, dhcpChanged |-> {}, gwModified |-> FALSE,
             serversModified |-> FALSE, udpDeleted |-> FALSE, udpChanged |-> {}]

\* To an IDL that has just connected, every row is new.
AllInserted ==
  [dhcpDeleted     |-> FALSE,
   dhcpChanged     |-> {p \in Port : HasDhcpRow(p)},
   gwModified      |-> \E p \in Port : dhcp[p].gw # NoIp,
   serversModified |-> \E p \in Port : dhcp[p].servers # {},
   udpDeleted      |-> FALSE,
   udpChanged      |-> {r \in Port \X UdpPort : udp[r[1]][r[2]] # {}}]

-----------------------------------------------------------------------------
(* A handler under way.  stage is "prune" in the removal loop of a row     *)
(* deletion, "remove" in that of a row change, "add" in the loop that      *)
(* stores new servers, "stray" in the same loop when the node it works on  *)
(* has been freed.                                                         *)

Stage == {"none", "prune", "remove", "add", "stray"}

Job == [stage : Stage, row : Port \X ({DHCPS_PORT} \cup UdpPort),
        todo : SUBSET Server]

NoJob == [stage |-> "none"]

Start(stage, p, d, todo) == [stage |-> stage, row |-> <<p, d>>, todo |-> todo]

Idle(j) == j.stage = "none"

Init ==
  /\ dhcp = [p \in Port |-> NoRow]
  /\ udp = [p \in Port |-> [d \in UdpPort |-> {}]]
  /\ idl = NoChange
  /\ nodes = {}
  /\ arr = [p \in Port |-> <<>>]
  /\ gw = [p \in Port |-> NoIp]
  /\ refs = [s \in Server |-> 0]
  /\ leaked = [s \in Server |-> 0]
  /\ stray = [p \in Port |-> {}]
  /\ pc = "idle"
  /\ nodeWalk = {}
  /\ rowWalk = {}
  /\ job = NoJob

-----------------------------------------------------------------------------
(* OVSDB.  Transactions of the CLI or of any other client reach the IDL    *)
(* between two passes of the main loop, several of them possibly before    *)
(* the next pass: the flags accumulate.                                    *)

Bounded == \A s \in Server : leaked[s] < MaxLeak \/ MaxLeak = 0

WriteDhcpRow(p, row) ==
  /\ pc = "idle" /\ Bounded
  /\ dhcp[p] # row
  /\ dhcp' = [dhcp EXCEPT ![p] = row]
  /\ idl' = [idl EXCEPT
       !.dhcpDeleted     = @ \/ row = NoRow,
       !.dhcpChanged     = IF row = NoRow THEN @ \ {p} ELSE @ \cup {p},
       !.gwModified      = @ \/ row.gw # dhcp[p].gw,
       !.serversModified = @ \/ row.servers # dhcp[p].servers]
  /\ UNCHANGED <<udp, tableVars, walkVars, job>>

SetHelpers(p) ==
  \E S \in SUBSET HelperIp :
    /\ Cardinality(S) <= MaxHelpers
    /\ WriteDhcpRow(p, [dhcp[p] EXCEPT !.servers = S])

SetGateway(p) ==
  \E g \in GatewayIp \cup {NoIp, BadIp} :
    WriteDhcpRow(p, [dhcp[p] EXCEPT !.gw = g])

\* The forwarding servers of p over all its rows, which is what the CLI counts.
Forwards(p) == {s \in Server : s.udp_port \in UdpPort /\ s.ip \in udp[p][s.udp_port]}

SetForwards(p, d) ==
  \E S \in SUBSET ForwardIp :
    /\ pc = "idle" /\ Bounded
    /\ udp[p][d] # S
    /\ udp' = [udp EXCEPT ![p][d] = S]
    /\ Cardinality(Forwards(p)') <= MaxForwards
    /\ idl' = [idl EXCEPT
         !.udpDeleted = @ \/ S = {},
         !.udpChanged = IF S = {} THEN @ \ {<<p, d>>} ELSE @ \cup {<<p, d>>}]
    /\ UNCHANGED <<dhcp, tableVars, walkVars, job>>

-----------------------------------------------------------------------------
(* The locked operations.                                                  *)

\* Variants of udpfwd_remove_address with a plausible slip, for comparison:
\* the missing return after an entry was not found ...
RemoveAddressNoReturn(p, s) ==
  /\ refs' = [refs EXCEPT ![s] = @ - 1]
  /\ arr' = [arr EXCEPT ![p] = SelectSeq(@, LAMBDA t : t # s)]
  /\ UNCHANGED nodes

\* udpfwd_remove_address: a missing entry is an error that changes nothing;
\* a node left with no server and no gateway is freed with its array.
RemoveAddress(p, s) ==
  IF s \notin Range(arr[p])
  THEN UNCHANGED <<nodes, arr, refs>>
  ELSE LET left == DropSlot(arr[p], SlotOf(arr[p], s)) IN
       /\ refs' = [refs EXCEPT ![s] = @ - 1]
       /\ arr' = [arr EXCEPT ![p] = left]
       /\ nodes' = IF left = <<>> /\ gw[p] = NoIp THEN nodes \ {p} ELSE nodes

\* A variant that forgets to count a reference to an existing entry.
StoreAddressUncounted(p, s) ==
  IF Len(arr[p]) >= MaxServers
  THEN UNCHANGED <<arr, refs, stray>>
  ELSE /\ refs' = [refs EXCEPT ![s] = 1]
       /\ arr' = [arr EXCEPT ![p] = Append(@, s)]
       /\ stray' = [stray EXCEPT ![p] = @ \ {s}]

\* udpfwd_store_address: a full array refuses the server, for good.
StoreAddress(p, s) ==
  IF Len(arr[p]) >= MaxServers
  THEN UNCHANGED <<arr, refs, stray>>
  ELSE /\ refs' = [refs EXCEPT ![s] = @ + 1]
       /\ arr' = [arr EXCEPT ![p] = Append(@, s)]
       /\ stray' = [stray EXCEPT ![p] = @ \ {s}]

-----------------------------------------------------------------------------
(* udpfwd_reconfigure: the DHCP table, then the UDP table; in each the     *)
(* row-delete walk first when rows were deleted or none is left, then      *)
(* every changed row, in the order of the IDL's hash.                      *)

Pending == idl # NoChange

BeginReconfigure ==
  /\ pc = "idle" /\ Pending
  /\ pc' = "dhcp"
  /\ nodeWalk' = IF idl.dhcpDeleted \/ \A p \in Port : ~HasDhcpRow(p)
                 THEN nodes ELSE {}
  /\ rowWalk' = idl.dhcpChanged \X {DHCPS_PORT}
  /\ UNCHANGED <<dbVars, idl, tableVars, job>>

TableDone(table) ==
  pc = table /\ nodeWalk = {} /\ rowWalk = {} /\ Idle(job)

BeginUdpTable ==
  /\ TableDone("dhcp")
  /\ pc' = "udp"
  /\ nodeWalk' = IF idl.udpDeleted \/ \A p \in Port : ~HasUdpRow(p)
                 THEN nodes ELSE {}
  /\ rowWalk' = idl.udpChanged
  /\ UNCHANGED <<dbVars, idl, tableVars, job>>

\* relay_run records the sequence number it has caught up with.
EndReconfigure ==
  /\ TableDone("udp")
  /\ pc' = "idle"
  /\ idl' = NoChange
  /\ UNCHANGED <<dbVars, tableVars, nodeWalk, rowWalk, job>>

\* A row stands for a node when its port's name is a prefix of the node's.
DhcpRowFound(n) == \E p \in Port : HasDhcpRow(p) /\ <<p, n>> \in NamePrefix

UdpRowFound(n, s) ==
  \E p \in Port : <<p, n>> \in NamePrefix /\ s.ip \in udp[p][s.udp_port]

\* A variant that leaves the bootp gateway of a deleted row behind.
DhcpRowDeleteKeepGateway(p) ==
  /\ pc = "dhcp" /\ Idle(job) /\ p \in nodeWalk
  /\ nodeWalk' = nodeWalk \ {p}
  /\ job' = IF DhcpRowFound(p) THEN job
            ELSE Start("prune", p, DHCPS_PORT,
                       {s \in Range(arr[p]) : s.udp_port = DHCPS_PORT})
  /\ UNCHANGED <<dbVars, idl, tableVars, pc, rowWalk>>

DhcpRowDelete(p) ==
  /\ pc = "dhcp" /\ Idle(job) /\ p \in nodeWalk
  /\ nodeWalk' = nodeWalk \ {p}
  /\ IF DhcpRowFound(p)
     THEN UNCHANGED <<gw, job>>
     ELSE /\ gw' = [gw EXCEPT ![p] = NoIp]
          /\ job' = Start("prune", p, DHCPS_PORT,
                          {s \in Range(arr[p]) : s.udp_port = DHCPS_PORT})
  /\ UNCHANGED <<dbVars, idl, nodes, arr, refs, leaked, stray, pc, rowWalk>>

UdpRowDelete(p) ==
  /\ pc = "udp" /\ Idle(job) /\ p \in nodeWalk
  /\ nodeWalk' = nodeWalk \ {p}
  /\ job' = Start("prune", p, DHCPS_PORT,
                  {s \in Range(arr[p]) :
                     s.udp_port # DHCPS_PORT /\ ~UdpRowFound(p, s)})
  /\ UNCHANGED <<dbVars, idl, tableVars, pc, rowWalk>>

\* The entry of row <<p, d>>'s port for address i.
Entry(i, d) == [ip |-> i, udp_port |-> d]

\* A variant that flushes every helper address and stores the row afresh.
DhcpConfigChangeFlush(p) ==
  /\ pc = "dhcp" /\ Idle(job) /\ nodeWalk = {} /\ <<p, DHCPS_PORT>> \in rowWalk
  /\ rowWalk' = rowWalk \ {<<p, DHCPS_PORT>>}
  /\ nodes' = nodes \cup {p}
  /\ job' = Start("remove", p, DHCPS_PORT,
                  {s \in Range(arr[p]) : s.udp_port = DHCPS_PORT})
  /\ UNCHANGED <<dbVars, idl, arr, gw, refs, leaked, stray, pc, nodeWalk>>

\* A changed DHCP_Relay row: the node is found or made, the gateway taken if
\* any row's other_config changed, and every address of the array that is
\* not in the row, whatever its UDP port, marked for removal as a DHCP server.
DhcpConfigChange(p) ==
  /\ pc = "dhcp" /\ Idle(job) /\ nodeWalk = {} /\ <<p, DHCPS_PORT>> \in rowWalk
  /\ rowWalk' = rowWalk \ {<<p, DHCPS_PORT>>}
  /\ nodes' = nodes \cup {p}
  /\ gw' = IF idl.gwModified /\ dhcp[p].gw # BadIp
           THEN [gw EXCEPT ![p] = dhcp[p].gw] ELSE gw
  /\ job' = IF idl.serversModified
            THEN Start("remove", p, DHCPS_PORT,
                       {Entry(s.ip, DHCPS_PORT) :
                          s \in {t \in Range(arr[p]) :
                                   t.ip \notin dhcp[p].servers}})
            ELSE job
  /\ UNCHANGED <<dbVars, idl, arr, refs, leaked, stray, pc, nodeWalk>>

UdpConfigChange(p, d) ==
  /\ pc = "udp" /\ Idle(job) /\ nodeWalk = {} /\ <<p, d>> \in rowWalk
  /\ rowWalk' = rowWalk \ {<<p, d>>}
  /\ nodes' = nodes \cup {p}
  /\ job' = Start("remove", p, d,
                  {s \in Range(arr[p]) : s.udp_port = d /\ s.ip \notin udp[p][d]})
  /\ UNCHANGED <<dbVars, idl, arr, gw, refs, leaked, stray, pc, nodeWalk>>

RemoveStep(s) ==
  /\ job.stage \in {"prune", "remove"} /\ s \in job.todo
  /\ RemoveAddress(job.row[1], s)
  /\ job' = [job EXCEPT !.todo = @ \ {s}]
  /\ UNCHANGED <<dbVars, idl, gw, leaked, stray, walkVars>>

\* A variant whose search starts one slot too late.
PresentSkipFirst(p, d, i) ==
  \E k \in 2 .. Len(arr[p]) :
    arr[p][k].ip = i /\ (d = DHCPS_PORT \/ arr[p][k].udp_port = d)

\* Whether the add loop takes address i as already there: a DHCP row looks
\* at the addresses of the array only, a forwarder row at the port too.
Present(p, d, i) ==
  \E s \in Range(arr[p]) : s.ip = i /\ (d = DHCPS_PORT \/ s.udp_port = d)

\* All removals done, collect what is new in the row.  When the removals
\* freed the node, its memory still reads as an empty node and the new
\* servers go to an array nothing refers to.
CollectAdded ==
  /\ job.stage = "remove" /\ job.todo = {}
  /\ LET p == job.row[1]
         d == job.row[2]
         new == {i \in RowIps(p, d) : ~Present(p, d, i)}
     IN job' = [job EXCEPT !.stage = IF p \in nodes THEN "add" ELSE "stray",
                           !.todo = {Entry(i, d) : i \in new}]
  /\ UNCHANGED <<dbVars, idl, tableVars, walkVars>>

AddStep(s) ==
  /\ job.stage = "add" /\ s \in job.todo
  /\ StoreAddress(job.row[1], s)
  /\ job' = [job EXCEPT !.todo = @ \ {s}]
  /\ UNCHANGED <<dbVars, idl, nodes, gw, leaked, walkVars>>

StrayStep(s) ==
  /\ job.stage = "stray" /\ s \in job.todo
  /\ refs' = [refs EXCEPT ![s] = @ + 1]
  /\ leaked' = [leaked EXCEPT ![s] = @ + 1]
  /\ stray' = [stray EXCEPT ![job.row[1]] = @ \cup {s}]
  /\ job' = [job EXCEPT !.todo = @ \ {s}]
  /\ UNCHANGED <<dbVars, idl, nodes, arr, gw, walkVars>>

\* A handler returns.
EndJob ==
  /\ job.stage \in {"prune", "add", "stray"} /\ job.todo = {}
  /\ job' = NoJob
  /\ UNCHANGED <<dbVars, idl, tableVars, walkVars>>

\* The daemon dies, at any point, and is started again: its tables are gone
\* and its IDL sees every row as inserted.  Working on freed memory can end
\* this way too.
Restart ==
  /\ idl' = AllInserted
  /\ nodes' = {}
  /\ arr' = [p \in Port |-> <<>>]
  /\ gw' = [p \in Port |-> NoIp]
  /\ refs' = [s \in Server |-> 0]
  /\ leaked' = [s \in Server |-> 0]
  /\ stray' = [p \in Port |-> {}]
  /\ pc' = "idle" /\ nodeWalk' = {} /\ rowWalk' = {}
  /\ job' = NoJob
  /\ UNCHANGED dbVars

MainThread ==
  \/ BeginReconfigure \/ BeginUdpTable \/ EndReconfigure
  \/ \E p \in Port : DhcpRowDelete(p) \/ UdpRowDelete(p) \/ DhcpConfigChange(p)
  \/ \E p \in Port, d \in UdpPort : UdpConfigChange(p, d)
  \/ \E s \in Server : RemoveStep(s) \/ AddStep(s) \/ StrayStep(s)
  \/ CollectAdded
  \/ EndJob

Ovsdb ==
  \/ \E p \in Port : SetHelpers(p) \/ SetGateway(p)
  \/ \E p \in Port, d \in UdpPort : SetForwards(p, d)

Next == MainThread \/ Ovsdb \/ Restart

\* The main loop polls for ever; operators and crashes owe nothing.
Spec == Init /\ [][Next]_vars /\ WF_vars(MainThread)

-----------------------------------------------------------------------------
(* Properties.                                                             *)

\* Types, and the shape of the tables: a port without a node has no array
\* and no gateway, and an array never outgrows its allocation of slots.
TypeOK ==
  /\ dhcp \in [Port -> DhcpRow]
  /\ udp \in [Port -> [UdpPort -> SUBSET ForwardIp]]
  /\ idl \in [dhcpDeleted : BOOLEAN, dhcpChanged : SUBSET Port,
              gwModified : BOOLEAN, serversModified : BOOLEAN,
              udpDeleted : BOOLEAN, udpChanged : SUBSET (Port \X UdpPort)]
  /\ nodes \subseteq Port
  /\ arr \in [Port -> Seq(Server)]
  /\ \A p \in Port : Len(arr[p]) <= MaxServers
  /\ gw \in [Port -> GatewayIp \cup {NoIp}]
  /\ \A p \in Port \ nodes : arr[p] = <<>> /\ gw[p] = NoIp
  /\ refs \in [Server -> Nat]
  /\ leaked \in [Server -> Nat]
  /\ stray \in [Port -> SUBSET Server]
  /\ pc \in {"idle", "dhcp", "udp"}
  /\ nodeWalk \subseteq Port
  /\ rowWalk \subseteq Port \X ({DHCPS_PORT} \cup UdpPort)
  /\ job \in Job \cup {NoJob}

\* udpfwd_store_address never checks for a duplicate: that no interface ever
\* holds a server twice (and sends it every packet twice) rests on what the
\* handlers collected before.
NoDuplicateRefs ==
  \A p \in Port : \A i, k \in DOMAIN arr[p] : arr[p][i] = arr[p][k] => i = k

\* The interfaces using a server.
Users(s) == {p \in Port : s \in Range(arr[p])}

\* The reference count of a server entry is the number of interfaces using
\* it plus the references lost in freed nodes: an entry referenced from an
\* array is never freed, and apart from lost references none outlives its
\* last user.
RefCountsExact ==
  \A s \in Server : refs[s] = Cardinality(Users(s)) + leaked[s]

\* What a handler under way has still to do, which makes the three properties
\* above inductive: it removes only servers that are not configured, adds
\* only servers that are, never one the array already has, and the rows do
\* not change under it.
HandlerInv ==
  /\ ~Idle(job) => pc # "idle"
  /\ job.stage \in {"prune", "remove"} =>
       job.todo \cap Configured(job.row[1]) = {}
  /\ job.stage \in {"add", "stray"} => job.todo \subseteq Configured(job.row[1])
  /\ job.stage = "add" => /\ job.row[1] \in nodes
                          /\ job.todo \cap Range(arr[job.row[1]]) = {}

IInv == TypeOK /\ NoDuplicateRefs /\ RefCountsExact /\ HandlerInv

\* With nothing left to handle, every interface has exactly the configured
\* servers, but for those stored through a freed node, and its gateway.
CaughtUp == pc = "idle" /\ ~Pending

Synced(p) ==
  /\ Range(arr[p]) = Configured(p) \ stray[p]
  /\ dhcp[p].gw # BadIp => gw[p] = dhcp[p].gw

Converged == CaughtUp => \A p \in Port : Synced(p)

\* The same without the exception: the local database is up to date.
LocalDbUpdated == CaughtUp => \A p \in Port : Range(arr[p]) = Configured(p)

\* Each step of the daemon moves its table towards the configuration.
RT == INSTANCE RelayTable WITH
        config <- [p \in Port |-> Configured(p)],
        table  <- [p \in Port |-> Range(arr[p])]

ImplementsRelayTable == RT!Spec
=============================================================================
