----------------------------- MODULE RelayPackets -----------------------------
(***************************************************************************)
(* DHCP packets on their way between clients, relays and a server, while   *)
(* addresses move, interfaces are configured, packets are lost and         *)
(* receivers end.  A receiver handles a request in the steps between which *)
(* what it has read may change: addresses at any time, bootp_gw and the    *)
(* features although it holds the semaphore.  A reply is one step.  The    *)
(* options of a packet are Option82's subject: here it has room for one.   *)
(***************************************************************************)
EXTENDS Integers, Sequences, FiniteSets, SequencesExt

CONSTANTS
  Relay,         \* switches that run ops-relay
  Interface,     \* their interfaces
  Clients,       \* interfaces whose subnet has clients
  RelayOf,       \* RelayOf[i]: the switch of interface i
  NoInterface,   \* where an address is that no interface has
  Address,       \* addresses as s_addr, which is what is compared: not 0
  Home,          \* Home[a]: where address a is at first
  Places,        \* Places[a]: where it may be
  Server,        \* the address of a DHCP server
  Nodes,         \* Nodes[i]: nodes that i may have, [servers, bootp_gw]
  NoNode,        \* no node
  NoJob,         \* what a receiver does between packets
  Features,      \* Features[r]: what r may have, a set of FeatureConfig
  Default,       \* the features a daemon starts with
  Unaddressed,   \* interfaces whose clients get ACKs without yiaddr and ciaddr
  Failing,       \* relays whose receiver may end
  MaxHops,       \* UDPFWD_DHCP_MAX_HOPS
  Capacity,      \* packets the socket of a relay can hold
  MaxUnderWay    \* bound: clients send while fewer packets are under way

FeatureConfig ==
  [relay : BOOLEAN, hops : BOOLEAN, option82 : BOOLEAN, validate : BOOLEAN,
   policy : {"KEEP", "DROP", "REPLACE"}, remoteId : {"MAC", "IP"}]

ASSUME PacketsAssumption ==
  /\ RelayOf \in [Interface -> Relay] /\ NoInterface \notin Interface
  /\ Address \subseteq Nat \ {0} /\ IsFiniteSet(Address) /\ Server \notin Address
  /\ Places \in [Address -> SUBSET (Interface \cup {NoInterface})]
  /\ Home \in [Address -> Interface \cup {NoInterface}]
  /\ \A a \in Address : Home[a] \in Places[a]
  /\ Nodes \in [Interface -> SUBSET [servers : SUBSET (Address \cup {Server}),
                                     bootp_gw : Address \cup {0}]]
  /\ \A i \in Interface : NoNode \notin Nodes[i]
  /\ Features \in [Relay -> SUBSET FeatureConfig]
  /\ \A r \in Relay : Default \in Features[r]
  /\ Clients \subseteq Interface /\ Unaddressed \subseteq Clients /\ Failing \subseteq Relay
  /\ MaxHops \in Nat /\ Capacity \in Nat \ {0} /\ MaxUnderWay \in Nat \ {0}

VARIABLES
  at,        \* at[a]: the interface that has address a
  node,      \* node[i]: the entry of i in intfHashTable
  feature,   \* feature[r]: feature_config
  alive,     \* relays whose receiver thread runs
  inbox,     \* inbox[r]: packets in the socket of r, oldest first
  job        \* job[r]: the request that the receiver of r is relaying

vars == <<at, node, feature, alive, inbox, job>>

\* A packet. The remote ID of its Option 82 is an address, the MAC address of an
\* interface, which the interface stands for, or 0 without the option. No relay
\* reads the last two fields: origin is the interface whose client the exchange is
\* with, and astray says that the address which is or was to be giaddr has moved
\* since a relay read it, or that the gateway was written as it was being stamped.
Packet ==
  [op : {"BOOTREQUEST", "BOOTREPLY"}, giaddr : Address \cup {0}, hops : 0..MaxHops + 1,
   remote : Address \cup Interface \cup {0}, origin : Interface, astray : BOOLEAN]

\* A request m from interface i, and the lowest address ip that i had. It waits for
\* the lock, for the test of the interface's gateway, and to be stamped with it.
\* No relay reads stale, which makes the packet go astray.
Job ==
  [stage : {"lock", "gateway", "stamp"}, m : Packet, i : Interface, ip : Address,
   stale : BOOLEAN]

Init ==
  /\ at = Home
  /\ node = [i \in Interface |-> NoNode]
  /\ feature = [r \in Relay |-> Default]
  /\ alive = Relay
  /\ inbox = [r \in Relay |-> <<>>]
  /\ job = [r \in Relay |-> NoJob]

-----------------------------------------------------------------------------
(* Networks, clients, the server and the configuration.                    *)

\* The relay that has an address, if any.
HasAddress(r, a) == at[a] # NoInterface /\ RelayOf[at[a]] = r

\* What does not fit into a socket's buffer is lost.
Put(box, packets) ==
  LET all == box \o packets
  IN IF Len(all) > Capacity THEN SubSeq(all, 1, Capacity) ELSE all

\* Packets in sockets and jobs.
UnderWay ==
  Cardinality(UNION {{r} \X DOMAIN inbox[r] : r \in Relay})
    + Cardinality({r \in Relay : job[r] # NoJob})

\* A client broadcasts a request, for the first time or again.
ClientSends(i) ==
  /\ UnderWay < MaxUnderWay
  /\ Len(inbox[RelayOf[i]]) < Capacity
  /\ inbox' = [inbox EXCEPT ![RelayOf[i]] =
       Append(@, [op |-> "BOOTREQUEST", giaddr |-> 0, hops |-> 0, remote |-> 0,
                  origin |-> i, astray |-> FALSE])]
  /\ UNCHANGED <<at, node, feature, alive, job>>

Doing(r, stage) == job[r] # NoJob /\ job[r].stage = stage

\* The gateway of an interface, 0 if it has none.
Gateway(i) == IF node[i] = NoNode THEN 0 ELSE node[i].bootp_gw

\* The address that is, or is about to be, the giaddr of the request in a job.
Giaddr(j) ==
  CASE j.m.giaddr # 0 -> j.m.giaddr
    [] j.m.giaddr = 0 /\ j.stage = "stamp" -> Gateway(j.i)
    [] OTHER -> j.ip

\* An address is taken from one interface and given to another, or to none.
AddressMoves ==
  \E a \in Address : \E i \in Places[a] \ {at[a]} :
    /\ at' = [at EXCEPT ![a] = i]
    /\ inbox' = [r \in Relay |-> [k \in DOMAIN inbox[r] |->
         IF inbox[r][k].giaddr = a THEN [inbox[r][k] EXCEPT !.astray = TRUE]
         ELSE inbox[r][k]]]
    /\ job' = [r \in Relay |->
         IF job[r] # NoJob /\ Giaddr(job[r]) = a THEN [job[r] EXCEPT !.stale = TRUE]
         ELSE job[r]]
    /\ UNCHANGED <<node, feature, alive>>

\* A receiver has the semaphore from its search for the node to its last send.
HoldsLock(r) == Doing(r, "gateway") \/ Doing(r, "stamp")

\* The main thread follows the rows of an interface. Servers and nodes go, and
\* servers come, with the semaphore; a node comes, and a gateway is written, without.
ConfigureInterface ==
  \E i \in Interface : \E n \in (Nodes[i] \cup {NoNode}) \ {node[i]} :
    /\ HoldsLock(RelayOf[i]) =>
         n # NoNode /\ n.servers = IF node[i] = NoNode THEN {} ELSE node[i].servers
    /\ node' = [node EXCEPT ![i] = n]
    /\ job' = [r \in Relay |->
         IF Doing(r, "stamp") /\ job[r].i = i THEN [job[r] EXCEPT !.stale = TRUE]
         ELSE job[r]]
    /\ UNCHANGED <<at, feature, alive, inbox>>

\* The main thread follows the System row.
ConfigureFeatures ==
  /\ \E r \in Relay : \E f \in Features[r] : feature' = [feature EXCEPT ![r] = f]
  /\ UNCHANGED <<at, node, alive, inbox, job>>

\* The networks lose a packet.
PacketLost(r) ==
  /\ \E k \in DOMAIN inbox[r] : inbox' = [inbox EXCEPT ![r] = RemoveAt(@, k)]
  /\ UNCHANGED <<at, node, feature, alive, job>>

\* recvmsg fails: the thread returns, and the main thread goes on without it.
ReceiverEnds(r) ==
  /\ r \in Failing /\ job[r] = NoJob
  /\ alive' = alive \ {r}
  /\ UNCHANGED <<at, node, feature, inbox, job>>

Restart(r) ==
  /\ alive' = alive \cup {r}
  /\ inbox' = [inbox EXCEPT ![r] = <<>>]
  /\ job' = [job EXCEPT ![r] = NoJob]
  /\ node' = [i \in Interface |-> IF RelayOf[i] = r THEN NoNode ELSE node[i]]
  /\ feature' = [feature EXCEPT ![r] = Default]
  /\ UNCHANGED at

-----------------------------------------------------------------------------
(* The receiver.                                                           *)

\* getLowestIpOnInterface.
LowestIp(i) ==
  LET ips == {a \in Address : at[a] = i}
  IN IF ips = {} THEN 0 ELSE CHOOSE a \in ips : \A b \in ips : a <= b

\* The remote ID of an option that relay r adds. It is bootp_gw whether or not
\* the interface has that address.
RemoteId(r, j) ==
  CASE feature[r].remoteId = "MAC" -> j.i
    [] feature[r].remoteId = "IP" /\ Gateway(j.i) # 0 -> Gateway(j.i)
    [] OTHER -> j.ip

\* A request gets an option if it has none, or another by the policy.
Remote(r, j) ==
  IF feature[r].option82 /\ (j.m.remote = 0 \/ feature[r].policy = "REPLACE")
  THEN RemoteId(r, j) ELSE j.m.remote

\* A variant that has each request stamped anew.
RewrittenAnew(r, j) ==
  [j.m EXCEPT !.hops = IF feature[r].hops THEN @ + 1 ELSE @, !.remote = Remote(r, j),
              !.giaddr = 0]

\* A variant that takes the features for the switch "disabled".
RewrittenSwapped(r, j) ==
  [j.m EXCEPT !.hops = IF feature[r].hops THEN @ ELSE @ + 1, !.remote = Remote(r, j)]

\* The request with its hops and its options as it is relayed.
Rewritten(r, j) ==
  [j.m EXCEPT !.hops = IF feature[r].hops THEN @ + 1 ELSE @, !.remote = Remote(r, j)]

\* Where a request arrives: a broadcast on its client's interface, a packet to
\* an address of the relay on any.
Arrival(r, m) ==
  {i \in Interface : RelayOf[i] = r /\ (m.giaddr = 0 /\ ~m.astray => i = m.origin)}

\* What request m, sent to each of the servers, brings into the socket of q. Each
\* helper of another relay gets a copy, and the relay that has giaddr gets the
\* server's reply, after the copies to some of them. A packet a relay sends to
\* itself arrives on the loopback interface, which has no node.
Arriving(q, r, m, servers, some) ==
  LET helpers == {b \in servers \cap Address : q # r /\ HasAddress(q, b)}
      copies(set) == [k \in 1..Cardinality(set) |-> m]
      reply == [m EXCEPT !.op = "BOOTREPLY"]
      answered == Server \in servers /\ m.giaddr # 0 /\ HasAddress(q, m.giaddr)
  IN copies(helpers \cap some) \o (IF answered THEN <<reply>> ELSE <<>>)
       \o copies(helpers \ some)

\* Request m of a job is sent to each server of the interface.
Send(r, m) ==
  LET servers == node[job[r].i].servers
      sent == [m EXCEPT !.astray = @ \/ job[r].stale]
  IN /\ \E some \in SUBSET (servers \cap Address) :
          inbox' = [q \in Relay |-> Put(inbox[q], Arriving(q, r, sent, servers, some))]
     /\ job' = [job EXCEPT ![r] = NoJob]

Receives(r, op) ==
  r \in alive /\ job[r] = NoJob /\ inbox[r] # <<>> /\ Head(inbox[r]).op = op
Taken(r) == [inbox EXCEPT ![r] = Tail(@)]

\* udpfwd_relay_to_dhcp_server, which reads its interface's lowest address and
\* then waits for the lock. Early returns drop the request.
TakeRequest(r) ==
  /\ Receives(r, "BOOTREQUEST")
  /\ inbox' = Taken(r)
  /\ \E i \in Arrival(r, Head(inbox[r])) :
       LET m == Head(inbox[r]) IN
       job' = IF feature[r].relay /\ LowestIp(i) # 0 /\ m.hops <= MaxHops
              THEN [job EXCEPT ![r] = [stage |-> "lock", m |-> m, i |-> i,
                                       ip |-> LowestIp(i), stale |-> FALSE]]
              ELSE job
  /\ UNCHANGED <<at, node, feature, alive>>

\* With the lock: the node must be there, and the policy may drop the request.
RequestPasses(r, j) ==
  /\ node[j.i] # NoNode
  /\ feature[r].option82 /\ j.m.remote # 0 => feature[r].policy # "DROP"

DropRequest(r) ==
  /\ Doing(r, "lock") /\ ~RequestPasses(r, job[r])
  /\ job' = [job EXCEPT ![r] = NoJob]
  /\ UNCHANGED <<at, node, feature, alive, inbox>>

\* The hops and the options are rewritten; a request that has a giaddr keeps it.
RewriteRequest(r) ==
  /\ Doing(r, "lock") /\ RequestPasses(r, job[r])
  /\ LET m == Rewritten(r, job[r]) IN
     IF m.giaddr # 0 THEN Send(r, m)
     ELSE /\ job' = [job EXCEPT ![r].stage = "gateway", ![r].m = m]
          /\ UNCHANGED inbox
  /\ UNCHANGED <<at, node, feature, alive>>

\* The giaddr will be bootp_gw if the interface has that address
\* (ipExistsOnInterface), and is the address read before the lock if not.
TestGateway(r) ==
  /\ Doing(r, "gateway")
  /\ LET j == job[r] IN
     IF Gateway(j.i) # 0 /\ at[Gateway(j.i)] = j.i
     THEN /\ job' = [job EXCEPT ![r].stage = "stamp", ![r].stale = FALSE]
          /\ UNCHANGED inbox
     ELSE Send(r, [j.m EXCEPT !.giaddr = j.ip])
  /\ UNCHANGED <<at, node, feature, alive>>

\* bootp_gw is read again to be stamped, whatever it is by now.
StampGateway(r) ==
  /\ Doing(r, "stamp")
  /\ Send(r, [job[r].m EXCEPT !.giaddr = Gateway(job[r].i)])
  /\ UNCHANGED <<at, node, feature, alive>>

\* A variant that compares with the address a request gets by default.
RemoteValidLowest(r, m, i) ==
  CASE feature[r].remoteId = "MAC" -> m.remote = i
    [] feature[r].remoteId = "IP"  -> m.remote = LowestIp(i)

\* dhcp_relay_validate_agent_option: by what relay r has, and is, now.
RemoteValid(r, m, i) ==
  CASE feature[r].remoteId = "MAC" -> m.remote = i
    [] feature[r].remoteId = "IP"  -> m.remote \in Address /\ at[m.remote] = i

\* getIfIndexfromIpAddress: the interface that has giaddr now.
ReplyPasses(r, m, i) ==
  /\ feature[r].relay
  /\ at[m.giaddr] = i /\ RelayOf[i] = r
  /\ node[i] # NoNode
  /\ feature[r].option82 /\ feature[r].validate => RemoteValid(r, m, i)
  /\ m.origin \notin Unaddressed

\* udpfwd_relay_to_dhcp_client: the reply goes out on interface i.
RelayToClient(r, i) ==
  /\ Receives(r, "BOOTREPLY") /\ ReplyPasses(r, Head(inbox[r]), i)
  /\ inbox' = Taken(r)
  /\ UNCHANGED <<at, node, feature, alive, job>>

DropReply(r) ==
  /\ Receives(r, "BOOTREPLY")
  /\ \A i \in Interface : ~ReplyPasses(r, Head(inbox[r]), i)
  /\ inbox' = Taken(r)
  /\ UNCHANGED <<at, node, feature, alive, job>>

Receive(r) ==
  \/ TakeRequest(r) \/ DropRequest(r) \/ RewriteRequest(r)
  \/ TestGateway(r) \/ StampGateway(r)
  \/ \E i \in Interface : RelayToClient(r, i)
  \/ DropReply(r)

Next ==
  \/ \E i \in Clients : ClientSends(i)
  \/ AddressMoves \/ ConfigureInterface \/ ConfigureFeatures
  \/ \E r \in Relay : Receive(r) \/ PacketLost(r) \/ ReceiverEnds(r) \/ Restart(r)

\* A receiver goes on with its request and takes what is in its socket.
Spec == Init /\ [][Next]_vars /\ \A r \in Relay : WF_vars(Receive(r))

-----------------------------------------------------------------------------
(* Properties.                                                             *)

TypeOK ==
  /\ at \in [Address -> Interface \cup {NoInterface}]
  /\ \A a \in Address : at[a] \in Places[a]
  /\ DOMAIN node = Interface
  /\ \A i \in Interface : node[i] \in Nodes[i] \cup {NoNode}
  /\ feature \in [Relay -> UNION {Features[r] : r \in Relay}]
  /\ \A r \in Relay : feature[r] \in Features[r]
  /\ alive \subseteq Relay
  /\ inbox \in [Relay -> Seq(Packet)]
  /\ \A r \in Relay : Len(inbox[r]) <= Capacity
  /\ job \in [Relay -> Job \cup {NoJob}]

\* A giaddr that is not astray is an address of the interface the exchange began
\* on; a request without giaddr that is not astray comes from a client, and a reply
\* has a giaddr.
GoodPacket(m) ==
  /\ m.giaddr # 0 /\ ~m.astray => at[m.giaddr] = m.origin
  /\ m.op = "BOOTREPLY" => m.giaddr # 0

\* A job relays a request, from its client's interface unless it has a giaddr or is
\* astray; and the address it will bear is one of that interface, unless stale.
GoodJob(j) ==
  /\ j.m.op = "BOOTREQUEST"
  /\ j.stage = "lock" => j.m.hops <= MaxHops
  /\ j.stage # "lock" => j.m.giaddr = 0 /\ node[j.i] # NoNode
  /\ j.m.giaddr = 0 /\ ~j.m.astray => j.i = j.m.origin
  /\ ~j.m.astray /\ ~j.stale => Giaddr(j) # 0 /\ at[Giaddr(j)] = j.m.origin

StampsHold ==
  /\ \A r \in Relay : inbox[r] \in Seq({m \in Packet : GoodPacket(m)})
  /\ \A r \in Relay : job[r] # NoJob => GoodJob(job[r]) /\ RelayOf[job[r].i] = r

\* A reply is sent where giaddr is when it arrives. That is its client's subnet,
\* however many relays the request passed and whatever was configured meanwhile,
\* unless the address that is its giaddr has moved since the first relay read it, or
\* that relay's gateway was written between its test and its use.
ReplyToItsClient ==
  [][\A r \in Relay, i \in Interface :
       RelayToClient(r, i) => Head(inbox[r]).astray \/ Head(inbox[r]).origin = i]_vars

\* Relays may name each other as helpers. Their requests come to an end even
\* while configurations change and addresses move, as long as all relays but one
\* count hops: no relay sends to itself.
RequestsEnd ==
  (/\ <>[][\A i \in Clients : ~ClientSends(i)]_vars
   /\ <>[](alive = Relay)
   /\ \E r \in Relay : <>[](\A q \in Relay \ {r} : feature[q].hops))
    => <>[](\A r \in Relay : inbox[r] = <<>> /\ job[r] = NoJob)

\* Under validation the addresses a relay puts into Option 82 have to be addresses
\* of the interface.
RemoteFits(r, i) ==
  feature[r].option82 /\ feature[r].validate /\ feature[r].remoteId = "IP"
    => Gateway(i) = 0 \/ at[Gateway(i)] = i

\* A client that goes on asking is answered again and again once no packet is
\* lost (but one that its receiver could drop), its interface keeps an address and a
\* node with the server, addresses, features and the interface's gateway rest, a
\* validated remote ID is the interface's, and its relay's socket has room whenever
\* the relay is done with a request.
Answered(i) ==
  LET r == RelayOf[i] IN
  (/\ []<><<ClientSends(i)>>_vars
   /\ <>[][UNCHANGED <<at, feature, Gateway(i)>>]_vars
   /\ <>[][job[r] # NoJob /\ job'[r] = NoJob => Len(inbox[r]) < Capacity]_vars
   /\ <>[][\A q \in Relay : PacketLost(q) => Receive(q)]_vars
   /\ <>[](/\ r \in alive /\ feature[r].relay
           /\ node[i] # NoNode /\ Server \in node[i].servers
           /\ RemoteFits(r, i)
           /\ LowestIp(i) # 0))
    => []<><<RelayToClient(r, i)>>_vars

ClientsAnswered == \A i \in Clients \ Unaddressed : Answered(i)
=============================================================================
