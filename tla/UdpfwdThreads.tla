---------------------------- MODULE UdpfwdThreads ----------------------------
(***************************************************************************)
(* The two threads of ops-relay at the grain of their memory accesses: the *)
(* main thread changing the interface table (udpfwd_config.c) and the      *)
(* packet receiver relaying packets by it (udpfwd_recv.c, udpfwd_xmit.c).  *)
(* Server arrays and server entries are changed under the semaphore        *)
(* waitSem; nodes are added, and bootp gateways written, without it.       *)
(* Which operations the main thread carries out is UdpfwdConfig's subject: *)
(* here it picks any that its handlers could, those on a node that a       *)
(* removal of the same handler has freed among them: its memory reads as   *)
(* an empty node still.                                                    *)
(***************************************************************************)
EXTENDS Naturals, Sequences, FiniteSets, Functions, ServerArray

CONSTANTS
  Port,         \* interfaces
  DhcpServer,   \* server entries for UDP port 67
  UdpServer,    \* server entries for a forwarded UDP port
  Gateway,      \* addresses used as bootp gateways
  InterfaceIp,  \* the lowest address of the receiving interface
  Null,         \* the NULL pointer, and the IP address 0
  MaxServers,   \* slots of a server array
  MaxLeak       \* bound: references to a server leaked through freed nodes

Server == DhcpServer \cup UdpServer

Slots == 1 .. MaxServers

ASSUME ThreadsAssumption ==
  /\ IsFiniteSet(Port) /\ DhcpServer \cap UdpServer = {}
  /\ Null \notin Server \cup Gateway \cup {InterfaceIp}
  /\ Null \notin [Slots -> Server \cup {Null}]
  /\ MaxServers \in Nat \ {0} /\ MaxLeak \in Nat

VARIABLES
  sem,    \* the value of waitSem
  node,   \* the interfaces with a node in intfHashTable
  gw,     \* gw[p]: bootp_gw of p's node, Null when 0 or without a node
  array,  \* array[p]: serverArray, a function of the slots, or Null
  count,  \* count[p]: addrCount
  refs,   \* refs[s]: ref_count of the entry of s, 0 when it is freed
  leaked, \* history: leaked[s], the references to s stored in freed nodes
  view,   \* history: view[p], the references in p's array when the main
          \*   thread last released the lock
  m,      \* the main thread: where it is, and its interface, server and slot
  r       \* the receiver: where it is, its packet and what it did with it

tables == <<node, gw, array, count, refs, leaked>>
vars == <<sem, tables, view, m, r>>

MainIdle == [pc |-> "idle"]

RecvIdle == [pc |-> "idle"]

Init ==
  /\ sem = 1
  /\ node = {}
  /\ gw = [p \in Port |-> Null]
  /\ array = [p \in Port |-> Null]
  /\ count = [p \in Port |-> 0]
  /\ refs = [s \in Server |-> 0]
  /\ leaked = [s \in Server |-> 0]
  /\ view = [p \in Port |-> <<>>]
  /\ m = MainIdle
  /\ r = RecvIdle

-----------------------------------------------------------------------------
(* The main thread, outside the lock.                                      *)

\* udpfwd_create_intferface_node: shash_add links the new node, and may move
\* every other node to a larger table, while "insert" lasts.
BeginInsert(p) ==
  /\ m = MainIdle /\ p \notin node
  /\ m' = [pc |-> "insert", p |-> p]
  /\ UNCHANGED <<sem, tables, view, r>>

EndInsert ==
  /\ m.pc = "insert"
  /\ node' = node \cup {m.p}
  /\ m' = MainIdle
  /\ UNCHANGED <<sem, gw, array, count, refs, leaked, view, r>>

\* A row's other_config changed, or the row was deleted.
WriteGateway(p) ==
  /\ m = MainIdle /\ p \in node
  /\ \E g \in Gateway \cup {Null} : gw' = [gw EXCEPT ![p] = g]
  /\ UNCHANGED <<sem, node, array, count, refs, leaked, view, m, r>>

\* The handlers call the locked operations with servers to store that the
\* array lacks, and servers to remove that it may lack.
Holds(p, s) == \E i \in 1 .. count[p] : array[p][i] = s

Servers(p) == [i \in 1 .. count[p] |-> array[p][i]]

BeginStore(p, s) ==
  /\ m = MainIdle /\ p \in node /\ ~Holds(p, s)
  /\ count[p] < MaxServers
  /\ m' = [pc |-> "store", p |-> p, s |-> s]
  /\ UNCHANGED <<sem, tables, view, r>>

\* A handler goes on with a node that it has seen freed.
Freed(p) == [pc |-> "freed", p |-> p]

BeginRemove(p, s) ==
  /\ (m = MainIdle /\ p \in node) \/ m = Freed(p)
  /\ m' = [pc |-> "remove", p |-> p, s |-> s]
  /\ UNCHANGED <<sem, tables, view, r>>

BeginStray(p, s) ==
  /\ m = Freed(p)
  /\ \A t \in Server : leaked[t] < MaxLeak
  /\ m' = [pc |-> "stray", p |-> p, s |-> s]
  /\ UNCHANGED <<sem, tables, view, r>>

EndHandler ==
  /\ m.pc = "freed"
  /\ m' = MainIdle
  /\ UNCHANGED <<sem, tables, view, r>>

-----------------------------------------------------------------------------
(* udpfwd_store_address, after its check of the array's limit.             *)

\* A variant that forgets to take the semaphore.
StoreWaitSkipped ==
  /\ m.pc = "store"
  /\ m' = [m EXCEPT !.pc = "alloc"]
  /\ UNCHANGED <<sem, tables, view, r>>

StoreWait ==
  /\ m.pc = "store" /\ sem > 0
  /\ sem' = sem - 1
  /\ m' = [m EXCEPT !.pc = "alloc"]
  /\ UNCHANGED <<tables, view, r>>

\* A variant that counts the first reference to an entry only.
AllocUncounted ==
  /\ m.pc = "alloc"
  /\ array' = IF array[m.p] = Null
              THEN [array EXCEPT ![m.p] = [i \in Slots |-> Null]] ELSE array
  /\ count' = IF array[m.p] = Null THEN [count EXCEPT ![m.p] = 0] ELSE count
  /\ refs' = [refs EXCEPT ![m.s] = 1]
  /\ m' = [m EXCEPT !.pc = "slot"]
  /\ UNCHANGED <<sem, node, gw, leaked, view, r>>

\* malloc leaves the slots uninitialised; Null stands for what they hold.
Alloc ==
  /\ m.pc = "alloc"
  /\ array' = IF array[m.p] = Null
              THEN [array EXCEPT ![m.p] = [i \in Slots |-> Null]] ELSE array
  /\ count' = IF array[m.p] = Null THEN [count EXCEPT ![m.p] = 0] ELSE count
  /\ refs' = [refs EXCEPT ![m.s] = @ + 1]
  /\ m' = [m EXCEPT !.pc = "slot"]
  /\ UNCHANGED <<sem, node, gw, leaked, view, r>>

\* A variant that counts the new server before its slot is written, and
\* writes the slot with the semaphore already posted.
SetSlotAfterPost ==
  /\ m.pc \in {"slot", "late"}
  /\ IF m.pc = "slot"
     THEN /\ count' = [count EXCEPT ![m.p] = @ + 1]
          /\ sem' = sem + 1
          /\ m' = [m EXCEPT !.pc = "late"]
          /\ UNCHANGED array
     ELSE /\ array' = [array EXCEPT ![m.p][count[m.p]] = m.s]
          /\ m' = MainIdle
          /\ UNCHANGED <<count, sem>>
  /\ UNCHANGED <<node, gw, refs, leaked, view, r>>

SetSlot ==
  /\ m.pc = "slot"
  /\ array' = [array EXCEPT ![m.p][count[m.p] + 1] = m.s]
  /\ m' = [m EXCEPT !.pc = "count"]
  /\ UNCHANGED <<sem, node, gw, count, refs, leaked, view, r>>

IncCount ==
  /\ m.pc = "count"
  /\ count' = [count EXCEPT ![m.p] = @ + 1]
  /\ m' = [m EXCEPT !.pc = "post"]
  /\ UNCHANGED <<sem, node, gw, array, refs, leaked, view, r>>

\* The same through a freed node, which nothing finds any more: the array and
\* the count that are written are its memory's.
StrayWait ==
  /\ m.pc = "stray" /\ sem > 0
  /\ sem' = sem - 1
  /\ m' = [m EXCEPT !.pc = "leak"]
  /\ UNCHANGED <<tables, view, r>>

Leak ==
  /\ m.pc = "leak"
  /\ refs' = [refs EXCEPT ![m.s] = @ + 1]
  /\ leaked' = [leaked EXCEPT ![m.s] = @ + 1]
  /\ m' = [m EXCEPT !.pc = "post"]
  /\ UNCHANGED <<sem, node, gw, array, count, view, r>>

-----------------------------------------------------------------------------
(* udpfwd_remove_address.                                                  *)

RemoveWait ==
  /\ m.pc = "remove" /\ sem > 0
  /\ sem' = sem - 1
  /\ m' = [m EXCEPT !.pc = "find"]
  /\ UNCHANGED <<tables, view, r>>

\* A variant that returns without posting when there is no such entry.
NotFoundNoPost ==
  /\ m.pc = "find" /\ ~Holds(m.p, m.s)
  /\ m' = MainIdle
  /\ UNCHANGED <<sem, tables, view, r>>

NotFound ==
  /\ m.pc = "find" /\ ~Holds(m.p, m.s)
  /\ m' = [m EXCEPT !.pc = "post"]
  /\ UNCHANGED <<sem, tables, view, r>>

\* The entry loses a reference, and is freed with the last one, while the
\* slot still points to it.
Unref ==
  /\ m.pc = "find" /\ Holds(m.p, m.s)
  /\ refs' = [refs EXCEPT ![m.s] = @ - 1]
  /\ \E i \in 1 .. count[m.p] :
       /\ array[m.p][i] = m.s /\ \A k \in 1 .. i - 1 : array[m.p][k] # m.s
       /\ m' = [pc |-> "clear", p |-> m.p, s |-> m.s, i |-> i]
  /\ UNCHANGED <<sem, node, gw, array, count, leaked, view, r>>

Clear ==
  /\ m.pc = "clear"
  /\ array' = [array EXCEPT ![m.p][m.i] = Null]
  /\ m' = [m EXCEPT !.pc = "dec"]
  /\ UNCHANGED <<sem, node, gw, count, refs, leaked, view, r>>

\* A variant that leaves the hole where it is unless the array is empty.
DecCountKeepHole ==
  /\ m.pc = "dec"
  /\ count' = [count EXCEPT ![m.p] = @ - 1]
  /\ m' = [m EXCEPT !.pc = IF count[m.p] = 1 THEN "free" ELSE "post"]
  /\ UNCHANGED <<sem, node, gw, array, refs, leaked, view, r>>

DecCount ==
  /\ m.pc = "dec"
  /\ count' = [count EXCEPT ![m.p] = @ - 1]
  /\ m' = [m EXCEPT !.pc =
       IF m.i = 1 /\ count[m.p] = 1 THEN "free" ELSE "push"]
  /\ UNCHANGED <<sem, node, gw, array, refs, leaked, view, r>>

\* udpfwd_push_deleted_server_ref_to_end.
Push ==
  /\ m.pc = "push"
  /\ array' = [array EXCEPT
       ![m.p] = [@ EXCEPT ![count[m.p] + 1] = Null,
                          ![m.i] = array[m.p][count[m.p] + 1]]]
  /\ m' = [m EXCEPT !.pc = "free"]
  /\ UNCHANGED <<sem, node, gw, count, refs, leaked, view, r>>

\* An empty array is freed, and the node with it when it has no gateway.
Free ==
  /\ m.pc = "free"
  /\ IF array[m.p][1] = Null /\ count[m.p] = 0
     THEN /\ array' = [array EXCEPT ![m.p] = Null]
          /\ node' = IF gw[m.p] = Null THEN node \ {m.p} ELSE node
     ELSE UNCHANGED <<array, node>>
  /\ m' = [m EXCEPT !.pc = "post"]
  /\ UNCHANGED <<sem, gw, count, refs, leaked, view, r>>

MainPost ==
  /\ m.pc = "post"
  /\ sem' = sem + 1
  /\ view' = [view EXCEPT ![m.p] = Servers(m.p)]
  /\ m' = IF m.p \in node THEN MainIdle ELSE Freed(m.p)
  /\ UNCHANGED <<tables, r>>

-----------------------------------------------------------------------------
(* The receiver: one packet at a time through udpfwd_ctrl.  A "request" is *)
(* a BOOTREQUEST, a "reply" a BOOTREPLY whose giaddr is an address of the  *)
(* interface p, a "broadcast" any other UDP packet.  Packets dropped       *)
(* before the lock is taken (feature off, hops, no interface address)      *)
(* leave the receiver idle.                                                *)

Kind == {"request", "reply", "broadcast"}

\* The servers a packet of this kind received on p goes to.
Wanted(kind) == CASE kind = "request"   -> DhcpServer
                  [] kind = "broadcast" -> UdpServer
                  [] kind = "reply"     -> {}

Receive(p, kind) ==
  /\ r = RecvIdle
  /\ \E giaddr \in IF kind = "request" THEN {Null, "other relay"} ELSE {Null} :
       r' = [pc |-> "wait", p |-> p, kind |-> kind, giaddr |-> giaddr]
  /\ UNCHANGED <<sem, tables, view, m>>

\* A variant of the receiver that reads the table without the semaphore.
RecvWaitSkipped ==
  /\ r.pc = "wait"
  /\ r' = [r EXCEPT !.pc = "lookup"]
  /\ UNCHANGED <<sem, tables, view, m>>

RecvWait ==
  /\ r.pc = "wait" /\ sem > 0
  /\ sem' = sem - 1
  /\ r' = [r EXCEPT !.pc = "lookup"]
  /\ UNCHANGED <<tables, view, m>>

\* shash_find.  During an insertion it may miss a node that is there.
Lookup ==
  /\ r.pc = "lookup"
  /\ \/ /\ r.p \notin node \/ m.pc = "insert"
        /\ r' = [r EXCEPT !.pc = "post"]
     \/ /\ r.p \in node
        /\ r' = [p |-> r.p, kind |-> r.kind, giaddr |-> r.giaddr,
                 pc |-> IF r.kind = "broadcast" THEN "scan" ELSE "option82",
                 i |-> 1, sent |-> <<>>]
  /\ UNCHANGED <<sem, tables, view, m>>

\* Option 82 processing drops the packet or lets it pass.
Option82 ==
  /\ r.pc = "option82"
  /\ \E pc \in {"post", IF r.kind = "reply" THEN "client"
                        ELSE IF r.giaddr = Null THEN "gateway" ELSE "scan"} :
       r' = [r EXCEPT !.pc = pc]
  /\ UNCHANGED <<sem, tables, view, m>>

\* if (intfNode->bootp_gw && ipExistsOnInterface(ifName, ...)): the gateway
\* may or may not be an address of the interface.
TestGateway ==
  /\ r.pc = "gateway"
  /\ \/ /\ gw[r.p] # Null
        /\ r' = [r EXCEPT !.pc = "stamp"]
     \/ r' = [r EXCEPT !.pc = "scan", !.giaddr = InterfaceIp]
  /\ UNCHANGED <<sem, tables, view, m>>

\* ... giaddr = intfNode->bootp_gw, read again.
Stamp ==
  /\ r.pc = "stamp"
  /\ r' = [r EXCEPT !.pc = "scan", !.giaddr = gw[r.p]]
  /\ UNCHANGED <<sem, tables, view, m>>

\* The loop over the server array.
Scan ==
  /\ r.pc = "scan"
  /\ r' = IF r.i > count[r.p] THEN [r EXCEPT !.pc = "post"]
          ELSE [r EXCEPT !.i = @ + 1,
                         !.sent = IF array[r.p][r.i] \in Wanted(r.kind)
                                  THEN Append(@, array[r.p][r.i]) ELSE @]
  /\ UNCHANGED <<sem, tables, view, m>>

\* A reply is sent to the client, or dropped when it is an ACK that names no
\* address.
ToClient ==
  /\ r.pc = "client"
  /\ r' = [r EXCEPT !.pc = "post"]
  /\ UNCHANGED <<sem, tables, view, m>>

RecvPost ==
  /\ r.pc = "post"
  /\ sem' = sem + 1
  /\ r' = RecvIdle
  /\ UNCHANGED <<tables, view, m>>

-----------------------------------------------------------------------------

\* What a thread does once it has begun.
MainStep ==
  \/ EndInsert \/ EndHandler
  \/ StrayWait \/ Leak
  \/ StoreWait \/ Alloc \/ SetSlot \/ IncCount
  \/ RemoveWait \/ NotFound \/ Unref \/ Clear \/ DecCount \/ Push \/ Free
  \/ MainPost

RecvStep ==
  \/ RecvWait \/ Lookup \/ Option82 \/ TestGateway \/ Stamp \/ Scan
  \/ ToClient \/ RecvPost

Next ==
  \/ MainStep \/ RecvStep
  \/ \E p \in Port :
       \/ BeginInsert(p) \/ WriteGateway(p)
       \/ \E s \in Server : BeginStore(p, s) \/ BeginRemove(p, s) \/ BeginStray(p, s)
       \/ \E kind \in Kind : Receive(p, kind)

\* Each thread goes on with what it has begun; new work need never come.
Spec == Init /\ [][Next]_vars /\ WF_vars(MainStep) /\ WF_vars(RecvStep)

-----------------------------------------------------------------------------
(* Properties.                                                             *)

MainHolds ==
  m.pc \in {"alloc", "slot", "count", "leak", "find", "clear", "dec", "push", "free",
            "post"}

RecvHolds == r.pc \notin {"idle", "wait"}

\* Types; the semaphore never goes beyond 1.
TypeOK ==
  /\ sem \in 0 .. 1
  /\ node \subseteq Port
  /\ gw \in [Port -> Gateway \cup {Null}]
  /\ array \in [Port -> [Slots -> Server \cup {Null}] \cup {Null}]
  /\ count \in [Port -> 0 .. MaxServers]
  /\ refs \in [Server -> Nat] /\ leaked \in [Server -> Nat]
  /\ m = MainIdle \/ m.p \in Port
  /\ r = RecvIdle \/ (r.p \in Port /\ r.kind \in Kind)

\* The interfaces using a server.
Users(s) == {p \in Port : Holds(p, s)}

\* Whenever the semaphore is free or the receiver has it, the tables are
\* whole: no slot in use is empty or twice the same, an array exists exactly
\* while it holds something, nothing is kept without a node, and entries count
\* these arrays and what was leaked through freed nodes.
TablesWhole ==
  ~MainHolds =>
    /\ \A p \in Port :
         /\ (array[p] = Null) <=> (count[p] = 0)
         /\ p \notin node => count[p] = 0 /\ gw[p] = Null
         /\ \A i \in 1 .. count[p] : array[p][i] \in Server
         /\ \A i, k \in 1 .. count[p] : array[p][i] = array[p][k] => i = k
    /\ \A s \in Server : refs[s] = Cardinality(Users(s)) + leaked[s]

\* What the receiver is about to dereference is there: the node it found, the
\* array, the slot and the entry the slot points to.
ReceiverSafe ==
  r.pc \in {"option82", "gateway", "stamp", "scan", "client"} =>
    /\ r.p \in node
    /\ r.pc = "scan" /\ r.i <= count[r.p] =>
         /\ array[r.p] # Null
         /\ array[r.p][r.i] # Null
         /\ refs[array[r.p][r.i]] > 0

\* Selected(q, W)[n]: the members of W among the first n of q, in their order.
Selected(q, W) ==
  LET first[n \in 0 .. Len(q)] ==
        IF n = 0 THEN <<>>
        ELSE IF q[n] \in W THEN Append(first[n - 1], q[n]) ELSE first[n - 1]
  IN first

\* A packet goes once to each server its interface had when the main thread
\* last released the lock, in the order of the array, and to no other, however
\* many changes wait.
RelaysView ==
  r.pc = "scan" /\ r.i > count[r.p] =>
    r.sent = Selected(view[r.p], Wanted(r.kind))[Len(view[r.p])]

\* To the receiver, each locked operation stores or drops one server of one
\* interface, as UdpfwdConfig has it.
LockedOpsAtomic ==
  [][\E p \in Port :
       \/ \E s \in Server : /\ \A i \in DOMAIN view[p] : view[p][i] # s
                            /\ view' = [view EXCEPT ![p] = Append(@, s)]
       \/ \E i \in DOMAIN view[p] : view' = [view EXCEPT ![p] = DropSlot(@, i)]
    ]_view

\* Whichever path a thread takes, the lock is released again.
LockReleased == sem = 0 ~> sem = 1
=============================================================================
