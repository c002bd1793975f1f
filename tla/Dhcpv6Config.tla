----------------------------- MODULE Dhcpv6Config -----------------------------
(***************************************************************************)
(* The tables of the DHCPv6 relay (relay/dhcpv6r/src): the main thread of  *)
(* ops-relay brings the interface and server tables up to date with the    *)
(* ipv6_ucast_server column of the DHCP_Relay rows.  One action is one     *)
(* turn of a loop; no other thread looks at these tables.  Where the code  *)
(* reads a NULL slot, or takes an entry out of the hash map under another  *)
(* one's hash, it dies; where it reads past a row's array or in a freed    *)
(* node it may die or go on.                                               *)
(***************************************************************************)
EXTENDS Naturals, Sequences, FiniteSets, SequencesExt, ServerArray

CONSTANTS
  Port,        \* interfaces
  NamePrefix,  \* <<p, q>>: the name of p is a prefix of the name of q
  Addr,        \* IPv6 server addresses, ordered as OVSDB sorts a column's values
  AddrPrefix,  \* <<a, b>>: the text of a is a prefix of the text of b
  MaxServers   \* MAX_SERVERS_PER_INTERFACE

ASSUME Dhcpv6Assumption ==
  /\ IsFiniteSet(Port) /\ IsFiniteSet(Addr) /\ Addr \subseteq Nat
  /\ MaxServers \in Nat
  /\ \A p \in Port : <<p, p>> \in NamePrefix
  /\ \A a \in Addr : <<a, a>> \in AddrPrefix

VARIABLES
  row,       \* row[p]: whether p has a DHCP_Relay row, and its servers
  idl,       \* what the IDL flags as changed since idl_seqno
  nodes,     \* the keys of intfHashTable
  arr,       \* arr[p]: serverArray[0 .. addrCount-1]
  refs,      \* refs[a]: ref_count of a's entry in serverHashMap
  fresh,     \* history: interfaces unchanged since the daemon started
  pc,        \* "idle" or "run", during dhcpv6r_reconfigure
  nodeWalk,  \* interfaces the row-delete walk has still to visit
  rowWalk,   \* changed rows still to be handled
  job        \* the loop under way

tableVars == <<nodes, arr, refs>>
vars == <<row, idl, tableVars, fresh, pc, nodeWalk, rowWalk, job>>

NoRow == [exists |-> FALSE, ucast |-> {}]

NoChange == [deleted |-> FALSE, changed |-> {}, ucastModified |-> FALSE]

NoJob == [stage |-> "none"]

Init ==
  /\ row = [p \in Port |-> NoRow]
  /\ idl = NoChange
  /\ nodes = {} /\ arr = [p \in Port |-> <<>>] /\ refs = [a \in Addr |-> 0]
  /\ fresh = Port
  /\ pc = "idle" /\ nodeWalk = {} /\ rowWalk = {} /\ job = NoJob

\* A transaction inserts, deletes or changes a row; it may change the IPv4
\* columns only.
WriteRow(p) ==
  \E new \in {NoRow} \cup [exists : {TRUE}, ucast : SUBSET Addr] :
    /\ pc = "idle" /\ (row[p].exists \/ new.exists)
    /\ row' = [row EXCEPT ![p] = new]
    /\ idl' = [deleted       |-> idl.deleted \/ ~new.exists,
               changed       |-> IF new.exists THEN idl.changed \cup {p}
                                 ELSE idl.changed \ {p},
               ucastModified |-> idl.ucastModified \/ new.ucast # row[p].ucast]
    /\ fresh' = IF p \in nodes THEN fresh \ {p} ELSE fresh
    /\ UNCHANGED <<tableVars, pc, nodeWalk, rowWalk, job>>

-----------------------------------------------------------------------------
(* dhcpv6r_store_address and dhcpv6r_remove_address.                       *)

\* A variant that does not look at the limit.
StoreAddressAlways(p, a) ==
  /\ refs' = [refs EXCEPT ![a] = @ + 1]
  /\ arr' = [arr EXCEPT ![p] = Append(@, a)]
  /\ UNCHANGED nodes

StoreAddress(p, a) ==
  IF Len(arr[p]) >= MaxServers THEN UNCHANGED tableVars
  ELSE /\ refs' = [refs EXCEPT ![a] = @ + 1]
       /\ arr' = [arr EXCEPT ![p] = Append(@, a)]
       /\ UNCHANGED nodes

\* compare_server: whether the server of a slot is taken for a.
TakenFor(stored, a) == <<stored, a>> \in AddrPrefix

\* The first slot of q whose server is taken for a.
SlotFor(q, a) ==
  CHOOSE i \in DOMAIN q : /\ TakenFor(q[i], a)
                          /\ \A k \in 1 .. i - 1 : ~TakenFor(q[k], a)

\* Removing a finds another server, and its last reference: the entry is looked
\* for under the hash of a, where it is not filed, which the library asserts.
Misfiled(p, a) ==
  LET found == arr[p][SlotFor(arr[p], a)] IN found # a /\ refs[found] = 1

\* A variant that keeps the count of the entry.
RemoveAddressUncounted(p, a) ==
  LET left == DropSlot(arr[p], SlotFor(arr[p], a)) IN
  /\ arr' = [arr EXCEPT ![p] = left]
  /\ nodes' = IF left = <<>> THEN nodes \ {p} ELSE nodes
  /\ UNCHANGED refs

\* What is removed is the server of the slot that is found. The last server
\* takes the interface's node with it.
RemoveAddress(p, a) ==
  LET i == SlotFor(arr[p], a)
      left == DropSlot(arr[p], i)
  IN /\ refs' = [refs EXCEPT ![arr[p][i]] = @ - 1]
     /\ arr' = [arr EXCEPT ![p] = left]
     /\ nodes' = IF left = <<>> THEN nodes \ {p} ELSE nodes

\* The daemon dies and is started again: every row is new to its IDL.
Restart ==
  /\ idl' = [deleted       |-> FALSE,
             changed       |-> {p \in Port : row[p].exists},
             ucastModified |-> \E p \in Port : row[p].ucast # {}]
  /\ nodes' = {} /\ arr' = [p \in Port |-> <<>>] /\ refs' = [a \in Addr |-> 0]
  /\ fresh' = Port
  /\ pc' = "idle" /\ nodeWalk' = {} /\ rowWalk' = {} /\ job' = NoJob
  /\ UNCHANGED row

-----------------------------------------------------------------------------
(* dhcpv6r_reconfigure.                                                    *)

Begin ==
  /\ pc = "idle" /\ idl # NoChange
  /\ pc' = "run"
  /\ nodeWalk' = IF idl.deleted \/ \A p \in Port : ~row[p].exists
                 THEN nodes ELSE {}
  /\ rowWalk' = idl.changed
  /\ UNCHANGED <<row, idl, tableVars, fresh, job>>

\* A variant that does not move idl_seqno on.
EndPassStale ==
  /\ pc = "run" /\ job = NoJob /\ nodeWalk = {} /\ rowWalk = {}
  /\ pc' = "idle"
  /\ UNCHANGED <<row, idl, tableVars, fresh, nodeWalk, rowWalk, job>>

EndPass ==
  /\ pc = "run" /\ job = NoJob /\ nodeWalk = {} /\ rowWalk = {}
  /\ pc' = "idle" /\ idl' = NoChange
  /\ UNCHANGED <<row, tableVars, fresh, nodeWalk, rowWalk, job>>

\* A node is not visited if some row's port has a name that its name goes on
\* from.
RowDelete(p) ==
  /\ pc = "run" /\ job = NoJob /\ p \in nodeWalk
  /\ nodeWalk' = nodeWalk \ {p}
  /\ job' = IF \E q \in Port : row[q].exists /\ <<q, p>> \in NamePrefix THEN NoJob
            ELSE [stage |-> "delete", p |-> p, i |-> 1, n |-> Len(arr[p])]
  /\ UNCHANGED <<row, idl, tableVars, fresh, pc, rowWalk>>

\* Slot i of the n there were is removed; those behind it have moved.
DeleteStep ==
  /\ job.stage = "delete" /\ job.i <= job.n
  /\ IF job.i <= Len(arr[job.p]) /\ ~Misfiled(job.p, arr[job.p][job.i])
     THEN /\ RemoveAddress(job.p, arr[job.p][job.i])
          /\ job' = [job EXCEPT !.i = @ + 1]
          /\ UNCHANGED <<row, idl, fresh, pc, nodeWalk, rowWalk>>
     ELSE Restart

EndDelete ==
  /\ job.stage = "delete" /\ job.i > job.n
  /\ job' = NoJob
  /\ UNCHANGED <<row, idl, tableVars, fresh, pc, nodeWalk, rowWalk>>

\* The row's array of servers: OVSDB keeps the values of a column in order.
Ucast(p) ==
  [i \in 1 .. Cardinality(row[p].ucast) |->
     CHOOSE a \in row[p].ucast :
       Cardinality({b \in row[p].ucast : b < a}) = i - 1]

ConfigChange(p) ==
  /\ pc = "run" /\ job = NoJob /\ nodeWalk = {} /\ p \in rowWalk
  /\ rowWalk' = rowWalk \ {p}
  /\ nodes' = nodes \cup {p}
  /\ job' = IF idl.ucastModified THEN [stage |-> "add", p |-> p, i |-> 1]
            ELSE NoJob
  /\ UNCHANGED <<row, idl, arr, refs, fresh, pc, nodeWalk>>

\* A variant that stores what is already there.
AddStepAlways ==
  /\ job.stage = "add" /\ job.i <= Len(Ucast(job.p))
  /\ StoreAddress(job.p, Ucast(job.p)[job.i])
  /\ job' = [job EXCEPT !.i = @ + 1]
  /\ UNCHANGED <<row, idl, fresh, pc, nodeWalk, rowWalk>>

\* A server is there already if one of the interface's is taken for it.
AddStep ==
  /\ job.stage = "add" /\ job.i <= Len(Ucast(job.p))
  /\ IF \E a \in ToSet(arr[job.p]) : TakenFor(a, Ucast(job.p)[job.i])
     THEN UNCHANGED tableVars
     ELSE StoreAddress(job.p, Ucast(job.p)[job.i])
  /\ job' = [job EXCEPT !.i = @ + 1]
  /\ UNCHANGED <<row, idl, fresh, pc, nodeWalk, rowWalk>>

EndAdd ==
  /\ job.stage = "add" /\ job.i > Len(Ucast(job.p))
  /\ job' = [job EXCEPT !.stage = "flush", !.i = 1]
  /\ UNCHANGED <<row, idl, tableVars, fresh, pc, nodeWalk, rowWalk>>

\* A variant whose comparison is one slot off.
KeptOffByOne(p, i) == i + 1 <= Len(Ucast(p)) /\ TakenFor(arr[p][i], Ucast(p)[i + 1])

\* Slot i is compared with the i-th server of the row only, as often as the
\* row has servers.
Kept(p, i) == i <= Len(Ucast(p)) /\ TakenFor(arr[p][i], Ucast(p)[i])

FlushStep ==
  /\ job.stage = "flush" /\ job.i <= Len(arr[job.p])
  /\ \/ Kept(job.p, job.i) /\ UNCHANGED tableVars
     \/ /\ ~Kept(job.p, job.i) /\ ~Misfiled(job.p, arr[job.p][job.i])
        /\ RemoveAddress(job.p, arr[job.p][job.i])
  /\ job' = [job EXCEPT !.i = @ + 1]
  /\ UNCHANGED <<row, idl, fresh, pc, nodeWalk, rowWalk>>

\* Comparing with a server past the row's array, or going on with a node
\* that was freed, may end the daemon, and removing what is misfiled does.
FlushFault ==
  /\ job.stage = "flush"
  /\ \/ /\ job.i <= Len(arr[job.p])
        /\ \/ row[job.p].ucast # {} /\ job.i > Len(Ucast(job.p))
           \/ ~Kept(job.p, job.i) /\ Misfiled(job.p, arr[job.p][job.i])
     \/ job.p \notin nodes
  /\ Restart

EndFlush ==
  /\ job.stage = "flush" /\ job.i > Len(arr[job.p])
  /\ job' = NoJob
  /\ UNCHANGED <<row, idl, tableVars, fresh, pc, nodeWalk, rowWalk>>

MainThread ==
  \/ Begin \/ EndPass
  \/ \E p \in Port : RowDelete(p) \/ ConfigChange(p)
  \/ DeleteStep \/ EndDelete
  \/ AddStep \/ EndAdd \/ FlushStep \/ FlushFault \/ EndFlush

Next == MainThread \/ Restart \/ \E p \in Port : WriteRow(p)

\* The main loop runs for ever; operators and crashes owe nothing.
Spec == Init /\ [][Next]_vars /\ WF_vars(MainThread)

-----------------------------------------------------------------------------
(* Properties.                                                             *)

TypeOK ==
  /\ row \in [Port -> [exists : BOOLEAN, ucast : SUBSET Addr]]
  /\ nodes \subseteq Port
  /\ \A p \in Port : Len(arr[p]) <= MaxServers /\ ToSet(arr[p]) \subseteq Addr
  /\ \A p \in Port \ nodes : arr[p] = <<>>
  /\ refs \in [Addr -> Nat]
  /\ job.stage \in {"none", "delete", "add", "flush"}

\* dhcpv6r_store_address does not look for duplicates; its callers must.
NoDuplicateRefs ==
  \A p \in Port : \A i, k \in DOMAIN arr[p] : arr[p][i] = arr[p][k] => i = k

\* An entry counts the interfaces that refer to it, and lives as long, although
\* a removal may take another server than the one it is asked to remove.
RefCountsExact ==
  \A a \in Addr : refs[a] = Cardinality({p \in Port : a \in ToSet(arr[p])})

CaughtUp == pc = "idle" /\ idl = NoChange

Synced(p) == ToSet(arr[p]) = row[p].ucast

\* No server of s is taken for another.
Apart(s) == \A a, b \in s : TakenFor(a, b) => a = b

\* An interface whose row has not changed since the daemon first handled it
\* has servers of the row only, and all of them if they fit and the text of
\* none is a prefix of another's.
FirstPassExact ==
  CaughtUp => \A p \in fresh :
    /\ ToSet(arr[p]) \subseteq row[p].ucast
    /\ Apart(row[p].ucast) => Synced(p) \/ Cardinality(row[p].ucast) > MaxServers

\* Even after a death of its own making the daemon settles once the rows do:
\* it does not die of the same rows again.
Settles == <>[][MainThread]_vars => <>[]CaughtUp

\* Servers removed from a row are removed from its interface, and others not.
UcastSynced == CaughtUp => \A p \in Port : Synced(p)
=============================================================================
