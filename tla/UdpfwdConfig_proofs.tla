------------------------ MODULE UdpfwdConfig_proofs -------------------------
(***************************************************************************)
(* Theorems of UdpfwdConfig, for any sets of interfaces and addresses and  *)
(* any limits: the types, the absence of duplicate references and the      *)
(* exactness of the reference counts are invariants, every step moves the  *)
(* interface table towards the configuration (RelayTable), and a daemon    *)
(* that has caught up has got there.                                       *)
(***************************************************************************)
EXTENDS UdpfwdConfig, FiniteSetTheorems, WellFoundedInduction, TLAPS

-----------------------------------------------------------------------------
(* Lemmas on server arrays.                                                *)

Distinct(q) == \A i, k \in DOMAIN q : q[i] = q[k] => i = k

\* The slot udpfwd_remove_server_ref_entry finds holds the server.
LEMMA SlotOfHolds ==
  ASSUME NEW S, NEW q \in Seq(S), Distinct(q), NEW s \in Range(q)
  PROVE  SlotOf(q, s) \in 1 .. Len(q) /\ q[SlotOf(q, s)] = s
<1>1. PICK i \in 1 .. Len(q) : q[i] = s
  BY DEF Range
<1>2. \A k \in 1 .. i - 1 : q[k] # s
  BY <1>1 DEF Distinct
<1>3. QED
  BY <1>1, <1>2 DEF SlotOf

\* Dropping a slot of an array without duplicates removes that server only
\* (udpfwd_push_deleted_server_ref_to_end loses no other reference).
LEMMA DropSlotProperties ==
  ASSUME NEW S, NEW q \in Seq(S), Distinct(q), NEW i \in 1 .. Len(q)
  PROVE  /\ DropSlot(q, i) \in Seq(S)
         /\ Len(DropSlot(q, i)) = Len(q) - 1
         /\ Distinct(DropSlot(q, i))
         /\ Range(DropSlot(q, i)) = Range(q) \ {q[i]}
<1> DEFINE r == DropSlot(q, i)
           n == Len(q)
<1>1. n \in Nat /\ n >= 1 /\ n - 1 \in Nat /\ DOMAIN q = 1 .. n
  OBVIOUS
<1>2. r = [k \in 1 .. n - 1 |-> IF k = i THEN q[n] ELSE q[k]]
  BY DEF DropSlot
<1>3. \A k \in 1 .. n - 1 : r[k] = (IF k = i THEN q[n] ELSE q[k]) /\ r[k] \in S
  BY <1>1, <1>2
<1>4. r \in Seq(S) /\ Len(r) = n - 1
  BY <1>1, <1>2, <1>3
<1>5. Distinct(r)
  BY <1>1, <1>3, <1>4 DEF Distinct
<1>6. Range(r) \subseteq Range(q) \ {q[i]}
  BY <1>1, <1>3, <1>4 DEF Distinct, Range
<1>7. Range(q) \ {q[i]} \subseteq Range(r)
  <2>1. SUFFICES ASSUME NEW k \in 1 .. n, k # i PROVE q[k] \in Range(r)
    BY <1>1 DEF Range
  <2>2. CASE k < n
    BY <2>1, <2>2, <1>1, <1>3, <1>4 DEF Range
  <2>3. CASE k = n
    <3>1. i \in 1 .. n - 1 /\ r[i] = q[k]
      BY <2>1, <2>3, <1>1, <1>3
    <3>2. QED
      BY <3>1, <1>4 DEF Range
  <2>4. k < n \/ k = n
    <3>1. n \in Nat
      BY <1>1
    <3>2. QED
      BY <3>1
  <2>5. QED
    BY <2>2, <2>3, <2>4
<1>8. QED
  BY <1>4, <1>5, <1>6, <1>7

\* Storing a server that is not there yet.
LEMMA AppendDistinct ==
  ASSUME NEW S, NEW q \in Seq(S), Distinct(q), NEW s \in S, s \notin Range(q)
  PROVE  /\ Append(q, s) \in Seq(S)
         /\ Len(Append(q, s)) = Len(q) + 1
         /\ Distinct(Append(q, s))
         /\ Range(Append(q, s)) = Range(q) \cup {s}
<1> DEFINE r == Append(q, s)
           n == Len(q)
<1>1. /\ n \in Nat /\ DOMAIN q = 1 .. n /\ r \in Seq(S) /\ Len(r) = n + 1
      /\ DOMAIN r = 1 .. n + 1
  OBVIOUS
<1>2. r[n + 1] = s /\ \A k \in 1 .. n : r[k] = q[k]
  OBVIOUS
<1>3. \A k \in 1 .. n : q[k] # s
  BY <1>1 DEF Range
<1>4. Distinct(r)
  BY <1>1, <1>2, <1>3 DEF Distinct
<1>5. Range(r) = Range(q) \cup {s}
  BY <1>1, <1>2 DEF Range
<1>6. QED
  BY <1>1, <1>4, <1>5

-----------------------------------------------------------------------------
(* Lemmas on the users of a server.                                        *)

LEMMA UsersFinite ==
  ASSUME NEW s
  PROVE  /\ IsFiniteSet(Users(s)) /\ Cardinality(Users(s)) \in Nat
         /\ IsFiniteSet(Users(s)') /\ Cardinality(Users(s)') \in Nat
<1>1. IsFiniteSet(Port) /\ Users(s) \subseteq Port /\ Users(s)' \subseteq Port
  BY ConfigAssumption DEF ConfigAssumption, Users
<1>2. QED
  BY <1>1, FS_Subset, FS_CardinalityType

\* When the array of one interface loses s, s has one user less and every
\* other server the users it had.
LEMMA UsersRemove ==
  ASSUME arr \in [Port -> Seq(Server)], NEW p \in Port, NEW s \in Range(arr[p]),
         NEW q, arr' = [arr EXCEPT ![p] = q], Range(q) = Range(arr[p]) \ {s}
  PROVE  /\ Cardinality(Users(s)') = Cardinality(Users(s)) - 1
         /\ \A t : t # s => Users(t)' = Users(t)
<1>1. Users(s)' = Users(s) \ {p} /\ p \in Users(s)
  BY DEF Users
<1>2. \A t : t # s => Users(t)' = Users(t)
  BY DEF Users
<1>3. QED
  BY <1>1, <1>2, UsersFinite, FS_RemoveElement

LEMMA UsersAdd ==
  ASSUME arr \in [Port -> Seq(Server)], NEW p \in Port, NEW s,
         s \notin Range(arr[p]),
         NEW q, arr' = [arr EXCEPT ![p] = q], Range(q) = Range(arr[p]) \cup {s}
  PROVE  /\ Cardinality(Users(s)') = Cardinality(Users(s)) + 1
         /\ \A t : t # s => Users(t)' = Users(t)
<1>1. Users(s)' = Users(s) \cup {p} /\ p \notin Users(s)
  BY DEF Users
<1>2. \A t : t # s => Users(t)' = Users(t)
  BY DEF Users
<1>3. QED
  BY <1>1, <1>2, UsersFinite, FS_AddElement

-----------------------------------------------------------------------------
(* The inductive invariant, one lemma per kind of step.                    *)

LEMMA InitIInv == Init => IInv
<1> SUFFICES ASSUME Init PROVE IInv
  OBVIOUS
<1>1. \A s \in Server : Users(s) = {}
  BY DEF Init, Users, Range
<1>2. TypeOK
  BY ConfigAssumption DEF Init, TypeOK, ConfigAssumption, NoRow, DhcpRow,
     NoChange, Job, NoJob
<1>3. NoDuplicateRefs /\ HandlerInv
  BY DEF Init, NoDuplicateRefs, HandlerInv, NoJob, Idle
<1>4. RefCountsExact
  <2>1. SUFFICES ASSUME NEW s \in Server
                 PROVE  refs[s] = Cardinality(Users(s)) + leaked[s]
    BY DEF RefCountsExact
  <2>2. refs[s] = 0 /\ leaked[s] = 0 /\ Cardinality(Users(s)) = 0
    BY <1>1, FS_EmptySet DEF Init
  <2>3. QED
    BY <2>2
<1>5. QED
  BY <1>2, <1>3, <1>4 DEF IInv

\* A step that leaves the arrays and the counts alone keeps what is said of
\* them.
LEMMA TablesKept ==
  ASSUME IInv, UNCHANGED <<arr, refs, leaked>>
  PROVE  NoDuplicateRefs' /\ RefCountsExact'
BY DEF IInv, NoDuplicateRefs, RefCountsExact, Users

IdlType == [dhcpDeleted : BOOLEAN, dhcpChanged : SUBSET Port,
            gwModified : BOOLEAN, serversModified : BOOLEAN,
            udpDeleted : BOOLEAN, udpChanged : SUBSET (Port \X UdpPort)]

DbType == /\ dhcp \in [Port -> DhcpRow]
          /\ udp \in [Port -> [UdpPort -> SUBSET ForwardIp]]
          /\ idl \in IdlType

LEMMA WriteDhcpRowType ==
  ASSUME DbType, NEW p \in Port, NEW row \in DhcpRow, WriteDhcpRow(p, row)
  PROVE  DbType'
<1>1. dhcp' \in [Port -> DhcpRow] /\ udp' = udp
  BY DEF DbType, WriteDhcpRow
<1>2. (row = NoRow) \in BOOLEAN /\ (row.gw # dhcp[p].gw) \in BOOLEAN
      /\ (row.servers # dhcp[p].servers) \in BOOLEAN
  OBVIOUS
<1>3. idl' \in IdlType
  BY DEF DbType, WriteDhcpRow, IdlType
<1>4. QED
  BY <1>1, <1>3 DEF DbType

LEMMA OvsdbKeepsIInv ==
  ASSUME IInv, Ovsdb
  PROVE  IInv'
<1> USE DEF tableVars, walkVars
<1>0. DbType
  BY DEF IInv, TypeOK, DbType, IdlType
<1> DEFINE RowsOnly == /\ pc = "idle" /\ DbType'
                       /\ UNCHANGED <<tableVars, walkVars, job>>
<1>1. RowsOnly
  <2>1. ASSUME NEW p \in Port, SetHelpers(p) PROVE RowsOnly
    <3>1. PICK S \in SUBSET HelperIp : WriteDhcpRow(p, [dhcp[p] EXCEPT !.servers = S])
      BY <2>1 DEF SetHelpers
    <3>2. [dhcp[p] EXCEPT !.servers = S] \in DhcpRow
      BY <1>0 DEF DbType, DhcpRow
    <3>3. QED
      BY <3>1, <3>2, <1>0, WriteDhcpRowType DEF WriteDhcpRow
  <2>2. ASSUME NEW p \in Port, SetGateway(p) PROVE RowsOnly
    <3>1. PICK g \in GatewayIp \cup {NoIp, BadIp} :
            WriteDhcpRow(p, [dhcp[p] EXCEPT !.gw = g])
      BY <2>2 DEF SetGateway
    <3>2. [dhcp[p] EXCEPT !.gw = g] \in DhcpRow
      BY <1>0 DEF DbType, DhcpRow
    <3>3. QED
      BY <3>1, <3>2, <1>0, WriteDhcpRowType DEF WriteDhcpRow
  <2>3. ASSUME NEW p \in Port, NEW d \in UdpPort, SetForwards(p, d)
        PROVE  RowsOnly
    <3>1. PICK S \in SUBSET ForwardIp :
            /\ pc = "idle"
            /\ udp' = [udp EXCEPT ![p][d] = S]
            /\ idl' = [idl EXCEPT
                  !.udpDeleted = @ \/ S = {},
                  !.udpChanged = IF S = {} THEN @ \ {<<p, d>>} ELSE @ \cup {<<p, d>>}]
            /\ UNCHANGED <<dhcp, tableVars, walkVars, job>>
      BY <2>3 DEF SetForwards
    <3>2. udp' \in [Port -> [UdpPort -> SUBSET ForwardIp]]
      BY <3>1, <1>0 DEF DbType
    <3>3. idl' \in IdlType
      <4> DEFINE deleted == idl.udpDeleted \/ S = {}
                 changed == IF S = {} THEN idl.udpChanged \ {<<p, d>>}
                            ELSE idl.udpChanged \cup {<<p, d>>}
      <4>1. idl \in IdlType
        BY <1>0 DEF DbType
      <4>2. changed \in SUBSET (Port \X UdpPort)
        BY <4>1 DEF IdlType
      <4>3. deleted \in BOOLEAN
        OBVIOUS
      <4>4. idl' = [idl EXCEPT !.udpDeleted = deleted, !.udpChanged = changed]
        BY <3>1
      <4> HIDE DEF deleted, changed
      <4>5. QED
        BY <4>1, <4>2, <4>3, <4>4 DEF IdlType
    <3>4. QED
      BY <3>1, <3>2, <3>3, <1>0 DEF DbType
  <2>4. QED
    BY <2>1, <2>2, <2>3 DEF Ovsdb
<1>2. TypeOK'
  BY <1>1 DEF IInv, TypeOK, DbType, IdlType
<1>3. HandlerInv'
  BY <1>1 DEF IInv, HandlerInv, tableVars, walkVars, Idle
<1>4. QED
  BY <1>1, <1>2, <1>3, TablesKept DEF IInv, tableVars

\* The steps between the handlers touch neither the tables nor a handler.
LEMMA WalkKeepsIInv ==
  ASSUME IInv, BeginReconfigure \/ BeginUdpTable \/ EndReconfigure
  PROVE  IInv'
<1> USE DEF tableVars, dbVars
<1>1. CASE BeginReconfigure
  <2>1. TypeOK'
    BY <1>1 DEF IInv, TypeOK, BeginReconfigure
  <2>2. HandlerInv'
    BY <1>1 DEF IInv, HandlerInv, BeginReconfigure, Configured, RowIps, Idle
  <2>3. QED
    BY <1>1, <2>1, <2>2, TablesKept DEF IInv, BeginReconfigure
<1>2. CASE BeginUdpTable
  <2>1. TypeOK'
    BY <1>2 DEF IInv, TypeOK, BeginUdpTable
  <2>2. HandlerInv'
    BY <1>2 DEF IInv, HandlerInv, BeginUdpTable, Configured, RowIps, Idle
  <2>3. QED
    BY <1>2, <2>1, <2>2, TablesKept DEF IInv, BeginUdpTable
<1>3. CASE EndReconfigure
  <2>1. TypeOK'
    BY <1>3 DEF IInv, TypeOK, EndReconfigure, NoChange
  <2>2. HandlerInv'
    BY <1>3 DEF IInv, HandlerInv, EndReconfigure, TableDone, Idle
  <2>3. QED
    BY <1>3, <2>1, <2>2, TablesKept DEF IInv, EndReconfigure
<1>4. QED
  BY <1>1, <1>2, <1>3

LEMMA StartType ==
  ASSUME NEW stage \in Stage, NEW p \in Port, NEW d \in {DHCPS_PORT} \cup UdpPort,
         NEW todo \in SUBSET Server
  PROVE  Start(stage, p, d, todo) \in Job
BY DEF Start, Job

\* The row-delete walks mark for removal only servers no row asks for: a
\* port's own row is found whatever other names are prefixes of its name.
LEMMA RowDeleteKeepsIInv ==
  ASSUME IInv, NEW p \in Port, DhcpRowDelete(p) \/ UdpRowDelete(p)
  PROVE  IInv'
<1> USE DEF tableVars, dbVars
<1>0. <<p, p>> \in NamePrefix /\ TypeOK /\ HandlerInv /\ Range(arr[p]) \subseteq Server
  BY ConfigAssumption DEF ConfigAssumption, IInv, TypeOK, Range
<1>1. CASE DhcpRowDelete(p)
  <2> DEFINE todo == {s \in Range(arr[p]) : s.udp_port = DHCPS_PORT}
             j == Start("prune", p, DHCPS_PORT, todo)
  <2>1. j \in Job /\ j.stage = "prune" /\ j.row[1] = p /\ j.todo = todo
    <3>1. todo \in SUBSET Server /\ "prune" \in Stage
      BY <1>0 DEF Stage
    <3>2. QED
      BY <3>1, StartType DEF Start
  <2>2. CASE DhcpRowFound(p)
    <3>1. TypeOK'
      BY <1>0, <1>1, <2>2 DEF TypeOK, DhcpRowDelete
    <3>2. HandlerInv'
      BY <1>0, <1>1, <2>2 DEF HandlerInv, DhcpRowDelete, Configured, RowIps, Idle
    <3>3. QED
      BY <1>1, <3>1, <3>2, TablesKept DEF IInv, DhcpRowDelete
  <2>3. CASE ~DhcpRowFound(p)
    <3>1. gw' = [gw EXCEPT ![p] = NoIp] /\ job' = j
      BY <1>1, <2>3 DEF DhcpRowDelete
    <3>2. TypeOK'
      <4> HIDE DEF j
      <4>1. QED
        BY <1>0, <1>1, <2>1, <3>1 DEF TypeOK, DhcpRowDelete
    <3>3. dhcp[p].servers = {}
      BY <1>0, <2>3 DEF DhcpRowFound, HasDhcpRow, NoRow
    <3>4. todo \cap Configured(p)' = {}
      BY <1>1, <3>3 DEF Configured, RowIps, DhcpRowDelete
    <3>5. HandlerInv'
      <4> HIDE DEF j, todo
      <4>1. job'.stage = "prune" /\ job'.todo \cap Configured(job.row[1])' = {} /\ pc' = "dhcp"
        BY <1>1, <2>1, <3>1, <3>4 DEF DhcpRowDelete
      <4>2. QED
        BY <4>1 DEF HandlerInv
    <3>6. QED
      BY <1>1, <3>2, <3>5, TablesKept DEF IInv, DhcpRowDelete
  <2>4. QED
    BY <2>2, <2>3
<1>2. CASE UdpRowDelete(p)
  <2> DEFINE todo == {s \in Range(arr[p]) :
                        s.udp_port # DHCPS_PORT /\ ~UdpRowFound(p, s)}
             j == Start("prune", p, DHCPS_PORT, todo)
  <2>1. j \in Job /\ j.stage = "prune" /\ j.row[1] = p /\ j.todo = todo
    <3>1. todo \in SUBSET Server /\ "prune" \in Stage
      BY <1>0 DEF Stage
    <3>2. QED
      BY <3>1, StartType DEF Start
  <2>2. job' = j
    BY <1>2 DEF UdpRowDelete
  <2>3. TypeOK'
    <3> HIDE DEF j
    <3>1. QED
      BY <1>0, <1>2, <2>1, <2>2 DEF TypeOK, UdpRowDelete
  <2>4. todo \cap Configured(p)' = {}
    BY <1>0, <1>2 DEF Configured, RowIps, UdpRowDelete, UdpRowFound
  <2>5. HandlerInv'
    <3> HIDE DEF j, todo
    <3>1. job'.stage = "prune" /\ job'.todo \cap Configured(job.row[1])' = {} /\ pc' = "udp"
      BY <1>2, <2>1, <2>2, <2>4 DEF UdpRowDelete
    <3>2. QED
      BY <3>1 DEF HandlerInv
  <2>6. QED
    BY <1>2, <2>3, <2>5, TablesKept DEF IInv, UdpRowDelete
<1>3. QED
  BY <1>1, <1>2

\* A changed row marks for removal only what it no longer lists.
LEMMA DhcpConfigChangeKeepsIInv ==
  ASSUME IInv, NEW p \in Port, DhcpConfigChange(p)
  PROVE  IInv'
<1> USE DEF tableVars, dbVars
<1> DEFINE gone == {t \in Range(arr[p]) : t.ip \notin dhcp[p].servers}
           todo == {Entry(s.ip, DHCPS_PORT) : s \in gone}
           j == Start("remove", p, DHCPS_PORT, todo)
<1>0. TypeOK /\ HandlerInv /\ Idle(job) /\ Range(arr[p]) \subseteq Server /\ pc = "dhcp"
  BY DEF IInv, TypeOK, Range, DhcpConfigChange
<1>1. todo \subseteq Server
  BY <1>0 DEF Server, Entry
<1>2. j \in Job /\ j.stage = "remove" /\ j.row[1] = p /\ j.todo = todo
  <2>1. "remove" \in Stage
    BY DEF Stage
  <2>2. QED
    BY <1>1, <2>1, StartType DEF Start
<1>3. todo \cap Configured(p)' = {}
  BY DEF Configured, RowIps, Entry, DhcpConfigChange
<1>4. gw' \in [Port -> GatewayIp \cup {NoIp}] /\ \A q \in Port \ {p} : gw'[q] = gw[q]
  <2>1. dhcp[p].gw \in GatewayIp \cup {NoIp, BadIp}
    BY <1>0 DEF TypeOK, DhcpRow
  <2>2. QED
    BY <1>0, <2>1 DEF TypeOK, DhcpConfigChange
<1>5. job' = j \/ job' = job
  BY DEF DhcpConfigChange
<1>6. TypeOK'
  <2> HIDE DEF j
  <2>1. job' \in Job \cup {NoJob}
    BY <1>0, <1>2, <1>5 DEF TypeOK
  <2>2. QED
    BY <1>0, <1>4, <2>1 DEF TypeOK, DhcpConfigChange
<1>7. HandlerInv'
  <2> HIDE DEF j, todo
  <2>1. pc' = "dhcp"
    BY <1>0 DEF DhcpConfigChange
  <2>2. CASE job' = j
    BY <1>2, <1>3, <2>1, <2>2 DEF HandlerInv
  <2>3. CASE job' = job
    BY <1>0, <2>1, <2>3 DEF HandlerInv, Idle
  <2>4. QED
    BY <1>5, <2>2, <2>3
<1>8. QED
  BY <1>6, <1>7, TablesKept DEF IInv, DhcpConfigChange

LEMMA UdpConfigChangeKeepsIInv ==
  ASSUME IInv, NEW p \in Port, NEW d \in UdpPort, UdpConfigChange(p, d)
  PROVE  IInv'
<1> USE DEF tableVars, dbVars
<1> DEFINE todo == {s \in Range(arr[p]) : s.udp_port = d /\ s.ip \notin udp[p][d]}
           j == Start("remove", p, d, todo)
<1>0. TypeOK /\ Range(arr[p]) \subseteq Server /\ pc = "udp" /\ d # DHCPS_PORT
  BY ConfigAssumption DEF ConfigAssumption, IInv, TypeOK, Range, UdpConfigChange
<1>1. j \in Job /\ j.stage = "remove" /\ j.row[1] = p /\ j.todo = todo
  <2>1. "remove" \in Stage /\ todo \in SUBSET Server
    BY <1>0 DEF Stage
  <2>2. QED
    BY <2>1, StartType DEF Start
<1>2. todo \cap Configured(p)' = {}
  BY <1>0 DEF Configured, RowIps, UdpConfigChange
<1>3. job' = j
  BY DEF UdpConfigChange
<1>4. TypeOK'
  <2> HIDE DEF j
  <2>1. QED
    BY <1>0, <1>1, <1>3 DEF TypeOK, UdpConfigChange
<1>5. HandlerInv'
  <2> HIDE DEF j, todo
  <2>1. pc' = "udp"
    BY <1>0 DEF UdpConfigChange
  <2>2. QED
    BY <1>1, <1>2, <1>3, <2>1 DEF HandlerInv
<1>6. QED
  BY <1>4, <1>5, TablesKept DEF IInv, UdpConfigChange

\* udpfwd_remove_address: the count drops with the reference, and the node
\* goes only when its array is empty and it has no gateway.
LEMMA RemoveStepKeepsIInv ==
  ASSUME IInv, NEW s \in Server, RemoveStep(s)
  PROVE  IInv'
<1> USE DEF tableVars, dbVars, walkVars
<1> DEFINE p == job.row[1]
           left == DropSlot(arr[p], SlotOf(arr[p], s))
<1>0. TypeOK /\ NoDuplicateRefs /\ RefCountsExact /\ HandlerInv
  BY DEF IInv
<1>1. job \in Job /\ p \in Port /\ job.stage \in {"prune", "remove"}
  BY <1>0 DEF TypeOK, RemoveStep, NoJob, Job
<1>2. /\ job' = [job EXCEPT !.todo = @ \ {s}] /\ job' \in Job
      /\ job'.stage = job.stage /\ job'.row = job.row /\ job'.todo = job.todo \ {s}
  BY <1>1 DEF RemoveStep, Job
<1>3. HandlerInv'
  <2>1. Configured(p)' = Configured(p)
    BY DEF RemoveStep, Configured, RowIps
  <2>2. pc' = pc /\ pc # "idle"
    BY <1>0, <1>1 DEF RemoveStep, HandlerInv, Idle
  <2>3. QED
    BY <1>0, <1>1, <1>2, <2>1, <2>2 DEF HandlerInv
<1>4. CASE s \notin Range(arr[p])
  <2>1. UNCHANGED <<nodes, arr, refs>>
    BY <1>4 DEF RemoveStep, RemoveAddress
  <2>2. TypeOK'
    BY <1>0, <1>2, <2>1 DEF TypeOK, RemoveStep
  <2>3. QED
    BY <1>3, <2>1, <2>2, TablesKept DEF IInv, RemoveStep
<1>5. CASE s \in Range(arr[p])
  <2>1. arr[p] \in Seq(Server) /\ Distinct(arr[p]) /\ arr \in [Port -> Seq(Server)]
    BY <1>0, <1>1 DEF TypeOK, NoDuplicateRefs, Distinct
  <2>2. /\ refs' = [refs EXCEPT ![s] = @ - 1]
        /\ arr' = [arr EXCEPT ![p] = left]
        /\ nodes' = IF left = <<>> /\ gw[p] = NoIp THEN nodes \ {p} ELSE nodes
    BY <1>5 DEF RemoveStep, RemoveAddress
  <2>3. /\ SlotOf(arr[p], s) \in 1 .. Len(arr[p])
        /\ arr[p][SlotOf(arr[p], s)] = s
    BY <1>5, <2>1, SlotOfHolds
  <2>4. /\ left \in Seq(Server) /\ Len(left) = Len(arr[p]) - 1 /\ Distinct(left)
        /\ Range(left) = Range(arr[p]) \ {s}
    BY <2>1, <2>3, DropSlotProperties
  <2> HIDE DEF left
  <2>5. NoDuplicateRefs'
    BY <1>0, <1>1, <2>1, <2>2, <2>4 DEF NoDuplicateRefs, Distinct
  <2>6. /\ Cardinality(Users(s)') = Cardinality(Users(s)) - 1
        /\ \A t : t # s => Users(t)' = Users(t)
    BY <1>1, <1>5, <2>1, <2>2, <2>4, UsersRemove
  <2>7. leaked' = leaked /\ refs \in [Server -> Nat] /\ leaked \in [Server -> Nat]
    BY <1>0 DEF TypeOK, RemoveStep
  <2>8. Cardinality(Users(s)) \in Nat /\ Cardinality(Users(s)') \in Nat
    BY UsersFinite
  <2>9. refs' \in [Server -> Nat]
    <3>1. refs[s] = Cardinality(Users(s)) + leaked[s]
      BY <1>0 DEF RefCountsExact
    <3>2. refs[s] - 1 = Cardinality(Users(s)') + leaked[s]
      BY <3>1, <2>6, <2>7, <2>8
    <3>3. refs[s] - 1 \in Nat
      BY <3>2, <2>7, <2>8
    <3>4. QED
      BY <3>3, <2>2, <2>7
  <2>10. RefCountsExact'
    <3>1. SUFFICES ASSUME NEW t \in Server
                   PROVE  refs'[t] = Cardinality(Users(t)') + leaked[t]
      BY <2>7 DEF RefCountsExact
    <3>2. refs[t] = Cardinality(Users(t)) + leaked[t]
      BY <1>0 DEF RefCountsExact
    <3>3. CASE t = s
      BY <3>2, <3>3, <2>2, <2>6, <2>7, <2>8
    <3>4. CASE t # s
      BY <3>2, <3>4, <2>2, <2>6, <2>7
    <3>5. QED
      BY <3>3, <3>4
  <2>11. TypeOK'
    <3>1. arr' \in [Port -> Seq(Server)] /\ \A q \in Port : Len(arr'[q]) <= MaxServers
      BY <1>0, <1>1, <2>1, <2>2, <2>4, ConfigAssumption DEF TypeOK, ConfigAssumption
    <3>2. \A q \in Port \ nodes' : arr'[q] = <<>> /\ gw'[q] = NoIp
      <4>1. p \in nodes
        BY <1>0, <1>1, <1>5 DEF TypeOK, Range
      <4>2. gw' = gw
        BY DEF RemoveStep
      <4>3. QED
        BY <1>0, <1>1, <2>1, <2>2, <4>1, <4>2 DEF TypeOK
    <3>3. nodes' \subseteq Port
      BY <1>0, <2>2 DEF TypeOK
    <3>4. QED
      BY <1>0, <1>2, <2>9, <3>1, <3>2, <3>3 DEF TypeOK, RemoveStep
  <2>12. QED
    BY <1>3, <2>5, <2>10, <2>11 DEF IInv
<1>6. QED
  BY <1>4, <1>5

\* What is collected for adding is configured and not in the array.
LEMMA CollectAddedKeepsIInv ==
  ASSUME IInv, CollectAdded
  PROVE  IInv'
<1> USE DEF tableVars, dbVars, walkVars
<1> DEFINE p == job.row[1]
           d == job.row[2]
           new == {i \in RowIps(p, d) : ~Present(p, d, i)}
           todo == {Entry(i, d) : i \in new}
           stage == IF p \in nodes THEN "add" ELSE "stray"
<1>0. TypeOK /\ HandlerInv
  BY DEF IInv
<1>1. /\ job \in Job /\ job.stage = "remove" /\ p \in Port
      /\ d \in {DHCPS_PORT} \cup UdpPort
  BY <1>0 DEF TypeOK, CollectAdded, NoJob, Job
<1>2. todo \subseteq Configured(p)
  <2>1. SUFFICES ASSUME NEW i \in RowIps(p, d) PROVE Entry(i, d) \in Configured(p)
    OBVIOUS
  <2>2. i \in Ip
    BY <1>0, <1>1 DEF TypeOK, RowIps, DhcpRow, Ip
  <2>3. QED
    BY <1>1, <2>2 DEF Configured, Entry, Server
<1>3. todo \cap Range(arr[p]) = {}
  BY DEF Present, Entry
<1>4. todo \subseteq Server
  BY <1>2 DEF Configured
<1>5. job' = [job EXCEPT !.stage = stage, !.todo = todo]
  BY DEF CollectAdded
<1> HIDE DEF todo
<1>6. /\ job' \in Job /\ job'.stage = stage /\ job'.row = job.row
      /\ job'.todo = todo
  <2>1. stage \in Stage
    BY DEF Stage
  <2> HIDE DEF stage
  <2>2. QED
    BY <1>1, <1>4, <1>5, <2>1 DEF Job
<1>7. TypeOK'
  BY <1>0, <1>6 DEF TypeOK, CollectAdded
<1>8. HandlerInv'
  <2>1. Configured(p)' = Configured(p) /\ UNCHANGED <<nodes, arr, pc>>
    BY DEF CollectAdded, Configured, RowIps
  <2>2. pc # "idle"
    BY <1>0, <1>1 DEF HandlerInv, Idle
  <2>3. QED
    BY <1>2, <1>3, <1>6, <2>1, <2>2 DEF HandlerInv
<1>9. QED
  BY <1>7, <1>8, TablesKept DEF IInv, CollectAdded

\* udpfwd_store_address.
LEMMA AddStepKeepsIInv ==
  ASSUME IInv, NEW s \in Server, AddStep(s)
  PROVE  IInv'
<1> USE DEF tableVars, dbVars, walkVars
<1> DEFINE p == job.row[1]
<1>0. TypeOK /\ NoDuplicateRefs /\ RefCountsExact /\ HandlerInv
  BY DEF IInv
<1>1. /\ job \in Job /\ p \in Port /\ p \in nodes /\ job.stage = "add"
      /\ job.todo \cap Range(arr[p]) = {} /\ job.todo \subseteq Configured(p)
      /\ s \in job.todo
  BY <1>0 DEF TypeOK, HandlerInv, AddStep, NoJob, Job
<1>2. /\ job' \in Job
      /\ job'.stage = job.stage /\ job'.row = job.row /\ job'.todo = job.todo \ {s}
  BY <1>1 DEF AddStep, Job
<1>3. pc' = pc /\ pc # "idle" /\ nodes' = nodes /\ Configured(p)' = Configured(p)
  BY <1>0, <1>1 DEF AddStep, HandlerInv, Configured, RowIps, Idle
<1>4. CASE Len(arr[p]) >= MaxServers
  <2>1. UNCHANGED <<arr, refs, stray>>
    BY <1>4 DEF AddStep, StoreAddress
  <2>2. TypeOK'
    BY <1>0, <1>2, <2>1 DEF TypeOK, AddStep
  <2>3. HandlerInv'
    BY <1>1, <1>2, <1>3, <2>1 DEF HandlerInv
  <2>4. QED
    BY <2>1, <2>2, <2>3, TablesKept DEF IInv, AddStep
<1>5. CASE ~(Len(arr[p]) >= MaxServers)
  <2> DEFINE more == Append(arr[p], s)
  <2>1. /\ refs' = [refs EXCEPT ![s] = @ + 1]
        /\ arr' = [arr EXCEPT ![p] = more]
        /\ stray' = [stray EXCEPT ![p] = @ \ {s}]
    BY <1>5 DEF AddStep, StoreAddress
  <2>2. /\ arr[p] \in Seq(Server) /\ Distinct(arr[p]) /\ arr \in [Port -> Seq(Server)]
        /\ s \notin Range(arr[p])
    BY <1>0, <1>1 DEF TypeOK, NoDuplicateRefs, Distinct
  <2>3. /\ more \in Seq(Server) /\ Len(more) = Len(arr[p]) + 1 /\ Distinct(more)
        /\ Range(more) = Range(arr[p]) \cup {s}
    BY <2>2, AppendDistinct
  <2> HIDE DEF more
  <2>4. NoDuplicateRefs'
    BY <1>0, <1>1, <2>1, <2>2, <2>3 DEF NoDuplicateRefs, Distinct
  <2>5. /\ Cardinality(Users(s)') = Cardinality(Users(s)) + 1
        /\ \A t : t # s => Users(t)' = Users(t)
    BY <1>1, <2>1, <2>2, <2>3, UsersAdd
  <2>6. leaked' = leaked /\ refs \in [Server -> Nat] /\ leaked \in [Server -> Nat]
    BY <1>0 DEF TypeOK, AddStep
  <2>7. RefCountsExact'
    <3>1. SUFFICES ASSUME NEW t \in Server
                   PROVE  refs'[t] = Cardinality(Users(t)') + leaked[t]
      BY <2>6 DEF RefCountsExact
    <3>2. refs[t] = Cardinality(Users(t)) + leaked[t]
      BY <1>0 DEF RefCountsExact
    <3>3. CASE t = s
      BY <3>2, <3>3, <2>1, <2>5, <2>6, UsersFinite
    <3>4. CASE t # s
      BY <3>2, <3>4, <2>1, <2>5, <2>6
    <3>5. QED
      BY <3>3, <3>4
  <2>8. TypeOK'
    <3>1. arr' \in [Port -> Seq(Server)]
      BY <2>1, <2>2, <2>3
    <3>2. \A q \in Port : Len(arr'[q]) <= MaxServers
      <4>1. Len(arr[p]) + 1 <= MaxServers
        BY <1>5, <2>2, ConfigAssumption DEF ConfigAssumption
      <4>2. QED
        BY <1>0, <1>1, <2>1, <2>2, <2>3, <4>1 DEF TypeOK
    <3>3. \A q \in Port \ nodes' : arr'[q] = <<>> /\ gw'[q] = NoIp
      BY <1>0, <1>1, <1>3, <2>1, <2>2 DEF TypeOK, AddStep
    <3>4. refs' \in [Server -> Nat]
      <4>1. refs[s] + 1 \in Nat
        BY <2>6
      <4>2. QED
        BY <2>1, <2>6, <4>1
    <3>5. stray' \in [Port -> SUBSET Server]
      <4>1. stray \in [Port -> SUBSET Server]
        BY <1>0 DEF TypeOK
      <4>2. stray[p] \ {s} \in SUBSET Server
        BY <1>1, <4>1
      <4>3. QED
        BY <1>1, <2>1, <4>1, <4>2
    <3>6. QED
      BY <1>0, <1>2, <3>1, <3>2, <3>3, <3>4, <3>5 DEF TypeOK, AddStep
  <2>9. HandlerInv'
    <3>1. Range(arr'[p]) = Range(arr[p]) \cup {s}
      BY <1>1, <2>1, <2>2, <2>3
    <3>2. QED
      BY <1>1, <1>2, <1>3, <3>1 DEF HandlerInv
  <2>10. QED
    BY <2>4, <2>7, <2>8, <2>9 DEF IInv
<1>6. QED
  BY <1>4, <1>5

\* A store through a freed node counts a reference no interface holds.
LEMMA StrayStepKeepsIInv ==
  ASSUME IInv, NEW s \in Server, StrayStep(s)
  PROVE  IInv'
<1> USE DEF tableVars, dbVars, walkVars
<1> DEFINE p == job.row[1]
<1>0. TypeOK /\ NoDuplicateRefs /\ RefCountsExact /\ HandlerInv
  BY DEF IInv
<1>1. /\ job \in Job /\ p \in Port /\ job.stage = "stray"
      /\ job.todo \subseteq Configured(p) /\ s \in job.todo
  BY <1>0 DEF TypeOK, HandlerInv, StrayStep, NoJob, Job
<1>2. /\ job' \in Job
      /\ job'.stage = job.stage /\ job'.row = job.row /\ job'.todo = job.todo \ {s}
  BY <1>1 DEF StrayStep, Job
<1>3. /\ pc' = pc /\ pc # "idle" /\ Configured(p)' = Configured(p)
      /\ UNCHANGED <<nodes, arr>>
  BY <1>0, <1>1 DEF StrayStep, HandlerInv, Configured, RowIps, Idle
<1>4. HandlerInv'
  BY <1>1, <1>2, <1>3 DEF HandlerInv
<1>5. NoDuplicateRefs'
  BY <1>0, <1>3 DEF NoDuplicateRefs
<1>6. /\ refs' = [refs EXCEPT ![s] = @ + 1] /\ leaked' = [leaked EXCEPT ![s] = @ + 1]
      /\ refs \in [Server -> Nat] /\ leaked \in [Server -> Nat]
  BY <1>0 DEF TypeOK, StrayStep
<1>7. RefCountsExact'
  <2>1. SUFFICES ASSUME NEW t \in Server
                 PROVE  refs'[t] = Cardinality(Users(t)') + leaked'[t]
    BY DEF RefCountsExact
  <2>2. refs[t] = Cardinality(Users(t)) + leaked[t] /\ Users(t)' = Users(t)
    BY <1>0, <1>3 DEF RefCountsExact, Users
  <2>3. QED
    BY <1>6, <2>2, UsersFinite
<1>8. TypeOK'
  <2>1. /\ refs' \in [Server -> Nat] /\ leaked' \in [Server -> Nat]
        /\ stray' \in [Port -> SUBSET Server]
    BY <1>0, <1>1, <1>6 DEF TypeOK, StrayStep
  <2>2. QED
    BY <1>0, <1>2, <1>3, <2>1 DEF TypeOK, StrayStep
<1>9. QED
  BY <1>4, <1>5, <1>7, <1>8 DEF IInv

LEMMA EndJobKeepsIInv ==
  ASSUME IInv, EndJob
  PROVE  IInv'
<1> USE DEF tableVars, dbVars, walkVars
<1>1. TypeOK'
  BY DEF IInv, TypeOK, EndJob
<1>2. HandlerInv'
  BY DEF HandlerInv, EndJob, NoJob, Idle
<1>3. QED
  BY <1>1, <1>2, TablesKept DEF IInv, EndJob

LEMMA RestartKeepsIInv ==
  ASSUME IInv, Restart
  PROVE  IInv'
<1> USE DEF dbVars
<1>1. \A s \in Server : Users(s)' = {}
  BY DEF Restart, Users, Range
<1>2. TypeOK'
  <2>1. AllInserted \in IdlType
    BY DEF AllInserted, IdlType
  <2>2. idl' \in IdlType
    BY <2>1 DEF Restart
  <2>3. /\ arr' \in [Port -> Seq(Server)]
        /\ \A p \in Port : Len(arr'[p]) <= MaxServers
        /\ \A p \in Port : arr'[p] = <<>> /\ gw'[p] = NoIp
    BY ConfigAssumption DEF Restart, ConfigAssumption
  <2>4. /\ gw' \in [Port -> GatewayIp \cup {NoIp}] /\ refs' \in [Server -> Nat]
        /\ leaked' \in [Server -> Nat] /\ stray' \in [Port -> SUBSET Server]
    BY DEF Restart
  <2>5. /\ nodes' = {} /\ pc' = "idle" /\ nodeWalk' = {} /\ rowWalk' = {}
        /\ job' = NoJob /\ dhcp' = dhcp /\ udp' = udp
    BY DEF Restart
  <2>6. QED
    BY <2>2, <2>3, <2>4, <2>5 DEF IInv, TypeOK, IdlType
<1>3. NoDuplicateRefs' /\ HandlerInv'
  BY DEF Restart, NoDuplicateRefs, HandlerInv, NoJob, Idle
<1>4. RefCountsExact'
  <2>1. SUFFICES ASSUME NEW s \in Server
                 PROVE  refs'[s] = Cardinality(Users(s)') + leaked'[s]
    BY DEF RefCountsExact
  <2>2. refs'[s] = 0 /\ leaked'[s] = 0 /\ Cardinality(Users(s)') = 0
    BY <1>1, FS_EmptySet DEF Restart
  <2>3. QED
    BY <2>2
<1>5. QED
  BY <1>2, <1>3, <1>4 DEF IInv

LEMMA StutterKeepsIInv ==
  ASSUME IInv, UNCHANGED vars
  PROVE  IInv'
BY DEF IInv, TypeOK, NoDuplicateRefs, RefCountsExact, HandlerInv, Users,
   Configured, RowIps, vars, dbVars, tableVars, walkVars, Idle

LEMMA NextKeepsIInv ==
  ASSUME IInv, [Next]_vars
  PROVE  IInv'
<1>1. CASE MainThread
  BY <1>1, WalkKeepsIInv, RowDeleteKeepsIInv, DhcpConfigChangeKeepsIInv,
     UdpConfigChangeKeepsIInv, RemoveStepKeepsIInv, CollectAddedKeepsIInv,
     AddStepKeepsIInv, StrayStepKeepsIInv, EndJobKeepsIInv DEF MainThread
<1>2. CASE Ovsdb
  BY <1>2, OvsdbKeepsIInv
<1>3. CASE Restart
  BY <1>3, RestartKeepsIInv
<1>4. CASE UNCHANGED vars
  BY <1>4, StutterKeepsIInv
<1>5. QED
  BY <1>1, <1>2, <1>3, <1>4 DEF Next

-----------------------------------------------------------------------------
(* The refinement of RelayTable, step by step.                             *)

\* A step that touches neither the rows nor the arrays is invisible.
LEMMA TableStutters ==
  ASSUME UNCHANGED <<dhcp, udp, arr>>
  PROVE  UNCHANGED RT!vars
BY DEF RT!vars, Configured, RowIps

LEMMA OvsdbConfigures ==
  ASSUME Ovsdb
  PROVE  RT!Configure
<1>1. UNCHANGED arr
  BY DEF Ovsdb, SetHelpers, SetGateway, SetForwards, WriteDhcpRow, tableVars
<1>2. \A p \in Port : Configured(p)' \in SUBSET Server
  BY DEF Configured
<1>3. QED
  BY <1>1, <1>2 DEF RT!Configure

\* Every removal is the withdrawal of a server that is not configured.
LEMMA RemoveStepWithdraws ==
  ASSUME IInv, NEW s \in Server, RemoveStep(s)
  PROVE  [RT!Next]_(RT!vars)
<1> USE DEF tableVars, dbVars, walkVars
<1> DEFINE p == job.row[1]
<1>1. /\ p \in Port /\ s \notin Configured(p) /\ arr \in [Port -> Seq(Server)]
      /\ Distinct(arr[p])
  BY DEF IInv, TypeOK, HandlerInv, NoDuplicateRefs, Distinct, RemoveStep, NoJob, Job
<1>2. UNCHANGED <<dhcp, udp>>
  BY DEF RemoveStep
<1>3. CASE s \notin Range(arr[p])
  <2>1. UNCHANGED arr
    BY <1>3 DEF RemoveStep, RemoveAddress
  <2>2. QED
    BY <1>2, <2>1, TableStutters
<1>4. CASE s \in Range(arr[p])
  <2> DEFINE left == DropSlot(arr[p], SlotOf(arr[p], s))
  <2>1. arr' = [arr EXCEPT ![p] = left]
    BY <1>4 DEF RemoveStep, RemoveAddress
  <2>2. Range(left) = Range(arr[p]) \ {s}
    BY <1>1, <1>4, SlotOfHolds, DropSlotProperties
  <2> HIDE DEF left
  <2>3. [q \in Port |-> Range(arr[q])]' =
          [[q \in Port |-> Range(arr[q])] EXCEPT ![p] = @ \ {s}]
    BY <1>1, <2>1, <2>2
  <2>4. [q \in Port |-> Configured(q)]' = [q \in Port |-> Configured(q)]
    BY <1>2 DEF Configured, RowIps
  <2>5. RT!Withdraw(p, s)
    BY <1>1, <1>4, <2>3, <2>4 DEF RT!Withdraw
  <2>6. QED
    BY <1>1, <2>5 DEF RT!Next
<1>5. QED
  BY <1>3, <1>4

\* Every addition installs a configured server the interface did not have.
LEMMA AddStepInstalls ==
  ASSUME IInv, NEW s \in Server, AddStep(s)
  PROVE  [RT!Next]_(RT!vars)
<1> USE DEF tableVars, dbVars, walkVars
<1> DEFINE p == job.row[1]
<1>1. /\ p \in Port /\ s \in Configured(p) /\ s \notin Range(arr[p])
      /\ arr \in [Port -> Seq(Server)] /\ Distinct(arr[p])
  BY DEF IInv, TypeOK, HandlerInv, NoDuplicateRefs, Distinct, AddStep, NoJob, Job
<1>2. UNCHANGED <<dhcp, udp>>
  BY DEF AddStep
<1>3. CASE Len(arr[p]) >= MaxServers
  <2>1. UNCHANGED arr
    BY <1>3 DEF AddStep, StoreAddress
  <2>2. QED
    BY <1>2, <2>1, TableStutters
<1>4. CASE ~(Len(arr[p]) >= MaxServers)
  <2> DEFINE more == Append(arr[p], s)
  <2>1. arr' = [arr EXCEPT ![p] = more]
    BY <1>4 DEF AddStep, StoreAddress
  <2>2. Range(more) = Range(arr[p]) \cup {s}
    BY <1>1, AppendDistinct
  <2> HIDE DEF more
  <2>3. [q \in Port |-> Range(arr[q])]' =
          [[q \in Port |-> Range(arr[q])] EXCEPT ![p] = @ \cup {s}]
    BY <1>1, <2>1, <2>2
  <2>4. [q \in Port |-> Configured(q)]' = [q \in Port |-> Configured(q)]
    BY <1>2 DEF Configured, RowIps
  <2>5. RT!Install(p, s)
    BY <1>1, <2>3, <2>4 DEF RT!Install
  <2>6. QED
    BY <1>1, <2>5 DEF RT!Next
<1>5. QED
  BY <1>3, <1>4

LEMMA RestartResets ==
  ASSUME Restart
  PROVE  RT!Reset
<1>1. [p \in Port |-> Range(arr[p])]' = [p \in Port |-> {}]
  BY DEF Restart, Range
<1>2. [p \in Port |-> Configured(p)]' = [p \in Port |-> Configured(p)]
  BY DEF Restart, dbVars, Configured, RowIps
<1>3. QED
  BY <1>1, <1>2 DEF RT!Reset, RT!Empty

LEMMA StepRefines ==
  ASSUME IInv, [Next]_vars
  PROVE  [RT!Next]_(RT!vars)
<1> USE DEF tableVars, dbVars, walkVars
<1>1. ASSUME NEW s \in Server, RemoveStep(s) PROVE [RT!Next]_(RT!vars)
  BY <1>1, RemoveStepWithdraws
<1>2. ASSUME NEW s \in Server, AddStep(s) PROVE [RT!Next]_(RT!vars)
  BY <1>2, AddStepInstalls
<1>3. CASE Ovsdb
  BY <1>3, OvsdbConfigures DEF RT!Next
<1>4. CASE Restart
  BY <1>4, RestartResets DEF RT!Next
<1>5. CASE UNCHANGED vars
  BY <1>5, TableStutters DEF vars
<1>6. CASE /\ MainThread
           /\ ~ \E s \in Server : RemoveStep(s) \/ AddStep(s)
  <2>1. UNCHANGED <<dhcp, udp, arr>>
    BY <1>6 DEF MainThread, BeginReconfigure, BeginUdpTable, EndReconfigure,
       DhcpRowDelete, UdpRowDelete, DhcpConfigChange, UdpConfigChange,
       StrayStep, CollectAdded, EndJob
  <2>2. QED
    BY <2>1, TableStutters
<1>7. QED
  BY <1>1, <1>2, <1>3, <1>4, <1>5, <1>6 DEF Next

LEMMA InitRefines == Init => RT!Init
BY DEF Init, RT!Init, RT!Empty, Configured, Range

-----------------------------------------------------------------------------
(* The theorems.                                                           *)

THEOREM InductiveInvariant == Spec => []IInv
BY InitIInv, NextKeepsIInv, PTL DEF Spec

\* The tables keep their types and shape whatever the daemon and its
\* environment do.
THEOREM TypeCorrect == Spec => []TypeOK
BY InductiveInvariant, PTL DEF IInv

\* No sequence of row changes makes an interface hold a server twice.
THEOREM NoDuplicates == Spec => []NoDuplicateRefs
BY InductiveInvariant, PTL DEF IInv

\* udpfwd_store_address and udpfwd_remove_address count references exactly.
THEOREM RefCounts == Spec => []RefCountsExact
BY InductiveInvariant, PTL DEF IInv

\* The daemon implements RelayTable: no interleaving of row changes, handler
\* steps and restarts withdraws a configured server or installs another one.
THEOREM Refinement == Spec => ImplementsRelayTable
<1>1. IInv /\ [Next]_vars => [RT!Next]_(RT!vars)
  BY StepRefines
<1>2. QED
  BY <1>1, InitRefines, InductiveInvariant, PTL
     DEF Spec, ImplementsRelayTable, RT!Spec

-----------------------------------------------------------------------------
(* Convergence: what still separates the tables from the rows is recorded  *)
(* somewhere until it has been handled.                                    *)

RowPort == {DHCPS_PORT} \cup UdpPort

\* The table a row of UDP port d belongs to.
Table(d) == IF d = DHCPS_PORT THEN "dhcp" ELSE "udp"

\* What p's array holds, and what its row lists, for UDP port d.
Holds(p, d) == {s \in Range(arr[p]) : s.udp_port = d}
Wants(p, d) == {s \in Server : s.udp_port = d /\ s.ip \in RowIps(p, d)}

RowSynced(p, d) == Holds(p, d) = Wants(p, d) \ stray[p]

NoRowOf(p, d) == IF d = DHCPS_PORT THEN ~HasDhcpRow(p) ELSE udp[p][d] = {}

\* The IDL still flags the row ...
Flagged(p, d) ==
  IF d = DHCPS_PORT
  THEN /\ idl.serversModified
       /\ p \in idl.dhcpChanged \/ (idl.dhcpDeleted /\ ~HasDhcpRow(p))
  ELSE <<p, d>> \in idl.udpChanged \/ (idl.udpDeleted /\ udp[p][d] = {})

\* ... or a walk of udpfwd_reconfigure has still to come to it ...
Ahead(p, d) ==
  \/ <<p, d>> \in rowWalk /\ (d = DHCPS_PORT => idl.serversModified)
  \/ p \in nodeWalk /\ NoRowOf(p, d)

\* ... or its handler is under way.
InHand(p, d) ==
  /\ ~Idle(job) /\ job.row[1] = p
  /\ IF job.stage = "prune" THEN RowIps(p, d) = {} ELSE job.row[2] = d

Owed(p, d) ==
  \/ (pc = "idle" \/ (pc = "dhcp" /\ d # DHCPS_PORT)) /\ Flagged(p, d)
  \/ pc = Table(d) /\ (Ahead(p, d) \/ InHand(p, d))

SyncInv == \A p \in Port, d \in RowPort : RowSynced(p, d) \/ Owed(p, d)

\* A handler under way finishes what it began: a removal loop drops all the
\* row does not list, an addition loop stores all the array lacks.
JobInv ==
  LET p == job.row[1]
      d == job.row[2]
  IN /\ job.stage = "prune" =>
          \A e \in RowPort : pc = Table(e) /\ RowIps(p, e) = {} =>
                               Holds(p, e) \subseteq job.todo
     /\ job.stage = "remove" =>
          pc = Table(d) /\ Holds(p, d) \subseteq Wants(p, d) \cup job.todo
     /\ job.stage = "add" =>
          /\ pc = Table(d) /\ Holds(p, d) \subseteq Wants(p, d)
          /\ job.todo \subseteq Wants(p, d)
          /\ Wants(p, d) \subseteq Holds(p, d) \cup job.todo
     /\ job.stage = "stray" =>
          /\ pc = Table(d) /\ p \notin nodes
          /\ Wants(p, d) \subseteq job.todo \cup stray[p]

\* The bootp gateway, in the same way.
GwSynced(p) == dhcp[p].gw # BadIp => gw[p] = dhcp[p].gw

GwInv ==
  \A p \in Port :
    \/ GwSynced(p)
    \/ /\ pc = "idle" /\ idl.gwModified
       /\ p \in idl.dhcpChanged \/ (idl.dhcpDeleted /\ ~HasDhcpRow(p))
    \/ /\ pc = "dhcp"
       /\ \/ idl.gwModified /\ <<p, DHCPS_PORT>> \in rowWalk
          \/ p \in nodeWalk /\ ~HasDhcpRow(p)

\* A server a live node holds is none that was stored through a freed one.
StrayApart == \A p \in Port : Range(arr[p]) \cap stray[p] = {}

ConvInv == IInv /\ SyncInv /\ JobInv /\ GwInv /\ StrayApart

\* No port name is a prefix of another.
NamesApart == \A r \in NamePrefix : r[1] = r[2]

\* What the handlers meet when none of the real obstacles to convergence is
\* there: a slot for every server they store, and no forwarding server whose
\* address is also a new helper address (whatever its port, the DHCP handler
\* takes such an address as already stored).
HasRoom ==
  job.stage = "add" /\ job.todo # {} => Len(arr[job.row[1]]) < MaxServers

HelpersApart ==
  \A p \in Port : \A s \in Range(arr[p]) :
    s.ip \in dhcp[p].servers => s.udp_port = DHCPS_PORT

Room == HasRoom /\ HelpersApart

-----------------------------------------------------------------------------
(* The effect of the locked operations on the servers of an interface.     *)

LEMMA RowPorts ==
  /\ DHCPS_PORT \in RowPort /\ \A d \in UdpPort : d \in RowPort /\ d # DHCPS_PORT
  /\ \A d \in RowPort : d # DHCPS_PORT => d \in UdpPort
  /\ \A s \in Server : s.udp_port \in RowPort /\ s.ip \in Ip
BY ConfigAssumption DEF ConfigAssumption, RowPort, Server

LEMMA JobShape ==
  ASSUME TypeOK
  PROVE  /\ job.stage \in Stage
         /\ ~Idle(job) => /\ job \in Job /\ job.row[1] \in Port
                          /\ job.row[2] \in RowPort /\ job.todo \subseteq Server
BY DEF TypeOK, Idle, Job, NoJob, Stage, RowPort

SameRows == UNCHANGED <<dhcp, udp, idl, gw, pc, nodeWalk, rowWalk>>

LEMMA RemoveEffect ==
  ASSUME IInv, NEW s \in Server, RemoveStep(s)
  PROVE  LET p == job.row[1] IN
         /\ p \in Port /\ s \in job.todo /\ s \notin Configured(p)
         /\ job.stage \in {"prune", "remove"}
         /\ job' = [job EXCEPT !.todo = @ \ {s}]
         /\ Range(arr'[p]) = Range(arr[p]) \ {s}
         /\ \A q \in Port \ {p} : arr'[q] = arr[q]
         /\ stray' = stray /\ SameRows
<1> USE DEF tableVars, dbVars, walkVars
<1> DEFINE p == job.row[1]
<1>1. /\ p \in Port /\ s \in job.todo /\ s \notin Configured(p)
      /\ arr \in [Port -> Seq(Server)] /\ Distinct(arr[p])
      /\ job.stage \in {"prune", "remove"}
      /\ job' = [job EXCEPT !.todo = @ \ {s}]
  BY DEF IInv, TypeOK, HandlerInv, NoDuplicateRefs, Distinct, RemoveStep, NoJob, Job
<1>2. stray' = stray /\ SameRows
  BY DEF RemoveStep, SameRows
<1>3. CASE s \notin Range(arr[p])
  <2>1. UNCHANGED arr
    BY <1>3 DEF RemoveStep, RemoveAddress
  <2>2. QED
    BY <1>1, <1>2, <1>3, <2>1
<1>4. CASE s \in Range(arr[p])
  <2> DEFINE left == DropSlot(arr[p], SlotOf(arr[p], s))
  <2>1. arr' = [arr EXCEPT ![p] = left]
    BY <1>4 DEF RemoveStep, RemoveAddress
  <2>2. Range(left) = Range(arr[p]) \ {s}
    BY <1>1, <1>4, SlotOfHolds, DropSlotProperties
  <2> HIDE DEF left
  <2>3. arr'[p] = left /\ \A q \in Port \ {p} : arr'[q] = arr[q]
    BY <1>1, <2>1
  <2>4. QED
    BY <1>1, <1>2, <2>2, <2>3
<1>5. QED
  BY <1>3, <1>4

LEMMA AddEffect ==
  ASSUME IInv, HasRoom, NEW s \in Server, AddStep(s)
  PROVE  LET p == job.row[1] IN
         /\ p \in Port /\ s \in job.todo /\ s \in Configured(p)
         /\ job.stage = "add" /\ job' = [job EXCEPT !.todo = @ \ {s}]
         /\ Range(arr'[p]) = Range(arr[p]) \cup {s}
         /\ \A q \in Port \ {p} : arr'[q] = arr[q]
         /\ stray' = [stray EXCEPT ![p] = @ \ {s}] /\ SameRows
<1> USE DEF tableVars, dbVars, walkVars
<1> DEFINE p == job.row[1]
           more == Append(arr[p], s)
<1>1. /\ p \in Port /\ s \in job.todo /\ s \in Configured(p)
      /\ s \notin Range(arr[p]) /\ arr \in [Port -> Seq(Server)] /\ Distinct(arr[p])
      /\ job.stage = "add" /\ job' = [job EXCEPT !.todo = @ \ {s}]
  BY DEF IInv, TypeOK, HandlerInv, NoDuplicateRefs, Distinct, AddStep, NoJob, Job
<1>2. SameRows
  BY DEF AddStep, SameRows
<1>3. ~(Len(arr[p]) >= MaxServers)
  <2>1. Len(arr[p]) < MaxServers /\ Len(arr[p]) \in Nat /\ MaxServers \in Nat
    BY <1>1, ConfigAssumption DEF HasRoom, AddStep, ConfigAssumption
  <2>2. QED
    BY <2>1
<1>4. arr' = [arr EXCEPT ![p] = more] /\ stray' = [stray EXCEPT ![p] = @ \ {s}]
  BY <1>3 DEF AddStep, StoreAddress
<1>5. Range(more) = Range(arr[p]) \cup {s}
  BY <1>1, AppendDistinct
<1> HIDE DEF more
<1>6. arr'[p] = more /\ \A q \in Port \ {p} : arr'[q] = arr[q]
  BY <1>1, <1>4
<1>7. QED
  BY <1>1, <1>2, <1>4, <1>5, <1>6

LEMMA StrayEffect ==
  ASSUME IInv, NEW s \in Server, StrayStep(s)
  PROVE  LET p == job.row[1] IN
         /\ p \in Port /\ s \in job.todo /\ s \in Configured(p)
         /\ job.stage = "stray" /\ job' = [job EXCEPT !.todo = @ \ {s}]
         /\ stray' = [stray EXCEPT ![p] = @ \cup {s}]
         /\ UNCHANGED <<arr, nodes>> /\ SameRows
BY DEF IInv, TypeOK, HandlerInv, StrayStep, NoJob, Job, dbVars, walkVars, SameRows

\* A port without a node has no servers.
LEMMA NoNodeNoServers ==
  ASSUME TypeOK, NEW p \in Port, p \notin nodes
  PROVE  arr[p] = <<>> /\ Range(arr[p]) = {} /\ gw[p] = NoIp
BY DEF TypeOK, Range

LEMMA WantsConfigured ==
  ASSUME NEW p, NEW d
  PROVE  Wants(p, d) = {s \in Configured(p) : s.udp_port = d}
BY DEF Wants, Configured

-----------------------------------------------------------------------------
(* Convergence, step by step.                                              *)

\* While a handler works, what is owed stays owed.
LEMMA OwedKept ==
  ASSUME TypeOK, SameRows, ~Idle(job), job'.stage = job.stage, job'.row = job.row,
         NEW p, NEW d, Owed(p, d)
  PROVE  Owed(p, d)'
BY DEF SameRows, Owed, Flagged, Ahead, InHand, Idle, NoRowOf, HasDhcpRow, RowIps

LEMMA GwInvKept ==
  ASSUME SameRows, GwInv
  PROVE  GwInv'
BY DEF SameRows, GwInv, GwSynced, HasDhcpRow

\* A removal takes away nothing a row asks for.
LEMMA RemoveStepKeepsConv ==
  ASSUME ConvInv, NEW s \in Server, RemoveStep(s)
  PROVE  SyncInv' /\ JobInv' /\ GwInv' /\ StrayApart'
<1> DEFINE p == job.row[1]
<1>1. /\ p \in Port /\ s \in job.todo /\ s \notin Configured(p)
      /\ job.stage \in {"prune", "remove"}
      /\ job' = [job EXCEPT !.todo = @ \ {s}]
      /\ Range(arr'[p]) = Range(arr[p]) \ {s}
      /\ \A q \in Port \ {p} : arr'[q] = arr[q]
      /\ stray' = stray /\ SameRows
  BY RemoveEffect DEF ConvInv
<1>2. TypeOK /\ SyncInv /\ JobInv /\ GwInv /\ StrayApart
  BY DEF ConvInv, IInv
<1>3. ~Idle(job) /\ job \in Job /\ job.row[2] \in RowPort
  BY <1>1, <1>2, JobShape DEF Idle
<1>4. job'.stage = job.stage /\ job'.row = job.row /\ job'.todo = job.todo \ {s}
  BY <1>1, <1>3 DEF Job
<1>5. \A q, d : Wants(q, d)' = Wants(q, d) /\ RowIps(q, d)' = RowIps(q, d)
  BY <1>1 DEF SameRows, Wants, RowIps
<1>6. \A q \in Port : \A d : Holds(q, d)' = Holds(q, d) \ (IF q = p THEN {s} ELSE {})
  BY <1>1 DEF Holds
<1>7. \A q, d : q = p => s \notin Wants(q, d)
  BY <1>1, WantsConfigured
<1>8. SyncInv'
  <2>1. SUFFICES ASSUME NEW q \in Port, NEW d \in RowPort
                 PROVE  RowSynced(q, d)' \/ Owed(q, d)'
    BY DEF SyncInv
  <2>2. CASE RowSynced(q, d)
    BY <1>1, <1>5, <1>6, <1>7, <2>2 DEF RowSynced
  <2>3. CASE Owed(q, d)
    BY <1>1, <1>2, <1>3, <1>4, <2>3, OwedKept
  <2>4. QED
    BY <1>2, <2>2, <2>3 DEF SyncInv
<1>9. JobInv'
  <2>1. pc' = pc
    BY <1>1 DEF SameRows
  <2>2. CASE job.stage = "prune"
    BY <1>1, <1>2, <1>4, <1>5, <1>6, <2>1, <2>2 DEF JobInv
  <2>3. CASE job.stage = "remove"
    BY <1>1, <1>2, <1>4, <1>5, <1>6, <2>1, <2>3 DEF JobInv
  <2>4. QED
    BY <1>1, <2>2, <2>3
<1>10. StrayApart'
  BY <1>1, <1>2 DEF StrayApart
<1>11. QED
  BY <1>1, <1>2, <1>8, <1>9, <1>10, GwInvKept

\* A stored server is one a row asks for, and no longer a stray one.
LEMMA AddStepKeepsConv ==
  ASSUME ConvInv, HasRoom, NEW s \in Server, AddStep(s)
  PROVE  SyncInv' /\ JobInv' /\ GwInv' /\ StrayApart'
<1> DEFINE p == job.row[1]
           e == job.row[2]
<1>1. /\ p \in Port /\ s \in job.todo /\ s \in Configured(p)
      /\ job.stage = "add" /\ job' = [job EXCEPT !.todo = @ \ {s}]
      /\ Range(arr'[p]) = Range(arr[p]) \cup {s}
      /\ \A q \in Port \ {p} : arr'[q] = arr[q]
      /\ stray' = [stray EXCEPT ![p] = @ \ {s}] /\ SameRows
  BY AddEffect DEF ConvInv
<1>2. /\ TypeOK /\ SyncInv /\ JobInv /\ GwInv /\ StrayApart
      /\ stray \in [Port -> SUBSET Server]
  BY DEF ConvInv, IInv, TypeOK
<1>3. ~Idle(job) /\ job \in Job /\ e \in RowPort
  BY <1>1, <1>2, JobShape DEF Idle
<1>4. job'.stage = job.stage /\ job'.row = job.row /\ job'.todo = job.todo \ {s}
  BY <1>1, <1>3 DEF Job
<1>5. \A q, d : Wants(q, d)' = Wants(q, d) /\ RowIps(q, d)' = RowIps(q, d)
  BY <1>1 DEF SameRows, Wants, RowIps
<1>6. \A q \in Port : \A d :
        Holds(q, d)' = Holds(q, d) \cup (IF q = p /\ s.udp_port = d THEN {s} ELSE {})
  BY <1>1 DEF Holds
<1>7. \A d : s.udp_port = d => s \in Wants(p, d)
  BY <1>1, WantsConfigured
<1>8. \A q \in Port : stray'[q] = stray[q] \ (IF q = p THEN {s} ELSE {})
  BY <1>1, <1>2
<1>9. SyncInv'
  <2>1. SUFFICES ASSUME NEW q \in Port, NEW d \in RowPort
                 PROVE  RowSynced(q, d)' \/ Owed(q, d)'
    BY DEF SyncInv
  <2>2. CASE RowSynced(q, d)
    <3>1. \A t \in Wants(q, d) : t.udp_port = d
      BY DEF Wants
    <3>2. QED
      BY <1>1, <1>5, <1>6, <1>7, <1>8, <2>2, <3>1 DEF RowSynced
  <2>3. CASE Owed(q, d)
    BY <1>1, <1>2, <1>3, <1>4, <2>3, OwedKept
  <2>4. QED
    BY <1>2, <2>2, <2>3 DEF SyncInv
<1>10. JobInv'
  <2>1. pc' = pc
    BY <1>1 DEF SameRows
  <2>2. s.udp_port = e /\ s \in Wants(p, e)
    BY <1>1, <1>2 DEF JobInv, Wants
  <2>3. /\ pc = Table(e) /\ Holds(p, e) \subseteq Wants(p, e)
        /\ job.todo \subseteq Wants(p, e)
        /\ Wants(p, e) \subseteq Holds(p, e) \cup job.todo
    BY <1>1, <1>2 DEF JobInv
  <2>4. Holds(p, e)' = Holds(p, e) \cup {s}
    BY <1>1, <1>6, <2>2
  <2>5. QED
    BY <1>1, <1>4, <1>5, <2>1, <2>2, <2>3, <2>4 DEF JobInv
<1>11. StrayApart'
  BY <1>1, <1>2, <1>8 DEF StrayApart
<1>12. QED
  BY <1>1, <1>2, <1>9, <1>10, <1>11, GwInvKept

\* A server stored through a freed node counts as stray.
LEMMA StrayStepKeepsConv ==
  ASSUME ConvInv, NEW s \in Server, StrayStep(s)
  PROVE  SyncInv' /\ JobInv' /\ GwInv' /\ StrayApart'
<1> DEFINE p == job.row[1]
           e == job.row[2]
<1>1. /\ p \in Port /\ s \in job.todo /\ s \in Configured(p)
      /\ job.stage = "stray" /\ job' = [job EXCEPT !.todo = @ \ {s}]
      /\ stray' = [stray EXCEPT ![p] = @ \cup {s}]
      /\ UNCHANGED <<arr, nodes>> /\ SameRows
  BY StrayEffect DEF ConvInv
<1>2. /\ TypeOK /\ SyncInv /\ JobInv /\ GwInv /\ StrayApart
      /\ stray \in [Port -> SUBSET Server]
  BY DEF ConvInv, IInv, TypeOK
<1>3. ~Idle(job) /\ job \in Job
  BY <1>1, <1>2, JobShape DEF Idle
<1>4. job'.stage = job.stage /\ job'.row = job.row /\ job'.todo = job.todo \ {s}
  BY <1>1, <1>3 DEF Job
<1>5. \A q, d : Wants(q, d)' = Wants(q, d) /\ Holds(q, d)' = Holds(q, d)
  BY <1>1 DEF SameRows, Wants, RowIps, Holds
<1>6. \A q \in Port : stray'[q] = stray[q] \cup (IF q = p THEN {s} ELSE {})
  BY <1>1, <1>2
<1>7. p \notin nodes /\ Range(arr[p]) = {} /\ \A d : Holds(p, d) = {}
  BY <1>1, <1>2, NoNodeNoServers DEF JobInv, Holds
<1>8. SyncInv'
  <2>1. SUFFICES ASSUME NEW q \in Port, NEW d \in RowPort
                 PROVE  RowSynced(q, d)' \/ Owed(q, d)'
    BY DEF SyncInv
  <2>2. CASE RowSynced(q, d)
    BY <1>5, <1>6, <1>7, <2>2 DEF RowSynced
  <2>3. CASE Owed(q, d)
    BY <1>1, <1>2, <1>3, <1>4, <2>3, OwedKept
  <2>4. QED
    BY <1>2, <2>2, <2>3 DEF SyncInv
<1>9. JobInv'
  <2>1. pc' = pc
    BY <1>1 DEF SameRows
  <2>2. pc = Table(e) /\ Wants(p, e) \subseteq job.todo \cup stray[p]
    BY <1>1, <1>2 DEF JobInv
  <2>3. QED
    BY <1>1, <1>4, <1>5, <1>6, <1>7, <2>1, <2>2 DEF JobInv
<1>10. StrayApart'
  BY <1>1, <1>2, <1>6, <1>7 DEF StrayApart
<1>11. QED
  BY <1>1, <1>2, <1>8, <1>9, <1>10, GwInvKept

\* The second half of a changed row: what it lists and the array lacks.
LEMMA CollectAddedKeepsConv ==
  ASSUME ConvInv, HelpersApart, CollectAdded
  PROVE  SyncInv' /\ JobInv' /\ GwInv' /\ StrayApart'
<1> USE DEF tableVars, dbVars, walkVars
<1> DEFINE p == job.row[1]
           e == job.row[2]
           new == {i \in RowIps(p, e) : ~Present(p, e, i)}
           stage == IF p \in nodes THEN "add" ELSE "stray"
<1>1. /\ job.stage = "remove" /\ job.todo = {}
      /\ job' = [job EXCEPT !.stage = stage, !.todo = {Entry(i, e) : i \in new}]
      /\ UNCHANGED <<arr, stray, nodes>> /\ SameRows
  BY DEF CollectAdded, SameRows
<1>2. /\ TypeOK /\ SyncInv /\ JobInv /\ GwInv /\ StrayApart
  BY DEF ConvInv, IInv
<1>3. ~Idle(job) /\ job \in Job /\ p \in Port /\ e \in RowPort
  BY <1>1, <1>2, JobShape DEF Idle
<1>4. /\ job'.stage = stage /\ job'.row = job.row
      /\ job'.todo = {Entry(i, e) : i \in new}
  BY <1>1, <1>3 DEF Job
<1>5. \A q, d : Wants(q, d)' = Wants(q, d) /\ Holds(q, d)' = Holds(q, d)
  BY <1>1 DEF SameRows, Wants, RowIps, Holds
<1>6. SyncInv'
  <2>1. SUFFICES ASSUME NEW q \in Port, NEW d \in RowPort
                 PROVE  RowSynced(q, d)' \/ Owed(q, d)'
    BY DEF SyncInv
  <2>2. CASE RowSynced(q, d)
    BY <1>1, <1>5, <2>2 DEF RowSynced
  <2>3. CASE Owed(q, d)
    BY <1>1, <1>3, <1>4, <2>3
       DEF SameRows, Owed, Flagged, Ahead, InHand, Idle, NoRowOf, HasDhcpRow
  <2>4. QED
    BY <1>2, <2>2, <2>3 DEF SyncInv
<1>7. pc = Table(e) /\ Holds(p, e) \subseteq Wants(p, e)
  BY <1>1, <1>2 DEF JobInv
<1>8. job'.todo \subseteq Wants(p, e)
  <2>1. RowIps(p, e) \subseteq Ip
    BY <1>2, <1>3, RowPorts DEF TypeOK, DhcpRow, RowIps, Ip, RowPort
  <2>2. QED
    BY <1>3, <1>4, <2>1 DEF Wants, Entry, Server, RowPort
<1>9. Wants(p, e) \subseteq Holds(p, e) \cup job'.todo
  <2>1. SUFFICES ASSUME NEW t \in Wants(p, e), t \notin Holds(p, e)
                 PROVE  t \in job'.todo
    OBVIOUS
  <2>2. t \in Server /\ t.udp_port = e /\ t.ip \in RowIps(p, e) /\ t = Entry(t.ip, e)
    BY DEF Wants, Server, Entry
  <2>3. ~Present(p, e, t.ip)
    <3>1. SUFFICES ASSUME NEW s \in Range(arr[p]), s.ip = t.ip,
                          e = DHCPS_PORT \/ s.udp_port = e
                   PROVE  FALSE
      BY DEF Present
    <3>2. s.udp_port = e
      BY <1>3, <2>2, <3>1 DEF HelpersApart, RowIps
    <3>3. s \in Server
      BY <1>2, <1>3 DEF TypeOK, Range
    <3>4. s = t
      BY <2>2, <3>1, <3>2, <3>3 DEF Server
    <3>5. QED
      BY <2>1, <3>2, <3>4 DEF Holds
  <2>4. QED
    BY <1>4, <2>2, <2>3
<1>10. JobInv'
  <2>1. pc' = pc /\ nodes' = nodes
    BY <1>1 DEF SameRows
  <2>2. CASE p \in nodes
    BY <1>4, <1>5, <1>7, <1>8, <1>9, <2>1, <2>2 DEF JobInv
  <2>3. CASE p \notin nodes
    <3>1. Holds(p, e) = {}
      BY <1>2, <1>3, <2>3, NoNodeNoServers DEF Holds
    <3>2. QED
      BY <1>4, <1>5, <1>7, <1>9, <2>1, <2>3, <3>1 DEF JobInv
  <2>4. QED
    BY <2>2, <2>3
<1>11. StrayApart'
  BY <1>1, <1>2 DEF StrayApart
<1>12. QED
  BY <1>1, <1>2, <1>6, <1>10, <1>11, GwInvKept

\* A handler ends with nothing left to do: its row is synced.
LEMMA EndJobKeepsConv ==
  ASSUME ConvInv, EndJob
  PROVE  SyncInv' /\ JobInv' /\ GwInv' /\ StrayApart'
<1> USE DEF tableVars, dbVars, walkVars
<1> DEFINE p == job.row[1]
           e == job.row[2]
<1>1. /\ job.stage \in {"prune", "add", "stray"} /\ job.todo = {} /\ job' = NoJob
      /\ UNCHANGED <<arr, stray, nodes>> /\ SameRows
  BY DEF EndJob, SameRows
<1>2. TypeOK /\ SyncInv /\ JobInv /\ GwInv /\ StrayApart
  BY DEF ConvInv, IInv
<1>3. ~Idle(job) /\ p \in Port
  BY <1>1, <1>2, JobShape DEF Idle
<1>4. \A q, d : Wants(q, d)' = Wants(q, d) /\ Holds(q, d)' = Holds(q, d)
  BY <1>1 DEF SameRows, Wants, RowIps, Holds
<1>5. ASSUME NEW d \in RowPort, pc = Table(d), InHand(p, d)
      PROVE  RowSynced(p, d)
  <2>1. Holds(p, d) \cap stray[p] = {}
    BY <1>2, <1>3 DEF StrayApart, Holds
  <2>2. CASE job.stage = "prune"
    <3>1. RowIps(p, d) = {}
      BY <1>5, <2>2 DEF InHand
    <3>2. Holds(p, d) = {}
      BY <1>1, <1>2, <1>5, <2>2, <3>1 DEF JobInv
    <3>3. QED
      BY <3>1, <3>2 DEF RowSynced, Wants
  <2>3. CASE job.stage = "add"
    <3>1. d = e
      BY <1>5, <2>3 DEF InHand
    <3>2. /\ Holds(p, e) \subseteq Wants(p, e)
          /\ Wants(p, e) \subseteq Holds(p, e) \cup job.todo
      BY <1>2, <2>3 DEF JobInv
    <3>3. Holds(p, d) = Wants(p, d)
      BY <1>1, <3>1, <3>2
    <3>4. QED
      BY <2>1, <3>3 DEF RowSynced
  <2>4. CASE job.stage = "stray"
    <3>1. d = e
      BY <1>5, <2>4 DEF InHand
    <3>2. p \notin nodes /\ Wants(p, d) \subseteq stray[p]
      BY <1>1, <1>2, <2>4, <3>1 DEF JobInv
    <3>3. Holds(p, d) = {}
      BY <1>2, <1>3, <3>2, NoNodeNoServers DEF Holds
    <3>4. QED
      BY <3>2, <3>3 DEF RowSynced
  <2>5. QED
    BY <1>1, <2>2, <2>3, <2>4
<1>6. SyncInv'
  <2>1. SUFFICES ASSUME NEW q \in Port, NEW d \in RowPort
                 PROVE  RowSynced(q, d)' \/ Owed(q, d)'
    BY DEF SyncInv
  <2>2. CASE RowSynced(q, d)
    BY <1>1, <1>4, <2>2 DEF RowSynced
  <2>3. CASE ~RowSynced(q, d) /\ Owed(q, d)
    <3>1. ~(pc = Table(d) /\ InHand(q, d))
      BY <1>5, <2>3 DEF InHand
    <3>2. QED
      BY <1>1, <2>3, <3>1
         DEF SameRows, Owed, Flagged, Ahead, NoRowOf, HasDhcpRow
  <2>4. QED
    BY <1>2, <2>2, <2>3 DEF SyncInv
<1>7. JobInv' /\ StrayApart'
  BY <1>1, <1>2 DEF JobInv, StrayApart, NoJob
<1>8. QED
  BY <1>1, <1>2, <1>6, <1>7, GwInvKept

\* The walks begin: every flagged row is put on one of the two lists, but for
\* a deleted row whose port has no node, which has nothing to drop.
LEMMA WalkKeepsConv ==
  ASSUME ConvInv, BeginReconfigure \/ BeginUdpTable \/ EndReconfigure
  PROVE  SyncInv' /\ JobInv' /\ GwInv' /\ StrayApart'
<1> USE DEF tableVars, dbVars
<1>1. TypeOK /\ HandlerInv /\ SyncInv /\ JobInv /\ GwInv /\ StrayApart
  BY DEF ConvInv, IInv
<1>2. Idle(job) /\ job' = job
  BY <1>1 DEF BeginReconfigure, BeginUdpTable, EndReconfigure, TableDone, HandlerInv
<1>3. UNCHANGED <<dhcp, udp, arr, stray, nodes, gw>>
  BY DEF BeginReconfigure, BeginUdpTable, EndReconfigure
<1>4. JobInv' /\ StrayApart'
  BY <1>1, <1>2, <1>3 DEF JobInv, StrayApart, Idle
<1>5. \A q \in Port, d \in RowPort : RowSynced(q, d) => RowSynced(q, d)'
  BY <1>3 DEF RowSynced, Holds, Wants, RowIps
<1>6. ASSUME NEW q \in Port, NEW d \in RowPort, q \notin nodes, NoRowOf(q, d)
      PROVE  RowSynced(q, d) /\ (d = DHCPS_PORT => GwSynced(q))
  <2>1. Holds(q, d) = {} /\ gw[q] = NoIp
    BY <1>1, <1>6, NoNodeNoServers DEF Holds
  <2>2. RowIps(q, d) = {} /\ (d = DHCPS_PORT => dhcp[q].gw = NoIp)
    BY <1>6 DEF NoRowOf, RowIps, HasDhcpRow, NoRow
  <2>3. QED
    BY <2>1, <2>2 DEF RowSynced, Wants, GwSynced
<1>7. CASE BeginReconfigure
  <2>1. /\ pc = "idle" /\ pc' = "dhcp" /\ idl' = idl
        /\ idl.dhcpDeleted => nodeWalk' = nodes
        /\ rowWalk' = idl.dhcpChanged \X {DHCPS_PORT}
    BY <1>7 DEF BeginReconfigure
  <2>2. SyncInv'
    <3>1. SUFFICES ASSUME NEW q \in Port, NEW d \in RowPort, ~RowSynced(q, d)
                   PROVE  Owed(q, d)'
      BY <1>5 DEF SyncInv
    <3>2. Flagged(q, d)
      BY <1>1, <2>1, <3>1 DEF SyncInv, Owed, Table
    <3>3. CASE d = DHCPS_PORT
      <4>1. CASE q \in idl.dhcpChanged
        <5>1. <<q, d>> \in rowWalk' /\ idl'.serversModified
          BY <2>1, <3>2, <3>3, <4>1 DEF Flagged
        <5>2. QED
          BY <2>1, <3>3, <5>1 DEF Owed, Ahead, Table
      <4>2. CASE idl.dhcpDeleted /\ ~HasDhcpRow(q)
        <5>1. q \in nodes
          BY <1>6, <3>1, <3>3, <4>2 DEF NoRowOf
        <5>2. q \in nodeWalk' /\ NoRowOf(q, d)'
          BY <1>3, <2>1, <3>3, <4>2, <5>1 DEF NoRowOf, HasDhcpRow
        <5>3. QED
          BY <2>1, <3>3, <5>2 DEF Owed, Ahead, Table
      <4>3. QED
        BY <3>2, <3>3, <4>1, <4>2 DEF Flagged
    <3>4. CASE d # DHCPS_PORT
      BY <1>3, <2>1, <3>2, <3>4 DEF Owed, Flagged
    <3>5. QED
      BY <3>3, <3>4
  <2>3. GwInv'
    <3>1. SUFFICES ASSUME NEW q \in Port, ~GwSynced(q)
                   PROVE  \/ idl'.gwModified /\ <<q, DHCPS_PORT>> \in rowWalk'
                          \/ q \in nodeWalk' /\ ~HasDhcpRow(q)
      BY <1>3, <2>1 DEF GwInv, GwSynced, HasDhcpRow
    <3>2. /\ idl.gwModified
          /\ q \in idl.dhcpChanged \/ (idl.dhcpDeleted /\ ~HasDhcpRow(q))
      BY <1>1, <2>1, <3>1 DEF GwInv
    <3>3. ~HasDhcpRow(q) => q \in nodes
      BY <1>6, <3>1, RowPorts DEF NoRowOf
    <3>4. QED
      BY <2>1, <3>2, <3>3
  <2>4. QED
    BY <1>4, <2>2, <2>3
<1>8. CASE BeginUdpTable
  <2>1. /\ pc = "dhcp" /\ nodeWalk = {} /\ rowWalk = {} /\ pc' = "udp" /\ idl' = idl
        /\ idl.udpDeleted => nodeWalk' = nodes
        /\ rowWalk' = idl.udpChanged
    BY <1>8 DEF BeginUdpTable, TableDone
  <2>2. SyncInv'
    <3>1. SUFFICES ASSUME NEW q \in Port, NEW d \in RowPort, ~RowSynced(q, d)
                   PROVE  Owed(q, d)'
      BY <1>5 DEF SyncInv
    <3>2. d # DHCPS_PORT /\ Flagged(q, d)
      BY <1>1, <1>2, <2>1, <3>1 DEF SyncInv, Owed, Table, Ahead, InHand
    <3>3. CASE <<q, d>> \in idl.udpChanged
      BY <2>1, <3>2, <3>3 DEF Owed, Ahead, Table
    <3>4. CASE idl.udpDeleted /\ udp[q][d] = {}
      <4>1. q \in nodes
        BY <1>6, <3>1, <3>2, <3>4 DEF NoRowOf
      <4>2. q \in nodeWalk' /\ NoRowOf(q, d)'
        BY <1>3, <2>1, <3>2, <3>4, <4>1 DEF NoRowOf
      <4>3. QED
        BY <2>1, <3>2, <4>2 DEF Owed, Ahead, Table
    <3>5. QED
      BY <3>2, <3>3, <3>4 DEF Flagged
  <2>3. GwInv'
    BY <1>1, <1>3, <2>1 DEF GwInv, GwSynced
  <2>4. QED
    BY <1>4, <2>2, <2>3
<1>9. CASE EndReconfigure
  <2>1. pc = "udp" /\ nodeWalk = {} /\ rowWalk = {}
    BY <1>9 DEF EndReconfigure, TableDone
  <2>2. SyncInv'
    BY <1>1, <1>2, <1>5, <2>1 DEF SyncInv, Owed, Ahead, InHand, Table
  <2>3. GwInv'
    BY <1>1, <1>3, <2>1 DEF GwInv, GwSynced
  <2>4. QED
    BY <1>4, <2>2, <2>3
<1>10. QED
  BY <1>7, <1>8, <1>9

\* A visit of the row-delete walk of the DHCP table: unless the row is there,
\* the gateway is reset and a loop begins that drops every helper address.
LEMMA DhcpRowDeleteKeepsConv ==
  ASSUME ConvInv, NamesApart, NEW p \in Port, DhcpRowDelete(p)
  PROVE  SyncInv' /\ JobInv' /\ GwInv' /\ StrayApart'
<1> USE DEF tableVars, dbVars
<1> DEFINE todo == {s \in Range(arr[p]) : s.udp_port = DHCPS_PORT}
           j == Start("prune", p, DHCPS_PORT, todo)
<1>1. /\ pc = "dhcp" /\ pc' = "dhcp" /\ Idle(job) /\ p \in nodeWalk
      /\ nodeWalk' = nodeWalk \ {p}
      /\ UNCHANGED <<dhcp, udp, idl, arr, stray, nodes, rowWalk>>
  BY DEF DhcpRowDelete
<1>2. /\ TypeOK /\ SyncInv /\ JobInv /\ GwInv /\ StrayApart
      /\ gw \in [Port -> GatewayIp \cup {NoIp}]
  BY DEF ConvInv, IInv, TypeOK
<1>3. DhcpRowFound(p) <=> HasDhcpRow(p)
  BY ConfigAssumption DEF ConfigAssumption, NamesApart, DhcpRowFound
<1>4. StrayApart'
  BY <1>1, <1>2 DEF StrayApart
<1>5. \A q \in Port, d \in RowPort : RowSynced(q, d) => RowSynced(q, d)'
  BY <1>1 DEF RowSynced, Holds, Wants, RowIps
<1>6. CASE HasDhcpRow(p)
  <2>1. job' = job /\ gw' = gw
    BY <1>3, <1>6 DEF DhcpRowDelete
  <2>2. JobInv'
    BY <1>1, <2>1 DEF JobInv, Idle
  <2>3. SyncInv'
    <3>1. SUFFICES ASSUME NEW q \in Port, NEW d \in RowPort, ~RowSynced(q, d)
                   PROVE  Owed(q, d)'
      BY <1>5 DEF SyncInv
    <3>2. Owed(q, d)
      BY <1>2, <3>1 DEF SyncInv
    <3>3. CASE d = DHCPS_PORT
      <4>1. Ahead(q, d)
        BY <1>1, <3>2, <3>3 DEF Owed, InHand
      <4>2. Ahead(q, d)'
        BY <1>1, <1>6, <3>3, <4>1 DEF Ahead, NoRowOf, HasDhcpRow
      <4>3. QED
        BY <1>1, <3>3, <4>2 DEF Owed, Table
    <3>4. CASE d # DHCPS_PORT
      BY <1>1, <3>2, <3>4 DEF Owed, Flagged, Table
    <3>5. QED
      BY <3>3, <3>4
  <2>4. GwInv'
    BY <1>1, <1>2, <1>6, <2>1 DEF GwInv, GwSynced, HasDhcpRow
  <2>5. QED
    BY <1>4, <2>2, <2>3, <2>4
<1>7. CASE ~HasDhcpRow(p)
  <2>1. job' = j /\ gw' = [gw EXCEPT ![p] = NoIp]
    BY <1>3, <1>7 DEF DhcpRowDelete
  <2>2. /\ job'.stage = "prune" /\ job'.row[1] = p /\ job'.todo = todo
    BY <2>1 DEF Start
  <2> HIDE DEF j
  <2>3. RowIps(p, DHCPS_PORT) = {} /\ dhcp[p].gw = NoIp
    BY <1>7 DEF HasDhcpRow, NoRow, RowIps
  <2>4. JobInv'
    <3>1. \A d \in RowPort : pc' = Table(d) => d = DHCPS_PORT
      BY <1>1 DEF Table
    <3>2. Holds(p, DHCPS_PORT)' = todo
      BY <1>1 DEF Holds
    <3>3. QED
      BY <2>2, <3>1, <3>2 DEF JobInv
  <2>5. SyncInv'
    <3>1. SUFFICES ASSUME NEW q \in Port, NEW d \in RowPort, ~RowSynced(q, d)
                   PROVE  Owed(q, d)'
      BY <1>5 DEF SyncInv
    <3>2. Owed(q, d)
      BY <1>2, <3>1 DEF SyncInv
    <3>3. CASE d = DHCPS_PORT /\ q # p
      <4>1. Ahead(q, d)
        BY <1>1, <3>2, <3>3 DEF Owed, InHand
      <4>2. Ahead(q, d)'
        BY <1>1, <3>3, <4>1 DEF Ahead, NoRowOf, HasDhcpRow
      <4>3. QED
        BY <1>1, <3>3, <4>2 DEF Owed, Table
    <3>4. CASE d = DHCPS_PORT /\ q = p
      <4>1. InHand(q, d)'
        BY <1>1, <2>2, <2>3, <3>4 DEF InHand, Idle, RowIps
      <4>2. QED
        BY <1>1, <3>4, <4>1 DEF Owed, Table
    <3>5. CASE d # DHCPS_PORT
      BY <1>1, <3>2, <3>5 DEF Owed, Flagged, Table
    <3>6. QED
      BY <3>3, <3>4, <3>5
  <2>6. GwInv'
    <3>1. SUFFICES ASSUME NEW q \in Port
                   PROVE  \/ GwSynced(q)'
                          \/ idl'.gwModified /\ <<q, DHCPS_PORT>> \in rowWalk'
                          \/ q \in nodeWalk' /\ ~HasDhcpRow(q)'
      BY <1>1 DEF GwInv
    <3>2. CASE q = p
      BY <1>1, <1>2, <2>1, <2>3, <3>2 DEF GwSynced
    <3>3. CASE q # p
      <4>1. gw'[q] = gw[q]
        BY <1>2, <2>1, <3>3
      <4>2. QED
        BY <1>1, <1>2, <3>3, <4>1 DEF GwInv, GwSynced, HasDhcpRow
    <3>4. QED
      BY <3>2, <3>3
  <2>7. QED
    BY <1>4, <2>4, <2>5, <2>6
<1>8. QED
  BY <1>6, <1>7

\* A visit of the row-delete walk of the forwarder table: a loop begins that
\* drops what no row of the port lists.
LEMMA UdpRowDeleteKeepsConv ==
  ASSUME ConvInv, NamesApart, NEW p \in Port, UdpRowDelete(p)
  PROVE  SyncInv' /\ JobInv' /\ GwInv' /\ StrayApart'
<1> USE DEF tableVars, dbVars
<1> DEFINE todo == {s \in Range(arr[p]) :
                      s.udp_port # DHCPS_PORT /\ ~UdpRowFound(p, s)}
           j == Start("prune", p, DHCPS_PORT, todo)
<1>1. /\ pc = "udp" /\ pc' = "udp" /\ Idle(job) /\ p \in nodeWalk
      /\ nodeWalk' = nodeWalk \ {p} /\ job' = j
      /\ UNCHANGED <<dhcp, udp, idl, arr, stray, nodes, gw, rowWalk>>
  BY DEF UdpRowDelete
<1>2. TypeOK /\ SyncInv /\ JobInv /\ GwInv /\ StrayApart
  BY DEF ConvInv, IInv
<1>3. /\ job'.stage = "prune" /\ job'.row[1] = p /\ job'.todo = todo
  BY <1>1 DEF Start
<1> HIDE DEF j
<1>4. \A q \in Port, d \in RowPort : RowSynced(q, d) => RowSynced(q, d)'
  BY <1>1 DEF RowSynced, Holds, Wants, RowIps
<1>5. JobInv'
  <2>1. SUFFICES ASSUME NEW d \in RowPort, pc' = Table(d), RowIps(p, d) = {}
                 PROVE  Holds(p, d) \subseteq todo
    BY <1>1, <1>3 DEF JobInv, Holds, RowIps
  <2>2. d # DHCPS_PORT /\ udp[p][d] = {}
    BY <1>1, <2>1 DEF Table, RowIps
  <2>3. \A s \in Holds(p, d) : ~UdpRowFound(p, s)
    BY <2>2, ConfigAssumption DEF ConfigAssumption, NamesApart, UdpRowFound, Holds
  <2>4. QED
    BY <2>2, <2>3 DEF Holds
<1>6. SyncInv'
  <2>1. SUFFICES ASSUME NEW q \in Port, NEW d \in RowPort, ~RowSynced(q, d)
                 PROVE  Owed(q, d)'
    BY <1>4 DEF SyncInv
  <2>2. d # DHCPS_PORT /\ pc' = Table(d) /\ Ahead(q, d)
    BY <1>1, <1>2, <2>1 DEF SyncInv, Owed, InHand, Table
  <2>3. CASE Ahead(q, d)'
    BY <2>2, <2>3 DEF Owed
  <2>4. CASE q = p /\ udp[p][d] = {}
    <3>1. InHand(q, d)'
      BY <1>1, <1>3, <2>2, <2>4 DEF InHand, Idle, RowIps
    <3>2. QED
      BY <2>2, <3>1 DEF Owed, Table
  <2>5. QED
    BY <1>1, <2>2, <2>3, <2>4 DEF Ahead, NoRowOf
<1>7. GwInv' /\ StrayApart'
  BY <1>1, <1>2 DEF GwInv, GwSynced, StrayApart
<1>8. QED
  BY <1>5, <1>6, <1>7

\* A changed DHCP_Relay row is taken off the list: its gateway is taken and
\* its servers are in hand if those columns are flagged.
LEMMA DhcpConfigChangeKeepsConv ==
  ASSUME ConvInv, NEW p \in Port, DhcpConfigChange(p)
  PROVE  SyncInv' /\ JobInv' /\ GwInv' /\ StrayApart'
<1> USE DEF tableVars, dbVars
<1> DEFINE todo == {Entry(s.ip, DHCPS_PORT) :
                      s \in {t \in Range(arr[p]) : t.ip \notin dhcp[p].servers}}
           j == Start("remove", p, DHCPS_PORT, todo)
<1>1. /\ pc = "dhcp" /\ pc' = "dhcp" /\ Idle(job) /\ nodeWalk = {} /\ nodeWalk' = {}
      /\ rowWalk' = rowWalk \ {<<p, DHCPS_PORT>>}
      /\ gw' = IF idl.gwModified /\ dhcp[p].gw # BadIp
               THEN [gw EXCEPT ![p] = dhcp[p].gw] ELSE gw
      /\ job' = IF idl.serversModified THEN j ELSE job
      /\ UNCHANGED <<dhcp, udp, idl, arr, stray>>
  BY DEF DhcpConfigChange
<1>2. /\ TypeOK /\ SyncInv /\ JobInv /\ GwInv /\ StrayApart
      /\ gw \in [Port -> GatewayIp \cup {NoIp}]
  BY DEF ConvInv, IInv, TypeOK
<1>3. /\ j.stage = "remove" /\ j.row[1] = p /\ j.row[2] = DHCPS_PORT
      /\ j.todo = todo
  BY DEF Start
<1> HIDE DEF j
<1>4. \A q \in Port, d \in RowPort : RowSynced(q, d) => RowSynced(q, d)'
  BY <1>1 DEF RowSynced, Holds, Wants, RowIps
<1>5. JobInv'
  <2>1. CASE idl.serversModified
    <3>1. Holds(p, DHCPS_PORT) \subseteq Wants(p, DHCPS_PORT) \cup todo
      <4>1. SUFFICES ASSUME NEW s \in Holds(p, DHCPS_PORT),
                            s \notin Wants(p, DHCPS_PORT)
                     PROVE  s \in todo
        OBVIOUS
      <4>2. s \in Range(arr[p]) /\ s \in Server /\ s.udp_port = DHCPS_PORT
        BY <1>2 DEF Holds, TypeOK, Range
      <4>3. s = Entry(s.ip, DHCPS_PORT) /\ s.ip \notin dhcp[p].servers
        BY <4>1, <4>2 DEF Server, Entry, Wants, RowIps
      <4>4. QED
        BY <4>2, <4>3
    <3>2. /\ Holds(p, DHCPS_PORT)' = Holds(p, DHCPS_PORT)
          /\ Wants(p, DHCPS_PORT)' = Wants(p, DHCPS_PORT)
      BY <1>1 DEF Holds, Wants, RowIps
    <3> HIDE DEF todo
    <3>3. QED
      BY <1>1, <1>3, <2>1, <3>1, <3>2 DEF JobInv, Table
  <2>2. CASE ~idl.serversModified
    BY <1>1, <2>2 DEF JobInv, Idle
  <2>3. QED
    BY <2>1, <2>2
<1>6. SyncInv'
  <2>1. SUFFICES ASSUME NEW q \in Port, NEW d \in RowPort, ~RowSynced(q, d)
                 PROVE  Owed(q, d)'
    BY <1>4 DEF SyncInv
  <2>2. Owed(q, d)
    BY <1>2, <2>1 DEF SyncInv
  <2>3. CASE d = DHCPS_PORT
    <3>1. <<q, d>> \in rowWalk /\ idl.serversModified
      BY <1>1, <2>2, <2>3 DEF Owed, Ahead, InHand
    <3>2. CASE q = p
      <4>1. InHand(q, d)'
        BY <1>1, <1>3, <2>3, <3>1, <3>2 DEF InHand, Idle
      <4>2. QED
        BY <1>1, <2>3, <4>1 DEF Owed, Table
    <3>3. CASE q # p
      <4>1. Ahead(q, d)'
        BY <1>1, <3>1, <3>3 DEF Ahead
      <4>2. QED
        BY <1>1, <2>3, <4>1 DEF Owed, Table
    <3>4. QED
      BY <3>2, <3>3
  <2>4. CASE d # DHCPS_PORT
    BY <1>1, <2>2, <2>4 DEF Owed, Flagged, Table
  <2>5. QED
    BY <2>3, <2>4
<1>7. GwInv'
  <2>1. SUFFICES ASSUME NEW q \in Port
                 PROVE  GwSynced(q)' \/ (idl.gwModified /\ <<q, DHCPS_PORT>> \in rowWalk')
    BY <1>1 DEF GwInv
  <2>2. GwSynced(q) \/ (idl.gwModified /\ <<q, DHCPS_PORT>> \in rowWalk)
    BY <1>1, <1>2 DEF GwInv
  <2>3. CASE q = p
    BY <1>1, <1>2, <2>2, <2>3 DEF GwSynced
  <2>4. CASE q # p
    <3>1. gw'[q] = gw[q]
      BY <1>1, <1>2, <2>4
    <3>2. QED
      BY <1>1, <2>2, <2>4, <3>1 DEF GwSynced
  <2>5. QED
    BY <2>3, <2>4
<1>8. StrayApart'
  BY <1>1, <1>2 DEF StrayApart
<1>9. QED
  BY <1>5, <1>6, <1>7, <1>8

LEMMA UdpConfigChangeKeepsConv ==
  ASSUME ConvInv, NEW p \in Port, NEW e \in UdpPort, UdpConfigChange(p, e)
  PROVE  SyncInv' /\ JobInv' /\ GwInv' /\ StrayApart'
<1> USE DEF tableVars, dbVars
<1> DEFINE todo == {s \in Range(arr[p]) : s.udp_port = e /\ s.ip \notin udp[p][e]}
           j == Start("remove", p, e, todo)
<1>1. /\ pc = "udp" /\ pc' = "udp" /\ Idle(job) /\ nodeWalk = {} /\ nodeWalk' = {}
      /\ rowWalk' = rowWalk \ {<<p, e>>} /\ job' = j
      /\ UNCHANGED <<dhcp, udp, idl, arr, gw, stray>>
  BY DEF UdpConfigChange
<1>2. TypeOK /\ SyncInv /\ JobInv /\ GwInv /\ StrayApart
  BY DEF ConvInv, IInv
<1>3. /\ j.stage = "remove" /\ j.row[1] = p /\ j.row[2] = e /\ j.todo = todo
  BY DEF Start
<1> HIDE DEF j
<1>4. \A q \in Port, d \in RowPort : RowSynced(q, d) => RowSynced(q, d)'
  BY <1>1 DEF RowSynced, Holds, Wants, RowIps
<1>5. e # DHCPS_PORT /\ pc = Table(e)
  BY <1>1, RowPorts DEF Table
<1>6. JobInv'
  <2>1. Holds(p, e) \subseteq Wants(p, e) \cup todo
    BY <1>2, <1>5 DEF Holds, Wants, RowIps, TypeOK, Range
  <2>2. Holds(p, e)' = Holds(p, e) /\ Wants(p, e)' = Wants(p, e)
    BY <1>1 DEF Holds, Wants, RowIps
  <2> HIDE DEF todo
  <2>3. QED
    BY <1>1, <1>3, <1>5, <2>1, <2>2 DEF JobInv
<1>7. SyncInv'
  <2>1. SUFFICES ASSUME NEW q \in Port, NEW d \in RowPort, ~RowSynced(q, d)
                 PROVE  Owed(q, d)'
    BY <1>4 DEF SyncInv
  <2>2. pc' = Table(d) /\ <<q, d>> \in rowWalk /\ d # DHCPS_PORT
    BY <1>1, <1>2, <2>1 DEF SyncInv, Owed, Ahead, InHand, Table
  <2>3. CASE q = p /\ d = e
    <3>1. InHand(q, d)'
      BY <1>1, <1>3, <2>3 DEF InHand, Idle
    <3>2. QED
      BY <2>2, <3>1 DEF Owed, Table
  <2>4. CASE <<q, d>> # <<p, e>>
    <3>1. Ahead(q, d)'
      BY <1>1, <2>2, <2>4 DEF Ahead
    <3>2. QED
      BY <2>2, <3>1 DEF Owed, Table
  <2>5. QED
    BY <2>3, <2>4
<1>8. GwInv' /\ StrayApart'
  BY <1>1, <1>2 DEF GwInv, GwSynced, StrayApart
<1>9. QED
  BY <1>6, <1>7, <1>8

\* A change of a row is flagged, and so is every change before it.
LEMMA WriteDhcpRowKeepsConv ==
  ASSUME ConvInv, NEW p \in Port, NEW row \in DhcpRow, WriteDhcpRow(p, row)
  PROVE  SyncInv' /\ JobInv' /\ GwInv' /\ StrayApart'
<1> USE DEF tableVars, walkVars
<1>1. /\ pc = "idle" /\ pc' = "idle" /\ dhcp' = [dhcp EXCEPT ![p] = row]
      /\ UNCHANGED <<udp, nodes, arr, gw, stray, job>>
  BY DEF WriteDhcpRow
<1>2. /\ TypeOK /\ HandlerInv /\ SyncInv /\ GwInv /\ StrayApart /\ idl \in IdlType
      /\ dhcp \in [Port -> DhcpRow] /\ dhcp[p] \in DhcpRow
  BY DEF ConvInv, IInv, TypeOK, IdlType
<1>3. /\ idl'.dhcpDeleted = (idl.dhcpDeleted \/ row = NoRow)
      /\ idl'.dhcpChanged = (IF row = NoRow THEN idl.dhcpChanged \ {p}
                             ELSE idl.dhcpChanged \cup {p})
      /\ idl'.gwModified = (idl.gwModified \/ row.gw # dhcp[p].gw)
      /\ idl'.serversModified = (idl.serversModified \/ row.servers # dhcp[p].servers)
      /\ idl'.udpDeleted = idl.udpDeleted /\ idl'.udpChanged = idl.udpChanged
  BY <1>2 DEF WriteDhcpRow, IdlType
<1>4. dhcp'[p] = row /\ \A q \in Port \ {p} : dhcp'[q] = dhcp[q]
  BY <1>1, <1>2
\* What is flagged stays flagged, and the row just written is.
<1>5. \A q \in Port : \/ q \in idl.dhcpChanged
                      \/ idl.dhcpDeleted /\ ~HasDhcpRow(q)
                      \/ q = p
                     => \/ q \in idl'.dhcpChanged
                        \/ idl'.dhcpDeleted /\ ~HasDhcpRow(q)'
  BY <1>3, <1>4 DEF HasDhcpRow
<1>6. SyncInv'
  <2>1. SUFFICES ASSUME NEW q \in Port, NEW d \in RowPort
                 PROVE  RowSynced(q, d)' \/ Owed(q, d)'
    BY DEF SyncInv
  <2>2. RowSynced(q, d) \/ Flagged(q, d)
    BY <1>1, <1>2 DEF SyncInv, Owed, Table
  <2>3. CASE d # DHCPS_PORT
    BY <1>1, <1>3, <2>2, <2>3
       DEF RowSynced, Owed, Flagged, Holds, Wants, RowIps
  <2>4. CASE d = DHCPS_PORT /\ Flagged(q, d)
    <3>1. Flagged(q, d)'
      BY <1>3, <1>5, <2>4 DEF Flagged
    <3>2. QED
      BY <1>1, <3>1 DEF Owed
  <2>5. CASE d = DHCPS_PORT /\ RowSynced(q, d)
    <3>1. CASE dhcp'[q].servers = dhcp[q].servers
      BY <1>1, <2>5, <3>1 DEF RowSynced, Holds, Wants, RowIps
    <3>2. CASE dhcp'[q].servers # dhcp[q].servers
      <4>1. q = p /\ idl'.serversModified
        BY <1>3, <1>4, <3>2
      <4>2. Flagged(q, d)'
        BY <1>5, <2>5, <4>1 DEF Flagged
      <4>3. QED
        BY <1>1, <4>2 DEF Owed
    <3>3. QED
      BY <3>1, <3>2
  <2>6. QED
    BY <2>2, <2>3, <2>4, <2>5
<1>7. GwInv'
  <2>1. SUFFICES ASSUME NEW q \in Port, ~GwSynced(q)'
                 PROVE  /\ idl'.gwModified
                        /\ \/ q \in idl'.dhcpChanged
                           \/ idl'.dhcpDeleted /\ ~HasDhcpRow(q)'
    BY <1>1 DEF GwInv
  <2>2. CASE GwSynced(q)
    <3>1. dhcp'[q].gw # dhcp[q].gw
      BY <1>1, <2>1, <2>2 DEF GwSynced
    <3>2. QED
      BY <1>3, <1>4, <1>5, <3>1
  <2>3. CASE ~GwSynced(q)
    BY <1>1, <1>2, <1>3, <1>5, <2>3 DEF GwInv
  <2>4. QED
    BY <2>2, <2>3
<1>8. JobInv' /\ StrayApart'
  BY <1>1, <1>2 DEF JobInv, StrayApart, HandlerInv, Idle
<1>9. QED
  BY <1>6, <1>7, <1>8

LEMMA SetForwardsKeepsConv ==
  ASSUME ConvInv, NEW p \in Port, NEW e \in UdpPort, SetForwards(p, e)
  PROVE  SyncInv' /\ JobInv' /\ GwInv' /\ StrayApart'
<1> USE DEF tableVars, walkVars
<1>1. PICK S \in SUBSET ForwardIp :
        /\ pc = "idle" /\ pc' = "idle"
        /\ udp' = [udp EXCEPT ![p][e] = S]
        /\ idl' = [idl EXCEPT
              !.udpDeleted = @ \/ S = {},
              !.udpChanged = IF S = {} THEN @ \ {<<p, e>>} ELSE @ \cup {<<p, e>>}]
        /\ UNCHANGED <<dhcp, nodes, arr, gw, stray, job>>
  BY DEF SetForwards
<1>2. /\ TypeOK /\ HandlerInv /\ SyncInv /\ GwInv /\ StrayApart /\ idl \in IdlType
      /\ udp \in [Port -> [UdpPort -> SUBSET ForwardIp]]
  BY DEF ConvInv, IInv, TypeOK, IdlType
<1>3. /\ idl'.dhcpDeleted = idl.dhcpDeleted /\ idl'.dhcpChanged = idl.dhcpChanged
      /\ idl'.gwModified = idl.gwModified
      /\ idl'.serversModified = idl.serversModified
      /\ idl'.udpDeleted = (idl.udpDeleted \/ S = {})
      /\ idl'.udpChanged = (IF S = {} THEN idl.udpChanged \ {<<p, e>>}
                            ELSE idl.udpChanged \cup {<<p, e>>})
  BY <1>1, <1>2 DEF IdlType
<1>4. /\ udp'[p][e] = S
      /\ \A q \in Port, d \in UdpPort : q # p \/ d # e => udp'[q][d] = udp[q][d]
  BY <1>1, <1>2
<1>5. SyncInv'
  <2>1. SUFFICES ASSUME NEW q \in Port, NEW d \in RowPort
                 PROVE  RowSynced(q, d)' \/ Owed(q, d)'
    BY DEF SyncInv
  <2>2. RowSynced(q, d) \/ Flagged(q, d)
    BY <1>1, <1>2 DEF SyncInv, Owed, Table
  <2>3. CASE d = DHCPS_PORT
    BY <1>1, <1>3, <2>2, <2>3
       DEF RowSynced, Owed, Flagged, Holds, Wants, RowIps, HasDhcpRow
  <2>4. CASE q = p /\ d = e
    <3>1. d # DHCPS_PORT
      BY <2>4, RowPorts
    <3>2. Flagged(q, d)'
      BY <1>3, <1>4, <2>4, <3>1 DEF Flagged
    <3>3. QED
      BY <1>1, <3>2 DEF Owed
  <2>5. CASE d # DHCPS_PORT /\ (q # p \/ d # e)
    <3>1. udp'[q][d] = udp[q][d]
      BY <1>4, <2>5, RowPorts
    <3>2. CASE RowSynced(q, d)
      BY <1>1, <2>5, <3>1, <3>2 DEF RowSynced, Holds, Wants, RowIps
    <3>3. CASE Flagged(q, d)
      <4>1. Flagged(q, d)'
        BY <1>3, <2>5, <3>1, <3>3 DEF Flagged
      <4>2. QED
        BY <1>1, <4>1 DEF Owed
    <3>4. QED
      BY <2>2, <3>2, <3>3
  <2>6. QED
    BY <2>3, <2>4, <2>5
<1>6. GwInv'
  BY <1>1, <1>2, <1>3 DEF GwInv, GwSynced, HasDhcpRow
<1>7. JobInv' /\ StrayApart'
  BY <1>1, <1>2 DEF JobInv, StrayApart, HandlerInv, Idle
<1>8. QED
  BY <1>5, <1>6, <1>7

LEMMA OvsdbKeepsConv ==
  ASSUME ConvInv, Ovsdb
  PROVE  SyncInv' /\ JobInv' /\ GwInv' /\ StrayApart'
<1>1. dhcp \in [Port -> DhcpRow]
  BY DEF ConvInv, IInv, TypeOK
<1>2. ASSUME NEW p \in Port, SetHelpers(p)
      PROVE  SyncInv' /\ JobInv' /\ GwInv' /\ StrayApart'
  <2>1. PICK S \in SUBSET HelperIp : WriteDhcpRow(p, [dhcp[p] EXCEPT !.servers = S])
    BY <1>2 DEF SetHelpers
  <2>2. [dhcp[p] EXCEPT !.servers = S] \in DhcpRow
    BY <1>1 DEF DhcpRow
  <2>3. QED
    BY <2>1, <2>2, WriteDhcpRowKeepsConv
<1>3. ASSUME NEW p \in Port, SetGateway(p)
      PROVE  SyncInv' /\ JobInv' /\ GwInv' /\ StrayApart'
  <2>1. PICK g \in GatewayIp \cup {NoIp, BadIp} :
          WriteDhcpRow(p, [dhcp[p] EXCEPT !.gw = g])
    BY <1>3 DEF SetGateway
  <2>2. [dhcp[p] EXCEPT !.gw = g] \in DhcpRow
    BY <1>1 DEF DhcpRow
  <2>3. QED
    BY <2>1, <2>2, WriteDhcpRowKeepsConv
<1>4. QED
  BY <1>2, <1>3, SetForwardsKeepsConv DEF Ovsdb

\* A daemon that starts again has empty tables and an IDL that flags every row.
LEMMA RestartKeepsConv ==
  ASSUME ConvInv, Restart
  PROVE  SyncInv' /\ JobInv' /\ GwInv' /\ StrayApart'
<1> USE DEF dbVars
<1>1. /\ UNCHANGED <<dhcp, udp>> /\ pc' = "idle" /\ job' = NoJob /\ idl' = AllInserted
      /\ \A q \in Port : Range(arr'[q]) = {} /\ gw'[q] = NoIp /\ stray'[q] = {}
  BY DEF Restart, Range
<1>2. SyncInv'
  <2>1. SUFFICES ASSUME NEW q \in Port, NEW d \in RowPort
                 PROVE  RowSynced(q, d)' \/ Owed(q, d)'
    BY DEF SyncInv
  <2>2. CASE RowIps(q, d) = {}
    <3>1. RowIps(q, d)' = {}
      BY <1>1, <2>2 DEF RowIps
    <3>2. Wants(q, d)' = {} /\ Holds(q, d)' = {}
      BY <1>1, <3>1 DEF Wants, Holds
    <3>3. QED
      BY <3>2 DEF RowSynced
  <2>3. CASE RowIps(q, d) # {} /\ d = DHCPS_PORT
    <3>1. dhcp[q].servers # {} /\ HasDhcpRow(q)
      BY <2>3 DEF RowIps, HasDhcpRow, NoRow
    <3>2. q \in AllInserted.dhcpChanged /\ AllInserted.serversModified
      BY <3>1 DEF AllInserted
    <3>3. Flagged(q, d)'
      BY <1>1, <2>3, <3>2 DEF Flagged
    <3>4. QED
      BY <1>1, <3>3 DEF Owed
  <2>4. CASE RowIps(q, d) # {} /\ d # DHCPS_PORT
    <3>1. <<q, d>> \in AllInserted.udpChanged
      BY <2>4, RowPorts DEF AllInserted, RowIps
    <3>2. Flagged(q, d)'
      BY <1>1, <2>4, <3>1 DEF Flagged
    <3>3. QED
      BY <1>1, <3>2 DEF Owed
  <2>5. QED
    BY <2>2, <2>3, <2>4
<1>3. GwInv'
  <2>1. SUFFICES ASSUME NEW q \in Port, ~GwSynced(q)'
                 PROVE  idl'.gwModified /\ q \in idl'.dhcpChanged
    BY <1>1 DEF GwInv
  <2>2. dhcp[q].gw # NoIp /\ HasDhcpRow(q)
    BY <1>1, <2>1 DEF GwSynced, HasDhcpRow, NoRow
  <2>3. QED
    BY <1>1, <2>2 DEF AllInserted
<1>4. JobInv' /\ StrayApart'
  BY <1>1 DEF JobInv, StrayApart, NoJob
<1>5. QED
  BY <1>2, <1>3, <1>4

LEMMA InitConv == Init => ConvInv
<1> SUFFICES ASSUME Init PROVE ConvInv
  OBVIOUS
<1>1. \A p \in Port, d \in RowPort : RowSynced(p, d) /\ GwSynced(p)
  BY RowPorts
     DEF Init, RowSynced, Holds, Wants, RowIps, Range, GwSynced, NoRow
<1>2. JobInv /\ StrayApart
  BY DEF Init, JobInv, StrayApart, NoJob, Range
<1>3. SyncInv /\ GwInv
  BY <1>1, RowPorts DEF SyncInv, GwInv
<1>4. QED
  BY <1>2, <1>3, InitIInv DEF ConvInv

LEMMA NextKeepsConv ==
  ASSUME ConvInv, NamesApart, Room, [Next]_vars
  PROVE  ConvInv'
<1> DEFINE Kept == SyncInv' /\ JobInv' /\ GwInv' /\ StrayApart'
<1>1. IInv'
  BY NextKeepsIInv DEF ConvInv
<1> SUFFICES Kept
  BY <1>1 DEF ConvInv
<1>2. HasRoom /\ HelpersApart
  BY DEF Room
<1>3. ASSUME NEW p \in Port,
             DhcpRowDelete(p) \/ UdpRowDelete(p) \/ DhcpConfigChange(p)
      PROVE  Kept
  BY <1>3, DhcpRowDeleteKeepsConv, UdpRowDeleteKeepsConv, DhcpConfigChangeKeepsConv
<1>4. ASSUME NEW p \in Port, NEW d \in UdpPort, UdpConfigChange(p, d)
      PROVE  Kept
  BY <1>4, UdpConfigChangeKeepsConv
<1>5. ASSUME NEW s \in Server, RemoveStep(s) \/ AddStep(s) \/ StrayStep(s)
      PROVE  Kept
  BY <1>2, <1>5, RemoveStepKeepsConv, AddStepKeepsConv, StrayStepKeepsConv
<1>6. CASE CollectAdded \/ EndJob
  BY <1>2, <1>6, CollectAddedKeepsConv, EndJobKeepsConv
<1>7. CASE BeginReconfigure \/ BeginUdpTable \/ EndReconfigure
  BY <1>7, WalkKeepsConv
<1>8. CASE MainThread
  BY <1>3, <1>4, <1>5, <1>6, <1>7, <1>8 DEF MainThread
<1>9. CASE Ovsdb
  BY <1>9, OvsdbKeepsConv
<1>10. CASE Restart
  BY <1>10, RestartKeepsConv
<1>11. CASE UNCHANGED vars
  <2>1. UNCHANGED <<dhcp, udp, idl, nodes, arr, gw, stray, pc, nodeWalk, rowWalk, job>>
    BY <1>11 DEF vars, dbVars, tableVars, walkVars
  <2>2. \A p, d : RowSynced(p, d)' = RowSynced(p, d) /\ Owed(p, d)' = Owed(p, d)
    BY <2>1 DEF RowSynced, Holds, Wants, RowIps, Owed, Flagged, Ahead, InHand,
       NoRowOf, HasDhcpRow, Idle
  <2>3. SyncInv'
    BY <2>2 DEF SyncInv, ConvInv
  <2>4. JobInv'
    BY <2>1 DEF JobInv, ConvInv, Holds, Wants, RowIps
  <2>5. GwInv' /\ StrayApart'
    BY <2>1 DEF GwInv, GwSynced, HasDhcpRow, StrayApart, ConvInv
  <2>6. QED
    BY <2>3, <2>4, <2>5
<1>12. QED
  BY <1>8, <1>9, <1>10, <1>11 DEF Next

\* With nothing flagged and no walk under way nothing is owed.
LEMMA ConvInvConverged ==
  ASSUME ConvInv
  PROVE  Converged
<1>1. SUFFICES ASSUME CaughtUp, NEW p \in Port PROVE Synced(p)
  BY DEF Converged
<1>2. pc = "idle" /\ idl = NoChange
  BY <1>1 DEF CaughtUp, Pending
<1>3. TypeOK /\ SyncInv /\ GwInv /\ StrayApart
  BY DEF ConvInv, IInv
<1>4. \A d \in RowPort : RowSynced(p, d)
  BY <1>2, <1>3 DEF SyncInv, Owed, Flagged, NoChange, Table
<1>5. Range(arr[p]) = Configured(p) \ stray[p]
  <2>1. \A s \in Server : s.udp_port \in RowPort
    BY RowPorts
  <2>2. Range(arr[p]) \subseteq Server /\ Configured(p) \subseteq Server
    BY <1>3 DEF TypeOK, Range, Configured
  <2>3. \A s \in Server : s \in Range(arr[p]) <=> s \in Holds(p, s.udp_port)
    BY DEF Holds
  <2>4. \A s \in Server : s \in Configured(p) <=> s \in Wants(p, s.udp_port)
    BY DEF Wants, Configured
  <2>5. QED
    BY <1>4, <2>1, <2>2, <2>3, <2>4 DEF RowSynced
<1>6. GwSynced(p)
  BY <1>2, <1>3 DEF GwInv, NoChange
<1>7. QED
  BY <1>5, <1>6 DEF Synced, GwSynced

-----------------------------------------------------------------------------
(* When the room is there: constants that let no row be refused.           *)

LEMMA LeastNat ==
  ASSUME NEW T \in SUBSET Nat, T # {}
  PROVE  \E n \in T : \A m \in T : n <= m
<1>0. T \subseteq Nat /\ T # {}
  OBVIOUS
<1>1. PICK n \in T : \A m \in T : ~(<<m, n>> \in OpToRel(<, Nat))
  BY <1>0, WFMin, NatLessThanWellFounded, Zenon
<1>2. \A m \in T : <<m, n>> \in OpToRel(<, Nat) <=> m < n
  BY <1>1 DEF OpToRel
<1>3. \A m \in T : n \in Nat /\ m \in Nat /\ ~(m < n)
  BY <1>0, <1>1, <1>2
<1>4. QED
  BY <1>3

\* A set of servers with at most k for each of n UDP ports has at most n * k.
LEMMA ServersPerPort ==
  ASSUME NEW k \in Nat
  PROVE  \A D, R :
           /\ IsFiniteSet(D) /\ IsFiniteSet(R)
           /\ \A s \in R : s.udp_port \in D
           /\ \A d \in D : Cardinality({s \in R : s.udp_port = d}) <= k
           => Cardinality(R) <= Cardinality(D) * k
<1> DEFINE Fits(D, R) == /\ IsFiniteSet(D) /\ IsFiniteSet(R)
                         /\ \A s \in R : s.udp_port \in D
                         /\ \A d \in D : Cardinality({s \in R : s.udp_port = d}) <= k
           Bad(n) == \E D, R : /\ Fits(D, R) /\ Cardinality(D) = n
                               /\ ~(Cardinality(R) <= n * k)
           T == {n \in Nat : Bad(n)}
<1>1. SUFFICES T = {}
  <2>1. \A D : IsFiniteSet(D) => Cardinality(D) \in Nat
    BY FS_CardinalityType
  <2>2. QED
    BY <2>1
<1>2. SUFFICES ASSUME T # {} PROVE FALSE
  OBVIOUS
<1>3. PICK n \in T : \A m \in T : n <= m
  <2>1. T \in SUBSET Nat
    OBVIOUS
  <2> HIDE DEF T
  <2>2. QED
    BY <1>2, <2>1, LeastNat
<1>4. PICK D, R : Fits(D, R) /\ Cardinality(D) = n /\ ~(Cardinality(R) <= n * k)
  BY <1>3
<1>5. CASE D = {}
  <2>1. R = {} /\ n = 0
    BY <1>4, <1>5, FS_EmptySet
  <2>2. Cardinality(R) = 0
    BY <2>1, FS_EmptySet
  <2>3. QED
    BY <1>4, <2>1, <2>2
<1>6. CASE D # {}
  <2>1. PICK d \in D : TRUE
    BY <1>6
  <2> DEFINE own == {s \in R : s.udp_port = d}
             rest == {s \in R : s.udp_port # d}
  <2>2. IsFiniteSet(own) /\ IsFiniteSet(rest) /\ IsFiniteSet(D \ {d})
    BY <1>4, FS_Subset
  <2>3. /\ Cardinality(own) \in Nat /\ Cardinality(rest) \in Nat /\ n \in Nat
        /\ Cardinality(R) \in Nat /\ Cardinality(own) <= k
    BY <1>4, <2>1, <2>2, FS_CardinalityType
  <2>4. Cardinality(D \ {d}) = n - 1 /\ n - 1 \in Nat
    <3>1. Cardinality(D \ {d}) = n - 1
      BY <1>4, <2>1, FS_RemoveElement
    <3>2. QED
      BY <2>2, <3>1, FS_CardinalityType
  <2>5. Cardinality(R) = Cardinality(own) + Cardinality(rest)
    <3>1. R = own \cup rest /\ own \cap rest = {}
      OBVIOUS
    <3> HIDE DEF own, rest
    <3>2. Cardinality(own \cup rest) =
            Cardinality(own) + Cardinality(rest) - Cardinality(own \cap rest)
      BY <2>2, FS_Union
    <3>3. Cardinality(own \cap rest) = 0
      BY <3>1, FS_EmptySet
    <3>4. QED
      BY <2>3, <3>1, <3>2, <3>3
  <2>6. Fits(D \ {d}, rest)
    <3>1. SUFFICES ASSUME NEW e \in D \ {d}
                   PROVE  Cardinality({s \in rest : s.udp_port = e}) <= k
      BY <1>4, <2>2
    <3>2. {s \in rest : s.udp_port = e} = {s \in R : s.udp_port = e}
      BY <3>1
    <3>3. QED
      BY <1>4, <3>1, <3>2
  <2>7. Cardinality(rest) <= (n - 1) * k
    <3>1. ~Bad(n - 1)
      <4> HIDE DEF Bad
      <4>1. QED
        BY <1>3, <2>3, <2>4
    <3>2. QED
      BY <2>4, <2>6, <3>1
  <2>8. (n - 1) * k + k = n * k
    BY <2>3
  <2>9. (n - 1) * k \in Nat /\ n * k \in Nat
    BY <2>3, <2>4
  <2> HIDE DEF own, rest
  <2>10. QED
    BY <1>4, <2>3, <2>5, <2>7, <2>8, <2>9
<1>7. QED
  BY <1>5, <1>6

\* An array without duplicates is as long as the set of its servers is large.
LEMMA LenIsCardinality ==
  ASSUME NEW S, NEW q \in Seq(S), Distinct(q)
  PROVE  IsFiniteSet(Range(q)) /\ Cardinality(Range(q)) = Len(q)
<1> DEFINE I == 1 .. Len(q)
<1>1. Len(q) \in Nat /\ DOMAIN q = I /\ q \in [I -> Range(q)]
  BY DEF Range
<1>2. q \in Bijection(I, Range(q))
  BY <1>1 DEF Bijection, Injection, Surjection, IsInjective, Distinct, Range
<1>3. IsFiniteSet(I) /\ Cardinality(I) = Len(q)
  BY <1>1, FS_Interval
<1>4. QED
  BY <1>2, <1>3, FS_Bijection DEF ExistsBijection

\* No address is a helper and a forwarding server, and an array has a slot
\* for every server the CLI accepts on an interface.
Disjoint == HelperIp \cap ForwardIp = {}
Ample    == MaxHelpers + Cardinality(UdpPort) * MaxForwards <= MaxServers

\* The most servers of UDP port d the CLI accepts on an interface.
Limit(d) == IF d = DHCPS_PORT THEN MaxHelpers ELSE MaxForwards

\* The rows keep the CLI's limits, and so do the arrays, even while they hold
\* servers of rows that have changed since.
FillInv ==
  /\ \A p \in Port : /\ Cardinality(dhcp[p].servers) <= MaxHelpers
                     /\ Cardinality(Forwards(p)) <= MaxForwards
  /\ \A p \in Port, d \in RowPort : Cardinality(Holds(p, d)) <= Limit(d)
  /\ \A p \in Port : \A s \in Range(arr[p]) :
       s.ip \in (IF s.udp_port = DHCPS_PORT THEN HelperIp ELSE ForwardIp)

LEMMA RowsFinite ==
  ASSUME TypeOK, NEW p \in Port
  PROVE  /\ IsFiniteSet(dhcp[p].servers) /\ IsFiniteSet(Server)
         /\ \A d : IsFiniteSet(Wants(p, d))
         /\ IsFiniteSet(Forwards(p))
<1>1. IsFiniteSet(Ip) /\ IsFiniteSet({DHCPS_PORT} \cup UdpPort)
  BY ConfigAssumption, FS_Singleton, FS_Union DEF ConfigAssumption
<1>2. IsFiniteSet(Ip \X ({DHCPS_PORT} \cup UdpPort))
  BY <1>1, FS_Product
<1>3. IsFiniteSet(Server)
  <2> DEFINE Pair == Ip \X ({DHCPS_PORT} \cup UdpPort)
             f == [r \in Pair |-> [ip |-> r[1], udp_port |-> r[2]]]
  <2>1. f \in Surjection(Pair, Server)
    <3>1. \A r \in Pair : f[r] \in Server
      BY DEF Server
    <3>2. \A s \in Server : <<s.ip, s.udp_port>> \in Pair /\ f[<<s.ip, s.udp_port>>] = s
      BY DEF Server
    <3> HIDE DEF Pair
    <3>3. QED
      BY <3>1, <3>2 DEF Surjection
  <2>2. QED
    BY <1>2, <2>1, FS_Surjection
<1>4. dhcp[p].servers \subseteq Ip
  BY DEF TypeOK, DhcpRow, Ip
<1>5. \A d : Wants(p, d) \subseteq Server
  BY DEF Wants
<1>6. Forwards(p) \subseteq Server
  BY DEF Forwards
<1>7. QED
  BY <1>1, <1>3, <1>4, <1>5, <1>6, FS_Subset

\* What a row lists is within the limits.
LEMMA WantsWithinLimit ==
  ASSUME TypeOK, FillInv, NEW p \in Port, NEW d \in RowPort
  PROVE  Cardinality(Wants(p, d)) <= Limit(d)
<1>1. CASE d = DHCPS_PORT
  <2> DEFINE f == [i \in dhcp[p].servers |-> Entry(i, DHCPS_PORT)]
  <2>1. f \in Surjection(dhcp[p].servers, Wants(p, d))
    <3>1. dhcp[p].servers \subseteq Ip /\ DHCPS_PORT \in {DHCPS_PORT} \cup UdpPort
      BY DEF TypeOK, DhcpRow, Ip
    <3>2. \A i \in dhcp[p].servers : f[i] \in Wants(p, d)
      BY <1>1, <3>1 DEF Wants, Entry, RowIps, Server
    <3>3. \A s \in Wants(p, d) : s.ip \in dhcp[p].servers /\ f[s.ip] = s
      BY <1>1 DEF Wants, Entry, RowIps, Server
    <3>4. QED
      BY <3>2, <3>3 DEF Surjection
  <2>2. IsFiniteSet(dhcp[p].servers) /\ IsFiniteSet(Wants(p, d))
    BY RowsFinite
  <2>3. Cardinality(Wants(p, d)) <= Cardinality(dhcp[p].servers)
    BY <2>1, <2>2, FS_Surjection
  <2>4. /\ Cardinality(Wants(p, d)) \in Nat /\ Cardinality(dhcp[p].servers) \in Nat
        /\ Cardinality(dhcp[p].servers) <= MaxHelpers /\ MaxHelpers \in Nat
    BY <2>2, FS_CardinalityType, ConfigAssumption DEF FillInv, ConfigAssumption
  <2>5. QED
    BY <1>1, <2>3, <2>4 DEF Limit
<1>2. CASE d # DHCPS_PORT
  <2>1. Wants(p, d) \subseteq Forwards(p)
    BY <1>2, RowPorts DEF Wants, Forwards, RowIps
  <2>2. IsFiniteSet(Forwards(p)) /\ IsFiniteSet(Wants(p, d))
    BY RowsFinite
  <2>3. Cardinality(Wants(p, d)) <= Cardinality(Forwards(p))
    BY <2>1, <2>2, FS_Subset
  <2>4. /\ Cardinality(Wants(p, d)) \in Nat /\ Cardinality(Forwards(p)) \in Nat
        /\ Cardinality(Forwards(p)) <= MaxForwards /\ MaxForwards \in Nat
    BY <2>2, FS_CardinalityType, ConfigAssumption DEF FillInv, ConfigAssumption
  <2>5. QED
    BY <1>2, <2>3, <2>4 DEF Limit
<1>3. QED
  BY <1>1, <1>2

LEMMA FillInvGivesRoom ==
  ASSUME ConvInv, FillInv, Disjoint, Ample
  PROVE  Room
<1>1. TypeOK /\ NoDuplicateRefs /\ JobInv
  BY DEF ConvInv, IInv
<1>2. HelpersApart
  BY <1>1 DEF HelpersApart, FillInv, Disjoint, TypeOK, DhcpRow
<1>3. ASSUME job.stage = "add", NEW s \in job.todo
      PROVE  Len(arr[job.row[1]]) < MaxServers
  <2> DEFINE p == job.row[1]
             e == job.row[2]
             R == Range(arr[p]) \cup {s}
             U == {t \in R : t.udp_port # DHCPS_PORT}
             H == {t \in R : t.udp_port = DHCPS_PORT}
             n == Cardinality(UdpPort)
  <2>1. /\ job.stage = "add" /\ s \in job.todo /\ p \in Port /\ e \in RowPort
        /\ job.todo \cap Range(arr[p]) = {} /\ s \in Server
        /\ arr[p] \in Seq(Server) /\ Distinct(arr[p])
    BY <1>1, <1>3
       DEF ConvInv, IInv, TypeOK, HandlerInv, NoJob, Job, RowPort,
           NoDuplicateRefs, Distinct
  <2>2. s.udp_port = e /\ s \in Wants(p, e) /\ Holds(p, e) \subseteq Wants(p, e)
    BY <1>1, <2>1 DEF JobInv, Wants
  <2>3. /\ IsFiniteSet(Range(arr[p])) /\ Cardinality(Range(arr[p])) = Len(arr[p])
        /\ s \notin Range(arr[p]) /\ Range(arr[p]) \subseteq Server
    <3>1. IsFiniteSet(Range(arr[p])) /\ Cardinality(Range(arr[p])) = Len(arr[p])
      BY <2>1, LenIsCardinality
    <3>2. Range(arr[p]) \subseteq Server
      BY <2>1 DEF Range
    <3>3. QED
      BY <2>1, <3>1, <3>2
  <2>4. IsFiniteSet(R) /\ Cardinality(R) = Len(arr[p]) + 1 /\ Len(arr[p]) \in Nat
    <3>1. Len(arr[p]) \in Nat
      BY <2>1
    <3>2. QED
      BY <2>3, <3>1, FS_AddElement
  <2>5. ASSUME NEW d \in RowPort
        PROVE  Cardinality({t \in R : t.udp_port = d}) <= Limit(d)
    <3>1. CASE d = e
      <4>1. {t \in R : t.udp_port = d} \subseteq Wants(p, e)
        BY <2>2, <3>1 DEF Holds
      <4>2. IsFiniteSet(Wants(p, e)) /\ Cardinality(Wants(p, e)) <= Limit(e)
        BY <1>1, <2>1, RowsFinite, WantsWithinLimit
      <4> DEFINE O == {t \in R : t.udp_port = d}
      <4>3. O \subseteq Wants(p, e)
        BY <4>1
      <4> HIDE DEF O
      <4>4. Cardinality(O) <= Cardinality(Wants(p, e)) /\ IsFiniteSet(O)
        BY <4>2, <4>3, FS_Subset
      <4>5. /\ Cardinality(O) \in Nat /\ Cardinality(Wants(p, e)) \in Nat
            /\ Limit(e) \in Nat
        BY <4>2, <4>4, FS_CardinalityType, ConfigAssumption DEF ConfigAssumption, Limit
      <4>6. Cardinality(O) <= Limit(d)
        BY <3>1, <4>2, <4>4, <4>5
      <4>7. QED
        BY <4>6 DEF O
    <3>2. CASE d # e
      <4>1. {t \in R : t.udp_port = d} = Holds(p, d)
        BY <2>2, <3>2 DEF Holds
      <4>2. QED
        BY <2>1, <4>1 DEF FillInv
    <3>3. QED
      BY <3>1, <3>2
  <2>6. Cardinality(H) <= MaxHelpers
    BY <2>5, RowPorts DEF Limit
  <2>7. Cardinality(U) <= n * MaxForwards
    <3>1. IsFiniteSet(UdpPort) /\ MaxForwards \in Nat /\ IsFiniteSet(U)
      BY <2>4, FS_Subset, ConfigAssumption DEF ConfigAssumption
    <3>2. \A t \in U : t.udp_port \in UdpPort
      <4>1. \A t \in R : t \in Server
        BY <2>1, <2>3
      <4>2. QED
        BY <4>1, RowPorts
    <3>3. \A d \in UdpPort : Cardinality({t \in U : t.udp_port = d}) <= MaxForwards
      <4>1. SUFFICES ASSUME NEW d \in UdpPort
                     PROVE  Cardinality({t \in U : t.udp_port = d}) <= MaxForwards
        OBVIOUS
      <4>2. d \in RowPort /\ d # DHCPS_PORT
        BY RowPorts
      <4>3. {t \in U : t.udp_port = d} = {t \in R : t.udp_port = d}
        BY <4>2
      <4>4. Cardinality({t \in R : t.udp_port = d}) <= Limit(d)
        BY <2>5, <4>2
      <4>5. QED
        BY <4>2, <4>3, <4>4 DEF Limit
    <3> HIDE DEF U
    <3>4. QED
      BY <3>1, <3>2, <3>3, ServersPerPort
  <2>8. Cardinality(R) = Cardinality(H) + Cardinality(U)
    <3>1. IsFiniteSet(H) /\ IsFiniteSet(U)
      BY <2>4, FS_Subset
    <3>2. R = H \cup U /\ H \cap U = {}
      OBVIOUS
    <3> HIDE DEF R, H, U
    <3>3. /\ Cardinality(H) \in Nat /\ Cardinality(U) \in Nat
          /\ Cardinality(H \cap U) = 0
      BY <3>1, <3>2, FS_CardinalityType, FS_EmptySet
    <3>4. Cardinality(H \cup U) = Cardinality(H) + Cardinality(U) - Cardinality(H \cap U)
      BY <3>1, FS_Union
    <3>5. QED
      BY <3>2, <3>3, <3>4
  <2>9. /\ Cardinality(H) \in Nat /\ Cardinality(U) \in Nat /\ n \in Nat
        /\ MaxHelpers \in Nat /\ MaxForwards \in Nat /\ MaxServers \in Nat
        /\ n * MaxForwards \in Nat
    <3>1. IsFiniteSet(H) /\ IsFiniteSet(U)
      BY <2>4, FS_Subset
    <3>2. n \in Nat /\ MaxForwards \in Nat
      BY FS_CardinalityType, ConfigAssumption DEF ConfigAssumption
    <3>3. n * MaxForwards \in Nat
      BY <3>2
    <3> HIDE DEF H, U, n
    <3>4. QED
      BY <3>1, <3>2, <3>3, FS_CardinalityType, ConfigAssumption DEF ConfigAssumption
  <2>10. MaxHelpers + n * MaxForwards <= MaxServers
    BY DEF Ample
  <2> DEFINE m == n * MaxForwards
  <2> HIDE DEF H, U, R, n, m
  <2>11. Cardinality(U) <= m /\ m \in Nat /\ MaxHelpers + m <= MaxServers
    BY <2>7, <2>9, <2>10 DEF m
  <2>12. QED
    BY <2>4, <2>6, <2>8, <2>9, <2>11
<1>4. QED
  BY <1>2, <1>3 DEF Room, HasRoom

\* A step that leaves the arrays and the rows alone, or only drops servers.
LEMMA FillInvKept ==
  ASSUME TypeOK, FillInv, UNCHANGED <<dhcp, udp>>,
         \A p \in Port : Range(arr'[p]) \subseteq Range(arr[p])
  PROVE  FillInv'
<1>1. ASSUME NEW p \in Port, NEW d \in RowPort
      PROVE  Cardinality(Holds(p, d)') <= Limit(d)
  <2>1. Holds(p, d)' \subseteq Holds(p, d)
    BY DEF Holds
  <2>2. IsFiniteSet(Holds(p, d))
    <3>1. IsFiniteSet(Server) /\ Holds(p, d) \subseteq Server
      BY RowsFinite DEF TypeOK, Holds, Range
    <3>2. QED
      BY <3>1, FS_Subset
  <2>3. /\ IsFiniteSet(Holds(p, d)')
        /\ Cardinality(Holds(p, d)') <= Cardinality(Holds(p, d))
    BY <2>1, <2>2, FS_Subset
  <2>4. /\ Cardinality(Holds(p, d)) \in Nat /\ Cardinality(Holds(p, d)') \in Nat
        /\ Limit(d) \in Nat
    BY <2>2, <2>3, FS_CardinalityType, ConfigAssumption DEF ConfigAssumption, Limit
  <2>5. Cardinality(Holds(p, d)) <= Limit(d)
    BY DEF FillInv
  <2>6. QED
    BY <2>3, <2>4, <2>5
<1>2. \A p : Forwards(p)' = Forwards(p)
  BY DEF Forwards
<1>3. QED
  BY <1>1, <1>2 DEF FillInv

LEMMA OvsdbKeepsFill ==
  ASSUME ConvInv, FillInv, Ovsdb
  PROVE  FillInv'
<1> USE DEF tableVars
<1>1. arr' = arr /\ \A p \in Port : \A d : Holds(p, d)' = Holds(p, d)
  BY DEF Ovsdb, SetHelpers, SetGateway, SetForwards, WriteDhcpRow, Holds
<1>2. /\ dhcp \in [Port -> DhcpRow]
      /\ udp \in [Port -> [UdpPort -> SUBSET ForwardIp]]
  BY DEF ConvInv, IInv, TypeOK
<1>3. \A p \in Port : /\ Cardinality(dhcp'[p].servers) <= MaxHelpers
                      /\ Cardinality(Forwards(p)') <= MaxForwards
  <2>1. ASSUME NEW q \in Port, SetHelpers(q), NEW p \in Port
        PROVE  /\ Cardinality(dhcp'[p].servers) <= MaxHelpers
               /\ Cardinality(Forwards(p)') <= MaxForwards
    <3>1. PICK S \in SUBSET HelperIp :
            /\ Cardinality(S) <= MaxHelpers
            /\ WriteDhcpRow(q, [dhcp[q] EXCEPT !.servers = S])
      BY <2>1 DEF SetHelpers
    <3>2. dhcp' = [dhcp EXCEPT ![q] = [dhcp[q] EXCEPT !.servers = S]] /\ udp' = udp
      BY <3>1 DEF WriteDhcpRow
    <3>3. dhcp'[p].servers = IF p = q THEN S ELSE dhcp[p].servers
      BY <1>2, <3>2 DEF DhcpRow
    <3>4. QED
      BY <3>1, <3>2, <3>3 DEF FillInv, Forwards
  <2>2. ASSUME NEW q \in Port, SetGateway(q), NEW p \in Port
        PROVE  /\ Cardinality(dhcp'[p].servers) <= MaxHelpers
               /\ Cardinality(Forwards(p)') <= MaxForwards
    <3>1. PICK g : WriteDhcpRow(q, [dhcp[q] EXCEPT !.gw = g])
      BY <2>2 DEF SetGateway
    <3>2. dhcp' = [dhcp EXCEPT ![q] = [dhcp[q] EXCEPT !.gw = g]] /\ udp' = udp
      BY <3>1 DEF WriteDhcpRow
    <3>3. dhcp'[p].servers = dhcp[p].servers
      BY <1>2, <3>2 DEF DhcpRow
    <3>4. QED
      BY <3>2, <3>3 DEF FillInv, Forwards
  <2>3. ASSUME NEW q \in Port, NEW d \in UdpPort, SetForwards(q, d), NEW p \in Port
        PROVE  /\ Cardinality(dhcp'[p].servers) <= MaxHelpers
               /\ Cardinality(Forwards(p)') <= MaxForwards
    <3>1. PICK S : /\ udp' = [udp EXCEPT ![q][d] = S] /\ dhcp' = dhcp
                   /\ Cardinality(Forwards(q)') <= MaxForwards
      BY <2>3 DEF SetForwards
    <3>2. p # q => Forwards(p)' = Forwards(p)
      BY <1>2, <3>1 DEF Forwards
    <3>3. QED
      BY <3>1, <3>2 DEF FillInv
  <2>4. QED
    BY <2>1, <2>2, <2>3 DEF Ovsdb
<1>4. QED
  BY <1>1, <1>3 DEF FillInv

\* What the addition loop stores belongs to the row it handles, which is
\* within its limit.
LEMMA AddStepKeepsFill ==
  ASSUME ConvInv, FillInv, HasRoom, NEW s \in Server, AddStep(s)
  PROVE  FillInv'
<1> DEFINE p == job.row[1]
           e == job.row[2]
<1>1. /\ p \in Port /\ s \in job.todo /\ s \in Configured(p)
      /\ job.stage = "add" /\ Range(arr'[p]) = Range(arr[p]) \cup {s}
      /\ \A q \in Port \ {p} : arr'[q] = arr[q]
      /\ dhcp' = dhcp /\ udp' = udp
  BY AddEffect DEF ConvInv, SameRows
<1>2. TypeOK /\ JobInv
  BY DEF ConvInv, IInv
<1>3. s.udp_port = e /\ s \in Wants(p, e) /\ Holds(p, e) \subseteq Wants(p, e)
  BY <1>1, <1>2 DEF JobInv, Wants
<1>4. s.ip \in (IF s.udp_port = DHCPS_PORT THEN HelperIp ELSE ForwardIp)
  BY <1>1, <1>2, RowPorts DEF Configured, RowIps, TypeOK, DhcpRow
<1>5. ASSUME NEW q \in Port, NEW d \in RowPort
      PROVE  Cardinality(Holds(q, d)') <= Limit(d)
  <2>1. CASE q = p /\ d = e
    <3>1. Holds(q, d)' \subseteq Wants(p, e)
      BY <1>1, <1>3, <2>1 DEF Holds
    <3>2. /\ IsFiniteSet(Wants(p, e)) /\ Cardinality(Wants(p, e)) <= Limit(d)
      BY <1>1, <1>2, <2>1, RowsFinite, WantsWithinLimit
    <3>3. /\ IsFiniteSet(Holds(q, d)')
          /\ Cardinality(Holds(q, d)') <= Cardinality(Wants(p, e))
      BY <3>1, <3>2, FS_Subset
    <3>4. /\ Cardinality(Holds(q, d)') \in Nat /\ Cardinality(Wants(p, e)) \in Nat
          /\ Limit(d) \in Nat
      BY <3>2, <3>3, FS_CardinalityType, ConfigAssumption DEF ConfigAssumption, Limit
    <3>5. QED
      BY <3>2, <3>3, <3>4
  <2>2. CASE ~(q = p /\ d = e)
    <3>1. Holds(q, d)' = Holds(q, d)
      BY <1>1, <1>3, <2>2 DEF Holds
    <3>2. QED
      BY <3>1 DEF FillInv
  <2>3. QED
    BY <2>1, <2>2
<1>6. \A q : Forwards(q)' = Forwards(q)
  BY <1>1 DEF Forwards
<1>7. \A q \in Port : \A t \in Range(arr'[q]) :
        t.ip \in (IF t.udp_port = DHCPS_PORT THEN HelperIp ELSE ForwardIp)
  BY <1>1, <1>4 DEF FillInv
<1>8. QED
  BY <1>1, <1>5, <1>6, <1>7 DEF FillInv

LEMMA NextKeepsFill ==
  ASSUME ConvInv, FillInv, HasRoom, [Next]_vars
  PROVE  FillInv'
<1> USE DEF tableVars, dbVars, walkVars
<1>0. IInv /\ TypeOK
  BY DEF ConvInv, IInv
<1>1. ASSUME NEW s \in Server, RemoveStep(s) PROVE FillInv'
  <2>1. UNCHANGED <<dhcp, udp>>
    BY <1>1 DEF RemoveStep
  <2>2. \A p \in Port : Range(arr'[p]) \subseteq Range(arr[p])
    BY <1>0, <1>1, RemoveEffect
  <2>3. QED
    BY <1>0, <2>1, <2>2, FillInvKept
<1>2. ASSUME NEW s \in Server, AddStep(s) PROVE FillInv'
  BY <1>2, AddStepKeepsFill
<1>3. CASE Ovsdb
  BY <1>3, OvsdbKeepsFill
<1>4. CASE Restart
  <2>1. UNCHANGED <<dhcp, udp>> /\ \A p \in Port : Range(arr'[p]) = {}
    BY <1>4 DEF Restart, Range
  <2>2. QED
    BY <1>0, <2>1, FillInvKept
<1>5. CASE UNCHANGED vars
  <2>1. UNCHANGED <<dhcp, udp, arr>>
    BY <1>5 DEF vars
  <2>2. QED
    BY <1>0, <2>1, FillInvKept
<1>6. CASE /\ MainThread
           /\ ~ \E s \in Server : RemoveStep(s) \/ AddStep(s)
  <2>1. UNCHANGED <<dhcp, udp, arr>>
    BY <1>6 DEF MainThread, BeginReconfigure, BeginUdpTable, EndReconfigure,
       DhcpRowDelete, UdpRowDelete, DhcpConfigChange, UdpConfigChange,
       StrayStep, CollectAdded, EndJob
  <2>2. QED
    BY <1>0, <2>1, FillInvKept
<1>7. QED
  BY <1>1, <1>2, <1>3, <1>4, <1>5, <1>6 DEF Next

LEMMA InitFill == Init => FillInv
<1> SUFFICES ASSUME Init PROVE FillInv
  OBVIOUS
<1>1. MaxHelpers >= 0 /\ MaxForwards >= 0
  BY ConfigAssumption DEF ConfigAssumption
<1>2. \A p \in Port : dhcp[p].servers = {} /\ Forwards(p) = {}
  BY RowPorts DEF Init, NoRow, Forwards
<1>3. \A p \in Port : \A d : Holds(p, d) = {} /\ Range(arr[p]) = {}
  BY DEF Init, Holds, Range
<1>4. QED
  BY <1>1, <1>2, <1>3, FS_EmptySet DEF FillInv, Limit

\* Once the daemon has caught up every interface has exactly the configured
\* servers and its gateway, whatever was changed in whatever order before and
\* however often the daemon was started again, as long as no addition finds
\* the array full or its address taken, and no port name is the prefix of
\* another one.
THEOREM ConvergesWithRoom ==
  ASSUME NamesApart
  PROVE  Spec /\ []Room => []Converged
<1>1. ConvInv /\ Room /\ [Next]_vars => ConvInv'
  BY NextKeepsConv
<1>2. QED
  BY <1>1, InitConv, ConvInvConverged, PTL DEF Spec

\* The two conditions on the arrays follow from the limits of the CLI: that
\* of a row's servers, the number of forwarded UDP ports, and no address used
\* for both services.
THEOREM Converges ==
  ASSUME NamesApart, Disjoint, Ample
  PROVE  Spec => []Converged
<1>1. ConvInv /\ FillInv /\ [Next]_vars => ConvInv' /\ FillInv'
  <2>1. SUFFICES ASSUME ConvInv, FillInv, [Next]_vars PROVE ConvInv' /\ FillInv'
    OBVIOUS
  <2>2. Room /\ HasRoom
    BY <2>1, FillInvGivesRoom DEF Room
  <2>3. QED
    BY <2>1, <2>2, NextKeepsConv, NextKeepsFill
<1>2. Init => ConvInv /\ FillInv
  BY InitConv, InitFill
<1>3. QED
  BY <1>1, <1>2, ConvInvConverged, PTL DEF Spec
=============================================================================
