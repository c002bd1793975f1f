------------------------ MODULE UdpfwdThreads_proofs ------------------------
(***************************************************************************)
(* Theorems of UdpfwdThreads, for any interfaces, servers and gateways and *)
(* any size of an array: the lock excludes, the tables are whole whenever  *)
(* the main thread does not hold it, what the receiver dereferences is     *)
(* there, a locked operation is one step to it, and a packet goes to the   *)
(* servers of one version of the table.                                    *)
(***************************************************************************)
EXTENDS UdpfwdThreads, FiniteSetTheorems, WellFoundedInduction, TLAPS

-----------------------------------------------------------------------------
(* The invariant. view[p] is what the array of p stands for: each place of *)
(* the main thread says how far its own array is from it.                  *)

Distinct(q) == \A i, k \in DOMAIN q : q[i] = q[k] => i = k

\* The interfaces whose last released array names s.
Uses(s) == {p \in Port : s \in Range(view[p])}

\* The array of p, and its count, are q.
Shows(p, q) == count[p] = Len(q) /\ \A k \in 1 .. Len(q) : array[p][k] = q[k]

\* ... and an array exists exactly while it holds something.
Settled(p, q) == Shows(p, q) /\ (array[p] = Null <=> count[p] = 0)

\* The places of an operation that has no slot yet.
TaskPc == {"store", "alloc", "slot", "count", "stray", "leak", "remove", "find", "post"}

MainState ==
  {MainIdle}
  \cup [pc : {"insert", "freed"}, p : Port]
  \cup [pc : TaskPc, p : Port, s : Server]
  \cup [pc : {"clear", "dec", "push", "free", "post"}, p : Port, s : Server, i : Slots]

Giaddr == Gateway \cup {Null, InterfaceIp, "other relay"}

RecvState ==
  {RecvIdle}
  \cup [pc : {"wait", "lookup", "post"}, p : Port, kind : Kind, giaddr : Giaddr]
  \cup [pc : {"option82", "gateway", "stamp", "scan", "client", "post"}, p : Port,
        kind : Kind, giaddr : Giaddr, i : Nat \ {0}, sent : Seq(Server)]

TypeInv ==
  /\ m \in MainState /\ r \in RecvState
  /\ node \subseteq Port
  /\ gw \in [Port -> Gateway \cup {Null}]
  /\ array \in [Port -> [Slots -> Server \cup {Null}] \cup {Null}]
  /\ count \in [Port -> 0 .. MaxServers]
  /\ refs \in [Server -> Nat] /\ leaked \in [Server -> Nat]
  /\ view \in [Port -> Seq(Server)]

LockInv ==
  /\ ~(MainHolds /\ RecvHolds)
  /\ sem = IF MainHolds \/ RecvHolds THEN 0 ELSE 1

ViewInv == \A p \in Port : Distinct(view[p]) /\ Len(view[p]) <= MaxServers

NodeInv ==
  /\ \A p \in Port \ node : count[p] = 0 /\ gw[p] = Null
  /\ m.pc \in {"store", "alloc", "slot", "count"} => m.p \in node

RestInv == \A p \in Port : ~(MainHolds /\ p = m.p) => Settled(p, view[p])

\* Between Clear and Push slot i is empty and the others are as they were.
Hole(p, q, s, i) ==
  /\ i \in 1 .. Len(q) /\ q[i] = s
  /\ array[p] # Null /\ array[p][i] = Null
  /\ \A k \in 1 .. Len(q) : k # i => array[p][k] = q[k]

\* What the main thread's array is to be when it posts.
Stored(p, q, s) == s \notin Range(q) /\ Len(q) < MaxServers /\ Settled(p, Append(q, s))
Dropped(p, q, s) == \E i \in 1 .. Len(q) : q[i] = s /\ Settled(p, DropSlot(q, i))

WorkAt(p, q, s) ==
  /\ m.pc \in {"store", "alloc", "slot", "count"} => s \notin Range(q) /\ Len(q) < MaxServers
  /\ m.pc \in {"alloc", "leak", "find", "clear"} => Settled(p, q)
  /\ m.pc \in {"slot", "count"} => Shows(p, q) /\ array[p] # Null
  /\ m.pc = "count" => array[p][Len(q) + 1] = s
  /\ m.pc = "clear" => m.i \in 1 .. Len(q) /\ q[m.i] = s
  /\ m.pc \in {"dec", "push"} => Hole(p, q, s, m.i)
  /\ m.pc = "dec" => count[p] = Len(q)
  /\ m.pc = "push" => count[p] = Len(q) - 1 /\ Len(q) > 1
  /\ m.pc = "free" => /\ m.i \in 1 .. Len(q) /\ q[m.i] = s
                      /\ array[p] # Null /\ Shows(p, DropSlot(q, m.i))
                      /\ Len(q) = 1 => array[p][1] = Null
  /\ m.pc = "post" => Settled(p, q) \/ Stored(p, q, s) \/ Dropped(p, q, s)

WorkInv == m.pc \notin {"idle", "insert", "freed"} => WorkAt(m.p, view[m.p], m.s)

\* The references the main thread has taken, or given back, ahead of view.
Ahead(s) ==
  /\ m.pc \in {"slot", "count", "post"} /\ s = m.s
  /\ m.pc = "post" => count[m.p] > Len(view[m.p])
Behind(s) ==
  /\ m.pc \in {"clear", "dec", "push", "free", "post"} /\ s = m.s
  /\ m.pc = "post" => count[m.p] < Len(view[m.p])

RefsInv ==
  \A s \in Server :
    refs[s] = Cardinality(Uses(s)) + leaked[s] +
                (IF Ahead(s) THEN 1 ELSE IF Behind(s) THEN -1 ELSE 0)

RecvInv ==
  r.pc \in {"option82", "gateway", "stamp", "scan", "client"} => r.p \in node

MainInv == ViewInv /\ NodeInv /\ RestInv /\ WorkInv /\ RefsInv

IInv == TypeInv /\ LockInv /\ MainInv /\ RecvInv

-----------------------------------------------------------------------------
(* Lemmas on sequences and users.                                          *)

\* NULL is no array, and no slot in use.
LEMMA NullApart ==
  /\ MaxServers \in Nat \ {0} /\ Null \notin Server
  /\ \A a \in [Slots -> Server \cup {Null}] : a # Null
BY ThreadsAssumption DEF ThreadsAssumption

\* Dropping a slot of an array without duplicates drops its server only.
LEMMA DropSlotProperties ==
  ASSUME NEW q \in Seq(Server), Distinct(q), NEW i \in 1 .. Len(q)
  PROVE  /\ DropSlot(q, i) \in Seq(Server)
         /\ Len(DropSlot(q, i)) = Len(q) - 1
         /\ Distinct(DropSlot(q, i))
         /\ Range(DropSlot(q, i)) = Range(q) \ {q[i]}
<1> DEFINE d == DropSlot(q, i)
           n == Len(q)
<1>1. n \in Nat /\ n >= 1 /\ n - 1 \in Nat /\ DOMAIN q = 1 .. n
  OBVIOUS
<1>2. d = [k \in 1 .. n - 1 |-> IF k = i THEN q[n] ELSE q[k]]
  BY DEF DropSlot
<1>3. \A k \in 1 .. n - 1 : d[k] = (IF k = i THEN q[n] ELSE q[k]) /\ d[k] \in Server
  BY <1>1, <1>2
<1>4. d \in Seq(Server) /\ Len(d) = n - 1 /\ DOMAIN d = 1 .. n - 1
  BY <1>1, <1>2, <1>3
<1>5. Distinct(d)
  BY <1>1, <1>3, <1>4 DEF Distinct
<1>6. Range(d) \subseteq Range(q) \ {q[i]}
  BY <1>1, <1>3, <1>4 DEF Distinct, Range
<1>7. ASSUME NEW k \in 1 .. n, k # i  PROVE q[k] \in Range(d)
  <2>1. CASE k = n
    <3> HIDE DEF n, d
    <3>1. i \in 1 .. n - 1  BY <1>1, <1>7, <2>1
    <3>2. d[i] = q[k]  BY <1>3, <2>1, <3>1
    <3> QED  BY <1>4, <3>1, <3>2 DEF Range
  <2>2. CASE k # n
    <3> HIDE DEF n, d
    <3>1. k \in 1 .. n - 1 /\ d[k] = q[k]  BY <1>1, <1>3, <1>7, <2>2
    <3> QED  BY <1>4, <3>1 DEF Range
  <2> QED  BY <2>1, <2>2
<1>8. Range(q) \ {q[i]} \subseteq Range(d)
  BY <1>1, <1>7 DEF Range
<1> QED  BY <1>4, <1>5, <1>6, <1>8

\* Appending a new server to an array without duplicates adds that server only.
LEMMA AppendProperties ==
  ASSUME NEW q \in Seq(Server), Distinct(q), NEW s \in Server, s \notin Range(q)
  PROVE  /\ Append(q, s) \in Seq(Server) /\ Len(Append(q, s)) = Len(q) + 1
         /\ Distinct(Append(q, s)) /\ Range(Append(q, s)) = Range(q) \cup {s}
<1> DEFINE a == Append(q, s)
           n == Len(q)
<1>1. /\ n \in Nat /\ DOMAIN q = 1 .. n /\ a \in Seq(Server) /\ Len(a) = n + 1
      /\ DOMAIN a = 1 .. n + 1
  OBVIOUS
<1>2. a[n + 1] = s /\ \A k \in 1 .. n : a[k] = q[k]
  OBVIOUS
<1>3. \A k \in 1 .. n : q[k] # s
  BY <1>1 DEF Range
<1>4. Distinct(a)
  BY <1>1, <1>2, <1>3 DEF Distinct
<1>5. Range(a) = Range(q) \cup {s}
  BY <1>1, <1>2 DEF Range
<1> QED  BY <1>1, <1>4, <1>5

\* The users of a server can be counted.
LEMMA UsesFinite ==
  ASSUME NEW s
  PROVE  /\ IsFiniteSet(Uses(s)) /\ Cardinality(Uses(s)) \in Nat
         /\ Cardinality(Uses(s)) > 0 <=> Uses(s) # {}
<1>1. IsFiniteSet(Port) /\ Uses(s) \subseteq Port
  BY ThreadsAssumption DEF ThreadsAssumption, Uses
<1> QED  BY <1>1, FS_Subset, FS_CardinalityType, FS_EmptySet

\* A thread that holds nothing finds every array as view says.
LEMMA UsersAreUses ==
  ASSUME TypeInv, RestInv, ~MainHolds
  PROVE  \A s : Users(s) = Uses(s)
<1>1. ASSUME NEW p \in Port, NEW s  PROVE Holds(p, s) <=> s \in Range(view[p])
  <2> DEFINE q == view[p]
  <2>1. q \in Seq(Server) /\ count[p] = Len(q) /\ \A k \in 1 .. Len(q) : array[p][k] = q[k]
    BY DEF TypeInv, RestInv, Settled, Shows
  <2> HIDE DEF q
  <2>2. DOMAIN q = 1 .. Len(q)  BY <2>1
  <2> QED  BY <2>1, <2>2 DEF Holds, Range, q
<1> QED  BY <1>1 DEF Users, Uses

-----------------------------------------------------------------------------
(* The steps of the receiver.                                              *)

\* What the receiver does leaves the main thread's part of the invariant alone.
LEMMA MainKept ==
  ASSUME MainInv, UNCHANGED <<tables, view, m>>
  PROVE  MainInv'
BY DEF MainInv, ViewInv, NodeInv, RestInv, WorkInv, WorkAt, RefsInv, Uses, Ahead, Behind,
       Settled, Shows, Hole, Stored, Dropped, MainHolds, tables

\* Every step of the receiver keeps the invariant.
LEMMA RecvStepInv ==
  ASSUME IInv, RecvStep \/ \E p \in Port, kind \in Kind : Receive(p, kind)
  PROVE  IInv'
<1>1. UNCHANGED <<tables, view, m>>
  BY DEF RecvStep, Receive, RecvWait, Lookup, Option82, TestGateway, Stamp, Scan, ToClient, RecvPost
<1>2. MainInv'
  BY <1>1, MainKept DEF IInv
<1>3. /\ r' \in RecvState
      /\ LockInv' /\ RecvInv'
  <2> USE <1>1 DEF IInv, TypeInv, LockInv, RecvInv, MainHolds, RecvHolds, tables
  <2>0. r \in RecvState  OBVIOUS
  <2> DEFINE Path == [pc : {"option82", "gateway", "stamp", "scan", "client", "post"}, p : Port,
                      kind : Kind, giaddr : Giaddr, i : Nat \ {0}, sent : Seq(Server)]
  <2> DEFINE Early == [pc : {"wait", "lookup", "post"}, p : Port, kind : Kind, giaddr : Giaddr]
  <2>1. CASE \E p \in Port, kind \in Kind : Receive(p, kind)
    <3>0. PICK p \in Port, kind \in Kind : Receive(p, kind)  BY <2>1
    <3>1. PICK giaddr \in Giaddr :
            r' = [pc |-> "wait", p |-> p, kind |-> kind, giaddr |-> giaddr]
      BY <3>0 DEF Receive, Giaddr
    <3>2. r' \in Early /\ r'.pc = "wait"  BY <3>1
    <3>3. r.pc = "idle" /\ sem' = sem  BY <3>0 DEF Receive, RecvIdle
    <3> QED  BY <3>2, <3>3 DEF RecvState
  <2>2. CASE RecvWait
    <3>1. r \in Early /\ r.pc = "wait" /\ sem > 0 /\ sem' = sem - 1
      BY <2>2 DEF RecvWait, RecvIdle, RecvState
    <3>2. r' \in Early /\ r'.pc = "lookup"  BY <2>2, <3>1 DEF RecvWait
    <3> HIDE DEF Early
    <3>3. sem = 1 /\ ~MainHolds /\ sem' = 0  BY <3>1
    <3>4. LockInv'  BY <3>2, <3>3
    <3> QED  BY <3>2, <3>4 DEF RecvState, Early
  <2>3. CASE Lookup
    <3>1. r \in Early /\ r.pc = "lookup" /\ sem' = sem
      BY <2>3 DEF Lookup, RecvState, RecvIdle
    <3>2. <<>> \in Seq(Server) /\ 1 \in Nat \ {0}  OBVIOUS
    <3>3. CASE r' = [r EXCEPT !.pc = "post"]
      <4>1. r' \in Early /\ r'.pc = "post"  BY <3>1, <3>3
      <4> QED  BY <3>1, <4>1 DEF RecvState
    <3>4. CASE /\ r.p \in node
               /\ r' = [p |-> r.p, kind |-> r.kind, giaddr |-> r.giaddr,
                        pc |-> IF r.kind = "broadcast" THEN "scan" ELSE "option82",
                        i |-> 1, sent |-> <<>>]
      <4>1. r' \in Path /\ r'.p = r.p /\ r'.pc \in {"scan", "option82"}
        BY <3>1, <3>2, <3>4
      <4> QED  BY <3>1, <3>4, <4>1 DEF RecvState
    <3> QED  BY <2>3, <3>3, <3>4 DEF Lookup
  <2>4. r.pc \in {"option82", "gateway", "stamp", "scan", "client"} => r \in Path
    BY DEF RecvState, RecvIdle
  <2>5. ASSUME r \in Path, r.pc # "post", r' \in Path, r'.p = r.p, sem' = sem,
               r.pc \in {"option82", "gateway", "stamp", "scan", "client"}
        PROVE  r' \in RecvState /\ LockInv' /\ RecvInv'
    BY <2>5 DEF RecvState
  <2>6. CASE Option82  BY <2>4, <2>5, <2>6 DEF Option82
  <2>7. CASE TestGateway
    <3>1. InterfaceIp \in Giaddr  BY DEF Giaddr
    <3> QED  BY <2>4, <2>5, <2>7, <3>1 DEF TestGateway
  <2>8. CASE Stamp
    <3>1. r \in Path /\ r.p \in Port  BY <2>4, <2>8 DEF Stamp
    <3>2. gw[r.p] \in Giaddr  BY <3>1 DEF Giaddr
    <3> QED  BY <2>5, <2>8, <3>1, <3>2 DEF Stamp
  <2>9. CASE Scan
    <3>1. r \in Path  BY <2>4, <2>9 DEF Scan
    <3>2. \A s \in Wanted(r.kind) : Append(r.sent, s) \in Seq(Server)
      BY <3>1 DEF Wanted, Kind, Server
    <3>3. r.i + 1 \in Nat \ {0}  BY <3>1
    <3>4. r' \in Path /\ r'.p = r.p  BY <2>9, <3>1, <3>2, <3>3 DEF Scan
    <3> QED  BY <2>5, <2>9, <3>1, <3>4 DEF Scan
  <2>10. CASE ToClient  BY <2>4, <2>5, <2>10 DEF ToClient
  <2>11. CASE RecvPost  BY <2>11 DEF RecvPost, RecvState, RecvIdle
  <2> QED  BY <2>1, <2>2, <2>3, <2>6, <2>7, <2>8, <2>9, <2>10, <2>11 DEF RecvStep
<1> QED  BY <1>1, <1>2, <1>3 DEF IInv, TypeInv, tables

-----------------------------------------------------------------------------
(* The steps of the main thread.                                           *)

\* Where the main thread is, what it knows of its task.
LEMMA MainShape ==
  ASSUME TypeInv
  PROVE  /\ m.pc = "idle" => m = MainIdle
         /\ m.pc \in {"insert", "freed"} => m \in [pc : {"insert", "freed"}, p : Port]
         /\ m.pc \in {"store", "alloc", "slot", "count", "stray", "leak", "remove", "find"} =>
              m \in [pc : TaskPc, p : Port, s : Server]
         /\ m.pc \in {"clear", "dec", "push", "free"} =>
              m \in [pc : {"clear", "dec", "push", "free", "post"}, p : Port, s : Server,
                     i : Slots]
         /\ m.pc \notin {"idle", "insert", "freed"} => m.p \in Port /\ m.s \in Server
BY DEF TypeInv, MainState, TaskPc, MainIdle

\* Where no reference is taken or given back the counts stay right.
LEMMA RefsKept ==
  ASSUME RefsInv, UNCHANGED <<refs, leaked, view>>,
         \A t \in Server : (Ahead(t)' <=> Ahead(t)) /\ (Behind(t)' <=> Behind(t))
  PROVE  RefsInv'
<1>1. \A t : Uses(t)' = Uses(t)  BY DEF Uses
<1> QED  BY <1>1 DEF RefsInv

\* Work outside the lock, and taking it: the tables of servers stay.
LEMMA OutsideStep ==
  ASSUME IInv,
         \/ EndInsert \/ EndHandler \/ StoreWait \/ StrayWait \/ RemoveWait
         \/ \E p \in Port : \/ BeginInsert(p) \/ WriteGateway(p)
                             \/ \E s \in Server : BeginStore(p, s) \/ BeginRemove(p, s)
                                                    \/ BeginStray(p, s)
  PROVE  IInv'
<1>1. UNCHANGED <<array, count, refs, leaked, view, r>> /\ node \subseteq node'
  BY DEF EndInsert, EndHandler, StoreWait, StrayWait, RemoveWait, BeginInsert, WriteGateway,
         BeginStore, BeginRemove, BeginStray, tables
<1>2. ~MainHolds
  BY DEF EndInsert, EndHandler, StoreWait, StrayWait, RemoveWait, BeginInsert, WriteGateway,
         BeginStore, BeginRemove, BeginStray, MainHolds, MainIdle, Freed
<1>3. \A p \in Port : Settled(p, view[p]) /\ Settled(p, view[p])'
  BY <1>1, <1>2 DEF IInv, MainInv, RestInv, Settled, Shows
<1>4. /\ RecvInv' /\ RestInv' /\ ViewInv'
  BY <1>1, <1>3 DEF IInv, MainInv, RecvInv, RestInv, ViewInv
<1>5. \A t : ~Ahead(t) /\ ~Behind(t)
  BY <1>2 DEF Ahead, Behind, MainHolds
<1> USE DEF IInv, MainInv
<1>6. CASE EndInsert \/ EndHandler
  <2>1. /\ m \in [pc : {"insert", "freed"}, p : Port] /\ m' = MainIdle /\ m'.pc = "idle"
        /\ UNCHANGED <<sem, gw>> /\ node' \subseteq node \cup {m.p}
    BY <1>6, MainShape DEF EndInsert, EndHandler, MainIdle, tables
  <2>2. TypeInv'
    BY <1>1, <2>1 DEF TypeInv, MainState
  <2>3. \A t : ~Ahead(t)' /\ ~Behind(t)'  BY <2>1 DEF Ahead, Behind
  <2>4. LockInv' /\ NodeInv' /\ WorkInv'
    BY <1>1, <1>2, <2>1 DEF LockInv, MainHolds, RecvHolds, NodeInv, WorkInv
  <2> QED  BY <1>1, <1>4, <1>5, <2>2, <2>3, <2>4, RefsKept
<1>7. CASE StoreWait \/ StrayWait \/ RemoveWait
  <2> DEFINE Two == [pc : TaskPc, p : Port, s : Server]
  <2>1. /\ m \in Two /\ m.pc \in {"store", "stray", "remove"} /\ sem > 0 /\ sem' = sem - 1
        /\ m' \in Two /\ m'.p = m.p /\ m'.s = m.s /\ m.p \in Port
        /\ m'.pc = IF m.pc = "store" THEN "alloc"
                   ELSE IF m.pc = "stray" THEN "leak" ELSE "find"
        /\ UNCHANGED <<node, gw>>
    BY <1>7, MainShape DEF StoreWait, StrayWait, RemoveWait, tables, TaskPc
  <2> HIDE DEF Two
  <2>2. TypeInv'
    BY <1>1, <2>1 DEF TypeInv, MainState, Two
  <2>3. \A t : ~Ahead(t)' /\ ~Behind(t)'  BY <2>1 DEF Ahead, Behind
  <2>4. LockInv'
    <3>1. sem = 1 /\ ~RecvHolds /\ ~RecvHolds'
      BY <1>1, <2>1 DEF LockInv, RecvHolds
    <3> QED  BY <2>1, <3>1 DEF LockInv, MainHolds
  <2>5. NodeInv'  BY <1>1, <2>1 DEF NodeInv
  <2>6. WorkInv'
    <3>1. m.pc = "store" => m.s \notin Range(view[m.p]) /\ Len(view[m.p]) < MaxServers
      BY DEF WorkInv, WorkAt
    <3> QED  BY <1>1, <1>3, <2>1, <3>1 DEF WorkInv, WorkAt
  <2> QED  BY <1>1, <1>4, <1>5, <2>2, <2>3, <2>4, <2>5, <2>6, RefsKept
<1>8. ASSUME NEW p \in Port, BeginInsert(p) \/ WriteGateway(p)  PROVE IInv'
  <2>1. m' = MainIdle \/ m' = [pc |-> "insert", p |-> p]
    BY <1>8 DEF BeginInsert, WriteGateway
  <2>2. m' \in MainState /\ m'.pc \in {"idle", "insert"} /\ UNCHANGED <<sem, node>>
    BY <1>8, <2>1 DEF BeginInsert, WriteGateway, MainState, MainIdle, tables
  <2>3. gw' \in [Port -> Gateway \cup {Null}] /\ \A o \in Port \ node : gw'[o] = gw[o]
    <3>1. CASE BeginInsert(p)  BY <3>1 DEF BeginInsert, tables, TypeInv
    <3>2. CASE WriteGateway(p)
      <4>1. PICK g \in Gateway \cup {Null} : gw' = [gw EXCEPT ![p] = g] /\ p \in node
        BY <3>2 DEF WriteGateway
      <4> QED  BY <4>1 DEF TypeInv
    <3> QED  BY <1>8, <3>1, <3>2
  <2>4. TypeInv'  BY <1>1, <2>2, <2>3 DEF TypeInv
  <2>5. \A t : ~Ahead(t)' /\ ~Behind(t)'  BY <2>2 DEF Ahead, Behind
  <2>6. LockInv'  BY <1>1, <1>2, <2>2 DEF LockInv, MainHolds, RecvHolds
  <2>7. NodeInv'  BY <1>1, <2>2, <2>3 DEF NodeInv
  <2>8. WorkInv'  BY <2>2 DEF WorkInv
  <2> QED  BY <1>1, <1>4, <1>5, <2>4, <2>5, <2>6, <2>7, <2>8, RefsKept
<1>9. ASSUME NEW p \in Port, NEW s \in Server,
             BeginStore(p, s) \/ BeginRemove(p, s) \/ BeginStray(p, s)
      PROVE  IInv'
  <2>1. PICK pc \in {"store", "remove", "stray"} :
          /\ m' = [pc |-> pc, p |-> p, s |-> s]
          /\ UNCHANGED <<sem, node, gw>>
          /\ pc = "store" => p \in node /\ ~Holds(p, s) /\ count[p] < MaxServers
    BY <1>9 DEF BeginStore, BeginRemove, BeginStray, tables
  <2>2. m' \in MainState /\ m'.pc = pc /\ m'.p = p /\ m'.s = s
    BY <2>1 DEF MainState, TaskPc
  <2>3. TypeInv'  BY <1>1, <2>1, <2>2 DEF TypeInv
  <2>4. \A t : ~Ahead(t)' /\ ~Behind(t)'  BY <2>2 DEF Ahead, Behind
  <2>5. LockInv'  BY <1>1, <1>2, <2>1, <2>2 DEF LockInv, MainHolds, RecvHolds
  <2>6. NodeInv'  BY <1>1, <2>1, <2>2 DEF NodeInv
  <2>7. pc = "store" => s \notin Range(view[p]) /\ Len(view[p]) < MaxServers
    <3>1. Users(s) = Uses(s)  BY <1>2, UsersAreUses
    <3>2. Holds(p, s) <=> s \in Range(view[p])  BY <3>1 DEF Users, Uses
    <3>3. count[p] = Len(view[p])  BY <1>3 DEF Settled, Shows
    <3> QED  BY <2>1, <3>2, <3>3
  <2>8. WorkInv'  BY <1>1, <2>1, <2>2, <2>7 DEF WorkInv, WorkAt
  <2> QED  BY <1>1, <1>4, <1>5, <2>3, <2>4, <2>5, <2>6, <2>8, RefsKept
<1> QED  BY <1>6, <1>7, <1>8, <1>9

\* A step on the main thread's own array while it holds the lock.
LEMMA OwnStep ==
  ASSUME IInv, MainHolds, m'.pc \in {"slot", "count", "dec", "push", "clear", "free", "post"},
         m'.p = m.p, UNCHANGED <<sem, view, r>>,
         \A p \in Port \ {m.p} : array'[p] = array[p] /\ count'[p] = count[p],
         TypeInv', NodeInv', WorkInv', RefsInv'
  PROVE  IInv'
<1> USE DEF IInv, MainInv
<1>1. MainHolds' /\ ~RecvHolds /\ ~RecvHolds'
  BY DEF MainHolds, LockInv, RecvHolds
<1>2. LockInv'  BY <1>1 DEF LockInv
<1>3. RecvInv'  BY <1>1 DEF RecvInv, RecvHolds
<1>4. ViewInv'  BY DEF ViewInv
<1>5. RestInv'
  <2> SUFFICES ASSUME NEW p \in Port, p # m.p  PROVE Settled(p, view[p])'
    BY <1>1 DEF RestInv
  <2>1. Settled(p, view[p])  BY DEF RestInv
  <2> QED  BY <2>1 DEF Settled, Shows
<1> QED  BY <1>2, <1>3, <1>4, <1>5

\* udpfwd_store_address takes a reference, and an array if there is none.
LEMMA AllocStep ==
  ASSUME IInv, Alloc
  PROVE  IInv'
<1> DEFINE p == m.p
           s == m.s
           q == view[m.p]
           Two == [pc : TaskPc, p : Port, s : Server]
<1>1. /\ m \in Two /\ p \in Port /\ s \in Server /\ m.pc = "alloc"
      /\ m' = [m EXCEPT !.pc = "slot"] /\ UNCHANGED <<sem, node, gw, leaked, view, r>>
  BY MainShape DEF Alloc, IInv
<1>2. m' \in Two /\ m'.pc = "slot" /\ m'.p = p /\ m'.s = s  BY <1>1 DEF TaskPc
<1>3. /\ array \in [Port -> [Slots -> Server \cup {Null}] \cup {Null}]
      /\ count \in [Port -> 0 .. MaxServers] /\ refs \in [Server -> Nat]
      /\ q \in Seq(Server)
  BY <1>1 DEF IInv, TypeInv
<1>4. s \notin Range(q) /\ Len(q) < MaxServers /\ Settled(p, q)
  BY <1>1 DEF IInv, MainInv, WorkInv, WorkAt
<1>5. /\ array' \in [Port -> [Slots -> Server \cup {Null}] \cup {Null}]
      /\ array'[p] \in [Slots -> Server \cup {Null}]
      /\ array[p] # Null => array' = array
      /\ \A o \in Port \ {p} : array'[o] = array[o]
  BY <1>1, <1>3 DEF Alloc
<1>6. count' = count
  BY <1>1, <1>3, <1>4 DEF Alloc, Settled
<1>7. refs' = [refs EXCEPT ![s] = refs[s] + 1]
  BY DEF Alloc
<1> HIDE DEF Two
<1>8. TypeInv'
  <2>1. m' \in MainState  BY <1>2 DEF MainState, Two
  <2>2. refs' \in [Server -> Nat]  BY <1>1, <1>3, <1>7
  <2> QED  BY <1>1, <1>3, <1>5, <1>6, <2>1, <2>2 DEF IInv, TypeInv
<1>9. NodeInv'
  BY <1>1, <1>2, <1>6 DEF IInv, MainInv, NodeInv
<1>10. WorkInv'
  <2>1. Shows(p, q)'
    <3>1. CASE Len(q) = 0  BY <1>1, <1>4, <1>6, <3>1 DEF Settled, Shows
    <3>2. CASE Len(q) # 0
      <4>1. array' = array  BY <1>3, <1>4, <1>5, <3>2 DEF Settled, Shows
      <4> QED  BY <1>1, <1>4, <1>6, <4>1 DEF Settled, Shows
    <3> QED  BY <3>1, <3>2
  <2>2. array'[p] # Null  BY <1>5, NullApart
  <2> QED  BY <1>1, <1>2, <1>4, <2>1, <2>2 DEF WorkInv, WorkAt
<1>11. RefsInv'
  <2> SUFFICES ASSUME NEW t \in Server
               PROVE  refs'[t] = Cardinality(Uses(t)') + leaked'[t] +
                        (IF Ahead(t)' THEN 1 ELSE IF Behind(t)' THEN -1 ELSE 0)
    BY DEF RefsInv
  <2>1. Uses(t)' = Uses(t)  BY <1>1 DEF Uses
  <2>2. ~Ahead(t) /\ ~Behind(t) /\ (Ahead(t)' <=> t = s) /\ ~Behind(t)'
    BY <1>1, <1>2 DEF Ahead, Behind
  <2>3. /\ refs[t] = Cardinality(Uses(t)) + leaked[t] /\ Cardinality(Uses(t)) \in Nat
        /\ leaked[t] \in Nat
    BY <2>2, UsesFinite DEF IInv, MainInv, RefsInv, TypeInv
  <2>4. refs'[t] = IF t = s THEN refs[t] + 1 ELSE refs[t]  BY <1>3, <1>7
  <2> QED  BY <1>1, <2>1, <2>2, <2>3, <2>4
<1> QED
  <2>1. MainHolds  BY <1>1 DEF MainHolds
  <2> QED  BY <1>1, <1>2, <1>5, <1>6, <1>8, <1>9, <1>10, <1>11, <2>1, OwnStep

\* The new reference is written behind the counted ones.
LEMMA SetSlotStep ==
  ASSUME IInv, SetSlot
  PROVE  IInv'
<1> DEFINE p == m.p
           s == m.s
           q == view[m.p]
           Two == [pc : TaskPc, p : Port, s : Server]
<1>1. /\ m \in Two /\ p \in Port /\ s \in Server /\ m.pc = "slot"
      /\ m' = [m EXCEPT !.pc = "count"] /\ UNCHANGED <<sem, node, gw, count, refs, leaked, view, r>>
  BY MainShape DEF SetSlot, IInv
<1>2. m' \in Two /\ m'.pc = "count" /\ m'.p = p /\ m'.s = s  BY <1>1 DEF TaskPc
<1>3. /\ array \in [Port -> [Slots -> Server \cup {Null}] \cup {Null}]
      /\ q \in Seq(Server)
  BY <1>1 DEF IInv, TypeInv
<1>4. s \notin Range(q) /\ Len(q) < MaxServers /\ Shows(p, q) /\ array[p] # Null
  BY <1>1 DEF IInv, MainInv, WorkInv, WorkAt
<1>5. array[p] \in [Slots -> Server \cup {Null}] /\ Len(q) + 1 \in Slots /\ Len(q) \in Nat
  BY <1>1, <1>3, <1>4, NullApart DEF Slots
<1>6. array' = [array EXCEPT ![p] = [array[p] EXCEPT ![Len(q) + 1] = s]]
  BY <1>4 DEF SetSlot, Shows
<1>7. /\ array' \in [Port -> [Slots -> Server \cup {Null}] \cup {Null}]
      /\ array'[p] \in [Slots -> Server \cup {Null}]
      /\ array'[p][Len(q) + 1] = s
      /\ \A k \in 1 .. Len(q) : array'[p][k] = array[p][k]
      /\ \A o \in Port \ {p} : array'[o] = array[o]
  <2> DEFINE new == [array[p] EXCEPT ![Len(q) + 1] = s]
  <2>1. new \in [Slots -> Server \cup {Null}]  BY <1>1, <1>5
  <2>2. new[Len(q) + 1] = s  BY <1>5
  <2>3. \A k \in 1 .. Len(q) : new[k] = array[p][k]
    <3> HIDE DEF q
    <3>1. \A k \in 1 .. Len(q) : k \in Slots /\ k # Len(q) + 1
      BY <1>4, <1>5, NullApart DEF Slots
    <3> QED  BY <1>5, <3>1
  <2> HIDE DEF new
  <2>4. array' = [array EXCEPT ![p] = new]  BY <1>6 DEF new
  <2> QED  BY <1>1, <1>3, <2>1, <2>2, <2>3, <2>4
<1> HIDE DEF Two
<1>8. TypeInv'
  <2>1. m' \in MainState  BY <1>2 DEF MainState, Two
  <2> QED  BY <1>1, <1>7, <2>1 DEF IInv, TypeInv
<1>9. NodeInv'
  BY <1>1, <1>2 DEF IInv, MainInv, NodeInv
<1>10. WorkInv'
  <2>1. Shows(p, q)'  BY <1>1, <1>4, <1>7 DEF Shows
  <2>2. array'[p] # Null  BY <1>7, NullApart
  <2> QED  BY <1>1, <1>2, <1>4, <1>7, <2>1, <2>2 DEF WorkInv, WorkAt
<1>11. RefsInv'
  BY <1>1, <1>2, RefsKept DEF Ahead, Behind, IInv, MainInv
<1> QED
  <2>1. MainHolds  BY <1>1 DEF MainHolds
  <2> QED  BY <1>1, <1>2, <1>7, <1>8, <1>9, <1>10, <1>11, <2>1, OwnStep

\* addrCount takes in the new reference.
LEMMA IncCountStep ==
  ASSUME IInv, IncCount
  PROVE  IInv'
<1> DEFINE p == m.p
           s == m.s
           q == view[m.p]
           Two == [pc : TaskPc, p : Port, s : Server]
<1>1. /\ m \in Two /\ p \in Port /\ s \in Server /\ m.pc = "count"
      /\ m' = [m EXCEPT !.pc = "post"] /\ UNCHANGED <<sem, node, gw, array, refs, leaked, view, r>>
  BY MainShape DEF IncCount, IInv
<1>2. m' \in Two /\ m'.pc = "post" /\ m'.p = p /\ m'.s = s  BY <1>1 DEF TaskPc
<1>3. q \in Seq(Server) /\ Len(q) \in Nat /\ count \in [Port -> 0 .. MaxServers]
  BY <1>1 DEF IInv, TypeInv
<1>4. /\ s \notin Range(q) /\ Len(q) < MaxServers /\ Shows(p, q) /\ array[p] # Null
      /\ array[p][Len(q) + 1] = s
  BY <1>1 DEF IInv, MainInv, WorkInv, WorkAt
<1>5. count' = [count EXCEPT ![p] = Len(q) + 1]
  BY <1>4 DEF IncCount, Shows
<1>6. count'[p] = Len(q) + 1 /\ \A o \in Port \ {p} : count'[o] = count[o]
  BY <1>1, <1>3, <1>5
<1> HIDE DEF Two
<1>7. TypeInv'
  <2>1. m' \in MainState  BY <1>2 DEF MainState, Two
  <2>2. count' \in [Port -> 0 .. MaxServers]
    <3>1. Len(q) + 1 \in 0 .. MaxServers  BY <1>3, <1>4, NullApart
    <3> QED  BY <1>1, <1>3, <1>5, <3>1
  <2> QED  BY <1>1, <2>1, <2>2 DEF IInv, TypeInv
<1>8. NodeInv'
  <2>1. p \in node  BY <1>1 DEF IInv, MainInv, NodeInv
  <2> QED  BY <1>1, <1>2, <1>6, <2>1 DEF IInv, MainInv, NodeInv
<1>9. Stored(p, q, s)'
  <2> DEFINE a == Append(q, s)
  <2>1. Len(a) = Len(q) + 1 /\ a[Len(q) + 1] = s /\ \A k \in 1 .. Len(q) : a[k] = q[k]
    BY <1>1, <1>3
  <2> HIDE DEF a
  <2>2. \A k \in 1 .. Len(a) : array'[p][k] = a[k]
    <3>1. \A k \in 1 .. Len(a) : k \in 1 .. Len(q) \/ k = Len(q) + 1  BY <1>3, <2>1
    <3> QED  BY <1>1, <1>4, <2>1, <3>1 DEF Shows
  <2>3. Shows(p, a)'  BY <1>1, <1>6, <2>1, <2>2 DEF Shows, a
  <2>4. array'[p] # Null /\ count'[p] # 0  BY <1>1, <1>3, <1>4, <1>6
  <2> QED  BY <1>1, <1>4, <2>3, <2>4 DEF Stored, Settled, a
<1>10. WorkInv'
  BY <1>1, <1>2, <1>9 DEF WorkInv, WorkAt
<1>11. RefsInv'
  <2>1. Len(view[p]') = Len(q) /\ count'[p] > Len(q) /\ ~(count'[p] < Len(q))
    BY <1>1, <1>3, <1>6
  <2>2. \A t \in Server : (Ahead(t)' <=> Ahead(t)) /\ (Behind(t)' <=> Behind(t))
    BY <1>1, <1>2, <2>1 DEF Ahead, Behind
  <2> QED  BY <1>1, <2>2, RefsKept DEF IInv, MainInv
<1> QED
  <2>1. MainHolds  BY <1>1 DEF MainHolds
  <2> QED  BY <1>1, <1>2, <1>6, <1>7, <1>8, <1>10, <1>11, <2>1, OwnStep

\* A reference is taken for a slot of a freed node.
LEMMA LeakStep ==
  ASSUME IInv, Leak
  PROVE  IInv'
<1> DEFINE p == m.p
           s == m.s
           q == view[m.p]
           Two == [pc : TaskPc, p : Port, s : Server]
<1>1. /\ m \in Two /\ p \in Port /\ s \in Server /\ m.pc = "leak"
      /\ m' = [m EXCEPT !.pc = "post"]
      /\ UNCHANGED <<sem, node, gw, array, count, view, r>>
  BY MainShape DEF Leak, IInv
<1>2. m' \in Two /\ m'.pc = "post" /\ m'.p = p /\ m'.s = s  BY <1>1 DEF TaskPc
<1>3. Settled(p, q)
  BY <1>1 DEF IInv, MainInv, WorkInv, WorkAt
<1>4. /\ refs' = [refs EXCEPT ![s] = refs[s] + 1] /\ refs \in [Server -> Nat]
      /\ leaked' = [leaked EXCEPT ![s] = leaked[s] + 1] /\ leaked \in [Server -> Nat]
  BY DEF Leak, IInv, TypeInv
<1> HIDE DEF Two
<1>5. TypeInv'
  <2>1. m' \in MainState  BY <1>2 DEF MainState, Two
  <2>2. refs' \in [Server -> Nat] /\ leaked' \in [Server -> Nat]  BY <1>1, <1>4
  <2> QED  BY <1>1, <2>1, <2>2 DEF IInv, TypeInv
<1>6. NodeInv'  BY <1>1, <1>2 DEF IInv, MainInv, NodeInv
<1>7. WorkInv'
  <2>1. Settled(p, q)'  BY <1>1, <1>3 DEF Settled, Shows
  <2> QED  BY <1>1, <1>2, <2>1 DEF WorkInv, WorkAt
<1>8. RefsInv'
  <2> SUFFICES ASSUME NEW t \in Server
               PROVE  refs'[t] = Cardinality(Uses(t)') + leaked'[t] +
                        (IF Ahead(t)' THEN 1 ELSE IF Behind(t)' THEN -1 ELSE 0)
    BY DEF RefsInv
  <2>1. Uses(t)' = Uses(t)  BY <1>1 DEF Uses
  <2>2. count[p] = Len(q) /\ Len(q) \in Nat
    BY <1>1, <1>3 DEF Settled, Shows, IInv, TypeInv
  <2>3. ~Ahead(t) /\ ~Behind(t) /\ ~Ahead(t)' /\ ~Behind(t)'
    BY <1>1, <1>2, <2>2 DEF Ahead, Behind
  <2>4. refs[t] = Cardinality(Uses(t)) + leaked[t] /\ Cardinality(Uses(t)) \in Nat
    BY <1>4, <2>3, UsesFinite DEF IInv, MainInv, RefsInv
  <2>5. /\ refs'[t] = IF t = s THEN refs[t] + 1 ELSE refs[t]
        /\ leaked'[t] = IF t = s THEN leaked[t] + 1 ELSE leaked[t]
    BY <1>1, <1>4
  <2> QED  BY <1>4, <2>1, <2>3, <2>4, <2>5
<1> QED
  <2>1. MainHolds  BY <1>1 DEF MainHolds
  <2> QED  BY <1>1, <1>2, <1>5, <1>6, <1>7, <1>8, <2>1, OwnStep

\* udpfwd_remove_address finds no such server.
LEMMA NotFoundStep ==
  ASSUME IInv, NotFound
  PROVE  IInv'
<1> DEFINE p == m.p
           s == m.s
           q == view[m.p]
           Two == [pc : TaskPc, p : Port, s : Server]
<1>1. /\ m \in Two /\ p \in Port /\ s \in Server /\ m.pc = "find"
      /\ m' = [m EXCEPT !.pc = "post"]
      /\ UNCHANGED <<sem, node, gw, array, count, refs, leaked, view, r>>
  BY MainShape DEF NotFound, IInv, tables
<1>2. m' \in Two /\ m'.pc = "post" /\ m'.p = p /\ m'.s = s  BY <1>1 DEF TaskPc
<1>3. Settled(p, q)
  BY <1>1 DEF IInv, MainInv, WorkInv, WorkAt
<1> HIDE DEF Two
<1>4. TypeInv'
  <2>1. m' \in MainState  BY <1>2 DEF MainState, Two
  <2> QED  BY <1>1, <2>1 DEF IInv, TypeInv
<1>5. NodeInv'  BY <1>1, <1>2 DEF IInv, MainInv, NodeInv
<1>6. WorkInv'
  <2>1. Settled(p, q)'  BY <1>1, <1>3 DEF Settled, Shows
  <2> QED  BY <1>1, <1>2, <2>1 DEF WorkInv, WorkAt
<1>7. RefsInv'
  <2>1. count[p] = Len(q) /\ Len(q) \in Nat
    BY <1>1, <1>3 DEF Settled, Shows, IInv, TypeInv
  <2>2. \A t \in Server : (Ahead(t)' <=> Ahead(t)) /\ (Behind(t)' <=> Behind(t))
    BY <1>1, <1>2, <2>1 DEF Ahead, Behind
  <2> QED  BY <1>1, <2>2, RefsKept DEF IInv, MainInv
<1> QED
  <2>1. MainHolds  BY <1>1 DEF MainHolds
  <2> QED  BY <1>1, <1>2, <1>4, <1>5, <1>6, <1>7, <2>1, OwnStep

\* The entry of the server in the first slot that has it loses a reference.
LEMMA UnrefStep ==
  ASSUME IInv, Unref
  PROVE  IInv'
<1> DEFINE p == m.p
           s == m.s
           q == view[m.p]
<1>1. /\ p \in Port /\ s \in Server /\ m.pc = "find"
      /\ UNCHANGED <<sem, node, gw, array, count, leaked, view, r>>
  BY MainShape DEF Unref, IInv
<1>2. q \in Seq(Server) /\ Len(q) \in Nat /\ refs \in [Server -> Nat]
  BY <1>1 DEF IInv, TypeInv
<1>3. Settled(p, q) /\ Len(q) <= MaxServers
  BY <1>1 DEF IInv, MainInv, WorkInv, WorkAt, ViewInv
<1>4. PICK i \in 1 .. Len(q) : q[i] = s /\ m' = [pc |-> "clear", p |-> p, s |-> s, i |-> i]
  BY <1>3 DEF Unref, Settled, Shows
<1>5. m'.pc = "clear" /\ m'.p = p /\ m'.s = s /\ m'.i = i /\ i \in Slots
  BY <1>2, <1>3, <1>4, NullApart DEF Slots
<1>6. refs' = [refs EXCEPT ![s] = refs[s] - 1]
  BY DEF Unref
<1>7. \A t \in Server : /\ refs[t] = Cardinality(Uses(t)) + leaked[t]
                          /\ Cardinality(Uses(t)) \in Nat /\ leaked[t] \in Nat
  BY <1>1, UsesFinite DEF IInv, MainInv, RefsInv, Ahead, Behind, TypeInv
<1>8. refs[s] > 0
  <2>1. p \in Uses(s)  BY <1>1, <1>2, <1>4 DEF Uses, Range
  <2> QED  BY <1>1, <1>7, <2>1, UsesFinite
<1>9. TypeInv'
  <2>1. m' \in MainState  BY <1>1, <1>4, <1>5 DEF MainState
  <2>2. refs' \in [Server -> Nat]  BY <1>1, <1>2, <1>6, <1>8
  <2> QED  BY <1>1, <2>1, <2>2 DEF IInv, TypeInv
<1>10. NodeInv'  BY <1>1, <1>5 DEF IInv, MainInv, NodeInv
<1>11. WorkInv'
  <2>1. Settled(p, q)'  BY <1>1, <1>3, <1>5 DEF Settled, Shows
  <2> QED  BY <1>1, <1>4, <1>5, <2>1 DEF WorkInv, WorkAt
<1>12. RefsInv'
  <2> SUFFICES ASSUME NEW t \in Server
               PROVE  refs'[t] = Cardinality(Uses(t)') + leaked'[t] +
                        (IF Ahead(t)' THEN 1 ELSE IF Behind(t)' THEN -1 ELSE 0)
    BY DEF RefsInv
  <2>1. Uses(t)' = Uses(t)  BY <1>1 DEF Uses
  <2>2. ~Ahead(t)' /\ (Behind(t)' <=> t = s)  BY <1>5 DEF Ahead, Behind
  <2>3. refs'[t] = IF t = s THEN refs[t] - 1 ELSE refs[t]  BY <1>2, <1>6
  <2> QED  BY <1>1, <1>7, <2>1, <2>2, <2>3
<1> QED
  <2>1. MainHolds  BY <1>1 DEF MainHolds
  <2> QED  BY <1>1, <1>5, <1>9, <1>10, <1>11, <1>12, <2>1, OwnStep

\* The slot of the removed server is set to NULL.
LEMMA ClearStep ==
  ASSUME IInv, Clear
  PROVE  IInv'
<1> DEFINE p == m.p
           s == m.s
           i == m.i
           q == view[m.p]
           Three == [pc : {"clear", "dec", "push", "free", "post"}, p : Port, s : Server,
                     i : Slots]
<1>1. /\ m \in Three /\ p \in Port /\ s \in Server /\ i \in Slots /\ m.pc = "clear"
      /\ m' = [m EXCEPT !.pc = "dec"] /\ UNCHANGED <<sem, node, gw, count, refs, leaked, view, r>>
  BY MainShape DEF Clear, IInv
<1>2. m' \in Three /\ m'.pc = "dec" /\ m'.p = p /\ m'.s = s /\ m'.i = i  BY <1>1
<1>3. /\ array \in [Port -> [Slots -> Server \cup {Null}] \cup {Null}]
      /\ q \in Seq(Server) /\ Len(q) \in Nat
  BY <1>1 DEF IInv, TypeInv
<1>4. Settled(p, q) /\ i \in 1 .. Len(q) /\ q[i] = s /\ Len(q) <= MaxServers
  BY <1>1 DEF IInv, MainInv, WorkInv, WorkAt, ViewInv
<1>5. array[p] \in [Slots -> Server \cup {Null}]
  BY <1>1, <1>3, <1>4 DEF Settled, Shows
<1>6. array' = [array EXCEPT ![p] = [array[p] EXCEPT ![i] = Null]]
  BY DEF Clear
<1>7. /\ array' \in [Port -> [Slots -> Server \cup {Null}] \cup {Null}]
      /\ array'[p] \in [Slots -> Server \cup {Null}]
      /\ array'[p][i] = Null
      /\ \A k \in 1 .. Len(q) : k # i => array'[p][k] = array[p][k]
      /\ \A o \in Port \ {p} : array'[o] = array[o]
  <2> DEFINE new == [array[p] EXCEPT ![i] = Null]
  <2>1. new \in [Slots -> Server \cup {Null}]  BY <1>1, <1>5
  <2>2. new[i] = Null  BY <1>1, <1>5
  <2>3. \A k \in 1 .. Len(q) : k # i => new[k] = array[p][k]
    <3> HIDE DEF q
    <3>1. \A k \in 1 .. Len(q) : k \in Slots  BY <1>3, <1>4, NullApart DEF Slots
    <3> QED  BY <1>5, <3>1
  <2> HIDE DEF new
  <2>4. array' = [array EXCEPT ![p] = new]  BY <1>6 DEF new
  <2> QED  BY <1>1, <1>3, <2>1, <2>2, <2>3, <2>4
<1> HIDE DEF Three
<1>8. TypeInv'
  <2>1. m' \in MainState  BY <1>2 DEF MainState, Three
  <2> QED  BY <1>1, <1>7, <2>1 DEF IInv, TypeInv
<1>9. NodeInv'  BY <1>1, <1>2 DEF IInv, MainInv, NodeInv
<1>10. WorkInv'
  <2>1. array'[p] # Null  BY <1>7, NullApart
  <2>2. Hole(p, q, s, i)'
    BY <1>1, <1>4, <1>7, <2>1 DEF Hole, Settled, Shows
  <2>3. count'[p] = Len(q)  BY <1>1, <1>4 DEF Settled, Shows
  <2> QED  BY <1>1, <1>2, <2>2, <2>3 DEF WorkInv, WorkAt
<1>11. RefsInv'
  BY <1>1, <1>2, RefsKept DEF Ahead, Behind, IInv, MainInv
<1> QED
  <2>1. MainHolds  BY <1>1 DEF MainHolds
  <2> QED  BY <1>1, <1>2, <1>7, <1>8, <1>9, <1>10, <1>11, <2>1, OwnStep

\* What the removal is doing, at the places where it has the slot.
LEMMA DropShape ==
  ASSUME IInv, m.pc \in {"dec", "push", "free"}
  PROVE  /\ m \in [pc : {"clear", "dec", "push", "free", "post"}, p : Port, s : Server,
                   i : Slots]
         /\ m.p \in Port /\ m.s \in Server /\ MainHolds
         /\ view[m.p] \in Seq(Server) /\ Distinct(view[m.p]) /\ Len(view[m.p]) <= MaxServers
         /\ m.i \in 1 .. Len(view[m.p]) /\ view[m.p][m.i] = m.s
         /\ Len(view[m.p]) \in Nat /\ Len(view[m.p]) > 0
<1>1. /\ m \in [pc : {"clear", "dec", "push", "free", "post"}, p : Port, s : Server,
                i : Slots]
      /\ m.p \in Port /\ m.s \in Server /\ MainHolds
  BY MainShape DEF IInv, MainHolds
<1>2. view[m.p] \in Seq(Server) /\ Distinct(view[m.p]) /\ Len(view[m.p]) <= MaxServers
  BY <1>1 DEF IInv, TypeInv, MainInv, ViewInv
<1>3. m.i \in 1 .. Len(view[m.p]) /\ view[m.p][m.i] = m.s
  BY DEF IInv, MainInv, WorkInv, WorkAt, Hole
<1> QED  BY <1>1, <1>2, <1>3

\* addrCount drops the last slot.
LEMMA DecCountStep ==
  ASSUME IInv, DecCount
  PROVE  IInv'
<1> DEFINE p == m.p
           s == m.s
           i == m.i
           q == view[m.p]
           Three == [pc : {"clear", "dec", "push", "free", "post"}, p : Port, s : Server,
                     i : Slots]
<1>1. /\ m.pc = "dec" /\ UNCHANGED <<sem, node, gw, array, refs, leaked, view, r>>
      /\ m' = [m EXCEPT !.pc = IF i = 1 /\ count[p] = 1 THEN "free" ELSE "push"]
      /\ count' = [count EXCEPT ![p] = count[p] - 1]
  BY DEF DecCount
<1>2. /\ m \in Three /\ p \in Port /\ s \in Server /\ MainHolds
      /\ q \in Seq(Server) /\ Distinct(q) /\ Len(q) <= MaxServers
      /\ i \in 1 .. Len(q) /\ q[i] = s /\ Len(q) \in Nat /\ Len(q) > 0
  BY <1>1, DropShape
<1>3. Hole(p, q, s, i) /\ count[p] = Len(q) /\ count \in [Port -> 0 .. MaxServers]
  BY <1>1 DEF IInv, MainInv, WorkInv, WorkAt, TypeInv
<1>4. count'[p] = Len(q) - 1 /\ \A o \in Port \ {p} : count'[o] = count[o]
  BY <1>1, <1>2, <1>3
<1>5. /\ m' \in Three /\ m'.p = p /\ m'.s = s /\ m'.i = i
      /\ m'.pc = IF Len(q) = 1 THEN "free" ELSE "push"
  <2>1. i = 1 /\ count[p] = 1 <=> Len(q) = 1  BY <1>2, <1>3
  <2> QED  BY <1>1, <1>2, <2>1
<1> HIDE DEF Three
<1>6. TypeInv'
  <2>1. m' \in MainState  BY <1>5 DEF MainState, Three
  <2>2. count' \in [Port -> 0 .. MaxServers]
    <3>1. count[p] - 1 \in 0 .. MaxServers  BY <1>2, <1>3, NullApart
    <3> QED  BY <1>1, <1>2, <1>3, <3>1
  <2> QED  BY <1>1, <2>1, <2>2 DEF IInv, TypeInv
<1>7. NodeInv'
  <2>1. p \in node  BY <1>2, <1>3 DEF IInv, MainInv, NodeInv
  <2> QED  BY <1>1, <1>4, <1>5, <2>1 DEF IInv, MainInv, NodeInv
<1>8. WorkInv'
  <2>1. CASE Len(q) = 1
    <3>1. Len(DropSlot(q, i)) = 0  BY <1>2, <2>1, DropSlotProperties
    <3>2. Shows(p, DropSlot(q, i))'  BY <1>1, <1>2, <1>4, <1>5, <2>1, <3>1 DEF Shows
    <3>3. array'[p] # Null /\ array'[p][1] = Null
      BY <1>1, <1>2, <1>3, <2>1 DEF Hole
    <3> QED  BY <1>1, <1>2, <1>5, <2>1, <3>2, <3>3 DEF WorkInv, WorkAt
  <2>2. CASE Len(q) # 1
    <3>1. Hole(p, q, s, i)'  BY <1>1, <1>3, <1>5 DEF Hole
    <3>2. Len(q) > 1
      <4>1. Len(q) \in Nat /\ Len(q) > 0  BY <1>2
      <4>2. \A j \in Nat : j > 0 /\ j # 1 => j > 1  OBVIOUS
      <4> QED  BY <2>2, <4>1, <4>2
    <3>3. count'[p] = Len(q) - 1  BY <1>4
    <3> QED  BY <1>1, <1>5, <2>2, <3>1, <3>2, <3>3 DEF WorkInv, WorkAt
  <2> QED  BY <2>1, <2>2
<1>9. RefsInv'
  BY <1>1, <1>5, RefsKept DEF Ahead, Behind, IInv, MainInv
<1> QED  BY <1>1, <1>2, <1>4, <1>5, <1>6, <1>7, <1>8, <1>9, OwnStep

\* The last reference moves into the hole.
LEMMA PushStep ==
  ASSUME IInv, Push
  PROVE  IInv'
<1> DEFINE p == m.p
           s == m.s
           i == m.i
           q == view[m.p]
           n == Len(view[m.p])
           d == DropSlot(view[m.p], m.i)
           Three == [pc : {"clear", "dec", "push", "free", "post"}, p : Port, s : Server,
                     i : Slots]
<1>1. /\ m.pc = "push" /\ UNCHANGED <<sem, node, gw, count, refs, leaked, view, r>>
      /\ m' = [m EXCEPT !.pc = "free"]
  BY DEF Push
<1>2. /\ m \in Three /\ p \in Port /\ s \in Server /\ MainHolds
      /\ q \in Seq(Server) /\ Distinct(q) /\ n <= MaxServers
      /\ i \in 1 .. n /\ q[i] = s /\ n \in Nat /\ n > 0
  BY <1>1, DropShape
<1>3. /\ Hole(p, q, s, i) /\ count[p] = n - 1 /\ n > 1
      /\ array \in [Port -> [Slots -> Server \cup {Null}] \cup {Null}]
  BY <1>1 DEF IInv, MainInv, WorkInv, WorkAt, TypeInv
<1>4. m' \in Three /\ m'.pc = "free" /\ m'.p = p /\ m'.s = s /\ m'.i = i
  BY <1>1, <1>2
<1>5. /\ array[p] \in [Slots -> Server \cup {Null}] /\ n \in Slots /\ i \in Slots
      /\ \A k \in 1 .. n : k \in Slots
  <2>1. array[p] \in [Slots -> Server \cup {Null}]  BY <1>2, <1>3 DEF Hole
  <2> HIDE DEF n
  <2> QED  BY <1>2, <2>1, NullApart DEF Slots
<1> DEFINE new == [array[p] EXCEPT ![n] = Null, ![i] = array[p][n]]
<1>6. array' = [array EXCEPT ![p] = new]
  <2>1. count[p] + 1 = n  BY <1>2, <1>3
  <2> QED  BY <2>1 DEF Push
<1>7. /\ new \in [Slots -> Server \cup {Null}]
      /\ \A k \in 1 .. n - 1 : new[k] = IF k = i THEN array[p][n] ELSE array[p][k]
  <2>1. array[p][n] \in Server \cup {Null}  BY <1>5
  <2>2. \A k \in 1 .. n - 1 : k \in Slots /\ k # n
    <3> HIDE DEF n
    <3> QED  BY <1>2, <1>5
  <2> HIDE DEF n
  <2> QED  BY <1>5, <2>1, <2>2
<1>8. d \in Seq(Server) /\ Len(d) = n - 1
      /\ \A k \in 1 .. n - 1 : d[k] = IF k = i THEN q[n] ELSE q[k]
  <2>1. d \in Seq(Server) /\ Len(d) = n - 1  BY <1>2, DropSlotProperties
  <2> QED  BY <2>1 DEF DropSlot
<1>9. \A k \in 1 .. n - 1 : new[k] = d[k]
  <2> SUFFICES ASSUME NEW k \in 1 .. n - 1  PROVE new[k] = d[k]
    OBVIOUS
  <2> HIDE DEF new, d, n
  <2>1. k \in 1 .. n /\ n \in 1 .. n /\ k # n  BY <1>2
  <2>2. \A j \in 1 .. n : j # i => array[p][j] = q[j]  BY <1>3 DEF Hole, n
  <2>3. CASE k = i  BY <1>7, <1>8, <2>1, <2>2, <2>3
  <2>4. CASE k # i  BY <1>7, <1>8, <2>1, <2>2, <2>4
  <2> QED  BY <2>3, <2>4
<1> HIDE DEF Three, new
<1>10. TypeInv'
  <2>1. m' \in MainState  BY <1>4 DEF MainState, Three
  <2>2. array' \in [Port -> [Slots -> Server \cup {Null}] \cup {Null}]
    BY <1>2, <1>3, <1>6, <1>7
  <2> QED  BY <1>1, <2>1, <2>2 DEF IInv, TypeInv
<1>11. array'[p] = new /\ \A o \in Port \ {p} : array'[o] = array[o]
  BY <1>2, <1>3, <1>6
<1>12. NodeInv'  BY <1>1, <1>4 DEF IInv, MainInv, NodeInv
<1>13. WorkInv'
  <2>1. Shows(p, d)'
    <3>1. p' = p /\ d' = d  BY <1>1, <1>4
    <3> QED  BY <1>1, <1>3, <1>8, <1>9, <1>11, <3>1 DEF Shows
  <2>2. array'[p] # Null  BY <1>7, <1>11, NullApart
  <2>3. p' = p /\ s' = s /\ i' = i /\ q' = q /\ n' = n  BY <1>1, <1>4
  <2>4. n # 1
    <3>1. \A j \in Nat : j > 1 => j # 1  OBVIOUS
    <3> QED  BY <1>2, <1>3, <3>1
  <2>5. i \in 1 .. n /\ q[i] = s  BY <1>2
  <2>6. WorkAt(p, q, s)'
    <3> HIDE DEF p, s, i, q, n, d
    <3> QED  BY <1>4, <2>1, <2>2, <2>3, <2>5, <2>4 DEF WorkAt, i, n, d, q, p
  <2> QED  BY <2>6 DEF WorkInv
<1>14. RefsInv'
  BY <1>1, <1>4, RefsKept DEF Ahead, Behind, IInv, MainInv
<1> QED  BY <1>1, <1>2, <1>4, <1>10, <1>11, <1>12, <1>13, <1>14, OwnStep

\* An array with nothing left in it is freed.
LEMMA FreeStep ==
  ASSUME IInv, Free
  PROVE  IInv'
<1> DEFINE p == m.p
           s == m.s
           i == m.i
           q == view[m.p]
           d == DropSlot(view[m.p], m.i)
           Three == [pc : {"clear", "dec", "push", "free", "post"}, p : Port, s : Server,
                     i : Slots]
           Empty == array[m.p][1] = Null /\ count[m.p] = 0
<1>1. /\ m.pc = "free" /\ UNCHANGED <<sem, gw, count, refs, leaked, view, r>>
      /\ m' = [m EXCEPT !.pc = "post"]
  BY DEF Free
<1>2. /\ m \in Three /\ p \in Port /\ s \in Server /\ MainHolds
      /\ q \in Seq(Server) /\ Distinct(q) /\ Len(q) <= MaxServers
      /\ i \in 1 .. Len(q) /\ q[i] = s /\ Len(q) \in Nat /\ Len(q) > 0
  BY <1>1, DropShape
<1>3. /\ Shows(p, d) /\ array[p] # Null /\ (Len(q) = 1 => array[p][1] = Null)
      /\ array \in [Port -> [Slots -> Server \cup {Null}] \cup {Null}]
  BY <1>1 DEF IInv, MainInv, WorkInv, WorkAt, TypeInv
<1>4. m' \in Three /\ m'.pc = "post" /\ m'.p = p /\ m'.s = s
  BY <1>1, <1>2
<1>5. d \in Seq(Server) /\ Len(d) = Len(q) - 1 /\ count[p] = Len(q) - 1
  BY <1>2, <1>3, DropSlotProperties DEF Shows
<1>6. Empty <=> count[p] = 0
  <2>1. count[p] = 0 => Len(q) = 1
    <3>1. \A j \in Nat : j - 1 = 0 => j = 1  OBVIOUS
    <3> QED  BY <1>2, <1>5, <3>1
  <2> QED  BY <1>3, <2>1
<1>7. /\ Empty => array' = [array EXCEPT ![p] = Null]
      /\ Empty => node' = IF gw[p] = Null THEN node \ {p} ELSE node
      /\ ~Empty => array' = array /\ node' = node
  BY DEF Free
<1> HIDE DEF Three, Empty
<1>8. /\ array' \in [Port -> [Slots -> Server \cup {Null}] \cup {Null}]
      /\ node' \subseteq node
      /\ Empty => array'[p] = Null
      /\ ~Empty => array'[p] = array[p]
      /\ \A o \in Port \ {p} : array'[o] = array[o]
  BY <1>2, <1>3, <1>7
<1>9. TypeInv'
  <2>1. m' \in MainState  BY <1>4 DEF MainState, Three
  <2> QED  BY <1>1, <1>8, <2>1 DEF IInv, TypeInv
<1>10. NodeInv'
  <2>1. \A o \in node : o \notin node' => o = p /\ count[p] = 0 /\ gw[p] = Null
    BY <1>6, <1>7
  <2> QED  BY <1>1, <1>4, <2>1 DEF IInv, MainInv, NodeInv
<1>11. WorkInv'
  <2>1. Settled(p, d)'
    <3>1. p' = p /\ d' = d /\ count' = count  BY <1>1, <1>4
    <3>2. \A k \in 1 .. Len(d) : array'[p][k] = d[k]
      <4>1. CASE Empty
        <5>1. Len(d) = 0  BY <1>5, <1>6, <4>1
        <5> QED  BY <5>1
      <4>2. CASE ~Empty  BY <1>3, <1>8, <4>2 DEF Shows
      <4> QED  BY <4>1, <4>2
    <3>3. array'[p] = Null <=> count[p] = 0  BY <1>3, <1>6, <1>8
    <3> QED  BY <1>3, <3>1, <3>2, <3>3 DEF Settled, Shows
  <2>2. Dropped(p, q, s)'
    <3>1. p' = p /\ d' = d /\ q' = q /\ s' = s  BY <1>1, <1>4
    <3>2. i \in 1 .. Len(q) /\ q[i] = s /\ DropSlot(q, i) = d  BY <1>2
    <3> HIDE DEF p, s, i, q, d
    <3> QED  BY <2>1, <3>1, <3>2 DEF Dropped
  <2> QED  BY <1>1, <1>4, <2>2 DEF WorkInv, WorkAt
<1>12. RefsInv'
  <2>1. count'[p] < Len(q) /\ ~(count'[p] > Len(q))  BY <1>1, <1>2, <1>5
  <2>2. \A t \in Server : (Ahead(t)' <=> Ahead(t)) /\ (Behind(t)' <=> Behind(t))
    BY <1>1, <1>4, <2>1 DEF Ahead, Behind
  <2> QED  BY <1>1, <2>2, RefsKept DEF IInv, MainInv
<1> QED  BY <1>1, <1>2, <1>4, <1>8, <1>9, <1>10, <1>11, <1>12, OwnStep

\* When the main thread posts, its array is what it was, or with the server,
\* or without it.
LEMMA PostView ==
  ASSUME IInv, MainPost
  PROVE  /\ m.p \in Port /\ m.s \in Server /\ MainHolds /\ m' \in {MainIdle, Freed(m.p)}
         /\ Settled(m.p, Servers(m.p)) /\ Servers(m.p) \in Seq(Server)
         /\ \/ Servers(m.p) = view[m.p]
            \/ /\ m.s \notin Range(view[m.p]) /\ Len(view[m.p]) < MaxServers
               /\ Servers(m.p) = Append(view[m.p], m.s)
            \/ \E i \in 1 .. Len(view[m.p]) :
                 view[m.p][i] = m.s /\ Servers(m.p) = DropSlot(view[m.p], i)
<1> DEFINE p == m.p
           s == m.s
           q == view[m.p]
<1>1. m.pc = "post" /\ m' \in {MainIdle, Freed(m.p)}  BY DEF MainPost
<1>2. p \in Port /\ s \in Server /\ MainHolds /\ q \in Seq(Server) /\ Distinct(q)
  BY <1>1, MainShape DEF IInv, MainHolds, MainInv, ViewInv, TypeInv
<1>3. Settled(p, q) \/ Stored(p, q, s) \/ Dropped(p, q, s)
  BY <1>1 DEF IInv, MainInv, WorkInv, WorkAt
<1>4. ASSUME NEW q2 \in Seq(Server), Settled(p, q2)
      PROVE  Servers(p) = q2
  <2>1. count[p] = Len(q2) /\ \A k \in 1 .. Len(q2) : array[p][k] = q2[k]
    BY <1>4 DEF Settled, Shows
  <2>2. q2 = [k \in 1 .. Len(q2) |-> q2[k]]  OBVIOUS
  <2> QED  BY <2>1, <2>2 DEF Servers
<1>5. CASE Settled(p, q)  BY <1>1, <1>2, <1>4, <1>5
<1>6. CASE Stored(p, q, s)
  <2>1. Append(q, s) \in Seq(Server) /\ Settled(p, Append(q, s))
    BY <1>2, <1>6 DEF Stored
  <2>2. Servers(p) = Append(q, s)  BY <1>4, <2>1
  <2> QED  BY <1>1, <1>2, <1>6, <2>1, <2>2 DEF Stored
<1>7. CASE Dropped(p, q, s)
  <2>1. PICK i \in 1 .. Len(q) : q[i] = s /\ Settled(p, DropSlot(q, i))
    BY <1>7 DEF Dropped
  <2>2. DropSlot(q, i) \in Seq(Server)  BY <1>2, DropSlotProperties
  <2>3. Servers(p) = DropSlot(q, i)  BY <1>4, <2>1, <2>2
  <2> QED  BY <1>1, <1>2, <2>1, <2>2, <2>3
<1> QED  BY <1>3, <1>5, <1>6, <1>7

\* At the post the array is what it was, or has one server more or less.
LEMMA MainPostStep ==
  ASSUME IInv, MainPost
  PROVE  IInv'
<1> DEFINE p == m.p
           s == m.s
           q == view[m.p]
           new == Servers(m.p)
<1>1. /\ p \in Port /\ s \in Server /\ m' \in {MainIdle, Freed(p)} /\ MainHolds
      /\ Settled(p, new) /\ new \in Seq(Server)
      /\ \/ new = q
         \/ s \notin Range(q) /\ Len(q) < MaxServers /\ new = Append(q, s)
         \/ \E i \in 1 .. Len(q) : q[i] = s /\ new = DropSlot(q, i)
  BY PostView
<1>2. /\ m.pc = "post" /\ sem' = sem + 1 /\ view' = [view EXCEPT ![p] = new]
      /\ UNCHANGED <<node, gw, array, count, refs, leaked, r>>
  BY DEF MainPost, tables
<1>3. /\ q \in Seq(Server) /\ Distinct(q) /\ Len(q) <= MaxServers /\ Len(q) \in Nat
      /\ view \in [Port -> Seq(Server)]
  BY <1>1 DEF IInv, TypeInv, MainInv, ViewInv
<1> HIDE DEF p, s, q, new
<1>4. view'[p] = new /\ \A o \in Port \ {p} : view'[o] = view[o]
  BY <1>1, <1>2, <1>3
<1>5. m'.pc \in {"idle", "freed"} /\ m' \in MainState
  BY <1>1 DEF MainIdle, Freed, MainState
<1>6. ~MainHolds'  BY <1>5 DEF MainHolds
<1>7. TypeInv'
  BY <1>1, <1>2, <1>3, <1>5 DEF IInv, TypeInv
<1>8. LockInv' /\ RecvInv'
  <2>1. ~RecvHolds /\ sem = 0  BY <1>1 DEF IInv, LockInv
  <2> QED  BY <1>2, <1>6, <2>1 DEF LockInv, RecvInv, RecvHolds
<1>9. NodeInv' /\ WorkInv'
  BY <1>2, <1>5 DEF IInv, MainInv, NodeInv, WorkInv
<1>10. RestInv'
  <2> SUFFICES ASSUME NEW o \in Port  PROVE Settled(o, view[o])'
    BY DEF RestInv
  <2>1. CASE o = p  BY <1>1, <1>2, <1>4, <2>1 DEF Settled, Shows
  <2>2. CASE o # p
    <3>1. Settled(o, view[o])  BY <2>2 DEF IInv, MainInv, RestInv, p
    <3> QED  BY <1>2, <1>4, <2>2, <3>1 DEF Settled, Shows
  <2> QED  BY <2>1, <2>2
<1>11. Distinct(new) /\ Len(new) <= MaxServers
       /\ \/ Range(new) = Range(q) /\ Len(new) = Len(q)
          \/ s \notin Range(q) /\ Range(new) = Range(q) \cup {s} /\ Len(new) = Len(q) + 1
          \/ s \in Range(q) /\ Range(new) = Range(q) \ {s} /\ Len(new) = Len(q) - 1
  <2>1. CASE new = q  BY <1>3, <2>1
  <2>2. CASE s \notin Range(q) /\ Len(q) < MaxServers /\ new = Append(q, s)
    <3>1. /\ Distinct(new) /\ Range(new) = Range(q) \cup {s} /\ Len(new) = Len(q) + 1
      BY <1>1, <1>3, <2>2, AppendProperties
    <3>2. \A j, k \in Nat : j < k => j + 1 <= k  OBVIOUS
    <3>3. Len(new) <= MaxServers  BY <1>3, <2>2, <3>1, <3>2, NullApart
    <3> QED  BY <2>2, <3>1, <3>3
  <2>3. CASE \E i \in 1 .. Len(q) : q[i] = s /\ new = DropSlot(q, i)
    <3>1. PICK i \in 1 .. Len(q) : q[i] = s /\ new = DropSlot(q, i)  BY <2>3
    <3>2. /\ Distinct(new) /\ Range(new) = Range(q) \ {s} /\ Len(new) = Len(q) - 1
      BY <1>1, <1>3, <3>1, DropSlotProperties
    <3>3. s \in Range(q)  BY <1>3, <3>1 DEF Range
    <3>4. \A j, k \in Nat : j <= k => j - 1 <= k  OBVIOUS
    <3>5. Len(new) <= MaxServers  BY <1>3, <3>2, <3>4, NullApart
    <3> QED  BY <3>2, <3>3, <3>5
  <2> QED  BY <1>1, <2>1, <2>2, <2>3
<1>12. ViewInv'
  <2> SUFFICES ASSUME NEW o \in Port  PROVE Distinct(view'[o]) /\ Len(view'[o]) <= MaxServers
    BY DEF ViewInv, Distinct
  <2> QED  BY <1>4, <1>11 DEF IInv, MainInv, ViewInv
<1>13. RefsInv'
  <2>0. SUFFICES ASSUME NEW t \in Server  PROVE refs[t] = Cardinality(Uses(t)') + leaked[t]
    <3>1. refs \in [Server -> Nat] /\ leaked \in [Server -> Nat]  BY DEF IInv, TypeInv
    <3>2. \A t \in Server : ~Ahead(t)' /\ ~Behind(t)'  BY <1>5 DEF Ahead, Behind
    <3>3. ASSUME \A t \in Server : refs[t] = Cardinality(Uses(t)') + leaked[t]
          PROVE  RefsInv'
      <4> SUFFICES ASSUME NEW t \in Server
                   PROVE  refs'[t] = Cardinality(Uses(t)') + leaked'[t] +
                            (IF Ahead(t)' THEN 1 ELSE IF Behind(t)' THEN -1 ELSE 0)
        BY DEF RefsInv
      <4>1. /\ refs[t] \in Nat /\ leaked[t] \in Nat
            /\ refs[t] = Cardinality(Uses(t)') + leaked[t]
        BY <3>1, <3>3
      <4> QED  BY <1>2, <3>2, <4>1
    <3> QED  BY <3>3
  <2>1. /\ refs[t] = Cardinality(Uses(t)) + leaked[t] +
                      (IF Ahead(t) THEN 1 ELSE IF Behind(t) THEN -1 ELSE 0)
        /\ IsFiniteSet(Uses(t)) /\ Cardinality(Uses(t)) \in Nat /\ leaked[t] \in Nat
    BY UsesFinite DEF IInv, MainInv, RefsInv, TypeInv
  <2>2. count[p] = Len(new)  BY <1>1 DEF Settled, Shows
  <2>3. Uses(t)' = {o \in Port : t \in Range(view'[o])}  BY DEF Uses
  <2>4. \A o \in Port \ {p} : o \in Uses(t)' <=> o \in Uses(t)
    BY <1>4, <2>3 DEF Uses
  <2>5. (p \in Uses(t)' <=> t \in Range(new)) /\ (p \in Uses(t) <=> t \in Range(q))
    <3>1. p \in Uses(t)' <=> t \in Range(new)  BY <1>1, <1>4, <2>3
    <3>2. p \in Uses(t) <=> t \in Range(q)  BY <1>1 DEF Uses, p, q
    <3> QED  BY <3>1, <3>2
  <2>6. /\ Ahead(t) <=> (t = s /\ Len(new) > Len(q))
        /\ Behind(t) <=> (t = s /\ Len(new) < Len(q))
    BY <1>2, <2>2 DEF Ahead, Behind, p, q, s
  <2>7. CASE Range(new) = Range(q) /\ Len(new) = Len(q)
    <3>1. Uses(t)' = Uses(t)  BY <2>3, <2>4, <2>5, <2>7 DEF Uses
    <3>2. ~Ahead(t) /\ ~Behind(t)  BY <1>3, <2>6, <2>7
    <3> QED  BY <2>1, <3>1, <3>2
  <2>8. CASE s \notin Range(q) /\ Range(new) = Range(q) \cup {s} /\ Len(new) = Len(q) + 1
    <3>1. CASE t = s
      <4>1. Uses(t)' = Uses(t) \cup {p} /\ p \notin Uses(t)
        BY <1>1, <2>3, <2>4, <2>5, <2>8, <3>1 DEF Uses
      <4>2. Ahead(t)  BY <1>3, <2>6, <2>8, <3>1
      <4>3. Cardinality(Uses(t)') = Cardinality(Uses(t)) + 1
        BY <2>1, <4>1, FS_AddElement
      <4> QED  BY <2>1, <4>2, <4>3
    <3>2. CASE t # s
      <4>1. Uses(t)' = Uses(t)  BY <2>3, <2>4, <2>5, <2>8, <3>2 DEF Uses
      <4>2. ~Ahead(t) /\ ~Behind(t)  BY <2>6, <3>2
      <4> QED  BY <2>1, <4>1, <4>2
    <3> QED  BY <3>1, <3>2
  <2>9. CASE s \in Range(q) /\ Range(new) = Range(q) \ {s} /\ Len(new) = Len(q) - 1
    <3>1. CASE t = s
      <4>1. Uses(t)' = Uses(t) \ {p} /\ p \in Uses(t)
        BY <1>1, <2>3, <2>4, <2>5, <2>9, <3>1 DEF Uses
      <4>2. Behind(t) /\ ~Ahead(t)  BY <1>3, <2>6, <2>9, <3>1
      <4>3. Cardinality(Uses(t)') = Cardinality(Uses(t)) - 1
        BY <2>1, <4>1, FS_RemoveElement
      <4> QED  BY <2>1, <4>2, <4>3
    <3>2. CASE t # s
      <4>1. Uses(t)' = Uses(t)  BY <2>3, <2>4, <2>5, <2>9, <3>2 DEF Uses
      <4>2. ~Ahead(t) /\ ~Behind(t)  BY <2>6, <3>2
      <4> QED  BY <2>1, <4>1, <4>2
    <3> QED  BY <3>1, <3>2
  <2> QED  BY <1>11, <2>7, <2>8, <2>9
<1> QED  BY <1>7, <1>8, <1>9, <1>10, <1>12, <1>13 DEF IInv, MainInv

-----------------------------------------------------------------------------
(* The loop over the servers.                                              *)

\* A set of naturals has a least member: what induction on an index rests on.
LEMMA LeastNat ==
  ASSUME NEW T \in SUBSET Nat, T # {}
  PROVE  \E n \in T : \A k \in T : n <= k
<1>0. T \subseteq Nat /\ T # {}
  OBVIOUS
<1>1. PICK n \in T : \A k \in T : ~(<<k, n>> \in OpToRel(<, Nat))
  BY <1>0, WFMin, NatLessThanWellFounded, Zenon
<1>2. \A k \in T : <<k, n>> \in OpToRel(<, Nat) <=> k < n
  BY <1>1 DEF OpToRel
<1>3. \A k \in T : n \in Nat /\ k \in Nat /\ ~(k < n)
  BY <1>0, <1>1, <1>2
<1>4. QED
  BY <1>3

\* The selection exists, and is built one slot at a time.
LEMMA SelectedStep ==
  ASSUME NEW q \in Seq(Server), NEW W
  PROVE  /\ Selected(q, W)[0] = <<>>
         /\ \A n \in 1 .. Len(q) :
              Selected(q, W)[n] = IF q[n] \in W
                                THEN Append(Selected(q, W)[n - 1], q[n])
                                ELSE Selected(q, W)[n - 1]
<1> DEFINE Step(g, n) == IF n = 0 THEN <<>>
                         ELSE IF q[n] \in W THEN Append(g[n - 1], q[n]) ELSE g[n - 1]
           Builds(g, n) == \A i \in 0 .. n : g[i] = Step(g, i)
           T == {n \in Nat : n <= Len(q) /\ ~ \E g : Builds(g, n)}
           L == Len(q)
<1>1. L \in Nat
  OBVIOUS
<1>2. T = {}
  <2>1. SUFFICES ASSUME T # {} PROVE FALSE
    OBVIOUS
  <2>2. PICK n \in T : \A k \in T : n <= k
    <3>1. T \in SUBSET Nat
      OBVIOUS
    <3> HIDE DEF T
    <3>2. QED
      BY <2>1, <3>1, LeastNat
  <2>3. CASE n = 0
    <3>1. Builds([i \in {0} |-> <<>>], 0)
      OBVIOUS
    <3>2. QED
      BY <2>2, <2>3, <3>1
  <2>4. CASE n # 0
    <3>1. n - 1 \in Nat /\ n \in Nat /\ n - 1 <= L /\ ~(n <= n - 1)
      BY <1>1, <2>2, <2>4
    <3>2. PICK g : Builds(g, n - 1)
      BY <2>2, <3>1
    <3> DEFINE h == [i \in 0 .. n |-> IF i = n THEN Step(g, n) ELSE g[i]]
    <3>3. \A i \in 0 .. n : h[i] = Step(h, i)
      <4>1. SUFFICES ASSUME NEW i \in 0 .. n PROVE h[i] = Step(h, i)
        OBVIOUS
      <4>2. i # 0 => i - 1 \in 0 .. n - 1 /\ h[i - 1] = g[i - 1]
        BY <3>1
      <4>3. CASE i = n
        BY <2>4, <4>2, <4>3
      <4>4. CASE i # n
        <5>1. i \in 0 .. n - 1
          BY <3>1, <4>4
        <5>2. h[i] = g[i] /\ g[i] = Step(g, i)
          BY <3>2, <4>4, <5>1
        <5>3. QED
          BY <4>2, <5>2
      <4>5. QED
        BY <4>3, <4>4
    <3>4. QED
      BY <2>2, <3>3
  <2>5. QED
    BY <2>3, <2>4
<1>3. PICK g : Builds(g, L)
  BY <1>1, <1>2
<1> DEFINE f == [n \in 0 .. L |-> g[n]]
<1>4. f = [n \in 0 .. L |-> Step(f, n)]
  <2>1. \A n \in 0 .. L : f[n] = Step(f, n)
    <3>1. SUFFICES ASSUME NEW n \in 0 .. L PROVE f[n] = Step(f, n)
      OBVIOUS
    <3>2. n # 0 => n - 1 \in 0 .. L
      BY <1>1
    <3>3. g[n] = Step(g, n)
      BY <1>3
    <3>4. QED
      BY <3>2, <3>3
  <2>2. QED
    BY <2>1
<1> DEFINE Is(h) == h = [n \in 0 .. L |-> Step(h, n)]
<1>5. Selected(q, W) = CHOOSE h : Is(h)
  BY DEF Selected
<1>6. Is(Selected(q, W))
  <2>1. Is(f)
    BY <1>4
  <2> HIDE DEF Is, f
  <2>2. QED
    BY <1>5, <2>1
<1>7. \A n \in 0 .. L : Selected(q, W)[n] = Step(Selected(q, W), n)
  BY <1>6
<1>8. QED
  BY <1>1, <1>7

\* So far the receiver has sent its packet to what is wanted of the slots it
\* has passed.
ScanInv ==
  /\ r.pc \in {"option82", "gateway", "stamp", "scan"} =>
       r.sent = Selected(view[r.p], Wanted(r.kind))[r.i - 1]
  /\ r.pc \in {"option82", "gateway", "stamp"} => r.i = 1
  /\ r.pc = "scan" => r.i - 1 <= Len(view[r.p])

\* While the receiver has the lock, its array is the one last released.
LEMMA ArrayIsView ==
  ASSUME IInv, RecvHolds
  PROVE  /\ r.p \in Port /\ view[r.p] \in Seq(Server)
         /\ count[r.p] = Len(view[r.p])
         /\ \A i \in 1 .. Len(view[r.p]) : array[r.p][i] = view[r.p][i]
<1>1. r.p \in Port
  BY DEF IInv, TypeInv, RecvState, RecvIdle, RecvHolds
<1>2. view[r.p] \in Seq(Server)
  BY <1>1 DEF IInv, TypeInv
<1>3. Settled(r.p, view[r.p])
  BY <1>1 DEF IInv, LockInv, MainInv, RestInv
<1>4. QED
  BY <1>1, <1>2, <1>3 DEF Settled, Shows

\* The loop goes on by one slot.
LEMMA ScanKeepsScanInv ==
  ASSUME IInv, ScanInv, Scan
  PROVE  ScanInv'
<1> DEFINE q == view[r.p]
           W == Wanted(r.kind)
           i == r.i
<1>1. r.pc = "scan" /\ RecvHolds /\ view' = view /\ r.i \in Nat \ {0}
      /\ r \in [pc : {"scan"}, p : Port, kind : Kind, giaddr : Giaddr,
                i : Nat \ {0}, sent : Seq(Server)]
  BY DEF Scan, RecvHolds, IInv, TypeInv, RecvState, RecvIdle
<1>2. /\ r.p \in Port /\ q \in Seq(Server) /\ count[r.p] = Len(q)
      /\ \A k \in 1 .. Len(q) : array[r.p][k] = q[k]
  BY <1>1, ArrayIsView
<1>3. r.sent = Selected(q, W)[i - 1]
  BY <1>1 DEF ScanInv
<1>4. CASE i > count[r.p]
  BY <1>1, <1>4 DEF Scan, ScanInv
<1>5. CASE ~(i > count[r.p])
  <2> DEFINE next == IF array[r.p][i] \in W THEN Append(r.sent, array[r.p][i])
                     ELSE r.sent
  <2>1. r' = [r EXCEPT !.i = i + 1, !.sent = next]
    BY <1>5 DEF Scan
  <2>2. /\ r'.pc = "scan" /\ r'.p = r.p /\ r'.kind = r.kind /\ r'.i = i + 1
        /\ r'.sent = next
    <3> HIDE DEF next
    <3>1. QED
      BY <1>1, <2>1
  <2>3. i \in 1 .. Len(q) /\ Len(q) \in Nat
    <3>1. Len(q) \in Nat
      BY <1>2
    <3>2. QED
      BY <1>1, <1>2, <1>5, <3>1
  <2>4. Selected(q, W)[i] = next
    <3> HIDE DEF q, W
    <3>1. Selected(q, W)[i] = IF q[i] \in W THEN Append(Selected(q, W)[i - 1], q[i])
                              ELSE Selected(q, W)[i - 1]
      BY <1>2, <2>3, SelectedStep
    <3>2. QED
      BY <1>2, <1>3, <2>3, <3>1
  <2>5. (i + 1) - 1 = i
    BY <1>1
  <2> HIDE DEF next
  <2>6. QED
    BY <1>1, <2>2, <2>3, <2>4, <2>5 DEF ScanInv
<1>6. QED
  BY <1>4, <1>5

LEMMA NextKeepsScanInv ==
  ASSUME IInv, ScanInv, [Next]_vars
  PROVE  ScanInv'
<1>1. CASE Scan
  BY <1>1, ScanKeepsScanInv
<1>2. CASE Lookup
  <2>1. view' = view /\ RecvHolds
    BY <1>2 DEF Lookup, RecvHolds
  <2>2. CASE r'.pc = "post"
    BY <2>2 DEF ScanInv
  <2>3. CASE r'.pc # "post"
    <3>1. /\ r'.p = r.p /\ r'.i = 1 /\ r'.sent = <<>>
      BY <1>2, <2>3 DEF Lookup, IInv, TypeInv, RecvState, RecvIdle
    <3>2. view[r.p] \in Seq(Server)
      BY <2>1, ArrayIsView
    <3>3. Selected(view[r.p], Wanted(r'.kind))[0] = <<>> /\ 0 <= Len(view[r.p])
      BY <3>2, SelectedStep
    <3>4. QED
      BY <2>1, <3>1, <3>3 DEF ScanInv
  <2>4. QED
    BY <2>2, <2>3
<1>3. CASE Option82 \/ TestGateway \/ Stamp
  <2>1. /\ view' = view /\ r.pc \in {"option82", "gateway", "stamp"}
        /\ RecvHolds
    BY <1>3 DEF Option82, TestGateway, Stamp, RecvHolds
  <2>2. /\ r'.p = r.p /\ r'.kind = r.kind /\ r'.i = r.i /\ r'.sent = r.sent
        /\ r'.pc \in {"post", "client", "gateway", "stamp", "scan"}
    <3>1. r \in [pc : {"option82", "gateway", "stamp"}, p : Port, kind : Kind,
                 giaddr : Giaddr, i : Nat \ {0}, sent : Seq(Server)]
      BY <2>1 DEF IInv, TypeInv, RecvState, RecvIdle
    <3>2. CASE Option82
      BY <3>1, <3>2 DEF Option82
    <3>3. CASE TestGateway
      BY <3>1, <3>3 DEF TestGateway
    <3>4. CASE Stamp
      BY <3>1, <3>4 DEF Stamp
    <3>5. QED
      BY <1>3, <3>2, <3>3, <3>4
  <2>3. r.i = 1 /\ r.sent = Selected(view[r.p], Wanted(r.kind))[r.i - 1]
    BY <2>1 DEF ScanInv
  <2>4. 0 <= Len(view[r.p])
    BY <2>1, ArrayIsView
  <2>5. QED
    BY <2>1, <2>2, <2>3, <2>4 DEF ScanInv
<1>4. CASE RecvWait \/ ToClient \/ RecvPost \/ \E p \in Port, kind \in Kind : Receive(p, kind)
  <2>1. r'.pc \in {"lookup", "post", "idle", "wait"}
    <3>1. ASSUME NEW pc, r # RecvIdle, r' = [r EXCEPT !.pc = pc] PROVE r'.pc = pc
      BY <3>1 DEF IInv, TypeInv, RecvState
    <3>2. CASE RecvWait
      <4>1. r # RecvIdle
        BY <3>2 DEF RecvWait, RecvIdle
      <4>2. QED
        BY <3>1, <3>2, <4>1 DEF RecvWait
    <3>3. CASE ToClient
      <4>1. r # RecvIdle
        BY <3>3 DEF ToClient, RecvIdle
      <4>2. QED
        BY <3>1, <3>3, <4>1 DEF ToClient
    <3>4. CASE RecvPost
      BY <3>4 DEF RecvPost, RecvIdle
    <3>5. ASSUME NEW p \in Port, NEW kind \in Kind, Receive(p, kind)
          PROVE  r'.pc = "wait"
      <4>1. PICK a : r' = [pc |-> "wait", p |-> p, kind |-> kind, giaddr |-> a]
        BY <3>5 DEF Receive
      <4>2. QED
        BY <4>1
    <3>6. QED
      BY <1>4, <3>2, <3>3, <3>4, <3>5
  <2>2. QED
    BY <2>1 DEF ScanInv
<1>5. CASE r' = r /\ view' = view
  BY <1>5 DEF ScanInv
\* The main thread releases the lock only when the receiver does not hold it.
<1>6. CASE MainPost
  <2>1. r' = r /\ ~RecvHolds
    BY <1>6 DEF MainPost, MainHolds, IInv, LockInv
  <2>2. QED
    BY <2>1 DEF ScanInv, RecvHolds
<1>7. QED
  BY <1>1, <1>2, <1>3, <1>4, <1>5, <1>6
     DEF Next, vars, MainStep, RecvStep, EndInsert, EndHandler, StrayWait, Leak,
         StoreWait, Alloc, SetSlot, IncCount,
         RemoveWait, NotFound, Unref, Clear, DecCount, Push, Free, BeginInsert, WriteGateway,
         BeginStore, BeginRemove, BeginStray

-----------------------------------------------------------------------------
(* Theorems.                                                               *)

\* The places of both threads, the lock, and how far the tables are from whole,
\* whatever is stored through nodes that a removal has freed.
THEOREM InductiveInvariant == Spec => []IInv
<1>1. Init => IInv
  <2> SUFFICES ASSUME Init PROVE IInv  OBVIOUS
  <2>1. TypeInv
    <3>1. 0 \in 0 .. MaxServers /\ <<>> \in Seq(Server)  BY NullApart
    <3> QED  BY <3>1 DEF Init, TypeInv, MainState, RecvState
  <2>2. LockInv /\ NodeInv /\ WorkInv /\ RecvInv
    BY DEF Init, LockInv, MainHolds, RecvHolds, MainIdle, RecvIdle, NodeInv, WorkInv, RecvInv
  <2>3. ViewInv /\ RestInv
    <3>1. Len(<<>>) = 0 /\ Distinct(<<>>) /\ 0 <= MaxServers  BY NullApart DEF Distinct
    <3>2. \A p \in Port : view[p] = <<>> /\ count[p] = 0 /\ array[p] = Null  BY DEF Init
    <3>3. \A p \in Port : Settled(p, view[p])  BY <3>1, <3>2 DEF Settled, Shows
    <3> QED  BY <3>1, <3>2, <3>3 DEF ViewInv, RestInv
  <2>4. RefsInv
    <3> SUFFICES ASSUME NEW s \in Server
                 PROVE  /\ refs[s] = Cardinality(Uses(s)) /\ refs[s] = 0 /\ leaked[s] = 0
                                                  /\ ~Ahead(s) /\ ~Behind(s)
      BY DEF RefsInv
    <3>1. Uses(s) = {}  BY DEF Init, Uses, Range
    <3> QED  BY <3>1, FS_EmptySet DEF Init, Ahead, Behind, MainIdle
  <2> QED  BY <2>1, <2>2, <2>3, <2>4 DEF IInv, MainInv
<1>2. IInv /\ [Next]_vars => IInv'
  <2> SUFFICES ASSUME IInv, [Next]_vars PROVE IInv'  OBVIOUS
  <2>1. CASE MainStep
    BY <2>1, OutsideStep, AllocStep, SetSlotStep, IncCountStep, LeakStep, NotFoundStep, UnrefStep,
       ClearStep, DecCountStep, PushStep, FreeStep, MainPostStep DEF MainStep
  <2>2. CASE RecvStep  BY <2>2, RecvStepInv
  <2>3. ASSUME NEW p \in Port, NEW kind \in Kind, Receive(p, kind)  PROVE IInv'
    BY <2>3, RecvStepInv
  <2>4. ASSUME NEW p \in Port,
               \/ BeginInsert(p) \/ WriteGateway(p)
               \/ \E s \in Server : BeginStore(p, s) \/ BeginRemove(p, s) \/ BeginStray(p, s)
        PROVE  IInv'
    BY <2>4, OutsideStep
  <2>5. CASE UNCHANGED vars
    <3>1. UNCHANGED <<tables, view, m, sem, r>>  BY <2>5 DEF vars
    <3>2. MainInv'  BY <3>1, MainKept DEF IInv
    <3> QED  BY <3>1, <3>2 DEF IInv, TypeInv, LockInv, RecvInv, MainHolds, RecvHolds, tables
  <2> QED  BY <2>1, <2>2, <2>3, <2>4, <2>5 DEF Next
<1> QED  BY <1>1, <1>2, PTL DEF Spec

\* The semaphore and the tables keep their types.
THEOREM TypeCorrect == Spec => []TypeOK
<1>1. IInv => TypeOK
  <2> SUFFICES ASSUME IInv PROVE TypeOK  OBVIOUS
  <2>1. sem \in 0 .. 1  BY DEF IInv, LockInv
  <2>2. m = MainIdle \/ m.p \in Port  BY DEF IInv, TypeInv, MainState
  <2>3. r = RecvIdle \/ (r.p \in Port /\ r.kind \in Kind)  BY DEF IInv, TypeInv, RecvState
  <2> QED  BY <2>1, <2>2, <2>3 DEF IInv, TypeInv, TypeOK
<1> QED  BY <1>1, InductiveInvariant, PTL

\* The tables are whole whenever the main thread is outside udpfwd_store_address
\* and udpfwd_remove_address; entries count, beside the arrays, what was stored
\* through freed nodes.
THEOREM TablesAreWhole == Spec => []TablesWhole
<1>1. IInv => TablesWhole
  <2> SUFFICES ASSUME IInv, ~MainHolds  PROVE TablesWhole  BY DEF TablesWhole
  <2>1. ASSUME NEW p \in Port
        PROVE  /\ (array[p] = Null) <=> (count[p] = 0)
               /\ \A i \in 1 .. count[p] : array[p][i] \in Server
               /\ \A i, k \in 1 .. count[p] : array[p][i] = array[p][k] => i = k
    <3> DEFINE q == view[p]
    <3>1. q \in Seq(Server) /\ Distinct(q) /\ Settled(p, q)
      BY DEF IInv, TypeInv, MainInv, ViewInv, RestInv
    <3> HIDE DEF q
    <3>2. DOMAIN q = 1 .. Len(q) /\ \A i \in 1 .. Len(q) : q[i] \in Server  BY <3>1
    <3> QED  BY <3>1, <3>2 DEF Settled, Shows, Distinct
  <2>2. \A p \in Port : p \notin node => count[p] = 0 /\ gw[p] = Null
    BY DEF IInv, MainInv, NodeInv
  <2>3. ASSUME NEW s \in Server  PROVE refs[s] = Cardinality(Users(s)) + leaked[s]
    <3>1. Users(s) = Uses(s)  BY UsersAreUses DEF IInv, MainInv
    <3>2. ~Ahead(s) /\ ~Behind(s)  BY DEF Ahead, Behind, MainHolds
    <3> QED  BY <3>1, <3>2, UsesFinite DEF IInv, MainInv, RefsInv, TypeInv
  <2> QED  BY <2>1, <2>2, <2>3 DEF TablesWhole
<1> QED  BY <1>1, InductiveInvariant, PTL

\* What the receiver dereferences in its loop over the servers is there.
THEOREM ReceiverIsSafe == Spec => []ReceiverSafe
<1>1. IInv => ReceiverSafe
  <2> SUFFICES ASSUME IInv, r.pc \in {"option82", "gateway", "stamp", "scan", "client"}
               PROVE  /\ r.p \in node
                      /\ r.pc = "scan" /\ r.i <= count[r.p] =>
                           /\ array[r.p] # Null
                           /\ array[r.p][r.i] # Null
                           /\ refs[array[r.p][r.i]] > 0
    BY DEF ReceiverSafe
  <2>1. r.p \in node  BY DEF IInv, RecvInv
  <2>2. ~MainHolds  BY DEF IInv, LockInv, RecvHolds
  <2>3. ASSUME r.i <= count[r.p]
        PROVE  /\ array[r.p] # Null
               /\ array[r.p][r.i] # Null
               /\ refs[array[r.p][r.i]] > 0
    <3> DEFINE p == r.p
               i == r.i
               q == view[r.p]
    <3>1. p \in Port /\ i \in Nat \ {0}
      BY DEF IInv, TypeInv, RecvState, RecvIdle
    <3>2. q \in Seq(Server) /\ Settled(p, q)
      BY <2>2, <3>1 DEF IInv, TypeInv, MainInv, RestInv
    <3>3. count[p] = Len(q) /\ i \in 1 .. Len(q) /\ array[p] # Null /\ array[p][i] = q[i]
      <4> HIDE DEF q
      <4>1. count[p] = Len(q) /\ Len(q) \in Nat  BY <3>2 DEF Settled, Shows
      <4>2. i \in 1 .. Len(q)  BY <2>3, <3>1, <4>1
      <4>3. Len(q) # 0  BY <4>2
      <4> QED  BY <3>2, <4>1, <4>2, <4>3 DEF Settled, Shows
    <3>4. q[i] \in Server /\ q[i] \in Range(q)  BY <3>2, <3>3 DEF Range
    <3>5. refs[q[i]] = Cardinality(Uses(q[i])) + leaked[q[i]] /\ leaked[q[i]] \in Nat
      <4>1. ~Ahead(q[i]) /\ ~Behind(q[i])  BY <2>2 DEF Ahead, Behind, MainHolds
      <4> QED  BY <3>4, <4>1, UsesFinite DEF IInv, MainInv, RefsInv, TypeInv
    <3>6. p \in Uses(q[i])  BY <3>1, <3>4 DEF Uses
    <3> QED  BY <3>3, <3>4, <3>5, <3>6, UsesFinite, NullApart
  <2> QED  BY <2>1, <2>3
<1> QED  BY <1>1, InductiveInvariant, PTL

\* The receiver's loop sends a packet to what the main thread had released last.
THEOREM RelaysLastView == Spec => []RelaysView
<1>1. IInv /\ ScanInv /\ [Next]_vars => ScanInv'
  BY NextKeepsScanInv
<1>2. Init => ScanInv
  BY DEF Init, ScanInv, RecvIdle
<1>3. IInv /\ ScanInv => RelaysView
  <2> SUFFICES ASSUME IInv, ScanInv, r.pc = "scan", r.i > count[r.p]
               PROVE  r.sent = Selected(view[r.p], Wanted(r.kind))[Len(view[r.p])]
    BY DEF RelaysView
  <2>1. RecvHolds  BY DEF RecvHolds
  <2>2. r.i \in Nat \ {0}  BY DEF IInv, TypeInv, RecvState, RecvIdle
  <2>3. count[r.p] = Len(view[r.p]) /\ Len(view[r.p]) \in Nat  BY <2>1, ArrayIsView
  <2>4. r.i - 1 = Len(view[r.p])  BY <2>2, <2>3 DEF ScanInv
  <2> QED  BY <2>4 DEF ScanInv
<1> QED  BY <1>1, <1>2, <1>3, InductiveInvariant, PTL DEF Spec

\* From one release of the semaphore to the next an array gains or loses one
\* server, as UdpfwdConfig has it.
THEOREM LockedOpsAreAtomic == Spec => LockedOpsAtomic
<1> DEFINE A == \E p \in Port :
       \/ \E s \in Server : /\ \A i \in DOMAIN view[p] : view[p][i] # s
                            /\ view' = [view EXCEPT ![p] = Append(@, s)]
       \/ \E i \in DOMAIN view[p] : view' = [view EXCEPT ![p] = DropSlot(@, i)]
<1>1. IInv /\ [Next]_vars => [A]_view
  <2> SUFFICES ASSUME IInv, [Next]_vars, view' # view  PROVE A
    OBVIOUS
  <2>1. MainPost
    BY DEF Next, vars, MainStep, RecvStep, EndInsert, EndHandler, StrayWait, Leak,
         StoreWait, Alloc, SetSlot, IncCount,
           RemoveWait, NotFound, Unref, Clear, DecCount, Push, Free, BeginInsert, WriteGateway,
           BeginStore, BeginRemove, BeginStray, Receive, RecvWait, Lookup, Option82, TestGateway, Stamp,
           Scan, ToClient, RecvPost
  <2> DEFINE p == m.p
             s == m.s
             q == view[m.p]
             new == Servers(m.p)
  <2>2. /\ p \in Port /\ s \in Server
        /\ \/ new = q
           \/ s \notin Range(q) /\ new = Append(q, s)
           \/ \E i \in 1 .. Len(q) : new = DropSlot(q, i)
    BY <2>1, PostView
  <2>3. view' = [view EXCEPT ![p] = new]  BY <2>1 DEF MainPost
  <2>4. q \in Seq(Server) /\ view \in [Port -> Seq(Server)] /\ DOMAIN q = 1 .. Len(q)
    BY <2>2 DEF IInv, TypeInv
  <2>5. new # q  BY <2>2, <2>3, <2>4
  <2>6. \A i \in DOMAIN q : s \notin Range(q) => q[i] # s  BY DEF Range
  <2> HIDE DEF new, s, p
  <2> QED  BY <2>2, <2>3, <2>4, <2>5, <2>6 DEF p
<1>2. Spec => [][A]_view
  <2> HIDE DEF A
  <2> QED  BY <1>1, InductiveInvariant, PTL DEF Spec
<1> QED  BY <1>2 DEF LockedOpsAtomic
=============================================================================
