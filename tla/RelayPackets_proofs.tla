-------------------------- MODULE RelayPackets_proofs --------------------------
(***************************************************************************)
(* A reply goes to the subnet of its client, for any number of relays.     *)
(***************************************************************************)
EXTENDS RelayPackets, FiniteSetTheorems, WellFoundedInduction, TLAPS

GoodPackets == {m \in Packet : GoodPacket(m)}

\* The lowest address of an interface that has one.
LEMMA LowestIpType ==
  ASSUME NEW i \in Interface, LowestIp(i) # 0
  PROVE  LowestIp(i) \in Address /\ at[LowestIp(i)] = i
<1> DEFINE ips == {a \in Address : at[a] = i}
<1>1. ips # {} /\ ips \subseteq Nat  BY PacketsAssumption DEF LowestIp
<1>2. PICK a \in ips : \A b \in ips : ~(<<b, a>> \in OpToRel(<, Nat))
  <2> HIDE DEF ips
  <2> QED  BY <1>1, WFMin, NatLessThanWellFounded, Zenon
<1>3. \A b \in ips : a <= b
  <2> TAKE b \in ips
  <2>1. a \in Nat /\ b \in Nat  BY <1>1
  <2>2. ~(b < a)  BY <1>2, <2>1 DEF OpToRel
  <2> QED  BY <2>1, <2>2
<1>4. LowestIp(i) = CHOOSE x \in ips : \A b \in ips : x <= b
  BY <1>1 DEF LowestIp
<1>5. LowestIp(i) \in ips  BY <1>3, <1>4
<1> QED  BY <1>5

LEMMA GatewayType ==
  ASSUME TypeOK, NEW i \in Interface
  PROVE  Gateway(i) \in Address \cup {0}
<1>1. Nodes[i] \subseteq [servers : SUBSET (Address \cup {Server}),
                         bootp_gw : Address \cup {0}]
  BY PacketsAssumption
<1>2. node[i] # NoNode =>
        node[i] \in [servers : SUBSET (Address \cup {Server}), bootp_gw : Address \cup {0}]
  BY <1>1 DEF TypeOK
<1> QED  BY <1>2 DEF Gateway

\* Packets put into a socket join the packets there.
LEMMA PutType ==
  ASSUME NEW S, NEW box \in Seq(S), NEW packets \in Seq(S)
  PROVE  Put(box, packets) \in Seq(S) /\ Len(Put(box, packets)) <= Capacity
<1> DEFINE all == box \o packets
<1>1. all \in Seq(S) /\ Capacity \in Nat \ {0}  BY PacketsAssumption
<1>2. Put(box, packets) = IF Len(all) > Capacity THEN SubSeq(all, 1, Capacity) ELSE all
  BY DEF Put
<1> HIDE DEF all
<1>3. CASE Len(all) > Capacity
  <2>1. SubSeq(all, 1, Capacity) \in Seq(S)  BY <1>1, <1>3
  <2>2. Len(SubSeq(all, 1, Capacity)) = Capacity  BY <1>1, <1>3
  <2> QED  BY <1>1, <1>2, <1>3, <2>1, <2>2
<1>4. CASE ~(Len(all) > Capacity)  BY <1>1, <1>2, <1>4
<1> QED  BY <1>3, <1>4

\* What a request brings into a socket: copies of it, and a reply to it.
LEMMA ArrivingType ==
  ASSUME NEW q \in Relay, NEW r \in Relay, NEW S, NEW m \in S, NEW servers, NEW some,
         m.giaddr # 0 => [m EXCEPT !.op = "BOOTREPLY"] \in S
  PROVE  Arriving(q, r, m, servers, some) \in Seq(S)
<1> DEFINE helpers == {b \in servers \cap Address : q # r /\ HasAddress(q, b)}
           copies(set) == [k \in 1..Cardinality(set) |-> m]
           reply == [m EXCEPT !.op = "BOOTREPLY"]
           answered == Server \in servers /\ m.giaddr # 0 /\ HasAddress(q, m.giaddr)
           answer == IF answered THEN <<reply>> ELSE <<>>
<1>1. ASSUME NEW set \in SUBSET helpers  PROVE copies(set) \in Seq(S)
  <2>1. IsFiniteSet(Address)  BY PacketsAssumption
  <2>2. set \subseteq Address  OBVIOUS
  <2> HIDE DEF helpers
  <2>3. Cardinality(set) \in Nat  BY <2>1, <2>2, FS_Subset, FS_CardinalityType
  <2> DEFINE n == Cardinality(set)
  <2> HIDE DEF n
  <2>4. [k \in 1..n |-> m] \in Seq(S)  BY <2>3 DEF n
  <2> QED  BY <2>4 DEF n
<1>2. answer \in Seq(S)
  <2>1. CASE answered
    <3>1. reply \in S  BY <2>1
    <3> HIDE DEF reply
    <3> QED  BY <2>1, <3>1
  <2>2. CASE ~answered  BY <2>2
  <2> QED  BY <2>1, <2>2
<1> DEFINE before == copies(helpers \cap some)
           after == copies(helpers \ some)
<1>3. before \in Seq(S) /\ after \in Seq(S)
  <2> HIDE DEF helpers, copies
  <2> QED  BY <1>1
<1>4. Arriving(q, r, m, servers, some) = before \o answer \o after
  BY DEF Arriving
<1> HIDE DEF before, after, answer
<1> QED  BY <1>2, <1>3, <1>4

IInv == TypeOK /\ StampsHold

\* While no address moves it is enough to look at what a step puts into sockets.
LEMMA InboxStep ==
  ASSUME TypeOK, UNCHANGED at, inbox' \in [Relay -> Seq(GoodPackets)]
  PROVE  /\ inbox' \in [Relay -> Seq(Packet)]
         /\ \A r \in Relay : inbox'[r] \in Seq({m \in Packet : GoodPacket(m)'})
<1>1. \A s \in Seq(GoodPackets) : s \in Seq(Packet)
  <2> TAKE s \in Seq(GoodPackets)
  <2>1. \A k \in 1..Len(s) : s[k] \in Packet  BY DEF GoodPackets
  <2>2. s \in [1..Len(s) -> Packet] /\ Len(s) \in Nat  BY <2>1
  <2> QED  BY <2>2
<1>2. GoodPackets' = GoodPackets  BY DEF GoodPackets, GoodPacket
<1>3. \A r \in Relay : inbox'[r] \in Seq(GoodPackets)'  BY <1>2
<1> QED  BY <1>1, <1>3 DEF GoodPackets

\* While neither addresses nor nodes change it is enough to look at the receiver
\* whose job changes.
LEMMA JobStep ==
  ASSUME IInv, UNCHANGED <<at, node>>, NEW r \in Relay, NEW j \in Job \cup {NoJob},
         j # NoJob => GoodJob(j) /\ RelayOf[j.i] = r,
         job' = [job EXCEPT ![r] = j]
  PROVE  /\ job' \in [Relay -> Job \cup {NoJob}]
         /\ \A q \in Relay : job'[q] # NoJob =>
              GoodJob(job[q])' /\ RelayOf[job'[q].i] = q
<1>1. job' \in [Relay -> Job \cup {NoJob}]  BY DEF IInv, TypeOK
<1>2. ASSUME NEW q \in Relay, job'[q] # NoJob
      PROVE  GoodJob(job[q])' /\ RelayOf[job'[q].i] = q
  <2>1. CASE q = r
    <3>1. job'[q] = j  BY <2>1 DEF IInv, TypeOK
    <3>2. GoodJob(j) /\ RelayOf[j.i] = r  BY <1>2, <3>1
    <3> QED  BY <2>1, <3>1, <3>2 DEF GoodJob, Giaddr, Gateway
  <2>2. CASE q # r
    <3>1. job'[q] = job[q]  BY <2>2 DEF IInv, TypeOK
    <3>2. GoodJob(job[q]) /\ RelayOf[job[q].i] = q
      BY <1>2, <3>1 DEF IInv, StampsHold
    <3> QED  BY <3>1, <3>2 DEF GoodJob, Giaddr, Gateway
  <2> QED  BY <2>1, <2>2
<1> QED  BY <1>1, <1>2

\* What is taken from a socket, or lost, leaves the rest as it was.
LEMMA TakenType ==
  ASSUME TypeOK, StampsHold, NEW r \in Relay, inbox[r] # <<>>
  PROVE  /\ Head(inbox[r]) \in GoodPackets
         /\ Taken(r) \in [Relay -> Seq(GoodPackets)]
         /\ \A q \in Relay : Len(Taken(r)[q]) <= Capacity
<1>1. inbox[r] \in Seq(GoodPackets) /\ Len(inbox[r]) <= Capacity /\ Capacity \in Nat
  BY PacketsAssumption DEF TypeOK, StampsHold, GoodPackets
<1>2. Tail(inbox[r]) \in Seq(GoodPackets) /\ Len(Tail(inbox[r])) <= Capacity
  BY <1>1
<1>3. \A q \in Relay : inbox[q] \in Seq(GoodPackets)  BY DEF StampsHold, GoodPackets
<1> QED  BY <1>1, <1>2, <1>3 DEF Taken, TypeOK

\* Steps that change the sockets only.
LEMMA SocketsStep ==
  ASSUME IInv, UNCHANGED <<at, node, feature, alive, job>>,
         inbox' \in [Relay -> Seq(GoodPackets)],
         \A q \in Relay : Len(inbox'[q]) <= Capacity
  PROVE  IInv'
<1>1. /\ inbox' \in [Relay -> Seq(Packet)]
      /\ \A r \in Relay : inbox'[r] \in Seq({m \in Packet : GoodPacket(m)'})
  BY InboxStep DEF IInv
<1>2. \A q \in Relay : job'[q] # NoJob => GoodJob(job[q])' /\ RelayOf[job'[q].i] = q
  BY DEF IInv, StampsHold, GoodJob, Giaddr, Gateway
<1> QED  BY <1>1, <1>2 DEF IInv, TypeOK, StampsHold

\* Steps of a receiver that handles a request.
LEMMA RequestStep ==
  ASSUME IInv, UNCHANGED <<at, node, feature, alive>>,
         inbox' \in [Relay -> Seq(GoodPackets)],
         \A q \in Relay : Len(inbox'[q]) <= Capacity,
         NEW r \in Relay, NEW j \in Job \cup {NoJob},
         j # NoJob => GoodJob(j) /\ RelayOf[j.i] = r,
         job' = [job EXCEPT ![r] = j]
  PROVE  IInv'
<1>1. /\ inbox' \in [Relay -> Seq(Packet)]
      /\ \A q \in Relay : inbox'[q] \in Seq({m \in Packet : GoodPacket(m)'})
  BY InboxStep DEF IInv
<1>2. /\ job' \in [Relay -> Job \cup {NoJob}]
      /\ \A q \in Relay : job'[q] # NoJob => GoodJob(job[q])' /\ RelayOf[job'[q].i] = q
  BY JobStep
<1> QED  BY <1>1, <1>2 DEF IInv, TypeOK, StampsHold

LEMMA ClientSendsStep ==
  ASSUME IInv, NEW i \in Clients, ClientSends(i)
  PROVE  IInv'
<1> DEFINE r == RelayOf[i]
           m == [op |-> "BOOTREQUEST", giaddr |-> 0, hops |-> 0, remote |-> 0,
                 origin |-> i, astray |-> FALSE]
<1>0. i \in Interface  BY PacketsAssumption
<1>1. r \in Relay /\ MaxHops \in Nat /\ Capacity \in Nat  BY <1>0, PacketsAssumption
<1>2. m \in GoodPackets  BY <1>0, <1>1 DEF GoodPackets, GoodPacket, Packet
<1>3. \A q \in Relay : inbox[q] \in Seq(GoodPackets)
  BY DEF IInv, StampsHold, GoodPackets
<1>4. inbox' = [inbox EXCEPT ![r] = Append(inbox[r], m)]  BY DEF ClientSends
<1> HIDE DEF m
<1>5. Append(inbox[r], m) \in Seq(GoodPackets) /\ Len(Append(inbox[r], m)) <= Capacity
  <2>1. Len(inbox[r]) < Capacity /\ Len(inbox[r]) \in Nat  BY <1>1, <1>3 DEF ClientSends
  <2> QED  BY <1>1, <1>2, <1>3, <2>1
<1>6. inbox' \in [Relay -> Seq(GoodPackets)] /\ \A q \in Relay : Len(inbox'[q]) <= Capacity
  BY <1>1, <1>3, <1>4, <1>5 DEF IInv, TypeOK
<1> QED  BY <1>6, SocketsStep DEF ClientSends

\* An address that moves marks the packets and the jobs that have it.
LEMMA AddressMovesStep ==
  ASSUME IInv, AddressMoves
  PROVE  IInv'
<1>0. PICK a \in Address : \E i \in Places[a] :
        /\ at' = [at EXCEPT ![a] = i]
        /\ inbox' = [r \in Relay |-> [k \in DOMAIN inbox[r] |->
             IF inbox[r][k].giaddr = a THEN [inbox[r][k] EXCEPT !.astray = TRUE]
             ELSE inbox[r][k]]]
        /\ job' = [r \in Relay |->
             IF job[r] # NoJob /\ Giaddr(job[r]) = a THEN [job[r] EXCEPT !.stale = TRUE]
             ELSE job[r]]
  BY DEF AddressMoves
<1>1. PICK i \in Places[a] :
        /\ at' = [at EXCEPT ![a] = i]
        /\ inbox' = [r \in Relay |-> [k \in DOMAIN inbox[r] |->
             IF inbox[r][k].giaddr = a THEN [inbox[r][k] EXCEPT !.astray = TRUE]
             ELSE inbox[r][k]]]
        /\ job' = [r \in Relay |->
             IF job[r] # NoJob /\ Giaddr(job[r]) = a THEN [job[r] EXCEPT !.stale = TRUE]
             ELSE job[r]]
  BY <1>0
<1>2. i \in Interface \cup {NoInterface}  BY PacketsAssumption
<1>3. at' \in [Address -> Interface \cup {NoInterface}]
      /\ \A b \in Address : at'[b] \in Places[b]
  BY <1>1, <1>2 DEF IInv, TypeOK
<1>4. ASSUME NEW m \in GoodPackets, m.giaddr = a
      PROVE  [m EXCEPT !.astray = TRUE] \in Packet /\ GoodPacket([m EXCEPT !.astray = TRUE])'
  <2>1. m \in Packet /\ m.giaddr # 0
    BY <1>4, PacketsAssumption DEF GoodPackets
  <2> DEFINE p == [m EXCEPT !.astray = TRUE]
  <2>2. p \in Packet /\ p.astray = TRUE /\ p.giaddr = m.giaddr  BY <2>1 DEF Packet
  <2> QED  BY <2>1, <2>2 DEF GoodPacket
<1>5. ASSUME NEW m \in GoodPackets, m.giaddr # a
      PROVE  m \in Packet /\ GoodPacket(m)'
  <2>1. m \in Packet /\ GoodPacket(m) /\ m.giaddr \in Address \cup {0}
    BY DEF GoodPackets, Packet
  <2>2. m.giaddr # 0 => at'[m.giaddr] = at[m.giaddr]
    BY <1>1, <1>5, <2>1 DEF IInv, TypeOK
  <2> QED  BY <2>1, <2>2 DEF GoodPacket
<1>6. ASSUME NEW r \in Relay
      PROVE  /\ inbox'[r] \in Seq(Packet) /\ Len(inbox'[r]) <= Capacity
             /\ inbox'[r] \in Seq({m \in Packet : GoodPacket(m)'})
  <2> DEFINE s == inbox[r]
             t == inbox'[r]
             Good == {m \in Packet : GoodPacket(m)'}
  <2>1. s \in Seq(GoodPackets) /\ Len(s) <= Capacity /\ Len(s) \in Nat
    BY DEF IInv, TypeOK, StampsHold, GoodPackets
  <2>2. t = [k \in 1..Len(s) |-> IF s[k].giaddr = a THEN [s[k] EXCEPT !.astray = TRUE]
                                ELSE s[k]]
    BY <1>1, <2>1
  <2>3. ASSUME NEW k \in 1..Len(s)  PROVE t[k] \in Good
    <3>1. s[k] \in GoodPackets  BY <2>1
    <3>2. CASE s[k].giaddr = a
      <4>1. t[k] = [s[k] EXCEPT !.astray = TRUE]  BY <2>2, <3>2
      <4> HIDE DEF s, t
      <4> QED  BY <1>4, <3>1, <3>2, <4>1
    <3>3. CASE s[k].giaddr # a
      <4>1. t[k] = s[k]  BY <2>2, <3>3
      <4> HIDE DEF s, t
      <4> QED  BY <1>5, <3>1, <3>3, <4>1
    <3> QED  BY <3>2, <3>3
  <2> HIDE DEF s, t, Good
  <2>4. t \in Seq(Good) /\ Len(t) = Len(s)  BY <2>1, <2>2, <2>3
  <2>5. t \in Seq(Packet)
    <3>1. \A k \in 1..Len(s) : t[k] \in Packet  BY <2>3 DEF Good
    <3> QED  BY <2>1, <2>2, <3>1
  <2> QED  BY <2>1, <2>4, <2>5 DEF s, t, Good
<1>7. inbox' \in [Relay -> Seq(Packet)]  BY <1>1, <1>6
<1>8. ASSUME NEW r \in Relay
      PROVE  /\ job'[r] \in Job \cup {NoJob}
             /\ job'[r] # NoJob => GoodJob(job[r])' /\ RelayOf[job'[r].i] = r
  <2> DEFINE j == job[r]
  <2>1. CASE j = NoJob  BY <1>1, <2>1
  <2>2. CASE j # NoJob
    <3>1. j \in Job /\ GoodJob(j) /\ RelayOf[j.i] = r
      BY <2>2 DEF IInv, TypeOK, StampsHold
    <3>2. node' = node  BY DEF AddressMoves
    <3>3. CASE Giaddr(j) = a
      <4>1. job'[r] = [j EXCEPT !.stale = TRUE]  BY <1>1, <2>2, <3>3
      <4> HIDE DEF j
      <4>2. /\ job'[r] \in Job /\ job'[r].stale = TRUE /\ job'[r].m = j.m
            /\ job'[r].i = j.i /\ job'[r].stage = j.stage
        BY <3>1, <4>1 DEF Job
      <4> QED  BY <3>1, <3>2, <4>2 DEF GoodJob
    <3>4. CASE Giaddr(j) # a
      <4>1. job'[r] = j  BY <1>1, <2>2, <3>4
      <4> HIDE DEF j
      <4>2. Giaddr(j) \in Address \cup {0}
        <5>1. Gateway(j.i) \in Address \cup {0}  BY <3>1, GatewayType DEF IInv, Job
        <5>2. j.m.giaddr \in Address \cup {0} /\ j.ip \in Address
          BY <3>1 DEF Job, Packet
        <5> QED  BY <5>1, <5>2 DEF Giaddr
      <4>3. Giaddr(j) # 0 => at'[Giaddr(j)] = at[Giaddr(j)]
        BY <1>1, <3>4, <4>2 DEF IInv, TypeOK
      <4> QED  BY <3>1, <3>2, <4>1, <4>3 DEF GoodJob, Giaddr, Gateway
    <3> QED  BY <3>3, <3>4
  <2> QED  BY <2>1, <2>2
<1>9. job' \in [Relay -> Job \cup {NoJob}]  BY <1>1, <1>8
<1>10. StampsHold'  BY <1>6, <1>8 DEF StampsHold
<1> QED  BY <1>3, <1>6, <1>7, <1>9, <1>10 DEF IInv, TypeOK, AddressMoves

LEMMA JobType ==
  ASSUME IInv, NEW r \in Relay, job[r] # NoJob
  PROVE  /\ job[r] \in Job /\ GoodJob(job[r]) /\ RelayOf[job[r].i] = r
         /\ job[r].m \in Packet /\ job[r].i \in Interface /\ job[r].ip \in Address
         /\ job[r].stale \in BOOLEAN
<1>1. job[r] \in Job /\ GoodJob(job[r]) /\ RelayOf[job[r].i] = r
  BY DEF IInv, TypeOK, StampsHold
<1> QED  BY <1>1 DEF Job

\* The step in which a request is sent, marked if what was read of giaddr is stale.
LEMMA SendStep ==
  ASSUME IInv, UNCHANGED <<at, node, feature, alive>>, NEW r \in Relay, job[r] # NoJob,
         NEW m \in Packet, m.op = "BOOTREQUEST",
         m.giaddr # 0 /\ ~m.astray /\ ~job[r].stale => at[m.giaddr] = m.origin,
         Send(r, m)
  PROVE  IInv'
<1> DEFINE stale == job[r].stale
           servers == node[job[r].i].servers
           sent == [m EXCEPT !.astray = m.astray \/ stale]
           reply == [sent EXCEPT !.op = "BOOTREPLY"]
<1>1. stale \in BOOLEAN  BY JobType
<1>2. m.astray \in BOOLEAN /\ m.giaddr \in Address \cup {0}  BY DEF Packet
<1>3. PICK some \in SUBSET (servers \cap Address) :
        inbox' = [q \in Relay |-> Put(inbox[q], Arriving(q, r, sent, servers, some))]
  BY DEF Send
<1> HIDE DEF stale, servers
<1> DEFINE astray == m.astray \/ stale
<1>4. astray \in BOOLEAN  BY <1>1, <1>2
<1>5. sent = [m EXCEPT !.astray = astray]  OBVIOUS
<1> HIDE DEF sent
<1>6. /\ sent \in Packet /\ sent.op = "BOOTREQUEST" /\ sent.giaddr = m.giaddr
      /\ sent.origin = m.origin /\ sent.astray = astray
  <2> HIDE DEF astray
  <2> QED  BY <1>4, <1>5 DEF Packet
<1>7. sent.giaddr # 0 /\ ~sent.astray => at[sent.giaddr] = sent.origin
  BY <1>6 DEF stale
<1>8. sent \in GoodPackets  BY <1>6, <1>7 DEF GoodPackets, GoodPacket
<1>9. sent.giaddr # 0 => reply \in GoodPackets
  <2>1. /\ reply \in Packet /\ reply.giaddr = sent.giaddr
        /\ reply.origin = sent.origin /\ reply.astray = sent.astray
    BY <1>6 DEF Packet
  <2> HIDE DEF reply
  <2> QED  BY <1>7, <2>1 DEF GoodPackets, GoodPacket
<1>10. ASSUME NEW q \in Relay
       PROVE  /\ inbox'[q] \in Seq(GoodPackets) /\ Len(inbox'[q]) <= Capacity
  <2> DEFINE new == Arriving(q, r, sent, servers, some)
  <2>1. new \in Seq(GoodPackets)  BY <1>8, <1>9, ArrivingType
  <2>2. inbox[q] \in Seq(GoodPackets)  BY DEF IInv, StampsHold, GoodPackets
  <2>3. inbox'[q] = Put(inbox[q], new)  BY <1>3
  <2> HIDE DEF new
  <2> QED  BY <2>1, <2>2, <2>3, PutType
<1>11. inbox' \in [Relay -> Seq(GoodPackets)]  BY <1>3, <1>10
<1>12. job' = [job EXCEPT ![r] = NoJob]  BY DEF Send
<1> QED  BY <1>10, <1>11, <1>12, RequestStep

LEMMA TakeRequestStep ==
  ASSUME IInv, NEW r \in Relay, TakeRequest(r)
  PROVE  IInv'
<1> DEFINE m == Head(inbox[r])
<1>1. inbox[r] # <<>> /\ m.op = "BOOTREQUEST" /\ inbox' = Taken(r) /\ job[r] = NoJob
      /\ UNCHANGED <<at, node, feature, alive>>
  BY DEF TakeRequest, Receives
<1>2. /\ m \in GoodPackets /\ Taken(r) \in [Relay -> Seq(GoodPackets)]
      /\ \A q \in Relay : Len(Taken(r)[q]) <= Capacity
  BY <1>1, TakenType DEF IInv
<1>3. PICK i \in Arrival(r, m) :
        job' = IF feature[r].relay /\ LowestIp(i) # 0 /\ m.hops <= MaxHops
               THEN [job EXCEPT ![r] = [stage |-> "lock", m |-> m, i |-> i,
                                        ip |-> LowestIp(i), stale |-> FALSE]]
               ELSE job
  BY DEF TakeRequest
<1> HIDE DEF m
<1>4. CASE feature[r].relay /\ LowestIp(i) # 0 /\ m.hops <= MaxHops
  <2> DEFINE j == [stage |-> "lock", m |-> m, i |-> i, ip |-> LowestIp(i), stale |-> FALSE]
  <2>1. job' = [job EXCEPT ![r] = j]  BY <1>3, <1>4
  <2>2. m \in Packet /\ m.origin \in Interface  BY <1>2 DEF GoodPackets, Packet
  <2>3. /\ i \in Interface /\ RelayOf[i] = r
        /\ m.giaddr = 0 /\ ~m.astray => i = m.origin
    BY DEF Arrival
  <2>4. LowestIp(i) \in Address /\ at[LowestIp(i)] = i  BY <1>4, <2>3, LowestIpType
  <2>5. j \in Job  BY <2>2, <2>3, <2>4 DEF Job
  <2>6. GoodJob(j) /\ RelayOf[j.i] = r
    <3>1. m.giaddr # 0 /\ ~m.astray => at[m.giaddr] = m.origin
      BY <1>2 DEF GoodPackets, GoodPacket
    <3>2. LowestIp(i) # 0  BY <1>4
    <3>3. /\ j.m = m /\ j.i = i /\ j.stage = "lock" /\ j.ip = LowestIp(i) /\ j.stale = FALSE
      OBVIOUS
    <3> HIDE DEF j
    <3>4. Giaddr(j) = IF m.giaddr # 0 THEN m.giaddr ELSE LowestIp(i)
      BY <3>3 DEF Giaddr
    <3> QED  BY <1>1, <1>4, <2>3, <2>4, <3>1, <3>2, <3>3, <3>4 DEF GoodJob
  <2> HIDE DEF j
  <2>7. j \in Job \cup {NoJob}  BY <2>5
  <2> QED  BY <1>1, <1>2, <2>1, <2>6, <2>7, RequestStep
<1>5. CASE ~(feature[r].relay /\ LowestIp(i) # 0 /\ m.hops <= MaxHops)
  BY <1>1, <1>2, <1>3, <1>5, SocketsStep
<1> QED  BY <1>4, <1>5

\* What the step under the lock makes of a request.
LEMMA RewrittenType ==
  ASSUME IInv, NEW r \in Relay, Doing(r, "lock")
  PROVE  /\ Rewritten(r, job[r]) \in Packet
         /\ Rewritten(r, job[r]).op = "BOOTREQUEST"
         /\ Rewritten(r, job[r]).giaddr = job[r].m.giaddr
         /\ Rewritten(r, job[r]).origin = job[r].m.origin
         /\ Rewritten(r, job[r]).astray = job[r].m.astray
<1> DEFINE j == job[r]
           m == job[r].m
           hops == IF feature[r].hops THEN m.hops + 1 ELSE m.hops
           remote == Remote(r, j)
<1>1. /\ m \in Packet /\ j.i \in Interface /\ j.ip \in Address
      /\ m.op = "BOOTREQUEST" /\ m.hops <= MaxHops
  BY JobType DEF Doing, GoodJob
<1>2. hops \in 0..MaxHops + 1
  <2>1. m.hops \in 0..MaxHops + 1 /\ MaxHops \in Nat  BY <1>1, PacketsAssumption DEF Packet
  <2> HIDE DEF m
  <2> QED  BY <1>1, <2>1
<1>3. remote \in Address \cup Interface \cup {0}
  <2>1. m.remote \in Address \cup Interface \cup {0}  BY <1>1 DEF Packet
  <2>2. Gateway(j.i) \in Address \cup {0}  BY <1>1, GatewayType DEF IInv
  <2>3. feature[r].remoteId \in {"MAC", "IP"}
    <3>1. Features[r] \subseteq FeatureConfig  BY PacketsAssumption
    <3> QED  BY <3>1 DEF IInv, TypeOK, FeatureConfig
  <2>4. RemoteId(r, j) \in Address \cup Interface
    BY <1>1, <2>2, <2>3 DEF RemoteId
  <2> QED  BY <2>1, <2>4 DEF Remote
<1>4. Rewritten(r, job[r]) = [m EXCEPT !.hops = hops, !.remote = remote]
  BY DEF Rewritten
<1> DEFINE new == [m EXCEPT !.hops = hops, !.remote = remote]
<1> HIDE DEF m, hops, remote
<1>5. /\ new \in Packet /\ new.op = m.op /\ new.giaddr = m.giaddr
      /\ new.origin = m.origin /\ new.astray = m.astray
  BY <1>1, <1>2, <1>3 DEF Packet
<1> HIDE DEF new
<1>6. Rewritten(r, job[r]) = new  BY <1>4 DEF new
<1> QED  BY <1>1, <1>5, <1>6 DEF m

LEMMA RewriteRequestStep ==
  ASSUME IInv, NEW r \in Relay, RewriteRequest(r)
  PROVE  IInv'
<1> DEFINE j == job[r]
           m == Rewritten(r, job[r])
<1>1. /\ Doing(r, "lock") /\ job[r] # NoJob /\ j.stage = "lock" /\ node[j.i] # NoNode
      /\ UNCHANGED <<at, node, feature, alive>>
  BY DEF RewriteRequest, Doing, RequestPasses
<1>2. /\ j \in Job /\ GoodJob(j) /\ RelayOf[j.i] = r  BY <1>1, JobType
<1>3. /\ m \in Packet /\ m.op = "BOOTREQUEST" /\ m.giaddr = j.m.giaddr
      /\ m.origin = j.m.origin /\ m.astray = j.m.astray
  BY <1>1, RewrittenType
<1>4. CASE m.giaddr # 0
  <2>1. Send(r, m)  BY <1>4 DEF RewriteRequest
  <2> HIDE DEF m, j
  <2>2. ~j.m.astray /\ ~j.stale => at[j.m.giaddr] = j.m.origin
    BY <1>2, <1>3, <1>4 DEF GoodJob, Giaddr
  <2>3. m.giaddr # 0 /\ ~m.astray /\ ~job[r].stale => at[m.giaddr] = m.origin
    BY <1>3, <2>2 DEF j
  <2> QED  BY <1>1, <1>3, <2>1, <2>3, SendStep
<1>5. CASE m.giaddr = 0
  <2> DEFINE k == [j EXCEPT !.stage = "gateway", !.m = m]
  <2>1. /\ job' = [job EXCEPT ![r] = k] /\ UNCHANGED inbox
    <3>1. /\ job' = [job EXCEPT ![r].stage = "gateway", ![r].m = m] /\ UNCHANGED inbox
      BY <1>5 DEF RewriteRequest
    <3> HIDE DEF m
    <3> QED  BY <1>2, <3>1 DEF IInv, TypeOK
  <2> HIDE DEF m, j
  <2>2. /\ k \in Job /\ k.stage = "gateway" /\ k.m = m /\ k.i = j.i /\ k.ip = j.ip
        /\ k.stale = j.stale
    BY <1>2, <1>3 DEF Job
  <2> HIDE DEF k
  <2>3. Giaddr(k) = j.ip /\ Giaddr(j) = j.ip
    BY <1>1, <1>3, <1>5, <2>2 DEF Giaddr, j
  <2>4. GoodJob(k) /\ RelayOf[k.i] = r
    BY <1>1, <1>2, <1>3, <1>5, <2>2, <2>3 DEF GoodJob
  <2>5. /\ inbox' \in [Relay -> Seq(GoodPackets)]
        /\ \A q \in Relay : Len(inbox'[q]) <= Capacity
    BY <2>1 DEF IInv, TypeOK, StampsHold, GoodPackets
  <2> QED  BY <1>1, <2>1, <2>2, <2>4, <2>5, RequestStep
<1> QED  BY <1>4, <1>5

LEMMA TestGatewayStep ==
  ASSUME IInv, NEW r \in Relay, TestGateway(r)
  PROVE  IInv'
<1> DEFINE j == job[r]
<1>1. /\ job[r] # NoJob /\ j.stage = "gateway" /\ UNCHANGED <<at, node, feature, alive>>
  BY DEF TestGateway, Doing
<1>2. /\ j \in Job /\ GoodJob(j) /\ RelayOf[j.i] = r /\ j.m \in Packet /\ j.ip \in Address
      /\ j.m.giaddr = 0 /\ j.m.op = "BOOTREQUEST" /\ node[j.i] # NoNode
  BY <1>1, JobType DEF GoodJob
<1>3. CASE Gateway(j.i) # 0 /\ at[Gateway(j.i)] = j.i
  <2> DEFINE k == [j EXCEPT !.stage = "stamp", !.stale = FALSE]
  <2>1. /\ job' = [job EXCEPT ![r] = k] /\ UNCHANGED inbox
    <3>1. /\ job' = [job EXCEPT ![r].stage = "stamp", ![r].stale = FALSE] /\ UNCHANGED inbox
      BY <1>3 DEF TestGateway
    <3> QED  BY <1>2, <3>1 DEF IInv, TypeOK
  <2> HIDE DEF j
  <2>2. /\ k \in Job /\ k.stage = "stamp" /\ k.m = j.m /\ k.i = j.i /\ k.stale = FALSE
    BY <1>2 DEF Job
  <2> HIDE DEF k
  <2>3. Giaddr(k) = Gateway(j.i)  BY <1>2, <2>2 DEF Giaddr
  <2>4. GoodJob(k) /\ RelayOf[k.i] = r
    BY <1>2, <1>3, <2>2, <2>3 DEF GoodJob
  <2>5. /\ inbox' \in [Relay -> Seq(GoodPackets)]
        /\ \A q \in Relay : Len(inbox'[q]) <= Capacity
    BY <2>1 DEF IInv, TypeOK, StampsHold, GoodPackets
  <2> QED  BY <1>1, <2>1, <2>2, <2>4, <2>5, RequestStep
<1>4. CASE ~(Gateway(j.i) # 0 /\ at[Gateway(j.i)] = j.i)
  <2> DEFINE m == [j.m EXCEPT !.giaddr = j.ip]
  <2>1. Send(r, m)  BY <1>4 DEF TestGateway
  <2> HIDE DEF j
  <2>2. /\ m \in Packet /\ m.op = "BOOTREQUEST" /\ m.giaddr = j.ip
        /\ m.origin = j.m.origin /\ m.astray = j.m.astray
    BY <1>2 DEF Packet
  <2>3. ~j.m.astray /\ ~j.stale => at[j.ip] = j.m.origin
    BY <1>1, <1>2 DEF GoodJob, Giaddr, j
  <2> HIDE DEF m
  <2>4. m.giaddr # 0 /\ ~m.astray /\ ~job[r].stale => at[m.giaddr] = m.origin
    BY <2>2, <2>3 DEF j
  <2> QED  BY <1>1, <2>1, <2>2, <2>4, SendStep
<1> QED  BY <1>3, <1>4

LEMMA StampGatewayStep ==
  ASSUME IInv, NEW r \in Relay, StampGateway(r)
  PROVE  IInv'
<1> DEFINE j == job[r]
           m == [j.m EXCEPT !.giaddr = Gateway(j.i)]
<1>1. /\ job[r] # NoJob /\ j.stage = "stamp" /\ UNCHANGED <<at, node, feature, alive>>
      /\ Send(r, m)
  BY DEF StampGateway, Doing
<1>2. /\ j \in Job /\ GoodJob(j) /\ j.m \in Packet /\ j.i \in Interface
      /\ j.m.giaddr = 0 /\ j.m.op = "BOOTREQUEST"
  BY <1>1, JobType DEF GoodJob
<1> HIDE DEF j
<1>3. Gateway(j.i) \in Address \cup {0}  BY <1>2, GatewayType DEF IInv
<1>4. /\ m \in Packet /\ m.op = "BOOTREQUEST" /\ m.giaddr = Gateway(j.i)
      /\ m.origin = j.m.origin /\ m.astray = j.m.astray
  BY <1>2, <1>3 DEF Packet
<1>5. Giaddr(j) = Gateway(j.i)  BY <1>1, <1>2 DEF Giaddr
<1> HIDE DEF m
<1>6. m.giaddr # 0 /\ ~m.astray /\ ~job[r].stale => at[m.giaddr] = m.origin
  BY <1>2, <1>4, <1>5 DEF GoodJob, j
<1> QED  BY <1>1, <1>4, <1>6, SendStep DEF j

\* Steps that only drop packets or jobs.
LEMMA DropRequestStep ==
  ASSUME IInv, NEW r \in Relay, DropRequest(r)
  PROVE  IInv'
<1>1. /\ inbox' \in [Relay -> Seq(GoodPackets)]
      /\ \A q \in Relay : Len(inbox'[q]) <= Capacity
  BY DEF DropRequest, IInv, TypeOK, StampsHold, GoodPackets
<1>2. NoJob \in Job \cup {NoJob} /\ job' = [job EXCEPT ![r] = NoJob]
      /\ UNCHANGED <<at, node, feature, alive>>
  BY DEF DropRequest
<1> QED  BY <1>1, <1>2, RequestStep

LEMMA ReplyStep ==
  ASSUME IInv, NEW r \in Relay,
         DropReply(r) \/ \E i \in Interface : RelayToClient(r, i)
  PROVE  IInv'
<1>1. /\ inbox[r] # <<>> /\ inbox' = Taken(r)
      /\ UNCHANGED <<at, node, feature, alive, job>>
  BY DEF DropReply, RelayToClient, Receives
<1>2. /\ Taken(r) \in [Relay -> Seq(GoodPackets)]
      /\ \A q \in Relay : Len(Taken(r)[q]) <= Capacity
  BY <1>1, TakenType DEF IInv
<1> QED  BY <1>1, <1>2, SocketsStep

LEMMA PacketLostStep ==
  ASSUME IInv, NEW r \in Relay, PacketLost(r)
  PROVE  IInv'
<1>1. PICK k \in DOMAIN inbox[r] : inbox' = [inbox EXCEPT ![r] = RemoveAt(inbox[r], k)]
  BY DEF PacketLost
<1>2. \A q \in Relay : inbox[q] \in Seq(GoodPackets) /\ Len(inbox[q]) <= Capacity
  BY DEF IInv, TypeOK, StampsHold, GoodPackets
<1> DEFINE s == inbox[r]
<1>3. s \in Seq(GoodPackets) /\ k \in 1..Len(s) /\ Len(s) <= Capacity /\ Capacity \in Nat
  BY <1>2, PacketsAssumption
<1> HIDE DEF s
<1>4. /\ SubSeq(s, 1, k-1) \in Seq(GoodPackets) /\ SubSeq(s, k+1, Len(s)) \in Seq(GoodPackets)
      /\ Len(SubSeq(s, 1, k-1)) = k - 1 /\ Len(SubSeq(s, k+1, Len(s))) = Len(s) - k
  BY <1>3
<1>5. RemoveAt(s, k) \in Seq(GoodPackets) /\ Len(RemoveAt(s, k)) = Len(s) - 1
  <2> DEFINE before == SubSeq(s, 1, k-1)
             after == SubSeq(s, k+1, Len(s))
  <2>1. RemoveAt(s, k) = before \o after  BY DEF RemoveAt
  <2>2. k \in Int /\ Len(s) \in Int  BY <1>3
  <2>3. /\ before \in Seq(GoodPackets) /\ after \in Seq(GoodPackets)
        /\ Len(before) = k - 1 /\ Len(after) = Len(s) - k
    BY <1>4
  <2> HIDE DEF before, after
  <2>4. before \o after \in Seq(GoodPackets)
        /\ Len(before \o after) = Len(before) + Len(after)
    BY <2>3
  <2> QED  BY <2>1, <2>2, <2>3, <2>4
<1>6. /\ inbox' \in [Relay -> Seq(GoodPackets)]
      /\ \A q \in Relay : Len(inbox'[q]) <= Capacity
  BY <1>1, <1>2, <1>3, <1>5 DEF s, IInv, TypeOK
<1> QED  BY <1>6, SocketsStep DEF PacketLost

LEMMA RestartStep ==
  ASSUME IInv, NEW r \in Relay, Restart(r)
  PROVE  IInv'
<1>1. \A q \in Relay : inbox[q] \in Seq(GoodPackets) /\ Len(inbox[q]) <= Capacity
  BY DEF IInv, TypeOK, StampsHold, GoodPackets
<1>2. <<>> \in Seq(GoodPackets) /\ Len(<<>>) = 0 /\ Capacity \in Nat
  BY PacketsAssumption
<1>3. /\ inbox' \in [Relay -> Seq(GoodPackets)]
      /\ \A q \in Relay : Len(inbox'[q]) <= Capacity
  BY <1>1, <1>2 DEF Restart, IInv, TypeOK
<1>4. /\ inbox' \in [Relay -> Seq(Packet)]
      /\ \A q \in Relay : inbox'[q] \in Seq({m \in Packet : GoodPacket(m)'})
  BY <1>3, InboxStep DEF IInv, Restart
<1>5. /\ feature' \in [Relay -> UNION {Features[q] : q \in Relay}]
      /\ \A q \in Relay : feature'[q] \in Features[q]
  <2>1. \A q \in Relay : Default \in Features[q]  BY PacketsAssumption
  <2> QED  BY <2>1 DEF Restart, IInv, TypeOK
<1>6. DOMAIN node' = Interface /\ \A i \in Interface : node'[i] \in Nodes[i] \cup {NoNode}
  BY DEF Restart, IInv, TypeOK
<1>7. job' \in [Relay -> Job \cup {NoJob}]  BY DEF Restart, IInv, TypeOK
<1>8. ASSUME NEW q \in Relay, job'[q] # NoJob
      PROVE  GoodJob(job[q])' /\ RelayOf[job'[q].i] = q
  <2>1. q # r /\ job'[q] = job[q]  BY <1>8 DEF Restart, IInv, TypeOK
  <2>2. GoodJob(job[q]) /\ RelayOf[job[q].i] = q /\ job[q].i \in Interface
    BY <1>8, <2>1, JobType
  <2>3. at' = at /\ node'[job[q].i] = node[job[q].i]  BY <2>1, <2>2 DEF Restart
  <2> QED  BY <2>1, <2>2, <2>3 DEF GoodJob, Giaddr, Gateway
<1> QED  BY <1>3, <1>4, <1>5, <1>6, <1>7, <1>8 DEF IInv, TypeOK, StampsHold, Restart

\* A write of a gateway marks the job that is about to read it again; servers and
\* nodes are not written while a receiver has the semaphore.
LEMMA ConfigureInterfaceStep ==
  ASSUME IInv, ConfigureInterface
  PROVE  IInv'
<1>0. PICK i \in Interface : \E n \in Nodes[i] \cup {NoNode} :
        /\ HoldsLock(RelayOf[i]) => n # NoNode
        /\ node' = [node EXCEPT ![i] = n]
        /\ job' = [r \in Relay |->
             IF Doing(r, "stamp") /\ job[r].i = i THEN [job[r] EXCEPT !.stale = TRUE]
             ELSE job[r]]
  BY DEF ConfigureInterface
<1>1. PICK n \in Nodes[i] \cup {NoNode} :
        /\ HoldsLock(RelayOf[i]) => n # NoNode
        /\ node' = [node EXCEPT ![i] = n]
        /\ job' = [r \in Relay |->
             IF Doing(r, "stamp") /\ job[r].i = i THEN [job[r] EXCEPT !.stale = TRUE]
             ELSE job[r]]
  BY <1>0
<1>2. UNCHANGED <<at, feature, alive, inbox>>  BY DEF ConfigureInterface
<1>3. DOMAIN node' = Interface /\ \A k \in Interface : node'[k] \in Nodes[k] \cup {NoNode}
  BY <1>1 DEF IInv, TypeOK
<1>4. \A q \in Relay : inbox'[q] \in Seq({m \in Packet : GoodPacket(m)'})
  BY <1>2 DEF IInv, StampsHold, GoodPacket
<1>5. ASSUME NEW r \in Relay
      PROVE  /\ job'[r] \in Job \cup {NoJob}
             /\ job'[r] # NoJob => GoodJob(job[r])' /\ RelayOf[job'[r].i] = r
  <2> DEFINE j == job[r]
  <2>1. CASE j = NoJob  BY <1>1, <2>1 DEF Doing
  <2>2. CASE j # NoJob
    <3>1. /\ j \in Job /\ GoodJob(j) /\ RelayOf[j.i] = r /\ j.i \in Interface
          /\ j.stage \in {"lock", "gateway", "stamp"}
      BY <2>2, JobType DEF Job
    <3>2. j.i # i => node'[j.i] = node[j.i]  BY <1>1, <3>1
    <3>3. j.stage # "lock" => node'[j.i] # NoNode
      <4>1. CASE j.i = i /\ j.stage # "lock"
        <5>1. HoldsLock(r)  BY <2>2, <3>1, <4>1 DEF HoldsLock, Doing
        <5>2. RelayOf[i] = r  BY <3>1, <4>1
        <5> QED  BY <1>1, <4>1, <5>1, <5>2 DEF IInv, TypeOK
      <4>2. CASE j.i # i  BY <3>1, <3>2, <4>2 DEF GoodJob
      <4> QED  BY <4>1, <4>2
    <3>4. CASE j.stage = "stamp" /\ j.i = i
      <4>1. job'[r] = [j EXCEPT !.stale = TRUE]  BY <1>1, <2>2, <3>4 DEF Doing
      <4> HIDE DEF j
      <4>2. /\ job'[r] \in Job /\ job'[r].stale = TRUE /\ job'[r].m = j.m
            /\ job'[r].i = j.i /\ job'[r].stage = j.stage
        BY <3>1, <4>1 DEF Job
      <4> QED  BY <1>2, <3>1, <3>3, <4>2 DEF GoodJob
    <3>5. CASE ~(j.stage = "stamp" /\ j.i = i)
      <4>1. job'[r] = j  BY <1>1, <2>2, <3>5 DEF Doing
      <4>2. j.stage = "stamp" => node'[j.i] = node[j.i]  BY <3>2, <3>5
      <4> HIDE DEF j
      <4> QED  BY <1>2, <3>1, <3>3, <4>1, <4>2 DEF GoodJob, Giaddr, Gateway
    <3> QED  BY <3>4, <3>5
  <2> QED  BY <2>1, <2>2
<1>6. job' \in [Relay -> Job \cup {NoJob}]  BY <1>1, <1>5
<1> QED  BY <1>2, <1>3, <1>4, <1>5, <1>6 DEF IInv, TypeOK, StampsHold

\* Steps that leave the sockets, the jobs, the nodes and the addresses alone.
LEMMA OtherStep ==
  ASSUME IInv, ConfigureFeatures \/ (\E r \in Relay : ReceiverEnds(r)) \/ UNCHANGED vars
  PROVE  IInv'
<1>1. UNCHANGED <<at, node, inbox, job>>
  BY DEF ConfigureFeatures, ReceiverEnds, vars
<1>2. StampsHold'
  <2>1. \A r \in Relay : inbox'[r] \in Seq({m \in Packet : GoodPacket(m)'})
    BY <1>1 DEF IInv, StampsHold, GoodPacket
  <2>2. \A r \in Relay : job'[r] # NoJob => GoodJob(job[r])' /\ RelayOf[job'[r].i] = r
    BY <1>1 DEF IInv, StampsHold, GoodJob, Giaddr, Gateway
  <2> QED  BY <2>1, <2>2 DEF StampsHold
<1>3. TypeOK'
  <2>1. CASE ConfigureFeatures
    <3>1. PICK r \in Relay, f \in UNION {Features[q] : q \in Relay} :
            f \in Features[r] /\ feature' = [feature EXCEPT ![r] = f]
      BY <2>1 DEF ConfigureFeatures
    <3>2. /\ feature' \in [Relay -> UNION {Features[q] : q \in Relay}]
          /\ \A q \in Relay : feature'[q] \in Features[q]
      BY <3>1 DEF IInv, TypeOK
    <3> QED  BY <1>1, <2>1, <3>2 DEF ConfigureFeatures, IInv, TypeOK
  <2>2. CASE \E r \in Relay : ReceiverEnds(r)
    BY <1>1, <2>2 DEF ReceiverEnds, IInv, TypeOK
  <2>3. CASE UNCHANGED vars  BY <1>1, <2>3 DEF vars, IInv, TypeOK
  <2> QED  BY <2>1, <2>2, <2>3
<1> QED  BY <1>2, <1>3 DEF IInv

\* Every packet under way, and every request a receiver is relaying, is what
\* StampsHold says.
THEOREM InductiveInvariant == Spec => []IInv
<1>1. Init => IInv
  <2> SUFFICES ASSUME Init PROVE IInv  OBVIOUS
  <2>1. <<>> \in Seq(Packet) /\ <<>> \in Seq({m \in Packet : GoodPacket(m)}) /\ Len(<<>>) = 0
    OBVIOUS
  <2>2. TypeOK
    <3>1. Capacity \in Nat  BY PacketsAssumption
    <3>2. feature \in [Relay -> UNION {Features[r] : r \in Relay}]
      BY PacketsAssumption DEF Init
    <3>3. at \in [Address -> Interface \cup {NoInterface}]
          /\ \A a \in Address : at[a] \in Places[a]
      BY PacketsAssumption DEF Init
    <3>4. \A r \in Relay : feature[r] \in Features[r]
      BY PacketsAssumption DEF Init
    <3>5. DOMAIN node = Interface /\ \A i \in Interface : node[i] \in Nodes[i] \cup {NoNode}
      BY DEF Init
    <3>6. /\ inbox \in [Relay -> Seq(Packet)]
          /\ \A r \in Relay : Len(inbox[r]) <= Capacity
      BY <2>1, <3>1 DEF Init
    <3>7. job \in [Relay -> Job \cup {NoJob}]  BY DEF Init
    <3> QED  BY <3>2, <3>3, <3>4, <3>5, <3>6, <3>7 DEF Init, TypeOK
  <2> QED  BY <2>1, <2>2 DEF Init, IInv, StampsHold
<1>2. IInv /\ [Next]_vars => IInv'
  <2> SUFFICES ASSUME IInv, [Next]_vars PROVE IInv'  OBVIOUS
  <2>1. CASE \E i \in Clients : ClientSends(i)  BY <2>1, ClientSendsStep
  <2>2. CASE AddressMoves \/ ConfigureInterface
    BY <2>2, AddressMovesStep, ConfigureInterfaceStep
  <2>3. ASSUME NEW r \in Relay, Receive(r)  PROVE IInv'
    BY <2>3, TakeRequestStep, DropRequestStep, RewriteRequestStep, TestGatewayStep,
       StampGatewayStep, ReplyStep DEF Receive
  <2>4. ASSUME NEW r \in Relay, PacketLost(r) \/ Restart(r)  PROVE IInv'
    BY <2>4, PacketLostStep, RestartStep
  <2> QED  BY <2>1, <2>2, <2>3, <2>4, OtherStep DEF Next
<1> QED  BY <1>1, <1>2, PTL DEF Spec

\* The types of packets, sockets, jobs, tables and features, for any network.
THEOREM TypeCorrect == Spec => []TypeOK
<1>1. IInv => TypeOK  BY DEF IInv
<1> QED  BY <1>1, InductiveInvariant, PTL

\* udpfwd_relay_to_dhcp_client sends a reply to the subnet its exchange began on,
\* unless the address that is its giaddr has moved since the first relay read it, or
\* that relay's gateway was written while it stamped the request.
THEOREM RepliesReachTheirSubnet == Spec => ReplyToItsClient
<1> DEFINE A == \A r \in Relay, i \in Interface :
              RelayToClient(r, i) => Head(inbox[r]).astray \/ Head(inbox[r]).origin = i
<1>1. IInv /\ [Next]_vars => [A]_vars
  <2> SUFFICES ASSUME IInv, NEW r \in Relay, NEW i \in Interface, RelayToClient(r, i)
               PROVE  Head(inbox[r]).astray \/ Head(inbox[r]).origin = i
    OBVIOUS
  <2> DEFINE m == Head(inbox[r])
  <2>1. inbox[r] # <<>> /\ m.op = "BOOTREPLY" /\ at[m.giaddr] = i
    BY DEF RelayToClient, Receives, ReplyPasses
  <2>2. m \in GoodPackets  BY <2>1, TakenType DEF IInv
  <2> HIDE DEF m
  <2>3. m.giaddr # 0 /\ (~m.astray => at[m.giaddr] = m.origin) /\ m.astray \in BOOLEAN
    BY <2>1, <2>2 DEF GoodPackets, GoodPacket, Packet
  <2>4. m.astray \/ m.origin = i  BY <2>1, <2>3
  <2> QED  BY <2>4 DEF m
<1>2. Spec => []IInv  BY InductiveInvariant
<1>3. Spec => [][A]_vars
  <2> HIDE DEF A
  <2> QED  BY <1>1, <1>2, PTL DEF Spec
<1> QED  BY <1>3 DEF ReplyToItsClient
================================================================================
