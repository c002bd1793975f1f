------------------------- MODULE Dhcpv6Config_proofs -------------------------
(***************************************************************************)
(* Theorems of Dhcpv6Config, for any interfaces, addresses and limit: no   *)
(* interface holds a server twice, the reference counts are exact, no      *)
(* array outgrows its slots or its node, whatever the loops that index the *)
(* arrays they compact, and the search by prefix, come to remove, and      *)
(* wherever the daemon dies; and what a first pass over a row copies.      *)
(***************************************************************************)
EXTENDS Dhcpv6Config, FiniteSetTheorems, WellFoundedInduction, TLAPS

-----------------------------------------------------------------------------
(* The invariant.  An array is a sequence over its own elements.           *)

Distinct(q) == \A i, k \in DOMAIN q : q[i] = q[k] => i = k

IsArray(q) == q \in Seq(ToSet(q)) /\ Distinct(q)

JobState ==
  {NoJob}
  \cup [stage : {"delete"}, p : Port, i : Nat \ {0}, n : Nat]
  \cup [stage : {"add", "flush"}, p : Port, i : Nat \ {0}]

\* The interfaces that refer to a.
Users(a) == {p \in Port : a \in ToSet(arr[p])}

\* Rows and their servers.
Rows ==
  /\ row \in [Port -> [exists : BOOLEAN, ucast : SUBSET Addr]]
  /\ \A p \in Port : row[p].ucast # {} => row[p].exists

Tables ==
  /\ arr = [p \in Port |-> arr[p]]
  /\ \A p \in Port : IsArray(arr[p]) /\ ToSet(arr[p]) \subseteq Addr
  /\ refs = [a \in Addr |-> refs[a]] /\ \A a \in Addr : refs[a] = Cardinality(Users(a))

\* No array outgrows its slots, or is there without a node.
Fits ==
  /\ nodes \subseteq Port
  /\ \A p \in Port : Len(arr[p]) <= MaxServers
  /\ \A p \in Port \ nodes : arr[p] = <<>>

JobInv == job \in JobState /\ (job.stage = "add" => job.p \in nodes)

IInv == Rows /\ Tables /\ Fits /\ JobInv

\* A daemon that has just started.
Empty ==
  nodes = {} /\ arr = [p \in Port |-> <<>>] /\ refs = [a \in Addr |-> 0] /\ job = NoJob

-----------------------------------------------------------------------------
(* Lemmas on arrays and their users.                                       *)

\* A sequence over some set is one over its elements.
LEMMA OwnElements ==
  ASSUME NEW S, NEW q \in Seq(S)
  PROVE  q \in Seq(ToSet(q)) /\ DOMAIN q = 1 .. Len(q) /\ Len(q) \in Nat
<1>1. Len(q) \in Nat /\ DOMAIN q = 1 .. Len(q) /\ q = [i \in 1 .. Len(q) |-> q[i]]
  OBVIOUS
<1>2. \A i \in 1 .. Len(q) : q[i] \in ToSet(q)
  BY <1>1 DEF ToSet
<1>3. q \in [1 .. Len(q) -> ToSet(q)]
  BY <1>1, <1>2
<1> QED  BY <1>1, <1>3

\* A server is taken for itself, so the search for one that is there finds a
\* slot: the first of those whose server is taken for it.
LEMMA SlotForFinds ==
  ASSUME NEW q, IsArray(q), NEW s \in ToSet(q), s \in Addr
  PROVE  SlotFor(q, s) \in 1 .. Len(q) /\ TakenFor(q[SlotFor(q, s)], s)
<1> DEFINE Found == {i \in 1 .. Len(q) : TakenFor(q[i], s)}
<1>1. DOMAIN q = 1 .. Len(q) /\ Len(q) \in Nat
  BY OwnElements DEF IsArray
<1>2. Found # {} /\ Found \subseteq Nat
  <2>1. PICK i \in 1 .. Len(q) : q[i] = s  BY <1>1 DEF ToSet
  <2>2. TakenFor(q[i], s)  BY <2>1, Dhcpv6Assumption DEF Dhcpv6Assumption, TakenFor
  <2> QED  BY <1>1, <2>2
<1>3. PICK i \in Found : \A k \in Found : ~(<<k, i>> \in OpToRel(<, Nat))
  <2> HIDE DEF Found
  <2> QED  BY <1>2, NatLessThanWellFounded, WFMin
<1>4. i \in 1 .. Len(q) /\ TakenFor(q[i], s) /\ i \in Nat  BY <1>1
<1>5. \A k \in 1 .. i - 1 : ~TakenFor(q[k], s)
  <2> SUFFICES ASSUME NEW k \in 1 .. i - 1, TakenFor(q[k], s) PROVE FALSE  OBVIOUS
  <2>1. k \in Found /\ k < i /\ k \in Nat  BY <1>1, <1>4
  <2>2. <<k, i>> \in OpToRel(<, Nat)  BY <1>4, <2>1 DEF OpToRel
  <2> QED  BY <1>3, <2>1, <2>2
<1> QED  BY <1>1, <1>4, <1>5 DEF SlotFor

\* Moving the last reference into a hole loses no other reference.
LEMMA DropSlotProperties ==
  ASSUME NEW q, IsArray(q), NEW i \in 1 .. Len(q)
  PROVE  /\ IsArray(DropSlot(q, i)) /\ Len(DropSlot(q, i)) = Len(q) - 1
         /\ ToSet(DropSlot(q, i)) = ToSet(q) \ {q[i]}
<1> DEFINE d == DropSlot(q, i)
           n == Len(q)
<1> SUFFICES ASSUME NEW S, q \in Seq(S), Distinct(q)
             PROVE  IsArray(d) /\ Len(d) = n - 1 /\ ToSet(d) = ToSet(q) \ {q[i]}
  BY DEF IsArray
<1>1. n \in Nat /\ n >= 1 /\ n - 1 \in Nat /\ DOMAIN q = 1 .. n
  OBVIOUS
<1>2. d = [k \in 1 .. n - 1 |-> IF k = i THEN q[n] ELSE q[k]]
  BY DEF DropSlot
<1>3. \A k \in 1 .. n - 1 : d[k] = (IF k = i THEN q[n] ELSE q[k]) /\ d[k] \in S
  BY <1>1, <1>2
<1>4. d \in Seq(S) /\ Len(d) = n - 1 /\ DOMAIN d = 1 .. n - 1
  BY <1>1, <1>2, <1>3
<1>5. Distinct(d)
  BY <1>1, <1>3, <1>4 DEF Distinct
<1>6. ToSet(d) \subseteq ToSet(q) \ {q[i]}
  BY <1>1, <1>3, <1>4 DEF Distinct, ToSet
<1>7. ASSUME NEW k \in 1 .. n, k # i  PROVE q[k] \in ToSet(d)
  <2>1. CASE k = n
    <3>1. i \in 1 .. n /\ i # n  BY <1>7, <2>1
    <3> HIDE DEF n, d
    <3>2. i \in 1 .. n - 1  BY <1>1, <3>1
    <3>3. d[i] = q[k]  BY <1>3, <2>1, <3>2
    <3> QED  BY <1>4, <3>2, <3>3 DEF ToSet
  <2>2. CASE k # n
    <3> HIDE DEF n, d
    <3>1. k \in 1 .. n - 1 /\ d[k] = q[k]  BY <1>1, <1>3, <1>7, <2>2
    <3> QED  BY <1>4, <3>1 DEF ToSet
  <2> QED  BY <2>1, <2>2
<1>8. ToSet(q) \ {q[i]} \subseteq ToSet(d)
  BY <1>1, <1>7 DEF ToSet
<1>9. IsArray(d)
  <2> HIDE DEF d
  <2> QED  BY <1>4, <1>5, OwnElements DEF IsArray
<1> QED  BY <1>4, <1>6, <1>8, <1>9

\* Storing a server that is not there yet.
LEMMA AppendArray ==
  ASSUME NEW q, IsArray(q), NEW s, s \notin ToSet(q)
  PROVE  /\ IsArray(Append(q, s)) /\ Len(Append(q, s)) = Len(q) + 1
         /\ ToSet(Append(q, s)) = ToSet(q) \cup {s}
<1> DEFINE d == Append(q, s)
           n == Len(q)
<1> SUFFICES ASSUME NEW S, q \in Seq(S), s \in S, Distinct(q)
             PROVE  IsArray(d) /\ Len(d) = n + 1 /\ ToSet(d) = ToSet(q) \cup {s}
  <2>1. q \in Seq(ToSet(q)) /\ n \in Nat /\ DOMAIN q = 1 .. n /\ Distinct(q)
    BY OwnElements DEF IsArray
  <2>2. q \in [1 .. n -> ToSet(q) \cup {s}]
    <3>1. q \in [1 .. n -> ToSet(q)]  BY <2>1
    <3> QED  BY <3>1
  <2>3. q \in Seq(ToSet(q) \cup {s})  BY <2>1, <2>2
  <2>4. s \in ToSet(q) \cup {s}  OBVIOUS
  <2> HIDE DEF d, n
  <2> QED  BY <2>1, <2>3, <2>4 DEF d, n
<1>1. /\ n \in Nat /\ DOMAIN q = 1 .. n /\ d \in Seq(S) /\ Len(d) = n + 1
      /\ DOMAIN d = 1 .. n + 1
  OBVIOUS
<1>2. d[n + 1] = s /\ \A k \in 1 .. n : d[k] = q[k]
  OBVIOUS
<1>3. \A k \in 1 .. n : q[k] # s
  BY <1>1 DEF ToSet
<1>4. Distinct(d)
  BY <1>1, <1>2, <1>3 DEF Distinct
<1>5. ToSet(d) = ToSet(q) \cup {s}
  BY <1>1, <1>2 DEF ToSet
<1>6. IsArray(d)
  <2> HIDE DEF d
  <2> QED  BY <1>1, <1>4, OwnElements DEF IsArray
<1> QED  BY <1>1, <1>5, <1>6

\* The users of a server can be counted.
LEMMA UsersCounted ==
  ASSUME NEW a
  PROVE  IsFiniteSet(Users(a)) /\ Cardinality(Users(a)) \in Nat
<1>1. IsFiniteSet(Port) /\ Users(a) \subseteq Port
  BY Dhcpv6Assumption DEF Dhcpv6Assumption, Users
<1> QED  BY <1>1, FS_Subset, FS_CardinalityType

\* The i-th address of a column is the one with i - 1 smaller ones.
Smaller(S, a) == {b \in S : b < a}

Sorted(S) ==
  [i \in 1 .. Cardinality(S) |-> CHOOSE a \in S : Cardinality(Smaller(S, a)) = i - 1]

\* A set of numbers is put in order, each of them once.
LEMMA SortedSet ==
  ASSUME NEW S, S \subseteq Nat, IsFiniteSet(S)
  PROVE  /\ Sorted(S) \in [1 .. Cardinality(S) -> S] /\ Cardinality(S) \in Nat
         /\ Distinct(Sorted(S)) /\ ToSet(Sorted(S)) = S
<1> DEFINE n == Cardinality(S)
           rank(a) == Cardinality(Smaller(S, a))
           r == [a \in S |-> rank(a) + 1]
<1>1. n \in Nat  BY FS_CardinalityType
<1>2. \A a \in S : IsFiniteSet(Smaller(S, a)) /\ rank(a) \in Nat /\ rank(a) < n
  <2> TAKE a \in S
  <2>1. Smaller(S, a) \subseteq S /\ a \notin Smaller(S, a)  BY DEF Smaller
  <2>2. IsFiniteSet(Smaller(S, a)) /\ rank(a) \in Nat
    BY <2>1, FS_Subset, FS_CardinalityType
  <2>3. Smaller(S, a) # S  BY <2>1
  <2>4. rank(a) <= n /\ (rank(a) = n => Smaller(S, a) = S)
    BY <2>1, FS_Subset, Zenon
  <2> QED  BY <1>1, <2>2, <2>3, <2>4
<1>3. \A a, b \in S : a < b => rank(a) < rank(b)
  <2> SUFFICES ASSUME NEW a \in S, NEW b \in S, a < b PROVE rank(a) < rank(b)
    OBVIOUS
  <2>0. \A c \in S : c \in Nat /\ (c < a => c < b)  OBVIOUS
  <2>1. Smaller(S, a) \cup {a} \subseteq Smaller(S, b) /\ a \notin Smaller(S, a)
    <3>1. ~(a < a)  OBVIOUS
    <3> QED  BY <2>0, <3>1, Zenon DEF Smaller
  <2>2. Cardinality(Smaller(S, a) \cup {a}) = rank(a) + 1
    BY <1>2, <2>1, FS_AddElement
  <2>3. Cardinality(Smaller(S, a) \cup {a}) <= rank(b)
    BY <1>2, <2>1, FS_Subset, Zenon
  <2> QED  BY <1>2, <2>2, <2>3
<1>4. \A a, b \in S : rank(a) = rank(b) => a = b
  <2> SUFFICES ASSUME NEW a \in S, NEW b \in S, rank(a) = rank(b), a # b PROVE FALSE
    OBVIOUS
  <2>1. a < b \/ b < a  OBVIOUS
  <2>2. rank(a) < rank(b) \/ rank(b) < rank(a)  BY <1>3, <2>1
  <2> HIDE DEF rank
  <2> QED  BY <1>2, <2>2
<1>5. \A i \in 1 .. n : \E a \in S : rank(a) = i - 1
  <2> HIDE DEF rank, n
  <2>1. r \in [S -> 1 .. n]  BY <1>1, <1>2
  <2>2. \A a, b \in S : r[a] = r[b] => a = b  BY <1>2, <1>4
  <2>3. r \in Injection(S, 1 .. n)  BY <2>1, <2>2 DEF Injection, IsInjective
  <2>4. IsFiniteSet(1 .. n) /\ Cardinality(1 .. n) = n  BY <1>1, FS_Interval
  <2>5. r \in Surjection(S, 1 .. n)
    <3> HIDE DEF r
    <3> QED  BY <2>3, <2>4, FS_Injection DEF n
  <2>6. \A i \in 1 .. n : \E a \in S : r[a] = i
    <3> HIDE DEF r
    <3> QED  BY <2>5 DEF Surjection
  <2>7. \A a \in S : r[a] = rank(a) + 1 /\ rank(a) \in Nat  BY <1>2
  <2> HIDE DEF r
  <2> SUFFICES ASSUME NEW i \in 1 .. n PROVE \E a \in S : rank(a) = i - 1
    OBVIOUS
  <2>8. PICK a \in S : r[a] = i  BY <2>6
  <2>9. rank(a) = i - 1  BY <1>1, <2>7, <2>8
  <2> QED  BY <2>9
<1> DEFINE q == Sorted(S)
<1>6. \A i \in 1 .. n : q[i] \in S /\ rank(q[i]) = i - 1
  <2> TAKE i \in 1 .. n
  <2>1. q[i] = CHOOSE a \in S : rank(a) = i - 1  BY DEF Sorted
  <2> HIDE DEF q, rank
  <2> QED  BY <1>5, <2>1
<1>7. DOMAIN q = 1 .. n /\ q \in [1 .. n -> S]
  <2>1. q = [i \in 1 .. n |-> q[i]]  BY DEF Sorted
  <2> HIDE DEF q
  <2> QED  BY <1>6, <2>1
<1> HIDE DEF q, rank, n
<1>8. Distinct(q)  BY <1>6, <1>7 DEF Distinct
<1>9. S \subseteq ToSet(q)
  <2> SUFFICES ASSUME NEW a \in S PROVE a \in ToSet(q)  OBVIOUS
  <2>1. PICK k \in 1 .. n : rank(a) = k - 1
    <3>1. PICK m \in Nat : m = rank(a) /\ m < n  BY <1>2
    <3>2. m + 1 \in 1 .. n /\ m = m + 1 - 1  BY <1>1, <3>1
    <3> QED  BY <3>1, <3>2
  <2>2. rank(q[k]) = rank(a) /\ q[k] \in S  BY <1>6, <2>1
  <2>3. q[k] = a  BY <1>4, <2>2
  <2> QED  BY <1>7, <2>3 DEF ToSet
<1>10. ToSet(q) \subseteq S  BY <1>6, <1>7 DEF ToSet
<1> QED  BY <1>1, <1>7, <1>8, <1>9, <1>10 DEF q, n

\* The row's array of servers is a column put in order.
LEMMA UcastSorted ==
  ASSUME Rows, NEW p \in Port
  PROVE  /\ Len(Ucast(p)) = Cardinality(row[p].ucast) /\ Len(Ucast(p)) \in Nat
         /\ Ucast(p) \in Seq(row[p].ucast) /\ DOMAIN Ucast(p) = 1 .. Len(Ucast(p))
         /\ Distinct(Ucast(p)) /\ ToSet(Ucast(p)) = row[p].ucast
<1> DEFINE S == row[p].ucast
<1>1. S \subseteq Addr  BY DEF Rows
<1>2. S \subseteq Nat /\ IsFiniteSet(S)
  BY <1>1, FS_Subset, Dhcpv6Assumption DEF Dhcpv6Assumption
<1>3. Ucast(p) = Sorted(S)  BY DEF Ucast, Sorted, Smaller
<1> HIDE DEF S
<1>4. /\ Ucast(p) \in [1 .. Cardinality(S) -> S] /\ Cardinality(S) \in Nat
      /\ Distinct(Ucast(p)) /\ ToSet(Ucast(p)) = S
  BY <1>2, <1>3, SortedSet
<1>5. Ucast(p) \in Seq(S) /\ Len(Ucast(p)) = Cardinality(S)  BY <1>4
<1> QED  BY <1>4, <1>5 DEF S

-----------------------------------------------------------------------------
(* The two operations on the tables.                                       *)

\* A server p does not have is stored, or refused by a full array.
LEMMA StoreKeeps ==
  ASSUME Tables, Fits, NEW p \in nodes, NEW a \in Addr, a \notin ToSet(arr[p]),
         StoreAddress(p, a)
  PROVE  Tables' /\ Fits' /\ nodes' = nodes
<1>1. CASE Len(arr[p]) >= MaxServers
  BY <1>1 DEF StoreAddress, tableVars, Tables, Fits, Users
<1>2. CASE ~(Len(arr[p]) >= MaxServers)
  <2> DEFINE q == Append(arr[p], a)
  <2>1. p \in Port /\ IsArray(arr[p])  BY DEF Tables, Fits
  <2>2. /\ nodes' = nodes /\ refs' = [refs EXCEPT ![a] = @ + 1]
        /\ arr' = [arr EXCEPT ![p] = q]
    BY <1>2 DEF StoreAddress
  <2>3. IsArray(q) /\ Len(q) = Len(arr[p]) + 1 /\ ToSet(q) = ToSet(arr[p]) \cup {a}
    BY <2>1, AppendArray
  <2> HIDE DEF q
  <2>4. arr' = [o \in Port |-> IF o = p THEN q ELSE arr[o]]  BY <2>1, <2>2 DEF Tables
  <2>5. Fits'
    <3>1. Len(arr[p]) \in Nat /\ MaxServers \in Nat
      BY <2>1, OwnElements, Dhcpv6Assumption DEF IsArray, Dhcpv6Assumption
    <3>2. Len(q) <= MaxServers  BY <1>2, <2>3, <3>1
    <3> QED  BY <2>1, <2>2, <2>4, <3>2 DEF Fits
  <2>6. \A o \in Port : IsArray(arr'[o]) /\ ToSet(arr'[o]) \subseteq Addr
    BY <2>3, <2>4 DEF Tables
  <2>7. ASSUME NEW b \in Addr  PROVE refs'[b] = Cardinality(Users(b)')
    <3>0. Users(b)' = {o \in Port : b \in ToSet(arr'[o])}  BY DEF Users
    <3>1. CASE b = a
      <4>1. Users(b)' = Users(b) \cup {p} /\ p \notin Users(b)
        BY <2>1, <2>3, <2>4, <3>0, <3>1 DEF Users
      <4>2. Cardinality(Users(b)') = Cardinality(Users(b)) + 1
        BY <4>1, UsersCounted, FS_AddElement
      <4> QED  BY <2>2, <3>1, <4>2 DEF Tables
    <3>2. CASE b # a
      <4>1. Users(b)' = Users(b)  BY <2>1, <2>3, <2>4, <3>0, <3>2 DEF Users
      <4> QED  BY <2>2, <3>2, <4>1 DEF Tables
    <3> QED  BY <3>1, <3>2
  <2>8. refs' = [b \in Addr |-> refs'[b]]  BY <2>2 DEF Tables
  <2>9. arr' = [o \in Port |-> arr'[o]]  BY <2>4
  <2> QED  BY <2>2, <2>5, <2>6, <2>7, <2>8, <2>9 DEF Tables
<1> QED  BY <1>1, <1>2

\* Whatever server the search for one of p's finds, it is one of p's, and is
\* removed from it and from no other interface.
LEMMA RemoveKeeps ==
  ASSUME Tables, Fits, NEW p \in Port, NEW i \in 1 .. Len(arr[p]),
         RemoveAddress(p, arr[p][i])
  PROVE  /\ Tables' /\ Fits'
         /\ \A q \in Port : q # p => arr'[q] = arr[q] /\ (q \in nodes') = (q \in nodes)
         /\ ToSet(arr'[p]) \subseteq ToSet(arr[p])
<1> DEFINE k == SlotFor(arr[p], arr[p][i])
           a == arr[p][k]
           q == DropSlot(arr[p], k)
<1>1. IsArray(arr[p]) /\ p \in nodes /\ ToSet(arr[p]) \subseteq Addr
  <2>1. arr[p] # <<>>  OBVIOUS
  <2> QED  BY <2>1 DEF Tables, Fits
<1>2. DOMAIN arr[p] = 1 .. Len(arr[p]) /\ Len(arr[p]) \in Nat
  BY <1>1, OwnElements DEF IsArray
<1>3. arr[p][i] \in ToSet(arr[p]) /\ arr[p][i] \in Addr  BY <1>1, <1>2 DEF ToSet
<1>4. k \in 1 .. Len(arr[p])  BY <1>1, <1>3, SlotForFinds
<1> HIDE DEF k
<1>5. /\ IsArray(q) /\ Len(q) = Len(arr[p]) - 1 /\ ToSet(q) = ToSet(arr[p]) \ {a}
      /\ a \in ToSet(arr[p])
  <2>1. IsArray(q) /\ Len(q) = Len(arr[p]) - 1 /\ ToSet(q) = ToSet(arr[p]) \ {a}
    BY <1>1, <1>4, DropSlotProperties
  <2> QED  BY <1>2, <1>4, <2>1 DEF ToSet
<1>6. /\ arr' = [arr EXCEPT ![p] = q] /\ refs' = [refs EXCEPT ![a] = @ - 1]
      /\ nodes' = IF q = <<>> THEN nodes \ {p} ELSE nodes
  BY DEF RemoveAddress, k
<1> HIDE DEF q, a
<1>7. arr' = [o \in Port |-> IF o = p THEN q ELSE arr[o]]  BY <1>6 DEF Tables
<1>8. Fits'
  <2>1. Len(q) <= MaxServers
    BY <1>2, <1>5, Dhcpv6Assumption DEF Fits, Dhcpv6Assumption
  <2> QED  BY <1>1, <1>6, <1>7, <2>1 DEF Fits
<1>9. \A o \in Port : IsArray(arr'[o]) /\ ToSet(arr'[o]) \subseteq Addr
  BY <1>1, <1>5, <1>7 DEF Tables
<1>10. ASSUME NEW b \in Addr  PROVE refs'[b] = Cardinality(Users(b)')
  <2>0. Users(b)' = {o \in Port : b \in ToSet(arr'[o])}  BY DEF Users
  <2>1. CASE b = a
    <3>1. Users(b)' = Users(b) \ {p} /\ p \in Users(b)
      BY <1>5, <1>7, <2>0, <2>1 DEF Users
    <3>2. Cardinality(Users(b)') = Cardinality(Users(b)) - 1
      BY <3>1, UsersCounted, FS_RemoveElement
    <3> QED  BY <1>6, <2>1, <3>2 DEF Tables
  <2>2. CASE b # a
    <3>1. Users(b)' = Users(b)  BY <1>5, <1>7, <2>0, <2>2 DEF Users
    <3> QED  BY <1>6, <2>2, <3>1 DEF Tables
  <2> QED  BY <2>1, <2>2
<1>11. refs' = [b \in Addr |-> refs'[b]]  BY <1>6 DEF Tables
<1>12. arr' = [o \in Port |-> arr'[o]]  BY <1>7
<1>13. Tables'  BY <1>9, <1>10, <1>11, <1>12 DEF Tables
<1>14. /\ \A o \in Port : o # p => arr'[o] = arr[o] /\ (o \in nodes') = (o \in nodes)
       /\ ToSet(arr'[p]) \subseteq ToSet(arr[p])
  BY <1>5, <1>6, <1>7
<1> QED  BY <1>8, <1>13, <1>14

\* A daemon that starts again has no tables.
LEMMA EmptyTables == Rows /\ Empty => IInv
<1> SUFFICES ASSUME Rows, Empty PROVE IInv  OBVIOUS
<1> USE DEF Empty
<1>1. <<>> \in Seq(ToSet(<<>>)) /\ DOMAIN <<>> = {} /\ Len(<<>>) = 0 /\ ToSet(<<>>) = {}
  BY DEF ToSet
<1>2. IsArray(<<>>)  BY <1>1 DEF IsArray, Distinct
<1>3. \A a : Users(a) = {}  BY <1>1 DEF Users
<1>4. Tables
  <2>1. ToSet(<<>>) \subseteq Addr  BY <1>1
  <2> QED  BY <1>2, <1>3, <2>1, FS_EmptySet DEF Tables
<1>5. Fits  BY <1>1, Dhcpv6Assumption DEF Fits, Dhcpv6Assumption
<1> QED  BY <1>4, <1>5 DEF IInv, JobInv, JobState, NoJob

\* A death of the daemon leaves nothing behind.
LEMMA RestartKeeps ==
  ASSUME IInv, Restart
  PROVE  IInv'
<1>1. Rows' /\ Empty'  BY DEF Restart, Empty, IInv, Rows
<1>2. (Rows /\ Empty => IInv)'  BY EmptyTables, PTL
<1> QED  BY <1>1, <1>2

-----------------------------------------------------------------------------
(* One turn of a loop.                                                     *)

\* What a job knows at each stage.
LEMMA JobShape ==
  ASSUME JobInv
  PROVE  /\ job = NoJob => job.stage = "none"
         /\ job.stage = "delete" => job \in [stage : {"delete"}, p : Port, i : Nat \ {0}, n : Nat]
         /\ job.stage \in {"add", "flush"} =>
              job \in [stage : {"add", "flush"}, p : Port, i : Nat \ {0}]
         /\ job.stage # "none" => job.p \in Port /\ job.i \in Nat \ {0}
BY DEF JobInv, JobState, NoJob

\* A transaction writes a row of servers, or deletes one.
LEMMA RowsWritten ==
  ASSUME Rows, NEW p \in Port, WriteRow(p)
  PROVE  Rows'
<1>1. PICK new \in {NoRow} \cup [exists : {TRUE}, ucast : SUBSET Addr] :
        row' = [row EXCEPT ![p] = new]
  BY DEF WriteRow
<1>2. NoRow \in [exists : BOOLEAN, ucast : SUBSET Addr] /\ NoRow.ucast = {}  BY DEF NoRow
<1>3. \A r \in [exists : {TRUE}, ucast : SUBSET Addr] :
        r \in [exists : BOOLEAN, ucast : SUBSET Addr] /\ r.exists
  OBVIOUS
<1>4. new \in [exists : BOOLEAN, ucast : SUBSET Addr] /\ (new.ucast # {} => new.exists)
  BY <1>2, <1>3
<1> QED  BY <1>1, <1>4 DEF Rows

\* Rows, flags and walks come and go; the tables and the job stay.
LEMMA OutsideStep ==
  ASSUME IInv, UNCHANGED <<tableVars, job>>, Rows'
  PROVE  IInv'
BY DEF IInv, Tables, Fits, JobInv, Users, tableVars

\* A loop begins, or hands over to the next.
LEMMA JobStep ==
  ASSUME IInv, UNCHANGED <<row, arr, refs>>, nodes \subseteq nodes', nodes' \subseteq Port,
         JobInv'
  PROVE  IInv'
BY DEF IInv, Rows, Tables, Fits, Users

\* dhcpv6r_handle_row_delete, slot by slot.
LEMMA DeleteLoop ==
  ASSUME IInv, DeleteStep \/ EndDelete
  PROVE  IInv'
<1>1. job \in [stage : {"delete"}, p : Port, i : Nat \ {0}, n : Nat]
  BY JobShape DEF IInv, DeleteStep, EndDelete
<1>2. CASE EndDelete
  BY <1>2, JobStep DEF EndDelete, IInv, JobInv, JobState, NoJob, tableVars, Fits
<1>3. CASE DeleteStep /\ job.i <= Len(arr[job.p]) /\ ~Misfiled(job.p, arr[job.p][job.i])
  <2>1. job.i \in 1 .. Len(arr[job.p]) /\ job.p \in Port
    <3>1. Len(arr[job.p]) \in Nat
      BY <1>1, OwnElements DEF IInv, Tables, IsArray
    <3> QED  BY <1>1, <1>3, <3>1
  <2>2. RemoveAddress(job.p, arr[job.p][job.i]) /\ job' = [job EXCEPT !.i = @ + 1]
    BY <1>3 DEF DeleteStep
  <2>3. Tables' /\ Fits'  BY <2>1, <2>2, RemoveKeeps DEF IInv
  <2>4. job' \in JobState /\ job'.stage = "delete"  BY <1>1, <2>2 DEF JobState
  <2>5. Rows'  BY <1>3 DEF IInv, Rows, DeleteStep
  <2> QED  BY <2>3, <2>4, <2>5 DEF IInv, JobInv
<1>4. CASE Restart
  BY <1>4, RestartKeeps
<1> QED  BY <1>2, <1>3, <1>4 DEF DeleteStep

\* dhcpv6r_get_ucast_entries_added, server by server: the search comes before
\* each store.
LEMMA AddLoop ==
  ASSUME IInv, AddStep \/ EndAdd
  PROVE  IInv'
<1>1. /\ job \in [stage : {"add", "flush"}, p : Port, i : Nat \ {0}]
      /\ job.stage = "add" /\ job.p \in nodes
  BY JobShape DEF IInv, JobInv, AddStep, EndAdd
<1>2. CASE EndAdd
  <2>1. job' = [job EXCEPT !.stage = "flush", !.i = 1]  BY <1>2 DEF EndAdd
  <2>2. job' \in [stage : {"add", "flush"}, p : Port, i : Nat \ {0}] /\ job'.stage = "flush"
    <3>1. job.p \in Port /\ DOMAIN job = {"stage", "p", "i"}  BY <1>1
    <3>2. job' = [stage |-> "flush", p |-> job.p, i |-> 1]  BY <2>1, <3>1
    <3> QED  BY <3>1, <3>2
  <2> QED  BY <1>2, <2>2, JobStep DEF EndAdd, IInv, JobInv, JobState, tableVars, Fits
<1>3. CASE AddStep
  <2> DEFINE a == Ucast(job.p)[job.i]
  <2>1. job' = [job EXCEPT !.i = @ + 1]  BY <1>3 DEF AddStep
  <2>2. job' \in JobState /\ job'.p = job.p  BY <1>1, <2>1 DEF JobState
  <2>3. CASE \E s \in ToSet(arr[job.p]) : TakenFor(s, a)
    <3>1. UNCHANGED <<row, tableVars>>  BY <1>3, <2>3 DEF AddStep
    <3> QED  BY <1>1, <2>2, <3>1, JobStep DEF IInv, JobInv, tableVars, Fits
  <2>4. CASE ~\E s \in ToSet(arr[job.p]) : TakenFor(s, a)
    <3>1. StoreAddress(job.p, a) /\ row' = row  BY <1>3, <2>4 DEF AddStep
    <3>2. a \in Addr
      <4>1. PICK p \in Port : p = job.p  BY <1>1
      <4>2. /\ Ucast(p) \in Seq(row[p].ucast) /\ DOMAIN Ucast(p) = 1 .. Len(Ucast(p))
            /\ Len(Ucast(p)) \in Nat /\ row[p].ucast \subseteq Addr
        BY UcastSorted DEF IInv, Rows
      <4>3. job.i \in 1 .. Len(Ucast(p))  BY <1>1, <1>3, <4>1, <4>2 DEF AddStep
      <4> QED  BY <4>1, <4>2, <4>3
    <3>3. a \notin ToSet(arr[job.p])
      BY <2>4, <3>2, Dhcpv6Assumption DEF Dhcpv6Assumption, TakenFor
    <3> HIDE DEF a
    <3>4. Tables' /\ Fits' /\ nodes' = nodes
      BY <1>1, <3>1, <3>2, <3>3, StoreKeeps DEF IInv
    <3> QED  BY <1>1, <2>2, <3>1, <3>4 DEF IInv, JobInv, Rows
  <2> QED  BY <2>3, <2>4
<1> QED  BY <1>2, <1>3

\* dhcpv6r_flush_removed_ucast_entries, slot by slot, whatever it compares.
LEMMA FlushLoop ==
  ASSUME IInv, FlushStep \/ EndFlush
  PROVE  IInv'
<1>1. job \in [stage : {"add", "flush"}, p : Port, i : Nat \ {0}] /\ job.stage = "flush"
  BY JobShape DEF IInv, FlushStep, EndFlush
<1>2. CASE EndFlush
  BY <1>2, JobStep DEF EndFlush, IInv, JobInv, JobState, NoJob, tableVars, Fits
<1>3. CASE FlushStep
  <2>1. job.i \in 1 .. Len(arr[job.p]) /\ job.p \in Port
    <3>1. Len(arr[job.p]) \in Nat
      BY <1>1, OwnElements DEF IInv, Tables, IsArray
    <3> QED  BY <1>1, <1>3, <3>1 DEF FlushStep
  <2>2. job' = [job EXCEPT !.i = @ + 1]  BY <1>3 DEF FlushStep
  <2>3. job' \in JobState /\ job'.stage = "flush"  BY <1>1, <2>2 DEF JobState
  <2>4. CASE UNCHANGED tableVars
    BY <1>3, <2>3, <2>4, JobStep DEF IInv, JobInv, tableVars, Fits, FlushStep
  <2>5. CASE RemoveAddress(job.p, arr[job.p][job.i])
    <3>1. Tables' /\ Fits'  BY <2>1, <2>5, RemoveKeeps DEF IInv
    <3>2. Rows'  BY <1>3 DEF IInv, Rows, FlushStep
    <3> QED  BY <2>3, <3>1, <3>2 DEF IInv, JobInv
  <2> QED  BY <1>3, <2>4, <2>5 DEF FlushStep
<1> QED  BY <1>2, <1>3

\* A walk comes to a row or to an interface.
LEMMA WalkStep ==
  ASSUME IInv, NEW p \in Port, RowDelete(p) \/ ConfigChange(p)
  PROVE  IInv'
<1>1. CASE RowDelete(p)
  <2>1. UNCHANGED <<row, tableVars>>  BY <1>1 DEF RowDelete
  <2>2. Len(arr[p]) \in Nat  BY OwnElements DEF IInv, Tables, IsArray
  <2>3. job' \in JobState /\ job'.stage # "add"
    BY <1>1, <2>2 DEF RowDelete, JobState, NoJob
  <2> QED  BY <2>1, <2>3, JobStep DEF IInv, JobInv, tableVars, Fits
<1>2. CASE ConfigChange(p)
  <2>1. nodes' = nodes \cup {p} /\ UNCHANGED <<row, arr, refs>>  BY <1>2 DEF ConfigChange
  <2>2. job' \in JobState /\ (job'.stage = "add" => job'.p = p)
    BY <1>2 DEF ConfigChange, JobState, NoJob
  <2> QED  BY <2>1, <2>2, JobStep DEF IInv, JobInv, Fits
<1> QED  BY <1>1, <1>2

-----------------------------------------------------------------------------
(* The first pass over a row.                                              *)

\* A pass deletes before it adds, and visits an interface once in each walk.
WalkInv ==
  /\ nodeWalk \subseteq nodes
  /\ rowWalk \subseteq idl.changed
  /\ \A p \in idl.changed : p \in Port /\ row[p].exists
  /\ pc = "idle" => job.stage = "none" /\ rowWalk = {} /\ nodeWalk = {}
  /\ job.stage = "delete" => job.p \notin nodeWalk /\ job.p \notin fresh
  /\ job.stage = "add" \/ job.stage = "flush" => nodeWalk = {}

\* Whether the change of a row is still to be handled.
Changed(p) == p \in (IF pc = "idle" THEN idl.changed ELSE rowWalk)

\* What the first n turns of the adding loop store.
First(p, n) == [k \in 1 .. (IF n <= MaxServers THEN n ELSE MaxServers) |-> Ucast(p)[k]]

Adding(p) == job.stage = "add" /\ job.p = p

\* An interface whose row rests since it was first handled, and whose servers
\* are not taken for each other: without a node they are still to come; with
\* one it has, or is getting, the first of them.
Copied(p) ==
  /\ ~Adding(p) => arr[p] = First(p, Len(Ucast(p)))
  /\ Adding(p) => arr[p] = First(p, job.i - 1) /\ job.i <= Len(Ucast(p)) + 1

Handled(p) ==
  /\ row[p].exists /\ ~Changed(p) /\ ToSet(arr[p]) \subseteq row[p].ucast
  /\ Apart(row[p].ucast) => Copied(p)

Pending(p) ==
  row[p].ucast # {} /\ Apart(row[p].ucast) => idl.ucastModified /\ Changed(p)

FreshInv ==
  /\ fresh \subseteq Port
  /\ \A p \in fresh \ nodes : Pending(p)
  /\ \A p \in fresh \cap nodes : Handled(p)

PassInv == WalkInv /\ FreshInv

\* What one more turn stores.
LEMMA FirstStep ==
  ASSUME Rows, NEW p \in Port, NEW i \in 1 .. Len(Ucast(p))
  PROVE  LET q == First(p, i - 1) IN
         /\ Len(q) = (IF i - 1 <= MaxServers THEN i - 1 ELSE MaxServers)
         /\ Ucast(p)[i] \notin ToSet(q)
         /\ Len(q) >= MaxServers => First(p, i) = q
         /\ Len(q) < MaxServers => First(p, i) = Append(q, Ucast(p)[i])
<1> DEFINE U == Ucast(p)
           q == First(p, i - 1)
           m == IF i - 1 <= MaxServers THEN i - 1 ELSE MaxServers
<1>1. /\ Len(U) \in Nat /\ DOMAIN U = 1 .. Len(U) /\ Distinct(U)
      /\ \A k \in 1 .. Len(U) : U[k] \in row[p].ucast
  BY UcastSorted
<1>2. MaxServers \in Nat /\ m \in Nat /\ m <= i - 1 /\ m < Len(U) /\ i \in Nat
  BY <1>1, Dhcpv6Assumption DEF Dhcpv6Assumption
<1>3. q = [k \in 1 .. m |-> U[k]]  BY DEF First
<1>4. First(p, i) = [k \in 1 .. (IF i <= MaxServers THEN i ELSE MaxServers) |-> U[k]]
  BY DEF First
<1> HIDE DEF U, q
<1>5. q \in Seq(row[p].ucast) /\ Len(q) = m
  <2>1. \A k \in 1 .. m : U[k] \in row[p].ucast  BY <1>1, <1>2
  <2> QED  BY <1>2, <1>3, <2>1
<1>6. U[i] \notin ToSet(q)
  <2> SUFFICES ASSUME NEW k \in 1 .. m, q[k] = U[i] PROVE FALSE
    BY <1>2, <1>3, <1>5 DEF ToSet
  <2>1. U[k] = U[i] /\ k < i /\ k \in DOMAIN U /\ i \in DOMAIN U
    BY <1>1, <1>2, <1>3 DEF U
  <2> QED  BY <1>2, <2>1, <1>1 DEF Distinct
<1>7. ASSUME m >= MaxServers PROVE First(p, i) = q
  <2>1. m = MaxServers /\ (IF i <= MaxServers THEN i ELSE MaxServers) = MaxServers
    BY <1>2, <1>7
  <2> QED  BY <1>3, <1>4, <2>1
<1>8. ASSUME m < MaxServers PROVE First(p, i) = Append(q, U[i])
  <2>1. m = i - 1 /\ (IF i <= MaxServers THEN i ELSE MaxServers) = i
    BY <1>2, <1>8
  <2>2. First(p, i) = [k \in 1 .. i |-> U[k]]  BY <1>4, <2>1
  <2>3. Append(q, U[i]) = [k \in 1 .. i |-> IF k = i THEN U[i] ELSE q[k]]
    BY <1>2, <1>5, <2>1
  <2>4. \A k \in 1 .. i : (IF k = i THEN U[i] ELSE q[k]) = U[k]
    BY <1>2, <1>3, <2>1
  <2> QED  BY <2>2, <2>3, <2>4
<1> QED  BY <1>5, <1>6, <1>7, <1>8 DEF U, q

\* A daemon that starts again has every row to handle.
LEMMA RestartKeepsPass ==
  ASSUME Rows, Restart
  PROVE  PassInv'
<1>1. WalkInv'  BY DEF Restart, WalkInv, NoJob
<1>2. FreshInv'  BY DEF Restart, FreshInv, Pending, Changed, Rows
<1> QED  BY <1>1, <1>2 DEF PassInv

\* A transaction leaves an interface fresh only when its row is still to come.
LEMMA WriteRowKeepsPass ==
  ASSUME IInv, PassInv, NEW p \in Port, WriteRow(p)
  PROVE  PassInv'
<1> USE DEF PassInv
<1>1. PICK new \in {NoRow} \cup [exists : {TRUE}, ucast : SUBSET Addr] :
        /\ pc = "idle"
        /\ row' = [row EXCEPT ![p] = new]
        /\ idl' = [deleted       |-> idl.deleted \/ ~new.exists,
                   changed       |-> IF new.exists THEN idl.changed \cup {p}
                                     ELSE idl.changed \ {p},
                   ucastModified |-> idl.ucastModified \/ new.ucast # row[p].ucast]
        /\ fresh' = IF p \in nodes THEN fresh \ {p} ELSE fresh
        /\ UNCHANGED <<tableVars, pc, nodeWalk, rowWalk, job>>
  BY DEF WriteRow
<1>2. new \in [exists : BOOLEAN, ucast : SUBSET Addr] /\ (new.ucast # {} => new.exists)
  <2>1. CASE new = NoRow
    <3>1. NoRow \in [exists : BOOLEAN, ucast : SUBSET Addr] /\ NoRow.ucast = {}
      BY DEF NoRow
    <3> QED  BY <2>1, <3>1
  <2>2. CASE new \in [exists : {TRUE}, ucast : SUBSET Addr]
    BY <2>2
  <2> QED  BY <1>1, <2>1, <2>2
<1>3. row' = [q \in Port |-> IF q = p THEN new ELSE row[q]]
  BY <1>1 DEF IInv, Rows
<1>4. WalkInv'
  <2>1. job.stage = "none" /\ rowWalk = {} /\ nodeWalk = {}  BY <1>1 DEF WalkInv
  <2>2. \A q \in idl'.changed : q \in Port /\ row'[q].exists  BY <1>1, <1>3 DEF WalkInv
  <2> QED  BY <1>1, <2>1, <2>2 DEF WalkInv, tableVars
<1>5. FreshInv'
  <2>1. job.stage = "none" /\ job' = job /\ nodes' = nodes /\ arr' = arr /\ pc' = pc
    BY <1>1 DEF WalkInv, tableVars
  <2>2. fresh' \subseteq fresh /\ fresh' \subseteq Port  BY <1>1 DEF FreshInv
  <2>3. ASSUME NEW q \in fresh', q # p
        PROVE  /\ row'[q] = row[q] /\ Changed(q)' = Changed(q) /\ Ucast(q)' = Ucast(q)
    BY <1>1, <1>3, <2>1, <2>2, <2>3 DEF Changed, FreshInv, Ucast
  <2>4. ASSUME NEW q \in fresh' \ nodes'  PROVE Pending(q)'
    <3>1. CASE q # p  BY <1>1, <2>1, <2>2, <2>3, <2>4, <3>1 DEF FreshInv, Pending
    <3>2. CASE q = p
      <4>1. row'[p] = new /\ (row'[p].ucast # {} => new.exists)  BY <1>2, <1>3, <2>4, <3>2
      <4>2. new.exists => Changed(p)'  BY <1>1, <2>1 DEF Changed
      <4>3. Pending(p)  BY <2>1, <2>2, <2>4, <3>2 DEF FreshInv
      <4> QED  BY <1>1, <3>2, <4>1, <4>2, <4>3 DEF Pending
    <3> QED  BY <3>1, <3>2
  <2>5. ASSUME NEW q \in fresh' \cap nodes'  PROVE Handled(q)'
    <3>1. q # p  BY <1>1, <2>1, <2>5
    <3>2. Handled(q)  BY <2>1, <2>2, <2>5 DEF FreshInv
    <3>3. row'[q] = row[q] /\ Changed(q)' = Changed(q) /\ Ucast(q)' = Ucast(q)
      BY <2>3, <2>5, <3>1
    <3>4. Copied(q)' = Copied(q)  BY <2>1, <3>3 DEF Copied, Adding, First
    <3> QED  BY <2>1, <3>2, <3>3, <3>4 DEF Handled
  <2> QED  BY <2>2, <2>4, <2>5 DEF FreshInv
<1> QED  BY <1>4, <1>5

\* A pass begins with the changed rows, and ends when all are handled.
LEMMA PassKeepsPass ==
  ASSUME IInv, PassInv, Begin \/ EndPass
  PROVE  PassInv'
<1> USE DEF PassInv
<1>1. UNCHANGED <<row, tableVars, fresh, job>>  BY DEF Begin, EndPass
<1>3. WalkInv'
  <2>1. CASE Begin
    <3>1. pc = "idle" /\ pc' = "run" /\ idl' = idl /\ rowWalk' = idl.changed
          /\ nodeWalk' \subseteq nodes /\ job.stage = "none" /\ job' = job /\ nodes' = nodes
          /\ row' = row
      BY <1>1, <2>1 DEF Begin, WalkInv, tableVars
    <3> QED  BY <3>1 DEF WalkInv
  <2>2. CASE EndPass  BY <1>1, <2>2 DEF EndPass, WalkInv, NoChange, NoJob, tableVars
  <2> QED  BY <2>1, <2>2
<1>5. \A p : Copied(p)' = Copied(p)
  BY <1>1 DEF Copied, Adding, First, Ucast, tableVars
<1>6. CASE Begin
  <2>1. \A p : Changed(p)' = Changed(p)  BY <1>6 DEF Begin, Changed
  <2>2. idl' = idl  BY <1>6 DEF Begin
  <2> QED  BY <1>1, <1>3, <1>5, <2>1, <2>2 DEF FreshInv, Handled, Pending, tableVars
<1>7. CASE EndPass
  <2>1. \A p : ~Changed(p) /\ ~Changed(p)'  BY <1>7 DEF EndPass, Changed, NoChange
  <2> QED  BY <1>1, <1>3, <1>5, <2>1 DEF FreshInv, Handled, Pending, tableVars
<1> QED  BY <1>6, <1>7

\* Whether p is handled, and with what, in a step of the pass that leaves it alone.
LEMMA LeftAlone ==
  ASSUME FreshInv, UNCHANGED <<row, idl, fresh, pc>>, NEW p \in fresh,
         (p \in nodes') = (p \in nodes), (p \in rowWalk') = (p \in rowWalk),
         arr'[p] = arr[p], ~Adding(p), ~Adding(p)'
  PROVE  (p \notin nodes' => Pending(p)') /\ (p \in nodes' => Handled(p)')
<1>1. Changed(p)' = Changed(p)  BY DEF Changed
<1>2. Copied(p)' = Copied(p)
  <2>1. First(p, Len(Ucast(p)))' = First(p, Len(Ucast(p)))  BY DEF First, Ucast
  <2> QED  BY <2>1 DEF Copied
<1>3. p \notin nodes => Pending(p)  BY DEF FreshInv
<1>4. p \in nodes => Handled(p)  BY DEF FreshInv
<1> QED  BY <1>1, <1>2, <1>3, <1>4 DEF Handled, Pending

\* Deleting a row's servers is no matter of a fresh interface.
LEMMA DeleteKeepsPass ==
  ASSUME IInv, PassInv, (\E p \in Port : RowDelete(p)) \/ DeleteStep \/ EndDelete
  PROVE  PassInv'
<1> USE DEF PassInv
<1>1. CASE DeleteStep /\ Restart  BY <1>1, RestartKeepsPass DEF IInv
<1>2. CASE \E p \in Port : RowDelete(p)
  <2>1. PICK p \in Port : RowDelete(p)  BY <1>2
  <2>2. /\ UNCHANGED <<row, idl, tableVars, fresh, pc, rowWalk>>
        /\ pc = "run" /\ job.stage = "none" /\ p \in nodeWalk /\ nodeWalk' = nodeWalk \ {p}
        /\ \/ job' = NoJob
           \/ /\ ~row[p].exists
              /\ job' = [stage |-> "delete", p |-> p, i |-> 1, n |-> Len(arr[p])]
    <3>1. <<p, p>> \in NamePrefix  BY Dhcpv6Assumption DEF Dhcpv6Assumption
    <3> QED  BY <2>1, <3>1 DEF RowDelete, NoJob
  <2>4. job'.stage = "none" \/ (job'.stage = "delete" /\ job'.p = p /\ ~row[p].exists)
    BY <2>2 DEF NoJob
  <2>5. ~row[p].exists => p \notin fresh  BY <2>2 DEF WalkInv, FreshInv, Handled
  <2>6. WalkInv'  BY <2>2, <2>4, <2>5 DEF WalkInv, tableVars
  <2>7. \A q : ~Adding(q) /\ ~Adding(q)'  BY <2>2, <2>4 DEF Adding
  <2>8. FreshInv'
    BY <2>2, <2>7, LeftAlone DEF FreshInv, tableVars
  <2> QED  BY <2>6, <2>8
<1>3. CASE EndDelete
  <2>1. /\ UNCHANGED <<row, idl, tableVars, fresh, pc, nodeWalk, rowWalk>>
        /\ job.stage = "delete" /\ job'.stage = "none"
    BY <1>3 DEF EndDelete, NoJob
  <2>3. WalkInv'  BY <2>1 DEF WalkInv, tableVars
  <2>4. \A q : ~Adding(q) /\ ~Adding(q)'  BY <2>1 DEF Adding
  <2>5. FreshInv'  BY <2>1, <2>4, LeftAlone DEF FreshInv, tableVars
  <2> QED  BY <2>3, <2>5
<1>4. CASE DeleteStep /\ job.i <= Len(arr[job.p]) /\ ~Misfiled(job.p, arr[job.p][job.i])
  <2>1. job \in [stage : {"delete"}, p : Port, i : Nat \ {0}, n : Nat]
    BY <1>4, JobShape DEF IInv, DeleteStep
  <2> DEFINE p == job.p
  <2>2. /\ RemoveAddress(p, arr[p][job.i]) /\ job' = [job EXCEPT !.i = @ + 1]
        /\ UNCHANGED <<row, idl, fresh, pc, nodeWalk, rowWalk>>
    BY <1>4 DEF DeleteStep
  <2>3. p \in Port /\ job'.stage = "delete" /\ job'.p = p  BY <2>1, <2>2
  <2>4. p \notin nodeWalk /\ p \notin fresh  BY <2>1 DEF WalkInv
  <2>5. \A q \in Port : q # p => arr'[q] = arr[q] /\ (q \in nodes') = (q \in nodes)
    <3>1. Len(arr[p]) \in Nat  BY <2>3, OwnElements DEF IInv, Tables, IsArray
    <3>2. job.i \in 1 .. Len(arr[p])  BY <1>4, <2>1, <3>1
    <3> QED  BY <2>2, <2>3, <3>2, RemoveKeeps DEF IInv
  <2>7. WalkInv'
    <3>1. nodeWalk' \subseteq nodes'  BY <2>2, <2>4, <2>5 DEF WalkInv, IInv, Fits
    <3> QED  BY <2>1, <2>2, <2>3, <2>4, <3>1 DEF WalkInv
  <2>8. \A q : ~Adding(q) /\ ~Adding(q)'  BY <2>1, <2>3 DEF Adding
  <2>9. FreshInv'
    <3>1. \A q \in fresh : q \in Port /\ q # p  BY <2>4 DEF FreshInv
    <3> QED  BY <2>2, <2>5, <2>8, <3>1, LeftAlone DEF FreshInv
  <2> QED  BY <2>7, <2>9
<1> QED  BY <1>1, <1>2, <1>3, <1>4 DEF DeleteStep

\* A row is handled: a fresh interface gets a node, with nothing to store or
\* with everything still to be stored.
LEMMA ConfigChangeKeepsPass ==
  ASSUME IInv, PassInv, NEW p \in Port, ConfigChange(p)
  PROVE  PassInv'
<1> USE DEF PassInv
<1>1. /\ UNCHANGED <<row, idl, arr, refs, fresh, pc, nodeWalk>>
      /\ pc = "run" /\ job.stage = "none" /\ nodeWalk = {} /\ p \in rowWalk
      /\ rowWalk' = rowWalk \ {p} /\ nodes' = nodes \cup {p}
      /\ job' = IF idl.ucastModified THEN [stage |-> "add", p |-> p, i |-> 1] ELSE NoJob
  BY DEF ConfigChange, NoJob
<1>3. WalkInv'
  <2>1. job'.stage \in {"add", "none"}  BY <1>1 DEF NoJob
  <2> QED  BY <1>1, <2>1 DEF WalkInv
<1>4. \A q : ~Adding(q) /\ (Adding(q)' => q = p)  BY <1>1 DEF Adding, NoJob
<1>5. ASSUME NEW q \in fresh, q # p
      PROVE  /\ (q \in nodes') = (q \in nodes) /\ (q \in rowWalk') = (q \in rowWalk)
             /\ ~Adding(q) /\ ~Adding(q)' /\ arr'[q] = arr[q]
  BY <1>1, <1>4, <1>5
<1>6. ASSUME p \in fresh  PROVE Handled(p)'
  <2>1. Changed(p)  BY <1>1 DEF Changed
  <2>2. /\ p \notin nodes /\ arr[p] = <<>>
        /\ Apart(row[p].ucast) /\ row[p].ucast # {} => idl.ucastModified
    BY <1>6, <2>1 DEF FreshInv, Handled, Pending, IInv, Fits
  <2>3. ~Changed(p)' /\ row'[p].exists  BY <1>1 DEF Changed, WalkInv
  <2>4. ToSet(arr'[p]) \subseteq row'[p].ucast  BY <1>1, <2>2 DEF ToSet
  <2>5. Len(Ucast(p)) \in Nat /\ Len(Ucast(p)) = Cardinality(row[p].ucast)
    BY UcastSorted DEF IInv
  <2>6. First(p, 0) = <<>>  BY Dhcpv6Assumption DEF First, Dhcpv6Assumption
  <2>7. Ucast(p)' = Ucast(p)  BY <1>1 DEF Ucast
  <2>8. \A n : First(p, n)' = First(p, n)  BY <1>1, <2>7 DEF First
  <2>9. CASE idl.ucastModified
    <3>1. job' = [stage |-> "add", p |-> p, i |-> 1]  BY <1>1, <2>9
    <3>2. Adding(p)' /\ job'.i = 1 /\ job'.i - 1 = 0  BY <3>1 DEF Adding
    <3>3. First(p, job.i - 1)' = First(p, 0)  BY <3>2, <2>7 DEF First
    <3>4. Copied(p)'  BY <1>1, <2>2, <2>5, <2>6, <2>7, <3>2, <3>3 DEF Copied
    <3> QED  BY <2>3, <2>4, <3>4 DEF Handled
  <2>10. CASE ~idl.ucastModified
    <3>1. ~Adding(p)'  BY <1>1, <2>10 DEF Adding, NoJob
    <3>2. ASSUME Apart(row[p].ucast) PROVE Copied(p)'
      <4>1. Len(Ucast(p)) = 0  BY <2>2, <2>5, <2>10, <3>2, FS_EmptySet
      <4> QED  BY <1>1, <2>2, <2>6, <2>7, <2>8, <3>1, <4>1 DEF Copied
    <3>3. row' = row  BY <1>1
    <3>4. Apart(row[p].ucast)' => Copied(p)'  BY <3>2, <3>3
    <3> QED  BY <2>3, <2>4, <3>4 DEF Handled
  <2> QED  BY <2>9, <2>10
<1>7. FreshInv'
  <2>1. fresh' = fresh /\ fresh \subseteq Port /\ p \in nodes'  BY <1>1 DEF FreshInv
  <2>2. ASSUME NEW q \in fresh, q # p
        PROVE  (q \notin nodes' => Pending(q)') /\ (q \in nodes' => Handled(q)')
    BY <1>1, <1>5, <2>2, LeftAlone
  <2> QED  BY <1>6, <2>1, <2>2 DEF FreshInv
<1> QED  BY <1>3, <1>7

\* A turn of the adding loop, or its end.
LEMMA AddKeepsPass ==
  ASSUME IInv, PassInv, AddStep \/ EndAdd
  PROVE  PassInv'
<1> USE DEF PassInv
<1>0. PICK p \in Port : p = job.p
  BY JobShape DEF IInv, AddStep, EndAdd
<1>1. /\ job \in [stage : {"add", "flush"}, p : Port, i : Nat \ {0}]
      /\ job.stage = "add" /\ p \in nodes /\ p \in Port /\ p = job.p
      /\ UNCHANGED <<row, idl, fresh, pc, nodeWalk, rowWalk>>
  BY <1>0, JobShape DEF IInv, JobInv, AddStep, EndAdd
<1>2. /\ Len(Ucast(p)) \in Nat /\ DOMAIN Ucast(p) = 1 .. Len(Ucast(p))
      /\ \A k \in 1 .. Len(Ucast(p)) : Ucast(p)[k] \in row[p].ucast
  BY <1>1, UcastSorted DEF IInv
<1>3. /\ \A q \in Port : q # p => arr'[q] = arr[q]
      /\ nodes' = nodes /\ ToSet(arr'[p]) \subseteq ToSet(arr[p]) \cup row[p].ucast
      /\ job'.stage \in {"add", "flush"} /\ job'.p = p
  <2>1. CASE EndAdd
    <3>1. job' = [job EXCEPT !.stage = "flush", !.i = 1] /\ UNCHANGED tableVars
      BY <2>1 DEF EndAdd
    <3>2. job'.stage = "flush" /\ job'.p = p  BY <1>1, <3>1
    <3> QED  BY <3>1, <3>2 DEF tableVars
  <2>2. CASE AddStep
    <3>1. job'.stage = "add" /\ job'.p = p  BY <1>1, <2>2 DEF AddStep
    <3>2. CASE UNCHANGED tableVars  BY <3>1, <3>2 DEF tableVars
    <3>3. CASE StoreAddress(p, Ucast(p)[job.i]) /\ ~UNCHANGED tableVars
      <4> DEFINE a == Ucast(p)[job.i]
      <4>1. nodes' = nodes /\ arr' = [arr EXCEPT ![p] = Append(@, a)]
        BY <3>3 DEF StoreAddress
      <4>2. arr = [q \in Port |-> arr[q]] /\ IsArray(arr[p])  BY <1>1 DEF IInv, Tables
      <4>3. a \in row[p].ucast  BY <1>1, <1>2, <2>2 DEF AddStep
      <4> HIDE DEF a
      <4>4. ToSet(Append(arr[p], a)) \subseteq ToSet(arr[p]) \cup {a}
        <5>1. arr[p] \in Seq(ToSet(arr[p]))  BY <4>2 DEF IsArray
        <5> QED  BY <5>1 DEF ToSet
      <4> QED  BY <1>1, <3>1, <4>1, <4>2, <4>3, <4>4
    <3> QED  BY <1>1, <2>2, <3>2, <3>3 DEF AddStep
  <2> QED  BY <2>1, <2>2
<1>5. WalkInv'  BY <1>1, <1>3 DEF WalkInv
<1>6. \A q : (Adding(q) => q = p) /\ (Adding(q)' => q = p)  BY <1>1, <1>3 DEF Adding
<1>7. ASSUME p \in fresh, Apart(row[p].ucast)  PROVE Copied(p)'
  <2>1. arr[p] = First(p, job.i - 1) /\ job.i <= Len(Ucast(p)) + 1
    BY <1>1, <1>7 DEF FreshInv, Handled, Copied, Adding
  <2>2. Ucast(p)' = Ucast(p)  BY <1>1 DEF Ucast
  <2>3. CASE EndAdd
    <3>1. ~Adding(p)' /\ arr' = arr
      <4>1. job' = [job EXCEPT !.stage = "flush", !.i = 1] /\ UNCHANGED tableVars
        BY <2>3 DEF EndAdd
      <4>2. job'.stage = "flush"  BY <1>1, <4>1
      <4> QED  BY <4>1, <4>2 DEF Adding, tableVars
    <3>2. job.i - 1 = Len(Ucast(p))  BY <1>1, <1>2, <2>1, <2>3 DEF EndAdd
    <3>3. First(p, Len(Ucast(p)))' = First(p, Len(Ucast(p)))  BY <2>2 DEF First
    <3> QED  BY <2>1, <2>2, <3>1, <3>2, <3>3 DEF Copied
  <2>4. CASE AddStep
    <3>1. job' = [job EXCEPT !.i = @ + 1] /\ job.i \in 1 .. Len(Ucast(p))
      BY <1>1, <1>2, <2>4 DEF AddStep
    <3>2. Adding(p)' /\ job'.i = job.i + 1 /\ job'.i - 1 = job.i
      BY <1>1, <3>1 DEF Adding
    <3>3. First(p, job.i - 1)' = First(p, job.i)  BY <2>2, <3>2 DEF First
    <3> DEFINE a == Ucast(p)[job.i]
               q == First(p, job.i - 1)
    <3>4. /\ a \notin ToSet(q) /\ (Len(q) >= MaxServers => First(p, job.i) = q)
          /\ (Len(q) < MaxServers => First(p, job.i) = Append(q, a)) /\ Len(q) \in Nat
          /\ MaxServers \in Nat
      <4>1. Len(q) = (IF job.i - 1 <= MaxServers THEN job.i - 1 ELSE MaxServers)
        BY <1>1, <3>1, FirstStep DEF IInv
      <4>2. MaxServers \in Nat /\ Len(q) \in Nat
        BY <1>1, <4>1, Dhcpv6Assumption DEF Dhcpv6Assumption
      <4> QED  BY <1>1, <3>1, <4>2, FirstStep DEF IInv
    <3>5. StoreAddress(p, a)
      <4>1. ToSet(q) \subseteq row[p].ucast /\ a \in row[p].ucast
        BY <1>2, <1>7, <2>1, <3>1, <1>1 DEF FreshInv, Handled
      <4>2. ~\E s \in ToSet(q) : TakenFor(s, a)  BY <1>7, <3>4, <4>1 DEF Apart
      <4> QED  BY <1>1, <2>1, <2>4, <4>2 DEF AddStep
    <3> HIDE DEF a, q
    <3>6. arr'[p] = First(p, job.i)
      <4>1. arr[p] = q  BY <2>1 DEF q
      <4>2. CASE Len(q) >= MaxServers
        BY <3>4, <3>5, <4>1, <4>2 DEF StoreAddress, tableVars
      <4>3. CASE Len(q) < MaxServers
        <5>1. arr' = [arr EXCEPT ![p] = Append(@, a)]
          BY <3>4, <3>5, <4>1, <4>3 DEF StoreAddress
        <5>2. arr = [o \in Port |-> arr[o]]  BY DEF IInv, Tables
        <5>3. arr'[p] = Append(q, a)  BY <1>1, <4>1, <5>1, <5>2
        <5> QED  BY <3>4, <4>3, <5>3
      <4> QED  BY <3>4, <4>2, <4>3
    <3> QED  BY <1>1, <2>2, <3>1, <3>2, <3>3, <3>6 DEF Copied
  <2> QED  BY <2>3, <2>4
<1>8. ASSUME p \in fresh  PROVE Handled(p)'
  <2>1. row[p].exists /\ ~Changed(p) /\ ToSet(arr[p]) \subseteq row[p].ucast
    BY <1>1, <1>8 DEF FreshInv, Handled
  <2>2. row' = row /\ (~Changed(p))'  BY <1>1, <2>1 DEF Changed
  <2>3. ToSet(arr'[p]) \subseteq row[p].ucast  BY <1>3, <2>1
  <2>4. Apart(row[p].ucast)' => Copied(p)'  BY <1>7, <1>8, <2>2
  <2> QED  BY <2>1, <2>2, <2>3, <2>4 DEF Handled
<1>9. FreshInv'
  <2>1. fresh' = fresh /\ fresh \subseteq Port /\ p \in nodes'  BY <1>1, <1>3 DEF FreshInv
  <2>2. ASSUME NEW q \in fresh, q # p
        PROVE  (q \notin nodes' => Pending(q)') /\ (q \in nodes' => Handled(q)')
    <3>1. ~Adding(q) /\ ~Adding(q)' /\ arr'[q] = arr[q]  BY <1>3, <1>6, <2>1, <2>2
    <3> QED  BY <1>1, <1>3, <3>1, LeftAlone
  <2> QED  BY <1>8, <2>1, <2>2 DEF FreshInv
<1> QED  BY <1>5, <1>9

\* A turn of the flushing loop, or its end: a fresh interface whose servers are
\* not taken for each other has the first of the row's array, each in the slot
\* that is kept; another one loses some of the row's servers, and maybe its node.
LEMMA FlushKeepsPass ==
  ASSUME IInv, PassInv, FlushStep \/ EndFlush
  PROVE  PassInv'
<1> USE DEF PassInv
<1>0. PICK p \in Port : p = job.p
  BY JobShape DEF IInv, FlushStep, EndFlush
<1>1. /\ job \in [stage : {"add", "flush"}, p : Port, i : Nat \ {0}]
      /\ job.stage = "flush" /\ p \in Port /\ p = job.p
      /\ UNCHANGED <<row, idl, fresh, pc, nodeWalk, rowWalk>>
      /\ ~Adding(p)
  BY <1>0, JobShape DEF IInv, FlushStep, EndFlush, Adding
<1>2. nodeWalk = {}  BY <1>1 DEF WalkInv
<1>3. CASE UNCHANGED tableVars
  <2>1. job'.stage \in {"none", "flush"}
    BY <1>1 DEF FlushStep, EndFlush, NoJob
  <2>2. WalkInv'  BY <1>1, <1>3, <2>1 DEF WalkInv, tableVars
  <2>3. \A q : ~Adding(q) /\ ~Adding(q)'  BY <1>1, <2>1 DEF Adding
  <2>4. FreshInv'  BY <1>1, <1>3, <2>3, LeftAlone DEF FreshInv, tableVars
  <2> QED  BY <2>2, <2>4
<1>4. CASE FlushStep /\ ~Kept(p, job.i) /\ RemoveAddress(p, arr[p][job.i])
  <2>1. /\ job.i <= Len(arr[p]) /\ job' = [job EXCEPT !.i = @ + 1]
        /\ Len(arr[p]) \in Nat /\ job.i \in 1 .. Len(arr[p])
        /\ DOMAIN arr[p] = 1 .. Len(arr[p])
    <3>1. Len(arr[p]) \in Nat /\ DOMAIN arr[p] = 1 .. Len(arr[p])
      BY <1>1, OwnElements DEF IInv, Tables, IsArray
    <3> QED  BY <1>1, <1>4, <3>1 DEF FlushStep
  <2>2. /\ \A q \in Port : q # p => arr'[q] = arr[q] /\ (q \in nodes') = (q \in nodes)
        /\ ToSet(arr'[p]) \subseteq ToSet(arr[p])
    BY <1>1, <1>4, <2>1, RemoveKeeps DEF IInv
  <2>3. job'.stage = "flush"  BY <1>1, <2>1
  <2>4. ASSUME p \in fresh
        PROVE  p \in nodes /\ Handled(p) /\ ~Apart(row[p].ucast)
    <3>1. p \in nodes
      <4>1. arr[p] # <<>>  BY <1>1, <2>1
      <4> QED  BY <1>1, <4>1 DEF IInv, Fits
    <3>2. Handled(p)  BY <2>4, <3>1 DEF FreshInv
    <3> SUFFICES ASSUME Apart(row[p].ucast) PROVE FALSE  BY <3>1, <3>2
    <3>3. arr[p] = First(p, Len(Ucast(p)))  BY <1>1, <3>2 DEF Handled, Copied
    <3>4. Len(Ucast(p)) \in Nat /\ MaxServers \in Nat
      BY <1>1, UcastSorted, Dhcpv6Assumption DEF Dhcpv6Assumption, IInv
    <3> DEFINE n == IF Len(Ucast(p)) <= MaxServers THEN Len(Ucast(p)) ELSE MaxServers
    <3>5. arr[p] = [k \in 1 .. n |-> Ucast(p)[k]] /\ n \in Nat /\ n <= Len(Ucast(p))
      BY <3>3, <3>4 DEF First
    <3> HIDE DEF n
    <3>6. job.i \in 1 .. n  BY <2>1, <3>5
    <3>7. arr[p][job.i] = Ucast(p)[job.i] /\ job.i <= Len(Ucast(p))
      BY <3>4, <3>5, <3>6
    <3>8. arr[p][job.i] \in Addr  BY <1>1, <2>1 DEF IInv, Tables, ToSet
    <3>9. TakenFor(arr[p][job.i], Ucast(p)[job.i])
      BY <3>7, <3>8, Dhcpv6Assumption DEF Dhcpv6Assumption, TakenFor
    <3> QED  BY <1>4, <3>7, <3>9 DEF Kept
  <2>5. WalkInv'  BY <1>1, <1>2, <2>3 DEF WalkInv
  <2>6. \A q : ~Adding(q) /\ ~Adding(q)'  BY <1>1, <2>3 DEF Adding
  <2>7. ASSUME p \in fresh  PROVE Pending(p)' /\ Handled(p)'
    <3>1. Handled(p) /\ ~Apart(row[p].ucast)  BY <2>4, <2>7
    <3>2. row' = row /\ (~Changed(p))'  BY <1>1, <3>1 DEF Changed, Handled
    <3> QED  BY <2>2, <3>1, <3>2 DEF Handled, Pending
  <2>8. ASSUME NEW q \in fresh, q # p
        PROVE  (q \notin nodes' => Pending(q)') /\ (q \in nodes' => Handled(q)')
    <3>1. q \in Port  BY DEF FreshInv
    <3> QED  BY <1>1, <2>2, <2>6, <2>8, <3>1, LeftAlone
  <2>9. FreshInv'
    <3>1. fresh' = fresh /\ fresh \subseteq Port  BY <1>1 DEF FreshInv
    <3> QED  BY <2>7, <2>8, <3>1 DEF FreshInv
  <2> QED  BY <2>5, <2>9
<1> QED  BY <1>1, <1>3, <1>4 DEF FlushStep, EndFlush

LEMMA NextKeepsPass == IInv /\ PassInv /\ [Next]_vars => PassInv'
<1> SUFFICES ASSUME IInv, PassInv, [Next]_vars PROVE PassInv'  OBVIOUS
<1>1. CASE Begin \/ EndPass  BY <1>1, PassKeepsPass
<1>2. ASSUME NEW p \in Port, WriteRow(p)  PROVE PassInv'  BY <1>2, WriteRowKeepsPass
<1>3. CASE (\E p \in Port : RowDelete(p)) \/ DeleteStep \/ EndDelete
  BY <1>3, DeleteKeepsPass
<1>4. ASSUME NEW p \in Port, ConfigChange(p)  PROVE PassInv'
  BY <1>4, ConfigChangeKeepsPass
<1>5. CASE AddStep \/ EndAdd  BY <1>5, AddKeepsPass
<1>6. CASE FlushStep \/ EndFlush  BY <1>6, FlushKeepsPass
<1>7. CASE FlushFault \/ Restart
  <2>1. Restart  BY <1>7 DEF FlushFault
  <2> QED  BY <2>1, RestartKeepsPass DEF IInv
<1>8. CASE UNCHANGED vars
  <2>1. UNCHANGED <<row, idl, nodes, arr, refs, fresh, pc, nodeWalk, rowWalk, job>>
    BY <1>8 DEF vars, tableVars
  <2>2. \A p : Changed(p)' = Changed(p) /\ Copied(p)' = Copied(p)
    BY <2>1 DEF Changed, Copied, First, Adding, Ucast
  <2>3. WalkInv'  BY <2>1 DEF PassInv, WalkInv
  <2>4. FreshInv'  BY <2>1, <2>2 DEF PassInv, FreshInv, Handled, Pending
  <2> QED  BY <2>3, <2>4 DEF PassInv
<1> QED  BY <1>1, <1>2, <1>3, <1>4, <1>5, <1>6, <1>7, <1>8 DEF Next, MainThread

LEMMA InitPass == Init => PassInv
<1> SUFFICES ASSUME Init PROVE PassInv  OBVIOUS
<1>1. WalkInv  BY DEF Init, WalkInv, NoJob, NoChange
<1>2. FreshInv  BY DEF Init, FreshInv, Pending, NoRow
<1> QED  BY <1>1, <1>2 DEF PassInv

-----------------------------------------------------------------------------
(* Theorems.                                                               *)

\* Arrays without duplicates, exact counts, and an index that never outruns the
\* slots it removes, through every pass and every death.
THEOREM InductiveInvariant == Spec => []IInv
<1>1. Init => IInv
  <2>1. Init => Rows  BY DEF Init, NoRow, Rows
  <2> QED  BY <2>1, EmptyTables DEF Init, Empty
<1>2. IInv /\ [Next]_vars => IInv'
  <2> SUFFICES ASSUME IInv, [Next]_vars PROVE IInv'  OBVIOUS
  <2>1. CASE Begin \/ EndPass \/ \E p \in Port : WriteRow(p)
    <3>1. Rows'  BY <2>1, RowsWritten DEF Begin, EndPass, IInv, Rows
    <3> QED  BY <2>1, <3>1, OutsideStep DEF Begin, EndPass, WriteRow, tableVars
  <2>2. ASSUME NEW p \in Port, RowDelete(p) \/ ConfigChange(p)  PROVE IInv'
    BY <2>2, WalkStep
  <2>3. CASE DeleteStep \/ EndDelete  BY <2>3, DeleteLoop
  <2>4. CASE AddStep \/ EndAdd  BY <2>4, AddLoop
  <2>5. CASE FlushStep \/ EndFlush  BY <2>5, FlushLoop
  <2>6. CASE FlushFault \/ Restart
    <3>1. Restart  BY <2>6 DEF FlushFault
    <3> QED  BY <3>1, RestartKeeps
  <2>7. CASE UNCHANGED vars
    BY <2>7, OutsideStep DEF vars, tableVars, IInv, Rows
  <2> QED  BY <2>1, <2>2, <2>3, <2>4, <2>5, <2>6, <2>7 DEF Next, MainThread
<1> QED  BY <1>1, <1>2, PTL DEF Spec

\* No row, and no flush that drops the wrong server, makes an interface hold one twice.
THEOREM NoDuplicates == Spec => []NoDuplicateRefs
<1>1. IInv => NoDuplicateRefs
  BY DEF IInv, Tables, IsArray, Distinct, NoDuplicateRefs
<1> QED  BY <1>1, InductiveInvariant, PTL

\* dhcpv6r_store_address and dhcpv6r_remove_address count references exactly, so
\* an entry is freed with its last one, although a removal takes the first
\* server whose text is a prefix of the one it is asked for.
THEOREM RefCounts == Spec => []RefCountsExact
<1>1. IInv => RefCountsExact
  BY DEF IInv, Tables, Users, RefCountsExact
<1> QED  BY <1>1, InductiveInvariant, PTL

\* No array outgrows MAX_SERVERS_PER_INTERFACE or is left without its node.
THEOREM ArraysFit == Spec => []Fits
BY InductiveInvariant, PTL DEF IInv

\* What a pass has still to do of the rows is flagged, walked or in hand: the rows,
\* walks and arrays as a daemon that dies and starts again leaves them, too.
THEOREM PassInvariant == Spec => []PassInv
BY InitPass, NextKeepsPass, InductiveInvariant, PTL DEF Spec

\* Rows, nodes, arrays, counts and jobs keep their types and the arrays their limit.
THEOREM TypeCorrect == Spec => []TypeOK
<1>1. IInv /\ PassInv => TypeOK
  <2> SUFFICES ASSUME IInv, PassInv PROVE TypeOK  OBVIOUS
  <2>1. \A a \in Addr : refs[a] \in Nat  BY UsersCounted DEF IInv, Tables
  <2>2. refs \in [Addr -> Nat]  BY <2>1 DEF IInv, Tables
  <2>3. job.stage \in {"none", "delete", "add", "flush"}
    BY DEF IInv, JobInv, JobState, NoJob
  <2> QED  BY <2>2, <2>3 DEF IInv, Fits, Rows, Tables, TypeOK
<1> QED  BY <1>1, InductiveInvariant, PassInvariant, PTL

\* The first pass over a row, of any number of servers, stores only servers of
\* the row, and unless the text of one is a prefix of another's all of them as
\* far as they fit, even when rows of other interfaces have changed, been
\* deleted or killed the daemon meanwhile.
THEOREM FirstPass == Spec => []FirstPassExact
<1>1. IInv /\ PassInv => FirstPassExact
  <2> SUFFICES ASSUME IInv, PassInv, CaughtUp, NEW p \in fresh
               PROVE  /\ ToSet(arr[p]) \subseteq row[p].ucast
                      /\ Apart(row[p].ucast)
                           => Synced(p) \/ Cardinality(row[p].ucast) > MaxServers
    BY DEF FirstPassExact
  <2> USE DEF PassInv
  <2>1. p \in Port /\ pc = "idle" /\ idl.changed = {} /\ job.stage = "none"
    BY DEF CaughtUp, NoChange, FreshInv, WalkInv
  <2>2. CASE p \notin nodes
    <3>1. arr[p] = <<>> /\ (Apart(row[p].ucast) => row[p].ucast = {})
      BY <2>1, <2>2 DEF IInv, Fits, FreshInv, Pending, Changed
    <3>2. ToSet(arr[p]) = {}  BY <3>1 DEF ToSet
    <3> QED  BY <3>1, <3>2 DEF Synced
  <2>3. CASE p \in nodes
    <3>1. Handled(p)  BY <2>3 DEF FreshInv
    <3> SUFFICES ASSUME Apart(row[p].ucast), ~(Cardinality(row[p].ucast) > MaxServers)
                 PROVE  Synced(p)
      BY <3>1 DEF Handled
    <3>2. arr[p] = First(p, Len(Ucast(p)))  BY <2>1, <3>1 DEF Handled, Copied, Adding
    <3>3. /\ Len(Ucast(p)) = Cardinality(row[p].ucast) /\ Len(Ucast(p)) \in Nat
          /\ Ucast(p) \in Seq(row[p].ucast) /\ DOMAIN Ucast(p) = 1 .. Len(Ucast(p))
          /\ ToSet(Ucast(p)) = row[p].ucast
      BY <2>1, UcastSorted DEF IInv
    <3>4. Len(Ucast(p)) <= MaxServers
      BY <3>3, Dhcpv6Assumption DEF Dhcpv6Assumption
    <3>5. First(p, Len(Ucast(p))) = Ucast(p)  BY <3>3, <3>4 DEF First
    <3> QED  BY <3>2, <3>3, <3>5 DEF Synced
  <2> QED  BY <2>2, <2>3
<1> QED  BY <1>1, InductiveInvariant, PassInvariant, PTL
=============================================================================
