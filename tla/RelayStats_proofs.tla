--------------------------- MODULE RelayStats_proofs ---------------------------
(***************************************************************************)
(* A counter that the replica shows wrong is published right.              *)
(***************************************************************************)
EXTENDS RelayStats, FiniteSetTheorems, TLAPS

\* A set of positive numbers up to a bound has a greatest element.
LEMMA MaxType ==
  ASSUME NEW n \in Nat, NEW S \in SUBSET (1..n), S # {}
  PROVE  Max(S) \in S
<1> DEFINE T == {n - x : x \in S}
<1>1. T \subseteq Nat /\ T # {}
  <2>1. \A x \in S : n - x \in Nat  OBVIOUS
  <2> QED  BY <2>1
<1>2. PICK t \in T : \A y \in T : ~(<<y, t>> \in OpToRel(<, Nat))
  <2> HIDE DEF T
  <2> QED  BY <1>1, WFMin, NatLessThanWellFounded, Zenon
<1>3. \A y \in T : ~(y < t)  BY <1>1, <1>2 DEF OpToRel
<1>4. PICK x \in S : t = n - x  BY <1>2
<1>5. \A y \in S : x >= y
  <2> TAKE y \in S
  <2>1. ~(n - y < n - x)  BY <1>3, <1>4
  <2> QED  BY <2>1
<1> QED  BY <1>4, <1>5 DEF Max

\* The greatest element of a set is Max, whatever CHOOSE would pick.
LEMMA MaxIs ==
  ASSUME NEW S \in SUBSET Nat, NEW m \in S, \A k \in S : m >= k
  PROVE  Max(S) = m
<1> DEFINE x == Max(S)
<1>1. x \in S /\ \A k \in S : x >= k  BY DEF Max
<1> HIDE DEF x
<1>2. x >= m /\ m >= x /\ x \in Nat /\ m \in Nat  BY <1>1
<1>3. x = m  BY <1>2
<1> QED  BY <1>3 DEF x

\* Each row that is visited has its place in the order, and only one.
LEMMA PlaceOf ==
  ASSUME rows \subseteq Port, NEW o \in Orders, NEW p \in Visited
  PROVE  LET j == CHOOSE j \in DOMAIN o : o[j] = p
         IN /\ j \in DOMAIN o /\ o[j] = p
            /\ DOMAIN o = 1..Cardinality(Visited) /\ Cardinality(Visited) \in Nat
<1> DEFINE n == Cardinality(Visited)
<1>1. IsFiniteSet(Visited) /\ n \in Nat
  <2>1. Visited \subseteq Port  BY DEF Visited
  <2> QED  BY <2>1, FS_Subset, FS_CardinalityType, StatsAssumption
<1>2. Cardinality(1..n) = n  BY <1>1, FS_Interval
<1>3. o \in [1..n -> Visited] /\ \A i, k \in 1..n : o[i] = o[k] => i = k
  BY DEF Orders
<1>4. o \in Injection(1..n, Visited)  BY <1>3 DEF Injection, IsInjective
<1>5. o \in Surjection(1..n, Visited)
  BY <1>1, <1>2, <1>4, FS_Injection
<1>6. \E j \in 1..n : o[j] = p  BY <1>5 DEF Surjection
<1> QED  BY <1>1, <1>3, <1>6

\* At a row whose counter differs, int_values has that counter of that row.
LEMMA PutLast ==
  ASSUME NEW o \in Orders, NEW j \in Nat \ {0}, NEW c \in Counter, Differs(o[j], c)
  PROVE  IntValues(o, j)[c] = count[o[j]][c]
<1> DEFINE put == {i \in 1..j : Differs(o[i], c)}
<1>1. put \in SUBSET Nat /\ j \in put /\ \A i \in put : j >= i  OBVIOUS
<1>2. Max(put) = j
  <2> HIDE DEF put
  <2> QED  BY <1>1, MaxIs
<1> QED  BY <1>1, <1>2 DEF IntValues

LEMMA IntValuesType ==
  ASSUME TypeOK, NEW o \in Orders, NEW j \in DOMAIN o
  PROVE  IntValues(o, j) \in Counts
<1> SUFFICES ASSUME NEW c \in Counter
             PROVE  IntValues(o, j)[c] \in 0..MaxCount
  BY DEF IntValues, Counts
<1> DEFINE put == {i \in 1..j : Differs(o[i], c)}
<1>1. CASE put = {}  BY <1>1, StatsAssumption DEF IntValues
<1>2. CASE put # {}
  <2>1. DOMAIN o = 1..Cardinality(Visited) /\ o \in [DOMAIN o -> Visited]
    BY DEF Orders
  <2>2. j \in Nat /\ 1..j \subseteq DOMAIN o
    <3>1. Cardinality(Visited) \in Nat
      BY FS_Subset, FS_CardinalityType, StatsAssumption DEF TypeOK, Visited
    <3> QED  BY <2>1, <3>1
  <2>3. Max(put) \in put
    <3>1. put \in SUBSET (1..j)  OBVIOUS
    <3> HIDE DEF put
    <3> QED  BY <1>2, <2>2, <3>1, MaxType
  <2>4. o[Max(put)] \in Port
    <3>1. Max(put) \in DOMAIN o  BY <2>2, <2>3
    <3>2. Visited \subseteq Port  BY DEF TypeOK, Visited
    <3> HIDE DEF put
    <3> QED  BY <2>1, <3>1, <3>2
  <2>5. count[o[Max(put)]][c] \in 0..MaxCount  BY <2>4 DEF TypeOK, Counts
  <2>6. IntValues(o, j)[c] = count[o[Max(put)]][c]  BY <1>2 DEF IntValues
  <2> QED  BY <2>5, <2>6
<1> QED  BY <1>1, <1>2

\* What a refresh appends is a transaction.
LEMMA RefreshType ==
  ASSUME TypeOK, Refresh
  PROVE  sent' \in Seq(Transactions)
<1>1. PICK o \in Orders :
        sent' = IF DOMAIN Columns(o) = {} THEN sent ELSE Append(sent, Columns(o))
  BY DEF Refresh
<1> DEFINE D == DOMAIN Columns(o)
<1>2. D \subseteq Visited /\ D \subseteq Port  BY DEF Columns, Visited, TypeOK
<1>3. ASSUME NEW p \in D  PROVE Columns(o)[p] \in Counts
  <2>1. p \in Visited /\ rows \subseteq Port  BY <1>2 DEF TypeOK
  <2>2. (CHOOSE j \in DOMAIN o : o[j] = p) \in DOMAIN o  BY <2>1, PlaceOf
  <2>3. Columns(o)[p] = IntValues(o, CHOOSE j \in DOMAIN o : o[j] = p)  BY DEF Columns
  <2> QED  BY <2>2, <2>3, IntValuesType
<1>4. Columns(o) \in [D -> Counts]
  <2>1. Columns(o) = [p \in D |-> Columns(o)[p]]  BY DEF Columns
  <2> QED  BY <1>3, <2>1
<1>5. ASSUME D # {}  PROVE Columns(o) \in Transactions
  <2> HIDE DEF D
  <2> QED  BY <1>2, <1>4, <1>5 DEF Transactions
<1>6. sent \in Seq(Transactions)  BY DEF TypeOK
<1>7. CASE D = {}  BY <1>1, <1>6, <1>7
<1>8. CASE D # {}
  <2>1. sent' = Append(sent, Columns(o))  BY <1>1, <1>8
  <2> HIDE DEF D
  <2> QED  BY <2>1, <1>5, <1>6, <1>8
<1> QED  BY <1>7, <1>8

\* Ports, columns, counters and transactions keep their types.
THEOREM TypeCorrect == Spec => []TypeOK
<1>1. Init => TypeOK
  <2>1. NoCounts \in Counts  BY StatsAssumption DEF NoCounts, Counts
  <2>2. <<>> \in Seq(Transactions)  OBVIOUS
  <2>3. Init => /\ column \in [Port -> Counts] /\ count \in [Port -> Counts]
                /\ \A p \in Port \ nodes : count[p] = NoCounts
    BY <2>1 DEF Init
  <2>4. Init => sent \in Seq(Transactions)  BY <2>2 DEF Init
  <2>5. Init => wait \in Nat  BY DEF Init
  <2>6. Init => changed \in BOOLEAN  BY Zenon DEF Init
  <2> QED  BY <2>3, <2>4, <2>5, <2>6 DEF Init, TypeOK
<1>2. TypeOK /\ [Next]_vars => TypeOK'
  <2> SUFFICES ASSUME TypeOK, [Next]_vars  PROVE TypeOK'
    OBVIOUS
  <2> USE DEF ovsdbVars, daemonVars
  <2>1. CASE UNCHANGED vars  BY <2>1 DEF TypeOK, vars, Transactions
  <2>2. CASE Change  BY <2>2 DEF TypeOK, Change, Transactions
  <2>3. CASE SetInterval  BY <2>3 DEF TypeOK, SetInterval, Transactions
  <2>4. CASE Disconnect  BY <2>4 DEF TypeOK, Disconnect, Transactions
  <2>5. CASE Count
    BY <2>5, StatsAssumption DEF TypeOK, Count, Counts
  <2>6. CASE Restart
    BY <2>6, StatsAssumption DEF TypeOK, Restart, Counts, NoCounts
  <2>7. CASE Written
    <3>1. Head(sent) \in Transactions /\ Tail(sent) \in Seq(Transactions)
      BY <2>7 DEF Written, TypeOK
    <3>2. \A p \in DOMAIN Head(sent) : Head(sent)[p] \in Counts
      BY <3>1 DEF Transactions
    <3>3. column' \in [Port -> Counts]  BY <2>7, <3>2 DEF Written, TypeOK
    <3> QED  BY <2>7, <3>1, <3>3 DEF Written, TypeOK
  <2>8. CASE Tick  BY <2>8 DEF TypeOK, Tick
  <2>9. CASE Reconfigure
    <3>1. sent' \in Seq(Transactions)
      BY <2>9, RefreshType DEF Reconfigure, RunStatsUpdate, TypeOK
    <3>2. timer_interval' \in Interval \cup {0, Default} /\ wait' \in Nat
      BY <2>9, StatsAssumption DEF Reconfigure, RunStatsUpdate, TypeOK
    <3>3. /\ nodes' \subseteq Port
          /\ count' \in [Port -> Counts]
          /\ \A p \in Port \ nodes' : count'[p] = NoCounts
      BY <2>9, StatsAssumption DEF Reconfigure, UpdateTables, TypeOK, Counts, NoCounts
    <3> QED  BY <2>9, <3>1, <3>2, <3>3 DEF Reconfigure, TypeOK
  <2> QED
    BY <2>1, <2>2, <2>3, <2>4, <2>5, <2>6, <2>7, <2>8, <2>9 DEF Next, Own
<1> QED  BY <1>1, <1>2, PTL DEF Spec

\* A counter that the replica shows wrong is sent right, in every refresh, for
\* any ports and counters and any order of the rows.
THEOREM DifferencesAreSent == Spec => DifferencesSent
<1>1. ASSUME TypeOK, Reconfigure, Due,
             NEW p \in Visited, NEW c \in Counter, Differs(p, c)
      PROVE  sent'[Len(sent')][p][c] = count[p][c]
  <2>1. PICK o \in Orders :
          sent' = IF DOMAIN Columns(o) = {} THEN sent ELSE Append(sent, Columns(o))
    BY <1>1 DEF Reconfigure, RunStatsUpdate, Refresh
  <2> DEFINE j == CHOOSE j \in DOMAIN o : o[j] = p
  <2>2. o[j] = p /\ j \in Nat \ {0}
    <3>1. rows \subseteq Port  BY <1>1 DEF TypeOK
    <3>2. /\ j \in DOMAIN o /\ o[j] = p
          /\ DOMAIN o = 1..Cardinality(Visited) /\ Cardinality(Visited) \in Nat
      BY <1>1, <3>1, PlaceOf
    <3> HIDE DEF j
    <3> QED  BY <3>2
  <2>3. p \in DOMAIN Columns(o) /\ Columns(o)[p] = IntValues(o, j)
    BY <1>1 DEF Columns
  <2>4. IntValues(o, j)[c] = count[p][c]
    <3> HIDE DEF j
    <3> QED  BY <1>1, <2>2, PutLast
  <2>5. sent' = Append(sent, Columns(o)) /\ sent \in Seq(Transactions)
    BY <1>1, <2>1, <2>3 DEF TypeOK
  <2>6. sent'[Len(sent')] = Columns(o)  BY <2>5
  <2> QED  BY <2>3, <2>4, <2>6
<1>2. TypeOK /\ [Next]_vars =>
        [Reconfigure /\ Due =>
           \A p \in Visited, c \in Counter :
             Differs(p, c) => sent'[Len(sent')][p][c] = count[p][c]]_vars
  BY <1>1
<1> QED  BY <1>2, TypeCorrect, PTL DEF Spec, DifferencesSent
=============================================================================
